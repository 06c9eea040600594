-------------------------- MODULE ReleaseSealProofs --------------------------
(***************************************************************************)
(* What the answer of a sealer means to the verifier, for every package,   *)
(* every walk of it and any number of sealers and edits.  The argument: as *)
(* long as nobody touches the tree, what a scan has read is what the tree  *)
(* has in the directories entered so far (ScanSound); so a scan that is    *)
(* over has the tree as a whole, and the verifier expects what is built of *)
(* it up to the files it leaves out of the sums.  For the package called   *)
(* stale: sums in the form of the sealer bind, through the bytes of the    *)
(* other two documents, a whole seal (WellBuilt).                          *)
(***************************************************************************)
EXTENDS ReleaseSeal, TLAPS

\* What is read is as read, what is entered is read or about to be, and no
\* temporary file was there.
ScanSound(s) ==
  /\ DOMAIN got[s] \subseteq Payload
  /\ \A p \in DOMAIN got[s] : got[s][p] = tree[p]
  /\ \A i \in 1 .. visited[s] :
       /\ Directory[i] \cap Payload \subseteq DOMAIN got[s] \cup todo[s]
       /\ \A t \in Sealer : temp[t] \cap Directory[i] = {}

ScansSound == \A s \in Sealer : pc[s] \in Scanning /\ ~touched[s] => ScanSound(s)

\* Sums that nobody has edited name a manifest and pins built of what they name.
WellBuilt(sums) ==
  \/ sums.form = "edited"
  \/ LET e == sums.entries IN
       /\ sums = Sealed(e)
       /\ {"pins", "manifest"} \subseteq DOMAIN e
       /\ e["manifest"] = Sealed([p \in DOMAIN e \ {"manifest"} |-> e[p]])
       /\ e["pins"] = Sealed([p \in Pinned \cap DOMAIN e |-> e[p]])

\* So are those in the tree and those about to be.
SumsWellBuilt ==
  /\ tree["sums"] # Absent => WellBuilt(tree["sums"])
  /\ \A s \in Sealer : pc[s] \in {"staging", "replacing"} => WellBuilt(docs[s]["sums"])

\* The inductive invariant.
SealInv == SealTypeOK /\ ScansSound /\ SumsWellBuilt /\ SealMeansVerified

----------------------------------------------------------------------------
(* Types *)

\* Where a sealer may be.
Place == {"new", "staging", "replacing", "replaced"} \cup Scanning \cup Ended

\* The end of a sealer keeps the types of all it resets.
LEMMA EndsKeepsTypes ==
  ASSUME SealTypeOK, NEW s \in Sealer, NEW outcome \in Ended, Ends(s, outcome)
  PROVE  /\ pc' \in [Sealer -> Place] /\ pc'[s] \in Ended
         /\ visited' \in [Sealer -> 0 .. Len(Directory)]
         /\ todo' \in [Sealer -> SUBSET Path]
         /\ DOMAIN got' = Sealer /\ \A t \in Sealer : DOMAIN got'[t] \subseteq Path
         /\ DOMAIN docs' = Sealer
         /\ stale' \in [Sealer -> SUBSET Generated]
         /\ \A t \in Sealer \ {s} : pc'[t] = pc[t] /\ stale'[t] = stale[t]
<1>1. Len(Directory) \in Nat
  BY SealAssumption
<1>2. DOMAIN <<>> = {}
  OBVIOUS
<1> QED BY <1>1, <1>2 DEF SealTypeOK, Ends, Goes, Place

\* So a step that ends a sealer and changes nothing else keeps them all.
LEMMA OnlyEndsKeepsTypes ==
  ASSUME SealTypeOK, NEW s \in Sealer, NEW outcome \in Ended, Ends(s, outcome),
         UNCHANGED <<tree, temp, edits, touched>>
  PROVE  SealTypeOK'
<1>1. pc'[s] \notin {"staging", "replacing", "new", "replaced"} \cup Scanning
  BY EndsKeepsTypes DEF Ended, Scanning
<1> QED BY <1>1, EndsKeepsTypes DEF SealTypeOK, Place

\* A scan that begins keeps the types.
LEMMA BeginScanKeepsTypes ==
  ASSUME SealTypeOK, NEW s \in Sealer, Start(s) \/ ScanAgain(s)
  PROVE  SealTypeOK'
<1>1. PICK from \in {"new", "replaced"}, to \in Scanning : BeginScan(s, from, to)
  BY DEF Start, ScanAgain, Scanning
<1>2. Len(Directory) \in Nat /\ DOMAIN <<>> = {}
  BY SealAssumption
<1>3. to \notin {"staging", "replacing"} /\ to \in Place
  BY DEF Scanning, Place
<1> QED BY <1>1, <1>2, <1>3 DEF SealTypeOK, BeginScan, Goes, Place

\* The listing of a directory keeps the types.
LEMMA ListDirectoryKeepsTypes ==
  ASSUME SealTypeOK, NEW s \in Sealer, ListDirectory(s)
  PROVE  SealTypeOK'
<1>1. CASE Ends(s, "failed")
  BY <1>1, OnlyEndsKeepsTypes DEF ListDirectory, Ended
<1>2. CASE ~Ends(s, "failed")
  <2>1. /\ visited' = [visited EXCEPT ![s] = @ + 1]
        /\ todo' = [todo EXCEPT ![s] = Directory[visited[s] + 1] \cap Payload]
        /\ UNCHANGED <<tree, temp, edits, pc, got, docs, stale, touched>>
        /\ visited[s] < Len(Directory)
    BY <1>2 DEF ListDirectory
  <2>2. Len(Directory) \in Nat
    BY SealAssumption
  <2>3. visited' \in [Sealer -> 0 .. Len(Directory)]
    BY <2>1, <2>2 DEF SealTypeOK
  <2>4. todo' \in [Sealer -> SUBSET Path]
    BY <2>1 DEF SealTypeOK, Payload
  <2> QED BY <2>1, <2>3, <2>4 DEF SealTypeOK
<1> QED BY <1>1, <1>2

\* The reading of a file keeps the types.
LEMMA ReadFileKeepsTypes ==
  ASSUME SealTypeOK, NEW s \in Sealer, ReadFile(s)
  PROVE  SealTypeOK'
<1>1. CASE Ends(s, "failed")
  BY <1>1, OnlyEndsKeepsTypes DEF ReadFile, Ended
<1>2. CASE ~Ends(s, "failed")
  <2>1. PICK p \in todo[s] :
          /\ todo' = [todo EXCEPT ![s] = @ \ {p}]
          /\ got' = [got EXCEPT ![s] =
               [q \in DOMAIN @ \cup {p} |-> IF q = p THEN tree[p] ELSE @[q]]]
          /\ UNCHANGED <<tree, temp, edits, pc, visited, docs, stale, touched>>
    BY <1>2 DEF ReadFile
  <2>2. p \in Path
    BY DEF SealTypeOK
  <2>3. DOMAIN got' = Sealer /\ \A t \in Sealer : DOMAIN got'[t] \subseteq Path
    BY <2>1, <2>2 DEF SealTypeOK
  <2>4. todo' \in [Sealer -> SUBSET Path]
    BY <2>1 DEF SealTypeOK
  <2> QED BY <2>1, <2>3, <2>4 DEF SealTypeOK
<1> QED BY <1>1, <1>2

\* The building of the documents keeps the types.
LEMMA BuildKeepsTypes ==
  ASSUME SealTypeOK, NEW s \in Sealer, Build(s)
  PROVE  SealTypeOK'
<1>1. CASE \E outcome \in Ended : Ends(s, outcome)
  BY <1>1, OnlyEndsKeepsTypes DEF Build
<1>2. CASE ~\E outcome \in Ended : Ends(s, outcome)
  <2> DEFINE d == Documents(got[s])
  <2>1. /\ pc[s] = "scanning" /\ pc' = [pc EXCEPT ![s] = "staging"]
        /\ docs' = [docs EXCEPT ![s] = d]
        /\ stale' = [stale EXCEPT ![s] = StalePaths(s, d)]
        /\ got' = [got EXCEPT ![s] = <<>>]
        /\ UNCHANGED <<tree, temp, edits, visited, todo, touched>>
    BY <1>2 DEF Build, Ended, Goes
  <2> HIDE DEF d
  <2>2. StalePaths(s, d) \subseteq Generated /\ DOMAIN <<>> = {}
    BY DEF StalePaths
  <2>3. temp[s] = {}
    BY <2>1 DEF SealTypeOK, Scanning
  <2>4. pc' \in [Sealer -> Place]
    BY <2>1 DEF SealTypeOK, Place
  <2> QED BY <2>1, <2>2, <2>3, <2>4 DEF SealTypeOK, Place, Scanning
<1> QED BY <1>1, <1>2

\* Staging and replacing keep them: what has a temporary file is still stale.
LEMMA WritingKeepsTypes ==
  ASSUME SealTypeOK, NEW s \in Sealer, StageNext(s) \/ ReplaceNext(s)
  PROVE  SealTypeOK'
<1>1. touched' \in [Sealer -> BOOLEAN]
  BY DEF SealTypeOK, StageNext, ReplaceNext, Touches
<1>2. pc' \in [Sealer -> Place]
  BY DEF SealTypeOK, StageNext, ReplaceNext, Goes, Place
<1>3. CASE StageNext(s)
  <2>1. temp' \in [Sealer -> SUBSET Generated]
    BY <1>3 DEF SealTypeOK, StageNext
  <2>2. \A t \in Sealer : /\ pc'[t] \in {"staging", "replacing"} => temp'[t] \subseteq stale[t]
                          /\ pc'[t] \in {"new", "replaced"} \cup Scanning => temp'[t] = {}
    BY <1>3 DEF SealTypeOK, StageNext, Goes, First, Scanning
  <2> QED BY <1>1, <1>2, <1>3, <2>1, <2>2 DEF SealTypeOK, StageNext, scan, Place
<1>4. CASE ReplaceNext(s)
  <2>1. temp' \in [Sealer -> SUBSET Generated] /\ stale' \in [Sealer -> SUBSET Generated]
    BY <1>4 DEF SealTypeOK, ReplaceNext
  <2>2. \A t \in Sealer : /\ pc'[t] \in {"staging", "replacing"} => temp'[t] \subseteq stale'[t]
                          /\ pc'[t] \in {"new", "replaced"} \cup Scanning => temp'[t] = {}
    BY <1>4 DEF SealTypeOK, ReplaceNext, Goes, Scanning
  <2>3. DOMAIN tree' = Path /\ \A p \in Source : tree'[p] \in Content \cup {Absent}
    <3>1. CASE UNCHANGED tree
      BY <3>1 DEF SealTypeOK
    <3>2. CASE ~UNCHANGED tree
      <4>1. PICK g \in Generated : tree' = [tree EXCEPT ![g] = docs[s][g]]
        BY <1>4, <3>2 DEF ReplaceNext
      <4> QED BY <4>1, SealAssumption DEF SealTypeOK
    <3> QED BY <3>1, <3>2
  <2> QED BY <1>1, <1>2, <1>4, <2>1, <2>2, <2>3 DEF SealTypeOK, ReplaceNext, scan, Place
<1> QED BY <1>3, <1>4

\* A failed write keeps them, whatever temporary files are left.
LEMMA WriteFailsKeepsTypes ==
  ASSUME SealTypeOK, NEW s \in Sealer, WriteFails(s)
  PROVE  SealTypeOK'
<1>1. "failed" \in Ended /\ Ends(s, "failed")
  BY DEF WriteFails, Ended
<1>2. /\ touched' \in [Sealer -> BOOLEAN]
      /\ temp' \in [Sealer -> SUBSET Generated]
      /\ \A t \in Sealer \ {s} : temp'[t] = temp[t]
      /\ UNCHANGED <<tree, edits>>
  BY DEF SealTypeOK, WriteFails, Touches
<1>3. pc'[s] \notin {"staging", "replacing", "new", "replaced"} \cup Scanning
  BY <1>1, EndsKeepsTypes DEF Ended, Scanning
<1> QED BY <1>1, <1>2, <1>3, EndsKeepsTypes DEF SealTypeOK, Place

\* Every step keeps the types.
LEMMA SealTypesKept == SealTypeOK /\ [Next]_vars => SealTypeOK'
<1> SUFFICES ASSUME SealTypeOK, [Next]_vars PROVE SealTypeOK'
  OBVIOUS
<1>1. ASSUME NEW s \in Sealer, ScanFails(s) \/ Confirm(s) \/ Crash(s) PROVE SealTypeOK'
  BY <1>1, OnlyEndsKeepsTypes DEF ScanFails, Confirm, Crash, Ended
<1>2. ASSUME NEW s \in Sealer, RemoveResidue(s) PROVE SealTypeOK'
  BY <1>2 DEF RemoveResidue, SealTypeOK, scan
<1>3. ASSUME NEW p \in Path, Edit(p) PROVE SealTypeOK'
  <2>1. edits' \in 0 .. MaxEdits
    BY <1>3, SealAssumption DEF Edit, SealTypeOK
  <2>2. PICK content \in Rewritings(p) \cup {Absent} : tree' = [tree EXCEPT ![p] = content]
    BY <1>3 DEF Edit
  <2>3. p \in Source => content \in Content \cup {Absent}
    BY DEF Rewritings
  <2>4. DOMAIN tree' = Path /\ \A q \in Source : tree'[q] \in Content \cup {Absent}
    BY <2>2, <2>3 DEF SealTypeOK
  <2> QED BY <1>3, <2>1, <2>4 DEF Edit, SealTypeOK, scan
<1>4. CASE UNCHANGED vars
  BY <1>4 DEF vars, scan, SealTypeOK
<1> QED BY <1>1, <1>2, <1>3, <1>4, BeginScanKeepsTypes, ListDirectoryKeepsTypes,
     ReadFileKeepsTypes, BuildKeepsTypes, WritingKeepsTypes, WriteFailsKeepsTypes DEF Next

\* The state of every sealer is well formed, and its temporary files belong to
\* documents it has not yet moved into place or are residue.
THEOREM SealTypeCorrect == Spec => []SealTypeOK
<1>1. Init => SealTypeOK
  <2> SUFFICES ASSUME Init PROVE SealTypeOK
    OBVIOUS
  <2>1. PICK files \in SUBSET Source : \E f \in [files -> Content] : \E documents :
          tree = [p \in Path |-> IF p \in Generated THEN documents[p]
                                 ELSE IF p \in files THEN f[p] ELSE Absent]
    BY DEF Init
  <2>2. PICK f \in [files -> Content] : \E documents :
          tree = [p \in Path |-> IF p \in Generated THEN documents[p]
                                 ELSE IF p \in files THEN f[p] ELSE Absent]
    BY <2>1
  <2>3. PICK documents :
          tree = [p \in Path |-> IF p \in Generated THEN documents[p]
                                 ELSE IF p \in files THEN f[p] ELSE Absent]
    BY <2>2
  <2>4. DOMAIN tree = Path /\ \A p \in Source : tree[p] \in Content \cup {Absent}
    BY <2>3, SealAssumption DEF Path
  <2>5. Len(Directory) \in Nat /\ DOMAIN <<>> = {} /\ MaxEdits \in Nat
    BY SealAssumption
  <2> QED BY <2>4, <2>5 DEF Init, SealTypeOK
<1> QED BY <1>1, SealTypesKept, PTL DEF Spec

----------------------------------------------------------------------------
(* What is built and what is verified *)

\* What the three documents are, built of the tree as it is.
LEMMA BuiltOfTree ==
  ASSUME NEW f, DOMAIN f = Payload, \A p \in Payload : f[p] = tree[p], NEW d, d = Documents(f)
  PROVE  /\ d["pins"] = Sealed([p \in Pinned \cap Payload |-> tree[p]])
         /\ "pins" \in Payload /\ tree["pins"] = d["pins"]
              => d["manifest"] = Sealed([p \in Payload \ {"manifest", "sums"} |-> tree[p]])
         /\ ( /\ {"pins", "manifest"} \subseteq Payload
              /\ tree["pins"] = d["pins"] /\ tree["manifest"] = d["manifest"] )
              => d["sums"] = Sealed([p \in Payload \ {"sums"} |-> tree[p]])
<1> DEFINE Sources == DOMAIN f \ Generated
           pins == Sealed([p \in Pinned \cap DOMAIN f |-> f[p]])
           manifest == Sealed([p \in Sources \cup {"pins"} |-> IF p = "pins" THEN pins ELSE f[p]])
           sums == Sealed([p \in Sources \cup {"pins", "manifest"} |->
                     IF p = "manifest" THEN manifest ELSE manifest.entries[p]])
<1>1. /\ d["pins"] = pins /\ d["manifest"] = manifest /\ d["sums"] = sums
      /\ Generated = {"pins", "manifest", "sums"}
  BY DEF Documents, Generated
<1>2. pins = Sealed([p \in Pinned \cap Payload |-> tree[p]])
  <2>1. [p \in Pinned \cap DOMAIN f |-> f[p]] = [p \in Pinned \cap Payload |-> tree[p]]
    OBVIOUS
  <2> QED BY <2>1
<1>3. ASSUME "pins" \in Payload, tree["pins"] = pins
      PROVE  manifest = Sealed([p \in Payload \ {"manifest", "sums"} |-> tree[p]])
  <2>1. Sources \cup {"pins"} = Payload \ {"manifest", "sums"}
    BY <1>1, <1>3
  <2>2. \A p \in Payload \ {"manifest", "sums"} : (IF p = "pins" THEN pins ELSE f[p]) = tree[p]
    BY <1>3
  <2> HIDE DEF pins
  <2>3. [p \in Sources \cup {"pins"} |-> IF p = "pins" THEN pins ELSE f[p]]
          = [p \in Payload \ {"manifest", "sums"} |-> tree[p]]
    BY <2>1, <2>2
  <2> QED BY <2>3
<1>4. ASSUME "pins" \in Payload, tree["pins"] = pins,
             "manifest" \in Payload, tree["manifest"] = manifest
      PROVE  sums = Sealed([p \in Payload \ {"sums"} |-> tree[p]])
  <2>1. Sources \cup {"pins", "manifest"} = Payload \ {"sums"}
    BY <1>1, <1>4
  <2>2. manifest = Sealed([p \in Payload \ {"manifest", "sums"} |-> tree[p]])
    BY <1>3, <1>4
  <2> HIDE DEF manifest, pins
  <2>3. manifest.entries = [p \in Payload \ {"manifest", "sums"} |-> tree[p]]
    BY <2>2 DEF Sealed
  <2>4. \A p \in Payload \ {"sums"} :
          (IF p = "manifest" THEN manifest ELSE manifest.entries[p]) = tree[p]
    BY <1>4, <2>3
  <2>5. [p \in Sources \cup {"pins", "manifest"} |->
           IF p = "manifest" THEN manifest ELSE manifest.entries[p]]
          = [p \in Payload \ {"sums"} |-> tree[p]]
    BY <2>1, <2>4
  <2> QED BY <2>5
<1> HIDE DEF pins, manifest, sums, Sources
<1>5. d["pins"] = Sealed([p \in Pinned \cap Payload |-> tree[p]])
  BY <1>1, <1>2
<1>6. "pins" \in Payload /\ tree["pins"] = d["pins"]
        => d["manifest"] = Sealed([p \in Payload \ {"manifest", "sums"} |-> tree[p]])
  BY <1>1, <1>3
<1>7. ( /\ {"pins", "manifest"} \subseteq Payload
        /\ tree["pins"] = d["pins"] /\ tree["manifest"] = d["manifest"] )
        => d["sums"] = Sealed([p \in Payload \ {"sums"} |-> tree[p]])
  <2> SUFFICES ASSUME {"pins", "manifest"} \subseteq Payload,
                      tree["pins"] = d["pins"], tree["manifest"] = d["manifest"]
               PROVE  d["sums"] = Sealed([p \in Payload \ {"sums"} |-> tree[p]])
    OBVIOUS
  <2>1. tree["pins"] = pins /\ tree["manifest"] = manifest
    BY <1>1
  <2>2. sums = Sealed([p \in Payload \ {"sums"} |-> tree[p]])
    BY <1>4, <2>1
  <2> QED BY <1>1, <2>2
<1> QED BY <1>5, <1>6, <1>7

\* The sums that are built, are built of what they name.
LEMMA BuiltWellBuilt == ASSUME NEW f PROVE WellBuilt(Documents(f)["sums"])
<1> DEFINE Sources == DOMAIN f \ Generated
           pins == Sealed([p \in Pinned \cap DOMAIN f |-> f[p]])
           manifest == Sealed([p \in Sources \cup {"pins"} |-> IF p = "pins" THEN pins ELSE f[p]])
           e == [p \in Sources \cup {"pins", "manifest"} |->
                   IF p = "manifest" THEN manifest ELSE manifest.entries[p]]
<1>1. Documents(f)["sums"] = Sealed(e) /\ Generated = {"pins", "manifest", "sums"}
  BY DEF Documents, Generated
<1>2. manifest.entries = [p \in Sources \cup {"pins"} |-> IF p = "pins" THEN pins ELSE f[p]]
  BY DEF Sealed
<1>3. e["pins"] = pins
  BY <1>2
<1>4. \A p \in Sources : e[p] = f[p]
  BY <1>1, <1>2
<1>5. e["manifest"] = Sealed([p \in DOMAIN e \ {"manifest"} |-> e[p]])
  <2>1. DOMAIN e \ {"manifest"} = Sources \cup {"pins"}
    BY <1>1
  <2>2. \A p \in Sources \cup {"pins"} : e[p] = IF p = "pins" THEN pins ELSE f[p]
    BY <1>1, <1>3, <1>4
  <2> HIDE DEF e, pins
  <2>3. [p \in DOMAIN e \ {"manifest"} |-> e[p]]
          = [p \in Sources \cup {"pins"} |-> IF p = "pins" THEN pins ELSE f[p]]
    BY <2>1, <2>2
  <2>4. e["manifest"] = manifest
    BY DEF e
  <2> QED BY <2>3, <2>4
<1>6. e["pins"] = Sealed([p \in Pinned \cap DOMAIN e |-> e[p]])
  <2>1. Pinned \cap DOMAIN e = Pinned \cap DOMAIN f /\ Pinned \cap DOMAIN f \subseteq Sources
    BY <1>1, SealAssumption
  <2> HIDE DEF e
  <2>2. [p \in Pinned \cap DOMAIN e |-> e[p]] = [p \in Pinned \cap DOMAIN f |-> f[p]]
    BY <1>4, <2>1
  <2> QED BY <1>3, <2>2
<1>7. {"pins", "manifest"} \subseteq DOMAIN e
  OBVIOUS
<1> HIDE DEF e, pins, manifest
<1>8. Sealed(e).entries = e
  BY DEF Sealed
<1> QED BY <1>1, <1>5, <1>6, <1>7, <1>8 DEF WellBuilt

\* A tree that has what is built of it, verifies if and only if the required
\* files are there, and none that the verifier leaves out of the sums or
\* cannot read in them.
LEMMA FreshIsVerified ==
  ASSUME NEW f, DOMAIN f = Payload, \A p \in Payload : f[p] = tree[p],
         \A s \in Sealer : temp[s] = {}, Buildable(f),
         \A g \in Generated : g \in DOMAIN f /\ f[g] = Documents(f)[g]
  PROVE  Verifies <=> Required \subseteq Payload /\ (Namesakes \cup Splitting) \cap Payload = {}
<1>1. /\ "pins" \in Payload /\ "manifest" \in Payload /\ "sums" \in Payload
      /\ tree["pins"] = Documents(f)["pins"] /\ tree["manifest"] = Documents(f)["manifest"]
      /\ tree["sums"] = Documents(f)["sums"]
  BY DEF Generated
<1>2. /\ tree["pins"] = Sealed([p \in Pinned \cap Payload |-> tree[p]])
      /\ tree["manifest"] = Sealed([p \in Payload \ {"manifest", "sums"} |-> tree[p]])
      /\ tree["sums"] = Sealed([p \in Payload \ {"sums"} |-> tree[p]])
  <2> DEFINE d == Documents(f)
  <2> HIDE DEF d
  <2> QED BY <1>1, BuiltOfTree DEF d
<1>3. /\ tree["pins"].entries = [p \in Pinned \cap Payload |-> tree[p]]
      /\ tree["manifest"].entries = [p \in Payload \ {"manifest", "sums"} |-> tree[p]]
      /\ tree["sums"].entries = [p \in Payload \ {"sums"} |-> tree[p]]
  BY <1>2 DEF Sealed
<1>4. tree["pins"].entries = Entries("pins") /\ tree["manifest"].entries = Entries("manifest")
  BY <1>3 DEF Entries, Expected
<1>5. Cardinality(Expected("pins")) = PinCount
  BY DEF Expected, Buildable
<1>6. Entries("sums") = [p \in Payload \ ({"sums"} \cup Namesakes) |-> tree[p]]
  BY DEF Entries, Expected
<1>7. "sums" \notin Source
  BY SealAssumption DEF Generated
<1>8. tree["sums"].entries = Entries("sums") <=> Namesakes \cap Payload = {}
  <2>1. ASSUME tree["sums"].entries = Entries("sums") PROVE Namesakes \cap Payload = {}
    <3>1. DOMAIN tree["sums"].entries = DOMAIN Entries("sums")
      BY <2>1
    <3>2. Payload \ {"sums"} = Payload \ ({"sums"} \cup Namesakes)
      BY <1>3, <1>6, <3>1
    <3> QED BY <1>7, <3>2, SealAssumption
  <2>2. ASSUME Namesakes \cap Payload = {} PROVE tree["sums"].entries = Entries("sums")
    <3>1. Payload \ {"sums"} = Payload \ ({"sums"} \cup Namesakes)
      BY <2>2
    <3> QED BY <1>3, <1>6, <3>1
  <2> QED BY <2>1, <2>2
<1>9. DOMAIN tree["sums"].entries \cap Splitting = {} <=> Splitting \cap Payload = {}
  BY <1>3, <1>7, SealAssumption
<1>10. Generated \subseteq Payload
  BY <1>1 DEF Generated
<1>11. (\A g \in Generated : tree[g].entries = Entries(g)) <=> tree["sums"].entries = Entries("sums")
  BY <1>4 DEF Generated
<1> QED BY <1>5, <1>8, <1>9, <1>10, <1>11 DEF Verifies

\* A tree that verifies, with sums that nobody has edited, has what is built of it.
LEMMA VerifiedIsFresh ==
  ASSUME NEW f, DOMAIN f = Payload, \A p \in Payload : f[p] = tree[p],
         Verifies, WellBuilt(tree["sums"]), tree["sums"].form # "edited",
         NEW d, d = Documents(f)
  PROVE  \A g \in Generated : g \in DOMAIN f /\ f[g] = d[g]
<1> DEFINE e == tree["sums"].entries
<1>1. /\ "pins" \in Payload /\ "manifest" \in Payload /\ "sums" \in Payload
      /\ Generated = {"pins", "manifest", "sums"} /\ Source \cap Generated = {}
  BY SealAssumption DEF Verifies, Generated
<1>2. /\ e = [p \in Payload \ ({"sums"} \cup Namesakes) |-> tree[p]]
      /\ tree["manifest"].entries = [p \in Payload \ {"manifest", "sums"} |-> tree[p]]
  BY <1>1 DEF Verifies, Entries, Expected
<1>3. /\ tree["sums"] = Sealed(e)
      /\ e["manifest"] = Sealed([p \in DOMAIN e \ {"manifest"} |-> e[p]])
      /\ e["pins"] = Sealed([p \in Pinned \cap DOMAIN e |-> e[p]])
      /\ {"pins", "manifest"} \subseteq DOMAIN e
  BY DEF WellBuilt
<1> HIDE DEF e
<1>4. e["manifest"] = tree["manifest"] /\ e["pins"] = tree["pins"]
  BY <1>2, <1>3
<1>5. tree["manifest"].entries = [p \in DOMAIN e \ {"manifest"} |-> e[p]]
  BY <1>3, <1>4 DEF Sealed
<1>6. DOMAIN e \ {"manifest"} = Payload \ {"manifest", "sums"}
  BY <1>2, <1>5
<1>7. DOMAIN e = Payload \ {"sums"} /\ e = [p \in Payload \ {"sums"} |-> tree[p]]
  BY <1>1, <1>2, <1>3, <1>6
<1>8. Pinned \cap DOMAIN e = Pinned \cap Payload
  BY <1>1, <1>7, SealAssumption
<1>9. tree["pins"] = d["pins"]
  <2>1. [p \in Pinned \cap DOMAIN e |-> e[p]] = [p \in Pinned \cap Payload |-> tree[p]]
    BY <1>7, <1>8
  <2>2. tree["pins"] = Sealed([p \in Pinned \cap Payload |-> tree[p]])
    BY <1>3, <1>4, <2>1
  <2>3. d["pins"] = Sealed([p \in Pinned \cap Payload |-> tree[p]])
    BY BuiltOfTree
  <2> QED BY <2>2, <2>3
<1>10. tree["manifest"] = d["manifest"]
  <2>1. tree["manifest"] = Sealed([p \in Payload \ {"manifest", "sums"} |-> tree[p]])
    BY <1>2, <1>3, <1>4, <1>5
  <2> QED BY <1>1, <1>9, <2>1, BuiltOfTree
<1>11. tree["sums"] = d["sums"]
  BY <1>1, <1>3, <1>7, <1>9, <1>10, BuiltOfTree
<1> QED BY <1>1, <1>9, <1>10, <1>11

\* A scan that is over has read the tree, and no temporary file is left.
LEMMA ScanIsTree ==
  ASSUME SealTypeOK, NEW s \in Sealer, ScanOver(s), ScanSound(s)
  PROVE  /\ DOMAIN got[s] = Payload
         /\ \A p \in Payload : got[s][p] = tree[p]
         /\ \A t \in Sealer : temp[t] = {}
<1>1. ASSUME NEW p \in Path
      PROVE  /\ p \in Payload => p \in DOMAIN got[s]
             /\ \A t \in Sealer : p \notin temp[t]
  <2>1. PICK i \in 1 .. Len(Directory) : p \in Directory[i]
    BY SealAssumption
  <2>2. i \in 1 .. visited[s] /\ todo[s] = {}
    BY <2>1 DEF ScanOver
  <2> QED BY <2>1, <2>2 DEF ScanSound
<1>2. \A t \in Sealer : temp[t] \subseteq Path
  BY DEF SealTypeOK, Path
<1> QED BY <1>1, <1>2 DEF ScanSound, Payload

----------------------------------------------------------------------------
(* Sealers, and others at work *)

\* A step of a sealer.
SealerStep(s) ==
  \/ Start(s) \/ ScanAgain(s)
  \/ ListDirectory(s) \/ ReadFile(s) \/ ScanFails(s)
  \/ Build(s) \/ StageNext(s) \/ ReplaceNext(s) \/ WriteFails(s) \/ Confirm(s)
  \/ Crash(s) \/ RemoveResidue(s)

\* A step that leaves a sealer alone with the tree.
LeftAlone(s) ==
  /\ UNCHANGED <<tree, temp>>
  /\ pc'[s] = pc[s] /\ visited'[s] = visited[s] /\ todo'[s] = todo[s] /\ got'[s] = got[s]
  /\ ~touched[s]

\* Other sealers and editors leave it alone or touch the tree.
LEMMA OthersTouch ==
  ASSUME SealTypeOK, [Next]_vars, NEW s \in Sealer, ~touched'[s], ~SealerStep(s)
  PROVE  LeftAlone(s)
<1>1. ASSUME NEW t \in Sealer \ {s}, SealerStep(t) PROVE LeftAlone(s)
  <2>1. CASE Start(t) \/ ScanAgain(t)
    BY <2>1 DEF Start, ScanAgain, BeginScan, Goes, SealTypeOK, LeftAlone
  <2>2. ASSUME NEW outcome, Ends(t, outcome), UNCHANGED <<tree, temp, touched>>
        PROVE  LeftAlone(s)
    BY <2>2 DEF Ends, Goes, SealTypeOK, LeftAlone
  <2>3. CASE ScanFails(t) \/ Confirm(t) \/ Crash(t)
    BY <2>2, <2>3 DEF ScanFails, Confirm, Crash
  <2>4. CASE ListDirectory(t)
    <3>1. \/ Ends(t, "failed")
          \/ /\ visited' = [visited EXCEPT ![t] = @ + 1]
             /\ todo' = [todo EXCEPT ![t] = Directory[visited[t] + 1] \cap Payload]
             /\ UNCHANGED <<pc, got>>
      BY <2>4 DEF ListDirectory
    <3>2. UNCHANGED <<tree, temp, touched>>
      BY <2>4 DEF ListDirectory
    <3> QED BY <2>2, <3>1, <3>2 DEF SealTypeOK, LeftAlone
  <2>5. CASE ReadFile(t)
    BY <2>2, <2>5 DEF ReadFile, SealTypeOK, LeftAlone
  <2>6. CASE Build(t)
    <3>1. \/ \E outcome : Ends(t, outcome)
          \/ Goes(t, "staging") /\ got' = [got EXCEPT ![t] = <<>>] /\ UNCHANGED <<visited, todo>>
      BY <2>6 DEF Build
    <3>2. UNCHANGED <<tree, temp, touched>>
      BY <2>6 DEF Build
    <3> QED BY <2>2, <3>1, <3>2 DEF Goes, SealTypeOK, LeftAlone
  <2>7. CASE StageNext(t) \/ ReplaceNext(t)
    <3>1. touched'[s] = TRUE \/ UNCHANGED <<tree, temp, touched>>
      BY <2>7 DEF StageNext, ReplaceNext, Touches
    <3> QED BY <2>7, <3>1 DEF StageNext, ReplaceNext, Goes, scan, SealTypeOK, LeftAlone
  <2>8. CASE WriteFails(t) \/ RemoveResidue(t)
    BY <2>8 DEF WriteFails, RemoveResidue, Touches
  <2> QED BY <1>1, <2>1, <2>3, <2>4, <2>5, <2>6, <2>7, <2>8 DEF SealerStep
<1>2. ASSUME NEW p \in Path, Edit(p) PROVE FALSE
  BY <1>2 DEF Edit
<1>3. CASE UNCHANGED vars
  BY <1>3 DEF vars, scan, LeftAlone
<1>4. Next => \/ \E t \in Sealer : SealerStep(t)
              \/ \E p \in Path : Edit(p)
  BY DEF Next, SealerStep
<1> QED BY <1>1, <1>2, <1>3, <1>4

\* Left alone, a scan stays sound.
LEMMA AloneKeepsScan ==
  ASSUME NEW s \in Sealer, LeftAlone(s), ScanSound(s)
  PROVE  ScanSound(s)'
<1>1. Payload' = Payload
  BY DEF LeftAlone, Payload
<1> QED BY <1>1 DEF LeftAlone, ScanSound

\* The sealer's own steps keep its scan sound.
LEMMA StepKeepsScan ==
  ASSUME SealInv, NEW s \in Sealer, SealerStep(s), pc'[s] \in Scanning, ~touched'[s]
  PROVE  ScanSound(s)'
<1> USE DEF SealInv
<1>0. \A outcome \in Ended : ~Ends(s, outcome)
  BY DEF Ends, Goes, SealTypeOK, Ended, Scanning
<1>1. CASE Start(s) \/ ScanAgain(s)
  <2>1. got'[s] = <<>> /\ visited'[s] = 0 /\ DOMAIN <<>> = {}
    BY <1>1 DEF Start, ScanAgain, BeginScan, SealTypeOK
  <2> QED BY <2>1 DEF ScanSound
<1>2. CASE ListDirectory(s)
  <2> DEFINE names == Directory[visited[s] + 1]
  <2>1. /\ visited'[s] = visited[s] + 1 /\ todo'[s] = names \cap Payload
        /\ UNCHANGED <<tree, temp, pc, got, touched>>
        /\ \A t \in Sealer : temp[t] \cap names = {}
        /\ todo[s] = {}
    BY <1>0, <1>2 DEF ListDirectory, SealTypeOK, Ended
  <2>2. ScanSound(s)
    BY <2>1 DEF ScansSound
  <2>3. Payload' = Payload /\ visited[s] \in Nat
    BY <2>1, SealAssumption DEF Payload, SealTypeOK
  <2>4. \A i \in 1 .. visited'[s] : i \in 1 .. visited[s] \/ i = visited[s] + 1
    BY <2>1, <2>3
  <2> QED BY <2>1, <2>2, <2>3, <2>4 DEF ScanSound
<1>3. CASE ReadFile(s)
  <2>1. PICK p \in todo[s] :
          /\ tree[p] # Absent
          /\ todo'[s] = todo[s] \ {p}
          /\ got'[s] = [q \in DOMAIN got[s] \cup {p} |-> IF q = p THEN tree[p] ELSE got[s][q]]
          /\ UNCHANGED <<tree, temp, pc, visited, touched>>
    BY <1>0, <1>3 DEF ReadFile, SealTypeOK, Ended
  <2>2. ScanSound(s)
    BY <2>1 DEF ScansSound
  <2>3. Payload' = Payload /\ p \in Payload
    BY <2>1 DEF Payload, SealTypeOK
  <2> QED BY <2>1, <2>2, <2>3 DEF ScanSound
<1>4. CASE StageNext(s) \/ ReplaceNext(s) \/ Build(s)
  <2>1. pc'[s] \in {"staging", "replacing", "replaced"}
    BY <1>0, <1>4 DEF StageNext, ReplaceNext, Build, Goes, SealTypeOK, Ended
  <2> QED BY <2>1 DEF Scanning
<1>5. CASE ScanFails(s) \/ WriteFails(s) \/ Confirm(s) \/ Crash(s)
  BY <1>0, <1>5 DEF ScanFails, WriteFails, Confirm, Crash, Ended
<1>6. CASE RemoveResidue(s)
  BY <1>6 DEF RemoveResidue
<1> QED BY <1>1, <1>2, <1>3, <1>4, <1>5, <1>6 DEF SealerStep

----------------------------------------------------------------------------
(* The sums *)

\* No step brings sums into the tree that are neither built of what they name
\* nor edited.
LEMMA SumsKept == SealTypeOK /\ SumsWellBuilt /\ [Next]_vars => SumsWellBuilt'
<1> SUFFICES ASSUME SealTypeOK, SumsWellBuilt, [Next]_vars PROVE SumsWellBuilt'
  OBVIOUS
<1> DEFINE Writing == {"staging", "replacing"}
<1>0. SumsWellBuilt' <=>
        /\ tree'["sums"] # Absent => WellBuilt(tree'["sums"])
        /\ \A s \in Sealer : pc'[s] \in Writing => WellBuilt(docs'[s]["sums"])
  BY DEF SumsWellBuilt, WellBuilt
<1>1. ASSUME UNCHANGED tree,
             \A s \in Sealer : pc'[s] \in Writing => pc[s] \in Writing /\ docs'[s] = docs[s]
      PROVE  SumsWellBuilt'
  BY <1>0, <1>1 DEF SumsWellBuilt
<1>2. ASSUME NEW s \in Sealer, Start(s) \/ ScanAgain(s) PROVE SumsWellBuilt'
  <2>1. \A t \in Sealer : pc'[t] \in Writing => pc'[t] = pc[t]
    BY <1>2 DEF Start, ScanAgain, BeginScan, Goes, SealTypeOK
  <2> QED BY <1>1, <1>2, <2>1 DEF Start, ScanAgain, BeginScan
<1>3. ASSUME NEW s \in Sealer, NEW outcome \in Ended, Ends(s, outcome), UNCHANGED tree
      PROVE  SumsWellBuilt'
  <2>1. \A t \in Sealer : pc'[t] \in Writing => t # s /\ pc'[t] = pc[t] /\ docs'[t] = docs[t]
    BY <1>3 DEF Ends, Goes, SealTypeOK, Ended
  <2> QED BY <1>1, <1>3, <2>1
<1>4. ASSUME NEW s \in Sealer, ScanFails(s) \/ WriteFails(s) \/ Confirm(s) \/ Crash(s)
      PROVE  SumsWellBuilt'
  BY <1>3, <1>4 DEF ScanFails, WriteFails, Confirm, Crash, Ended
<1>5. ASSUME NEW s \in Sealer, ListDirectory(s) \/ ReadFile(s) PROVE SumsWellBuilt'
  <2>1. UNCHANGED tree /\ (Ends(s, "failed") \/ UNCHANGED <<pc, docs>>)
    BY <1>5 DEF ListDirectory, ReadFile
  <2> QED BY <1>1, <1>3, <2>1 DEF Ended
<1>6. ASSUME NEW s \in Sealer, Build(s) PROVE SumsWellBuilt'
  <2>1. CASE \E outcome \in Ended : Ends(s, outcome)
    BY <1>3, <1>6, <2>1 DEF Build
  <2>2. CASE ~\E outcome \in Ended : Ends(s, outcome)
    <3>1. PICK f : docs' = [docs EXCEPT ![s] = Documents(f)]
      BY <1>6, <2>2 DEF Build, Ended
    <3>2. Goes(s, "staging") /\ UNCHANGED tree
      BY <1>6, <2>2 DEF Build, Ended
    <3>3. WellBuilt(docs'[s]["sums"])
      BY <3>1, BuiltWellBuilt DEF SealTypeOK
    <3>4. \A t \in Sealer \ {s} : pc'[t] = pc[t] /\ docs'[t] = docs[t]
      BY <3>1, <3>2 DEF Goes, SealTypeOK
    <3> QED BY <1>0, <3>2, <3>3, <3>4 DEF SumsWellBuilt
  <2> QED BY <2>1, <2>2
<1>7. ASSUME NEW s \in Sealer, StageNext(s) \/ ReplaceNext(s) PROVE SumsWellBuilt'
  <2>1. pc[s] \in Writing /\ UNCHANGED docs
    BY <1>7 DEF StageNext, ReplaceNext
  <2>2. \A t \in Sealer \ {s} : pc'[t] = pc[t]
    BY <1>7 DEF StageNext, ReplaceNext, Goes, SealTypeOK
  <2>3. \/ UNCHANGED tree
        \/ \E g \in Generated : tree' = [tree EXCEPT ![g] = docs[s][g]]
    BY <1>7 DEF StageNext, ReplaceNext
  <2>4. tree'["sums"] = tree["sums"] \/ tree'["sums"] = docs[s]["sums"]
    BY <2>3 DEF SealTypeOK, Path, Generated
  <2> QED BY <1>0, <2>1, <2>2, <2>4 DEF SumsWellBuilt
<1>8. ASSUME NEW s \in Sealer, RemoveResidue(s) PROVE SumsWellBuilt'
  BY <1>1, <1>8 DEF RemoveResidue
<1>9. ASSUME NEW p \in Path, Edit(p) PROVE SumsWellBuilt'
  <2>1. PICK content \in Rewritings(p) \cup {Absent} : tree' = [tree EXCEPT ![p] = content]
    BY <1>9 DEF Edit
  <2>2. p = "sums" => content = Absent \/ content.form = "edited"
    <3>1. p = "sums" => p \notin Source
      BY SealAssumption DEF Generated
    <3> QED BY <3>1 DEF Rewritings
  <2>3. \/ tree'["sums"] = tree["sums"] \/ tree'["sums"] = Absent
        \/ tree'["sums"].form = "edited"
    BY <2>1, <2>2 DEF SealTypeOK
  <2>4. tree'["sums"] # Absent => WellBuilt(tree'["sums"])
    BY <2>3 DEF SumsWellBuilt, WellBuilt
  <2> QED BY <1>0, <1>9, <2>4 DEF Edit, SumsWellBuilt
<1>10. CASE UNCHANGED vars
  BY <1>1, <1>10 DEF vars
<1> QED BY <1>2, <1>4, <1>5, <1>6, <1>7, <1>8, <1>9, <1>10 DEF Next

----------------------------------------------------------------------------
(* The meaning of an answer *)

\* What an answer means to the verifier.
Means(s) ==
  /\ pc[s] \in {"written", "current"} =>
       (Verifies <=> Required \subseteq Payload /\ (Namesakes \cup Splitting) \cap Payload = {})
  /\ pc[s] = "stale" /\ Verifies => tree["sums"].form = "edited"

\* A sealer that ends by what it has found means this.
LEMMA StepMeans ==
  ASSUME SealInv, NEW s \in Sealer, SealerStep(s), ~touched'[s],
         pc'[s] \in {"written", "current", "stale"}
  PROVE  Means(s)'
<1> USE DEF SealInv
<1>1. Build(s) \/ Confirm(s)
  <2>1. ASSUME Ends(s, "failed") PROVE FALSE
    BY <2>1 DEF Ends, Goes, SealTypeOK
  <2>2. ~Start(s) /\ ~ScanAgain(s)
    BY DEF Start, ScanAgain, BeginScan, Goes, SealTypeOK
  <2>3. ~ListDirectory(s) /\ ~ReadFile(s) /\ ~ScanFails(s)
    BY <2>1 DEF ListDirectory, ReadFile, ScanFails, Scanning
  <2>4. ~StageNext(s) /\ ~ReplaceNext(s) /\ ~WriteFails(s) /\ ~Crash(s) /\ ~RemoveResidue(s)
    BY <2>1 DEF StageNext, ReplaceNext, WriteFails, Crash, RemoveResidue, Goes, SealTypeOK
  <2> QED BY <2>2, <2>3, <2>4 DEF SealerStep
<1>2. ScanOver(s) /\ ~touched[s] /\ UNCHANGED <<tree, temp, touched>>
  BY <1>1 DEF Build, Confirm
<1>3. /\ DOMAIN got[s] = Payload
      /\ \A p \in Payload : got[s][p] = tree[p]
      /\ \A t \in Sealer : temp[t] = {}
  BY <1>2, ScanIsTree DEF ScansSound, ScanOver
<1>4. Verifies' = Verifies /\ Payload' = Payload
  BY <1>2 DEF Verifies, Entries, Expected, Payload
<1> DEFINE d == Documents(got[s])
           Clear == Required \subseteq Payload /\ (Namesakes \cup Splitting) \cap Payload = {}
<1>5. Buildable(got[s]) /\ StalePaths(s, d) = {} => (Verifies <=> Clear)
  BY <1>3, FreshIsVerified DEF StalePaths
<1>6. Verifies /\ StalePaths(s, d) # {} => tree["sums"].form = "edited"
  <2> SUFFICES ASSUME Verifies, tree["sums"].form # "edited" PROVE StalePaths(s, d) = {}
    OBVIOUS
  <2>1. WellBuilt(tree["sums"])
    BY DEF SumsWellBuilt, Verifies, Payload, Generated
  <2>2. \A g \in Generated : g \in DOMAIN got[s] /\ got[s][g] = d[g]
    BY <1>3, <2>1, VerifiedIsFresh
  <2> HIDE DEF d
  <2> QED BY <2>2 DEF StalePaths
<1>7. Means(s)' <=> /\ pc'[s] \in {"written", "current"} => (Verifies <=> Clear)
                    /\ pc'[s] = "stale" /\ Verifies => tree["sums"].form = "edited"
  BY <1>2, <1>4 DEF Means
<1> HIDE DEF d, Clear
<1>8. CASE Build(s)
  <2>1. /\ Buildable(got[s])
        /\ Ends(s, IF StalePaths(s, d) = {} THEN "current" ELSE "stale")
    BY <1>8 DEF Build, Ends, Goes, SealTypeOK, d
  <2>2. pc'[s] = IF StalePaths(s, d) = {} THEN "current" ELSE "stale"
    BY <2>1 DEF Ends, Goes, SealTypeOK
  <2> QED BY <1>5, <1>6, <1>7, <2>1, <2>2
<1>9. CASE Confirm(s)
  <2>1. Ends(s, IF Buildable(got[s]) /\ d = docs[s] /\ StalePaths(s, docs[s]) = {}
                THEN "written" ELSE "failed")
    BY <1>9 DEF Confirm, d
  <2>2. pc'[s] = IF Buildable(got[s]) /\ d = docs[s] /\ StalePaths(s, docs[s]) = {}
                 THEN "written" ELSE "failed"
    BY <2>1 DEF Ends, Goes, SealTypeOK
  <2> QED BY <1>5, <1>7, <2>2
<1> QED BY <1>1, <1>8, <1>9

\* Every step keeps scans, sums and meanings.
LEMMA SealInvKept == SealInv /\ [Next]_vars => SealInv'
<1> SUFFICES ASSUME SealInv, [Next]_vars PROVE SealInv'
  OBVIOUS
<1>1. SealTypeOK'
  BY SealTypesKept DEF SealInv
<1>2. ScansSound'
  <2> SUFFICES ASSUME NEW s \in Sealer, pc'[s] \in Scanning, ~touched'[s] PROVE ScanSound(s)'
    BY DEF ScansSound
  <2>1. CASE SealerStep(s)
    BY <2>1, StepKeepsScan
  <2>2. CASE ~SealerStep(s)
    <3>1. LeftAlone(s)
      BY <2>2, OthersTouch DEF SealInv
    <3>2. ScanSound(s)
      BY <3>1 DEF SealInv, ScansSound, LeftAlone
    <3> QED BY <3>1, <3>2, AloneKeepsScan
  <2> QED BY <2>1, <2>2
<1>3. SumsWellBuilt'
  BY SumsKept DEF SealInv
<1>4. SealMeansVerified'
  <2> SUFFICES ASSUME NEW s \in Sealer, ~touched'[s] PROVE Means(s)'
    BY DEF SealMeansVerified, Means
  <2>1. CASE SealerStep(s)
    <3>1. pc'[s] \notin {"written", "current", "stale"} => Means(s)'
      BY DEF Means
    <3> QED BY <2>1, <3>1, StepMeans
  <2>2. CASE ~SealerStep(s)
    <3>1. LeftAlone(s)
      BY <2>2, OthersTouch DEF SealInv
    <3>2. Verifies' = Verifies /\ Payload' = Payload
      BY <3>1 DEF LeftAlone, Verifies, Entries, Expected, Payload
    <3>3. Means(s)
      BY <3>1 DEF SealInv, SealMeansVerified, Means, LeftAlone
    <3> QED BY <3>1, <3>2, <3>3 DEF LeftAlone, Means
  <2> QED BY <2>1, <2>2
<1> QED BY <1>1, <1>2, <1>3, <1>4 DEF SealInv

\* A package that nobody has touched since the last scan of a sealer began: if
\* the sealer calls it written or current, it verifies exactly if it has the
\* required files, no second SHA256SUMS.txt and no path the sums cannot hold on
\* a line; if it calls it stale, it verifies only with sums edited by hand.  For
\* any package, any order of its directories and any number of sealers, edits,
\* failures and crashes.
THEOREM SealAlwaysMeans == Spec => []SealMeansVerified
<1>1. Init => ScansSound /\ SealMeansVerified
  BY DEF Init, ScansSound, SealMeansVerified, Scanning
<1>2. Init => SumsWellBuilt
  <2> SUFFICES ASSUME Init PROVE SumsWellBuilt
    OBVIOUS
  <2>1. PICK files \in SUBSET Source : \E f \in [files -> Content] :
          \E documents \in {Documents(f), [g \in Generated |-> Absent]} :
            tree = [p \in Path |-> IF p \in Generated THEN documents[p]
                                   ELSE IF p \in files THEN f[p] ELSE Absent]
    BY DEF Init
  <2>2. PICK f \in [files -> Content] :
          \E documents \in {Documents(f), [g \in Generated |-> Absent]} :
            tree["sums"] = documents["sums"]
    BY <2>1 DEF Path, Generated
  <2>3. tree["sums"] = Documents(f)["sums"] \/ tree["sums"] = Absent
    BY <2>2 DEF Generated
  <2>4. \A s \in Sealer : pc[s] = "new"
    BY DEF Init
  <2> QED BY <2>3, <2>4, BuiltWellBuilt DEF SumsWellBuilt
<1>3. Init /\ SealTypeOK => SealInv
  BY <1>1, <1>2 DEF SealInv
<1>4. SealInv => SealMeansVerified
  BY DEF SealInv
<1> QED BY <1>3, <1>4, SealInvKept, SealTypeCorrect, PTL DEF Spec

=============================================================================
