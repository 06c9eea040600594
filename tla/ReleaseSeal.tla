----------------------------- MODULE ReleaseSeal -----------------------------
(***************************************************************************)
(* The seal of the review package (src/scripts/package/seal_package.py):   *)
(* three generated files that name every file of the package with its      *)
(* digest.  A sealer scans the tree, builds the three documents, replaces  *)
(* the stale ones file by file and scans again.  What it must agree with   *)
(* is written separately: the checks of verify_package.py (Verifies).      *)
(* There is no lock: the tree is edited while it is scanned, two sealers   *)
(* may be at work, and one that dies leaves its temporary files behind.    *)
(*                                                                         *)
(* A digest is the content it is taken of.  The verifier parses what a     *)
(* document says, its entries; the sealer compares its bytes, that is the  *)
(* entries and the form in which they are written.                         *)
(***************************************************************************)
EXTENDS Naturals, Sequences, FiniteSets

CONSTANTS
  Source,     \* files of the package that are not generated
  Pinned,     \* those in the scope of the reference pins
  PinCount,   \* how many of them a package has
  Required,   \* those the verifier requires
  Namesakes,  \* those called SHA256SUMS.txt, below the root
  Splitting,  \* those with a character in their path at which splitlines cuts
  Content,    \* contents of such a file
  Directory,  \* the paths of each directory, in the order of the walk
  Rank,       \* path -> its place in the sorted names of its directory
  Sealer,     \* runs of the program
  MaxEdits,   \* bound on the edits of the tree
  Absent

Generated == {"pins", "manifest", "sums"}
Path == Source \cup Generated

\* The order of GENERATED_PATHS.
GeneratedPaths == <<"pins", "manifest", "sums">>

ASSUME SealAssumption ==
  /\ Pinned \subseteq Source /\ Required \subseteq Source /\ Namesakes \subseteq Source
  /\ Splitting \subseteq Source
  /\ Source \cap Generated = {}
  /\ Directory \in Seq(SUBSET Path)
  /\ \A p \in Path : \E i \in DOMAIN Directory : p \in Directory[i]
  /\ Rank \in [Path -> Nat]
  /\ MaxEdits \in Nat

VARIABLES
  tree,     \* path -> its content, or Absent
  temp,     \* sealer -> the generated files of which it has a temporary one
  edits,    \* the edits made so far
  pc,       \* sealer -> the step it has reached
  visited,  \* sealer -> the directories its scan has entered
  todo,     \* sealer -> the paths of the current directory still to be read
  got,      \* sealer -> what its scan has read, a function of paths
  docs,     \* sealer -> the documents it has built
  stale,    \* sealer -> those of them the tree does not have yet
  touched   \* sealer -> somebody else changed the tree since its scan began

scan == <<visited, todo, got>>
vars == <<tree, temp, edits, pc, scan, docs, stale, touched>>

Ended == {"current", "stale", "written", "failed"}

----------------------------------------------------------------------------
(* What is built and what is verified *)

\* The pins need their whole scope.
Buildable(f) == Cardinality(Pinned \cap DOMAIN f) = PinCount

\* A document in the form in which the sealer writes these entries.
Sealed(entries) == [entries |-> entries, form |-> "sealed"]

\* Each document covers what comes before it; the sums leave out the root file
\* of their own path only.
Documents(f) ==
  LET Sources == DOMAIN f \ Generated
      pins == Sealed([p \in Pinned \cap DOMAIN f |-> f[p]])
      manifest == Sealed([p \in Sources \cup {"pins"} |-> IF p = "pins" THEN pins ELSE f[p]])
      sums == Sealed([p \in Sources \cup {"pins", "manifest"} |->
                IF p = "manifest" THEN manifest ELSE manifest.entries[p]])
  IN  [g \in Generated |->
        CASE g = "pins" -> pins [] g = "manifest" -> manifest [] g = "sums" -> sums]

Payload == {p \in Path : tree[p] # Absent}

\* The files the verifier expects in a document; from the sums it leaves out
\* every file of their name.
Expected(g) ==
  CASE g = "pins" -> Pinned \cap Payload
    [] g = "manifest" -> Payload \ {"manifest", "sums"}
    [] g = "sums" -> Payload \ ({"sums"} \cup Namesakes)

\* What a document must say of them.
Entries(g) == [p \in Expected(g) |-> tree[p]]

\* The checks of verify_package.py on files and documents.  A temporary file is
\* a payload file that no document names; a line of the sums that is cut in two
\* is invalid.
Verifies ==
  /\ Generated \cup Required \subseteq Payload
  /\ \A s \in Sealer : temp[s] = {}
  /\ \A g \in Generated : tree[g].entries = Entries(g)
  /\ DOMAIN tree["sums"].entries \cap Splitting = {}
  /\ Cardinality(Expected("pins")) = PinCount

----------------------------------------------------------------------------
(* The scan *)

Goes(s, to) == pc' = [pc EXCEPT ![s] = to]

\* The tree has changed for every other sealer.
Touches(s) == touched' = [t \in Sealer |-> touched[t] \/ t # s]

\* A scan begins; from now on the sealer answers for what it finds.
BeginScan(s, from, to) ==
  /\ pc[s] = from
  /\ Goes(s, to)
  /\ visited' = [visited EXCEPT ![s] = 0]
  /\ todo' = [todo EXCEPT ![s] = {}]
  /\ got' = [got EXCEPT ![s] = <<>>]
  /\ touched' = [touched EXCEPT ![s] = FALSE]
  /\ UNCHANGED <<tree, temp, edits, docs, stale>>

Start(s) == BeginScan(s, "new", "scanning")
ScanAgain(s) == BeginScan(s, "replaced", "rescanning")

Scanning == {"scanning", "rescanning"}

ScanOver(s) == pc[s] \in Scanning /\ visited[s] = Len(Directory) /\ todo[s] = {}

\* A sealer ends, and what it has read is gone.
Ends(s, outcome) ==
  /\ Goes(s, outcome)
  /\ visited' = [visited EXCEPT ![s] = 0]
  /\ todo' = [todo EXCEPT ![s] = {}]
  /\ got' = [got EXCEPT ![s] = <<>>]
  /\ docs' = [docs EXCEPT ![s] = Absent]
  /\ stale' = [stale EXCEPT ![s] = {}]

\* The names in the next directory; a temporary file of a sealer is residue.
ListDirectory(s) ==
  /\ pc[s] \in Scanning /\ todo[s] = {} /\ visited[s] < Len(Directory)
  /\ LET names == Directory[visited[s] + 1] IN
       IF \E t \in Sealer : temp[t] \cap names # {}
       THEN Ends(s, "failed")
       ELSE /\ visited' = [visited EXCEPT ![s] = @ + 1]
            /\ todo' = [todo EXCEPT ![s] = names \cap Payload]
            /\ UNCHANGED <<pc, got, docs, stale>>
  /\ UNCHANGED <<tree, temp, edits, touched>>

\* The next file is read at once, or is gone; one that changes while it is
\* read is a case of ScanFails.
ReadFile(s) ==
  /\ pc[s] \in Scanning
  /\ \E p \in todo[s] :
       /\ \A q \in todo[s] : Rank[p] <= Rank[q]
       /\ IF tree[p] = Absent
          THEN Ends(s, "failed")
          ELSE /\ todo' = [todo EXCEPT ![s] = @ \ {p}]
               /\ got' = [got EXCEPT ![s] =
                    [q \in DOMAIN @ \cup {p} |-> IF q = p THEN tree[p] ELSE @[q]]]
               /\ UNCHANGED <<pc, visited, docs, stale>>
  /\ UNCHANGED <<tree, temp, edits, touched>>

\* A file that changes while it is read, an unreadable or forbidden one.
ScanFails(s) ==
  /\ pc[s] \in Scanning
  /\ Ends(s, "failed")
  /\ UNCHANGED <<tree, temp, edits, touched>>

StalePaths(s, d) ==
  {g \in Generated : g \notin DOMAIN got[s] \/ got[s][g] # d[g]}

\* The documents are built and compared with those in the tree; with --check
\* this is the outcome, with --write the stale ones are about to be replaced.
Build(s) ==
  /\ ScanOver(s) /\ pc[s] = "scanning"
  /\ LET d == Documents(got[s]) IN
       \/ ~Buildable(got[s]) /\ Ends(s, "failed")
       \/ /\ Buildable(got[s])
          /\ Ends(s, IF StalePaths(s, d) = {} THEN "current" ELSE "stale")
       \/ /\ Buildable(got[s])
          /\ docs' = [docs EXCEPT ![s] = d]
          /\ stale' = [stale EXCEPT ![s] = StalePaths(s, d)]
          /\ Goes(s, "staging")
          /\ got' = [got EXCEPT ![s] = <<>>]
          /\ UNCHANGED <<visited, todo>>
  /\ UNCHANGED <<tree, temp, edits, touched>>

----------------------------------------------------------------------------
(* The writing *)

\* The first of some generated files, in their order.
First(g, paths) ==
  /\ g \in paths
  /\ \E i \in DOMAIN GeneratedPaths :
       GeneratedPaths[i] = g /\ \A j \in 1 .. i - 1 : GeneratedPaths[j] \notin paths

\* The next stale document is written to a temporary file beside its target.
StageNext(s) ==
  /\ pc[s] = "staging"
  /\ \/ stale[s] \subseteq temp[s] /\ Goes(s, "replacing") /\ UNCHANGED <<temp, touched>>
     \/ \E g \in Generated :
          /\ First(g, stale[s] \ temp[s])
          /\ temp' = [temp EXCEPT ![s] = @ \cup {g}]
          /\ Touches(s)
          /\ UNCHANGED pc
  /\ UNCHANGED <<tree, edits, scan, docs, stale>>

\* Mutant: the temporary file is copied and stays.
ReplaceByCopy(s) ==
  /\ pc[s] = "replacing"
  /\ \/ stale[s] = {} /\ Goes(s, "replaced") /\ UNCHANGED <<tree, stale, touched>>
     \/ \E g \in Generated :
          /\ First(g, stale[s])
          /\ tree' = [tree EXCEPT ![g] = docs[s][g]]
          /\ stale' = [stale EXCEPT ![s] = @ \ {g}]
          /\ Touches(s)
          /\ UNCHANGED pc
  /\ UNCHANGED <<temp, edits, scan, docs>>

\* The next target is replaced atomically.
ReplaceNext(s) ==
  /\ pc[s] = "replacing"
  /\ \/ stale[s] = {} /\ Goes(s, "replaced") /\ UNCHANGED <<tree, temp, stale, touched>>
     \/ \E g \in Generated :
          /\ First(g, stale[s])
          /\ tree' = [tree EXCEPT ![g] = docs[s][g]]
          /\ temp' = [temp EXCEPT ![s] = @ \ {g}]
          /\ stale' = [stale EXCEPT ![s] = @ \ {g}]
          /\ Touches(s)
          /\ UNCHANGED pc
  /\ UNCHANGED <<edits, scan, docs>>

\* A write or a replacement fails: the temporary files are removed, as far as
\* that is possible; what was replaced stays replaced.
WriteFails(s) ==
  /\ pc[s] \in {"staging", "replacing"}
  /\ \E left \in SUBSET temp[s] : temp' = [temp EXCEPT ![s] = left]
  /\ Ends(s, "failed")
  /\ Touches(s)
  /\ UNCHANGED <<tree, edits>>

\* Mutant: only the generated files are compared, with the first documents.
ConfirmTargetsOnly(s) ==
  /\ ScanOver(s) /\ pc[s] = "rescanning"
  /\ Ends(s, IF StalePaths(s, docs[s]) = {} THEN "written" ELSE "failed")
  /\ UNCHANGED <<tree, temp, edits, touched>>

\* The second scan gives the same documents, and the tree has them.
Confirm(s) ==
  /\ ScanOver(s) /\ pc[s] = "rescanning"
  /\ Ends(s, IF /\ Buildable(got[s])
                /\ Documents(got[s]) = docs[s]
                /\ StalePaths(s, docs[s]) = {}
             THEN "written" ELSE "failed")
  /\ UNCHANGED <<tree, temp, edits, touched>>

\* The process dies, and leaves its temporary files.
Crash(s) ==
  /\ pc[s] \notin {"new"} \cup Ended
  /\ Ends(s, "failed")
  /\ UNCHANGED <<tree, temp, edits, touched>>

----------------------------------------------------------------------------
(* The people at work on the package *)

\* What somebody may make of a file: of a document, the same entries in another
\* form, or what the verifier expects of it.
Rewritings(p) ==
  IF p \in Source THEN Content
  ELSE {[entries |-> Entries(p), form |-> "edited"]}
       \cup {[entries |-> tree[q].entries, form |-> "edited"] : q \in {p} \cap Payload}

\* A file is written, added, edited or removed.
Edit(p) ==
  /\ edits < MaxEdits
  /\ \E content \in Rewritings(p) \cup {Absent} :
       tree[p] # content /\ tree' = [tree EXCEPT ![p] = content]
  /\ edits' = edits + 1
  /\ touched' = [s \in Sealer |-> TRUE]
  /\ UNCHANGED <<temp, pc, scan, docs, stale>>

\* "PACKAGE_SEAL_TEMP_RESIDUE": somebody removes what a dead sealer has left.
RemoveResidue(s) ==
  /\ pc[s] \in Ended
  /\ temp[s] # {}
  /\ temp' = [temp EXCEPT ![s] = {}]
  /\ touched' = [t \in Sealer |-> TRUE]
  /\ UNCHANGED <<tree, edits, pc, scan, docs, stale>>

----------------------------------------------------------------------------

\* A package as it was unpacked: sealed, or not yet.
Init ==
  /\ \E files \in SUBSET Source : \E f \in [files -> Content] :
       /\ Buildable(f)
       /\ \E documents \in {Documents(f), [g \in Generated |-> Absent]} :
            tree = [p \in Path |-> IF p \in Generated THEN documents[p]
                                   ELSE IF p \in files THEN f[p] ELSE Absent]
  /\ temp = [s \in Sealer |-> {}]
  /\ edits = 0
  /\ pc = [s \in Sealer |-> "new"]
  /\ visited = [s \in Sealer |-> 0]
  /\ todo = [s \in Sealer |-> {}]
  /\ got = [s \in Sealer |-> <<>>]
  /\ docs = [s \in Sealer |-> Absent]
  /\ stale = [s \in Sealer |-> {}]
  /\ touched = [s \in Sealer |-> FALSE]

Next ==
  \/ \E s \in Sealer :
       \/ Start(s) \/ ScanAgain(s)
       \/ ListDirectory(s) \/ ReadFile(s) \/ ScanFails(s)
       \/ Build(s) \/ StageNext(s) \/ ReplaceNext(s) \/ WriteFails(s) \/ Confirm(s)
       \/ Crash(s) \/ RemoveResidue(s)
  \/ \E p \in Path : Edit(p)

Spec == Init /\ [][Next]_vars

----------------------------------------------------------------------------
(* Properties *)

\* A temporary file belongs to a document the sealer has built and not yet
\* moved into place, or is residue of one that ended.
SealTypeOK ==
  /\ DOMAIN tree = Path
  /\ \A p \in Source : tree[p] \in Content \cup {Absent}
  /\ temp \in [Sealer -> SUBSET Generated]
  /\ edits \in 0 .. MaxEdits
  /\ pc \in [Sealer -> {"new", "staging", "replacing", "replaced"} \cup Scanning \cup Ended]
  /\ visited \in [Sealer -> 0 .. Len(Directory)]
  /\ todo \in [Sealer -> SUBSET Path]
  /\ DOMAIN got = Sealer /\ \A s \in Sealer : DOMAIN got[s] \subseteq Path
  /\ DOMAIN docs = Sealer
  /\ stale \in [Sealer -> SUBSET Generated]
  /\ touched \in [Sealer -> BOOLEAN]
  /\ \A s \in Sealer :
       /\ pc[s] \in {"staging", "replacing"} => temp[s] \subseteq stale[s]
       /\ pc[s] \in {"new", "replaced"} \cup Scanning => temp[s] = {}

\* What the answer of a sealer means to the verifier, as long as nobody has
\* touched the tree since its last scan began - although the tree may have been
\* edited or sealed by others during the first scan and while it wrote.  A
\* package it calls "written" or "current" passes the verification exactly if it
\* has the required files, no second SHA256SUMS.txt and no path the sums cannot
\* hold on a line; one it calls "stale" passes only if somebody has edited the
\* sums by hand (seal, verify).
SealMeansVerified ==
  \A s \in Sealer : ~touched[s] =>
    /\ pc[s] \in {"written", "current"} =>
         (Verifies <=> Required \subseteq Payload /\ (Namesakes \cup Splitting) \cap Payload = {})
    /\ pc[s] = "stale" /\ Verifies => tree["sums"].form = "edited"

=============================================================================
