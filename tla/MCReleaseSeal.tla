---------------------------- MODULE MCReleaseSeal ----------------------------
(***************************************************************************)
(* Two files in the scope of the pins, of which a package has one; the     *)
(* path of the second does not fit on a line of the sums.  One file the    *)
(* verifier requires and one called SHA256SUMS.txt.  The walk enters the   *)
(* root, the directory of the pins and that of the sources.                *)
(***************************************************************************)
EXTENDS ReleaseSeal, TLC

CONSTANTS code, text, nested, line

MCDirectory == <<{"manifest", "sums"}, {"pins"}, {code, line, nested, text}>>
MCRank == "manifest" :> 1 @@ "sums" :> 2 @@ "pins" :> 1 @@ code :> 1 @@ nested :> 2 @@ text :> 3 @@ line :> 4

Symmetry == Permutations(Sealer) \cup Permutations(Content)

=============================================================================
