-------------------------- MODULE MCReleaseRegistry --------------------------
(* Small instances of the release registry for TLC. *)
EXTENDS ReleaseProperties, TLC

CONSTANTS w1, w2, o1, o2, o3

(* One release content, and the same with an entry added. *)
OneEntry   == [e \in Entries |-> IF e = "a" THEN "h" ELSE "absent"]
BothEntries == [e \in Entries |-> "h"]
Growing    == {OneEntry, BothEntries}
Fixed      == {OneEntry}
Symmetry   == Permutations(Workers) \cup Permutations(Ops)
=============================================================================
