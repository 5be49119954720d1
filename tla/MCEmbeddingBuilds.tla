-------------------------- MODULE MCEmbeddingBuilds --------------------------
(* Small instances of the embedding builds for TLC. *)
EXTENDS EmbeddingProperties, TLC

CONSTANTS b1, b2

Entry(x, y, z) == [i \in Ids |-> CASE i = 1 -> x [] i = 2 -> y [] i = 3 -> z]

(* A prior release with its vectors, one whose vector 1 embeds a text that   *)
(* was revised since and whose vector 2 is missing, and one with a vector of *)
(* an old model.                                                             *)
Prior(entries, stored, outdated) ==
  [entries |-> entries, vectors |-> stored, outdated |-> outdated]
ThreePriors ==
  {Prior(Entry("red", "red", None), Entry("red", "red", None), {}),
   Prior(Entry("red", "red", None), Entry("blue", None, None), {}),
   Prior(Entry("red", "red", "red"), Entry("red", "red", None), {2})}
TwoCandidates == {Entry("red", "blue", "red"), Entry("blue", "red", None)}

(* One call at a time with revisions, or two builds of one candidate at once. *)
Either == [q \in Priors |->
             IF q.outdated = {} THEN [overlap |-> FALSE, revisions |-> 2, faults |-> 2, builds |-> 3]
             ELSE [overlap |-> TRUE, revisions |-> 0, faults |-> 1, builds |-> 3]]
Symmetry == Permutations(Builders)
=============================================================================
