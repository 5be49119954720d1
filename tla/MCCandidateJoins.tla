--------------------------- MODULE MCCandidateJoins ---------------------------
(***************************************************************************)
(* Properties of the candidate joins, and their instance for TLC.          *)
(***************************************************************************)
EXTENDS CandidateJoins

(* Three keys, so that one is neither the first nor the last.                *)
ThreeKeys == <<Terminal \cup Pending, Terminal \cup Pending, {"accepted", "retryable"}>>

(* What the writers leave on disk is what the evaluation asks for, whatever  *)
(* cuts, resumes, interrupts and split commits went before: the row of a     *)
(* completed run is never excluded if it is accepted, or its conflict is     *)
(* resolved, and no copy is damaged.  Two runs are excepted: one that lost a *)
(* row of its attempt ledger (AttemptRowForEachKey), and one that was marked *)
(* interrupted after its last commit.                                        *)
WrittenIsEligible ==
  [][/\ damaged = {}
     /\ doc.status.state = "completed" /\ doc.report.state # "interrupted"
     /\ Len(doc.attempts.rows) = N
     /\ Accepted \/ (Conflict /\ approved)
     /\ Evaluate
     => verdict' = "eligible"]_vars

(* "exact parsed/hash joins": an item is published only of a run whose five  *)
(* documents are those of its last commit, and whatever copies are damaged,  *)
(* all in the same way, it states what the run wrote, in every field but     *)
(* one: the review's identifier is repeated in the report and nowhere else,  *)
(* so two damages forge it.                                                  *)
PublishedAsWritten ==
  verdict = "eligible" =>
    /\ \A d \in RunArtifacts : doc[d].revision = N + 1
    /\ \A f \in DOMAIN item \ {"pins", "source", "review_id"} : item[f] = "own"
    /\ item.pins = {"own"} /\ item.source = {"own"}
=============================================================================
