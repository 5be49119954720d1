-------------------------- MODULE CheckpointLedger --------------------------
(***************************************************************************)
(* What a checkpoint run promises to a reader of its status: a ledger of   *)
(* committed outcomes, one per selected key in order, that only grows, and *)
(* a run state that follows the transitions the driver's contract lists    *)
(* (contract(), "transitions").  Files, locks, leases and failures are not *)
(* part of the promise.                                                    *)
(***************************************************************************)
EXTENDS Integers, Sequences

CONSTANTS N,          \* number of selected keys
          Outcomes    \* outcome classes; contains "retryable"

VARIABLES committed,  \* outcomes at and below the published cursor
          phase       \* published run state

ledger == <<committed, phase>>

Closing(rows) ==
  IF Len(rows) < N THEN "running"
  ELSE IF \E i \in 1..Len(rows) : rows[i] = "retryable" THEN "blocked"
  ELSE "completed"

Extends(rows, base) ==
  /\ Len(rows) > Len(base)
  /\ \A i \in 1..Len(base) : rows[i] = base[i]

Init == committed = <<>> /\ phase = "absent"

Create == phase = "absent" /\ phase' = "created" /\ UNCHANGED committed
Start  == phase = "created" /\ phase' = "running" /\ UNCHANGED committed

(* One key, or several when earlier commits were cut short before their     *)
(* cursor was published.                                                    *)
Commit ==
  /\ phase \in {"running", "interrupted"}
  /\ \E n \in 1..N : \E rows \in [1..n -> Outcomes] :
       /\ Extends(rows, committed)
       /\ committed' = rows
       /\ phase' = Closing(rows)

Interrupt == phase = "running" /\ phase' = "interrupted" /\ UNCHANGED committed

BlockOnDrift ==
  /\ phase \in {"running", "interrupted"}
  /\ phase' = "blocked"
  /\ UNCHANGED committed

Next == Create \/ Start \/ Commit \/ Interrupt \/ BlockOnDrift

Spec == Init /\ [][Next]_ledger
=============================================================================
