------------------------------ MODULE RunDocuments ------------------------------
(***************************************************************************)
(* The five documents of a checkpoint run that a commit replaces one after *)
(* another, with as much of their content as a candidate evaluation        *)
(* compares.  CheckpointDriver has who may write them and when; this       *)
(* module has what a commit, a commit split by a barrier, an interrupt, a  *)
(* cut and a resume leave in them.  A run has one executor at a time, as   *)
(* SoleExecutor of CheckpointProperties says of the driver.                *)
(***************************************************************************)
EXTENDS Integers, Sequences, FiniteSets

CONSTANTS
  N,          \* selected keys
  Outcomes,   \* the outcomes each key may have
  MaxTrouble  \* bound: cuts, interrupts, split commits and damaged copies

Terminal == {"accepted", "quarantined"}   \* rejected and failed are like quarantined
Pending  == {"retryable"}

ASSUME DocumentsAssumption ==
  /\ N \in Nat \ {0} /\ MaxTrouble \in Nat
  /\ Outcomes \in [1..N -> SUBSET (Terminal \cup Pending)]

VARIABLES
  doc,        \* the five documents on disk
  job,        \* the executor: its point, what it holds in memory, and its call
  trouble     \* cuts, interrupts and split commits so far

documents == <<doc, job, trouble>>

-----------------------------------------------------------------------------
(* What is written. *)

Count(rows, outcomes) == Cardinality({i \in DOMAIN rows : rows[i] \in outcomes})

StateOf(rows) == IF Len(rows) < N THEN "running"
                 ELSE IF Count(rows, Pending) > 0 THEN "blocked"
                 ELSE "completed"

(* A report of a run that is still going on calls it completed, too.         *)
CompletionOf(rows) ==
  [state    |-> IF StateOf(rows) = "blocked" THEN "blocked" ELSE "completed",
   settled  |-> Count(rows, Pending) = 0,
   complete |-> StateOf(rows) = "completed"]
Interrupted == [state |-> "interrupted", settled |-> FALSE, complete |-> FALSE]

Revision(rows)  == Len(rows) + 1
CountsOf(rows)  == [o \in Terminal \cup Pending |-> Count(rows, {o})]

OutcomesOf(rows)         == [revision |-> Revision(rows), rows |-> rows]
AttemptsOf(rows, ledger) == [revision |-> Revision(rows), rows |-> ledger, count |-> Len(ledger)]
CheckpointOf(rows) ==
  [revision |-> Revision(rows), processed |-> Len(rows), counts |-> CountsOf(rows),
   terminal |-> Count(rows, Terminal)]
ReportOf(rows, logical) ==
  [revision |-> Revision(rows), state |-> StateOf(rows), completion |-> CompletionOf(rows),
   rows |-> rows, processed |-> Len(rows), terminal |-> Count(rows, Terminal),
   pending |-> Count(rows, Pending), logical |-> logical]
StatusOf(rows) ==
  [revision |-> Revision(rows), state |-> StateOf(rows), completion |-> CompletionOf(rows),
   cursor |-> Len(rows), counts |-> CountsOf(rows)]

(* The second half of a split commit builds its report without the attempts. *)
Commit ==
  [outcomes   |-> OutcomesOf(job.rows),
   attempts   |-> AttemptsOf(job.rows, job.ledger),
   checkpoint |-> CheckpointOf(job.rows),
   report     |-> ReportOf(job.rows, IF job.split THEN 0 ELSE Len(job.ledger)),
   status     |-> StatusOf(job.rows)]

(* The order of the writes.                                                  *)
After == [outcomes |-> "attempts", attempts |-> "checkpoint", checkpoint |-> "report",
          report |-> "status", status |-> "committed"]

-----------------------------------------------------------------------------
(* The executor. *)

Goto(point)     == job' = [job EXCEPT !.point = point]
Put(d, content) == doc' = [doc EXCEPT ![d] = content]
Budget(n)       == n <= MaxTrouble
Idle            == job.point = "idle"

(* The next key, seen from the driver: its outcome and its attempt row.      *)
Process ==
  /\ job.point = "process"
  /\ \E o \in Outcomes[Len(job.rows) + 1] :
       job' = [job EXCEPT !.point = "outcomes", !.rows = Append(@, o),
                          !.ledger = Append(@, Len(job.rows) + 1)]
  /\ UNCHANGED <<doc, trouble>>

(* One document is replaced.  A barrier before the report holds there, and   *)
(* rewrites the status with what it read.                                    *)
WriteDocument ==
  /\ job.point \in DOMAIN After
  /\ Put(job.point, Commit[job.point])
  /\ Goto(After[job.point])
  /\ UNCHANGED trouble

(* The call goes on to the next key, or ends behind the last.                *)
Continue ==
  /\ job.point = "committed"
  /\ Goto(IF Len(job.rows) < N THEN "process" ELSE "idle")
  /\ UNCHANGED <<doc, trouble>>

(* interrupt_after is looked at after each commit of a first call, the last  *)
(* included.                                                                 *)
Interrupt ==
  /\ job.point = "committed" /\ ~job.resumed
  /\ Budget(trouble + 1) /\ trouble' = trouble + 1
  /\ Goto("markReport")
  /\ UNCHANGED doc

MarkReport ==
  /\ job.point = "markReport"
  /\ Put("report", [doc.report EXCEPT !.state = "interrupted", !.completion = Interrupted])
  /\ Goto("markStatus")
  /\ UNCHANGED trouble

MarkStatus ==
  /\ job.point = "markStatus"
  /\ Put("status", [doc.status EXCEPT !.state = "interrupted", !.completion = Interrupted])
  /\ Goto("idle")
  /\ UNCHANGED trouble

(* A crash, or an exception, between two writes.                             *)
Cut ==
  /\ ~Idle
  /\ Budget(trouble + 1) /\ trouble' = trouble + 1
  /\ Goto("idle")
  /\ UNCHANGED doc

(* A resume takes the rows from one document and the attempts from another,  *)
(* and goes on behind the rows; behind the last it writes nothing.  It never *)
(* splits a commit.                                                          *)
Resume ==
  /\ Idle /\ doc.status.state \in {"running", "interrupted"}
  /\ Len(doc.outcomes.rows) < N
  /\ job' = [point |-> "process", rows |-> doc.outcomes.rows, ledger |-> doc.attempts.rows,
             split |-> FALSE, resumed |-> TRUE]
  /\ UNCHANGED <<doc, trouble>>

DocumentStep ==
  \/ Process \/ WriteDocument \/ Continue
  \/ Interrupt \/ MarkReport \/ MarkStatus
  \/ Cut \/ Resume

-----------------------------------------------------------------------------
(* The first call has written its first status; the other documents are not  *)
(* there yet, and have no revision.                                          *)
Missing == 0
DocumentsInit ==
  /\ \E split \in BOOLEAN :
       /\ trouble = IF split THEN 1 ELSE 0
       /\ job = [point |-> "process", rows |-> <<>>, ledger |-> <<>>, split |-> split,
                 resumed |-> FALSE]
  /\ doc = [d \in DOMAIN Commit |->
              IF d = "status" THEN Commit[d] ELSE [Commit[d] EXCEPT !.revision = Missing]]
=============================================================================
