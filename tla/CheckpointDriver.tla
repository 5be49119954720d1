-------------------------- MODULE CheckpointDriver --------------------------
(***************************************************************************)
(* The local checkpoint driver: run() and resume() of one checkpoint run,  *)
(* executed by threads of several operating-system processes over one run  *)
(* directory.  Each durable file of the directory is a variable and each   *)
(* write of a file is a step, so a crash, an injected persistence fault or *)
(* another process may come between any two writes.                        *)
(*                                                                         *)
(* Every commit writes revision 1 + (number of outcomes), so a revision is *)
(* not kept beside the cursor it is computed from.  An outcome is only     *)
(* "terminal" (accepted, rejected, quarantined or failed) or "retryable",  *)
(* which is all the driver looks at.                                       *)
(***************************************************************************)
EXTENDS Integers, Sequences, FiniteSets

CONSTANTS
  Threads,          \* threads that may call the driver
  Processes,        \* the operating-system processes they live in
  ProcessOf,        \* the process of each thread
  None,             \* "no thread", for free locks
  NoKey,            \* no idempotency key
  N,                \* number of selected keys; key i is the i-th in order
  IdemKeys,         \* idempotency keys a caller may use
  ForeignKeys,      \* those already bound to another checkpoint tuple
  InterruptPoints,  \* values of interrupt_after; 0 stands for None
  Barriers,         \* barrier phases callers ask for; "none" for no barrier
  MaxCalls,         \* bound: calls made in one behaviour
  MaxFaults         \* bound: crashes and exceptions in one behaviour

BarrierPhases == {"none", "before-write", "durable-write-before-ack",
                  "checkpoint-before-cursor", "combined-transaction"}

ASSUME ConstantsAssumption ==
  /\ ProcessOf \in [Threads -> Processes]
  /\ None \notin Threads
  /\ N \in Nat \ {0}
  /\ ForeignKeys \subseteq IdemKeys /\ NoKey \notin IdemKeys
  /\ InterruptPoints \subseteq Nat
  /\ Barriers \subseteq BarrierPhases
  /\ MaxCalls \in Nat /\ MaxFaults \in Nat

VARIABLES
  made,        \* how far _create_run got with the immutable request files
  lease,       \* lease.json; generation 0 when there is no file
  status,      \* status.json
  outcomes,    \* rows of outcomes.json; empty when there is no file
  attempts,    \* logical rows of attempts.json, by the number of their key
  checkpoint,  \* cursor of checkpoint.json; 0 when there is no file
  report,      \* report.json; cursor 0 when there is no file
  bound,       \* keys idempotency.json binds to this run
  flock,       \* the two lock files: their holders
  rlock,       \* the class-level RLock of each process: its holder
  pc, call,    \* per thread: control point, and the call being served
  gen, rows, att,     \* per thread: lease generation and ledger in memory
  seenLease, seenStatus, seenReport,  \* per thread: files read, to be written back
  after,       \* per thread: where a barrier hold continues
  overtaken,   \* history: a resume was admitted beside a live run()
  calls, faults

disk   == <<made, lease, status, outcomes, attempts, checkpoint, report, bound>>
locks  == <<flock, rlock>>
work   == <<gen, rows, att>>
seen   == <<seenLease, seenStatus, seenReport, after>>
memory == <<call, work, seen>>
counts == <<calls, faults>>
vars   == <<disk, locks, pc, memory, overtaken, counts>>

Outcomes       == {"terminal", "retryable"}
RunStates      == {"absent", "created", "running", "interrupted", "blocked", "completed"}
TerminalStates == {"blocked", "completed"}
Leases   == [gen : Nat, state : {"held", "interrupted"}]
Statuses == [state : RunStates, cursor : 0..N, drifted : BOOLEAN]
Reports  == [state : RunStates, cursor : 0..N]

(* A resume may come without a key; its key matters only when the catalog    *)
(* has drifted from the one the run was created with.                        *)
RunCalls    == [op : {"run"}, key : IdemKeys, interrupt : InterruptPoints,
                barrier : Barriers, catalog : {"same"}]
ResumeCalls ==
  [op : {"resume"}, key : {NoKey}, interrupt : {0}, barrier : {"none"},
   catalog : {"same", "omitted"}]
    \cup [op : {"resume"}, key : IdemKeys \cup {NoKey}, interrupt : {0},
          barrier : {"none"}, catalog : {"drifted"}]
Calls == RunCalls \cup ResumeCalls

NoCall == [op |-> "none"]
NoLease  == [gen |-> 0, state |-> "held"]
NoStatus == [state |-> "absent", cursor |-> 0, drifted |-> FALSE]
NoReport == [state |-> "absent", cursor |-> 0]

(* Control points between a resume being admitted, or a run having created  *)
(* its directory, and the last write of that call to the run directory.     *)
Executing == {"start", "beat", "beatWrite", "loop", "process", "commit",
              "writeOutcomes", "writeAttempts", "writeCheckpoint", "cursor",
              "writeReport", "writeStatus", "hold", "holdWrite", "release",
              "releaseWrite", "intLease", "intLeaseWrite", "intRead",
              "intReadReport", "intReport", "intStatus", "finalize", "finalWrite",
              "blockWrite", "reclaim", "reclaimWrite", "loadOutcomes",
              "loadAttempts", "enter"}
Holding   == {"hold", "holdWrite", "release", "releaseWrite"}
Creating  == {"createRequest", "createPreflight", "createLease", "createStatus"}
Points    == Executing \cup Creating
               \cup {"idle", "flock", "rlock", "decide", "bind", "resumed", "unwind"}

At(th, point)   == pc[th] = point
Goto(th, point) == pc' = [pc EXCEPT ![th] = point]
Fenced(th)      == lease.gen # 0 /\ lease.gen # gen[th]

\* Faulty: the last outcome is not looked at.
StateAfterIgnoringLast(ledger) ==
  IF Len(ledger) < N THEN "running"
  ELSE IF \E i \in 1..Len(ledger) - 1 : ledger[i] = "retryable" THEN "blocked"
  ELSE "completed"

(* _commit_revision: the run state written with the n-th outcome. *)
StateAfter(ledger) ==
  IF Len(ledger) < N THEN "running"
  ELSE IF \E i \in 1..Len(ledger) : ledger[i] = "retryable" THEN "blocked"
  ELSE "completed"

RunExecuting == \E other \in Threads : call[other].op = "run" /\ pc[other] \in Executing

(* The memory of threads that leave their call is gone. *)
Forget(gone) ==
  /\ call' = [t \in Threads |-> IF t \in gone THEN NoCall ELSE call[t]]
  /\ gen'  = [t \in Threads |-> IF t \in gone THEN 0 ELSE gen[t]]
  /\ rows' = [t \in Threads |-> IF t \in gone THEN <<>> ELSE rows[t]]
  /\ att'  = [t \in Threads |-> IF t \in gone THEN <<>> ELSE att[t]]
  /\ seenLease'  = [t \in Threads |-> IF t \in gone THEN NoLease ELSE seenLease[t]]
  /\ seenStatus' = [t \in Threads |-> IF t \in gone THEN NoStatus ELSE seenStatus[t]]
  /\ seenReport' = [t \in Threads |-> IF t \in gone THEN NoReport ELSE seenReport[t]]
  /\ after' = [t \in Threads |-> IF t \in gone THEN "idle" ELSE after[t]]

\* Faulty: the class-level lock stays held.
ReturnKeepingRLock(th) ==
  /\ Goto(th, "idle")
  /\ flock' = [l \in DOMAIN flock |-> IF flock[l] = th THEN None ELSE flock[l]]
  /\ UNCHANGED rlock
  /\ Forget({th})

(* Leave the call: the locks the thread holds are released. *)
Return(th) ==
  /\ Goto(th, "idle")
  /\ flock' = [l \in DOMAIN flock |-> IF flock[l] = th THEN None ELSE flock[l]]
  /\ rlock' = [p \in Processes |-> IF rlock[p] = th THEN None ELSE rlock[p]]
  /\ Forget({th})

-----------------------------------------------------------------------------
(* Entering a call. *)

Invoke(th) ==
  /\ At(th, "idle") /\ calls < MaxCalls
  /\ \E c \in Calls : call' = [call EXCEPT ![th] = c]
  /\ calls' = calls + 1
  /\ Goto(th, "flock")
  /\ UNCHANGED <<disk, locks, work, seen, overtaken, faults>>

\* Faulty: the file lock is not exclusive.
AcquireSharedFlock(th) ==
  /\ At(th, "flock")
  /\ flock' = [flock EXCEPT ![call[th].op] = th]
  /\ Goto(th, "rlock")
  /\ UNCHANGED <<disk, rlock, memory, overtaken, counts>>

(* run() and resume() lock different files. *)
AcquireFlock(th) ==
  /\ At(th, "flock") /\ flock[call[th].op] = None
  /\ flock' = [flock EXCEPT ![call[th].op] = th]
  /\ Goto(th, "rlock")
  /\ UNCHANGED <<disk, rlock, memory, overtaken, counts>>

\* Faulty: a lock per driver instance, which nobody shares.
AcquireOwnRLock(th) ==
  /\ At(th, "rlock")
  /\ rlock' = [rlock EXCEPT ![ProcessOf[th]] = th]
  /\ Goto(th, "decide")
  /\ UNCHANGED <<disk, flock, memory, overtaken, counts>>

AcquireRLock(th) ==
  /\ At(th, "rlock") /\ rlock[ProcessOf[th]] = None
  /\ rlock' = [rlock EXCEPT ![ProcessOf[th]] = th]
  /\ Goto(th, "decide")
  /\ UNCHANGED <<disk, flock, memory, overtaken, counts>>

-----------------------------------------------------------------------------
(* run(): idempotency decision and creation of the run directory. *)

RunDecide(th) == At(th, "decide") /\ call[th].op = "run"

(* The key is bound: to another tuple (conflict), or to this run, whose     *)
(* stored result is returned whatever its status.                           *)
RunBound(th) ==
  /\ RunDecide(th) /\ call[th].key \in bound \cup ForeignKeys
  /\ Return(th)
  /\ UNCHANGED <<disk, overtaken, counts>>

\* Faulty: a stored run is executed again from its first key.
RunAdoptByRestart(th) ==
  /\ RunDecide(th) /\ call[th].key \notin bound \cup ForeignKeys
  /\ report.cursor > 0
  /\ Goto(th, "start")
  /\ UNCHANGED <<disk, locks, memory, overtaken, counts>>

(* An unbound key, but the run already has a report: bind and return it. *)
RunAdopt(th) ==
  /\ RunDecide(th) /\ call[th].key \notin bound \cup ForeignKeys
  /\ report.cursor > 0
  /\ Goto(th, "bind")
  /\ UNCHANGED <<disk, locks, memory, overtaken, counts>>

(* mkdir(exist_ok=False) fails. *)
RunConflict(th) ==
  /\ RunDecide(th) /\ call[th].key \notin bound \cup ForeignKeys
  /\ report.cursor = 0 /\ made # "none"
  /\ Return(th)
  /\ UNCHANGED <<disk, overtaken, counts>>

\* Faulty: the key is bound before the run has produced anything.
RunMkdirBinding(th) ==
  /\ RunDecide(th) /\ call[th].key \notin bound \cup ForeignKeys
  /\ report.cursor = 0 /\ made = "none"
  /\ made' = "dir" /\ bound' = bound \cup {call[th].key}
  /\ Goto(th, "createRequest")
  /\ UNCHANGED <<lease, status, outcomes, attempts, checkpoint, report,
                 locks, memory, overtaken, counts>>

RunMkdir(th) ==
  /\ RunDecide(th) /\ call[th].key \notin bound \cup ForeignKeys
  /\ report.cursor = 0 /\ made = "none"
  /\ made' = "dir"
  /\ Goto(th, "createRequest")
  /\ UNCHANGED <<lease, status, outcomes, attempts, checkpoint, report, bound,
                 locks, memory, overtaken, counts>>

CreateRequest(th) ==
  /\ \/ At(th, "createRequest") /\ made' = "request" /\ Goto(th, "createPreflight")
     \/ At(th, "createPreflight") /\ made' = "preflight" /\ Goto(th, "createLease")
  /\ UNCHANGED <<lease, status, outcomes, attempts, checkpoint, report, bound,
                 locks, memory, overtaken, counts>>

CreateLease(th) ==
  /\ At(th, "createLease")
  /\ lease' = [gen |-> 1, state |-> "held"]
  /\ Goto(th, "createStatus")
  /\ UNCHANGED <<made, status, outcomes, attempts, checkpoint, report, bound,
                 locks, memory, overtaken, counts>>

CreateStatus(th) ==
  /\ At(th, "createStatus")
  /\ status' = [state |-> "created", cursor |-> 0, drifted |-> FALSE]
  /\ Goto(th, "start")
  /\ UNCHANGED <<made, lease, outcomes, attempts, checkpoint, report, bound,
                 locks, memory, overtaken, counts>>

(* A persistence error while request.json is not yet durable removes the    *)
(* directory again; a later one leaves it (Abort).                          *)
CreateRequestFails(th) ==
  /\ At(th, "createRequest") /\ faults < MaxFaults
  /\ made' = "none"
  /\ faults' = faults + 1
  /\ Return(th)
  /\ UNCHANGED <<lease, status, outcomes, attempts, checkpoint, report, bound,
                 overtaken, calls>>

ExecuteStart(th) ==
  /\ At(th, "start")
  /\ gen' = [gen EXCEPT ![th] = lease.gen]
  /\ status' = [state |-> "running", cursor |-> 0, drifted |-> FALSE]
  /\ Goto(th, "beat")
  /\ UNCHANGED <<made, lease, outcomes, attempts, checkpoint, report, bound,
                 locks, call, rows, att, seen, overtaken, counts>>

-----------------------------------------------------------------------------
(* Heartbeat: the lease is read, compared and written back. *)

AfterBeat(th) ==
  IF /\ call[th].op = "run" /\ call[th].interrupt > 0
     /\ Len(rows[th]) >= call[th].interrupt
  THEN "intLease" ELSE "loop"

HeartbeatRead(th) ==
  /\ At(th, "beat")
  /\ IF lease.gen = gen[th]
     THEN /\ seenLease' = [seenLease EXCEPT ![th] = lease]
          /\ Goto(th, "beatWrite")
     ELSE /\ Goto(th, AfterBeat(th))
          /\ UNCHANGED seenLease
  /\ UNCHANGED <<disk, locks, call, work, seenStatus, seenReport, after,
                 overtaken, counts>>

(* A failed heartbeat write is swallowed. *)
HeartbeatWrite(th) ==
  /\ At(th, "beatWrite")
  /\ lease' \in {seenLease[th], lease}
  /\ Goto(th, AfterBeat(th))
  /\ UNCHANGED <<made, status, outcomes, attempts, checkpoint, report, bound,
                 locks, memory, overtaken, counts>>

-----------------------------------------------------------------------------
(* The per-key loop of _execute and _resume_incremental. *)

(* A stale generation raises CheckpointFencedError at any of its checks. *)
FencedOut(th) ==
  /\ pc[th] \in {"enter", "loop", "process", "commit", "cursor"} /\ Fenced(th)
  /\ At(th, "loop") => Len(rows[th]) < N
  /\ Return(th)
  /\ UNCHANGED <<disk, overtaken, counts>>

HoldThen(th, next) ==
  /\ after' = [after EXCEPT ![th] = next]
  /\ Goto(th, "hold")

HoldBeforeWrite(th) ==
  /\ At(th, "loop") /\ Len(rows[th]) < N /\ ~Fenced(th)
  /\ call[th].barrier = "before-write"
  /\ HoldThen(th, "process")
  /\ UNCHANGED <<disk, locks, call, work, seenLease, seenStatus, seenReport,
                 overtaken, counts>>

(* _process_record, seen from the driver: one outcome and one attempt row.  *)
ProcessRecord(th) ==
  /\ \/ At(th, "process")
     \/ At(th, "loop") /\ Len(rows[th]) < N /\ call[th].barrier # "before-write"
  /\ ~Fenced(th)
  /\ \E o \in Outcomes : rows' = [rows EXCEPT ![th] = Append(@, o)]
  /\ att' = [att EXCEPT ![th] = Append(@, Len(rows[th]) + 1)]
  /\ IF call[th].barrier \in {"durable-write-before-ack", "combined-transaction"}
     THEN HoldThen(th, "commit")
     ELSE Goto(th, "commit") /\ UNCHANGED after
  /\ UNCHANGED <<disk, locks, call, gen, seenLease, seenStatus, seenReport,
                 overtaken, counts>>

(* _check_fence on entering _resume_incremental, and at the head of          *)
(* _commit_revision: the only one for its five writes (for three of them     *)
(* when the commit is split at the cursor).                                  *)
PassFence(th) ==
  /\ ~Fenced(th)
  /\ \/ At(th, "enter") /\ Goto(th, "loop")
     \/ At(th, "commit") /\ Goto(th, "writeOutcomes")
     \/ At(th, "cursor") /\ Goto(th, "writeReport")
  /\ UNCHANGED <<disk, locks, memory, overtaken, counts>>

WriteOutcomes(th) ==
  /\ At(th, "writeOutcomes")
  /\ outcomes' = rows[th]
  /\ Goto(th, "writeAttempts")
  /\ UNCHANGED <<made, lease, status, attempts, checkpoint, report, bound,
                 locks, memory, overtaken, counts>>

WriteAttempts(th) ==
  /\ At(th, "writeAttempts")
  /\ attempts' = att[th]
  /\ Goto(th, "writeCheckpoint")
  /\ UNCHANGED <<made, lease, status, outcomes, checkpoint, report, bound,
                 locks, memory, overtaken, counts>>

\* Faulty: the checkpoint is numbered by the key after it.
WriteCheckpointOffByOne(th) ==
  /\ At(th, "writeCheckpoint")
  /\ checkpoint' = Len(rows[th]) + 1
  /\ Goto(th, "writeReport")
  /\ UNCHANGED <<made, lease, status, outcomes, attempts, report, bound,
                 locks, memory, overtaken, counts>>

\* Faulty: the cursor is published with the checkpoint, ahead of the report.
WriteCheckpointAndCursor(th) ==
  /\ At(th, "writeCheckpoint")
  /\ checkpoint' = Len(rows[th])
  /\ status' = [status EXCEPT !.cursor = Len(rows[th])]
  /\ Goto(th, "writeReport")
  /\ UNCHANGED <<made, lease, outcomes, attempts, report, bound,
                 locks, memory, overtaken, counts>>

WriteCheckpoint(th) ==
  /\ At(th, "writeCheckpoint")
  /\ checkpoint' = Len(rows[th])
  /\ IF call[th].barrier = "checkpoint-before-cursor"
     THEN HoldThen(th, "cursor")
     ELSE Goto(th, "writeReport") /\ UNCHANGED after
  /\ UNCHANGED <<made, lease, status, outcomes, attempts, report, bound,
                 locks, call, work, seenLease, seenStatus, seenReport,
                 overtaken, counts>>

WriteReport(th) ==
  /\ At(th, "writeReport")
  /\ report' = [state |-> StateAfter(rows[th]), cursor |-> Len(rows[th])]
  /\ Goto(th, "writeStatus")
  /\ UNCHANGED <<made, lease, status, outcomes, attempts, checkpoint, bound,
                 locks, memory, overtaken, counts>>

\* Faulty: the run is not closed with its last key.
WriteStatusRunning(th) ==
  /\ At(th, "writeStatus")
  /\ status' = [state |-> "running", cursor |-> Len(rows[th]), drifted |-> FALSE]
  /\ Goto(th, "beat")
  /\ UNCHANGED <<made, lease, outcomes, attempts, checkpoint, report, bound,
                 locks, memory, overtaken, counts>>

WriteStatus(th) ==
  /\ At(th, "writeStatus")
  /\ status' = [state |-> StateAfter(rows[th]), cursor |-> Len(rows[th]),
                drifted |-> FALSE]
  /\ Goto(th, "beat")
  /\ UNCHANGED <<made, lease, outcomes, attempts, checkpoint, report, bound,
                 locks, memory, overtaken, counts>>

-----------------------------------------------------------------------------
(* _barrier_hold: status.json is read and written back before and after the *)
(* sleep, to show and clear the barrier; failures to write are swallowed.   *)

HoldRead(th) ==
  /\ \/ At(th, "hold") /\ Goto(th, "holdWrite")
     \/ At(th, "release") /\ Goto(th, "releaseWrite")
  /\ seenStatus' = [seenStatus EXCEPT ![th] = status]
  /\ UNCHANGED <<disk, locks, call, work, seenLease, seenReport, after,
                 overtaken, counts>>

HoldWrite(th) ==
  /\ \/ At(th, "holdWrite") /\ Goto(th, "release")
     \/ At(th, "releaseWrite") /\ Goto(th, after[th])
  /\ status' \in {seenStatus[th], status}
  /\ UNCHANGED <<made, lease, outcomes, attempts, checkpoint, report, bound,
                 locks, memory, overtaken, counts>>

(* An exception while the barrier is set up or slept through: the status is  *)
(* read and written back all the same, and the call unwinds after that.      *)
HoldFails(th) ==
  /\ pc[th] \in {"hold", "holdWrite"} /\ faults < MaxFaults
  /\ faults' = faults + 1
  /\ after' = [after EXCEPT ![th] = "unwind"]
  /\ Goto(th, "release")
  /\ UNCHANGED <<disk, locks, call, work, seenLease, seenStatus, seenReport,
                 overtaken, calls>>

Unwind(th) ==
  /\ At(th, "unwind")
  /\ Return(th)
  /\ UNCHANGED <<disk, overtaken, counts>>

-----------------------------------------------------------------------------
(* _mark_interrupted: no fence is checked. *)

InterruptLease(th) ==
  /\ \/ /\ At(th, "intLease")
        /\ seenLease' = [seenLease EXCEPT ![th] = lease]
        /\ Goto(th, "intLeaseWrite")
        /\ UNCHANGED lease
     \/ /\ At(th, "intLeaseWrite")
        /\ lease' = [seenLease[th] EXCEPT !.state = "interrupted"]
        /\ Goto(th, "intRead")
        /\ UNCHANGED seenLease
  /\ UNCHANGED <<made, status, outcomes, attempts, checkpoint, report, bound,
                 locks, call, work, seenStatus, seenReport, after,
                 overtaken, counts>>

InterruptRead(th) ==
  /\ \/ /\ At(th, "intRead")
        /\ seenStatus' = [seenStatus EXCEPT ![th] = status]
        /\ Goto(th, "intReadReport")
        /\ UNCHANGED seenReport
     \/ /\ At(th, "intReadReport")
        /\ seenReport' = [seenReport EXCEPT ![th] = report]
        /\ Goto(th, "intReport")
        /\ UNCHANGED seenStatus
  /\ UNCHANGED <<disk, locks, call, work, seenLease, after, overtaken, counts>>

InterruptReport(th) ==
  /\ At(th, "intReport")
  /\ report' \in {[seenReport[th] EXCEPT !.state = "interrupted"], report}
  /\ Goto(th, "intStatus")
  /\ UNCHANGED <<made, lease, status, outcomes, attempts, checkpoint, bound,
                 locks, memory, overtaken, counts>>

InterruptStatus(th) ==
  /\ At(th, "intStatus")
  /\ status' = [seenStatus[th] EXCEPT !.state = "interrupted"]
  /\ Goto(th, "bind")
  /\ UNCHANGED <<made, lease, outcomes, attempts, checkpoint, report, bound,
                 locks, memory, overtaken, counts>>

-----------------------------------------------------------------------------
(* The end of the loop. *)

RunLoopEnds(th) ==
  /\ At(th, "loop") /\ call[th].op = "run" /\ Len(rows[th]) = N
  /\ Goto(th, "finalize")
  /\ UNCHANGED <<disk, locks, memory, overtaken, counts>>

FinalizeRead(th) ==
  /\ At(th, "finalize")
  /\ seenStatus' = [seenStatus EXCEPT ![th] = status]
  /\ Goto(th, IF status.state = StateAfter(rows[th]) THEN "bind" ELSE "finalWrite")
  /\ UNCHANGED <<disk, locks, call, work, seenLease, seenReport, after,
                 overtaken, counts>>

FinalizeWrite(th) ==
  /\ At(th, "finalWrite")
  /\ status' = [seenStatus[th] EXCEPT !.state = StateAfter(rows[th])]
  /\ Goto(th, "bind")
  /\ UNCHANGED <<made, lease, outcomes, attempts, checkpoint, report, bound,
                 locks, memory, overtaken, counts>>

BindIdempotency(th) ==
  /\ At(th, "bind")
  /\ bound' = bound \cup {call[th].key}
  /\ Return(th)
  /\ UNCHANGED <<made, lease, status, outcomes, attempts, checkpoint, report,
                 overtaken, counts>>

(* _resume_incremental ends with no write of its own, however it got here. *)
ResumeLoopEnds(th) ==
  /\ At(th, "loop") /\ call[th].op = "resume" /\ Len(rows[th]) = N
  /\ Goto(th, "resumed")
  /\ UNCHANGED <<disk, locks, memory, overtaken, counts>>

ResumeReturns(th) ==
  /\ At(th, "resumed")
  /\ Return(th)
  /\ UNCHANGED <<disk, overtaken, counts>>

-----------------------------------------------------------------------------
(* resume(): admission, drift and lease reclaim. *)

\* Faulty: a blocked run is admitted again.
ResumableIfBlocked == status.state \in {"interrupted", "running", "blocked"}

ResumeDecide(th) == At(th, "decide") /\ call[th].op = "resume"
Resumable        == status.state \in {"interrupted", "running"}

(* Not found, terminal, never started, catalog omitted, or drift under a    *)
(* key already bound to this run: nothing is written.                       *)
ResumeRefused(th) ==
  /\ ResumeDecide(th)
  /\ \/ ~Resumable
     \/ call[th].catalog = "omitted"
     \/ call[th].catalog = "drifted" /\ call[th].key \in bound
  /\ Return(th)
  /\ UNCHANGED <<disk, overtaken, counts>>

(* status "running" is admitted whether or not its owner is still alive. *)
ResumeAdmit(th) ==
  /\ ResumeDecide(th) /\ Resumable
  /\ \/ call[th].catalog = "same" /\ Goto(th, "reclaim")
     \/ /\ call[th].catalog = "drifted" /\ call[th].key \notin bound
        /\ Goto(th, "blockWrite")
  /\ seenStatus' = [seenStatus EXCEPT ![th] = status]
  /\ overtaken' = (overtaken \/ RunExecuting)
  /\ UNCHANGED <<disk, locks, call, work, seenLease, seenReport, after, counts>>

(* _mark_blocked_drift writes back the status read at admission; a failed   *)
(* write is swallowed.                                                      *)
BlockDrift(th) ==
  /\ At(th, "blockWrite")
  /\ status' \in {[seenStatus[th] EXCEPT !.state = "blocked", !.drifted = TRUE], status}
  /\ Return(th)
  /\ UNCHANGED <<made, lease, outcomes, attempts, checkpoint, report, bound,
                 overtaken, counts>>

ReclaimRead(th) ==
  /\ At(th, "reclaim")
  /\ gen' = [gen EXCEPT ![th] = IF lease.gen = 0 THEN 2 ELSE lease.gen + 1]
  /\ Goto(th, "reclaimWrite")
  /\ UNCHANGED <<disk, locks, call, rows, att, seen, overtaken, counts>>

ReclaimWrite(th) ==
  /\ At(th, "reclaimWrite")
  /\ lease' = [gen |-> gen[th], state |-> "held"]
  /\ Goto(th, "loadOutcomes")
  /\ UNCHANGED <<made, status, outcomes, attempts, checkpoint, report, bound,
                 locks, memory, overtaken, counts>>

\* Faulty: the cursor of a resume is taken from checkpoint.json.
LoadFromCheckpoint(th) ==
  /\ \/ /\ At(th, "loadOutcomes")
        /\ rows' = [rows EXCEPT ![th] = SubSeq(outcomes, 1, checkpoint)]
        /\ Goto(th, "loadAttempts")
        /\ UNCHANGED att
     \/ /\ At(th, "loadAttempts")
        /\ att' = [att EXCEPT ![th] = attempts]
        /\ Goto(th, "enter")
        /\ UNCHANGED rows
  /\ UNCHANGED <<disk, locks, call, gen, seen, overtaken, counts>>

(* The cursor of a resume is the number of rows in outcomes.json. *)
LoadLedger(th) ==
  /\ \/ /\ At(th, "loadOutcomes")
        /\ rows' = [rows EXCEPT ![th] = outcomes]
        /\ Goto(th, "loadAttempts")
        /\ UNCHANGED att
     \/ /\ At(th, "loadAttempts")
        /\ att' = [att EXCEPT ![th] = attempts]
        /\ Goto(th, "enter")
        /\ UNCHANGED rows
  /\ UNCHANGED <<disk, locks, call, gen, seen, overtaken, counts>>

-----------------------------------------------------------------------------
(* Failures. *)

(* An exception (an injected persistence fault before or after a write, a   *)
(* full disk, an interrupt) unwinds the call: its locks are released.  In a  *)
(* barrier hold it is HoldFails instead.                                     *)
Abort(th) ==
  /\ pc[th] \notin {"idle", "createRequest"} \cup Holding /\ faults < MaxFaults
  /\ faults' = faults + 1
  /\ Return(th)
  /\ UNCHANGED <<disk, overtaken, calls>>

(* A process dies: all its threads vanish, the system drops its locks. *)
Crash(p) ==
  LET dead == {th \in Threads : ProcessOf[th] = p} IN
  /\ faults < MaxFaults /\ \E th \in dead : ~At(th, "idle")
  /\ faults' = faults + 1
  /\ pc'   = [th \in Threads |-> IF th \in dead THEN "idle" ELSE pc[th]]
  /\ Forget(dead)
  /\ flock' = [l \in DOMAIN flock |-> IF flock[l] \in dead THEN None ELSE flock[l]]
  /\ rlock' = [rlock EXCEPT ![p] = None]
  /\ UNCHANGED <<disk, overtaken, calls>>

-----------------------------------------------------------------------------
Init ==
  /\ made = "none" /\ lease = NoLease
  /\ status = NoStatus /\ report = NoReport
  /\ outcomes = <<>> /\ attempts = <<>> /\ checkpoint = 0 /\ bound = {}
  /\ flock = [l \in {"run", "resume"} |-> None]
  /\ rlock = [p \in Processes |-> None]
  /\ pc = [th \in Threads |-> "idle"]
  /\ call = [th \in Threads |-> NoCall]
  /\ gen = [th \in Threads |-> 0]
  /\ rows = [th \in Threads |-> <<>>] /\ att = [th \in Threads |-> <<>>]
  /\ seenLease = [th \in Threads |-> NoLease]
  /\ seenStatus = [th \in Threads |-> NoStatus]
  /\ seenReport = [th \in Threads |-> NoReport]
  /\ after = [th \in Threads |-> "idle"]
  /\ overtaken = FALSE /\ calls = 0 /\ faults = 0

Enter(th)   == AcquireFlock(th) \/ AcquireRLock(th)
RunStep(th) ==
  \/ RunBound(th) \/ RunAdopt(th) \/ RunConflict(th) \/ RunMkdir(th)
  \/ CreateRequest(th) \/ CreateLease(th) \/ CreateStatus(th)
  \/ ExecuteStart(th)
  \/ InterruptLease(th) \/ InterruptRead(th) \/ InterruptReport(th)
  \/ InterruptStatus(th)
  \/ RunLoopEnds(th) \/ FinalizeRead(th) \/ FinalizeWrite(th)
  \/ BindIdempotency(th)
KeyStep(th) ==
  \/ HeartbeatRead(th) \/ HeartbeatWrite(th)
  \/ FencedOut(th) \/ HoldBeforeWrite(th) \/ ProcessRecord(th) \/ PassFence(th)
  \/ WriteOutcomes(th) \/ WriteAttempts(th) \/ WriteCheckpoint(th)
  \/ WriteReport(th) \/ WriteStatus(th)
  \/ HoldRead(th) \/ HoldWrite(th) \/ Unwind(th)
ResumeStep(th) ==
  \/ ResumeRefused(th) \/ ResumeAdmit(th) \/ BlockDrift(th)
  \/ ReclaimRead(th) \/ ReclaimWrite(th) \/ LoadLedger(th)
  \/ ResumeLoopEnds(th) \/ ResumeReturns(th)
Step(th)    == Enter(th) \/ RunStep(th) \/ KeyStep(th) \/ ResumeStep(th)
Failure(th) == CreateRequestFails(th) \/ HoldFails(th) \/ Abort(th)

Next ==
  \/ \E th \in Threads : Invoke(th) \/ Step(th) \/ Failure(th)
  \/ \E p \in Processes : Crash(p)

Spec == Init /\ [][Next]_vars

(* The operating system schedules every live thread; callers and failures   *)
(* are the environment and owe nothing.                                     *)
Fairness == \A th \in Threads : WF_vars(Step(th))
FairSpec == Spec /\ Fairness
=============================================================================
