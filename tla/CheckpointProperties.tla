------------------------ MODULE CheckpointProperties ------------------------
(***************************************************************************)
(* Properties of the checkpoint driver.  Most are promised only as long as *)
(* no resume is admitted beside a live executor (~overtaken): the driver   *)
(* has no defence against that once a commit is past its fence check.      *)
(***************************************************************************)
EXTENDS CheckpointDriver

DiskTypeOK ==
  /\ made \in {"none", "dir", "request", "preflight"}
  /\ lease \in Leases /\ status \in Statuses /\ report \in Reports
  /\ outcomes \in Seq(Outcomes) /\ Len(outcomes) <= N
  /\ attempts \in Seq(1..N)
  /\ checkpoint \in 0..N
  /\ bound \subseteq IdemKeys

LockTypeOK ==
  /\ flock \in [{"run", "resume"} -> Threads \cup {None}]
  /\ rlock \in [Processes -> Threads \cup {None}]

MemoryTypeOK ==
  /\ pc \in [Threads -> Points]
  /\ call \in [Threads -> Calls \cup {NoCall}]
  /\ gen \in [Threads -> Nat]
  /\ rows \in [Threads -> Seq(Outcomes)] /\ \A th \in Threads : Len(rows[th]) <= N
  /\ att \in [Threads -> Seq(1..N)]
  /\ seenLease \in [Threads -> Leases]
  /\ seenStatus \in [Threads -> Statuses] /\ seenReport \in [Threads -> Reports]
  /\ after \in [Threads -> {"idle", "process", "commit", "cursor", "unwind"}]

CountTypeOK == overtaken \in BOOLEAN /\ calls \in 0..MaxCalls /\ faults \in 0..MaxFaults

(* Types of all variables: in particular no file holds more rows, and no     *)
(* cursor is larger, than there are selected keys.                           *)
TypeOK == DiskTypeOK /\ LockTypeOK /\ MemoryTypeOK /\ CountTypeOK

(* Between them the two lock files, the directory creation and the admission *)
(* test of resume() leave one thread at a time writing to the run directory. *)
SoleExecutor ==
  ~overtaken =>
    \A a, b \in Threads :
      {pc[a], pc[b]} \subseteq Executing \cup Creating => a = b

(* "cursor never moves past complete revision": whatever write a failure     *)
(* stops at, no file of the commit sequence is ahead of one written earlier. *)
CommitOrder ==
  ~overtaken =>
    /\ status.cursor <= report.cursor
    /\ report.cursor <= checkpoint
    /\ checkpoint <= Len(outcomes)
    /\ \A i \in 1..Len(attempts) : attempts[i] <= Len(outcomes)

(* A run closed by its outcomes has one for every selected key, is blocked   *)
(* exactly when one of them is retryable, and its report and checkpoint are  *)
(* those of the final revision.                                              *)
ClosedRunIsCovered ==
  ~overtaken /\ status.state \in TerminalStates /\ ~status.drifted =>
    /\ Len(outcomes) = N /\ status.cursor = N /\ checkpoint = N
    /\ status.state = "blocked" <=> \E i \in 1..N : outcomes[i] = "retryable"
    /\ report.cursor = N

(* However often a run is cut and resumed, no key has two attempt rows, and  *)
(* the rows stay in key order.                                               *)
OneAttemptRowPerKey ==
  ~overtaken => \A i, j \in 1..Len(attempts) : i < j => attempts[i] < attempts[j]

(* Replaying run() with a bound key finds a loadable result: the run exists  *)
(* and has a report.  Holds even when an executor is overtaken.              *)
BoundKeyLoads ==
  bound # {} => report.cursor > 0 /\ status.state \notin {"absent", "created"}

(* With every caller in one process the class-level lock shuts the door that *)
(* the two lock files leave open.                                            *)
NeverOvertaken == ~overtaken

(* "no torn revision, gap, regression, skipped key, duplicate current row":  *)
(* rows of outcomes.json are never changed or removed once written.          *)
LedgerOnlyGrows ==
  [][~overtaken' => /\ Len(outcomes) <= Len(outcomes')
                    /\ \A i \in 1..Len(outcomes) : outcomes'[i] = outcomes[i]]_vars

(* Cursors and the lease generation never go back, over any number of        *)
(* failures and resumes.                                                     *)
NoRegression ==
  [][~overtaken' => /\ status'.cursor >= status.cursor
                    /\ checkpoint' >= checkpoint
                    /\ report'.cursor >= report.cursor
                    /\ lease'.gen >= lease.gen]_vars

(* "completed->*: no-op", "blocked->*: no transition": a closed run keeps    *)
(* its status whatever is called afterwards.  Only the call that closes it   *)
(* may still mark it interrupted, when it was to stop at the last key.       *)
InterruptsLastKey(th) == At(th, "intStatus") /\ call[th].interrupt = N

ClosedStaysClosed ==
  [][~overtaken' /\ status.state \in TerminalStates
       => \/ status' = status
          \/ \E th \in Threads :
               InterruptsLastKey(th) /\ status' = [status EXCEPT !.state = "interrupted"]]_vars

(* "no committed key is reprocessed": the key taken up next is always the    *)
(* first one that has no durable outcome.                                    *)
CommittedNotReprocessed ==
  [][\A th \in Threads :
       ProcessRecord(th) /\ ~overtaken' => Len(rows[th]) = Len(outcomes)]_vars

(* The published cursor and the rows below it implement the abstract ledger. *)
Ledger == INSTANCE CheckpointLedger WITH
            committed <- SubSeq(outcomes, 1, status.cursor),
            phase <- status.state
ImplementsLedger == Ledger!Spec

(* Two lock files and a lock per process, always taken in the same order:    *)
(* every call comes to an end.                                               *)
EveryCallEnds == \A th \in Threads : pc[th] # "idle" ~> pc[th] = "idle"

-----------------------------------------------------------------------------
(* The inductive invariant behind the properties above, in layers: what each *)
(* layer says of a control point uses only the layers before it.             *)

RunPoints    == Creating \cup {"start", "intLease", "intLeaseWrite", "intRead",
                  "intReadReport", "intReport", "intStatus", "finalize", "finalWrite", "bind"}
ResumePoints == {"blockWrite", "reclaim", "reclaimWrite", "loadOutcomes",
                 "loadAttempts", "enter", "resumed"}

(* A thread that has passed its lock file owns it, is at a control point of  *)
(* its own operation, and has room for the key it is about to process.       *)
CallInvOf(th) ==
  /\ pc[th] # "idle" => call[th] \in Calls
  /\ pc[th] \notin {"idle", "flock"} => flock[call[th].op] = th
  /\ pc[th] \in RunPoints => call[th].op = "run"
  /\ pc[th] \in ResumePoints => call[th].op = "resume"
  /\ pc[th] = "process" => Len(rows[th]) < N
  /\ pc[th] \in Holding => after[th] # "idle"
  /\ pc[th] \in Holding /\ after[th] = "process" => Len(rows[th]) < N
CallInv == \A th \in Threads : CallInvOf(th)

Started == status.state \notin {"absent", "created"}
Empty   == /\ outcomes = <<>> /\ attempts = <<>> /\ checkpoint = 0
           /\ report.cursor = 0 /\ status.cursor = 0 /\ ~status.drifted

(* Nothing is committed before the run has started, and a thread creates the *)
(* directory or executes the run, never one while another does the other.    *)
StartInvOf(th) ==
  /\ pc[th] \in Creating \cup {"start"} => ~Started /\ made # "none"
  /\ pc[th] \in Executing \ {"start"} => Started
  /\ pc[th] \in {"holdWrite", "releaseWrite", "intReadReport", "intReport",
                 "intStatus", "finalWrite", "blockWrite"}
       => seenStatus[th].state \notin {"absent", "created"}
StartInv ==
  /\ ~Started => Empty
  /\ made = "none" => ~Started
  /\ \A th \in Threads : StartInvOf(th)

(* Without an overtaken executor, a run and a resume never execute together. *)
ApartInv ==
  ~overtaken => \A a, b \in Threads :
    ~ (/\ pc[a] \in Executing /\ call[a].op = "run"
       /\ pc[b] \in Executing /\ call[b].op = "resume")

ExclusionInv == TypeOK /\ CallInv /\ StartInv /\ ApartInv

(* With every caller in one process the class-level lock is the one door to  *)
(* the run directory.                                                        *)
SingleProcess == \A a, b \in Threads : ProcessOf[a] = ProcessOf[b]

RLockInv ==
  \A th \in Threads :
    pc[th] \notin {"idle", "flock", "rlock"} => rlock[ProcessOf[th]] = th

Interrupting == {"intLease", "intLeaseWrite", "intRead", "intReadReport",
                 "intReport", "intStatus"}
Unloaded     == Creating \cup {"idle", "flock", "rlock", "decide", "start", "blockWrite",
                  "reclaim", "reclaimWrite", "loadOutcomes"}
Committing   == {"commit", "writeOutcomes", "writeAttempts", "writeCheckpoint",
                 "cursor", "writeReport", "writeStatus"}

(* Where a thread is in its call, seen through a barrier hold. *)
Place(th) == IF pc[th] \in Holding THEN after[th] ELSE pc[th]

(* What a thread holds in memory at each point, whoever else is executing: a *)
(* run that has committed a key finds a report, and an interrupt comes with  *)
(* the key it was asked for.                                                 *)
MemoryInvOf(th) ==
  /\ pc[th] \in Unloaded => rows[th] = <<>> /\ att[th] = <<>>
  /\ Place(th) \in Committing \cup Interrupting \cup {"finalize", "finalWrite"} => Len(rows[th]) > 0
  /\ pc[th] \in Interrupting \cup {"writeStatus", "finalize", "finalWrite", "bind"} => report.cursor > 0
  /\ pc[th] \in {"beat", "beatWrite", "loop"} /\ call[th].op = "run" /\ Len(rows[th]) > 0
       => report.cursor > 0
  /\ pc[th] = "intReport" => seenReport[th].cursor > 0
  /\ pc[th] \in {"finalize", "finalWrite"} => Len(rows[th]) = N
  /\ pc[th] \in Interrupting => Len(rows[th]) = call[th].interrupt
  /\ call[th].op = "run" /\ call[th].interrupt > 0 =>
       /\ Place(th) \in {"loop", "process"} => Len(rows[th]) < call[th].interrupt
       /\ Place(th) \in Committing \cup {"beat", "beatWrite"} => Len(rows[th]) <= call[th].interrupt
MemoryInv ==
  /\ \A th \in Threads : MemoryInvOf(th)
  /\ bound # {} => report.cursor > 0
  /\ ~Started => lease.gen <= 1

(* The files of the run directory, while at most one thread writes to it.    *)
FilesInv ==
  /\ status.cursor <= report.cursor /\ report.cursor <= checkpoint
  /\ checkpoint <= Len(outcomes)
  /\ \A i \in 1..Len(attempts) : attempts[i] <= Len(outcomes)
  /\ \A i, j \in 1..Len(attempts) : i < j => attempts[i] < attempts[j]
  /\ status.state \in TerminalStates /\ ~status.drifted =>
       Len(outcomes) = N /\ status.cursor = N /\ status.state = StateAfter(outcomes)

(* What the executing thread's memory says of the files. *)
Loaded     == {"enter", "loop", "process", "beat", "beatWrite", "finalize", "finalWrite"}
                \cup Interrupting
Unsettled  == {"blockWrite", "reclaim", "reclaimWrite", "loadOutcomes", "loadAttempts",
               "enter", "process"} \cup Committing

RowsInvOf(th) ==
  /\ Place(th) \in Loaded \cup {"loadAttempts"} \cup (Committing \ {"commit", "writeOutcomes"})
       => rows[th] = outcomes
  /\ Place(th) \in Loaded \cup (Committing \ {"commit", "writeOutcomes", "writeAttempts"})
       => att[th] = attempts
  /\ Place(th) \in {"commit", "writeOutcomes"} =>
       /\ \E o \in Outcomes : rows[th] = Append(outcomes, o)
       /\ att[th] = Append(attempts, Len(outcomes) + 1)
  /\ Place(th) = "writeAttempts" =>
       /\ att[th] = Append(attempts, Len(outcomes))
       /\ \A i \in 1..Len(attempts) : attempts[i] < Len(outcomes)

CursorsInvOf(th) ==
  /\ Place(th) \in Committing \ {"commit", "writeOutcomes"} => status.cursor < Len(outcomes)
  /\ Place(th) \in {"cursor", "writeReport", "writeStatus"} => checkpoint = Len(outcomes)
  /\ Place(th) = "writeStatus" => report.cursor = Len(outcomes)
  /\ Place(th) \in Unsettled => status.state \in {"running", "interrupted"}
  /\ Place(th) \in {"beat", "beatWrite", "loop"} /\ Len(outcomes) < N
       => status.state \in {"running", "interrupted"}
  /\ Place(th) \in Loaded /\ call[th].op = "run" =>
       status.state = StateAfter(outcomes) /\ status.cursor = Len(outcomes)

SeenInvOf(th) ==
  /\ pc[th] \in {"beatWrite", "intLeaseWrite"} => seenLease[th] = lease
  /\ pc[th] \in {"holdWrite", "releaseWrite", "intReadReport", "intReport",
                 "intStatus", "finalWrite", "blockWrite"} => seenStatus[th] = status
  /\ pc[th] = "intReport" => seenReport[th] = report
  /\ pc[th] = "reclaimWrite" => gen[th] > lease.gen

(* A run directory is created once, by a thread that finds no status in it.  *)
CreatedInv ==
  /\ made = "none" => status.state = "absent"
  /\ \A th \in Threads : pc[th] \in Creating => status.state = "absent"
  /\ \A th \in Threads : pc[th] = "start" => status.state = "created"

LedgerInv ==
  ~overtaken => /\ FilesInv
                /\ \A th \in Threads : RowsInvOf(th) /\ CursorsInvOf(th) /\ SeenInvOf(th)

-----------------------------------------------------------------------------
(* Statements of the contract and the documentation that the driver does not *)
(* meet.                                                                     *)

(* contract "recovery": "resume with same tuple converges once": a resume    *)
(* that runs to its end leaves the run in a closed state.                    *)
ResumeConverges ==
  \A th \in Threads : pc[th] = "resumed" => status.state \in TerminalStates

(* "attempts contains one logical attempt row for each selected stable key": *)
(* a run closed by its outcomes has an attempt row for every one of them.    *)
AttemptRowForEachKey ==
  ~overtaken /\ status.state \in TerminalStates /\ ~status.drifted => Len(attempts) = N
=============================================================================
