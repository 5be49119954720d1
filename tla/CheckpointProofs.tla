--------------------------- MODULE CheckpointProofs ---------------------------
(***************************************************************************)
(* Proofs about the checkpoint driver, for any number of threads, processes *)
(* and selected keys.  The exclusion layers (CallInv, StartInv, ApartInv)    *)
(* and the types are shown inductive one layer after the other; each layer's *)
(* step lemma has one case per action.                                       *)
(***************************************************************************)
EXTENDS CheckpointProperties, TLAPS

-----------------------------------------------------------------------------
(* Types. *)

(* What stands for a missing file is a legal content. *)
LEMMA EmptyFiles == NoLease \in Leases /\ NoStatus \in Statuses /\ NoReport \in Reports
BY ConstantsAssumption
  DEF NoLease, NoStatus, NoReport, Leases, Statuses, Reports, RunStates

(* A call is a run or a resume, and a run has an idempotency key. *)
LEMMA CallShapes == \A c \in Calls : c.op \in {"run", "resume"} /\ (c.op = "run" => c.key \in IdemKeys)
BY DEF Calls, RunCalls, ResumeCalls

(* The records the driver writes to status.json. *)
LEMMA StatusType == ASSUME NEW s \in RunStates, NEW c \in 0..N
                    PROVE  [state |-> s, cursor |-> c, drifted |-> FALSE] \in Statuses
BY DEF Statuses

(* The records the driver writes to report.json. *)
LEMMA ReportType == ASSUME NEW s \in RunStates, NEW c \in 0..N
                    PROVE  [state |-> s, cursor |-> c] \in Reports
BY DEF Reports

(* Writing a file back with another state keeps its type. *)
LEMMA StateChanged == ASSUME NEW s \in RunStates
                      PROVE  /\ \A x \in Statuses : [x EXCEPT !.state = s] \in Statuses
                             /\ \A x \in Reports : [x EXCEPT !.state = s] \in Reports
BY DEF Statuses, Reports

(* So does marking a lease interrupted. *)
LEMMA LeaseInterrupted == \A x \in Leases : [x EXCEPT !.state = "interrupted"] \in Leases
BY DEF Leases

(* A commit leaves the run running, blocked or completed. *)
LEMMA StateAfterType ==
  ASSUME NEW ledger PROVE StateAfter(ledger) \in {"running", "blocked", "completed"}
BY DEF StateAfter

(* A thread that moves to a point of the program is at one. *)
LEMMA GotoTypes ==
  ASSUME MemoryTypeOK, NEW th, NEW point \in Points, Goto(th, point)
  PROVE  pc' \in [Threads -> Points]
BY DEF MemoryTypeOK, Goto

(* Threads that leave their call, by returning or dying, leave legal memory. *)
LEMMA ForgetTypes ==
  ASSUME MemoryTypeOK, NEW gone, Forget(gone), pc' \in [Threads -> Points]
  PROVE  MemoryTypeOK'
<1>1. call' \in [Threads -> Calls \cup {NoCall}] /\ gen' \in [Threads -> Nat]
  BY DEF MemoryTypeOK, Forget
<1>2. rows' \in [Threads -> Seq(Outcomes)] /\ \A th \in Threads : Len(rows'[th]) <= N
  <2>1. <<>> \in Seq(Outcomes) /\ Len(<<>>) = 0 /\ 0 <= N
    BY ConstantsAssumption
  <2> QED BY <2>1 DEF MemoryTypeOK, Forget
<1>3. att' \in [Threads -> Seq(1..N)]
  <2>1. <<>> \in Seq(1..N)
    OBVIOUS
  <2> QED BY <2>1 DEF MemoryTypeOK, Forget
<1>4. /\ seenLease' \in [Threads -> Leases] /\ seenStatus' \in [Threads -> Statuses]
      /\ seenReport' \in [Threads -> Reports]
  BY EmptyFiles DEF MemoryTypeOK, Forget
<1>5. after' \in [Threads -> {"idle", "process", "commit", "cursor", "unwind"}]
  BY DEF MemoryTypeOK, Forget
<1> QED BY <1>1, <1>2, <1>3, <1>4, <1>5 DEF MemoryTypeOK

(* Returning keeps the types of locks and memory. *)
LEMMA ReturnTypes ==
  ASSUME LockTypeOK, MemoryTypeOK, NEW th \in Threads, Return(th)
  PROVE  LockTypeOK' /\ MemoryTypeOK'
<1>1. pc' \in [Threads -> Points] /\ Forget({th})
  BY DEF MemoryTypeOK, Return, Goto, Points
<1>2. LockTypeOK'
  BY DEF LockTypeOK, Return
<1> QED BY <1>1, <1>2, ForgetTypes

(* Every step keeps the types; CallInv bounds the rows a key is added to. *)
LEMMA TypeStep == TypeOK /\ CallInv /\ [Next]_vars => TypeOK'
<1> SUFFICES ASSUME TypeOK, CallInv, [Next]_vars PROVE TypeOK'
  OBVIOUS
<1> USE ConstantsAssumption

<1>1. CASE UNCHANGED vars
  BY <1>1
    DEF vars, disk, locks, memory, work, seen, counts, TypeOK, DiskTypeOK,
        LockTypeOK, MemoryTypeOK, CountTypeOK
<1>2. ASSUME NEW p \in Processes, Crash(p) PROVE TypeOK'
  <2>1. pc' \in [Threads -> Points] /\ Forget({t \in Threads : ProcessOf[t] = p})
    BY <1>2 DEF Crash, TypeOK, MemoryTypeOK, Points
  <2>2. LockTypeOK'
    BY <1>2 DEF Crash, TypeOK, LockTypeOK
  <2>3. DiskTypeOK' /\ CountTypeOK'
    BY <1>2 DEF Crash, disk, TypeOK, DiskTypeOK, CountTypeOK
  <2> QED BY <2>1, <2>2, <2>3, ForgetTypes DEF TypeOK
<1>3. ASSUME NEW th \in Threads, Invoke(th) \/ Step(th) \/ Failure(th) PROVE TypeOK'
  <2>1. CASE Invoke(th)
    <3>1. pc' \in [Threads -> Points] /\ call' \in [Threads -> Calls \cup {NoCall}]
      BY <2>1 DEF Invoke, Goto, TypeOK, MemoryTypeOK, Points
    <3>2. calls' \in 0..MaxCalls
      BY <2>1 DEF Invoke, TypeOK, CountTypeOK
    <3> QED BY <2>1, <3>1, <3>2
      DEF Invoke, disk, locks, work, seen, TypeOK, DiskTypeOK, LockTypeOK,
          MemoryTypeOK, CountTypeOK
  <2>2. CASE AcquireFlock(th)
    BY <2>2
      DEF AcquireFlock, At, Goto, disk, locks, memory, work, seen, counts,
          TypeOK, DiskTypeOK, LockTypeOK, MemoryTypeOK, CountTypeOK, Points,
          Executing, Creating
  <2>3. CASE AcquireRLock(th)
    BY <2>3
      DEF AcquireRLock, At, Goto, disk, locks, memory, work, seen, counts,
          TypeOK, DiskTypeOK, LockTypeOK, MemoryTypeOK, CountTypeOK, Points,
          Executing, Creating
  <2>4. CASE RunBound(th)
    BY <2>4, ReturnTypes
      DEF RunBound, disk, counts, TypeOK, DiskTypeOK, CountTypeOK
  <2>5. CASE RunAdopt(th)
    BY <2>5
      DEF RunAdopt, At, Goto, disk, locks, memory, work, seen, counts, TypeOK,
          DiskTypeOK, LockTypeOK, MemoryTypeOK, CountTypeOK, Points, Executing,
          Creating, RunDecide
  <2>6. CASE RunConflict(th)
    BY <2>6, ReturnTypes
      DEF RunConflict, disk, counts, TypeOK, DiskTypeOK, CountTypeOK
  <2>7. CASE RunMkdir(th)
    BY <2>7
      DEF RunMkdir, At, Goto, disk, locks, memory, work, seen, counts, TypeOK,
          DiskTypeOK, LockTypeOK, MemoryTypeOK, CountTypeOK, Points, Executing,
          Creating, RunDecide
  <2>8. CASE CreateRequest(th)
    BY <2>8
      DEF CreateRequest, At, Goto, disk, locks, memory, work, seen, counts,
          TypeOK, DiskTypeOK, LockTypeOK, MemoryTypeOK, CountTypeOK, Points,
          Executing, Creating
  <2>9. CASE CreateLease(th)
    BY <2>9
      DEF CreateLease, At, Goto, disk, locks, memory, work, seen, counts,
          TypeOK, DiskTypeOK, LockTypeOK, MemoryTypeOK, CountTypeOK, Points,
          Executing, Creating, Leases
  <2>10. CASE CreateStatus(th)
    <3>1. "created" \in RunStates /\ 0 \in 0..N
      BY <2>10 DEF CreateStatus, RunStates
    <3>2. status' \in Statuses
      BY <2>10, <3>1, StatusType DEF CreateStatus, At
    <3> QED BY <2>10, <3>1, <3>2
      DEF CreateStatus, At, Goto, disk, locks, memory, work, seen, counts,
          TypeOK, DiskTypeOK, LockTypeOK, MemoryTypeOK, CountTypeOK, Points,
          Executing, Creating
  <2>11. CASE ExecuteStart(th)
    <3>1. "running" \in RunStates /\ 0 \in 0..N
      BY <2>11 DEF ExecuteStart, RunStates
    <3>2. status' \in Statuses
      BY <2>11, <3>1, StatusType DEF ExecuteStart, At
    <3>3. gen' \in [Threads -> Nat]
      BY <2>11 DEF ExecuteStart, TypeOK, DiskTypeOK, MemoryTypeOK, Leases
    <3> QED BY <2>11, <3>1, <3>2, <3>3
      DEF ExecuteStart, At, Goto, disk, locks, memory, work, seen, counts,
          TypeOK, DiskTypeOK, LockTypeOK, MemoryTypeOK, CountTypeOK, Points,
          Executing, Creating
  <2>12. CASE InterruptLease(th)
    <3>1. lease' \in Leases
      BY <2>12, LeaseInterrupted
        DEF InterruptLease, TypeOK, DiskTypeOK, MemoryTypeOK
    <3>2. seenLease' \in [Threads -> Leases]
      BY <2>12 DEF InterruptLease, TypeOK, DiskTypeOK, MemoryTypeOK
    <3> QED BY <2>12, <3>1, <3>2
      DEF InterruptLease, At, Goto, disk, locks, memory, work, seen, counts,
          TypeOK, DiskTypeOK, LockTypeOK, MemoryTypeOK, CountTypeOK, Points,
          Executing, Creating
  <2>13. CASE InterruptRead(th)
    <3>1. seenStatus' \in [Threads -> Statuses]
      BY <2>13 DEF InterruptRead, TypeOK, DiskTypeOK, MemoryTypeOK
    <3>2. seenReport' \in [Threads -> Reports]
      BY <2>13 DEF InterruptRead, TypeOK, DiskTypeOK, MemoryTypeOK
    <3> QED BY <2>13, <3>1, <3>2
      DEF InterruptRead, At, Goto, disk, locks, memory, work, seen, counts,
          TypeOK, DiskTypeOK, LockTypeOK, MemoryTypeOK, CountTypeOK, Points,
          Executing, Creating
  <2>14. CASE InterruptReport(th)
    <3>1. report' \in Reports
      BY <2>14, StateChanged
        DEF InterruptReport, TypeOK, DiskTypeOK, MemoryTypeOK, RunStates
    <3> QED BY <2>14, <3>1
      DEF InterruptReport, At, Goto, disk, locks, memory, work, seen, counts,
          TypeOK, DiskTypeOK, LockTypeOK, MemoryTypeOK, CountTypeOK, Points,
          Executing, Creating
  <2>15. CASE InterruptStatus(th)
    <3>1. status' \in Statuses
      BY <2>15, StateChanged
        DEF InterruptStatus, TypeOK, DiskTypeOK, MemoryTypeOK, RunStates
    <3> QED BY <2>15, <3>1
      DEF InterruptStatus, At, Goto, disk, locks, memory, work, seen, counts,
          TypeOK, DiskTypeOK, LockTypeOK, MemoryTypeOK, CountTypeOK, Points,
          Executing, Creating
  <2>16. CASE RunLoopEnds(th)
    BY <2>16
      DEF RunLoopEnds, At, Goto, disk, locks, memory, work, seen, counts,
          TypeOK, DiskTypeOK, LockTypeOK, MemoryTypeOK, CountTypeOK, Points,
          Executing, Creating
  <2>17. CASE FinalizeRead(th)
    BY <2>17
      DEF FinalizeRead, At, Goto, disk, locks, memory, work, seen, counts,
          TypeOK, DiskTypeOK, LockTypeOK, MemoryTypeOK, CountTypeOK, Points,
          Executing, Creating
  <2>18. CASE FinalizeWrite(th)
    <3>1. status' \in Statuses
      BY <2>18, StateChanged, StateAfterType
        DEF FinalizeWrite, TypeOK, DiskTypeOK, MemoryTypeOK, RunStates
    <3> QED BY <2>18, <3>1
      DEF FinalizeWrite, At, Goto, disk, locks, memory, work, seen, counts,
          TypeOK, DiskTypeOK, LockTypeOK, MemoryTypeOK, CountTypeOK, Points,
          Executing, Creating
  <2>19. CASE BindIdempotency(th)
    <3>1. call[th].key \in IdemKeys
      BY <2>19, CallShapes
        DEF BindIdempotency, At, CallInv, CallInvOf, RunPoints
    <3>2. DiskTypeOK' /\ CountTypeOK'
      BY <2>19, <3>1
        DEF BindIdempotency, disk, counts, TypeOK, DiskTypeOK, CountTypeOK
    <3> QED BY <2>19, <3>2, ReturnTypes DEF BindIdempotency, TypeOK
  <2>20. CASE HeartbeatRead(th)
    <3>1. seenLease' \in [Threads -> Leases]
      BY <2>20 DEF HeartbeatRead, TypeOK, DiskTypeOK, MemoryTypeOK
    <3>2. pc' \in [Threads -> Points]
      <4>1. \E point \in {"beatWrite", "intLease", "loop"} : Goto(th, point)
        BY <2>20 DEF HeartbeatRead, AfterBeat
      <4>2. {"beatWrite", "intLease", "loop"} \subseteq Points /\ MemoryTypeOK
        BY DEF Points, Executing, Creating, TypeOK
      <4> QED BY <4>1, <4>2, GotoTypes
    <3> QED BY <2>20, <3>1, <3>2
      DEF HeartbeatRead, At, Goto, disk, locks, memory, work, seen, counts,
          TypeOK, DiskTypeOK, LockTypeOK, MemoryTypeOK, CountTypeOK, Points,
          Executing, Creating
  <2>21. CASE HeartbeatWrite(th)
    <3>1. lease' \in Leases
      BY <2>21 DEF HeartbeatWrite, TypeOK, DiskTypeOK, MemoryTypeOK
    <3>2. pc' \in [Threads -> Points]
      <4>1. \E point \in {"intLease", "loop"} : Goto(th, point)
        BY <2>21 DEF HeartbeatWrite, AfterBeat
      <4>2. {"intLease", "loop"} \subseteq Points /\ MemoryTypeOK
        BY DEF Points, Executing, Creating, TypeOK
      <4> QED BY <4>1, <4>2, GotoTypes
    <3> QED BY <2>21, <3>1, <3>2
      DEF HeartbeatWrite, At, Goto, disk, locks, memory, work, seen, counts,
          TypeOK, DiskTypeOK, LockTypeOK, MemoryTypeOK, CountTypeOK, Points,
          Executing, Creating
  <2>22. CASE FencedOut(th)
    BY <2>22, ReturnTypes
      DEF FencedOut, disk, counts, TypeOK, DiskTypeOK, CountTypeOK
  <2>23. CASE HoldBeforeWrite(th)
    BY <2>23
      DEF HoldBeforeWrite, At, Goto, disk, locks, memory, work, seen, counts,
          TypeOK, DiskTypeOK, LockTypeOK, MemoryTypeOK, CountTypeOK, Points,
          Executing, Creating, HoldThen
  <2>24. CASE ProcessRecord(th)
    <3>1. Len(rows[th]) < N
      BY <2>24 DEF ProcessRecord, At, CallInv, CallInvOf
    <3>2. rows' \in [Threads -> Seq(Outcomes)] /\ \A t \in Threads : Len(rows'[t]) <= N
      BY <2>24, <3>1 DEF ProcessRecord, TypeOK, MemoryTypeOK
    <3>3. att' \in [Threads -> Seq(1..N)]
      BY <2>24, <3>1 DEF ProcessRecord, TypeOK, MemoryTypeOK
    <3>4. pc' \in [Threads -> Points] /\ after' \in [Threads -> {"idle", "process", "commit", "cursor", "unwind"}]
      <4>1. \/ Goto(th, "hold") /\ after' = [after EXCEPT ![th] = "commit"]
            \/ Goto(th, "commit") /\ after' = after
        BY <2>24 DEF ProcessRecord, HoldThen
      <4>2. "hold" \in Points /\ "commit" \in Points /\ MemoryTypeOK
        BY DEF Points, Executing, Creating, TypeOK
      <4>3. pc' \in [Threads -> Points]
        BY <4>1, <4>2, GotoTypes
      <4> QED BY <4>1, <4>2, <4>3 DEF MemoryTypeOK
    <3> QED BY <2>24, <3>1, <3>2, <3>3, <3>4
      DEF ProcessRecord, At, Goto, disk, locks, memory, work, seen, counts,
          TypeOK, DiskTypeOK, LockTypeOK, MemoryTypeOK, CountTypeOK, Points,
          Executing, Creating
  <2>25. CASE PassFence(th)
    <3>1. pc' \in [Threads -> Points]
      <4>1. \E point \in {"loop", "writeOutcomes", "writeReport"} : Goto(th, point)
        BY <2>25 DEF PassFence
      <4>2. {"loop", "writeOutcomes", "writeReport"} \subseteq Points /\ MemoryTypeOK
        BY DEF Points, Executing, Creating, TypeOK
      <4> QED BY <4>1, <4>2, GotoTypes
    <3> QED BY <2>25, <3>1
      DEF PassFence, disk, locks, memory, work, seen, counts, TypeOK,
          DiskTypeOK, LockTypeOK, MemoryTypeOK, CountTypeOK
  <2>26. CASE WriteOutcomes(th)
    BY <2>26
      DEF WriteOutcomes, At, Goto, disk, locks, memory, work, seen, counts,
          TypeOK, DiskTypeOK, LockTypeOK, MemoryTypeOK, CountTypeOK, Points,
          Executing, Creating
  <2>27. CASE WriteAttempts(th)
    BY <2>27
      DEF WriteAttempts, At, Goto, disk, locks, memory, work, seen, counts,
          TypeOK, DiskTypeOK, LockTypeOK, MemoryTypeOK, CountTypeOK, Points,
          Executing, Creating
  <2>28. CASE WriteCheckpoint(th)
    <3>1. checkpoint' \in 0..N
      BY <2>28 DEF WriteCheckpoint, TypeOK, MemoryTypeOK
    <3>2. pc' \in [Threads -> Points] /\ after' \in [Threads -> {"idle", "process", "commit", "cursor", "unwind"}]
      BY <2>28
        DEF WriteCheckpoint, TypeOK, MemoryTypeOK, HoldThen, Goto, Points,
            Executing, Creating
    <3> QED BY <2>28, <3>1, <3>2
      DEF WriteCheckpoint, At, Goto, disk, locks, memory, work, seen, counts,
          TypeOK, DiskTypeOK, LockTypeOK, MemoryTypeOK, CountTypeOK, Points,
          Executing, Creating
  <2>29. CASE WriteReport(th)
    <3>1. report' \in Reports
      BY <2>29, ReportType, StateAfterType
        DEF WriteReport, TypeOK, MemoryTypeOK, RunStates
    <3> QED BY <2>29, <3>1
      DEF WriteReport, At, Goto, disk, locks, memory, work, seen, counts,
          TypeOK, DiskTypeOK, LockTypeOK, MemoryTypeOK, CountTypeOK, Points,
          Executing, Creating
  <2>30. CASE WriteStatus(th)
    <3>1. StateAfter(rows[th]) \in RunStates /\ Len(rows[th]) \in 0..N
      BY <2>30, StateAfterType DEF WriteStatus, TypeOK, MemoryTypeOK, RunStates
    <3>2. status' \in Statuses
      BY <2>30, <3>1, StatusType DEF WriteStatus, At
    <3> QED BY <2>30, <3>1, <3>2
      DEF WriteStatus, At, Goto, disk, locks, memory, work, seen, counts,
          TypeOK, DiskTypeOK, LockTypeOK, MemoryTypeOK, CountTypeOK, Points,
          Executing, Creating
  <2>31. CASE HoldRead(th)
    BY <2>31
      DEF HoldRead, At, Goto, disk, locks, memory, work, seen, counts, TypeOK,
          DiskTypeOK, LockTypeOK, MemoryTypeOK, CountTypeOK, Points, Executing,
          Creating
  <2>32. CASE HoldWrite(th)
    <3>1. status' \in Statuses
      BY <2>32 DEF HoldWrite, TypeOK, DiskTypeOK, MemoryTypeOK
    <3>2. after[th] \in {"process", "commit", "cursor", "unwind"}
      BY <2>32
        DEF HoldWrite, At, CallInv, CallInvOf, Holding, TypeOK, MemoryTypeOK
    <3>3. pc' \in [Threads -> Points]
      <4>1. \E point \in {"release", "process", "commit", "cursor", "unwind"} : Goto(th, point)
        BY <2>32, <3>2 DEF HoldWrite
      <4>2. /\ {"release", "process", "commit", "cursor", "unwind"} \subseteq Points
            /\ MemoryTypeOK
        BY DEF Points, Executing, Creating, TypeOK
      <4> QED BY <4>1, <4>2, GotoTypes
    <3> QED BY <2>32, <3>1, <3>2, <3>3
      DEF HoldWrite, At, Goto, disk, locks, memory, work, seen, counts, TypeOK,
          DiskTypeOK, LockTypeOK, MemoryTypeOK, CountTypeOK, Points, Executing,
          Creating
  <2>33. CASE Unwind(th)
    BY <2>33, ReturnTypes
      DEF Unwind, disk, counts, TypeOK, DiskTypeOK, CountTypeOK
  <2>34. CASE ResumeRefused(th)
    BY <2>34, ReturnTypes
      DEF ResumeRefused, disk, counts, TypeOK, DiskTypeOK, CountTypeOK
  <2>35. CASE ResumeAdmit(th)
    BY <2>35
      DEF ResumeAdmit, At, Goto, disk, locks, memory, work, seen, counts,
          TypeOK, DiskTypeOK, LockTypeOK, MemoryTypeOK, CountTypeOK, Points,
          Executing, Creating, RunExecuting, ResumeDecide
  <2>36. CASE BlockDrift(th)
    <3>1. [seenStatus[th] EXCEPT !.state = "blocked", !.drifted = TRUE] \in Statuses
      <4>1. seenStatus[th] \in Statuses
        BY DEF TypeOK, MemoryTypeOK
      <4> QED BY <4>1 DEF Statuses, RunStates
    <3>2. DiskTypeOK' /\ CountTypeOK'
      BY <2>36, <3>1
        DEF BlockDrift, disk, counts, TypeOK, DiskTypeOK, CountTypeOK
    <3> QED BY <2>36, <3>2, ReturnTypes DEF BlockDrift, TypeOK
  <2>37. CASE ReclaimRead(th)
    <3>1. gen' \in [Threads -> Nat]
      BY <2>37 DEF ReclaimRead, TypeOK, DiskTypeOK, MemoryTypeOK, Leases
    <3> QED BY <2>37, <3>1
      DEF ReclaimRead, At, Goto, disk, locks, memory, work, seen, counts,
          TypeOK, DiskTypeOK, LockTypeOK, MemoryTypeOK, CountTypeOK, Points,
          Executing, Creating
  <2>38. CASE ReclaimWrite(th)
    BY <2>38
      DEF ReclaimWrite, At, Goto, disk, locks, memory, work, seen, counts,
          TypeOK, DiskTypeOK, LockTypeOK, MemoryTypeOK, CountTypeOK, Points,
          Executing, Creating, Leases
  <2>39. CASE LoadLedger(th)
    <3>1. rows' \in [Threads -> Seq(Outcomes)]
      BY <2>39 DEF LoadLedger, TypeOK, MemoryTypeOK, DiskTypeOK
    <3>2. \A t \in Threads : Len(rows'[t]) <= N
      BY <2>39 DEF LoadLedger, TypeOK, MemoryTypeOK, DiskTypeOK
    <3>3. att' \in [Threads -> Seq(1..N)]
      BY <2>39 DEF LoadLedger, TypeOK, MemoryTypeOK, DiskTypeOK
    <3> QED BY <2>39, <3>1, <3>2, <3>3
      DEF LoadLedger, At, Goto, disk, locks, memory, work, seen, counts,
          TypeOK, DiskTypeOK, LockTypeOK, MemoryTypeOK, CountTypeOK, Points,
          Executing, Creating
  <2>40. CASE ResumeLoopEnds(th)
    BY <2>40
      DEF ResumeLoopEnds, At, Goto, disk, locks, memory, work, seen, counts,
          TypeOK, DiskTypeOK, LockTypeOK, MemoryTypeOK, CountTypeOK, Points,
          Executing, Creating
  <2>41. CASE ResumeReturns(th)
    BY <2>41, ReturnTypes
      DEF ResumeReturns, disk, counts, TypeOK, DiskTypeOK, CountTypeOK
  <2>42. CASE CreateRequestFails(th)
    BY <2>42, ReturnTypes
      DEF CreateRequestFails, disk, counts, TypeOK, DiskTypeOK, CountTypeOK
  <2>43. CASE HoldFails(th)
    BY <2>43, SMTT(20)
      DEF HoldFails, At, Goto, disk, locks, memory, work, seen, counts, TypeOK,
          DiskTypeOK, LockTypeOK, MemoryTypeOK, CountTypeOK, Points, Executing,
          Creating
  <2>44. CASE Abort(th)
    BY <2>44, ReturnTypes
      DEF Abort, disk, counts, TypeOK, DiskTypeOK, CountTypeOK
  <2> QED
    BY <1>3, <2>1, <2>2, <2>3, <2>4, <2>5, <2>6, <2>7, <2>8, <2>9, <2>10,
         <2>11, <2>12, <2>13, <2>14, <2>15, <2>16, <2>17, <2>18, <2>19, <2>20,
         <2>21, <2>22, <2>23, <2>24, <2>25, <2>26, <2>27, <2>28, <2>29, <2>30,
         <2>31, <2>32, <2>33, <2>34, <2>35, <2>36, <2>37, <2>38, <2>39, <2>40,
         <2>41, <2>42, <2>43, <2>44
       DEF Step, Failure, Enter, RunStep, KeyStep, ResumeStep
<1> QED
  BY <1>1, <1>2, <1>3 DEF Next

-----------------------------------------------------------------------------
(* Calls, locks and the exclusion of executors. *)

(* A returning thread gives up its locks, and no other thread's. *)
LEMMA ReturnCall ==
  ASSUME TypeOK, CallInv, NEW th \in Threads, Return(th)
  PROVE  CallInv'
<1> SUFFICES ASSUME NEW t \in Threads PROVE CallInvOf(t)'
  BY DEF CallInv
<1>1. CASE t = th
  BY <1>1
    DEF Return, Goto, TypeOK, MemoryTypeOK, CallInvOf, RunPoints, ResumePoints,
        Holding, Creating
<1>2. CASE t # th
  <2>1. /\ pc'[t] = pc[t] /\ call'[t] = call[t] /\ rows'[t] = rows[t] /\ after'[t] = after[t]
    BY <1>2 DEF Return, Goto, Forget, TypeOK, MemoryTypeOK
  <2>2. pc[t] \notin {"idle", "flock"} => flock'[call[t].op] = t
    BY <1>2, ConstantsAssumption, CallShapes
      DEF Return, TypeOK, LockTypeOK, CallInv, CallInvOf
  <2> QED BY <2>1, <2>2 DEF CallInv, CallInvOf
<1> QED BY <1>1, <1>2

(* Every step keeps each thread inside its call, its lock file held. *)
LEMMA CallStep == TypeOK /\ CallInv /\ [Next]_vars => CallInv'
<1> SUFFICES ASSUME TypeOK, CallInv, [Next]_vars PROVE CallInv'
  OBVIOUS
<1> USE ConstantsAssumption

<1>1. CASE UNCHANGED vars
  BY <1>1
    DEF vars, disk, locks, memory, work, seen, counts, CallInv, CallInvOf,
        RunPoints, ResumePoints, Holding, Creating
<1>2. ASSUME NEW p \in Processes, Crash(p) PROVE CallInv'
  BY <1>2, CallShapes
    DEF Crash, Forget, TypeOK, LockTypeOK, MemoryTypeOK, CallInv, CallInvOf,
        RunPoints, ResumePoints, Holding, Creating
<1>3. ASSUME NEW th \in Threads, Invoke(th) \/ Step(th) \/ Failure(th) PROVE CallInv'
  <2>1. CASE Invoke(th)
    BY <2>1
      DEF Invoke, At, Goto, locks, memory, work, seen, TypeOK, LockTypeOK,
          MemoryTypeOK, CallInv, CallInvOf, RunPoints, ResumePoints, Holding,
          Creating
  <2>2. CASE AcquireFlock(th)
    BY <2>2, CallShapes
      DEF AcquireFlock, At, Goto, memory, work, seen, TypeOK, LockTypeOK,
          MemoryTypeOK, CallInv, CallInvOf, RunPoints, ResumePoints, Holding,
          Creating
  <2>3. CASE AcquireRLock(th)
    BY <2>3
      DEF AcquireRLock, At, Goto, locks, memory, work, seen, TypeOK,
          LockTypeOK, MemoryTypeOK, CallInv, CallInvOf, RunPoints,
          ResumePoints, Holding, Creating
  <2>4. CASE RunBound(th)
    BY <2>4, ReturnCall DEF RunBound
  <2>5. CASE RunAdopt(th)
    BY <2>5
      DEF RunAdopt, At, Goto, locks, memory, work, seen, TypeOK, LockTypeOK,
          MemoryTypeOK, CallInv, CallInvOf, RunPoints, ResumePoints, Holding,
          Creating, RunDecide
  <2>6. CASE RunConflict(th)
    BY <2>6, ReturnCall DEF RunConflict
  <2>7. CASE RunMkdir(th)
    BY <2>7
      DEF RunMkdir, At, Goto, locks, memory, work, seen, TypeOK, LockTypeOK,
          MemoryTypeOK, CallInv, CallInvOf, RunPoints, ResumePoints, Holding,
          Creating, RunDecide
  <2>8. CASE CreateRequest(th)
    BY <2>8, SMTT(20)
      DEF CreateRequest, At, Goto, locks, memory, work, seen, TypeOK,
          LockTypeOK, MemoryTypeOK, CallInv, CallInvOf, RunPoints,
          ResumePoints, Holding, Creating
  <2>9. CASE CreateLease(th)
    BY <2>9
      DEF CreateLease, At, Goto, locks, memory, work, seen, TypeOK, LockTypeOK,
          MemoryTypeOK, CallInv, CallInvOf, RunPoints, ResumePoints, Holding,
          Creating
  <2>10. CASE CreateStatus(th)
    BY <2>10
      DEF CreateStatus, At, Goto, locks, memory, work, seen, TypeOK,
          LockTypeOK, MemoryTypeOK, CallInv, CallInvOf, RunPoints,
          ResumePoints, Holding, Creating
  <2>11. CASE ExecuteStart(th)
    BY <2>11
      DEF ExecuteStart, At, Goto, locks, memory, work, seen, TypeOK,
          LockTypeOK, MemoryTypeOK, CallInv, CallInvOf, RunPoints,
          ResumePoints, Holding, Creating
  <2>12. CASE InterruptLease(th)
    BY <2>12, SMTT(20)
      DEF InterruptLease, At, Goto, locks, memory, work, seen, TypeOK,
          LockTypeOK, MemoryTypeOK, CallInv, CallInvOf, RunPoints,
          ResumePoints, Holding, Creating
  <2>13. CASE InterruptRead(th)
    BY <2>13
      DEF InterruptRead, At, Goto, locks, memory, work, seen, TypeOK,
          LockTypeOK, MemoryTypeOK, CallInv, CallInvOf, RunPoints,
          ResumePoints, Holding, Creating
  <2>14. CASE InterruptReport(th)
    BY <2>14
      DEF InterruptReport, At, Goto, locks, memory, work, seen, TypeOK,
          LockTypeOK, MemoryTypeOK, CallInv, CallInvOf, RunPoints,
          ResumePoints, Holding, Creating
  <2>15. CASE InterruptStatus(th)
    BY <2>15
      DEF InterruptStatus, At, Goto, locks, memory, work, seen, TypeOK,
          LockTypeOK, MemoryTypeOK, CallInv, CallInvOf, RunPoints,
          ResumePoints, Holding, Creating
  <2>16. CASE RunLoopEnds(th)
    BY <2>16
      DEF RunLoopEnds, At, Goto, locks, memory, work, seen, TypeOK, LockTypeOK,
          MemoryTypeOK, CallInv, CallInvOf, RunPoints, ResumePoints, Holding,
          Creating
  <2>17. CASE FinalizeRead(th)
    BY <2>17
      DEF FinalizeRead, At, Goto, locks, memory, work, seen, TypeOK,
          LockTypeOK, MemoryTypeOK, CallInv, CallInvOf, RunPoints,
          ResumePoints, Holding, Creating
  <2>18. CASE FinalizeWrite(th)
    BY <2>18
      DEF FinalizeWrite, At, Goto, locks, memory, work, seen, TypeOK,
          LockTypeOK, MemoryTypeOK, CallInv, CallInvOf, RunPoints,
          ResumePoints, Holding, Creating
  <2>19. CASE BindIdempotency(th)
    BY <2>19, ReturnCall DEF BindIdempotency
  <2>20. CASE HeartbeatRead(th)
    BY <2>20, SMTT(20)
      DEF HeartbeatRead, At, Goto, locks, memory, work, seen, TypeOK,
          LockTypeOK, MemoryTypeOK, CallInv, CallInvOf, RunPoints,
          ResumePoints, Holding, Creating, AfterBeat
  <2>21. CASE HeartbeatWrite(th)
    BY <2>21
      DEF HeartbeatWrite, At, Goto, locks, memory, work, seen, TypeOK,
          LockTypeOK, MemoryTypeOK, CallInv, CallInvOf, RunPoints,
          ResumePoints, Holding, Creating, AfterBeat
  <2>22. CASE FencedOut(th)
    BY <2>22, ReturnCall DEF FencedOut
  <2>23. CASE HoldBeforeWrite(th)
    BY <2>23
      DEF HoldBeforeWrite, At, Goto, locks, memory, work, seen, TypeOK,
          LockTypeOK, MemoryTypeOK, CallInv, CallInvOf, RunPoints,
          ResumePoints, Holding, Creating, HoldThen
  <2>24. CASE ProcessRecord(th)
    <3>1. /\ pc'[th] \in {"hold", "commit"} /\ (pc'[th] = "hold" => after'[th] = "commit")
          /\ pc[th] \in {"loop", "process"}
      BY <2>24 DEF ProcessRecord, At, Goto, HoldThen, TypeOK, MemoryTypeOK
    <3>2. \A t \in Threads \ {th} : pc'[t] = pc[t] /\ rows'[t] = rows[t] /\ after'[t] = after[t]
      BY <2>24 DEF ProcessRecord, At, Goto, HoldThen, TypeOK, MemoryTypeOK
    <3> QED BY <2>24, <3>1, <3>2
      DEF ProcessRecord, locks, CallInv, CallInvOf, RunPoints, ResumePoints,
          Holding, Creating
  <2>25. CASE PassFence(th)
    BY <2>25
      DEF PassFence, At, Goto, locks, memory, work, seen, TypeOK, LockTypeOK,
          MemoryTypeOK, CallInv, CallInvOf, RunPoints, ResumePoints, Holding,
          Creating
  <2>26. CASE WriteOutcomes(th)
    BY <2>26
      DEF WriteOutcomes, At, Goto, locks, memory, work, seen, TypeOK,
          LockTypeOK, MemoryTypeOK, CallInv, CallInvOf, RunPoints,
          ResumePoints, Holding, Creating
  <2>27. CASE WriteAttempts(th)
    BY <2>27
      DEF WriteAttempts, At, Goto, locks, memory, work, seen, TypeOK,
          LockTypeOK, MemoryTypeOK, CallInv, CallInvOf, RunPoints,
          ResumePoints, Holding, Creating
  <2>28. CASE WriteCheckpoint(th)
    BY <2>28
      DEF WriteCheckpoint, At, Goto, locks, memory, work, seen, TypeOK,
          LockTypeOK, MemoryTypeOK, CallInv, CallInvOf, RunPoints,
          ResumePoints, Holding, Creating, HoldThen
  <2>29. CASE WriteReport(th)
    BY <2>29
      DEF WriteReport, At, Goto, locks, memory, work, seen, TypeOK, LockTypeOK,
          MemoryTypeOK, CallInv, CallInvOf, RunPoints, ResumePoints, Holding,
          Creating
  <2>30. CASE WriteStatus(th)
    BY <2>30
      DEF WriteStatus, At, Goto, locks, memory, work, seen, TypeOK, LockTypeOK,
          MemoryTypeOK, CallInv, CallInvOf, RunPoints, ResumePoints, Holding,
          Creating
  <2>31. CASE HoldRead(th)
    BY <2>31
      DEF HoldRead, At, Goto, locks, memory, work, seen, TypeOK, LockTypeOK,
          MemoryTypeOK, CallInv, CallInvOf, RunPoints, ResumePoints, Holding,
          Creating
  <2>32. CASE HoldWrite(th)
    <3>1. after[th] \in {"process", "commit", "cursor", "unwind"} /\ (after[th] = "process" => Len(rows[th]) < N)
      BY <2>32
        DEF HoldWrite, At, TypeOK, MemoryTypeOK, CallInv, CallInvOf, Holding
    <3> QED BY <2>32, <3>1
      DEF HoldWrite, At, Goto, locks, memory, work, seen, TypeOK, MemoryTypeOK,
          CallInv, CallInvOf, RunPoints, ResumePoints, Holding, Creating
  <2>33. CASE Unwind(th)
    BY <2>33, ReturnCall DEF Unwind
  <2>34. CASE ResumeRefused(th)
    BY <2>34, ReturnCall DEF ResumeRefused
  <2>35. CASE ResumeAdmit(th)
    BY <2>35
      DEF ResumeAdmit, At, Goto, locks, memory, work, seen, TypeOK, LockTypeOK,
          MemoryTypeOK, CallInv, CallInvOf, RunPoints, ResumePoints, Holding,
          Creating, ResumeDecide
  <2>36. CASE BlockDrift(th)
    BY <2>36, ReturnCall DEF BlockDrift
  <2>37. CASE ReclaimRead(th)
    BY <2>37
      DEF ReclaimRead, At, Goto, locks, memory, work, seen, TypeOK, LockTypeOK,
          MemoryTypeOK, CallInv, CallInvOf, RunPoints, ResumePoints, Holding,
          Creating
  <2>38. CASE ReclaimWrite(th)
    BY <2>38
      DEF ReclaimWrite, At, Goto, locks, memory, work, seen, TypeOK,
          LockTypeOK, MemoryTypeOK, CallInv, CallInvOf, RunPoints,
          ResumePoints, Holding, Creating
  <2>39. CASE LoadLedger(th)
    <3>1. /\ pc[th] \in ResumePoints /\ pc'[th] \in ResumePoints
          /\ pc'[th] \notin {"idle", "process"} \cup Holding \cup RunPoints
      BY <2>39
        DEF LoadLedger, At, Goto, TypeOK, MemoryTypeOK, ResumePoints, Holding,
            RunPoints, Creating
    <3>2. CallInvOf(th)'
      BY <2>39, <3>1
        DEF LoadLedger, locks, CallInv, CallInvOf, ResumePoints
    <3>3. \A t \in Threads \ {th} : CallInvOf(t)'
      BY <2>39
        DEF LoadLedger, Goto, locks, seen, TypeOK, MemoryTypeOK, CallInv, CallInvOf
    <3> QED BY <3>2, <3>3 DEF CallInv
  <2>40. CASE ResumeLoopEnds(th)
    BY <2>40
      DEF ResumeLoopEnds, At, Goto, locks, memory, work, seen, TypeOK,
          LockTypeOK, MemoryTypeOK, CallInv, CallInvOf, RunPoints,
          ResumePoints, Holding, Creating
  <2>41. CASE ResumeReturns(th)
    BY <2>41, ReturnCall DEF ResumeReturns
  <2>42. CASE CreateRequestFails(th)
    BY <2>42, ReturnCall DEF CreateRequestFails
  <2>43. CASE HoldFails(th)
    BY <2>43
      DEF HoldFails, At, Goto, locks, memory, work, seen, TypeOK, LockTypeOK,
          MemoryTypeOK, CallInv, CallInvOf, RunPoints, ResumePoints, Holding,
          Creating
  <2>44. CASE Abort(th)
    BY <2>44, ReturnCall DEF Abort
  <2> QED
    BY <1>3, <2>1, <2>2, <2>3, <2>4, <2>5, <2>6, <2>7, <2>8, <2>9, <2>10,
         <2>11, <2>12, <2>13, <2>14, <2>15, <2>16, <2>17, <2>18, <2>19, <2>20,
         <2>21, <2>22, <2>23, <2>24, <2>25, <2>26, <2>27, <2>28, <2>29, <2>30,
         <2>31, <2>32, <2>33, <2>34, <2>35, <2>36, <2>37, <2>38, <2>39, <2>40,
         <2>41, <2>42, <2>43, <2>44
       DEF Step, Failure, Enter, RunStep, KeyStep, ResumeStep
<1> QED
  BY <1>1, <1>2, <1>3 DEF Next

(* A returning thread leaves the memory of every other thread alone. *)
LEMMA ReturnOthers ==
  ASSUME MemoryTypeOK, NEW th \in Threads, Return(th)
  PROVE  /\ pc'[th] = "idle"
         /\ \A t \in Threads \ {th} :
              /\ pc'[t] = pc[t] /\ call'[t] = call[t] /\ gen'[t] = gen[t]
              /\ rows'[t] = rows[t] /\ att'[t] = att[t] /\ after'[t] = after[t]
              /\ seenLease'[t] = seenLease[t] /\ seenStatus'[t] = seenStatus[t]
              /\ seenReport'[t] = seenReport[t]
BY DEF MemoryTypeOK, Return, Goto, Forget

(* The lock file of run() lets one thread at a time create the directory. *)
LEMMA OneCreator ==
  ASSUME CallInv, NEW a \in Threads, NEW b \in Threads,
         pc[a] \in Creating \cup {"start"}, pc[b] \in Creating \cup {"start"}
  PROVE  a = b
BY DEF CallInv, CallInvOf, RunPoints, Creating

(* Nothing is committed before the run has started, after every step too. *)
LEMMA StartStep == TypeOK /\ CallInv /\ StartInv /\ [Next]_vars => StartInv'
<1> SUFFICES ASSUME TypeOK, CallInv, StartInv, [Next]_vars PROVE StartInv'
  OBVIOUS
<1> USE ConstantsAssumption

<1>1. CASE UNCHANGED vars
  BY <1>1
    DEF vars, disk, locks, memory, work, seen, counts, StartInv, StartInvOf,
        Started, Empty, Creating, Executing
<1>2. ASSUME NEW p \in Processes, Crash(p) PROVE StartInv'
  BY <1>2
    DEF Crash, Forget, disk, TypeOK, MemoryTypeOK, StartInv, StartInvOf,
        Started, Empty, Creating, Executing
<1>3. ASSUME NEW th \in Threads, Invoke(th) \/ Step(th) \/ Failure(th) PROVE StartInv'
  <2>1. CASE Invoke(th)
    BY <2>1
      DEF Invoke, At, Goto, disk, memory, work, seen, TypeOK, MemoryTypeOK,
          CallInv, CallInvOf, RunPoints, ResumePoints, Holding, StartInv,
          StartInvOf, Started, Empty, Creating, Executing
  <2>2. CASE AcquireFlock(th)
    BY <2>2
      DEF AcquireFlock, At, Goto, disk, memory, work, seen, TypeOK,
          MemoryTypeOK, CallInv, CallInvOf, RunPoints, ResumePoints, Holding,
          StartInv, StartInvOf, Started, Empty, Creating, Executing
  <2>3. CASE AcquireRLock(th)
    BY <2>3
      DEF AcquireRLock, At, Goto, disk, memory, work, seen, TypeOK,
          MemoryTypeOK, CallInv, CallInvOf, RunPoints, ResumePoints, Holding,
          StartInv, StartInvOf, Started, Empty, Creating, Executing
  <2>4. CASE RunBound(th)
    BY <2>4, ReturnOthers
      DEF RunBound, disk, At, TypeOK, CallInv, CallInvOf, StartInv, StartInvOf,
          Started, Empty, Creating, Executing
  <2>5. CASE RunAdopt(th)
    BY <2>5
      DEF RunAdopt, At, Goto, disk, memory, work, seen, TypeOK, MemoryTypeOK,
          CallInv, CallInvOf, RunPoints, ResumePoints, Holding, StartInv,
          StartInvOf, Started, Empty, Creating, Executing, RunDecide
  <2>6. CASE RunConflict(th)
    BY <2>6, ReturnOthers
      DEF RunConflict, disk, At, TypeOK, CallInv, CallInvOf, StartInv,
          StartInvOf, Started, Empty, Creating, Executing
  <2>7. CASE RunMkdir(th)
    BY <2>7
      DEF RunMkdir, At, Goto, disk, memory, work, seen, TypeOK, MemoryTypeOK,
          CallInv, CallInvOf, RunPoints, ResumePoints, Holding, StartInv,
          StartInvOf, Started, Empty, Creating, Executing, RunDecide
  <2>8. CASE CreateRequest(th)
    BY <2>8
      DEF CreateRequest, At, Goto, disk, memory, work, seen, TypeOK,
          MemoryTypeOK, CallInv, CallInvOf, RunPoints, ResumePoints, Holding,
          StartInv, StartInvOf, Started, Empty, Creating, Executing
  <2>9. CASE CreateLease(th)
    BY <2>9
      DEF CreateLease, At, Goto, disk, memory, work, seen, TypeOK,
          MemoryTypeOK, CallInv, CallInvOf, RunPoints, ResumePoints, Holding,
          StartInv, StartInvOf, Started, Empty, Creating, Executing
  <2>10. CASE CreateStatus(th)
    BY <2>10
      DEF CreateStatus, At, Goto, disk, memory, work, seen, TypeOK,
          MemoryTypeOK, CallInv, CallInvOf, RunPoints, ResumePoints, Holding,
          StartInv, StartInvOf, Started, Empty, Creating, Executing
  <2>11. CASE ExecuteStart(th)
    <3>1. \A t \in Threads \ {th} : pc[t] \notin Creating \cup {"start"}
      BY <2>11, OneCreator DEF ExecuteStart, At, Creating
    <3>2. Started' /\ made' # "none"
      BY <2>11
        DEF ExecuteStart, At, StartInv, StartInvOf, Started, Empty, Creating,
            Executing
    <3> QED BY <2>11, <3>1, <3>2
      DEF ExecuteStart, At, Goto, seen, TypeOK, MemoryTypeOK, StartInv,
          StartInvOf, Started, Empty, Creating, Executing
  <2>12. CASE InterruptLease(th)
    BY <2>12
      DEF InterruptLease, At, Goto, disk, memory, work, seen, TypeOK,
          MemoryTypeOK, CallInv, CallInvOf, RunPoints, ResumePoints, Holding,
          StartInv, StartInvOf, Started, Empty, Creating, Executing
  <2>13. CASE InterruptRead(th)
    BY <2>13
      DEF InterruptRead, At, Goto, disk, memory, work, seen, TypeOK,
          MemoryTypeOK, CallInv, CallInvOf, RunPoints, ResumePoints, Holding,
          StartInv, StartInvOf, Started, Empty, Creating, Executing
  <2>14. CASE InterruptReport(th)
    BY <2>14
      DEF InterruptReport, At, Goto, disk, memory, work, seen, TypeOK,
          MemoryTypeOK, CallInv, CallInvOf, RunPoints, ResumePoints, Holding,
          StartInv, StartInvOf, Started, Empty, Creating, Executing
  <2>15. CASE InterruptStatus(th)
    BY <2>15
      DEF InterruptStatus, At, Goto, disk, memory, work, seen, TypeOK,
          MemoryTypeOK, CallInv, CallInvOf, RunPoints, ResumePoints, Holding,
          StartInv, StartInvOf, Started, Empty, Creating, Executing, Statuses,
          DiskTypeOK
  <2>16. CASE RunLoopEnds(th)
    BY <2>16
      DEF RunLoopEnds, At, Goto, disk, memory, work, seen, TypeOK,
          MemoryTypeOK, CallInv, CallInvOf, RunPoints, ResumePoints, Holding,
          StartInv, StartInvOf, Started, Empty, Creating, Executing
  <2>17. CASE FinalizeRead(th)
    BY <2>17
      DEF FinalizeRead, At, Goto, disk, memory, work, seen, TypeOK,
          MemoryTypeOK, CallInv, CallInvOf, RunPoints, ResumePoints, Holding,
          StartInv, StartInvOf, Started, Empty, Creating, Executing
  <2>18. CASE FinalizeWrite(th)
    <3>1. status'.state \notin {"absent", "created"}
      BY <2>18, StateAfterType
        DEF FinalizeWrite, TypeOK, MemoryTypeOK, Statuses
    <3>2. Started /\ Started'
      BY <2>18, <3>1
        DEF FinalizeWrite, At, StartInv, StartInvOf, Started, Empty, Creating,
            Executing
    <3> QED BY <2>18, <3>1, <3>2
      DEF FinalizeWrite, At, Goto, memory, seen, TypeOK, MemoryTypeOK,
          StartInv, StartInvOf, Started, Empty, Creating, Executing
  <2>19. CASE BindIdempotency(th)
    BY <2>19, ReturnOthers
      DEF BindIdempotency, disk, At, TypeOK, CallInv, CallInvOf, StartInv,
          StartInvOf, Started, Empty, Creating, Executing
  <2>20. CASE HeartbeatRead(th)
    BY <2>20
      DEF HeartbeatRead, At, Goto, disk, memory, work, seen, TypeOK,
          MemoryTypeOK, CallInv, CallInvOf, RunPoints, ResumePoints, Holding,
          StartInv, StartInvOf, Started, Empty, Creating, Executing, AfterBeat
  <2>21. CASE HeartbeatWrite(th)
    BY <2>21
      DEF HeartbeatWrite, At, Goto, disk, memory, work, seen, TypeOK,
          MemoryTypeOK, CallInv, CallInvOf, RunPoints, ResumePoints, Holding,
          StartInv, StartInvOf, Started, Empty, Creating, Executing, AfterBeat
  <2>22. CASE FencedOut(th)
    BY <2>22, ReturnOthers
      DEF FencedOut, disk, At, TypeOK, CallInv, CallInvOf, StartInv,
          StartInvOf, Started, Empty, Creating, Executing
  <2>23. CASE HoldBeforeWrite(th)
    BY <2>23
      DEF HoldBeforeWrite, At, Goto, disk, memory, work, seen, TypeOK,
          MemoryTypeOK, CallInv, CallInvOf, RunPoints, ResumePoints, Holding,
          StartInv, StartInvOf, Started, Empty, Creating, Executing, HoldThen
  <2>24. CASE ProcessRecord(th)
    BY <2>24
      DEF ProcessRecord, At, Goto, disk, memory, work, seen, TypeOK,
          MemoryTypeOK, CallInv, CallInvOf, RunPoints, ResumePoints, Holding,
          StartInv, StartInvOf, Started, Empty, Creating, Executing, HoldThen
  <2>25. CASE PassFence(th)
    BY <2>25, SMTT(20)
      DEF PassFence, At, Goto, disk, memory, work, seen, TypeOK, MemoryTypeOK,
          CallInv, CallInvOf, RunPoints, ResumePoints, Holding, StartInv,
          StartInvOf, Started, Empty, Creating, Executing
  <2>26. CASE WriteOutcomes(th)
    BY <2>26
      DEF WriteOutcomes, At, Goto, disk, memory, work, seen, TypeOK,
          MemoryTypeOK, CallInv, CallInvOf, RunPoints, ResumePoints, Holding,
          StartInv, StartInvOf, Started, Empty, Creating, Executing
  <2>27. CASE WriteAttempts(th)
    BY <2>27
      DEF WriteAttempts, At, Goto, disk, memory, work, seen, TypeOK,
          MemoryTypeOK, CallInv, CallInvOf, RunPoints, ResumePoints, Holding,
          StartInv, StartInvOf, Started, Empty, Creating, Executing
  <2>28. CASE WriteCheckpoint(th)
    BY <2>28
      DEF WriteCheckpoint, At, Goto, disk, memory, work, seen, TypeOK,
          MemoryTypeOK, CallInv, CallInvOf, RunPoints, ResumePoints, Holding,
          StartInv, StartInvOf, Started, Empty, Creating, Executing, HoldThen
  <2>29. CASE WriteReport(th)
    BY <2>29
      DEF WriteReport, At, Goto, disk, memory, work, seen, TypeOK,
          MemoryTypeOK, CallInv, CallInvOf, RunPoints, ResumePoints, Holding,
          StartInv, StartInvOf, Started, Empty, Creating, Executing
  <2>30. CASE WriteStatus(th)
    <3>1. Started'
      BY <2>30, StateAfterType DEF WriteStatus, Started
    <3>2. \A t \in Threads : pc[t] \notin Creating \cup {"start"}
      BY <2>30 DEF WriteStatus, At, StartInv, StartInvOf, Creating, Executing, Started
    <3>3. /\ made # "none" /\ made' = made /\ seenStatus' = seenStatus
      BY <2>30 DEF WriteStatus, At, memory, seen, StartInv, StartInvOf, Executing, Started
    <3>4. pc' = [pc EXCEPT ![th] = "beat"] /\ pc \in [Threads -> Points]
      BY <2>30 DEF WriteStatus, Goto, TypeOK, MemoryTypeOK
    <3>5. \A t \in Threads : StartInvOf(t)'
      BY <3>1, <3>2, <3>3, <3>4 DEF StartInv, StartInvOf, Creating
    <3> QED BY <3>1, <3>3, <3>5 DEF StartInv
  <2>31. CASE HoldRead(th)
    BY <2>31
      DEF HoldRead, At, Goto, disk, memory, work, seen, TypeOK, MemoryTypeOK,
          CallInv, CallInvOf, RunPoints, ResumePoints, Holding, StartInv,
          StartInvOf, Started, Empty, Creating, Executing
  <2>32. CASE HoldWrite(th)
    <3>1. Started /\ Started'
      BY <2>32
        DEF HoldWrite, At, StartInv, StartInvOf, Started, Empty, Creating,
            Executing
    <3>2. after[th] \in {"process", "commit", "cursor", "unwind"}
      BY <2>32
        DEF HoldWrite, At, CallInv, CallInvOf, Holding, TypeOK, MemoryTypeOK
    <3> QED BY <2>32, <3>1, <3>2
      DEF HoldWrite, At, Goto, memory, seen, TypeOK, MemoryTypeOK, StartInv,
          StartInvOf, Started, Empty, Creating, Executing
  <2>33. CASE Unwind(th)
    BY <2>33, ReturnOthers
      DEF Unwind, disk, At, TypeOK, CallInv, CallInvOf, StartInv, StartInvOf,
          Started, Empty, Creating, Executing
  <2>34. CASE ResumeRefused(th)
    BY <2>34, ReturnOthers
      DEF ResumeRefused, disk, At, TypeOK, CallInv, CallInvOf, StartInv,
          StartInvOf, Started, Empty, Creating, Executing
  <2>35. CASE ResumeAdmit(th)
    BY <2>35
      DEF ResumeAdmit, At, Goto, disk, memory, work, seen, TypeOK,
          MemoryTypeOK, CallInv, CallInvOf, RunPoints, ResumePoints, Holding,
          StartInv, StartInvOf, Started, Empty, Creating, Executing,
          ResumeDecide, Resumable
  <2>36. CASE BlockDrift(th)
    <3>1. status'.state \notin {"absent", "created"}
      <4>1. Started /\ seenStatus[th].state \notin {"absent", "created"}
        BY <2>36
          DEF BlockDrift, At, StartInv, StartInvOf, Started, Empty, Creating,
              Executing
      <4>2. seenStatus[th] \in Statuses
        BY DEF TypeOK, MemoryTypeOK
      <4> QED BY <2>36, <4>1, <4>2 DEF BlockDrift, Started, Statuses
    <3>2. Started /\ Started'
      BY <2>36, <3>1
        DEF BlockDrift, At, StartInv, StartInvOf, Started, Empty, Creating,
            Executing
    <3> QED BY <2>36, <3>1, <3>2, ReturnOthers
      DEF BlockDrift, TypeOK, StartInv, StartInvOf, Started, Empty, Creating,
          Executing
  <2>37. CASE ReclaimRead(th)
    BY <2>37
      DEF ReclaimRead, At, Goto, disk, memory, work, seen, TypeOK,
          MemoryTypeOK, CallInv, CallInvOf, RunPoints, ResumePoints, Holding,
          StartInv, StartInvOf, Started, Empty, Creating, Executing
  <2>38. CASE ReclaimWrite(th)
    BY <2>38
      DEF ReclaimWrite, At, Goto, disk, memory, work, seen, TypeOK,
          MemoryTypeOK, CallInv, CallInvOf, RunPoints, ResumePoints, Holding,
          StartInv, StartInvOf, Started, Empty, Creating, Executing
  <2>39. CASE LoadLedger(th)
    BY <2>39
      DEF LoadLedger, At, Goto, disk, memory, work, seen, TypeOK, MemoryTypeOK,
          CallInv, CallInvOf, RunPoints, ResumePoints, Holding, StartInv,
          StartInvOf, Started, Empty, Creating, Executing
  <2>40. CASE ResumeLoopEnds(th)
    BY <2>40
      DEF ResumeLoopEnds, At, Goto, disk, memory, work, seen, TypeOK,
          MemoryTypeOK, CallInv, CallInvOf, RunPoints, ResumePoints, Holding,
          StartInv, StartInvOf, Started, Empty, Creating, Executing
  <2>41. CASE ResumeReturns(th)
    BY <2>41, ReturnOthers
      DEF ResumeReturns, disk, At, TypeOK, CallInv, CallInvOf, StartInv,
          StartInvOf, Started, Empty, Creating, Executing
  <2>42. CASE CreateRequestFails(th)
    <3>1. \A t \in Threads \ {th} : pc[t] \notin Creating \cup {"start"}
      BY <2>42, OneCreator DEF CreateRequestFails, At, Creating
    <3> QED BY <2>42, <3>1, ReturnOthers
      DEF CreateRequestFails, At, TypeOK, StartInv, StartInvOf, Started, Empty,
          Creating, Executing
  <2>43. CASE HoldFails(th)
    BY <2>43
      DEF HoldFails, At, Goto, disk, memory, work, seen, TypeOK, MemoryTypeOK,
          CallInv, CallInvOf, RunPoints, ResumePoints, Holding, StartInv,
          StartInvOf, Started, Empty, Creating, Executing
  <2>44. CASE Abort(th)
    BY <2>44, ReturnOthers
      DEF Abort, disk, At, TypeOK, CallInv, CallInvOf, StartInv, StartInvOf,
          Started, Empty, Creating, Executing
  <2> QED
    BY <1>3, <2>1, <2>2, <2>3, <2>4, <2>5, <2>6, <2>7, <2>8, <2>9, <2>10,
         <2>11, <2>12, <2>13, <2>14, <2>15, <2>16, <2>17, <2>18, <2>19, <2>20,
         <2>21, <2>22, <2>23, <2>24, <2>25, <2>26, <2>27, <2>28, <2>29, <2>30,
         <2>31, <2>32, <2>33, <2>34, <2>35, <2>36, <2>37, <2>38, <2>39, <2>40,
         <2>41, <2>42, <2>43, <2>44
       DEF Step, Failure, Enter, RunStep, KeyStep, ResumeStep
<1> QED
  BY <1>1, <1>2, <1>3 DEF Next

(* A step of a thread that is executing already brings no executor together. *)
LEMMA StaysApart ==
  ASSUME MemoryTypeOK, ApartInv, NEW th \in Threads, pc[th] \in Executing,
         call' = call, overtaken' = overtaken, \A t \in Threads \ {th} : pc'[t] = pc[t]
  PROVE  ApartInv'
BY DEF ApartInv

(* A run and a resume start to execute side by side only by overtaking. *)
LEMMA ApartStep == TypeOK /\ CallInv /\ StartInv /\ ApartInv /\ [Next]_vars => ApartInv'
<1> SUFFICES ASSUME TypeOK, CallInv, StartInv, ApartInv, [Next]_vars PROVE ApartInv'
  OBVIOUS
<1> USE ConstantsAssumption

<1>1. CASE UNCHANGED vars
  BY <1>1 DEF vars, memory, ApartInv, Executing
<1>2. ASSUME NEW p \in Processes, Crash(p) PROVE ApartInv'
  BY <1>2, SMTT(20) DEF Crash, Forget, TypeOK, MemoryTypeOK, ApartInv, Executing
<1>3. ASSUME NEW th \in Threads, Invoke(th) \/ Step(th) \/ Failure(th) PROVE ApartInv'
  <2>1. CASE Invoke(th)
    BY <2>1
      DEF Invoke, At, Goto, disk, memory, TypeOK, MemoryTypeOK, ApartInv,
          Executing
  <2>2. CASE AcquireFlock(th)
    BY <2>2
      DEF AcquireFlock, At, Goto, disk, memory, TypeOK, MemoryTypeOK, ApartInv,
          Executing
  <2>3. CASE AcquireRLock(th)
    BY <2>3
      DEF AcquireRLock, At, Goto, disk, memory, TypeOK, MemoryTypeOK, ApartInv,
          Executing
  <2>4. CASE RunBound(th)
    BY <2>4, ReturnOthers DEF RunBound, TypeOK, ApartInv, Executing
  <2>5. CASE RunAdopt(th)
    BY <2>5
      DEF RunAdopt, At, Goto, disk, memory, TypeOK, MemoryTypeOK, ApartInv,
          Executing, RunDecide
  <2>6. CASE RunConflict(th)
    BY <2>6, ReturnOthers DEF RunConflict, TypeOK, ApartInv, Executing
  <2>7. CASE RunMkdir(th)
    BY <2>7
      DEF RunMkdir, At, Goto, disk, memory, TypeOK, MemoryTypeOK, ApartInv,
          Executing, RunDecide
  <2>8. CASE CreateRequest(th)
    <3>1. \A t \in Threads : pc'[t] \in Executing => pc[t] \in Executing
      BY <2>8 DEF CreateRequest, At, Goto, TypeOK, MemoryTypeOK, Executing
    <3> QED BY <2>8, <3>1 DEF CreateRequest, memory, ApartInv
  <2>9. CASE CreateLease(th)
    BY <2>9
      DEF CreateLease, At, Goto, disk, memory, TypeOK, MemoryTypeOK, ApartInv,
          Executing
  <2>10. CASE CreateStatus(th)
    BY <2>10
      DEF CreateStatus, At, Goto, disk, memory, TypeOK, MemoryTypeOK, ApartInv,
          Executing, CallInv, CallInvOf, RunPoints, StartInv, StartInvOf,
          Creating
  <2>11. CASE ExecuteStart(th)
    <3>1. pc[th] \in Executing /\ \A t \in Threads \ {th} : pc'[t] = pc[t]
      BY <2>11 DEF ExecuteStart, At, Goto, TypeOK, MemoryTypeOK, Executing
    <3> QED BY <2>11, <3>1, StaysApart DEF ExecuteStart, memory, TypeOK
  <2>12. CASE InterruptLease(th)
    <3>1. pc[th] \in Executing /\ \A t \in Threads \ {th} : pc'[t] = pc[t]
      BY <2>12 DEF InterruptLease, At, Goto, TypeOK, MemoryTypeOK, Executing
    <3> QED BY <2>12, <3>1, StaysApart DEF InterruptLease, memory, TypeOK
  <2>13. CASE InterruptRead(th)
    <3>1. pc[th] \in Executing /\ \A t \in Threads \ {th} : pc'[t] = pc[t]
      BY <2>13 DEF InterruptRead, At, Goto, TypeOK, MemoryTypeOK, Executing
    <3> QED BY <2>13, <3>1, StaysApart DEF InterruptRead, memory, TypeOK
  <2>14. CASE InterruptReport(th)
    <3>1. pc[th] \in Executing /\ \A t \in Threads \ {th} : pc'[t] = pc[t]
      BY <2>14 DEF InterruptReport, At, Goto, TypeOK, MemoryTypeOK, Executing
    <3> QED BY <2>14, <3>1, StaysApart DEF InterruptReport, memory, TypeOK
  <2>15. CASE InterruptStatus(th)
    <3>1. pc[th] \in Executing /\ \A t \in Threads \ {th} : pc'[t] = pc[t]
      BY <2>15 DEF InterruptStatus, At, Goto, TypeOK, MemoryTypeOK, Executing
    <3> QED BY <2>15, <3>1, StaysApart DEF InterruptStatus, memory, TypeOK
  <2>16. CASE RunLoopEnds(th)
    <3>1. pc[th] \in Executing /\ \A t \in Threads \ {th} : pc'[t] = pc[t]
      BY <2>16 DEF RunLoopEnds, At, Goto, TypeOK, MemoryTypeOK, Executing
    <3> QED BY <2>16, <3>1, StaysApart DEF RunLoopEnds, memory, TypeOK
  <2>17. CASE FinalizeRead(th)
    <3>1. pc[th] \in Executing /\ \A t \in Threads \ {th} : pc'[t] = pc[t]
      BY <2>17 DEF FinalizeRead, At, Goto, TypeOK, MemoryTypeOK, Executing
    <3> QED BY <2>17, <3>1, StaysApart DEF FinalizeRead, memory, TypeOK
  <2>18. CASE FinalizeWrite(th)
    <3>1. pc[th] \in Executing /\ \A t \in Threads \ {th} : pc'[t] = pc[t]
      BY <2>18 DEF FinalizeWrite, At, Goto, TypeOK, MemoryTypeOK, Executing
    <3> QED BY <2>18, <3>1, StaysApart DEF FinalizeWrite, memory, TypeOK
  <2>19. CASE BindIdempotency(th)
    BY <2>19, ReturnOthers DEF BindIdempotency, TypeOK, ApartInv, Executing
  <2>20. CASE HeartbeatRead(th)
    <3>1. pc[th] \in Executing /\ \A t \in Threads \ {th} : pc'[t] = pc[t]
      BY <2>20 DEF HeartbeatRead, At, Goto, TypeOK, MemoryTypeOK, Executing
    <3> QED BY <2>20, <3>1, StaysApart DEF HeartbeatRead, memory, TypeOK
  <2>21. CASE HeartbeatWrite(th)
    <3>1. pc[th] \in Executing /\ \A t \in Threads \ {th} : pc'[t] = pc[t]
      BY <2>21 DEF HeartbeatWrite, At, Goto, TypeOK, MemoryTypeOK, Executing
    <3> QED BY <2>21, <3>1, StaysApart DEF HeartbeatWrite, memory, TypeOK
  <2>22. CASE FencedOut(th)
    BY <2>22, ReturnOthers DEF FencedOut, TypeOK, ApartInv, Executing
  <2>23. CASE HoldBeforeWrite(th)
    <3>1. pc[th] \in Executing /\ \A t \in Threads \ {th} : pc'[t] = pc[t]
      BY <2>23
        DEF HoldBeforeWrite, At, Goto, TypeOK, MemoryTypeOK, Executing,
            HoldThen
    <3> QED BY <2>23, <3>1, StaysApart DEF HoldBeforeWrite, memory, TypeOK
  <2>24. CASE ProcessRecord(th)
    <3>1. pc[th] \in Executing /\ \A t \in Threads \ {th} : pc'[t] = pc[t]
      BY <2>24
        DEF ProcessRecord, At, Goto, TypeOK, MemoryTypeOK, Executing, HoldThen
    <3> QED BY <2>24, <3>1, StaysApart DEF ProcessRecord, memory, TypeOK
  <2>25. CASE PassFence(th)
    <3>1. pc[th] \in Executing /\ \A t \in Threads \ {th} : pc'[t] = pc[t]
      BY <2>25 DEF PassFence, At, Goto, TypeOK, MemoryTypeOK, Executing
    <3> QED BY <2>25, <3>1, StaysApart DEF PassFence, memory, TypeOK
  <2>26. CASE WriteOutcomes(th)
    <3>1. pc[th] \in Executing /\ \A t \in Threads \ {th} : pc'[t] = pc[t]
      BY <2>26 DEF WriteOutcomes, At, Goto, TypeOK, MemoryTypeOK, Executing
    <3> QED BY <2>26, <3>1, StaysApart DEF WriteOutcomes, memory, TypeOK
  <2>27. CASE WriteAttempts(th)
    <3>1. pc[th] \in Executing /\ \A t \in Threads \ {th} : pc'[t] = pc[t]
      BY <2>27 DEF WriteAttempts, At, Goto, TypeOK, MemoryTypeOK, Executing
    <3> QED BY <2>27, <3>1, StaysApart DEF WriteAttempts, memory, TypeOK
  <2>28. CASE WriteCheckpoint(th)
    <3>1. pc[th] \in Executing /\ \A t \in Threads \ {th} : pc'[t] = pc[t]
      BY <2>28
        DEF WriteCheckpoint, At, Goto, TypeOK, MemoryTypeOK, Executing,
            HoldThen
    <3> QED BY <2>28, <3>1, StaysApart DEF WriteCheckpoint, memory, TypeOK
  <2>29. CASE WriteReport(th)
    <3>1. pc[th] \in Executing /\ \A t \in Threads \ {th} : pc'[t] = pc[t]
      BY <2>29 DEF WriteReport, At, Goto, TypeOK, MemoryTypeOK, Executing
    <3> QED BY <2>29, <3>1, StaysApart DEF WriteReport, memory, TypeOK
  <2>30. CASE WriteStatus(th)
    <3>1. pc[th] \in Executing /\ \A t \in Threads \ {th} : pc'[t] = pc[t]
      BY <2>30 DEF WriteStatus, At, Goto, TypeOK, MemoryTypeOK, Executing
    <3> QED BY <2>30, <3>1, StaysApart DEF WriteStatus, memory, TypeOK
  <2>31. CASE HoldRead(th)
    <3>1. pc[th] \in Executing /\ \A t \in Threads \ {th} : pc'[t] = pc[t]
      BY <2>31 DEF HoldRead, At, Goto, TypeOK, MemoryTypeOK, Executing
    <3> QED BY <2>31, <3>1, StaysApart DEF HoldRead, memory, TypeOK
  <2>32. CASE HoldWrite(th)
    <3>1. pc[th] \in Executing /\ \A t \in Threads \ {th} : pc'[t] = pc[t]
      BY <2>32 DEF HoldWrite, At, Goto, TypeOK, MemoryTypeOK, Executing
    <3> QED BY <2>32, <3>1, StaysApart DEF HoldWrite, memory, TypeOK
  <2>33. CASE Unwind(th)
    BY <2>33, ReturnOthers DEF Unwind, TypeOK, ApartInv, Executing
  <2>34. CASE ResumeRefused(th)
    BY <2>34, ReturnOthers DEF ResumeRefused, TypeOK, ApartInv, Executing
  <2>35. CASE ResumeAdmit(th)
    <3>1. call' = call /\ \A t \in Threads \ {th} : pc'[t] = pc[t]
      BY <2>35 DEF ResumeAdmit, Goto, TypeOK, MemoryTypeOK
    <3>2. call[th].op = "resume" /\ (RunExecuting => overtaken')
      BY <2>35 DEF ResumeAdmit, ResumeDecide, TypeOK, CountTypeOK
    <3>3. overtaken => overtaken'
      BY <2>35 DEF ResumeAdmit
    <3> QED BY <3>1, <3>2, <3>3 DEF ApartInv, RunExecuting
  <2>36. CASE BlockDrift(th)
    BY <2>36, ReturnOthers DEF BlockDrift, TypeOK, ApartInv, Executing
  <2>37. CASE ReclaimRead(th)
    <3>1. pc[th] \in Executing /\ \A t \in Threads \ {th} : pc'[t] = pc[t]
      BY <2>37 DEF ReclaimRead, At, Goto, TypeOK, MemoryTypeOK, Executing
    <3> QED BY <2>37, <3>1, StaysApart DEF ReclaimRead, memory, TypeOK
  <2>38. CASE ReclaimWrite(th)
    <3>1. pc[th] \in Executing /\ \A t \in Threads \ {th} : pc'[t] = pc[t]
      BY <2>38 DEF ReclaimWrite, At, Goto, TypeOK, MemoryTypeOK, Executing
    <3> QED BY <2>38, <3>1, StaysApart DEF ReclaimWrite, memory, TypeOK
  <2>39. CASE LoadLedger(th)
    <3>1. pc[th] \in Executing /\ \A t \in Threads \ {th} : pc'[t] = pc[t]
      BY <2>39 DEF LoadLedger, At, Goto, TypeOK, MemoryTypeOK, Executing
    <3> QED BY <2>39, <3>1, StaysApart DEF LoadLedger, memory, TypeOK
  <2>40. CASE ResumeLoopEnds(th)
    <3>1. pc[th] \in Executing /\ \A t \in Threads \ {th} : pc'[t] = pc[t]
      BY <2>40 DEF ResumeLoopEnds, At, Goto, TypeOK, MemoryTypeOK, Executing
    <3> QED BY <2>40, <3>1, StaysApart DEF ResumeLoopEnds, memory, TypeOK
  <2>41. CASE ResumeReturns(th)
    BY <2>41, ReturnOthers DEF ResumeReturns, TypeOK, ApartInv, Executing
  <2>42. CASE CreateRequestFails(th)
    BY <2>42, ReturnOthers DEF CreateRequestFails, TypeOK, ApartInv, Executing
  <2>43. CASE HoldFails(th)
    <3>1. pc[th] \in Executing /\ \A t \in Threads \ {th} : pc'[t] = pc[t]
      BY <2>43
        DEF HoldFails, At, Goto, TypeOK, MemoryTypeOK, Executing, Holding
    <3> QED BY <2>43, <3>1, StaysApart DEF HoldFails, memory, TypeOK
  <2>44. CASE Abort(th)
    BY <2>44, ReturnOthers DEF Abort, TypeOK, ApartInv, Executing
  <2> QED
    BY <1>3, <2>1, <2>2, <2>3, <2>4, <2>5, <2>6, <2>7, <2>8, <2>9, <2>10,
         <2>11, <2>12, <2>13, <2>14, <2>15, <2>16, <2>17, <2>18, <2>19, <2>20,
         <2>21, <2>22, <2>23, <2>24, <2>25, <2>26, <2>27, <2>28, <2>29, <2>30,
         <2>31, <2>32, <2>33, <2>34, <2>35, <2>36, <2>37, <2>38, <2>39, <2>40,
         <2>41, <2>42, <2>43, <2>44
       DEF Step, Failure, Enter, RunStep, KeyStep, ResumeStep
<1> QED
  BY <1>1, <1>2, <1>3 DEF Next

(* The layers leave one thread at a time writing: equal operations meet at   *)
(* their lock file, creation and resume at the status that is not started,   *)
(* and run and resume at the admission test.                                 *)
LEMMA SoleExecutorFromLayers == ExclusionInv => SoleExecutor
<1> SUFFICES ASSUME ExclusionInv, ~overtaken, NEW a \in Threads, NEW b \in Threads,
                    pc[a] \in Executing \cup Creating, pc[b] \in Executing \cup Creating
             PROVE  a = b
  BY DEF SoleExecutor
<1>1. /\ call[a] \in Calls /\ flock[call[a].op] = a
      /\ call[b] \in Calls /\ flock[call[b].op] = b
  BY DEF ExclusionInv, CallInv, CallInvOf, Executing, Creating
<1>2. CASE call[a].op = call[b].op
  BY <1>1, <1>2
<1>3. ASSUME NEW x \in Threads, NEW y \in Threads, call[x].op = "run", call[y].op = "resume",
             pc[x] \in Executing \cup Creating, pc[y] \in Executing \cup Creating
      PROVE  FALSE
  <2>1. pc[y] \in Executing \ {"start"} /\ Started
    BY <1>3
      DEF ExclusionInv, CallInv, CallInvOf, RunPoints, StartInv, StartInvOf
  <2>2. pc[x] \in Executing
    BY <1>3, <2>1 DEF ExclusionInv, StartInv, StartInvOf
  <2> QED BY <1>3, <2>1, <2>2 DEF ExclusionInv, ApartInv
<1>4. call[a].op \in {"run", "resume"} /\ call[b].op \in {"run", "resume"}
  BY <1>1, CallShapes
<1> QED BY <1>2, <1>3, <1>4

-----------------------------------------------------------------------------
(* Theorems. *)

(* Types, calls, start and separation hold in every reachable state, for any *)
(* number of threads, processes and keys: the inductive invariant of the     *)
(* driver's exclusion argument.                                              *)
THEOREM ExclusionHolds == Spec => []ExclusionInv
<1>1. Init => ExclusionInv
  <2> SUFFICES ASSUME Init PROVE ExclusionInv
    OBVIOUS
  <2>1. DiskTypeOK
    BY EmptyFiles, ConstantsAssumption DEF Init, DiskTypeOK
  <2>2. LockTypeOK
    BY DEF Init, LockTypeOK
  <2>3. MemoryTypeOK
    BY EmptyFiles, ConstantsAssumption DEF Init, MemoryTypeOK, Points
  <2>4. CountTypeOK
    <3>1. 0 \in 0..MaxCalls /\ 0 \in 0..MaxFaults
      BY ConstantsAssumption
    <3> QED BY <3>1 DEF Init, CountTypeOK
  <2>5. CallInv
    BY DEF Init, CallInv, CallInvOf, RunPoints, ResumePoints, Holding, Creating
  <2>6. StartInv
    BY DEF Init, StartInv, StartInvOf, Started, Empty, Creating, Executing,
         NoStatus, NoReport
  <2>7. ApartInv
    BY DEF Init, ApartInv, Executing
  <2> QED BY <2>1, <2>2, <2>3, <2>4, <2>5, <2>6, <2>7 DEF ExclusionInv, TypeOK
<1>2. ExclusionInv /\ [Next]_vars => ExclusionInv'
  BY TypeStep, CallStep, StartStep, ApartStep DEF ExclusionInv
<1> QED BY <1>1, <1>2, PTL DEF Spec

(* No file or cursor of the run directory ever outgrows the selected keys,   *)
(* and every thread is at a known control point with legal memory.           *)
THEOREM TypesHold == Spec => []TypeOK
<1>1. ExclusionInv => TypeOK
  BY DEF ExclusionInv
<1> QED BY <1>1, ExclusionHolds, PTL

(* Two threads never write to the run directory at the same time, in any     *)
(* number of processes, as long as no resume was admitted beside a live run: *)
(* equal operations meet at their lock file, creation and resume at the      *)
(* status that is not started, and run and resume at the admission test.     *)
THEOREM OneExecutor == Spec => []SoleExecutor
BY SoleExecutorFromLayers, ExclusionHolds, PTL

-----------------------------------------------------------------------------
(* The ledger the driver keeps: what its files say of each other, in what    *)
(* order they move, and that they implement CheckpointLedger.  The layers    *)
(* MemoryInv and LedgerInv are inductive on top of the exclusion layers,     *)
(* which leave one thread writing: all it needs to know of the files is what *)
(* it read itself.                                                           *)

files  == <<lease, status, outcomes, attempts, checkpoint, report>>
Writing == Executing \cup Creating

(* The steps by which a thread leaves its call and writes nothing. *)
Leave(th) ==
  \/ RunBound(th) \/ RunConflict(th) \/ FencedOut(th) \/ Unwind(th)
  \/ ResumeRefused(th) \/ ResumeReturns(th) \/ Abort(th)

(* The steps before a thread has a part in the run: nothing is written but   *)
(* the immutable request files.                                              *)
Approach(th) ==
  \/ Invoke(th) \/ AcquireFlock(th) \/ AcquireRLock(th)
  \/ RunAdopt(th) \/ RunMkdir(th) \/ CreateRequest(th)

(* Leaving early releases what the thread holds and changes no file. *)
LEMMA LeaveReturns ==
  ASSUME NEW th \in Threads, Leave(th)
  PROVE  Return(th) /\ UNCHANGED <<disk, overtaken>>
BY DEF Leave, RunBound, RunConflict, FencedOut, Unwind, ResumeRefused, ResumeReturns, Abort

(* A thread only ever changes its own control point and memory. *)
KeepsOthers(th) ==
  \A t \in Threads \ {th} :
    /\ pc'[t] = pc[t] /\ call'[t] = call[t] /\ gen'[t] = gen[t]
    /\ rows'[t] = rows[t] /\ att'[t] = att[t] /\ after'[t] = after[t]
    /\ seenLease'[t] = seenLease[t] /\ seenStatus'[t] = seenStatus[t]
    /\ seenReport'[t] = seenReport[t]

LEMMA OthersKept ==
  ASSUME TypeOK, NEW th \in Threads, Invoke(th) \/ Step(th) \/ Failure(th)
  PROVE  KeepsOthers(th)
<1> USE DEF TypeOK, MemoryTypeOK, KeepsOthers, At, Goto, memory, work, seen
<1>1. CASE Leave(th)
  BY <1>1, LeaveReturns, ReturnOthers
<1>2. CASE CreateRequestFails(th) \/ BindIdempotency(th) \/ BlockDrift(th)
  BY <1>2, ReturnOthers DEF CreateRequestFails, BindIdempotency, BlockDrift
<1>3. CASE Approach(th)
  BY <1>3 DEF Approach, Invoke, AcquireFlock, AcquireRLock, RunAdopt, RunMkdir, CreateRequest
<1>4. CASE CreateLease(th) \/ CreateStatus(th) \/ ExecuteStart(th)
  BY <1>4 DEF CreateLease, CreateStatus, ExecuteStart
<1>5. CASE InterruptLease(th) \/ InterruptRead(th) \/ InterruptReport(th) \/ InterruptStatus(th)
  BY <1>5 DEF InterruptLease, InterruptRead, InterruptReport, InterruptStatus
<1>6. CASE RunLoopEnds(th) \/ FinalizeRead(th) \/ FinalizeWrite(th) \/ ResumeLoopEnds(th)
  BY <1>6 DEF RunLoopEnds, FinalizeRead, FinalizeWrite, ResumeLoopEnds
<1>7. CASE HeartbeatRead(th) \/ HeartbeatWrite(th) \/ PassFence(th)
  BY <1>7 DEF HeartbeatRead, HeartbeatWrite, PassFence
<1>8. CASE HoldBeforeWrite(th) \/ HoldRead(th) \/ HoldWrite(th) \/ HoldFails(th)
  BY <1>8 DEF HoldBeforeWrite, HoldThen, HoldRead, HoldWrite, HoldFails
<1>9. CASE ProcessRecord(th) \/ WriteOutcomes(th) \/ WriteAttempts(th) \/ WriteCheckpoint(th)
           \/ WriteReport(th) \/ WriteStatus(th)
  BY <1>9 DEF ProcessRecord, HoldThen, WriteOutcomes, WriteAttempts, WriteCheckpoint,
              WriteReport, WriteStatus
<1>10. CASE ResumeAdmit(th) \/ ReclaimRead(th) \/ ReclaimWrite(th) \/ LoadLedger(th)
  BY <1>10 DEF ResumeAdmit, ResumeDecide, ReclaimRead, ReclaimWrite, LoadLedger
<1> QED
  BY <1>1, <1>2, <1>3, <1>4, <1>5, <1>6, <1>7, <1>8, <1>9, <1>10
     DEF Leave, Approach, Step, Failure, Enter, RunStep, KeyStep, ResumeStep

(* Whoever changes a file of the ledger is executing or creating the run. *)
LEMMA WriterExecutes ==
  ASSUME NEW th \in Threads, Invoke(th) \/ Step(th) \/ Failure(th), files' # files
  PROVE  pc[th] \in Writing
<1> USE DEF files, disk, At, Goto, Writing, Executing, Creating
<1>1. CASE Leave(th)
  BY <1>1, LeaveReturns
<1>2. CASE CreateRequestFails(th) \/ BindIdempotency(th) \/ BlockDrift(th)
  BY <1>2 DEF CreateRequestFails, BindIdempotency, BlockDrift
<1>3. CASE Approach(th)
  BY <1>3 DEF Approach, Invoke, AcquireFlock, AcquireRLock, RunAdopt, RunMkdir, CreateRequest
<1>4. CASE CreateLease(th) \/ CreateStatus(th) \/ ExecuteStart(th)
  BY <1>4 DEF CreateLease, CreateStatus, ExecuteStart
<1>5. CASE InterruptLease(th) \/ InterruptRead(th) \/ InterruptReport(th) \/ InterruptStatus(th)
  BY <1>5 DEF InterruptLease, InterruptRead, InterruptReport, InterruptStatus
<1>6. CASE RunLoopEnds(th) \/ FinalizeRead(th) \/ FinalizeWrite(th) \/ ResumeLoopEnds(th)
  BY <1>6 DEF RunLoopEnds, FinalizeRead, FinalizeWrite, ResumeLoopEnds
<1>7. CASE HeartbeatRead(th) \/ HeartbeatWrite(th) \/ PassFence(th)
  BY <1>7 DEF HeartbeatRead, HeartbeatWrite, PassFence
<1>8. CASE HoldBeforeWrite(th) \/ HoldRead(th) \/ HoldWrite(th) \/ HoldFails(th)
  BY <1>8 DEF HoldBeforeWrite, HoldRead, HoldWrite, HoldFails
<1>9. CASE ProcessRecord(th) \/ WriteOutcomes(th) \/ WriteAttempts(th) \/ WriteCheckpoint(th)
           \/ WriteReport(th) \/ WriteStatus(th)
  BY <1>9 DEF ProcessRecord, WriteOutcomes, WriteAttempts, WriteCheckpoint,
              WriteReport, WriteStatus
<1>10. CASE ResumeAdmit(th) \/ ReclaimRead(th) \/ ReclaimWrite(th) \/ LoadLedger(th)
  BY <1>10 DEF ResumeAdmit, ReclaimRead, ReclaimWrite, LoadLedger
<1> QED
  BY <1>1, <1>2, <1>3, <1>4, <1>5, <1>6, <1>7, <1>8, <1>9, <1>10
     DEF Leave, Approach, Step, Failure, Enter, RunStep, KeyStep, ResumeStep

-----------------------------------------------------------------------------
(* The lock of a process. *)

(* A thread past the class-level lock owns its process's lock. *)
LEMMA RLockStep == TypeOK /\ RLockInv /\ [Next]_vars => RLockInv'
<1> SUFFICES ASSUME TypeOK, RLockInv, [Next]_vars PROVE RLockInv'
  OBVIOUS
<1> USE ConstantsAssumption
<1>1. CASE UNCHANGED vars
  BY <1>1 DEF vars, locks, RLockInv
<1>2. ASSUME NEW p \in Processes, Crash(p) PROVE RLockInv'
  BY <1>2 DEF Crash, TypeOK, MemoryTypeOK, LockTypeOK, RLockInv
<1>3. ASSUME NEW th \in Threads, Return(th) PROVE RLockInv'
  BY <1>3 DEF Return, Goto, TypeOK, MemoryTypeOK, LockTypeOK, RLockInv
<1>4. ASSUME NEW th \in Threads, Invoke(th) \/ Step(th) \/ Failure(th) PROVE RLockInv'
  <2>1. CASE Leave(th) \/ CreateRequestFails(th) \/ BindIdempotency(th) \/ BlockDrift(th)
    BY <2>1, <1>3, LeaveReturns DEF CreateRequestFails, BindIdempotency, BlockDrift
  <2>2. CASE AcquireRLock(th)
    BY <2>2 DEF AcquireRLock, At, Goto, TypeOK, MemoryTypeOK, LockTypeOK, RLockInv
  <2>3. CASE Invoke(th) \/ AcquireFlock(th)
    BY <2>3 DEF Invoke, AcquireFlock, Goto, locks, TypeOK, MemoryTypeOK, RLockInv
  <2>4. ASSUME pc[th] \notin {"idle", "flock", "rlock"}, rlock' = rlock PROVE RLockInv'
    BY <2>4, <1>4, OthersKept DEF KeepsOthers, RLockInv
  <2>5. CASE RunAdopt(th) \/ RunMkdir(th) \/ CreateRequest(th) \/ CreateLease(th)
              \/ CreateStatus(th) \/ ExecuteStart(th)
    BY <2>5, <2>4
       DEF RunAdopt, RunMkdir, RunDecide, CreateRequest, CreateLease, CreateStatus,
           ExecuteStart, At, locks
  <2>6. CASE InterruptLease(th) \/ InterruptRead(th) \/ InterruptReport(th) \/ InterruptStatus(th)
              \/ RunLoopEnds(th) \/ FinalizeRead(th) \/ FinalizeWrite(th) \/ ResumeLoopEnds(th)
    BY <2>6, <2>4
       DEF InterruptLease, InterruptRead, InterruptReport, InterruptStatus,
           RunLoopEnds, FinalizeRead, FinalizeWrite, ResumeLoopEnds, At, locks
  <2>7. CASE HeartbeatRead(th) \/ HeartbeatWrite(th) \/ PassFence(th) \/ HoldBeforeWrite(th)
              \/ HoldRead(th) \/ HoldWrite(th) \/ HoldFails(th)
    BY <2>7, <2>4
       DEF HeartbeatRead, HeartbeatWrite, PassFence, HoldBeforeWrite, HoldRead,
           HoldWrite, HoldFails, At, locks
  <2>8. CASE ProcessRecord(th) \/ WriteOutcomes(th) \/ WriteAttempts(th) \/ WriteCheckpoint(th)
              \/ WriteReport(th) \/ WriteStatus(th)
    BY <2>8, <2>4
       DEF ProcessRecord, WriteOutcomes, WriteAttempts, WriteCheckpoint,
           WriteReport, WriteStatus, At, locks
  <2>9. CASE ResumeAdmit(th) \/ ReclaimRead(th) \/ ReclaimWrite(th) \/ LoadLedger(th)
    BY <2>9, <2>4
       DEF ResumeAdmit, ResumeDecide, ReclaimRead, ReclaimWrite, LoadLedger, At, locks
  <2> QED
    BY <1>4, <2>1, <2>2, <2>3, <2>5, <2>6, <2>7, <2>8, <2>9
       DEF Leave, Step, Failure, Enter, RunStep, KeyStep, ResumeStep
<1> QED
  BY <1>1, <1>2, <1>4 DEF Next

(* Only an admitted resume can overtake anybody. *)
LEMMA OvertakenStep ==
  ASSUME [Next]_vars, overtaken' # overtaken
  PROVE  \E th \in Threads : ResumeAdmit(th)
<1>1. ~ UNCHANGED vars
  BY DEF vars
<1>2. ASSUME NEW p \in Processes, Crash(p) PROVE FALSE
  BY <1>2 DEF Crash
<1>3. ASSUME NEW th \in Threads, Invoke(th) \/ Step(th) \/ Failure(th) PROVE ResumeAdmit(th)
  <2>1. ~ Leave(th)
    BY LeaveReturns
  <2> QED
    BY <1>3, <2>1
       DEF Leave, Step, Failure, Enter, RunStep, KeyStep, ResumeStep, counts,
           Invoke, AcquireFlock, AcquireRLock, RunAdopt, RunMkdir, CreateRequest,
           CreateLease, CreateStatus, ExecuteStart, InterruptLease, InterruptRead,
           InterruptReport, InterruptStatus, RunLoopEnds, FinalizeRead, FinalizeWrite,
           BindIdempotency, HeartbeatRead, HeartbeatWrite, HoldBeforeWrite, ProcessRecord,
           PassFence, WriteOutcomes, WriteAttempts, WriteCheckpoint, WriteReport,
           WriteStatus, HoldRead, HoldWrite, BlockDrift, ReclaimRead, ReclaimWrite,
           LoadLedger, ResumeLoopEnds, CreateRequestFails, HoldFails
<1> QED BY <1>1, <1>2, <1>3 DEF Next

(* With every caller in one process no resume is ever admitted beside a live *)
(* executor: whoever is past the class-level lock holds the only one there is.*)
THEOREM OneProcessIsSafe == SingleProcess => (Spec => []NeverOvertaken)
<1> SUFFICES ASSUME SingleProcess PROVE Spec => []NeverOvertaken
  OBVIOUS
<1>1. Init => RLockInv /\ NeverOvertaken
  BY DEF Init, RLockInv, NeverOvertaken
<1>2. TypeOK /\ RLockInv /\ NeverOvertaken /\ [Next]_vars => NeverOvertaken'
  <2> SUFFICES ASSUME TypeOK, RLockInv, ~overtaken, [Next]_vars, overtaken' PROVE FALSE
    BY DEF NeverOvertaken
  <2>1. PICK th \in Threads : ResumeAdmit(th)
    BY OvertakenStep
  <2>2. PICK other \in Threads : call[other].op = "run" /\ pc[other] \in Executing
    BY <2>1 DEF ResumeAdmit, RunExecuting
  <2>3. rlock[ProcessOf[other]] = other /\ rlock[ProcessOf[th]] = th
    BY <2>1, <2>2 DEF RLockInv, ResumeAdmit, ResumeDecide, At, Executing
  <2>4. other = th
    BY <2>3 DEF SingleProcess
  <2> QED BY <2>1, <2>2, <2>4 DEF ResumeAdmit, ResumeDecide, At, Executing
<1> QED BY <1>1, <1>2, RLockStep, TypesHold, PTL DEF Spec

-----------------------------------------------------------------------------
(* What a thread holds in memory. *)

(* A report that has a revision is never replaced by one that has none.      *)
LEMMA ReportStays ==
  ASSUME TypeOK, MemoryInv, [Next]_vars, report.cursor > 0
  PROVE  report'.cursor > 0
<1>1. CASE files' = files
  BY <1>1 DEF files
<1>2. ASSUME files' # files, NEW th \in Threads, Invoke(th) \/ Step(th) \/ Failure(th)
      PROVE  report'.cursor > 0
  <2>1. CASE WriteReport(th)
    <3>1. Len(rows[th]) > 0
      BY <2>1 DEF WriteReport, At, MemoryInv, MemoryInvOf, Place, Holding, Committing
    <3> QED BY <2>1, <3>1 DEF WriteReport
  <2>2. CASE InterruptReport(th)
    BY <2>2
       DEF InterruptReport, At, TypeOK, MemoryTypeOK, Reports, MemoryInv, MemoryInvOf
  <2>3. ~ Leave(th) /\ ~ Approach(th)
    BY <1>2, LeaveReturns
       DEF files, disk, Approach, Invoke, AcquireFlock, AcquireRLock, RunAdopt, RunMkdir,
           CreateRequest
  <2> QED
    BY <1>2, <2>1, <2>2, <2>3
       DEF Leave, Approach, Step, Failure, Enter, RunStep, KeyStep, ResumeStep, disk,
           CreateLease, CreateStatus, ExecuteStart, InterruptLease, InterruptRead,
           InterruptStatus, RunLoopEnds, FinalizeRead, FinalizeWrite,
           BindIdempotency, HeartbeatRead, HeartbeatWrite, HoldBeforeWrite, ProcessRecord,
           PassFence, WriteOutcomes, WriteAttempts, WriteCheckpoint,
           WriteStatus, HoldRead, HoldWrite, ResumeAdmit, BlockDrift, ReclaimRead, ReclaimWrite,
           LoadLedger, ResumeLoopEnds, CreateRequestFails, HoldFails
<1>3. ASSUME NEW p \in Processes, Crash(p) PROVE report' = report
  BY <1>3 DEF Crash, disk
<1> QED BY <1>1, <1>2, <1>3 DEF Next, vars, disk, files

(* A run is interrupted after a number of keys. *)
LEMMA InterruptIsNat == \A c \in Calls : c.op = "run" => c.interrupt \in Nat
BY ConstantsAssumption DEF Calls, RunCalls, ResumeCalls

(* What the thread of a step keeps of its own memory. *)
Keeps(th)     == call'[th] = call[th] /\ rows'[th] = rows[th] /\ att'[th] = att[th]
KeepsSeen(th) == /\ seenLease'[th] = seenLease[th] /\ seenStatus'[th] = seenStatus[th]
                 /\ seenReport'[th] = seenReport[th]

LEMMA CreateLeaseEffect ==
  ASSUME TypeOK, CallInv, NEW th \in Threads, CreateLease(th)
  PROVE  /\ pc[th] = "createLease" /\ pc'[th] = "createStatus" /\ Keeps(th) /\ KeepsSeen(th)
         /\ lease'.gen = 1 /\ UNCHANGED <<status, outcomes, attempts, checkpoint, report>>
BY DEF CreateLease, At, Goto, AfterBeat, Keeps, KeepsSeen, TypeOK, DiskTypeOK,
       MemoryTypeOK, Leases, Statuses, Reports, CallInv, CallInvOf, Holding,
       files, disk, memory, work, seen

LEMMA CreateStatusEffect ==
  ASSUME TypeOK, CallInv, NEW th \in Threads, CreateStatus(th)
  PROVE  /\ pc[th] = "createStatus" /\ pc'[th] = "start" /\ Keeps(th) /\ KeepsSeen(th)
         /\ status'.cursor = 0 /\ status'.state = "created" /\ UNCHANGED <<lease, outcomes, attempts, checkpoint, report>>
BY DEF CreateStatus, At, Goto, AfterBeat, Keeps, KeepsSeen, TypeOK, DiskTypeOK,
       MemoryTypeOK, Leases, Statuses, Reports, CallInv, CallInvOf, Holding,
       files, disk, memory, work, seen

LEMMA ExecuteStartEffect ==
  ASSUME TypeOK, CallInv, NEW th \in Threads, ExecuteStart(th)
  PROVE  /\ pc[th] = "start" /\ pc'[th] = "beat" /\ Keeps(th)
         /\ status'.cursor = 0 /\ status'.state = "running" /\ UNCHANGED <<lease, outcomes, attempts, checkpoint, report>>
BY DEF ExecuteStart, At, Goto, AfterBeat, Keeps, KeepsSeen, TypeOK, DiskTypeOK,
       MemoryTypeOK, Leases, Statuses, Reports, CallInv, CallInvOf, Holding,
       files, disk, memory, work, seen

LEMMA HeartbeatReadEffect ==
  ASSUME TypeOK, CallInv, NEW th \in Threads, HeartbeatRead(th)
  PROVE  /\ pc[th] = "beat" /\ pc'[th] \in {"beatWrite", AfterBeat(th)} /\ Keeps(th)
         /\ pc'[th] = "beatWrite" => seenLease'[th] = lease
         /\ UNCHANGED files
BY DEF HeartbeatRead, At, Goto, AfterBeat, Keeps, KeepsSeen, TypeOK, DiskTypeOK,
       MemoryTypeOK, Leases, Statuses, Reports, CallInv, CallInvOf, Holding,
       files, disk, memory, work, seen

LEMMA HeartbeatWriteEffect ==
  ASSUME TypeOK, CallInv, NEW th \in Threads, HeartbeatWrite(th)
  PROVE  /\ pc[th] = "beatWrite" /\ pc'[th] = AfterBeat(th) /\ Keeps(th)
         /\ lease' \in {seenLease[th], lease} /\ UNCHANGED <<status, outcomes, attempts, checkpoint, report>>
BY DEF HeartbeatWrite, At, Goto, AfterBeat, Keeps, KeepsSeen, TypeOK, DiskTypeOK,
       MemoryTypeOK, Leases, Statuses, Reports, CallInv, CallInvOf, Holding,
       files, disk, memory, work, seen

LEMMA PassFenceEffect ==
  ASSUME TypeOK, CallInv, NEW th \in Threads, PassFence(th)
  PROVE  /\ <<pc[th], pc'[th]>> \in {<<"enter", "loop">>, <<"commit", "writeOutcomes">>,
                                  <<"cursor", "writeReport">>}
         /\ Keeps(th) /\ UNCHANGED files
BY DEF PassFence, At, Goto, AfterBeat, Keeps, KeepsSeen, TypeOK, DiskTypeOK,
       MemoryTypeOK, Leases, Statuses, Reports, CallInv, CallInvOf, Holding,
       files, disk, memory, work, seen

LEMMA HoldBeforeWriteEffect ==
  ASSUME TypeOK, CallInv, NEW th \in Threads, HoldBeforeWrite(th)
  PROVE  /\ pc[th] = "loop" /\ Len(rows[th]) < N /\ pc'[th] = "hold" /\ after'[th] = "process"
         /\ Keeps(th) /\ UNCHANGED files
BY DEF HoldBeforeWrite, HoldThen, At, Goto, AfterBeat, Keeps, KeepsSeen, TypeOK, DiskTypeOK,
       MemoryTypeOK, Leases, Statuses, Reports, CallInv, CallInvOf, Holding,
       files, disk, memory, work, seen

LEMMA ProcessRecordEffect ==
  ASSUME TypeOK, CallInv, NEW th \in Threads, ProcessRecord(th)
  PROVE  /\ pc[th] \in {"loop", "process"} /\ (pc[th] = "loop" => Len(rows[th]) < N)
         /\ pc'[th] = "commit" \/ (pc'[th] = "hold" /\ after'[th] = "commit")
         /\ \E o \in Outcomes : rows'[th] = Append(rows[th], o)
         /\ att'[th] = Append(att[th], Len(rows[th]) + 1)
         /\ call'[th] = call[th] /\ UNCHANGED files
<1>1. pc[th] \in {"loop", "process"} /\ (pc[th] = "loop" => Len(rows[th]) < N)
  BY DEF ProcessRecord, HoldThen, At, Goto, AfterBeat, Keeps, KeepsSeen, TypeOK, DiskTypeOK,
         MemoryTypeOK, Leases, Statuses, Reports, CallInv, CallInvOf, Holding,
         files, disk, memory, work, seen
<1>2. pc'[th] = "commit" \/ (pc'[th] = "hold" /\ after'[th] = "commit")
  <2>1. HoldThen(th, "commit") \/ Goto(th, "commit")
    BY DEF ProcessRecord
  <2> QED BY <2>1 DEF HoldThen, Goto, TypeOK, MemoryTypeOK
<1>3. \E o \in Outcomes : rows'[th] = Append(rows[th], o)
  BY DEF ProcessRecord, HoldThen, At, Goto, AfterBeat, Keeps, KeepsSeen, TypeOK, DiskTypeOK,
         MemoryTypeOK, Leases, Statuses, Reports, CallInv, CallInvOf, Holding,
         files, disk, memory, work, seen
<1>4. att'[th] = Append(att[th], Len(rows[th]) + 1)
  BY DEF ProcessRecord, HoldThen, At, Goto, AfterBeat, Keeps, KeepsSeen, TypeOK, DiskTypeOK,
         MemoryTypeOK, Leases, Statuses, Reports, CallInv, CallInvOf, Holding,
         files, disk, memory, work, seen
<1>5. call'[th] = call[th] /\ UNCHANGED files
  BY DEF ProcessRecord, HoldThen, At, Goto, AfterBeat, Keeps, KeepsSeen, TypeOK, DiskTypeOK,
         MemoryTypeOK, Leases, Statuses, Reports, CallInv, CallInvOf, Holding,
         files, disk, memory, work, seen
<1> QED BY <1>1, <1>2, <1>3, <1>4, <1>5

LEMMA WriteOutcomesEffect ==
  ASSUME TypeOK, CallInv, NEW th \in Threads, WriteOutcomes(th)
  PROVE  /\ pc[th] = "writeOutcomes" /\ pc'[th] = "writeAttempts" /\ Keeps(th)
         /\ outcomes' = rows[th] /\ UNCHANGED <<lease, status, attempts, checkpoint, report>>
BY DEF WriteOutcomes, At, Goto, AfterBeat, Keeps, KeepsSeen, TypeOK, DiskTypeOK,
       MemoryTypeOK, Leases, Statuses, Reports, CallInv, CallInvOf, Holding,
       files, disk, memory, work, seen

LEMMA WriteAttemptsEffect ==
  ASSUME TypeOK, CallInv, NEW th \in Threads, WriteAttempts(th)
  PROVE  /\ pc[th] = "writeAttempts" /\ pc'[th] = "writeCheckpoint" /\ Keeps(th)
         /\ attempts' = att[th] /\ UNCHANGED <<lease, status, outcomes, checkpoint, report>>
BY DEF WriteAttempts, At, Goto, AfterBeat, Keeps, KeepsSeen, TypeOK, DiskTypeOK,
       MemoryTypeOK, Leases, Statuses, Reports, CallInv, CallInvOf, Holding,
       files, disk, memory, work, seen

LEMMA WriteCheckpointEffect ==
  ASSUME TypeOK, CallInv, NEW th \in Threads, WriteCheckpoint(th)
  PROVE  /\ pc[th] = "writeCheckpoint" /\ Keeps(th)
         /\ pc'[th] = "writeReport" \/ (pc'[th] = "hold" /\ after'[th] = "cursor")
         /\ checkpoint' = Len(rows[th]) /\ UNCHANGED <<lease, status, outcomes, attempts, report>>
<1>1. pc[th] = "writeCheckpoint" /\ Keeps(th)
  BY DEF WriteCheckpoint, HoldThen, At, Goto, AfterBeat, Keeps, KeepsSeen, TypeOK, DiskTypeOK,
         MemoryTypeOK, Leases, Statuses, Reports, CallInv, CallInvOf, Holding,
         files, disk, memory, work, seen
<1>2. pc'[th] = "writeReport" \/ (pc'[th] = "hold" /\ after'[th] = "cursor")
  <2>1. HoldThen(th, "cursor") \/ Goto(th, "writeReport")
    BY DEF WriteCheckpoint
  <2> QED BY <2>1 DEF HoldThen, Goto, TypeOK, MemoryTypeOK
<1>3. checkpoint' = Len(rows[th]) /\ UNCHANGED <<lease, status, outcomes, attempts, report>>
  BY DEF WriteCheckpoint, HoldThen, At, Goto, AfterBeat, Keeps, KeepsSeen, TypeOK, DiskTypeOK,
         MemoryTypeOK, Leases, Statuses, Reports, CallInv, CallInvOf, Holding,
         files, disk, memory, work, seen
<1> QED BY <1>1, <1>2, <1>3

LEMMA WriteReportEffect ==
  ASSUME TypeOK, CallInv, NEW th \in Threads, WriteReport(th)
  PROVE  /\ pc[th] = "writeReport" /\ pc'[th] = "writeStatus" /\ Keeps(th)
         /\ report'.cursor = Len(rows[th]) /\ UNCHANGED <<lease, status, outcomes, attempts, checkpoint>>
BY DEF WriteReport, At, Goto, AfterBeat, Keeps, KeepsSeen, TypeOK, DiskTypeOK,
       MemoryTypeOK, Leases, Statuses, Reports, CallInv, CallInvOf, Holding,
       files, disk, memory, work, seen

LEMMA WriteStatusEffect ==
  ASSUME TypeOK, CallInv, NEW th \in Threads, WriteStatus(th)
  PROVE  /\ pc[th] = "writeStatus" /\ pc'[th] = "beat" /\ Keeps(th)
         /\ status'.state = StateAfter(rows[th]) /\ status'.cursor = Len(rows[th]) /\ ~status'.drifted
         /\ UNCHANGED <<lease, outcomes, attempts, checkpoint, report>>
BY DEF WriteStatus, At, Goto, AfterBeat, Keeps, KeepsSeen, TypeOK, DiskTypeOK,
       MemoryTypeOK, Leases, Statuses, Reports, CallInv, CallInvOf, Holding,
       files, disk, memory, work, seen

LEMMA HoldReadEffect ==
  ASSUME TypeOK, CallInv, NEW th \in Threads, HoldRead(th)
  PROVE  /\ <<pc[th], pc'[th]>> \in {<<"hold", "holdWrite">>, <<"release", "releaseWrite">>}
         /\ seenStatus'[th] = status /\ after'[th] = after[th] /\ Keeps(th) /\ UNCHANGED files
BY DEF HoldRead, At, Goto, AfterBeat, Keeps, KeepsSeen, TypeOK, DiskTypeOK,
       MemoryTypeOK, Leases, Statuses, Reports, CallInv, CallInvOf, Holding,
       files, disk, memory, work, seen

LEMMA HoldWriteEffect ==
  ASSUME TypeOK, CallInv, NEW th \in Threads, HoldWrite(th)
  PROVE  /\ \/ pc[th] = "holdWrite" /\ pc'[th] = "release"
            \/ pc[th] = "releaseWrite" /\ pc'[th] = after[th] /\ pc'[th] \in {"process", "commit", "cursor", "unwind"}
         /\ after'[th] = after[th] /\ Keeps(th)
         /\ status' \in {seenStatus[th], status} /\ UNCHANGED <<lease, outcomes, attempts, checkpoint, report>>
<1>1. \/ pc[th] = "holdWrite" /\ pc'[th] = "release"
      \/ pc[th] = "releaseWrite" /\ pc'[th] = after[th] /\ pc'[th] \in {"process", "commit", "cursor", "unwind"}
  BY DEF HoldWrite, At, Goto, AfterBeat, Keeps, KeepsSeen, TypeOK, DiskTypeOK,
         MemoryTypeOK, Leases, Statuses, Reports, CallInv, CallInvOf, Holding,
         files, disk, memory, work, seen
<1>2. after'[th] = after[th] /\ Keeps(th)
  BY DEF HoldWrite, At, Goto, AfterBeat, Keeps, KeepsSeen, TypeOK, DiskTypeOK,
         MemoryTypeOK, Leases, Statuses, Reports, CallInv, CallInvOf, Holding,
         files, disk, memory, work, seen
<1>3. status' \in {seenStatus[th], status} /\ UNCHANGED <<lease, outcomes, attempts, checkpoint, report>>
  BY DEF HoldWrite, At, Goto, AfterBeat, Keeps, KeepsSeen, TypeOK, DiskTypeOK,
         MemoryTypeOK, Leases, Statuses, Reports, CallInv, CallInvOf, Holding,
         files, disk, memory, work, seen
<1> QED BY <1>1, <1>2, <1>3

LEMMA HoldFailsEffect ==
  ASSUME TypeOK, CallInv, NEW th \in Threads, HoldFails(th)
  PROVE  /\ pc[th] \in {"hold", "holdWrite"} /\ pc'[th] = "release" /\ after'[th] = "unwind"
         /\ Keeps(th) /\ UNCHANGED files
BY DEF HoldFails, At, Goto, AfterBeat, Keeps, KeepsSeen, TypeOK, DiskTypeOK,
       MemoryTypeOK, Leases, Statuses, Reports, CallInv, CallInvOf, Holding,
       files, disk, memory, work, seen

LEMMA InterruptLeaseEffect ==
  ASSUME TypeOK, CallInv, NEW th \in Threads, InterruptLease(th)
  PROVE  /\ \/ pc[th] = "intLease" /\ pc'[th] = "intLeaseWrite" /\ seenLease'[th] = lease /\ UNCHANGED lease
            \/ pc[th] = "intLeaseWrite" /\ pc'[th] = "intRead" /\ lease'.gen = seenLease[th].gen
         /\ Keeps(th) /\ UNCHANGED <<status, outcomes, attempts, checkpoint, report>>
<1>1. \/ pc[th] = "intLease" /\ pc'[th] = "intLeaseWrite" /\ seenLease'[th] = lease /\ UNCHANGED lease
      \/ pc[th] = "intLeaseWrite" /\ pc'[th] = "intRead" /\ lease'.gen = seenLease[th].gen
  BY DEF InterruptLease, At, Goto, AfterBeat, Keeps, KeepsSeen, TypeOK, DiskTypeOK,
         MemoryTypeOK, Leases, Statuses, Reports, CallInv, CallInvOf, Holding,
         files, disk, memory, work, seen
<1>2. Keeps(th) /\ UNCHANGED <<status, outcomes, attempts, checkpoint, report>>
  BY DEF InterruptLease, At, Goto, AfterBeat, Keeps, KeepsSeen, TypeOK, DiskTypeOK,
         MemoryTypeOK, Leases, Statuses, Reports, CallInv, CallInvOf, Holding,
         files, disk, memory, work, seen
<1> QED BY <1>1, <1>2

LEMMA InterruptReadEffect ==
  ASSUME TypeOK, CallInv, NEW th \in Threads, InterruptRead(th)
  PROVE  /\ \/ pc[th] = "intRead" /\ pc'[th] = "intReadReport" /\ seenStatus'[th] = status
            \/ pc[th] = "intReadReport" /\ pc'[th] = "intReport" /\ seenReport'[th] = report
               /\ seenStatus'[th] = seenStatus[th]
         /\ Keeps(th) /\ UNCHANGED files
<1>1. \/ pc[th] = "intRead" /\ pc'[th] = "intReadReport" /\ seenStatus'[th] = status
      \/ pc[th] = "intReadReport" /\ pc'[th] = "intReport" /\ seenReport'[th] = report
         /\ seenStatus'[th] = seenStatus[th]
  BY DEF InterruptRead, At, Goto, AfterBeat, Keeps, KeepsSeen, TypeOK, DiskTypeOK,
         MemoryTypeOK, Leases, Statuses, Reports, CallInv, CallInvOf, Holding,
         files, disk, memory, work, seen
<1>2. Keeps(th) /\ UNCHANGED files
  BY DEF InterruptRead, At, Goto, AfterBeat, Keeps, KeepsSeen, TypeOK, DiskTypeOK,
         MemoryTypeOK, Leases, Statuses, Reports, CallInv, CallInvOf, Holding,
         files, disk, memory, work, seen
<1> QED BY <1>1, <1>2

LEMMA InterruptReportEffect ==
  ASSUME TypeOK, CallInv, NEW th \in Threads, InterruptReport(th)
  PROVE  /\ pc[th] = "intReport" /\ pc'[th] = "intStatus" /\ Keeps(th) /\ KeepsSeen(th)
         /\ report'.cursor \in {seenReport[th].cursor, report.cursor}
         /\ UNCHANGED <<lease, status, outcomes, attempts, checkpoint>>
BY DEF InterruptReport, At, Goto, AfterBeat, Keeps, KeepsSeen, TypeOK, DiskTypeOK,
       MemoryTypeOK, Leases, Statuses, Reports, CallInv, CallInvOf, Holding,
       files, disk, memory, work, seen

LEMMA InterruptStatusEffect ==
  ASSUME TypeOK, CallInv, NEW th \in Threads, InterruptStatus(th)
  PROVE  /\ pc[th] = "intStatus" /\ pc'[th] = "bind" /\ Keeps(th)
         /\ status'.state = "interrupted" /\ status'.cursor = seenStatus[th].cursor
         /\ UNCHANGED <<lease, outcomes, attempts, checkpoint, report>>
BY DEF InterruptStatus, At, Goto, AfterBeat, Keeps, KeepsSeen, TypeOK, DiskTypeOK,
       MemoryTypeOK, Leases, Statuses, Reports, CallInv, CallInvOf, Holding,
       files, disk, memory, work, seen

LEMMA RunLoopEndsEffect ==
  ASSUME TypeOK, CallInv, NEW th \in Threads, RunLoopEnds(th)
  PROVE  /\ pc[th] = "loop" /\ pc'[th] = "finalize" /\ call[th].op = "run" /\ Len(rows[th]) = N
         /\ Keeps(th) /\ UNCHANGED files
BY DEF RunLoopEnds, At, Goto, AfterBeat, Keeps, KeepsSeen, TypeOK, DiskTypeOK,
       MemoryTypeOK, Leases, Statuses, Reports, CallInv, CallInvOf, Holding,
       files, disk, memory, work, seen

LEMMA FinalizeReadEffect ==
  ASSUME TypeOK, CallInv, NEW th \in Threads, FinalizeRead(th)
  PROVE  /\ pc[th] = "finalize" /\ pc'[th] \in {"bind", "finalWrite"} /\ seenStatus'[th] = status
         /\ Keeps(th) /\ UNCHANGED files
BY DEF FinalizeRead, At, Goto, AfterBeat, Keeps, KeepsSeen, TypeOK, DiskTypeOK,
       MemoryTypeOK, Leases, Statuses, Reports, CallInv, CallInvOf, Holding,
       files, disk, memory, work, seen

LEMMA FinalizeWriteEffect ==
  ASSUME TypeOK, CallInv, NEW th \in Threads, FinalizeWrite(th)
  PROVE  /\ pc[th] = "finalWrite" /\ pc'[th] = "bind" /\ Keeps(th)
         /\ status' = [seenStatus[th] EXCEPT !.state = StateAfter(rows[th])]
         /\ UNCHANGED <<lease, outcomes, attempts, checkpoint, report>>
BY DEF FinalizeWrite, At, Goto, AfterBeat, Keeps, KeepsSeen, TypeOK, DiskTypeOK,
       MemoryTypeOK, Leases, Statuses, Reports, CallInv, CallInvOf, Holding,
       files, disk, memory, work, seen

LEMMA ResumeLoopEndsEffect ==
  ASSUME TypeOK, CallInv, NEW th \in Threads, ResumeLoopEnds(th)
  PROVE  /\ pc[th] = "loop" /\ pc'[th] = "resumed" /\ Keeps(th) /\ UNCHANGED files
BY DEF ResumeLoopEnds, At, Goto, AfterBeat, Keeps, KeepsSeen, TypeOK, DiskTypeOK,
       MemoryTypeOK, Leases, Statuses, Reports, CallInv, CallInvOf, Holding,
       files, disk, memory, work, seen

LEMMA ResumeAdmitEffect ==
  ASSUME TypeOK, CallInv, NEW th \in Threads, ResumeAdmit(th)
  PROVE  /\ pc[th] = "decide" /\ call[th].op = "resume" /\ pc'[th] \in {"reclaim", "blockWrite"}
         /\ status.state \in {"interrupted", "running"} /\ seenStatus'[th] = status
         /\ Keeps(th) /\ UNCHANGED files
BY DEF ResumeAdmit, ResumeDecide, Resumable, At, Goto, AfterBeat, Keeps, KeepsSeen, TypeOK, DiskTypeOK,
       MemoryTypeOK, Leases, Statuses, Reports, CallInv, CallInvOf, Holding,
       files, disk, memory, work, seen

LEMMA ReclaimReadEffect ==
  ASSUME TypeOK, CallInv, NEW th \in Threads, ReclaimRead(th)
  PROVE  /\ pc[th] = "reclaim" /\ pc'[th] = "reclaimWrite" /\ gen'[th] > lease.gen
         /\ Keeps(th) /\ UNCHANGED files
BY DEF ReclaimRead, At, Goto, AfterBeat, Keeps, KeepsSeen, TypeOK, DiskTypeOK,
       MemoryTypeOK, Leases, Statuses, Reports, CallInv, CallInvOf, Holding,
       files, disk, memory, work, seen

LEMMA ReclaimWriteEffect ==
  ASSUME TypeOK, CallInv, NEW th \in Threads, ReclaimWrite(th)
  PROVE  /\ pc[th] = "reclaimWrite" /\ pc'[th] = "loadOutcomes" /\ Keeps(th)
         /\ lease'.gen = gen[th] /\ UNCHANGED <<status, outcomes, attempts, checkpoint, report>>
BY DEF ReclaimWrite, At, Goto, AfterBeat, Keeps, KeepsSeen, TypeOK, DiskTypeOK,
       MemoryTypeOK, Leases, Statuses, Reports, CallInv, CallInvOf, Holding,
       files, disk, memory, work, seen

LEMMA LoadLedgerEffect ==
  ASSUME TypeOK, CallInv, NEW th \in Threads, LoadLedger(th)
  PROVE  /\ \/ pc[th] = "loadOutcomes" /\ pc'[th] = "loadAttempts" /\ rows'[th] = outcomes
            \/ pc[th] = "loadAttempts" /\ pc'[th] = "enter" /\ rows'[th] = rows[th] /\ att'[th] = attempts
         /\ call'[th] = call[th] /\ UNCHANGED files
<1>1. \/ pc[th] = "loadOutcomes" /\ pc'[th] = "loadAttempts" /\ rows'[th] = outcomes
      \/ pc[th] = "loadAttempts" /\ pc'[th] = "enter" /\ rows'[th] = rows[th] /\ att'[th] = attempts
  BY DEF LoadLedger, At, Goto, AfterBeat, Keeps, KeepsSeen, TypeOK, DiskTypeOK,
         MemoryTypeOK, Leases, Statuses, Reports, CallInv, CallInvOf, Holding,
         files, disk, memory, work, seen
<1>2. call'[th] = call[th] /\ UNCHANGED files
  BY DEF LoadLedger, At, Goto, AfterBeat, Keeps, KeepsSeen, TypeOK, DiskTypeOK,
         MemoryTypeOK, Leases, Statuses, Reports, CallInv, CallInvOf, Holding,
         files, disk, memory, work, seen
<1> QED BY <1>1, <1>2


(* What a thread holds in memory once its step is done. *)
LEMMA OwnMemory ==
  ASSUME TypeOK, CallInv, MemoryInv, NEW th \in Threads,
         Invoke(th) \/ Step(th) \/ Failure(th)
  PROVE  MemoryInvOf(th)'
<1> USE DEF MemoryInvOf, Place, Holding, Interrupting, Unloaded, Committing, Creating
<1>1. /\ MemoryInvOf(th)
      /\ Len(rows[th]) \in Nat /\ Len(<<>>) = 0
      /\ \A o \in Outcomes : Len(Append(rows[th], o)) = Len(rows[th]) + 1
      /\ call[th].op = "run" => call[th].interrupt \in Nat
      /\ N \in Nat \ {0}
  BY ConstantsAssumption, InterruptIsNat DEF MemoryInv, TypeOK, MemoryTypeOK, NoCall
<1>2. ASSUME Return(th) PROVE MemoryInvOf(th)'
  BY <1>2 DEF Return, Forget, Goto, TypeOK, MemoryTypeOK, NoCall
<1>3. CASE Leave(th) \/ CreateRequestFails(th) \/ BindIdempotency(th) \/ BlockDrift(th)
  BY <1>2, <1>3, LeaveReturns DEF CreateRequestFails, BindIdempotency, BlockDrift
<1>4. CASE Approach(th)
  <2>1. rows'[th] = rows[th] /\ att'[th] = att[th] /\ report' = report
    BY <1>4
       DEF Approach, Invoke, AcquireFlock, AcquireRLock, RunAdopt, RunMkdir, CreateRequest,
           disk, memory, work
  <2>2. pc[th] \in Unloaded
    BY <1>4
       DEF Approach, Invoke, AcquireFlock, AcquireRLock, RunAdopt, RunMkdir, RunDecide,
           CreateRequest, At
  <2>3. rows[th] = <<>> /\ att[th] = <<>>
    BY <1>1, <2>2
  <2>4. /\ pc'[th] \in (Creating \cup {"flock", "rlock", "decide", "bind"})
        /\ pc'[th] = "bind" => report.cursor > 0
    BY <1>4
       DEF Approach, Invoke, AcquireFlock, AcquireRLock, RunAdopt, RunMkdir, CreateRequest,
           At, Goto, TypeOK, MemoryTypeOK
  <2> QED BY <2>1, <2>3, <2>4
<1>5. CASE CreateLease(th)
  BY <1>1, <1>5, CreateLeaseEffect DEF Keeps, KeepsSeen, files
<1>6. CASE CreateStatus(th)
  BY <1>1, <1>6, CreateStatusEffect DEF Keeps, KeepsSeen, files
<1>7. CASE ExecuteStart(th)
  BY <1>1, <1>7, ExecuteStartEffect DEF Keeps, KeepsSeen, files, CallInv, CallInvOf, RunPoints
<1>8. CASE HeartbeatRead(th)
  BY <1>1, <1>8, HeartbeatReadEffect DEF Keeps, KeepsSeen, files, AfterBeat
<1>9. CASE HeartbeatWrite(th)
  BY <1>1, <1>9, HeartbeatWriteEffect DEF Keeps, KeepsSeen, files, AfterBeat
<1>10. CASE PassFence(th)
  BY <1>1, <1>10, PassFenceEffect DEF Keeps, KeepsSeen, files, CallInv, CallInvOf, ResumePoints
<1>11. CASE HoldBeforeWrite(th)
  BY <1>1, <1>11, HoldBeforeWriteEffect DEF Keeps, KeepsSeen, files, CallInv, CallInvOf, RunPoints
<1>12. CASE ProcessRecord(th)
  BY <1>1, <1>12, ProcessRecordEffect DEF Keeps, KeepsSeen, files, CallInv, CallInvOf, RunPoints
<1>13. CASE WriteOutcomes(th)
  BY <1>1, <1>13, WriteOutcomesEffect DEF Keeps, KeepsSeen, files
<1>14. CASE WriteAttempts(th)
  BY <1>1, <1>14, WriteAttemptsEffect DEF Keeps, KeepsSeen, files
<1>15. CASE WriteCheckpoint(th)
  BY <1>1, <1>15, WriteCheckpointEffect DEF Keeps, KeepsSeen, files
<1>16. CASE WriteReport(th)
  BY <1>1, <1>16, WriteReportEffect DEF Keeps, KeepsSeen, files
<1>17. CASE WriteStatus(th)
  BY <1>1, <1>17, WriteStatusEffect DEF Keeps, KeepsSeen, files
<1>18. CASE HoldRead(th)
  BY <1>1, <1>18, HoldReadEffect DEF Keeps, KeepsSeen, files
<1>19. CASE HoldWrite(th)
  BY <1>1, <1>19, HoldWriteEffect DEF Keeps, KeepsSeen, files
<1>20. CASE HoldFails(th)
  BY <1>1, <1>20, HoldFailsEffect DEF Keeps, KeepsSeen, files
<1>21. CASE InterruptLease(th)
  BY <1>1, <1>21, InterruptLeaseEffect DEF Keeps, KeepsSeen, files, CallInv, CallInvOf, RunPoints
<1>22. CASE InterruptRead(th)
  BY <1>1, <1>22, InterruptReadEffect DEF Keeps, KeepsSeen, files
<1>23. CASE InterruptReport(th)
  BY <1>1, <1>23, InterruptReportEffect DEF Keeps, KeepsSeen, files
<1>24. CASE InterruptStatus(th)
  BY <1>1, <1>24, InterruptStatusEffect DEF Keeps, KeepsSeen, files
<1>25. CASE RunLoopEnds(th)
  BY <1>1, <1>25, RunLoopEndsEffect DEF Keeps, KeepsSeen, files
<1>26. CASE FinalizeRead(th)
  BY <1>1, <1>26, FinalizeReadEffect DEF Keeps, KeepsSeen, files
<1>27. CASE FinalizeWrite(th)
  BY <1>1, <1>27, FinalizeWriteEffect DEF Keeps, KeepsSeen, files
<1>28. CASE ResumeLoopEnds(th)
  BY <1>1, <1>28, ResumeLoopEndsEffect DEF Keeps, KeepsSeen, files
<1>29. CASE ResumeAdmit(th)
  BY <1>1, <1>29, ResumeAdmitEffect DEF Keeps, KeepsSeen, files
<1>30. CASE ReclaimRead(th)
  BY <1>1, <1>30, ReclaimReadEffect DEF Keeps, KeepsSeen, files
<1>31. CASE ReclaimWrite(th)
  BY <1>1, <1>31, ReclaimWriteEffect DEF Keeps, KeepsSeen, files
<1>32. CASE LoadLedger(th)
  BY <1>1, <1>32, LoadLedgerEffect DEF Keeps, KeepsSeen, files, CallInv, CallInvOf, RunPoints
<1> QED
  BY <1>3, <1>4, <1>5, <1>6, <1>7, <1>8, <1>9, <1>10, <1>11, <1>12, <1>13,
     <1>14, <1>15, <1>16, <1>17, <1>18, <1>19, <1>20, <1>21, <1>22, <1>23,
     <1>24, <1>25, <1>26, <1>27, <1>28, <1>29, <1>30, <1>31, <1>32
     DEF Leave, Approach, Step, Failure, Enter, RunStep, KeyStep, ResumeStep

(* A run that has started never goes back to not having started.             *)
LEMMA StartedStays ==
  ASSUME TypeOK, StartInv, Started, [Next]_vars
  PROVE  Started'
<1>1. CASE status' = status
  BY <1>1 DEF Started
<1>2. ASSUME NEW p \in Processes, Crash(p) PROVE status' = status
  BY <1>2 DEF Crash, disk
<1>3. ASSUME status' # status, NEW th \in Threads, Invoke(th) \/ Step(th) \/ Failure(th)
      PROVE  Started'
  <2>1. CASE CreateStatus(th) \/ ExecuteStart(th)
    BY <2>1 DEF CreateStatus, ExecuteStart, At, StartInv, StartInvOf, Creating
  <2>2. CASE WriteStatus(th)
    BY <2>2, StateAfterType DEF WriteStatus, Started
  <2>3. CASE HoldWrite(th)
    BY <2>3 DEF HoldWrite, At, StartInv, StartInvOf, Started
  <2>4. CASE InterruptStatus(th)
    BY <2>4 DEF InterruptStatus, TypeOK, MemoryTypeOK, Statuses, Started
  <2>5. CASE FinalizeWrite(th)
    BY <2>5, StateAfterType DEF FinalizeWrite, TypeOK, MemoryTypeOK, Statuses, Started
  <2>6. CASE BlockDrift(th)
    BY <2>6 DEF BlockDrift, TypeOK, MemoryTypeOK, Statuses, Started
  <2>7. ~ Leave(th) /\ ~ Approach(th)
    BY <1>3, LeaveReturns
       DEF disk, Approach, Invoke, AcquireFlock, AcquireRLock, RunAdopt, RunMkdir,
           CreateRequest
  <2> QED
    BY <1>3, <2>1, <2>2, <2>3, <2>4, <2>5, <2>6, <2>7
       DEF Leave, Approach, Step, Failure, Enter, RunStep, KeyStep, ResumeStep, disk,
           CreateLease, InterruptLease, InterruptRead, InterruptReport, RunLoopEnds,
           FinalizeRead, BindIdempotency, HeartbeatRead, HeartbeatWrite, HoldBeforeWrite,
           ProcessRecord, PassFence, WriteOutcomes, WriteAttempts, WriteCheckpoint,
           WriteReport, HoldRead, ResumeAdmit, ReclaimRead, ReclaimWrite,
           LoadLedger, ResumeLoopEnds, CreateRequestFails, HoldFails
<1> QED BY <1>1, <1>2, <1>3 DEF Next, vars, disk

(* The lease of a run that has not started is at most its first. *)
LEMMA FirstLease ==
  ASSUME TypeOK, StartInv, MemoryInv, [Next]_vars, ~Started'
  PROVE  lease'.gen <= 1
<1>1. ~Started /\ lease.gen <= 1
  BY StartedStays DEF MemoryInv
<1>2. CASE lease' = lease
  BY <1>1, <1>2
<1>3. ASSUME NEW p \in Processes, Crash(p) PROVE lease' = lease
  BY <1>3 DEF Crash, disk
<1>4. ASSUME lease' # lease, NEW th \in Threads, Invoke(th) \/ Step(th) \/ Failure(th)
      PROVE  lease'.gen <= 1
  <2>1. CASE CreateLease(th)
    BY <2>1 DEF CreateLease
  <2>2. ~ HeartbeatWrite(th) /\ ~ InterruptLease(th) /\ ~ ReclaimWrite(th)
    BY <1>1 DEF HeartbeatWrite, InterruptLease, ReclaimWrite, At, StartInv, StartInvOf, Executing
  <2>3. ~ Leave(th) /\ ~ Approach(th)
    BY <1>4, LeaveReturns
       DEF disk, Approach, Invoke, AcquireFlock, AcquireRLock, RunAdopt, RunMkdir,
           CreateRequest
  <2> QED
    BY <1>4, <2>1, <2>2, <2>3
       DEF Leave, Approach, Step, Failure, Enter, RunStep, KeyStep, ResumeStep, disk,
           CreateStatus, ExecuteStart, InterruptRead, InterruptReport, InterruptStatus,
           RunLoopEnds, FinalizeRead, FinalizeWrite, BindIdempotency, HeartbeatRead,
           HoldBeforeWrite, ProcessRecord, PassFence, WriteOutcomes, WriteAttempts,
           WriteCheckpoint, WriteReport, WriteStatus, HoldRead, HoldWrite, ResumeAdmit,
           BlockDrift, ReclaimRead, LoadLedger, ResumeLoopEnds, CreateRequestFails, HoldFails
<1> QED BY <1>2, <1>3, <1>4 DEF Next, vars, disk

(* A key is bound to the run only once the run has a report. *)
LEMMA BoundHasReport ==
  ASSUME TypeOK, MemoryInv, [Next]_vars, bound' # {}
  PROVE  report'.cursor > 0
<1>1. CASE bound # {}
  BY <1>1, ReportStays DEF MemoryInv
<1>2. ASSUME bound = {}, NEW th \in Threads, Invoke(th) \/ Step(th) \/ Failure(th)
      PROVE  report'.cursor > 0
  <2>1. CASE BindIdempotency(th)
    BY <2>1, ReportStays DEF BindIdempotency, At, MemoryInv, MemoryInvOf, Interrupting
  <2>2. ~ Leave(th)
    BY <1>2, LeaveReturns DEF disk
  <2>3. ~ Approach(th)
    BY <1>2
       DEF disk, Approach, Invoke, AcquireFlock, AcquireRLock, RunAdopt, RunMkdir,
           CreateRequest
  <2> QED
    BY <1>2, <2>1, <2>2, <2>3
       DEF Leave, Approach, Step, Failure, Enter, RunStep, KeyStep, ResumeStep, disk,
           CreateLease, CreateStatus, ExecuteStart, InterruptLease, InterruptRead,
           InterruptReport, InterruptStatus, RunLoopEnds, FinalizeRead, FinalizeWrite,
           HeartbeatRead, HeartbeatWrite, HoldBeforeWrite, ProcessRecord, PassFence,
           WriteOutcomes, WriteAttempts, WriteCheckpoint, WriteReport, WriteStatus, HoldRead,
           HoldWrite, ResumeAdmit, BlockDrift, ReclaimRead, ReclaimWrite, LoadLedger,
           ResumeLoopEnds, CreateRequestFails, HoldFails
<1>3. ASSUME NEW p \in Processes, Crash(p) PROVE bound' = bound
  BY <1>3 DEF Crash, disk
<1> QED BY <1>1, <1>2, <1>3 DEF Next, vars, disk

(* What threads hold in memory stays in step with the report. *)
LEMMA MemoryStep == TypeOK /\ CallInv /\ StartInv /\ MemoryInv /\ [Next]_vars => MemoryInv'
<1> SUFFICES ASSUME TypeOK, CallInv, StartInv, MemoryInv, [Next]_vars PROVE MemoryInv'
  OBVIOUS
<1>1. report.cursor > 0 => report'.cursor > 0
  BY ReportStays
<1>2. ASSUME NEW t \in Threads,
             pc'[t] = pc[t] /\ call'[t] = call[t] /\ rows'[t] = rows[t] /\ att'[t] = att[t],
             after'[t] = after[t] /\ seenReport'[t] = seenReport[t]
      PROVE  MemoryInvOf(t)'
  BY <1>1, <1>2 DEF MemoryInv, MemoryInvOf, Place
<1>3. ASSUME NEW t \in Threads PROVE MemoryInvOf(t)'
  <2>1. CASE UNCHANGED vars
    BY <2>1, <1>2 DEF vars, memory, work, seen
  <2>2. ASSUME NEW p \in Processes, Crash(p) PROVE MemoryInvOf(t)'
    <3>1. CASE ProcessOf[t] = p
      BY <2>2, <3>1
         DEF Crash, Forget, TypeOK, MemoryTypeOK, NoCall, MemoryInvOf, Place, Holding,
             Interrupting, Unloaded, Committing, Creating
    <3>2. CASE ProcessOf[t] # p
      BY <2>2, <3>2, <1>2 DEF Crash, Forget, TypeOK, MemoryTypeOK
    <3> QED BY <3>1, <3>2
  <2>3. ASSUME NEW th \in Threads, Invoke(th) \/ Step(th) \/ Failure(th)
        PROVE  MemoryInvOf(t)'
    BY <2>3, <1>2, OwnMemory, OthersKept DEF KeepsOthers
  <2> QED BY <2>1, <2>2, <2>3 DEF Next
<1> QED
  BY <1>3, BoundHasReport, FirstLease DEF MemoryInv

-----------------------------------------------------------------------------
(* The ledger in the files and in the executing thread's memory. *)

(* The cursors are numbers. *)
LEMMA StatusCursor ==
  TypeOK => /\ status.cursor \in Nat /\ report.cursor \in Nat /\ checkpoint \in Nat
            /\ lease.gen \in Nat /\ Len(outcomes) \in Nat
BY ConstantsAssumption DEF TypeOK, DiskTypeOK, Statuses, Reports, Leases

(* A lease generation held in memory is a number. *)
LEMMA GenIsNat == ASSUME TypeOK, NEW th \in Threads PROVE gen[th] \in Nat
BY DEF TypeOK, MemoryTypeOK

(* A thread that is not executing has nothing to say of the files. *)
LEMMA OutsideLedger ==
  ASSUME NEW th \in Threads,
         pc'[th] \in Creating \cup {"idle", "flock", "rlock", "decide", "bind", "resumed", "start"}
  PROVE  RowsInvOf(th)' /\ CursorsInvOf(th)' /\ SeenInvOf(th)'
BY DEF RowsInvOf, CursorsInvOf, SeenInvOf, Place, Holding, Loaded, Unsettled, Committing,
       Interrupting, Creating

(* Leaving a call, or coming to take part in one. *)
LEMMA LeavesLedger ==
  ASSUME TypeOK, NEW th \in Threads,
         \/ Leave(th) \/ CreateRequestFails(th) \/ BindIdempotency(th) \/ BlockDrift(th)
         \/ Approach(th)
  PROVE  RowsInvOf(th)' /\ CursorsInvOf(th)' /\ SeenInvOf(th)'
<1>1. ASSUME Return(th) PROVE pc'[th] = "idle"
  BY <1>1 DEF Return, Goto, TypeOK, MemoryTypeOK
<1>2. CASE Leave(th) \/ CreateRequestFails(th) \/ BindIdempotency(th) \/ BlockDrift(th)
  <2>1. pc'[th] = "idle"
    BY <1>1, <1>2, LeaveReturns DEF CreateRequestFails, BindIdempotency, BlockDrift
  <2> QED BY <2>1, OutsideLedger
<1>3. CASE Approach(th)
  <2>1. pc'[th] \in Creating \cup {"flock", "rlock", "decide", "bind"}
    BY <1>3
       DEF Approach, Invoke, AcquireFlock, AcquireRLock, RunAdopt, RunMkdir, CreateRequest,
           At, Goto, TypeOK, MemoryTypeOK, Creating
  <2> QED BY <2>1, OutsideLedger
<1> QED BY <1>2, <1>3

(* The rows in memory are those of the file, with at most the next one added. *)
LEMMA OwnRows ==
  ASSUME TypeOK, CallInv, StartInv, MemoryInv, FilesInv, NEW th \in Threads,
         RowsInvOf(th), CursorsInvOf(th), SeenInvOf(th), Invoke(th) \/ Step(th) \/ Failure(th)
  PROVE  RowsInvOf(th)'
<1> USE DEF RowsInvOf, Place, Holding, Loaded, Unsettled, Committing, Interrupting
<1>1. /\ RowsInvOf(th) /\ CursorsInvOf(th) /\ SeenInvOf(th) /\ MemoryInvOf(th)
      /\ rows[th] \in Seq(Outcomes) /\ outcomes \in Seq(Outcomes) /\ N \in Nat \ {0}
      /\ att[th] \in Seq(1..N) /\ attempts \in Seq(1..N)
  BY ConstantsAssumption DEF MemoryInv, TypeOK, MemoryTypeOK, DiskTypeOK
<1>2. CASE \/ Leave(th) \/ CreateRequestFails(th) \/ BindIdempotency(th) \/ BlockDrift(th)
         \/ Approach(th)
  BY <1>2, LeavesLedger
<1>3. CASE CreateLease(th)
  BY <1>1, <1>3, CreateLeaseEffect DEF Keeps, files
<1>4. CASE CreateStatus(th)
  BY <1>1, <1>4, CreateStatusEffect DEF Keeps, files
<1>5. CASE ExecuteStart(th)
  BY <1>1, <1>5, ExecuteStartEffect DEF Keeps, files, MemoryInvOf, Unloaded, StartInv, StartInvOf, Empty, Creating
<1>6. CASE HeartbeatRead(th)
  BY <1>1, <1>6, HeartbeatReadEffect DEF Keeps, files, AfterBeat
<1>7. CASE HeartbeatWrite(th)
  BY <1>1, <1>7, HeartbeatWriteEffect DEF Keeps, files, AfterBeat
<1>8. CASE PassFence(th)
  BY <1>1, <1>8, PassFenceEffect DEF Keeps, files
<1>9. CASE HoldBeforeWrite(th)
  BY <1>1, <1>9, HoldBeforeWriteEffect DEF Keeps, files
<1>10. CASE ProcessRecord(th)
  BY <1>1, <1>10, ProcessRecordEffect DEF Keeps, files
<1>11. CASE WriteOutcomes(th)
  <2>1. PICK o \in Outcomes : outcomes' = Append(outcomes, o)
    BY <1>1, <1>11, WriteOutcomesEffect
  <2>2. Len(outcomes') = Len(outcomes) + 1 /\ Len(outcomes) \in Nat
    BY <1>1, <2>1
  <2>3. \A i \in 1..Len(attempts) : attempts[i] < Len(outcomes')
    BY <1>1, <2>2 DEF FilesInv
  <2>4. att'[th] = Append(attempts', Len(outcomes')) /\ attempts' = attempts
    BY <1>1, <1>11, <2>2, WriteOutcomesEffect DEF Keeps
  <2> QED BY <1>11, <2>3, <2>4, WriteOutcomesEffect DEF Keeps
<1>12. CASE WriteAttempts(th)
  BY <1>1, <1>12, WriteAttemptsEffect DEF Keeps, files
<1>13. CASE WriteCheckpoint(th)
  BY <1>1, <1>13, WriteCheckpointEffect DEF Keeps, files
<1>14. CASE WriteReport(th)
  BY <1>1, <1>14, WriteReportEffect DEF Keeps, files
<1>15. CASE WriteStatus(th)
  BY <1>1, <1>15, WriteStatusEffect DEF Keeps, files
<1>16. CASE HoldRead(th)
  BY <1>1, <1>16, HoldReadEffect DEF Keeps, files
<1>17. CASE HoldWrite(th)
  BY <1>1, <1>17, HoldWriteEffect DEF Keeps, files
<1>18. CASE HoldFails(th)
  BY <1>1, <1>18, HoldFailsEffect DEF Keeps, files
<1>19. CASE InterruptLease(th)
  BY <1>1, <1>19, InterruptLeaseEffect DEF Keeps, files
<1>20. CASE InterruptRead(th)
  BY <1>1, <1>20, InterruptReadEffect DEF Keeps, files
<1>21. CASE InterruptReport(th)
  BY <1>1, <1>21, InterruptReportEffect DEF Keeps, files
<1>22. CASE InterruptStatus(th)
  BY <1>1, <1>22, InterruptStatusEffect DEF Keeps, files
<1>23. CASE RunLoopEnds(th)
  BY <1>1, <1>23, RunLoopEndsEffect DEF Keeps, files
<1>24. CASE FinalizeRead(th)
  BY <1>1, <1>24, FinalizeReadEffect DEF Keeps, files
<1>25. CASE FinalizeWrite(th)
  BY <1>1, <1>25, FinalizeWriteEffect DEF Keeps, files
<1>26. CASE ResumeLoopEnds(th)
  BY <1>1, <1>26, ResumeLoopEndsEffect DEF Keeps, files
<1>27. CASE ResumeAdmit(th)
  BY <1>1, <1>27, ResumeAdmitEffect DEF Keeps, files
<1>28. CASE ReclaimRead(th)
  BY <1>1, <1>28, ReclaimReadEffect DEF Keeps, files
<1>29. CASE ReclaimWrite(th)
  BY <1>1, <1>29, ReclaimWriteEffect DEF Keeps, files
<1>30. CASE LoadLedger(th)
  BY <1>1, <1>30, LoadLedgerEffect DEF Keeps, files, MemoryInvOf, Unloaded
<1> QED
  BY <1>2, <1>3, <1>4, <1>5, <1>6, <1>7, <1>8, <1>9, <1>10, <1>11, <1>12,
     <1>13, <1>14, <1>15, <1>16, <1>17, <1>18, <1>19, <1>20, <1>21, <1>22,
     <1>23, <1>24, <1>25, <1>26, <1>27, <1>28, <1>29, <1>30
     DEF Leave, Approach, Step, Failure, Enter, RunStep, KeyStep, ResumeStep

(* The cursors and the state follow the commit sequence. *)
LEMMA OwnCursors ==
  ASSUME TypeOK, CallInv, StartInv, MemoryInv, FilesInv, NEW th \in Threads,
         RowsInvOf(th), CursorsInvOf(th), SeenInvOf(th), Invoke(th) \/ Step(th) \/ Failure(th)
  PROVE  CursorsInvOf(th)'
<1> USE DEF CursorsInvOf, Place, Holding, Loaded, Unsettled, Committing, Interrupting
<1>1. /\ RowsInvOf(th) /\ CursorsInvOf(th) /\ SeenInvOf(th) /\ MemoryInvOf(th)
      /\ rows[th] \in Seq(Outcomes) /\ outcomes \in Seq(Outcomes) /\ N \in Nat \ {0}
      /\ att[th] \in Seq(1..N) /\ attempts \in Seq(1..N)
  BY ConstantsAssumption DEF MemoryInv, TypeOK, MemoryTypeOK, DiskTypeOK
<1>2. CASE \/ Leave(th) \/ CreateRequestFails(th) \/ BindIdempotency(th) \/ BlockDrift(th)
         \/ Approach(th)
  BY <1>2, LeavesLedger
<1>3. CASE CreateLease(th)
  BY <1>1, <1>3, CreateLeaseEffect DEF Keeps, files
<1>4. CASE CreateStatus(th)
  BY <1>1, <1>4, CreateStatusEffect DEF Keeps, files
<1>5. CASE ExecuteStart(th)
  BY <1>1, <1>5, ExecuteStartEffect DEF Keeps, files, MemoryInvOf, Unloaded, StartInv, StartInvOf, Empty, Creating, StateAfter
<1>6. CASE HeartbeatRead(th)
  BY <1>1, <1>6, HeartbeatReadEffect DEF Keeps, files, AfterBeat
<1>7. CASE HeartbeatWrite(th)
  BY <1>1, <1>7, HeartbeatWriteEffect DEF Keeps, files, AfterBeat
<1>8. CASE PassFence(th)
  BY <1>1, <1>8, PassFenceEffect DEF Keeps, files, CallInv, CallInvOf, ResumePoints, RowsInvOf
<1>9. CASE HoldBeforeWrite(th)
  BY <1>1, <1>9, HoldBeforeWriteEffect DEF Keeps, files, StateAfter, RowsInvOf
<1>10. CASE ProcessRecord(th)
  BY <1>1, <1>10, ProcessRecordEffect DEF Keeps, files, RowsInvOf, StateAfter
<1>11. CASE WriteOutcomes(th)
  <2>1. Len(outcomes') = Len(outcomes) + 1 /\ status' = status
    <3>1. pc[th] = "writeOutcomes" /\ outcomes' = rows[th] /\ status' = status
      BY <1>11, WriteOutcomesEffect
    <3>2. \E o \in Outcomes : rows[th] = Append(outcomes, o)
      BY <3>1 DEF RowsInvOf
    <3> QED BY <1>1, <3>1, <3>2
  <2>2. status.cursor < Len(outcomes')
    BY <2>1, StatusCursor DEF FilesInv
  <2> QED BY <1>1, <1>11, <2>1, <2>2, WriteOutcomesEffect
<1>12. CASE WriteAttempts(th)
  BY <1>1, <1>12, WriteAttemptsEffect DEF Keeps, files
<1>13. CASE WriteCheckpoint(th)
  BY <1>1, <1>13, WriteCheckpointEffect DEF Keeps, files, RowsInvOf
<1>14. CASE WriteReport(th)
  BY <1>1, <1>14, WriteReportEffect DEF Keeps, files, RowsInvOf
<1>15. CASE WriteStatus(th)
  <2>1. rows[th] = outcomes /\ outcomes' = outcomes /\ Len(outcomes) \in Nat
    BY <1>1, <1>15, WriteStatusEffect DEF RowsInvOf
  <2>2. status'.state = StateAfter(outcomes') /\ status'.cursor = Len(outcomes')
    BY <1>15, <2>1, WriteStatusEffect
  <2>3. Len(outcomes') < N => status'.state = "running"
    BY <2>2 DEF StateAfter
  <2> QED BY <1>15, <2>2, <2>3, WriteStatusEffect
<1>16. CASE HoldRead(th)
  BY <1>1, <1>16, HoldReadEffect DEF Keeps, files
<1>17. CASE HoldWrite(th)
  BY <1>1, <1>17, HoldWriteEffect DEF Keeps, files, SeenInvOf
<1>18. CASE HoldFails(th)
  BY <1>1, <1>18, HoldFailsEffect DEF Keeps, files
<1>19. CASE InterruptLease(th)
  BY <1>1, <1>19, InterruptLeaseEffect DEF Keeps, files
<1>20. CASE InterruptRead(th)
  BY <1>1, <1>20, InterruptReadEffect DEF Keeps, files
<1>21. CASE InterruptReport(th)
  BY <1>1, <1>21, InterruptReportEffect DEF Keeps, files
<1>22. CASE InterruptStatus(th)
  BY <1>1, <1>22, InterruptStatusEffect DEF Keeps, files
<1>23. CASE RunLoopEnds(th)
  BY <1>1, <1>23, RunLoopEndsEffect DEF Keeps, files
<1>24. CASE FinalizeRead(th)
  BY <1>1, <1>24, FinalizeReadEffect DEF Keeps, files
<1>25. CASE FinalizeWrite(th)
  BY <1>1, <1>25, FinalizeWriteEffect DEF Keeps, files, SeenInvOf, RowsInvOf, Statuses, CallInv, CallInvOf, RunPoints
<1>26. CASE ResumeLoopEnds(th)
  BY <1>1, <1>26, ResumeLoopEndsEffect DEF Keeps, files
<1>27. CASE ResumeAdmit(th)
  BY <1>1, <1>27, ResumeAdmitEffect DEF Keeps, files
<1>28. CASE ReclaimRead(th)
  BY <1>1, <1>28, ReclaimReadEffect DEF Keeps, files
<1>29. CASE ReclaimWrite(th)
  BY <1>1, <1>29, ReclaimWriteEffect DEF Keeps, files
<1>30. CASE LoadLedger(th)
  BY <1>1, <1>30, LoadLedgerEffect DEF Keeps, files, CallInv, CallInvOf, ResumePoints
<1> QED
  BY <1>2, <1>3, <1>4, <1>5, <1>6, <1>7, <1>8, <1>9, <1>10, <1>11, <1>12,
     <1>13, <1>14, <1>15, <1>16, <1>17, <1>18, <1>19, <1>20, <1>21, <1>22,
     <1>23, <1>24, <1>25, <1>26, <1>27, <1>28, <1>29, <1>30
     DEF Leave, Approach, Step, Failure, Enter, RunStep, KeyStep, ResumeStep

(* What a thread has read to write it back is what the file still holds. *)
LEMMA OwnSeen ==
  ASSUME TypeOK, CallInv, StartInv, MemoryInv, FilesInv, NEW th \in Threads,
         RowsInvOf(th), CursorsInvOf(th), SeenInvOf(th), Invoke(th) \/ Step(th) \/ Failure(th)
  PROVE  SeenInvOf(th)'
<1> USE DEF SeenInvOf, Place, Holding
<1>1. /\ RowsInvOf(th) /\ CursorsInvOf(th) /\ SeenInvOf(th) /\ MemoryInvOf(th)
      /\ rows[th] \in Seq(Outcomes) /\ outcomes \in Seq(Outcomes) /\ N \in Nat \ {0}
      /\ att[th] \in Seq(1..N) /\ attempts \in Seq(1..N)
  BY ConstantsAssumption DEF MemoryInv, TypeOK, MemoryTypeOK, DiskTypeOK
<1>2. CASE \/ Leave(th) \/ CreateRequestFails(th) \/ BindIdempotency(th) \/ BlockDrift(th)
         \/ Approach(th)
  BY <1>2, LeavesLedger
<1>3. CASE CreateLease(th)
  BY <1>1, <1>3, CreateLeaseEffect DEF Keeps, files, KeepsSeen
<1>4. CASE CreateStatus(th)
  BY <1>1, <1>4, CreateStatusEffect DEF Keeps, files, KeepsSeen
<1>5. CASE ExecuteStart(th)
  BY <1>1, <1>5, ExecuteStartEffect DEF Keeps, files
<1>6. CASE HeartbeatRead(th)
  BY <1>1, <1>6, HeartbeatReadEffect DEF Keeps, files, AfterBeat
<1>7. CASE HeartbeatWrite(th)
  BY <1>1, <1>7, HeartbeatWriteEffect DEF Keeps, files, AfterBeat
<1>8. CASE PassFence(th)
  BY <1>1, <1>8, PassFenceEffect DEF Keeps, files
<1>9. CASE HoldBeforeWrite(th)
  BY <1>1, <1>9, HoldBeforeWriteEffect DEF Keeps, files
<1>10. CASE ProcessRecord(th)
  BY <1>1, <1>10, ProcessRecordEffect DEF Keeps, files
<1>11. CASE WriteOutcomes(th)
  BY <1>1, <1>11, WriteOutcomesEffect DEF Keeps, files
<1>12. CASE WriteAttempts(th)
  BY <1>1, <1>12, WriteAttemptsEffect DEF Keeps, files
<1>13. CASE WriteCheckpoint(th)
  BY <1>1, <1>13, WriteCheckpointEffect DEF Keeps, files
<1>14. CASE WriteReport(th)
  BY <1>1, <1>14, WriteReportEffect DEF Keeps, files
<1>15. CASE WriteStatus(th)
  BY <1>1, <1>15, WriteStatusEffect DEF Keeps, files
<1>16. CASE HoldRead(th)
  BY <1>1, <1>16, HoldReadEffect DEF Keeps, files
<1>17. CASE HoldWrite(th)
  BY <1>1, <1>17, HoldWriteEffect DEF Keeps, files
<1>18. CASE HoldFails(th)
  BY <1>1, <1>18, HoldFailsEffect DEF Keeps, files
<1>19. CASE InterruptLease(th)
  BY <1>1, <1>19, InterruptLeaseEffect DEF Keeps, files
<1>20. CASE InterruptRead(th)
  BY <1>1, <1>20, InterruptReadEffect DEF Keeps, files
<1>21. CASE InterruptReport(th)
  BY <1>1, <1>21, InterruptReportEffect DEF Keeps, files, KeepsSeen
<1>22. CASE InterruptStatus(th)
  BY <1>1, <1>22, InterruptStatusEffect DEF Keeps, files
<1>23. CASE RunLoopEnds(th)
  BY <1>1, <1>23, RunLoopEndsEffect DEF Keeps, files
<1>24. CASE FinalizeRead(th)
  BY <1>1, <1>24, FinalizeReadEffect DEF Keeps, files
<1>25. CASE FinalizeWrite(th)
  BY <1>1, <1>25, FinalizeWriteEffect DEF Keeps, files
<1>26. CASE ResumeLoopEnds(th)
  BY <1>1, <1>26, ResumeLoopEndsEffect DEF Keeps, files
<1>27. CASE ResumeAdmit(th)
  BY <1>1, <1>27, ResumeAdmitEffect DEF Keeps, files
<1>28. CASE ReclaimRead(th)
  BY <1>1, <1>28, ReclaimReadEffect DEF Keeps, files
<1>29. CASE ReclaimWrite(th)
  BY <1>1, <1>29, ReclaimWriteEffect DEF Keeps, files
<1>30. CASE LoadLedger(th)
  BY <1>1, <1>30, LoadLedgerEffect DEF Keeps, files
<1> QED
  BY <1>2, <1>3, <1>4, <1>5, <1>6, <1>7, <1>8, <1>9, <1>10, <1>11, <1>12,
     <1>13, <1>14, <1>15, <1>16, <1>17, <1>18, <1>19, <1>20, <1>21, <1>22,
     <1>23, <1>24, <1>25, <1>26, <1>27, <1>28, <1>29, <1>30
     DEF Leave, Approach, Step, Failure, Enter, RunStep, KeyStep, ResumeStep

(* The files stay in order: each step of the commit sequence is allowed by the *)
(* ones before it, and whatever is written back is what the file holds.      *)
LEMMA OwnFiles ==
  ASSUME TypeOK, CallInv, StartInv, MemoryInv, FilesInv, NEW th \in Threads,
         RowsInvOf(th), CursorsInvOf(th), SeenInvOf(th), Invoke(th) \/ Step(th) \/ Failure(th)
  PROVE  FilesInv'
<1>1. /\ rows[th] \in Seq(Outcomes) /\ outcomes \in Seq(Outcomes) /\ N \in Nat \ {0}
      /\ att[th] \in Seq(1..N) /\ attempts \in Seq(1..N)
      /\ status.cursor \in Nat /\ report.cursor \in Nat /\ checkpoint \in Nat
      /\ MemoryInvOf(th)
  BY ConstantsAssumption, StatusCursor DEF MemoryInv, TypeOK, MemoryTypeOK, DiskTypeOK
<1>2. ASSUME UNCHANGED <<status, outcomes, attempts, checkpoint, report>> PROVE FilesInv'
  BY <1>2 DEF FilesInv
<1>3. CASE files' = files
  BY <1>2, <1>3 DEF files
<1>4. CASE CreateLease(th) \/ HeartbeatWrite(th) \/ InterruptLease(th) \/ ReclaimWrite(th)
  BY <1>2, <1>4, CreateLeaseEffect, HeartbeatWriteEffect, InterruptLeaseEffect, ReclaimWriteEffect
<1>5. CASE CreateStatus(th) \/ ExecuteStart(th)
  <2>1. Empty
    BY <1>5, CreateStatusEffect, ExecuteStartEffect DEF StartInv, StartInvOf, Creating
  <2>2. status'.cursor = 0 /\ status'.state \notin TerminalStates
    BY <1>5, CreateStatusEffect, ExecuteStartEffect DEF TerminalStates
  <2>3. UNCHANGED <<outcomes, attempts, checkpoint, report>>
    BY <1>5, CreateStatusEffect, ExecuteStartEffect
  <2> QED BY <1>1, <2>1, <2>2, <2>3 DEF FilesInv, Empty
<1>6. CASE WriteOutcomes(th)
  <2>1. PICK o \in Outcomes : outcomes' = Append(outcomes, o)
    BY <1>6, WriteOutcomesEffect DEF RowsInvOf, Place, Holding
  <2>2. Len(outcomes') = Len(outcomes) + 1 /\ Len(outcomes) \in Nat
    BY <1>1, <2>1
  <2>3. UNCHANGED <<status, attempts, checkpoint, report>>
    BY <1>6, WriteOutcomesEffect
  <2>4. status.state \notin TerminalStates
    BY <1>6, WriteOutcomesEffect
       DEF CursorsInvOf, Place, Holding, Unsettled, Committing, TerminalStates
  <2>5. \A i \in 1..Len(attempts) : attempts[i] <= Len(outcomes')
    BY <1>1, <2>2 DEF FilesInv
  <2> QED BY <1>1, <2>2, <2>3, <2>4, <2>5 DEF FilesInv
<1>7. CASE WriteAttempts(th)
  <2>1. attempts' = Append(attempts, Len(outcomes))
    BY <1>7, WriteAttemptsEffect DEF RowsInvOf, Place, Holding
  <2>2. \A i \in 1..Len(attempts) : attempts[i] < Len(outcomes)
    BY <1>7, WriteAttemptsEffect DEF RowsInvOf, Place, Holding
  <2>3. UNCHANGED <<status, outcomes, checkpoint, report>>
    BY <1>7, WriteAttemptsEffect
  <2>4. /\ Len(attempts') = Len(attempts) + 1 /\ Len(attempts) \in Nat /\ Len(outcomes) \in Nat
        /\ attempts'[Len(attempts')] = Len(outcomes)
        /\ \A i \in 1..Len(attempts) : attempts'[i] = attempts[i] /\ attempts[i] \in Nat
    BY <1>1, <2>1
  <2>5. \A i \in 1..Len(attempts') : attempts'[i] <= Len(outcomes)
    BY <2>2, <2>4
  <2>6. \A i, j \in 1..Len(attempts') : i < j => attempts'[i] < attempts'[j]
    <3> SUFFICES ASSUME NEW i \in 1..Len(attempts'), NEW j \in 1..Len(attempts'), i < j
                 PROVE  attempts'[i] < attempts'[j]
      OBVIOUS
    <3>1. i \in 1..Len(attempts)
      BY <2>4
    <3>2. CASE j \in 1..Len(attempts)
      BY <2>4, <3>1, <3>2 DEF FilesInv
    <3>3. CASE j = Len(attempts')
      BY <2>2, <2>4, <3>1, <3>3
    <3> QED BY <2>4, <3>2, <3>3
  <2> QED BY <2>3, <2>5, <2>6 DEF FilesInv
<1>8. CASE WriteCheckpoint(th)
  <2>1. rows[th] = outcomes
    BY <1>8, WriteCheckpointEffect DEF RowsInvOf, Place, Holding, Committing
  <2>2. checkpoint' = Len(outcomes) /\ UNCHANGED <<status, outcomes, attempts, report>>
    BY <1>8, <2>1, WriteCheckpointEffect
  <2> QED BY <1>1, <2>2 DEF FilesInv
<1>9. CASE WriteReport(th)
  <2>1. rows[th] = outcomes /\ checkpoint = Len(outcomes)
    BY <1>9, WriteReportEffect DEF RowsInvOf, CursorsInvOf, Place, Holding, Committing
  <2>2. report'.cursor = Len(outcomes) /\ UNCHANGED <<status, outcomes, attempts, checkpoint>>
    BY <1>9, <2>1, WriteReportEffect
  <2> QED BY <1>1, <2>1, <2>2 DEF FilesInv
<1>10. CASE WriteStatus(th)
  <2>1. rows[th] = outcomes /\ report.cursor = Len(outcomes)
    BY <1>10, WriteStatusEffect DEF RowsInvOf, CursorsInvOf, Place, Holding, Committing
  <2>2. StateAfter(outcomes) \in TerminalStates => Len(outcomes) = N
    BY <1>1 DEF StateAfter, TerminalStates, TypeOK, DiskTypeOK
  <2>3. /\ status'.cursor = Len(outcomes) /\ status'.state = StateAfter(outcomes)
        /\ UNCHANGED <<outcomes, attempts, checkpoint, report>>
    BY <1>10, <2>1, WriteStatusEffect
  <2>4. report.cursor = Len(outcomes) /\ status'.cursor <= report'.cursor
    BY <1>1, <2>1, <2>3
  <2> QED BY <1>1, <2>2, <2>3, <2>4 DEF FilesInv
<1>11. CASE HoldWrite(th)
  <2>1. status' = status
    BY <1>11, HoldWriteEffect DEF SeenInvOf
  <2> QED BY <1>2, <1>11, <2>1, HoldWriteEffect
<1>12. CASE InterruptReport(th)
  <2>1. report'.cursor = report.cursor
    BY <1>12, InterruptReportEffect DEF SeenInvOf
  <2> QED BY <1>12, <2>1, InterruptReportEffect DEF FilesInv
<1>13. CASE InterruptStatus(th)
  <2>1. status'.cursor = status.cursor /\ status'.state \notin TerminalStates
    BY <1>13, InterruptStatusEffect DEF SeenInvOf, TerminalStates
  <2> QED BY <1>13, <2>1, InterruptStatusEffect DEF FilesInv
<1>14. CASE FinalizeWrite(th)
  <2>1. seenStatus[th] = status /\ status \in Statuses
    BY <1>14, FinalizeWriteEffect DEF SeenInvOf, TypeOK, DiskTypeOK
  <2>2. rows[th] = outcomes /\ status.state = StateAfter(outcomes)
    BY <1>14, FinalizeWriteEffect
       DEF RowsInvOf, CursorsInvOf, Place, Holding, Loaded, CallInv, CallInvOf, RunPoints
  <2>3. status' = status
    BY <1>14, <2>1, <2>2, FinalizeWriteEffect DEF Statuses
  <2> QED BY <1>2, <1>14, <2>3, FinalizeWriteEffect
<1>15. CASE BlockDrift(th)
  <2>1. seenStatus[th] = status /\ status \in Statuses
    BY <1>15 DEF BlockDrift, At, SeenInvOf, TypeOK, DiskTypeOK
  <2>2. UNCHANGED <<outcomes, attempts, checkpoint, report>>
    BY <1>15 DEF BlockDrift
  <2>3. status' = status \/ (status'.cursor = status.cursor /\ status'.drifted)
    BY <1>15, <2>1 DEF BlockDrift, Statuses
  <2> QED BY <2>2, <2>3 DEF FilesInv
<1>16. CASE Leave(th) \/ CreateRequestFails(th) \/ BindIdempotency(th) \/ Approach(th)
  BY <1>2, <1>16, LeaveReturns
     DEF disk, CreateRequestFails, BindIdempotency, Approach, Invoke, AcquireFlock,
         AcquireRLock, RunAdopt, RunMkdir, CreateRequest
<1> QED
  BY <1>3, <1>4, <1>5, <1>6, <1>7, <1>8, <1>9, <1>10, <1>11, <1>12, <1>13, <1>14, <1>15, <1>16,
     HeartbeatReadEffect, PassFenceEffect, HoldBeforeWriteEffect, ProcessRecordEffect,
     HoldReadEffect, HoldFailsEffect, InterruptReadEffect, RunLoopEndsEffect,
     FinalizeReadEffect, ResumeLoopEndsEffect, ResumeAdmitEffect, ReclaimReadEffect,
     LoadLedgerEffect
     DEF Leave, Approach, Step, Failure, Enter, RunStep, KeyStep, ResumeStep

(* A step away from the run directory leaves it to the others. *)
LEMMA OtherLedger ==
  ASSUME NEW th \in Threads, KeepsOthers(th), NEW t \in Threads \ {th}, SoleExecutor, ~overtaken,
         RowsInvOf(t), CursorsInvOf(t), SeenInvOf(t),
         files' = files \/ pc[th] \in Writing
  PROVE  RowsInvOf(t)' /\ CursorsInvOf(t)' /\ SeenInvOf(t)'
<1>1. CASE files' = files
  <2>1. Place(t)' = Place(t)
    BY DEF KeepsOthers, Place
  <2>2. RowsInvOf(t)'
    BY <1>1, <2>1 DEF files, KeepsOthers, RowsInvOf
  <2>3. CursorsInvOf(t)'
    BY <1>1, <2>1 DEF files, KeepsOthers, CursorsInvOf
  <2>4. SeenInvOf(t)'
    BY <1>1 DEF files, KeepsOthers, SeenInvOf
  <2> QED BY <2>2, <2>3, <2>4
<1>2. CASE pc[th] \in Writing
  <2>1. pc'[t] \notin Executing \cup Creating
    BY <1>2 DEF Writing, SoleExecutor, KeepsOthers
  <2>2. RowsInvOf(t)'
    BY <2>1 DEF RowsInvOf, Place, Holding, Loaded, Committing, Interrupting, Executing
  <2>3. CursorsInvOf(t)'
    BY <2>1 DEF CursorsInvOf, Place, Holding, Loaded, Unsettled, Committing, Interrupting, Executing
  <2>4. SeenInvOf(t)'
    BY <2>1 DEF SeenInvOf, Executing
  <2> QED BY <2>2, <2>3, <2>4
<1> QED BY <1>1, <1>2

(* The ledger invariant holds after every step. *)
LEMMA LedgerStep ==
  ExclusionInv /\ MemoryInv /\ LedgerInv /\ [Next]_vars => LedgerInv'
<1> SUFFICES ASSUME ExclusionInv, MemoryInv, LedgerInv, [Next]_vars, ~overtaken'
             PROVE  /\ FilesInv'
                    /\ \A t \in Threads : RowsInvOf(t)' /\ CursorsInvOf(t)' /\ SeenInvOf(t)'
  BY DEF LedgerInv
<1>1. TypeOK /\ CallInv /\ StartInv /\ SoleExecutor
  BY SoleExecutorFromLayers DEF ExclusionInv
<1>2. ~overtaken
  BY OvertakenStep DEF ResumeAdmit
<1>3. FilesInv /\ \A t \in Threads : RowsInvOf(t) /\ CursorsInvOf(t) /\ SeenInvOf(t)
  BY <1>2 DEF LedgerInv
<1>4. CASE UNCHANGED vars
  BY <1>3, <1>4
     DEF vars, disk, memory, work, seen, FilesInv, RowsInvOf, CursorsInvOf, SeenInvOf, Place
<1>5. ASSUME NEW p \in Processes, Crash(p)
      PROVE  /\ FilesInv'
             /\ \A t \in Threads : RowsInvOf(t)' /\ CursorsInvOf(t)' /\ SeenInvOf(t)'
  <2>1. FilesInv'
    BY <1>3, <1>5 DEF Crash, disk, FilesInv
  <2>2. ASSUME NEW t \in Threads PROVE RowsInvOf(t)' /\ CursorsInvOf(t)' /\ SeenInvOf(t)'
    <3>1. CASE ProcessOf[t] = p
      BY <1>5, <3>1, OutsideLedger DEF Crash
    <3>2. CASE ProcessOf[t] # p
      BY <1>1, <1>3, <1>5, <3>2
         DEF Crash, Forget, disk, TypeOK, MemoryTypeOK, RowsInvOf, CursorsInvOf, SeenInvOf, Place
    <3> QED BY <3>1, <3>2
  <2> QED BY <2>1, <2>2
<1>6. ASSUME NEW th \in Threads, Invoke(th) \/ Step(th) \/ Failure(th)
      PROVE  /\ FilesInv'
             /\ \A t \in Threads : RowsInvOf(t)' /\ CursorsInvOf(t)' /\ SeenInvOf(t)'
  <2>1. FilesInv'
    BY <1>1, <1>3, <1>6, OwnFiles
  <2>2. RowsInvOf(th)' /\ CursorsInvOf(th)' /\ SeenInvOf(th)'
    BY <1>1, <1>3, <1>6, OwnRows, OwnCursors, OwnSeen
  <2>3. ASSUME NEW t \in Threads \ {th} PROVE RowsInvOf(t)' /\ CursorsInvOf(t)' /\ SeenInvOf(t)'
    BY <1>1, <1>2, <1>3, <1>6, OthersKept, WriterExecutes, OtherLedger
  <2> QED BY <2>1, <2>2, <2>3
<1> QED BY <1>4, <1>5, <1>6 DEF Next

(* The directory is created once. *)
LEMMA CreatedStep ==
  TypeOK /\ CallInv /\ StartInv /\ CreatedInv /\ [Next]_vars => CreatedInv'
<1> SUFFICES ASSUME TypeOK, CallInv, StartInv, CreatedInv, [Next]_vars PROVE CreatedInv'
  OBVIOUS
<1> USE DEF CreatedInv
<1>1. CASE UNCHANGED vars
  BY <1>1 DEF vars, disk
<1>2. ASSUME NEW p \in Processes, Crash(p) PROVE CreatedInv'
  BY <1>2 DEF Crash, disk, TypeOK, MemoryTypeOK, Creating
<1>3. ASSUME NEW th \in Threads, Invoke(th) \/ Step(th) \/ Failure(th) PROVE CreatedInv'
  <2> USE DEF KeepsOthers
  <2>1. KeepsOthers(th)
    BY <1>3, OthersKept
  <2>2. CASE Leave(th) \/ BindIdempotency(th) \/ BlockDrift(th)
    <3>1. pc'[th] = "idle" /\ made' = made /\ (status' = status \/ BlockDrift(th))
      BY <2>2, LeaveReturns, ReturnOthers DEF disk, BindIdempotency, BlockDrift, TypeOK
    <3>2. BlockDrift(th) => Started
      BY DEF BlockDrift, At, StartInv, StartInvOf, Executing
    <3>3. Started => made # "none" /\ \A t \in Threads : pc[t] \notin Creating \cup {"start"}
      BY DEF StartInv, StartInvOf
    <3> QED BY <2>1, <3>1, <3>2, <3>3 DEF Creating
  <2>3. CASE CreateRequestFails(th)
    <3>1. pc'[th] = "idle" /\ made' = "none" /\ status' = status /\ status.state = "absent"
      <4>1. pc[th] = "createRequest" /\ Return(th) /\ made' = "none" /\ status' = status
        BY <2>3 DEF CreateRequestFails, At
      <4>2. pc'[th] = "idle"
        BY <4>1, ReturnOthers DEF TypeOK
      <4>3. pc[th] \in Creating
        BY <4>1 DEF Creating
      <4> QED BY <4>1, <4>2, <4>3
    <3>2. \A t \in Threads \ {th} : pc[t] \notin Creating \cup {"start"}
      BY <2>3, OneCreator DEF CreateRequestFails, At, Creating
    <3> QED BY <2>1, <3>1, <3>2 DEF Creating
  <2>4. CASE Approach(th)
    <3>1. status' = status /\ (made' = "none" => made = "none")
      BY <2>4
         DEF Approach, Invoke, AcquireFlock, AcquireRLock, RunAdopt, RunMkdir, CreateRequest, disk
    <3>2. /\ pc'[th] # "start"
          /\ pc'[th] \in Creating => made = "none" \/ pc[th] \in Creating
      BY <2>4
         DEF Approach, Invoke, AcquireFlock, AcquireRLock, RunAdopt, RunMkdir, CreateRequest,
             At, Goto, TypeOK, MemoryTypeOK, Creating
    <3> QED BY <2>1, <3>1, <3>2
  <2>5. CASE CreateLease(th) \/ CreateStatus(th) \/ ExecuteStart(th)
    <3>1. \A t \in Threads \ {th} : pc[t] \notin Creating \cup {"start"}
      BY <2>5, OneCreator DEF CreateLease, CreateStatus, ExecuteStart, At, Creating
    <3>2. made' = made /\ made # "none"
      BY <2>5 DEF CreateLease, CreateStatus, ExecuteStart, At, StartInv, StartInvOf, Creating
    <3> QED BY <2>1, <2>5, <3>1, <3>2, CreateLeaseEffect, CreateStatusEffect, ExecuteStartEffect
          DEF Creating
  <2>6. CASE ResumeAdmit(th)
    <3>1. status' = status /\ made' = made
      BY <2>6 DEF ResumeAdmit, disk
    <3>2. pc'[th] \notin Creating \cup {"start"}
      BY <2>6, ResumeAdmitEffect DEF Creating
    <3> QED BY <2>1, <3>1, <3>2 DEF Creating
  <2>7. ASSUME pc[th] \in Executing \ {"start"}, made' = made,
               pc'[th] \notin Creating \cup {"start"}
        PROVE  CreatedInv'
    <3>1. Started
      BY <2>7 DEF StartInv, StartInvOf
    <3>2. made # "none" /\ \A t \in Threads : pc[t] \notin Creating \cup {"start"}
      BY <3>1 DEF StartInv, StartInvOf
    <3> QED BY <2>1, <2>7, <3>2
  <2>8. CASE HeartbeatRead(th) \/ HeartbeatWrite(th) \/ PassFence(th) \/ HoldBeforeWrite(th)
              \/ HoldRead(th) \/ HoldWrite(th) \/ HoldFails(th)
    BY <2>7, <2>8, HeartbeatReadEffect, HeartbeatWriteEffect, PassFenceEffect,
       HoldBeforeWriteEffect, HoldReadEffect, HoldWriteEffect, HoldFailsEffect
       DEF HeartbeatRead, HeartbeatWrite, PassFence, HoldBeforeWrite, HoldRead, HoldWrite,
           HoldFails, disk, AfterBeat, Executing, Creating
  <2>9. CASE ProcessRecord(th) \/ WriteOutcomes(th) \/ WriteAttempts(th) \/ WriteCheckpoint(th)
              \/ WriteReport(th) \/ WriteStatus(th)
    BY <2>7, <2>9, ProcessRecordEffect, WriteOutcomesEffect, WriteAttemptsEffect,
       WriteCheckpointEffect, WriteReportEffect, WriteStatusEffect
       DEF ProcessRecord, WriteOutcomes, WriteAttempts, WriteCheckpoint, WriteReport,
           WriteStatus, disk, Executing, Creating
  <2>10. CASE InterruptLease(th) \/ InterruptRead(th) \/ InterruptReport(th) \/ InterruptStatus(th)
    BY <2>7, <2>10, InterruptLeaseEffect, InterruptReadEffect, InterruptReportEffect,
       InterruptStatusEffect
       DEF InterruptLease, InterruptRead, InterruptReport, InterruptStatus, disk, Executing,
           Creating
  <2>11. CASE RunLoopEnds(th) \/ FinalizeRead(th) \/ FinalizeWrite(th) \/ ResumeLoopEnds(th)
    BY <2>7, <2>11, RunLoopEndsEffect, FinalizeReadEffect, FinalizeWriteEffect,
       ResumeLoopEndsEffect
       DEF RunLoopEnds, FinalizeRead, FinalizeWrite, ResumeLoopEnds, disk, Executing, Creating
  <2>12. CASE ReclaimRead(th) \/ ReclaimWrite(th) \/ LoadLedger(th)
    BY <2>7, <2>12, ReclaimReadEffect, ReclaimWriteEffect, LoadLedgerEffect
       DEF ReclaimRead, ReclaimWrite, LoadLedger, disk, Executing, Creating
  <2> QED
    BY <1>3, <2>2, <2>3, <2>4, <2>5, <2>6, <2>8, <2>9, <2>10, <2>11, <2>12
       DEF Leave, Approach, Step, Failure, Enter, RunStep, KeyStep, ResumeStep
<1> QED BY <1>1, <1>2, <1>3 DEF Next

-----------------------------------------------------------------------------
(* Theorems about the files. *)

DriverInv == ExclusionInv /\ MemoryInv /\ CreatedInv /\ LedgerInv

(* All layers hold in every reachable state, for any number of threads,      *)
(* processes, keys, calls and failures.                                      *)
THEOREM LedgerHolds == Spec => []DriverInv
<1>1. Init => MemoryInv /\ CreatedInv /\ LedgerInv
  <2> SUFFICES ASSUME Init PROVE MemoryInv /\ CreatedInv /\ LedgerInv
    OBVIOUS
  <2>1. MemoryInv
    BY DEF Init, MemoryInv, MemoryInvOf, Place, Holding, Interrupting, Committing, NoLease,
           NoCall, NoReport
  <2>2. CreatedInv
    BY DEF Init, CreatedInv, NoStatus, Creating
  <2>3. FilesInv
    BY DEF Init, FilesInv, NoStatus, NoReport, TerminalStates
  <2>4. \A th \in Threads : RowsInvOf(th) /\ CursorsInvOf(th) /\ SeenInvOf(th)
    BY DEF Init, RowsInvOf, CursorsInvOf, SeenInvOf, Place, Holding, Loaded, Unsettled,
           Committing, Interrupting
  <2> QED BY <2>1, <2>2, <2>3, <2>4 DEF LedgerInv
<1>2. DriverInv /\ [Next]_vars => MemoryInv' /\ CreatedInv' /\ LedgerInv'
  BY MemoryStep, CreatedStep, LedgerStep DEF DriverInv, ExclusionInv
<1> QED BY <1>1, <1>2, ExclusionHolds, PTL DEF Spec, DriverInv

(* Whatever write a crash or a persistence fault stops at, no file of the    *)
(* commit sequence is ahead of one written before it.                        *)
THEOREM CommitsInOrder == Spec => []CommitOrder
<1>1. DriverInv => CommitOrder
  BY DEF DriverInv, LedgerInv, FilesInv, CommitOrder
<1> QED BY <1>1, LedgerHolds, PTL

(* A run closed by its outcomes is whole: every file has its last revision   *)
(* and the state is the one its outcomes call for.                           *)
THEOREM ClosedIsWhole == Spec => []ClosedRunIsCovered
<1>1. DriverInv => ClosedRunIsCovered
  <2> SUFFICES ASSUME DriverInv, ~overtaken, status.state \in TerminalStates, ~status.drifted
               PROVE  /\ Len(outcomes) = N /\ status.cursor = N /\ checkpoint = N
                      /\ status.state = "blocked" <=> \E i \in 1..N : outcomes[i] = "retryable"
                      /\ report.cursor = N
    BY DEF ClosedRunIsCovered
  <2>1. FilesInv /\ TypeOK
    BY DEF DriverInv, LedgerInv, ExclusionInv
  <2>2. Len(outcomes) = N /\ status.cursor = N /\ status.state = StateAfter(outcomes)
    BY <2>1 DEF FilesInv
  <2>3. checkpoint = N /\ report.cursor = N
    BY <2>1, <2>2, StatusCursor, ConstantsAssumption DEF FilesInv
  <2>4. status.state = "blocked" <=> \E i \in 1..N : outcomes[i] = "retryable"
    BY <2>2, ConstantsAssumption DEF StateAfter
  <2> QED BY <2>2, <2>3, <2>4
<1> QED BY <1>1, LedgerHolds, PTL

(* However often a run is cut and resumed, a key gets one attempt row.       *)
THEOREM OneRowPerKey == Spec => []OneAttemptRowPerKey
<1>1. DriverInv => OneAttemptRowPerKey
  BY DEF DriverInv, LedgerInv, FilesInv, OneAttemptRowPerKey
<1> QED BY <1>1, LedgerHolds, PTL

(* A key bound to the run finds a started run with a report, even where a    *)
(* resume has overtaken the run.                                             *)
THEOREM BoundKeysLoad == Spec => []BoundKeyLoads
<1>1. DriverInv => BoundKeyLoads
  BY DEF DriverInv, ExclusionInv, MemoryInv, StartInv, Started, Empty, BoundKeyLoads
<1> QED BY <1>1, LedgerHolds, PTL

-----------------------------------------------------------------------------
(* Theorems about what a step may do. *)

(* The ways a step can move the published status of a run that nobody has    *)
(* overtaken.                                                                *)
Creates   == status.state = "absent" /\ status' = [state |-> "created", cursor |-> 0, drifted |-> FALSE]
Starts    == status.state = "created" /\ status' = [state |-> "running", cursor |-> 0, drifted |-> FALSE]
Open      == status.state \in {"running", "interrupted"}
Publishes == /\ Open /\ status.cursor < Len(outcomes)
             /\ status' = [state |-> StateAfter(outcomes), cursor |-> Len(outcomes),
                           drifted |-> FALSE]
Cuts      == \E th \in Threads :
               /\ At(th, "intStatus") /\ Len(outcomes) = call[th].interrupt
               /\ status.state = StateAfter(outcomes)
               /\ status' = [status EXCEPT !.state = "interrupted"]
Drifts    == Open /\ status' = [status EXCEPT !.state = "blocked", !.drifted = TRUE]

(* The commit sequence adds one outcome, lifts the cursors to it and leaves  *)
(* everything else as it was; the lease generation only grows.               *)
LEMMA FilesMove ==
  ASSUME DriverInv, [Next]_vars, ~overtaken'
  PROVE  /\ outcomes' = outcomes
              \/ (status' = status /\ \E o \in Outcomes : outcomes' = Append(outcomes, o))
         /\ checkpoint' \in {checkpoint, Len(outcomes)}
         /\ report'.cursor \in {report.cursor, Len(outcomes)}
         /\ lease'.gen >= lease.gen
         /\ status' = status \/ Creates \/ Starts \/ Publishes \/ Cuts \/ Drifts
<1> DEFINE Moves ==
         /\ outcomes' = outcomes
              \/ (status' = status /\ \E o \in Outcomes : outcomes' = Append(outcomes, o))
         /\ checkpoint' \in {checkpoint, Len(outcomes)}
         /\ report'.cursor \in {report.cursor, Len(outcomes)}
         /\ lease'.gen >= lease.gen
         /\ status' = status \/ Creates \/ Starts \/ Publishes \/ Cuts \/ Drifts
<1>1. /\ TypeOK /\ CallInv /\ StartInv /\ MemoryInv /\ CreatedInv /\ FilesInv
      /\ \A t \in Threads : RowsInvOf(t) /\ CursorsInvOf(t) /\ SeenInvOf(t)
      /\ lease.gen \in Nat
  BY OvertakenStep, StatusCursor DEF ResumeAdmit, DriverInv, ExclusionInv, LedgerInv
<1>2. ASSUME files' = files PROVE Moves
  BY <1>1, <1>2 DEF files
<1>3. ASSUME UNCHANGED vars \/ \E p \in Processes : Crash(p) PROVE Moves
  BY <1>2, <1>3 DEF vars, Crash, disk, files
<1>4. ASSUME NEW th \in Threads, Invoke(th) \/ Step(th) \/ Failure(th) PROVE Moves
  <2> USE DEF Place, Holding, Committing
  <2>1. /\ RowsInvOf(th) /\ CursorsInvOf(th) /\ SeenInvOf(th) /\ MemoryInvOf(th)
        /\ status \in Statuses
    BY <1>1 DEF MemoryInv, TypeOK, DiskTypeOK
  <2>2. CASE CreateLease(th)
    <3>1. lease.gen <= 1
      BY <1>1, <2>2, CreateLeaseEffect DEF StartInv, StartInvOf, Creating, MemoryInv
    <3> QED BY <1>1, <2>2, <3>1, CreateLeaseEffect
  <2>3. CASE HeartbeatWrite(th)
    BY <1>1, <2>1, <2>3, HeartbeatWriteEffect DEF SeenInvOf
  <2>4. CASE InterruptLease(th)
    BY <1>1, <2>1, <2>4, InterruptLeaseEffect DEF SeenInvOf
  <2>5. CASE ReclaimWrite(th)
    BY <1>1, <2>1, <2>5, ReclaimWriteEffect, GenIsNat DEF SeenInvOf
  <2>6. CASE CreateStatus(th)
    <3>1. Creates
      <4>1. pc[th] \in Creating
        BY <2>6 DEF CreateStatus, At, Creating
      <4>2. status.state = "absent"
        BY <1>1, <4>1 DEF CreatedInv
      <4> QED BY <2>6, <4>2 DEF CreateStatus, Creates
    <3> QED BY <1>1, <2>6, <3>1, CreateStatusEffect
  <2>7. CASE ExecuteStart(th)
    <3>1. Starts
      <4>1. status.state = "created"
        BY <1>1, <2>7 DEF ExecuteStart, At, CreatedInv
      <4> QED BY <2>7, <4>1 DEF ExecuteStart, Starts
    <3> QED BY <1>1, <2>7, <3>1, ExecuteStartEffect
  <2>8. CASE WriteOutcomes(th)
    BY <1>1, <2>1, <2>8, WriteOutcomesEffect DEF RowsInvOf
  <2>9. CASE WriteAttempts(th)
    BY <1>1, <2>9, WriteAttemptsEffect
  <2>10. CASE WriteCheckpoint(th)
    BY <1>1, <2>1, <2>10, WriteCheckpointEffect DEF RowsInvOf
  <2>11. CASE WriteReport(th)
    BY <1>1, <2>1, <2>11, WriteReportEffect DEF RowsInvOf
  <2>12. CASE WriteStatus(th)
    <3>1. rows[th] = outcomes /\ status.cursor < Len(outcomes) /\ Open
      BY <1>1, <2>1, <2>12, WriteStatusEffect DEF RowsInvOf, CursorsInvOf, Unsettled, Open
    <3>2. Publishes
      BY <2>12, <3>1 DEF WriteStatus, Publishes
    <3> QED BY <1>1, <2>12, <3>2, WriteStatusEffect
  <2>13. CASE HoldWrite(th)
    BY <1>1, <2>1, <2>13, HoldWriteEffect DEF SeenInvOf
  <2>14. CASE InterruptReport(th)
    BY <1>1, <2>1, <2>14, InterruptReportEffect DEF SeenInvOf
  <2>15. CASE InterruptStatus(th)
    <3>1. At(th, "intStatus") /\ call[th].op = "run" /\ rows[th] = outcomes
      BY <1>1, <2>1, <2>15
         DEF InterruptStatus, At, CallInv, CallInvOf, RunPoints, RowsInvOf, Loaded, Interrupting
    <3>2. Len(outcomes) = call[th].interrupt /\ status.state = StateAfter(outcomes)
      BY <2>1, <3>1 DEF At, MemoryInvOf, CursorsInvOf, Interrupting, Loaded
    <3>3. status' = [status EXCEPT !.state = "interrupted"]
      BY <2>1, <2>15 DEF InterruptStatus, At, SeenInvOf
    <3>4. Cuts
      BY <3>1, <3>2, <3>3 DEF Cuts
    <3> QED BY <1>1, <2>15, <3>4, InterruptStatusEffect
  <2>16. CASE FinalizeWrite(th)
    <3>1. rows[th] = outcomes /\ status.state = StateAfter(outcomes) /\ seenStatus[th] = status
      BY <1>1, <2>1, <2>16, FinalizeWriteEffect
         DEF CallInv, CallInvOf, RunPoints, RowsInvOf, CursorsInvOf, SeenInvOf, Loaded
    <3>2. status' = [status EXCEPT !.state = status.state]
      BY <1>1, <2>16, <3>1, FinalizeWriteEffect
    <3>3. status' = status
      BY <2>1, <3>2 DEF Statuses
    <3> QED BY <1>1, <2>16, <3>3, FinalizeWriteEffect
  <2>17. CASE BlockDrift(th)
    <3>1. seenStatus[th] = status /\ Open
      BY <2>1, <2>17 DEF BlockDrift, At, SeenInvOf, CursorsInvOf, Unsettled, Open
    <3>2. status' = status \/ Drifts
      BY <2>17, <3>1 DEF BlockDrift, Drifts
    <3>3. UNCHANGED <<lease, outcomes, checkpoint, report>>
      BY <2>17 DEF BlockDrift
    <3> QED BY <1>1, <3>2, <3>3
  <2>18. CASE Leave(th) \/ CreateRequestFails(th) \/ BindIdempotency(th) \/ Approach(th)
    BY <1>2, <2>18, LeaveReturns
       DEF disk, files, CreateRequestFails, BindIdempotency, Approach, Invoke, AcquireFlock,
           AcquireRLock, RunAdopt, RunMkdir, CreateRequest
  <2>19. CASE files' = files
    BY <1>2, <2>19
  <2> HIDE DEF Moves
  <2> QED
    BY <1>1, <1>4, <2>2, <2>3, <2>4, <2>5, <2>6, <2>7, <2>8, <2>9, <2>10, <2>11, <2>12,
       <2>13, <2>14, <2>15, <2>16, <2>17, <2>18, <2>19,
       HeartbeatReadEffect, PassFenceEffect, HoldBeforeWriteEffect, ProcessRecordEffect,
       HoldReadEffect, HoldFailsEffect, InterruptReadEffect, RunLoopEndsEffect,
       FinalizeReadEffect, ResumeLoopEndsEffect, ResumeAdmitEffect, ReclaimReadEffect,
       LoadLedgerEffect
       DEF Leave, Approach, Step, Failure, Enter, RunStep, KeyStep, ResumeStep
<1> HIDE DEF Moves
<1>5. Moves
  BY <1>3, <1>4 DEF Next
<1> QED BY <1>5 DEF Moves

(* Rows of outcomes.json are never changed or removed once written. *)
THEOREM LedgerGrows == Spec => LedgerOnlyGrows
<1>1. ASSUME DriverInv, [Next]_vars, ~overtaken'
      PROVE  /\ Len(outcomes) <= Len(outcomes')
             /\ \A i \in 1..Len(outcomes) : outcomes'[i] = outcomes[i]
  <2>1. outcomes \in Seq(Outcomes)
    BY <1>1 DEF DriverInv, ExclusionInv, TypeOK, DiskTypeOK
  <2>2. outcomes' = outcomes \/ \E o \in Outcomes : outcomes' = Append(outcomes, o)
    BY <1>1, FilesMove
  <2> QED BY <2>1, <2>2
<1>2. DriverInv /\ [Next]_vars =>
        [~overtaken' => /\ Len(outcomes) <= Len(outcomes')
                        /\ \A i \in 1..Len(outcomes) : outcomes'[i] = outcomes[i]]_vars
  BY <1>1
<1> QED BY <1>2, LedgerHolds, PTL DEF Spec, LedgerOnlyGrows

(* Over any number of failures and resumes no cursor and no lease generation *)
(* goes back.                                                                *)
THEOREM NothingRegresses == Spec => NoRegression
<1>1. ASSUME DriverInv, [Next]_vars, ~overtaken'
      PROVE  /\ status'.cursor >= status.cursor /\ checkpoint' >= checkpoint
             /\ report'.cursor >= report.cursor /\ lease'.gen >= lease.gen
  <2>1. /\ status.cursor \in Nat /\ report.cursor \in Nat /\ checkpoint \in Nat
        /\ Len(outcomes) \in Nat /\ status \in Statuses
    BY <1>1, StatusCursor DEF DriverInv, ExclusionInv, TypeOK, DiskTypeOK
  <2>2. FilesInv /\ StartInv
    BY <1>1, OvertakenStep DEF ResumeAdmit, DriverInv, ExclusionInv, LedgerInv
  <2>3. checkpoint' >= checkpoint /\ report'.cursor >= report.cursor /\ lease'.gen >= lease.gen
    BY <1>1, <2>1, <2>2, FilesMove DEF FilesInv
  <2>4. status' = status \/ Creates \/ Starts \/ Publishes \/ Cuts \/ Drifts
    BY <1>1, FilesMove
  <2>5. status'.cursor >= status.cursor
    <3>1. CASE Creates \/ Starts
      BY <2>1, <2>2, <3>1 DEF Creates, Starts, StartInv, Started, Empty
    <3>2. CASE Publishes
      BY <2>1, <3>2 DEF Publishes
    <3>3. CASE Cuts \/ Drifts
      <4>1. status'.cursor = status.cursor
        BY <2>1, <3>3 DEF Cuts, Drifts, Statuses
      <4> QED BY <2>1, <4>1
    <3> QED BY <2>1, <2>4, <3>1, <3>2, <3>3
  <2> QED BY <2>3, <2>5
<1>2. DriverInv /\ [Next]_vars =>
        [~overtaken' => /\ status'.cursor >= status.cursor
                        /\ checkpoint' >= checkpoint
                        /\ report'.cursor >= report.cursor
                        /\ lease'.gen >= lease.gen]_vars
  BY <1>1
<1> QED BY <1>2, LedgerHolds, PTL DEF Spec, NoRegression

(* Whatever is called after a run is closed, its status stays as it is.      *)
THEOREM ClosedIsFinal == Spec => ClosedStaysClosed
<1>1. ASSUME DriverInv, [Next]_vars, ~overtaken', status.state \in TerminalStates
      PROVE  \/ status' = status
             \/ \E th \in Threads :
                  InterruptsLastKey(th) /\ status' = [status EXCEPT !.state = "interrupted"]
  <2>1. status' = status \/ Cuts
    BY <1>1, FilesMove DEF Creates, Starts, Publishes, Open, Drifts, TerminalStates
  <2>2. StateAfter(outcomes) \in TerminalStates => Len(outcomes) = N
    BY <1>1, ConstantsAssumption
       DEF StateAfter, TerminalStates, DriverInv, ExclusionInv, TypeOK, DiskTypeOK
  <2> QED BY <1>1, <2>1, <2>2 DEF Cuts, InterruptsLastKey
<1>2. DriverInv /\ [Next]_vars =>
        [~overtaken' /\ status.state \in TerminalStates
           => \/ status' = status
              \/ \E th \in Threads :
                   InterruptsLastKey(th) /\ status' = [status EXCEPT !.state = "interrupted"]]_vars
  BY <1>1
<1> QED BY <1>2, LedgerHolds, PTL DEF Spec, ClosedStaysClosed

(* The key taken up next is the first one without a durable outcome.         *)
THEOREM NothingReprocessed == Spec => CommittedNotReprocessed
<1>1. ASSUME DriverInv, [Next]_vars, ~overtaken', NEW th \in Threads, ProcessRecord(th)
      PROVE  Len(rows[th]) = Len(outcomes)
  <2>1. TypeOK /\ CallInv /\ RowsInvOf(th)
    BY <1>1, OvertakenStep DEF ResumeAdmit, DriverInv, ExclusionInv, LedgerInv
  <2> QED BY <1>1, <2>1, ProcessRecordEffect DEF RowsInvOf, Place, Holding, Loaded
<1>2. DriverInv /\ [Next]_vars =>
        [\A th \in Threads :
           ProcessRecord(th) /\ ~overtaken' => Len(rows[th]) = Len(outcomes)]_vars
  BY <1>1
<1> QED BY <1>2, LedgerHolds, PTL DEF Spec, CommittedNotReprocessed

-----------------------------------------------------------------------------
(* The published ledger. *)

(* The rows below a cursor do not change when rows are added above it. *)
LEMMA PrefixKept ==
  ASSUME NEW S, NEW seq \in Seq(S), NEW e \in S, NEW n \in 0..Len(seq)
  PROVE  SubSeq(Append(seq, e), 1, n) = SubSeq(seq, 1, n)
OBVIOUS

(* The rows below the last one are all of them, and those below none are none. *)
LEMMA PrefixEnds ==
  ASSUME NEW S, NEW seq \in Seq(S)
  PROVE  SubSeq(seq, 1, Len(seq)) = seq /\ SubSeq(seq, 1, 0) = <<>>
OBVIOUS

(* A call that is not to stop at the last key leaves a closed run closed. *)
LEMMA CutsAnOpenRun ==
  ASSUME DriverInv, N \notin InterruptPoints, Cuts
  PROVE  status.state = "running" /\ status' = [status EXCEPT !.state = "interrupted"]
<1>1. PICK th \in Threads :
        /\ At(th, "intStatus") /\ Len(outcomes) = call[th].interrupt
        /\ status.state = StateAfter(outcomes)
        /\ status' = [status EXCEPT !.state = "interrupted"]
  BY DEF Cuts
<1>2. call[th] \in Calls /\ call[th].op = "run"
  BY <1>1 DEF At, DriverInv, ExclusionInv, CallInv, CallInvOf, RunPoints
<1>3. call[th].interrupt \in InterruptPoints
  BY <1>2 DEF Calls, RunCalls, ResumeCalls
<1>4. Len(outcomes) < N
  BY <1>1, <1>3, ConstantsAssumption DEF DriverInv, ExclusionInv, TypeOK, DiskTypeOK
<1> QED BY <1>1, <1>4 DEF StateAfter

(* Every step of a run nobody has overtaken is a step of the abstract ledger *)
(* or leaves it as it is.                                                    *)
LEMMA LedgerSimulated ==
  ASSUME DriverInv, [Next]_vars, ~overtaken', N \notin InterruptPoints
  PROVE  [Ledger!Next]_(Ledger!ledger)
<1> DEFINE committed == SubSeq(outcomes, 1, status.cursor)
<1>1. /\ outcomes \in Seq(Outcomes) /\ Len(outcomes) \in 0..N /\ N \in Nat \ {0}
      /\ status \in Statuses /\ status.cursor \in 0..Len(outcomes)
  <2>1. TypeOK /\ FilesInv
    BY OvertakenStep DEF ResumeAdmit, DriverInv, ExclusionInv, LedgerInv
  <2> QED BY <2>1, StatusCursor, ConstantsAssumption DEF TypeOK, DiskTypeOK, FilesInv
<1>2. CASE status' = status
  <2>1. committed' = committed
    <3>1. outcomes' = outcomes \/ \E o \in Outcomes : outcomes' = Append(outcomes, o)
      BY FilesMove
    <3>2. ASSUME NEW o \in Outcomes, outcomes' = Append(outcomes, o)
          PROVE  SubSeq(outcomes', 1, status.cursor) = SubSeq(outcomes, 1, status.cursor)
      BY <1>1, <3>2, PrefixKept
    <3> QED BY <1>2, <3>1, <3>2
  <2> QED BY <1>2, <2>1 DEF Ledger!ledger
<1>3. CASE outcomes' = outcomes /\ (Creates \/ Starts)
  <2>1. status.cursor = 0 /\ status'.cursor = 0
    BY <1>3 DEF Creates, Starts, DriverInv, ExclusionInv, StartInv, Started, Empty
  <2>2. committed' = committed
    BY <1>3, <2>1
  <2>3. CASE Creates
    BY <2>2, <2>3 DEF Creates, Ledger!Next, Ledger!Create
  <2>4. CASE Starts
    BY <2>2, <2>4 DEF Starts, Ledger!Next, Ledger!Start
  <2> QED BY <1>3, <2>3, <2>4
<1>4. CASE outcomes' = outcomes /\ Publishes
  <2>1. committed' = outcomes /\ status'.state = StateAfter(outcomes)
    BY <1>1, <1>4, PrefixEnds DEF Publishes
  <2>2. Len(committed) = status.cursor /\ \A i \in 1..Len(committed) : outcomes[i] = committed[i]
    BY <1>1
  <2>3. Ledger!Extends(outcomes, committed)
    BY <1>1, <1>4, <2>2 DEF Publishes, Ledger!Extends
  <2>4. StateAfter(outcomes) = Ledger!Closing(outcomes)
    BY DEF StateAfter, Ledger!Closing
  <2>5. Len(outcomes) \in 1..N /\ outcomes \in [1..Len(outcomes) -> Outcomes]
    BY <1>1, <1>4 DEF Publishes
  <2>6. status.state \in {"running", "interrupted"}
    BY <1>4 DEF Publishes, Open
  <2>7. Ledger!Commit
    BY <2>1, <2>3, <2>4, <2>5, <2>6 DEF Ledger!Commit
  <2> QED BY <2>7 DEF Ledger!Next
<1>5. CASE outcomes' = outcomes /\ Cuts
  <2>1. status.state = "running" /\ status' = [status EXCEPT !.state = "interrupted"]
    BY <1>5, CutsAnOpenRun
  <2>2. status'.state = "interrupted" /\ status'.cursor = status.cursor
    BY <1>1, <2>1 DEF Statuses
  <2> QED BY <1>5, <2>1, <2>2 DEF Ledger!Next, Ledger!Interrupt
<1>6. CASE outcomes' = outcomes /\ Drifts
  <2>1. status'.state = "blocked" /\ status'.cursor = status.cursor
    BY <1>1, <1>6 DEF Drifts, Statuses
  <2> QED BY <1>6, <2>1 DEF Drifts, Open, Ledger!Next, Ledger!BlockOnDrift
<1> QED BY <1>2, <1>3, <1>4, <1>5, <1>6, FilesMove

(* With every caller in one process, and none that stops at the very last    *)
(* key, the cursor of status.json and the rows below it implement the        *)
(* abstract ledger, over any number of failures and resumes.                 *)
THEOREM DriverImplementsLedger ==
  SingleProcess /\ N \notin InterruptPoints => (Spec => ImplementsLedger)
<1> SUFFICES ASSUME SingleProcess, N \notin InterruptPoints
             PROVE  Spec => ImplementsLedger
  OBVIOUS
<1>1. Init => Ledger!Init
  BY DEF Init, NoStatus, Ledger!Init
<1>2. DriverInv /\ NeverOvertaken' /\ [Next]_vars => [Ledger!Next]_(Ledger!ledger)
  BY LedgerSimulated DEF NeverOvertaken
<1> QED
  BY <1>1, <1>2, LedgerHolds, OneProcessIsSafe, PTL DEF Spec, ImplementsLedger, Ledger!Spec
=============================================================================
