---------------------------- MODULE PipelineProofs ----------------------------
(***************************************************************************)
(* Proofs about record processing, the review store and the evaluation of  *)
(* runs, for any number of runs, keys, reviewers and evaluators and any    *)
(* catalog, with crashes between any two writes:                           *)
(*   TypesAreKept          what every document and store may hold            *)
(*   PublishedIsWhole      a candidate covers the final rows of its run    *)
(*   RowsAreExplained      an accepted row is explained by what is on disk *)
(*   DecidedOncePerKey     no idempotency key decides a review twice       *)
(*   BlockedRowsAreQueued  a blocked row has its review (one process)      *)
(*   DecisionsAreKept      nothing decided is lost (one process, reviewer) *)
(***************************************************************************)
EXTENDS PipelineProperties, StableSortProofs, FiniteSetTheorems, WellFoundedInduction, TLAPS

-----------------------------------------------------------------------------
(* Sequences of rows. *)

IsRows(s)    == \E S : s \in Seq(S)
Begins(s, t) == Len(s) <= Len(t) /\ \A i \in 1..Len(s) : s[i] = t[i]

LEMMA EmptyRows == IsRows(<<>>) /\ Len(<<>>) = 0
BY DEF IsRows

LEMMA AppendRows ==
  ASSUME NEW s, IsRows(s), NEW row
  PROVE  /\ IsRows(Append(s, row)) /\ Len(Append(s, row)) = Len(s) + 1
         /\ Len(s) \in Nat
         /\ \A i \in 1..Len(s) : Append(s, row)[i] = s[i]
<1>1. PICK S : s \in Seq(S)
  BY DEF IsRows
<1>2. s \in Seq(S \cup {row})
  BY <1>1
<1>3. /\ Append(s, row) \in Seq(S \cup {row}) /\ Len(Append(s, row)) = Len(s) + 1
      /\ \A i \in 1..Len(s) : Append(s, row)[i] = s[i]
  BY <1>2
<1>4. IsRows(Append(s, row))
  BY <1>3 DEF IsRows
<1> QED BY <1>1, <1>3, <1>4

LEMMA RowsLen ==
  ASSUME NEW s, IsRows(s)
  PROVE  Len(s) \in Nat
BY DEF IsRows

(* A sequence that begins another and is as long is the same. *)
LEMMA WholeBeginning ==
  ASSUME NEW s, NEW t, IsRows(s), IsRows(t), Begins(s, t), Len(s) = Len(t)
  PROVE  s = t
<1>1. s = [i \in 1..Len(s) |-> s[i]] /\ t = [i \in 1..Len(t) |-> t[i]]
  BY DEF IsRows
<1> QED BY <1>1 DEF Begins

-----------------------------------------------------------------------------
(* The invariant. *)

Working == {"observe", "putRaw", "putObservation", "canonical", "parsed", "review",
            "newReview", "putReview", "outcomes"}

(* The documents of a run are what they are read as. *)
RecordsOK ==
  /\ DOMAIN ledger = Runs /\ DOMAIN pc = Runs
  /\ \A r \in Runs :
       /\ DOMAIN ledger[r] = {"rows", "attempts", "checkpoint", "report", "status"}
       /\ DOMAIN ledger[r].report = {"rev", "state"}
       /\ DOMAIN ledger[r].status = {"rev", "state"}
       /\ IsRows(ledger[r].rows)

(* A run that was made is never unmade, works on a key only while one is     *)
(* left, and is called completed only after its last row.                    *)
LedgerInvOf(r) ==
  /\ Done(r) <= N(r)
  /\ pc[r] \in Working => Done(r) < N(r)
  /\ pc[r] # "idle" => ledger[r].status.state # "absent"
  /\ ledger[r].status.state = "absent" => Done(r) = 0
  /\ ledger[r].status.state = "completed" =>
       Done(r) = N(r) /\ StateAfter(r, ledger[r].rows) = "completed"
LedgerInv == \A r \in Runs : LedgerInvOf(r)

(* Rows that a candidate of a run may hold. *)
Whole(r, seq) ==
  /\ r \in FixedRuns
  /\ ledger[r].status.state = "completed"
  /\ seq = ledger[r].rows /\ Done(r) = N(r)

AfterRows   == {"attempts", "status", "reviews", "judge"}
AfterStatus == {"reviews", "judge"}
Publishing  == {"stage", "candidate", "evaluation"}

(* What an evaluation has read is how the run's documents began.             *)
EvalInvOf(e) ==
  /\ eval[e].at \in {"idle", "checkpoint", "outcomes"} \cup AfterRows \cup Publishing
  /\ eval[e].at # "idle" =>
       /\ eval[e].run \in Runs
       /\ DOMAIN eval[e] = {"at", "run", "approved", "report", "checkpoint", "rows",
                            "attempts", "status", "reviews"}
  /\ eval[e].at \in AfterRows =>
       IsRows(eval[e].rows) /\ Begins(eval[e].rows, ledger[eval[e].run].rows)
  /\ eval[e].at \in AfterStatus =>
       (eval[e].status.state = "completed" => ledger[eval[e].run].status.state = "completed")
  /\ eval[e].at \in Publishing => Whole(eval[e].run, eval[e].rows)
EvalInv == DOMAIN eval = Evaluators /\ \A e \in Evaluators : EvalInvOf(e)

StagedInv ==
  /\ DOMAIN staged = EvaluatorPids
  /\ \A pid \in EvaluatorPids :
       /\ DOMAIN staged[pid] = Runs
       /\ \A r \in Runs :
            /\ DOMAIN staged[pid][r] = {"candidate", "evaluation"}
            /\ staged[pid][r].candidate # NoCandidate =>
                 Whole(r, staged[pid][r].candidate.rows)

CandidateInv ==
  /\ DOMAIN candidate = Runs
  /\ \A r \in Runs : candidate[r] # NoCandidate => Whole(r, candidate[r].rows)

PipeInv == RecordsOK /\ LedgerInv /\ EvalInv /\ StagedInv /\ CandidateInv

-----------------------------------------------------------------------------
LEMMA Sizes == \A r \in Runs : N(r) \in Nat /\ N(r) > 0
<1> SUFFICES ASSUME NEW r \in Runs
             PROVE  N(r) \in Nat /\ N(r) > 0
  OBVIOUS
<1>1. Selection[r] \in Seq(Keys) /\ Selection[r] # <<>>
  BY ProcessingAssumption
<1> QED BY <1>1 DEF N

LEMMA AfterRow ==
  ASSUME NEW r \in Runs, NEW s
  PROVE  /\ StateAfter(r, s) # "absent"
         /\ StateAfter(r, s) = "completed" => ~(Len(s) < N(r))
BY DEF StateAfter

LEMMA PipeInit == Init => PipeInv
<1> SUFFICES ASSUME Init PROVE PipeInv
  OBVIOUS
<1>1. \A r \in Runs : ledger[r].rows = <<>> /\ ledger[r].status.state = "absent"
  BY DEF Init, ProcessingInit, NoLedger
<1>2. RecordsOK
  BY EmptyRows DEF Init, ProcessingInit, NoLedger, RecordsOK
<1>3. LedgerInv
  BY <1>1, EmptyRows, Sizes DEF Init, ProcessingInit, LedgerInv, LedgerInvOf, Done, Working
<1>4. EvalInv
  BY DEF Init, EvalInv, EvalInvOf, Resting, AfterRows, AfterStatus, Publishing
<1>5. StagedInv /\ CandidateInv
  BY DEF Init, StagedInv, CandidateInv
<1> QED BY <1>2, <1>3, <1>4, <1>5 DEF PipeInv

(* What a step leaves alone, and how the ledger may grow under an evaluation. *)
Untouched == UNCHANGED <<eval, staged, candidate>>

LEMMA Growth ==
  ASSUME PipeInv, Untouched, RecordsOK', LedgerInv',
         \A r \in Runs :
           /\ Begins(ledger[r].rows, ledger'[r].rows)
           /\ ledger[r].status.state = "completed" =>
                /\ ledger'[r].status.state = "completed"
                /\ ledger'[r].rows = ledger[r].rows
  PROVE  PipeInv'
<1>1. \A r \in Runs : \A s : Whole(r, s) => Whole(r, s)'
  BY DEF Whole, Done, N
<1>2. \A r \in Runs : \A s : IsRows(s) /\ Begins(s, ledger[r].rows) => Begins(s, ledger'[r].rows)
  <2> SUFFICES ASSUME NEW r \in Runs, NEW s, IsRows(s), Begins(s, ledger[r].rows)
               PROVE  Begins(s, ledger'[r].rows)
    OBVIOUS
  <2>1. Len(s) \in Nat /\ Len(ledger[r].rows) \in Nat /\ Len(ledger'[r].rows) \in Nat
    BY RowsLen DEF PipeInv, RecordsOK
  <2> QED BY <2>1 DEF Begins
<1>3. EvalInv'
  <2> SUFFICES ASSUME NEW e \in Evaluators PROVE EvalInvOf(e)'
    BY DEF PipeInv, EvalInv, Untouched
  <2>1. EvalInvOf(e) /\ eval' = eval
    BY DEF PipeInv, EvalInv, Untouched
  <2>2. eval[e].at # "idle" => eval[e].run \in Runs
    BY <2>1 DEF EvalInvOf
  <2>3. CASE eval[e].at = "idle"
    BY <2>1, <2>3 DEF EvalInvOf, AfterRows, AfterStatus, Publishing
  <2>4. CASE eval[e].at # "idle"
    BY <1>1, <1>2, <2>1, <2>2, <2>4 DEF EvalInvOf
  <2> QED BY <2>3, <2>4
<1>4. StagedInv' /\ CandidateInv'
  BY <1>1 DEF PipeInv, StagedInv, CandidateInv, Untouched
<1> QED BY <1>3, <1>4 DEF PipeInv

(* A step that writes no document. *)
LEMMA Quiet ==
  ASSUME PipeInv, Untouched, UNCHANGED ledger,
         DOMAIN pc' = Runs,
         \A r \in Runs : /\ pc'[r] \in Working => Done(r) < N(r)
                         /\ pc'[r] # "idle" => ledger[r].status.state # "absent"
  PROVE  PipeInv'
<1>1. RecordsOK'
  BY DEF PipeInv, RecordsOK
<1>2. LedgerInv'
  BY DEF PipeInv, LedgerInv, LedgerInvOf, Done, N, StateAfter
<1>3. \A r \in Runs : Begins(ledger[r].rows, ledger'[r].rows)
  BY RowsLen DEF PipeInv, RecordsOK, Begins
<1> QED BY <1>1, <1>2, <1>3, Growth

(* A step that writes no document and moves one executor. *)
LEMMA Moves ==
  ASSUME PipeInv, Untouched, UNCHANGED ledger, NEW r \in Runs, NEW point,
         pc' = [pc EXCEPT ![r] = point],
         point \in Working => Done(r) < N(r),
         point # "idle" => ledger[r].status.state # "absent"
  PROVE  PipeInv'
<1>1. DOMAIN pc' = Runs
  BY DEF PipeInv, RecordsOK
<1>2. \A q \in Runs : /\ pc'[q] \in Working => Done(q) < N(q)
                      /\ pc'[q] # "idle" => ledger[q].status.state # "absent"
  BY DEF PipeInv, RecordsOK, LedgerInv, LedgerInvOf
<1> QED BY <1>1, <1>2, Quiet

LEMMA Stays ==
  ASSUME PipeInv, Untouched, UNCHANGED <<ledger, pc>>
  PROVE  PipeInv'
BY Quiet DEF PipeInv, RecordsOK, LedgerInv, LedgerInvOf

-----------------------------------------------------------------------------
(* The executor of a run. *)

LEMMA LeavesQuietly ==
  ASSUME PipeInv, Untouched, UNCHANGED ledger, NEW r \in Runs, Leave(r)
  PROVE  PipeInv'
BY Moves DEF Leave, Goto, Working

LEMMA CallSteps ==
  ASSUME PipeInv, Untouched, NEW r \in Runs, BeginResume(r) \/ Return(r) \/ Abort(r)
  PROVE  PipeInv'
<1> USE DEF PipeInv, LedgerInv, LedgerInvOf
<1>1. CASE BeginResume(r)
  <2> DEFINE point == IF Done(r) = N(r) THEN "return" ELSE "observe"
  <2>1. pc' = [pc EXCEPT ![r] = point] /\ UNCHANGED ledger
    BY <1>1 DEF BeginResume, Enter, Goto
  <2>2. point \in Working => Done(r) < N(r)
    BY Sizes, RowsLen DEF RecordsOK, Done, Working
  <2>3. ledger[r].status.state # "absent"
    BY <1>1 DEF BeginResume
  <2> HIDE DEF point
  <2> QED BY <2>1, <2>2, <2>3, Moves
<1>2. CASE Return(r) \/ Abort(r)
  BY <1>2, LeavesQuietly DEF Return, Abort
<1> QED BY <1>1, <1>2

(* The steps over a key begin where one is left to work on, or end the call.  *)
LEMMA KeySteps ==
  ASSUME PipeInv, Untouched, NEW r \in Runs, KeyStep(r)
  PROVE  PipeInv'
<1>1. CASE Clash(r) \/ RefuseReview(r) \/ (CheckReview(r) /\ Refuse(r))
  <2>1. Refuse(r)
    BY <1>1 DEF Clash, RefuseReview
  <2> QED BY <2>1, LeavesQuietly DEF Refuse
<1>2. CASE FindReview(r)
  BY <1>2, Stays DEF FindReview, stores, artifacts, environment
<1>3. ASSUME NEW point, point \in Working, pc[r] \in Working,
             pc' = [pc EXCEPT ![r] = point], UNCHANGED ledger
      PROVE  PipeInv'
  BY <1>3, Moves DEF PipeInv, LedgerInv, LedgerInvOf, Working
<1>4. CASE Observe(r)
  <2>1. UNCHANGED ledger /\ pc[r] \in Working /\ (Goto(r, "putRaw") \/ UNCHANGED pc)
    BY <1>4 DEF Observe, At, Working
  <2> QED BY <2>1, <1>3, Stays DEF Goto, Working
<1>5. CASE PutRaw(r)
  BY <1>5, <1>3 DEF PutRaw, At, Goto, Working
<1>6. CASE PutObservation(r)
  BY <1>6, <1>3 DEF PutObservation, At, Goto, Working
<1>7. CASE SnapshotFails(r)
  BY <1>7, <1>3 DEF SnapshotFails, At, Goto, Working
<1>8. CASE Choose(r)
  <2>1. UNCHANGED ledger /\ At(r, "observe") /\ (Goto(r, "canonical") \/ Goto(r, "review"))
    BY <1>8 DEF Choose
  <2> QED BY <2>1, <1>3 DEF At, Goto, Working
<1>9. CASE WriteCanonical(r)
  BY <1>9, <1>3 DEF WriteCanonical, At, Goto, Working
<1>10. CASE WriteParsed(r)
  BY <1>10, <1>3 DEF WriteParsed, At, Goto, Working
<1>11. CASE MissReview(r)
  BY <1>11, <1>3 DEF MissReview, At, Goto, Working
<1>12. CASE CheckReview(r) /\ ~Refuse(r)
  <2>1. UNCHANGED ledger /\ At(r, "newReview") /\ Goto(r, "putReview")
    BY <1>12 DEF CheckReview
  <2> QED BY <2>1, <1>3 DEF At, Goto, Working
<1>13. CASE PutReview(r)
  BY <1>13, <1>3 DEF PutReview, At, Goto, Working
<1>14. CASE AllFiled(r)
  BY <1>14, <1>3 DEF AllFiled, At, Goto, Working
<1> QED
  BY <1>1, <1>2, <1>4, <1>5, <1>6, <1>7, <1>8, <1>9, <1>10, <1>11, <1>12, <1>13, <1>14
     DEF KeyStep

(* A document of a run is written that holds neither its rows nor its state.  *)
LEMMA OtherDocument ==
  ASSUME PipeInv, Untouched, NEW r \in Runs, NEW point,
         pc' = [pc EXCEPT ![r] = point], point # "idle", point \notin Working,
         pc[r] # "idle",
         NEW name \in {"attempts", "checkpoint", "report"}, NEW value,
         name = "report" => DOMAIN value = {"rev", "state"},
         ledger' = [ledger EXCEPT ![r][name] = value]
  PROVE  PipeInv'
<1> USE DEF PipeInv, RecordsOK
<1>1. \A q \in Runs : /\ ledger'[q].rows = ledger[q].rows
                      /\ ledger'[q].status = ledger[q].status
  OBVIOUS
<1>2. RecordsOK'
  <2>1. DOMAIN ledger' = Runs /\ DOMAIN pc' = Runs
    OBVIOUS
  <2>2. \A q \in Runs : DOMAIN ledger'[q].report = {"rev", "state"}
    OBVIOUS
  <2>3. \A q \in Runs :
          DOMAIN ledger'[q] = {"rows", "attempts", "checkpoint", "report", "status"}
    OBVIOUS
  <2> QED BY <1>1, <2>1, <2>2, <2>3
<1>3. LedgerInv'
  <2> SUFFICES ASSUME NEW q \in Runs PROVE LedgerInvOf(q)'
    BY DEF LedgerInv
  <2>1. LedgerInvOf(q) /\ Done(q)' = Done(q)
    BY <1>1 DEF LedgerInv, Done
  <2>2. (q # r => pc'[q] = pc[q]) /\ (q = r => pc'[q] = point)
    OBVIOUS
  <2>3. ledger[r].status.state # "absent"
    BY DEF LedgerInv, LedgerInvOf
  <2> QED BY <1>1, <2>1, <2>2, <2>3 DEF LedgerInvOf, N, StateAfter
<1>4. \A q \in Runs : Begins(ledger[q].rows, ledger'[q].rows)
  BY <1>1, RowsLen DEF Begins
<1> QED BY <1>1, <1>2, <1>3, <1>4, Growth

(* The row appended is the one the run is at, so the run was not complete.   *)
LEMMA RowStep ==
  ASSUME PipeInv, Untouched, NEW r \in Runs, WriteOutcomes(r)
  PROVE  PipeInv'
<1> USE DEF PipeInv, RecordsOK
<1> DEFINE row == Row(r)
<1>1. /\ ledger' = [ledger EXCEPT ![r].rows = Append(@, row)]
      /\ pc' = [pc EXCEPT ![r] = "attempts"]
      /\ pc[r] = "outcomes"
  BY DEF WriteOutcomes, Goto, At
<1> HIDE DEF row
<1>2. /\ \A q \in Runs \ {r} : ledger'[q] = ledger[q]
      /\ ledger'[r].rows = Append(ledger[r].rows, row)
      /\ ledger'[r].status = ledger[r].status
  BY <1>1
<1>3. /\ IsRows(ledger'[r].rows) /\ Len(ledger'[r].rows) = Len(ledger[r].rows) + 1
      /\ Len(ledger[r].rows) \in Nat /\ Begins(ledger[r].rows, ledger'[r].rows)
  BY <1>2, AppendRows DEF Begins
<1>4. /\ Len(ledger[r].rows) < N(r) /\ N(r) \in Nat
      /\ ledger[r].status.state # "absent" /\ ledger[r].status.state # "completed"
  BY <1>1, <1>3, Sizes DEF LedgerInv, LedgerInvOf, Working, Done
<1>5. RecordsOK'
  <2>1. DOMAIN ledger' = Runs /\ DOMAIN pc' = Runs
    BY <1>1
  <2>2. \A q \in Runs :
          /\ DOMAIN ledger'[q] = {"rows", "attempts", "checkpoint", "report", "status"}
          /\ DOMAIN ledger'[q].report = {"rev", "state"}
          /\ DOMAIN ledger'[q].status = {"rev", "state"}
    BY <1>1
  <2>3. \A q \in Runs : IsRows(ledger'[q].rows)
    BY <1>2, <1>3
  <2> QED BY <2>1, <2>2, <2>3
<1>6. LedgerInv'
  <2> SUFFICES ASSUME NEW q \in Runs PROVE LedgerInvOf(q)'
    BY DEF LedgerInv
  <2>1. CASE q # r
    <3>1. ledger'[q] = ledger[q] /\ pc'[q] = pc[q]
      BY <1>1, <1>2, <2>1
    <3> QED BY <3>1 DEF LedgerInv, LedgerInvOf, Done, N, StateAfter
  <2>2. CASE q = r
    BY <1>1, <1>2, <1>3, <1>4, <2>2 DEF LedgerInvOf, Done, N, Working
  <2> QED BY <2>1, <2>2
<1>7. \A q \in Runs : /\ Begins(ledger[q].rows, ledger'[q].rows)
                      /\ ledger[q].status.state = "completed" => ledger'[q] = ledger[q]
  <2> TAKE q \in Runs
  <2>1. CASE q = r
    BY <1>3, <1>4, <2>1
  <2>2. CASE q # r
    <3>1. ledger'[q] = ledger[q]
      BY <1>2, <2>2
    <3>2. Begins(ledger[q].rows, ledger'[q].rows)
      BY <3>1, RowsLen DEF Begins
    <3> QED BY <3>1, <3>2
  <2> QED BY <2>1, <2>2
<1> QED BY <1>5, <1>6, <1>7, Growth

(* The state of a run is written: at its creation, and after each row from   *)
(* the rows there are.                                                       *)
LEMMA StatusSteps ==
  ASSUME PipeInv, Untouched, NEW r \in Runs, BeginRun(r) \/ WriteStatus(r)
  PROVE  PipeInv'
<1> USE DEF PipeInv, RecordsOK
<1> DEFINE state == IF BeginRun(r) THEN "running" ELSE StateAfter(r, ledger[r].rows)
<1>1. /\ \A q \in Runs \ {r} : ledger'[q] = ledger[q]
      /\ ledger'[r].rows = ledger[r].rows /\ ledger'[r].status.state = state
      /\ DOMAIN ledger' = Runs
      /\ DOMAIN ledger'[r] = DOMAIN ledger[r]
      /\ DOMAIN ledger'[r].report = DOMAIN ledger[r].report
      /\ DOMAIN ledger'[r].status = {"rev", "state"}
  BY DEF BeginRun, WriteStatus
<1>2. PICK point : pc' = [pc EXCEPT ![r] = point] /\ point \in {"observe", "return"}
  BY DEF BeginRun, WriteStatus, Enter, Goto
<1>3. \A q \in Runs : Begins(ledger[q].rows, ledger'[q].rows)
  BY <1>1, RowsLen DEF Begins
<1>4. RecordsOK'
  BY <1>1, <1>2
<1>5. (point = "observe" => Done(r) < N(r)) /\ Done(r) \in Nat /\ N(r) \in Nat
  BY <1>2, Sizes, RowsLen
     DEF BeginRun, WriteStatus, Enter, Goto, LedgerInv, LedgerInvOf, Done
<1>6. /\ state # "absent"
      /\ state = "completed" => Done(r) = N(r) /\ StateAfter(r, ledger[r].rows) = "completed"
      /\ ledger[r].status.state = "completed" => state = "completed"
  BY <1>5, AfterRow DEF LedgerInv, LedgerInvOf, BeginRun, Done
<1>7. LedgerInv'
  <2> SUFFICES ASSUME NEW q \in Runs PROVE LedgerInvOf(q)'
    BY DEF LedgerInv
  <2>1. CASE q # r
    <3>1. ledger'[q] = ledger[q] /\ pc'[q] = pc[q]
      BY <1>1, <1>2, <2>1
    <3> QED BY <3>1 DEF LedgerInv, LedgerInvOf, Done, N, StateAfter
  <2>2. CASE q = r
    <3>1. Done(r)' = Done(r) /\ pc'[r] = point /\ Done(r) <= N(r)
      BY <1>1, <1>2 DEF Done, LedgerInv, LedgerInvOf
    <3>2. point \in Working => Done(r) < N(r)
      BY <1>2, <1>5 DEF Working
    <3> QED BY <1>1, <1>6, <2>2, <3>1, <3>2 DEF LedgerInvOf, N, StateAfter
  <2> QED BY <2>1, <2>2
<1>8. \A q \in Runs : ledger[q].status.state = "completed" =>
        ledger'[q].status.state = "completed" /\ ledger'[q].rows = ledger[q].rows
  BY <1>1, <1>6
<1> QED BY <1>3, <1>4, <1>7, <1>8, Growth

LEMMA CommitSteps ==
  ASSUME PipeInv, Untouched, NEW r \in Runs, CommitStep(r)
  PROVE  PipeInv'
<1>1. CASE WriteOutcomes(r)
  BY <1>1, RowStep
<1>2. CASE WriteStatus(r)
  BY <1>2, StatusSteps
<1>3. CASE WriteAttempts(r)
  <2>1. ledger' = [ledger EXCEPT ![r]["attempts"] =
                     [rev |-> Done(r), keys |-> Append(@.keys, Done(r))]]
    BY <1>3 DEF WriteAttempts
  <2> QED BY <1>3, <2>1, OtherDocument DEF WriteAttempts, At, Goto, Working
<1>4. CASE WriteCheckpoint(r)
  <2>1. ledger' = [ledger EXCEPT ![r]["checkpoint"] = Done(r)]
    BY <1>4 DEF WriteCheckpoint
  <2> QED BY <1>4, <2>1, OtherDocument DEF WriteCheckpoint, At, Goto, Working
<1>5. CASE WriteReport(r)
  <2> DEFINE value == [rev |-> Done(r), state |-> StateAfter(r, ledger[r].rows)]
  <2>1. ledger' = [ledger EXCEPT ![r]["report"] = value]
    BY <1>5 DEF WriteReport
  <2>2. DOMAIN value = {"rev", "state"}
    OBVIOUS
  <2> HIDE DEF value
  <2> QED BY <1>5, <2>1, <2>2, OtherDocument DEF WriteReport, At, Goto, Working
<1> QED BY <1>1, <1>2, <1>3, <1>4, <1>5 DEF CommitStep

-----------------------------------------------------------------------------
(* Evaluations. *)

(* One evaluation goes on; the documents and what others read stay.          *)
LEMMA EvalMoves ==
  ASSUME PipeInv, UNCHANGED <<ledger, pc, candidate, staged>>, NEW e \in Evaluators,
         DOMAIN eval' = Evaluators,
         \A f \in Evaluators : eval'[f] # eval[f] => EvalInvOf(f)'
  PROVE  PipeInv'
<1>1. RecordsOK' /\ LedgerInv' /\ StagedInv' /\ CandidateInv'
  BY DEF PipeInv, RecordsOK, LedgerInv, LedgerInvOf, StagedInv, CandidateInv, Whole,
         Done, N, StateAfter
<1>2. ASSUME NEW f \in Evaluators, eval'[f] = eval[f] PROVE EvalInvOf(f)'
  BY <1>2 DEF PipeInv, EvalInv, EvalInvOf, Whole, Done, N
<1> QED BY <1>1, <1>2 DEF PipeInv, EvalInv

LEMMA ReadSteps ==
  ASSUME PipeInv, UNCHANGED <<ledger, pc>>, NEW e \in Evaluators,
         \/ ReadReport(e) \/ ReadCheckpoint(e) \/ ReadOutcomes(e) \/ ReadAttempts(e)
         \/ ReadStatus(e) \/ ReadReviews(e)
  PROVE  PipeInv'
<1> USE DEF PipeInv, EvalInv
<1>1. EvalInvOf(e)
  OBVIOUS
<1>2. /\ DOMAIN eval' = Evaluators /\ UNCHANGED <<candidate, staged>>
      /\ \A f \in Evaluators \ {e} : eval'[f] = eval[f]
  BY DEF ReadReport, ReadCheckpoint, ReadOutcomes, ReadAttempts, ReadStatus, ReadReviews,
         Read, OnlyRead
<1>3. CASE ReadReport(e)
  BY <1>2, <1>3, EvalMoves
     DEF ReadReport, EvalInvOf, AfterRows, AfterStatus, Publishing
<1>4. CASE ReadCheckpoint(e)
  BY <1>1, <1>2, <1>4, EvalMoves
     DEF ReadCheckpoint, Read, AtEval, EvalInvOf, AfterRows, AfterStatus, Publishing
<1>5. CASE ReadOutcomes(e)
  <2>1. /\ eval'[e].at = "attempts" /\ eval'[e].run = eval[e].run /\ eval[e].run \in Runs
        /\ eval'[e].rows = ledger[eval[e].run].rows /\ DOMAIN eval'[e] = DOMAIN eval[e]
        /\ eval[e].at = "outcomes"
    BY <1>1, <1>5 DEF ReadOutcomes, Read, AtEval, EvalInvOf
  <2>2. IsRows(ledger[eval[e].run].rows)
    BY <2>1 DEF RecordsOK
  <2>3. Begins(ledger[eval[e].run].rows, ledger[eval[e].run].rows)
    BY <2>2, RowsLen DEF Begins
  <2>4. EvalInvOf(e)'
    BY <1>1, <2>1, <2>2, <2>3 DEF EvalInvOf, AfterRows, AfterStatus, Publishing
  <2> QED BY <1>2, <2>4, EvalMoves
<1>6. CASE ReadAttempts(e)
  BY <1>1, <1>2, <1>6, EvalMoves
     DEF ReadAttempts, Read, AtEval, EvalInvOf, AfterRows, AfterStatus, Publishing
<1>7. CASE ReadStatus(e)
  BY <1>1, <1>2, <1>7, EvalMoves
     DEF ReadStatus, Read, AtEval, EvalInvOf, AfterRows, AfterStatus, Publishing
<1>8. CASE ReadReviews(e)
  <2>1. PICK value : eval' = [eval EXCEPT ![e] = [@ EXCEPT !.at = "judge", !["reviews"] = value]]
    BY <1>8 DEF ReadReviews, Read
  <2> QED
    BY <1>1, <1>2, <1>8, <2>1, EvalMoves
       DEF ReadReviews, AtEval, EvalInvOf, AfterRows, AfterStatus, Publishing
<1> QED BY <1>3, <1>4, <1>5, <1>6, <1>7, <1>8

(* Documents of one revision, and rows of the full length, can only have     *)
(* been read of a run that had completed.                                    *)
LEMMA EligibleIsWhole ==
  ASSUME PipeInv, NEW e \in Evaluators, AtEval(e, "judge"), Eligible(e)
  PROVE  Whole(eval[e].run, eval[e].rows)
<1> DEFINE r == eval[e].run
<1>1. /\ r \in Runs /\ IsRows(eval[e].rows) /\ Begins(eval[e].rows, ledger[r].rows)
      /\ eval[e].status.state = "completed" => ledger[r].status.state = "completed"
  BY DEF PipeInv, EvalInv, EvalInvOf, AtEval, AfterRows, AfterStatus
<1>2. /\ r \in FixedRuns /\ eval[e].status.state = "completed"
      /\ Len(eval[e].rows) = N(r)
  BY DEF Eligible, Complete, Consistent
<1>3. ledger[r].status.state = "completed" /\ Done(r) = N(r) /\ IsRows(ledger[r].rows)
  BY <1>1, <1>2 DEF PipeInv, LedgerInv, LedgerInvOf, RecordsOK
<1>4. eval[e].rows = ledger[r].rows
  BY <1>1, <1>2, <1>3, WholeBeginning DEF Done
<1> QED BY <1>2, <1>3, <1>4 DEF Whole

LEMMA PublishSteps ==
  ASSUME PipeInv, UNCHANGED <<ledger, pc>>, NEW e \in Evaluators,
         \/ WriteIneligible(e) \/ StageCandidate(e) \/ StageEvaluation(e)
         \/ ReplaceCandidate(e) \/ ReplaceEvaluation(e) \/ CommitFails(e) \/ EvaluatorDies(e)
  PROVE  PipeInv'
<1> DEFINE r == eval[e].run
           pid == EvaluatorOf[e]
<1>1. RecordsOK' /\ LedgerInv'
  BY DEF PipeInv, RecordsOK, LedgerInv, LedgerInvOf, Done, N, StateAfter
<1>2. \A q \in Runs : \A s : Whole(q, s) => Whole(q, s)'
  BY DEF Whole, Done, N
<1>3. EvalInvOf(e) /\ pid \in EvaluatorPids
  BY DEF PipeInv, EvalInv, EvaluatorPids
<1>4. ~AtEval(e, "idle") /\ r \in Runs
  BY <1>3 DEF EvalInvOf, AtEval, WriteIneligible, StageCandidate, StageEvaluation,
         ReplaceCandidate, ReplaceEvaluation, CommitFails, EvaluatorDies
<1>5. EvalInv'
  <2>1. DOMAIN eval' = Evaluators
    BY DEF PipeInv, EvalInv, WriteIneligible, StageCandidate, StageEvaluation,
           ReplaceCandidate, ReplaceEvaluation, CommitFails, EvaluatorDies, Rest, NowAt
  <2> SUFFICES ASSUME NEW f \in Evaluators PROVE EvalInvOf(f)'
    BY <2>1 DEF EvalInv
  <2>2. CASE eval'[f] = eval[f]
    BY <2>2 DEF PipeInv, EvalInv, EvalInvOf, Whole, Done, N
  <2>3. CASE eval'[f] = Resting
    BY <2>3 DEF EvalInvOf, Resting, AfterRows, AfterStatus, Publishing
  <2>4. CASE f = e /\ (StageCandidate(e) \/ StageEvaluation(e) \/ ReplaceCandidate(e))
    <3>1. PICK next \in Publishing : eval' = [eval EXCEPT ![e].at = next]
      BY <2>4 DEF StageCandidate, StageEvaluation, ReplaceCandidate, NowAt, Publishing
    <3>2. /\ eval'[e].at \in Publishing /\ eval'[e].run = r /\ eval'[e].rows = eval[e].rows
          /\ DOMAIN eval'[e] = DOMAIN eval[e]
      BY <1>3, <1>4, <3>1 DEF PipeInv, EvalInv, EvalInvOf, AtEval
    <3>3. Whole(r, eval[e].rows)
      BY <1>3, <2>4, EligibleIsWhole
         DEF StageCandidate, StageEvaluation, ReplaceCandidate, EvalInvOf, AtEval, Publishing
    <3> QED
      BY <1>2, <1>3, <1>4, <2>4, <3>2, <3>3
         DEF EvalInvOf, AtEval, AfterRows, AfterStatus, Publishing
  <2>5. CASE WriteIneligible(e) \/ ReplaceEvaluation(e) \/ CommitFails(e)
    <3>1. eval' = [eval EXCEPT ![e] = Resting]
      BY <2>5 DEF WriteIneligible, ReplaceEvaluation, CommitFails, Rest
    <3> QED BY <2>2, <2>3, <3>1 DEF PipeInv, EvalInv
  <2>6. CASE EvaluatorDies(e)
    <3>1. eval'[f] = Resting \/ eval'[f] = eval[f]
      BY <2>6 DEF EvaluatorDies
    <3> QED BY <2>2, <2>3, <3>1
  <2>7. CASE f # e /\ (StageCandidate(e) \/ StageEvaluation(e) \/ ReplaceCandidate(e))
    <3>1. eval'[f] = eval[f]
      BY <2>7 DEF StageCandidate, StageEvaluation, ReplaceCandidate, NowAt, PipeInv, EvalInv
    <3> QED BY <2>2, <3>1
  <2> QED BY <2>4, <2>5, <2>6, <2>7
<1>6. StagedInv'
  <2>1. CASE UNCHANGED staged
    BY <1>2, <2>1 DEF PipeInv, StagedInv
  <2>2. ASSUME NEW value, staged' = [staged EXCEPT ![pid][r]["candidate"] = value],
               value # NoCandidate => Whole(r, value.rows)
        PROVE  StagedInv'
    BY <1>2, <1>3, <1>4, <2>2 DEF PipeInv, StagedInv
  <2>3. ASSUME NEW value, staged' = [staged EXCEPT ![pid][r]["evaluation"] = value]
        PROVE  StagedInv'
    BY <1>2, <1>3, <1>4, <2>3 DEF PipeInv, StagedInv
  <2>4. CASE StageCandidate(e)
    <3>1. Whole(r, Bytes(e).rows)
      BY <2>4, EligibleIsWhole DEF StageCandidate, Bytes
    <3> QED BY <2>2, <2>4, <3>1 DEF StageCandidate, SetStage
  <2>5. CASE ReplaceCandidate(e)
    BY <2>2, <2>5 DEF ReplaceCandidate, SetStage
  <2>6. CASE StageEvaluation(e)
    BY <2>3, <2>6 DEF StageEvaluation, SetStage
  <2>7. CASE ReplaceEvaluation(e)
    BY <2>3, <2>7 DEF ReplaceEvaluation, SetStage
  <2>8. CASE CommitFails(e)
    BY <1>2, <1>3, <1>4, <2>8 DEF CommitFails, PipeInv, StagedInv
  <2> QED
    BY <2>1, <2>4, <2>5, <2>6, <2>7, <2>8 DEF WriteIneligible, EvaluatorDies
<1>7. CandidateInv'
  <2>1. CASE UNCHANGED candidate
    BY <1>2, <2>1 DEF PipeInv, CandidateInv
  <2>2. CASE ReplaceCandidate(e)
    <3>1. Stage(e).candidate # NoCandidate /\ Whole(r, Stage(e).candidate.rows)
      BY <1>3, <1>4, <2>2 DEF ReplaceCandidate, Stage, PipeInv, StagedInv
    <3> QED BY <1>2, <1>4, <2>2, <3>1 DEF ReplaceCandidate, PipeInv, CandidateInv
  <2>3. CASE CommitFails(e)
    BY <1>2, <1>4, <2>3 DEF CommitFails, PipeInv, CandidateInv
  <2> QED
    BY <2>1, <2>2, <2>3
       DEF WriteIneligible, StageCandidate, StageEvaluation, ReplaceEvaluation, EvaluatorDies
<1> QED BY <1>1, <1>5, <1>6, <1>7 DEF PipeInv

-----------------------------------------------------------------------------
LEMMA PipeNext == PipeInv /\ [Next]_vars => PipeInv'
<1> SUFFICES ASSUME PipeInv, [Next]_vars PROVE PipeInv'
  OBVIOUS
<1>1. CASE UNCHANGED vars
  BY <1>1, Stays DEF vars, processing, evaluating, executor, Untouched
<1>2. CASE ProcessingNext /\ UNCHANGED <<deciding, evaluating>>
  <2>1. Untouched
    BY <1>2 DEF evaluating, Untouched
  <2>2. CASE ChangeFixture
    BY <2>1, <2>2, Stays DEF ChangeFixture, executor
  <2>3. ASSUME NEW r \in Runs, ExecutorStep(r) PROVE PipeInv'
    BY <2>1, <2>3, StatusSteps, CallSteps, KeySteps, CommitSteps DEF ExecutorStep
  <2> QED BY <1>2, <2>2, <2>3 DEF ProcessingNext
<1>3. ASSUME NEW p \in Reviewers, Load(p) \/ Decide(p) PROVE PipeInv'
  <2>1. UNCHANGED <<evaluating, executor, ledger>>
    BY <1>3 DEF Load, Decide, processing
  <2> QED BY <2>1, Stays DEF evaluating, executor, Untouched
<1>4. ASSUME NEW e \in Evaluators, EvaluatorStep(e) PROVE PipeInv'
  <2>1. UNCHANGED <<ledger, pc>>
    BY <1>4 DEF EvaluatorStep, ReadReport, ReadCheckpoint, ReadOutcomes, ReadAttempts,
         ReadStatus, ReadReviews, OnlyRead, WriteIneligible, StageCandidate,
         StageEvaluation, ReplaceCandidate, ReplaceEvaluation, CommitFails,
         EvaluatorDies, Elsewhere, processing, executor
  <2> QED BY <1>4, <2>1, ReadSteps, PublishSteps DEF EvaluatorStep
<1> QED BY <1>1, <1>2, <1>3, <1>4 DEF Next

(* However an evaluation, the run it reads and other evaluations interleave, *)
(* and whichever of their calls are cut, a published candidate is of a run   *)
(* with the fixed limit that has completed, and holds exactly its final rows *)
(* (evaluate_candidate, _commit_revision).                                   *)
THEOREM PublishedIsWhole == Spec => []CandidateCoversRun
<1>1. PipeInv => CandidateCoversRun
  BY DEF PipeInv, CandidateInv, CandidateCoversRun, Whole
<1> QED BY <1>1, PipeInit, PipeNext, PTL DEF Spec

-----------------------------------------------------------------------------
(* What is on disk for the key at hand, and for the rows before it. *)

LEMMA FirstIsIn ==
  ASSUME NEW S, S \subseteq Nat, S # {}
  PROVE  First(S) \in S
<1>1. PICK i \in S : \A j \in S : <<j, i>> \notin OpToRel(<, Nat)
  BY WFMin, NatLessThanWellFounded, Zenon
<1>2. \A j \in S : i \in Nat /\ j \in Nat /\ ~(j < i)
  BY <1>1, Zenon DEF OpToRel
<1>3. \A j \in S : i <= j
  BY <1>2
<1> QED BY <1>3 DEF First

(* An accepted result is the page of its binding, and its bytes were fetched. *)
LEMMA AcceptedIsParsed ==
  ASSUME NEW b, NEW state, NEW result \in Observations(b, state),
         result.outcome = "accepted"
  PROVE  result.raw = b.raw /\ result.lexeme = b.page /\ Fetched(result)
<1>1. result \notin Unfetched(b)
  BY DEF Unfetched, Result
<1>2. result = Parsed(b)
  BY <1>1 DEF Observations, Result
<1>3. Parsed(b) = Result("accepted", "none", b.raw, b.page, 0)
  BY <1>2 DEF Parsed, Result
<1> QED BY <1>2, <1>3 DEF Result, Fetched

(* A winner there is was accepted, from an official binding.                 *)
LEMMA WinnerWon ==
  ASSUME NEW r \in Runs, IsRows(seen[r]), Winner(r) # 0
  PROVE  /\ Winner(r) \in Results(r) /\ Binding(r, Winner(r)).official
         /\ Won(r).outcome = "accepted"
<1> DEFINE S == {i \in Accepted(r) : Binding(r, i).official}
<1>1. S \subseteq Nat
  BY RowsLen DEF Accepted, Results
<1>2. S # {}
  BY DEF Winner, First
<1>3. Winner(r) \in S
  BY <1>1, <1>2, FirstIsIn DEF Winner
<1> QED BY <1>3 DEF Accepted, Won

Fetching == {"putRaw", "putObservation"}
Filing   == {"review", "newReview", "putReview", "outcomes"}

OfPage(r, i) == /\ seen[r][i].raw = Binding(r, i).raw
                /\ seen[r][i].lexeme = Binding(r, i).page
RawKept(r, i)   == seen[r][i].raw \in snapshots
PlaceKept(r, i) == <<Key(r), i>> \in observed

(* Results that were accepted are in the store, but for the one at hand.     *)
KeptInvOf(r) ==
  \A i \in Results(r) : seen[r][i].outcome = "accepted" =>
    /\ OfPage(r, i)
    /\ RawKept(r, i) \/ (pc[r] = "putRaw" /\ i = Len(seen[r]))
    /\ PlaceKept(r, i) \/ (pc[r] \in Fetching /\ i = Len(seen[r]))

(* Artifacts are written before the reviews and the row.                     *)
ArtifactInvOf(r) ==
  /\ pc[r] = "parsed" => canonical[r][Key(r)] = Won(r).lexeme
  /\ pc[r] \in Filing /\ Winner(r) # 0 =>
       canonical[r][Key(r)] = Won(r).lexeme /\ parsed[r][Key(r)] = Join(r)

RowExplained(r, i) ==
  LET k == Selection[r][i]
      w == ledger[r].rows[i].winner IN
  w # 0 => Ordered(k)[w].official /\ Joined(r, k, ledger[r].rows[i])
RowsInvOf(r) == \A i \in 1..Done(r) : RowExplained(r, i)

ExecutorInvOf(r) ==
  /\ IsRows(seen[r])
  /\ slot[r] = "none" => pc[r] = "idle"
  /\ pc[r] \notin Working => seen[r] = <<>>

StoresOK ==
  /\ DOMAIN seen = Runs /\ DOMAIN slot = Runs
  /\ DOMAIN canonical = Runs /\ DOMAIN parsed = Runs
  /\ \A r \in Runs : DOMAIN canonical[r] = Keys /\ DOMAIN parsed[r] = Keys

DiskInvOf(r) == ExecutorInvOf(r) /\ KeptInvOf(r) /\ ArtifactInvOf(r) /\ RowsInvOf(r)
DiskInv == StoresOK /\ \A r \in Runs : DiskInvOf(r)

LEMMA DiskInit == Init => DiskInv
<1> SUFFICES ASSUME Init PROVE DiskInv
  OBVIOUS
<1>1. \A r \in Runs : ledger[r].rows = <<>> /\ seen[r] = <<>> /\ pc[r] = "idle"
  BY DEF Init, ProcessingInit, NoLedger
<1>2. StoresOK
  BY DEF Init, ProcessingInit, StoresOK
<1>3. ASSUME NEW r \in Runs PROVE DiskInvOf(r)
  BY <1>1, EmptyRows
     DEF DiskInvOf, ExecutorInvOf, KeptInvOf, ArtifactInvOf, RowsInvOf, Results, Done, Filing,
         Working
<1> QED BY <1>2, <1>3 DEF DiskInv

(* The key at hand and its winner depend on the rows and the results alone.  *)
Fixed(r) == UNCHANGED <<catalog, seen[r], ledger[r].rows>>

LEMMA SameWinner ==
  ASSUME NEW r \in Runs, Fixed(r)
  PROVE  /\ Key(r)' = Key(r) /\ Results(r)' = Results(r) /\ Done(r)' = Done(r)
         /\ \A i : Binding(r, i)' = Binding(r, i)
         /\ Winner(r)' = Winner(r) /\ Won(r)' = Won(r) /\ Join(r)' = Join(r)
<1>1. Key(r)' = Key(r) /\ Results(r)' = Results(r) /\ Done(r)' = Done(r)
  BY DEF Fixed, Key, Results, Done
<1>2. \A i : Binding(r, i)' = Binding(r, i)
  BY <1>1 DEF Fixed, Binding, Ordered
<1>3. Accepted(r)' = Accepted(r)
  BY <1>1 DEF Fixed, Accepted
<1>4. {i \in Accepted(r) : Binding(r, i).official}' = {i \in Accepted(r) : Binding(r, i).official}
  BY <1>2, <1>3
<1>5. Winner(r)' = Winner(r)
  BY <1>4 DEF Winner
<1>6. Won(r)' = Won(r)
  BY <1>5 DEF Fixed, Won
<1> QED BY <1>1, <1>2, <1>5, <1>6 DEF Join

-----------------------------------------------------------------------------
(* Steps. *)

(* Nothing of a run changes, while the shared stores grow.                   *)
Grows == snapshots \subseteq snapshots' /\ observed \subseteq observed'

LEMMA RowsStay ==
  ASSUME NEW r \in Runs, RowsInvOf(r), Grows,
         UNCHANGED <<catalog, ledger[r].rows, canonical[r], parsed[r]>>
  PROVE  RowsInvOf(r)'
<1> SUFFICES ASSUME NEW i \in 1..Done(r), RowExplained(r, i) PROVE RowExplained(r, i)'
  BY DEF RowsInvOf, Done
<1> QED BY DEF RowExplained, Joined, Ordered, Grows

LEMMA RunStays ==
  ASSUME NEW r \in Runs, DiskInvOf(r), Grows, Fixed(r),
         UNCHANGED <<pc[r], slot[r], canonical[r], parsed[r]>>
  PROVE  DiskInvOf(r)'
<1>1. KeptInvOf(r)'
  BY SameWinner DEF DiskInvOf, KeptInvOf, OfPage, RawKept, PlaceKept, Grows, Fixed
<1>2. ArtifactInvOf(r)'
  BY SameWinner DEF DiskInvOf, ArtifactInvOf, Fixed
<1>3. ExecutorInvOf(r)' /\ RowsInvOf(r)'
  BY RowsStay DEF DiskInvOf, ExecutorInvOf, Fixed
<1> QED BY <1>1, <1>2, <1>3 DEF DiskInvOf

LEMMA DiskStays ==
  ASSUME DiskInv, UNCHANGED <<catalog, pc, slot, seen, ledger, canonical, parsed, snapshots,
                              observed>>
  PROVE  DiskInv'
<1>1. StoresOK' /\ Grows
  BY DEF DiskInv, StoresOK, Grows
<1>2. ASSUME NEW r \in Runs PROVE DiskInvOf(r)'
  BY <1>1, RunStays DEF DiskInv, Fixed
<1> QED BY <1>1, <1>2 DEF DiskInv

(* A step of one run.                                                        *)
Alone(r) ==
  /\ catalog' = catalog /\ Grows
  /\ \A q \in Runs \ {r} :
       UNCHANGED <<pc[q], slot[q], seen[q], ledger[q], canonical[q], parsed[q]>>

LEMMA RunMoves ==
  ASSUME DiskInv, NEW r \in Runs, Alone(r), StoresOK', DiskInvOf(r)'
  PROVE  DiskInv'
<1>1. ASSUME NEW q \in Runs \ {r} PROVE DiskInvOf(q)'
  <2>1. Fixed(q) /\ UNCHANGED <<pc[q], slot[q], canonical[q], parsed[q]>>
    BY DEF Alone, Fixed
  <2> QED BY <2>1, RunStays DEF DiskInv, Alone
<1> QED BY <1>1 DEF DiskInv

(* A run goes on from one point to another and writes nothing.               *)
LEMMA DiskMoves ==
  ASSUME PipeInv, DiskInv, NEW r \in Runs, NEW point,
         pc' = [pc EXCEPT ![r] = point],
         UNCHANGED <<catalog, seen, ledger, canonical, parsed, snapshots, observed>>,
         UNCHANGED slot \/ (slot' = [slot EXCEPT ![r] = slot'[r]] /\ slot'[r] # "none"),
         slot[r] = "none" => slot'[r] # "none" \/ point = "idle",
         pc[r] \notin Fetching,
         point \in Working => pc[r] \in Working \/ seen[r] = <<>>,
         point \notin Working => seen[r] = <<>>,
         point # "parsed",
         point \in Filing => pc[r] \in Filing \/ Winner(r) = 0
  PROVE  DiskInv'
<1>1. StoresOK' /\ Alone(r) /\ Grows
  BY DEF DiskInv, StoresOK, Alone, Grows, PipeInv, RecordsOK
<1>2. Fixed(r) /\ pc'[r] = point
  BY DEF Fixed, PipeInv, RecordsOK
<1>3. KeptInvOf(r)'
  BY <1>1, <1>2, SameWinner DEF DiskInv, DiskInvOf, KeptInvOf, OfPage, RawKept, PlaceKept, Fetching
<1>4. ArtifactInvOf(r)'
  BY <1>2, SameWinner DEF DiskInv, DiskInvOf, ArtifactInvOf
<1>5. ExecutorInvOf(r)'
  BY <1>2 DEF DiskInv, DiskInvOf, ExecutorInvOf, StoresOK
<1>6. RowsInvOf(r)'
  BY <1>1, RowsStay DEF DiskInv, DiskInvOf
<1> QED BY <1>1, <1>3, <1>4, <1>5, <1>6, RunMoves DEF DiskInvOf

LEMMA DiskLeaves ==
  ASSUME PipeInv, DiskInv, NEW r \in Runs, Leave(r),
         UNCHANGED <<catalog, ledger, canonical, parsed, snapshots, observed>>
  PROVE  DiskInv'
<1>1. StoresOK' /\ Alone(r) /\ Grows
  BY DEF DiskInv, StoresOK, Alone, Grows, PipeInv, RecordsOK, Leave, Goto
<1>2. pc'[r] = "idle" /\ seen'[r] = <<>>
  BY DEF DiskInv, StoresOK, PipeInv, RecordsOK, Leave, Goto
<1>3. KeptInvOf(r)' /\ ArtifactInvOf(r)' /\ ExecutorInvOf(r)'
  BY <1>2, EmptyRows DEF KeptInvOf, ArtifactInvOf, ExecutorInvOf, Results, Filing, Working
<1>4. RowsInvOf(r)'
  BY <1>1, RowsStay DEF DiskInv, DiskInvOf
<1> QED BY <1>1, <1>3, <1>4, RunMoves DEF DiskInvOf

LEMMA DiskCalls ==
  ASSUME PipeInv, DiskInv, NEW r \in Runs,
         BeginRun(r) \/ BeginResume(r) \/ Return(r) \/ Abort(r)
  PROVE  DiskInv'
<1>1. CASE Return(r) \/ Abort(r)
  BY <1>1, DiskLeaves DEF Return, Abort, environment, artifacts, stores
<1>2. CASE BeginResume(r)
  <2>1. PICK point \in {"observe", "return"} : pc' = [pc EXCEPT ![r] = point]
    BY <1>2 DEF BeginResume, Enter, Goto
  <2>2. pc[r] = "idle" /\ seen[r] = <<>>
    BY <1>2 DEF BeginResume, Enter, DiskInv, DiskInvOf, ExecutorInvOf, Working
  <2>3. slot' = [slot EXCEPT ![r] = "resume"] /\ slot'[r] = "resume"
    BY <1>2 DEF BeginResume, Enter, DiskInv, StoresOK
  <2>4. UNCHANGED <<catalog, seen, ledger, canonical, parsed, snapshots, observed>>
    BY <1>2 DEF BeginResume, environment, artifacts, stores
  <2>5. point # "parsed" /\ point \notin Filing /\ pc[r] \notin Fetching
    BY <2>1, <2>2 DEF Filing, Fetching
  <2> QED BY <2>1, <2>2, <2>3, <2>4, <2>5, DiskMoves
<1>3. CASE BeginRun(r)
  <2>1. /\ pc[r] = "idle" /\ seen[r] = <<>> /\ slot'[r] = "run" /\ pc'[r] = "observe"
        /\ DOMAIN pc' = Runs /\ DOMAIN slot' = Runs
    BY <1>3 DEF BeginRun, Enter, Goto, DiskInv, StoresOK, DiskInvOf, ExecutorInvOf, Working,
                PipeInv, RecordsOK
  <2>2. /\ UNCHANGED <<catalog, seen, canonical, parsed, snapshots, observed>>
        /\ ledger'[r].rows = ledger[r].rows
        /\ \A q \in Runs \ {r} : UNCHANGED <<pc[q], slot[q], ledger[q]>>
    BY <1>3 DEF BeginRun, Enter, Goto, DiskInv, StoresOK, environment, artifacts, stores,
                PipeInv, RecordsOK
  <2>3. StoresOK' /\ Alone(r) /\ Grows
    BY <2>1, <2>2 DEF DiskInv, StoresOK, Alone, Grows
  <2>4. KeptInvOf(r)' /\ ArtifactInvOf(r)' /\ ExecutorInvOf(r)'
    BY <2>1, <2>2, EmptyRows DEF KeptInvOf, ArtifactInvOf, ExecutorInvOf, Results, Filing, Working
  <2>5. RowsInvOf(r)'
    BY <2>2, <2>3, RowsStay DEF DiskInv, DiskInvOf
  <2> QED BY <2>3, <2>4, <2>5, RunMoves DEF DiskInvOf
<1> QED BY <1>1, <1>2, <1>3

(* A binding is observed: what is accepted is fetched, and kept next.        *)
LEMMA DiskObserves ==
  ASSUME PipeInv, DiskInv, NEW r \in Runs, Observe(r)
  PROVE  DiskInv'
<1> DEFINE n == Len(seen[r]) + 1
<1>1. PICK result \in Observations(Binding(r, n), file[Key(r)][n]) :
        /\ seen' = [seen EXCEPT ![r] = Append(@, result)]
        /\ IF Fetched(result) THEN Goto(r, "putRaw") ELSE UNCHANGED pc
  BY DEF Observe
<1>2. /\ UNCHANGED <<catalog, slot, ledger, canonical, parsed, snapshots, observed>>
      /\ pc[r] = "observe"
  BY DEF Observe, At, environment, artifacts, stores
<1>3. /\ DOMAIN pc' = Runs /\ pc'[r] \in {"observe", "putRaw"}
      /\ Fetched(result) => pc'[r] = "putRaw"
      /\ \A q \in Runs \ {r} : UNCHANGED <<pc[q], seen[q]>>
      /\ DOMAIN seen' = Runs /\ seen'[r] = Append(seen[r], result)
  BY <1>1, <1>2 DEF Goto, DiskInv, StoresOK, PipeInv, RecordsOK
<1>4. /\ IsRows(seen'[r]) /\ Len(seen'[r]) = n /\ Len(seen[r]) \in Nat
      /\ seen'[r][n] = result /\ \A i \in 1..Len(seen[r]) : seen'[r][i] = seen[r][i]
  <2>1. IsRows(seen[r])
    BY DEF DiskInv, DiskInvOf, ExecutorInvOf
  <2>2. Append(seen[r], result)[Len(seen[r]) + 1] = result
    BY <2>1 DEF IsRows
  <2> QED BY <1>3, <2>1, <2>2, AppendRows
<1>5. StoresOK' /\ Alone(r) /\ Grows
  BY <1>2, <1>3 DEF DiskInv, StoresOK, Alone, Grows
<1>6. Key(r)' = Key(r) /\ \A i : Binding(r, i)' = Binding(r, i)
  BY <1>2 DEF Key, Binding, Ordered, Done
<1>7. KeptInvOf(r)'
  <2> SUFFICES ASSUME NEW i \in 1..n, seen'[r][i].outcome = "accepted"
               PROVE  /\ OfPage(r, i)'
                      /\ RawKept(r, i)' \/ (pc'[r] = "putRaw" /\ i = n)
                      /\ PlaceKept(r, i)' \/ (pc'[r] \in Fetching /\ i = n)
    BY <1>4 DEF KeptInvOf, Results
  <2>1. CASE i = n
    BY <1>1, <1>3, <1>4, <1>6, <2>1, AcceptedIsParsed DEF OfPage, Fetching
  <2>2. CASE i # n
    <3>1. i \in Results(r) /\ seen'[r][i] = seen[r][i]
      BY <1>4, <2>2 DEF Results
    <3>2. OfPage(r, i) /\ RawKept(r, i) /\ PlaceKept(r, i)
      BY <1>2, <3>1 DEF DiskInv, DiskInvOf, KeptInvOf, Fetching
    <3>3. OfPage(r, i)'
      BY <1>6, <3>1, <3>2 DEF OfPage
    <3>4. RawKept(r, i)' /\ PlaceKept(r, i)'
      BY <1>2, <1>6, <3>1, <3>2 DEF RawKept, PlaceKept
    <3> QED BY <3>3, <3>4
  <2> QED BY <2>1, <2>2
<1>8. ArtifactInvOf(r)' /\ ExecutorInvOf(r)'
  <2>1. slot[r] # "none"
    BY <1>2 DEF DiskInv, DiskInvOf, ExecutorInvOf
  <2> QED BY <1>2, <1>3, <1>4, <2>1 DEF ArtifactInvOf, ExecutorInvOf, Filing, Working
<1>9. RowsInvOf(r)'
  BY <1>2, <1>5, RowsStay DEF DiskInv, DiskInvOf
<1> QED BY <1>5, <1>7, <1>8, <1>9, RunMoves DEF DiskInvOf

(* The bytes and then the place of a fetched result are kept; or the store   *)
(* fails and the result no longer counts.                                    *)
LEMMA DiskFetches ==
  ASSUME PipeInv, DiskInv, NEW r \in Runs,
         PutRaw(r) \/ PutObservation(r) \/ SnapshotFails(r)
  PROVE  DiskInv'
<1> DEFINE n == Len(seen[r])
<1>1. /\ UNCHANGED <<catalog, slot, ledger, canonical, parsed>>
      /\ Grows /\ pc[r] \in Fetching
      /\ pc'[r] \in {"putObservation", "observe"} /\ DOMAIN pc' = Runs
      /\ \A q \in Runs \ {r} : UNCHANGED <<pc[q], seen[q]>>
      /\ DOMAIN seen' = Runs
  BY DEF PutRaw, PutObservation, SnapshotFails, At, Goto, Grows, Fetching, DiskInv, StoresOK,
         PipeInv, RecordsOK, environment, artifacts, stores
<1>2. StoresOK' /\ Alone(r)
  BY <1>1 DEF DiskInv, StoresOK, Alone
<1>3. Key(r)' = Key(r) /\ \A i : Binding(r, i)' = Binding(r, i)
  BY <1>1 DEF Key, Binding, Ordered, Done
<1>4. n \in Nat /\ IsRows(seen[r]) /\ slot[r] # "none"
  BY <1>1, RowsLen DEF DiskInv, DiskInvOf, ExecutorInvOf, Fetching
<1>5. IsRows(seen'[r]) /\ KeptInvOf(r)'
  <2>1. CASE PutRaw(r) \/ PutObservation(r)
    <3>1. seen'[r] = seen[r] /\ Fixed(r)
      BY <1>1, <2>1 DEF PutRaw, PutObservation, Fixed
    <3>2. CASE PutRaw(r)
      <4>1. /\ snapshots' = snapshots \cup {seen[r][n].raw} /\ pc[r] = "putRaw"
            /\ pc'[r] = "putObservation" /\ observed' = observed
        BY <3>2 DEF PutRaw, At, Goto, PipeInv, RecordsOK, Last
      <4> QED
        BY <1>3, <1>4, <3>1, <4>1
           DEF DiskInv, DiskInvOf, KeptInvOf, Results, OfPage, RawKept, PlaceKept, Fetching
    <3>3. CASE PutObservation(r)
      <4>1. /\ observed' = observed \cup {<<Key(r), n>>} /\ pc[r] = "putObservation"
            /\ pc'[r] = "observe" /\ snapshots' = snapshots
        BY <3>3 DEF PutObservation, At, Goto, PipeInv, RecordsOK
      <4> QED
        BY <1>3, <1>4, <3>1, <4>1
           DEF DiskInv, DiskInvOf, KeptInvOf, Results, OfPage, RawKept, PlaceKept, Fetching
    <3> QED BY <2>1, <3>2, <3>3
  <2>2. CASE SnapshotFails(r)
    <3>1. PICK raw :
            /\ seen' = [seen EXCEPT ![r][n] =
                          Result("failed", "raw_snapshot_persistence_failure", raw, NoEntry, 0)]
            /\ pc'[r] = "observe" /\ UNCHANGED <<snapshots, observed>>
      BY <2>2 DEF SnapshotFails, Goto, PipeInv, RecordsOK, stores
    <3> DEFINE failed == Result("failed", "raw_snapshot_persistence_failure", raw, NoEntry, 0)
    <3>2. failed.outcome = "failed"
      BY DEF Result
    <3> HIDE DEF failed
    <3>3. seen'[r] = [seen[r] EXCEPT ![n] = failed]
      BY <3>1 DEF DiskInv, StoresOK, failed
    <3>4. IsRows(seen'[r]) /\ Len(seen'[r]) = n
      <4>1. PICK S : seen[r] \in Seq(S)
        BY <1>4 DEF IsRows
      <4>2. seen[r] \in [1..n -> S]
        BY <4>1
      <4>3. seen'[r] \in [1..n -> S \cup {failed}]
        BY <3>3, <4>2
      <4>4. seen'[r] \in Seq(S \cup {failed}) /\ Len(seen'[r]) = n
        BY <1>4, <4>3
      <4> QED BY <4>4 DEF IsRows
    <3>5. ASSUME NEW i \in 1..n
          PROVE  IF i = n THEN seen'[r][i] = failed ELSE seen'[r][i] = seen[r][i]
      <4>1. DOMAIN seen[r] = 1..n
        BY <1>4 DEF IsRows
      <4> QED BY <3>3, <4>1
    <3>6. KeptInvOf(r)'
      BY <1>1, <1>3, <1>4, <3>1, <3>2, <3>4, <3>5
         DEF DiskInv, DiskInvOf, KeptInvOf, Results, OfPage, RawKept, PlaceKept
    <3> QED BY <3>4, <3>6
  <2> QED BY <2>1, <2>2
<1>6. ArtifactInvOf(r)' /\ ExecutorInvOf(r)'
  BY <1>1, <1>4, <1>5 DEF ArtifactInvOf, ExecutorInvOf, Filing, Working
<1>7. RowsInvOf(r)'
  BY <1>1, RowsStay DEF DiskInv, DiskInvOf
<1> QED BY <1>2, <1>5, <1>6, <1>7, RunMoves DEF DiskInvOf

(* The key at hand is none of those the run has rows of.                     *)
LEMMA KeyIsNew ==
  ASSUME PipeInv, NEW r \in Runs, pc[r] \in Working
  PROVE  /\ Key(r) \in Keys
         /\ \A i \in 1..Done(r) : Selection[r][i] \in Keys \ {Key(r)}
<1>1. Done(r) < N(r) /\ Done(r) \in Nat /\ N(r) \in Nat
  BY Sizes, RowsLen DEF PipeInv, LedgerInv, LedgerInvOf, RecordsOK, Done
<1>2. Selection[r] \in Seq(Keys) /\ IsInjective(Selection[r])
  BY ProcessingAssumption
<1>3. \A i, j \in 1..N(r) : Selection[r][i] = Selection[r][j] => i = j
  BY <1>2 DEF IsInjective, N
<1>4. \A i \in 1..N(r) : Selection[r][i] \in Keys
  BY <1>2 DEF N
<1>5. Done(r) + 1 \in 1..N(r) /\ \A i \in 1..Done(r) : i \in 1..N(r) /\ i # Done(r) + 1
  BY <1>1
<1> QED BY <1>3, <1>4, <1>5 DEF Key

(* The canonical and then the parsed artifact of the key at hand is written: *)
(* rows before it have other keys.                                           *)
LEMMA DiskWrites ==
  ASSUME PipeInv, DiskInv, NEW r \in Runs, WriteCanonical(r) \/ WriteParsed(r)
  PROVE  DiskInv'
<1>1. /\ UNCHANGED <<catalog, slot, seen, ledger, snapshots, observed>>
      /\ pc[r] \in {"canonical", "parsed"} /\ pc'[r] \in {"parsed", "review"}
      /\ DOMAIN pc' = Runs /\ Grows
      /\ \A q \in Runs \ {r} : UNCHANGED <<pc[q], canonical[q], parsed[q]>>
  BY DEF WriteCanonical, WriteParsed, At, Goto, Grows, DiskInv, StoresOK, PipeInv, RecordsOK,
         environment, stores
<1>2. /\ Key(r) \in Keys /\ \A i \in 1..Done(r) : Selection[r][i] \in Keys \ {Key(r)}
      /\ Fixed(r) /\ slot[r] # "none"
  BY <1>1, KeyIsNew DEF Working, Fixed, DiskInv, DiskInvOf, ExecutorInvOf
<1>3. StoresOK' /\ Alone(r)
  BY <1>1 DEF DiskInv, StoresOK, Alone, WriteCanonical, WriteParsed
<1>4. /\ \A k \in Keys \ {Key(r)} :
           canonical'[r][k] = canonical[r][k] /\ parsed'[r][k] = parsed[r][k]
      /\ WriteCanonical(r) => canonical'[r][Key(r)] = Won(r).lexeme
      /\ WriteParsed(r) => /\ parsed'[r][Key(r)] = Join(r)
                           /\ canonical'[r][Key(r)] = canonical[r][Key(r)]
  BY <1>2 DEF WriteCanonical, WriteParsed, DiskInv, StoresOK
<1>5. KeptInvOf(r)' /\ ExecutorInvOf(r)'
  BY <1>1, <1>2, SameWinner
     DEF DiskInv, DiskInvOf, KeptInvOf, ExecutorInvOf, OfPage, RawKept, PlaceKept, Fetching, Working
<1>6. ArtifactInvOf(r)'
  <2>1. CASE WriteCanonical(r)
    <3>1. pc'[r] = "parsed"
      BY <2>1 DEF WriteCanonical, Goto, PipeInv, RecordsOK
    <3> QED BY <1>2, <1>4, <2>1, <3>1, SameWinner DEF ArtifactInvOf, Filing
  <2>2. CASE WriteParsed(r)
    <3>1. pc'[r] = "review" /\ canonical[r][Key(r)] = Won(r).lexeme
      BY <2>2 DEF WriteParsed, At, Goto, PipeInv, RecordsOK, DiskInv, DiskInvOf, ArtifactInvOf
    <3> QED BY <1>2, <1>4, <2>2, <3>1, SameWinner DEF ArtifactInvOf
  <2> QED BY <2>1, <2>2
<1>7. RowsInvOf(r)'
  <2> SUFFICES ASSUME NEW i \in 1..Done(r) PROVE RowExplained(r, i)'
    BY <1>1 DEF RowsInvOf, Done
  <2>1. RowExplained(r, i) /\ Selection[r][i] \in Keys \ {Key(r)}
    BY <1>2 DEF DiskInv, DiskInvOf, RowsInvOf
  <2> QED BY <1>1, <1>4, <2>1 DEF RowExplained, Joined, Ordered
<1> QED BY <1>3, <1>5, <1>6, <1>7, RunMoves DEF DiskInvOf

LEMMA DiskKeySteps ==
  ASSUME PipeInv, DiskInv, NEW r \in Runs, KeyStep(r)
  PROVE  DiskInv'
<1>1. CASE Clash(r) \/ RefuseReview(r) \/ (CheckReview(r) /\ Refuse(r))
  <2>1. Refuse(r)
    BY <1>1 DEF Clash, RefuseReview
  <2> QED BY <2>1, DiskLeaves DEF Refuse, environment, artifacts, stores
<1>2. CASE FindReview(r)
  BY <1>2, DiskStays DEF FindReview, environment, artifacts, stores
<1>3. ASSUME NEW point, point \in Filing, pc' = [pc EXCEPT ![r] = point],
             pc[r] \in Filing \/ (pc[r] = "observe" /\ Winner(r) = 0),
             UNCHANGED <<catalog, slot, seen, ledger, canonical, parsed, snapshots, observed>>
      PROVE  DiskInv'
  <2>1. slot[r] # "none"
    BY <1>3 DEF DiskInv, DiskInvOf, ExecutorInvOf, Filing
  <2> QED BY <1>3, <2>1, DiskMoves DEF Filing, Fetching, Working
<1>4. CASE Observe(r) \/ PutRaw(r) \/ PutObservation(r) \/ SnapshotFails(r)
  BY <1>4, DiskObserves, DiskFetches
<1>5. CASE WriteCanonical(r) \/ WriteParsed(r)
  BY <1>5, DiskWrites
<1>6. CASE Choose(r)
  <2>1. /\ UNCHANGED <<catalog, slot, seen, ledger, canonical, parsed, snapshots, observed>>
        /\ pc[r] = "observe"
        /\ pc' = [pc EXCEPT ![r] = IF Winner(r) # 0 THEN "canonical" ELSE "review"]
    BY <1>6 DEF Choose, At, Goto, environment, artifacts, stores
  <2>2. CASE Winner(r) = 0
    BY <1>3, <2>1, <2>2 DEF Filing
  <2>3. CASE Winner(r) # 0
    <3>1. slot[r] # "none" /\ pc' = [pc EXCEPT ![r] = "canonical"]
      BY <2>1, <2>3 DEF DiskInv, DiskInvOf, ExecutorInvOf
    <3> QED BY <2>1, <3>1, DiskMoves DEF Filing, Fetching, Working
  <2> QED BY <2>2, <2>3
<1>7. CASE MissReview(r)
  BY <1>3, <1>7 DEF MissReview, At, Goto, Filing, environment, artifacts, stores
<1>8. CASE CheckReview(r) /\ ~Refuse(r)
  BY <1>3, <1>8 DEF CheckReview, At, Goto, Filing, environment, artifacts, stores
<1>9. CASE PutReview(r)
  BY <1>3, <1>9 DEF PutReview, At, Goto, Filing, environment, artifacts, stores
<1>10. CASE AllFiled(r)
  BY <1>3, <1>10 DEF AllFiled, At, Goto, Filing, environment, artifacts, stores
<1> QED
  BY <1>1, <1>2, <1>4, <1>5, <1>6, <1>7, <1>8, <1>9, <1>10 DEF KeyStep

(* The row that is appended is explained by what was written before it.      *)
LEMMA DiskCommits ==
  ASSUME PipeInv, DiskInv, NEW r \in Runs, WriteOutcomes(r)
  PROVE  DiskInv'
<1> DEFINE row == Row(r)
           n   == Done(r) + 1
<1>1. /\ UNCHANGED <<catalog, slot, canonical, parsed, snapshots, observed>>
      /\ pc[r] = "outcomes" /\ pc'[r] = "attempts" /\ DOMAIN pc' = Runs
      /\ seen'[r] = <<>> /\ DOMAIN seen' = Runs
      /\ ledger'[r].rows = Append(ledger[r].rows, row)
      /\ \A q \in Runs \ {r} : UNCHANGED <<pc[q], seen[q], ledger[q]>>
  BY DEF WriteOutcomes, At, Goto, DiskInv, StoresOK, PipeInv, RecordsOK, environment, artifacts,
         stores
<1>2. row.winner = Winner(r)
  BY DEF Row
<1> HIDE DEF row
<1>3. /\ Done(r)' = n /\ Done(r) \in Nat
      /\ \A i \in 1..Done(r) : ledger'[r].rows[i] = ledger[r].rows[i]
      /\ ledger'[r].rows[n] = row
  <2>1. IsRows(ledger[r].rows)
    BY DEF PipeInv, RecordsOK
  <2>2. Append(ledger[r].rows, row)[Len(ledger[r].rows) + 1] = row
    BY <2>1 DEF IsRows
  <2> QED BY <1>1, <2>1, <2>2, AppendRows DEF Done
<1>4. StoresOK' /\ Alone(r)
  BY <1>1 DEF DiskInv, StoresOK, Alone, Grows
<1>5. KeptInvOf(r)' /\ ArtifactInvOf(r)' /\ ExecutorInvOf(r)'
  <2>1. slot[r] # "none"
    BY <1>1 DEF DiskInv, DiskInvOf, ExecutorInvOf
  <2> QED
    BY <1>1, <2>1, EmptyRows
       DEF KeptInvOf, ArtifactInvOf, ExecutorInvOf, Results, Filing, Working
<1>6. RowsInvOf(r)'
  <2> SUFFICES ASSUME NEW i \in 1..n PROVE RowExplained(r, i)'
    BY <1>3 DEF RowsInvOf
  <2>1. CASE i # n
    <3>1. i \in 1..Done(r) /\ RowExplained(r, i)
      BY <1>3, <2>1 DEF DiskInv, DiskInvOf, RowsInvOf
    <3> QED BY <1>1, <1>3, <3>1 DEF RowExplained, Joined, Ordered
  <2>2. CASE i = n /\ Winner(r) # 0
    <3>1. /\ Winner(r) \in Results(r) /\ Binding(r, Winner(r)).official
          /\ Won(r).outcome = "accepted"
      BY <2>2, WinnerWon DEF DiskInv, DiskInvOf, ExecutorInvOf
    <3>2. /\ OfPage(r, Winner(r)) /\ RawKept(r, Winner(r)) /\ PlaceKept(r, Winner(r))
      BY <1>1, <3>1 DEF DiskInv, DiskInvOf, KeptInvOf, Won, Fetching
    <3>3. canonical[r][Key(r)] = Won(r).lexeme /\ parsed[r][Key(r)] = Join(r)
      BY <1>1, <2>2 DEF DiskInv, DiskInvOf, ArtifactInvOf, Filing
    <3>4. Key(r) = Selection[r][n]
      BY DEF Key
    <3>5. Joined(r, Key(r), row)
      BY <1>2, <3>2, <3>3 DEF Joined, OfPage, RawKept, PlaceKept, Binding, Won, Join
    <3>6. Ordered(Key(r))[Winner(r)].official
      BY <3>1 DEF Binding
    <3>7. \A k : Ordered(k)' = Ordered(k)
      BY <1>1 DEF Ordered
    <3>8. ledger'[r].rows[i] = row /\ Selection[r][i] = Key(r)
      BY <1>3, <2>2, <3>4
    <3> QED
      BY <1>1, <1>2, <3>5, <3>6, <3>7, <3>8 DEF RowExplained, Joined
  <2>3. CASE i = n /\ Winner(r) = 0
    BY <1>2, <1>3, <2>3 DEF RowExplained
  <2> QED BY <2>1, <2>2, <2>3
<1> QED BY <1>4, <1>5, <1>6, RunMoves DEF DiskInvOf

(* The other documents of the revision do not disturb what is on disk.       *)
LEMMA DiskDocuments ==
  ASSUME PipeInv, DiskInv, NEW r \in Runs,
         WriteAttempts(r) \/ WriteCheckpoint(r) \/ WriteReport(r) \/ WriteStatus(r)
  PROVE  DiskInv'
<1>1. /\ UNCHANGED <<catalog, slot, seen, canonical, parsed, snapshots, observed>>
      /\ ledger'[r].rows = ledger[r].rows
      /\ pc[r] \in {"attempts", "checkpoint", "report", "status"}
      /\ pc'[r] \notin Filing \cup Fetching \cup {"parsed", "idle"} /\ DOMAIN pc' = Runs
      /\ \A q \in Runs \ {r} : UNCHANGED <<pc[q], ledger[q]>>
  BY DEF WriteAttempts, WriteCheckpoint, WriteReport, WriteStatus, At, Goto, Filing, Fetching,
         PipeInv, RecordsOK, environment, artifacts, stores
<1>2. seen[r] = <<>> /\ slot[r] # "none"
  BY <1>1 DEF DiskInv, DiskInvOf, ExecutorInvOf, Working
<1>3. StoresOK' /\ Alone(r) /\ Grows
  BY <1>1 DEF DiskInv, StoresOK, Alone, Grows
<1>4. KeptInvOf(r)' /\ ArtifactInvOf(r)' /\ ExecutorInvOf(r)'
  BY <1>1, <1>2, EmptyRows DEF KeptInvOf, ArtifactInvOf, ExecutorInvOf, Results, Filing
<1>5. RowsInvOf(r)'
  BY <1>1, <1>3, RowsStay DEF DiskInv, DiskInvOf
<1> QED BY <1>3, <1>4, <1>5, RunMoves DEF DiskInvOf

LEMMA DiskNext == PipeInv /\ DiskInv /\ [Next]_vars => DiskInv'
<1> SUFFICES ASSUME PipeInv, DiskInv, [Next]_vars PROVE DiskInv'
  OBVIOUS
<1>1. CASE UNCHANGED vars
  BY <1>1, DiskStays DEF vars, processing, environment, executor, artifacts, stores
<1>2. CASE ProcessingNext
  <2>1. CASE ChangeFixture
    BY <2>1, DiskStays DEF ChangeFixture, executor, artifacts, stores
  <2>2. ASSUME NEW r \in Runs, ExecutorStep(r) PROVE DiskInv'
    <3>1. CASE CommitStep(r)
      BY <3>1, DiskCommits, DiskDocuments DEF CommitStep
    <3> QED BY <2>2, <3>1, DiskCalls, DiskKeySteps DEF ExecutorStep
  <2> QED BY <1>2, <2>1, <2>2 DEF ProcessingNext
<1>3. ASSUME NEW p \in Reviewers, Load(p) \/ Decide(p) PROVE DiskInv'
  <2>1. UNCHANGED <<environment, executor, ledger, artifacts, snapshots, observed>>
    BY <1>3 DEF Load, Decide, processing, stores
  <2> QED BY <2>1, DiskStays DEF environment, executor, artifacts
<1>4. ASSUME NEW e \in Evaluators, EvaluatorStep(e) PROVE DiskInv'
  <2>1. UNCHANGED <<environment, executor, ledger, artifacts, stores>>
    BY <1>4 DEF EvaluatorStep, ReadReport, ReadCheckpoint, ReadOutcomes, ReadAttempts,
         ReadStatus, ReadReviews, OnlyRead, WriteIneligible, StageCandidate,
         StageEvaluation, ReplaceCandidate, ReplaceEvaluation, CommitFails,
         EvaluatorDies, Elsewhere, processing
  <2> QED BY <2>1, DiskStays DEF environment, executor, artifacts, stores
<1> QED BY <1>1, <1>2, <1>3, <1>4 DEF Next

(* However often the processing of a key is cut or refused, whatever its     *)
(* fixtures do in between and whichever other runs share the stores, a       *)
(* committed row that an official won is explained by its artifacts, its raw *)
(* bytes and its observation (_process_record, _write_immutable).            *)
THEOREM RowsAreExplained == Spec => []ArtifactsExplainRow
<1>1. DiskInv => ArtifactsExplainRow
  BY DEF DiskInv, DiskInvOf, RowsInvOf, RowExplained, ArtifactsExplainRow
<1> QED BY <1>1, PipeInit, PipeNext, DiskInit, DiskNext, PTL DEF Spec

-----------------------------------------------------------------------------
(* Decisions. *)

Once(history) ==
  \A m, n \in 1..Len(history) : SameKey(history[m], history[n]) => m = n

(* A record a reviewer has read has decisions of different keys, and none    *)
(* with the key of the decision to be appended, whatever was decided since.  *)
HistoryOK(v) == DOMAIN v = {"id", "evidence", "history"} /\ IsRows(v.history) /\ Once(v.history)
DeskOK(p)    == desk[p].busy => HistoryOK(desk[p].review) /\ ~Prior(desk[p].review, desk[p].event)
DecisionInv  ==
  /\ \A v \in reviews : HistoryOK(v)
  /\ DOMAIN desk = Reviewers /\ \A p \in Reviewers : DeskOK(p)

LEMMA DecisionInit == Init => DecisionInv
BY DEF Init, ProcessingInit, DecisionInv, DeskOK, Idle

LEMMA DecidedStays ==
  ASSUME DecisionInv, UNCHANGED <<reviews, desk>>
  PROVE  DecisionInv'
BY DEF DecisionInv, DeskOK, HistoryOK, Prior

LEMMA OnceMore ==
  ASSUME NEW v, HistoryOK(v), NEW event, ~Prior(v, event)
  PROVE  HistoryOK([v EXCEPT !.history = Append(@, event)])
<1> DEFINE h == Append(v.history, event)
           n == Len(v.history)
<1>1. /\ IsRows(h) /\ Len(h) = n + 1 /\ n \in Nat
      /\ \A i \in 1..n : h[i] = v.history[i]
  BY AppendRows DEF HistoryOK
<1>2. h[n + 1] = event
  BY DEF HistoryOK, IsRows
<1>3. \A i \in 1..n : ~SameKey(v.history[i], event) /\ ~SameKey(event, v.history[i])
  BY DEF Prior, SameKey
<1>4. Once(h)
  <2> SUFFICES ASSUME NEW i \in 1..n + 1, NEW j \in 1..n + 1, SameKey(h[i], h[j]), i # j
               PROVE  FALSE
    BY <1>1 DEF Once
  <2>1. CASE i \in 1..n /\ j \in 1..n
    <3>1. SameKey(v.history[i], v.history[j])
      BY <1>1, <2>1
    <3> QED BY <2>1, <3>1 DEF HistoryOK, Once
  <2>2. CASE i = n + 1 /\ j \in 1..n
    BY <1>1, <1>2, <1>3, <2>2
  <2>3. CASE j = n + 1 /\ i \in 1..n
    BY <1>1, <1>2, <1>3, <2>3
  <2> QED BY <1>1, <2>1, <2>2, <2>3
<1> HIDE DEF h
<1>5. [v EXCEPT !.history = h].history = h /\ DOMAIN [v EXCEPT !.history = h] = DOMAIN v
  BY DEF HistoryOK
<1> QED BY <1>1, <1>4, <1>5 DEF HistoryOK, h

LEMMA LoadDecided ==
  ASSUME DecisionInv, NEW p \in Reviewers, Load(p)
  PROVE  DecisionInv'
<1>1. PICK v, event :
        /\ v \in reviews /\ ~Prior(v, event)
        /\ desk' = [desk EXCEPT ![p] = [busy |-> TRUE, review |-> v, event |-> event]]
  BY DEF Load
<1>2. reviews' = reviews
  BY DEF Load, processing, stores
<1> QED BY <1>1, <1>2 DEF DecisionInv, DeskOK, Prior, HistoryOK

LEMMA DecideDecided ==
  ASSUME DecisionInv, NEW p \in Reviewers, Decide(p)
  PROVE  DecisionInv'
<1> DEFINE new == [desk[p].review EXCEPT !.history = Append(@, desk[p].event)]
<1>1. HistoryOK(new)
  BY OnceMore DEF DecisionInv, DeskOK, Decide
<1> HIDE DEF new
<1>2. reviews' \subseteq reviews \cup {new} /\ desk' = [desk EXCEPT ![p] = Idle]
  BY DEF Decide, Replace, new
<1>3. \A v \in reviews' : HistoryOK(v)
  BY <1>1, <1>2 DEF DecisionInv
<1>4. ASSUME NEW q \in Reviewers PROVE DeskOK(q)'
  BY <1>2 DEF DecisionInv, DeskOK, Idle, Prior, HistoryOK
<1> QED BY <1>2, <1>3, <1>4 DEF DecisionInv

(* Reviews and the desks change by a decision, or by a review being filed.    *)
LEMMA ReviewSteps ==
  ASSUME [Next]_vars
  PROVE  \/ UNCHANGED <<reviews, desk>>
         \/ \E p \in Reviewers : Load(p) \/ Decide(p)
         \/ \E r \in Runs : PutReview(r) /\ UNCHANGED desk
<1>1. CASE UNCHANGED vars
  BY <1>1 DEF vars, processing, stores, deciding
<1>2. ASSUME ProcessingNext, UNCHANGED desk
      PROVE  UNCHANGED reviews \/ \E r \in Runs : PutReview(r)
  <2>1. CASE ChangeFixture
    BY <2>1 DEF ChangeFixture, stores
  <2>2. ASSUME NEW r \in Runs, ExecutorStep(r) PROVE UNCHANGED reviews \/ PutReview(r)
    <3>1. CASE KeyStep(r)
      BY <3>1 DEF KeyStep, Observe, PutRaw, PutObservation, SnapshotFails, Choose,
         WriteCanonical, WriteParsed, Clash, FindReview, RefuseReview, MissReview,
         CheckReview, AllFiled, Refuse, stores
    <3>2. CASE CommitStep(r)
      BY <3>2 DEF CommitStep, WriteOutcomes, WriteAttempts, WriteCheckpoint, WriteReport,
         WriteStatus, stores
    <3>3. CASE BeginRun(r) \/ BeginResume(r) \/ Return(r) \/ Abort(r)
      BY <3>3 DEF BeginRun, BeginResume, Return, Abort, stores
    <3> QED BY <2>2, <3>1, <3>2, <3>3 DEF ExecutorStep
  <2> QED BY <1>2, <2>1, <2>2 DEF ProcessingNext
<1>3. ASSUME NEW e \in Evaluators, EvaluatorStep(e) PROVE UNCHANGED <<reviews, desk>>
  BY <1>3 DEF EvaluatorStep, ReadReport, ReadCheckpoint, ReadOutcomes, ReadAttempts,
     ReadStatus, ReadReviews, OnlyRead, WriteIneligible, StageCandidate,
     StageEvaluation, ReplaceCandidate, ReplaceEvaluation, CommitFails,
     EvaluatorDies, Elsewhere, processing, stores, deciding
<1> QED BY <1>1, <1>2, <1>3 DEF Next, deciding

LEMMA DecisionNext == DecisionInv /\ [Next]_vars => DecisionInv'
<1> SUFFICES ASSUME DecisionInv, [Next]_vars PROVE DecisionInv'
  OBVIOUS
<1>1. CASE UNCHANGED <<reviews, desk>>
  BY <1>1, DecidedStays
<1>2. ASSUME NEW p \in Reviewers, Load(p) \/ Decide(p) PROVE DecisionInv'
  BY <1>2, LoadDecided, DecideDecided
<1>3. ASSUME NEW r \in Runs, PutReview(r), UNCHANGED desk PROVE DecisionInv'
  <2>1. reviews' \subseteq reviews \cup {Undecided(Petition(r))}
    BY <1>3 DEF PutReview, Replace
  <2>2. HistoryOK(Undecided(Petition(r)))
    BY EmptyRows DEF Undecided, HistoryOK, Once
  <2>3. \A v \in reviews' : HistoryOK(v)
    BY <2>1, <2>2 DEF DecisionInv
  <2> QED BY <1>3, <2>3 DEF DecisionInv, DeskOK, Prior, HistoryOK
<1> QED BY <1>1, <1>2, <1>3, ReviewSteps

(* However decisions of several reviewers and the filing of new reviews      *)
(* interleave, no review holds two decisions with one idempotency key        *)
(* (ReviewStore.decide).                                                     *)
THEOREM DecidedOncePerKey == Spec => []OneDecisionPerKey
<1>1. DecisionInv => OneDecisionPerKey
  BY DEF DecisionInv, HistoryOK, Once, OneDecisionPerKey
<1> QED BY <1>1, DecisionInit, DecisionNext, PTL DEF Spec

-----------------------------------------------------------------------------
(* Types.  An executor has no more results than the key has bindings, and    *)
(* writes a canonical artifact only for a winner.                            *)

(* Putting the officials first loses no binding and makes up none.           *)
LEMMA OfficialsAreBindings ==
  ASSUME NEW bindings \in Seq(Bindings)
  PROVE  /\ OfficialsFirst(bindings) \in Seq(Bindings)
         /\ Len(OfficialsFirst(bindings)) = Len(bindings)
<1> DEFINE n == Len(bindings)
           R == {p \in (1..n) \X (1..n) :
                   \/ bindings[p[1]].official /\ ~bindings[p[2]].official
                   \/ p[1] < p[2] /\ ~(bindings[p[2]].official /\ ~bindings[p[1]].official)}
<1>1. OfficialsFirst(bindings) = Arranged(bindings, R)
  BY DEF OfficialsFirst, Sorted, Positions
<1>2. n \in Nat
  OBVIOUS
<1>3. StrictOrder(R, 1..n)
  <2>1. \A i, j \in 1..n :
          <<i, j>> \in R <=> \/ bindings[i].official /\ ~bindings[j].official
                             \/ i < j /\ ~(bindings[j].official /\ ~bindings[i].official)
    OBVIOUS
  <2> HIDE DEF R
  <2> QED BY <1>2, <2>1 DEF StrictOrder
<1> HIDE DEF R
<1>4. PICK at \in [1..n -> 1..n] : Arranged(bindings, R) = [m \in 1..n |-> bindings[at[m]]]
  <2>1. \E at \in Rearrangements(Len(bindings)) : Arranges(at, bindings, R)
    BY <1>3, Arranging
  <2> QED BY <2>1 DEF Arranges, Rearrangements, Rearranged
<1>5. [m \in 1..n |-> bindings[at[m]]] \in [1..n -> Bindings]
  OBVIOUS
<1> QED BY <1>1, <1>2, <1>4, <1>5

LEMMA OrderedAreBindings ==
  ASSUME catalog \in Catalogs, NEW k \in Keys
  PROVE  Ordered(k) \in Seq(Bindings)
BY OfficialsAreBindings, ProcessingAssumption DEF Ordered

(* An observation gives a result, of bytes the store names if any came.      *)
LEMMA ObservedIsTyped ==
  ASSUME NEW b \in Bindings, NEW state, NEW result \in Observations(b, state)
  PROVE  result \in ResultSet /\ (Fetched(result) => result.raw \in Raws)
<1>1. ASSUME NEW outcome \in Outcomes, NEW raw \in RawNames, NEW lexeme \in Lexemes \cup {NoEntry},
             NEW delay \in 0..2,
             NEW code \in {"none", "transport_exhausted", "transport_permanent",
                           "transport_retryable", "transport_timeout", "fixture_read_error",
                           "raw_hash_mismatch", "parse_failure", "suspect_entry",
                           "deterministic_validation_failure",
                           "raw_snapshot_persistence_failure"}
      PROVE  /\ Result(outcome, code, raw, lexeme, delay) \in ResultSet
             /\ Result(outcome, code, raw, lexeme, delay).code = code
             /\ Result(outcome, code, raw, lexeme, delay).raw = raw
  BY DEF Result, ResultSet
<1>2. b.raw \in Raws /\ b.page \in Pages /\ NoEntry \in Lexemes \cup {NoEntry}
      /\ NoRaw \in RawNames /\ AlteredRaw \in RawNames /\ b.raw \in RawNames
  BY DEF Bindings, RawNames
<1>3. CASE result \in Unfetched(b) /\ Transport(b) # "read"
  <2>1. PICK d \in Delays(b), outcome \in {"retryable", "failed"} :
          result = Result(outcome, Transport(b), NoRaw, NoEntry, d)
    BY <1>3 DEF Unfetched
  <2>2. d \in 0..2
    BY DEF Delays
  <2>3. Transport(b) \in {"transport_exhausted", "transport_permanent", "transport_retryable",
                          "transport_timeout"}
    BY <1>3 DEF Transport
  <2>4. outcome \in Outcomes
    BY DEF Outcomes
  <2> QED BY <1>1, <1>2, <2>1, <2>2, <2>3, <2>4 DEF Fetched
<1>4. CASE result \in {Result("rejected", "fixture_read_error", NoRaw, NoEntry, 0),
                      Result("rejected", "raw_hash_mismatch", AlteredRaw, NoEntry, 0)}
  <2>1. "rejected" \in Outcomes
    BY DEF Outcomes
  <2> QED BY <1>1, <1>2, <1>4, <2>1 DEF Fetched
<1>5. CASE result = Parsed(b)
  <2>1. /\ {"rejected", "quarantined", "accepted"} \subseteq Outcomes
        /\ 0 \in 0..2
    BY DEF Outcomes
  <2>2. \/ result = Result("rejected", "parse_failure", b.raw, NoEntry, 0)
        \/ result = Result("quarantined", "suspect_entry", b.raw, NoEntry, 0)
        \/ result = Result("rejected", "deterministic_validation_failure", b.raw, NoEntry, 0)
        \/ b.page \in Lexemes /\ result = Result("accepted", "none", b.raw, b.page, 0)
    BY <1>2, <1>5 DEF Parsed, Pages
  <2>3. PICK outcome \in {"rejected", "quarantined", "accepted"},
             code \in {"none", "parse_failure", "suspect_entry", "deterministic_validation_failure"},
             lexeme \in Lexemes \cup {NoEntry} :
               result = Result(outcome, code, b.raw, lexeme, 0)
    BY <1>2, <2>2
  <2>4. result \in ResultSet /\ result.raw = b.raw
    <3>1. outcome \in Outcomes /\ b.raw \in RawNames /\ 0 \in 0..2
      BY <1>2, <2>1, <2>3
    <3>2. /\ Result(outcome, code, b.raw, lexeme, 0) \in ResultSet
          /\ Result(outcome, code, b.raw, lexeme, 0).raw = b.raw
      BY <1>1, <3>1
    <3> QED BY <2>3, <3>2
  <2> QED BY <1>2, <2>4
<1> QED BY <1>3, <1>4, <1>5 DEF Observations

(* The room there is for results: the bindings of a key, in their order.     *)
SeenTyped(r) ==
  /\ seen[r] \in Seq(ResultSet)
  /\ pc[r] \in Working => Len(seen[r]) <= Len(Ordered(Key(r)))
  /\ pc[r] \in Fetching => seen[r] # <<>> /\ Last(seen[r]).raw \in Raws
  /\ pc[r] = "canonical" => Winner(r) # 0
LedgerTyped(r) ==
  /\ \A i \in 1..Done(r) : DOMAIN ledger[r].rows[i] = {"outcome", "winner", "review"}
  /\ ledger[r].checkpoint \in 0..N(r)
  /\ {ledger[r].report, ledger[r].status} \subseteq Stamps(r)
RunTyped(r) ==
  /\ filed[r] \in Nat /\ SeenTyped(r) /\ LedgerTyped(r)
  /\ canonical[r] \in [Keys -> Lexemes \cup {NoEntry}]
CallsTyped == slot \in [Runs -> {"none", "run", "resume"}] /\ pc \in [Runs -> Points]
StoresTyped ==
  /\ snapshots \subseteq Raws /\ observed \subseteq Keys \X Nat /\ refused \subseteq Runs
TypeInv ==
  /\ catalog \in Catalogs /\ DOMAIN filed = Runs
  /\ CallsTyped /\ StoresTyped /\ \A r \in Runs : RunTyped(r)

(* The key at hand is one of the catalog. *)
LEMMA KeyIsKey ==
  ASSUME NEW r \in Runs, IsRows(ledger[r].rows), Done(r) < N(r)
  PROVE  Key(r) \in Keys
<1>1. Selection[r] \in Seq(Keys)
  BY ProcessingAssumption
<1>2. Done(r) + 1 \in 1..Len(Selection[r])
  BY <1>1, RowsLen DEF Done, N
<1> QED BY <1>1, <1>2 DEF Key

LEMMA TypeInit == Init => TypeInv
<1> SUFFICES ASSUME Init PROVE TypeInv
  OBVIOUS
<1> USE DEF Init, ProcessingInit
<1>1. StoresTyped /\ CallsTyped /\ catalog \in Catalogs /\ DOMAIN filed = Runs
  BY DEF StoresTyped, CallsTyped, Points
<1>2. ASSUME NEW r \in Runs PROVE RunTyped(r)
  <2>1. seen[r] = <<>> /\ pc[r] = "idle" /\ slot[r] = "none" /\ filed[r] = 0 /\ ledger[r] = NoLedger
        /\ canonical[r] = [k \in Keys |-> NoEntry]
    OBVIOUS
  <2>2. SeenTyped(r)
    BY <2>1 DEF SeenTyped, Working, Fetching
  <2>3. LedgerTyped(r)
    <3>1. N(r) \in Nat /\ Done(r) = 0
      BY <2>1, Sizes DEF Done, NoLedger
    <3> QED BY <2>1, <3>1 DEF LedgerTyped, NoLedger, Stamps, States
  <2> QED BY <2>1, <2>2, <2>3 DEF RunTyped
<1> QED BY <1>1, <1>2 DEF TypeInv

(* A step of one run leaves the types of another alone. *)
Own(r) == <<catalog, pc[r], seen[r], filed[r], ledger[r], canonical[r]>>

LEMMA TypedStays ==
  ASSUME NEW r \in Runs, RunTyped(r), UNCHANGED Own(r)
  PROVE  RunTyped(r)'
<1>1. /\ Key(r)' = Key(r) /\ Winner(r)' = Winner(r) /\ Done(r)' = Done(r)
      /\ \A k : Ordered(k)' = Ordered(k)
  BY SameWinner DEF Own, Fixed, Key, Done, Ordered
<1>2. SeenTyped(r)'
  BY <1>1 DEF Own, RunTyped, SeenTyped
<1>3. LedgerTyped(r)'
  BY <1>1 DEF Own, RunTyped, LedgerTyped, N, Stamps
<1> QED BY <1>2, <1>3 DEF Own, RunTyped

LEMMA TypedMoves ==
  ASSUME TypeInv, UNCHANGED catalog, DOMAIN filed' = Runs, StoresTyped', CallsTyped',
         NEW r \in Runs, RunTyped(r)',
         \A q \in Runs \ {r} : UNCHANGED <<pc[q], seen[q], filed[q], ledger[q], canonical[q]>>
  PROVE  TypeInv'
<1>1. ASSUME NEW q \in Runs PROVE RunTyped(q)'
  <2>1. CASE q # r
    BY <2>1, TypedStays DEF TypeInv, Own
  <2> QED BY <2>1
<1> QED BY <1>1 DEF TypeInv

(* A step that changes no variable of TypeInv. *)
LEMMA TypedRests ==
  ASSUME TypeInv, UNCHANGED <<catalog, slot, pc, seen, filed, ledger, canonical, snapshots, observed, refused>>
  PROVE  TypeInv'
<1>1. ASSUME NEW r \in Runs PROVE RunTyped(r)'
  BY TypedStays DEF TypeInv, Own
<1> QED BY <1>1 DEF TypeInv, StoresTyped, CallsTyped

(* A step that moves one executor and may file a review. *)
LEMMA TypedGoes ==
  ASSUME TypeInv, PipeInv, NEW r \in Runs, NEW point \in Points,
         UNCHANGED <<catalog, slot, seen, ledger, canonical>>, StoresTyped',
         pc' = [pc EXCEPT ![r] = point],
         \/ UNCHANGED filed
         \/ filed' = [filed EXCEPT ![r] = @ + 1],
         point \in Working => pc[r] \in Working,
         point \in Fetching => pc[r] \in Fetching,
         point = "canonical" => Winner(r) # 0
  PROVE  TypeInv'
<1>1. /\ RunTyped(r) /\ pc'[r] = point /\ filed'[r] \in Nat /\ DOMAIN filed' = Runs
      /\ \A q \in Runs \ {r} : pc'[q] = pc[q] /\ filed'[q] = filed[q]
  BY DEF TypeInv, PipeInv, RecordsOK, RunTyped
<1>2. /\ Key(r)' = Key(r) /\ Winner(r)' = Winner(r) /\ Done(r)' = Done(r)
      /\ \A k : Ordered(k)' = Ordered(k)
  BY SameWinner DEF Fixed, Key, Done, Ordered
<1>3. SeenTyped(r)'
  BY <1>1, <1>2 DEF RunTyped, SeenTyped
<1>4. LedgerTyped(r)'
  BY <1>1, <1>2 DEF RunTyped, LedgerTyped, N, Stamps
<1>5. RunTyped(r)'
  BY <1>1, <1>3, <1>4 DEF RunTyped
<1>6. CallsTyped'
  BY DEF TypeInv, CallsTyped
<1> QED BY <1>1, <1>5, <1>6, TypedMoves

LEMMA TypedLeaves ==
  ASSUME TypeInv, PipeInv, DiskInv, NEW r \in Runs, Leave(r),
         UNCHANGED <<catalog, ledger, canonical>>, StoresTyped'
  PROVE  TypeInv'
<1>1. /\ RunTyped(r) /\ slot'[r] = "none" /\ pc'[r] = "idle" /\ seen'[r] = <<>> /\ filed'[r] = 0
      /\ DOMAIN filed' = Runs
      /\ \A q \in Runs \ {r} : UNCHANGED <<slot[q], pc[q], seen[q], filed[q]>>
  BY DEF TypeInv, PipeInv, RecordsOK, DiskInv, StoresOK, Leave, Goto
<1>2. SeenTyped(r)'
  BY <1>1 DEF SeenTyped, Working, Fetching
<1>3. LedgerTyped(r)'
  BY <1>1 DEF RunTyped, LedgerTyped, N, Stamps, Done
<1>4. RunTyped(r)'
  BY <1>1, <1>2, <1>3 DEF RunTyped
<1>5. CallsTyped'
  BY DEF TypeInv, CallsTyped, Leave, Goto, Points
<1> QED BY <1>1, <1>4, <1>5, TypedMoves

LEMMA TypedCalls ==
  ASSUME TypeInv, PipeInv, DiskInv, NEW r \in Runs,
         BeginRun(r) \/ BeginResume(r) \/ Return(r) \/ Abort(r) \/ Refuse(r)
  PROVE  TypeInv'
<1>1. CASE Return(r) \/ Abort(r) \/ Refuse(r)
  <2>1. Leave(r) /\ UNCHANGED <<catalog, ledger, canonical>> /\ StoresTyped'
    BY <1>1 DEF Return, Abort, Refuse, TypeInv, StoresTyped, environment, artifacts, stores
  <2> QED BY <2>1, TypedLeaves
<1>2. CASE BeginRun(r) \/ BeginResume(r)
  <2>1. PICK kind \in {"run", "resume"}, point \in {"observe", "return"} :
          /\ slot[r] = "none" /\ slot' = [slot EXCEPT ![r] = kind]
          /\ pc' = [pc EXCEPT ![r] = point]
          /\ point = "observe" => kind = "run" \/ Done(r) # N(r)
    BY <1>2 DEF BeginRun, BeginResume, Enter, Goto
  <2>2. UNCHANGED <<catalog, seen, filed, canonical>> /\ StoresTyped'
    BY <1>2 DEF BeginRun, BeginResume, TypeInv, StoresTyped, environment, artifacts, stores
  <2>3. ledger' = ledger \/ ledger' = [ledger EXCEPT ![r].status.state = "running"]
    BY <1>2 DEF BeginRun, BeginResume
  <2>4. /\ RunTyped(r) /\ slot'[r] = kind /\ pc'[r] = point
        /\ seen[r] = <<>> /\ ledger'[r].rows = ledger[r].rows
        /\ ledger'[r].checkpoint = ledger[r].checkpoint /\ ledger'[r].report = ledger[r].report
        /\ ledger'[r].status \in {ledger[r].status, [ledger[r].status EXCEPT !.state = "running"]}
        /\ \A q \in Runs \ {r} : UNCHANGED <<slot[q], pc[q], ledger[q]>>
    BY <2>1, <2>3 DEF TypeInv, PipeInv, RecordsOK, DiskInv, DiskInvOf, ExecutorInvOf, StoresOK, Working
  <2>5. Key(r)' = Key(r) /\ Done(r)' = Done(r) /\ \A k : Ordered(k)' = Ordered(k)
    BY <2>2, <2>4 DEF Key, Done, Ordered
  <2>6. SeenTyped(r)'
    <3>1. point = "observe" => Done(r) < N(r) /\ Len(<<>>) <= Len(Ordered(Key(r)))
      <4>1. Done(r) <= N(r) /\ N(r) \in Nat /\ Done(r) \in Nat /\ IsRows(ledger[r].rows)
        BY RowsLen, Sizes DEF PipeInv, LedgerInv, LedgerInvOf, RecordsOK, Done
      <4>2. Done(r) < N(r) => Len(<<>>) <= Len(Ordered(Key(r)))
        BY <4>1, KeyIsKey, OrderedAreBindings DEF TypeInv
      <4>3. point = "observe" => Done(r) = 0 \/ Done(r) # N(r)
        BY <1>2, <2>1, <4>1 DEF BeginRun, BeginResume, Enter, Goto, PipeInv, LedgerInv, LedgerInvOf,
           RecordsOK
      <4> QED BY <4>1, <4>2, <4>3, Sizes
    <3> QED BY <2>1, <2>2, <2>4, <2>5, <3>1 DEF SeenTyped, Working, Fetching
  <2>7. LedgerTyped(r)'
    <3>1. [ledger[r].status EXCEPT !.state = "running"] \in Stamps(r)
      BY <2>4 DEF RunTyped, LedgerTyped, Stamps, States
    <3> QED BY <2>4, <2>5, <3>1 DEF RunTyped, LedgerTyped, N, Stamps
  <2>8. RunTyped(r)'
    BY <2>1, <2>2, <2>4, <2>6, <2>7 DEF RunTyped
  <2>9. CallsTyped'
    BY <2>1 DEF TypeInv, CallsTyped, Points
  <2> QED BY <2>2, <2>4, <2>8, <2>9, TypedMoves DEF TypeInv
<1> QED BY <1>1, <1>2

LEMMA TypedObserves ==
  ASSUME TypeInv, PipeInv, DiskInv, NEW r \in Runs, Observe(r)
  PROVE  TypeInv'
<1> DEFINE n == Len(seen[r]) + 1
<1>1. PICK result \in Observations(Binding(r, n), file[Key(r)][n]) :
        /\ seen' = [seen EXCEPT ![r] = Append(@, result)]
        /\ IF Fetched(result) THEN Goto(r, "putRaw") ELSE UNCHANGED pc
  BY DEF Observe
<1>2. /\ UNCHANGED <<catalog, slot, filed, ledger, canonical, snapshots, observed, refused>>
      /\ pc[r] = "observe" /\ Len(seen[r]) # Len(Ordered(Key(r)))
  BY DEF Observe, At, AllSeen, environment, artifacts, stores
<1>3. /\ RunTyped(r) /\ seen[r] \in Seq(ResultSet) /\ Len(seen[r]) <= Len(Ordered(Key(r)))
      /\ DOMAIN seen = Runs /\ DOMAIN pc = Runs
  BY <1>2 DEF TypeInv, RunTyped, SeenTyped, Working, DiskInv, StoresOK, PipeInv, RecordsOK
<1>4. Key(r) \in Keys /\ Ordered(Key(r)) \in Seq(Bindings)
  BY <1>2, KeyIsKey, OrderedAreBindings DEF PipeInv, LedgerInv, LedgerInvOf, RecordsOK, Working, TypeInv
<1>5. n \in 1..Len(Ordered(Key(r))) /\ Binding(r, n) \in Bindings
  BY <1>2, <1>3, <1>4 DEF Binding
<1>6. result \in ResultSet /\ (Fetched(result) => result.raw \in Raws)
  BY <1>1, <1>5, ObservedIsTyped
<1>7. /\ seen'[r] = Append(seen[r], result)
      /\ pc'[r] \in {"observe", "putRaw"} /\ (pc'[r] = "putRaw" => Fetched(result))
      /\ \A q \in Runs \ {r} : UNCHANGED <<pc[q], seen[q]>>
  BY <1>1, <1>2, <1>3 DEF Goto
<1>8. Key(r)' = Key(r) /\ Done(r)' = Done(r) /\ \A k : Ordered(k)' = Ordered(k)
  BY <1>2 DEF Key, Done, Ordered
<1>9. SeenTyped(r)'
  <2>1. /\ seen'[r] \in Seq(ResultSet) /\ Len(seen'[r]) = n /\ seen'[r] # <<>>
        /\ Last(seen'[r]) = result
    BY <1>3, <1>6, <1>7 DEF Last
  <2> QED BY <1>5, <1>6, <1>7, <1>8, <2>1 DEF SeenTyped, Fetching
<1>10. LedgerTyped(r)'
  BY <1>2, <1>3, <1>8 DEF RunTyped, LedgerTyped, N, Stamps
<1>11. RunTyped(r)'
  BY <1>2, <1>3, <1>7, <1>9, <1>10 DEF RunTyped
<1>12. CallsTyped'
  BY <1>1, <1>2 DEF TypeInv, CallsTyped, Goto, Points
<1> QED BY <1>2, <1>7, <1>11, <1>12, TypedMoves DEF TypeInv, StoresTyped

LEMMA TypedFetches ==
  ASSUME TypeInv, PipeInv, DiskInv, NEW r \in Runs,
         PutRaw(r) \/ PutObservation(r) \/ SnapshotFails(r)
  PROVE  TypeInv'
<1>1. /\ pc[r] \in Fetching /\ RunTyped(r) /\ seen[r] \in Seq(ResultSet) /\ seen[r] # <<>>
      /\ Last(seen[r]).raw \in Raws /\ DOMAIN seen = Runs /\ DOMAIN pc = Runs
      /\ Len(seen[r]) <= Len(Ordered(Key(r)))
  BY DEF PutRaw, PutObservation, SnapshotFails, At, TypeInv, RunTyped, SeenTyped, Fetching, Working,
         DiskInv, StoresOK, PipeInv, RecordsOK
<1>2. Len(seen[r]) \in Nat \ {0}
  BY <1>1
<1>3. Key(r) \in Keys
  BY <1>1, KeyIsKey DEF PipeInv, LedgerInv, LedgerInvOf, RecordsOK, Working, Fetching
<1>4. CASE PutRaw(r)
  <2>1. StoresTyped'
    BY <1>1, <1>4 DEF PutRaw, TypeInv, StoresTyped
  <2>2. /\ UNCHANGED <<catalog, slot, seen, ledger, canonical, filed>>
        /\ pc' = [pc EXCEPT ![r] = "putObservation"]
    BY <1>4 DEF PutRaw, Goto, environment, artifacts
  <2>3. "putObservation" \in Points
    BY DEF Points
  <2> QED BY <1>1, <2>1, <2>2, <2>3, TypedGoes DEF Fetching, Working
<1>5. CASE PutObservation(r)
  <2>1. StoresTyped'
    BY <1>2, <1>3, <1>5 DEF PutObservation, TypeInv, StoresTyped
  <2>2. /\ UNCHANGED <<catalog, slot, seen, ledger, canonical, filed>>
        /\ pc' = [pc EXCEPT ![r] = "observe"]
    BY <1>5 DEF PutObservation, Goto, environment, artifacts
  <2>3. "observe" \in Points
    BY DEF Points
  <2> QED BY <1>1, <2>1, <2>2, <2>3, TypedGoes DEF Fetching, Working
<1>6. CASE SnapshotFails(r)
  <2> DEFINE failed == Result("failed", "raw_snapshot_persistence_failure", Last(seen[r]).raw, NoEntry, 0)
  <2>1. failed \in ResultSet
    BY <1>1 DEF Result, ResultSet, RawNames, Outcomes
  <2>2. /\ UNCHANGED <<catalog, slot, filed, ledger, canonical, snapshots, observed, refused>>
        /\ seen' = [seen EXCEPT ![r][Len(seen[r])] = failed]
        /\ pc' = [pc EXCEPT ![r] = "observe"]
    BY <1>6 DEF SnapshotFails, Goto, environment, artifacts, stores
  <2> HIDE DEF failed
  <2>3. /\ seen'[r] = [seen[r] EXCEPT ![Len(seen[r])] = failed] /\ pc'[r] = "observe"
        /\ \A q \in Runs \ {r} : UNCHANGED <<pc[q], seen[q]>>
    BY <1>1, <2>2
  <2>4. seen'[r] \in Seq(ResultSet) /\ Len(seen'[r]) = Len(seen[r])
    BY <1>1, <2>1, <2>3
  <2>5. Key(r)' = Key(r) /\ Done(r)' = Done(r) /\ \A k : Ordered(k)' = Ordered(k)
    BY <2>2 DEF Key, Done, Ordered
  <2>6. SeenTyped(r)'
    BY <1>1, <2>3, <2>4, <2>5 DEF SeenTyped, Fetching
  <2>7. LedgerTyped(r)'
    BY <1>1, <2>2, <2>5 DEF RunTyped, LedgerTyped, N, Stamps
  <2>8. RunTyped(r)'
    BY <1>1, <2>2, <2>3, <2>6, <2>7 DEF RunTyped
  <2>9. CallsTyped'
    BY <2>2 DEF TypeInv, CallsTyped, Points
  <2> QED BY <2>2, <2>3, <2>8, <2>9, TypedMoves DEF TypeInv, StoresTyped
<1> QED BY <1>4, <1>5, <1>6

LEMMA TypedKeySteps ==
  ASSUME TypeInv, PipeInv, DiskInv, NEW r \in Runs, KeyStep(r)
  PROVE  TypeInv'
<1>1. CASE Observe(r) \/ PutRaw(r) \/ PutObservation(r) \/ SnapshotFails(r)
  BY <1>1, TypedObserves, TypedFetches
<1>2. CASE Clash(r) \/ RefuseReview(r) \/ (CheckReview(r) /\ Refuse(r))
  BY <1>2, TypedCalls DEF Clash, RefuseReview
<1>3. CASE WriteCanonical(r)
  <2>1. /\ UNCHANGED <<catalog, slot, seen, filed, ledger, snapshots, observed, refused>>
        /\ pc[r] = "canonical" /\ pc' = [pc EXCEPT ![r] = "parsed"]
        /\ canonical' = [canonical EXCEPT ![r][Key(r)] = Won(r).lexeme]
    BY <1>3 DEF WriteCanonical, At, Goto, environment, stores
  <2>2. /\ RunTyped(r) /\ DOMAIN canonical = Runs /\ Winner(r) # 0 /\ IsRows(seen[r])
        /\ seen[r] \in Seq(ResultSet) /\ pc'[r] = "parsed"
        /\ \A q \in Runs \ {r} : pc'[q] = pc[q]
    BY <2>1 DEF TypeInv, RunTyped, SeenTyped, DiskInv, StoresOK, DiskInvOf, ExecutorInvOf, PipeInv,
       RecordsOK
  <2>3. Won(r) \in ResultSet
    BY <2>2, WinnerWon DEF Won, Results
  <2>4. Won(r).lexeme \in Lexemes \cup {NoEntry}
    BY <2>3 DEF ResultSet
  <2>5. /\ canonical'[r] = [canonical[r] EXCEPT ![Key(r)] = Won(r).lexeme]
        /\ \A q \in Runs \ {r} : canonical'[q] = canonical[q]
    BY <2>1, <2>2
  <2>6. canonical'[r] \in [Keys -> Lexemes \cup {NoEntry}]
    BY <2>2, <2>4, <2>5 DEF RunTyped
  <2>7. Key(r)' = Key(r) /\ Done(r)' = Done(r) /\ \A k : Ordered(k)' = Ordered(k)
    BY <2>1 DEF Key, Done, Ordered
  <2>8. SeenTyped(r)'
    BY <2>1, <2>2, <2>7 DEF RunTyped, SeenTyped, Working, Fetching
  <2>9. LedgerTyped(r)'
    BY <2>1, <2>2, <2>7 DEF RunTyped, LedgerTyped, N, Stamps
  <2>10. RunTyped(r)'
    BY <2>1, <2>2, <2>6, <2>8, <2>9 DEF RunTyped
  <2>11. CallsTyped'
    BY <2>1 DEF TypeInv, CallsTyped, Points
  <2> QED BY <2>1, <2>2, <2>5, <2>10, <2>11, TypedMoves DEF TypeInv, StoresTyped
<1>4. ASSUME NEW point \in {"canonical", "review", "newReview", "putReview", "outcomes"},
             UNCHANGED <<catalog, slot, seen, ledger, canonical, snapshots, observed, refused>>,
             pc' = [pc EXCEPT ![r] = point], pc[r] \in Working,
             UNCHANGED filed \/ filed' = [filed EXCEPT ![r] = @ + 1],
             point = "canonical" => Winner(r) # 0
      PROVE  TypeInv'
  <2>1. StoresTyped' /\ point \in Points /\ point \notin Fetching
    BY <1>4 DEF TypeInv, StoresTyped, Points, Fetching
  <2> QED BY <1>4, <2>1, TypedGoes
<1>5. CASE Choose(r)
  BY <1>4, <1>5 DEF Choose, At, Goto, Working, environment, artifacts, stores
<1>6. CASE WriteParsed(r)
  BY <1>4, <1>6 DEF WriteParsed, At, Goto, Working, environment, artifacts, stores
<1>7. CASE FindReview(r)
  <2>1. pc' = [pc EXCEPT ![r] = "review"]
    BY <1>7 DEF FindReview, At, TypeInv, CallsTyped
  <2> QED BY <1>4, <1>7, <2>1 DEF FindReview, At, Working, environment, artifacts, stores
<1>8. CASE MissReview(r)
  BY <1>4, <1>8 DEF MissReview, At, Goto, Working, environment, artifacts, stores
<1>9. CASE CheckReview(r) /\ ~Refuse(r)
  BY <1>4, <1>9 DEF CheckReview, At, Goto, Working, environment, artifacts, stores
<1>10. CASE PutReview(r)
  BY <1>4, <1>10 DEF PutReview, At, Goto, Working, environment, artifacts
<1>11. CASE AllFiled(r)
  BY <1>4, <1>11 DEF AllFiled, At, Goto, Working, environment, artifacts, stores
<1> QED
  BY <1>1, <1>2, <1>3, <1>5, <1>6, <1>7, <1>8, <1>9, <1>10, <1>11 DEF KeyStep

(* The row is one of outcome, winner and review, and the next key has room.  *)
LEMMA TypedRow ==
  ASSUME TypeInv, PipeInv, DiskInv, NEW r \in Runs, WriteOutcomes(r)
  PROVE  TypeInv'
<1>1. /\ UNCHANGED <<catalog, slot, canonical, snapshots, observed, refused>>
      /\ seen' = [seen EXCEPT ![r] = <<>>] /\ filed' = [filed EXCEPT ![r] = 0]
      /\ pc' = [pc EXCEPT ![r] = "attempts"]
      /\ ledger' = [ledger EXCEPT ![r].rows = Append(@, Row(r))]
  BY DEF WriteOutcomes, Goto, environment, artifacts, stores
<1>2. /\ RunTyped(r) /\ IsRows(ledger[r].rows) /\ DOMAIN ledger = Runs /\ CallsTyped
      /\ DOMAIN seen = Runs /\ DOMAIN filed = Runs
      /\ DOMAIN ledger[r] = {"rows", "attempts", "checkpoint", "report", "status"}
  BY DEF TypeInv, PipeInv, RecordsOK, DiskInv, StoresOK
<1>3. /\ seen'[r] = <<>> /\ filed'[r] = 0 /\ pc'[r] = "attempts"
      /\ ledger'[r].rows = Append(ledger[r].rows, Row(r))
      /\ ledger'[r].checkpoint = ledger[r].checkpoint
      /\ ledger'[r].report = ledger[r].report /\ ledger'[r].status = ledger[r].status
      /\ \A q \in Runs \ {r} : UNCHANGED <<pc[q], seen[q], filed[q], ledger[q]>>
  BY <1>1, <1>2 DEF CallsTyped
<1>4. SeenTyped(r)'
  BY <1>3 DEF SeenTyped, Working, Fetching
<1>5. LedgerTyped(r)'
  <2>1. /\ Done(r) \in Nat /\ Done(r)' = Done(r) + 1
        /\ \A i \in 1..Done(r) : ledger'[r].rows[i] = ledger[r].rows[i]
        /\ ledger'[r].rows[Done(r) + 1] = Row(r)
    <3>1. PICK S : ledger[r].rows \in Seq(S)
      BY <1>2 DEF IsRows
    <3> QED BY <1>3, <3>1 DEF Done
  <2>2. DOMAIN Row(r) = {"outcome", "winner", "review"}
    BY DEF Row
  <2>3. \A i \in 1..Done(r)' : DOMAIN ledger'[r].rows[i] = {"outcome", "winner", "review"}
    <3> SUFFICES ASSUME NEW i \in 1..(Done(r) + 1)
                 PROVE  DOMAIN ledger'[r].rows[i] = {"outcome", "winner", "review"}
      BY <2>1
    <3>1. CASE i = Done(r) + 1
      BY <2>1, <2>2, <3>1
    <3>2. CASE i \in 1..Done(r)
      BY <1>2, <2>1, <3>2 DEF RunTyped, LedgerTyped
    <3> QED BY <2>1, <3>1, <3>2
  <2> QED BY <1>2, <1>3, <2>3 DEF RunTyped, LedgerTyped, N, Stamps
<1>6. RunTyped(r)'
  BY <1>1, <1>2, <1>3, <1>4, <1>5 DEF RunTyped
<1>7. CallsTyped'
  BY <1>1, <1>2 DEF CallsTyped, Points
<1> QED BY <1>1, <1>2, <1>3, <1>6, <1>7, TypedMoves DEF TypeInv, StoresTyped

LEMMA TypedDocuments ==
  ASSUME TypeInv, PipeInv, DiskInv, NEW r \in Runs,
         WriteAttempts(r) \/ WriteCheckpoint(r) \/ WriteReport(r) \/ WriteStatus(r)
  PROVE  TypeInv'
<1>1. /\ UNCHANGED <<catalog, slot, seen, filed, canonical, snapshots, observed, refused>>
      /\ pc[r] \notin Working
      /\ \E point \in {"checkpoint", "report", "status", "observe", "return"} :
           /\ pc' = [pc EXCEPT ![r] = point]
           /\ point = "observe" => Done(r) < N(r)
  BY DEF WriteAttempts, WriteCheckpoint, WriteReport, WriteStatus, At, Goto, Working, environment,
         artifacts, stores
<1>2. PICK point \in {"checkpoint", "report", "status", "observe", "return"} :
        pc' = [pc EXCEPT ![r] = point] /\ (point = "observe" => Done(r) < N(r))
  BY <1>1
<1>3. /\ RunTyped(r) /\ IsRows(ledger[r].rows) /\ DOMAIN ledger = Runs /\ CallsTyped
      /\ DOMAIN ledger[r] = {"rows", "attempts", "checkpoint", "report", "status"}
      /\ seen[r] = <<>> /\ Done(r) <= N(r) /\ N(r) \in Nat
  BY <1>1, Sizes DEF TypeInv, PipeInv, RecordsOK, LedgerInv, LedgerInvOf, DiskInv, DiskInvOf,
     ExecutorInvOf
<1>4. Done(r) \in 0..N(r)
  BY <1>3, RowsLen DEF Done
<1>5. [rev |-> Done(r), state |-> StateAfter(r, ledger[r].rows)] \in Stamps(r)
  BY <1>4 DEF Stamps, StateAfter, States
<1>6. /\ ledger'[r].rows = ledger[r].rows
      /\ ledger'[r].checkpoint \in {ledger[r].checkpoint, Done(r)}
      /\ ledger'[r].report \in {ledger[r].report, [rev |-> Done(r), state |-> StateAfter(r, ledger[r].rows)]}
      /\ ledger'[r].status \in {ledger[r].status, [rev |-> Done(r), state |-> StateAfter(r, ledger[r].rows)]}
      /\ \A q \in Runs \ {r} : ledger'[q] = ledger[q]
  BY <1>3 DEF WriteAttempts, WriteCheckpoint, WriteReport, WriteStatus
<1>7. /\ pc'[r] = point /\ \A q \in Runs \ {r} : pc'[q] = pc[q]
      /\ CallsTyped'
  BY <1>1, <1>2, <1>3 DEF CallsTyped, Points
<1>8. Key(r)' = Key(r) /\ Done(r)' = Done(r) /\ \A k : Ordered(k)' = Ordered(k)
  BY <1>1, <1>6 DEF Key, Done, Ordered
<1>9. SeenTyped(r)'
  <2>1. point = "observe" => Len(<<>>) <= Len(Ordered(Key(r)))
    BY <1>2, <1>3, KeyIsKey, OrderedAreBindings DEF TypeInv
  <2> QED BY <1>1, <1>2, <1>3, <1>7, <1>8, <2>1 DEF SeenTyped, Working, Fetching
<1>10. LedgerTyped(r)'
  BY <1>3, <1>4, <1>5, <1>6, <1>8 DEF RunTyped, LedgerTyped, N, Stamps
<1>11. RunTyped(r)'
  BY <1>1, <1>3, <1>9, <1>10 DEF RunTyped
<1> QED BY <1>1, <1>6, <1>7, <1>11, TypedMoves DEF TypeInv, StoresTyped

LEMMA TypeNext == TypeInv /\ PipeInv /\ DiskInv /\ [Next]_vars => TypeInv'
<1> SUFFICES ASSUME TypeInv, PipeInv, DiskInv, [Next]_vars PROVE TypeInv'
  OBVIOUS
<1>1. CASE UNCHANGED vars
  BY <1>1, TypedRests DEF vars, processing, environment, executor, artifacts, stores
<1>2. CASE ProcessingNext
  <2>1. CASE ChangeFixture
    BY <2>1, TypedRests DEF ChangeFixture, executor, artifacts, stores
  <2>2. ASSUME NEW r \in Runs, ExecutorStep(r) PROVE TypeInv'
    <3>1. CASE CommitStep(r)
      BY <3>1, TypedRow, TypedDocuments DEF CommitStep
    <3> QED BY <2>2, <3>1, TypedCalls, TypedKeySteps DEF ExecutorStep
  <2> QED BY <1>2, <2>1, <2>2 DEF ProcessingNext
<1>3. ASSUME NEW p \in Reviewers, Load(p) \/ Decide(p) PROVE TypeInv'
  <2>1. UNCHANGED <<environment, executor, ledger, artifacts, snapshots, observed, refused>>
    BY <1>3 DEF Load, Decide, processing, stores
  <2> QED BY <2>1, TypedRests DEF environment, executor, artifacts
<1>4. ASSUME NEW e \in Evaluators, EvaluatorStep(e) PROVE TypeInv'
  <2>1. UNCHANGED <<environment, executor, ledger, artifacts, stores, refused>>
    BY <1>4 DEF EvaluatorStep, ReadReport, ReadCheckpoint, ReadOutcomes, ReadAttempts,
         ReadStatus, ReadReviews, OnlyRead, WriteIneligible, StageCandidate,
         StageEvaluation, ReplaceCandidate, ReplaceEvaluation, CommitFails,
         EvaluatorDies, Elsewhere, processing
  <2> QED BY <2>1, TypedRests DEF environment, executor, artifacts, stores
<1> QED BY <1>1, <1>2, <1>3, <1>4 DEF Next

(* Whatever is called, decided, evaluated or cut off, the documents, stores  *)
(* and memory of every run hold what their readers take for granted: no more *)
(* rows than keys, revisions of the run, hashes of fetched bytes only, and a *)
(* lexical content in every canonical artifact (_process_record,             *)
(* _commit_revision, RawSnapshotStore.put).                                  *)
THEOREM TypesAreKept == Spec => []TypeOK
<1>1. TypeInv /\ PipeInv /\ DiskInv /\ DecisionInv => TypeOK
  <2> SUFFICES ASSUME TypeInv, PipeInv, DiskInv, DecisionInv PROVE TypeOK
    OBVIOUS
  <2>1. \A r \in Runs :
          /\ seen[r] \in Seq(ResultSet) /\ filed[r] \in Nat
          /\ Done(r) <= N(r) /\ LedgerTyped(r)
          /\ canonical[r] \in [Keys -> Lexemes \cup {NoEntry}]
          /\ DOMAIN parsed[r] = Keys
    BY DEF TypeInv, RunTyped, SeenTyped, PipeInv, LedgerInv, LedgerInvOf, DiskInv, StoresOK
  <2>2. \A v \in reviews : DOMAIN v = {"id", "evidence", "history"}
    BY DEF DecisionInv, HistoryOK
  <2> QED BY <2>1, <2>2 DEF TypeOK, TypeInv, CallsTyped, StoresTyped, LedgerTyped
<1> QED
  BY <1>1, TypeInit, TypeNext, PipeInit, PipeNext, DiskInit, DiskNext, DecisionInit, DecisionNext,
     PTL DEF Spec

-----------------------------------------------------------------------------
(* Reviews of one process.  One run is executed at a time, so nobody files a *)
(* review between the look for it and its write.                             *)

LEMMA FirstOf ==
  ASSUME NEW S, NEW T, S = T
  PROVE  First(S) = First(T)
OBVIOUS

(* Everything to be filed is this run's, and there are finitely many.        *)
LEMMA PetitionsAre ==
  ASSUME NEW r \in Runs, IsRows(seen[r])
  PROVE  /\ Len(Petitions(r)) \in Nat
         /\ \A n \in 1..Len(Petitions(r)) : Petitions(r)[n].evidence.run = r
         /\ Petitions(r) # <<>> => Len(Petitions(r)) > 0
<1>1. Conflict(r).evidence.run = r
  BY DEF Conflict
<1>2. \A i, reason : Quarantine(r, i, reason).evidence.run = r
  BY DEF Quarantine
<1>3. CASE Winner(r) # 0
  <2>1. Petitions(r) = <<>> \/ Petitions(r) = <<Conflict(r)>>
    BY <1>3 DEF Petitions
  <2> QED BY <1>1, <2>1
<1>4. CASE Winner(r) = 0 /\ Unsettled(r) = {}
  <2>1. Petitions(r) = <<Quarantine(r, 1, "official_required")>>
    BY <1>4 DEF Petitions
  <2> QED BY <1>2, <2>1
<1>5. CASE Winner(r) = 0 /\ Unsettled(r) # {}
  <2> DEFINE m == Cardinality(Unsettled(r))
             petition(n) == Quarantine(r, Nth(Unsettled(r), n),
                              Reason(Binding(r, Nth(Unsettled(r), n)),
                                     seen[r][Nth(Unsettled(r), n)]))
  <2>1. Petitions(r) = [n \in 1..m |-> petition(n)]
    BY <1>5 DEF Petitions
  <2>2. m \in Nat /\ m > 0
    <3>1. Unsettled(r) \subseteq 1..Len(seen[r]) /\ Len(seen[r]) \in Nat
      BY RowsLen DEF Unsettled, Results
    <3>2. IsFiniteSet(Unsettled(r))
      <4>1. IsFiniteSet(1..Len(seen[r]))
        BY <3>1, FS_Interval
      <4> QED BY <3>1, <4>1, FS_Subset
    <3> QED BY <1>5, <3>2, FS_CardinalityType, FS_EmptySet
  <2>3. \A n \in 1..m : petition(n).evidence.run = r
    BY <1>2
  <2> HIDE DEF m, petition
  <2>4. Len(Petitions(r)) = m
    BY <2>1, <2>2
  <2> QED BY <2>1, <2>2, <2>3, <2>4
<1> QED BY <1>3, <1>4, <1>5

LEMMA SamePetitions ==
  ASSUME NEW r \in Runs, Fixed(r)
  PROVE  Petitions(r)' = Petitions(r)
<1>1. /\ Winner(r)' = Winner(r) /\ Key(r)' = Key(r) /\ Won(r)' = Won(r)
      /\ \A i : Binding(r, i)' = Binding(r, i)
      /\ Results(r)' = Results(r) /\ seen'[r] = seen[r]
  BY SameWinner DEF Fixed
<1>2. Accepted(r)' = Accepted(r)
  BY <1>1 DEF Accepted
<1>3. {i \in Accepted(r) : /\ ~Binding(r, i).official
                           /\ seen[r][i].lexeme # Won(r).lexeme}'
        = {i \in Accepted(r) : /\ ~Binding(r, i).official
                               /\ seen[r][i].lexeme # Won(r).lexeme}
  BY <1>1, <1>2
<1>4. Differing(r)' = Differing(r)
  BY <1>3 DEF Differing
<1>5. Unsettled(r)' = Unsettled(r)
  BY <1>1 DEF Unsettled
<1>6. Conflict(r)' = Conflict(r)
  BY <1>1, <1>4 DEF Conflict
<1>7. \A i, reason : Quarantine(r, i, reason)' = Quarantine(r, i, reason)
  BY <1>1 DEF Quarantine
<1>8. \A n : Quarantine(r, Nth(Unsettled(r), n), Reason(Binding(r, Nth(Unsettled(r), n)),
                                                     seen[r][Nth(Unsettled(r), n)]))'
             = Quarantine(r, Nth(Unsettled(r), n), Reason(Binding(r, Nth(Unsettled(r), n)),
                                                        seen[r][Nth(Unsettled(r), n)]))
  BY <1>1, <1>5, <1>7 DEF Quarantine
<1> QED BY <1>1, <1>4, <1>5, <1>6, <1>7, <1>8 DEF Petitions

HaveReview(id, r) == \E v \in reviews : v.id = id /\ v.evidence.run = r

(* What is filed of the key at hand is in the queue, and the next to be      *)
(* written is not there yet.                                                 *)
FiledInvOf(r) ==
  /\ filed[r] \in Nat /\ (pc[r] \notin Filing => filed[r] = 0)
  /\ pc[r] \in Filing =>
       /\ filed[r] <= Len(Petitions(r))
       /\ filed[r] > 0 => HaveReview(Petitions(r)[1].id, r)
  /\ pc[r] \in {"newReview", "putReview"} => filed[r] < Len(Petitions(r))
  /\ pc[r] = "putReview" => ~Exists(Petition(r).id)
  /\ pc[r] = "outcomes" => filed[r] = Len(Petitions(r))
QueueInvOf(r) ==
  \A i \in 1..Done(r) :
    ledger[r].rows[i].review # NoReview => HaveReview(ledger[r].rows[i].review, r)

Solo   == \A q, r \in Runs : pc[q] # "idle" /\ pc[r] # "idle" => q = r
Unique == \A v, w \in reviews : v.id = w.id => v = w
Held   == \A p \in Reviewers : desk[p].busy =>
            \E v \in reviews : v.id = desk[p].review.id /\ v.evidence = desk[p].review.evidence

ReviewInv ==
  /\ Solo /\ Unique /\ Held
  /\ DOMAIN filed = Runs /\ \A r \in Runs : FiledInvOf(r) /\ QueueInvOf(r)

Keeps == \A v \in reviews : \E w \in reviews' : w.id = v.id /\ w.evidence = v.evidence

LEMMA ReviewInit == Init => ReviewInv
<1> SUFFICES ASSUME Init PROVE ReviewInv
  OBVIOUS
<1>1. \A r \in Runs : ledger[r].rows = <<>> /\ filed[r] = 0 /\ pc[r] = "idle"
  BY DEF Init, ProcessingInit, NoLedger
<1>2. Solo /\ Unique /\ Held /\ DOMAIN filed = Runs
  BY DEF Init, ProcessingInit, Solo, Unique, Held, Idle
<1>3. \A r \in Runs : FiledInvOf(r) /\ QueueInvOf(r)
  BY <1>1 DEF FiledInvOf, QueueInvOf, Filing, Done
<1> QED BY <1>2, <1>3 DEF ReviewInv

LEMMA HaveKept ==
  ASSUME Keeps
  PROVE  \A id : \A r \in Runs : HaveReview(id, r) => HaveReview(id, r)'
BY DEF Keeps, HaveReview

(* A run that did not move, while reviews are decided or filed.              *)
LEMMA RunQueued ==
  ASSUME NEW r \in Runs, FiledInvOf(r), QueueInvOf(r), Keeps, Fixed(r),
         UNCHANGED <<pc[r], filed[r]>>,
         pc[r] = "putReview" => \A v \in reviews' : \E w \in reviews : w.id = v.id
  PROVE  FiledInvOf(r)' /\ QueueInvOf(r)'
<1>1. Petitions(r)' = Petitions(r) /\ Petition(r)' = Petition(r)
  BY SamePetitions DEF Petition
<1>2. QueueInvOf(r)'
  BY HaveKept DEF QueueInvOf, Done, Fixed
<1>3. pc[r] = "putReview" => ~Exists(Petition(r).id)'
  BY <1>1 DEF FiledInvOf, Exists
<1>4. FiledInvOf(r)'
  BY <1>1, <1>3, HaveKept DEF FiledInvOf
<1> QED BY <1>2, <1>4

LEMMA QueueStays ==
  ASSUME ReviewInv, UNCHANGED <<catalog, pc, seen, filed, ledger>>, Keeps, Unique', Held',
         \A v \in reviews' : \E w \in reviews : w.id = v.id
  PROVE  ReviewInv'
<1>1. \A r \in Runs : FiledInvOf(r)' /\ QueueInvOf(r)'
  BY RunQueued DEF ReviewInv, Fixed
<1> QED BY <1>1 DEF ReviewInv, Solo

LEMMA QueueLoads ==
  ASSUME ReviewInv, NEW p \in Reviewers, Load(p), DOMAIN desk = Reviewers
  PROVE  ReviewInv'
<1>1. PICK v, event :
        /\ v \in reviews
        /\ desk' = [desk EXCEPT ![p] = [busy |-> TRUE, review |-> v, event |-> event]]
  BY DEF Load
<1>2. UNCHANGED <<catalog, pc, seen, filed, ledger, reviews>>
  BY DEF Load, processing, environment, executor, stores
<1>3. Unique' /\ Held' /\ Keeps
  BY <1>1, <1>2 DEF ReviewInv, Unique, Held, Keeps
<1> QED BY <1>2, <1>3, QueueStays

(* A decision replaces the record it read, under its identity.               *)
LEMMA Replaces ==
  ASSUME ReviewInv, DecisionInv, NEW p \in Reviewers, Decide(p)
  PROVE  \E v, new :
           /\ v \in reviews
           /\ v.id = desk[p].review.id /\ v.evidence = desk[p].review.evidence
           /\ new = [desk[p].review EXCEPT !.history = Append(@, desk[p].event)]
           /\ new.id = v.id /\ new.evidence = v.evidence
           /\ reviews' = (reviews \ {v}) \cup {new}
<1> DEFINE new == [desk[p].review EXCEPT !.history = Append(@, desk[p].event)]
<1>1. PICK v \in reviews : v.id = desk[p].review.id /\ v.evidence = desk[p].review.evidence
  BY DEF Decide, ReviewInv, Held
<1>2. new.id = v.id /\ new.evidence = v.evidence
  BY <1>1 DEF DecisionInv, DeskOK, HistoryOK, Decide
<1>3. {u \in reviews : u.id # new.id} = reviews \ {v}
  BY <1>1, <1>2 DEF ReviewInv, Unique
<1>4. reviews' = (reviews \ {v}) \cup {new}
  BY <1>3 DEF Decide, Replace
<1> QED BY <1>1, <1>2, <1>4

LEMMA QueueDecides ==
  ASSUME ReviewInv, DecisionInv, NEW p \in Reviewers, Decide(p)
  PROVE  ReviewInv'
<1>1. PICK v, new :
        /\ v \in reviews
        /\ new.id = v.id /\ new.evidence = v.evidence
        /\ reviews' = (reviews \ {v}) \cup {new}
  BY Replaces
<1>2. /\ UNCHANGED <<catalog, pc, seen, filed, ledger>>
      /\ desk' = [desk EXCEPT ![p] = Idle] /\ DOMAIN desk = Reviewers
  BY DEF Decide, environment, executor, DecisionInv
<1>3. Keeps /\ \A w \in reviews' : \E u \in reviews : u.id = w.id
  BY <1>1 DEF Keeps
<1>4. Unique'
  BY <1>1 DEF ReviewInv, Unique
<1>5. Held'
  BY <1>2, <1>3 DEF ReviewInv, Held, Keeps, Idle
<1> QED BY <1>2, <1>3, <1>4, <1>5, QueueStays

(* What a step of one run may do to the queue, and to the other runs.        *)
Elsewise(r) ==
  /\ catalog' = catalog /\ desk' = desk /\ DOMAIN filed' = Runs
  /\ \A q \in Runs \ {r} : UNCHANGED <<pc[q], filed[q], seen[q], ledger[q]>>

LEMMA QueueMoves ==
  ASSUME ReviewInv, NEW r \in Runs, Elsewise(r), Keeps, Unique',
         pc'[r] # "idle" => pc[r] # "idle" \/ \A q \in Runs \ {r} : pc[q] = "idle",
         UNCHANGED reviews \/ pc[r] # "idle",
         FiledInvOf(r)', QueueInvOf(r)'
  PROVE  ReviewInv'
<1>1. ASSUME NEW q \in Runs \ {r} PROVE FiledInvOf(q)' /\ QueueInvOf(q)'
  <2>1. pc[q] = "putReview" => \A v \in reviews' : \E w \in reviews : w.id = v.id
    BY DEF ReviewInv, Solo
  <2>2. Fixed(q) /\ UNCHANGED <<pc[q], filed[q]>>
    BY DEF Elsewise, Fixed
  <2> QED BY <2>1, <2>2, RunQueued DEF ReviewInv
<1>2. Solo'
  BY DEF ReviewInv, Solo, Elsewise
<1>3. Held'
  BY DEF ReviewInv, Held, Keeps, Elsewise
<1> QED BY <1>1, <1>2, <1>3 DEF ReviewInv, Elsewise

(* Nothing of the key at hand is filed before, or after, its reviews are.    *)
LEMMA Unfiled ==
  ASSUME NEW r \in Runs, pc'[r] \notin Filing, filed'[r] = 0
  PROVE  FiledInvOf(r)'
BY DEF FiledInvOf, Filing

(* The rows of a run, and the reviews they name, stay.                       *)
LEMMA RowsQueued ==
  ASSUME NEW r \in Runs, QueueInvOf(r), Keeps, UNCHANGED ledger[r].rows
  PROVE  QueueInvOf(r)'
BY HaveKept DEF QueueInvOf, Done

(* A step that files nothing, to a point where nothing is filed yet.         *)
LEMMA QueuePasses ==
  ASSUME ReviewInv, NEW r \in Runs, Elsewise(r), UNCHANGED <<reviews, ledger[r].rows>>,
         pc'[r] \notin Filing, filed'[r] = 0,
         pc'[r] # "idle" => pc[r] # "idle" \/ \A q \in Runs \ {r} : pc[q] = "idle"
  PROVE  ReviewInv'
<1>1. Keeps /\ Unique'
  BY DEF Keeps, ReviewInv, Unique
<1> QED BY <1>1, QueueMoves, Unfiled, RowsQueued DEF ReviewInv

LEMMA QueueLeaves ==
  ASSUME PipeInv, DiskInv, ReviewInv, NEW r \in Runs, Leave(r),
         UNCHANGED <<catalog, desk, ledger, reviews>>
  PROVE  ReviewInv'
<1>1. Elsewise(r) /\ pc'[r] = "idle" /\ filed'[r] = 0
  BY DEF Leave, Goto, Elsewise, PipeInv, RecordsOK, DiskInv, StoresOK, ReviewInv
<1> QED BY <1>1, QueuePasses DEF Filing

(* In one process a call begins only when no other is executing.             *)
LEMMA QueueCalls ==
  ASSUME ~TwoProcesses, PipeInv, DiskInv, ReviewInv, UNCHANGED desk, NEW r \in Runs,
         BeginRun(r) \/ BeginResume(r) \/ Return(r) \/ Abort(r)
  PROVE  ReviewInv'
<1>1. CASE Return(r) \/ Abort(r)
  BY <1>1, QueueLeaves DEF Return, Abort, environment, stores
<1>2. CASE BeginRun(r) \/ BeginResume(r)
  <2>1. \A q \in Runs : pc[q] = "idle"
    BY <1>2 DEF BeginRun, BeginResume, Enter, Free, DiskInv, DiskInvOf, ExecutorInvOf
  <2>2. PICK point \in {"observe", "return"} : pc' = [pc EXCEPT ![r] = point]
    BY <1>2 DEF BeginRun, BeginResume, Enter, Goto
  <2>3. UNCHANGED <<catalog, seen, filed, reviews>>
    BY <1>2 DEF BeginRun, BeginResume, environment, stores
  <2>4. ledger'[r].rows = ledger[r].rows /\ \A q \in Runs \ {r} : ledger'[q] = ledger[q]
    BY <1>2 DEF BeginRun, BeginResume, PipeInv, RecordsOK
  <2>5. pc'[r] \notin Filing /\ filed'[r] = 0
    BY <2>1, <2>2, <2>3 DEF PipeInv, RecordsOK, ReviewInv, FiledInvOf, Filing
  <2>6. Elsewise(r)
    BY <2>2, <2>3, <2>4 DEF Elsewise, PipeInv, RecordsOK, ReviewInv
  <2> QED BY <2>1, <2>3, <2>4, <2>5, <2>6, QueuePasses
<1> QED BY <1>1, <1>2

(* The steps before the first review of the key at hand.                     *)
LEMMA QueueObserves ==
  ASSUME PipeInv, DiskInv, ReviewInv, UNCHANGED desk, NEW r \in Runs,
         \/ Observe(r) \/ PutRaw(r) \/ PutObservation(r) \/ SnapshotFails(r)
         \/ WriteCanonical(r)
  PROVE  ReviewInv'
<1>1. pc[r] \in {"observe", "putRaw", "putObservation", "canonical"}
  BY DEF Observe, PutRaw, PutObservation, SnapshotFails, WriteCanonical, At
<1>2. /\ pc'[r] \in {"observe", "putRaw", "putObservation", "parsed"}
      /\ \A q \in Runs \ {r} : UNCHANGED <<pc[q], seen[q]>>
  BY <1>1 DEF Observe, PutRaw, PutObservation, SnapshotFails, WriteCanonical, At, Goto,
     PipeInv, RecordsOK, DiskInv, StoresOK
<1>3. UNCHANGED <<catalog, filed, ledger, reviews>>
  BY DEF Observe, PutRaw, PutObservation, SnapshotFails, WriteCanonical, environment, stores
<1>4. filed'[r] = 0 /\ pc'[r] \notin Filing
  BY <1>1, <1>2, <1>3 DEF ReviewInv, FiledInvOf, Filing
<1> QED BY <1>1, <1>2, <1>3, <1>4, QueuePasses DEF Elsewise, ReviewInv

(* A step among the points where the reviews of the key at hand are filed.   *)
LEMMA QueueFiles ==
  ASSUME PipeInv, ReviewInv, NEW r \in Runs, NEW point,
         pc' = [pc EXCEPT ![r] = point], pc[r] # "idle", point # "idle",
         UNCHANGED <<catalog, seen, ledger, reviews, desk>>, DOMAIN filed' = Runs,
         \A q \in Runs \ {r} : filed'[q] = filed[q],
         FiledInvOf(r)'
  PROVE  ReviewInv'
<1>1. Elsewise(r) /\ Keeps /\ Unique'
  BY DEF Elsewise, PipeInv, RecordsOK, Keeps, ReviewInv, Unique
<1> QED BY <1>1, QueueMoves, RowsQueued DEF ReviewInv

(* The key at hand has its reviews to file, or none.                         *)
LEMMA QueueOpens ==
  ASSUME PipeInv, DiskInv, ReviewInv, UNCHANGED desk, NEW r \in Runs,
         Choose(r) \/ WriteParsed(r)
  PROVE  ReviewInv'
<1>1. UNCHANGED <<catalog, seen, filed, ledger, reviews>> /\ pc[r] \in {"observe", "parsed"}
  BY DEF Choose, WriteParsed, At, environment, stores
<1>2. PICK point \in {"canonical", "review"} : pc' = [pc EXCEPT ![r] = point]
  BY DEF Choose, WriteParsed, Goto
<1>3. filed'[r] = 0 /\ pc'[r] = point
  BY <1>1, <1>2 DEF ReviewInv, FiledInvOf, Filing, PipeInv, RecordsOK
<1>4. Len(Petitions(r))' \in Nat
  <2>1. Fixed(r) /\ IsRows(seen[r])
    BY <1>1 DEF Fixed, DiskInv, DiskInvOf, ExecutorInvOf
  <2> QED BY <2>1, SamePetitions, PetitionsAre
<1>5. FiledInvOf(r)'
  BY <1>3, <1>4 DEF FiledInvOf, Filing
<1> QED BY <1>1, <1>2, <1>5, QueueFiles DEF ReviewInv

(* One more is filed: this run's, as all that it files is.                   *)
LEMMA FiledOneMore ==
  ASSUME PipeInv, DiskInv, ReviewInv, NEW r \in Runs, Fixed(r), Keeps,
         pc'[r] = "review", pc[r] \in {"review", "putReview"},
         filed[r] < Len(Petitions(r)), filed'[r] = filed[r] + 1,
         \E v \in reviews' : v.id = Petition(r).id /\ v.evidence.run = r
  PROVE  FiledInvOf(r)'
<1>1. Petitions(r)' = Petitions(r)
  BY SamePetitions
<1>2. Len(Petitions(r)) \in Nat /\ filed[r] \in Nat
  BY PetitionsAre DEF DiskInv, DiskInvOf, ExecutorInvOf, ReviewInv, FiledInvOf
<1>3. HaveReview(Petitions(r)[1].id, r)'
  <2>1. CASE filed[r] = 0
    BY <1>1, <2>1 DEF Petition, HaveReview
  <2>2. CASE filed[r] > 0
    <3>1. HaveReview(Petitions(r)[1].id, r)
      BY <2>2 DEF ReviewInv, FiledInvOf, Filing
    <3> QED BY <1>1, <3>1, HaveKept DEF HaveReview
  <2> QED BY <1>2, <2>1, <2>2
<1> QED BY <1>1, <1>2, <1>3 DEF FiledInvOf, Filing

LEMMA QueueFinds ==
  ASSUME PipeInv, DiskInv, ReviewInv, UNCHANGED desk, NEW r \in Runs, FindReview(r)
  PROVE  ReviewInv'
<1>1. /\ UNCHANGED <<catalog, seen, ledger, reviews, pc>> /\ pc[r] = "review"
      /\ filed' = [filed EXCEPT ![r] = filed[r] + 1]
  BY DEF FindReview, At, environment, stores, artifacts
<1>2. PICK v \in reviews : v.id = Petition(r).id /\ v.evidence = Petition(r).evidence
  BY DEF FindReview, Exists, Stored, SameEvidence
<1>3. Petition(r).evidence.run = r
  <2>1. filed[r] + 1 \in 1..Len(Petitions(r)) /\ IsRows(seen[r])
    BY PetitionsAre
       DEF FindReview, ReviewInv, FiledInvOf, DiskInv, DiskInvOf, ExecutorInvOf
  <2> QED BY <2>1, PetitionsAre DEF Petition
<1>4. FiledInvOf(r)'
  <2>1. Fixed(r) /\ Keeps /\ filed'[r] = filed[r] + 1 /\ pc'[r] = "review"
    BY <1>1 DEF Fixed, Keeps, ReviewInv
  <2> QED BY <1>1, <1>2, <1>3, <2>1, FiledOneMore DEF FindReview
<1>5. Elsewise(r) /\ Keeps /\ Unique'
  BY <1>1 DEF Elsewise, Keeps, ReviewInv, Unique
<1> QED BY <1>1, <1>4, <1>5, QueueMoves, RowsQueued DEF ReviewInv

(* Between the look for a review and its write nothing is filed.             *)
LEMMA QueueLooks ==
  ASSUME PipeInv, DiskInv, ReviewInv, UNCHANGED desk, NEW r \in Runs,
         MissReview(r) \/ (CheckReview(r) /\ ~Refuse(r)) \/ AllFiled(r)
  PROVE  ReviewInv'
<1>1. /\ UNCHANGED <<catalog, seen, filed, ledger, reviews>>
      /\ pc[r] \in {"review", "newReview"}
  BY DEF MissReview, CheckReview, AllFiled, At, environment, stores
<1>2. PICK point \in {"newReview", "putReview", "outcomes"} :
        /\ pc' = [pc EXCEPT ![r] = point]
        /\ point # "outcomes" => filed[r] < Len(Petitions(r))
        /\ point = "putReview" => ~Exists(Petition(r).id)
        /\ point = "outcomes" => filed[r] = Len(Petitions(r))
  <2>1. CASE MissReview(r)
    BY <2>1 DEF MissReview, Goto
  <2>2. CASE CheckReview(r) /\ ~Refuse(r)
    BY <2>2 DEF CheckReview, Goto, At, ReviewInv, FiledInvOf
  <2>3. CASE AllFiled(r)
    BY <2>3 DEF AllFiled, Goto
  <2> QED BY <2>1, <2>2, <2>3
<1>3. Petitions(r)' = Petitions(r) /\ Petition(r)' = Petition(r)
  <2>1. Fixed(r)
    BY <1>1 DEF Fixed
  <2> QED BY <1>1, <2>1, SamePetitions DEF Petition
<1>4. FiledInvOf(r)'
  <2>1. /\ filed'[r] = filed[r] /\ pc'[r] = point /\ reviews' = reviews
        /\ FiledInvOf(r) /\ pc[r] \in Filing
    BY <1>1, <1>2 DEF PipeInv, RecordsOK, ReviewInv, Filing
  <2> QED BY <1>2, <1>3, <2>1 DEF FiledInvOf, Filing, Exists, HaveReview
<1> QED BY <1>1, <1>2, <1>4, QueueFiles DEF ReviewInv

LEMMA QueuePuts ==
  ASSUME PipeInv, DiskInv, ReviewInv, UNCHANGED desk, NEW r \in Runs, PutReview(r)
  PROVE  ReviewInv'
<1> DEFINE new == Undecided(Petition(r))
<1>1. /\ UNCHANGED <<catalog, seen, ledger>> /\ pc[r] = "putReview"
      /\ pc' = [pc EXCEPT ![r] = "review"]
      /\ filed' = [filed EXCEPT ![r] = filed[r] + 1]
  BY DEF PutReview, At, Goto, environment
<1>2. ~Exists(Petition(r).id) /\ filed[r] < Len(Petitions(r))
  BY <1>1 DEF ReviewInv, FiledInvOf
<1>3. new.id = Petition(r).id /\ new.evidence = Petition(r).evidence
  BY DEF Undecided
<1> HIDE DEF new
<1>4. reviews' = reviews \cup {new} /\ \A v \in reviews : v.id # new.id
  <2>1. reviews' = {v \in reviews : v.id # new.id} \cup {new}
    BY DEF PutReview, Replace, new
  <2> QED BY <1>2, <1>3, <2>1 DEF Exists
<1>5. Keeps /\ Unique'
  BY <1>4 DEF Keeps, ReviewInv, Unique
<1>6. new.evidence.run = r
  <2>1. filed[r] + 1 \in 1..Len(Petitions(r)) /\ IsRows(seen[r])
    BY <1>2, PetitionsAre DEF ReviewInv, FiledInvOf, DiskInv, DiskInvOf, ExecutorInvOf
  <2> QED BY <1>3, <2>1, PetitionsAre DEF Petition
<1>7. Fixed(r) /\ Elsewise(r) /\ pc'[r] = "review" /\ filed'[r] = filed[r] + 1
  BY <1>1 DEF Fixed, Elsewise, PipeInv, RecordsOK, ReviewInv
<1>8. FiledInvOf(r)'
  BY <1>1, <1>2, <1>3, <1>4, <1>5, <1>6, <1>7, FiledOneMore
<1> QED BY <1>1, <1>5, <1>7, <1>8, QueueMoves, RowsQueued DEF ReviewInv, Fixed

(* The row names the first review that was filed.                            *)
LEMMA QueueRow ==
  ASSUME PipeInv, DiskInv, ReviewInv, UNCHANGED desk, NEW r \in Runs, WriteOutcomes(r)
  PROVE  ReviewInv'
<1> DEFINE row == Row(r)
<1>1. /\ UNCHANGED <<catalog, reviews>> /\ pc[r] = "outcomes"
      /\ pc' = [pc EXCEPT ![r] = "attempts"]
      /\ seen' = [seen EXCEPT ![r] = <<>>] /\ filed' = [filed EXCEPT ![r] = 0]
      /\ ledger' = [ledger EXCEPT ![r].rows = Append(@, row)]
  BY DEF WriteOutcomes, At, Goto, environment, stores
<1>2. row.review # NoReview => HaveReview(row.review, r)
  <2>1. row.review = IF Petitions(r) = <<>> THEN NoReview ELSE Petitions(r)[1].id
    BY DEF Row
  <2>2. /\ filed[r] = Len(Petitions(r))
        /\ filed[r] > 0 => HaveReview(Petitions(r)[1].id, r)
    BY <1>1 DEF ReviewInv, FiledInvOf, Filing
  <2>3. Petitions(r) # <<>> => Len(Petitions(r)) > 0
    BY PetitionsAre DEF DiskInv, DiskInvOf, ExecutorInvOf
  <2> QED BY <2>1, <2>2, <2>3
<1> HIDE DEF row
<1>3. Elsewise(r) /\ Keeps /\ Unique'
  BY <1>1 DEF Elsewise, PipeInv, RecordsOK, DiskInv, StoresOK, ReviewInv, Keeps, Unique
<1>4. FiledInvOf(r)'
  BY <1>1, Unfiled DEF Filing, PipeInv, RecordsOK, ReviewInv
<1>5. QueueInvOf(r)'
  <2>1. ledger'[r].rows = Append(ledger[r].rows, row) /\ IsRows(ledger[r].rows)
    BY <1>1 DEF PipeInv, RecordsOK
  <2>2. /\ Done(r)' = Done(r) + 1 /\ Done(r) \in Nat
        /\ \A i \in 1..Done(r) : ledger'[r].rows[i] = ledger[r].rows[i]
        /\ ledger'[r].rows[Done(r) + 1] = row
    BY <2>1, AppendRows DEF Done, IsRows
  <2>3. ASSUME NEW i \in 1..Done(r)', ledger'[r].rows[i].review # NoReview
        PROVE  HaveReview(ledger[r].rows[i].review, r)'
    <3>1. CASE i \in 1..Done(r)
      <4>1. ledger'[r].rows[i] = ledger[r].rows[i] /\ QueueInvOf(r)
        BY <2>2, <3>1 DEF ReviewInv
      <4>2. HaveReview(ledger[r].rows[i].review, r)
        BY <2>3, <3>1, <4>1 DEF QueueInvOf
      <4> QED BY <1>1, <4>1, <4>2 DEF HaveReview
    <3>2. CASE i = Done(r) + 1
      BY <1>1, <1>2, <2>2, <2>3, <3>2 DEF HaveReview
    <3> QED BY <2>2, <3>1, <3>2
  <2> QED BY <2>3 DEF QueueInvOf
<1> QED BY <1>1, <1>3, <1>4, <1>5, QueueMoves

LEMMA QueueDocuments ==
  ASSUME PipeInv, DiskInv, ReviewInv, UNCHANGED desk, NEW r \in Runs,
         WriteAttempts(r) \/ WriteCheckpoint(r) \/ WriteReport(r) \/ WriteStatus(r)
  PROVE  ReviewInv'
<1>1. UNCHANGED <<catalog, seen, filed, reviews>> /\ pc[r] \notin Filing /\ pc[r] # "idle"
  BY DEF WriteAttempts, WriteCheckpoint, WriteReport, WriteStatus, At, environment, stores,
     Filing
<1>2. PICK point \in {"checkpoint", "report", "status", "observe", "return"} :
        pc' = [pc EXCEPT ![r] = point]
  BY DEF WriteAttempts, WriteCheckpoint, WriteReport, WriteStatus, Goto
<1>3. /\ ledger'[r].rows = ledger[r].rows
      /\ \A q \in Runs \ {r} : ledger'[q] = ledger[q]
  BY DEF WriteAttempts, WriteCheckpoint, WriteReport, WriteStatus, PipeInv, RecordsOK
<1>4. /\ Elsewise(r) /\ filed'[r] = 0 /\ pc'[r] \notin Filing
  BY <1>1, <1>2, <1>3 DEF Elsewise, PipeInv, RecordsOK, ReviewInv, FiledInvOf, Filing
<1> QED BY <1>1, <1>3, <1>4, QueuePasses

LEMMA QueueExecutor ==
  ASSUME ~TwoProcesses, PipeInv, DiskInv, ReviewInv, UNCHANGED desk, NEW r \in Runs,
         ExecutorStep(r)
  PROVE  ReviewInv'
<1>1. CASE Clash(r) \/ RefuseReview(r) \/ (CheckReview(r) /\ Refuse(r))
  <2>1. Refuse(r)
    BY <1>1 DEF Clash, RefuseReview
  <2> QED BY <2>1, QueueLeaves DEF Refuse, environment, stores
<1>2. CASE MissReview(r) \/ (CheckReview(r) /\ ~Refuse(r)) \/ AllFiled(r)
  BY <1>2, QueueLooks
<1>3. CASE \/ Observe(r) \/ PutRaw(r) \/ PutObservation(r) \/ SnapshotFails(r)
           \/ WriteCanonical(r)
  BY <1>3, QueueObserves
<1>4. CASE Choose(r) \/ WriteParsed(r)
  BY <1>4, QueueOpens
<1>5. CASE FindReview(r) \/ PutReview(r)
  BY <1>5, QueueFinds, QueuePuts
<1>6. CASE CommitStep(r)
  BY <1>6, QueueRow, QueueDocuments DEF CommitStep
<1>7. CASE BeginRun(r) \/ BeginResume(r) \/ Return(r) \/ Abort(r)
  BY <1>7, QueueCalls
<1> QED BY <1>1, <1>2, <1>3, <1>4, <1>5, <1>6, <1>7 DEF ExecutorStep, KeyStep

(* A step that has nothing to do with reviews.                               *)
LEMMA QueueRests ==
  ASSUME ReviewInv, UNCHANGED <<catalog, pc, seen, filed, ledger, reviews, desk>>
  PROVE  ReviewInv'
<1>1. Unique' /\ Held' /\ Keeps
  BY DEF ReviewInv, Unique, Held, Keeps
<1> QED BY <1>1, QueueStays

LEMMA ReviewNext ==
  ASSUME ~TwoProcesses
  PROVE  PipeInv /\ DiskInv /\ DecisionInv /\ ReviewInv /\ [Next]_vars => ReviewInv'
<1> SUFFICES ASSUME PipeInv, DiskInv, DecisionInv, ReviewInv, [Next]_vars PROVE ReviewInv'
  OBVIOUS
<1>1. CASE UNCHANGED vars
  BY <1>1, QueueRests DEF vars, processing, environment, executor, stores, deciding
<1>2. CASE ProcessingNext /\ UNCHANGED <<deciding, evaluating>>
  <2>1. CASE ChangeFixture
    BY <1>2, <2>1, QueueRests DEF ChangeFixture, executor, stores, deciding
  <2>2. ASSUME NEW r \in Runs, ExecutorStep(r) PROVE ReviewInv'
    BY <1>2, <2>2, QueueExecutor DEF deciding
  <2> QED BY <1>2, <2>1, <2>2 DEF ProcessingNext
<1>3. ASSUME NEW p \in Reviewers, Load(p) \/ Decide(p) PROVE ReviewInv'
  BY <1>3, QueueLoads, QueueDecides DEF DecisionInv
<1>4. ASSUME NEW e \in Evaluators, EvaluatorStep(e) PROVE ReviewInv'
  <2>1. UNCHANGED <<catalog, pc, seen, filed, ledger, reviews, desk>>
    BY <1>4 DEF EvaluatorStep, ReadReport, ReadCheckpoint, ReadOutcomes, ReadAttempts,
       ReadStatus, ReadReviews, OnlyRead, WriteIneligible, StageCandidate,
       StageEvaluation, ReplaceCandidate, ReplaceEvaluation, CommitFails,
       EvaluatorDies, Elsewhere, processing, environment, executor, stores, deciding
  <2> QED BY <2>1, QueueRests
<1> QED BY <1>1, <1>2, <1>3, <1>4 DEF Next

(* In one process, however often processing is cut and whatever reviewers    *)
(* decide meanwhile, a committed row that is blocked has a review in the     *)
(* queue, filed by its own run (_process_record, ReviewStore._persist_new).  *)
THEOREM BlockedRowsAreQueued ==
  ASSUME ~TwoProcesses
  PROVE  Spec => []BlockedRowHasReview
<1>1. ReviewInv => BlockedRowHasReview
  BY DEF ReviewInv, QueueInvOf, HaveReview, BlockedRowHasReview
<1> QED
  BY <1>1, PipeInit, PipeNext, DiskInit, DiskNext, DecisionInit, DecisionNext, ReviewInit,
     ReviewNext, PTL DEF Spec

-----------------------------------------------------------------------------
(* One reviewer: what was read is what is there when it is written back. *)

LEMMA History ==
  ASSUME NEW h, IsRows(h), NEW event
  PROVE  /\ SubSeq(h, 1, Len(h)) = h /\ SubSeq(Append(h, event), 1, Len(h)) = h
         /\ Len(h) \in Nat /\ Len(Append(h, event)) = Len(h) + 1
<1>1. PICK S : h \in Seq(S)
  BY DEF IsRows
<1>2. h \in Seq(S \cup {event}) /\ Append(h, event) \in Seq(S \cup {event})
  BY <1>1
<1> DEFINE g == Append(h, event)
<1>3. /\ Len(h) \in Nat /\ Len(g) = Len(h) + 1
      /\ \A i \in 1..Len(h) : g[i] = h[i]
  BY <1>2
<1>4. SubSeq(h, 1, Len(h)) = h
  BY <1>2, <1>3
<1>5. SubSeq(g, 1, Len(h)) = h
  <2>1. /\ SubSeq(g, 1, Len(h)) = [i \in 1..Len(h) |-> g[i]]
    BY <1>2, <1>3
  <2>2. h = [i \in 1..Len(h) |-> h[i]]
    BY <1>2
  <2> QED BY <1>3, <2>1, <2>2
<1> QED BY <1>3, <1>4, <1>5

Current == \A p \in Reviewers : desk[p].busy => desk[p].review \in reviews

(* What ReviewsOnlyGrow says of a step.                                      *)
Grow ==
  \A v \in reviews : \E w \in reviews' :
    /\ w.id = v.id /\ w.evidence = v.evidence
    /\ Len(v.history) <= Len(w.history)
    /\ SubSeq(w.history, 1, Len(v.history)) = v.history

LEMMA PutsBeside ==
  ASSUME ReviewInv, NEW r \in Runs, PutReview(r)
  PROVE  reviews \subseteq reviews'
<1>1. ~Exists(Petition(r).id) /\ Undecided(Petition(r)).id = Petition(r).id
  BY DEF ReviewInv, FiledInvOf, PutReview, At, Undecided
<1> QED BY <1>1 DEF PutReview, Replace, Exists

LEMMA GrowsBeside ==
  ASSUME DecisionInv, reviews \subseteq reviews'
  PROVE  Grow
<1> SUFFICES ASSUME NEW v \in reviews
             PROVE  Len(v.history) <= Len(v.history) /\ SubSeq(v.history, 1, Len(v.history)) = v.history
  BY DEF Grow
<1> QED BY History DEF DecisionInv, HistoryOK

LEMMA GrowsByDecision ==
  ASSUME DecisionInv, ReviewInv, Current, NEW p \in Reviewers, Decide(p)
  PROVE  Grow
<1>1. PICK v, new :
        /\ v \in reviews
        /\ v.id = desk[p].review.id /\ v.evidence = desk[p].review.evidence
        /\ new = [desk[p].review EXCEPT !.history = Append(@, desk[p].event)]
        /\ new.id = v.id /\ new.evidence = v.evidence
        /\ reviews' = (reviews \ {v}) \cup {new}
  BY Replaces
<1>2. v = desk[p].review
  BY <1>1 DEF Current, Decide, ReviewInv, Unique
<1>3. new.history = Append(v.history, desk[p].event) /\ HistoryOK(v)
  BY <1>1, <1>2 DEF DecisionInv, HistoryOK
<1>4. ASSUME NEW u \in reviews
      PROVE  \E w \in reviews' :
               /\ w.id = u.id /\ w.evidence = u.evidence
               /\ Len(u.history) <= Len(w.history)
               /\ SubSeq(w.history, 1, Len(u.history)) = u.history
  <2>1. CASE u = v
    <3>1. Len(v.history) <= Len(new.history) /\ SubSeq(new.history, 1, Len(v.history)) = v.history
      BY <1>3, History DEF HistoryOK
    <3> QED BY <1>1, <2>1, <3>1
  <2>2. CASE u # v
    <3>1. u \in reviews' /\ IsRows(u.history)
      BY <1>1, <2>2 DEF DecisionInv, HistoryOK
    <3>2. Len(u.history) <= Len(u.history) /\ SubSeq(u.history, 1, Len(u.history)) = u.history
      BY <3>1, History
    <3> QED BY <3>1, <3>2
  <2> QED BY <2>1, <2>2
<1> QED BY <1>4 DEF Grow

LEMMA CurrentNext ==
  ASSUME \A p, q \in Reviewers : p = q
  PROVE  DecisionInv /\ ReviewInv /\ Current /\ [Next]_vars => Current' /\ Grow
<1> SUFFICES ASSUME DecisionInv, ReviewInv, Current, [Next]_vars PROVE Current' /\ Grow
  OBVIOUS
<1>1. CASE UNCHANGED <<reviews, desk>>
  BY <1>1, GrowsBeside DEF Current
<1>2. ASSUME NEW p \in Reviewers, Load(p) PROVE Current' /\ Grow
  <2>1. PICK v, event :
          /\ v \in reviews
          /\ desk' = [desk EXCEPT ![p] = [busy |-> TRUE, review |-> v, event |-> event]]
    BY <1>2 DEF Load
  <2>2. reviews' = reviews
    BY <1>2 DEF Load, processing, stores
  <2> QED BY <2>1, <2>2, GrowsBeside DEF Current, DecisionInv
<1>3. ASSUME NEW p \in Reviewers, Decide(p) PROVE Current' /\ Grow
  <2>1. Current'
    BY <1>3 DEF Decide, Current, Idle, DecisionInv
  <2> QED BY <1>3, <2>1, GrowsByDecision
<1>4. ASSUME NEW r \in Runs, PutReview(r), UNCHANGED desk PROVE Current' /\ Grow
  BY <1>4, PutsBeside, GrowsBeside DEF Current
<1> QED BY <1>1, <1>2, <1>3, <1>4, ReviewSteps

(* In one process, and with one reviewer, nothing that was filed or decided  *)
(* is lost: a decision is appended to the record it was made of, and a       *)
(* review is filed beside the others (ReviewStore.decide, _persist_current,  *)
(* _persist_new).  With two reviewers the later write drops the earlier      *)
(* decision, so the assumption is needed.                                    *)
THEOREM DecisionsAreKept ==
  ASSUME ~TwoProcesses, \A p, q \in Reviewers : p = q
  PROVE  Spec => ReviewsOnlyGrow
<1>1. Init => Current
  BY DEF Init, Current, Idle
<1>2. DecisionInv /\ ReviewInv /\ Current /\ [Next]_vars => [Grow]_vars
  BY CurrentNext
<1>3. DecisionInv /\ ReviewInv /\ Current /\ [Next]_vars =>
        [\A v \in reviews : \E w \in reviews' :
           /\ w.id = v.id /\ w.evidence = v.evidence
           /\ Len(v.history) <= Len(w.history)
           /\ SubSeq(w.history, 1, Len(v.history)) = v.history]_vars
  BY <1>2 DEF Grow
<1> QED
  BY <1>1, <1>3, CurrentNext, PipeInit, PipeNext, DiskInit, DiskNext, DecisionInit,
     DecisionNext, ReviewInit, ReviewNext, PTL DEF Spec, ReviewsOnlyGrow

-----------------------------------------------------------------------------
(* A published candidate is reviewed, for calls of one process and one       *)
(* reviewer: once a run has completed it files no review, and a decision     *)
(* only adds to what its reviews were when they were read.                   *)

(* A row whose winner is contradicted names the review of the conflict.      *)
NamedOf(r, i) ==
  LET row == ledger[r].rows[i] IN
  row.winner # 0 => row.outcome = "accepted" \/ row.review # NoReview
NamedInv == \A r \in Runs : \A i \in 1..Done(r) : NamedOf(r, i)

(* The reviews of a run come from those an evaluation has read.              *)
SeenBy(e) ==
  \A w \in reviews : w.evidence.run = eval[e].run =>
    \E v \in eval[e].reviews :
      v.id = w.id /\ v.evidence = w.evidence /\ IsRows(v.history) /\ Begins(v.history, w.history)
SeenInv == \A e \in Evaluators :
  eval[e].at = "judge" /\ eval[e].status.state = "completed" => SeenBy(e)

(* Rows that may be published: every one has a winner, and a decision for it *)
(* in each review of its key.                                                *)
Selected(v) == \E n \in 1..Len(v.history) : v.history[n].decision = "select_official"
ClearedRow(r, i) ==
  /\ ledger[r].rows[i].winner # 0
  /\ \A v \in reviews : v.evidence.run = r /\ v.id.key = Selection[r][i] => Selected(v)
Cleared(r) == \A i \in 1..Done(r) : ClearedRow(r, i)

(* A candidate is published, staged or about to be.                          *)
Announced(r) ==
  \/ candidate[r] # NoCandidate
  \/ \E pid \in EvaluatorPids : staged[pid][r].candidate # NoCandidate
  \/ \E e \in Evaluators : eval[e].at \in Publishing /\ eval[e].run = r

ClearInv == NamedInv /\ SeenInv /\ \A r \in Runs : Announced(r) => Cleared(r)

LEMMA ClearInit == Init => ClearInv
<1> SUFFICES ASSUME Init PROVE ClearInv
  OBVIOUS
<1>1. \A r \in Runs : Done(r) = 0
  BY EmptyRows DEF Init, ProcessingInit, NoLedger, Done
<1>2. \A e \in Evaluators : eval[e].at = "idle"
  BY DEF Init, Resting
<1> QED BY <1>1, <1>2 DEF ClearInv, NamedInv, SeenInv, Cleared

LEMMA AnnouncedIsWhole ==
  ASSUME PipeInv, NEW r \in Runs, Announced(r)
  PROVE  ledger[r].status.state = "completed" /\ Done(r) = N(r)
BY DEF PipeInv, CandidateInv, StagedInv, EvalInv, EvalInvOf, Announced, Whole

-----------------------------------------------------------------------------
(* What a step may do to rows, reviews and candidates. *)

LEMMA LedgerSteps ==
  ASSUME PipeInv, [Next]_vars, NEW r \in Runs
  PROVE  \/ ledger'[r].rows = ledger[r].rows
         \/ /\ WriteOutcomes(r)
            /\ ledger'[r].rows = Append(ledger[r].rows, Row(r))
<1>1. CASE UNCHANGED ledger
  BY <1>1
<1>2. ASSUME NEW q \in Runs, CommitStep(q) \/ BeginRun(q)
      PROVE  \/ ledger'[r].rows = ledger[r].rows
             \/ /\ WriteOutcomes(r)
                /\ ledger'[r].rows = Append(ledger[r].rows, Row(r))
  <2>1. CASE WriteOutcomes(q)
    <3>1. ledger' = [ledger EXCEPT ![q].rows = Append(@, Row(q))]
      BY <2>1 DEF WriteOutcomes
    <3> QED BY <2>1, <3>1 DEF PipeInv, RecordsOK
  <2>2. CASE ~WriteOutcomes(q)
    <3>1. CASE WriteAttempts(q)
      BY <3>1 DEF WriteAttempts, PipeInv, RecordsOK
    <3>2. CASE WriteCheckpoint(q)
      BY <3>2 DEF WriteCheckpoint, PipeInv, RecordsOK
    <3>3. CASE WriteReport(q)
      BY <3>3 DEF WriteReport, PipeInv, RecordsOK
    <3>4. CASE WriteStatus(q)
      BY <3>4 DEF WriteStatus, PipeInv, RecordsOK
    <3>5. CASE BeginRun(q)
      BY <3>5 DEF BeginRun, PipeInv, RecordsOK
    <3> QED BY <1>2, <2>2, <3>1, <3>2, <3>3, <3>4, <3>5 DEF CommitStep
  <2> QED BY <2>1, <2>2
<1>3. UNCHANGED ledger \/ \E q \in Runs : CommitStep(q) \/ BeginRun(q)
  <2>1. CASE UNCHANGED vars
    BY <2>1 DEF vars, processing
  <2>2. CASE ChangeFixture
    BY <2>2 DEF ChangeFixture
  <2>3. ASSUME NEW q \in Runs, KeyStep(q) PROVE UNCHANGED ledger
    BY <2>3 DEF KeyStep, Observe, PutRaw, PutObservation, SnapshotFails, Choose,
       WriteCanonical, WriteParsed, Clash, FindReview, RefuseReview, MissReview,
       CheckReview, PutReview, AllFiled, Refuse
  <2>4. ASSUME NEW q \in Runs, BeginResume(q) \/ Return(q) \/ Abort(q) PROVE UNCHANGED ledger
    BY <2>4 DEF BeginResume, Return, Abort
  <2>5. ASSUME NEW p \in Reviewers, Load(p) \/ Decide(p) PROVE UNCHANGED ledger
    BY <2>5 DEF Load, Decide, processing
  <2>6. ASSUME NEW e \in Evaluators, EvaluatorStep(e) PROVE UNCHANGED ledger
    BY <2>6 DEF EvaluatorStep, ReadReport, ReadCheckpoint, ReadOutcomes, ReadAttempts,
       ReadStatus, ReadReviews, OnlyRead, WriteIneligible, StageCandidate,
       StageEvaluation, ReplaceCandidate, ReplaceEvaluation, CommitFails,
       EvaluatorDies, Elsewhere, processing
  <2> QED BY <2>1, <2>2, <2>3, <2>4, <2>5, <2>6 DEF Next, ProcessingNext, ExecutorStep
<1> QED BY <1>1, <1>2, <1>3

(* A run that has completed has its rows, and files nothing.                 *)
LEMMA CompletedRests ==
  ASSUME PipeInv, NEW r \in Runs, ledger[r].status.state = "completed"
  PROVE  pc[r] \notin Working
<1>1. Done(r) = N(r) /\ N(r) \in Nat
  BY Sizes DEF PipeInv, LedgerInv, LedgerInvOf
<1> QED BY <1>1 DEF PipeInv, LedgerInv, LedgerInvOf

LEMMA CompletedKeeps ==
  ASSUME PipeInv, [Next]_vars, NEW r \in Runs, ledger[r].status.state = "completed"
  PROVE  ledger'[r].rows = ledger[r].rows
BY LedgerSteps, CompletedRests DEF WriteOutcomes, At, Working

Descends(r) ==
  \A w \in reviews' : w.evidence.run = r =>
    \E v \in reviews : v.id = w.id /\ v.evidence = w.evidence /\ Begins(v.history, w.history)

LEMMA SelfBegins ==
  ASSUME NEW h, IsRows(h)
  PROVE  Begins(h, h)
BY RowsLen DEF Begins

LEMMA CompletedDescends ==
  ASSUME PipeInv, DiskInv, DecisionInv, ReviewInv, Current, [Next]_vars,
         NEW r \in Runs, ledger[r].status.state = "completed"
  PROVE  Descends(r)
<1>1. \A v \in reviews : Begins(v.history, v.history)
  BY SelfBegins DEF DecisionInv, HistoryOK
<1>2. CASE UNCHANGED reviews
  BY <1>1, <1>2 DEF Descends
<1>3. ASSUME NEW p \in Reviewers, Decide(p) PROVE Descends(r)
  <2>1. PICK v, new :
          /\ v \in reviews
          /\ v.id = desk[p].review.id /\ v.evidence = desk[p].review.evidence
          /\ new = [desk[p].review EXCEPT !.history = Append(@, desk[p].event)]
          /\ new.id = v.id /\ new.evidence = v.evidence
          /\ reviews' = (reviews \ {v}) \cup {new}
    BY <1>3, Replaces
  <2>2. v = desk[p].review
    BY <1>3, <2>1 DEF Current, Decide, ReviewInv, Unique
  <2>3. new.history = Append(v.history, desk[p].event) /\ IsRows(v.history)
    BY <2>1, <2>2 DEF DecisionInv, HistoryOK
  <2>4. Begins(v.history, new.history)
    BY <2>3, AppendRows DEF Begins
  <2> QED BY <1>1, <2>1, <2>4 DEF Descends
<1>4. ASSUME NEW q \in Runs, PutReview(q) PROVE Descends(r)
  <2>1. q # r
    BY <1>4, CompletedRests DEF PutReview, At, Working
  <2>2. reviews' \subseteq reviews \cup {Undecided(Petition(q))}
    BY <1>4 DEF PutReview, Replace
  <2>3. Undecided(Petition(q)).evidence.run = q
    <3>1. filed[q] < Len(Petitions(q)) /\ filed[q] \in Nat /\ IsRows(seen[q])
      BY <1>4 DEF PutReview, At, ReviewInv, FiledInvOf, DiskInv, DiskInvOf, ExecutorInvOf
    <3>2. filed[q] + 1 \in 1..Len(Petitions(q))
      BY <3>1, PetitionsAre
    <3> QED BY <3>1, <3>2, PetitionsAre DEF Petition, Undecided
  <2> QED BY <1>1, <2>1, <2>2, <2>3 DEF Descends
<1>5. ASSUME NEW p \in Reviewers, Load(p) PROVE UNCHANGED reviews
  BY <1>5 DEF Load, processing, stores
<1> QED BY <1>2, <1>3, <1>4, <1>5, ReviewSteps

-----------------------------------------------------------------------------
(* Rows. *)

(* A conflict that is to be filed gives the row its review.                  *)
LEMMA RowIsNamed ==
  ASSUME NEW r \in Runs, Row(r).winner # 0
  PROVE  Row(r).outcome = "accepted" \/ Row(r).review # NoReview
<1>1. CASE Differing(r) = 0
  BY <1>1 DEF Row
<1>2. CASE Differing(r) # 0
  <2>1. Petitions(r) = <<Conflict(r)>>
    BY <1>2 DEF Row, Petitions
  <2>2. Row(r).review = Conflict(r).id
    BY <2>1 DEF Row
  <2>3. Conflict(r).id.kind = "conflict" /\ NoReview.kind = "none"
    BY DEF Conflict, NoReview
  <2> QED BY <2>2, <2>3
<1> QED BY <1>1, <1>2

LEMMA NamedNext ==
  ASSUME PipeInv, NamedInv, [Next]_vars
  PROVE  NamedInv'
<1> SUFFICES ASSUME NEW r \in Runs, NEW i \in 1..Done(r)' PROVE NamedOf(r, i)'
  BY DEF NamedInv
<1>1. CASE ledger'[r].rows = ledger[r].rows
  BY <1>1 DEF NamedInv, NamedOf, Done
<1>2. CASE ledger'[r].rows = Append(ledger[r].rows, Row(r))
  <2> DEFINE row == Row(r)
  <2>1. row.winner # 0 => row.outcome = "accepted" \/ row.review # NoReview
    BY RowIsNamed
  <2> HIDE DEF row
  <2>2. /\ Done(r)' = Done(r) + 1 /\ Done(r) \in Nat
        /\ \A j \in 1..Done(r) : ledger'[r].rows[j] = ledger[r].rows[j]
        /\ ledger'[r].rows[Done(r) + 1] = row
    BY <1>2, AppendRows DEF Done, IsRows, PipeInv, RecordsOK, row
  <2>3. CASE i \in 1..Done(r)
    BY <2>2, <2>3 DEF NamedInv, NamedOf
  <2>4. CASE i = Done(r) + 1
    BY <2>1, <2>2, <2>4 DEF NamedOf
  <2> QED BY <2>2, <2>3, <2>4
<1> QED BY <1>1, <1>2, LedgerSteps

-----------------------------------------------------------------------------
(* Evaluations. *)

LEMMA JudgeSteps ==
  ASSUME PipeInv, [Next]_vars, NEW e \in Evaluators, eval'[e].at = "judge"
  PROVE  eval'[e] = eval[e] \/ ReadReviews(e)
<1>1. CASE UNCHANGED eval
  BY <1>1
<1>2. ASSUME NEW f \in Evaluators, EvaluatorStep(f)
      PROVE  eval'[e] = eval[e] \/ ReadReviews(e)
  <2> USE DEF PipeInv, EvalInv
  <2>1. CASE f # e /\ ~EvaluatorDies(f)
    BY <1>2, <2>1 DEF EvaluatorStep, ReadReport, ReadCheckpoint, ReadOutcomes, ReadAttempts,
       ReadStatus, ReadReviews, Read, WriteIneligible, StageCandidate, StageEvaluation,
       ReplaceCandidate, ReplaceEvaluation, CommitFails, Rest, NowAt
  <2>2. CASE EvaluatorDies(f)
    BY <2>2 DEF EvaluatorDies, Resting
  <2>3. CASE f = e /\ (ReadReport(f) \/ ReadCheckpoint(f) \/ ReadOutcomes(f)
                         \/ ReadAttempts(f) \/ ReadStatus(f))
    <3>1. CASE ReadReport(e)
      <4>1. PICK r \in Runs, approved \in BOOLEAN :
              eval' = [eval EXCEPT ![e] =
                [at |-> "checkpoint", run |-> r, approved |-> approved,
                 report |-> ledger[r].report, checkpoint |-> 0, rows |-> <<>>,
                 attempts |-> NoLedger.attempts, status |-> NoLedger.status, reviews |-> {}]]
        BY <3>1 DEF ReadReport
      <4> QED BY <4>1
    <3>2. ASSUME NEW field, NEW value, NEW next, Read(e, field, value, next),
                 field # "at", next # "judge", eval[e].at # "idle"
          PROVE  FALSE
      <4>1. DOMAIN eval[e] = {"at", "run", "approved", "report", "checkpoint", "rows",
                              "attempts", "status", "reviews"}
        BY <3>2 DEF EvalInvOf
      <4> QED BY <3>2, <4>1 DEF Read
    <3>3. CASE ReadCheckpoint(e)
      BY <3>2, <3>3 DEF ReadCheckpoint, AtEval
    <3>4. CASE ReadOutcomes(e)
      BY <3>2, <3>4 DEF ReadOutcomes, AtEval
    <3>5. CASE ReadAttempts(e)
      BY <3>2, <3>5 DEF ReadAttempts, AtEval
    <3>6. CASE ReadStatus(e)
      BY <3>2, <3>6 DEF ReadStatus, AtEval
    <3> QED BY <2>3, <3>1, <3>3, <3>4, <3>5, <3>6
  <2>4. CASE f = e /\ (StageCandidate(f) \/ StageEvaluation(f) \/ ReplaceCandidate(f))
    <3>1. f = e /\ EvalInvOf(e) /\ eval[e].at # "idle"
      BY <2>4 DEF StageCandidate, StageEvaluation, ReplaceCandidate, AtEval
    <3> QED
      BY <2>4, <3>1 DEF StageCandidate, StageEvaluation, ReplaceCandidate, NowAt, EvalInvOf
  <2>5. CASE f = e /\ (WriteIneligible(f) \/ ReplaceEvaluation(f) \/ CommitFails(f))
    BY <2>5 DEF WriteIneligible, ReplaceEvaluation, CommitFails, Rest, Resting
  <2> QED BY <1>2, <2>1, <2>2, <2>3, <2>4, <2>5 DEF EvaluatorStep
<1>3. UNCHANGED eval \/ \E f \in Evaluators : EvaluatorStep(f)
  BY DEF Next, vars, evaluating, Load, Decide
<1> QED BY <1>1, <1>2, <1>3

LEMMA BeginsOn ==
  ASSUME NEW s, NEW t, NEW u, IsRows(s), IsRows(t), IsRows(u), Begins(s, t), Begins(t, u)
  PROVE  Begins(s, u)
BY RowsLen DEF Begins

LEMMA SeenNext ==
  ASSUME PipeInv, DiskInv, DecisionInv, DecisionInv', ReviewInv, Current, SeenInv, [Next]_vars
  PROVE  SeenInv'
<1> SUFFICES ASSUME NEW e \in Evaluators,
                    eval'[e].at = "judge", eval'[e].status.state = "completed"
             PROVE  SeenBy(e)'
  BY DEF SeenInv
<1>1. CASE ReadReviews(e)
  <2>1. EvalInvOf(e) /\ eval[e].at = "reviews"
    BY <1>1 DEF PipeInv, EvalInv, ReadReviews, AtEval
  <2>2. /\ eval'[e].reviews = {v \in reviews : v.evidence.run = eval[e].run}
        /\ eval'[e].run = eval[e].run /\ reviews' = reviews
    BY <1>1, <2>1 DEF ReadReviews, Read, OnlyRead, processing, stores, EvalInvOf, PipeInv, EvalInv
  <2>3. \A v \in reviews : IsRows(v.history) /\ Begins(v.history, v.history)
    BY SelfBegins DEF DecisionInv, HistoryOK
  <2> QED BY <2>2, <2>3 DEF SeenBy
<1>2. CASE eval'[e] = eval[e]
  <2> DEFINE r == eval[e].run
  <2>1. r \in Runs /\ ledger[r].status.state = "completed" /\ SeenBy(e)
    BY <1>2 DEF PipeInv, EvalInv, EvalInvOf, AfterStatus, SeenInv
  <2>2. Descends(r)
    BY <2>1, CompletedDescends
  <2>3. ASSUME NEW w \in reviews', w.evidence.run = r
        PROVE  \E v \in eval[e].reviews : /\ v.id = w.id /\ v.evidence = w.evidence
                                          /\ IsRows(v.history) /\ Begins(v.history, w.history)
    <3>1. PICK u \in reviews : u.id = w.id /\ u.evidence = w.evidence /\ Begins(u.history, w.history)
      BY <2>2, <2>3 DEF Descends
    <3>2. PICK v \in eval[e].reviews : /\ v.id = u.id /\ v.evidence = u.evidence
                                       /\ IsRows(v.history) /\ Begins(v.history, u.history)
      BY <2>1, <2>3, <3>1 DEF SeenBy
    <3>3. IsRows(u.history) /\ IsRows(w.history)
      BY DEF DecisionInv, HistoryOK
    <3> QED BY <3>1, <3>2, <3>3, BeginsOn
  <2> QED BY <1>2, <2>3 DEF SeenBy
<1> QED BY <1>1, <1>2, JudgeSteps

(* What is eligible is cleared: its rows are the run's, and what was decided *)
(* of its conflicts when they were read is decided still.                    *)
LEMMA EligibleIsCleared ==
  ASSUME PipeInv, DecisionInv, SeenInv, NEW e \in Evaluators, AtEval(e, "judge"), Eligible(e)
  PROVE  Cleared(eval[e].run)
<1> DEFINE r == eval[e].run
<1>1. Whole(r, eval[e].rows) /\ r \in Runs
  BY EligibleIsWhole DEF PipeInv, EvalInv, EvalInvOf, AtEval
<1>2. SeenBy(e)
  BY DEF Eligible, Complete, Consistent, SeenInv, AtEval
<1> SUFFICES ASSUME NEW i \in 1..Done(r) PROVE ClearedRow(r, i)
  BY DEF Cleared
<1>3. ItemEligible(e, i) /\ eval[e].rows[i] = ledger[r].rows[i]
  BY <1>1 DEF Eligible, Whole, Done
<1> DEFINE k == Selection[r][i]
           mine == {v \in eval[e].reviews : v.id.key = k}
<1>4. ASSUME NEW w \in reviews, w.evidence.run = r, w.id.key = k PROVE Selected(w)
  <2>1. PICK v \in mine : IsRows(v.history) /\ Begins(v.history, w.history)
    BY <1>2, <1>4 DEF SeenBy
  <2>2. Approved(v)
    BY <1>3, <2>1 DEF ItemEligible
  <2>3. Len(v.history) \in 1..Len(v.history) /\ Len(v.history) \in Nat
    BY <2>1, <2>2 DEF IsRows, Approved
  <2>4. v.history[Len(v.history)].decision = "select_official"
    BY <2>2 DEF Approved, Last
  <2>5. Len(v.history) \in 1..Len(w.history) /\ w.history[Len(v.history)] = v.history[Len(v.history)]
    BY <2>1, <2>3, RowsLen DEF Begins, DecisionInv, HistoryOK
  <2> QED BY <2>4, <2>5 DEF Selected
<1> QED BY <1>3, <1>4 DEF ClearedRow, ItemEligible

-----------------------------------------------------------------------------
(* Candidates. *)

LEMMA AnnounceSteps ==
  ASSUME PipeInv, [Next]_vars, NEW r \in Runs, Announced(r)'
  PROVE  \/ Announced(r)
         \/ \E e \in Evaluators : AtEval(e, "judge") /\ Eligible(e) /\ eval[e].run = r
<1>1. CASE UNCHANGED <<eval, staged, candidate>>
  BY <1>1 DEF Announced
<1>2. ASSUME NEW e \in Evaluators, EvaluatorStep(e), ~StageCandidate(e)
      PROVE  Announced(r)
  <2> USE DEF PipeInv, EvalInv
  <2>1. EvalInvOf(e) /\ EvaluatorOf[e] \in EvaluatorPids
    BY DEF EvaluatorPids
  <2>2. CASE \/ ReadReport(e) \/ ReadCheckpoint(e) \/ ReadOutcomes(e) \/ ReadAttempts(e)
             \/ ReadStatus(e) \/ ReadReviews(e)
    <3>1. UNCHANGED <<staged, candidate>> /\ \A f \in Evaluators \ {e} : eval'[f] = eval[f]
      BY <2>2 DEF ReadReport, ReadCheckpoint, ReadOutcomes, ReadAttempts, ReadStatus,
         ReadReviews, Read, OnlyRead
    <3>2. eval'[e].at \notin Publishing
      <4>1. CASE ReadReport(e)
        <5>1. PICK q \in Runs, approved \in BOOLEAN :
                eval' = [eval EXCEPT ![e] =
                  [at |-> "checkpoint", run |-> q, approved |-> approved,
                   report |-> ledger[q].report, checkpoint |-> 0, rows |-> <<>>,
                   attempts |-> NoLedger.attempts, status |-> NoLedger.status, reviews |-> {}]]
          BY <4>1 DEF ReadReport
        <5> QED BY <5>1 DEF Publishing
      <4>2. ASSUME NEW field, NEW value, NEW next, Read(e, field, value, next),
                   field # "at", next \notin Publishing, eval[e].at # "idle"
            PROVE  eval'[e].at \notin Publishing
        <5>1. DOMAIN eval[e] = {"at", "run", "approved", "report", "checkpoint", "rows",
                                "attempts", "status", "reviews"}
          BY <2>1, <4>2 DEF EvalInvOf
        <5> QED BY <4>2, <5>1 DEF Read
      <4>3. CASE ReadCheckpoint(e)
        BY <4>2, <4>3 DEF ReadCheckpoint, AtEval, Publishing
      <4>4. CASE ReadOutcomes(e)
        BY <4>2, <4>4 DEF ReadOutcomes, AtEval, Publishing
      <4>5. CASE ReadAttempts(e)
        BY <4>2, <4>5 DEF ReadAttempts, AtEval, Publishing
      <4>6. CASE ReadStatus(e)
        BY <4>2, <4>6 DEF ReadStatus, AtEval, Publishing
      <4>7. CASE ReadReviews(e)
        BY <4>2, <4>7 DEF ReadReviews, AtEval, Publishing
      <4> QED BY <2>2, <4>1, <4>3, <4>4, <4>5, <4>6, <4>7
    <3> QED BY <3>1, <3>2 DEF Announced
  <2>3. ASSUME UNCHANGED <<staged, candidate>>,
               \A f \in Evaluators : eval'[f] = eval[f] \/ eval'[f] = Resting
        PROVE  Announced(r)
    BY <2>3 DEF Announced, Resting, Publishing
  <2>4. CASE WriteIneligible(e) \/ EvaluatorDies(e)
    BY <2>3, <2>4 DEF WriteIneligible, EvaluatorDies, Rest
  <2>5. ASSUME eval[e].run = r, eval[e].at \in Publishing
        PROVE  Announced(r)
    BY <2>5 DEF Announced
  <2>6. CASE eval[e].run # r
             /\ (StageEvaluation(e) \/ ReplaceCandidate(e) \/ ReplaceEvaluation(e) \/ CommitFails(e))
    <3>1. /\ eval[e].at # "idle" /\ eval[e].run \in Runs
          /\ DOMAIN eval[e] = {"at", "run", "approved", "report", "checkpoint", "rows",
                               "attempts", "status", "reviews"}
      BY <2>1, <2>6 DEF StageEvaluation, ReplaceCandidate, ReplaceEvaluation, CommitFails, AtEval,
         EvalInvOf
    <3>2. /\ \A f \in Evaluators \ {e} : eval'[f] = eval[f]
          /\ eval'[e].run = r => eval'[e] = Resting
      BY <2>6, <3>1 DEF StageEvaluation, ReplaceCandidate, ReplaceEvaluation, CommitFails, Rest,
         NowAt, Resting
    <3>3. candidate'[r] = candidate[r]
      BY <2>6 DEF StageEvaluation, ReplaceCandidate, ReplaceEvaluation, CommitFails, CandidateInv
    <3>4. \A pid \in EvaluatorPids : staged'[pid][r] = staged[pid][r]
      BY <2>1, <2>6, <3>1
         DEF StageEvaluation, ReplaceCandidate, ReplaceEvaluation, CommitFails, SetStage, StagedInv
    <3>5. \A f \in Evaluators : eval'[f].at \in Publishing /\ eval'[f].run = r =>
                                  eval[f].at \in Publishing /\ eval[f].run = r
      BY <3>2, <2>6 DEF Resting, Publishing
    <3> QED BY <3>3, <3>4, <3>5 DEF Announced
  <2>7. CASE eval[e].run = r
             /\ (StageEvaluation(e) \/ ReplaceCandidate(e) \/ ReplaceEvaluation(e) \/ CommitFails(e))
    BY <2>5, <2>7 DEF StageEvaluation, ReplaceCandidate, ReplaceEvaluation, CommitFails, AtEval,
       Publishing
  <2> QED BY <1>2, <2>2, <2>4, <2>6, <2>7 DEF EvaluatorStep
<1>3. ASSUME NEW e \in Evaluators, StageCandidate(e), eval[e].run # r PROVE Announced(r)
  <2> USE DEF PipeInv, EvalInv
  <2>1. /\ EvaluatorOf[e] \in EvaluatorPids /\ eval[e].run \in Runs
        /\ DOMAIN eval[e] = {"at", "run", "approved", "report", "checkpoint", "rows",
                             "attempts", "status", "reviews"}
    BY <1>3 DEF EvaluatorPids, StageCandidate, AtEval, EvalInvOf
  <2>2. /\ \A f \in Evaluators \ {e} : eval'[f] = eval[f]
        /\ eval'[e].run # r /\ candidate' = candidate
    BY <1>3, <2>1 DEF StageCandidate, NowAt
  <2>3. \A pid \in EvaluatorPids : staged'[pid][r] = staged[pid][r]
    BY <1>3, <2>1 DEF StageCandidate, SetStage, StagedInv
  <2> QED BY <1>3, <2>2, <2>3 DEF Announced
<1>4. UNCHANGED <<eval, staged, candidate>> \/ \E e \in Evaluators : EvaluatorStep(e)
  BY DEF Next, vars, evaluating, Load, Decide
<1>5. ASSUME NEW e \in Evaluators, StageCandidate(e)
      PROVE  AtEval(e, "judge") /\ Eligible(e)
  BY <1>5 DEF StageCandidate
<1> QED BY <1>1, <1>2, <1>3, <1>4, <1>5

LEMMA ClearedStays ==
  ASSUME PipeInv, DiskInv, DecisionInv, DecisionInv', ReviewInv, Current, [Next]_vars,
         NEW r \in Runs, ledger[r].status.state = "completed", Cleared(r)
  PROVE  Cleared(r)'
<1>1. ledger'[r].rows = ledger[r].rows /\ Descends(r)
  BY CompletedKeeps, CompletedDescends
<1> SUFFICES ASSUME NEW i \in 1..Done(r) PROVE ClearedRow(r, i)'
  BY <1>1 DEF Cleared, Done
<1>2. ASSUME NEW w \in reviews', w.evidence.run = r, w.id.key = Selection[r][i]
      PROVE  Selected(w)
  <2>1. PICK v \in reviews : /\ v.id = w.id /\ v.evidence = w.evidence
                             /\ Begins(v.history, w.history)
    BY <1>1, <1>2 DEF Descends
  <2>2. Selected(v)
    BY <1>2, <2>1 DEF Cleared, ClearedRow
  <2>3. Len(v.history) \in Nat /\ Len(w.history) \in Nat
    BY RowsLen DEF DecisionInv, HistoryOK
  <2> QED BY <2>1, <2>2, <2>3 DEF Selected, Begins
<1> QED BY <1>1, <1>2 DEF Cleared, ClearedRow, Selected

LEMMA ClearNext ==
  ASSUME PipeInv, DiskInv, DecisionInv, DecisionInv', ReviewInv, Current, ClearInv, [Next]_vars
  PROVE  ClearInv'
<1>1. NamedInv' /\ SeenInv'
  BY NamedNext, SeenNext DEF ClearInv
<1>2. ASSUME NEW r \in Runs, Announced(r)' PROVE Cleared(r)'
  <2>1. CASE Announced(r)
    BY <2>1, AnnouncedIsWhole, ClearedStays DEF ClearInv
  <2>2. ASSUME NEW e \in Evaluators, AtEval(e, "judge"), Eligible(e), eval[e].run = r
        PROVE  Cleared(r)'
    BY <2>2, EligibleIsCleared, EligibleIsWhole, ClearedStays DEF ClearInv, Whole
  <2> QED BY <1>2, <2>1, <2>2, AnnounceSteps
<1> QED BY <1>1, <1>2 DEF ClearInv

(* In one process and with one reviewer, whatever is read while the run is   *)
(* still writing and whatever is decided while an evaluation goes on,        *)
(* a candidate holds official content only, and a conflict the run ever      *)
(* filed for one of its keys was decided for the official side               *)
(* (evaluate_candidate, _eligible_items, ReviewStore.decide).                *)
THEOREM PublishedIsReviewed ==
  ASSUME ~TwoProcesses, \A p, q \in Reviewers : p = q
  PROVE  Spec => []CandidateIsReviewed
<1>1. Init => Current
  BY DEF Init, Current, Idle
<1>2. PipeInv /\ DiskInv /\ DecisionInv /\ DecisionInv' /\ ReviewInv /\ Current /\ ClearInv
        /\ [Next]_vars => ClearInv'
  BY ClearNext
<1>3. PipeInv /\ DiskInv /\ ClearInv => CandidateIsReviewed
  <2> SUFFICES ASSUME PipeInv, DiskInv, ClearInv, NEW r \in Runs, candidate[r] # NoCandidate,
                      NEW i \in 1..Len(candidate[r].rows)
               PROVE  LET k == Selection[r][i]
                          w == candidate[r].rows[i].winner IN
                      /\ w # 0 /\ Ordered(k)[w].official /\ Joined(r, k, candidate[r].rows[i])
                      /\ \/ candidate[r].rows[i].outcome = "accepted"
                         \/ candidate[r].rows[i].review # NoReview
                      /\ \A v \in reviews : v.evidence.run = r /\ v.id.key = k =>
                           \E n \in 1..Len(v.history) : v.history[n].decision = "select_official"
    BY DEF CandidateIsReviewed
  <2>1. candidate[r].rows = ledger[r].rows /\ i \in 1..Done(r)
    BY DEF PipeInv, CandidateInv, Whole, Done
  <2>2. ClearedRow(r, i)
    BY <2>1 DEF ClearInv, Announced, Cleared
  <2>3. RowExplained(r, i) /\ NamedOf(r, i)
    BY <2>1 DEF DiskInv, DiskInvOf, RowsInvOf, ClearInv, NamedInv
  <2> QED BY <2>1, <2>2, <2>3 DEF ClearedRow, RowExplained, NamedOf, Selected
<1> QED
  BY <1>1, <1>2, <1>3, CurrentNext, PipeInit, PipeNext, DiskInit, DiskNext, DecisionInit,
     DecisionNext, ReviewInit, ReviewNext, ClearInit, PTL DEF Spec
=============================================================================
