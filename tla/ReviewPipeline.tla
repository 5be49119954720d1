---------------------------- MODULE ReviewPipeline ----------------------------
(***************************************************************************)
(* Record processing composed with the people and calls around it:         *)
(* reviewers who decide the reviews it files, and evaluations that turn a  *)
(* completed run into a release candidate.                                 *)
(*                                                                         *)
(* A decision is a read of the review file and a later write of the whole  *)
(* record, under a lock that belongs to one ReviewStore object and so      *)
(* protects nothing between two callers.  An evaluation reads the run's    *)
(* documents one by one without a lock, and publishes two files: the       *)
(* candidate and the evaluation that announces it.                         *)
(***************************************************************************)
EXTENDS RecordProcessing

CONSTANTS
  Reviewers,       \* callers of decide()
  DecisionKeys,    \* idempotency keys; "own" is the one derived from the payload
  Evaluators,      \* callers of evaluate_candidate()
  EvaluatorOf,     \* the process of each: its pid names the staging files
  FixedRuns        \* runs with the fixed limit of 100 and no shortfall

EvaluatorPids == {EvaluatorOf[e] : e \in Evaluators}

ASSUME PipelineAssumption ==
  /\ "own" \in DecisionKeys
  /\ FixedRuns \subseteq Runs

VARIABLES
  desk,          \* per reviewer: the record loaded and the event to append
  decisions,
  eval,          \* per evaluator: control point and what it has read
  staged,        \* per process and run: the staged candidate and evaluation
  candidate,     \* per run: the published candidate
  evaluation,    \* per run: candidate-evaluation.json
  evaluations

deciding   == <<desk, decisions>>
evaluating == <<eval, staged, candidate, evaluation, evaluations>>
vars == <<processing, deciding, evaluating>>

-----------------------------------------------------------------------------
(* Decisions. *)

Idle == [busy |-> FALSE]

(* The status of a review is the one its last decision gave it.              *)
Approved(v) == v.history # <<>> /\ Last(v.history).decision = "select_official"

SameKey(e, f) == e.key = f.key /\ (e.key = "own" => e = f)
Prior(v, e)   == \E i \in 1..Len(v.history) : SameKey(v.history[i], e)

(* decide() up to its write: only a conflict has an official side to select; *)
(* a key used before is a no-op or a conflict, and either way changes        *)
(* nothing.  "block" does what "reject" does.                                *)
\* Faulty: a key used before is not looked for.
LoadRepeatedly(p) ==
  /\ ~desk[p].busy /\ decisions < Bound.decisions
  /\ \E v \in reviews, d \in {"select_official", "reject"}, key \in DecisionKeys :
       /\ d = "select_official" => v.id.kind = "conflict"
       /\ desk' = [desk EXCEPT ![p] = [busy |-> TRUE, review |-> v,
                     event |-> [key |-> key, decision |-> d, by |-> p]]]
  /\ decisions' = decisions + 1
  /\ UNCHANGED <<processing, evaluating>>

Load(p) ==
  /\ ~desk[p].busy /\ decisions < Bound.decisions
  /\ \E v \in reviews, d \in {"select_official", "reject"}, key \in DecisionKeys :
       LET event == [key |-> key, decision |-> d, by |-> p] IN
       /\ d = "select_official" => v.id.kind = "conflict"
       /\ ~Prior(v, event)
       /\ desk' = [desk EXCEPT ![p] = [busy |-> TRUE, review |-> v, event |-> event]]
  /\ decisions' = decisions + 1
  /\ UNCHANGED <<processing, evaluating>>

(* _persist_current: the whole record is replaced.                           *)
\* Faulty: the last decision takes the place of the others.
DecideAnew(p) ==
  /\ desk[p].busy
  /\ reviews' = Replace([desk[p].review EXCEPT !.history = <<desk[p].event>>])
  /\ desk' = [desk EXCEPT ![p] = Idle]
  /\ UNCHANGED <<environment, executor, ledger, artifacts, snapshots, observed, refused,
                 faults, decisions, evaluating>>

Decide(p) ==
  /\ desk[p].busy
  /\ reviews' = Replace([desk[p].review EXCEPT !.history = Append(@, desk[p].event)])
  /\ desk' = [desk EXCEPT ![p] = Idle]
  /\ UNCHANGED <<environment, executor, ledger, artifacts, snapshots, observed, refused,
                 faults, decisions, evaluating>>

-----------------------------------------------------------------------------
(* evaluate_candidate: seven documents read in turn.  request.json and       *)
(* preflight.json never change.                                              *)

Resting == [at |-> "idle"]
AtEval(e, point) == eval[e].at = point
Read(e, field, value, next) ==
  eval' = [eval EXCEPT ![e] = [@ EXCEPT !.at = next, ![field] = value]]
OnlyRead == UNCHANGED <<processing, deciding, staged, candidate, evaluation, evaluations>>

ReadReport(e) ==
  /\ AtEval(e, "idle") /\ evaluations < Bound.evaluations
  /\ \E r \in Runs, approved \in BOOLEAN :
       /\ ledger[r].report.state # "absent"
       /\ eval' = [eval EXCEPT ![e] =
            [at |-> "checkpoint", run |-> r, approved |-> approved,
             report |-> ledger[r].report, checkpoint |-> 0, rows |-> <<>>,
             attempts |-> NoLedger.attempts, status |-> NoLedger.status, reviews |-> {}]]
  /\ evaluations' = evaluations + 1
  /\ UNCHANGED <<processing, deciding, staged, candidate, evaluation>>

ReadCheckpoint(e) ==
  /\ AtEval(e, "checkpoint")
  /\ Read(e, "checkpoint", ledger[eval[e].run].checkpoint, "outcomes")
  /\ OnlyRead
ReadOutcomes(e) ==
  /\ AtEval(e, "outcomes")
  /\ Read(e, "rows", ledger[eval[e].run].rows, "attempts")
  /\ OnlyRead
ReadAttempts(e) ==
  /\ AtEval(e, "attempts")
  /\ Read(e, "attempts", ledger[eval[e].run].attempts, "status")
  /\ OnlyRead
ReadStatus(e) ==
  /\ AtEval(e, "status")
  /\ Read(e, "status", ledger[eval[e].run].status, "reviews")
  /\ OnlyRead

(* The reviews this run was the first to see.                                *)
\* Faulty: reviews that have been decided are not read.
ReadOpenReviews(e) ==
  /\ AtEval(e, "reviews")
  /\ Read(e, "reviews",
          {v \in reviews : v.evidence.run = eval[e].run /\ (v.history = <<>> \/ Approved(v))},
          "judge")
  /\ OnlyRead
ReadReviews(e) ==
  /\ AtEval(e, "reviews")
  /\ Read(e, "reviews", {v \in reviews : v.evidence.run = eval[e].run}, "judge")
  /\ OnlyRead

(* The documents are of one revision and account for every selected key,     *)
(* once, with an attempt row each.                                           *)
Consistent(e) ==
  LET v == eval[e] IN
  /\ {v.report.rev, v.checkpoint, v.status.rev, v.attempts.rev} = {Len(v.rows)}
  /\ v.report.state = v.status.state
  /\ Len(v.rows) = N(v.run) /\ Len(v.attempts.keys) = N(v.run)

\* Faulty: a run is not required to be complete, or of one revision.
Unfinished(e) == eval[e].run \in FixedRuns

Complete(e) == Consistent(e) /\ eval[e].run \in FixedRuns /\ eval[e].report.state = "completed"

(* What the row joins is there: the parsed and canonical artifacts of its    *)
(* winner, the raw snapshot and the observation.                             *)
Joined(r, k, row) ==
  /\ parsed[r][k] = <<row.winner, Ordered(k)[row.winner].raw>>
  /\ canonical[r][k] = Ordered(k)[row.winner].page
  /\ Ordered(k)[row.winner].raw \in snapshots
  /\ <<k, row.winner>> \in observed

(* One row: accepted and without a review, or in conflict and resolved for   *)
(* the official side it was committed with.  No other review is ever         *)
(* cleared: release_blocking stays set whatever is decided.                  *)
ItemEligible(e, i) ==
  LET row == eval[e].rows[i]
      k   == Selection[eval[e].run][i]
      mine == {v \in eval[e].reviews : v.id.key = k} IN
  /\ row.winner # 0
  /\ \/ mine = {} /\ row.outcome = "accepted"
     \/ \E v \in mine : /\ mine = {v} /\ v.id.kind = "conflict" /\ Approved(v)
                        /\ v.evidence.bindings[1] = row.winner
                        /\ v.id.raws[1] = Ordered(k)[row.winner].raw
  /\ Joined(eval[e].run, k, row)

Eligible(e) ==
  /\ eval[e].approved /\ Complete(e)
  /\ \A i \in 1..Len(eval[e].rows) : ItemEligible(e, i)

-----------------------------------------------------------------------------
(* Publication: both files are staged under names made of the process id,    *)
(* then the candidate and after it the evaluation is put in place.           *)

NoCandidate == [by |-> "none"]
(* The candidate's bytes: its rows and who approved it.                      *)
Bytes(e) == [by |-> e, rows |-> eval[e].rows]
Stage(e) == staged[EvaluatorOf[e]][eval[e].run]
SetStage(e, field, value) ==
  staged' = [staged EXCEPT ![EvaluatorOf[e]][eval[e].run][field] = value]
Rest(e) == eval' = [eval EXCEPT ![e] = Resting]
NowAt(e, next) == eval' = [eval EXCEPT ![e].at = next]
Elsewhere == UNCHANGED <<processing, deciding, evaluations>>

(* Not eligible: the evaluation alone is replaced; a candidate published     *)
(* before stays.                                                             *)
WriteIneligible(e) ==
  /\ AtEval(e, "judge") /\ ~Eligible(e)
  /\ evaluation' = [evaluation EXCEPT ![eval[e].run] = [NoCandidate EXCEPT !.by = "ineligible"]]
  /\ Rest(e)
  /\ UNCHANGED <<staged, candidate>> /\ Elsewhere

StageCandidate(e) ==
  /\ AtEval(e, "judge") /\ Eligible(e)
  /\ SetStage(e, "candidate", Bytes(e))
  /\ NowAt(e, "stage")
  /\ UNCHANGED <<candidate, evaluation>> /\ Elsewhere

StageEvaluation(e) ==
  /\ AtEval(e, "stage")
  /\ SetStage(e, "evaluation", Bytes(e))
  /\ NowAt(e, "candidate")
  /\ UNCHANGED <<candidate, evaluation>> /\ Elsewhere

ReplaceCandidate(e) ==
  /\ AtEval(e, "candidate") /\ Stage(e).candidate # NoCandidate
  /\ candidate' = [candidate EXCEPT ![eval[e].run] = Stage(e).candidate]
  /\ SetStage(e, "candidate", NoCandidate)
  /\ NowAt(e, "evaluation")
  /\ UNCHANGED evaluation /\ Elsewhere

ReplaceEvaluation(e) ==
  /\ AtEval(e, "evaluation") /\ Stage(e).evaluation # NoCandidate
  /\ evaluation' = [evaluation EXCEPT ![eval[e].run] = Stage(e).evaluation]
  /\ SetStage(e, "evaluation", NoCandidate)
  /\ Rest(e)
  /\ UNCHANGED candidate /\ Elsewhere

(* A replace fails: its staged file is gone, or the disk refuses.  The       *)
(* handler removes both staged files and the candidate, whoever put it       *)
(* there.                                                                    *)
CommitFails(e) ==
  /\ \/ AtEval(e, "candidate") /\ (Stage(e).candidate = NoCandidate \/ faults < Bound.faults)
     \/ AtEval(e, "evaluation") /\ (Stage(e).evaluation = NoCandidate \/ faults < Bound.faults)
  /\ faults' = IF Stage(e)[eval[e].at] = NoCandidate THEN faults ELSE faults + 1
  /\ staged' = [staged EXCEPT ![EvaluatorOf[e]][eval[e].run] =
                  [candidate |-> NoCandidate, evaluation |-> NoCandidate]]
  /\ candidate' = [candidate EXCEPT ![eval[e].run] = NoCandidate]
  /\ Rest(e)
  /\ UNCHANGED <<environment, executor, ledger, artifacts, stores, refused, deciding,
                 evaluation, evaluations>>

(* The evaluating process dies.                                              *)
EvaluatorDies(e) ==
  /\ ~AtEval(e, "idle") /\ faults < Bound.faults
  /\ faults' = faults + 1
  /\ eval' = [f \in Evaluators |-> IF EvaluatorOf[f] = EvaluatorOf[e] THEN Resting ELSE eval[f]]
  /\ UNCHANGED <<environment, executor, ledger, artifacts, stores, refused, deciding,
                 staged, candidate, evaluation, evaluations>>

-----------------------------------------------------------------------------
Init ==
  /\ ProcessingInit
  /\ desk = [p \in Reviewers |-> Idle] /\ decisions = 0
  /\ eval = [e \in Evaluators |-> Resting]
  /\ staged = [p \in EvaluatorPids |-> [r \in Runs |->
                 [candidate |-> NoCandidate, evaluation |-> NoCandidate]]]
  /\ candidate = [r \in Runs |-> NoCandidate]
  /\ evaluation = [r \in Runs |-> NoCandidate]
  /\ evaluations = 0

EvaluatorStep(e) ==
  \/ ReadReport(e) \/ ReadCheckpoint(e) \/ ReadOutcomes(e) \/ ReadAttempts(e)
  \/ ReadStatus(e) \/ ReadReviews(e)
  \/ WriteIneligible(e) \/ StageCandidate(e) \/ StageEvaluation(e)
  \/ ReplaceCandidate(e) \/ ReplaceEvaluation(e) \/ CommitFails(e) \/ EvaluatorDies(e)

Next ==
  \/ ProcessingNext /\ UNCHANGED <<deciding, evaluating>>
  \/ \E p \in Reviewers : Load(p) \/ Decide(p)
  \/ \E e \in Evaluators : EvaluatorStep(e)

Spec == Init /\ [][Next]_vars
=============================================================================
