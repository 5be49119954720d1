-------------------------- MODULE PipelineProperties --------------------------
(***************************************************************************)
(* Properties of record processing, the review store and the candidate     *)
(* evaluation.                                                             *)
(***************************************************************************)
EXTENDS ReviewPipeline

Points == {"idle", "observe", "putRaw", "putObservation", "canonical", "parsed", "review",
           "newReview", "putReview", "outcomes", "attempts", "checkpoint", "report",
           "status", "return"}
States == {"absent", "running", "blocked", "completed"}
RawNames == Raws \cup {NoRaw, AlteredRaw}
ResultSet == [outcome : Outcomes,
              code : {"none", "transport_exhausted", "transport_permanent",
                      "transport_retryable", "transport_timeout", "fixture_read_error",
                      "raw_hash_mismatch", "parse_failure", "suspect_entry",
                      "deterministic_validation_failure",
                      "raw_snapshot_persistence_failure"},
              raw : RawNames, lexeme : Lexemes \cup {NoEntry}, delay : 0..2]
Stamps(r) == [rev : 0..N(r), state : States]

(* Types of the processing variables; a review is a record of its identity,  *)
(* evidence and history.                                                     *)
TypeOK ==
  /\ catalog \in Catalogs
  /\ slot \in [Runs -> {"none", "run", "resume"}] /\ pc \in [Runs -> Points]
  /\ \A r \in Runs :
       /\ seen[r] \in Seq(ResultSet) /\ filed[r] \in Nat
       /\ Done(r) <= N(r)
       /\ \A i \in 1..Done(r) : DOMAIN ledger[r].rows[i] = {"outcome", "winner", "review"}
       /\ ledger[r].checkpoint \in 0..N(r)
       /\ {ledger[r].report, ledger[r].status} \subseteq Stamps(r)
       /\ canonical[r] \in [Keys -> Lexemes \cup {NoEntry}]
       /\ DOMAIN parsed[r] = Keys
  /\ snapshots \subseteq Raws /\ observed \subseteq Keys \X Nat
  /\ \A v \in reviews : DOMAIN v = {"id", "evidence", "history"}
  /\ refused \subseteq Runs

(* A committed row whose key an official won is explained, for ever, by what *)
(* is on disk: the parsed artifact joins that binding, which is an official, *)
(* the canonical artifact is its content, and its raw bytes and observation  *)
(* are in the store.  Calls that died over the key, and resumes that came to *)
(* another winner after a fixture changed, leave nothing else behind.        *)
ArtifactsExplainRow ==
  \A r \in Runs : \A i \in 1..Done(r) :
    LET k == Selection[r][i]
        w == ledger[r].rows[i].winner IN
    w # 0 => /\ Ordered(k)[w].official
             /\ Joined(r, k, ledger[r].rows[i])

(* "Persist conflicts, quarantines": a committed row that is blocked has its *)
(* review in the queue, filed by the same run, so the evaluation of the run  *)
(* finds it however often processing was cut, and whichever other runs saw   *)
(* the same key.                                                             *)
BlockedRowHasReview ==
  \A r \in Runs : \A i \in 1..Done(r) :
    ledger[r].rows[i].review # NoReview =>
      \E v \in reviews : v.id = ledger[r].rows[i].review /\ v.evidence.run = r

(* "fail-closed": a candidate exists only for a run with the fixed limit     *)
(* that completed, and holds exactly its final rows, whatever the evaluation *)
(* read while the run was still writing.                                     *)
CandidateCoversRun ==
  \A r \in Runs : candidate[r] # NoCandidate =>
    /\ r \in FixedRuns
    /\ ledger[r].status.state = "completed"
    /\ candidate[r].rows = ledger[r].rows /\ Done(r) = N(r)

(* "a fallback or non-authoritative source can never be selected": every row *)
(* of a candidate is the content of an official binding; if the run ever     *)
(* filed a conflict for its key, a reviewer selected the official side; and  *)
(* it never filed a quarantine for it.                                       *)
CandidateIsReviewed ==
  \A r \in Runs : candidate[r] # NoCandidate =>
    \A i \in 1..Len(candidate[r].rows) :
      LET k == Selection[r][i]
          w == candidate[r].rows[i].winner IN
      /\ w # 0 /\ Ordered(k)[w].official /\ Joined(r, k, candidate[r].rows[i])
      /\ candidate[r].rows[i].outcome = "accepted" \/ candidate[r].rows[i].review # NoReview
      /\ \A v \in reviews : v.evidence.run = r /\ v.id.key = k =>
           \E n \in 1..Len(v.history) : v.history[n].decision = "select_official"

(* "source_evidence_immutable", "append-only decision history": no step      *)
(* removes a review, changes its evidence, or drops a decision.              *)
ReviewsOnlyGrow ==
  [][\A v \in reviews : \E w \in reviews' :
       /\ w.id = v.id /\ w.evidence = v.evidence
       /\ Len(v.history) <= Len(w.history)
       /\ SubSeq(w.history, 1, Len(v.history)) = v.history]_vars

(* "Repeating the same idempotency key with the same payload is a no-op": no *)
(* two decisions of a review share a key.                                    *)
OneDecisionPerKey ==
  \A v \in reviews : \A m, n \in 1..Len(v.history) :
    SameKey(v.history[m], v.history[n]) => m = n

(* "Create or return an immutable conflict record": no call is refused while *)
(* it files a conflict.                                                      *)
CreateOrReturn ==
  [][\A r \in refused' \ refused :
       ~(pc[r] \in {"review", "newReview"} /\ Petition(r).id.kind = "conflict")]_vars
=============================================================================
