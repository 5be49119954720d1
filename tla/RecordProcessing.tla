-------------------------- MODULE RecordProcessing --------------------------
(***************************************************************************)
(* What a checkpoint run does with one selected key, for several runs over *)
(* one root: observe every binding, choose the first valid official,       *)
(* materialise it, file a review for what cannot be accepted, and commit   *)
(* the row.  Runs of one catalog with different limits share keys, and     *)
(* with them the snapshot store and the review store.                      *)
(*                                                                         *)
(* A run has at most one executor (CheckpointDriver says when that holds). *)
(* run() and resume() take different lock files, so one of each may be     *)
(* executing at a time; in one process the class-level lock allows only    *)
(* one.  The process that calls dies or fails between any two writes, and  *)
(* fixtures may change on disk.                                            *)
(***************************************************************************)
EXTENDS SourceObservation, StableSort, FiniteSets, SequencesExt

CONSTANTS
  Runs,          \* run identities: one catalog, different limits
  Keys,          \* stable keys
  Selection,     \* the keys each run selects, in order
  Catalogs,      \* catalogs considered: the bindings of every key
  TwoProcesses,  \* whether run() and resume() are called by two processes
  Bounds         \* per catalog, the bounds: which runs are made, and how many
                 \* faults, changes of fixtures, decisions and evaluations

ASSUME ProcessingAssumption ==
  /\ Selection \in [Runs -> Seq(Keys)]
  /\ \A r \in Runs : Selection[r] # <<>> /\ IsInjective(Selection[r])
  /\ Catalogs \subseteq [Keys -> Seq(Bindings) \ {<<>>}]
  /\ \A c \in Catalogs : \A j, k \in Keys : \A m \in 1..Len(c[j]), n \in 1..Len(c[k]) :
       c[j][m].raw = c[k][n].raw => c[j][m].page = c[k][n].page
  /\ NoRaw \notin Raws \cup {AlteredRaw} /\ NoEntry \notin Lexemes
  /\ TwoProcesses \in BOOLEAN
  /\ Bounds \in [Catalogs -> [runs : SUBSET Runs, faults : Nat, changes : Nat,
                              decisions : Nat, evaluations : Nat]]

VARIABLES
  catalog,       \* the catalog every run was made from
  file,          \* per key and binding: state of its fixture
  slot,          \* per run: which call executes it, "none", "run" or "resume"
  pc,            \* per run: control point of its executor
  seen,          \* per run: results of the bindings of the key at hand
  filed,         \* per run: reviews of the key at hand filed so far
  ledger,        \* per run: its five revision documents
  canonical,     \* per run and key: canonical artifact, the lexical content
  parsed,        \* per run and key: parsed artifact, the binding and raw it joins
  snapshots,     \* raw snapshot store: hashes of stored bytes
  observed,      \* raw snapshot store: bindings whose observation is stored
  reviews,       \* the review store
  refused,       \* history: runs a call of which ended in a review error
  faults, changes

stores == <<snapshots, observed, reviews>>
artifacts == <<canonical, parsed>>
executor == <<slot, pc, seen, filed>>
environment == <<catalog, file, changes>>
processing == <<environment, executor, ledger, artifacts, stores, refused, faults>>

Bound     == Bounds[catalog]
N(r)      == Len(Selection[r])
Done(r)   == Len(ledger[r].rows)
At(r, point)   == pc[r] = point
Goto(r, point) == pc' = [pc EXCEPT ![r] = point]

(* The key at hand, the bindings of a key with its officials first (the rest *)
(* of the sort's key, the primary and then URL and hash, is the order the    *)
(* catalog gives them in), and the place of each result among them.          *)
Key(r)       == Selection[r][Done(r) + 1]
OfficialsFirst(bindings) == Sorted(bindings, LAMBDA a, b : a.official /\ ~b.official)
Ordered(k)   == OfficialsFirst(catalog[k])
Binding(r, i) == Ordered(Key(r))[i]
Results(r)    == 1..Len(seen[r])
AllSeen(r)    == Len(seen[r]) = Len(Ordered(Key(r)))

NoReview  == [kind |-> "none"]
NotParsed == <<0, NoRaw>>
NoLedger == [rows |-> <<>>, attempts |-> [rev |-> 0, keys |-> <<>>], checkpoint |-> 0,
             report |-> [rev |-> 0, state |-> "absent"],
             status |-> [rev |-> 0, state |-> "absent"]]

StateAfter(r, rows) ==
  IF Len(rows) < N(r) THEN "running"
  ELSE IF \E i \in 1..Len(rows) : rows[i].outcome = "retryable" THEN "blocked"
  ELSE "completed"

-----------------------------------------------------------------------------
(* Calls. *)

Free(kind) == \A r \in Runs : slot[r] # "none" => TwoProcesses /\ slot[r] # kind

Enter(r, kind) ==
  /\ slot[r] = "none" /\ Free(kind)
  /\ slot' = [slot EXCEPT ![r] = kind]
  /\ Goto(r, IF kind = "resume" /\ Done(r) = N(r) THEN "return" ELSE "observe")

(* _create_run, which writes status "running" before the first key.          *)
BeginRun(r) ==
  /\ ledger[r].status.state = "absent" /\ r \in Bound.runs
  /\ Enter(r, "run")
  /\ ledger' = [ledger EXCEPT ![r].status.state = "running"]
  /\ UNCHANGED <<environment, seen, filed, artifacts, stores, refused, faults>>

(* A running run is resumed from the rows of outcomes.json.                  *)
BeginResume(r) ==
  /\ ledger[r].status.state = "running"
  /\ Enter(r, "resume")
  /\ UNCHANGED <<environment, seen, filed, ledger, artifacts, stores, refused, faults>>

(* The call ends; what it held in memory is gone.                            *)
Leave(r) ==
  /\ slot' = [slot EXCEPT ![r] = "none"]
  /\ Goto(r, "idle")
  /\ seen' = [seen EXCEPT ![r] = <<>>]
  /\ filed' = [filed EXCEPT ![r] = 0]

Return(r) ==
  /\ At(r, "return")
  /\ Leave(r)
  /\ UNCHANGED <<environment, ledger, artifacts, stores, refused, faults>>

(* A crash, a full disk or an injected persistence fault.                    *)
Abort(r) ==
  /\ slot[r] # "none" /\ faults < Bound.faults
  /\ faults' = faults + 1
  /\ Leave(r)
  /\ UNCHANGED <<environment, ledger, artifacts, stores, refused>>

(* ReviewError, or an immutable artifact with other bytes: the call unwinds. *)
Refuse(r) ==
  /\ Leave(r)
  /\ refused' = refused \cup {r}
  /\ UNCHANGED <<environment, ledger, artifacts, stores, faults>>

-----------------------------------------------------------------------------
(* Observation of the bindings, officials first. *)

Observe(r) ==
  /\ At(r, "observe") /\ ~AllSeen(r)
  /\ LET i == Len(seen[r]) + 1 IN
     \E result \in Observations(Binding(r, i), file[Key(r)][i]) :
       /\ seen' = [seen EXCEPT ![r] = Append(@, result)]
       /\ IF Fetched(result) THEN Goto(r, "putRaw") ELSE UNCHANGED pc
  /\ UNCHANGED <<environment, slot, filed, ledger, artifacts, stores, refused, faults>>

(* RawSnapshotStore.put: the bytes, then their provenance.                   *)
PutRaw(r) ==
  /\ At(r, "putRaw")
  /\ snapshots' = snapshots \cup {Last(seen[r]).raw}
  /\ Goto(r, "putObservation")
  /\ UNCHANGED <<environment, slot, seen, filed, ledger, artifacts, observed, reviews,
                 refused, faults>>

PutObservation(r) ==
  /\ At(r, "putObservation")
  /\ observed' = observed \cup {<<Key(r), Len(seen[r])>>}
  /\ Goto(r, "observe")
  /\ UNCHANGED <<environment, slot, seen, filed, ledger, artifacts, snapshots, reviews,
                 refused, faults>>

(* The snapshot store cannot be written: put()'s OSError is caught, and the  *)
(* binding counts as failed, for ever, whatever the page holds.              *)
SnapshotFails(r) ==
  /\ pc[r] \in {"putRaw", "putObservation"} /\ faults < Bound.faults
  /\ faults' = faults + 1
  /\ LET raw == Last(seen[r]).raw IN
     seen' = [seen EXCEPT ![r][Len(seen[r])] =
                Result("failed", "raw_snapshot_persistence_failure", raw, NoEntry, 0)]
  /\ Goto(r, "observe")
  /\ UNCHANGED <<environment, slot, filed, ledger, artifacts, stores, refused>>

-----------------------------------------------------------------------------
(* The winner is the first accepted official; the conflict, the first        *)
(* accepted evidence that differs from it.                                   *)

Accepted(r) == {i \in Results(r) : seen[r][i].outcome = "accepted"}
First(S)    == IF S = {} THEN 0 ELSE CHOOSE i \in S : \A j \in S : i <= j

Winner(r)   == First({i \in Accepted(r) : Binding(r, i).official})
Won(r)      == seen[r][Winner(r)]
Join(r)     == <<Winner(r), Won(r).raw>>

(* lexical_field_diffs *)
Differing(r) == First({i \in Accepted(r) : /\ ~Binding(r, i).official
                                           /\ seen[r][i].lexeme # Won(r).lexeme})

Choose(r) ==
  /\ At(r, "observe") /\ AllSeen(r)
  /\ Goto(r, IF Winner(r) # 0 THEN "canonical" ELSE "review")
  /\ UNCHANGED <<environment, slot, seen, filed, ledger, artifacts, stores, refused, faults>>

(* _write_immutable: the same bytes are a no-op, others an error.            *)
CanonicalFits(r) == canonical[r][Key(r)] \in {NoEntry, Won(r).lexeme}
ParsedFits(r)    == parsed[r][Key(r)] \in {NotParsed, Join(r)}

WriteCanonical(r) ==
  /\ At(r, "canonical") /\ CanonicalFits(r)
  /\ canonical' = [canonical EXCEPT ![r][Key(r)] = Won(r).lexeme]
  /\ Goto(r, "parsed")
  /\ UNCHANGED <<environment, slot, seen, filed, ledger, parsed, stores, refused, faults>>

\* Faulty: an artifact that is there is left, whatever it holds.
KeepParsed(r) ==
  /\ At(r, "parsed")
  /\ parsed' = [parsed EXCEPT ![r][Key(r)] = IF @ = NotParsed THEN Join(r) ELSE @]
  /\ Goto(r, "review")
  /\ UNCHANGED <<environment, slot, seen, filed, ledger, canonical, stores, refused, faults>>

WriteParsed(r) ==
  /\ At(r, "parsed") /\ ParsedFits(r)
  /\ parsed' = [parsed EXCEPT ![r][Key(r)] = Join(r)]
  /\ Goto(r, "review")
  /\ UNCHANGED <<environment, slot, seen, filed, ledger, canonical, stores, refused, faults>>

Clash(r) ==
  /\ \/ At(r, "canonical") /\ ~CanonicalFits(r)
     \/ At(r, "parsed") /\ ~ParsedFits(r)
  /\ Refuse(r)

-----------------------------------------------------------------------------
(* Reviews.  A record is found by an identity made of the key, the reason    *)
(* and the raw hashes; its evidence names the run and bindings as well.      *)

Conflict(r) ==
  LET i == Differing(r) IN
  [id       |-> [kind |-> "conflict", key |-> Key(r), raws |-> <<Won(r).raw, seen[r][i].raw>>],
   evidence |-> [run |-> r, bindings |-> <<Winner(r), i>>, delay |-> 0]]

Quarantine(r, i, reason) ==
  [id       |-> [kind |-> reason, key |-> Key(r), raws |-> <<seen[r][i].raw>>],
   evidence |-> [run |-> r, bindings |-> <<i>>, delay |-> seen[r][i].delay]]

Unsettled(r) == {i \in Results(r) : seen[r][i].outcome \notin {"accepted", "retryable"}}
Nth(S, n)    == CHOOSE i \in S : Cardinality({j \in S : j < i}) = n - 1

(* What the key at hand has to file, in order: one conflict at most when an  *)
(* official won, otherwise a quarantine for every result that is not to be   *)
(* retried, or for the key when there is none.                               *)
Petitions(r) ==
  IF Winner(r) # 0 THEN IF Differing(r) = 0 THEN <<>> ELSE <<Conflict(r)>>
  ELSE IF Unsettled(r) = {} THEN <<Quarantine(r, 1, "official_required")>>
  ELSE [n \in 1..Cardinality(Unsettled(r)) |->
          LET i == Nth(Unsettled(r), n) IN
          Quarantine(r, i, Reason(Binding(r, i), seen[r][i]))]
Petition(r) == Petitions(r)[filed[r] + 1]

Exists(id)  == \E v \in reviews : v.id = id
Stored(id)  == CHOOSE v \in reviews : v.id = id
Replace(new) == {v \in reviews : v.id # new.id} \cup {new}
Undecided(petition) ==
  [id |-> petition.id, evidence |-> petition.evidence, history |-> <<>>]

(* _assert_source_evidence_unchanged.                                        *)
\* Faulty: evidence of another run is taken for the same.
SameBindings(id, evidence) ==
  Stored(id).evidence.bindings = evidence.bindings

SameEvidence(id, evidence) == Stored(id).evidence = evidence

(* _persist_new: the record is there already, with this evidence, ...        *)
FindReview(r) ==
  /\ At(r, "review") /\ filed[r] < Len(Petitions(r))
  /\ Exists(Petition(r).id) /\ SameEvidence(Petition(r).id, Petition(r).evidence)
  /\ filed' = [filed EXCEPT ![r] = @ + 1]
  /\ UNCHANGED <<environment, slot, pc, seen, ledger, artifacts, stores, refused, faults>>

(* ... or with other evidence, ...                                           *)
RefuseReview(r) ==
  /\ At(r, "review") /\ filed[r] < Len(Petitions(r))
  /\ Exists(Petition(r).id) /\ ~SameEvidence(Petition(r).id, Petition(r).evidence)
  /\ Refuse(r)

(* ... or it is not, and is written by _write_immutable, which looks again   *)
(* before it replaces the file.  Its bytes hold the time of their creation,  *)
(* so a record that came between is taken for different bytes.               *)
MissReview(r) ==
  /\ At(r, "review") /\ filed[r] < Len(Petitions(r))
  /\ ~Exists(Petition(r).id)
  /\ Goto(r, "newReview")
  /\ UNCHANGED <<environment, slot, seen, filed, ledger, artifacts, stores, refused, faults>>

CheckReview(r) ==
  /\ At(r, "newReview")
  /\ IF Exists(Petition(r).id) THEN Refuse(r)
     ELSE /\ Goto(r, "putReview")
          /\ UNCHANGED <<environment, slot, seen, filed, ledger, artifacts, stores,
                         refused, faults>>

PutReview(r) ==
  /\ At(r, "putReview")
  /\ reviews' = Replace(Undecided(Petition(r)))
  /\ filed' = [filed EXCEPT ![r] = @ + 1]
  /\ Goto(r, "review")
  /\ UNCHANGED <<environment, slot, seen, ledger, artifacts, snapshots, observed,
                 refused, faults>>

AllFiled(r) ==
  /\ At(r, "review") /\ filed[r] = Len(Petitions(r))
  /\ Goto(r, "outcomes")
  /\ UNCHANGED <<environment, slot, seen, filed, ledger, artifacts, stores, refused, faults>>

-----------------------------------------------------------------------------
(* The outcome row, and the five documents of _commit_revision.              *)

(* A row names the binding that won, if any, and the first review filed.     *)
Row(r) ==
  [outcome |-> IF Winner(r) # 0 THEN IF Differing(r) = 0 THEN "accepted" ELSE "quarantined"
               ELSE IF \E i \in Results(r) : seen[r][i].outcome = "retryable"
                    THEN "retryable" ELSE "quarantined",
   winner  |-> Winner(r),
   review  |-> IF Petitions(r) = <<>> THEN NoReview ELSE Petitions(r)[1].id]

(* The results are not needed once the row is written.                       *)
WriteOutcomes(r) ==
  /\ At(r, "outcomes")
  /\ ledger' = [ledger EXCEPT ![r].rows = Append(@, Row(r))]
  /\ seen' = [seen EXCEPT ![r] = <<>>] /\ filed' = [filed EXCEPT ![r] = 0]
  /\ Goto(r, "attempts")
  /\ UNCHANGED <<environment, slot, artifacts, stores, refused, faults>>

WriteAttempts(r) ==
  /\ At(r, "attempts")
  /\ ledger' = [ledger EXCEPT ![r].attempts =
                  [rev |-> Done(r), keys |-> Append(@.keys, Done(r))]]
  /\ Goto(r, "checkpoint")
  /\ UNCHANGED <<environment, slot, seen, filed, artifacts, stores, refused, faults>>

\* Faulty: the checkpoint is numbered by the key after it.
WriteCheckpointNext(r) ==
  /\ At(r, "checkpoint")
  /\ ledger' = [ledger EXCEPT ![r].checkpoint = Done(r) + 1]
  /\ Goto(r, "report")
  /\ UNCHANGED <<environment, slot, seen, filed, artifacts, stores, refused, faults>>

WriteCheckpoint(r) ==
  /\ At(r, "checkpoint")
  /\ ledger' = [ledger EXCEPT ![r].checkpoint = Done(r)]
  /\ Goto(r, "report")
  /\ UNCHANGED <<environment, slot, seen, filed, artifacts, stores, refused, faults>>

WriteReport(r) ==
  /\ At(r, "report")
  /\ ledger' = [ledger EXCEPT ![r].report =
                  [rev |-> Done(r), state |-> StateAfter(r, ledger[r].rows)]]
  /\ Goto(r, "status")
  /\ UNCHANGED <<environment, slot, seen, filed, artifacts, stores, refused, faults>>

WriteStatus(r) ==
  /\ At(r, "status")
  /\ ledger' = [ledger EXCEPT ![r].status =
                  [rev |-> Done(r), state |-> StateAfter(r, ledger[r].rows)]]
  /\ Goto(r, IF Done(r) < N(r) THEN "observe" ELSE "return")
  /\ UNCHANGED <<environment, slot, seen, filed, artifacts, stores, refused, faults>>

-----------------------------------------------------------------------------
(* A fixture is changed, removed or put back by its owner.                   *)
ChangeFixture ==
  /\ changes < Bound.changes
  /\ \E k \in Keys : \E i \in 1..Len(catalog[k]), state \in Files :
       /\ ~Ordered(k)[i].inline /\ file[k][i] # state
       /\ file' = [file EXCEPT ![k][i] = state]
  /\ changes' = changes + 1
  /\ UNCHANGED <<catalog, executor, ledger, artifacts, stores, refused, faults>>

ProcessingInit ==
  /\ catalog \in Catalogs
  /\ file = [k \in Keys |-> [i \in 1..Len(catalog[k]) |-> "pinned"]]
  /\ slot = [r \in Runs |-> "none"] /\ pc = [r \in Runs |-> "idle"]
  /\ seen = [r \in Runs |-> <<>>] /\ filed = [r \in Runs |-> 0]
  /\ ledger = [r \in Runs |-> NoLedger]
  /\ canonical = [r \in Runs |-> [k \in Keys |-> NoEntry]]
  /\ parsed = [r \in Runs |-> [k \in Keys |-> NotParsed]]
  /\ snapshots = {} /\ observed = {} /\ reviews = {}
  /\ refused = {} /\ faults = 0 /\ changes = 0

KeyStep(r) ==
  \/ Observe(r) \/ PutRaw(r) \/ PutObservation(r) \/ SnapshotFails(r) \/ Choose(r)
  \/ WriteCanonical(r) \/ WriteParsed(r) \/ Clash(r)
  \/ FindReview(r) \/ RefuseReview(r) \/ MissReview(r) \/ CheckReview(r) \/ PutReview(r)
  \/ AllFiled(r)
CommitStep(r) ==
  \/ WriteOutcomes(r) \/ WriteAttempts(r) \/ WriteCheckpoint(r) \/ WriteReport(r)
  \/ WriteStatus(r)
ExecutorStep(r) == BeginRun(r) \/ BeginResume(r) \/ KeyStep(r) \/ CommitStep(r)
                     \/ Return(r) \/ Abort(r)

ProcessingNext == ChangeFixture \/ \E r \in Runs : ExecutorStep(r)
=============================================================================
