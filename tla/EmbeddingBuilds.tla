--------------------------- MODULE EmbeddingBuilds ---------------------------
(***************************************************************************)
(* Incremental embeddings of a candidate release: a plan compares the      *)
(* entries of the prior release with the candidate's, and a build embeds   *)
(* what is new or changed, reuses the prior vectors of the rest, and       *)
(* stores everything create-only in chunks.                                *)
(*                                                                         *)
(* The two are separate calls that meet on disk: the plan, a snapshot of   *)
(* the candidate's entries written file by file, the vectors and the build *)
(* report.  Nothing is locked.  Any call dies or fails between two writes, *)
(* and the owner of the candidate may revise its entries and plan again.   *)
(*                                                                         *)
(* An entry is its lexical text, and so are its canonical and document     *)
(* hashes and the vector embedded from it.  A vector is written to a       *)
(* temporary file whose name all builders share: opening it empties it,    *)
(* and what is then written goes to that file, wherever it has been        *)
(* renamed to by then.                                                     *)
(***************************************************************************)
EXTENDS Integers, FiniteSets

CONSTANTS
  Ids,          \* entry identifiers, integers: builds go in their order
  Texts,        \* lexical contents
  None,         \* no entry, no vector, no text
  Priors,       \* prior releases considered: their entries, their stored vectors,
                \* and the entries whose vectors another model or schema made
  Candidates,   \* candidate entries considered
  Builders,     \* callers of build
  ChunkSize,    \* MAX_BATCH_SIZE, 500 in the code
  Bounds        \* per prior release: whether plans and builds may overlap, and
                \* how many revisions, failing calls and builds

Contents == [Ids -> Texts \cup {None}]
Entries(contents) == {i \in Ids : contents[i] # None}

(* A stored vector: the text it embeds, and the hash filed with it.          *)
Vectors == [text : Texts, lineage : Texts \cup {None}]

(* A file that is empty, or not wholly written.                              *)
Torn == [text |-> None, lineage |-> None]

ASSUME BuildsAssumption ==
  /\ Ids \subseteq Nat /\ IsFiniteSet(Ids) /\ None \notin Texts \cup Vectors \cup {Torn}
  /\ Priors \subseteq [entries : Contents, vectors : Contents, outdated : SUBSET Ids]
  /\ Candidates \subseteq {c \in Contents : Entries(c) # {}}
  /\ ChunkSize \in Nat \ {0}
  /\ Bounds \in [Priors -> [overlap : BOOLEAN, revisions : Nat, faults : Nat, builds : Nat]]

VARIABLES
  prior,        \* the prior release
  canonical,    \* the candidate's canonical directory
  planner,      \* the call that plans: its phase and the entries still to snapshot
  plan,         \* plans/<plan>.json
  snapshot,     \* candidate_snapshots/<release>/
  torn,         \* history: a plan was cut before its snapshot was complete
  builder,      \* per builder: phase and local state
  vectors,      \* vectors/<release>/: per entry None, a vector or Torn
  temporary,    \* vectors/<release>/<id>.tmp: likewise
  opened,       \* per builder: where the file it has opened is now
  raced,        \* history: entries two builders were staging at once
  report,       \* builds/<release>.json
  revisions, faults, builds

inputs   == <<prior, canonical>>
planning == <<planner, plan, snapshot, torn>>
store    == <<vectors, temporary, opened, raced>>
counts   == <<revisions, faults, builds>>
vars     == <<inputs, planning, builder, store, report, counts>>

-----------------------------------------------------------------------------
(* build_delta_plan *)

NoPlan == [new |-> {}, changed |-> {}, unchanged |-> {}, hash |-> [i \in Ids |-> None]]

(* An entry of both releases is unchanged when its hashes are, and its       *)
(* vector is of the model and schema in use.                                 *)
Kept(old, new, i) ==
  /\ old.entries[i] = new[i] /\ new[i] # None
  /\ old.vectors[i] # None => i \notin old.outdated

(* Removed entries get no work, and are in no set a build reads.             *)
DeltaPlan(old, new) ==
  LET unchanged == {i \in Ids : Kept(old, new, i)} IN
  [new       |-> Entries(new) \ Entries(old.entries),
   changed   |-> (Entries(new) \cap Entries(old.entries)) \ unchanged,
   unchanged |-> unchanged,
   hash      |-> new]

-----------------------------------------------------------------------------
(* The plan operation writes the plan, and then the entries it read, one by  *)
(* one, over whatever an earlier plan left.                                  *)

Bound == Bounds[prior]
NotPlanning == [phase |-> "idle", entries |-> [i \in Ids |-> None], left |-> {}]
Alone == Bound.overlap \/ (planner.phase = "idle" /\ \A b \in Builders : builder[b].phase = "idle")

Revise ==
  /\ revisions < Bound.revisions
  /\ revisions' = revisions + 1
  /\ \E new \in Candidates \ {canonical} : canonical' = new
  /\ UNCHANGED <<prior, planning, builder, store, report, faults, builds>>

WritePlan ==
  /\ planner.phase = "idle" /\ Alone
  /\ plan' = DeltaPlan(prior, canonical)
  /\ planner' = [phase |-> "snapshot", entries |-> canonical, left |-> Entries(canonical)]
  /\ UNCHANGED <<inputs, snapshot, torn, builder, store, report, counts>>

SnapshotEntry ==
  /\ planner.phase = "snapshot"
  /\ \E i \in planner.left :
       /\ snapshot' = [snapshot EXCEPT ![i] = planner.entries[i]]
       /\ planner' = IF planner.left = {i} THEN NotPlanning
                     ELSE [planner EXCEPT !.left = @ \ {i}]
  /\ UNCHANGED <<inputs, plan, torn, builder, store, report, counts>>

(* The planning call dies; its plan stays, with a snapshot of before.        *)
PlannerDies ==
  /\ planner.phase = "snapshot" /\ faults < Bound.faults
  /\ faults' = faults + 1
  /\ planner' = NotPlanning
  /\ torn' = TRUE
  /\ UNCHANGED <<inputs, plan, snapshot, builder, store, report, revisions, builds>>

-----------------------------------------------------------------------------
(* build_work *)

Resting == [phase |-> "idle", plan |-> NoPlan, records |-> {}, todo |-> {}, chunk |-> {},
            committed |-> {}, faulty |-> FALSE]
At(b, phase)   == builder[b].phase = phase
Goto(b, phase) == builder' = [builder EXCEPT ![b].phase = phase]
Rest(b)        == builder' = [builder EXCEPT ![b] = Resting]
OnlyBuilder    == UNCHANGED <<inputs, planning, store, report, counts>>

ReadPlan(b) ==
  /\ At(b, "idle") /\ Alone /\ plan # NoPlan /\ builds < Bound.builds
  /\ builds' = builds + 1
  /\ builder' = [builder EXCEPT ![b] = [Resting EXCEPT !.phase = "records", !.plan = plan]]
  /\ UNCHANGED <<inputs, planning, store, report, revisions, faults>>

(* The records to store.  A reused entry whose prior vector is missing is    *)
(* embedded, and otherwise keeps the prior's.  The lineage is the hash the    *)
(* plan gives.                                                               *)
Embedded(b) == builder[b].plan.new \cup builder[b].plan.changed
Planned(b)  == Embedded(b) \cup builder[b].plan.unchanged
Record(b, i) ==
  [id   |-> i,
   text |-> IF i \in Embedded(b) \/ prior.vectors[i] = None THEN snapshot[i]
            ELSE prior.vectors[i],
   lineage |-> builder[b].plan.hash[i]]

(* "unchanged doc hash mismatch": the prior vector embeds another document.  *)
\* Faulty: the prior vector is taken as it is.
NeverMismatched(b) == FALSE

Mismatched(b) ==
  \E i \in builder[b].plan.unchanged :
    snapshot[i] # None /\ prior.vectors[i] \notin {None, snapshot[i]}

MakeRecords(b) ==
  /\ At(b, "records") /\ Entries(snapshot) # {} /\ ~Mismatched(b)
  /\ builder' = [builder EXCEPT ![b].phase = "scan",
                   ![b].records = {Record(b, i) : i \in Planned(b) \cap Entries(snapshot)}]
  /\ OnlyBuilder

(* There are no entries, or a reuse is refused: the call ends with an error  *)
(* and no report.                                                            *)
Refuse(b) ==
  /\ At(b, "records") /\ (Entries(snapshot) = {} \/ Mismatched(b))
  /\ Rest(b)
  /\ OnlyBuilder

-----------------------------------------------------------------------------
(* persist_batch *)

RecordIds(b)   == {r.id : r \in builder[b].records}
Unread(i)      == vectors[i] \in {None, Torn}
Conflicting(b) ==
  {r \in builder[b].records : ~Unread(r.id) /\ vectors[r.id].text # r.text}
Missing(b)     == {r \in builder[b].records : Unread(r.id)}

Report(b, eligible) ==
  report' = [eligible |-> eligible, records |-> builder[b].records, faulty |-> builder[b].faulty]

\* Faulty: what an earlier build stored is not counted.
ProceedAnew(b) ==
  /\ builder' = [builder EXCEPT ![b].phase = "check", ![b].todo = Missing(b),
                   ![b].committed = {}]
  /\ OnlyBuilder

Proceed(b) ==
  /\ builder' = [builder EXCEPT ![b].phase = "check", ![b].todo = Missing(b),
                   ![b].committed = RecordIds(b) \ {r.id : r \in Missing(b)}]
  /\ OnlyBuilder

(* Conflicts fail the batch before its first write.  A file that cannot be   *)
(* parsed is passed over, and counts as missing.                             *)
\* Faulty: a stored vector is kept, whatever it embeds.
ScanForMissing(b) == At(b, "scan") /\ Proceed(b)

Scan(b) == At(b, "scan") /\ Conflicting(b) = {} /\ Proceed(b)

Conflict(b) ==
  /\ At(b, "scan") /\ Conflicting(b) # {}
  /\ Report(b, FALSE)
  /\ Rest(b)
  /\ UNCHANGED <<inputs, planning, store, counts>>

(* Entries to embed come before those to reuse, and otherwise in their order. *)
Before(b, r, s) ==
  IF (r.id \in Embedded(b)) = (s.id \in Embedded(b)) THEN r.id < s.id ELSE r.id \in Embedded(b)

(* The record to write next, if any.                                         *)
Current(b) == {r \in builder[b].todo : \A s \in builder[b].todo \ {r} : Before(b, r, s)}
Written(b) == builder[b].todo = {}

(* Records are written in chunks; a chunk counts as committed when its last  *)
(* record is stored.                                                         *)
Chunk(b, r)     == builder[b].chunk \cup {r.id}
ChunkEnds(b, r) == builder[b].todo = {r} \/ Cardinality(Chunk(b, r)) = ChunkSize
Advanced(b, r) ==
  [builder[b] EXCEPT
    !.phase     = "check",
    !.todo      = @ \ {r},
    !.chunk     = IF ChunkEnds(b, r) THEN {} ELSE Chunk(b, r),
    !.committed = IF ChunkEnds(b, r) THEN @ \cup Chunk(b, r) ELSE @]
Advance(b, r) == builder' = [builder EXCEPT ![b] = Advanced(b, r)]

(* A vector that is there by now, whole or not, is left alone.               *)
SkipVector(b) ==
  /\ At(b, "check")
  /\ \E r \in Current(b) : vectors[r.id] # None /\ Advance(b, r)
  /\ OnlyBuilder

MissVector(b) ==
  /\ At(b, "check")
  /\ \E r \in Current(b) : vectors[r.id] = None
  /\ Goto(b, "stage")
  /\ OnlyBuilder

(* A builder stages entry i from the opening of the temporary file to its    *)
(* rename.                                                                   *)
Stages(b, i) == builder[b].phase \in {"fill", "publish"} /\ \E r \in Current(b) : r.id = i

OpenTemporary(b) ==
  /\ At(b, "stage")
  /\ \E r \in Current(b) :
       /\ temporary' = [temporary EXCEPT ![r.id] = Torn]
       /\ raced' = IF \E c \in Builders : Stages(c, r.id) THEN raced \cup {r.id} ELSE raced
  /\ opened' = [opened EXCEPT ![b] = "temporary"]
  /\ Goto(b, "fill")
  /\ UNCHANGED <<inputs, planning, vectors, report, counts>>

(* What a file holds once a vector is written to it: the vector, or that and *)
(* the rest of a longer one.                                                 *)
VectorOf(r)    == [text |-> r.text, lineage |-> r.lineage]
Over(old, new) == IF old \in {Torn, new} THEN {new} ELSE {new, Torn}

FillTemporary(b) ==
  /\ At(b, "fill")
  /\ \E r \in Current(b) :
       LET place == IF opened[b] = "stored" THEN vectors ELSE temporary IN
       \E v \in Over(place[r.id], VectorOf(r)) :
         /\ temporary' = IF opened[b] = "temporary" THEN [temporary EXCEPT ![r.id] = v]
                                                    ELSE temporary
         /\ vectors' = IF opened[b] = "stored" THEN [vectors EXCEPT ![r.id] = v] ELSE vectors
  /\ opened' = [opened EXCEPT ![b] = "none"]
  /\ Goto(b, "publish")
  /\ UNCHANGED <<inputs, planning, raced, report, counts>>

(* Where an opened file is after the rename of the temporary one.            *)
Moved(place) == CASE place = "temporary" -> "stored" [] place = "stored" -> "replaced"
                  [] OTHER -> place

(* The rename takes whatever is there under the temporary name.              *)
PublishVector(b) ==
  /\ At(b, "publish")
  /\ \E r \in Current(b) :
       /\ temporary[r.id] # None
       /\ vectors' = [vectors EXCEPT ![r.id] = temporary[r.id]]
       /\ temporary' = [temporary EXCEPT ![r.id] = None]
       /\ opened' = [c \in Builders |-> IF Stages(c, r.id) THEN Moved(opened[c]) ELSE opened[c]]
       /\ Advance(b, r)
  /\ UNCHANGED <<inputs, planning, raced, report, counts>>

(* A write fails, or the rename of a temporary file another builder took: the *)
(* chunk is not committed, though its first vectors are stored.              *)
ChunkFails(b) ==
  LET taken == At(b, "publish") /\ \E r \in Current(b) : temporary[r.id] = None IN
  /\ builder[b].phase \in {"stage", "fill", "publish"}
  /\ taken \/ faults < Bound.faults
  /\ faults' = IF taken THEN faults ELSE faults + 1
  /\ builder' = [builder EXCEPT ![b].phase = "report", ![b].faulty = TRUE]
  /\ opened' = [opened EXCEPT ![b] = "none"]
  /\ UNCHANGED <<inputs, planning, vectors, temporary, raced, report, revisions, builds>>

AllWritten(b) ==
  /\ At(b, "check") /\ Written(b)
  /\ Goto(b, "report")
  /\ OnlyBuilder

(* The build is eligible when every expected vector was committed.           *)
Complete(b) == ~builder[b].faulty /\ builder[b].committed = RecordIds(b)

WriteReport(b) ==
  /\ At(b, "report")
  /\ Report(b, Complete(b))
  /\ Rest(b)
  /\ UNCHANGED <<inputs, planning, store, counts>>

BuilderDies(b) ==
  /\ ~At(b, "idle") /\ faults < Bound.faults
  /\ faults' = faults + 1
  /\ Rest(b)
  /\ opened' = [opened EXCEPT ![b] = "none"]
  /\ UNCHANGED <<inputs, planning, vectors, temporary, raced, report, revisions, builds>>

-----------------------------------------------------------------------------
Init ==
  /\ prior \in Priors /\ canonical \in Candidates
  /\ planner = NotPlanning /\ plan = NoPlan
  /\ snapshot = [i \in Ids |-> None] /\ torn = FALSE
  /\ builder = [b \in Builders |-> Resting]
  /\ vectors = [i \in Ids |-> None] /\ temporary = [i \in Ids |-> None]
  /\ opened = [b \in Builders |-> "none"] /\ raced = {}
  /\ report = [eligible |-> FALSE, records |-> {}, faulty |-> TRUE]
  /\ revisions = 0 /\ faults = 0 /\ builds = 0

BuildStep(b) ==
  \/ ReadPlan(b) \/ MakeRecords(b) \/ Refuse(b) \/ Scan(b) \/ Conflict(b)
  \/ SkipVector(b) \/ MissVector(b) \/ OpenTemporary(b) \/ FillTemporary(b)
  \/ PublishVector(b) \/ ChunkFails(b) \/ AllWritten(b) \/ WriteReport(b) \/ BuilderDies(b)

Next == Revise \/ WritePlan \/ SnapshotEntry \/ PlannerDies \/ \E b \in Builders : BuildStep(b)

Spec == Init /\ [][Next]_vars
=============================================================================
