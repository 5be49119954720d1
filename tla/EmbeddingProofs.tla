-------------------------- MODULE EmbeddingProofs --------------------------
(***************************************************************************)
(* Proofs about the incremental embedding builds, for any entries, texts,  *)
(* releases, builders and chunk size: the layers of BuildInv are inductive *)
(* one after the other.                                                    *)
(***************************************************************************)
EXTENDS EmbeddingProperties, TLAPS

-----------------------------------------------------------------------------
(* What steps are made of. *)

(* A builder at rest has no plan, and no plan gives no work. *)
LEMMA AtRest ==
  /\ NoPlan \in Plans /\ Entries(NoPlan.hash) = {}
  /\ NoPlan.new \cup NoPlan.changed \cup NoPlan.unchanged = {}
  /\ Resting \in BuilderSet
<1>1. /\ NoPlan \in Plans /\ Entries(NoPlan.hash) = {}
      /\ NoPlan.new \cup NoPlan.changed \cup NoPlan.unchanged = {}
  BY DEF NoPlan, Plans, Contents, Entries
<1> QED BY <1>1 DEF Resting, BuilderSet, Phases

(* A plan gives work only to what it hashes. *)
LEMMA PlanOfContents ==
  ASSUME NEW old \in Priors, NEW new \in Contents
  PROVE  /\ DeltaPlan(old, new) \in Plans
         /\ DeltaPlan(old, new).hash = new
         /\ DeltaPlan(old, new).new \cup DeltaPlan(old, new).changed
              \cup DeltaPlan(old, new).unchanged \subseteq Entries(new)
<1>1. \A i \in Ids : Kept(old, new, i) => i \in Entries(new)
  BY DEF Kept, Entries
<1>2. Entries(new) \subseteq Ids
  BY DEF Entries
<1> QED BY <1>1, <1>2 DEF DeltaPlan, Plans

(* The records of a build are of its plan and of the snapshot, one per id.   *)
LEMMA RecordEffect ==
  ASSUME Types, NEW b \in Builders, NEW i \in Planned(b) \cap Entries(snapshot), ~Mismatched(b)
  PROVE  /\ Record(b, i) \in RecordSet /\ Record(b, i).id = i
         /\ Record(b, i).text = snapshot[i] /\ snapshot[i] \in Texts
         /\ Record(b, i).lineage = builder[b].plan.hash[i]
<1>1. i \in Ids /\ snapshot[i] \in Texts /\ builder[b].plan.hash[i] \in Texts \cup {None}
  BY DEF Types, BuilderSet, Entries, Contents, Plans
<1>2. i \notin Embedded(b) /\ prior.vectors[i] # None => prior.vectors[i] = snapshot[i]
  BY <1>1 DEF Mismatched, Planned, Entries
<1>3. Record(b, i).text = snapshot[i]
  BY <1>2 DEF Record
<1>4. Record(b, i) = [id |-> i, text |-> snapshot[i], lineage |-> builder[b].plan.hash[i]]
  BY <1>3 DEF Record
<1> QED BY <1>1, <1>4 DEF RecordSet

(* There is at most one record to write next. *)
LEMMA CurrentIsOne ==
  ASSUME Types, WorkInv, NEW b \in Builders, NEW r \in Current(b), NEW s \in Current(b)
  PROVE  r = s /\ r \in builder[b].todo /\ r \in builder[b].records /\ r \in RecordSet /\ r.id \in Ids
<1>1. r \in builder[b].todo /\ s \in builder[b].todo /\ builder[b].todo \subseteq RecordSet
  BY DEF Current, Types, BuilderSet
<1>2. /\ r \in builder[b].records /\ s \in builder[b].records
      /\ r \in RecordSet /\ s \in RecordSet
  BY <1>1 DEF WorkInv, WorkInvOf
<1>3. r.id \in Nat /\ s.id \in Nat /\ r.id \in Ids
  BY <1>2, BuildsAssumption DEF RecordSet
<1>4. r # s => Before(b, r, s) /\ Before(b, s, r)
  BY <1>1 DEF Current
<1>5. r = s
  BY <1>3, <1>4 DEF Before
<1> QED BY <1>1, <1>2, <1>3, <1>5

(* A record is done: it leaves the list, and is counted when its chunk ends. *)
LEMMA AdvanceEffect ==
  ASSUME Types, WorkInv, NEW b \in Builders, NEW r \in Current(b), Advance(b, r)
  PROVE  /\ \A c \in Builders \ {b} : builder'[c] = builder[c]
         /\ builder'[b].phase = "check" /\ builder'[b].todo = builder[b].todo \ {r}
         /\ builder'[b].plan = builder[b].plan /\ builder'[b].records = builder[b].records
         /\ builder'[b].faulty = builder[b].faulty
         /\ builder'[b].chunk \cup builder'[b].committed =
              builder[b].chunk \cup builder[b].committed \cup {r.id}
         /\ builder'[b].todo = {} => builder'[b].chunk = {}
         /\ builder' \in [Builders -> BuilderSet]
<1>1. r \in builder[b].todo /\ r.id \in Ids
  BY CurrentIsOne
<1>2. builder[b] \in BuilderSet /\ builder \in [Builders -> BuilderSet]
  BY DEF Types
<1>3. ChunkEnds(b, r) \in BOOLEAN /\ Chunk(b, r) = builder[b].chunk \cup {r.id}
  BY DEF ChunkEnds, Chunk
<1>4. builder[b].todo \ {r} = {} => ChunkEnds(b, r)
  BY <1>1 DEF ChunkEnds
<1>5. \A c \in Builders \ {b} : builder'[c] = builder[c]
  BY <1>2 DEF Advance
<1>6. builder'[b] = [builder[b] EXCEPT
        !.phase     = "check",
        !.todo      = builder[b].todo \ {r},
        !.chunk     = IF ChunkEnds(b, r) THEN {} ELSE Chunk(b, r),
        !.committed = IF ChunkEnds(b, r) THEN builder[b].committed \cup Chunk(b, r)
                      ELSE builder[b].committed]
  BY <1>2 DEF Advance, Advanced
<1>7. /\ builder'[b].phase = "check" /\ builder'[b].todo = builder[b].todo \ {r}
      /\ builder'[b].plan = builder[b].plan /\ builder'[b].records = builder[b].records
      /\ builder'[b].faulty = builder[b].faulty
      /\ builder'[b].chunk = IF ChunkEnds(b, r) THEN {} ELSE Chunk(b, r)
      /\ builder'[b].committed = IF ChunkEnds(b, r) THEN builder[b].committed \cup Chunk(b, r)
                                 ELSE builder[b].committed
  BY <1>2, <1>6 DEF BuilderSet
<1>8. builder'[b].chunk \cup builder'[b].committed =
        builder[b].chunk \cup builder[b].committed \cup {r.id}
  BY <1>3, <1>7
<1>9. builder'[b].todo = {} => builder'[b].chunk = {}
  BY <1>4, <1>7
<1>10. builder'[b] \in BuilderSet
  <2>1. builder'[b].todo \subseteq RecordSet /\ builder'[b].chunk \subseteq Ids
        /\ builder'[b].committed \subseteq Ids
    BY <1>1, <1>2, <1>3, <1>7 DEF BuilderSet
  <2> QED BY <1>2, <1>6, <1>7, <2>1 DEF BuilderSet, Phases
<1>11. builder' \in [Builders -> BuilderSet]
  BY <1>2, <1>10 DEF Advance
<1> QED BY <1>5, <1>7, <1>8, <1>9, <1>11

(* The records are made. *)
LEMMA MakeEffect ==
  ASSUME Types, NEW b \in Builders, MakeRecords(b)
  PROVE  /\ builder[b].phase = "records" /\ ~Mismatched(b)
         /\ \A c \in Builders \ {b} : builder'[c] = builder[c]
         /\ builder'[b] = [builder[b] EXCEPT !.phase = "scan", !.records =
                             {Record(b, i) : i \in Planned(b) \cap Entries(snapshot)}]
         /\ builder' \in [Builders -> BuilderSet]
<1> DEFINE R == {Record(b, i) : i \in Planned(b) \cap Entries(snapshot)}
<1>1. builder[b].phase = "records" /\ ~Mismatched(b)
  BY DEF MakeRecords, At
<1>2. R \subseteq RecordSet
  BY <1>1, RecordEffect
<1> HIDE DEF R
<1>3. builder' = [builder EXCEPT ![b].phase = "scan", ![b].records = R]
  BY DEF MakeRecords, R
<1>4. builder[b] \in BuilderSet /\ builder \in [Builders -> BuilderSet]
  BY DEF Types
<1>5. builder'[b] = [builder[b] EXCEPT !.phase = "scan", !.records = R]
  BY <1>3, <1>4 DEF BuilderSet
<1>6. builder'[b] \in BuilderSet
  BY <1>2, <1>4, <1>5 DEF BuilderSet, Phases
<1>7. builder' \in [Builders -> BuilderSet] /\ \A c \in Builders \ {b} : builder'[c] = builder[c]
  BY <1>3, <1>4, <1>6
<1> QED BY <1>1, <1>5, <1>7 DEF R

(* What is stored is told from what is missing. *)
LEMMA ScanEffect ==
  ASSUME Types, NEW b \in Builders, Scan(b)
  PROVE  /\ builder[b].phase = "scan" /\ Conflicting(b) = {}
         /\ \A c \in Builders \ {b} : builder'[c] = builder[c]
         /\ builder'[b] = [builder[b] EXCEPT !.phase = "check", !.todo = Missing(b),
                             !.committed = RecordIds(b) \ {r.id : r \in Missing(b)}]
         /\ builder' \in [Builders -> BuilderSet]
<1> DEFINE C == RecordIds(b) \ {r.id : r \in Missing(b)}
           M == Missing(b)
<1>1. builder[b].phase = "scan" /\ Conflicting(b) = {}
  BY DEF Scan, At
<1>2. builder[b] \in BuilderSet /\ builder \in [Builders -> BuilderSet]
  BY DEF Types
<1>3. M \subseteq RecordSet /\ C \subseteq Ids
  BY <1>2 DEF Missing, RecordIds, BuilderSet, RecordSet
<1> HIDE DEF C, M
<1>4. builder' = [builder EXCEPT ![b].phase = "check", ![b].todo = M, ![b].committed = C]
  BY DEF Scan, Proceed, C, M
<1>5. builder'[b] = [builder[b] EXCEPT !.phase = "check", !.todo = M, !.committed = C]
  BY <1>2, <1>4 DEF BuilderSet
<1>6. builder'[b] \in BuilderSet
  BY <1>2, <1>3, <1>5 DEF BuilderSet, Phases
<1>7. builder' \in [Builders -> BuilderSet] /\ \A c \in Builders \ {b} : builder'[c] = builder[c]
  BY <1>2, <1>4, <1>6
<1> QED BY <1>1, <1>5, <1>7 DEF C, M

(* A chunk is given up. *)
LEMMA FailEffect ==
  ASSUME Types, NEW b \in Builders, ChunkFails(b)
  PROVE  /\ builder[b].phase \in {"stage", "fill", "publish"}
         /\ \A c \in Builders \ {b} : builder'[c] = builder[c]
         /\ builder'[b] = [builder[b] EXCEPT !.phase = "report", !.faulty = TRUE]
         /\ builder' \in [Builders -> BuilderSet]
         /\ UNCHANGED <<inputs, planning, vectors, temporary, raced, report, revisions>>
<1>1. builder[b] \in BuilderSet /\ builder \in [Builders -> BuilderSet]
  BY DEF Types
<1>2. builder' = [builder EXCEPT ![b].phase = "report", ![b].faulty = TRUE]
  BY DEF ChunkFails
<1>3. builder'[b] = [builder[b] EXCEPT !.phase = "report", !.faulty = TRUE]
  BY <1>1, <1>2 DEF BuilderSet
<1>4. builder'[b] \in BuilderSet
  BY <1>1, <1>3 DEF BuilderSet, Phases
<1>5. builder' \in [Builders -> BuilderSet] /\ \A c \in Builders \ {b} : builder'[c] = builder[c]
  BY <1>1, <1>2, <1>4
<1>6. builder[b].phase \in {"stage", "fill", "publish"}
  BY DEF ChunkFails, At
<1>7. UNCHANGED <<inputs, planning, vectors, temporary, raced, report, revisions>>
  BY DEF ChunkFails
<1> QED BY <1>3, <1>5, <1>6, <1>7

(* A builder in another phase is a builder. *)
LEMMA GotoTypes ==
  ASSUME Types, NEW b \in Builders, NEW phase \in Phases, Goto(b, phase)
  PROVE  builder' \in [Builders -> BuilderSet]
<1>1. builder[b] \in BuilderSet /\ builder \in [Builders -> BuilderSet]
  BY DEF Types
<1>2. [builder[b] EXCEPT !.phase = phase] \in BuilderSet
  BY <1>1 DEF BuilderSet
<1>3. builder' = [builder EXCEPT ![b] = [builder[b] EXCEPT !.phase = phase]]
  BY <1>1 DEF Goto
<1> QED BY <1>1, <1>2, <1>3

(* Every step keeps the types. *)
LEMMA TypeStep == Types /\ WorkInv /\ [Next]_vars => Types'
<1> SUFFICES ASSUME Types, WorkInv, [Next]_vars PROVE Types'
  OBVIOUS
<1>1. CASE UNCHANGED vars
  BY <1>1 DEF vars, inputs, planning, store, counts, Types, BuilderSet, Phases, Bound
<1>2. CASE Revise
  BY <1>2, BuildsAssumption DEF Revise, planning, store, Types, Bound
<1>3. CASE WritePlan
  <2>1. plan' \in Plans
    BY <1>3, PlanOfContents DEF WritePlan, Types
  <2>2. planner' \in [phase : {"idle", "snapshot"}, entries : Contents, left : SUBSET Ids]
    BY <1>3 DEF WritePlan, Types, Entries
  <2> QED BY <1>3, <2>1, <2>2 DEF WritePlan, inputs, store, counts, Types
<1>4. CASE SnapshotEntry
  <2>1. PICK i \in planner.left :
          /\ snapshot' = [snapshot EXCEPT ![i] = planner.entries[i]]
          /\ planner' = IF planner.left = {i} THEN NotPlanning
                        ELSE [planner EXCEPT !.left = @ \ {i}]
    BY <1>4 DEF SnapshotEntry
  <2>2. snapshot' \in Contents
    BY <2>1 DEF Types, Contents
  <2>3. planner' \in [phase : {"idle", "snapshot"}, entries : Contents, left : SUBSET Ids]
    BY <2>1 DEF Types, NotPlanning, Contents
  <2> QED BY <1>4, <2>2, <2>3 DEF SnapshotEntry, inputs, store, counts, Types
<1>5. CASE PlannerDies
  BY <1>5 DEF PlannerDies, NotPlanning, Contents, inputs, store, Types
<1>6. ASSUME NEW b \in Builders, BuildStep(b) PROVE Types'
  <2>1. CASE ReadPlan(b)
    <3>1. builder' \in [Builders -> BuilderSet]
      BY <2>1, AtRest DEF ReadPlan, Types, BuilderSet, Phases
    <3> QED BY <2>1, <3>1 DEF ReadPlan, inputs, planning, store, Types
  <2>2. CASE MakeRecords(b)
    BY <2>2, MakeEffect DEF MakeRecords, OnlyBuilder, inputs, planning, store, counts, Types
  <2>3. CASE Refuse(b)
    BY <2>3, AtRest DEF Refuse, Rest, OnlyBuilder, inputs, planning, store, counts, Types
  <2>4. CASE Scan(b)
    BY <2>4, ScanEffect DEF Scan, Proceed, OnlyBuilder, inputs, planning, store, counts, Types
  <2>5. CASE Conflict(b)
    <3>1. report' \in [eligible : BOOLEAN, records : SUBSET RecordSet, faulty : BOOLEAN]
      BY <2>5 DEF Conflict, Report, Types, BuilderSet
    <3> QED BY <2>5, <3>1, AtRest DEF Conflict, Rest, inputs, planning, store, counts, Types
  <2>6. CASE SkipVector(b)
    BY <2>6, AdvanceEffect DEF SkipVector, OnlyBuilder, inputs, planning, store, counts, Types
  <2>7. CASE MissVector(b)
    <3>1. builder' \in [Builders -> BuilderSet]
      BY <2>7, GotoTypes DEF MissVector, Phases
    <3> QED BY <2>7, <3>1 DEF MissVector, OnlyBuilder, inputs, planning, store, counts, Types
  <2>8. CASE OpenTemporary(b)
    <3>1. PICK r \in Current(b) :
            /\ temporary' = [temporary EXCEPT ![r.id] = Torn]
            /\ raced' = IF \E c \in Builders : Stages(c, r.id) THEN raced \cup {r.id} ELSE raced
      BY <2>8 DEF OpenTemporary
    <3>2. r.id \in Ids
      BY CurrentIsOne
    <3>3. temporary' \in [Ids -> Files] /\ raced' \subseteq Ids
      BY <3>1, <3>2 DEF Types, Files
    <3>4. builder' \in [Builders -> BuilderSet]
      BY <2>8, GotoTypes DEF OpenTemporary, Phases
    <3>5. opened' \in [Builders -> {"none", "temporary", "stored", "replaced"}]
      BY <2>8 DEF OpenTemporary, Types
    <3> QED BY <2>8, <3>3, <3>4, <3>5 DEF OpenTemporary, inputs, planning, counts, Types
  <2>9. CASE FillTemporary(b)
    <3>1. PICK r \in Current(b) :
            \E v \in {Torn, VectorOf(r)} :
              /\ temporary' = IF opened[b] = "temporary" THEN [temporary EXCEPT ![r.id] = v]
                                                         ELSE temporary
              /\ vectors' = IF opened[b] = "stored" THEN [vectors EXCEPT ![r.id] = v] ELSE vectors
      BY <2>9 DEF FillTemporary, Over
    <3>2. r \in RecordSet
      BY CurrentIsOne
    <3>3. VectorOf(r) \in Files /\ Torn \in Files
      BY <3>2 DEF VectorOf, Files, Vectors, RecordSet
    <3>4. vectors' \in [Ids -> Files] /\ temporary' \in [Ids -> Files]
      <4>1. PICK v \in Files :
              /\ temporary' = IF opened[b] = "temporary" THEN [temporary EXCEPT ![r.id] = v]
                                                         ELSE temporary
              /\ vectors' = IF opened[b] = "stored" THEN [vectors EXCEPT ![r.id] = v] ELSE vectors
        BY <3>1, <3>3
      <4> QED BY <4>1 DEF Types
    <3>5. builder' \in [Builders -> BuilderSet]
      BY <2>9, GotoTypes DEF FillTemporary, Phases
    <3>6. opened' \in [Builders -> {"none", "temporary", "stored", "replaced"}]
      BY <2>9 DEF FillTemporary, Types
    <3> QED BY <2>9, <3>4, <3>5, <3>6 DEF FillTemporary, inputs, planning, counts, Types
  <2>10. CASE PublishVector(b)
    <3>1. PICK r \in Current(b) :
            /\ vectors' = [vectors EXCEPT ![r.id] = temporary[r.id]]
            /\ temporary' = [temporary EXCEPT ![r.id] = None]
            /\ opened' = [c \in Builders |->
                            IF Stages(c, r.id) THEN Moved(opened[c]) ELSE opened[c]]
            /\ Advance(b, r)
      BY <2>10 DEF PublishVector
    <3>2. r.id \in Ids
      BY CurrentIsOne
    <3>3. vectors' \in [Ids -> Files] /\ temporary' \in [Ids -> Files]
      BY <3>1, <3>2 DEF Types, Files
    <3>4. builder' \in [Builders -> BuilderSet]
      BY <3>1, AdvanceEffect
    <3>5. opened' \in [Builders -> {"none", "temporary", "stored", "replaced"}]
      BY <3>1 DEF Types, Moved
    <3> QED BY <2>10, <3>3, <3>4, <3>5 DEF PublishVector, inputs, planning, Types, counts
  <2>11. CASE ChunkFails(b)
    <3>1. opened' \in [Builders -> {"none", "temporary", "stored", "replaced"}]
      BY <2>11 DEF ChunkFails, Types
    <3> QED BY <2>11, <3>1, FailEffect DEF inputs, planning, Types
  <2>12. CASE AllWritten(b)
    <3>1. builder' \in [Builders -> BuilderSet]
      BY <2>12, GotoTypes DEF AllWritten, Phases
    <3> QED BY <2>12, <3>1 DEF AllWritten, OnlyBuilder, inputs, planning, store, counts, Types
  <2>13. CASE WriteReport(b)
    <3>1. report' \in [eligible : BOOLEAN, records : SUBSET RecordSet, faulty : BOOLEAN]
      BY <2>13 DEF WriteReport, Report, Complete, Types, BuilderSet
    <3> QED BY <2>13, <3>1, AtRest DEF WriteReport, Rest, inputs, planning, store, counts, Types
  <2>14. CASE BuilderDies(b)
    <3>1. opened' \in [Builders -> {"none", "temporary", "stored", "replaced"}]
      BY <2>14 DEF BuilderDies, Types
    <3> QED BY <2>14, <3>1, AtRest DEF BuilderDies, Rest, inputs, planning, Types
  <2> QED
    BY <1>6, <2>1, <2>2, <2>3, <2>4, <2>5, <2>6, <2>7, <2>8, <2>9, <2>10, <2>11, <2>12, <2>13,
       <2>14
       DEF BuildStep
<1> QED BY <1>1, <1>2, <1>3, <1>4, <1>5, <1>6 DEF Next

(* A phase is changed, and nothing else of the builder. *)
LEMMA GotoEffect ==
  ASSUME Types, NEW b \in Builders, NEW phase, Goto(b, phase)
  PROVE  /\ \A c \in Builders \ {b} : builder'[c] = builder[c]
         /\ builder'[b].phase = phase /\ builder'[b].plan = builder[b].plan
         /\ builder'[b].records = builder[b].records /\ builder'[b].todo = builder[b].todo
         /\ builder'[b].chunk = builder[b].chunk /\ builder'[b].committed = builder[b].committed
         /\ builder'[b].faulty = builder[b].faulty
<1>1. builder[b] \in BuilderSet /\ builder \in [Builders -> BuilderSet]
  BY DEF Types
<1>2. builder'[b] = [builder[b] EXCEPT !.phase = phase]
  BY <1>1 DEF Goto
<1>3. \A c \in Builders \ {b} : builder'[c] = builder[c]
  BY <1>1 DEF Goto
<1> QED BY <1>1, <1>2, <1>3 DEF BuilderSet

(* A call ends. *)
LEMMA RestEffect ==
  ASSUME Types, NEW b \in Builders, Rest(b)
  PROVE  (\A c \in Builders \ {b} : builder'[c] = builder[c]) /\ builder'[b] = Resting
BY DEF Types, Rest

(* A build starts where the plan leaves it. *)
LEMMA ReadEffect ==
  ASSUME Types, NEW b \in Builders, ReadPlan(b)
  PROVE  /\ \A c \in Builders \ {b} : builder'[c] = builder[c]
         /\ At(b, "idle") /\ Alone
         /\ builder'[b] = [Resting EXCEPT !.phase = "records", !.plan = plan]
         /\ UNCHANGED <<inputs, planning, store, report, revisions>>
<1>1. builder' = [builder EXCEPT ![b] = [Resting EXCEPT !.phase = "records", !.plan = plan]]
  BY DEF ReadPlan
<1> QED BY <1>1 DEF ReadPlan, Types

(* What was made, in place. *)
LEMMA RecordsMade ==
  ASSUME Types, NEW b \in Builders, MakeRecords(b)
  PROVE  /\ builder'[b].phase = "scan" /\ ~Mismatched(b)
         /\ builder'[b].records = {Record(b, i) : i \in Planned(b) \cap Entries(snapshot)}
         /\ builder'[b].todo = builder[b].todo /\ builder'[b].chunk = builder[b].chunk
         /\ builder'[b].committed = builder[b].committed
         /\ builder'[b].plan = builder[b].plan /\ builder'[b].faulty = builder[b].faulty
<1> DEFINE R == {Record(b, i) : i \in Planned(b) \cap Entries(snapshot)}
<1>1. builder'[b] = [builder[b] EXCEPT !.phase = "scan", !.records = R] /\ ~Mismatched(b)
  BY MakeEffect
<1>2. builder[b] \in BuilderSet
  BY DEF Types
<1> HIDE DEF R
<1>3. /\ builder'[b].phase = "scan" /\ builder'[b].records = R
      /\ builder'[b].todo = builder[b].todo /\ builder'[b].chunk = builder[b].chunk
      /\ builder'[b].committed = builder[b].committed
      /\ builder'[b].plan = builder[b].plan /\ builder'[b].faulty = builder[b].faulty
  BY <1>1, <1>2 DEF BuilderSet
<1> QED BY <1>1, <1>3 DEF R

(* What was told apart, in place. *)
LEMMA ScanMade ==
  ASSUME Types, NEW b \in Builders, Scan(b)
  PROVE  /\ builder'[b].phase = "check" /\ builder'[b].records = builder[b].records
         /\ builder'[b].todo = Missing(b) /\ builder'[b].chunk = builder[b].chunk
         /\ builder'[b].committed = RecordIds(b) \ {r.id : r \in Missing(b)}
         /\ builder'[b].faulty = builder[b].faulty
<1> DEFINE C == RecordIds(b) \ {r.id : r \in Missing(b)}
           M == Missing(b)
<1>1. builder'[b] = [builder[b] EXCEPT !.phase = "check", !.todo = M, !.committed = C]
  BY ScanEffect
<1>2. builder[b] \in BuilderSet
  BY DEF Types
<1> HIDE DEF C, M
<1>3. /\ builder'[b].phase = "check" /\ builder'[b].records = builder[b].records
      /\ builder'[b].todo = M /\ builder'[b].chunk = builder[b].chunk
      /\ builder'[b].committed = C /\ builder'[b].faulty = builder[b].faulty
  BY <1>1, <1>2 DEF BuilderSet
<1> QED BY <1>3 DEF C, M

(* What every step of a build has in common: it leaves the plan, the         *)
(* snapshot and the other builders alone, and keeps its plan until it rests. *)
LEMMA BuildFrame ==
  ASSUME Types, WorkInv, NEW b \in Builders, BuildStep(b)
  PROVE  /\ UNCHANGED <<prior, canonical, planner, plan, snapshot, torn, revisions>>
         /\ \A c \in Builders \ {b} : builder'[c] = builder[c]
         /\ \/ builder'[b] = Resting
            \/ At(b, "idle") /\ Alone /\ builder'[b].plan = plan /\ builder'[b].records = {}
            \/ /\ ~At(b, "idle") /\ builder'[b].plan = builder[b].plan
               /\ builder'[b].records = builder[b].records \/ MakeRecords(b)
<1>1. builder[b] \in BuilderSet
  BY DEF Types
<1>2. CASE ReadPlan(b)
  BY <1>2, ReadEffect DEF inputs, planning, store, counts, Resting
<1>3. CASE MakeRecords(b)
  BY <1>3, <1>1, MakeEffect DEF MakeRecords, OnlyBuilder, inputs, planning, store, counts, At, BuilderSet
<1>4. CASE Refuse(b)
  BY <1>4, RestEffect DEF Refuse, OnlyBuilder, inputs, planning, store, counts
<1>5. CASE Scan(b)
  BY <1>5, <1>1, ScanEffect DEF Scan, Proceed, OnlyBuilder, inputs, planning, store, counts, At, BuilderSet
<1>6. CASE Conflict(b)
  BY <1>6, RestEffect DEF Conflict, inputs, planning, store, counts
<1>7. CASE SkipVector(b)
  BY <1>7, AdvanceEffect DEF SkipVector, OnlyBuilder, inputs, planning, store, counts, At
<1>8. CASE MissVector(b)
  BY <1>8, GotoEffect DEF MissVector, OnlyBuilder, inputs, planning, store, counts, At
<1>9. CASE OpenTemporary(b)
  BY <1>9, GotoEffect DEF OpenTemporary, inputs, planning, counts, At
<1>10. CASE FillTemporary(b)
  BY <1>10, GotoEffect DEF FillTemporary, inputs, planning, counts, At
<1>11. CASE PublishVector(b)
  BY <1>11, AdvanceEffect DEF PublishVector, inputs, planning, counts, At
<1>12. CASE ChunkFails(b)
  <2>1. /\ builder[b].phase \in {"stage", "fill", "publish"}
        /\ \A c \in Builders \ {b} : builder'[c] = builder[c]
        /\ builder'[b] = [builder[b] EXCEPT !.phase = "report", !.faulty = TRUE]
        /\ UNCHANGED <<inputs, planning, revisions>>
    BY <1>12, FailEffect
  <2>2. builder'[b].plan = builder[b].plan /\ builder'[b].records = builder[b].records
    BY <1>1, <2>1 DEF BuilderSet
  <2> QED BY <2>1, <2>2 DEF inputs, planning, At
<1>13. CASE AllWritten(b)
  BY <1>13, GotoEffect DEF AllWritten, OnlyBuilder, inputs, planning, store, counts, At
<1>14. CASE WriteReport(b)
  BY <1>14, RestEffect DEF WriteReport, inputs, planning, store, counts
<1>15. CASE BuilderDies(b)
  BY <1>15, RestEffect DEF BuilderDies, inputs, planning, counts
<1> QED
  BY <1>2, <1>3, <1>4, <1>5, <1>6, <1>7, <1>8, <1>9, <1>10, <1>11, <1>12, <1>13, <1>14, <1>15
     DEF BuildStep

(* The prior release, and with it what may overlap, does not change. *)
LEMMA PriorStays == ASSUME Types, WorkInv, [Next]_vars PROVE prior' = prior /\ Bound' = Bound
<1>1. CASE UNCHANGED vars
  BY <1>1 DEF vars, inputs, Bound
<1>2. CASE Revise \/ WritePlan \/ SnapshotEntry \/ PlannerDies
  BY <1>2 DEF Revise, WritePlan, SnapshotEntry, PlannerDies, inputs, Bound
<1>3. ASSUME NEW b \in Builders, BuildStep(b) PROVE prior' = prior /\ Bound' = Bound
  BY <1>3, BuildFrame DEF Bound
<1> QED BY <1>1, <1>2, <1>3 DEF Next

(* Calls that may not overlap take turns. *)
LEMMA TurnsStep == Types /\ WorkInv /\ TurnsInv /\ [Next]_vars => TurnsInv'
<1> SUFFICES ASSUME Types, WorkInv, TurnsInv, [Next]_vars, ~Bound.overlap PROVE TurnsInv'
  BY PriorStays DEF TurnsInv
<1> USE DEF TurnsInv
<1>1. CASE UNCHANGED vars
  BY <1>1 DEF vars, planning, At
<1>2. CASE Revise
  BY <1>2 DEF Revise, planning, At
<1>3. CASE WritePlan
  BY <1>3 DEF WritePlan, Alone, At
<1>4. CASE SnapshotEntry
  <2>1. planner.phase # "idle" /\ UNCHANGED <<plan, builder>>
    BY <1>4 DEF SnapshotEntry
  <2> QED BY <2>1 DEF At
<1>5. CASE PlannerDies
  BY <1>5 DEF PlannerDies, NotPlanning, At
<1>6. ASSUME NEW b \in Builders, BuildStep(b) PROVE TurnsInv'
  <2>1. UNCHANGED <<planner, plan>> /\ \A c \in Builders \ {b} : builder'[c] = builder[c]
    BY <1>6, BuildFrame
  <2>2. CASE builder'[b] = Resting
    <3>1. builder'[b].phase = "idle"
      BY <2>2 DEF Resting
    <3> QED BY <2>1, <3>1 DEF At
  <2>3. CASE At(b, "idle") /\ Alone /\ builder'[b].plan = plan
    BY <2>1, <2>3 DEF Alone, At
  <2>4. CASE ~At(b, "idle") /\ builder'[b].plan = builder[b].plan
    BY <2>1, <2>4 DEF At
  <2> QED BY <1>6, <2>2, <2>3, <2>4, BuildFrame
<1> QED BY <1>1, <1>2, <1>3, <1>4, <1>5, <1>6 DEF Next

(* Only one snapshot is written at a time, and it is the plan's. *)
LEMMA PlanStep == Types /\ WorkInv /\ PlanInv /\ [Next]_vars => PlanInv'
<1> SUFFICES ASSUME Types, WorkInv, PlanInv, [Next]_vars PROVE PlanInv'
  OBVIOUS
<1> USE DEF PlanInv
<1>1. CASE UNCHANGED vars
  BY <1>1 DEF vars, planning
<1>2. CASE Revise
  BY <1>2 DEF Revise, planning
<1>3. CASE WritePlan
  <2>1. /\ plan'.hash = canonical /\ UNCHANGED builder
        /\ plan'.new \cup plan'.changed \cup plan'.unchanged \subseteq Entries(canonical)
    BY <1>3, PlanOfContents DEF WritePlan, Types
  <2>2. /\ planner'.phase = "snapshot" /\ planner'.entries = canonical
        /\ planner'.left = Entries(canonical)
    BY <1>3 DEF WritePlan
  <2> QED BY <2>1, <2>2
<1>4. CASE SnapshotEntry
  <2>1. PICK i \in planner.left :
          /\ snapshot' = [snapshot EXCEPT ![i] = planner.entries[i]]
          /\ planner' = IF planner.left = {i} THEN NotPlanning
                        ELSE [planner EXCEPT !.left = @ \ {i}]
    BY <1>4 DEF SnapshotEntry
  <2>2. planner.phase = "snapshot" /\ UNCHANGED <<plan, torn, builder>>
    BY <1>4 DEF SnapshotEntry
  <2>3. /\ planner'.left = planner.left \ {i}
        /\ planner'.phase = "idle" => planner'.left = {}
        /\ planner'.phase = "snapshot" => planner'.entries = planner.entries
    BY <2>1, <2>2 DEF Types, NotPlanning
  <2>4. ASSUME ~torn, NEW j \in Entries(plan.hash) \ planner'.left
        PROVE  snapshot'[j] = plan.hash[j]
    <3>1. j \in Ids /\ i \in Ids /\ snapshot \in [Ids -> Texts \cup {None}]
      BY DEF Entries, Types, Contents
    <3> QED BY <2>1, <2>2, <2>3, <2>4, <3>1
  <2> QED BY <2>2, <2>3, <2>4
<1>5. CASE PlannerDies
  BY <1>5 DEF PlannerDies, NotPlanning
<1>6. ASSUME NEW b \in Builders, BuildStep(b) PROVE PlanInv'
  <2>1. UNCHANGED <<planner, plan, snapshot, torn>> /\ \A c \in Builders \ {b} : builder'[c] = builder[c]
    BY <1>6, BuildFrame
  <2>2. builder'[b].plan \in {NoPlan, plan, builder[b].plan}
    BY <1>6, BuildFrame DEF Resting
  <2>3. NoPlan.new \cup NoPlan.changed \cup NoPlan.unchanged \subseteq Entries(NoPlan.hash)
    BY AtRest
  <2> QED BY <2>1, <2>2, <2>3
<1> QED BY <1>1, <1>2, <1>3, <1>4, <1>5, <1>6 DEF Next

(* Who writes the vectors and the report. *)
LEMMA WhoWrites ==
  ASSUME NEW b \in Builders, BuildStep(b)
  PROVE  /\ \/ UNCHANGED <<vectors, temporary, raced>>
            \/ OpenTemporary(b) \/ FillTemporary(b) \/ PublishVector(b)
         /\ UNCHANGED report \/ Conflict(b) \/ WriteReport(b)
BY DEF BuildStep, ReadPlan, MakeRecords, Refuse, Scan, Proceed, Conflict, SkipVector,
       MissVector, OpenTemporary, FillTemporary, PublishVector, ChunkFails, AllWritten,
       WriteReport, BuilderDies, OnlyBuilder, store

(* Opening the temporary file of a record empties it. *)
LEMMA OpenEffect ==
  ASSUME Types, WorkInv, NEW b \in Builders, OpenTemporary(b)
  PROVE  \E r \in Current(b) :
           /\ At(b, "stage") /\ Goto(b, "fill") /\ UNCHANGED <<vectors, report>>
           /\ \A i \in Ids : temporary'[i] = IF i = r.id THEN Torn ELSE temporary[i]
           /\ \A c \in Builders : opened'[c] = IF c = b THEN "temporary" ELSE opened[c]
           /\ raced' = IF \E c \in Builders : Stages(c, r.id) THEN raced \cup {r.id} ELSE raced
<1>1. PICK r \in Current(b) :
        /\ temporary' = [temporary EXCEPT ![r.id] = Torn]
        /\ raced' = IF \E c \in Builders : Stages(c, r.id) THEN raced \cup {r.id} ELSE raced
  BY DEF OpenTemporary
<1>2. \A i \in Ids : temporary'[i] = IF i = r.id THEN Torn ELSE temporary[i]
  BY <1>1 DEF Types
<1>3. \A c \in Builders : opened'[c] = IF c = b THEN "temporary" ELSE opened[c]
  BY DEF OpenTemporary, Types
<1> QED BY <1>1, <1>2, <1>3 DEF OpenTemporary

(* A vector is written where the file its builder opened is: at its          *)
(* temporary name, at the stored one, or nowhere any more.                   *)
LEMMA FillEffect ==
  ASSUME Types, WorkInv, NEW b \in Builders, FillTemporary(b)
  PROVE  \E r \in Current(b) : \E v \in {Torn, VectorOf(r)} :
           /\ At(b, "fill") /\ Goto(b, "publish") /\ UNCHANGED <<raced, report>>
           /\ \A i \in Ids :
                /\ vectors'[i] = IF opened[b] = "stored" /\ i = r.id THEN v ELSE vectors[i]
                /\ temporary'[i] = IF opened[b] = "temporary" /\ i = r.id THEN v
                                   ELSE temporary[i]
           /\ opened[b] = "temporary" /\ temporary[r.id] = Torn => v = VectorOf(r)
           /\ \A c \in Builders \ {b} : opened'[c] = opened[c]
<1> DEFINE place == IF opened[b] = "stored" THEN vectors ELSE temporary
<1>1. PICK r \in Current(b) : \E v \in Over(place[r.id], VectorOf(r)) :
        /\ temporary' = IF opened[b] = "temporary" THEN [temporary EXCEPT ![r.id] = v]
                                                   ELSE temporary
        /\ vectors' = IF opened[b] = "stored" THEN [vectors EXCEPT ![r.id] = v] ELSE vectors
  BY DEF FillTemporary
<1>6. PICK v \in Over(place[r.id], VectorOf(r)) :
        /\ temporary' = IF opened[b] = "temporary" THEN [temporary EXCEPT ![r.id] = v]
                                                   ELSE temporary
        /\ vectors' = IF opened[b] = "stored" THEN [vectors EXCEPT ![r.id] = v] ELSE vectors
  BY <1>1
<1>2. v \in {Torn, VectorOf(r)}
  BY DEF Over
<1>3. opened[b] = "temporary" /\ temporary[r.id] = Torn => v = VectorOf(r)
  BY DEF Over
<1>4. \A i \in Ids :
        /\ vectors'[i] = IF opened[b] = "stored" /\ i = r.id THEN v ELSE vectors[i]
        /\ temporary'[i] = IF opened[b] = "temporary" /\ i = r.id THEN v ELSE temporary[i]
  BY <1>6 DEF Types
<1>5. \A c \in Builders \ {b} : opened'[c] = opened[c]
  BY DEF FillTemporary, Types
<1> QED BY <1>2, <1>3, <1>4, <1>5 DEF FillTemporary

(* A vector is published from the temporary file of its record.              *)
LEMMA PublishEffect ==
  ASSUME Types, WorkInv, NEW b \in Builders, PublishVector(b)
  PROVE  \E r \in Current(b) :
           /\ temporary[r.id] # None /\ At(b, "publish") /\ Advance(b, r)
           /\ \A i \in Ids : /\ vectors'[i] = IF i = r.id THEN temporary[i] ELSE vectors[i]
                             /\ temporary'[i] = IF i = r.id THEN None ELSE temporary[i]
           /\ \A c \in Builders : ~Stages(c, r.id) => opened'[c] = opened[c]
           /\ UNCHANGED <<raced, report>>
<1>1. PICK r \in Current(b) :
        /\ temporary[r.id] # None /\ Advance(b, r)
        /\ vectors' = [vectors EXCEPT ![r.id] = temporary[r.id]]
        /\ temporary' = [temporary EXCEPT ![r.id] = None]
        /\ opened' = [c \in Builders |-> IF Stages(c, r.id) THEN Moved(opened[c]) ELSE opened[c]]
  BY DEF PublishVector
<1> QED BY <1>1 DEF PublishVector, Types

(* An emptied file, and a vector, are not no file.                           *)
LEMMA TornIsThere ==
  /\ Torn # None /\ Torn.text = Torn.lineage
  /\ \A r \in RecordSet : VectorOf(r) # None /\ VectorOf(r) # Torn
<1>1. \A r \in RecordSet : VectorOf(r) \in Vectors /\ VectorOf(r).text # None
  BY BuildsAssumption DEF VectorOf, Vectors, RecordSet
<1>2. Torn.text = None /\ Torn.lineage = None
  BY DEF Torn
<1> QED BY <1>1, <1>2, BuildsAssumption

(* Vectors stay. *)
LEMMA VectorsStay ==
  ASSUME Types, WorkInv, [Next]_vars, NEW i \in Ids, vectors[i] # None
  PROVE  vectors'[i] # None
<1>1. CASE UNCHANGED vars
  BY <1>1 DEF vars, store
<1>2. CASE Revise \/ WritePlan \/ SnapshotEntry \/ PlannerDies
  BY <1>2 DEF Revise, WritePlan, SnapshotEntry, PlannerDies, store
<1>3. ASSUME NEW b \in Builders, FillTemporary(b) PROVE vectors'[i] # None
  <2>1. PICK r \in Current(b) : \E v \in {Torn, VectorOf(r)} :
          \A j \in Ids : vectors'[j] = IF opened[b] = "stored" /\ j = r.id THEN v ELSE vectors[j]
    BY <1>3, FillEffect
  <2>2. r \in RecordSet
    BY CurrentIsOne
  <2> QED BY <2>1, <2>2, TornIsThere
<1>4. ASSUME NEW b \in Builders, BuildStep(b) PROVE vectors'[i] # None
  <2>1. CASE OpenTemporary(b)
    BY <2>1 DEF OpenTemporary
  <2>2. CASE PublishVector(b)
    BY <2>2, PublishEffect
  <2> QED BY <1>3, <1>4, <2>1, <2>2, WhoWrites
<1> QED BY <1>1, <1>2, <1>4 DEF Next

(* Without revisions, everything stays of the candidate's one content. *)
LEMMA FixedStep == Types /\ WorkInv /\ PlanInv /\ FixedInv /\ [Next]_vars => FixedInv'
<1> SUFFICES ASSUME Types, WorkInv, PlanInv, FixedInv, [Next]_vars, revisions' = 0 PROVE FixedInv'
  BY DEF FixedInv
<1>1. CASE UNCHANGED vars
  BY <1>1 DEF vars, inputs, planning, store, counts, FixedInv, OfCandidate
<1>2. CASE Revise
  BY <1>2 DEF Revise, Types
<1>3. CASE WritePlan
  <2>1. plan'.hash = canonical /\ planner'.entries = canonical
    BY <1>3, PlanOfContents DEF WritePlan, Types
  <2>2. UNCHANGED <<inputs, snapshot, builder, vectors, temporary, report, revisions>>
    BY <1>3 DEF WritePlan, store, counts
  <2> QED BY <2>1, <2>2 DEF FixedInv, OfCandidate, inputs, Entries
<1>4. CASE SnapshotEntry
  <2>1. PICK i \in planner.left :
          /\ snapshot' = [snapshot EXCEPT ![i] = planner.entries[i]]
          /\ planner' = IF planner.left = {i} THEN NotPlanning
                        ELSE [planner EXCEPT !.left = @ \ {i}]
    BY <1>4 DEF SnapshotEntry
  <2>2. /\ UNCHANGED <<inputs, plan, builder, vectors, temporary, report, revisions>>
        /\ planner.phase = "snapshot"
    BY <1>4 DEF SnapshotEntry, store, counts
  <2>3. planner'.phase = "snapshot" => planner'.entries = planner.entries
    BY <2>1 DEF Types, NotPlanning
  <2>4. \A j \in Ids : snapshot'[j] \in {None, canonical[j]}
    BY <2>1, <2>2 DEF FixedInv, Types, Contents
  <2> QED BY <2>2, <2>3, <2>4 DEF FixedInv, OfCandidate, inputs
<1>5. CASE PlannerDies
  BY <1>5 DEF PlannerDies, NotPlanning, inputs, store, FixedInv, OfCandidate
<1>6. ASSUME NEW b \in Builders, BuildStep(b) PROVE FixedInv'
  <2>1. /\ UNCHANGED <<prior, canonical, planner, plan, snapshot, revisions>>
        /\ \A c \in Builders \ {b} : builder'[c] = builder[c]
    BY <1>6, BuildFrame
  <2>2. revisions = 0
    BY <2>1
  <2>3. \A p \in {plan'} \cup {builder'[c].plan : c \in Builders} :
          \A i \in Entries(p.hash) : p.hash[i] = canonical[i]
    <3>1. builder'[b].plan \in {NoPlan, plan, builder[b].plan}
      BY <1>6, BuildFrame DEF Resting
    <3> QED BY <2>1, <2>2, <3>1, AtRest DEF FixedInv
  <2>4. \A i \in Ids : OfCandidate(vectors'[i], i) /\ OfCandidate(temporary'[i], i)
    <3>1. CASE UNCHANGED <<vectors, temporary>>
      BY <2>2, <3>1 DEF FixedInv, OfCandidate
    <3>2. CASE OpenTemporary(b)
      <4>1. PICK r \in Current(b) :
              /\ UNCHANGED vectors
              /\ \A i \in Ids : temporary'[i] = IF i = r.id THEN Torn ELSE temporary[i]
        BY <3>2, OpenEffect
      <4> QED BY <2>2, <4>1 DEF FixedInv, OfCandidate
    <3>3. CASE FillTemporary(b)
      <4>1. PICK r \in Current(b) : \E v \in {Torn, VectorOf(r)} : \A i \in Ids :
              /\ vectors'[i] = IF opened[b] = "stored" /\ i = r.id THEN v ELSE vectors[i]
              /\ temporary'[i] = IF opened[b] = "temporary" /\ i = r.id THEN v
                                 ELSE temporary[i]
        BY <3>3, FillEffect
      <4>2. r.text = canonical[r.id] /\ r.lineage = canonical[r.id]
        BY <2>2, CurrentIsOne DEF FixedInv
      <4>3. \A v \in {Torn, VectorOf(r)} : OfCandidate(v, r.id)
        BY <4>2 DEF OfCandidate, VectorOf
      <4>4. PICK v : OfCandidate(v, r.id) /\ \A i \in Ids :
              /\ vectors'[i] \in {vectors[i]} \cup IF i = r.id THEN {v} ELSE {}
              /\ temporary'[i] \in {temporary[i]} \cup IF i = r.id THEN {v} ELSE {}
        BY <4>1, <4>3
      <4>5. \A i \in Ids : OfCandidate(vectors[i], i) /\ OfCandidate(temporary[i], i)
        BY <2>2 DEF FixedInv
      <4> QED BY <4>4, <4>5
    <3>4. CASE PublishVector(b)
      BY <2>2, <3>4, PublishEffect DEF FixedInv, OfCandidate
    <3> QED BY <1>6, <3>1, <3>2, <3>3, <3>4, WhoWrites
  <2>5. \A r \in builder'[b].records : r.text = canonical[r.id] /\ r.lineage = canonical[r.id]
    <3>1. CASE MakeRecords(b)
      <4>1. /\ builder'[b].records = {Record(b, i) : i \in Planned(b) \cap Entries(snapshot)}
            /\ ~Mismatched(b)
        BY <3>1, RecordsMade
      <4>2. ASSUME NEW i \in Planned(b) \cap Entries(snapshot)
            PROVE  LET r == Record(b, i) IN r.text = canonical[r.id] /\ r.lineage = canonical[r.id]
        <5>1. i \in Ids /\ snapshot[i] # None /\ snapshot[i] = canonical[i]
          BY <2>2 DEF FixedInv, Entries
        <5>2. i \in Entries(builder[b].plan.hash)
          BY DEF PlanInv, Planned, Embedded
        <5>3. builder[b].plan.hash[i] = canonical[i]
          BY <2>2, <5>2 DEF FixedInv
        <5> QED BY <4>1, <5>1, <5>3, RecordEffect
      <4> QED BY <4>1, <4>2
    <3>2. CASE builder'[b].records \in {{}, builder[b].records}
      BY <2>2, <3>2 DEF FixedInv
    <3> QED BY <1>6, <3>1, <3>2, BuildFrame DEF Resting
  <2>6. \A r \in report'.records : r.text = canonical[r.id]
    <3>1. CASE UNCHANGED report
      BY <2>2, <3>1 DEF FixedInv
    <3>2. CASE Conflict(b) \/ WriteReport(b)
      <4>1. report'.records = builder[b].records
        BY <3>2 DEF Conflict, WriteReport, Report
      <4> QED BY <2>2, <4>1 DEF FixedInv
    <3> QED BY <1>6, <3>1, <3>2, WhoWrites
  <2> QED BY <2>1, <2>2, <2>3, <2>4, <2>5, <2>6 DEF FixedInv, OfCandidate
<1> QED BY <1>1, <1>2, <1>3, <1>4, <1>5, <1>6 DEF Next

(* A builder whose work is as it was keeps its part of the invariant: the    *)
(* vectors it counts stay.                                                   *)
LEMMA WorkKept ==
  ASSUME Types, WorkInv, [Next]_vars, NEW b \in Builders, builder'[b] = builder[b]
  PROVE  WorkInvOf(b)'
<1>1. \A r \in builder[b].records : r.id \in Ids
  BY DEF Types, BuilderSet, RecordSet
<1>2. \A r \in builder[b].records : vectors[r.id] # None => vectors'[r.id] # None
  BY <1>1, VectorsStay
<1> QED BY <1>1, <1>2 DEF WorkInv, WorkInvOf, RecordIds, Written, At

(* A builder at rest has no work. *)
LEMMA WorkAtRest == ASSUME NEW b, builder'[b] = Resting PROVE WorkInvOf(b)'
BY DEF WorkInvOf, RecordIds, Written, At, Writing, Resting

(* Every step keeps what a build has counted, and what it has yet to write. *)
LEMMA WorkStep == Types /\ WorkInv /\ [Next]_vars => WorkInv'
<1> SUFFICES ASSUME Types, WorkInv, [Next]_vars PROVE WorkInv'
  OBVIOUS
<1>1. CASE UNCHANGED builder
  BY <1>1, WorkKept DEF WorkInv
<1>2. CASE Revise \/ WritePlan \/ SnapshotEntry \/ PlannerDies
  BY <1>1, <1>2 DEF Revise, WritePlan, SnapshotEntry, PlannerDies
<1>3. ASSUME NEW b \in Builders, BuildStep(b) PROVE WorkInv'
  <2> SUFFICES WorkInvOf(b)'
    BY <1>3, BuildFrame, WorkKept DEF WorkInv
  <2>1. WorkInvOf(b) /\ builder[b] \in BuilderSet
    BY DEF WorkInv, Types
  <2>2. \A r \in builder[b].records :
          r.id \in Ids /\ (vectors[r.id] # None => vectors'[r.id] # None)
    BY <2>1, VectorsStay DEF BuilderSet, RecordSet
  <2>3. CASE ReadPlan(b)
    <3>1. /\ builder'[b].phase = "records" /\ builder'[b].records = {}
          /\ builder'[b].todo = {} /\ builder'[b].chunk = {} /\ builder'[b].committed = {}
      <4>1. builder'[b] = [Resting EXCEPT !.phase = "records", !.plan = plan]
        BY <2>3, ReadEffect
      <4> QED BY <4>1 DEF Resting
    <3> QED BY <3>1 DEF WorkInvOf, RecordIds, Written, At, Writing
  <2>4. CASE MakeRecords(b)
    <3>1. builder[b].phase = "records" /\ builder[b].records = {}
      BY <2>1, <2>4 DEF MakeRecords, At, WorkInvOf
    <3>2. /\ builder'[b].phase = "scan" /\ builder'[b].todo = {}
          /\ builder'[b].chunk = {} /\ builder'[b].committed = {}
      BY <2>1, <2>4, <3>1, RecordsMade DEF WorkInvOf, RecordIds
    <3>3. \A r, s \in builder'[b].records : r.id = s.id => r = s
      <4>1. \A i \in Planned(b) \cap Entries(snapshot) : Record(b, i).id = i
        BY DEF Record
      <4> QED BY <2>4, <4>1, RecordsMade
    <3> QED BY <3>2, <3>3 DEF WorkInvOf, RecordIds, Written, At, Writing
  <2>5. CASE Refuse(b) \/ Conflict(b) \/ WriteReport(b) \/ BuilderDies(b)
    BY <2>5, RestEffect, WorkAtRest DEF Refuse, Conflict, WriteReport, BuilderDies
  <2>6. CASE Scan(b)
    <3>1. /\ builder'[b].phase = "check" /\ builder'[b].records = builder[b].records
          /\ builder'[b].todo = Missing(b) /\ builder'[b].chunk = {}
          /\ builder'[b].committed = RecordIds(b) \ {r.id : r \in Missing(b)}
      BY <2>1, <2>6, ScanMade DEF WorkInvOf, Scan
    <3>2. \A r \in builder[b].records :
            r.id \in builder'[b].committed <=> ~Unread(r.id)
      BY <2>1, <3>1 DEF WorkInvOf, Missing, RecordIds
    <3>3. builder'[b].committed \subseteq RecordIds(b)' /\ builder'[b].todo \subseteq builder[b].records
      BY <3>1 DEF RecordIds, Missing
    <3>4. \A r \in builder[b].records : r \in builder'[b].todo \/ r.id \in builder'[b].committed
      BY <3>1, <3>2 DEF Missing
    <3> QED BY <2>1, <2>2, <3>1, <3>2, <3>3, <3>4 DEF WorkInvOf, At, Written, Unread
  <2>7. ASSUME NEW r \in Current(b), Advance(b, r), vectors'[r.id] # None,
               builder[b].phase \in Writing
        PROVE  WorkInvOf(b)'
    <3> DEFINE counted == builder[b].chunk \cup builder[b].committed
    <3>1. r \in builder[b].todo /\ r \in builder[b].records
      BY CurrentIsOne
    <3>2. /\ builder'[b].phase = "check" /\ builder'[b].todo = builder[b].todo \ {r}
          /\ builder'[b].records = builder[b].records
          /\ builder'[b].chunk \cup builder'[b].committed = counted \cup {r.id}
          /\ builder'[b].todo = {} => builder'[b].chunk = {}
      BY <2>7, AdvanceEffect
    <3>3. counted \cup {r.id} \subseteq RecordIds(b)'
      BY <2>1, <3>1, <3>2 DEF WorkInvOf, RecordIds
    <3>4. \A s \in builder[b].records : s.id \in counted \cup {r.id} => vectors'[s.id] # None
      BY <2>1, <2>2, <2>7 DEF WorkInvOf
    <3>5. \A s \in builder[b].records : s \in builder[b].todo \ {r} \/ s.id \in counted \cup {r.id}
      BY <2>1, <2>7 DEF WorkInvOf
    <3>6. \A s, t \in builder[b].records : s.id = t.id => s = t
      BY <2>1 DEF WorkInvOf
    <3>7. builder[b].todo \ {r} \subseteq builder[b].records
      BY <2>1 DEF WorkInvOf
    <3> QED BY <3>2, <3>3, <3>4, <3>5, <3>6, <3>7 DEF WorkInvOf, At, Written
  <2>8. CASE SkipVector(b)
    <3>1. PICK r \in Current(b) : vectors[r.id] # None /\ Advance(b, r)
      BY <2>8 DEF SkipVector
    <3>2. vectors'[r.id] # None
      BY <3>1, CurrentIsOne, VectorsStay
    <3> QED BY <2>7, <2>8, <3>1, <3>2 DEF SkipVector, At, Writing
  <2>9. CASE PublishVector(b)
    <3>1. PICK r \in Current(b) :
            /\ temporary[r.id] # None /\ At(b, "publish") /\ Advance(b, r)
            /\ \A i \in Ids : vectors'[i] = IF i = r.id THEN temporary[i] ELSE vectors[i]
      BY <2>9, PublishEffect
    <3>2. vectors'[r.id] # None
      BY <3>1, CurrentIsOne
    <3> QED BY <2>7, <3>1, <3>2 DEF At, Writing
  <2>10. ASSUME NEW phase \in Writing, Goto(b, phase), builder[b].phase \in Writing
         PROVE  WorkInvOf(b)'
    BY <2>1, <2>2, <2>10, GotoEffect DEF WorkInvOf, RecordIds, Written, At, Writing
  <2>11. CASE MissVector(b) \/ OpenTemporary(b) \/ FillTemporary(b)
    BY <2>10, <2>11 DEF MissVector, OpenTemporary, FillTemporary, At, Writing
  <2>12. CASE ChunkFails(b)
    <3>1. builder'[b] = [builder[b] EXCEPT !.phase = "report", !.faulty = TRUE]
      BY <2>12, FailEffect
    <3>2. /\ builder'[b].phase = "report" /\ builder'[b].faulty
          /\ builder'[b].records = builder[b].records /\ builder'[b].todo = builder[b].todo
          /\ builder'[b].chunk = builder[b].chunk /\ builder'[b].committed = builder[b].committed
      BY <2>1, <3>1 DEF BuilderSet
    <3> QED BY <2>1, <2>2, <3>2 DEF WorkInvOf, RecordIds, Written, At, Writing
  <2>13. CASE AllWritten(b)
    <3>1. /\ builder'[b].phase = "report" /\ builder'[b].records = builder[b].records
          /\ builder'[b].todo = builder[b].todo /\ builder'[b].chunk = builder[b].chunk
          /\ builder'[b].committed = builder[b].committed
      BY <2>13, GotoEffect DEF AllWritten
    <3>2. builder[b].todo = {} /\ builder[b].chunk = {}
          /\ \A r \in builder[b].records : r.id \in builder[b].committed
      BY <2>1, <2>13 DEF AllWritten, Written, At, Writing, WorkInvOf
    <3>3. builder[b].committed = RecordIds(b)
      BY <2>1, <3>2 DEF WorkInvOf, RecordIds
    <3> QED BY <2>1, <2>2, <3>1, <3>2, <3>3 DEF WorkInvOf, RecordIds, Written, At, Writing
  <2> QED BY <1>3, <2>3, <2>4, <2>5, <2>6, <2>8, <2>9, <2>11, <2>12, <2>13 DEF BuildStep
<1> QED BY <1>1, <1>2, <1>3 DEF Next, vars

(* Revisions are not taken back. *)
LEMMA SteadyBefore == ASSUME Types, WorkInv, [Next]_vars, Steady' PROVE Steady
<1>1. Bound' = Bound
  BY PriorStays
<1>2. CASE UNCHANGED vars
  BY <1>1, <1>2 DEF vars, counts, Steady
<1>3. CASE Revise
  BY <1>1, <1>3 DEF Revise, Steady, Types
<1>4. CASE WritePlan \/ SnapshotEntry \/ PlannerDies
  BY <1>1, <1>4 DEF WritePlan, SnapshotEntry, PlannerDies, counts, Steady
<1>5. ASSUME NEW b \in Builders, BuildStep(b) PROVE Steady
  BY <1>1, <1>5, BuildFrame DEF Steady
<1> QED BY <1>2, <1>3, <1>4, <1>5 DEF Next

(* A build makes its records of a snapshot of its own plan. *)
LEMMA RecordsAgree ==
  ASSUME Types, TurnsInv, PlanInv, FixedInv, Steady, ~torn, NEW b \in Builders, MakeRecords(b),
         NEW r \in builder'[b].records
  PROVE  r.lineage = r.text
<1>1. PICK i \in Planned(b) \cap Entries(snapshot) : r = Record(b, i)
  BY RecordsMade
<1>2. r.text = snapshot[i] /\ r.lineage = builder[b].plan.hash[i] /\ i \in Ids /\ snapshot[i] # None
  BY <1>1, RecordsMade, RecordEffect DEF Entries
<1>3. i \in Entries(builder[b].plan.hash)
  BY DEF PlanInv, Planned, Embedded
<1>4. CASE revisions = 0
  BY <1>2, <1>3, <1>4 DEF FixedInv
<1>5. CASE ~Bound.overlap
  <2>1. ~At(b, "idle")
    BY DEF MakeRecords, At
  <2>2. builder[b].plan = plan /\ planner.phase = "idle"
    BY <1>5, <2>1 DEF TurnsInv
  <2>3. planner.left = {}
    BY <2>2 DEF PlanInv
  <2> QED BY <1>2, <1>3, <2>2, <2>3 DEF PlanInv
<1> QED BY <1>4, <1>5 DEF Steady

(* What is stored keeps its lineage. *)
LEMMA AgreeStep ==
  Types /\ TurnsInv /\ PlanInv /\ FixedInv /\ WorkInv /\ AgreeInv /\ [Next]_vars => AgreeInv'
<1> SUFFICES ASSUME Types, TurnsInv, PlanInv, FixedInv, WorkInv, AgreeInv, [Next]_vars,
                    Steady', ~torn'
             PROVE  AgreeInv'
  BY DEF AgreeInv
<1>1. Steady
  BY SteadyBefore
<1>2. CASE UNCHANGED <<vectors, temporary, builder>> /\ (torn => torn')
  BY <1>1, <1>2 DEF AgreeInv, Agree
<1>3. CASE UNCHANGED vars
  BY <1>2, <1>3 DEF vars, store, planning
<1>4. CASE Revise \/ WritePlan \/ SnapshotEntry \/ PlannerDies
  BY <1>2, <1>4 DEF Revise, WritePlan, SnapshotEntry, PlannerDies, store, planning
<1>5. ASSUME NEW b \in Builders, BuildStep(b) PROVE AgreeInv'
  <2>1. ~torn /\ \A c \in Builders \ {b} : builder'[c] = builder[c]
    BY <1>5, BuildFrame
  <2>2. \A i \in Ids : Agree(vectors[i]) /\ Agree(temporary[i])
    BY <1>1, <2>1 DEF AgreeInv
  <2>3. \A c \in Builders : \A r \in builder[c].records : r.lineage = r.text
    BY <1>1, <2>1 DEF AgreeInv
  <2>4. \A i \in Ids : Agree(vectors'[i]) /\ Agree(temporary'[i])
    <3>1. CASE UNCHANGED <<vectors, temporary>>
      BY <2>2, <3>1
    <3>2. CASE OpenTemporary(b)
      <4>1. PICK r \in Current(b) :
              /\ UNCHANGED vectors
              /\ \A i \in Ids : temporary'[i] = IF i = r.id THEN Torn ELSE temporary[i]
        BY <3>2, OpenEffect
      <4> QED BY <2>2, <4>1, TornIsThere DEF Agree
    <3>3. CASE FillTemporary(b)
      <4>1. PICK r \in Current(b) : \E v \in {Torn, VectorOf(r)} : \A i \in Ids :
              /\ vectors'[i] = IF opened[b] = "stored" /\ i = r.id THEN v ELSE vectors[i]
              /\ temporary'[i] = IF opened[b] = "temporary" /\ i = r.id THEN v
                                 ELSE temporary[i]
        BY <3>3, FillEffect
      <4>2. r.lineage = r.text
        BY <2>3, CurrentIsOne
      <4>3. \A v \in {Torn, VectorOf(r)} : Agree(v)
        BY <4>2, TornIsThere DEF Agree, VectorOf
      <4> QED BY <2>2, <4>1, <4>3
    <3>4. CASE PublishVector(b)
      BY <2>2, <3>4, PublishEffect DEF Agree
    <3> QED BY <1>5, <3>1, <3>2, <3>3, <3>4, WhoWrites
  <2>5. \A r \in builder'[b].records : r.lineage = r.text
    <3>1. CASE MakeRecords(b)
      BY <1>1, <2>1, <3>1, RecordsAgree
    <3>2. CASE builder'[b].records \in {{}, builder[b].records}
      BY <2>3, <3>2
    <3> QED BY <1>5, <3>1, <3>2, BuildFrame DEF Resting
  <2> QED BY <2>1, <2>3, <2>4, <2>5 DEF AgreeInv
<1> QED BY <1>3, <1>4, <1>5 DEF Next

(* Without revisions, a report of a build that did not fail is eligible. *)
LEMMA RetryStep ==
  Types /\ FixedInv /\ WorkInv /\ RetryFinishes /\ [Next]_vars => RetryFinishes'
<1> SUFFICES ASSUME Types, FixedInv, WorkInv, RetryFinishes, [Next]_vars, revisions' = 0
             PROVE  report'.eligible \/ report'.faulty
  BY DEF RetryFinishes
<1>1. CASE UNCHANGED <<report, revisions>>
  BY <1>1 DEF RetryFinishes
<1>2. CASE UNCHANGED vars \/ WritePlan \/ SnapshotEntry \/ PlannerDies
  BY <1>1, <1>2 DEF vars, WritePlan, SnapshotEntry, PlannerDies, counts
<1>3. CASE Revise
  BY <1>3 DEF Revise, Types
<1>4. ASSUME NEW b \in Builders, BuildStep(b) PROVE report'.eligible \/ report'.faulty
  <2>1. revisions = 0
    BY <1>4, BuildFrame
  <2>2. CASE UNCHANGED report
    BY <1>1, <2>1, <2>2
  <2>3. CASE Conflict(b)
    <3>1. PICK r \in builder[b].records :
            vectors[r.id] \notin {None, Torn} /\ vectors[r.id].text # r.text
      BY <2>3 DEF Conflict, Conflicting, Unread
    <3>2. r.id \in Ids
      BY DEF Types, BuilderSet, RecordSet
    <3>3. r.text = canonical[r.id] /\ vectors[r.id].text = canonical[r.id]
      BY <2>1, <3>1, <3>2 DEF FixedInv, OfCandidate
    <3> QED BY <3>1, <3>3
  <2>4. CASE WriteReport(b)
    <3>1. report'.eligible = Complete(b) /\ report'.faulty = builder[b].faulty /\ At(b, "report")
      BY <2>4 DEF WriteReport, Report
    <3>2. builder[b].faulty \in BOOLEAN
      BY DEF Types, BuilderSet
    <3> QED BY <3>1, <3>2 DEF Complete, WorkInv, WorkInvOf
  <2> QED BY <1>4, <2>2, <2>3, <2>4, WhoWrites
<1> QED BY <1>2, <1>3, <1>4 DEF Next

(* Of builds that may not overlap, only one is at work. *)
LEMMA OthersRest ==
  ASSUME Types, WorkInv, TurnsInv, ~Bound.overlap, NEW b \in Builders, BuildStep(b),
         NEW c \in Builders \ {b}, ~At(c, "idle")
  PROVE  UNCHANGED store
<1>1. At(b, "idle")
  BY DEF TurnsInv
<1>2. ReadPlan(b)
  BY <1>1 DEF BuildStep, MakeRecords, Refuse, Scan, Conflict, SkipVector, MissVector,
       OpenTemporary, FillTemporary, PublishVector, ChunkFails, AllWritten, WriteReport,
       BuilderDies, At
<1> QED BY <1>2 DEF ReadPlan

(* A builder that does nothing goes on staging what it did.                 *)
LEMMA StagesKept ==
  ASSUME NEW c \in Builders, builder'[c].todo = builder[c].todo, builder'[c].plan = builder[c].plan
  PROVE  /\ Current(c)' = Current(c)
         /\ builder'[c].phase = builder[c].phase => \A i : Stages(c, i)' = Stages(c, i)
<1>1. Current(c)' = Current(c)
  BY DEF Current, Before, Embedded
<1> QED BY <1>1 DEF Stages

(* Nor does a builder that stages nothing get in another's way.              *)
LEMMA StagingKept ==
  ASSUME Types, NEW b \in Builders, NEW i \in Ids, StagingInvOf(i),
         \A c \in Builders \ {b} : builder'[c] = builder[c] /\ (Stages(c, i) => opened'[c] = opened[c]),
         ~Stages(b, i)', vectors'[i] # Torn,
         temporary'[i] = temporary[i] \/ \A c \in Builders \ {b} : ~Stages(c, i)
  PROVE  StagingInvOf(i)'
<1>1. ASSUME NEW c \in Builders \ {b}
      PROVE  Current(c)' = Current(c) /\ Stages(c, i)' = Stages(c, i) /\ builder'[c] = builder[c]
  BY <1>1, StagesKept
<1>2. ASSUME NEW c \in Builders, NEW d \in Builders, Stages(c, i)', Stages(d, i)' PROVE c = d
  BY <1>1, <1>2 DEF StagingInvOf
<1>3. ASSUME NEW c \in Builders, At(c, "fill")', Stages(c, i)'
      PROVE  opened'[c] = "temporary" /\ temporary'[i] = Torn
  BY <1>1, <1>3 DEF StagingInvOf, At
<1>4. ASSUME NEW c \in Builders, At(c, "publish")', NEW r \in Current(c)', r.id = i
      PROVE  temporary'[i] = VectorOf(r)
  <2>1. Stages(c, i)' /\ c # b
    BY <1>4 DEF Stages, At
  <2> QED BY <1>1, <1>4, <2>1 DEF StagingInvOf, At
<1> QED BY <1>2, <1>3, <1>4 DEF StagingInvOf, VectorOf

(* One builder stages an entry, unless two race for it.                      *)
LEMMA StagingStep ==
  Types /\ TurnsInv /\ WorkInv /\ StagingInv /\ [Next]_vars => StagingInv'
<1> SUFFICES ASSUME Types, TurnsInv, WorkInv, StagingInv, [Next]_vars PROVE StagingInv'
  OBVIOUS
<1>1. Bound' = Bound
  BY PriorStays
<1>2. CASE UNCHANGED <<store, builder>>
  <2>1. \A c \in Builders : Current(c)' = Current(c) /\ At(c, "publish")' = At(c, "publish")
                            /\ At(c, "fill")' = At(c, "fill")
    BY <1>2 DEF Current, Before, Embedded, At
  <2>2. \A c \in Builders : \A i : Stages(c, i)' = Stages(c, i)
    BY <1>2, <2>1 DEF Stages
  <2> QED BY <1>1, <1>2, <2>1, <2>2 DEF StagingInv, StagingInvOf, store, VectorOf
<1>3. CASE UNCHANGED vars \/ Revise \/ WritePlan \/ SnapshotEntry \/ PlannerDies
  BY <1>2, <1>3 DEF vars, Revise, WritePlan, SnapshotEntry, PlannerDies
<1>4. ASSUME NEW b \in Builders, BuildStep(b) PROVE StagingInv'
  <2>1. \A c \in Builders \ {b} : builder'[c] = builder[c]
    BY <1>4, BuildFrame
  <2>2. ASSUME builder'[b].phase \notin {"fill", "publish"},
               UNCHANGED <<vectors, temporary, raced>>,
               \A c \in Builders \ {b} : opened'[c] = opened[c]
        PROVE  StagingInv'
    <3>1. \A i \in Ids : ~Stages(b, i)'
      BY <2>2 DEF Stages
    <3>2. ASSUME NEW i \in Ids \ raced PROVE StagingInvOf(i)'
      <4>1. StagingInvOf(i) /\ vectors[i] # Torn
        BY DEF StagingInv, StagingInvOf
      <4> QED BY <2>1, <2>2, <3>1, <4>1, StagingKept
    <3> QED BY <1>1, <2>2, <3>2 DEF StagingInv
  <2>3. CASE /\ \/ ReadPlan(b) \/ MakeRecords(b) \/ Refuse(b) \/ Scan(b) \/ Conflict(b)
                \/ SkipVector(b) \/ MissVector(b) \/ AllWritten(b) \/ WriteReport(b)
    <3>1. UNCHANGED <<vectors, temporary, raced, opened>>
      BY <2>3 DEF ReadPlan, MakeRecords, Refuse, Scan, Proceed, Conflict, SkipVector,
           MissVector, AllWritten, WriteReport, OnlyBuilder, store
    <3>2. CASE ReadPlan(b) \/ MakeRecords(b) \/ Scan(b)
      <4>1. builder'[b].phase \in {"records", "scan", "check"}
        BY <3>2, ReadEffect, RecordsMade, ScanMade DEF Resting
      <4> QED BY <2>2, <3>1, <4>1
    <3>3. CASE Refuse(b) \/ Conflict(b) \/ WriteReport(b)
      <4>1. Rest(b)
        BY <3>3 DEF Refuse, Conflict, WriteReport
      <4>2. builder'[b].phase = "idle"
        BY <4>1, RestEffect DEF Resting
      <4> QED BY <2>2, <3>1, <4>2
    <3>4. CASE SkipVector(b)
      <4>1. builder'[b].phase = "check"
        BY <3>4, AdvanceEffect DEF SkipVector
      <4> QED BY <2>2, <3>1, <4>1
    <3>5. CASE MissVector(b) \/ AllWritten(b)
      <4>1. builder'[b].phase \in {"stage", "report"}
        BY <3>5, GotoEffect DEF MissVector, AllWritten
      <4> QED BY <2>2, <3>1, <4>1
    <3> QED BY <2>3, <3>2, <3>3, <3>4, <3>5
  <2>4. CASE ChunkFails(b) \/ BuilderDies(b)
    <3>1. builder'[b].phase \notin {"fill", "publish"}
      <4>1. CASE ChunkFails(b)
        <5>1. builder'[b] = [builder[b] EXCEPT !.phase = "report", !.faulty = TRUE]
          BY <4>1, FailEffect
        <5>2. builder'[b].phase = "report"
          BY <5>1 DEF Types, BuilderSet
        <5> QED BY <5>2
      <4>2. CASE BuilderDies(b)
        BY <4>2, RestEffect DEF BuilderDies, Resting
      <4> QED BY <2>4, <4>1, <4>2
    <3>2. /\ UNCHANGED <<vectors, temporary, raced>>
          /\ \A c \in Builders \ {b} : opened'[c] = opened[c]
      BY <2>4 DEF ChunkFails, BuilderDies, Types
    <3> QED BY <2>2, <3>1, <3>2
  <2>5. CASE OpenTemporary(b)
    <3>1. PICK r \in Current(b) :
            /\ At(b, "stage") /\ Goto(b, "fill") /\ UNCHANGED vectors
            /\ \A i \in Ids : temporary'[i] = IF i = r.id THEN Torn ELSE temporary[i]
            /\ \A c \in Builders : opened'[c] = IF c = b THEN "temporary" ELSE opened[c]
            /\ raced' = IF \E c \in Builders : Stages(c, r.id) THEN raced \cup {r.id} ELSE raced
      BY <2>5, OpenEffect
    <3>2. /\ builder'[b].phase = "fill" /\ builder'[b].todo = builder[b].todo
          /\ builder'[b].plan = builder[b].plan
      BY <3>1, GotoEffect
    <3>3. \A s \in Current(b)' : s = r
      BY <3>2, StagesKept, CurrentIsOne
    <3>4. ASSUME NEW i \in Ids \ raced' PROVE StagingInvOf(i)'
      <4>1. StagingInvOf(i) /\ vectors'[i] # Torn
        BY <3>1 DEF StagingInv, StagingInvOf
      <4>2. CASE i # r.id
        <5>1. ~Stages(b, i)'
          BY <3>3, <4>2 DEF Stages
        <5> QED BY <2>1, <3>1, <4>1, <4>2, <5>1, StagingKept
      <4>3. CASE i = r.id
        <5>1. \A c \in Builders \ {b} : ~Stages(c, i)'
          BY <2>1, <3>1, <4>3, StagesKept
        <5>2. temporary'[i] = Torn /\ opened'[b] = "temporary"
          BY <3>1, <4>3
        <5>3. ASSUME NEW c \in Builders, At(c, "publish")', NEW t \in Current(c)', t.id = i
              PROVE  FALSE
          <6>1. Stages(c, i)'
            BY <5>3 DEF Stages, At
          <6> QED BY <3>2, <5>1, <5>3, <6>1 DEF At
        <5> QED BY <4>1, <5>1, <5>2, <5>3 DEF StagingInvOf
      <4> QED BY <4>2, <4>3
    <3>5. ASSUME ~Bound.overlap PROVE raced' = {}
      <4>1. \A c \in Builders : ~Stages(c, r.id)
        BY <3>1, <3>5 DEF TurnsInv, Stages, At
      <4> QED BY <3>1, <3>5, <4>1 DEF StagingInv
    <3> QED BY <1>1, <3>4, <3>5 DEF StagingInv
  <2>6. CASE FillTemporary(b)
    <3>1. PICK r \in Current(b) : \E v \in {Torn, VectorOf(r)} :
            /\ At(b, "fill") /\ Goto(b, "publish") /\ UNCHANGED raced
            /\ \A i \in Ids :
                 /\ vectors'[i] = IF opened[b] = "stored" /\ i = r.id THEN v ELSE vectors[i]
                 /\ temporary'[i] = IF opened[b] = "temporary" /\ i = r.id THEN v
                                    ELSE temporary[i]
            /\ opened[b] = "temporary" /\ temporary[r.id] = Torn => v = VectorOf(r)
            /\ \A c \in Builders \ {b} : opened'[c] = opened[c]
      BY <2>6, FillEffect
    <3>2. /\ builder'[b].phase = "publish" /\ builder'[b].todo = builder[b].todo
          /\ builder'[b].plan = builder[b].plan
      BY <3>1, GotoEffect
    <3>3. \A s \in Current(b)' : s = r
      BY <3>2, StagesKept, CurrentIsOne
    <3>4. ASSUME NEW i \in Ids \ raced PROVE StagingInvOf(i)'
      <4>1. StagingInvOf(i) /\ vectors[i] # Torn
        BY DEF StagingInv, StagingInvOf
      <4>2. CASE i # r.id
        <5>1. ~Stages(b, i)'
          BY <3>3, <4>2 DEF Stages
        <5>2. vectors'[i] = vectors[i] /\ temporary'[i] = temporary[i]
          BY <3>1, <4>2
        <5> QED BY <2>1, <3>1, <4>1, <5>1, <5>2, StagingKept
      <4>3. CASE i = r.id
        <5>1. Stages(b, i)
          BY <3>1, <4>3 DEF Stages, At
        <5>2. opened[b] = "temporary" /\ temporary[i] = Torn
          BY <3>1, <4>1, <5>1 DEF StagingInvOf
        <5>3. vectors'[i] = vectors[i] /\ temporary'[i] = VectorOf(r)
          BY <3>1, <4>3, <5>2
        <5>4. \A c \in Builders \ {b} : ~Stages(c, i)'
          <6>1. \A c \in Builders \ {b} : ~Stages(c, i)
            BY <4>1, <5>1 DEF StagingInvOf
          <6> QED BY <2>1, <6>1, StagesKept
        <5>5. ASSUME NEW c \in Builders, At(c, "publish")', NEW t \in Current(c)', t.id = i
              PROVE  temporary'[i] = VectorOf(t)
          <6>1. Stages(c, i)'
            BY <5>5 DEF Stages, At
          <6> QED BY <3>3, <5>3, <5>4, <5>5, <6>1
        <5> QED BY <3>2, <4>1, <5>3, <5>4, <5>5 DEF StagingInvOf, At, VectorOf
      <4> QED BY <4>2, <4>3
    <3> QED BY <1>1, <3>1, <3>4 DEF StagingInv
  <2>7. CASE PublishVector(b)
    <3>1. PICK r \in Current(b) :
            /\ At(b, "publish") /\ Advance(b, r) /\ UNCHANGED raced
            /\ \A i \in Ids : /\ vectors'[i] = IF i = r.id THEN temporary[i] ELSE vectors[i]
                              /\ temporary'[i] = IF i = r.id THEN None ELSE temporary[i]
            /\ \A c \in Builders : ~Stages(c, r.id) => opened'[c] = opened[c]
      BY <2>7, PublishEffect
    <3>2. builder'[b].phase = "check" /\ r \in RecordSet
      BY <3>1, AdvanceEffect, CurrentIsOne
    <3>3. ASSUME NEW i \in Ids \ raced PROVE StagingInvOf(i)'
      <4>1. StagingInvOf(i)
        BY DEF StagingInv
      <4>2. ~Stages(b, i)'
        BY <3>2 DEF Stages
      <4>3. ASSUME NEW c \in Builders \ {b}, Stages(c, i) PROVE i # r.id /\ ~Stages(c, r.id)
        <5>1. i # r.id
          <6>1. Stages(b, r.id)
            BY <3>1 DEF Stages, At
          <6> QED BY <4>1, <4>3, <6>1 DEF StagingInvOf
        <5>2. PICK s \in Current(c) : s.id = i
          BY <4>3 DEF Stages
        <5>3. \A t \in Current(c) : t = s
          BY CurrentIsOne
        <5> QED BY <5>1, <5>2, <5>3 DEF Stages
      <4>4. vectors'[i] # Torn
        <5>1. CASE i = r.id
          <6>1. temporary[i] = VectorOf(r)
            BY <3>1, <4>1, <5>1 DEF StagingInvOf
          <6> QED BY <3>1, <3>2, <5>1, <6>1, TornIsThere
        <5>2. CASE i # r.id
          BY <3>1, <4>1, <5>2 DEF StagingInvOf
        <5> QED BY <5>1, <5>2
      <4>5. temporary'[i] = temporary[i] \/ \A c \in Builders \ {b} : ~Stages(c, i)
        BY <3>1, <4>3
      <4>6. \A c \in Builders \ {b} : Stages(c, i) => opened'[c] = opened[c]
        BY <3>1, <4>3
      <4> QED BY <2>1, <4>1, <4>2, <4>4, <4>5, <4>6, StagingKept
    <3> QED BY <1>1, <3>1, <3>3 DEF StagingInv
  <2> QED BY <1>4, <2>3, <2>4, <2>5, <2>6, <2>7 DEF BuildStep
<1> QED BY <1>3, <1>4 DEF Next

(* Of one content, a vector that is there is the record's, or torn by a race. *)
LEMMA FixedIsStored ==
  ASSUME FixedInv', StagingInv', revisions' = 0, NEW r \in RecordSet,
         r.text = canonical'[r.id], vectors'[r.id] # None
  PROVE  StoredAs(r)'
<1>1. r.id \in Ids /\ OfCandidate(vectors[r.id], r.id)'
  BY DEF FixedInv, RecordSet
<1>2. CASE vectors'[r.id] = Torn
  <2>1. r.id \in raced'
    BY <1>1, <1>2 DEF StagingInv, StagingInvOf
  <2> QED BY <1>2, <2>1 DEF StoredAs
<1>3. CASE vectors'[r.id] # Torn
  BY <1>1, <1>3 DEF OfCandidate, StoredAs
<1> QED BY <1>2, <1>3

(* A stored vector stays, and goes on embedding what it does.                *)
LEMMA StoredStays ==
  ASSUME Types, WorkInv, FixedInv, StagingInv, StoredInv, FixedInv', StagingInv', [Next]_vars,
         Steady, NEW r \in RecordSet, StoredAs(r), revisions = 0 => r.text = canonical[r.id]
  PROVE  StoredAs(r)'
<1>1. CASE UNCHANGED <<vectors, raced>>
  BY <1>1 DEF StoredAs
<1>2. CASE UNCHANGED vars \/ Revise \/ WritePlan \/ SnapshotEntry \/ PlannerDies
  BY <1>1, <1>2 DEF vars, Revise, WritePlan, SnapshotEntry, PlannerDies, store
<1>3. ASSUME NEW b \in Builders, BuildStep(b) PROVE StoredAs(r)'
  <2>1. UNCHANGED <<canonical, revisions>> /\ r.id \in Ids /\ vectors'[r.id] # None
    BY <1>3, BuildFrame, VectorsStay DEF RecordSet, StoredAs
  <2>2. CASE revisions = 0
    BY <2>1, <2>2, FixedIsStored
  <2>3. ASSUME ~Bound.overlap, vectors'[r.id] = vectors[r.id] PROVE StoredAs(r)'
    <3>1. vectors[r.id].text = r.text
      BY <2>3 DEF StoredAs, StagingInv
    <3> QED BY <2>1, <2>3, <3>1 DEF StoredAs
  <2>4. CASE ~Bound.overlap
    <3>1. CASE UNCHANGED vectors
      BY <2>3, <2>4, <3>1
    <3>2. CASE FillTemporary(b)
      <4>1. PICK s \in Current(b) : \E v \in {Torn, VectorOf(s)} :
              /\ At(b, "fill")
              /\ \A i \in Ids :
                   vectors'[i] = IF opened[b] = "stored" /\ i = s.id THEN v ELSE vectors[i]
        BY <3>2, FillEffect
      <4>2. Stages(b, s.id) /\ s.id \in Ids
        BY <4>1, CurrentIsOne DEF Stages, At
      <4>3. opened[b] = "temporary"
        BY <2>4, <4>1, <4>2 DEF StagingInv, StagingInvOf
      <4> QED BY <2>1, <2>3, <2>4, <4>1, <4>3
    <3>3. CASE PublishVector(b)
      <4>1. PICK s \in Current(b) :
              /\ At(b, "publish")
              /\ \A i \in Ids : vectors'[i] = IF i = s.id THEN temporary[i] ELSE vectors[i]
        BY <3>3, PublishEffect
      <4>2. vectors[s.id] = None
        BY <2>4, <4>1, CurrentIsOne DEF StoredInv, Clear, At, Writing, Steady
      <4>3. vectors[r.id] # None
        BY DEF StoredAs
      <4> QED BY <2>1, <2>3, <2>4, <4>1, <4>2, <4>3
    <3> QED BY <1>3, <3>1, <3>2, <3>3, WhoWrites DEF OpenTemporary
  <2> QED BY <2>2, <2>4 DEF Steady
<1> QED BY <1>2, <1>3 DEF Next

(* What a build alone has yet to write stays missing. *)
LEMMA ClearStep ==
  ASSUME Types, TurnsInv, WorkInv, StagingInv, StoredInv, Steady, ~Bound.overlap,
         NEW b \in Builders, BuildStep(b), NEW c \in Builders
  PROVE  Clear(c)'
<1>1. Clear(b) /\ Clear(c) /\ builder[b] \in BuilderSet
  BY DEF StoredInv, Types
<1>2. CASE c # b
  <2>1. builder'[c] = builder[c]
    BY <1>2, BuildFrame
  <2>2. ~At(c, "idle") => UNCHANGED vectors
    BY <1>2, OthersRest DEF store
  <2> QED BY <1>1, <2>1, <2>2 DEF Clear, At, Writing
<1> SUFFICES Clear(b)'
  BY <1>2
<1>3. CASE UNCHANGED vectors /\ builder[b].phase \in Writing /\ builder'[b].todo \subseteq builder[b].todo
  BY <1>1, <1>3 DEF Clear
<1>4. CASE builder'[b].phase \notin Writing
  BY <1>4 DEF Clear
<1>5. CASE ReadPlan(b) \/ MakeRecords(b)
  <2>1. CASE ReadPlan(b)
    <3>1. builder'[b].phase = "records"
      BY <2>1, ReadEffect DEF Resting
    <3> QED BY <1>4, <3>1 DEF Writing
  <2>2. CASE MakeRecords(b)
    <3>1. builder'[b].phase = "scan"
      BY <2>2, RecordsMade
    <3> QED BY <1>4, <3>1 DEF Writing
  <2> QED BY <1>5, <2>1, <2>2
<1>6. CASE Refuse(b) \/ Conflict(b) \/ WriteReport(b) \/ BuilderDies(b)
  <2>1. Rest(b)
    BY <1>6 DEF Refuse, Conflict, WriteReport, BuilderDies
  <2>2. builder'[b].phase = "idle"
    BY <2>1, RestEffect DEF Resting
  <2> QED BY <1>4, <2>2 DEF Writing
<1>7. CASE Scan(b)
  <2>1. builder'[b].todo = Missing(b) /\ UNCHANGED vectors
    BY <1>7, ScanMade DEF Scan, Proceed, OnlyBuilder, store
  <2>2. \A r \in Missing(b) : r.id \in Ids /\ vectors[r.id] \in {None, Torn}
    BY <1>1 DEF Missing, Unread, BuilderSet, RecordSet
  <2>3. \A i \in Ids : vectors[i] # Torn
    BY DEF StagingInv, StagingInvOf
  <2> QED BY <2>1, <2>2, <2>3 DEF Clear
<1>8. CASE SkipVector(b)
  BY <1>3, <1>8, AdvanceEffect DEF SkipVector, OnlyBuilder, store, At, Writing
<1>9. CASE MissVector(b) \/ OpenTemporary(b)
  BY <1>3, <1>9, GotoEffect DEF MissVector, OpenTemporary, OnlyBuilder, store, At, Writing
<1>10. CASE PublishVector(b)
  <2>1. PICK r \in Current(b) :
          /\ At(b, "publish") /\ Advance(b, r)
          /\ \A j \in Ids : vectors'[j] = IF j = r.id THEN temporary[j] ELSE vectors[j]
    BY <1>10, PublishEffect
  <2>2. builder'[b].todo = builder[b].todo \ {r}
    BY <2>1, AdvanceEffect
  <2>3. r \in builder[b].records /\ r.id \in Ids /\ builder[b].todo \subseteq builder[b].records
    BY CurrentIsOne DEF WorkInv, WorkInvOf
  <2>4. \A s \in builder[b].todo \ {r} : s.id # r.id /\ s.id \in Ids
    BY <1>1, <2>3 DEF WorkInv, WorkInvOf, BuilderSet, RecordSet
  <2> QED BY <1>1, <2>1, <2>2, <2>4 DEF Clear, At, Writing
<1>11. CASE ChunkFails(b)
  <2>1. builder'[b].phase = "report"
    BY <1>1, <1>11, FailEffect DEF BuilderSet
  <2> QED BY <1>4, <2>1 DEF Writing
<1>12. CASE AllWritten(b)
  BY <1>4, <1>12, GotoEffect DEF AllWritten, Writing
<1>13. CASE FillTemporary(b)
  <2>1. PICK r \in Current(b) : \E v \in {Torn, VectorOf(r)} :
          /\ At(b, "fill") /\ Goto(b, "publish")
          /\ \A i \in Ids :
               vectors'[i] = IF opened[b] = "stored" /\ i = r.id THEN v ELSE vectors[i]
    BY <1>13, FillEffect
  <2>2. opened[b] = "temporary"
    <3>1. Stages(b, r.id) /\ r.id \in Ids
      BY <2>1, CurrentIsOne DEF Stages, At
    <3> QED BY <2>1, <3>1 DEF StagingInv, StagingInvOf
  <2>3. \A i \in Ids : vectors'[i] = vectors[i]
    BY <2>1, <2>2
  <2>4. builder'[b].todo = builder[b].todo /\ \A s \in builder[b].todo : s.id \in Ids
    BY <1>1, <2>1, GotoEffect DEF BuilderSet, RecordSet
  <2> QED BY <1>1, <2>1, <2>3, <2>4 DEF Clear, At, Writing
<1> QED BY <1>5, <1>6, <1>7, <1>8, <1>9, <1>10, <1>11, <1>12, <1>13 DEF BuildStep

(* A build counts what is stored as it made it. *)
LEMMA CountedStep ==
  ASSUME Types, WorkInv, FixedInv, StagingInv, StoredInv, FixedInv', StagingInv', [Next]_vars,
         Steady, NEW b \in Builders, BuildStep(b), NEW c \in Builders
  PROVE  Stored(c)'
<1>1. Stored(b) /\ Stored(c) /\ builder[b] \in BuilderSet
  BY DEF StoredInv, Types
<1>2. ASSUME NEW d \in Builders, Stored(d), NEW r \in builder[d].records,
             r.id \in builder[d].chunk \cup builder[d].committed
      PROVE  StoredAs(r)'
  <2>1. r \in RecordSet /\ StoredAs(r)
    BY <1>2 DEF Types, BuilderSet, Stored
  <2>2. revisions = 0 => r.text = canonical[r.id]
    BY <1>2 DEF FixedInv
  <2> QED BY <2>1, <2>2, StoredStays
<1>3. CASE c # b
  <2>1. builder'[c] = builder[c]
    BY <1>3, BuildFrame
  <2> QED BY <1>1, <1>2, <2>1 DEF Stored
<1> SUFFICES Stored(b)'
  BY <1>3
<1>4. CASE builder'[b].records = {}
  BY <1>4 DEF Stored
<1>5. CASE /\ builder'[b].records = builder[b].records
           /\ builder'[b].chunk = builder[b].chunk /\ builder'[b].committed = builder[b].committed
  BY <1>1, <1>2, <1>5 DEF Stored
<1>6. CASE ReadPlan(b)
  BY <1>4, <1>6, ReadEffect DEF Resting
<1>7. CASE MakeRecords(b)
  <2>1. builder[b].chunk \cup builder[b].committed = {}
    BY <1>7 DEF MakeRecords, At, WorkInv, WorkInvOf, RecordIds
  <2> QED BY <1>7, <2>1, RecordsMade DEF Stored
<1>8. CASE Refuse(b) \/ Conflict(b) \/ WriteReport(b) \/ BuilderDies(b)
  <2>1. Rest(b)
    BY <1>8 DEF Refuse, Conflict, WriteReport, BuilderDies
  <2>2. builder'[b].records = {}
    BY <2>1, RestEffect DEF Resting
  <2> QED BY <1>4, <2>2
<1>9. CASE Scan(b)
  <2>1. /\ builder'[b].records = builder[b].records /\ builder'[b].chunk = builder[b].chunk
        /\ builder'[b].committed = RecordIds(b) \ {r.id : r \in Missing(b)}
        /\ UNCHANGED vectors /\ Conflicting(b) = {} /\ builder[b].chunk = {}
    BY <1>9, ScanMade DEF Scan, Proceed, OnlyBuilder, store, WorkInv, WorkInvOf
  <2>2. ASSUME NEW r \in builder[b].records, r.id \in builder'[b].committed
        PROVE  StoredAs(r)'
    <3>1. ~Unread(r.id)
      BY <2>1, <2>2 DEF Missing
    <3> QED BY <2>1, <3>1 DEF Conflicting, Unread, StoredAs
  <2> QED BY <2>1, <2>2 DEF Stored
<1>10. ASSUME NEW r \in Current(b), Advance(b, r), StoredAs(r)'
       PROVE  Stored(b)'
  <2>1. /\ builder'[b].records = builder[b].records
        /\ builder'[b].chunk \cup builder'[b].committed =
             builder[b].chunk \cup builder[b].committed \cup {r.id}
    BY <1>10, AdvanceEffect
  <2>2. \A s \in builder[b].records : s.id = r.id => s = r
    BY CurrentIsOne DEF WorkInv, WorkInvOf
  <2> QED BY <1>1, <1>2, <1>10, <2>1, <2>2 DEF Stored
<1>11. ASSUME revisions = 0, NEW r \in Current(b), vectors'[r.id] # None PROVE StoredAs(r)'
  <2>1. r.text = canonical[r.id] /\ r \in RecordSet
    BY <1>11, CurrentIsOne DEF FixedInv
  <2>2. UNCHANGED <<canonical, revisions>>
    BY BuildFrame
  <2> QED BY <1>11, <2>1, <2>2, FixedIsStored
<1>12. CASE SkipVector(b)
  <2>1. PICK r \in Current(b) : vectors[r.id] # None /\ Advance(b, r)
    BY <1>12 DEF SkipVector
  <2>2. At(b, "check") /\ UNCHANGED vectors
    BY <1>12 DEF SkipVector, OnlyBuilder, store
  <2>3. CASE revisions = 0
    BY <1>10, <1>11, <2>1, <2>2, <2>3
  <2>4. CASE ~Bound.overlap
    BY <2>1, <2>2, <2>4, CurrentIsOne DEF StoredInv, Clear, At, Writing
  <2> QED BY <2>3, <2>4 DEF Steady
<1>13. CASE PublishVector(b)
  <2>1. PICK r \in Current(b) :
          /\ temporary[r.id] # None /\ At(b, "publish") /\ Advance(b, r)
          /\ \A j \in Ids : vectors'[j] = IF j = r.id THEN temporary[j] ELSE vectors[j]
    BY <1>13, PublishEffect
  <2>2. vectors'[r.id] = temporary[r.id] /\ r \in RecordSet /\ r.id \in Ids
    BY <2>1, CurrentIsOne
  <2>3. CASE revisions = 0
    BY <1>10, <1>11, <2>1, <2>2, <2>3
  <2>4. CASE ~Bound.overlap
    <3>1. temporary[r.id] = VectorOf(r)
      BY <2>1, <2>2, <2>4 DEF StagingInv, StagingInvOf
    <3>2. StoredAs(r)'
      BY <2>2, <3>1, TornIsThere DEF StoredAs, VectorOf
    <3> QED BY <1>10, <2>1, <3>2
  <2> QED BY <2>3, <2>4 DEF Steady
<1>14. CASE MissVector(b) \/ OpenTemporary(b) \/ FillTemporary(b) \/ AllWritten(b)
  BY <1>5, <1>14, GotoEffect DEF MissVector, OpenTemporary, FillTemporary, AllWritten
<1>15. CASE ChunkFails(b)
  <2>1. builder'[b] = [builder[b] EXCEPT !.phase = "report", !.faulty = TRUE]
    BY <1>15, FailEffect
  <2> QED BY <1>1, <1>5, <2>1 DEF BuilderSet
<1> QED BY <1>6, <1>7, <1>8, <1>9, <1>12, <1>13, <1>14, <1>15 DEF BuildStep

(* An eligible report is of vectors that are stored, and stay. *)
LEMMA EligibleStep ==
  ASSUME Types, WorkInv, FixedInv, StagingInv, StoredInv, FixedInv', StagingInv', [Next]_vars,
         Steady
  PROVE  EligibleIsStored'
<1>1. ASSUME NEW r \in RecordSet, StoredAs(r), revisions = 0 => r.text = canonical[r.id]
      PROVE  StoredAs(r)'
  BY <1>1, StoredStays
<1>2. CASE UNCHANGED report
  <2>1. \A r \in report.records : r \in RecordSet /\ (revisions = 0 => r.text = canonical[r.id])
    BY DEF Types, FixedInv
  <2> QED BY <1>1, <1>2, <2>1 DEF StoredInv, EligibleIsStored
<1>3. CASE UNCHANGED vars \/ Revise \/ WritePlan \/ SnapshotEntry \/ PlannerDies
  BY <1>2, <1>3 DEF vars, Revise, WritePlan, SnapshotEntry, PlannerDies
<1>4. ASSUME NEW b \in Builders, Conflict(b) PROVE EligibleIsStored'
  BY <1>4 DEF Conflict, Report, EligibleIsStored
<1>5. ASSUME NEW b \in Builders, WriteReport(b), report'.eligible PROVE EligibleIsStored'
  <2>1. /\ report'.records = builder[b].records
        /\ builder[b].committed = RecordIds(b)
    BY <1>5 DEF WriteReport, Report, Complete
  <2>2. \A r \in builder[b].records :
          r \in RecordSet /\ StoredAs(r) /\ (revisions = 0 => r.text = canonical[r.id])
    BY <2>1 DEF RecordIds, StoredInv, Stored, Types, BuilderSet, FixedInv
  <2> QED BY <1>1, <2>1, <2>2 DEF EligibleIsStored
<1>6. ASSUME NEW b \in Builders, BuildStep(b) PROVE EligibleIsStored'
  BY <1>2, <1>4, <1>5, <1>6, WhoWrites DEF EligibleIsStored
<1> QED BY <1>3, <1>6 DEF Next

(* What a build counts, and what it reports, stays stored. *)
LEMMA StoredStep ==
  Types /\ TurnsInv /\ PlanInv /\ FixedInv /\ WorkInv /\ StagingInv /\ StoredInv /\ [Next]_vars
    => StoredInv'
<1> SUFFICES ASSUME Types, TurnsInv, PlanInv, FixedInv, WorkInv, StagingInv, StoredInv,
                    [Next]_vars, Steady'
             PROVE  StoredInv'
  BY DEF StoredInv
<1>1. Steady /\ FixedInv' /\ StagingInv' /\ Bound' = Bound
  BY SteadyBefore, FixedStep, StagingStep, PriorStays
<1>2. EligibleIsStored'
  BY <1>1, EligibleStep
<1>3. ASSUME UNCHANGED <<store, builder>>, NEW c \in Builders
      PROVE  (~Bound.overlap => Clear(c)') /\ Stored(c)'
  BY <1>1, <1>3 DEF StoredInv, Clear, Stored, StoredAs, store
<1>4. CASE UNCHANGED vars \/ Revise \/ WritePlan \/ SnapshotEntry \/ PlannerDies
  <2>1. UNCHANGED <<store, builder>>
    BY <1>4 DEF vars, Revise, WritePlan, SnapshotEntry, PlannerDies
  <2> QED BY <1>1, <1>2, <1>3, <2>1 DEF StoredInv
<1>5. ASSUME NEW b \in Builders, BuildStep(b), NEW c \in Builders
      PROVE  (~Bound.overlap => Clear(c)') /\ Stored(c)'
  BY <1>1, <1>5, ClearStep, CountedStep
<1>6. ASSUME NEW b \in Builders, BuildStep(b) PROVE StoredInv'
  BY <1>1, <1>2, <1>5, <1>6 DEF StoredInv
<1> QED BY <1>4, <1>6 DEF Next

-----------------------------------------------------------------------------
(* The theorems. *)

(* Nothing is planned, built or stored at first. *)
LEMMA InitialBuilds == Init => BuildInv
<1> SUFFICES ASSUME Init PROVE BuildInv
  OBVIOUS
<1>1. NoPlan.hash = [i \in Ids |-> None] /\ [i \in Ids |-> None] \in Contents
  BY DEF NoPlan, Contents
<1>2. \A b \in Builders : builder[b] = Resting
  BY DEF Init
<1>3. Types
  <2>1. canonical \in Contents /\ prior \in Priors
    BY BuildsAssumption DEF Init
  <2>2. planner \in [phase : {"idle", "snapshot"}, entries : Contents, left : SUBSET Ids]
    BY <1>1 DEF Init, NotPlanning
  <2>3. vectors \in [Ids -> Files] /\ temporary \in [Ids -> Files]
    BY DEF Init, Files
  <2> QED BY <1>1, <2>1, <2>2, <2>3, AtRest DEF Init, Types
<1>4. TurnsInv
  BY <1>2 DEF Init, TurnsInv, At, Resting, NotPlanning
<1>5. PlanInv
  BY <1>2, AtRest DEF Init, PlanInv, Resting, NotPlanning
<1>6. FixedInv
  BY <1>2, AtRest DEF Init, FixedInv, Resting, NotPlanning, OfCandidate
<1>7. WorkInv
  BY <1>2 DEF WorkInv, WorkInvOf, Resting, RecordIds, Written, At, Writing
<1>8. AgreeInv
  BY <1>2 DEF Init, AgreeInv, Agree, Resting
<1>9. StoredInv /\ RetryFinishes
  BY <1>2 DEF Init, StoredInv, Clear, Stored, At, Resting, Writing, EligibleIsStored,
       RetryFinishes
<1>10. StagingInv
  <2>1. \A i \in Ids : vectors[i] # Torn
    BY TornIsThere DEF Init
  <2> QED BY <1>2, <2>1 DEF Init, StagingInv, StagingInvOf, Stages, At, Resting
<1> QED BY <1>3, <1>4, <1>5, <1>6, <1>7, <1>8, <1>9, <1>10 DEF BuildInv

(* The layers hold throughout: calls take turns where they may not overlap,  *)
(* a plan is snapshot as it hashes, a build counts only what is there, what  *)
(* is staged by one builder alone is that builder's whole vector, and of one *)
(* candidate or one build at a time every counted vector is of its record,   *)
(* or torn where two builders staged it at once.                             *)
THEOREM BuildInvHolds == Spec => []BuildInv
<1>1. BuildInv /\ [Next]_vars => BuildInv'
  BY TypeStep, TurnsStep, PlanStep, FixedStep, WorkStep, AgreeStep, StagingStep, StoredStep,
     RetryStep
     DEF BuildInv
<1> QED BY InitialBuilds, <1>1, PTL DEF Spec

(* "recoverable tail": without revisions, only a failure of the build itself *)
(* makes its report ineligible.                                              *)
THEOREM RetriesFinish == Spec => []RetryFinishes
<1>1. BuildInv => RetryFinishes
  BY DEF BuildInv
<1> QED BY BuildInvHolds, <1>1, PTL

(* Where calls that may overlap are of one candidate, every state is steady. *)
LEMMA AlwaysSteady == Separate => (Spec => []Steady)
<1> SUFFICES ASSUME Separate PROVE Spec => []Steady
  OBVIOUS
<1> DEFINE Counted == prior \in Priors /\ revisions \in 0 .. Bound.revisions
<1>1. Init => Counted
  BY BuildsAssumption DEF Init, Bound
<1>2. BuildInv /\ Counted /\ [Next]_vars => Counted'
  <2> SUFFICES ASSUME BuildInv, Counted, [Next]_vars PROVE Counted'
    OBVIOUS
  <2>1. Types /\ WorkInv /\ prior' = prior /\ Bound' = Bound
    BY PriorStays DEF BuildInv
  <2>2. Bound.revisions \in Nat
    BY BuildsAssumption DEF Bound
  <2>3. CASE UNCHANGED revisions
    BY <2>1, <2>3
  <2>4. CASE UNCHANGED vars \/ WritePlan \/ SnapshotEntry \/ PlannerDies
    BY <2>3, <2>4 DEF vars, counts, WritePlan, SnapshotEntry, PlannerDies
  <2>5. CASE Revise
    BY <2>1, <2>2, <2>5 DEF Revise
  <2>6. ASSUME NEW b \in Builders, BuildStep(b) PROVE Counted'
    BY <2>1, <2>3, <2>6, BuildFrame
  <2> QED BY <2>4, <2>5, <2>6 DEF Next
<1>3. Counted => Steady
  BY BuildsAssumption DEF Separate, Steady, Bound
<1> QED BY <1>1, <1>2, <1>3, BuildInvHolds, PTL DEF Spec

(* An eligible report has all its vectors on disk, and keeps them, whatever  *)
(* later builds and failures do: where plans and builds take turns, or the   *)
(* candidate is not revised.  A vector that two builders were staging at     *)
(* once may be torn, which happens only where builds overlap (StagingInv).   *)
THEOREM EligibleStaysStored == Separate => (Spec => []EligibleIsStored)
<1> SUFFICES ASSUME Separate PROVE Spec => []EligibleIsStored
  OBVIOUS
<1>1. BuildInv /\ Steady => EligibleIsStored
  BY DEF BuildInv, StoredInv
<1> QED BY <1>1, AlwaysSteady, BuildInvHolds, PTL

(* "strict lineage": every stored vector is filed with the hash of its text, *)
(* embedded or reused, as long as no snapshot is cut.                        *)
THEOREM StrictLineage == Separate => (Spec => []LineageHolds)
<1> SUFFICES ASSUME Separate PROVE Spec => []LineageHolds
  OBVIOUS
<1>1. BuildInv /\ Steady => LineageHolds
  BY DEF BuildInv, AgreeInv, Agree, LineageHolds
<1> QED BY <1>1, AlwaysSteady, BuildInvHolds, PTL

=============================================================================
