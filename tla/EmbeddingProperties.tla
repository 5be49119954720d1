------------------------- MODULE EmbeddingProperties -------------------------
(***************************************************************************)
(* Properties of the incremental embedding builds.                         *)
(***************************************************************************)
EXTENDS EmbeddingBuilds

(* A build reported as eligible has every one of its vectors on disk,        *)
(* embedding what the build made it from, and keeps them, whatever later     *)
(* builds and failures do.  Only a vector that two builders were staging at  *)
(* once may be torn, for good if the one that emptied its file dies.         *)
StoredAs(r) ==
  /\ vectors[r.id] # None
  /\ \/ vectors[r.id].text = r.text
     \/ vectors[r.id] = Torn /\ r.id \in raced
EligibleIsStored == report.eligible => \A r \in report.records : StoredAs(r)

(* "strict lineage": the content hash recorded with a vector is that of the  *)
(* text it embeds, embedded anew or reused from the prior release.  The hash *)
(* comes from the plan and the text from the snapshot or the prior vector,   *)
(* so this needs plans whose snapshot was finished.                          *)
LineageHolds ==
  ~torn => \A i \in Ids : vectors[i] # None => vectors[i].lineage = vectors[i].text

(* "incomplete/ineligible candidate with recoverable tail": as long as the   *)
(* candidate is not revised, only a failure in the build itself leaves it    *)
(* ineligible; a build after a cut one takes what that stored and finishes.  *)
RetryFinishes ==
  revisions = 0 => report.eligible \/ report.faulty

-----------------------------------------------------------------------------
(* The inductive invariant behind them, in layers.                           *)

Phases == {"idle", "records", "scan", "check", "stage", "fill", "publish", "report"}
Plans  == [new : SUBSET Ids, changed : SUBSET Ids, unchanged : SUBSET Ids, hash : Contents]
Files  == Vectors \cup {None, Torn}
RecordSet  == [id : Ids, text : Texts, lineage : Texts \cup {None}]
BuilderSet == [phase : Phases, plan : Plans, records : SUBSET RecordSet,
               todo : SUBSET RecordSet, chunk : SUBSET Ids, committed : SUBSET Ids,
               faulty : BOOLEAN]

Types ==
  /\ prior \in Priors /\ canonical \in Contents
  /\ planner \in [phase : {"idle", "snapshot"}, entries : Contents, left : SUBSET Ids]
  /\ plan \in Plans /\ snapshot \in Contents /\ torn \in BOOLEAN
  /\ builder \in [Builders -> BuilderSet]
  /\ vectors \in [Ids -> Files] /\ temporary \in [Ids -> Files]
  /\ opened \in [Builders -> {"none", "temporary", "stored", "replaced"}] /\ raced \subseteq Ids
  /\ report \in [eligible : BOOLEAN, records : SUBSET RecordSet, faulty : BOOLEAN]
  /\ revisions \in Nat

(* Where calls may not overlap they do not, and a build works on the plan    *)
(* that is on disk.                                                          *)
TurnsInv ==
  ~Bound.overlap =>
    /\ planner.phase # "idle" => \A b \in Builders : At(b, "idle")
    /\ \A b \in Builders : ~At(b, "idle") => builder[b].plan = plan
    /\ \A b, c \in Builders : ~At(b, "idle") /\ ~At(c, "idle") => b = c

(* A plan gives work only to entries whose hash it has, and the snapshot is  *)
(* of the entries it hashes, but for those still to be written.              *)
PlanInv ==
  /\ \A p \in {plan} \cup {builder[b].plan : b \in Builders} :
       p.new \cup p.changed \cup p.unchanged \subseteq Entries(p.hash)
  /\ planner.phase = "idle" => planner.left = {}
  /\ planner.phase = "snapshot" => planner.entries = plan.hash
  /\ ~torn => \A i \in Entries(plan.hash) \ planner.left : snapshot[i] = plan.hash[i]

(* As long as the candidate is not revised, everything is of its one content. *)
OfCandidate(v, i) == v \notin {None, Torn} => v.text = canonical[i] /\ v.lineage = canonical[i]
FixedInv ==
  revisions = 0 =>
    /\ planner.phase = "snapshot" => planner.entries = canonical
    /\ \A p \in {plan} \cup {builder[b].plan : b \in Builders} :
         \A i \in Entries(p.hash) : p.hash[i] = canonical[i]
    /\ \A i \in Ids : /\ snapshot[i] \in {None, canonical[i]}
                      /\ OfCandidate(vectors[i], i) /\ OfCandidate(temporary[i], i)
    /\ \A b \in Builders : \A r \in builder[b].records :
         r.text = canonical[r.id] /\ r.lineage = canonical[r.id]
    /\ \A r \in report.records : r.text = canonical[r.id]

Writing == {"check", "stage", "fill", "publish"}

(* What a build has counted is on disk, and what it has not it still writes. *)
WorkInvOf(b) ==
  LET counted == builder[b].chunk \cup builder[b].committed IN
  /\ builder[b].phase \in {"idle", "records"} => builder[b].records = {}
  /\ At(b, "scan") => builder[b].chunk = {}
  /\ \A r, s \in builder[b].records : r.id = s.id => r = s
  /\ builder[b].todo \subseteq builder[b].records
  /\ counted \subseteq RecordIds(b)
  /\ \A r \in builder[b].records : r.id \in counted => vectors[r.id] # None
  /\ builder[b].phase \in Writing =>
       /\ \A r \in builder[b].records : r \in builder[b].todo \/ r.id \in counted
       /\ Written(b) => builder[b].chunk = {}
  /\ At(b, "report") /\ ~builder[b].faulty => builder[b].committed = RecordIds(b)
WorkInv == \A b \in Builders : WorkInvOf(b)

(* Calls that overlap are of one candidate.                                  *)
Steady == ~Bound.overlap \/ revisions = 0

(* "strict lineage", from the records on.                                    *)
Agree(v) == v # None => v.lineage = v.text
AgreeInv ==
  Steady /\ ~torn =>
    /\ \A i \in Ids : Agree(vectors[i]) /\ Agree(temporary[i])
    /\ \A b \in Builders : \A r \in builder[b].records : r.lineage = r.text

(* One builder stages an entry, unless it is raced: then it is this          *)
(* builder's vector that it publishes, and no torn one.  Builders race only  *)
(* where calls may overlap.                                                  *)
StagingInvOf(i) ==
  /\ vectors[i] # Torn
  /\ \A b, c \in Builders : Stages(b, i) /\ Stages(c, i) => b = c
  /\ \A b \in Builders : At(b, "fill") /\ Stages(b, i) =>
       opened[b] = "temporary" /\ temporary[i] = Torn
  /\ \A b \in Builders : At(b, "publish") => \A r \in Current(b) :
       r.id = i => temporary[i] = VectorOf(r)
StagingInv ==
  /\ ~Bound.overlap => raced = {}
  /\ \A i \in Ids \ raced : StagingInvOf(i)

(* A build that is alone writes only what was missing; what a build counts   *)
(* is stored as it made it.                                                  *)
Clear(b)  == builder[b].phase \in Writing => \A r \in builder[b].todo : vectors[r.id] = None
Stored(b) == \A r \in builder[b].records :
               r.id \in builder[b].chunk \cup builder[b].committed => StoredAs(r)
StoredInv ==
  Steady =>
    /\ \A b \in Builders : (~Bound.overlap => Clear(b)) /\ Stored(b)
    /\ EligibleIsStored

BuildInv ==
  Types /\ TurnsInv /\ PlanInv /\ FixedInv /\ WorkInv /\ AgreeInv /\ StagingInv
  /\ StoredInv /\ RetryFinishes

(* Revisions only where plans and builds take turns.                         *)
Separate == \A q \in Priors : Bounds[q].overlap => Bounds[q].revisions = 0
=============================================================================
