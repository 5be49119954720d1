---------------------------- MODULE CandidateJoins ----------------------------
(***************************************************************************)
(* The joins that admit one row of a completed run to a release candidate: *)
(* what the record processor, the commit and the report write about a key, *)
(* document by document, and which copies the evaluation compares before   *)
(* it publishes the item.  ReviewPipeline has this check in one word       *)
(* (Joined); here it is taken apart, for the first key of the run whose    *)
(* documents RunDocuments writes.                                          *)
(*                                                                         *)
(* The same identities are written in some twenty places.  A copy holds    *)
(* what the run wrote, or something else after a partial restore or a hand *)
(* edit.  The worst is assumed: two damaged copies of a field agree with   *)
(* each other, and a damaged hash is the hash of whatever was damaged.     *)
(***************************************************************************)
EXTENDS RunDocuments

VARIABLES
  approved,   \* whether a reviewer selected the official side
  damaged,    \* copies that no longer hold what the run wrote
  verdict,    \* of the last evaluation: "none", "excluded" or "eligible"
  item        \* what it published, per field

vars == <<documents, approved, damaged, verdict, item>>

-----------------------------------------------------------------------------
(* What is written. *)

Pins      == {"parser", "transform", "policy"}
Prints    == {"catalog", "run"}                     \* the two fingerprints
SourceRef == {"source", "content", "source_parser"} \* content: its hash of the raw bytes
Evidence  == {"raw", "snapshot_id", "observation_id"}
Content   == {"canonical", "entry_id"}
Paths     == {"canonical_ref", "parsed_ref"}
Official  == {"attempt_id", "run_id", "role", "canonical"} \cup SourceRef \cup Evidence

(* _accepted_outcome, annotated when it is committed.                        *)
RowFields == {"key", "run_id", "attempt_run_id", "attempt_id", "role", "raw_ref", "flags",
              "attempt_count", "review_id"}
               \cup Prints \cup Pins \cup SourceRef \cup Evidence \cup Content \cup Paths

SelectionFields == {"selected_keys", "limit", "selected_count"}
Artifact        == {"run_id", "revision"} \cup Prints \cup Pins

(* The parsed artifact's lineage envelope.                                   *)
LineageFields == {"run_id", "key", "attempt_id", "role", "raw_ref"}
                   \cup Prints \cup Pins \cup SourceRef \cup Evidence \cup Content
                   \cup {"canonical_ref"}
(* A row of the attempt ledger for one physical observation.                 *)
PhysicalFields == {"attempt_id", "run_id", "key", "role", "outcome", "canonical", "raw_ref"}
                    \cup Prints \cup Pins \cup SourceRef \cup Evidence \cup Paths
NestedFields   == {"role"} \cup SourceRef \cup Evidence
(* The row of the logical key; its source attempts are listed by identifier. *)
LogicalFields  == {"key", "run_id", "run", "attempt_id", "attempt_count"} \cup Pins
(* _review_side                                                              *)
SideFields == {"run_id", "key", "role"}
                \cup Prints \cup Pins \cup SourceRef \cup Evidence \cup Content \cup Paths
JoinFields == {"key", "run_id", "role", "attempt_id", "flags"}
                \cup Prints \cup Pins \cup SourceRef \cup Evidence \cup Content \cup Paths
ParsedFields == {"run_id", "key", "canonical_ref", "canonical", "serialization"}
                  \cup Prints \cup Pins
RecordFields == {"role", "immutable"} \cup SourceRef \cup Evidence

Written ==
  [request      |-> {"run_id", "preflight", "preimage"},
   preflight    |-> Prints \cup Pins \cup SelectionFields \cup {"corpus"},
   runPreimage  |-> {"catalog", "limit"} \cup Pins,
   catalogPreimage |-> {"records"},
   report       |-> Artifact \cup {"state", "counts", "selection", "corpus", "completion"},
   checkpoint   |-> Artifact \cup {"selected_keys", "counts"},
   outcomes     |-> Artifact,
   attempts     |-> Artifact \cup {"counts"},
   status       |-> Artifact \cup {"state", "counts", "limit", "completion"},
   row          |-> RowFields,
   rowOfficial  |-> Official,
   reportRow    |-> RowFields,
   reportOfficial |-> Official,
   join         |-> JoinFields,
   joinOfficial |-> Official,
   logical      |-> LogicalFields,
   physical     |-> PhysicalFields,
   nested       |-> NestedFields,
   parsed       |-> ParsedFields,
   lineage      |-> LineageFields,
   entry        |-> {"text", "entry_id", "parser", "transform"} \cup SourceRef,
   canonical    |-> {"bytes"},
   runRaw       |-> {"bytes"},
   snapshot     |-> {"bytes"},
   record       |-> RecordFields,
   review       |-> SideFields]

Documents == DOMAIN Written
(* Accepted rows have a join in the report, rows in conflict a review.       *)
Accepted   == doc.outcomes.rows[1] = "accepted"
Conflict   == doc.outcomes.rows[1] = "quarantined"
Present(d) == CASE d \in {"join", "joinOfficial"} -> Accepted
                [] d = "review" -> Conflict
                [] OTHER -> TRUE
AllCopies  == UNION {{d} \X Written[d] : d \in Documents}
Copies     == {c \in AllCopies : Present(c[1])}

(* Documents found by a reference in the row: a damaged reference leads to a *)
(* document of another key.                                                  *)
FoundBy == [parsed |-> "parsed_ref", lineage |-> "parsed_ref", entry |-> "parsed_ref",
            canonical |-> "canonical_ref", runRaw |-> "raw_ref",
            snapshot |-> "snapshot_id", record |-> "observation_id"]
Astray(d) == d \in DOMAIN FoundBy /\ <<"row", FoundBy[d]>> \in damaged

Val(d, f) ==
  IF f \notin Written[d] THEN "absent"
  ELSE IF <<d, f>> \in damaged \/ Astray(d) THEN "other"
  ELSE "own"

Own(d, fields)      == \A f \in fields : Val(d, f) = "own"
Agree(d, fields, e) == \A f \in fields : Val(d, f) = Val(e, f)
Whole(d)            == Own(d, Written[d])
(* A hash, or a copy of a whole document, fits what it was made of.          *)
Fits(d, f, whole)   == (Val(d, f) = "own") <=> whole

-----------------------------------------------------------------------------
(* _candidate_lineage_context: the run's own documents.                      *)

(* The two fingerprints hash the preimages that lie beside them, the request *)
(* repeats the preflight, and the run's preimage names the pins.             *)
IdentityHolds ==
  /\ Own("request", {"run_id"})
  /\ Fits("request", "preflight", \A d \in {"preflight", "runPreimage", "catalogPreimage"} : Whole(d))
  /\ Fits("preflight", "catalog", Whole("catalogPreimage"))
  /\ Fits("preflight", "run", Whole("runPreimage"))
  /\ Agree("runPreimage", {"catalog"} \cup Pins, "preflight")
  /\ Fits("request", "preimage", Whole("runPreimage"))

(* Of the selection only the limit is compared: the comparisons of its keys, *)
(* count and shortfall with the records are the other arm of a conditional   *)
(* expression and are not evaluated.                                         *)
SelectionHolds == Agree("runPreimage", {"limit"}, "preflight")

(* Every artifact names this run and both fingerprints ...                   *)
RunArtifacts == {"report", "checkpoint", "outcomes", "attempts", "status"}
PrintsHold ==
  \A d \in RunArtifacts : Own(d, {"run_id"}) /\ Agree(d, Prints, "preflight")

(* ... their revisions, states, counts and cursors describe one commit ...   *)
CountsHold ==
  LET done == Len(doc.outcomes.rows) IN
  /\ doc.status.cursor = done /\ doc.report.processed = done /\ doc.checkpoint.processed = done
  /\ doc.checkpoint.terminal = Count(doc.outcomes.rows, Terminal)
  /\ doc.report.terminal = Count(doc.outcomes.rows, Terminal)
  /\ doc.report.pending = Count(doc.outcomes.rows, Pending)
  /\ doc.status.counts = doc.checkpoint.counts

(* The number of logical attempts that the report states is not looked at.   *)
\* Faulty: it is.
AttemptsReported == doc.report.logical = Len(doc.attempts.rows)
AttemptsCounted  == doc.attempts.count = Len(doc.attempts.rows)

LifecycleHolds ==
  /\ CountsHold /\ AttemptsCounted
  /\ \A d \in RunArtifacts :
       doc[d].revision = doc.report.revision /\ Agree(d, {"revision"}, "report")
  /\ doc.report.state \in {"running", "blocked", "completed"}
  /\ doc.status.state = doc.report.state /\ doc.status.completion = doc.report.completion
  /\ Agree("status", {"state", "completion"}, "report")
  /\ Agree("status", {"limit"}, "runPreimage")
  /\ Agree("checkpoint", {"selected_keys"}, "preflight")
  /\ \A d \in {"report", "checkpoint", "attempts", "status"} : Own(d, {"counts"})
  /\ Fits("report", "selection", Own("preflight", SelectionFields))
  /\ Agree("report", {"corpus"}, "preflight")

(* ... and all have the preflight's pins.                                    *)
PinsHold == \A d \in RunArtifacts : Agree(d, Pins, "preflight")

(* Conservation: the rows are those of the selected keys, and there are as   *)
(* many rows in the attempt ledger.                                          *)
Conserved ==
  /\ Val("row", "key") = Val("preflight", "selected_keys")
  /\ Len(doc.outcomes.rows) = N /\ Len(doc.attempts.rows) = N

ContextHolds ==
  IdentityHolds /\ SelectionHolds /\ PrintsHold /\ LifecycleHolds /\ PinsHold /\ Conserved

-----------------------------------------------------------------------------
(* _candidate_item: one row.                                                 *)

(* The report repeats the whole row.                                         *)
HeaderHolds ==
  /\ Own("row", {"run_id", "attempt_run_id", "flags"})
  /\ Agree("row", {"catalog"}, "report")
  /\ Agree("row", {"run"} \cup Pins, "preflight")
  /\ doc.report.rows = doc.outcomes.rows /\ Agree("reportRow", RowFields, "row")
  /\ Agree("reportOfficial", Official, "rowOfficial")

(* A row in conflict needs a reviewer who selected the official side.        *)
ReviewHolds == Accepted \/ (Conflict /\ approved)

SourceHolds == Own("row", {"role"}) /\ Val("row", "source_parser") = Val("preflight", "parser")

(* An accepted row has one join in the report, with an observation of its    *)
(* own.                                                                      *)
JoinHolds ==
  Accepted =>
    /\ Own("join", {"run_id", "role", "flags"})
    /\ Agree("join", Prints, "preflight")
    /\ Agree("join", {"key", "attempt_id"} \cup Pins \cup SourceRef \cup Evidence
                       \cup Content \cup Paths, "row")
    /\ Own("joinOfficial", {"run_id", "role"})
    /\ Agree("joinOfficial", Official \ {"run_id", "role"}, "row")

(* The observation in the row, the logical attempt, and the physical attempt *)
(* with the observation nested in it.                                        *)
OfficialHolds ==
  /\ Own("rowOfficial", {"run_id", "role"})
  /\ Agree("rowOfficial", Official \ {"run_id", "role"}, "row")

LogicalHolds ==
  /\ Own("logical", {"run_id"})
  /\ Agree("logical", {"run"} \cup Pins, "preflight")
  /\ Agree("logical", {"key", "attempt_id", "attempt_count"}, "row")

PhysicalHolds ==
  /\ Own("physical", {"run_id", "role", "outcome"})
  /\ Agree("physical", {"catalog"}, "attempts")
  /\ Agree("physical", {"run"} \cup Pins, "preflight")
  /\ Agree("physical", {"attempt_id", "key", "canonical", "raw_ref"}
                          \cup SourceRef \cup Evidence \cup Paths, "row")
  /\ Own("nested", {"role"})
  /\ Agree("nested", SourceRef \cup Evidence, "row")

(* The parsed artifact, its lineage and its entry.                           *)
ParsedHolds ==
  /\ Own("parsed", {"run_id", "serialization"})
  /\ Agree("parsed", Prints \cup Pins, "preflight")
  /\ Agree("parsed", {"key", "canonical", "canonical_ref"}, "row")

LineageHolds ==
  /\ Own("lineage", {"run_id", "role"})
  /\ Agree("lineage", Prints \cup Pins, "preflight")
  /\ Agree("lineage", {"key", "attempt_id", "raw_ref", "canonical_ref"} \cup SourceRef
                        \cup Evidence \cup Content, "row")

EntryHolds ==
  /\ Fits("row", "canonical", Whole("entry"))
  /\ Agree("entry", SourceRef \cup {"entry_id"}, "row")
  /\ Agree("entry", {"parser", "transform"}, "preflight")

(* The canonical artifact is the entry, byte for byte.                       *)
CanonicalHolds ==
  /\ Fits("row", "canonical", Whole("canonical"))
  /\ Fits("canonical", "bytes", Whole("entry"))

(* The raw bytes, in the snapshot store and in the run.                      *)
RawHolds ==
  /\ Fits("row", "raw", Whole("snapshot"))
  /\ Val("row", "content") = Val("row", "raw")
  /\ Val("entry", "content") = Val("row", "raw")
  /\ Agree("runRaw", {"bytes"}, "snapshot")

(* The stored observation; its identifier hashes its other fields.           *)
ObservationHolds ==
  /\ Val("row", "snapshot_id") = Val("row", "raw")
  /\ Fits("row", "observation_id", Own("row", {"snapshot_id", "raw", "role"} \cup SourceRef))
  /\ Own("record", {"immutable", "role"})
  /\ Agree("record", SourceRef \cup Evidence, "row")

(* Parsing the raw bytes again gives the entry.                              *)
ReparseHolds ==
  /\ Val("entry", "text") = Val("snapshot", "bytes")
  /\ Val("entry", "entry_id") = Val("snapshot", "bytes")
  /\ Agree("entry", SourceRef, "row") /\ Own("entry", {"parser", "transform"})

(* The review still points at the official side that was committed.          *)
SideHolds ==
  Conflict =>
    /\ Own("review", {"run_id", "role"})
    /\ Agree("review", Prints \cup Pins, "preflight")
    /\ Agree("review", SourceRef \cup Evidence \cup Paths \cup {"key", "canonical"}, "row")
    /\ Agree("review", {"entry_id"}, "entry")

(* The run completed, with all rows final.                                   *)
Complete ==
  /\ doc.report.state = "completed" /\ doc.report.completion.complete
  /\ Count(doc.outcomes.rows, Terminal) = N
  /\ Own("report", {"state", "completion"})

\* Faulty: the row and its envelope are checked, and none of its artifacts.
EnvelopeHolds == HeaderHolds /\ ReviewHolds /\ SourceHolds
ItemHolds ==
  /\ HeaderHolds /\ ReviewHolds /\ SourceHolds /\ JoinHolds
  /\ OfficialHolds /\ LogicalHolds /\ PhysicalHolds
  /\ ParsedHolds /\ LineageHolds /\ EntryHolds /\ CanonicalHolds
  /\ RawHolds /\ ObservationHolds /\ ReparseHolds /\ SideHolds

(* _candidate_payload                                                        *)
NoItem == [nothing |-> TRUE]
Payload ==
  [text |-> Val("entry", "text"), entry_id |-> Val("entry", "entry_id"),
   run |-> Val("preflight", "run"), catalog |-> Val("preflight", "catalog"),
   pins |-> {Val("preflight", f) : f \in Pins}, source |-> {Val("row", f) : f \in SourceRef},
   raw |-> Val("row", "raw"), snapshot_id |-> Val("row", "snapshot_id"),
   observation_id |-> Val("row", "observation_id"), attempt_id |-> Val("row", "attempt_id"),
   canonical |-> Val("row", "canonical"), canonical_ref |-> Val("row", "canonical_ref"),
   parsed_ref |-> Val("row", "parsed_ref"), raw_ref |-> Val("row", "raw_ref"),
   review_id |-> Val("row", "review_id")]

-----------------------------------------------------------------------------
(* Steps. *)

(* A reviewer selects the official side, or takes it back.                   *)
Review ==
  /\ doc.outcomes.rows # <<>> /\ Conflict
  /\ approved' = ~approved
  /\ UNCHANGED <<documents, damaged, verdict, item>>

(* Only copies of completed runs: nothing of another run is published.       *)
Damage ==
  /\ Idle /\ doc.status.state = "completed"
  /\ Budget(trouble + Cardinality(damaged) + 1)
  /\ \E c \in Copies \ damaged : damaged' = damaged \cup {c}
  /\ UNCHANGED <<documents, approved, verdict, item>>

(* At any time, beside a half-written commit too.  It needs all five         *)
(* documents.  (ReviewPipeline has its reads one by one.)                    *)
Evaluate ==
  /\ \A d \in RunArtifacts : doc[d].revision # Missing
  /\ IF ContextHolds /\ ItemHolds /\ Complete
     THEN verdict' = "eligible" /\ item' = Payload
     ELSE verdict' = "excluded" /\ item' = NoItem
  /\ UNCHANGED <<documents, approved, damaged>>

Run == DocumentStep /\ UNCHANGED <<approved, damaged, verdict, item>>

Init ==
  /\ DocumentsInit
  /\ approved = FALSE /\ damaged = {} /\ verdict = "none" /\ item = NoItem

Next == Run \/ Review \/ Damage \/ Evaluate

Spec == Init /\ [][Next]_vars
=============================================================================
