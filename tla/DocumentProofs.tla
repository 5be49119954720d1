----------------------------- MODULE DocumentProofs -----------------------------
(***************************************************************************)
(* For any number of keys, cuts, interrupts, resumes and split commits:    *)
(* the documents of a completed run are those of one commit, what the      *)
(* writers leave is what the evaluation asks for, and what it publishes is *)
(* what they wrote, unless more than two copies were damaged.              *)
(***************************************************************************)
EXTENDS MCCandidateJoins, FiniteSetTheorems, TLAPS

Files      == {"outcomes", "attempts", "checkpoint", "report", "status"}
Points     == {"idle", "process", "committed", "markReport", "markStatus"} \cup Files
RowLists   == {rows \in Seq(Terminal \cup Pending) : Len(rows) <= N}

TypesInv ==
  /\ doc = [d \in Files |-> doc[d]]
  /\ doc.outcomes.rows \in RowLists
  /\ doc.attempts.rows \in Seq(Nat)
  /\ job \in [point : Points, rows : RowLists, ledger : Seq(Nat), split : BOOLEAN,
              resumed : BOOLEAN]

(* The documents of a closed run are those of one commit, but for the mark   *)
(* of an interrupt in the report.                                            *)
Agreed ==
  LET rows == doc.outcomes.rows IN
  /\ doc.outcomes = OutcomesOf(rows)
  /\ doc.attempts = AttemptsOf(rows, doc.attempts.rows)
  /\ doc.checkpoint = CheckpointOf(rows)
  /\ doc.report.state # "interrupted" => \E n \in Nat : doc.report = ReportOf(rows, n)
  /\ doc.status = StatusOf(rows)

(* What the commit at hand has replaced when it is about to write a file.    *)
Replaced == [outcomes   |-> {},
             attempts   |-> {"outcomes"},
             checkpoint |-> {"outcomes", "attempts"},
             report     |-> {"outcomes", "attempts", "checkpoint"},
             status     |-> {"outcomes", "attempts", "checkpoint", "report"}]

(* A run is not completed before the last write of its last commit.          *)
ProgressInv ==
  /\ job.point = "process" => Len(job.rows) < N
  /\ job.point \in Files \cup {"process"} => doc.status.state # "completed"
  /\ job.point \in Files => \A d \in Replaced[job.point] : doc[d] = Commit[d]
  /\ job.point \in {"committed", "markReport"} => \A d \in Files : doc[d] = Commit[d]
  /\ job.point = "markStatus" =>
       /\ \A d \in Files \ {"report"} : doc[d] = Commit[d]
       /\ doc.report.state = "interrupted"
  /\ job.point = "idle" /\ doc.status.state = "completed" => Agreed

DocumentsInv == TypesInv /\ ProgressInv

-----------------------------------------------------------------------------
(* A commit describes the rows it was made of.                               *)

LEMMA CommitFields ==
  /\ Commit.outcomes = OutcomesOf(job.rows)
  /\ Commit.attempts = AttemptsOf(job.rows, job.ledger)
  /\ Commit.checkpoint = CheckpointOf(job.rows)
  /\ \E n \in {0, Len(job.ledger)} : Commit.report = ReportOf(job.rows, n)
  /\ Commit.status = StatusOf(job.rows)
  /\ DOMAIN Commit = Files
<1>1. Commit.report = ReportOf(job.rows, IF job.split THEN 0 ELSE Len(job.ledger))
  BY DEF Commit
<1> QED BY <1>1 DEF Commit, Files

LEMMA CommitAgrees ==
  ASSUME TypesInv,
         \A d \in Files \ {"report"} : doc[d] = Commit[d],
         doc.report = Commit.report \/ doc.report.state = "interrupted"
  PROVE  Agreed
<1>1. /\ doc.outcomes = OutcomesOf(job.rows) /\ doc.attempts = AttemptsOf(job.rows, job.ledger)
      /\ doc.checkpoint = CheckpointOf(job.rows) /\ doc.status = StatusOf(job.rows)
  BY CommitFields DEF Files
<1>2. doc.outcomes.rows = job.rows
  BY <1>1 DEF OutcomesOf
<1>3. doc.attempts.rows = job.ledger
  BY <1>1 DEF AttemptsOf
<1>4. {0, Len(job.ledger)} \subseteq Nat
  BY DEF TypesInv
<1>5. doc.report.state # "interrupted" => \E n \in Nat : doc.report = ReportOf(job.rows, n)
  BY <1>4, CommitFields
<1> QED BY <1>1, <1>2, <1>3, <1>5 DEF Agreed

LEMMA StatusStates ==
  ASSUME NEW rows \in RowLists
  PROVE  /\ StatusOf(rows).state = StateOf(rows)
         /\ StateOf(rows) = "completed" => Len(rows) = N /\ Count(rows, Pending) = 0
         /\ Len(rows) < N => StateOf(rows) # "completed"
<1>1. Len(rows) \in Nat /\ Len(rows) <= N /\ N \in Nat
  BY DocumentsAssumption DEF RowLists
<1>2. Count(rows, Pending) \in Nat
  <2>1. DOMAIN rows = 1..Len(rows)
    BY DEF RowLists
  <2>2. IsFiniteSet(1..Len(rows))
    BY <1>1, FS_Interval
  <2>3. {i \in DOMAIN rows : rows[i] \in Pending} \subseteq 1..Len(rows)
    BY <2>1
  <2> QED BY <2>2, <2>3, FS_Subset, FS_CardinalityType DEF Count
<1> QED BY <1>1, <1>2 DEF StatusOf, StateOf

-----------------------------------------------------------------------------
(* The steps of the executor. *)

LEMMA DocumentsBegin == DocumentsInit => DocumentsInv
<1> SUFFICES ASSUME DocumentsInit PROVE DocumentsInv
  OBVIOUS
<1>1. PICK split \in BOOLEAN :
        job = [point |-> "process", rows |-> <<>>, ledger |-> <<>>, split |-> split,
               resumed |-> FALSE]
  BY DEF DocumentsInit
<1>2. doc = [d \in Files |-> IF d = "status" THEN Commit[d]
                            ELSE [Commit[d] EXCEPT !.revision = Missing]]
  BY CommitFields DEF DocumentsInit
<1>3. <<>> \in RowLists /\ Len(<<>>) = 0 /\ 0 < N
  BY DocumentsAssumption DEF RowLists
<1>4. doc.outcomes.rows = <<>> /\ doc.attempts.rows = <<>>
  BY <1>1, <1>2, CommitFields DEF Files, OutcomesOf, AttemptsOf
<1>5. doc.status = StatusOf(<<>>)
  BY <1>1, <1>2, CommitFields DEF Files
<1>6. TypesInv
  <2>1. doc = [d \in Files |-> doc[d]]
    BY <1>2
  <2>2. <<>> \in Seq(Nat)
    OBVIOUS
  <2>3. job \in [point : Points, rows : RowLists, ledger : Seq(Nat), split : BOOLEAN,
                resumed : BOOLEAN]
    BY <1>1, <1>3, <2>2 DEF Points
  <2> QED BY <2>1, <2>2, <2>3, <1>3, <1>4 DEF TypesInv
<1>7. ProgressInv
  BY <1>1, <1>3, <1>5, StatusStates DEF ProgressInv, Files
<1> QED BY <1>6, <1>7 DEF DocumentsInv

LEMMA ProcessKeeps ==
  ASSUME DocumentsInv, Process
  PROVE  DocumentsInv'
<1>1. PICK o \in Outcomes[Len(job.rows) + 1] :
        job' = [job EXCEPT !.point = "outcomes", !.rows = Append(@, o),
                           !.ledger = Append(@, Len(job.rows) + 1)]
  BY DEF Process
<1>2. /\ job.rows \in Seq(Terminal \cup Pending) /\ Len(job.rows) \in Nat
      /\ Len(job.rows) < N /\ N \in Nat
  BY DocumentsAssumption DEF Process, DocumentsInv, TypesInv, ProgressInv, RowLists
<1>3. o \in Terminal \cup Pending
  BY <1>2, DocumentsAssumption
<1>4. Append(job.rows, o) \in RowLists
  BY <1>2, <1>3 DEF RowLists
<1>5. Append(job.ledger, Len(job.rows) + 1) \in Seq(Nat)
  BY <1>2 DEF DocumentsInv, TypesInv
<1>6. job' \in [point : Points, rows : RowLists, ledger : Seq(Nat), split : BOOLEAN,
                resumed : BOOLEAN] /\ job'.point = "outcomes"
  BY <1>1, <1>4, <1>5 DEF DocumentsInv, TypesInv, Points, Files
<1> QED BY <1>6 DEF DocumentsInv, TypesInv, ProgressInv, Process, Replaced, Files

(* A step that moves the executor and keeps its memory.                      *)
LEMMA Moved ==
  ASSUME TypesInv, NEW point \in Points, Goto(point)
  PROVE  /\ job' \in [point : Points, rows : RowLists, ledger : Seq(Nat), split : BOOLEAN,
                      resumed : BOOLEAN]
         /\ job'.point = point /\ job'.rows = job.rows /\ Commit' = Commit
<1>1. /\ job' \in [point : Points, rows : RowLists, ledger : Seq(Nat), split : BOOLEAN,
                   resumed : BOOLEAN]
      /\ job'.point = point /\ job'.rows = job.rows /\ job'.ledger = job.ledger
      /\ job'.split = job.split
  BY DEF Goto, TypesInv
<1> QED BY <1>1 DEF Commit

LEMMA WriteKeeps ==
  ASSUME DocumentsInv, WriteDocument
  PROVE  DocumentsInv'
<1> USE DEF DocumentsInv
<1>1. job.point \in Files
  BY DEF WriteDocument, After, Files
<1>2. /\ doc' = [doc EXCEPT ![job.point] = Commit[job.point]]
      /\ Goto(After[job.point])
  BY DEF WriteDocument, Put
<1>3. After[job.point] \in Points
  BY <1>1 DEF After, Files, Points
<1>4. Commit' = Commit /\ job'.point = After[job.point]
      /\ job' \in [point : Points, rows : RowLists, ledger : Seq(Nat), split : BOOLEAN,
                   resumed : BOOLEAN]
  BY <1>2, <1>3, Moved
<1>5. \A d \in Files : doc'[d] = IF d = job.point THEN Commit[d] ELSE doc[d]
  BY <1>2, <1>1 DEF TypesInv
<1>6. TypesInv'
  <2>1. doc' = [d \in Files |-> doc'[d]]
    BY <1>2 DEF TypesInv
  <2>2. doc'.outcomes.rows \in RowLists
    BY <1>5, CommitFields DEF TypesInv, OutcomesOf, Files
  <2>3. doc'.attempts.rows \in Seq(Nat)
    BY <1>5, CommitFields DEF TypesInv, AttemptsOf, Files
  <2> QED BY <2>1, <2>2, <2>3, <1>4 DEF TypesInv
<1>7. CASE job.point = "status"
  <2>1. job'.point = "committed"
    BY <1>4, <1>7 DEF After
  <2>2. \A d \in Files : doc'[d] = Commit'[d]
    BY <1>4, <1>5, <1>7 DEF ProgressInv, Replaced, Files
  <2> QED BY <2>1, <2>2, <1>6 DEF ProgressInv, Files
<1>8. CASE job.point # "status"
  <2>1. job'.point \in Files /\ doc'.status = doc.status
    BY <1>1, <1>4, <1>5, <1>8 DEF After, Files
  <2>2. \A d \in Replaced[job'.point] : doc'[d] = Commit'[d]
    BY <1>1, <1>4, <1>5, <1>8 DEF ProgressInv, Replaced, Files, After
  <2> QED BY <2>1, <2>2, <1>1, <1>6 DEF ProgressInv, Files
<1> QED BY <1>7, <1>8

LEMMA ContinueKeeps ==
  ASSUME DocumentsInv, Continue
  PROVE  DocumentsInv'
<1> USE DEF DocumentsInv
<1> DEFINE next == IF Len(job.rows) < N THEN "process" ELSE "idle"
<1>1. next \in Points
  BY DEF Points
<1>2. /\ doc' = doc /\ job'.point = next /\ job'.rows = job.rows /\ Commit' = Commit
      /\ TypesInv'
  BY <1>1, Moved DEF Continue, TypesInv
<1>3. \A d \in Files : doc[d] = Commit[d]
  BY DEF Continue, ProgressInv
<1>4. Agreed
  BY <1>3, CommitAgrees DEF Files
<1>5. doc.status.state = StateOf(job.rows) /\ job.rows \in RowLists
  BY <1>3, CommitFields, StatusStates DEF Files, TypesInv
<1>6. next = "process" => doc.status.state # "completed"
  BY <1>5, StatusStates
<1>7. Agreed'
  BY <1>2, <1>4 DEF Agreed
<1>8. next = "process" => Len(job.rows) < N
  OBVIOUS
<1>9. next \in {"process", "idle"}
  OBVIOUS
<1> HIDE DEF next
<1> QED BY <1>2, <1>6, <1>7, <1>8, <1>9 DEF ProgressInv, Files

LEMMA MarkKeeps ==
  ASSUME DocumentsInv, Interrupt \/ MarkReport \/ MarkStatus
  PROVE  DocumentsInv'
<1> USE DEF DocumentsInv
<1>1. CASE Interrupt
  <2>1. doc' = doc /\ job'.point = "markReport" /\ Commit' = Commit /\ TypesInv'
    BY <1>1, Moved DEF Interrupt, TypesInv, Points
  <2> QED BY <1>1, <2>1 DEF Interrupt, ProgressInv, Files
<1>2. CASE MarkReport
  <2>1. /\ doc' = [doc EXCEPT !.report = [doc.report EXCEPT !.state = "interrupted",
                                                          !.completion = Interrupted]]
        /\ job'.point = "markStatus" /\ Commit' = Commit
        /\ job' \in [point : Points, rows : RowLists, ledger : Seq(Nat), split : BOOLEAN,
                     resumed : BOOLEAN]
    BY <1>2, Moved DEF MarkReport, Put, Points
  <2>2. \A d \in Files : doc[d] = Commit[d]
    BY <1>2 DEF MarkReport, ProgressInv
  <2>3. \A d \in Files \ {"report"} : doc'[d] = doc[d]
    BY <2>1 DEF TypesInv
  <2>4. doc'.report.state = "interrupted"
    <3>1. "state" \in DOMAIN doc.report
      BY <2>2, CommitFields DEF Files, ReportOf
    <3>2. doc'.report = [doc.report EXCEPT !.state = "interrupted", !.completion = Interrupted]
      BY <2>1 DEF TypesInv, Files
    <3> QED BY <3>1, <3>2
  <2>5. TypesInv'
    <3>1. doc' = [d \in Files |-> doc'[d]]
      BY <2>1 DEF TypesInv
    <3> QED BY <3>1, <2>1, <2>3 DEF TypesInv, Files
  <2> QED BY <2>1, <2>2, <2>3, <2>4, <2>5 DEF ProgressInv, Files
<1>3. CASE MarkStatus
  <2>1. /\ doc' = [doc EXCEPT !.status = [doc.status EXCEPT !.state = "interrupted",
                                                          !.completion = Interrupted]]
        /\ job'.point = "idle" /\ Commit' = Commit
        /\ job' \in [point : Points, rows : RowLists, ledger : Seq(Nat), split : BOOLEAN,
                     resumed : BOOLEAN]
    BY <1>3, Moved DEF MarkStatus, Put, Points
  <2>2. doc.status = StatusOf(job.rows)
    BY <1>3, CommitFields DEF MarkStatus, ProgressInv, Files
  <2>3. doc'.status.state = "interrupted"
    <3>1. "state" \in DOMAIN doc.status
      BY <2>2 DEF StatusOf
    <3>2. doc'.status = [doc.status EXCEPT !.state = "interrupted", !.completion = Interrupted]
      BY <2>1 DEF TypesInv, Files
    <3> QED BY <3>1, <3>2
  <2>4. TypesInv'
    <3>1. doc' = [d \in Files |-> doc'[d]]
      BY <2>1 DEF TypesInv
    <3>2. \A d \in Files \ {"status"} : doc'[d] = doc[d]
      BY <2>1 DEF TypesInv
    <3> QED BY <3>1, <3>2, <2>1 DEF TypesInv, Files
  <2> QED BY <2>1, <2>3, <2>4 DEF ProgressInv, Files
<1> QED BY <1>1, <1>2, <1>3

LEMMA CutKeeps ==
  ASSUME DocumentsInv, Cut
  PROVE  DocumentsInv'
<1> USE DEF DocumentsInv
<1>1. doc' = doc /\ job'.point = "idle" /\ Commit' = Commit /\ TypesInv'
  BY Moved DEF Cut, TypesInv, Points
<1>2. doc.status.state = "completed" => Agreed
  <2> SUFFICES ASSUME doc.status.state = "completed" PROVE Agreed
    OBVIOUS
  <2>1. job.point \in {"committed", "markReport", "markStatus"}
    BY DEF Cut, Idle, TypesInv, Points, ProgressInv
  <2> QED BY <2>1, CommitAgrees DEF ProgressInv, Files
<1>3. Agreed => Agreed'
  BY <1>1 DEF Agreed
<1> QED BY <1>1, <1>2, <1>3 DEF ProgressInv, Files

LEMMA ResumeKeeps ==
  ASSUME DocumentsInv, Resume
  PROVE  DocumentsInv'
<1> USE DEF DocumentsInv
<1>1. /\ doc' = doc /\ job'.point = "process" /\ job'.rows = doc.outcomes.rows
      /\ job' = [point |-> "process", rows |-> doc.outcomes.rows, ledger |-> doc.attempts.rows,
                 split |-> FALSE, resumed |-> TRUE]
  BY DEF Resume
<1>2. TypesInv'
  BY <1>1 DEF TypesInv, Points
<1> QED BY <1>1, <1>2 DEF Resume, ProgressInv, Files

LEMMA DocumentsStep ==
  ASSUME DocumentsInv, [Next]_vars
  PROVE  DocumentsInv'
<1>1. CASE Run
  BY <1>1, ProcessKeeps, WriteKeeps, ContinueKeeps, MarkKeeps, CutKeeps, ResumeKeeps
     DEF Run, DocumentStep
<1>2. CASE UNCHANGED documents
  BY <1>2 DEF documents, DocumentsInv, TypesInv, ProgressInv, Agreed, Commit
<1>3. Review \/ Damage \/ Evaluate \/ UNCHANGED vars => UNCHANGED documents
  BY DEF Review, Damage, Evaluate, vars
<1> QED BY <1>1, <1>2, <1>3 DEF Next

(* The files of a completed run are those of one commit, and it is over.     *)
THEOREM DocumentsInvHolds == Spec => []DocumentsInv
<1>1. Init => DocumentsInv
  BY DocumentsBegin DEF Init
<1> QED BY <1>1, DocumentsStep, PTL DEF Spec

-----------------------------------------------------------------------------
(* What the writers leave is what the evaluation asks for. *)

(* Where nothing is damaged, a copy holds what the run wrote.                *)
LEMMA Undamaged ==
  ASSUME damaged = {}
  PROVE  /\ \A d \in Documents : \A f \in Written[d] : Val(d, f) = "own"
         /\ \A d \in Documents : Whole(d)
<1>1. \A d \in Documents : \A f \in Written[d] : Val(d, f) = "own"
  BY DEF Val, Astray
<1> QED BY <1>1 DEF Whole, Own

LEMMA OwnCopies ==
  ASSUME damaged = {}, NEW d \in Documents, NEW fields \in SUBSET Written[d]
  PROVE  Own(d, fields)
BY Undamaged DEF Own

LEMMA CopiesAgree ==
  ASSUME damaged = {}, NEW d \in Documents, NEW e \in Documents,
         NEW fields \in SUBSET (Written[d] \cap Written[e])
  PROVE  Agree(d, fields, e)
BY Undamaged DEF Agree

LEMMA HashFits ==
  ASSUME damaged = {}, NEW d \in Documents, NEW f \in Written[d], NEW whole, whole = TRUE
  PROVE  Fits(d, f, whole)
BY Undamaged DEF Fits

(* Wherever its executor is, the documents of a completed run agree.         *)
LEMMA CompletedAgrees ==
  ASSUME DocumentsInv, doc.status.state = "completed"
  PROVE  Agreed
<1>1. CASE job.point = "idle"
  BY <1>1 DEF DocumentsInv, ProgressInv
<1>2. CASE job.point \in {"committed", "markReport", "markStatus"}
  BY <1>2, CommitAgrees DEF DocumentsInv, ProgressInv, Files
<1> QED BY <1>1, <1>2 DEF DocumentsInv, TypesInv, ProgressInv, Points

(* Every comparison of the evaluation is between fields that are written.    *)
LEMMA RunFields ==
  /\ RunArtifacts \subseteq Documents
  /\ \A d \in RunArtifacts : {"run_id", "revision"} \cup Prints \cup Pins \subseteq Written[d]
  /\ Written["preflight"] = Prints \cup Pins \cup SelectionFields \cup {"corpus"}
  /\ Written["runPreimage"] = {"catalog", "limit"} \cup Pins
  /\ Written["request"] = {"run_id", "preflight", "preimage"}
  /\ {"request", "preflight", "runPreimage", "catalogPreimage"} \subseteq Documents
BY DEF RunArtifacts, Documents, Written, Artifact

LEMMA ContextIsWritten ==
  ASSUME damaged = {}
  PROVE  IdentityHolds /\ SelectionHolds /\ PrintsHold /\ PinsHold
<1>1. IdentityHolds
  <2>1. Own("request", {"run_id"})
    BY RunFields, OwnCopies
  <2>2. Whole("preflight") /\ Whole("runPreimage") /\ Whole("catalogPreimage")
    BY RunFields, Undamaged
  <2>3. \A d \in {"preflight", "runPreimage", "catalogPreimage"} : Whole(d)
    BY <2>2
  <2>4. Fits("request", "preflight", \A d \in {"preflight", "runPreimage", "catalogPreimage"} : Whole(d))
    BY <2>3, RunFields, Undamaged DEF Fits
  <2>5. Fits("request", "preimage", Whole("runPreimage"))
    BY <2>2, RunFields, Undamaged DEF Fits
  <2>6. Fits("preflight", "catalog", Whole("catalogPreimage")) /\ Fits("preflight", "run", Whole("runPreimage"))
    BY <2>2, RunFields, Undamaged DEF Fits, Prints
  <2>7. Agree("runPreimage", {"catalog"} \cup Pins, "preflight")
    BY RunFields, CopiesAgree DEF Prints
  <2> QED BY <2>1, <2>4, <2>5, <2>6, <2>7 DEF IdentityHolds
<1>2. SelectionHolds
  BY RunFields, CopiesAgree DEF SelectionHolds, SelectionFields
<1>3. PrintsHold
  <2>1. ASSUME NEW d \in RunArtifacts PROVE Own(d, {"run_id"})
    BY RunFields, OwnCopies
  <2>2. ASSUME NEW d \in RunArtifacts PROVE Agree(d, Prints, "preflight")
    BY RunFields, CopiesAgree
  <2> QED BY <2>1, <2>2 DEF PrintsHold
<1>4. PinsHold
  BY RunFields, CopiesAgree DEF PinsHold
<1> QED BY <1>1, <1>2, <1>3, <1>4

(* The fields of the row's documents.                                        *)
RowDocuments ==
  {"row", "rowOfficial", "reportRow", "reportOfficial", "join", "joinOfficial", "logical",
   "physical", "nested", "parsed", "lineage", "entry", "canonical", "runRaw", "snapshot",
   "record", "review"}

LEMMA ItemFields ==
  /\ RowDocuments \subseteq Documents
  /\ Written["row"] = RowFields /\ Written["reportRow"] = RowFields
  /\ Written["rowOfficial"] = Official /\ Written["reportOfficial"] = Official
  /\ Written["join"] = JoinFields /\ Written["joinOfficial"] = Official
  /\ Written["logical"] = LogicalFields /\ Written["physical"] = PhysicalFields
  /\ Written["nested"] = NestedFields /\ Written["parsed"] = ParsedFields
  /\ Written["lineage"] = LineageFields
  /\ Written["entry"] = {"text", "entry_id", "parser", "transform"} \cup SourceRef
  /\ Written["canonical"] = {"bytes"} /\ Written["runRaw"] = {"bytes"}
  /\ Written["snapshot"] = {"bytes"} /\ Written["record"] = RecordFields
  /\ Written["review"] = SideFields
BY DEF RowDocuments, Documents, Written

LEMMA RowIsWritten ==
  ASSUME damaged = {}
  PROVE  /\ Own("row", {"run_id", "attempt_run_id", "flags"})
         /\ Agree("row", {"catalog"}, "report")
         /\ Agree("row", {"run"} \cup Pins, "preflight")
         /\ Agree("reportRow", RowFields, "row")
         /\ Agree("reportOfficial", Official, "rowOfficial")
         /\ SourceHolds /\ JoinHolds /\ OfficialHolds
<1> USE DEF RowDocuments
<1>1. Own("row", {"run_id", "attempt_run_id", "flags"}) /\ Own("row", {"role"})
  BY ItemFields, OwnCopies DEF RowFields
<1>2. Agree("row", {"catalog"}, "report")
  BY ItemFields, RunFields, CopiesAgree DEF RowFields, Prints, RunArtifacts
<1>3. Agree("row", {"run"} \cup Pins, "preflight")
  BY ItemFields, RunFields, CopiesAgree DEF RowFields, Prints
<1>4. Agree("reportRow", RowFields, "row") /\ Agree("reportOfficial", Official, "rowOfficial")
  BY ItemFields, CopiesAgree
<1>5. SourceHolds
  <2>1. Val("row", "source_parser") = "own"
    BY ItemFields, Undamaged DEF RowFields, SourceRef
  <2>2. Val("preflight", "parser") = "own"
    BY RunFields, Undamaged DEF Pins
  <2> QED BY <1>1, <2>1, <2>2 DEF SourceHolds
<1>6. JoinHolds
  <2>1. Own("join", {"run_id", "role", "flags"}) /\ Own("joinOfficial", {"run_id", "role"})
    BY ItemFields, OwnCopies DEF JoinFields, Official
  <2>2. Agree("join", Prints, "preflight")
    BY ItemFields, RunFields, CopiesAgree DEF JoinFields
  <2>3. Agree("join", {"key", "attempt_id"} \cup Pins \cup SourceRef \cup Evidence
                        \cup Content \cup Paths, "row")
    BY ItemFields, CopiesAgree DEF JoinFields, RowFields
  <2>4. Agree("joinOfficial", Official \ {"run_id", "role"}, "row")
    BY ItemFields, CopiesAgree DEF Official, RowFields, Content
  <2> QED BY <2>1, <2>2, <2>3, <2>4 DEF JoinHolds
<1>7. OfficialHolds
  <2>1. Own("rowOfficial", {"run_id", "role"})
    BY ItemFields, OwnCopies DEF Official
  <2>2. Agree("rowOfficial", Official \ {"run_id", "role"}, "row")
    BY ItemFields, CopiesAgree DEF Official, RowFields, Content
  <2> QED BY <2>1, <2>2 DEF OfficialHolds
<1> QED BY <1>1, <1>2, <1>3, <1>4, <1>5, <1>6, <1>7

LEMMA AttemptsAreWritten ==
  ASSUME damaged = {}
  PROVE  LogicalHolds /\ PhysicalHolds
<1> USE DEF RowDocuments
<1>1. LogicalHolds
  <2>1. Own("logical", {"run_id"})
    BY ItemFields, OwnCopies DEF LogicalFields
  <2>2. Agree("logical", {"run"} \cup Pins, "preflight")
    BY ItemFields, RunFields, CopiesAgree DEF LogicalFields, Prints
  <2>3. Agree("logical", {"key", "attempt_id", "attempt_count"}, "row")
    BY ItemFields, CopiesAgree DEF LogicalFields, RowFields
  <2> QED BY <2>1, <2>2, <2>3 DEF LogicalHolds
<1>2. PhysicalHolds
  <2>1. Own("physical", {"run_id", "role", "outcome"}) /\ Own("nested", {"role"})
    BY ItemFields, OwnCopies DEF PhysicalFields, NestedFields
  <2>2. Agree("physical", {"catalog"}, "attempts")
    BY ItemFields, RunFields, CopiesAgree DEF PhysicalFields, Prints, RunArtifacts
  <2>3. Agree("physical", {"run"} \cup Pins, "preflight")
    BY ItemFields, RunFields, CopiesAgree DEF PhysicalFields, Prints
  <2>4. Agree("physical", {"attempt_id", "key", "canonical", "raw_ref"}
                             \cup SourceRef \cup Evidence \cup Paths, "row")
    BY ItemFields, CopiesAgree DEF PhysicalFields, RowFields, Content
  <2>5. Agree("nested", SourceRef \cup Evidence, "row")
    BY ItemFields, CopiesAgree DEF NestedFields, RowFields
  <2> QED BY <2>1, <2>2, <2>3, <2>4, <2>5 DEF PhysicalHolds
<1> QED BY <1>1, <1>2

LEMMA ArtifactsAreWritten ==
  ASSUME damaged = {}
  PROVE  /\ ParsedHolds /\ LineageHolds /\ EntryHolds /\ CanonicalHolds
         /\ RawHolds /\ ObservationHolds /\ ReparseHolds /\ SideHolds
<1> USE DEF RowDocuments
<1>1. ParsedHolds
  <2>1. Own("parsed", {"run_id", "serialization"})
    BY ItemFields, OwnCopies DEF ParsedFields
  <2>2. Agree("parsed", Prints \cup Pins, "preflight")
    BY ItemFields, RunFields, CopiesAgree DEF ParsedFields
  <2>3. Agree("parsed", {"key", "canonical", "canonical_ref"}, "row")
    BY ItemFields, CopiesAgree DEF ParsedFields, RowFields, Content, Paths
  <2> QED BY <2>1, <2>2, <2>3 DEF ParsedHolds
<1>2. LineageHolds
  <2>1. Own("lineage", {"run_id", "role"})
    BY ItemFields, OwnCopies DEF LineageFields
  <2>2. Agree("lineage", Prints \cup Pins, "preflight")
    BY ItemFields, RunFields, CopiesAgree DEF LineageFields
  <2>3. Agree("lineage", {"key", "attempt_id", "raw_ref", "canonical_ref"} \cup SourceRef
                           \cup Evidence \cup Content, "row")
    BY ItemFields, CopiesAgree DEF LineageFields, RowFields, Paths
  <2> QED BY <2>1, <2>2, <2>3 DEF LineageHolds
<1>3. /\ Whole("entry") /\ Whole("canonical") /\ Whole("snapshot")
      /\ \A f \in RowFields : Val("row", f) = "own"
      /\ \A f \in {"text", "entry_id", "parser", "transform"} \cup SourceRef : Val("entry", f) = "own"
      /\ Val("canonical", "bytes") = "own" /\ Val("snapshot", "bytes") = "own"
  BY ItemFields, Undamaged
<1>4. EntryHolds
  <2>1. Agree("entry", SourceRef \cup {"entry_id"}, "row")
    BY ItemFields, CopiesAgree DEF RowFields, Content
  <2>2. Agree("entry", {"parser", "transform"}, "preflight")
    BY ItemFields, RunFields, CopiesAgree DEF Pins
  <2>3. Fits("row", "canonical", Whole("entry"))
    BY <1>3 DEF Fits, RowFields, Content
  <2> QED BY <2>1, <2>2, <2>3 DEF EntryHolds
<1>5. CanonicalHolds
  BY <1>3 DEF CanonicalHolds, Fits, RowFields, Content
<1>6. RawHolds
  <2>1. Agree("runRaw", {"bytes"}, "snapshot")
    BY ItemFields, CopiesAgree
  <2> QED BY <1>3, <2>1 DEF RawHolds, Fits, RowFields, Evidence, SourceRef
<1>7. ObservationHolds
  <2>1. Own("record", {"immutable", "role"})
    BY ItemFields, OwnCopies DEF RecordFields
  <2>2. Agree("record", SourceRef \cup Evidence, "row")
    BY ItemFields, CopiesAgree DEF RecordFields, RowFields
  <2>3. Own("row", {"snapshot_id", "raw", "role"} \cup SourceRef)
    BY ItemFields, OwnCopies DEF RowFields, Evidence
  <2> QED BY <1>3, <2>1, <2>2, <2>3 DEF ObservationHolds, Fits, RowFields, Evidence
<1>8. ReparseHolds
  <2>1. Agree("entry", SourceRef, "row") /\ Own("entry", {"parser", "transform"})
    BY ItemFields, CopiesAgree, OwnCopies DEF RowFields
  <2> QED BY <1>3, <2>1 DEF ReparseHolds
<1>9. SideHolds
  <2>1. Own("review", {"run_id", "role"})
    BY ItemFields, OwnCopies DEF SideFields
  <2>2. Agree("review", Prints \cup Pins, "preflight")
    BY ItemFields, RunFields, CopiesAgree DEF SideFields
  <2>3. Agree("review", SourceRef \cup Evidence \cup Paths \cup {"key", "canonical"}, "row")
    BY ItemFields, CopiesAgree DEF SideFields, RowFields, Content
  <2>4. Agree("review", {"entry_id"}, "entry")
    BY ItemFields, CopiesAgree DEF SideFields, Content
  <2> QED BY <2>1, <2>2, <2>3, <2>4 DEF SideHolds
<1> QED BY <1>1, <1>2, <1>4, <1>5, <1>6, <1>7, <1>8, <1>9

(* What the counters and states of a completed run come to.                  *)
LEMMA CompletedCounts ==
  ASSUME DocumentsInv, Agreed, doc.status.state = "completed",
         doc.report.state # "interrupted", Len(doc.attempts.rows) = N
  PROVE  /\ CountsHold /\ AttemptsCounted
         /\ \A d \in RunArtifacts : doc[d].revision = doc.report.revision
         /\ doc.report.state = "completed" /\ doc.report.completion.complete
         /\ doc.status.completion = doc.report.completion
         /\ Len(doc.outcomes.rows) = N /\ doc.report.rows = doc.outcomes.rows
         /\ Count(doc.outcomes.rows, Terminal) = N
<1> DEFINE rows == doc.outcomes.rows
<1>1. rows \in RowLists
  BY DEF DocumentsInv, TypesInv
<1>2. PICK n \in Nat : doc.report = ReportOf(rows, n)
  BY DEF Agreed
<1>3. doc.status = StatusOf(rows) /\ doc.checkpoint = CheckpointOf(rows)
      /\ doc.outcomes = OutcomesOf(rows) /\ doc.attempts = AttemptsOf(rows, doc.attempts.rows)
  BY DEF Agreed
<1>4. StateOf(rows) = "completed" /\ Len(rows) = N /\ Count(rows, Pending) = 0
  BY <1>1, <1>3, StatusStates DEF StatusOf
<1>5. Count(rows, Terminal) = N
  <2>1. DOMAIN rows = 1..N /\ \A i \in 1..N : rows[i] \in Terminal \cup Pending
    BY <1>1, <1>4 DEF RowLists
  <2>2. IsFiniteSet(1..N) /\ Cardinality(1..N) = N
    BY DocumentsAssumption, FS_Interval
  <2>3. {i \in DOMAIN rows : rows[i] \in Pending} = {}
    <3> DEFINE open == {i \in DOMAIN rows : rows[i] \in Pending}
    <3>1. IsFiniteSet(open)
      BY <2>1, <2>2, FS_Subset
    <3>2. Cardinality(open) = 0
      BY <1>4 DEF Count
    <3>3. open = {}
      <4> HIDE DEF open
      <4> QED BY <3>1, <3>2, FS_EmptySet
    <3> QED BY <3>3
  <2>4. {i \in DOMAIN rows : rows[i] \in Terminal} = 1..N
    BY <2>1, <2>3
  <2> QED BY <2>2, <2>4 DEF Count
<1> HIDE DEF rows
<1>6. CountsHold
  BY <1>2, <1>3, <1>4 DEF rows, CountsHold, ReportOf, StatusOf, CheckpointOf
<1>7. AttemptsCounted
  BY <1>3 DEF AttemptsCounted, AttemptsOf
<1>8. \A d \in RunArtifacts : doc[d].revision = doc.report.revision
  BY <1>2, <1>3 DEF RunArtifacts, ReportOf, StatusOf, CheckpointOf, OutcomesOf, AttemptsOf
<1>9. doc.report.state = "completed" /\ doc.report.rows = rows
      /\ doc.report.completion = CompletionOf(rows) /\ doc.status.completion = CompletionOf(rows)
  BY <1>2, <1>3, <1>4 DEF ReportOf, StatusOf
<1>10. CompletionOf(rows).complete
  BY <1>4 DEF CompletionOf
<1> QED BY <1>4, <1>5, <1>6, <1>7, <1>8, <1>9, <1>10 DEF rows

LEMMA LifecycleIsWritten ==
  ASSUME DocumentsInv, Agreed, damaged = {}, doc.status.state = "completed",
         doc.report.state # "interrupted", Len(doc.attempts.rows) = N
  PROVE  LifecycleHolds /\ Conserved /\ Complete
<1>1. LifecycleHolds
  <2>1. \A d \in RunArtifacts : Agree(d, {"revision"}, "report")
    BY RunFields, CopiesAgree DEF RunArtifacts
  <2>2. Written["status"] = Artifact \cup {"state", "counts", "limit", "completion"}
        /\ Written["report"] = Artifact \cup {"state", "counts", "selection", "corpus", "completion"}
        /\ Written["checkpoint"] = Artifact \cup {"selected_keys", "counts"}
        /\ Written["attempts"] = Artifact \cup {"counts"}
    BY DEF Written
  <2>3. RunArtifacts \subseteq Documents /\ {"preflight", "runPreimage"} \subseteq Documents
    BY RunFields
  <2>4. Agree("status", {"state", "completion"}, "report")
    BY <2>2, <2>3, CopiesAgree DEF RunArtifacts
  <2>5. Agree("status", {"limit"}, "runPreimage")
    BY <2>2, <2>3, RunFields, CopiesAgree DEF RunArtifacts
  <2>6. Agree("checkpoint", {"selected_keys"}, "preflight")
    BY <2>2, <2>3, RunFields, CopiesAgree DEF RunArtifacts, SelectionFields
  <2>7. \A d \in {"report", "checkpoint", "attempts", "status"} : Own(d, {"counts"})
    BY <2>2, <2>3, OwnCopies DEF RunArtifacts
  <2>8. Own("preflight", SelectionFields)
    BY <2>3, RunFields, OwnCopies
  <2>9. Fits("report", "selection", Own("preflight", SelectionFields))
    BY <2>2, <2>3, <2>8, Undamaged DEF Fits, RunArtifacts
  <2>10. Agree("report", {"corpus"}, "preflight")
    BY <2>2, <2>3, RunFields, CopiesAgree DEF RunArtifacts
  <2> QED BY <2>1, <2>4, <2>5, <2>6, <2>7, <2>9, <2>10, CompletedCounts DEF LifecycleHolds
<1>2. Conserved
  <2>1. Val("row", "key") = "own"
    BY ItemFields, Undamaged DEF RowDocuments, RowFields
  <2>2. Val("preflight", "selected_keys") = "own"
    BY RunFields, Undamaged DEF SelectionFields
  <2> QED BY <2>1, <2>2, CompletedCounts DEF Conserved
<1>3. Complete
  <2>1. {"state", "completion"} \subseteq Written["report"] /\ "report" \in Documents
    BY DEF Written, Documents
  <2> QED BY <2>1, OwnCopies, CompletedCounts DEF Complete
<1> QED BY <1>1, <1>2, <1>3

(* The evaluation of an undamaged, completed run.                            *)
LEMMA EvaluationAccepts ==
  ASSUME DocumentsInv, Agreed, damaged = {}, doc.status.state = "completed",
         doc.report.state # "interrupted", Len(doc.attempts.rows) = N,
         Accepted \/ (Conflict /\ approved)
  PROVE  ContextHolds /\ ItemHolds /\ Complete
<1>1. ContextHolds
  BY ContextIsWritten, LifecycleIsWritten DEF ContextHolds
<1>2. HeaderHolds
  BY RowIsWritten, CompletedCounts DEF HeaderHolds
<1>3. ReviewHolds
  BY DEF ReviewHolds
<1>4. ItemHolds
  BY <1>2, <1>3, RowIsWritten, AttemptsAreWritten, ArtifactsAreWritten DEF ItemHolds
<1> QED BY <1>1, <1>4, LifecycleIsWritten

(* For any number of keys and any troubles: a completed run that lost no     *)
(* attempt row and was not interrupted behind its last commit is never       *)
(* refused for what its writers left (evaluate_candidate).                   *)
THEOREM WrittenRunsAreEligible == Spec => WrittenIsEligible
<1>1. ASSUME DocumentsInv, Next, damaged = {}, doc.status.state = "completed",
             doc.report.state # "interrupted", Len(doc.attempts.rows) = N,
             Accepted \/ (Conflict /\ approved), Evaluate
      PROVE  verdict' = "eligible"
  <2>1. Agreed
    BY <1>1, CompletedAgrees
  <2> QED BY <1>1, <2>1, EvaluationAccepts DEF Evaluate
<1> QED BY <1>1, DocumentsInvHolds, PTL DEF Spec, WrittenIsEligible

-----------------------------------------------------------------------------
(* What is published is what was written. *)

(* Of three damaged copies, two are the same.                                *)
LEMMA TwoCopies ==
  ASSUME IsFiniteSet(damaged), Cardinality(damaged) <= 2,
         NEW a \in damaged, NEW b \in damaged, NEW c \in damaged
  PROVE  a = b \/ b = c \/ a = c
<1> SUFFICES ASSUME a # b, b # c, a # c PROVE FALSE
  OBVIOUS
<1>1. IsFiniteSet({a}) /\ Cardinality({a}) = 1
  BY FS_Singleton
<1>2. IsFiniteSet({a, b}) /\ Cardinality({a, b}) = 2
  <2>1. {a, b} = {a} \cup {b} /\ b \notin {a}
    OBVIOUS
  <2>2. IsFiniteSet({a} \cup {b}) /\ Cardinality({a} \cup {b}) = 1 + 1
    BY <1>1, <2>1, FS_AddElement
  <2> QED BY <2>1, <2>2
<1>3. Cardinality({a, b, c}) = 3
  <2>1. {a, b, c} = {a, b} \cup {c} /\ c \notin {a, b}
    OBVIOUS
  <2>2. Cardinality({a, b} \cup {c}) = 2 + 1
    BY <1>2, <2>1, FS_AddElement
  <2> QED BY <2>1, <2>2
<1>4. Cardinality({a, b, c}) <= Cardinality(damaged)
  BY FS_Subset
<1>5. Cardinality(damaged) \in Nat
  BY FS_CardinalityType
<1> QED BY <1>3, <1>4, <1>5

(* A copy that is not the run's own is damaged, or was found by a damaged    *)
(* reference.                                                                *)
LEMMA NotOwn ==
  ASSUME NEW d \in Documents, NEW f \in Written[d], Val(d, f) # "own"
  PROVE  /\ Val(d, f) = "other"
         /\ <<d, f>> \in damaged \/ (d \in DOMAIN FoundBy /\ <<"row", FoundBy[d]>> \in damaged)
BY DEF Val, Astray

(* The documents that are found by no reference.                             *)
LEMMA FoundDirectly ==
  \A d \in RunArtifacts \cup {"preflight", "row", "reportRow", "rowOfficial", "physical"} :
    d \in Documents /\ d \notin DOMAIN FoundBy
BY RunFields, ItemFields DEF FoundBy, RunArtifacts, RowDocuments

(* A fingerprint or a pin stands in five documents beside the preflight.     *)
LEMMA PreflightOwn ==
  ASSUME IsFiniteSet(damaged), Cardinality(damaged) <= 2, PrintsHold, PinsHold,
         NEW f \in Prints \cup Pins
  PROVE  Val("preflight", f) = "own"
<1> SUFFICES ASSUME Val("preflight", f) # "own" PROVE FALSE
  OBVIOUS
<1>1. \A d \in RunArtifacts : Val(d, f) # "own" /\ f \in Written[d]
  BY RunFields DEF PrintsHold, PinsHold, Agree
<1>2. \A d \in RunArtifacts : <<d, f>> \in damaged
  BY <1>1, NotOwn, FoundDirectly
<1>3. <<"report", f>> \in damaged /\ <<"status", f>> \in damaged /\ <<"outcomes", f>> \in damaged
  BY <1>2 DEF RunArtifacts
<1> QED BY <1>3, TwoCopies

(* A field of the row stands in the report's copy of the row, and in the     *)
(* official observation or the physical attempt.                             *)
LEMMA RowOwn ==
  ASSUME IsFiniteSet(damaged), Cardinality(damaged) <= 2, HeaderHolds, OfficialHolds, PhysicalHolds,
         NEW f \in SourceRef \cup Evidence \cup Paths \cup {"attempt_id", "canonical", "raw_ref"}
  PROVE  Val("row", f) = "own"
<1> SUFFICES ASSUME Val("row", f) # "own" PROVE FALSE
  OBVIOUS
<1>1. f \in RowFields
  BY DEF RowFields, Content
<1>2. Val("reportRow", f) # "own"
  BY <1>1 DEF HeaderHolds, Agree
<1>3. <<"row", f>> \in damaged /\ <<"reportRow", f>> \in damaged
  BY <1>1, <1>2, NotOwn, FoundDirectly, ItemFields
<1>4. CASE f \in SourceRef \cup Evidence \cup {"attempt_id", "canonical"}
  <2>1. f \in Official /\ f \notin {"run_id", "role"}
    BY <1>4 DEF Official, SourceRef, Evidence
  <2>2. Val("rowOfficial", f) # "own"
    BY <2>1 DEF OfficialHolds, Agree
  <2>3. <<"rowOfficial", f>> \in damaged
    BY <2>1, <2>2, NotOwn, FoundDirectly, ItemFields
  <2> QED BY <1>3, <2>3, TwoCopies
<1>5. CASE f \in Paths \cup {"raw_ref"}
  <2>1. f \in PhysicalFields
    BY <1>5 DEF PhysicalFields
  <2>2. Val("physical", f) # "own"
    BY <1>5 DEF PhysicalHolds, Agree
  <2>3. <<"physical", f>> \in damaged
    BY <2>1, <2>2, NotOwn, FoundDirectly, ItemFields
  <2> QED BY <1>3, <2>3, TwoCopies
<1> QED BY <1>4, <1>5

(* The entry and the canonical artifact have one hash, and two references.   *)
LEMMA EntryOwn ==
  ASSUME IsFiniteSet(damaged), Cardinality(damaged) <= 2, HeaderHolds, OfficialHolds, PhysicalHolds,
         EntryHolds
  PROVE  Val("entry", "text") = "own" /\ Val("entry", "entry_id") = "own"
<1>1. Val("row", "canonical") = "own"
  BY RowOwn
<1>2. Whole("entry")
  BY <1>1 DEF EntryHolds, Fits
<1> QED BY <1>2 DEF Whole, Own, Written

(* What an evaluation publishes, if at most two copies are damaged.          *)
OwnItem ==
  /\ \A f \in DOMAIN item \ {"pins", "source", "review_id"} : item[f] = "own"
  /\ item.pins = {"own"} /\ item.source = {"own"}

LEMMA PayloadOwn ==
  ASSUME IsFiniteSet(damaged), Cardinality(damaged) <= 2, ContextHolds, ItemHolds, item' = Payload
  PROVE  OwnItem'
<1>1. \A f \in Prints \cup Pins : Val("preflight", f) = "own"
  BY PreflightOwn DEF ContextHolds
<1>2. \A f \in SourceRef \cup Evidence \cup Paths \cup {"attempt_id", "canonical", "raw_ref"} :
        Val("row", f) = "own"
  BY RowOwn DEF ItemHolds
<1>3. Val("entry", "text") = "own" /\ Val("entry", "entry_id") = "own"
  BY EntryOwn DEF ItemHolds
<1>4. {Val("preflight", f) : f \in Pins} = {"own"}
  BY <1>1 DEF Pins
<1>5. {Val("row", f) : f \in SourceRef} = {"own"}
  BY <1>2 DEF SourceRef
<1>6. Payload =
        [text |-> "own", entry_id |-> "own", run |-> "own", catalog |-> "own",
         pins |-> {"own"}, source |-> {"own"}, raw |-> "own", snapshot_id |-> "own",
         observation_id |-> "own", attempt_id |-> "own", canonical |-> "own",
         canonical_ref |-> "own", parsed_ref |-> "own", raw_ref |-> "own",
         review_id |-> Val("row", "review_id")]
  <2>1. Val("preflight", "run") = "own" /\ Val("preflight", "catalog") = "own"
    BY <1>1 DEF Prints
  <2>2. \A f \in {"raw", "snapshot_id", "observation_id", "attempt_id", "canonical",
                  "canonical_ref", "parsed_ref", "raw_ref"} : Val("row", f) = "own"
    BY <1>2 DEF Evidence, Paths
  <2> QED BY <1>3, <1>4, <1>5, <2>1, <2>2 DEF Payload
<1> QED BY <1>6 DEF OwnItem

(* What was published stays true: the documents of a run that was evaluated  *)
(* as complete are written no more, but for the mark of an interrupt.        *)
PublishedInv ==
  /\ IsFiniteSet(damaged)
  /\ verdict = "eligible" =>
       /\ Cardinality(damaged) <= 2 => OwnItem
       /\ \A d \in RunArtifacts : doc[d].revision = N + 1
       /\ job.point \in {"committed", "markReport", "markStatus", "idle"}
       /\ Len(doc.outcomes.rows) = N
       /\ job.point = "committed" => Len(job.rows) = N

LEMMA EvaluateKeeps == ASSUME DocumentsInv, PublishedInv, Evaluate PROVE PublishedInv'
<1>1. UNCHANGED <<doc, job, damaged>>
  BY DEF Evaluate, documents
<1> SUFFICES ASSUME verdict' = "eligible"
             PROVE  /\ Cardinality(damaged) <= 2 => OwnItem'
                    /\ \A d \in RunArtifacts : doc[d].revision = N + 1
                    /\ job.point \in {"committed", "markReport", "markStatus", "idle"}
                    /\ Len(doc.outcomes.rows) = N
                    /\ job.point = "committed" => Len(job.rows) = N
  BY <1>1 DEF PublishedInv
<1>2. ContextHolds /\ ItemHolds /\ Complete /\ item' = Payload
  BY DEF Evaluate
<1>3. Cardinality(damaged) <= 2 => OwnItem'
  BY <1>2, PayloadOwn DEF PublishedInv
<1>4. doc.status.state = "completed" /\ Len(doc.outcomes.rows) = N
      /\ \A d \in RunArtifacts : doc[d].revision = doc.report.revision
  BY <1>2 DEF Complete, ContextHolds, LifecycleHolds, Conserved
<1>5. doc.outcomes = OutcomesOf(doc.outcomes.rows)
  BY <1>4, CompletedAgrees DEF Agreed
<1>6. doc.outcomes.revision = N + 1
  BY <1>4, <1>5 DEF OutcomesOf, Revision
<1>7. \A d \in RunArtifacts : doc[d].revision = N + 1
  BY <1>4, <1>6 DEF RunArtifacts
<1>8. job.point \in {"committed", "markReport", "markStatus", "idle"}
  BY <1>4 DEF DocumentsInv, TypesInv, ProgressInv, Points
<1>9. job.point = "committed" => Len(job.rows) = N
  <2> SUFFICES ASSUME job.point = "committed" PROVE Len(job.rows) = N
    OBVIOUS
  <2>1. doc.outcomes = Commit.outcomes
    BY DEF DocumentsInv, ProgressInv, Files
  <2>2. doc.outcomes.rows = job.rows
    BY <2>1, CommitFields DEF OutcomesOf
  <2> QED BY <1>4, <2>2
<1> QED BY <1>3, <1>4, <1>7, <1>8, <1>9

LEMMA RunKeepsPublished == ASSUME DocumentsInv, PublishedInv, Run PROVE PublishedInv'
<1>1. UNCHANGED <<damaged, verdict, item>> /\ DocumentStep
  BY DEF Run
<1> SUFFICES ASSUME verdict = "eligible"
             PROVE  /\ \A d \in RunArtifacts : doc'[d].revision = N + 1
                    /\ job'.point \in {"committed", "markReport", "markStatus", "idle"}
                    /\ Len(doc'.outcomes.rows) = N
                    /\ job'.point = "committed" => Len(job'.rows) = N
  BY <1>1 DEF PublishedInv, OwnItem
<1>2. /\ \A d \in RunArtifacts : doc[d].revision = N + 1
      /\ job.point \in {"committed", "markReport", "markStatus", "idle"}
      /\ Len(doc.outcomes.rows) = N
      /\ job.point = "committed" => Len(job.rows) = N
  BY DEF PublishedInv
<1>3. ~Process /\ ~WriteDocument /\ ~Resume
  <2>1. ~Process
    BY <1>2 DEF Process
  <2>2. ~WriteDocument
    BY <1>2 DEF WriteDocument, After
  <2>3. ~Resume
    BY <1>2, DocumentsAssumption DEF Resume
  <2> QED BY <2>1, <2>2, <2>3
<1>4. CASE Continue \/ Interrupt \/ Cut
  <2>1. UNCHANGED doc /\ \E p \in {"markReport", "idle"} : Goto(p)
    BY <1>2, <1>4, DocumentsAssumption DEF Continue, Interrupt, Cut
  <2>2. job'.point \in {"markReport", "idle"}
    BY <2>1 DEF Goto, DocumentsInv, TypesInv
  <2> QED BY <1>2, <2>1, <2>2
<1>5. ASSUME NEW d \in {"report", "status"}, NEW p \in {"markStatus", "idle"}, Goto(p),
             Put(d, [doc[d] EXCEPT !.state = "interrupted", !.completion = Interrupted])
      PROVE  /\ \A e \in RunArtifacts : doc'[e].revision = N + 1
             /\ job'.point = p /\ doc'.outcomes = doc.outcomes
  <2>1. job'.point = p
    BY <1>5 DEF Goto, DocumentsInv, TypesInv
  <2>2. /\ \A e \in Files \ {d} : doc'[e] = doc[e]
        /\ doc'[d] = [doc[d] EXCEPT !.state = "interrupted", !.completion = Interrupted]
    BY <1>5 DEF Put, DocumentsInv, TypesInv, Files
  <2>3. doc'[d].revision = doc[d].revision
    BY <2>2
  <2> QED BY <1>2, <2>1, <2>2, <2>3 DEF Files, RunArtifacts
<1>6. CASE MarkReport
  BY <1>2, <1>5, <1>6 DEF MarkReport
<1>7. CASE MarkStatus
  BY <1>2, <1>5, <1>7 DEF MarkStatus
<1> QED BY <1>1, <1>3, <1>4, <1>6, <1>7 DEF DocumentStep

LEMMA PublishedStep == ASSUME DocumentsInv, PublishedInv, [Next]_vars PROVE PublishedInv'
<1>1. CASE Evaluate
  BY <1>1, EvaluateKeeps
<1>2. CASE Run
  BY <1>2, RunKeepsPublished
<1>3. CASE Review \/ UNCHANGED vars
  <2>1. UNCHANGED <<doc, job, damaged, verdict, item>>
    BY <1>3 DEF Review, vars, documents
  <2> QED BY <2>1 DEF PublishedInv, OwnItem
<1>4. CASE Damage
  <2>1. UNCHANGED <<doc, job, verdict, item>>
    BY <1>4 DEF Damage, documents
  <2>2. PICK c \in Copies \ damaged : damaged' = damaged \cup {c}
    BY <1>4 DEF Damage
  <2>3. /\ IsFiniteSet(damaged') /\ Cardinality(damaged') = Cardinality(damaged) + 1
        /\ Cardinality(damaged) \in Nat
    BY <2>2, FS_AddElement, FS_CardinalityType DEF PublishedInv
  <2> QED BY <2>1, <2>3 DEF PublishedInv, OwnItem
<1> QED BY <1>1, <1>2, <1>3, <1>4 DEF Next

(* For any number of keys and any cuts, resumes, interrupts and split        *)
(* commits: as long as at most two copies are damaged, whichever they are,   *)
(* what an evaluation has published is what the run wrote, of its last       *)
(* commit, in every field but the review's identifier.                       *)
THEOREM TwoDamagesForgeNothing == Spec => [](Cardinality(damaged) <= 2 => PublishedAsWritten)
<1>1. Init => PublishedInv
  BY FS_EmptySet DEF Init, PublishedInv
<1>2. PublishedInv => (Cardinality(damaged) <= 2 => PublishedAsWritten)
  BY DEF PublishedInv, PublishedAsWritten, OwnItem
<1> QED BY <1>1, <1>2, PublishedStep, DocumentsInvHolds, PTL DEF Spec
=============================================================================
