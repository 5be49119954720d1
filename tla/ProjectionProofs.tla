--------------------------- MODULE ProjectionProofs ---------------------------
(***************************************************************************)
(* Proofs about the projection store, for any number of workers,           *)
(* identities and contents: the layers of StoreInv are inductive one after *)
(* the other, with one case per action in each step lemma.                 *)
(***************************************************************************)
EXTENDS ProjectionProperties, TLAPS

-----------------------------------------------------------------------------
(* Lemmas about documents and about the steps calls are made of. *)

(* What stands for a missing file, and what a call may answer. *)
LEMMA Documents ==
  /\ NoManifest \in Manifests /\ NothingRead \in Found /\ NoAnswer \in Answers
  /\ NoFile \in Files /\ NoJob \in Jobs
  /\ \A c \in Contents, n \in Nat \ {0} : [hash |-> c, clock |-> n] \in Manifests \ {NoManifest}
  /\ \A m \in Manifests : m.hash \in Files
  /\ \A m \in Manifests \ {NoManifest} : m.hash \in Contents
BY ProjectionAssumption
   DEF Manifests, NoManifest, NothingRead, Found, NoAnswer, Answers, Files, Jobs

(* The identity of a call in progress. *)
LEMMA Identity ==
  ASSUME Types, CallInv, NEW w \in Workers, pc[w] # "idle"
  PROVE  Id(w) \in Identities /\ job[w] \in GenerateJobs \cup ReadJobs \cup CleanJobs
<1>1. job[w] \in GenerateJobs \cup ReadJobs \cup CleanJobs
  BY DEF Types, WorkersTypeOK, Points, CallInv, CallInvOf
<1> QED BY <1>1 DEF Id, GenerateJobs, ReadJobs, CleanJobs

(* Answers have their type. *)
LEMMA AnswerType ==
  ASSUME NEW w \in Workers, job[w] \in GenerateJobs \cup ReadJobs \cup CleanJobs,
         NEW outcome \in {"done", "conflict", "failed", "validated", "notFound",
                          "mismatch", "pending", "unavailable"},
         NEW file \in Files, NEW man \in Manifests
  PROVE  /\ Answer(w, outcome, file, man) \in Answers
         /\ Refusal(w, outcome) \in Answers
<1>1. job[w].id \in Identities
  BY DEF GenerateJobs, ReadJobs, CleanJobs
<1>2. job[w].kind \in {"generate", "read", "status", "list", "cleanup"}
  BY DEF GenerateJobs, ReadJobs, CleanJobs
<1> QED BY <1>1, <1>2, Documents DEF Answer, Refusal, Answers, Files, Id

(* How a call begins, goes on and ends. *)
LEMMA BeginTypes ==
  ASSUME Types, NEW w \in Workers, NEW request \in Jobs, NEW point \in Points,
         Begin(w, request, point)
  PROVE  Types'
<1>1. WorkersTypeOK'
  BY Documents DEF Begin, Goto, Types, WorkersTypeOK
<1>2. GhostsTypeOK'
  <2>1. calls + 1 \in 0..MaxCalls
    BY ProjectionAssumption DEF Begin, Types, GhostsTypeOK
  <2> QED BY <2>1 DEF Begin, Types, GhostsTypeOK, overwrites
<1>3. FilesTypeOK'
  BY DEF Begin, published, staging, Types, FilesTypeOK
<1> QED BY <1>1, <1>2, <1>3 DEF Types

LEMMA OnwardTypes ==
  ASSUME Types, NEW w \in Workers, NEW point \in Points, Onward(w, point)
  PROVE  WorkersTypeOK'
BY DEF Onward, Goto, Types, WorkersTypeOK

LEMMA LearnTypes ==
  ASSUME Types, NEW w \in Workers, NEW what \in Found, NEW point \in Points,
         Learn(w, what, point)
  PROVE  WorkersTypeOK'
BY DEF Learn, Goto, Types, WorkersTypeOK

LEMMA UnwindTypes ==
  ASSUME Types, CallInv, NEW w \in Workers, pc[w] # "idle", Unwind(w)
  PROVE  WorkersTypeOK'
<1>1. Refusal(w, "failed") \in Answers
  BY Identity, AnswerType, Documents
<1> QED BY <1>1 DEF Unwind, Goto, Types, WorkersTypeOK, Points, PublishPoints

LEMMA ReturnTypes ==
  ASSUME Types, NEW w \in Workers, NEW result \in Answers, Return(w, result)
  PROVE  WorkersTypeOK'
BY Documents DEF Return, Goto, Types, WorkersTypeOK, Points

(* Others are as they were when a call ends. *)
LEMMA ReturnCall ==
  ASSUME Types, CallInv, NEW w \in Workers, NEW result, Return(w, result)
  PROVE  /\ CallInv'
         /\ pc'[w] = "idle" /\ answer'[w] = result
         /\ \A u \in Workers \ {w} :
              /\ pc'[u] = pc[u] /\ job'[u] = job[u] /\ found'[u] = found[u]
              /\ answer'[u] = answer[u]
<1>1. pc'[w] = "idle" /\ answer'[w] = result
  BY DEF Types, WorkersTypeOK, Return, Goto
<1>2. ASSUME NEW u \in Workers \ {w}
      PROVE  /\ pc'[u] = pc[u] /\ job'[u] = job[u] /\ found'[u] = found[u]
             /\ answer'[u] = answer[u]
  BY DEF Types, WorkersTypeOK, Return, Goto
<1>3. CallInvOf(w)'
  BY <1>1 DEF CallInvOf, PublishPoints, StagingPoints, ReadPoints, CleanPoints
<1>4. ASSUME NEW u \in Workers \ {w} PROVE CallInvOf(u)'
  <2>1. pc[u] \in PublishPoints => Id(u) \in Identities
    BY DEF CallInv, CallInvOf, GenerateJobs, Id
  <2>2. \A i \in Identities : lock[i] = u => lock'[i] = u
    BY DEF Return, Types, WorkersTypeOK
  <2> QED BY <1>2, <2>1, <2>2 DEF CallInv, CallInvOf, Id
<1> QED BY <1>1, <1>2, <1>3, <1>4 DEF CallInv

(* Every step keeps the types. *)
LEMMA TypeStep == Types /\ CallInv /\ [Next]_vars => Types'
<1> SUFFICES ASSUME Types, CallInv, [Next]_vars PROVE Types'
  OBVIOUS
<1>1. CASE UNCHANGED vars
  BY <1>1 DEF vars, published, staging, overwrites, Types, FilesTypeOK, WorkersTypeOK, GhostsTypeOK
<1>2. ASSUME NEW w \in Workers, Call(w) \/ Step(w) \/ Except(w) \/ Crash(w)
      PROVE  Types'
  <2>1. CASE Generate(w)
    <3>1. PICK i \in Identities, c \in Contents :
            Begin(w, [kind |-> "generate", id |-> i,
                      manifest |-> [hash |-> c, clock |-> calls + 1]], "lock")
      BY <2>1 DEF Generate
    <3>2. [hash |-> c, clock |-> calls + 1] \in Manifests \ {NoManifest}
      <4>1. calls + 1 \in Nat \ {0}
        BY ProjectionAssumption DEF Types, GhostsTypeOK
      <4> QED BY <4>1, Documents
    <3>3. [kind |-> "generate", id |-> i, manifest |-> [hash |-> c, clock |-> calls + 1]] \in Jobs
      BY <3>2 DEF Jobs, GenerateJobs
    <3> QED BY <3>1, <3>3, BeginTypes DEF Points
  <2>2. CASE Cleanup(w)
    <3>1. PICK i \in Identities, left \in SUBSET Identities :
            Begin(w, [kind |-> "cleanup", id |-> i, left |-> left \cap staged,
                      files |-> {}], "clean")
      BY <2>2 DEF Cleanup
    <3>2. [kind |-> "cleanup", id |-> i, left |-> left \cap staged, files |-> {}] \in Jobs
      BY DEF Jobs, CleanJobs
    <3> QED BY <3>1, <3>2, BeginTypes DEF Points, CleanPoints
  <2>3. CASE \E kind \in {"read", "status", "list"} : Read(w, kind)
    <3>1. PICK kind \in {"read", "status", "list"} : Read(w, kind)
      BY <2>3
    <3>2. PICK i \in Identities :
            Begin(w, [kind |-> kind, id |-> i],
                  CASE kind = "read" -> "readData" [] kind = "status" -> "lookFirst"
                    [] kind = "list" -> "readManifest")
      BY <3>1 DEF Read
    <3>3. [kind |-> kind, id |-> i] \in Jobs
      BY DEF Jobs, ReadJobs
    <3> QED BY <3>2, <3>3, BeginTypes DEF Points, ReadPoints
  <2>4. CASE AcquireLock(w)
    <3>1. pc[w] # "idle"
      BY <2>4 DEF AcquireLock, At
    <3>a. Id(w) \in Identities /\ job[w] \in GenerateJobs \cup ReadJobs \cup CleanJobs
      BY <3>1, Identity
    <3>2. WorkersTypeOK'
      BY <2>4, <3>a DEF AcquireLock, Goto, Types, WorkersTypeOK, Points, PublishPoints,
         StagingPoints, ReadPoints, CleanPoints
    <3>3. FilesTypeOK'
      BY <2>4 DEF AcquireLock, published, staging, Types, FilesTypeOK
    <3>4. GhostsTypeOK'
      BY <2>4 DEF AcquireLock, Types, GhostsTypeOK, overwrites
    <3> QED BY <3>2, <3>3, <3>4 DEF Types
  <2>5. CASE Look(w)
    <3>1. pc[w] # "idle"
      BY <2>5 DEF Look, At
    <3>a. Id(w) \in Identities /\ job[w] \in GenerateJobs \cup ReadJobs \cup CleanJobs
      BY <3>1, Identity
    <3>2. WorkersTypeOK'
      <4>1. manifest[Id(w)] \in Manifests
        BY <3>a DEF Types, FilesTypeOK
      <4>2. CASE Published(Id(w))
        BY <2>5, <3>a, <4>1, <4>2, ReturnTypes, AnswerType, Documents DEF Look
      <4>3. CASE ~Published(Id(w))
        BY <2>5, <4>3 DEF Look, Goto, Types, WorkersTypeOK, Points, PublishPoints, StagingPoints,
           ReadPoints, CleanPoints
      <4> QED BY <4>2, <4>3
    <3>3. FilesTypeOK'
      BY <2>5 DEF Look, published, staging, Types, FilesTypeOK
    <3>4. GhostsTypeOK'
      BY <2>5 DEF Look, Types, GhostsTypeOK, overwrites
    <3> QED BY <3>2, <3>3, <3>4 DEF Types
  <2>6. CASE MakeStaging(w)
    <3>1. pc[w] # "idle"
      BY <2>6 DEF MakeStaging, At
    <3>a. Id(w) \in Identities /\ job[w] \in GenerateJobs \cup ReadJobs \cup CleanJobs
      BY <3>1, Identity
    <3>2. WorkersTypeOK'
      <4>1. CASE Return(w, Refusal(w, "failed"))
        BY <3>a, <4>1, ReturnTypes, AnswerType, Documents
      <4>2. CASE \E point \in Points : Onward(w, point)
        BY <4>2, OnwardTypes
      <4> QED BY <2>6, <4>1, <4>2 DEF MakeStaging, Onward, Points, PublishPoints, StagingPoints,
         ReadPoints, CleanPoints
    <3>3. FilesTypeOK'
      BY <2>6, <3>a, Documents DEF MakeStaging, published, staging, Types, FilesTypeOK
    <3>4. GhostsTypeOK'
      BY <2>6 DEF MakeStaging, Types, GhostsTypeOK, overwrites
    <3> QED BY <3>2, <3>3, <3>4 DEF Types
  <2>7. CASE StageArtifact(w)
    <3>1. pc[w] # "idle"
      BY <2>7 DEF StageArtifact, At
    <3>a. Id(w) \in Identities /\ job[w] \in GenerateJobs \cup ReadJobs \cup CleanJobs
      BY <3>1, Identity
    <3>b. job[w].manifest \in Manifests \ {NoManifest} /\ job[w].manifest.hash \in Contents
      BY <2>7, Documents DEF StageArtifact, At, CallInv, CallInvOf, GenerateJobs, PublishPoints,
         StagingPoints
    <3>2. WorkersTypeOK'
      BY <2>7, <3>1, <3>a, ReturnTypes, OnwardTypes, UnwindTypes, LearnTypes, AnswerType,
         Documents DEF StageArtifact, Points, PublishPoints, StagingPoints, ReadPoints,
         CleanPoints
    <3>3. FilesTypeOK'
      BY <2>7, <3>a, <3>b, Documents DEF StageArtifact, published, Types, FilesTypeOK, Files
    <3>4. GhostsTypeOK'
      BY <2>7 DEF StageArtifact, Types, GhostsTypeOK, overwrites
    <3> QED BY <3>2, <3>3, <3>4 DEF Types
  <2>8. CASE CheckArtifact(w)
    <3>1. pc[w] # "idle"
      BY <2>8 DEF CheckArtifact, At
    <3>a. Id(w) \in Identities /\ job[w] \in GenerateJobs \cup ReadJobs \cup CleanJobs
      BY <3>1, Identity
    <3>2. WorkersTypeOK'
      BY <2>8, <3>1, <3>a, ReturnTypes, OnwardTypes, UnwindTypes, LearnTypes, AnswerType,
         Documents DEF CheckArtifact, Points, PublishPoints, StagingPoints, ReadPoints,
         CleanPoints
    <3>3. FilesTypeOK'
      BY <2>8 DEF CheckArtifact, published, staging, Types, FilesTypeOK
    <3>4. GhostsTypeOK'
      BY <2>8 DEF CheckArtifact, Types, GhostsTypeOK, overwrites
    <3> QED BY <3>2, <3>3, <3>4 DEF Types
  <2>9. CASE StageManifest(w)
    <3>1. pc[w] # "idle"
      BY <2>9 DEF StageManifest, At
    <3>a. Id(w) \in Identities /\ job[w] \in GenerateJobs \cup ReadJobs \cup CleanJobs
      BY <3>1, Identity
    <3>b. job[w].manifest \in Manifests \ {NoManifest} /\ job[w].manifest.hash \in Contents
      BY <2>9, Documents DEF StageManifest, At, CallInv, CallInvOf, GenerateJobs, PublishPoints,
         StagingPoints
    <3>2. WorkersTypeOK'
      BY <2>9, <3>1, <3>a, ReturnTypes, OnwardTypes, UnwindTypes, LearnTypes, AnswerType,
         Documents DEF StageManifest, Points, PublishPoints, StagingPoints, ReadPoints,
         CleanPoints
    <3>3. FilesTypeOK'
      BY <2>9, <3>a, <3>b DEF StageManifest, published, Types, FilesTypeOK
    <3>4. GhostsTypeOK'
      BY <2>9 DEF StageManifest, Types, GhostsTypeOK, overwrites
    <3> QED BY <3>2, <3>3, <3>4 DEF Types
  <2>10. CASE PublishArtifact(w)
    <3>1. pc[w] # "idle"
      BY <2>10 DEF PublishArtifact, At
    <3>a. Id(w) \in Identities /\ job[w] \in GenerateJobs \cup ReadJobs \cup CleanJobs
      BY <3>1, Identity
    <3>2. WorkersTypeOK'
      BY <2>10, <3>1, <3>a, ReturnTypes, OnwardTypes, UnwindTypes, LearnTypes, AnswerType,
         Documents DEF PublishArtifact, Points, PublishPoints, StagingPoints, ReadPoints,
         CleanPoints
    <3>3. FilesTypeOK'
      BY <2>10, <3>a, Documents DEF PublishArtifact, published, staging, Types, FilesTypeOK
    <3>4. GhostsTypeOK'
      BY <2>10 DEF PublishArtifact, Types, GhostsTypeOK, overwrites
    <3> QED BY <3>2, <3>3, <3>4 DEF Types
  <2>11. CASE PublishManifest(w)
    <3>1. pc[w] # "idle"
      BY <2>11 DEF PublishManifest, At
    <3>a. Id(w) \in Identities /\ job[w] \in GenerateJobs \cup ReadJobs \cup CleanJobs
      BY <3>1, Identity
    <3>2. WorkersTypeOK'
      BY <2>11, <3>1, <3>a, ReturnTypes, OnwardTypes, UnwindTypes, LearnTypes, AnswerType,
         Documents DEF PublishManifest, Points, PublishPoints, StagingPoints, ReadPoints,
         CleanPoints
    <3>3. FilesTypeOK'
      BY <2>11, <3>a, Documents DEF PublishManifest, published, staging, Types, FilesTypeOK
    <3>4. GhostsTypeOK'
      BY <2>11, <3>a DEF PublishManifest, Halve, Types, GhostsTypeOK
    <3> QED BY <3>2, <3>3, <3>4 DEF Types
  <2>12. CASE DropStaged(w)
    <3>1. pc[w] # "idle"
      BY <2>12 DEF DropStaged, At
    <3>a. Id(w) \in Identities /\ job[w] \in GenerateJobs \cup ReadJobs \cup CleanJobs
      BY <3>1, Identity
    <3>2. WorkersTypeOK'
      BY <2>12 DEF DropStaged, Goto, Types, WorkersTypeOK, Points, PublishPoints, StagingPoints,
         ReadPoints, CleanPoints
    <3>3. FilesTypeOK'
      BY <2>12, <3>a, Documents DEF DropStaged, published, staging, Types, FilesTypeOK
    <3>4. GhostsTypeOK'
      BY <2>12 DEF DropStaged, Types, GhostsTypeOK, overwrites, Mkdirs
    <3> QED BY <3>2, <3>3, <3>4 DEF Types
  <2>13. CASE ReadBack(w)
    <3>1. pc[w] # "idle"
      BY <2>13 DEF ReadBack, At
    <3>a. Id(w) \in Identities /\ job[w] \in GenerateJobs \cup ReadJobs \cup CleanJobs
      BY <3>1, Identity
    <3>b. job[w].manifest \in Manifests \ {NoManifest} /\ job[w].manifest.hash \in Contents
      BY <2>13, Documents DEF ReadBack, At, CallInv, CallInvOf, GenerateJobs, PublishPoints,
         StagingPoints
    <3>2. WorkersTypeOK'
      <4>1. answer[w] \in Answers
        BY DEF Types, WorkersTypeOK
      <4>2. Answer(w, "done", NoFile, job[w].manifest) \in Answers /\ Refusal(w,
         "failed") \in Answers
        BY <3>a, <3>b, AnswerType, Documents
      <4> QED BY <2>13, <4>1, <4>2, ReturnTypes DEF ReadBack
    <3>3. FilesTypeOK'
      BY <2>13 DEF ReadBack, published, staging, Types, FilesTypeOK
    <3>4. GhostsTypeOK'
      BY <2>13 DEF ReadBack, Types, GhostsTypeOK, overwrites
    <3> QED BY <3>2, <3>3, <3>4 DEF Types
  <2>14. CASE ReadData(w)
    <3>1. pc[w] # "idle"
      BY <2>14 DEF ReadData, At
    <3>a. Id(w) \in Identities /\ job[w] \in GenerateJobs \cup ReadJobs \cup CleanJobs
      BY <3>1, Identity
    <3>2. WorkersTypeOK'
      <4>1. [found[w] EXCEPT !.data = artifact[Id(w)]] \in Found
        BY <3>a DEF Types, FilesTypeOK, WorkersTypeOK, Found
      <4> QED BY <2>14, <3>a, <4>1, ReturnTypes, LearnTypes, AnswerType, Documents DEF ReadData,
         Points, PublishPoints, StagingPoints, ReadPoints, CleanPoints
    <3>3. FilesTypeOK'
      BY <2>14 DEF ReadData, published, staging, Types, FilesTypeOK
    <3>4. GhostsTypeOK'
      BY <2>14 DEF ReadData, Types, GhostsTypeOK, overwrites
    <3> QED BY <3>2, <3>3, <3>4 DEF Types
  <2>15. CASE LookFirst(w)
    <3>1. pc[w] # "idle"
      BY <2>15 DEF LookFirst, At
    <3>a. Id(w) \in Identities /\ job[w] \in GenerateJobs \cup ReadJobs \cup CleanJobs
      BY <3>1, Identity
    <3>2. WorkersTypeOK'
      BY <2>15, <3>1, <3>a, ReturnTypes, OnwardTypes, UnwindTypes, LearnTypes, AnswerType,
         Documents DEF LookFirst, Points, PublishPoints, StagingPoints, ReadPoints, CleanPoints
    <3>3. FilesTypeOK'
      BY <2>15 DEF LookFirst, published, staging, Types, FilesTypeOK
    <3>4. GhostsTypeOK'
      BY <2>15 DEF LookFirst, Types, GhostsTypeOK, overwrites
    <3> QED BY <3>2, <3>3, <3>4 DEF Types
  <2>16. CASE LookStaged(w)
    <3>1. pc[w] # "idle"
      BY <2>16 DEF LookStaged, At
    <3>a. Id(w) \in Identities /\ job[w] \in GenerateJobs \cup ReadJobs \cup CleanJobs
      BY <3>1, Identity
    <3>2. WorkersTypeOK'
      BY <2>16, <3>1, <3>a, ReturnTypes, OnwardTypes, UnwindTypes, LearnTypes, AnswerType,
         Documents DEF LookStaged, Points, PublishPoints, StagingPoints, ReadPoints, CleanPoints
    <3>3. FilesTypeOK'
      BY <2>16 DEF LookStaged, published, staging, Types, FilesTypeOK
    <3>4. GhostsTypeOK'
      BY <2>16 DEF LookStaged, Types, GhostsTypeOK, overwrites
    <3> QED BY <3>2, <3>3, <3>4 DEF Types
  <2>17. CASE ReadManifest(w)
    <3>1. pc[w] # "idle"
      BY <2>17 DEF ReadManifest, At
    <3>a. Id(w) \in Identities /\ job[w] \in GenerateJobs \cup ReadJobs \cup CleanJobs
      BY <3>1, Identity
    <3>2. WorkersTypeOK'
      <4>1. [found[w] EXCEPT !.manifest = manifest[Id(w)]] \in Found
        BY <3>a DEF Types, FilesTypeOK, WorkersTypeOK, Found
      <4> QED BY <2>17, <3>a, <4>1, ReturnTypes, LearnTypes, AnswerType,
         Documents DEF ReadManifest, Points, PublishPoints, StagingPoints, ReadPoints,
         CleanPoints
    <3>3. FilesTypeOK'
      BY <2>17 DEF ReadManifest, published, staging, Types, FilesTypeOK
    <3>4. GhostsTypeOK'
      BY <2>17 DEF ReadManifest, Types, GhostsTypeOK, overwrites
    <3> QED BY <3>2, <3>3, <3>4 DEF Types
  <2>18. CASE Compare(w)
    <3>1. pc[w] # "idle"
      BY <2>18 DEF Compare, At
    <3>a. Id(w) \in Identities /\ job[w] \in GenerateJobs \cup ReadJobs \cup CleanJobs
      BY <3>1, Identity
    <3>2. WorkersTypeOK'
      <4>1. found[w].data \in Files /\ found[w].manifest \in Manifests
        BY DEF Types, WorkersTypeOK, Found
      <4>2. /\ Answer(w, "validated", found[w].data, found[w].manifest) \in Answers
            /\ Refusal(w, "mismatch") \in Answers
        BY <3>a, <4>1, AnswerType
      <4> QED BY <2>18, <4>2, ReturnTypes DEF Compare
    <3>3. FilesTypeOK'
      BY <2>18 DEF Compare, published, staging, Types, FilesTypeOK
    <3>4. GhostsTypeOK'
      BY <2>18 DEF Compare, Types, GhostsTypeOK, overwrites
    <3> QED BY <3>2, <3>3, <3>4 DEF Types
  <2>19. CASE ListStaged(w)
    <3>1. pc[w] # "idle"
      BY <2>19 DEF ListStaged, At
    <3>2. WorkersTypeOK'
      <4>1. job[w] \in CleanJobs
        BY <2>19 DEF ListStaged, At, CallInv, CallInvOf, CleanPoints
      <4> DEFINE files(i) == {f \in {"artifact", "manifest"} :
                                IF f = "artifact" THEN tmpArtifact[i] # NoFile
                                                  ELSE tmpManifest[i] # NoManifest}
                 next(i) == [kind |-> "cleanup", id |-> i, left |-> job[w].left \ {i},
                             files |-> files(i)]
      <4>a. PICK i \in job[w].left : job' = [job EXCEPT ![w] = next(i)]
        BY <2>19 DEF ListStaged
      <4>b. files(i) \in SUBSET {"artifact", "manifest"}
        OBVIOUS
      <4>c. next(i) \in CleanJobs
        BY <4>1, <4>a, <4>b DEF CleanJobs
      <4>2. job' \in [Workers -> Jobs]
        BY <4>a, <4>c DEF Jobs, Types, WorkersTypeOK
      <4> QED BY <2>19, <4>2 DEF ListStaged, Goto, Types, WorkersTypeOK, Points, PublishPoints,
         StagingPoints, ReadPoints, CleanPoints
    <3>3. FilesTypeOK'
      BY <2>19 DEF ListStaged, published, staging, Types, FilesTypeOK
    <3>4. GhostsTypeOK'
      BY <2>19 DEF ListStaged, Types, GhostsTypeOK, overwrites
    <3> QED BY <3>2, <3>3, <3>4 DEF Types
  <2>20. CASE Unlink(w)
    <3>1. pc[w] # "idle"
      BY <2>20 DEF Unlink, At
    <3>a. Id(w) \in Identities /\ job[w] \in GenerateJobs \cup ReadJobs \cup CleanJobs
      BY <3>1, Identity
    <3>2. WorkersTypeOK'
      <4>1. job[w] \in CleanJobs
        BY <2>20 DEF Unlink, At, CallInv, CallInvOf, CleanPoints
      <4>2. job' \in [Workers -> Jobs]
        BY <2>20, <4>1 DEF Unlink, CleanJobs, Jobs, Types, WorkersTypeOK
      <4> QED BY <2>20, <4>2 DEF Unlink, Types, WorkersTypeOK
    <3>3. FilesTypeOK'
      BY <2>20, <3>a, Documents DEF Unlink, published, staging, Types, FilesTypeOK
    <3>4. GhostsTypeOK'
      BY <2>20 DEF Unlink, Types, GhostsTypeOK, overwrites, WritersOf
    <3> QED BY <3>2, <3>3, <3>4 DEF Types
  <2>21. CASE LeaveDirectory(w)
    <3>1. pc[w] # "idle"
      BY <2>21 DEF LeaveDirectory, At
    <3>a. Id(w) \in Identities /\ job[w] \in GenerateJobs \cup ReadJobs \cup CleanJobs
      BY <3>1, Identity
    <3>2. WorkersTypeOK'
      BY <2>21 DEF LeaveDirectory, Goto, Types, WorkersTypeOK, Points, PublishPoints,
         StagingPoints, ReadPoints, CleanPoints
    <3>3. FilesTypeOK'
      BY <2>21, <3>a, Documents DEF LeaveDirectory, published, staging, Types, FilesTypeOK
    <3>4. GhostsTypeOK'
      BY <2>21 DEF LeaveDirectory, Types, GhostsTypeOK, overwrites, WritersOf
    <3> QED BY <3>2, <3>3, <3>4 DEF Types
  <2>22. CASE EndCleanup(w)
    <3>1. pc[w] # "idle"
      BY <2>22 DEF EndCleanup, At
    <3>a. Id(w) \in Identities /\ job[w] \in GenerateJobs \cup ReadJobs \cup CleanJobs
      BY <3>1, Identity
    <3>2. WorkersTypeOK'
      BY <2>22, <3>a, ReturnTypes, AnswerType, Documents DEF EndCleanup
    <3>3. FilesTypeOK'
      BY <2>22 DEF EndCleanup, published, staging, Types, FilesTypeOK
    <3>4. GhostsTypeOK'
      BY <2>22 DEF EndCleanup, Types, GhostsTypeOK, overwrites, Mkdirs
    <3> QED BY <3>2, <3>3, <3>4 DEF Types
  <2>23. CASE Except(w)
    <3>1. pc[w] # "idle"
      BY <2>23 DEF Except, At
    <3>a. Id(w) \in Identities /\ job[w] \in GenerateJobs \cup ReadJobs \cup CleanJobs
      BY <3>1, Identity
    <3>2. WorkersTypeOK'
      BY <2>23, <3>1, <3>a, ReturnTypes, OnwardTypes, UnwindTypes, LearnTypes, AnswerType,
         Documents DEF Except, Points, PublishPoints, StagingPoints, ReadPoints, CleanPoints
    <3>3. FilesTypeOK'
      BY <2>23 DEF Except, published, staging, Types, FilesTypeOK
    <3>4. GhostsTypeOK'
      BY <2>23, <3>a, ProjectionAssumption DEF Except, Halve, Types, GhostsTypeOK
    <3> QED BY <3>2, <3>3, <3>4 DEF Types
  <2>24. CASE Crash(w)
    <3>1. pc[w] # "idle"
      BY <2>24 DEF Crash, At
    <3>a. Id(w) \in Identities /\ job[w] \in GenerateJobs \cup ReadJobs \cup CleanJobs
      BY <3>1, Identity
    <3>2. WorkersTypeOK'
      BY <2>24, <3>a, ReturnTypes, AnswerType, Documents DEF Crash
    <3>3. FilesTypeOK'
      BY <2>24 DEF Crash, published, staging, Types, FilesTypeOK
    <3>4. GhostsTypeOK'
      BY <2>24, <3>a, ProjectionAssumption DEF Crash, Halve, Types, GhostsTypeOK
    <3> QED BY <3>2, <3>3, <3>4 DEF Types
  <2>25. CASE LookFails(w)
    <3>1. pc[w] # "idle"
      BY <2>25 DEF LookFails, At
    <3>a. Id(w) \in Identities /\ job[w] \in GenerateJobs \cup ReadJobs \cup CleanJobs
      BY <3>1, Identity
    <3>2. WorkersTypeOK'
      BY <2>25 DEF LookFails, Goto, Types, WorkersTypeOK, Points, PublishPoints, StagingPoints
    <3>3. FilesTypeOK'
      BY <2>25 DEF LookFails, published, staging, Types, FilesTypeOK
    <3>4. GhostsTypeOK'
      BY <2>25, <3>a, ProjectionAssumption DEF LookFails, Types, GhostsTypeOK
    <3> QED BY <3>2, <3>3, <3>4 DEF Types
  <2> QED
    BY <1>2, <2>1, <2>2, <2>3, <2>4, <2>5, <2>6, <2>7, <2>8, <2>9, <2>10,
       <2>11, <2>12, <2>13, <2>14, <2>15, <2>16, <2>17, <2>18, <2>19,
       <2>20, <2>21, <2>22, <2>23, <2>24, <2>25
       DEF Call, Step, Publication, Reading, Cleaning
<1> QED BY <1>1, <1>2 DEF Next

(* A step of a worker leaves the control, call and answer of the others. *)
LEMMA OthersStay ==
  ASSUME Types, NEW w \in Workers, Call(w) \/ Step(w) \/ Except(w) \/ Crash(w)
  PROVE  \A u \in Workers \ {w} :
            /\ pc'[u] = pc[u] /\ job'[u] = job[u] /\ found'[u] = found[u]
            /\ answer'[u] = answer[u]
<1>1. CASE Generate(w)
  BY <1>1 DEF Generate, Begin, Return, Onward, Unwind, Learn, Goto, Types, WorkersTypeOK
<1>2. CASE Cleanup(w)
  BY <1>2 DEF Cleanup, Begin, Return, Onward, Unwind, Learn, Goto, Types, WorkersTypeOK
<1>3. CASE \E kind \in {"read", "status", "list"} : Read(w, kind)
  <2>1. PICK kind \in {"read", "status", "list"} : Read(w, kind)
    BY <1>3
  <2> QED BY <2>1 DEF Read, Begin, Goto, Types, WorkersTypeOK
<1>4. CASE AcquireLock(w)
  BY <1>4 DEF AcquireLock, Begin, Return, Onward, Unwind, Learn, Goto, Types, WorkersTypeOK
<1>5. CASE Look(w)
  BY <1>5 DEF Look, Begin, Return, Onward, Unwind, Learn, Goto, Types, WorkersTypeOK
<1>6. CASE MakeStaging(w)
  BY <1>6 DEF MakeStaging, Begin, Return, Onward, Unwind, Learn, Goto, Types, WorkersTypeOK
<1>7. CASE StageArtifact(w)
  BY <1>7 DEF StageArtifact, Begin, Return, Onward, Unwind, Learn, Goto, Types, WorkersTypeOK
<1>8. CASE CheckArtifact(w)
  BY <1>8 DEF CheckArtifact, Begin, Return, Onward, Unwind, Learn, Goto, Types, WorkersTypeOK
<1>9. CASE StageManifest(w)
  BY <1>9 DEF StageManifest, Begin, Return, Onward, Unwind, Learn, Goto, Types, WorkersTypeOK
<1>10. CASE PublishArtifact(w)
  BY <1>10 DEF PublishArtifact, Begin, Return, Onward, Unwind, Learn, Goto, Types, WorkersTypeOK
<1>11. CASE PublishManifest(w)
  BY <1>11 DEF PublishManifest, Begin, Return, Onward, Unwind, Learn, Goto, Types, WorkersTypeOK
<1>12. CASE DropStaged(w)
  BY <1>12 DEF DropStaged, Begin, Return, Onward, Unwind, Learn, Goto, Types, WorkersTypeOK
<1>13. CASE ReadBack(w)
  BY <1>13 DEF ReadBack, Begin, Return, Onward, Unwind, Learn, Goto, Types, WorkersTypeOK
<1>14. CASE ReadData(w)
  BY <1>14 DEF ReadData, Begin, Return, Onward, Unwind, Learn, Goto, Types, WorkersTypeOK
<1>15. CASE LookFirst(w)
  BY <1>15 DEF LookFirst, Begin, Return, Onward, Unwind, Learn, Goto, Types, WorkersTypeOK
<1>16. CASE LookStaged(w)
  BY <1>16 DEF LookStaged, Begin, Return, Onward, Unwind, Learn, Goto, Types, WorkersTypeOK
<1>17. CASE ReadManifest(w)
  BY <1>17 DEF ReadManifest, Begin, Return, Onward, Unwind, Learn, Goto, Types, WorkersTypeOK
<1>18. CASE Compare(w)
  BY <1>18 DEF Compare, Begin, Return, Onward, Unwind, Learn, Goto, Types, WorkersTypeOK
<1>19. CASE ListStaged(w)
  BY <1>19 DEF ListStaged, Begin, Return, Onward, Unwind, Learn, Goto, Types, WorkersTypeOK
<1>20. CASE Unlink(w)
  BY <1>20 DEF Unlink, Begin, Return, Onward, Unwind, Learn, Goto, Types, WorkersTypeOK
<1>21. CASE LeaveDirectory(w)
  BY <1>21 DEF LeaveDirectory, Begin, Return, Onward, Unwind, Learn, Goto, Types, WorkersTypeOK
<1>22. CASE EndCleanup(w)
  BY <1>22 DEF EndCleanup, Begin, Return, Onward, Unwind, Learn, Goto, Types, WorkersTypeOK
<1>23. CASE Except(w)
  BY <1>23 DEF Except, Begin, Return, Onward, Unwind, Learn, Goto, Types, WorkersTypeOK
<1>24. CASE Crash(w)
  BY <1>24 DEF Crash, Begin, Return, Onward, Unwind, Learn, Goto, Types, WorkersTypeOK
<1>25. CASE LookFails(w)
  BY <1>25 DEF LookFails, Goto, Types, WorkersTypeOK
<1> QED
  BY <1>1, <1>2, <1>3, <1>4, <1>5, <1>6, <1>7, <1>8, <1>9, <1>10,
     <1>11, <1>12, <1>13, <1>14, <1>15, <1>16, <1>17, <1>18, <1>19,
     <1>20, <1>21, <1>22, <1>23, <1>24, <1>25
     DEF Call, Step, Publication, Reading, Cleaning

(* What is staged lies in directories that exist. *)
LEMMA StagedStep == Types /\ StagedOK /\ CallInv /\ [Next]_vars => StagedOK'
<1> SUFFICES ASSUME Types, StagedOK, CallInv, [Next]_vars PROVE StagedOK'
  OBVIOUS
<1>1. CASE UNCHANGED vars
  BY <1>1 DEF vars, published, staging, StagedOK, IsEmpty
<1>2. ASSUME NEW w \in Workers, Call(w) \/ Step(w) \/ Except(w) \/ Crash(w)
      PROVE  StagedOK'
  <2>1. CASE Generate(w)
    BY <2>1 DEF Generate, Begin, staging, StagedOK, IsEmpty
  <2>2. CASE Cleanup(w)
    BY <2>2 DEF Cleanup, Begin, staging, StagedOK, IsEmpty
  <2>3. CASE \E kind \in {"read", "status", "list"} : Read(w, kind)
    <3>1. PICK kind \in {"read", "status", "list"} : Read(w, kind)
      BY <2>3
    <3> QED BY <3>1 DEF Read, Begin, staging, StagedOK, IsEmpty
  <2>4. CASE AcquireLock(w)
    BY <2>4 DEF AcquireLock, Begin, staging, StagedOK, IsEmpty
  <2>5. CASE Look(w)
    BY <2>5 DEF Look, Begin, staging, StagedOK, IsEmpty
  <2>6. CASE MakeStaging(w)
    BY <2>6 DEF MakeStaging, Types, FilesTypeOK, StagedOK, IsEmpty
  <2>7. CASE StageArtifact(w)
    BY <2>7 DEF StageArtifact, Types, FilesTypeOK, StagedOK, IsEmpty
  <2>8. CASE CheckArtifact(w)
    BY <2>8 DEF CheckArtifact, Begin, staging, StagedOK, IsEmpty
  <2>9. CASE StageManifest(w)
    BY <2>9 DEF StageManifest, Types, FilesTypeOK, StagedOK, IsEmpty
  <2>10. CASE PublishArtifact(w)
    BY <2>10 DEF PublishArtifact, Types, FilesTypeOK, StagedOK, IsEmpty
  <2>11. CASE PublishManifest(w)
    BY <2>11 DEF PublishManifest, Types, FilesTypeOK, StagedOK, IsEmpty
  <2>12. CASE DropStaged(w)
    BY <2>12 DEF DropStaged, Types, FilesTypeOK, StagedOK, IsEmpty
  <2>13. CASE ReadBack(w)
    BY <2>13 DEF ReadBack, Begin, staging, StagedOK, IsEmpty
  <2>14. CASE ReadData(w)
    BY <2>14 DEF ReadData, Begin, staging, StagedOK, IsEmpty
  <2>15. CASE LookFirst(w)
    BY <2>15 DEF LookFirst, Begin, staging, StagedOK, IsEmpty
  <2>16. CASE LookStaged(w)
    BY <2>16 DEF LookStaged, Begin, staging, StagedOK, IsEmpty
  <2>17. CASE ReadManifest(w)
    BY <2>17 DEF ReadManifest, Begin, staging, StagedOK, IsEmpty
  <2>18. CASE Compare(w)
    BY <2>18 DEF Compare, Begin, staging, StagedOK, IsEmpty
  <2>19. CASE ListStaged(w)
    BY <2>19 DEF ListStaged, Begin, staging, StagedOK, IsEmpty
  <2>20. CASE Unlink(w)
    BY <2>20 DEF Unlink, Types, FilesTypeOK, StagedOK, IsEmpty
  <2>21. CASE LeaveDirectory(w)
    BY <2>21 DEF LeaveDirectory, Types, FilesTypeOK, StagedOK, IsEmpty
  <2>22. CASE EndCleanup(w)
    BY <2>22 DEF EndCleanup, Begin, staging, StagedOK, IsEmpty
  <2>23. CASE Except(w)
    BY <2>23 DEF Except, Begin, staging, StagedOK, IsEmpty
  <2>24. CASE Crash(w)
    BY <2>24 DEF Crash, Begin, staging, StagedOK, IsEmpty
  <2>25. CASE LookFails(w)
    BY <2>25 DEF LookFails, staging, StagedOK, IsEmpty
  <2> QED
    BY <1>2, <2>1, <2>2, <2>3, <2>4, <2>5, <2>6, <2>7, <2>8, <2>9, <2>10,
       <2>11, <2>12, <2>13, <2>14, <2>15, <2>16, <2>17, <2>18, <2>19,
       <2>20, <2>21, <2>22, <2>23, <2>24, <2>25
       DEF Call, Step, Publication, Reading, Cleaning
<1> QED BY <1>1, <1>2 DEF Next

(* A step keeps CallInv when it does so for its worker and takes no lock of others. *)
LEMMA CallFrame ==
  ASSUME Types, CallInv, NEW w \in Workers, Call(w) \/ Step(w) \/ Except(w) \/ Crash(w),
         \A i \in Identities : lock'[i] = lock[i] \/ lock[i] = Nobody \/ lock[i] = w,
         CallInvOf(w)'
  PROVE  CallInv'
<1>1. ASSUME NEW u \in Workers \ {w} PROVE CallInvOf(u)'
  <2>1. pc'[u] = pc[u] /\ job'[u] = job[u]
    BY OthersStay
  <2>2. pc[u] \in PublishPoints => Id(u) \in Identities
    BY DEF CallInv, CallInvOf, GenerateJobs, Id
  <2> QED BY <2>1, <2>2, ProjectionAssumption DEF CallInv, CallInvOf, Id
<1> QED BY <1>1 DEF CallInv

(* Every step keeps workers on calls they serve, under their locks. *)
LEMMA CallStep == Types /\ CallInv /\ [Next]_vars => CallInv'
<1> SUFFICES ASSUME Types, CallInv, [Next]_vars PROVE CallInv'
  OBVIOUS
<1>1. CASE UNCHANGED vars
  BY <1>1 DEF vars, CallInv, CallInvOf, Id
<1>2. ASSUME NEW w \in Workers, Call(w) \/ Step(w) \/ Except(w) \/ Crash(w)
      PROVE  CallInv'
  <2>1. CASE Generate(w)
    <3>1. PICK i \in Identities, c \in Contents :
            Begin(w, [kind |-> "generate", id |-> i,
                      manifest |-> [hash |-> c, clock |-> calls + 1]], "lock")
      BY <2>1 DEF Generate
    <3>2. [hash |-> c, clock |-> calls + 1] \in Manifests \ {NoManifest}
      <4>1. calls + 1 \in Nat \ {0}
        BY ProjectionAssumption DEF Types, GhostsTypeOK
      <4> QED BY <4>1, Documents
    <3>3. [kind |-> "generate", id |-> i, manifest |-> [hash |-> c,
       clock |-> calls + 1]] \in GenerateJobs
      BY <3>2 DEF GenerateJobs
    <3>4. CallInvOf(w)'
      BY <3>1, <3>3 DEF Begin, Goto, Types, WorkersTypeOK,
         CallInvOf, GenerateJobs, ReadJobs, CleanJobs, PublishPoints, StagingPoints, ReadPoints,
            CleanPoints
    <3>5. lock' = lock
      BY <3>1 DEF Begin
    <3> QED BY <1>2, <3>4, <3>5, CallFrame
  <2>2. CASE Cleanup(w)
    <3>1. PICK i \in Identities, left \in SUBSET Identities :
            Begin(w, [kind |-> "cleanup", id |-> i, left |-> left \cap staged,
                      files |-> {}], "clean")
      BY <2>2 DEF Cleanup
    <3>2. [kind |-> "cleanup", id |-> i, left |-> left \cap staged, files |-> {}] \in CleanJobs
      BY DEF CleanJobs
    <3>3. CallInvOf(w)'
      BY <3>1, <3>2 DEF Begin, Goto, Types, WorkersTypeOK,
         CallInvOf, GenerateJobs, ReadJobs, CleanJobs, PublishPoints, StagingPoints, ReadPoints,
            CleanPoints
    <3>4. lock' = lock
      BY <3>1 DEF Begin
    <3> QED BY <1>2, <3>3, <3>4, CallFrame
  <2>3. CASE \E kind \in {"read", "status", "list"} : Read(w, kind)
    <3>1. PICK kind \in {"read", "status", "list"} : Read(w, kind)
      BY <2>3
    <3>2. PICK i \in Identities :
            Begin(w, [kind |-> kind, id |-> i],
                  CASE kind = "read" -> "readData" [] kind = "status" -> "lookFirst"
                    [] kind = "list" -> "readManifest")
      BY <3>1 DEF Read
    <3>3. [kind |-> kind, id |-> i] \in ReadJobs
      BY DEF ReadJobs
    <3>4. CallInvOf(w)'
      BY <3>1, <3>2, <3>3 DEF Begin, Goto, Types, WorkersTypeOK,
         CallInvOf, GenerateJobs, ReadJobs, CleanJobs, PublishPoints, StagingPoints, ReadPoints,
            CleanPoints
    <3>5. lock' = lock
      BY <3>2 DEF Begin
    <3> QED BY <1>2, <3>4, <3>5, CallFrame
  <2>4. CASE AcquireLock(w)
    <3>1. job[w] \in GenerateJobs /\ Id(w) \in Identities
      BY <2>4 DEF AcquireLock, At, CallInv, CallInvOf, Id, GenerateJobs
    <3>2. CallInvOf(w)'
      BY <2>4, <3>1 DEF AcquireLock, Goto, Types, WorkersTypeOK, CallInvOf, Id, PublishPoints,
         StagingPoints, ReadPoints, CleanPoints
    <3>3. \A i \in Identities : lock'[i] = lock[i] \/ lock[i] = Nobody
      BY <2>4, <3>1 DEF AcquireLock, Types, WorkersTypeOK
    <3> QED BY <1>2, <3>2, <3>3, CallFrame
  <2>5. CASE Look(w)
    <3>1. CASE \E result : Return(w, result)
      BY <3>1, ReturnCall
    <3>2. CASE ~\E result : Return(w, result)
      <4>1. CallInvOf(w)'
        BY <2>5, <3>2 DEF Look, At, Onward, Unwind, Learn, Goto, Types, WorkersTypeOK,
                 CallInv, CallInvOf, Id, PublishPoints, StagingPoints, ReadPoints, CleanPoints
      <4>2. lock' = lock
        BY <2>5, <3>2 DEF Look, Onward, Unwind, Learn
      <4> QED BY <1>2, <4>1, <4>2, CallFrame
    <3> QED BY <3>1, <3>2
  <2>6. CASE MakeStaging(w)
    <3>1. CASE \E result : Return(w, result)
      BY <3>1, ReturnCall
    <3>2. CASE ~\E result : Return(w, result)
      <4>1. CallInvOf(w)'
        BY <2>6, <3>2 DEF MakeStaging, At, Onward, Unwind, Learn, Goto, Types, WorkersTypeOK,
                 CallInv, CallInvOf, Id, PublishPoints, StagingPoints, ReadPoints, CleanPoints
      <4>2. lock' = lock
        BY <2>6, <3>2 DEF MakeStaging, Onward, Unwind, Learn
      <4> QED BY <1>2, <4>1, <4>2, CallFrame
    <3> QED BY <3>1, <3>2
  <2>7. CASE StageArtifact(w)
    <3>1. CallInvOf(w)'
      BY <2>7 DEF StageArtifact, At, Onward, Unwind, Learn, Goto, Types, WorkersTypeOK,
               CallInv, CallInvOf, Id, PublishPoints, StagingPoints, ReadPoints, CleanPoints
    <3>2. lock' = lock
      BY <2>7 DEF StageArtifact, Onward, Unwind, Learn
    <3> QED BY <1>2, <3>1, <3>2, CallFrame
  <2>8. CASE CheckArtifact(w)
    <3>1. CallInvOf(w)'
      BY <2>8 DEF CheckArtifact, At, Onward, Unwind, Learn, Goto, Types, WorkersTypeOK,
               CallInv, CallInvOf, Id, PublishPoints, StagingPoints, ReadPoints, CleanPoints
    <3>2. lock' = lock
      BY <2>8 DEF CheckArtifact, Onward, Unwind, Learn
    <3> QED BY <1>2, <3>1, <3>2, CallFrame
  <2>9. CASE StageManifest(w)
    <3>1. CallInvOf(w)'
      BY <2>9 DEF StageManifest, At, Onward, Unwind, Learn, Goto, Types, WorkersTypeOK,
               CallInv, CallInvOf, Id, PublishPoints, StagingPoints, ReadPoints, CleanPoints
    <3>2. lock' = lock
      BY <2>9 DEF StageManifest, Onward, Unwind, Learn
    <3> QED BY <1>2, <3>1, <3>2, CallFrame
  <2>10. CASE PublishArtifact(w)
    <3>1. CallInvOf(w)'
      BY <2>10 DEF PublishArtifact, At, Onward, Unwind, Learn, Goto, Types, WorkersTypeOK,
               CallInv, CallInvOf, Id, PublishPoints, StagingPoints, ReadPoints, CleanPoints
    <3>2. lock' = lock
      BY <2>10 DEF PublishArtifact, Onward, Unwind, Learn
    <3> QED BY <1>2, <3>1, <3>2, CallFrame
  <2>11. CASE PublishManifest(w)
    <3>1. CallInvOf(w)'
      BY <2>11 DEF PublishManifest, At, Onward, Unwind, Learn, Goto, Types, WorkersTypeOK,
               CallInv, CallInvOf, Id, PublishPoints, StagingPoints, ReadPoints, CleanPoints
    <3>2. lock' = lock
      BY <2>11 DEF PublishManifest, Onward, Unwind, Learn
    <3> QED BY <1>2, <3>1, <3>2, CallFrame
  <2>12. CASE DropStaged(w)
    <3>1. CallInvOf(w)'
      BY <2>12 DEF DropStaged, At, Onward, Unwind, Learn, Goto, Types, WorkersTypeOK,
               CallInv, CallInvOf, Id, PublishPoints, StagingPoints, ReadPoints, CleanPoints
    <3>2. lock' = lock
      BY <2>12 DEF DropStaged, Onward, Unwind, Learn
    <3> QED BY <1>2, <3>1, <3>2, CallFrame
  <2>13. CASE ReadBack(w)
    BY <2>13, ReturnCall DEF ReadBack
  <2>14. CASE ReadData(w)
    <3>1. CASE \E result : Return(w, result)
      BY <3>1, ReturnCall
    <3>2. CASE ~\E result : Return(w, result)
      <4>1. CallInvOf(w)'
        BY <2>14, <3>2 DEF ReadData, At, Onward, Unwind, Learn, Goto, Types, WorkersTypeOK,
                 CallInv, CallInvOf, Id, PublishPoints, StagingPoints, ReadPoints, CleanPoints
      <4>2. lock' = lock
        BY <2>14, <3>2 DEF ReadData, Onward, Unwind, Learn
      <4> QED BY <1>2, <4>1, <4>2, CallFrame
    <3> QED BY <3>1, <3>2
  <2>15. CASE LookFirst(w)
    <3>1. CallInvOf(w)'
      BY <2>15 DEF LookFirst, At, Onward, Unwind, Learn, Goto, Types, WorkersTypeOK,
               CallInv, CallInvOf, Id, PublishPoints, StagingPoints, ReadPoints, CleanPoints
    <3>2. lock' = lock
      BY <2>15 DEF LookFirst, Onward, Unwind, Learn
    <3> QED BY <1>2, <3>1, <3>2, CallFrame
  <2>16. CASE LookStaged(w)
    BY <2>16, ReturnCall DEF LookStaged
  <2>17. CASE ReadManifest(w)
    <3>1. CASE \E result : Return(w, result)
      BY <3>1, ReturnCall
    <3>2. CASE ~\E result : Return(w, result)
      <4>1. CallInvOf(w)'
        BY <2>17, <3>2 DEF ReadManifest, At, Onward, Unwind, Learn, Goto, Types, WorkersTypeOK,
                 CallInv, CallInvOf, Id, PublishPoints, StagingPoints, ReadPoints, CleanPoints
      <4>2. lock' = lock
        BY <2>17, <3>2 DEF ReadManifest, Onward, Unwind, Learn
      <4> QED BY <1>2, <4>1, <4>2, CallFrame
    <3> QED BY <3>1, <3>2
  <2>18. CASE Compare(w)
    BY <2>18, ReturnCall DEF Compare
  <2>19. CASE ListStaged(w)
    <3>1. job[w] \in CleanJobs
      BY <2>19 DEF ListStaged, At, CallInv, CallInvOf, CleanPoints
    <3>2. job'[w] \in CleanJobs /\ pc'[w] = "unlink"
      BY <2>19, <3>1 DEF ListStaged, Goto, Types, WorkersTypeOK, CleanJobs
    <3>3. CallInvOf(w)'
      BY <3>2 DEF CallInvOf, PublishPoints, StagingPoints, ReadPoints, CleanPoints
    <3>4. lock' = lock
      BY <2>19 DEF ListStaged
    <3> QED BY <1>2, <3>3, <3>4, CallFrame
  <2>20. CASE Unlink(w)
    <3>1. job[w] \in CleanJobs
      BY <2>20 DEF Unlink, At, CallInv, CallInvOf, CleanPoints
    <3>2. job'[w] \in CleanJobs /\ pc'[w] = "unlink"
      BY <2>20, <3>1 DEF Unlink, At, Types, WorkersTypeOK, CleanJobs
    <3>3. CallInvOf(w)'
      BY <3>2 DEF CallInvOf, PublishPoints, StagingPoints, ReadPoints, CleanPoints
    <3>4. lock' = lock
      BY <2>20 DEF Unlink
    <3> QED BY <1>2, <3>3, <3>4, CallFrame
  <2>21. CASE LeaveDirectory(w)
    <3>1. CallInvOf(w)'
      BY <2>21 DEF LeaveDirectory, At, Onward, Unwind, Learn, Goto, Types, WorkersTypeOK,
               CallInv, CallInvOf, Id, PublishPoints, StagingPoints, ReadPoints, CleanPoints
    <3>2. lock' = lock
      BY <2>21 DEF LeaveDirectory, Onward, Unwind, Learn
    <3> QED BY <1>2, <3>1, <3>2, CallFrame
  <2>22. CASE EndCleanup(w)
    BY <2>22, ReturnCall DEF EndCleanup
  <2>23. CASE Except(w)
    <3>1. CASE \E result : Return(w, result)
      BY <3>1, ReturnCall
    <3>2. CASE ~\E result : Return(w, result)
      <4>1. CallInvOf(w)'
        BY <2>23, <3>2 DEF Except, At, Onward, Unwind, Learn, Goto, Types, WorkersTypeOK,
                 CallInv, CallInvOf, Id, PublishPoints, StagingPoints, ReadPoints, CleanPoints
      <4>2. lock' = lock
        BY <2>23, <3>2 DEF Except, Onward, Unwind, Learn
      <4> QED BY <1>2, <4>1, <4>2, CallFrame
    <3> QED BY <3>1, <3>2
  <2>24. CASE Crash(w)
    BY <2>24, ReturnCall DEF Crash
  <2>25. CASE LookFails(w)
    <3>1. CallInvOf(w)'
      BY <2>25 DEF LookFails, At, Goto, Types, WorkersTypeOK, CallInv, CallInvOf, Id,
         PublishPoints, StagingPoints, ReadPoints, CleanPoints
    <3>2. lock' = lock
      BY <2>25 DEF LookFails
    <3> QED BY <1>2, <3>1, <3>2, CallFrame
  <2> QED
    BY <1>2, <2>1, <2>2, <2>3, <2>4, <2>5, <2>6, <2>7, <2>8, <2>9, <2>10,
       <2>11, <2>12, <2>13, <2>14, <2>15, <2>16, <2>17, <2>18, <2>19,
       <2>20, <2>21, <2>22, <2>23, <2>24, <2>25
       DEF Call, Step, Publication, Reading, Cleaning
<1> QED BY <1>1, <1>2 DEF Next

(* Two writers at work have different identities. *)
LEMMA Exclusive ==
  ASSUME CallInv, NEW w \in Workers, NEW u \in Workers, u # w,
         pc[w] \in PublishPoints, pc[u] \in PublishPoints
  PROVE  Id(u) # Id(w)
BY DEF CallInv, CallInvOf

(* A look that failed has failed. *)
LEMMA BlindStays ==
  ASSUME NEW w \in Workers, Call(w) \/ Step(w) \/ Except(w) \/ Crash(w)
  PROVE  blind \subseteq blind'
<1>1. CASE LookFails(w)
  BY <1>1 DEF LookFails
<1>2. CASE ~LookFails(w)
  BY <1>2 DEF Call, Step, Publication, Reading, Cleaning, Generate, Cleanup, Read, Begin,
     AcquireLock, Look, MakeStaging, StageArtifact, CheckArtifact, StageManifest,
     PublishArtifact, PublishManifest, DropStaged, ReadBack, ReadData, LookFirst, LookStaged,
     ReadManifest, Compare, ListStaged, Unlink, LeaveDirectory, EndCleanup, Except, Crash,
     overwrites
<1> QED BY <1>1, <1>2

(* An identity whose files stay as they are stays one unit. *)
LEMMA UnitFrame ==
  ASSUME Types, PublishInv, NEW w \in Workers, Call(w) \/ Step(w) \/ Except(w) \/ Crash(w),
         NEW i \in Identities, artifact'[i] = artifact[i], manifest'[i] = manifest[i],
         Id(w) # i \/ Halve(w), i \in halved => i \in halved'
  PROVE  UnitOK(i)'
<1> SUFFICES ASSUME Published(i)', ~Overwriting(i)', i \notin halved'
             PROVE  artifact'[i] = manifest'[i].hash
  BY DEF UnitOK
<1>1. ASSUME Overwriting(i) PROVE FALSE
  <2>1. i \in blind'
    BY <1>1, BlindStays DEF Overwriting
  <2>2. PICK u \in Workers : At(u, "publishManifest") /\ Id(u) = i
    BY <1>1 DEF Overwriting
  <2>3. CASE u = w
    BY <2>2, <2>3 DEF Halve, Published
  <2>4. CASE u # w
    BY <2>1, <2>2, <2>4, OthersStay DEF Overwriting, At, Id
  <2> QED BY <2>3, <2>4
<1>2. UnitOK(i)
  BY DEF PublishInv, VisibilityUnit
<1> QED BY <1>1, <1>2 DEF UnitOK, Published

(* A writer is where it was when its published files are, and what it staged *)
(* is as it was or gone.                                                     *)
LEMMA PublishFrame ==
  ASSUME Types, CallInv, PublishInv, NEW u \in Workers, blind \subseteq blind',
         pc'[u] = pc[u], job'[u] = job[u], answer'[u] = answer[u],
         pc[u] \in PublishPoints =>
           /\ artifact'[Id(u)] = artifact[Id(u)] /\ manifest'[Id(u)] = manifest[Id(u)]
           /\ tmpArtifact'[Id(u)] \in {NoFile, tmpArtifact[Id(u)]}
           /\ tmpManifest'[Id(u)] \in {NoManifest, tmpManifest[Id(u)]}
  PROVE  PublishInvOf(u)'
<1>1. PublishInvOf(u)
  BY DEF PublishInv
<1>2. CASE pc[u] \in PublishPoints
  BY <1>1, <1>2 DEF PublishInvOf, Id, Published, PublishPoints, StagingPoints
<1>3. CASE pc[u] \notin PublishPoints
  BY <1>3 DEF PublishInvOf, PublishPoints, StagingPoints
<1> QED BY <1>2, <1>3

(* Only an identity let over is halved when a publication ends.  *)
LEMMA HalvedBlind ==
  ASSUME Types, PublishInv, NEW w \in Workers, Call(w) \/ Step(w) \/ Except(w) \/ Crash(w),
         Halve(w)
  PROVE  halved' \subseteq blind' /\ halved \subseteq halved'
<1>1. At(w, "publishManifest") /\ Published(Id(w)) => Id(w) \in blind
  BY DEF PublishInv, PublishInvOf, At, StagingPoints
<1> QED BY <1>1, BlindStays DEF Halve, PublishInv

(* A step that publishes nothing and at most removes staged files. *)
LEMMA PublishQuiet ==
  ASSUME Types, CallInv, PublishInv, NEW w \in Workers, Call(w) \/ Step(w) \/ Except(w) \/ Crash(w),
         UNCHANGED published, PublishInvOf(w)', Halve(w),
         \A i \in Identities : /\ tmpArtifact'[i] \in {NoFile, tmpArtifact[i]}
                               /\ tmpManifest'[i] \in {NoManifest, tmpManifest[i]}
  PROVE  PublishInv'
<1>0. blind \subseteq blind' /\ halved' \subseteq blind' /\ halved \subseteq halved'
  BY BlindStays, HalvedBlind
<1>1. VisibilityUnit'
  BY <1>0, UnitFrame DEF VisibilityUnit, published
<1>2. ASSUME NEW u \in Workers \ {w} PROVE PublishInvOf(u)'
  <2>1. pc'[u] = pc[u] /\ job'[u] = job[u] /\ answer'[u] = answer[u]
    BY OthersStay
  <2>2. pc[u] \in PublishPoints => Id(u) \in Identities
    BY DEF CallInv, CallInvOf, GenerateJobs, Id
  <2> QED BY <1>0, <2>1, <2>2, PublishFrame DEF published
<1>3. (\A i \in Identities : Published(i) => artifact[i] # NoFile)'
  BY DEF PublishInv, Published, published
<1> QED BY <1>0, <1>1, <1>2, <1>3 DEF PublishInv

(* A step of a writer at work that changes files of its identity alone. *)
LEMMA PublishOwn ==
  ASSUME Types, CallInv, PublishInv, NEW w \in Workers, Call(w) \/ Step(w) \/ Except(w) \/ Crash(w),
         NEW i \in Identities, i = Id(w), pc[w] \in PublishPoints, PublishInvOf(w)', UnitOK(i)',
         Published(i)' => artifact'[i] # NoFile,
         halved' \subseteq blind', halved \ {i} \subseteq halved',
         \A k \in Identities \ {i} :
            /\ artifact'[k] = artifact[k] /\ manifest'[k] = manifest[k]
            /\ tmpArtifact'[k] = tmpArtifact[k] /\ tmpManifest'[k] = tmpManifest[k]
  PROVE  PublishInv'
<1>1. \A k \in Identities \ {i} : UnitOK(k)'
  BY UnitFrame
<1>2. ASSUME NEW u \in Workers \ {w} PROVE PublishInvOf(u)'
  <2>1. pc'[u] = pc[u] /\ job'[u] = job[u] /\ answer'[u] = answer[u]
    BY OthersStay
  <2>2. pc[u] \in PublishPoints => Id(u) \in Identities \ {i}
    BY Exclusive DEF CallInv, CallInvOf, GenerateJobs, Id
  <2> QED BY <2>1, <2>2, BlindStays, PublishFrame
<1>3. \A k \in Identities \ {i} : (Published(k) => artifact[k] # NoFile)'
  BY DEF PublishInv, Published
<1>4. VisibilityUnit' /\ (\A k \in Identities : Published(k) => artifact[k] # NoFile)'
  BY <1>1, <1>3 DEF VisibilityUnit
<1>5. PublishInvOf(w)' /\ halved' \subseteq blind'
  OBVIOUS
<1> QED BY <1>2, <1>4, <1>5 DEF PublishInv

(* Every step keeps the artifact and the manifest together. *)
LEMMA PublishStep == Types /\ CallInv /\ PublishInv /\ [Next]_vars => PublishInv'
<1> SUFFICES ASSUME Types, CallInv, PublishInv, [Next]_vars PROVE PublishInv'
  OBVIOUS
<1>1. CASE UNCHANGED vars
  BY <1>1 DEF vars, published, staging, overwrites, PublishInv, PublishInvOf, VisibilityUnit,
     UnitOK, Overwriting, At, Published, Id
<1>2. ASSUME NEW w \in Workers, Call(w) \/ Step(w) \/ Except(w) \/ Crash(w)
      PROVE  PublishInv'
  <2>1. CASE Generate(w)
    <3>1. PublishInvOf(w)'
      BY <2>1 DEF Generate, Begin, Goto, Types, WorkersTypeOK, PublishInvOf, PublishPoints,
         StagingPoints, ReadPoints, CleanPoints
    <3>2. UNCHANGED <<published, tmpArtifact, tmpManifest>> /\ Halve(w)
      BY <2>1 DEF Generate, Begin, staging, Halve, At, overwrites
    <3> QED BY <1>2, <3>1, <3>2, PublishQuiet
  <2>2. CASE Cleanup(w)
    <3>1. PublishInvOf(w)'
      BY <2>2 DEF Cleanup, Begin, Goto, Types, WorkersTypeOK, PublishInvOf, PublishPoints,
         StagingPoints, ReadPoints, CleanPoints
    <3>2. UNCHANGED <<published, tmpArtifact, tmpManifest>> /\ Halve(w)
      BY <2>2 DEF Cleanup, Begin, staging, Halve, At, overwrites
    <3> QED BY <1>2, <3>1, <3>2, PublishQuiet
  <2>3. CASE \E kind \in {"read", "status", "list"} : Read(w, kind)
    <3>1. PICK kind \in {"read", "status", "list"} : Read(w, kind)
      BY <2>3
    <3>2. pc'[w] \in ReadPoints
      BY <3>1 DEF Read, Begin, Goto, Types, WorkersTypeOK, ReadPoints
    <3>3. PublishInvOf(w)'
      BY <3>2 DEF PublishInvOf, PublishPoints, StagingPoints, ReadPoints, CleanPoints
    <3>4. UNCHANGED <<published, tmpArtifact, tmpManifest>> /\ Halve(w)
      BY <3>1 DEF Read, Begin, staging, Halve, At, overwrites
    <3> QED BY <1>2, <3>3, <3>4, PublishQuiet
  <2>4. CASE AcquireLock(w)
    <3>1. CallInvOf(w) /\ PublishInvOf(w)
      BY DEF CallInv, PublishInv
    <3>2. PublishInvOf(w)'
      BY <2>4, <3>1 DEF AcquireLock, At, Return, Onward, Unwind, Learn, Goto, Refusal, Answer,
                 Types, WorkersTypeOK, PublishInvOf, Published, published, overwrites, Id,
                    PublishPoints,
                    StagingPoints, ReadPoints, CleanPoints
    <3>3. UNCHANGED <<published, tmpArtifact, tmpManifest>> /\ Halve(w)
      BY <2>4 DEF AcquireLock, staging, Halve, At, overwrites
    <3> QED BY <1>2, <3>2, <3>3, PublishQuiet
  <2>5. CASE Look(w)
    <3>1. CallInvOf(w) /\ PublishInvOf(w)
      BY DEF CallInv, PublishInv
    <3>2. PublishInvOf(w)'
      BY <2>5, <3>1 DEF Look, At, Return, Onward, Unwind, Learn, Goto, Refusal, Answer,
                 Types, WorkersTypeOK, PublishInvOf, Published, published, overwrites, Id,
                    PublishPoints,
                    StagingPoints, ReadPoints, CleanPoints
    <3>3. UNCHANGED <<published, tmpArtifact, tmpManifest>> /\ Halve(w)
      BY <2>5 DEF Look, staging, Halve, At, overwrites
    <3> QED BY <1>2, <3>2, <3>3, PublishQuiet
  <2>6. CASE MakeStaging(w)
    <3>1. CallInvOf(w) /\ PublishInvOf(w)
      BY DEF CallInv, PublishInv
    <3>2. PublishInvOf(w)'
      BY <2>6, <3>1 DEF MakeStaging, At, Return, Onward, Unwind, Learn, Goto, Refusal, Answer,
                 Types, WorkersTypeOK, PublishInvOf, Published, published, overwrites, Id,
                    PublishPoints,
                    StagingPoints, ReadPoints, CleanPoints
    <3>3. UNCHANGED <<published, tmpArtifact, tmpManifest>> /\ Halve(w)
      BY <2>6 DEF MakeStaging, staging, Halve, At, overwrites
    <3> QED BY <1>2, <3>2, <3>3, PublishQuiet
  <2>7. CASE StageArtifact(w)
    <3>1. CallInvOf(w) /\ PublishInvOf(w)
      BY DEF CallInv, PublishInv
    <3>2. /\ job[w] \in GenerateJobs /\ Id(w) \in Identities
          /\ pc[w] \in PublishPoints
      BY <2>7, <3>1 DEF StageArtifact, At, CallInvOf, PublishInvOf, GenerateJobs, Id,
         PublishPoints, StagingPoints, ReadPoints, CleanPoints
    <3>0. PICK i \in Identities : i = Id(w)
      BY <3>2
    <3>3. UnitOK(i)' /\ halved' \subseteq blind' /\ halved \subseteq halved'
      <4>1. Halve(w) /\ UNCHANGED published
        BY <2>7 DEF StageArtifact, Halve, At, overwrites
      <4> QED BY <1>2, <3>0, <3>2, <4>1, UnitFrame, HalvedBlind DEF published
    <3>6. Published(i)' => artifact'[i] # NoFile
      BY <2>7, <3>0, <3>2 DEF StageArtifact, PublishInv, Published, published
    <3>4. PublishInvOf(w)'
      BY <2>7, <3>1, <3>2 DEF StageArtifact, At, Onward, Unwind, Goto, Refusal, Answer, published,
                 Types, FilesTypeOK, WorkersTypeOK, PublishInvOf, Published, overwrites, Id,
                    PublishPoints,
                    StagingPoints, ReadPoints, CleanPoints
    <3>5. \A k \in Identities \ {i} :
             /\ artifact'[k] = artifact[k] /\ manifest'[k] = manifest[k]
             /\ tmpArtifact'[k] = tmpArtifact[k] /\ tmpManifest'[k] = tmpManifest[k]
      BY <3>0, <2>7, <3>2 DEF StageArtifact, published, Types, FilesTypeOK
    <3> QED BY <1>2, <3>0, <3>2, <3>3, <3>4, <3>5, <3>6, PublishOwn
  <2>8. CASE CheckArtifact(w)
    <3>1. CallInvOf(w) /\ PublishInvOf(w)
      BY DEF CallInv, PublishInv
    <3>2. PublishInvOf(w)'
      BY <2>8, <3>1 DEF CheckArtifact, At, Return, Onward, Unwind, Learn, Goto, Refusal, Answer,
                 Types, WorkersTypeOK, PublishInvOf, Published, published, overwrites, staging, Id,
                    PublishPoints, StagingPoints, ReadPoints, CleanPoints
    <3>3. UNCHANGED <<published, tmpArtifact, tmpManifest>> /\ Halve(w)
      BY <2>8 DEF CheckArtifact, staging, Halve, At, overwrites
    <3> QED BY <1>2, <3>2, <3>3, PublishQuiet
  <2>9. CASE StageManifest(w)
    <3>1. CallInvOf(w) /\ PublishInvOf(w)
      BY DEF CallInv, PublishInv
    <3>2. /\ job[w] \in GenerateJobs /\ Id(w) \in Identities
          /\ pc[w] \in PublishPoints
      BY <2>9, <3>1 DEF StageManifest, At, CallInvOf, PublishInvOf, GenerateJobs, Id,
         PublishPoints, StagingPoints, ReadPoints, CleanPoints
    <3>0. PICK i \in Identities : i = Id(w)
      BY <3>2
    <3>3. UnitOK(i)' /\ halved' \subseteq blind' /\ halved \subseteq halved'
      <4>1. Halve(w) /\ UNCHANGED published
        BY <2>9 DEF StageManifest, Halve, At, overwrites
      <4> QED BY <1>2, <3>0, <3>2, <4>1, UnitFrame, HalvedBlind DEF published
    <3>6. Published(i)' => artifact'[i] # NoFile
      BY <2>9, <3>0, <3>2 DEF StageManifest, PublishInv, Published, published
    <3>4. PublishInvOf(w)'
      BY <2>9, <3>1, <3>2 DEF StageManifest, At, Onward, Unwind, Goto, Refusal, Answer, published,
                 Types, FilesTypeOK, WorkersTypeOK, PublishInvOf, Published, overwrites, Id,
                    PublishPoints,
                    StagingPoints, ReadPoints, CleanPoints
    <3>5. \A k \in Identities \ {i} :
             /\ artifact'[k] = artifact[k] /\ manifest'[k] = manifest[k]
             /\ tmpArtifact'[k] = tmpArtifact[k] /\ tmpManifest'[k] = tmpManifest[k]
      BY <3>0, <2>9, <3>2 DEF StageManifest, published, Types, FilesTypeOK
    <3> QED BY <1>2, <3>0, <3>2, <3>3, <3>4, <3>5, <3>6, PublishOwn
  <2>10. CASE PublishArtifact(w)
    <3>1. CallInvOf(w) /\ PublishInvOf(w)
      BY DEF CallInv, PublishInv
    <3>2. /\ job[w] \in GenerateJobs /\ Id(w) \in Identities
          /\ pc[w] \in PublishPoints
      BY <2>10, <3>1 DEF PublishArtifact, At, CallInvOf, PublishInvOf, GenerateJobs, Id,
         PublishPoints, StagingPoints, ReadPoints, CleanPoints
    <3>0. PICK i \in Identities : i = Id(w)
      BY <3>2
    <3>3. UnitOK(i)' /\ halved' \subseteq blind' /\ halved \subseteq halved'
      <4>1. Halve(w) /\ UNCHANGED <<manifest, overwrites>>
        BY <2>10 DEF PublishArtifact, Halve, At, overwrites
      <4>2. CASE tmpArtifact[Id(w)] = NoFile
        <5>1. UNCHANGED published
          BY <2>10, <4>2 DEF PublishArtifact, published
        <5> QED BY <1>2, <3>0, <3>2, <4>1, <5>1, UnitFrame, HalvedBlind DEF published
      <4>3. CASE tmpArtifact[Id(w)] # NoFile
        <5>1. Published(i)' => i \in blind'
          BY <2>10, <3>0, <3>1, <4>1 DEF PublishArtifact, At, PublishInvOf, StagingPoints, Published,
             overwrites
        <5>2. At(w, "publishManifest")' /\ Id(w)' = i
          BY <2>10, <3>0, <4>3 DEF PublishArtifact, Onward, Goto, At, Id, Types, WorkersTypeOK
        <5>3. UnitOK(i)'
          BY <5>1, <5>2 DEF UnitOK, Overwriting
        <5> QED BY <1>2, <4>1, <5>3, HalvedBlind
      <4> QED BY <4>2, <4>3
    <3>6. Published(i)' => artifact'[i] # NoFile
      BY <2>10, <3>0, <3>2 DEF PublishArtifact, PublishInv, Published, published, Types, FilesTypeOK
    <3>4. PublishInvOf(w)'
      BY <2>10, <3>1, <3>2 DEF PublishArtifact, At, Onward, Unwind, Goto, Refusal, Answer,
         published,
                 Types, FilesTypeOK, WorkersTypeOK, PublishInvOf, Published, overwrites, Id,
                    PublishPoints,
                    StagingPoints, ReadPoints, CleanPoints
    <3>5. \A k \in Identities \ {i} :
             /\ artifact'[k] = artifact[k] /\ manifest'[k] = manifest[k]
             /\ tmpArtifact'[k] = tmpArtifact[k] /\ tmpManifest'[k] = tmpManifest[k]
      BY <3>0, <2>10, <3>2 DEF PublishArtifact, published, Types, FilesTypeOK
    <3> QED BY <1>2, <3>0, <3>2, <3>3, <3>4, <3>5, <3>6, PublishOwn
  <2>11. CASE PublishManifest(w)
    <3>1. CallInvOf(w) /\ PublishInvOf(w)
      BY DEF CallInv, PublishInv
    <3>2. /\ job[w] \in GenerateJobs /\ Id(w) \in Identities
          /\ pc[w] \in PublishPoints
      BY <2>11, <3>1 DEF PublishManifest, At, CallInvOf, PublishInvOf, GenerateJobs, Id,
         PublishPoints, StagingPoints, ReadPoints, CleanPoints
    <3>0. PICK i \in Identities : i = Id(w)
      BY <3>2
    <3>3. UnitOK(i)' /\ halved' \subseteq blind' /\ halved \ {i} \subseteq halved'
      <4>1. CASE tmpManifest[Id(w)] = NoManifest
        <5>1. Halve(w) /\ UNCHANGED published
          BY <2>11, <4>1 DEF PublishManifest, published
        <5> QED BY <1>2, <3>0, <3>2, <5>1, UnitFrame, HalvedBlind DEF published
      <4>2. CASE tmpManifest[Id(w)] # NoManifest
        <5>1. manifest'[i] = job[w].manifest /\ artifact'[i] = job[w].manifest.hash
          BY <2>11, <3>0, <3>1, <3>2, <4>2 DEF PublishManifest, At, PublishInvOf, Types, FilesTypeOK
        <5>2. halved' = halved \ {i} /\ blind' = blind
          BY <2>11, <3>0, <4>2 DEF PublishManifest
        <5> QED BY <5>1, <5>2 DEF UnitOK, PublishInv
      <4> QED BY <4>1, <4>2
    <3>6. Published(i)' => artifact'[i] # NoFile
      <4>1. artifact'[i] = job[w].manifest.hash
        BY <2>11, <3>0, <3>1 DEF PublishManifest, At, PublishInvOf
      <4> QED BY <3>2, <4>1, Documents, ProjectionAssumption DEF GenerateJobs
    <3>4. PublishInvOf(w)'
      BY <2>11, <3>1, <3>2 DEF PublishManifest, At, Onward, Unwind, Goto, Refusal, Answer,
         published,
                 Types, FilesTypeOK, WorkersTypeOK, PublishInvOf, Published, overwrites, Id,
                    PublishPoints,
                    StagingPoints, ReadPoints, CleanPoints
    <3>5. \A k \in Identities \ {i} :
             /\ artifact'[k] = artifact[k] /\ manifest'[k] = manifest[k]
             /\ tmpArtifact'[k] = tmpArtifact[k] /\ tmpManifest'[k] = tmpManifest[k]
      BY <3>0, <2>11, <3>2 DEF PublishManifest, published, Types, FilesTypeOK
    <3> QED BY <1>2, <3>0, <3>2, <3>3, <3>4, <3>5, <3>6, PublishOwn
  <2>12. CASE DropStaged(w)
    <3>1. CallInvOf(w) /\ PublishInvOf(w)
      BY DEF CallInv, PublishInv
    <3>2. PublishInvOf(w)'
      BY <2>12, <3>1 DEF DropStaged, At, Return, Onward, Unwind, Learn, Goto, Refusal, Answer,
                 Types, WorkersTypeOK, PublishInvOf, Published, published, overwrites, Id,
                    PublishPoints,
                    StagingPoints, ReadPoints, CleanPoints
    <3>3. /\ UNCHANGED published /\ Halve(w)
          /\ \A i \in Identities : /\ tmpArtifact'[i] \in {NoFile, tmpArtifact[i]}
                                 /\ tmpManifest'[i] \in {NoManifest, tmpManifest[i]}
      BY <2>12 DEF DropStaged, Types, FilesTypeOK, Halve, At, overwrites
    <3> QED BY <1>2, <3>2, <3>3, PublishQuiet
  <2>13. CASE ReadBack(w)
    <3>1. CallInvOf(w) /\ PublishInvOf(w)
      BY DEF CallInv, PublishInv
    <3>2. PublishInvOf(w)'
      BY <2>13, <3>1 DEF ReadBack, At, Return, Onward, Unwind, Learn, Goto, Refusal, Answer,
                 Types, WorkersTypeOK, PublishInvOf, Published, published, overwrites, Id,
                    PublishPoints,
                    StagingPoints, ReadPoints, CleanPoints
    <3>3. UNCHANGED <<published, tmpArtifact, tmpManifest>> /\ Halve(w)
      BY <2>13 DEF ReadBack, staging, Halve, At, overwrites
    <3> QED BY <1>2, <3>2, <3>3, PublishQuiet
  <2>14. CASE ReadData(w)
    <3>1. CallInvOf(w) /\ PublishInvOf(w)
      BY DEF CallInv, PublishInv
    <3>2. PublishInvOf(w)'
      BY <2>14, <3>1 DEF ReadData, At, Return, Onward, Unwind, Learn, Goto, Refusal, Answer,
                 Types, WorkersTypeOK, PublishInvOf, Published, published, overwrites, Id,
                    PublishPoints,
                    StagingPoints, ReadPoints, CleanPoints
    <3>3. UNCHANGED <<published, tmpArtifact, tmpManifest>> /\ Halve(w)
      BY <2>14 DEF ReadData, staging, Halve, At, overwrites
    <3> QED BY <1>2, <3>2, <3>3, PublishQuiet
  <2>15. CASE LookFirst(w)
    <3>1. CallInvOf(w) /\ PublishInvOf(w)
      BY DEF CallInv, PublishInv
    <3>2. PublishInvOf(w)'
      BY <2>15, <3>1 DEF LookFirst, At, Return, Onward, Unwind, Learn, Goto, Refusal, Answer,
                 Types, WorkersTypeOK, PublishInvOf, Published, published, overwrites, Id,
                    PublishPoints,
                    StagingPoints, ReadPoints, CleanPoints
    <3>3. UNCHANGED <<published, tmpArtifact, tmpManifest>> /\ Halve(w)
      BY <2>15 DEF LookFirst, staging, Halve, At, overwrites
    <3> QED BY <1>2, <3>2, <3>3, PublishQuiet
  <2>16. CASE LookStaged(w)
    <3>1. CallInvOf(w) /\ PublishInvOf(w)
      BY DEF CallInv, PublishInv
    <3>2. PublishInvOf(w)'
      BY <2>16, <3>1 DEF LookStaged, At, Return, Onward, Unwind, Learn, Goto, Refusal, Answer,
                 Types, WorkersTypeOK, PublishInvOf, Published, published, overwrites, Id,
                    PublishPoints,
                    StagingPoints, ReadPoints, CleanPoints
    <3>3. UNCHANGED <<published, tmpArtifact, tmpManifest>> /\ Halve(w)
      BY <2>16 DEF LookStaged, staging, Halve, At, overwrites
    <3> QED BY <1>2, <3>2, <3>3, PublishQuiet
  <2>17. CASE ReadManifest(w)
    <3>1. CallInvOf(w) /\ PublishInvOf(w)
      BY DEF CallInv, PublishInv
    <3>2. PublishInvOf(w)'
      BY <2>17, <3>1 DEF ReadManifest, At, Return, Onward, Unwind, Learn, Goto, Refusal, Answer,
                 Types, WorkersTypeOK, PublishInvOf, Published, published, overwrites, Id,
                    PublishPoints,
                    StagingPoints, ReadPoints, CleanPoints
    <3>3. UNCHANGED <<published, tmpArtifact, tmpManifest>> /\ Halve(w)
      BY <2>17 DEF ReadManifest, staging, Halve, At, overwrites
    <3> QED BY <1>2, <3>2, <3>3, PublishQuiet
  <2>18. CASE Compare(w)
    <3>1. CallInvOf(w) /\ PublishInvOf(w)
      BY DEF CallInv, PublishInv
    <3>2. PublishInvOf(w)'
      BY <2>18, <3>1 DEF Compare, At, Return, Onward, Unwind, Learn, Goto, Refusal, Answer,
                 Types, WorkersTypeOK, PublishInvOf, Published, published, overwrites, Id,
                    PublishPoints,
                    StagingPoints, ReadPoints, CleanPoints
    <3>3. UNCHANGED <<published, tmpArtifact, tmpManifest>> /\ Halve(w)
      BY <2>18 DEF Compare, staging, Halve, At, overwrites
    <3> QED BY <1>2, <3>2, <3>3, PublishQuiet
  <2>19. CASE ListStaged(w)
    <3>1. CallInvOf(w) /\ PublishInvOf(w)
      BY DEF CallInv, PublishInv
    <3>2. PublishInvOf(w)'
      BY <2>19, <3>1 DEF ListStaged, At, Return, Onward, Unwind, Learn, Goto, Refusal, Answer,
                 Types, WorkersTypeOK, PublishInvOf, Published, published, overwrites, Id,
                    PublishPoints,
                    StagingPoints, ReadPoints, CleanPoints
    <3>3. UNCHANGED <<published, tmpArtifact, tmpManifest>> /\ Halve(w)
      BY <2>19 DEF ListStaged, staging, Halve, At, overwrites
    <3> QED BY <1>2, <3>2, <3>3, PublishQuiet
  <2>20. CASE Unlink(w)
    <3>1. CallInvOf(w) /\ PublishInvOf(w)
      BY DEF CallInv, PublishInv
    <3>2. PublishInvOf(w)'
      BY <2>20, <3>1 DEF Unlink, At, Return, Onward, Unwind, Learn, Goto, Refusal, Answer,
                 Types, WorkersTypeOK, PublishInvOf, Published, published, overwrites, Id,
                    PublishPoints,
                    StagingPoints, ReadPoints, CleanPoints
    <3>3. /\ UNCHANGED published /\ Halve(w)
          /\ \A i \in Identities : /\ tmpArtifact'[i] \in {NoFile, tmpArtifact[i]}
                                 /\ tmpManifest'[i] \in {NoManifest, tmpManifest[i]}
      BY <2>20 DEF Unlink, Types, FilesTypeOK, Halve, At, overwrites
    <3> QED BY <1>2, <3>2, <3>3, PublishQuiet
  <2>21. CASE LeaveDirectory(w)
    <3>1. CallInvOf(w) /\ PublishInvOf(w)
      BY DEF CallInv, PublishInv
    <3>2. PublishInvOf(w)'
      BY <2>21, <3>1 DEF LeaveDirectory, At, Return, Onward, Unwind, Learn, Goto, Refusal, Answer,
                 Types, WorkersTypeOK, PublishInvOf, Published, published, overwrites, Id,
                    PublishPoints,
                    StagingPoints, ReadPoints, CleanPoints
    <3>3. UNCHANGED <<published, tmpArtifact, tmpManifest>> /\ Halve(w)
      BY <2>21 DEF LeaveDirectory, staging, Halve, At, overwrites
    <3> QED BY <1>2, <3>2, <3>3, PublishQuiet
  <2>22. CASE EndCleanup(w)
    <3>1. CallInvOf(w) /\ PublishInvOf(w)
      BY DEF CallInv, PublishInv
    <3>2. PublishInvOf(w)'
      BY <2>22, <3>1 DEF EndCleanup, At, Return, Onward, Unwind, Learn, Goto, Refusal, Answer,
                 Types, WorkersTypeOK, PublishInvOf, Published, published, overwrites, Id,
                    PublishPoints,
                    StagingPoints, ReadPoints, CleanPoints
    <3>3. UNCHANGED <<published, tmpArtifact, tmpManifest>> /\ Halve(w)
      BY <2>22 DEF EndCleanup, staging, Halve, At, overwrites
    <3> QED BY <1>2, <3>2, <3>3, PublishQuiet
  <2>23. CASE Except(w)
    <3>1. CallInvOf(w) /\ PublishInvOf(w)
      BY DEF CallInv, PublishInv
    <3>2. PublishInvOf(w)'
      BY <2>23, <3>1 DEF Except, At, Return, Onward, Unwind, Learn, Goto, Refusal, Answer,
                 Types, WorkersTypeOK, PublishInvOf, Published, published, overwrites, Id,
                    PublishPoints,
                    StagingPoints, ReadPoints, CleanPoints
    <3>3. UNCHANGED <<published, tmpArtifact, tmpManifest>> /\ Halve(w)
      BY <2>23 DEF Except, staging
    <3> QED BY <1>2, <3>2, <3>3, PublishQuiet
  <2>24. CASE Crash(w)
    <3>1. CallInvOf(w) /\ PublishInvOf(w)
      BY DEF CallInv, PublishInv
    <3>2. PublishInvOf(w)'
      BY <2>24, <3>1 DEF Crash, At, Return, Onward, Unwind, Learn, Goto, Refusal, Answer,
                 Types, WorkersTypeOK, PublishInvOf, Published, published, overwrites, Id,
                    PublishPoints,
                    StagingPoints, ReadPoints, CleanPoints
    <3>3. UNCHANGED <<published, tmpArtifact, tmpManifest>> /\ Halve(w)
      BY <2>24 DEF Crash, staging
    <3> QED BY <1>2, <3>2, <3>3, PublishQuiet
  <2>25. CASE LookFails(w)
    <3>1. CallInvOf(w) /\ PublishInvOf(w)
      BY DEF CallInv, PublishInv
    <3>2. PublishInvOf(w)'
      <4>1. pc'[w] = "mkdir" /\ Id(w) \in blind' /\ Id(w)' = Id(w)
        BY <2>25 DEF LookFails, Goto, Id, Types, WorkersTypeOK
      <4> QED BY <4>1 DEF PublishInvOf, PublishPoints, StagingPoints
    <3>3. UNCHANGED <<published, tmpArtifact, tmpManifest>> /\ Halve(w)
      BY <2>25 DEF LookFails, staging, Halve, At
    <3> QED BY <1>2, <3>2, <3>3, PublishQuiet
  <2> QED
    BY <1>2, <2>1, <2>2, <2>3, <2>4, <2>5, <2>6, <2>7, <2>8, <2>9, <2>10,
       <2>11, <2>12, <2>13, <2>14, <2>15, <2>16, <2>17, <2>18, <2>19,
       <2>20, <2>21, <2>22, <2>23, <2>24, <2>25
       DEF Call, Step, Publication, Reading, Cleaning
<1> QED BY <1>1, <1>2 DEF Next

(* What is published is not touched again, unless a look at it has failed. *)
LEMMA StaysStep ==
  ASSUME Types, CallInv, PublishInv, [Next]_vars, NEW i \in Identities, Published(i), i \notin blind
  PROVE  artifact'[i] = artifact[i] /\ manifest'[i] = manifest[i]
<1>1. CASE UNCHANGED vars
  BY <1>1 DEF vars, published
<1>2. ASSUME NEW w \in Workers, Call(w) \/ Step(w) \/ Except(w) \/ Crash(w)
      PROVE  artifact'[i] = artifact[i] /\ manifest'[i] = manifest[i]
  <2>1. CASE PublishArtifact(w) \/ PublishManifest(w)
    <3>1. pc[w] \in StagingPoints
      BY <2>1 DEF PublishArtifact, PublishManifest, At, StagingPoints
    <3>2. Id(w) # i
      BY <3>1 DEF PublishInv, PublishInvOf
    <3> QED BY <2>1, <3>2 DEF PublishArtifact, PublishManifest, Types, FilesTypeOK
  <2>2. CASE ~(PublishArtifact(w) \/ PublishManifest(w))
    <3>1. UNCHANGED published
      BY <1>2, <2>2 DEF Call, Step, Publication, Reading, Cleaning, Generate, Cleanup, Read, Begin,
         AcquireLock, Look, LookFails, MakeStaging, StageArtifact, CheckArtifact, StageManifest, DropStaged,
         ReadBack, ReadData, LookFirst, LookStaged, ReadManifest, Compare, ListStaged, Unlink,
         LeaveDirectory, EndCleanup, Except, Crash
    <3> QED BY <3>1 DEF published
  <2> QED BY <2>1, <2>2
<1> QED BY <1>1, <1>2 DEF Next

(* What is published stays published. *)
LEMMA PublishedStays ==
  ASSUME Types, [Next]_vars, NEW i \in Identities, Published(i)
  PROVE  Published(i)'
<1>1. CASE UNCHANGED vars
  BY <1>1 DEF vars, published, Published
<1>2. ASSUME NEW w \in Workers, Call(w) \/ Step(w) \/ Except(w) \/ Crash(w)
      PROVE  Published(i)'
  <2>1. CASE PublishManifest(w)
    BY <2>1 DEF PublishManifest, Published, Types, FilesTypeOK
  <2>2. CASE ~PublishManifest(w)
    <3>1. UNCHANGED manifest
      BY <1>2, <2>2 DEF Call, Step, Publication, Reading, Cleaning, Generate, Cleanup, Read, Begin,
         AcquireLock, Look, LookFails, MakeStaging, StageArtifact, CheckArtifact, StageManifest,
         PublishArtifact, DropStaged, ReadBack, ReadData, LookFirst, LookStaged, ReadManifest,
         Compare, ListStaged, Unlink, LeaveDirectory, EndCleanup, Except, Crash, published
    <3> QED BY <3>1 DEF Published
  <2> QED BY <2>1, <2>2
<1> QED BY <1>1, <1>2 DEF Next

(* A look that failed has failed, whoever's step it is. *)
LEMMA BlindStep == [Next]_vars => blind \subseteq blind'
BY BlindStays DEF Next, vars, overwrites

(* An answer, and what a reader has learned, stay right. *)
LEMMA AnswerFrame ==
  ASSUME Types, CallInv, PublishInv, AnswerInv, [Next]_vars, NEW u \in Workers
  PROVE  /\ answer'[u] = answer[u] => AnswerOK(u)'
         /\ pc'[u] = pc[u] /\ job'[u] = job[u] /\ found'[u] = found[u] => CompareOK(u)'
<1>1. AnswerOK(u) /\ CompareOK(u)
  BY DEF AnswerInv
<1>2. answer[u].outcome \in {"done", "validated"} => answer[u].id \in Identities
  BY DEF Types, WorkersTypeOK, Answers, NoAnswer
<1>3. pc[u] = "compare" => Id(u) \in Identities
  BY Identity
<1> QED BY <1>1, <1>2, <1>3, StaysStep, PublishedStays, BlindStep DEF AnswerOK, CompareOK, Id

(* Every step keeps answers right. *)
LEMMA AnswerStep == Types /\ CallInv /\ PublishInv /\ AnswerInv /\ [Next]_vars => AnswerInv'
<1> SUFFICES ASSUME Types, CallInv, PublishInv, AnswerInv, [Next]_vars PROVE AnswerInv'
  OBVIOUS
<1>1. CASE UNCHANGED vars
  BY <1>1 DEF vars, published, overwrites, AnswerInv, AnswerOK, CompareOK, Published, Id
<1>2. ASSUME NEW w \in Workers, Call(w) \/ Step(w) \/ Except(w) \/ Crash(w)
      PROVE  AnswerInv'
  <2>a. ASSUME NEW u \in Workers \ {w} PROVE AnswerOK(u)' /\ CompareOK(u)'
    BY <1>2, OthersStay, AnswerFrame
  <2>b. /\ answer'[w] = answer[w] => AnswerOK(w)'
        /\ pc'[w] = pc[w] /\ job'[w] = job[w] /\ found'[w] = found[w] => CompareOK(w)'
    BY AnswerFrame
  <2>1. CASE Generate(w)
    <3>1. /\ answer'[w] = answer[w] \/ answer'[w].outcome \notin {"done", "validated"}
          /\ pc'[w] # "compare"
      BY <2>1 DEF Generate, At, Begin, Return, Onward, Unwind, Learn, Goto, Refusal, Answer,
         NoAnswer,
          Types, WorkersTypeOK
    <3> QED BY <2>a, <2>b, <3>1 DEF AnswerInv, AnswerOK, CompareOK
  <2>2. CASE Cleanup(w)
    <3>1. /\ answer'[w] = answer[w] \/ answer'[w].outcome \notin {"done", "validated"}
          /\ pc'[w] # "compare"
      BY <2>2 DEF Cleanup, At, Begin, Return, Onward, Unwind, Learn, Goto, Refusal, Answer,
         NoAnswer,
          Types, WorkersTypeOK
    <3> QED BY <2>a, <2>b, <3>1 DEF AnswerInv, AnswerOK, CompareOK
  <2>3. CASE \E kind \in {"read", "status", "list"} : Read(w, kind)
    <3>1. PICK kind \in {"read", "status", "list"} : Read(w, kind)
      BY <2>3
    <3>2. /\ answer'[w] = answer[w] \/ answer'[w].outcome \notin {"done", "validated"}
          /\ pc'[w] # "compare"
      BY <3>1 DEF Read, At, Begin, Return, Onward, Unwind, Learn, Goto, Refusal, Answer, NoAnswer,
          Types, WorkersTypeOK
    <3> QED BY <2>a, <2>b, <3>2 DEF AnswerInv, AnswerOK, CompareOK
  <2>4. CASE AcquireLock(w)
    <3>1. /\ answer'[w] = answer[w] \/ answer'[w].outcome \notin {"done", "validated"}
          /\ pc'[w] # "compare"
      BY <2>4 DEF AcquireLock, At, Begin, Return, Onward, Unwind, Learn, Goto, Refusal, Answer,
         NoAnswer,
          Types, WorkersTypeOK
    <3> QED BY <2>a, <2>b, <3>1 DEF AnswerInv, AnswerOK, CompareOK
  <2>5. CASE Look(w)
    <3>1. Id(w) \in Identities /\ CallInvOf(w) /\ PublishInvOf(w) /\ CompareOK(w)
      BY <2>5, Identity DEF Look, At, CallInv, PublishInv, AnswerInv
    <3>2. CASE pc'[w] # "idle"
      <4>1. answer'[w] = answer[w]
        BY <2>5, <3>2 DEF Look, At, Begin, Return, Onward, Unwind, Learn, Goto, Refusal, Answer,
           NoAnswer,
          Types, WorkersTypeOK
      <4>2. CompareOK(w)'
        BY <2>5, <3>1, <3>2 DEF Look, At, Begin, Return, Onward, Unwind, Learn, Goto, Refusal,
           Answer, NoAnswer,
          Types, WorkersTypeOK, CompareOK, Published, published, Found, Id
      <4> QED BY <2>a, <2>b, <4>1, <4>2 DEF AnswerInv
    <3>3. CASE pc'[w] = "idle"
      <4>1. AnswerOK(w)'
        BY <2>5, <3>1, <3>3, Documents DEF Look, At, Begin, Return, Onward, Unwind, Learn, Goto,
           Refusal, Answer, NoAnswer,
          Types, WorkersTypeOK, AnswerOK, CallInvOf, PublishInvOf, CompareOK,
           PublishInv, Published, published, overwrites, GenerateJobs, ReadJobs, Id,
              PublishPoints, StagingPoints, ReadPoints, CleanPoints
      <4>2. CompareOK(w)'
        BY <3>3 DEF CompareOK
      <4> QED BY <2>a, <4>1, <4>2 DEF AnswerInv
    <3> QED BY <3>2, <3>3
  <2>6. CASE MakeStaging(w)
    <3>1. /\ answer'[w] = answer[w] \/ answer'[w].outcome \notin {"done", "validated"}
          /\ pc'[w] # "compare"
      BY <2>6 DEF MakeStaging, At, Begin, Return, Onward, Unwind, Learn, Goto, Refusal, Answer,
         NoAnswer,
          Types, WorkersTypeOK
    <3> QED BY <2>a, <2>b, <3>1 DEF AnswerInv, AnswerOK, CompareOK
  <2>7. CASE StageArtifact(w)
    <3>1. /\ answer'[w] = answer[w] \/ answer'[w].outcome \notin {"done", "validated"}
          /\ pc'[w] # "compare"
      BY <2>7 DEF StageArtifact, At, Begin, Return, Onward, Unwind, Learn, Goto, Refusal, Answer,
         NoAnswer,
          Types, WorkersTypeOK
    <3> QED BY <2>a, <2>b, <3>1 DEF AnswerInv, AnswerOK, CompareOK
  <2>8. CASE CheckArtifact(w)
    <3>1. /\ answer'[w] = answer[w] \/ answer'[w].outcome \notin {"done", "validated"}
          /\ pc'[w] # "compare"
      BY <2>8 DEF CheckArtifact, At, Begin, Return, Onward, Unwind, Learn, Goto, Refusal, Answer,
         NoAnswer,
          Types, WorkersTypeOK
    <3> QED BY <2>a, <2>b, <3>1 DEF AnswerInv, AnswerOK, CompareOK
  <2>9. CASE StageManifest(w)
    <3>1. /\ answer'[w] = answer[w] \/ answer'[w].outcome \notin {"done", "validated"}
          /\ pc'[w] # "compare"
      BY <2>9 DEF StageManifest, At, Begin, Return, Onward, Unwind, Learn, Goto, Refusal, Answer,
         NoAnswer,
          Types, WorkersTypeOK
    <3> QED BY <2>a, <2>b, <3>1 DEF AnswerInv, AnswerOK, CompareOK
  <2>10. CASE PublishArtifact(w)
    <3>1. /\ answer'[w] = answer[w] \/ answer'[w].outcome \notin {"done", "validated"}
          /\ pc'[w] # "compare"
      BY <2>10 DEF PublishArtifact, At, Begin, Return, Onward, Unwind, Learn, Goto, Refusal,
         Answer, NoAnswer,
          Types, WorkersTypeOK
    <3> QED BY <2>a, <2>b, <3>1 DEF AnswerInv, AnswerOK, CompareOK
  <2>11. CASE PublishManifest(w)
    <3>1. /\ answer'[w] = answer[w] \/ answer'[w].outcome \notin {"done", "validated"}
          /\ pc'[w] # "compare"
      BY <2>11 DEF PublishManifest, At, Begin, Return, Onward, Unwind, Learn, Goto, Refusal,
         Answer, NoAnswer,
          Types, WorkersTypeOK
    <3> QED BY <2>a, <2>b, <3>1 DEF AnswerInv, AnswerOK, CompareOK
  <2>12. CASE DropStaged(w)
    <3>1. /\ answer'[w] = answer[w] \/ answer'[w].outcome \notin {"done", "validated"}
          /\ pc'[w] # "compare"
      BY <2>12 DEF DropStaged, At, Begin, Return, Onward, Unwind, Learn, Goto, Refusal, Answer,
         NoAnswer,
          Types, WorkersTypeOK
    <3> QED BY <2>a, <2>b, <3>1 DEF AnswerInv, AnswerOK, CompareOK
  <2>13. CASE ReadBack(w)
    <3>1. Id(w) \in Identities /\ CallInvOf(w) /\ PublishInvOf(w) /\ CompareOK(w)
      BY <2>13, Identity DEF ReadBack, At, CallInv, PublishInv, AnswerInv
    <3>2. CASE pc'[w] # "idle"
      <4>1. answer'[w] = answer[w]
        BY <2>13, <3>2 DEF ReadBack, At, Begin, Return, Onward, Unwind, Learn, Goto, Refusal,
           Answer, NoAnswer,
          Types, WorkersTypeOK
      <4>2. CompareOK(w)'
        BY <2>13, <3>1, <3>2 DEF ReadBack, At, Begin, Return, Onward, Unwind, Learn, Goto,
           Refusal, Answer, NoAnswer,
          Types, WorkersTypeOK, CompareOK, Published, published, Found, Id
      <4> QED BY <2>a, <2>b, <4>1, <4>2 DEF AnswerInv
    <3>3. CASE pc'[w] = "idle"
      <4>1. AnswerOK(w)'
        BY <2>13, <3>1, <3>3, Documents DEF ReadBack, At, Begin, Return, Onward, Unwind, Learn,
           Goto, Refusal, Answer, NoAnswer,
          Types, WorkersTypeOK, AnswerOK, CallInvOf, PublishInvOf, CompareOK,
           PublishInv, Published, published, overwrites, GenerateJobs, ReadJobs, Id,
              PublishPoints, StagingPoints, ReadPoints, CleanPoints
      <4>2. CompareOK(w)'
        BY <3>3 DEF CompareOK
      <4> QED BY <2>a, <4>1, <4>2 DEF AnswerInv
    <3> QED BY <3>2, <3>3
  <2>14. CASE ReadData(w)
    <3>1. /\ answer'[w] = answer[w] \/ answer'[w].outcome \notin {"done", "validated"}
          /\ pc'[w] # "compare"
      BY <2>14 DEF ReadData, At, Begin, Return, Onward, Unwind, Learn, Goto, Refusal, Answer,
         NoAnswer,
          Types, WorkersTypeOK
    <3> QED BY <2>a, <2>b, <3>1 DEF AnswerInv, AnswerOK, CompareOK
  <2>15. CASE LookFirst(w)
    <3>1. /\ answer'[w] = answer[w] \/ answer'[w].outcome \notin {"done", "validated"}
          /\ pc'[w] # "compare"
      BY <2>15 DEF LookFirst, At, Begin, Return, Onward, Unwind, Learn, Goto, Refusal, Answer,
         NoAnswer,
          Types, WorkersTypeOK
    <3> QED BY <2>a, <2>b, <3>1 DEF AnswerInv, AnswerOK, CompareOK
  <2>16. CASE LookStaged(w)
    <3>1. /\ answer'[w] = answer[w] \/ answer'[w].outcome \notin {"done", "validated"}
          /\ pc'[w] # "compare"
      BY <2>16 DEF LookStaged, At, Begin, Return, Onward, Unwind, Learn, Goto, Refusal, Answer,
         NoAnswer,
          Types, WorkersTypeOK
    <3> QED BY <2>a, <2>b, <3>1 DEF AnswerInv, AnswerOK, CompareOK
  <2>17. CASE ReadManifest(w)
    <3>1. Id(w) \in Identities /\ CallInvOf(w) /\ PublishInvOf(w) /\ CompareOK(w)
      BY <2>17, Identity DEF ReadManifest, At, CallInv, PublishInv, AnswerInv
    <3>2. CASE pc'[w] # "idle"
      <4>1. answer'[w] = answer[w]
        BY <2>17, <3>2 DEF ReadManifest, At, Begin, Return, Onward, Unwind, Learn, Goto, Refusal,
           Answer, NoAnswer,
          Types, WorkersTypeOK
      <4>2. CompareOK(w)'
        BY <2>17, <3>1, <3>2 DEF ReadManifest, At, Begin, Return, Onward, Unwind, Learn, Goto,
           Refusal, Answer, NoAnswer,
          Types, WorkersTypeOK, CompareOK, Published, published, Found, Id
      <4> QED BY <2>a, <2>b, <4>1, <4>2 DEF AnswerInv
    <3>3. CASE pc'[w] = "idle"
      <4>1. AnswerOK(w)'
        BY <2>17, <3>1, <3>3, Documents DEF ReadManifest, At, Begin, Return, Onward, Unwind,
           Learn, Goto, Refusal, Answer, NoAnswer,
          Types, WorkersTypeOK, AnswerOK, CallInvOf, PublishInvOf, CompareOK,
           PublishInv, Published, published, overwrites, GenerateJobs, ReadJobs, Id,
              PublishPoints, StagingPoints, ReadPoints, CleanPoints
      <4>2. CompareOK(w)'
        BY <3>3 DEF CompareOK
      <4> QED BY <2>a, <4>1, <4>2 DEF AnswerInv
    <3> QED BY <3>2, <3>3
  <2>18. CASE Compare(w)
    <3>1. Id(w) \in Identities /\ CallInvOf(w) /\ PublishInvOf(w) /\ CompareOK(w)
      BY <2>18, Identity DEF Compare, At, CallInv, PublishInv, AnswerInv
    <3>2. CASE pc'[w] # "idle"
      <4>1. answer'[w] = answer[w]
        BY <2>18, <3>2 DEF Compare, At, Begin, Return, Onward, Unwind, Learn, Goto, Refusal,
           Answer, NoAnswer,
          Types, WorkersTypeOK
      <4>2. CompareOK(w)'
        BY <2>18, <3>1, <3>2 DEF Compare, At, Begin, Return, Onward, Unwind, Learn, Goto, Refusal,
           Answer, NoAnswer,
          Types, WorkersTypeOK, CompareOK, Published, published, Found, Id
      <4> QED BY <2>a, <2>b, <4>1, <4>2 DEF AnswerInv
    <3>3. CASE pc'[w] = "idle"
      <4>1. AnswerOK(w)'
        BY <2>18, <3>1, <3>3, Documents DEF Compare, At, Begin, Return, Onward, Unwind, Learn,
           Goto, Refusal, Answer, NoAnswer,
          Types, WorkersTypeOK, AnswerOK, CallInvOf, PublishInvOf, CompareOK,
           PublishInv, Published, published, overwrites, GenerateJobs, ReadJobs, Id,
              PublishPoints, StagingPoints, ReadPoints, CleanPoints
      <4>2. CompareOK(w)'
        BY <3>3 DEF CompareOK
      <4> QED BY <2>a, <4>1, <4>2 DEF AnswerInv
    <3> QED BY <3>2, <3>3
  <2>19. CASE ListStaged(w)
    <3>1. /\ answer'[w] = answer[w] \/ answer'[w].outcome \notin {"done", "validated"}
          /\ pc'[w] # "compare"
      BY <2>19 DEF ListStaged, At, Begin, Return, Onward, Unwind, Learn, Goto, Refusal, Answer,
         NoAnswer,
          Types, WorkersTypeOK
    <3> QED BY <2>a, <2>b, <3>1 DEF AnswerInv, AnswerOK, CompareOK
  <2>20. CASE Unlink(w)
    <3>1. /\ answer'[w] = answer[w] \/ answer'[w].outcome \notin {"done", "validated"}
          /\ pc'[w] # "compare"
      BY <2>20 DEF Unlink, At, Begin, Return, Onward, Unwind, Learn, Goto, Refusal, Answer,
         NoAnswer,
          Types, WorkersTypeOK
    <3> QED BY <2>a, <2>b, <3>1 DEF AnswerInv, AnswerOK, CompareOK
  <2>21. CASE LeaveDirectory(w)
    <3>1. /\ answer'[w] = answer[w] \/ answer'[w].outcome \notin {"done", "validated"}
          /\ pc'[w] # "compare"
      BY <2>21 DEF LeaveDirectory, At, Begin, Return, Onward, Unwind, Learn, Goto, Refusal,
         Answer, NoAnswer,
          Types, WorkersTypeOK
    <3> QED BY <2>a, <2>b, <3>1 DEF AnswerInv, AnswerOK, CompareOK
  <2>22. CASE EndCleanup(w)
    <3>1. /\ answer'[w] = answer[w] \/ answer'[w].outcome \notin {"done", "validated"}
          /\ pc'[w] # "compare"
      BY <2>22 DEF EndCleanup, At, Begin, Return, Onward, Unwind, Learn, Goto, Refusal, Answer,
         NoAnswer,
          Types, WorkersTypeOK
    <3> QED BY <2>a, <2>b, <3>1 DEF AnswerInv, AnswerOK, CompareOK
  <2>23. CASE Except(w)
    <3>1. /\ answer'[w] = answer[w] \/ answer'[w].outcome \notin {"done", "validated"}
          /\ pc'[w] # "compare"
      BY <2>23 DEF Except, At, Begin, Return, Onward, Unwind, Learn, Goto, Refusal, Answer,
         NoAnswer,
          Types, WorkersTypeOK
    <3> QED BY <2>a, <2>b, <3>1 DEF AnswerInv, AnswerOK, CompareOK
  <2>24. CASE Crash(w)
    <3>1. /\ answer'[w] = answer[w] \/ answer'[w].outcome \notin {"done", "validated"}
          /\ pc'[w] # "compare"
      BY <2>24 DEF Crash, At, Begin, Return, Onward, Unwind, Learn, Goto, Refusal, Answer, NoAnswer,
          Types, WorkersTypeOK
    <3> QED BY <2>a, <2>b, <3>1 DEF AnswerInv, AnswerOK, CompareOK
  <2>25. CASE LookFails(w)
    <3>1. answer'[w] = answer[w] /\ pc'[w] # "compare"
      BY <2>25 DEF LookFails, Goto, Types, WorkersTypeOK
    <3> QED BY <2>a, <2>b, <3>1 DEF AnswerInv, CompareOK
  <2> QED
    BY <1>2, <2>1, <2>2, <2>3, <2>4, <2>5, <2>6, <2>7, <2>8, <2>9, <2>10,
       <2>11, <2>12, <2>13, <2>14, <2>15, <2>16, <2>17, <2>18, <2>19,
       <2>20, <2>21, <2>22, <2>23, <2>24, <2>25
       DEF Call, Step, Publication, Reading, Cleaning
<1> QED BY <1>1, <1>2 DEF Next

(* Only the worker that begins a call joins those that must find the identity. *)
LEMMA ReadyStays ==
  ASSUME Types, NEW w \in Workers, Call(w) \/ Step(w) \/ Except(w) \/ Crash(w)
  PROVE  ready' \subseteq ready \cup {w}
<1>1. CASE Generate(w)
  BY <1>1 DEF Generate, Begin
<1>2. CASE Cleanup(w)
  BY <1>2 DEF Cleanup, Begin
<1>3. CASE \E kind \in {"read", "status", "list"} : Read(w, kind)
  <2>1. PICK kind \in {"read", "status", "list"} : Read(w, kind)
    BY <1>3
  <2> QED BY <2>1 DEF Read, Begin
<1>4. CASE AcquireLock(w)
  BY <1>4 DEF AcquireLock, Begin
<1>5. CASE Look(w)
  BY <1>5 DEF Look, Begin
<1>6. CASE MakeStaging(w)
  BY <1>6 DEF MakeStaging, Begin
<1>7. CASE StageArtifact(w)
  BY <1>7 DEF StageArtifact, Begin
<1>8. CASE CheckArtifact(w)
  BY <1>8 DEF CheckArtifact, Begin
<1>9. CASE StageManifest(w)
  BY <1>9 DEF StageManifest, Begin
<1>10. CASE PublishArtifact(w)
  BY <1>10 DEF PublishArtifact, Begin
<1>11. CASE PublishManifest(w)
  BY <1>11 DEF PublishManifest, Begin
<1>12. CASE DropStaged(w)
  BY <1>12 DEF DropStaged, Begin
<1>13. CASE ReadBack(w)
  BY <1>13 DEF ReadBack, Begin
<1>14. CASE ReadData(w)
  BY <1>14 DEF ReadData, Begin
<1>15. CASE LookFirst(w)
  BY <1>15 DEF LookFirst, Begin
<1>16. CASE LookStaged(w)
  BY <1>16 DEF LookStaged, Begin
<1>17. CASE ReadManifest(w)
  BY <1>17 DEF ReadManifest, Begin
<1>18. CASE Compare(w)
  BY <1>18 DEF Compare, Begin
<1>19. CASE ListStaged(w)
  BY <1>19 DEF ListStaged, Begin
<1>20. CASE Unlink(w)
  BY <1>20 DEF Unlink, Begin
<1>21. CASE LeaveDirectory(w)
  BY <1>21 DEF LeaveDirectory, Begin
<1>22. CASE EndCleanup(w)
  BY <1>22 DEF EndCleanup, Begin
<1>23. CASE Except(w)
  BY <1>23 DEF Except, Begin
<1>24. CASE Crash(w)
  BY <1>24 DEF Crash, Begin
<1>25. CASE LookFails(w)
  BY <1>25 DEF LookFails
<1> QED
  BY <1>1, <1>2, <1>3, <1>4, <1>5, <1>6, <1>7, <1>8, <1>9, <1>10,
     <1>11, <1>12, <1>13, <1>14, <1>15, <1>16, <1>17, <1>18, <1>19,
     <1>20, <1>21, <1>22, <1>23, <1>24, <1>25
     DEF Call, Step, Publication, Reading, Cleaning

(* What must be found can still be found. *)
LEMMA ReadyFrame ==
  ASSUME Types, CallInv, PublishInv, ReadyInv, [Next]_vars, NEW u \in Workers \cap ready,
         pc'[u] = pc[u], job'[u] = job[u], found'[u] = found[u], answer'[u] = answer[u]
  PROVE  SeenOK(u)' /\ ReadyInvOf(u)'
<1>1. SeenOK(u) /\ ReadyInvOf(u)
  BY DEF ReadyInv
<1>2. pc[u] \in ReadPoints => Id(u) \in Identities
  BY Identity DEF ReadPoints
<1>3. pc[u] \in ReadPoints =>
        /\ manifest'[Id(u)] # NoManifest
        /\ Id(u) \notin blind => artifact'[Id(u)] = artifact[Id(u)]
  BY <1>1, <1>2, StaysStep, PublishedStays DEF ReadyInvOf, Published
<1> QED BY <1>1, <1>3, BlindStep DEF SeenOK, ReadyInvOf, Published, Id, ReadPoints

(* Every step keeps readers on the way to what is published. *)
LEMMA ReadyStep == Types /\ CallInv /\ PublishInv /\ AnswerInv /\ ReadyInv /\ [Next]_vars
        => ReadyInv'
<1> SUFFICES ASSUME Types, CallInv, PublishInv, AnswerInv, ReadyInv, [Next]_vars PROVE ReadyInv'
  OBVIOUS
<1>1. CASE UNCHANGED vars
  BY <1>1 DEF vars, published, overwrites, ReadyInv, SeenOK, ReadyInvOf, Published, Id
<1>2. ASSUME NEW w \in Workers, Call(w) \/ Step(w) \/ Except(w) \/ Crash(w)
      PROVE  ReadyInv'
  <2>a. ASSUME NEW u \in ready' \ {w} PROVE SeenOK(u)' /\ ReadyInvOf(u)'
    <3>1. u \in Workers \cap ready
      BY <1>2, ReadyStays DEF Types, GhostsTypeOK
    <3> QED BY <1>2, <3>1, OthersStay, ReadyFrame
  <2>b. blind \subseteq blind'
    BY BlindStep
  <2>1. CASE Generate(w)
    <3>1. SeenOK(w)' /\ ReadyInvOf(w)'
      BY <2>1 DEF Generate, At, Begin, Return, Onward, Unwind, Learn, Goto, Refusal, Answer,
         NoAnswer,
          Types, WorkersTypeOK, SeenOK, ReadyInvOf, PublishPoints, StagingPoints, ReadPoints,
             CleanPoints
    <3> QED BY <2>a, <3>1 DEF ReadyInv
  <2>2. CASE Cleanup(w)
    <3>1. SeenOK(w)' /\ ReadyInvOf(w)'
      BY <2>2 DEF Cleanup, At, Begin, Return, Onward, Unwind, Learn, Goto, Refusal, Answer,
         NoAnswer,
          Types, WorkersTypeOK, SeenOK, ReadyInvOf, PublishPoints, StagingPoints, ReadPoints,
             CleanPoints
    <3> QED BY <2>a, <3>1 DEF ReadyInv
  <2>3. CASE \E kind \in {"read", "status", "list"} : Read(w, kind)
    <3>1. PICK kind \in {"read", "status", "list"} : Read(w, kind)
      BY <2>3
    <3>2. PICK i \in Identities :
            Begin(w, [kind |-> kind, id |-> i],
                  CASE kind = "read" -> "readData" [] kind = "status" -> "lookFirst"
                    [] kind = "list" -> "readManifest")
      BY <3>1 DEF Read
    <3>3. ASSUME w \in ready' PROVE SeenOK(w)' /\ ReadyInvOf(w)'
      <4>1. Published(i)' /\ job'[w] = [kind |-> kind, id |-> i]
        BY <3>2, <3>3 DEF Begin, Types, WorkersTypeOK, Published, published
      <4>2. /\ answer'[w] = NoAnswer
            /\ \/ pc'[w] = "readData"
               \/ pc'[w] = "lookFirst" /\ kind = "status"
               \/ pc'[w] = "readManifest" /\ kind = "list"
        BY <3>2 DEF Begin, Goto, Types, WorkersTypeOK
      <4> QED BY <4>1, <4>2 DEF SeenOK, NoAnswer, ReadyInvOf, Id, Published
    <3> QED BY <2>a, <3>3 DEF ReadyInv
  <2>4. CASE AcquireLock(w)
    <3>1. ASSUME w \in ready PROVE SeenOK(w)' /\ ReadyInvOf(w)'
      <4>1. SeenOK(w)
        BY <3>1 DEF ReadyInv
      <4>2. /\ answer'[w] = answer[w] \/ SeenOK(w)'
            /\ pc'[w] \notin ReadPoints
        BY <2>4 DEF AcquireLock, At, Begin, Return, Onward, Unwind, Learn, Goto, Refusal, Answer,
           NoAnswer,
          Types, WorkersTypeOK, SeenOK, PublishPoints, StagingPoints, ReadPoints, CleanPoints
      <4> QED BY <2>b, <4>1, <4>2 DEF SeenOK, ReadyInvOf, ReadPoints
    <3>2. ready' = ready
      BY <2>4 DEF AcquireLock
    <3> QED BY <2>a, <3>1, <3>2 DEF ReadyInv
  <2>5. CASE Look(w)
    <3>1. ASSUME w \in ready PROVE SeenOK(w)' /\ ReadyInvOf(w)'
      <4>1. SeenOK(w)
        BY <3>1 DEF ReadyInv
      <4>2. /\ answer'[w] = answer[w] \/ SeenOK(w)'
            /\ pc'[w] \notin ReadPoints
        BY <2>5 DEF Look, At, Begin, Return, Onward, Unwind, Learn, Goto, Refusal, Answer, NoAnswer,
          Types, WorkersTypeOK, SeenOK, PublishPoints, StagingPoints, ReadPoints, CleanPoints
      <4> QED BY <2>b, <4>1, <4>2 DEF SeenOK, ReadyInvOf, ReadPoints
    <3>2. ready' = ready
      BY <2>5 DEF Look
    <3> QED BY <2>a, <3>1, <3>2 DEF ReadyInv
  <2>6. CASE MakeStaging(w)
    <3>1. ASSUME w \in ready PROVE SeenOK(w)' /\ ReadyInvOf(w)'
      <4>1. SeenOK(w)
        BY <3>1 DEF ReadyInv
      <4>2. /\ answer'[w] = answer[w] \/ SeenOK(w)'
            /\ pc'[w] \notin ReadPoints
        BY <2>6 DEF MakeStaging, At, Begin, Return, Onward, Unwind, Learn, Goto, Refusal, Answer,
           NoAnswer,
          Types, WorkersTypeOK, SeenOK, PublishPoints, StagingPoints, ReadPoints, CleanPoints
      <4> QED BY <2>b, <4>1, <4>2 DEF SeenOK, ReadyInvOf, ReadPoints
    <3>2. ready' = ready
      BY <2>6 DEF MakeStaging
    <3> QED BY <2>a, <3>1, <3>2 DEF ReadyInv
  <2>7. CASE StageArtifact(w)
    <3>1. ASSUME w \in ready PROVE SeenOK(w)' /\ ReadyInvOf(w)'
      <4>1. SeenOK(w)
        BY <3>1 DEF ReadyInv
      <4>2. /\ answer'[w] = answer[w] \/ SeenOK(w)'
            /\ pc'[w] \notin ReadPoints
        BY <2>7 DEF StageArtifact, At, Begin, Return, Onward, Unwind, Learn, Goto, Refusal,
           Answer, NoAnswer,
          Types, WorkersTypeOK, SeenOK, PublishPoints, StagingPoints, ReadPoints, CleanPoints
      <4> QED BY <2>b, <4>1, <4>2 DEF SeenOK, ReadyInvOf, ReadPoints
    <3>2. ready' = ready
      BY <2>7 DEF StageArtifact
    <3> QED BY <2>a, <3>1, <3>2 DEF ReadyInv
  <2>8. CASE CheckArtifact(w)
    <3>1. ASSUME w \in ready PROVE SeenOK(w)' /\ ReadyInvOf(w)'
      <4>1. SeenOK(w)
        BY <3>1 DEF ReadyInv
      <4>2. /\ answer'[w] = answer[w] \/ SeenOK(w)'
            /\ pc'[w] \notin ReadPoints
        BY <2>8 DEF CheckArtifact, At, Begin, Return, Onward, Unwind, Learn, Goto, Refusal,
           Answer, NoAnswer,
          Types, WorkersTypeOK, SeenOK, PublishPoints, StagingPoints, ReadPoints, CleanPoints
      <4> QED BY <2>b, <4>1, <4>2 DEF SeenOK, ReadyInvOf, ReadPoints
    <3>2. ready' = ready
      BY <2>8 DEF CheckArtifact
    <3> QED BY <2>a, <3>1, <3>2 DEF ReadyInv
  <2>9. CASE StageManifest(w)
    <3>1. ASSUME w \in ready PROVE SeenOK(w)' /\ ReadyInvOf(w)'
      <4>1. SeenOK(w)
        BY <3>1 DEF ReadyInv
      <4>2. /\ answer'[w] = answer[w] \/ SeenOK(w)'
            /\ pc'[w] \notin ReadPoints
        BY <2>9 DEF StageManifest, At, Begin, Return, Onward, Unwind, Learn, Goto, Refusal,
           Answer, NoAnswer,
          Types, WorkersTypeOK, SeenOK, PublishPoints, StagingPoints, ReadPoints, CleanPoints
      <4> QED BY <2>b, <4>1, <4>2 DEF SeenOK, ReadyInvOf, ReadPoints
    <3>2. ready' = ready
      BY <2>9 DEF StageManifest
    <3> QED BY <2>a, <3>1, <3>2 DEF ReadyInv
  <2>10. CASE PublishArtifact(w)
    <3>1. ASSUME w \in ready PROVE SeenOK(w)' /\ ReadyInvOf(w)'
      <4>1. SeenOK(w)
        BY <3>1 DEF ReadyInv
      <4>2. /\ answer'[w] = answer[w] \/ SeenOK(w)'
            /\ pc'[w] \notin ReadPoints
        BY <2>10 DEF PublishArtifact, At, Begin, Return, Onward, Unwind, Learn, Goto, Refusal,
           Answer, NoAnswer,
          Types, WorkersTypeOK, SeenOK, PublishPoints, StagingPoints, ReadPoints, CleanPoints
      <4> QED BY <2>b, <4>1, <4>2 DEF SeenOK, ReadyInvOf, ReadPoints
    <3>2. ready' = ready
      BY <2>10 DEF PublishArtifact
    <3> QED BY <2>a, <3>1, <3>2 DEF ReadyInv
  <2>11. CASE PublishManifest(w)
    <3>1. ASSUME w \in ready PROVE SeenOK(w)' /\ ReadyInvOf(w)'
      <4>1. SeenOK(w)
        BY <3>1 DEF ReadyInv
      <4>2. /\ answer'[w] = answer[w] \/ SeenOK(w)'
            /\ pc'[w] \notin ReadPoints
        BY <2>11 DEF PublishManifest, At, Begin, Return, Onward, Unwind, Learn, Goto, Refusal,
           Answer, NoAnswer,
          Types, WorkersTypeOK, SeenOK, PublishPoints, StagingPoints, ReadPoints, CleanPoints
      <4> QED BY <2>b, <4>1, <4>2 DEF SeenOK, ReadyInvOf, ReadPoints
    <3>2. ready' = ready
      BY <2>11 DEF PublishManifest
    <3> QED BY <2>a, <3>1, <3>2 DEF ReadyInv
  <2>12. CASE DropStaged(w)
    <3>1. ASSUME w \in ready PROVE SeenOK(w)' /\ ReadyInvOf(w)'
      <4>1. SeenOK(w)
        BY <3>1 DEF ReadyInv
      <4>2. /\ answer'[w] = answer[w] \/ SeenOK(w)'
            /\ pc'[w] \notin ReadPoints
        BY <2>12 DEF DropStaged, At, Begin, Return, Onward, Unwind, Learn, Goto, Refusal, Answer,
           NoAnswer,
          Types, WorkersTypeOK, SeenOK, PublishPoints, StagingPoints, ReadPoints, CleanPoints
      <4> QED BY <2>b, <4>1, <4>2 DEF SeenOK, ReadyInvOf, ReadPoints
    <3>2. ready' = ready
      BY <2>12 DEF DropStaged
    <3> QED BY <2>a, <3>1, <3>2 DEF ReadyInv
  <2>13. CASE ReadBack(w)
    <3>1. ASSUME w \in ready PROVE SeenOK(w)' /\ ReadyInvOf(w)'
      <4>1. SeenOK(w)
        BY <3>1 DEF ReadyInv
      <4>2. /\ answer'[w] = answer[w] \/ SeenOK(w)'
            /\ pc'[w] \notin ReadPoints
        BY <2>13 DEF ReadBack, At, Begin, Return, Onward, Unwind, Learn, Goto, Refusal, Answer,
           NoAnswer,
          Types, WorkersTypeOK, SeenOK, PublishPoints, StagingPoints, ReadPoints, CleanPoints
      <4> QED BY <2>b, <4>1, <4>2 DEF SeenOK, ReadyInvOf, ReadPoints
    <3>2. ready' = ready
      BY <2>13 DEF ReadBack
    <3> QED BY <2>a, <3>1, <3>2 DEF ReadyInv
  <2>14. CASE ReadData(w)
    <3>1. ASSUME w \in ready PROVE SeenOK(w)' /\ ReadyInvOf(w)'
      <4>1. SeenOK(w) /\ ReadyInvOf(w) /\ CompareOK(w) /\ Id(w) \in Identities
        BY <2>14, <3>1, Identity DEF ReadData, At, ReadyInv, AnswerInv
      <4>2. Published(Id(w)) /\ pc[w] \notin {"lookSecond", "lookStaged"}
        BY <2>14, <4>1 DEF ReadData, At, ReadyInvOf, ReadPoints
      <4>3. /\ artifact[Id(w)] # NoFile
            /\ Id(w) \notin blind => artifact[Id(w)] = manifest[Id(w)].hash
        BY <4>1, <4>2 DEF PublishInv, VisibilityUnit, UnitOK, Overwriting
      <4> QED BY <2>14, <4>1, <4>2, <4>3 DEF ReadData, At, Return, Learn, Goto, Refusal,
           Answer, Types, WorkersTypeOK, Found, published, overwrites, SeenOK, ReadyInvOf, CompareOK,
           Published, Id, ReadPoints
    <3>2. ready' = ready
      BY <2>14 DEF ReadData
    <3> QED BY <2>a, <3>1, <3>2 DEF ReadyInv
  <2>15. CASE LookFirst(w)
    <3>1. ASSUME w \in ready PROVE SeenOK(w)' /\ ReadyInvOf(w)'
      <4>1. SeenOK(w) /\ ReadyInvOf(w) /\ CompareOK(w) /\ Id(w) \in Identities
        BY <2>15, <3>1, Identity DEF LookFirst, At, ReadyInv, AnswerInv
      <4>2. Published(Id(w)) /\ pc[w] \notin {"lookSecond", "lookStaged"}
        BY <2>15, <4>1 DEF LookFirst, At, ReadyInvOf, ReadPoints
      <4>3. /\ artifact[Id(w)] # NoFile
            /\ Id(w) \notin blind => artifact[Id(w)] = manifest[Id(w)].hash
        BY <4>1, <4>2 DEF PublishInv, VisibilityUnit, UnitOK, Overwriting
      <4> QED BY <2>15, <4>1, <4>2 DEF LookFirst, At, Onward, Goto, Types, WorkersTypeOK,
         published, overwrites, SeenOK,
           ReadyInvOf, Published, Id, ReadPoints
    <3>2. ready' = ready
      BY <2>15 DEF LookFirst
    <3> QED BY <2>a, <3>1, <3>2 DEF ReadyInv
  <2>16. CASE LookStaged(w)
    <3>1. ASSUME w \in ready PROVE SeenOK(w)' /\ ReadyInvOf(w)'
      <4>1. SeenOK(w) /\ ReadyInvOf(w) /\ CompareOK(w) /\ Id(w) \in Identities
        BY <2>16, <3>1, Identity DEF LookStaged, At, ReadyInv, AnswerInv
      <4>2. Published(Id(w)) /\ pc[w] \notin {"lookSecond", "lookStaged"}
        BY <2>16, <4>1 DEF LookStaged, At, ReadyInvOf, ReadPoints
      <4>3. /\ artifact[Id(w)] # NoFile
            /\ Id(w) \notin blind => artifact[Id(w)] = manifest[Id(w)].hash
        BY <4>1, <4>2 DEF PublishInv, VisibilityUnit, UnitOK, Overwriting
      <4> QED BY <2>16, <4>1, <4>2, <4>3 DEF LookStaged, At, Return, Learn, Goto, Refusal,
           Answer, Types, WorkersTypeOK, Found, published, overwrites, SeenOK, ReadyInvOf, CompareOK,
           Published, Id, ReadPoints
    <3>2. ready' = ready
      BY <2>16 DEF LookStaged
    <3> QED BY <2>a, <3>1, <3>2 DEF ReadyInv
  <2>17. CASE ReadManifest(w)
    <3>1. ASSUME w \in ready PROVE SeenOK(w)' /\ ReadyInvOf(w)'
      <4>1. SeenOK(w) /\ ReadyInvOf(w) /\ CompareOK(w) /\ Id(w) \in Identities
        BY <2>17, <3>1, Identity DEF ReadManifest, At, ReadyInv, AnswerInv
      <4>2. Published(Id(w)) /\ pc[w] \notin {"lookSecond", "lookStaged"}
        BY <2>17, <4>1 DEF ReadManifest, At, ReadyInvOf, ReadPoints
      <4>3. /\ artifact[Id(w)] # NoFile
            /\ Id(w) \notin blind => artifact[Id(w)] = manifest[Id(w)].hash
        BY <4>1, <4>2 DEF PublishInv, VisibilityUnit, UnitOK, Overwriting
      <4> QED BY <2>17, <4>1, <4>2, <4>3 DEF ReadManifest, At, Return, Learn, Goto, Refusal,
           Answer, Types, WorkersTypeOK, Found, published, overwrites, SeenOK, ReadyInvOf, CompareOK,
           Published, Id, ReadPoints
    <3>2. ready' = ready
      BY <2>17 DEF ReadManifest
    <3> QED BY <2>a, <3>1, <3>2 DEF ReadyInv
  <2>18. CASE Compare(w)
    <3>1. ASSUME w \in ready PROVE SeenOK(w)' /\ ReadyInvOf(w)'
      <4>1. SeenOK(w) /\ ReadyInvOf(w) /\ CompareOK(w) /\ Id(w) \in Identities
        BY <2>18, <3>1, Identity DEF Compare, At, ReadyInv, AnswerInv
      <4>2. Published(Id(w)) /\ pc[w] \notin {"lookSecond", "lookStaged"}
        BY <2>18, <4>1 DEF Compare, At, ReadyInvOf, ReadPoints
      <4>3. /\ artifact[Id(w)] # NoFile
            /\ Id(w) \notin blind => artifact[Id(w)] = manifest[Id(w)].hash
        BY <4>1, <4>2 DEF PublishInv, VisibilityUnit, UnitOK, Overwriting
      <4> QED BY <2>18, <4>1, <4>2, <4>3 DEF Compare, At, Return, Learn, Goto, Refusal,
           Answer, Types, WorkersTypeOK, Found, published, overwrites, SeenOK, ReadyInvOf, CompareOK,
           Published, Id, ReadPoints
    <3>2. ready' = ready
      BY <2>18 DEF Compare
    <3> QED BY <2>a, <3>1, <3>2 DEF ReadyInv
  <2>19. CASE ListStaged(w)
    <3>1. ASSUME w \in ready PROVE SeenOK(w)' /\ ReadyInvOf(w)'
      <4>1. SeenOK(w)
        BY <3>1 DEF ReadyInv
      <4>2. /\ answer'[w] = answer[w] \/ SeenOK(w)'
            /\ pc'[w] \notin ReadPoints
        BY <2>19 DEF ListStaged, At, Begin, Return, Onward, Unwind, Learn, Goto, Refusal, Answer,
           NoAnswer,
          Types, WorkersTypeOK, SeenOK, PublishPoints, StagingPoints, ReadPoints, CleanPoints
      <4> QED BY <2>b, <4>1, <4>2 DEF SeenOK, ReadyInvOf, ReadPoints
    <3>2. ready' = ready
      BY <2>19 DEF ListStaged
    <3> QED BY <2>a, <3>1, <3>2 DEF ReadyInv
  <2>20. CASE Unlink(w)
    <3>1. ASSUME w \in ready PROVE SeenOK(w)' /\ ReadyInvOf(w)'
      <4>1. SeenOK(w)
        BY <3>1 DEF ReadyInv
      <4>2. /\ answer'[w] = answer[w] \/ SeenOK(w)'
            /\ pc'[w] \notin ReadPoints
        BY <2>20 DEF Unlink, At, Begin, Return, Onward, Unwind, Learn, Goto, Refusal, Answer,
           NoAnswer,
          Types, WorkersTypeOK, SeenOK, PublishPoints, StagingPoints, ReadPoints, CleanPoints
      <4> QED BY <2>b, <4>1, <4>2 DEF SeenOK, ReadyInvOf, ReadPoints
    <3>2. ready' = ready
      BY <2>20 DEF Unlink
    <3> QED BY <2>a, <3>1, <3>2 DEF ReadyInv
  <2>21. CASE LeaveDirectory(w)
    <3>1. ASSUME w \in ready PROVE SeenOK(w)' /\ ReadyInvOf(w)'
      <4>1. SeenOK(w)
        BY <3>1 DEF ReadyInv
      <4>2. /\ answer'[w] = answer[w] \/ SeenOK(w)'
            /\ pc'[w] \notin ReadPoints
        BY <2>21 DEF LeaveDirectory, At, Begin, Return, Onward, Unwind, Learn, Goto, Refusal,
           Answer, NoAnswer,
          Types, WorkersTypeOK, SeenOK, PublishPoints, StagingPoints, ReadPoints, CleanPoints
      <4> QED BY <2>b, <4>1, <4>2 DEF SeenOK, ReadyInvOf, ReadPoints
    <3>2. ready' = ready
      BY <2>21 DEF LeaveDirectory
    <3> QED BY <2>a, <3>1, <3>2 DEF ReadyInv
  <2>22. CASE EndCleanup(w)
    <3>1. ASSUME w \in ready PROVE SeenOK(w)' /\ ReadyInvOf(w)'
      <4>1. SeenOK(w)
        BY <3>1 DEF ReadyInv
      <4>2. /\ answer'[w] = answer[w] \/ SeenOK(w)'
            /\ pc'[w] \notin ReadPoints
        BY <2>22 DEF EndCleanup, At, Begin, Return, Onward, Unwind, Learn, Goto, Refusal, Answer,
           NoAnswer,
          Types, WorkersTypeOK, SeenOK, PublishPoints, StagingPoints, ReadPoints, CleanPoints
      <4> QED BY <2>b, <4>1, <4>2 DEF SeenOK, ReadyInvOf, ReadPoints
    <3>2. ready' = ready
      BY <2>22 DEF EndCleanup
    <3> QED BY <2>a, <3>1, <3>2 DEF ReadyInv
  <2>23. CASE Except(w)
    <3>1. ASSUME w \in ready PROVE SeenOK(w)' /\ ReadyInvOf(w)'
      <4>1. SeenOK(w)
        BY <3>1 DEF ReadyInv
      <4>2. /\ answer'[w] = answer[w] \/ SeenOK(w)'
            /\ pc'[w] \notin ReadPoints
        BY <2>23 DEF Except, At, Begin, Return, Onward, Unwind, Learn, Goto, Refusal, Answer,
           NoAnswer,
          Types, WorkersTypeOK, SeenOK, PublishPoints, StagingPoints, ReadPoints, CleanPoints
      <4> QED BY <2>b, <4>1, <4>2 DEF SeenOK, ReadyInvOf, ReadPoints
    <3>2. ready' = ready
      BY <2>23 DEF Except
    <3> QED BY <2>a, <3>1, <3>2 DEF ReadyInv
  <2>24. CASE Crash(w)
    <3>1. ASSUME w \in ready PROVE SeenOK(w)' /\ ReadyInvOf(w)'
      <4>1. SeenOK(w)
        BY <3>1 DEF ReadyInv
      <4>2. /\ answer'[w] = answer[w] \/ SeenOK(w)'
            /\ pc'[w] \notin ReadPoints
        BY <2>24 DEF Crash, At, Begin, Return, Onward, Unwind, Learn, Goto, Refusal, Answer,
           NoAnswer,
          Types, WorkersTypeOK, SeenOK, PublishPoints, StagingPoints, ReadPoints, CleanPoints
      <4> QED BY <2>b, <4>1, <4>2 DEF SeenOK, ReadyInvOf, ReadPoints
    <3>2. ready' = ready
      BY <2>24 DEF Crash
    <3> QED BY <2>a, <3>1, <3>2 DEF ReadyInv
  <2>25. CASE LookFails(w)
    <3>1. ASSUME w \in ready PROVE SeenOK(w)' /\ ReadyInvOf(w)'
      <4>1. SeenOK(w)
        BY <3>1 DEF ReadyInv
      <4>2. answer'[w] = answer[w] /\ pc'[w] \notin ReadPoints
        BY <2>25 DEF LookFails, Goto, Types, WorkersTypeOK, ReadPoints
      <4> QED BY <2>b, <4>1, <4>2 DEF SeenOK, ReadyInvOf, ReadPoints
    <3>2. ready' = ready
      BY <2>25 DEF LookFails
    <3> QED BY <2>a, <3>1, <3>2 DEF ReadyInv
  <2> QED
    BY <1>2, <2>1, <2>2, <2>3, <2>4, <2>5, <2>6, <2>7, <2>8, <2>9, <2>10,
       <2>11, <2>12, <2>13, <2>14, <2>15, <2>16, <2>17, <2>18, <2>19,
       <2>20, <2>21, <2>22, <2>23, <2>24, <2>25
       DEF Call, Step, Publication, Reading, Cleaning
<1> QED BY <1>1, <1>2 DEF Next

(* A writer keeps what it staged when a step leaves it there or is counted. *)
LEMMA FaultFrame ==
  ASSUME Types, CallInv, FaultInv, NEW w \in Workers, Call(w) \/ Step(w) \/ Except(w) \/ Crash(w),
         NEW u \in Workers \ {w}, u \in spoiled => u \in spoiled',
         u \notin spoiled' /\ pc[u] \in StagingPoints =>
           /\ pc[u] = "mkdirAgain" /\ dot => dot'
           /\ Id(u) \in staged => Id(u) \in staged'
           /\ tmpArtifact'[Id(u)] = tmpArtifact[Id(u)]
           /\ tmpManifest'[Id(u)] = tmpManifest[Id(u)]
  PROVE  FaultInvOf(u)'
<1>1. FaultInvOf(u)
  BY DEF FaultInv
<1>2. pc'[u] = pc[u] /\ job'[u] = job[u] /\ answer'[u] = answer[u]
  BY OthersStay
<1> QED BY <1>1, <1>2 DEF FaultInvOf, Id, StagingPoints

(* Every step that takes something from a writer is counted against its call. *)
LEMMA FaultStep == Types /\ CallInv /\ PublishInv /\ FaultInv /\ [Next]_vars => FaultInv'
<1> SUFFICES ASSUME Types, CallInv, PublishInv, FaultInv, [Next]_vars PROVE FaultInv'
  OBVIOUS
<1>1. CASE UNCHANGED vars
  BY <1>1 DEF vars, staging, FaultInv, FaultInvOf, Id
<1>2. ASSUME NEW w \in Workers, Call(w) \/ Step(w) \/ Except(w) \/ Crash(w)
      PROVE  FaultInv'
  <2>1. CASE Generate(w)
    <3>1. /\ pc'[w] \in {"lock", "clean"} \cup ReadPoints /\ answer'[w] = NoAnswer
          /\ UNCHANGED staging /\ spoiled \ {w} \subseteq spoiled'
      BY <2>1 DEF Generate, Begin, Goto, Types, WorkersTypeOK, ReadPoints
    <3>2. FaultInvOf(w)'
      BY <3>1 DEF FaultInvOf, NoAnswer, ReadPoints
    <3>4. ASSUME NEW u \in Workers \ {w} PROVE FaultInvOf(u)'
      BY <1>2, <3>1, FaultFrame DEF staging
    <3> QED BY <3>2, <3>4 DEF FaultInv
  <2>2. CASE Cleanup(w)
    <3>1. /\ pc'[w] \in {"lock", "clean"} \cup ReadPoints /\ answer'[w] = NoAnswer
          /\ UNCHANGED staging /\ spoiled \ {w} \subseteq spoiled'
      BY <2>2 DEF Cleanup, Begin, Goto, Types, WorkersTypeOK, ReadPoints
    <3>2. FaultInvOf(w)'
      BY <3>1 DEF FaultInvOf, NoAnswer, ReadPoints
    <3>4. ASSUME NEW u \in Workers \ {w} PROVE FaultInvOf(u)'
      BY <1>2, <3>1, FaultFrame DEF staging
    <3> QED BY <3>2, <3>4 DEF FaultInv
  <2>3. CASE \E kind \in {"read", "status", "list"} : Read(w, kind)
    <3>0. PICK kind \in {"read", "status", "list"} : Read(w, kind)
      BY <2>3
    <3>1. /\ pc'[w] \in {"lock", "clean"} \cup ReadPoints /\ answer'[w] = NoAnswer
          /\ UNCHANGED staging /\ spoiled \ {w} \subseteq spoiled'
      BY <3>0 DEF Read, Begin, Goto, Types, WorkersTypeOK, ReadPoints
    <3>2. FaultInvOf(w)'
      BY <3>1 DEF FaultInvOf, NoAnswer, ReadPoints
    <3>4. ASSUME NEW u \in Workers \ {w} PROVE FaultInvOf(u)'
      BY <1>2, <3>1, FaultFrame DEF staging
    <3> QED BY <3>2, <3>4 DEF FaultInv
  <2>4. CASE AcquireLock(w)
    <3>1. CallInvOf(w) /\ PublishInvOf(w) /\ FaultInvOf(w)
      BY DEF CallInv, PublishInv, FaultInv
    <3>2. FaultInvOf(w)'
      BY <2>4, <3>1 DEF AcquireLock, At, Return, Onward, Unwind, Learn, Goto, Refusal, Answer,
         NoAnswer,
         staging, FaultInvOf, Types, WorkersTypeOK, Id, Points
    <3>3. UNCHANGED staging /\ spoiled \ {w} \subseteq spoiled'
      BY <2>4 DEF AcquireLock
    <3>4. ASSUME NEW u \in Workers \ {w} PROVE FaultInvOf(u)'
      BY <1>2, <3>3, FaultFrame DEF staging
    <3> QED BY <3>2, <3>4 DEF FaultInv
  <2>5. CASE Look(w)
    <3>1. CallInvOf(w) /\ PublishInvOf(w) /\ FaultInvOf(w)
      BY DEF CallInv, PublishInv, FaultInv
    <3>2. FaultInvOf(w)'
      BY <2>5, <3>1 DEF Look, At, Return, Onward, Unwind, Learn, Goto, Refusal, Answer, NoAnswer,
         staging, FaultInvOf, Types, WorkersTypeOK, Id, Points
    <3>3. UNCHANGED staging /\ spoiled \ {w} \subseteq spoiled'
      BY <2>5 DEF Look
    <3>4. ASSUME NEW u \in Workers \ {w} PROVE FaultInvOf(u)'
      BY <1>2, <3>3, FaultFrame DEF staging
    <3> QED BY <3>2, <3>4 DEF FaultInv
  <2>6. CASE MakeStaging(w)
    <3>1. /\ CallInvOf(w) /\ PublishInvOf(w) /\ FaultInvOf(w)
          /\ pc[w] \in PublishPoints /\ Id(w) \in Identities
          /\ job[w].manifest.hash \in Contents /\ job[w].manifest # NoManifest
      BY <2>6, Documents DEF MakeStaging, At, CallInv, CallInvOf, PublishInv, FaultInv,
         GenerateJobs, Id, PublishPoints, StagingPoints, ReadPoints, CleanPoints
    <3>2. FaultInvOf(w)'
      BY <2>6, <3>1, Documents, ProjectionAssumption DEF MakeStaging, At, Return, Onward, Unwind,
         Goto, Refusal, Answer,
         FaultInvOf, PublishInvOf, StagingPoints, Types, FilesTypeOK, WorkersTypeOK, Mkdirs, Id
    <3>3. ASSUME NEW u \in Workers \ {w} PROVE FaultInvOf(u)'
      <4>1. pc[u] \in StagingPoints => Id(u) \in Identities
        BY DEF CallInv, CallInvOf, GenerateJobs, PublishPoints, Id
      <4>2. /\ u \in spoiled => u \in spoiled'
            /\ u \notin spoiled' /\ pc[u] \in StagingPoints =>
                 /\ pc[u] = "mkdirAgain" /\ dot => dot'
                 /\ Id(u) \in staged => Id(u) \in staged'
                 /\ tmpArtifact'[Id(u)] = tmpArtifact[Id(u)]
                 /\ tmpManifest'[Id(u)] = tmpManifest[Id(u)]
        <5>1. pc[u] \in StagingPoints => Id(u) # Id(w)
          BY <3>1, Exclusive DEF PublishPoints
        <5> QED BY <2>6, <3>1, <4>1, <5>1 DEF MakeStaging, Types, FilesTypeOK, Mkdirs
      <4> QED BY <1>2, <4>2, FaultFrame
    <3> QED BY <3>2, <3>3 DEF FaultInv
  <2>7. CASE StageArtifact(w)
    <3>1. /\ CallInvOf(w) /\ PublishInvOf(w) /\ FaultInvOf(w)
          /\ pc[w] \in PublishPoints /\ Id(w) \in Identities
          /\ job[w].manifest.hash \in Contents /\ job[w].manifest # NoManifest
      BY <2>7, Documents DEF StageArtifact, At, CallInv, CallInvOf, PublishInv, FaultInv,
         GenerateJobs, Id, PublishPoints, StagingPoints, ReadPoints, CleanPoints
    <3>2. FaultInvOf(w)'
      BY <2>7, <3>1, Documents, ProjectionAssumption DEF StageArtifact, At, Return, Onward,
         Unwind, Goto, Refusal, Answer,
         FaultInvOf, PublishInvOf, StagingPoints, Types, FilesTypeOK, WorkersTypeOK, Mkdirs, Id
    <3>3. ASSUME NEW u \in Workers \ {w} PROVE FaultInvOf(u)'
      <4>1. pc[u] \in StagingPoints => Id(u) \in Identities
        BY DEF CallInv, CallInvOf, GenerateJobs, PublishPoints, Id
      <4>2. /\ u \in spoiled => u \in spoiled'
            /\ u \notin spoiled' /\ pc[u] \in StagingPoints =>
                 /\ pc[u] = "mkdirAgain" /\ dot => dot'
                 /\ Id(u) \in staged => Id(u) \in staged'
                 /\ tmpArtifact'[Id(u)] = tmpArtifact[Id(u)]
                 /\ tmpManifest'[Id(u)] = tmpManifest[Id(u)]
        <5>1. pc[u] \in StagingPoints => Id(u) # Id(w)
          BY <3>1, Exclusive DEF PublishPoints
        <5> QED BY <2>7, <3>1, <4>1, <5>1 DEF StageArtifact, Types, FilesTypeOK, Mkdirs
      <4> QED BY <1>2, <4>2, FaultFrame
    <3> QED BY <3>2, <3>3 DEF FaultInv
  <2>8. CASE CheckArtifact(w)
    <3>1. CallInvOf(w) /\ PublishInvOf(w) /\ FaultInvOf(w)
      BY DEF CallInv, PublishInv, FaultInv
    <3>2. FaultInvOf(w)'
      BY <2>8, <3>1 DEF CheckArtifact, At, Return, Onward, Unwind, Learn, Goto, Refusal, Answer,
         NoAnswer,
         staging, FaultInvOf, Types, WorkersTypeOK, Id, Points
    <3>3. UNCHANGED staging /\ spoiled \ {w} \subseteq spoiled'
      BY <2>8 DEF CheckArtifact
    <3>4. ASSUME NEW u \in Workers \ {w} PROVE FaultInvOf(u)'
      BY <1>2, <3>3, FaultFrame DEF staging
    <3> QED BY <3>2, <3>4 DEF FaultInv
  <2>9. CASE StageManifest(w)
    <3>1. /\ CallInvOf(w) /\ PublishInvOf(w) /\ FaultInvOf(w)
          /\ pc[w] \in PublishPoints /\ Id(w) \in Identities
          /\ job[w].manifest.hash \in Contents /\ job[w].manifest # NoManifest
      BY <2>9, Documents DEF StageManifest, At, CallInv, CallInvOf, PublishInv, FaultInv,
         GenerateJobs, Id, PublishPoints, StagingPoints, ReadPoints, CleanPoints
    <3>2. FaultInvOf(w)'
      BY <2>9, <3>1, Documents, ProjectionAssumption DEF StageManifest, At, Return, Onward,
         Unwind, Goto, Refusal, Answer,
         FaultInvOf, PublishInvOf, StagingPoints, Types, FilesTypeOK, WorkersTypeOK, Mkdirs, Id
    <3>3. ASSUME NEW u \in Workers \ {w} PROVE FaultInvOf(u)'
      <4>1. pc[u] \in StagingPoints => Id(u) \in Identities
        BY DEF CallInv, CallInvOf, GenerateJobs, PublishPoints, Id
      <4>2. /\ u \in spoiled => u \in spoiled'
            /\ u \notin spoiled' /\ pc[u] \in StagingPoints =>
                 /\ pc[u] = "mkdirAgain" /\ dot => dot'
                 /\ Id(u) \in staged => Id(u) \in staged'
                 /\ tmpArtifact'[Id(u)] = tmpArtifact[Id(u)]
                 /\ tmpManifest'[Id(u)] = tmpManifest[Id(u)]
        <5>1. pc[u] \in StagingPoints => Id(u) # Id(w)
          BY <3>1, Exclusive DEF PublishPoints
        <5> QED BY <2>9, <3>1, <4>1, <5>1 DEF StageManifest, Types, FilesTypeOK, Mkdirs
      <4> QED BY <1>2, <4>2, FaultFrame
    <3> QED BY <3>2, <3>3 DEF FaultInv
  <2>10. CASE PublishArtifact(w)
    <3>1. /\ CallInvOf(w) /\ PublishInvOf(w) /\ FaultInvOf(w)
          /\ pc[w] \in PublishPoints /\ Id(w) \in Identities
          /\ job[w].manifest.hash \in Contents /\ job[w].manifest # NoManifest
      BY <2>10, Documents DEF PublishArtifact, At, CallInv, CallInvOf, PublishInv, FaultInv,
         GenerateJobs, Id, PublishPoints, StagingPoints, ReadPoints, CleanPoints
    <3>2. FaultInvOf(w)'
      BY <2>10, <3>1, Documents, ProjectionAssumption DEF PublishArtifact, At, Return, Onward,
         Unwind, Goto, Refusal, Answer,
         FaultInvOf, PublishInvOf, StagingPoints, Types, FilesTypeOK, WorkersTypeOK, Mkdirs, Id
    <3>3. ASSUME NEW u \in Workers \ {w} PROVE FaultInvOf(u)'
      <4>1. pc[u] \in StagingPoints => Id(u) \in Identities
        BY DEF CallInv, CallInvOf, GenerateJobs, PublishPoints, Id
      <4>2. /\ u \in spoiled => u \in spoiled'
            /\ u \notin spoiled' /\ pc[u] \in StagingPoints =>
                 /\ pc[u] = "mkdirAgain" /\ dot => dot'
                 /\ Id(u) \in staged => Id(u) \in staged'
                 /\ tmpArtifact'[Id(u)] = tmpArtifact[Id(u)]
                 /\ tmpManifest'[Id(u)] = tmpManifest[Id(u)]
        <5>1. pc[u] \in StagingPoints => Id(u) # Id(w)
          BY <3>1, Exclusive DEF PublishPoints
        <5> QED BY <2>10, <3>1, <4>1, <5>1 DEF PublishArtifact, Types, FilesTypeOK, Mkdirs
      <4> QED BY <1>2, <4>2, FaultFrame
    <3> QED BY <3>2, <3>3 DEF FaultInv
  <2>11. CASE PublishManifest(w)
    <3>1. /\ CallInvOf(w) /\ PublishInvOf(w) /\ FaultInvOf(w)
          /\ pc[w] \in PublishPoints /\ Id(w) \in Identities
          /\ job[w].manifest.hash \in Contents /\ job[w].manifest # NoManifest
      BY <2>11, Documents DEF PublishManifest, At, CallInv, CallInvOf, PublishInv, FaultInv,
         GenerateJobs, Id, PublishPoints, StagingPoints, ReadPoints, CleanPoints
    <3>2. FaultInvOf(w)'
      BY <2>11, <3>1, Documents, ProjectionAssumption DEF PublishManifest, At, Return, Onward,
         Unwind, Goto, Refusal, Answer,
         FaultInvOf, PublishInvOf, StagingPoints, Types, FilesTypeOK, WorkersTypeOK, Mkdirs, Id
    <3>3. ASSUME NEW u \in Workers \ {w} PROVE FaultInvOf(u)'
      <4>1. pc[u] \in StagingPoints => Id(u) \in Identities
        BY DEF CallInv, CallInvOf, GenerateJobs, PublishPoints, Id
      <4>2. /\ u \in spoiled => u \in spoiled'
            /\ u \notin spoiled' /\ pc[u] \in StagingPoints =>
                 /\ pc[u] = "mkdirAgain" /\ dot => dot'
                 /\ Id(u) \in staged => Id(u) \in staged'
                 /\ tmpArtifact'[Id(u)] = tmpArtifact[Id(u)]
                 /\ tmpManifest'[Id(u)] = tmpManifest[Id(u)]
        <5>1. pc[u] \in StagingPoints => Id(u) # Id(w)
          BY <3>1, Exclusive DEF PublishPoints
        <5> QED BY <2>11, <3>1, <4>1, <5>1 DEF PublishManifest, Types, FilesTypeOK, Mkdirs
      <4> QED BY <1>2, <4>2, FaultFrame
    <3> QED BY <3>2, <3>3 DEF FaultInv
  <2>12. CASE DropStaged(w)
    <3>1. /\ CallInvOf(w) /\ PublishInvOf(w) /\ FaultInvOf(w)
          /\ pc[w] \in PublishPoints /\ Id(w) \in Identities
          /\ job[w].manifest.hash \in Contents /\ job[w].manifest # NoManifest
      BY <2>12, Documents DEF DropStaged, At, CallInv, CallInvOf, PublishInv, FaultInv,
         GenerateJobs, Id, PublishPoints, StagingPoints, ReadPoints, CleanPoints
    <3>2. FaultInvOf(w)'
      BY <2>12, <3>1, Documents, ProjectionAssumption DEF DropStaged, At, Return, Onward, Unwind,
         Goto, Refusal, Answer,
         FaultInvOf, PublishInvOf, StagingPoints, Types, FilesTypeOK, WorkersTypeOK, Mkdirs, Id
    <3>3. ASSUME NEW u \in Workers \ {w} PROVE FaultInvOf(u)'
      <4>1. pc[u] \in StagingPoints => Id(u) \in Identities
        BY DEF CallInv, CallInvOf, GenerateJobs, PublishPoints, Id
      <4>2. /\ u \in spoiled => u \in spoiled'
            /\ u \notin spoiled' /\ pc[u] \in StagingPoints =>
                 /\ pc[u] = "mkdirAgain" /\ dot => dot'
                 /\ Id(u) \in staged => Id(u) \in staged'
                 /\ tmpArtifact'[Id(u)] = tmpArtifact[Id(u)]
                 /\ tmpManifest'[Id(u)] = tmpManifest[Id(u)]
        <5>1. pc[u] \in StagingPoints => Id(u) # Id(w)
          BY <3>1, Exclusive DEF PublishPoints
        <5> QED BY <2>12, <3>1, <4>1, <5>1 DEF DropStaged, Types, FilesTypeOK, Mkdirs
      <4> QED BY <1>2, <4>2, FaultFrame
    <3> QED BY <3>2, <3>3 DEF FaultInv
  <2>13. CASE ReadBack(w)
    <3>1. CallInvOf(w) /\ PublishInvOf(w) /\ FaultInvOf(w)
      BY DEF CallInv, PublishInv, FaultInv
    <3>2. FaultInvOf(w)'
      <4>1. /\ pc[w] = "readBack" /\ Id(w) \in Identities
            /\ job[w].manifest \in Manifests \ {NoManifest}
        BY <2>13, <3>1 DEF ReadBack, At, CallInvOf, GenerateJobs, Id, PublishPoints,
           StagingPoints, ReadPoints, CleanPoints
      <4>2. w \notin spoiled => artifact[Id(w)] = job[w].manifest.hash
        BY <3>1, <4>1 DEF FaultInvOf, PublishInvOf, PublishInv, VisibilityUnit, Published,
           PublishPoints, StagingPoints, ReadPoints, CleanPoints
      <4> QED BY <2>13, <3>1, <4>2 DEF ReadBack, Return, Goto, Answer, Types, WorkersTypeOK,
         FaultInvOf
    <3>3. UNCHANGED staging /\ spoiled \ {w} \subseteq spoiled'
      BY <2>13 DEF ReadBack
    <3>4. ASSUME NEW u \in Workers \ {w} PROVE FaultInvOf(u)'
      BY <1>2, <3>3, FaultFrame DEF staging
    <3> QED BY <3>2, <3>4 DEF FaultInv
  <2>14. CASE ReadData(w)
    <3>1. CallInvOf(w) /\ PublishInvOf(w) /\ FaultInvOf(w)
      BY DEF CallInv, PublishInv, FaultInv
    <3>2. FaultInvOf(w)'
      BY <2>14, <3>1 DEF ReadData, At, Return, Onward, Unwind, Learn, Goto, Refusal, Answer,
         NoAnswer,
         staging, FaultInvOf, Types, WorkersTypeOK, Id, Points
    <3>3. UNCHANGED staging /\ spoiled \ {w} \subseteq spoiled'
      BY <2>14 DEF ReadData
    <3>4. ASSUME NEW u \in Workers \ {w} PROVE FaultInvOf(u)'
      BY <1>2, <3>3, FaultFrame DEF staging
    <3> QED BY <3>2, <3>4 DEF FaultInv
  <2>15. CASE LookFirst(w)
    <3>1. CallInvOf(w) /\ PublishInvOf(w) /\ FaultInvOf(w)
      BY DEF CallInv, PublishInv, FaultInv
    <3>2. FaultInvOf(w)'
      BY <2>15, <3>1 DEF LookFirst, At, Return, Onward, Unwind, Learn, Goto, Refusal, Answer,
         NoAnswer,
         staging, FaultInvOf, Types, WorkersTypeOK, Id, Points
    <3>3. UNCHANGED staging /\ spoiled \ {w} \subseteq spoiled'
      BY <2>15 DEF LookFirst
    <3>4. ASSUME NEW u \in Workers \ {w} PROVE FaultInvOf(u)'
      BY <1>2, <3>3, FaultFrame DEF staging
    <3> QED BY <3>2, <3>4 DEF FaultInv
  <2>16. CASE LookStaged(w)
    <3>1. CallInvOf(w) /\ PublishInvOf(w) /\ FaultInvOf(w)
      BY DEF CallInv, PublishInv, FaultInv
    <3>2. FaultInvOf(w)'
      BY <2>16, <3>1 DEF LookStaged, At, Return, Onward, Unwind, Learn, Goto, Refusal, Answer,
         NoAnswer,
         staging, FaultInvOf, Types, WorkersTypeOK, Id, Points
    <3>3. UNCHANGED staging /\ spoiled \ {w} \subseteq spoiled'
      BY <2>16 DEF LookStaged
    <3>4. ASSUME NEW u \in Workers \ {w} PROVE FaultInvOf(u)'
      BY <1>2, <3>3, FaultFrame DEF staging
    <3> QED BY <3>2, <3>4 DEF FaultInv
  <2>17. CASE ReadManifest(w)
    <3>1. CallInvOf(w) /\ PublishInvOf(w) /\ FaultInvOf(w)
      BY DEF CallInv, PublishInv, FaultInv
    <3>2. FaultInvOf(w)'
      BY <2>17, <3>1 DEF ReadManifest, At, Return, Onward, Unwind, Learn, Goto, Refusal, Answer,
         NoAnswer,
         staging, FaultInvOf, Types, WorkersTypeOK, Id, Points
    <3>3. UNCHANGED staging /\ spoiled \ {w} \subseteq spoiled'
      BY <2>17 DEF ReadManifest
    <3>4. ASSUME NEW u \in Workers \ {w} PROVE FaultInvOf(u)'
      BY <1>2, <3>3, FaultFrame DEF staging
    <3> QED BY <3>2, <3>4 DEF FaultInv
  <2>18. CASE Compare(w)
    <3>1. CallInvOf(w) /\ PublishInvOf(w) /\ FaultInvOf(w)
      BY DEF CallInv, PublishInv, FaultInv
    <3>2. FaultInvOf(w)'
      BY <2>18, <3>1 DEF Compare, At, Return, Onward, Unwind, Learn, Goto, Refusal, Answer,
         NoAnswer,
         staging, FaultInvOf, Types, WorkersTypeOK, Id, Points
    <3>3. UNCHANGED staging /\ spoiled \ {w} \subseteq spoiled'
      BY <2>18 DEF Compare
    <3>4. ASSUME NEW u \in Workers \ {w} PROVE FaultInvOf(u)'
      BY <1>2, <3>3, FaultFrame DEF staging
    <3> QED BY <3>2, <3>4 DEF FaultInv
  <2>19. CASE ListStaged(w)
    <3>1. CallInvOf(w) /\ PublishInvOf(w) /\ FaultInvOf(w)
      BY DEF CallInv, PublishInv, FaultInv
    <3>2. FaultInvOf(w)'
      BY <2>19, <3>1 DEF ListStaged, At, Return, Onward, Unwind, Learn, Goto, Refusal, Answer,
         NoAnswer,
         staging, FaultInvOf, Types, WorkersTypeOK, Id, Points
    <3>3. UNCHANGED staging /\ spoiled \ {w} \subseteq spoiled'
      BY <2>19 DEF ListStaged
    <3>4. ASSUME NEW u \in Workers \ {w} PROVE FaultInvOf(u)'
      BY <1>2, <3>3, FaultFrame DEF staging
    <3> QED BY <3>2, <3>4 DEF FaultInv
  <2>20. CASE Unlink(w)
    <3>1. CallInvOf(w) /\ PublishInvOf(w) /\ FaultInvOf(w)
      BY DEF CallInv, PublishInv, FaultInv
    <3>2. FaultInvOf(w)'
      BY <2>20, <3>1 DEF Unlink, At, Return, Onward, Unwind, Learn, Goto, Refusal, Answer, NoAnswer,
         staging, FaultInvOf, Types, WorkersTypeOK, Id, Points
    <3>3. ASSUME NEW u \in Workers \ {w} PROVE FaultInvOf(u)'
      <4>1. pc[u] \in StagingPoints => Id(u) \in Identities
        BY DEF CallInv, CallInvOf, GenerateJobs, PublishPoints, Id
      <4>2. /\ u \in spoiled => u \in spoiled'
            /\ u \notin spoiled' /\ pc[u] \in StagingPoints =>
                 /\ pc[u] = "mkdirAgain" /\ dot => dot'
                 /\ Id(u) \in staged => Id(u) \in staged'
                 /\ tmpArtifact'[Id(u)] = tmpArtifact[Id(u)]
                 /\ tmpManifest'[Id(u)] = tmpManifest[Id(u)]
        BY <2>20, <3>1, <4>1 DEF Unlink, Types, FilesTypeOK, WritersOf, Mkdirs
      <4> QED BY <1>2, <4>2, FaultFrame
    <3> QED BY <3>2, <3>3 DEF FaultInv
  <2>21. CASE LeaveDirectory(w)
    <3>1. CallInvOf(w) /\ PublishInvOf(w) /\ FaultInvOf(w)
      BY DEF CallInv, PublishInv, FaultInv
    <3>2. FaultInvOf(w)'
      BY <2>21, <3>1 DEF LeaveDirectory, At, Return, Onward, Unwind, Learn, Goto, Refusal, Answer,
         NoAnswer,
         staging, FaultInvOf, Types, WorkersTypeOK, Id, Points
    <3>3. ASSUME NEW u \in Workers \ {w} PROVE FaultInvOf(u)'
      <4>1. pc[u] \in StagingPoints => Id(u) \in Identities
        BY DEF CallInv, CallInvOf, GenerateJobs, PublishPoints, Id
      <4>2. /\ u \in spoiled => u \in spoiled'
            /\ u \notin spoiled' /\ pc[u] \in StagingPoints =>
                 /\ pc[u] = "mkdirAgain" /\ dot => dot'
                 /\ Id(u) \in staged => Id(u) \in staged'
                 /\ tmpArtifact'[Id(u)] = tmpArtifact[Id(u)]
                 /\ tmpManifest'[Id(u)] = tmpManifest[Id(u)]
        BY <2>21, <3>1, <4>1 DEF LeaveDirectory, Types, FilesTypeOK, WritersOf, Mkdirs
      <4> QED BY <1>2, <4>2, FaultFrame
    <3> QED BY <3>2, <3>3 DEF FaultInv
  <2>22. CASE EndCleanup(w)
    <3>1. CallInvOf(w) /\ PublishInvOf(w) /\ FaultInvOf(w)
      BY DEF CallInv, PublishInv, FaultInv
    <3>2. FaultInvOf(w)'
      BY <2>22, <3>1 DEF EndCleanup, At, Return, Onward, Unwind, Learn, Goto, Refusal, Answer,
         NoAnswer,
         staging, FaultInvOf, Types, WorkersTypeOK, Id, Points
    <3>3. ASSUME NEW u \in Workers \ {w} PROVE FaultInvOf(u)'
      <4>1. pc[u] \in StagingPoints => Id(u) \in Identities
        BY DEF CallInv, CallInvOf, GenerateJobs, PublishPoints, Id
      <4>2. /\ u \in spoiled => u \in spoiled'
            /\ u \notin spoiled' /\ pc[u] \in StagingPoints =>
                 /\ pc[u] = "mkdirAgain" /\ dot => dot'
                 /\ Id(u) \in staged => Id(u) \in staged'
                 /\ tmpArtifact'[Id(u)] = tmpArtifact[Id(u)]
                 /\ tmpManifest'[Id(u)] = tmpManifest[Id(u)]
        BY <2>22, <3>1, <4>1 DEF EndCleanup, Types, FilesTypeOK, WritersOf, Mkdirs
      <4> QED BY <1>2, <4>2, FaultFrame
    <3> QED BY <3>2, <3>3 DEF FaultInv
  <2>23. CASE Except(w)
    <3>1. CallInvOf(w) /\ PublishInvOf(w) /\ FaultInvOf(w)
      BY DEF CallInv, PublishInv, FaultInv
    <3>2. FaultInvOf(w)'
      BY <2>23, <3>1 DEF Except, At, Return, Onward, Unwind, Learn, Goto, Refusal, Answer, NoAnswer,
         staging, FaultInvOf, Types, WorkersTypeOK, Id, Points
    <3>3. UNCHANGED staging /\ spoiled \ {w} \subseteq spoiled'
      BY <2>23 DEF Except
    <3>4. ASSUME NEW u \in Workers \ {w} PROVE FaultInvOf(u)'
      BY <1>2, <3>3, FaultFrame DEF staging
    <3> QED BY <3>2, <3>4 DEF FaultInv
  <2>24. CASE Crash(w)
    <3>1. CallInvOf(w) /\ PublishInvOf(w) /\ FaultInvOf(w)
      BY DEF CallInv, PublishInv, FaultInv
    <3>2. FaultInvOf(w)'
      BY <2>24, <3>1 DEF Crash, At, Return, Onward, Unwind, Learn, Goto, Refusal, Answer, NoAnswer,
         staging, FaultInvOf, Types, WorkersTypeOK, Id, Points
    <3>3. UNCHANGED staging /\ spoiled \ {w} \subseteq spoiled'
      BY <2>24 DEF Crash
    <3>4. ASSUME NEW u \in Workers \ {w} PROVE FaultInvOf(u)'
      BY <1>2, <3>3, FaultFrame DEF staging
    <3> QED BY <3>2, <3>4 DEF FaultInv
  <2>25. CASE LookFails(w)
    <3>1. FaultInvOf(w)
      BY DEF FaultInv
    <3>2. FaultInvOf(w)'
      BY <2>25, <3>1 DEF LookFails, Goto, FaultInvOf, Types, WorkersTypeOK
    <3>3. UNCHANGED staging /\ spoiled' = spoiled
      BY <2>25 DEF LookFails
    <3>4. ASSUME NEW u \in Workers \ {w} PROVE FaultInvOf(u)'
      BY <1>2, <3>3, FaultFrame DEF staging
    <3> QED BY <3>2, <3>4 DEF FaultInv
  <2> QED
    BY <1>2, <2>1, <2>2, <2>3, <2>4, <2>5, <2>6, <2>7, <2>8, <2>9, <2>10,
       <2>11, <2>12, <2>13, <2>14, <2>15, <2>16, <2>17, <2>18, <2>19,
       <2>20, <2>21, <2>22, <2>23, <2>24, <2>25
       DEF Call, Step, Publication, Reading, Cleaning
<1> QED BY <1>1, <1>2 DEF Next

(* Initially nothing is published and nobody calls. *)
LEMMA InitStoreInv == Init => StoreInv
<1> SUFFICES ASSUME Init PROVE StoreInv
  OBVIOUS
<1>1. Types /\ StagedOK
  <2>1. FilesTypeOK /\ StagedOK
    BY Documents DEF Init, FilesTypeOK, StagedOK, IsEmpty
  <2>2. WorkersTypeOK
    BY Documents DEF Init, WorkersTypeOK, Points
  <2>3. GhostsTypeOK
    BY ProjectionAssumption DEF Init, GhostsTypeOK
  <2> QED BY <2>1, <2>2, <2>3 DEF Types
<1>2. CallInv
  BY DEF Init, CallInv, CallInvOf, PublishPoints, StagingPoints, ReadPoints, CleanPoints
<1>3. PublishInv
  BY DEF Init, PublishInv, VisibilityUnit, UnitOK, PublishInvOf, Published, PublishPoints,
     StagingPoints
<1>4. AnswerInv
  BY DEF Init, AnswerInv, AnswerOK, CompareOK, NoAnswer
<1>5. ReadyInv
  BY DEF Init, ReadyInv
<1>6. FaultInv
  BY DEF Init, FaultInv, FaultInvOf, NoAnswer
<1> QED BY <1>1, <1>2, <1>3, <1>4, <1>5, <1>6 DEF StoreInv, TypeOK

(* The layers together are inductive: nothing is published while a writer    *)
(* of the identity is at work, unless a look at it has failed; the writer    *)
(* alone holds the lock, and what it has staged is its own or gone.          *)
THEOREM StoreInvHolds == Spec => []StoreInv
<1>1. StoreInv /\ [Next]_vars => StoreInv'
  BY TypeStep, StagedStep, CallStep, PublishStep, AnswerStep, ReadyStep, FaultStep
  DEF StoreInv, TypeOK
<1> QED BY <1>1, InitStoreInv, PTL DEF Spec

(* The store's variables have their types, and staged files lie in           *)
(* directories that exist, whatever cleanups run beside publications.        *)
THEOREM StoreTypes == Spec => []TypeOK
<1>1. StoreInv => TypeOK
  BY DEF StoreInv
<1> QED BY <1>1, StoreInvHolds, PTL

(* A published manifest describes the artifact beside it: _publish renames   *)
(* the artifact first, under the lock, and cleanup deletes at most what is   *)
(* still staged.  An identity let over by a failed look is off only between  *)
(* the renames that go over it, and for good when the publication ends there.*)
THEOREM ManifestDescribesArtifact == Spec => []VisibilityUnit
<1>1. StoreInv => VisibilityUnit
  BY DEF StoreInv, PublishInv
<1> QED BY <1>1, StoreInvHolds, PTL

(* No call overwrites what is published under an identity no look at which   *)
(* has failed.                                                               *)
THEOREM NeverOverwritten == Spec => StaysPublished
<1>1. StoreInv /\ [Next]_vars
        => [\A i \in Identities : Published(i) /\ i \notin blind =>
              UNCHANGED <<artifact[i], manifest[i]>>]_vars
  BY StaysStep DEF StoreInv, TypeOK
<1> QED BY <1>1, StoreInvHolds, PTL DEF Spec, StaysPublished

(* Whatever a call reports as done or validated is published; of an identity *)
(* that a failed look let a writer over, it was.                             *)
THEOREM AnswersArePublished == Spec => []AnswerIsPublished
<1>1. StoreInv => AnswerIsPublished
  BY DEF StoreInv, AnswerInv, AnswerIsPublished
<1> QED BY <1>1, StoreInvHolds, PTL

(* A reader that begins after publication finds it, though it takes no lock, *)
(* and finds it inconsistent only when a look at it has failed.              *)
THEOREM ReadersFind == Spec => []ReadyIsSeen
<1>1. StoreInv => ReadyIsSeen
  BY DEF StoreInv, ReadyInv, ReadyIsSeen
<1> QED BY <1>1, StoreInvHolds, PTL

(* A generate call fails only by a fault of its own or by another call that  *)
(* removed what it had staged: what crashes left behind is no obstacle.      *)
THEOREM FailuresHaveCauses == Spec => []OnlyFaultsFail
<1>1. StoreInv => OnlyFaultsFail
  BY DEF StoreInv, FaultInv, FaultInvOf, OnlyFaultsFail
<1> QED BY <1>1, StoreInvHolds, PTL
=============================================================================
