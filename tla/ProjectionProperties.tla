------------------------- MODULE ProjectionProperties -------------------------
(***************************************************************************)
(* Properties of the projection store.                                     *)
(***************************************************************************)
EXTENDS ProjectionStore

PublishPoints == {"look"} \cup StagingPoints
                   \cup {"dropArtifact", "dropManifest", "dropStaging", "dropDot", "readBack"}
ReadPoints    == {"readData", "lookFirst", "lookSecond", "lookStaged", "readManifest", "compare"}
CleanPoints   == {"clean", "unlink"}
Points        == {"idle", "lock"} \cup PublishPoints \cup ReadPoints \cup CleanPoints

Manifests == [hash : Contents, clock : Nat \ {0}] \cup {NoManifest}
Files     == Contents \cup {NoFile}
GenerateJobs == [kind : {"generate"}, id : Identities, manifest : Manifests \ {NoManifest}]
ReadJobs  == [kind : {"read", "status", "list"}, id : Identities]
CleanJobs == [kind : {"cleanup"}, id : Identities, left : SUBSET Identities,
              files : SUBSET {"artifact", "manifest"}]
Jobs      == GenerateJobs \cup ReadJobs \cup CleanJobs \cup {NoJob}
Found     == [data : Files, manifest : Manifests]
Answers   == [kind : {"generate", "read", "status", "list", "cleanup"}, id : Identities,
              outcome : {"done", "conflict", "failed", "validated", "notFound",
                         "mismatch", "pending", "unavailable"},
              data : Files, manifest : Manifests] \cup {NoAnswer}

FilesTypeOK ==
  /\ artifact \in [Identities -> Files] /\ manifest \in [Identities -> Manifests]
  /\ tmpArtifact \in [Identities -> Files] /\ tmpManifest \in [Identities -> Manifests]
  /\ staged \subseteq Identities /\ dot \in BOOLEAN

WorkersTypeOK ==
  /\ lock \in [Identities -> Workers \cup {Nobody}]
  /\ pc \in [Workers -> Points] /\ job \in [Workers -> Jobs]
  /\ found \in [Workers -> Found] /\ answer \in [Workers -> Answers]

GhostsTypeOK ==
  /\ ready \subseteq Workers /\ spoiled \subseteq Workers
  /\ blind \subseteq Identities /\ halved \subseteq Identities
  /\ calls \in 0..MaxCalls /\ faults \in 0..MaxFaults

Types == FilesTypeOK /\ WorkersTypeOK /\ GhostsTypeOK

StagedOK ==
  /\ \A i \in Identities : IsEmpty(i) \/ i \in staged
  /\ staged # {} => dot

(* Types of all variables; a staged file lies in a directory that exists.    *)
TypeOK == Types /\ StagedOK

(* A writer let over identity i stands between its two renames.              *)
Overwriting(i) == i \in blind /\ \E w \in Workers : At(w, "publishManifest") /\ Id(w) = i

(* "Artifact bytes, output_hash, projection manifest, and self_hash become   *)
(* one visibility unit": no crash, cleanup or second writer leaves a manifest *)
(* beside an artifact it does not describe.  Only a look that fails lets a    *)
(* publication go over the identity, and only its end between its renames    *)
(* leaves the two apart, until another goes over it and makes it whole.      *)
UnitOK(i) ==
  Published(i) /\ ~Overwriting(i) /\ i \notin halved => artifact[i] = manifest[i].hash
VisibilityUnit == \A i \in Identities : UnitOK(i)

(* "same-identity with different payload returns typed 409 conflict and      *)
(* never overwrites": what is published stays, bytes and creation time, as   *)
(* long as no look at it has failed.                                         *)
StaysPublished ==
  [][\A i \in Identities : Published(i) /\ i \notin blind =>
       UNCHANGED <<artifact[i], manifest[i]>>]_vars

(* Whoever is told "done" or "validated" has the manifest, and the bytes,    *)
(* that are published, however many writers came and went during the call;   *)
(* of an identity that is overwritten, bytes and a manifest that belong      *)
(* together.                                                                 *)
AnswerOK(w) ==
  answer[w].outcome \in {"done", "validated"} =>
    LET i == answer[w].id IN
      /\ Published(i)
      /\ (answer[w].kind = "read" => answer[w].data = answer[w].manifest.hash)
      /\ (i \notin blind => answer[w].manifest = manifest[i])
      /\ (i \notin blind /\ answer[w].kind = "read" => answer[w].data = artifact[i])
AnswerIsPublished == \A w \in Workers : AnswerOK(w)

(* "observes either the prior valid artifact or explicit non-ready": a read, *)
(* status or list that began after publication finds it, and can find it     *)
(* inconsistent only when a look at it has failed.                           *)
SeenOK(w) ==
  /\ answer[w].outcome \notin {"notFound", "pending", "unavailable"}
  /\ answer[w].outcome = "mismatch" => answer[w].id \in blind
ReadyIsSeen == \A w \in ready : SeenOK(w)

(* What earlier failures left behind breaks no later generation: one fails   *)
(* only by a fault of its own, or when a cleanup or the end of another       *)
(* publication removed what it had staged.                                   *)
OnlyFaultsFail ==
  \A w \in Workers : answer[w].outcome = "failed" => w \in spoiled

-----------------------------------------------------------------------------
(* The inductive invariant behind these, in layers.                          *)

(* A worker at a point of an operation serves it, with the lock of its       *)
(* identity where it needs it.                                               *)
CallInvOf(w) ==
  /\ pc[w] \in {"lock"} \cup PublishPoints => job[w] \in GenerateJobs
  /\ pc[w] \in ReadPoints => job[w] \in ReadJobs
  /\ pc[w] \in CleanPoints => job[w] \in CleanJobs
  /\ pc[w] \in PublishPoints => lock[Id(w)] = w
CallInv == \A w \in Workers : CallInvOf(w)

(* Nothing is published while a writer is at work, unless a look has failed; *)
(* what it has staged is its own if it is still there, and a writer that did *)
(* not fail has published.                                                   *)
PublishInvOf(w) ==
  /\ pc[w] \in StagingPoints => ~Published(Id(w)) \/ Id(w) \in blind
  /\ pc[w] \in {"checkArtifact", "writeManifest", "publishArtifact"} =>
       tmpArtifact[Id(w)] \in {NoFile, job[w].manifest.hash}
  /\ pc[w] \in {"publishArtifact", "publishManifest"} =>
       tmpManifest[Id(w)] \in {NoManifest, job[w].manifest}
  /\ pc[w] = "publishManifest" => artifact[Id(w)] = job[w].manifest.hash
  /\ pc[w] \in PublishPoints \ ({"look"} \cup StagingPoints) =>
       \/ answer[w].outcome = "failed"
       \/ manifest[Id(w)] = job[w].manifest /\ artifact[Id(w)] = job[w].manifest.hash
PublishInv ==
  /\ VisibilityUnit
  /\ \A i \in Identities : Published(i) => artifact[i] # NoFile
  /\ halved \subseteq blind
  /\ \A w \in Workers : PublishInvOf(w)

(* The manifest a reader compares with is the published one.                 *)
CompareOK(w) ==
  pc[w] = "compare" =>
    Published(Id(w)) /\ (Id(w) \notin blind => found[w].manifest = manifest[Id(w)])
AnswerInv == \A w \in Workers : AnswerOK(w) /\ CompareOK(w)

(* A reader that began after publication is on the way to "validated".       *)
ReadyInvOf(w) ==
  /\ pc[w] \in ReadPoints =>
       Published(Id(w)) /\ pc[w] \notin {"lookSecond", "lookStaged"}
  /\ pc[w] = "lookFirst" => job[w].kind # "read"
  /\ pc[w] \in {"readManifest", "compare"} /\ job[w].kind = "read" /\ Id(w) \notin blind =>
       found[w].data = artifact[Id(w)]
ReadyInv == \A w \in ready : SeenOK(w) /\ ReadyInvOf(w)

(* A writer nobody disturbed has its directory and what it staged in it.     *)
FaultInvOf(w) ==
  w \notin spoiled =>
    /\ answer[w].outcome # "failed"
    /\ pc[w] = "mkdirAgain" => dot
    /\ pc[w] \in {"writeArtifact", "checkArtifact", "writeManifest"} => Id(w) \in staged
    /\ pc[w] \in {"checkArtifact", "writeManifest", "publishArtifact"} =>
         tmpArtifact[Id(w)] = job[w].manifest.hash
    /\ pc[w] \in {"publishArtifact", "publishManifest"} => tmpManifest[Id(w)] = job[w].manifest
FaultInv == \A w \in Workers : FaultInvOf(w)

StoreInv == TypeOK /\ CallInv /\ PublishInv /\ AnswerInv /\ ReadyInv /\ FaultInv
=============================================================================
