---------------------------- MODULE ProjectionStore ----------------------------
(***************************************************************************)
(* The projection store: publication of an artifact and its manifest under *)
(* one identity (consumer, track, release, versions), readers that take no *)
(* lock, and cleanup of staging files, which takes none either.            *)
(*                                                                         *)
(* A writer holds the file lock of its identity, writes both files into    *)
(* .staging/<identity>, and renames the artifact, then the manifest.  The  *)
(* content of an artifact is its hash; a manifest is the hash it states    *)
(* and its creation time, here the number of the generate call.  An        *)
(* exception while the published manifest is looked at does not end the    *)
(* call: it publishes over the identity.  A refused selector or release    *)
(* ends a call before it writes and is left out, and so is tampering with  *)
(* published files.                                                        *)
(***************************************************************************)
EXTENDS Integers, FiniteSets

CONSTANTS
  Workers,     \* callers: threads or processes
  Nobody,      \* "no worker", for a free lock
  Identities,  \* projection identities
  Contents,    \* what a release's entries may serialise to
  MaxCalls,    \* bound: calls of any kind
  MaxFaults    \* bound: crashes and exceptions

NoFile == "none"

ASSUME ProjectionAssumption ==
  /\ Nobody \notin Workers
  /\ NoFile \notin Contents
  /\ MaxCalls \in Nat /\ MaxFaults \in Nat

VARIABLES
  artifact, manifest,         \* per identity: the published files
  tmpArtifact, tmpManifest,   \* per identity: the staged files
  staged, dot,   \* identities with a staging directory; whether .staging exists
  lock,          \* per identity: holder of its lock file
  pc, job,       \* per worker: control point, and the call being served
  found,         \* per worker: artifact and manifest as read
  answer,        \* history: what a worker's last call returned
  ready,         \* history: workers whose call began with its identity published
  spoiled,       \* history: workers whose call a fault or another call broke
  blind,         \* history: identities a failed look has let a writer over
  halved,        \* history: those whose overwriting ended between its renames
  calls, faults

published == <<artifact, manifest>>
staging   == <<tmpArtifact, tmpManifest, staged, dot>>
overwrites == <<blind, halved>>
vars == <<published, staging, lock, pc, job, found, answer, ready, spoiled, overwrites,
          calls, faults>>

NoManifest == [hash |-> NoFile, clock |-> 0]
NoJob      == [kind |-> "none"]
NothingRead == [data |-> NoFile, manifest |-> NoManifest]
NoAnswer   == [outcome |-> "none"]

Published(i)   == manifest[i] # NoManifest
At(w, point)   == pc[w] = point
Goto(w, point) == pc' = [pc EXCEPT ![w] = point]
Id(w)          == job[w].id

(* Between the creation of its staging directory and its last rename.        *)
StagingPoints == {"mkdir", "mkdirAgain", "writeArtifact", "checkArtifact",
                  "writeManifest", "publishArtifact", "publishManifest"}
WritersOf(i)  == {w \in Workers : pc[w] \in StagingPoints /\ Id(w) = i}
Mkdirs        == {w \in Workers : pc[w] = "mkdirAgain"}

Return(w, result) ==
  /\ Goto(w, "idle")
  /\ job' = [job EXCEPT ![w] = NoJob]
  /\ found' = [found EXCEPT ![w] = NothingRead]
  /\ answer' = [answer EXCEPT ![w] = result]
  /\ lock' = [i \in Identities |-> IF lock[i] = w THEN Nobody ELSE lock[i]]

Answer(w, outcome, file, man) ==
  [kind |-> job[w].kind, id |-> Id(w), outcome |-> outcome, data |-> file, manifest |-> man]
Refusal(w, outcome) == Answer(w, outcome, NoFile, NoManifest)

Begin(w, request, point) ==
  /\ At(w, "idle") /\ calls < MaxCalls
  /\ calls' = calls + 1
  /\ job' = [job EXCEPT ![w] = request]
  /\ answer' = [answer EXCEPT ![w] = NoAnswer]
  /\ ready' = IF Published(request.id) THEN ready \cup {w} ELSE ready \ {w}
  /\ spoiled' = spoiled \ {w}
  /\ Goto(w, point)
  /\ UNCHANGED <<published, staging, lock, found, overwrites, faults>>

-----------------------------------------------------------------------------
(* generate_projection. *)

(* The artifact is built from the release's entries, which may have changed *)
(* since the identity was last generated.                                   *)
Generate(w) ==
  \E i \in Identities, c \in Contents :
    Begin(w, [kind |-> "generate", id |-> i,
              manifest |-> [hash |-> c, clock |-> calls + 1]], "lock")

\* Faulty: the lock is shared.
AcquireShared(w) ==
  /\ At(w, "lock")
  /\ lock' = [lock EXCEPT ![Id(w)] = w]
  /\ Goto(w, "look")
  /\ UNCHANGED <<published, staging, job, found, answer, ready, spoiled, overwrites, calls, faults>>

AcquireLock(w) ==
  /\ At(w, "lock") /\ lock[Id(w)] = Nobody
  /\ lock' = [lock EXCEPT ![Id(w)] = w]
  /\ Goto(w, "look")
  /\ UNCHANGED <<published, staging, job, found, answer, ready, spoiled, overwrites, calls, faults>>

\* Faulty: a manifest of the same artifact is written again.
LookForConflict(w) ==
  /\ At(w, "look")
  /\ IF Published(Id(w)) /\ manifest[Id(w)].hash # job[w].manifest.hash
     THEN Return(w, Refusal(w, "conflict"))
     ELSE Goto(w, "mkdir") /\ UNCHANGED <<lock, job, found, answer>>
  /\ UNCHANGED <<published, staging, ready, spoiled, overwrites, calls, faults>>

\* Faulty: what is published is overwritten.
LookAway(w) ==
  /\ At(w, "look") /\ Goto(w, "mkdir")
  /\ UNCHANGED <<published, staging, lock, job, found, answer, ready, spoiled, overwrites, calls, faults>>

(* The identity is published already: the same bytes are a no-op, others a  *)
(* conflict.                                                                *)
Look(w) ==
  /\ At(w, "look")
  /\ IF Published(Id(w))
     THEN Return(w, IF manifest[Id(w)].hash = job[w].manifest.hash
                    THEN Answer(w, "done", NoFile, manifest[Id(w)])
                    ELSE Refusal(w, "conflict"))
     ELSE Goto(w, "mkdir") /\ UNCHANGED <<lock, job, found, answer>>
  /\ UNCHANGED <<published, staging, ready, spoiled, overwrites, calls, faults>>

(* An exception while the published manifest is read or compared is passed  *)
(* over, and the publication goes on as if there were none.                 *)
LookFails(w) ==
  /\ At(w, "look") /\ Published(Id(w)) /\ faults < MaxFaults
  /\ faults' = faults + 1
  /\ blind' = blind \cup {Id(w)}
  /\ Goto(w, "mkdir")
  /\ UNCHANGED <<published, staging, lock, job, found, answer, ready, spoiled, halved, calls>>

\* Faulty: a directory left by a crash is an error.
MakeStagingNew(w) ==
  /\ At(w, "mkdir")
  /\ dot' = TRUE
  /\ IF Id(w) \in staged
     THEN Return(w, Refusal(w, "failed")) /\ UNCHANGED staged
     ELSE /\ staged' = staged \cup {Id(w)}
          /\ Goto(w, "writeArtifact")
          /\ UNCHANGED <<lock, job, found, answer>>
  /\ UNCHANGED <<published, tmpArtifact, tmpManifest, ready, spoiled, overwrites, calls, faults>>

(* mkdir(parents=True): the directory, or its parent and then the directory. *)
(* When the parent is removed in between the call fails with nothing staged. *)
MakeStaging(w) ==
  /\ \/ /\ At(w, "mkdir") /\ dot
        /\ staged' = staged \cup {Id(w)}
        /\ Goto(w, "writeArtifact")
        /\ UNCHANGED <<dot, lock, job, found, answer>>
     \/ /\ At(w, "mkdir") /\ ~dot
        /\ dot' = TRUE
        /\ Goto(w, "mkdirAgain")
        /\ UNCHANGED <<staged, lock, job, found, answer>>
     \/ /\ At(w, "mkdirAgain") /\ dot
        /\ staged' = staged \cup {Id(w)}
        /\ Goto(w, "writeArtifact")
        /\ UNCHANGED <<dot, lock, job, found, answer>>
     \/ /\ At(w, "mkdirAgain") /\ ~dot
        /\ Return(w, Refusal(w, "failed"))
        /\ UNCHANGED <<staged, dot>>
  /\ UNCHANGED <<published, tmpArtifact, tmpManifest, ready, spoiled, overwrites, calls, faults>>

(* An exception inside the publication: on to the removal of staged files.  *)
Unwind(w) ==
  /\ answer' = [answer EXCEPT ![w] = Refusal(w, "failed")]
  /\ Goto(w, "dropArtifact")
  /\ UNCHANGED <<lock, job, found>>
Onward(w, point) == Goto(w, point) /\ UNCHANGED <<lock, job, found, answer>>

StageArtifact(w) ==
  /\ \/ /\ At(w, "writeArtifact") /\ Id(w) \in staged
        /\ tmpArtifact' = [tmpArtifact EXCEPT ![Id(w)] = job[w].manifest.hash]
        /\ Onward(w, "checkArtifact")
     \/ /\ At(w, "writeArtifact") /\ Id(w) \notin staged
        /\ Unwind(w) /\ UNCHANGED tmpArtifact
  /\ UNCHANGED <<published, tmpManifest, staged, dot, ready, spoiled, overwrites, calls, faults>>

(* The staged bytes are read back and hashed. *)
CheckArtifact(w) ==
  /\ At(w, "checkArtifact")
  /\ IF tmpArtifact[Id(w)] = job[w].manifest.hash
     THEN Onward(w, "writeManifest")
     ELSE Unwind(w)
  /\ UNCHANGED <<published, staging, ready, spoiled, overwrites, calls, faults>>

StageManifest(w) ==
  /\ \/ /\ At(w, "writeManifest") /\ Id(w) \in staged
        /\ tmpManifest' = [tmpManifest EXCEPT ![Id(w)] = job[w].manifest]
        /\ Onward(w, "publishArtifact")
     \/ /\ At(w, "writeManifest") /\ Id(w) \notin staged
        /\ Unwind(w) /\ UNCHANGED tmpManifest
  /\ UNCHANGED <<published, tmpArtifact, staged, dot, ready, spoiled, overwrites, calls, faults>>

PublishArtifact(w) ==
  /\ \/ /\ At(w, "publishArtifact") /\ tmpArtifact[Id(w)] # NoFile
        /\ artifact' = [artifact EXCEPT ![Id(w)] = tmpArtifact[Id(w)]]
        /\ tmpArtifact' = [tmpArtifact EXCEPT ![Id(w)] = NoFile]
        /\ Onward(w, "publishManifest")
     \/ /\ At(w, "publishArtifact") /\ tmpArtifact[Id(w)] = NoFile
        /\ Unwind(w) /\ UNCHANGED <<artifact, tmpArtifact>>
  /\ UNCHANGED <<manifest, tmpManifest, staged, dot, ready, spoiled, overwrites, calls, faults>>

(* A publication over another that ends here leaves the new artifact under   *)
(* the old manifest.                                                         *)
Halve(w) ==
  halved' = IF At(w, "publishManifest") /\ Published(Id(w)) THEN halved \cup {Id(w)}
                                                            ELSE halved

(* The commit.  A temporary manifest that is gone leaves the artifact alone. *)
PublishManifest(w) ==
  /\ \/ /\ At(w, "publishManifest") /\ tmpManifest[Id(w)] # NoManifest
        /\ manifest' = [manifest EXCEPT ![Id(w)] = tmpManifest[Id(w)]]
        /\ tmpManifest' = [tmpManifest EXCEPT ![Id(w)] = NoManifest]
        /\ halved' = halved \ {Id(w)}
        /\ Onward(w, "dropArtifact")
     \/ /\ At(w, "publishManifest") /\ tmpManifest[Id(w)] = NoManifest
        /\ Halve(w) /\ Unwind(w) /\ UNCHANGED <<manifest, tmpManifest>>
  /\ UNCHANGED <<artifact, tmpArtifact, staged, dot, ready, spoiled, blind, calls, faults>>

IsEmpty(i) == tmpArtifact[i] = NoFile /\ tmpManifest[i] = NoManifest

(* The finally block: what is left of the staged files, the directory and   *)
(* .staging, each removed when it is there and empty.                       *)
DropStaged(w) ==
  /\ \/ /\ At(w, "dropArtifact") /\ Goto(w, "dropManifest")
        /\ tmpArtifact' = [tmpArtifact EXCEPT ![Id(w)] = NoFile]
        /\ UNCHANGED <<tmpManifest, staged, dot, spoiled>>
     \/ /\ At(w, "dropManifest") /\ Goto(w, "dropStaging")
        /\ tmpManifest' = [tmpManifest EXCEPT ![Id(w)] = NoManifest]
        /\ UNCHANGED <<tmpArtifact, staged, dot, spoiled>>
     \/ /\ At(w, "dropStaging") /\ Goto(w, "dropDot")
        /\ staged' = IF IsEmpty(Id(w)) THEN staged \ {Id(w)} ELSE staged
        /\ UNCHANGED <<tmpArtifact, tmpManifest, dot, spoiled>>
     \/ /\ At(w, "dropDot") /\ Goto(w, "readBack")
        /\ dot' = (dot /\ staged # {})
        /\ spoiled' = IF dot' THEN spoiled ELSE spoiled \cup Mkdirs
        /\ UNCHANGED <<tmpArtifact, tmpManifest, staged>>
  /\ UNCHANGED <<published, lock, job, found, answer, ready, overwrites, calls, faults>>

(* A failed call raises; the others read the published artifact back.       *)
ReadBack(w) ==
  /\ At(w, "readBack")
  /\ Return(w, IF answer[w].outcome = "failed" THEN answer[w]
               ELSE IF artifact[Id(w)] = job[w].manifest.hash
               THEN Answer(w, "done", NoFile, job[w].manifest)
               ELSE Refusal(w, "failed"))
  /\ UNCHANGED <<published, staging, ready, spoiled, overwrites, calls, faults>>

-----------------------------------------------------------------------------
(* read_projection_artifact, get_projection_status, list_projections.        *)

Read(w, kind) ==
  \E i \in Identities :
    Begin(w, [kind |-> kind, id |-> i],
          CASE kind = "read" -> "readData" [] kind = "status" -> "lookFirst"
            [] kind = "list" -> "readManifest")

Learn(w, what, point) ==
  /\ found' = [found EXCEPT ![w] = what]
  /\ Goto(w, point)
  /\ UNCHANGED <<lock, job, answer>>

(* The artifact is read before its manifest. *)
ReadData(w) ==
  /\ At(w, "readData")
  /\ IF artifact[Id(w)] = NoFile
     THEN Return(w, Refusal(w, "notFound"))
     ELSE Learn(w, [found[w] EXCEPT !.data = artifact[Id(w)]], "readManifest")
  /\ UNCHANGED <<published, staging, ready, spoiled, overwrites, calls, faults>>

(* status asks twice which of the two files exist, the manifest first.      *)
LookFirst(w) ==
  /\ \/ /\ At(w, "lookFirst")
        /\ Onward(w, IF Published(Id(w)) THEN "readManifest" ELSE "lookSecond")
     \/ /\ At(w, "lookSecond")
        /\ Onward(w, IF artifact[Id(w)] # NoFile THEN "readManifest" ELSE "lookStaged")
  /\ UNCHANGED <<published, staging, ready, spoiled, overwrites, calls, faults>>

LookStaged(w) ==
  /\ At(w, "lookStaged")
  /\ Return(w, Refusal(w, IF Id(w) \in staged /\ ~IsEmpty(Id(w))
                          THEN "pending" ELSE "unavailable"))
  /\ UNCHANGED <<published, staging, ready, spoiled, overwrites, calls, faults>>

(* Without a manifest there is nothing to find; an artifact alone is "failed" *)
(* to status, and the answer here is the same.                               *)
ReadManifest(w) ==
  /\ At(w, "readManifest")
  /\ IF Published(Id(w))
     THEN Learn(w, [found[w] EXCEPT !.manifest = manifest[Id(w)]], "compare")
     ELSE Return(w, Refusal(w, "notFound"))
  /\ UNCHANGED <<published, staging, ready, spoiled, overwrites, calls, faults>>

\* Faulty: the bytes to return are not compared.
CompareFresh(w) ==
  /\ At(w, "compare")
  /\ Return(w, IF artifact[Id(w)] = found[w].manifest.hash
               THEN Answer(w, "validated", found[w].data, found[w].manifest)
               ELSE Refusal(w, "mismatch"))
  /\ UNCHANGED <<published, staging, ready, spoiled, overwrites, calls, faults>>

(* The artifact on disk, and the bytes to return, hash to what the manifest *)
(* states.                                                                  *)
Compare(w) ==
  /\ At(w, "compare")
  /\ Return(w, IF /\ artifact[Id(w)] = found[w].manifest.hash
                  /\ job[w].kind = "read" => found[w].data = found[w].manifest.hash
               THEN Answer(w, "validated", found[w].data, found[w].manifest)
               ELSE Refusal(w, "mismatch"))
  /\ UNCHANGED <<published, staging, ready, spoiled, overwrites, calls, faults>>

-----------------------------------------------------------------------------
(* cleanup_projection_staging, of all identities or of those whose directory *)
(* name contains, or is contained in, the one asked for; left are the        *)
(* directories still to visit.                                               *)

Cleanup(w) ==
  \E i \in Identities, left \in SUBSET Identities :
    Begin(w, [kind |-> "cleanup", id |-> i, left |-> left \cap staged,
              files |-> {}], "clean")

(* The files of a directory are listed, then unlinked one by one; one that  *)
(* is gone already ends the visit.                                          *)
ListStaged(w) ==
  /\ At(w, "clean")
  /\ \E i \in job[w].left :
       job' = [job EXCEPT ![w] =
                [kind |-> "cleanup", id |-> i, left |-> job[w].left \ {i},
                 files |-> {f \in {"artifact", "manifest"} :
                              IF f = "artifact" THEN tmpArtifact[i] # NoFile
                                                ELSE tmpManifest[i] # NoManifest}]]
  /\ Goto(w, "unlink")
  /\ UNCHANGED <<published, staging, lock, found, answer, ready, spoiled, overwrites, calls, faults>>

Unlink(w) ==
  /\ At(w, "unlink")
  /\ \/ /\ "artifact" \in job[w].files /\ tmpArtifact[Id(w)] # NoFile
        /\ tmpArtifact' = [tmpArtifact EXCEPT ![Id(w)] = NoFile]
        /\ job' = [job EXCEPT ![w].files = job[w].files \ {"artifact"}]
        /\ UNCHANGED <<pc, tmpManifest>>
     \/ /\ "manifest" \in job[w].files /\ tmpManifest[Id(w)] # NoManifest
        /\ tmpManifest' = [tmpManifest EXCEPT ![Id(w)] = NoManifest]
        /\ job' = [job EXCEPT ![w].files = job[w].files \ {"manifest"}]
        /\ UNCHANGED <<pc, tmpArtifact>>
  /\ spoiled' = spoiled \cup WritersOf(Id(w))
  /\ UNCHANGED <<published, staged, dot, lock, found, answer, ready, overwrites, calls, faults>>

LeaveDirectory(w) ==
  /\ At(w, "unlink")
  /\ \/ /\ "artifact" \in job[w].files /\ tmpArtifact[Id(w)] = NoFile
        /\ UNCHANGED <<staged, spoiled>>
     \/ /\ "manifest" \in job[w].files /\ tmpManifest[Id(w)] = NoManifest
        /\ UNCHANGED <<staged, spoiled>>
     \/ /\ job[w].files = {}
        /\ staged' = IF IsEmpty(Id(w)) THEN staged \ {Id(w)} ELSE staged
        /\ spoiled' = spoiled \cup WritersOf(Id(w))
  /\ Goto(w, "clean")
  /\ UNCHANGED <<published, tmpArtifact, tmpManifest, dot, lock, job, found, answer,
                 ready, overwrites, calls, faults>>

\* Faulty: .staging is removed with what is in it.
EndCleanupAnyway(w) ==
  /\ At(w, "clean") /\ job[w].left = {}
  /\ dot' = FALSE
  /\ spoiled' = spoiled \cup Mkdirs
  /\ Return(w, NoAnswer)
  /\ UNCHANGED <<published, tmpArtifact, tmpManifest, staged, ready, overwrites, calls, faults>>

EndCleanup(w) ==
  /\ At(w, "clean") /\ job[w].left = {}
  /\ dot' = (dot /\ staged # {})
  /\ spoiled' = IF dot' THEN spoiled ELSE spoiled \cup Mkdirs
  /\ Return(w, NoAnswer)
  /\ UNCHANGED <<published, tmpArtifact, tmpManifest, staged, ready, overwrites, calls, faults>>

-----------------------------------------------------------------------------
(* An exception: inside the publication it unwinds, elsewhere it ends the   *)
(* call; at "look" it is one outside the reading of the manifest (LookFails *)
(* is one inside).  A crash leaves the staged files behind.                 *)
Except(w) ==
  /\ pc[w] \notin {"idle", "dropArtifact", "dropManifest", "dropStaging", "dropDot"}
  /\ faults < MaxFaults
  /\ faults' = faults + 1
  /\ spoiled' = spoiled \cup {w} /\ Halve(w)
  /\ IF pc[w] \in StagingPoints \ {"mkdir", "mkdirAgain"}
     THEN Unwind(w)
     ELSE Return(w, Refusal(w, "failed"))
  /\ UNCHANGED <<published, staging, ready, blind, calls>>

Crash(w) ==
  /\ ~At(w, "idle") /\ faults < MaxFaults
  /\ faults' = faults + 1
  /\ spoiled' = spoiled \cup {w} /\ Halve(w)
  /\ Return(w, NoAnswer)
  /\ UNCHANGED <<published, staging, ready, blind, calls>>

Init ==
  /\ artifact = [i \in Identities |-> NoFile]
  /\ manifest = [i \in Identities |-> NoManifest]
  /\ tmpArtifact = [i \in Identities |-> NoFile]
  /\ tmpManifest = [i \in Identities |-> NoManifest]
  /\ staged = {} /\ dot = FALSE
  /\ lock = [i \in Identities |-> Nobody]
  /\ pc = [w \in Workers |-> "idle"] /\ job = [w \in Workers |-> NoJob]
  /\ found = [w \in Workers |-> NothingRead]
  /\ answer = [w \in Workers |-> NoAnswer]
  /\ ready = {} /\ spoiled = {} /\ blind = {} /\ halved = {}
  /\ calls = 0 /\ faults = 0

Call(w) ==
  \/ Generate(w) \/ Cleanup(w)
  \/ \E kind \in {"read", "status", "list"} : Read(w, kind)
Publication(w) ==
  \/ AcquireLock(w) \/ Look(w) \/ LookFails(w) \/ MakeStaging(w) \/ StageArtifact(w)
  \/ CheckArtifact(w) \/ StageManifest(w) \/ PublishArtifact(w) \/ PublishManifest(w)
  \/ DropStaged(w) \/ ReadBack(w)
Reading(w) ==
  ReadData(w) \/ LookFirst(w) \/ LookStaged(w) \/ ReadManifest(w) \/ Compare(w)
Cleaning(w) == ListStaged(w) \/ Unlink(w) \/ LeaveDirectory(w) \/ EndCleanup(w)
Step(w) == Publication(w) \/ Reading(w) \/ Cleaning(w)

Next == \E w \in Workers : Call(w) \/ Step(w) \/ Except(w) \/ Crash(w)

Spec == Init /\ [][Next]_vars
=============================================================================
