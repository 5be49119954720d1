----------------------------- MODULE ReleaseProofs -----------------------------
(***************************************************************************)
(* Proofs about the release registry, for any number of workers, versions, *)
(* entries and operations.  The layers of RegistryInv are inductive one    *)
(* after the other, with one case per action in each step lemma.           *)
(*                                                                         *)
(* The layers of ReleaseInv that come on top concern few actions each.     *)
(* StepEffect says once, for every action, what a step leaves alone and    *)
(* which action can have written what, and their step lemmas treat only    *)
(* the actions that are left.                                              *)
(***************************************************************************)
EXTENDS ReleaseProperties, FiniteSetTheorems, TLAPS

-----------------------------------------------------------------------------
(* Lemmas about the documents. *)

(* What stands for a missing or a torn file. *)
LEMMA EmptyDocuments ==
  /\ NoManifest \in Manifests /\ TornManifest \in Manifests
  /\ NoHistory \in Histories /\ TornHistory \in Histories
  /\ NoCurrent \in Pointers /\ TornCurrent \in Pointers
BY DEF Manifests, Histories, Pointers

(* The fields of documents. *)
LEMMA Fields ==
  /\ \A m \in Manifests : m.hash \in 0..MaxSeeds
  /\ \A m \in Manifests : Readable(m) => m.hash \in 1..MaxSeeds /\ m.corpus \in Corpora
  /\ \A p \in Pointers : Readable(p) => p.version \in Versions /\ p.gen \in Nat
  /\ \A h \in Histories : h.releases \in SUBSET Releases /\ h.events \in Seq(Events)
<1>1. \A m \in Manifests : m.hash \in 0..MaxSeeds
  BY RegistryAssumption DEF Manifests, NoManifest, TornManifest
<1>2. \A m \in Manifests : Readable(m) => m.hash \in 1..MaxSeeds /\ m.corpus \in Corpora
  BY DEF Manifests, NoManifest, TornManifest, Readable
<1>3. \A p \in Pointers : Readable(p) => p.version \in Versions /\ p.gen \in Nat
  BY DEF Pointers, NoCurrent, TornCurrent, Readable
<1>4. \A h \in Histories : h.releases \in SUBSET Releases /\ h.events \in Seq(Events)
  <2> SUFFICES ASSUME NEW h \in Histories
               PROVE  h.releases \in SUBSET Releases /\ h.events \in Seq(Events)
    OBVIOUS
  <2>1. <<>> \in Seq(Events)
    OBVIOUS
  <2>2. CASE h \in {NoHistory, TornHistory}
    <3>1. h.releases = {} /\ h.events = <<>>
      BY <2>2 DEF NoHistory, TornHistory
    <3> QED BY <2>1, <3>1
  <2>3. CASE h \in [state : {"ok"}, releases : SUBSET Releases, events : Seq(Events)]
    BY <2>3
  <2> QED BY <2>2, <2>3 DEF Histories
<1> QED BY <1>1, <1>2, <1>3, <1>4

(* A history that is not readable has no events. *)
LEMMA UnreadableIsEmpty ==
  \A h \in Histories : ~Readable(h) => h.events = <<>>
BY DEF Histories, NoHistory, TornHistory, Readable

(* What a seed does to history.json: as long as nothing is disturbed, it     *)
(* keeps the events, of which there are none.                                *)
LEMMA SeededEvents ==
  ASSUME FilledInv, NEW w \in Workers, SeedHistory(w)
  PROVE  /\ disturbed => disturbed'
         /\ ~disturbed' => history'.events = history.events
         /\ history' = history \/ history'.events = <<>>
<1>1. CASE At(w, "openHistory")
  <2>1. history' = TornHistory /\ disturbed' = (disturbed \/ history.events # <<>>)
    BY <1>1 DEF SeedHistory, At
  <2> QED BY <2>1 DEF TornHistory, NoHistory
<1>2. CASE At(w, "fillHistory") /\ w \in unlinked
  BY <1>2 DEF SeedHistory, At
<1>3. CASE At(w, "fillHistory") /\ w \notin unlinked
  <2>1. disturbed' = disturbed /\ history.events = <<>>
    BY <1>3 DEF SeedHistory, At, FilledInv
  <2>2. history'.events = <<>>
    BY <1>3 DEF SeedHistory, At
  <2> QED BY <2>1, <2>2
<1> QED BY <1>1, <1>2, <1>3 DEF SeedHistory

(* What a seed leaves in current.json: what a transition put there since, or *)
(* the first pointer, in a file that holds none.                             *)
LEMMA FilledPointer ==
  ASSUME NEW w \in Workers, FillCurrent(w)
  PROVE  /\ ~disturbed' => ~disturbed
         /\ \/ current' = current
            \/ /\ current' = [state |-> "ok", version |-> job[w].version, gen |-> 1]
               /\ ~disturbed' => ~Readable(current)
<1>1. CASE w \in unlinked
  BY <1>1 DEF FillCurrent
<1>2. CASE w \notin unlinked
  BY <1>2 DEF FillCurrent, Readable
<1> QED BY <1>1, <1>2

(* An event that continues the last one of a chain lengthens the chain. *)
LEMMA ChainGrows ==
  ASSUME NEW old \in Seq(Events), NEW event, Chained(old),
         \A i \in 1..Len(old) : /\ old[i].gen < event.gen
                                /\ event.gen = old[i].gen + 1 => event.from = old[i].to
  PROVE  Chained(Append(old, event))
<1> DEFINE new == Append(old, event)
<1>1. /\ Len(new) = Len(old) + 1 /\ Len(old) \in Nat /\ new[Len(new)] = event
      /\ \A i \in 1..Len(old) : new[i] = old[i]
  OBVIOUS
<1> HIDE DEF new
<1> SUFFICES ASSUME NEW i \in 1..Len(new), NEW j \in 1..Len(new), i < j
             PROVE  /\ new[i].gen < new[j].gen
                    /\ new[j].gen = new[i].gen + 1 => new[j].from = new[i].to
  BY DEF Chained, new
<1>2. i \in 1..Len(old) /\ new[i] = old[i]
  BY <1>1
<1>3. CASE j \in 1..Len(old)
  BY <1>1, <1>2, <1>3 DEF Chained
<1>4. CASE j = Len(new)
  <2>1. new[j] = event
    BY <1>1, <1>4
  <2>2. /\ old[i].gen < event.gen
        /\ event.gen = old[i].gen + 1 => event.from = old[i].to
    BY <1>2
  <2> QED BY <1>2, <2>1, <2>2
<1> QED BY <1>1, <1>3, <1>4

(* The documents the registry writes. *)
LEMMA Documents ==
  /\ \A hash \in 1..MaxSeeds, corpus \in Corpora :
       [state |-> "ok", hash |-> hash, corpus |-> corpus] \in Manifests
  /\ \A v \in Versions, g \in Nat : [state |-> "ok", version |-> v, gen |-> g] \in Pointers
  /\ \A r \in SUBSET Releases, e \in Seq(Events) :
       [state |-> "ok", releases |-> r, events |-> e] \in Histories
BY DEF Manifests, Pointers, Histories

(* A call that ends leaves legal memory and a legal lock. *)
LEMMA ReturnTypes ==
  ASSUME WorkersTypeOK, lock \in Workers \cup {Nobody}, NEW w \in Workers, Return(w)
  PROVE  WorkersTypeOK' /\ lock' \in Workers \cup {Nobody}
BY EmptyDocuments DEF WorkersTypeOK, Return, Forget, Goto, Points

(* Its points and jobs are those of an idle worker; others keep theirs.      *)
LEMMA ReturnCall ==
  ASSUME WorkersTypeOK, CallInv, NEW w \in Workers, Return(w)
  PROVE  /\ CallInv'
         /\ pc'[w] = "idle"
         /\ \A u \in Workers \ {w} :
              /\ pc'[u] = pc[u] /\ job'[u] = job[u] /\ cur'[u] = cur[u]
              /\ hist'[u] = hist[u]
<1>1. pc'[w] = "idle"
  BY DEF WorkersTypeOK, Return, Goto
<1>2. ASSUME NEW u \in Workers \ {w}
      PROVE  /\ pc'[u] = pc[u] /\ job'[u] = job[u] /\ cur'[u] = cur[u]
             /\ hist'[u] = hist[u] /\ seen'[u] = seen[u] /\ filling'[u] = filling[u]
  BY DEF WorkersTypeOK, Return, Goto, Forget
<1>3. CallInvOf(w)'
  BY <1>1 DEF CallInvOf, MovePoints, SeedPoints, Critical, Compared
<1>4. ASSUME NEW u \in Workers \ {w} PROVE CallInvOf(u)'
  <2>1. lock = u => lock' = u
    BY DEF Return
  <2> QED BY <1>2, <2>1 DEF CallInv, CallInvOf
<1> QED BY <1>1, <1>2, <1>3, <1>4 DEF CallInv

(* The jobs that calls put before a worker. *)
LEMMA ServeJob ==
  ASSUME Types, NEW w \in Workers, NEW ticket \in Tickets, Serve(w, ticket)
  PROVE  job' \in [Workers -> SeedJobs \cup MoveJobs \cup {NoJob}] /\ job'[w] \in MoveJobs
<1>1. manifest[ticket.version].hash \in 0..MaxSeeds
  BY Fields DEF Types, FilesTypeOK, Tickets
<1>2. [kind |-> ticket.kind, op |-> ticket.op, version |-> ticket.version,
        expVersion |-> ticket.expVersion, expGen |-> ticket.expGen,
        approval |-> manifest[ticket.version].hash] \in MoveJobs
  BY <1>1 DEF Tickets, MoveJobs
<1> QED BY <1>2 DEF Types, WorkersTypeOK, Serve

(* Every step keeps the types. *)
LEMMA TypeStep == Types /\ CallInv /\ [Next]_vars => Types'
<1> SUFFICES ASSUME Types, CallInv, [Next]_vars PROVE Types'
  OBVIOUS
<1>1. CASE UNCHANGED vars
  BY <1>1 DEF vars, files, memory, ghosts, counts, Types, FilesTypeOK, WorkersTypeOK, GhostsTypeOK
<1>2. ASSUME NEW w \in Workers, Call(w) \/ Step(w) \/ Fail(w) PROVE Types'
  <2>1. CASE CallSeed(w)
    <3>1. seeds + 1 \in 1..MaxSeeds /\ seeds + 1 \in 0..MaxSeeds
      BY <2>1, RegistryAssumption DEF CallSeed, Types, GhostsTypeOK
    <3>2. job' \in [Workers -> SeedJobs \cup MoveJobs \cup {NoJob}]
      BY <2>1, <3>1 DEF CallSeed, SeedJobs, Types, WorkersTypeOK
    <3> QED BY <2>1, <3>1, <3>2
      DEF CallSeed, Goto, Types, FilesTypeOK, WorkersTypeOK, GhostsTypeOK, Points, SeedPoints,
          files, ghosts
  <2>2. CASE CallTransition(w)
    <3>1. PICK op \in Ops, v \in Versions, kind \in {"promote", "rollback"} :
            LET ticket == [kind |-> kind, op |-> op, version |-> v,
                           expVersion |-> current.version, expGen |-> current.gen]
            IN tickets' = [tickets EXCEPT ![op] = ticket] /\ Serve(w, ticket)
      BY <2>2 DEF CallTransition
    <3> DEFINE ticket == [kind |-> kind, op |-> op, version |-> v,
                          expVersion |-> current.version, expGen |-> current.gen]
    <3>2. ticket \in Tickets
      BY <2>2, Fields DEF CallTransition, Tickets, Types, FilesTypeOK
    <3>3. job' \in [Workers -> SeedJobs \cup MoveJobs \cup {NoJob}]
      BY <3>1, <3>2, ServeJob
    <3>4. calls + 1 \in 0..MaxCalls
      BY <2>2, RegistryAssumption DEF CallTransition, Types, GhostsTypeOK
    <3>5. tickets' \in [Ops -> Tickets \cup {NoJob}]
      BY <3>1, <3>2 DEF Types, GhostsTypeOK
    <3> QED BY <3>1, <3>3, <3>4, <3>5
      DEF Serve, Goto, Types, FilesTypeOK, WorkersTypeOK, GhostsTypeOK, Points, MovePoints,
          files, ghosts
  <2>3. CASE Retry(w)
    <3>1. PICK op \in Ops : tickets[op].kind # "none" /\ Serve(w, tickets[op])
      BY <2>3 DEF Retry
    <3>2. tickets[op] \in Tickets
      BY <3>1 DEF NoJob, Types, GhostsTypeOK
    <3>3. job' \in [Workers -> SeedJobs \cup MoveJobs \cup {NoJob}]
      BY <3>1, <3>2, ServeJob
    <3>4. calls + 1 \in 0..MaxCalls
      BY <2>3, RegistryAssumption DEF Retry, Types, GhostsTypeOK
    <3> QED BY <2>3, <3>1, <3>3, <3>4
      DEF Retry, Serve, Goto, Types, FilesTypeOK, WorkersTypeOK, GhostsTypeOK, Points, MovePoints,
          files, ghosts
  <2>4. CASE AcquireLock(w)
    BY <2>4
      DEF AcquireLock, At, Goto, Types, FilesTypeOK, WorkersTypeOK, GhostsTypeOK,
          Points, MovePoints, SeedPoints, Critical, files, memory, ghosts, counts
  <2>5. CASE ReadPointer(w)
    BY <2>5, EmptyDocuments
      DEF ReadPointer, At, Goto, Types, FilesTypeOK, WorkersTypeOK, GhostsTypeOK,
          Points, MovePoints, SeedPoints, Critical, files, memory, ghosts, counts, Readable
  <2>6. CASE ReturnRepeat(w)
    <3>1. WorkersTypeOK' /\ lock' \in Workers \cup {Nobody}
      BY <2>6, ReturnTypes DEF ReturnRepeat, Types, FilesTypeOK
    <3> QED BY <2>6, <3>1 DEF ReturnRepeat, Types, FilesTypeOK, GhostsTypeOK, files, ghosts, counts
  <2>7. CASE RefuseUnknown(w)
    <3>1. WorkersTypeOK' /\ lock' \in Workers \cup {Nobody}
      BY <2>7, ReturnTypes DEF RefuseUnknown, Types, FilesTypeOK
    <3> QED BY <2>7, <3>1 DEF RefuseUnknown, Types, FilesTypeOK, GhostsTypeOK, files, ghosts, counts
  <2>8. CASE RefuseStale(w)
    <3>1. WorkersTypeOK' /\ lock' \in Workers \cup {Nobody}
      BY <2>8, ReturnTypes DEF RefuseStale, Types, FilesTypeOK
    <3> QED BY <2>8, <3>1 DEF RefuseStale, Types, FilesTypeOK, GhostsTypeOK, files, ghosts, counts
  <2>9. CASE Proceed(w)
    BY <2>9
      DEF Proceed, At, Goto, Types, FilesTypeOK, WorkersTypeOK, GhostsTypeOK,
          Points, MovePoints, SeedPoints, Critical, files, memory, ghosts, counts
  <2>10. CASE ReadManifest(w)
    <3>1. manifest[job[w].version] \in Manifests
      BY <2>10 DEF ReadManifest, At, Types, FilesTypeOK, CallInv, CallInvOf, MovePoints, Critical, MoveJobs
    <3> QED BY <2>10, <3>1
      DEF ReadManifest, Goto, Types, FilesTypeOK, WorkersTypeOK, GhostsTypeOK, Points, MovePoints,
          Critical, files, ghosts, counts
  <2>11. CASE RefuseUnverified(w)
    <3>1. WorkersTypeOK' /\ lock' \in Workers \cup {Nobody}
      BY <2>11, ReturnTypes DEF RefuseUnverified, Types, FilesTypeOK
    <3> QED BY <2>11, <3>1 DEF RefuseUnverified, Types, FilesTypeOK, GhostsTypeOK, files, ghosts, counts
  <2>12. CASE AcceptVerified(w)
    BY <2>12
      DEF AcceptVerified, At, Goto, Types, FilesTypeOK, WorkersTypeOK, GhostsTypeOK,
          Points, MovePoints, SeedPoints, Critical, files, memory, ghosts, counts
  <2>13. CASE WriteCurrent(w)
    <3>1. job[w] \in MoveJobs /\ Readable(cur[w]) /\ cur[w] \in Pointers
      BY <2>13 DEF WriteCurrent, At, CallInv, CallInvOf, MovePoints, Critical, Compared, Types, WorkersTypeOK
    <3>2. job[w].version \in Versions /\ NextGeneration(cur[w].gen) \in Nat /\ job[w].op \in Ops
      BY <3>1, Fields DEF MoveJobs, NextGeneration
    <3>3. current' \in Pointers
      BY <2>13, <3>2, Documents DEF WriteCurrent
    <3> QED BY <2>13, <3>2, <3>3
      DEF WriteCurrent, Goto, Types, FilesTypeOK, WorkersTypeOK, GhostsTypeOK, Points, MovePoints,
          Critical, memory, counts
  <2>14. CASE WriteHistory(w)
    <3>1. /\ job[w] \in MoveJobs /\ cur[w] \in Pointers /\ Readable(cur[w])
           /\ seen[w] \in Manifests /\ Readable(seen[w]) /\ hist[w] \in Histories
      BY <2>14 DEF WriteHistory, At, CallInv, CallInvOf, MovePoints, Critical, Types, WorkersTypeOK
    <3>2. EventOf(w) \in Events /\ job[w].op \in Ops
      BY <3>1, Fields DEF MoveJobs, NextGeneration, EventOf, Events
    <3>3. ReleasesAfter(w) \in SUBSET Releases
      BY <3>1, Fields DEF ReleasesAfter, Releases, MoveJobs
    <3>4. history' \in Histories
      <4>1. hist[w].events \in Seq(Events)
        BY <3>1, Fields
      <4>2. Append(hist[w].events, EventOf(w)) \in Seq(Events)
        BY <4>1, <3>2
      <4> QED BY <2>14, <3>3, <4>2, Documents DEF WriteHistory
    <3>5. WorkersTypeOK' /\ lock' \in Workers \cup {Nobody}
      BY <2>14, ReturnTypes DEF WriteHistory, Types, FilesTypeOK
    <3> QED BY <2>14, <3>2, <3>4, <3>5
      DEF WriteHistory, Types, FilesTypeOK, GhostsTypeOK, counts
  <2>15. CASE WriteManifest(w)
    <3>1. job[w] \in SeedJobs
      BY <2>15 DEF WriteManifest, At, CallInv, CallInvOf, SeedPoints
    <3>2. [state |-> "ok", hash |-> job[w].hash, corpus |-> job[w].corpus] \in Manifests
      BY <3>1, Documents DEF SeedJobs
    <3>3. manifest' \in [Versions -> Manifests]
      BY <2>15, <3>2, EmptyDocuments DEF WriteManifest, Types, FilesTypeOK
    <3> QED BY <2>15, <3>3
      DEF WriteManifest, Goto, Types, FilesTypeOK, WorkersTypeOK, GhostsTypeOK, Points, SeedPoints,
          memory, ghosts, counts
  <2>16. CASE OpenVector(w)
    <3>1. PICK e \in Lacking(w) :
            /\ vectors' = [vectors EXCEPT ![job[w].version][e] = "torn"]
            /\ filling' = [filling EXCEPT ![w] = e]
      BY <2>16 DEF OpenVector
    <3>2. e \in Entries
      BY DEF Lacking
    <3>3. vectors' \in [Versions -> [Entries -> Contents]]
      BY <3>1, <3>2 DEF Types, FilesTypeOK, Contents
    <3>4. disturbed' \in BOOLEAN
      BY <2>16 DEF OpenVector
    <3> QED BY <2>16, <3>1, <3>2, <3>3, <3>4
      DEF OpenVector, Goto, Types, FilesTypeOK, WorkersTypeOK, GhostsTypeOK, Points, SeedPoints,
          counts
  <2>17. CASE FillVector(w)
    <3>1. filling[w] \in Entries /\ job[w].corpus[filling[w]] \in Hashes
      BY <2>17 DEF FillVector, At, CallInv, CallInvOf
    <3>2. vectors' \in [Versions -> [Entries -> Contents]]
      BY <2>17, <3>1 DEF FillVector, Types, FilesTypeOK, Contents
    <3> QED BY <2>17, <3>2
      DEF FillVector, Goto, Types, FilesTypeOK, WorkersTypeOK, GhostsTypeOK, Points, SeedPoints,
          ghosts, counts
  <2>18. CASE VectorsDone(w)
    BY <2>18
      DEF VectorsDone, At, Goto, Types, FilesTypeOK, WorkersTypeOK, GhostsTypeOK,
          Points, MovePoints, SeedPoints, Critical, files, memory, ghosts, counts
  <2>19. CASE ReadReleases(w)
    BY <2>19
      DEF ReadReleases, At, Goto, Types, FilesTypeOK, WorkersTypeOK, GhostsTypeOK,
          Points, MovePoints, SeedPoints, Critical, files, memory, ghosts, counts
  <2>20. CASE SeedHistory(w)
    <3>1. job[w] \in SeedJobs /\ hist[w] \in Histories
      BY <2>20 DEF SeedHistory, At, CallInv, CallInvOf, SeedPoints, Types, WorkersTypeOK
    <3>2. [version |-> job[w].version, hash |-> job[w].hash] \in Releases
      BY <3>1 DEF SeedJobs, Releases
    <3>3. history' \in Histories
      <4>1. hist[w].releases \cup {[version |-> job[w].version, hash |-> job[w].hash]}
              \in SUBSET Releases
        BY <3>1, <3>2, Fields
      <4>2. <<>> \in Seq(Events)
        OBVIOUS
      <4>3. [state |-> "ok", events |-> <<>>, releases |-> hist[w].releases \cup
              {[version |-> job[w].version, hash |-> job[w].hash]}] \in Histories
        BY <4>1, <4>2, Documents
      <4>4. history \in Histories
        BY DEF Types, FilesTypeOK
      <4> QED BY <2>20, <4>3, <4>4, EmptyDocuments DEF SeedHistory
    <3>4. disturbed' \in BOOLEAN
      BY <2>20 DEF SeedHistory, Types, GhostsTypeOK
    <3> QED BY <2>20, <3>3, <3>4
      DEF SeedHistory, Goto, Types, FilesTypeOK, WorkersTypeOK, GhostsTypeOK, Points, SeedPoints,
          memory, counts
  <2>21. CASE SeeCurrent(w)
    <3>1. CASE Return(w)
      <4>1. WorkersTypeOK' /\ lock' \in Workers \cup {Nobody}
        BY <3>1, ReturnTypes DEF Types, FilesTypeOK
      <4> QED BY <2>21, <4>1 DEF SeeCurrent, Types, FilesTypeOK, GhostsTypeOK, files, ghosts, counts
    <3>2. CASE Goto(w, "openCurrent") /\ UNCHANGED <<lock, memory>>
      BY <2>21, <3>2
        DEF SeeCurrent, Goto, Types, FilesTypeOK, WorkersTypeOK, GhostsTypeOK, Points, SeedPoints,
            files, memory, ghosts, counts
    <3> QED BY <2>21, <3>1, <3>2 DEF SeeCurrent
  <2>22. CASE OpenCurrent(w)
    <3>1. disturbed' \in BOOLEAN
      BY <2>22 DEF OpenCurrent
    <3> QED BY <2>22, <3>1, EmptyDocuments
      DEF OpenCurrent, Goto, Types, FilesTypeOK, WorkersTypeOK, GhostsTypeOK, Points, SeedPoints,
          memory, counts
  <2>23. CASE FillCurrent(w)
    <3>1. current' \in Pointers
      <4>1. job[w].version \in Versions /\ current \in Pointers
        BY <2>23 DEF FillCurrent, At, CallInv, CallInvOf, SeedPoints, SeedJobs, Types, FilesTypeOK
      <4> QED BY <2>23, <4>1, FilledPointer, Documents
    <3>2. disturbed' \in BOOLEAN
      BY <2>23 DEF FillCurrent
    <3>3. WorkersTypeOK' /\ lock' \in Workers \cup {Nobody}
      BY <2>23, ReturnTypes DEF FillCurrent, Types, FilesTypeOK
    <3> QED BY <2>23, <3>1, <3>2, <3>3
      DEF FillCurrent, Types, FilesTypeOK, GhostsTypeOK, counts
  <2>24. CASE Fail(w)
    <3>1. WorkersTypeOK' /\ lock' \in Workers \cup {Nobody}
      BY <2>24, ReturnTypes DEF Fail, Types, FilesTypeOK
    <3>2. faults + 1 \in 0..MaxFaults
      BY <2>24, RegistryAssumption DEF Fail, Types, GhostsTypeOK
    <3> QED BY <2>24, <3>1, <3>2 DEF Fail, Types, FilesTypeOK, GhostsTypeOK, files, ghosts
  <2> QED
    BY <1>2, <2>1, <2>2, <2>3, <2>4, <2>5, <2>6, <2>7, <2>8, <2>9, <2>10,
         <2>11, <2>12, <2>13, <2>14, <2>15, <2>16, <2>17, <2>18, <2>19,
         <2>20, <2>21, <2>22, <2>23, <2>24
       DEF Call, Step, Transition, Seeding
<1> QED BY <1>1, <1>2 DEF Next

(* Every step keeps workers at points of what they serve, and the lock with its owner. *)
LEMMA CallStep == Types /\ CallInv /\ [Next]_vars => CallInv'
<1> SUFFICES ASSUME Types, CallInv, [Next]_vars PROVE CallInv'
  OBVIOUS
<1>1. CASE UNCHANGED vars
  BY <1>1 DEF vars, files, memory, ghosts, counts, CallInv, CallInvOf
<1>2. ASSUME NEW w \in Workers, Call(w) \/ Step(w) \/ Fail(w) PROVE CallInv'
  <2>1. CASE CallSeed(w)
    <3>1. seeds + 1 \in 1..MaxSeeds
      BY <2>1, RegistryAssumption DEF CallSeed, Types, GhostsTypeOK
    <3>2. job'[w] \in SeedJobs /\ pc'[w] = "openManifest"
      BY <2>1, <3>1 DEF CallSeed, Goto, SeedJobs, Types, WorkersTypeOK
    <3> QED BY <2>1, <3>2
      DEF CallSeed, Goto, CallInv, CallInvOf, Types, WorkersTypeOK, MovePoints, SeedPoints,
          Critical, Compared
  <2>2. CASE CallTransition(w)
    <3>1. PICK op \in Ops, v \in Versions, kind \in {"promote", "rollback"} :
            Serve(w, [kind |-> kind, op |-> op, version |-> v,
                      expVersion |-> current.version, expGen |-> current.gen])
      BY <2>2 DEF CallTransition
    <3>2. [kind |-> kind, op |-> op, version |-> v,
            expVersion |-> current.version, expGen |-> current.gen] \in Tickets
      BY <2>2, Fields DEF CallTransition, Tickets, Types, FilesTypeOK
    <3>3. job'[w] \in MoveJobs
      BY <3>1, <3>2, ServeJob
    <3> QED BY <3>1, <3>3
      DEF Serve, Goto, CallInv, CallInvOf, Types, WorkersTypeOK, MovePoints, SeedPoints,
          Critical, Compared
  <2>3. CASE Retry(w)
    <3>1. PICK op \in Ops : tickets[op].kind # "none" /\ Serve(w, tickets[op])
      BY <2>3 DEF Retry
    <3>2. tickets[op] \in Tickets
      BY <3>1 DEF NoJob, Types, GhostsTypeOK
    <3>3. job'[w] \in MoveJobs
      BY <3>1, <3>2, ServeJob
    <3> QED BY <3>1, <3>3
      DEF Serve, Goto, CallInv, CallInvOf, Types, WorkersTypeOK, MovePoints, SeedPoints,
          Critical, Compared
  <2>4. CASE AcquireLock(w)
    <3>1. \A u \in Workers : pc[u] \notin Critical
      BY <2>4, RegistryAssumption DEF AcquireLock, CallInv, CallInvOf
    <3> QED BY <2>4, <3>1
      DEF AcquireLock, At, Goto, CallInv, CallInvOf, Types, WorkersTypeOK, MovePoints, SeedPoints,
          Critical, Compared, memory
  <2>5. CASE ReadPointer(w)
    BY <2>5
      DEF ReadPointer, At, Goto, CallInv, CallInvOf, Types, WorkersTypeOK, MovePoints, SeedPoints, Critical, Compared,
          files, memory, ghosts, counts
  <2>6. CASE ReturnRepeat(w)
    BY <2>6, ReturnCall DEF ReturnRepeat, Types
  <2>7. CASE RefuseUnknown(w)
    BY <2>7, ReturnCall DEF RefuseUnknown, Types
  <2>8. CASE RefuseStale(w)
    BY <2>8, ReturnCall DEF RefuseStale, Types
  <2>9. CASE Proceed(w)
    BY <2>9
      DEF Proceed, At, Goto, CallInv, CallInvOf, Types, WorkersTypeOK, MovePoints, SeedPoints, Critical, Compared,
          files, memory, ghosts, counts
  <2>10. CASE ReadManifest(w)
    BY <2>10
      DEF ReadManifest, At, Goto, CallInv, CallInvOf, Types, WorkersTypeOK, MovePoints, SeedPoints, Critical, Compared,
          files, memory, ghosts, counts
  <2>11. CASE RefuseUnverified(w)
    BY <2>11, ReturnCall DEF RefuseUnverified, Types
  <2>12. CASE AcceptVerified(w)
    BY <2>12
      DEF AcceptVerified, At, Goto, CallInv, CallInvOf, Types, WorkersTypeOK, MovePoints, SeedPoints, Critical, Compared,
          files, memory, ghosts, counts, Approved, Verified
  <2>13. CASE WriteCurrent(w)
    BY <2>13
      DEF WriteCurrent, At, Goto, CallInv, CallInvOf, Types, WorkersTypeOK, MovePoints, SeedPoints, Critical, Compared,
          files, memory, ghosts, counts
  <2>14. CASE WriteHistory(w)
    BY <2>14, ReturnCall DEF WriteHistory, Types
  <2>15. CASE WriteManifest(w)
    BY <2>15
      DEF WriteManifest, At, Goto, CallInv, CallInvOf, Types, WorkersTypeOK, MovePoints, SeedPoints, Critical, Compared,
          files, memory, ghosts, counts
  <2>16. CASE OpenVector(w)
    <3>1. PICK e \in Lacking(w) : filling' = [filling EXCEPT ![w] = e]
      BY <2>16 DEF OpenVector
    <3>2. job[w] \in SeedJobs
      BY <2>16 DEF OpenVector, At, CallInv, CallInvOf, SeedPoints
    <3>3. e \in Entries /\ job[w].corpus[e] \in Hashes
      BY <3>2, RegistryAssumption DEF Lacking, SeedJobs
    <3> QED BY <2>16, <3>1, <3>3
      DEF OpenVector, At, Goto, CallInv, CallInvOf, Types, WorkersTypeOK, MovePoints, SeedPoints,
          Critical, Compared
  <2>17. CASE FillVector(w)
    BY <2>17
      DEF FillVector, At, Goto, CallInv, CallInvOf, Types, WorkersTypeOK, MovePoints, SeedPoints, Critical, Compared,
          files, memory, ghosts, counts
  <2>18. CASE VectorsDone(w)
    BY <2>18
      DEF VectorsDone, At, Goto, CallInv, CallInvOf, Types, WorkersTypeOK, MovePoints, SeedPoints, Critical, Compared,
          files, memory, ghosts, counts
  <2>19. CASE ReadReleases(w)
    BY <2>19
      DEF ReadReleases, At, Goto, CallInv, CallInvOf, Types, WorkersTypeOK, MovePoints, SeedPoints, Critical, Compared,
          files, memory, ghosts, counts
  <2>20. CASE SeedHistory(w)
    BY <2>20
      DEF SeedHistory, At, Goto, CallInv, CallInvOf, Types, WorkersTypeOK, MovePoints, SeedPoints, Critical, Compared,
          files, memory, ghosts, counts
  <2>21. CASE SeeCurrent(w)
    <3>1. CASE Return(w)
      BY <3>1, ReturnCall DEF Types
    <3>2. CASE Goto(w, "openCurrent") /\ UNCHANGED <<lock, memory>>
      BY <2>21, <3>2
        DEF SeeCurrent, At, Goto, CallInv, CallInvOf, Types, WorkersTypeOK, MovePoints, SeedPoints,
            Critical, Compared, memory
    <3> QED BY <2>21, <3>1, <3>2 DEF SeeCurrent
  <2>22. CASE OpenCurrent(w)
    BY <2>22
      DEF OpenCurrent, At, Goto, CallInv, CallInvOf, Types, WorkersTypeOK, MovePoints, SeedPoints, Critical, Compared,
          files, memory, ghosts, counts
  <2>23. CASE FillCurrent(w)
    BY <2>23, ReturnCall DEF FillCurrent, Types
  <2>24. CASE Fail(w)
    BY <2>24, ReturnCall DEF Fail, Types
  <2> QED
    BY <1>2, <2>1, <2>2, <2>3, <2>4, <2>5, <2>6, <2>7, <2>8, <2>9, <2>10,
         <2>11, <2>12, <2>13, <2>14, <2>15, <2>16, <2>17, <2>18, <2>19,
         <2>20, <2>21, <2>22, <2>23, <2>24
       DEF Call, Step, Transition, Seeding
<1> QED BY <1>1, <1>2 DEF Next

(* What was read under the lock stays current: nobody else writes, or it is noticed. *)
LEMMA MemoryStep ==
  Types /\ CallInv /\ FilledInv /\ MemoryInv /\ [Next]_vars => MemoryInv'
<1> SUFFICES ASSUME Types, CallInv, FilledInv, MemoryInv, [Next]_vars PROVE MemoryInv'
  OBVIOUS
<1>1. CASE UNCHANGED vars
  BY <1>1 DEF vars, files, memory, ghosts, counts, MemoryInv, MemoryInvOf
<1>2. ASSUME NEW w \in Workers, Call(w) \/ Step(w) \/ Fail(w) PROVE MemoryInv'
  <2>1. CASE CallSeed(w)
    BY <2>1
      DEF CallSeed, At, Goto, MemoryInv, MemoryInvOf, Types, WorkersTypeOK, MovePoints, SeedPoints, Critical, Compared,
          files, memory, ghosts, counts
  <2>2. CASE CallTransition(w)
    BY <2>2
      DEF CallTransition, At, Goto, MemoryInv, MemoryInvOf, Types, WorkersTypeOK, MovePoints, SeedPoints, Critical, Compared,
          files, memory, ghosts, counts, Serve
  <2>3. CASE Retry(w)
    BY <2>3
      DEF Retry, At, Goto, MemoryInv, MemoryInvOf, Types, WorkersTypeOK, MovePoints, SeedPoints, Critical, Compared,
          files, memory, ghosts, counts, Serve
  <2>4. CASE AcquireLock(w)
    BY <2>4
      DEF AcquireLock, At, Goto, MemoryInv, MemoryInvOf, Types, WorkersTypeOK, MovePoints, SeedPoints, Critical, Compared,
          files, memory, ghosts, counts
  <2>5. CASE ReadPointer(w)
    <3>1. \A u \in Workers \ {w} : pc[u] \notin Critical
      BY <2>5 DEF ReadPointer, At, CallInv, CallInvOf, Critical
    <3>2. history \in Histories
      BY DEF Types, FilesTypeOK
    <3>3. (IF Readable(history) THEN history ELSE NoHistory).events = history.events
      BY <3>2, UnreadableIsEmpty DEF NoHistory
    <3> QED BY <2>5, <3>1, <3>3
      DEF ReadPointer, At, Goto, MemoryInv, MemoryInvOf, Types, WorkersTypeOK, Critical, Compared,
          files, ghosts
  <2>6. CASE ReturnRepeat(w)
    BY <2>6, ReturnCall
      DEF ReturnRepeat, MemoryInv, MemoryInvOf, Types, Compared, files, ghosts
  <2>7. CASE RefuseUnknown(w)
    BY <2>7, ReturnCall
      DEF RefuseUnknown, MemoryInv, MemoryInvOf, Types, Compared, files, ghosts
  <2>8. CASE RefuseStale(w)
    BY <2>8, ReturnCall
      DEF RefuseStale, MemoryInv, MemoryInvOf, Types, Compared, files, ghosts
  <2>9. CASE Proceed(w)
    BY <2>9
      DEF Proceed, At, Goto, MemoryInv, MemoryInvOf, Types, WorkersTypeOK, MovePoints, SeedPoints, Critical, Compared,
          files, memory, ghosts, counts
  <2>10. CASE ReadManifest(w)
    BY <2>10
      DEF ReadManifest, At, Goto, MemoryInv, MemoryInvOf, Types, WorkersTypeOK, MovePoints, SeedPoints, Critical, Compared,
          files, memory, ghosts, counts
  <2>11. CASE RefuseUnverified(w)
    BY <2>11, ReturnCall
      DEF RefuseUnverified, MemoryInv, MemoryInvOf, Types, Compared, files, ghosts
  <2>12. CASE AcceptVerified(w)
    BY <2>12
      DEF AcceptVerified, At, Goto, MemoryInv, MemoryInvOf, Types, WorkersTypeOK, MovePoints, SeedPoints, Critical, Compared,
          files, memory, ghosts, counts
  <2>13. CASE WriteCurrent(w)
    <3>1. \A u \in Workers \ {w} : pc[u] \notin Critical
      BY <2>13 DEF WriteCurrent, At, CallInv, CallInvOf, Critical
    <3> QED BY <2>13, <3>1
      DEF WriteCurrent, At, Goto, MemoryInv, MemoryInvOf, Types, WorkersTypeOK, Critical, Compared,
          memory
  <2>14. CASE WriteHistory(w)
    <3>1. \A u \in Workers \ {w} : pc[u] \notin Critical
      BY <2>14 DEF WriteHistory, At, CallInv, CallInvOf, Critical
    <3>2. pc'[w] = "idle" /\ \A u \in Workers \ {w} : pc'[u] = pc[u]
      BY <2>14, ReturnCall DEF WriteHistory, Types
    <3> QED BY <3>1, <3>2 DEF MemoryInv, MemoryInvOf, Critical, Compared
  <2>15. CASE WriteManifest(w)
    BY <2>15
      DEF WriteManifest, At, Goto, MemoryInv, MemoryInvOf, Types, WorkersTypeOK, MovePoints, SeedPoints, Critical, Compared,
          files, memory, ghosts, counts
  <2>16. CASE OpenVector(w)
    BY <2>16
      DEF OpenVector, At, Goto, MemoryInv, MemoryInvOf, Types, WorkersTypeOK, MovePoints, SeedPoints, Critical, Compared,
          files, memory, ghosts, counts
  <2>17. CASE FillVector(w)
    BY <2>17
      DEF FillVector, At, Goto, MemoryInv, MemoryInvOf, Types, WorkersTypeOK, MovePoints, SeedPoints, Critical, Compared,
          files, memory, ghosts, counts
  <2>18. CASE VectorsDone(w)
    BY <2>18
      DEF VectorsDone, At, Goto, MemoryInv, MemoryInvOf, Types, WorkersTypeOK, MovePoints, SeedPoints, Critical, Compared,
          files, memory, ghosts, counts
  <2>19. CASE ReadReleases(w)
    BY <2>19
      DEF ReadReleases, At, Goto, MemoryInv, MemoryInvOf, Types, WorkersTypeOK, MovePoints, SeedPoints, Critical, Compared,
          files, memory, ghosts, counts
  <2>20. CASE SeedHistory(w)
    <3>1. ~disturbed' => ~disturbed /\ history'.events = history.events
      BY <2>20, SeededEvents
    <3>2. UNCHANGED <<current, memory>> /\ pc'[w] \in {"fillHistory", "seeCurrent"}
          /\ \A u \in Workers \ {w} : pc'[u] = pc[u]
      BY <2>20 DEF SeedHistory, Goto, Types, WorkersTypeOK
    <3> QED BY <3>1, <3>2 DEF MemoryInv, MemoryInvOf, Compared, memory
  <2>21. CASE SeeCurrent(w)
    <3>1. CASE Return(w)
      BY <2>21, <3>1, ReturnCall DEF SeeCurrent, MemoryInv, MemoryInvOf, Types, Compared, files, ghosts
    <3>2. CASE Goto(w, "openCurrent") /\ UNCHANGED <<lock, memory>>
      BY <2>21, <3>2
        DEF SeeCurrent, At, Goto, MemoryInv, MemoryInvOf, Types, WorkersTypeOK, Compared,
            files, memory, ghosts
    <3> QED BY <2>21, <3>1, <3>2 DEF SeeCurrent
  <2>22. CASE OpenCurrent(w)
    <3>1. ~disturbed' => ~disturbed /\ ~Readable(current)
      BY <2>22 DEF OpenCurrent, Readable
    <3> QED BY <2>22, <3>1
      DEF OpenCurrent, Goto, MemoryInv, MemoryInvOf, Types, WorkersTypeOK, Compared, Readable, memory
  <2>23. CASE FillCurrent(w)
    <3>1. ~disturbed' => ~disturbed /\ (current' = current \/ ~Readable(current))
      BY <2>23, FilledPointer
    <3> QED BY <2>23, <3>1, ReturnCall
      DEF FillCurrent, MemoryInv, MemoryInvOf, Types, Compared, Readable
  <2>24. CASE Fail(w)
    BY <2>24, ReturnCall
      DEF Fail, MemoryInv, MemoryInvOf, Types, Compared, files, ghosts
  <2> QED
    BY <1>2, <2>1, <2>2, <2>3, <2>4, <2>5, <2>6, <2>7, <2>8, <2>9, <2>10,
         <2>11, <2>12, <2>13, <2>14, <2>15, <2>16, <2>17, <2>18, <2>19,
         <2>20, <2>21, <2>22, <2>23, <2>24
       DEF Call, Step, Transition, Seeding
<1> QED BY <1>1, <1>2 DEF Next

(* The history stays an account of the pointer. *)
LEMMA AccountStep ==
  Types /\ CallInv /\ FilledInv /\ MemoryInv /\ AccountInv /\ [Next]_vars => AccountInv'
<1> SUFFICES ASSUME Types, CallInv, FilledInv, MemoryInv, AccountInv, [Next]_vars
             PROVE  AccountInv'
  OBVIOUS
<1>1. CASE UNCHANGED vars
  BY <1>1 DEF vars, files, memory, ghosts, counts, AccountInv
<1>2. ASSUME NEW w \in Workers, Call(w) \/ Step(w) \/ Fail(w) PROVE AccountInv'
  <2>1. CASE CallSeed(w)
    BY <2>1
      DEF CallSeed, At, Goto, AccountInv, Types, WorkersTypeOK, files, memory, ghosts, counts
  <2>2. CASE CallTransition(w)
    BY <2>2
      DEF CallTransition, At, Goto, AccountInv, Types, WorkersTypeOK, files, memory, ghosts, counts, Serve
  <2>3. CASE Retry(w)
    BY <2>3
      DEF Retry, At, Goto, AccountInv, Types, WorkersTypeOK, files, memory, ghosts, counts, Serve
  <2>4. CASE AcquireLock(w)
    BY <2>4
      DEF AcquireLock, At, Goto, AccountInv, Types, WorkersTypeOK, files, memory, ghosts, counts
  <2>5. CASE ReadPointer(w)
    <3>1. \A u \in Workers : pc'[u] = "writeHistory" => pc[u] = "writeHistory" /\ cur'[u] = cur[u]
      BY <2>5 DEF ReadPointer, At, Goto, Types, WorkersTypeOK
    <3> QED BY <2>5, <3>1 DEF ReadPointer, AccountInv, files, ghosts
  <2>6. CASE ReturnRepeat(w)
    BY <2>6, ReturnCall
      DEF ReturnRepeat, AccountInv, Types, files, ghosts
  <2>7. CASE RefuseUnknown(w)
    BY <2>7, ReturnCall
      DEF RefuseUnknown, AccountInv, Types, files, ghosts
  <2>8. CASE RefuseStale(w)
    BY <2>8, ReturnCall
      DEF RefuseStale, AccountInv, Types, files, ghosts
  <2>9. CASE Proceed(w)
    BY <2>9
      DEF Proceed, At, Goto, AccountInv, Types, WorkersTypeOK, files, memory, ghosts, counts
  <2>10. CASE ReadManifest(w)
    BY <2>10
      DEF ReadManifest, At, Goto, AccountInv, Types, WorkersTypeOK, files, memory, ghosts, counts
  <2>11. CASE RefuseUnverified(w)
    BY <2>11, ReturnCall
      DEF RefuseUnverified, AccountInv, Types, files, ghosts
  <2>12. CASE AcceptVerified(w)
    BY <2>12
      DEF AcceptVerified, At, Goto, AccountInv, Types, WorkersTypeOK, files, memory, ghosts, counts
  <2>13. CASE WriteCurrent(w)
    <3> SUFFICES ASSUME ~disturbed PROVE AccountInv'
      BY <2>13 DEF WriteCurrent, AccountInv
    <3>1. \A u \in Workers \ {w} : pc'[u] # "writeHistory"
      BY <2>13 DEF WriteCurrent, At, Goto, CallInv, CallInvOf, Critical, Types, WorkersTypeOK
    <3>2. cur[w] = current /\ Readable(current) /\ cur'[w] = current
      BY <2>13 DEF WriteCurrent, At, CallInv, CallInvOf, MemoryInv, MemoryInvOf, Compared, memory
    <3>3. current.gen \in Nat /\ history.events \in Seq(Events)
      BY <3>2, Fields DEF Types, FilesTypeOK
    <3>4. EndsAt(history.events, current) /\ Chained(history.events)
      BY DEF AccountInv
    <3>5. current'.gen = current.gen + 1 /\ Readable(current')
      BY <2>13, <3>2 DEF WriteCurrent, NextGeneration, Readable
    <3>6. EndsAt(history.events, current')
      <4>1. ASSUME Len(history.events) > 0
            PROVE  history.events[Len(history.events)].gen \in Nat
        <5>1. history.events[Len(history.events)] \in Events
          BY <3>3, <4>1
        <5> QED BY <5>1 DEF Events
      <4> QED BY <3>3, <3>4, <3>5, <4>1 DEF EndsAt
    <3> QED BY <2>13, <3>1, <3>2, <3>4, <3>6 DEF WriteCurrent, AccountInv
  <2>14. CASE WriteHistory(w)
    <3> SUFFICES ASSUME ~disturbed PROVE AccountInv'
      BY <2>14 DEF WriteHistory, AccountInv
    <3> DEFINE old == history.events
               event == EventOf(w)
    <3>1. /\ hist[w].events = old
          /\ current = [state |-> "ok", version |-> job[w].version,
                        gen |-> NextGeneration(cur[w].gen)]
      BY <2>14 DEF WriteHistory, At, MemoryInv, MemoryInvOf, Compared
    <3>2. history'.events = Append(old, event) /\ current' = current
      BY <2>14, <3>1 DEF WriteHistory
    <3>3. \A u \in Workers : pc'[u] # "writeHistory"
      <4>1. \A u \in Workers \ {w} : pc[u] # "writeHistory"
        BY <2>14 DEF WriteHistory, At, CallInv, CallInvOf, Critical
      <4> QED BY <2>14, <4>1, ReturnCall DEF WriteHistory, Types
    <3>4. old \in Seq(Events) /\ cur[w].gen \in Nat
      BY <2>14, Fields
        DEF WriteHistory, At, CallInv, CallInvOf, Types, FilesTypeOK, WorkersTypeOK
    <3>5. /\ event.gen = cur[w].gen + 1 /\ event.from = cur[w].version
          /\ event.to = job[w].version /\ event.op = job[w].op
      BY DEF EventOf, NextGeneration
    <3>6. Chained(old) /\ EndsAt(old, cur[w])
      BY <2>14 DEF WriteHistory, At, AccountInv
    <3>7. \A i \in 1..Len(old) : old[i].gen \in Nat
      <4>1. \A i \in 1..Len(old) : old[i] \in Events
        BY <3>4
      <4>2. \A e \in Events : e.gen \in Nat
        BY DEF Events
      <4> QED BY <4>1, <4>2
    <3>8. \A i \in 1..Len(old) :
            /\ old[i].gen < event.gen
            /\ event.gen = old[i].gen + 1 => event.from = old[i].to
      <4> SUFFICES ASSUME NEW i \in 1..Len(old)
                   PROVE  /\ old[i].gen < event.gen
                          /\ event.gen = old[i].gen + 1 => event.from = old[i].to
        OBVIOUS
      <4>1. /\ Len(old) \in 1..Len(old) /\ old[Len(old)].gen <= cur[w].gen
            /\ old[Len(old)].gen = cur[w].gen => old[Len(old)].to = cur[w].version
        BY <3>4, <3>6 DEF EndsAt
      <4>2. i # Len(old) => old[i].gen < old[Len(old)].gen
        BY <3>4, <3>6, <4>1 DEF Chained
      <4>3. old[i].gen \in Nat /\ old[Len(old)].gen \in Nat /\ cur[w].gen \in Nat
        BY <3>4, <3>7, <4>1
      <4>4. CASE i = Len(old)
        BY <3>5, <4>1, <4>3, <4>4
      <4>5. CASE i # Len(old)
        <5>1. old[i].gen < cur[w].gen
          BY <4>1, <4>2, <4>3, <4>5
        <5> QED BY <3>5, <4>3, <5>1
      <4> QED BY <4>4, <4>5
    <3>9. Chained(history'.events)
      BY <3>2, <3>4, <3>6, <3>8, ChainGrows
    <3>10. EndsAt(history'.events, current)
      <4>1. history'.events[Len(history'.events)] = event /\ Len(history'.events) > 0
        BY <3>2, <3>4
      <4> QED BY <3>1, <3>4, <3>5, <4>1 DEF EndsAt, Readable, NextGeneration
    <3>11. \A op \in acked' :
             \E i \in 1..Len(history'.events) : history'.events[i].op = op
      <4>1. \A op \in acked : \E i \in 1..Len(old) : old[i].op = op
        BY DEF AccountInv
      <4>2. acked' = acked \cup {job[w].op}
        BY <2>14 DEF WriteHistory
      <4> QED BY <3>2, <3>4, <3>5, <4>1, <4>2
    <3> QED BY <3>2, <3>3, <3>9, <3>10, <3>11 DEF AccountInv
  <2>15. CASE WriteManifest(w)
    BY <2>15
      DEF WriteManifest, At, Goto, AccountInv, Types, WorkersTypeOK, files, memory, ghosts, counts
  <2>16. CASE OpenVector(w)
    BY <2>16
      DEF OpenVector, At, Goto, AccountInv, Types, WorkersTypeOK, files, memory, ghosts, counts
  <2>17. CASE FillVector(w)
    BY <2>17
      DEF FillVector, At, Goto, AccountInv, Types, WorkersTypeOK, files, memory, ghosts, counts
  <2>18. CASE VectorsDone(w)
    BY <2>18
      DEF VectorsDone, At, Goto, AccountInv, Types, WorkersTypeOK, files, memory, ghosts, counts
  <2>19. CASE ReadReleases(w)
    BY <2>19
      DEF ReadReleases, At, Goto, AccountInv, Types, WorkersTypeOK, files, memory, ghosts, counts
  <2>20. CASE SeedHistory(w)
    <3> SUFFICES ASSUME ~disturbed' PROVE AccountInv'
      BY DEF AccountInv
    <3>1. ~disturbed /\ history'.events = history.events
      BY <2>20, SeededEvents
    <3>2. UNCHANGED <<current, cur, acked>>
          /\ \A u \in Workers : pc'[u] = "writeHistory" => pc[u] = "writeHistory"
      BY <2>20 DEF SeedHistory, Goto, Types, WorkersTypeOK, memory
    <3> QED BY <3>1, <3>2 DEF AccountInv
  <2>21. CASE SeeCurrent(w)
    <3>1. CASE Return(w)
      BY <2>21, <3>1, ReturnCall DEF SeeCurrent, AccountInv, Types, files, ghosts
    <3>2. CASE Goto(w, "openCurrent") /\ UNCHANGED <<lock, memory>>
      BY <2>21, <3>2 DEF SeeCurrent, Goto, AccountInv, Types, WorkersTypeOK, files, memory, ghosts
    <3> QED BY <2>21, <3>1, <3>2 DEF SeeCurrent
  <2>22. CASE OpenCurrent(w)
    <3> SUFFICES ASSUME ~disturbed' PROVE AccountInv'
      BY DEF AccountInv
    <3>1. ~disturbed /\ ~Readable(current)
      BY <2>22 DEF OpenCurrent, Readable
    <3>2. ~(Len(history.events) > 0)
      BY <3>1 DEF AccountInv, EndsAt
    <3> QED BY <2>22, <3>1, <3>2
      DEF OpenCurrent, Goto, AccountInv, EndsAt, Types, WorkersTypeOK, memory
  <2>23. CASE FillCurrent(w)
    <3> SUFFICES ASSUME ~disturbed' PROVE AccountInv'
      BY DEF AccountInv
    <3>1. ~disturbed /\ (current' = current \/ ~Readable(current))
      BY <2>23, FilledPointer
    <3>2. ~Readable(current) => ~(Len(history.events) > 0)
      BY <3>1 DEF AccountInv, EndsAt
    <3> QED BY <2>23, <3>1, <3>2, ReturnCall DEF FillCurrent, AccountInv, EndsAt, Types
  <2>24. CASE Fail(w)
    BY <2>24, ReturnCall
      DEF Fail, AccountInv, Types, files, ghosts
  <2> QED
    BY <1>2, <2>1, <2>2, <2>3, <2>4, <2>5, <2>6, <2>7, <2>8, <2>9, <2>10,
         <2>11, <2>12, <2>13, <2>14, <2>15, <2>16, <2>17, <2>18, <2>19,
         <2>20, <2>21, <2>22, <2>23, <2>24
       DEF Call, Step, Transition, Seeding
<1> QED BY <1>1, <1>2 DEF Next

(* The layers hold initially. *)
LEMMA InitialRegistry == Init => RegistryInv
<1> SUFFICES ASSUME Init PROVE RegistryInv
  OBVIOUS
<1>1. FilesTypeOK
  BY EmptyDocuments DEF Init, FilesTypeOK, NoCorpus, Contents
<1>2. WorkersTypeOK
  BY EmptyDocuments DEF Init, WorkersTypeOK, Points
<1>3. GhostsTypeOK
  <2>1. 0 \in 0..MaxCalls /\ 0 \in 0..MaxSeeds /\ 0 \in 0..MaxFaults
    BY RegistryAssumption
  <2> QED BY <2>1 DEF Init, GhostsTypeOK
<1>4. CallInv
  BY DEF Init, CallInv, CallInvOf, MovePoints, SeedPoints, Critical, Compared
<1>5. MemoryInv
  BY DEF Init, MemoryInv, MemoryInvOf, Compared
<1>6. AccountInv
  BY DEF Init, AccountInv, NoHistory, EndsAt, Chained
<1>7. FilledInv
  BY DEF Init, FilledInv, NoHistory
<1> QED BY <1>1, <1>2, <1>3, <1>4, <1>5, <1>6, <1>7 DEF RegistryInv, Types

-----------------------------------------------------------------------------
(* What a step of w leaves alone, and what it can have been.                 *)

Does(w) == Call(w) \/ Step(w) \/ Fail(w)

(* A step of w is no other worker's. *)
KeepsOthers(w) ==
  \A u \in Workers \ {w} :
    /\ pc'[u] = pc[u] /\ job'[u] = job[u] /\ seen'[u] = seen[u]
    /\ cur'[u] = cur[u] /\ hist'[u] = hist[u] /\ filling'[u] = filling[u]

(* Who writes what. *)
WritesOf(w) ==
  /\ manifest' = manifest \/ WriteManifest(w)
  /\ vectors' = vectors \/ OpenVector(w) \/ FillVector(w)
  /\ history' = history \/ WriteHistory(w) \/ SeedHistory(w)
  /\ \/ current' = current /\ moved' = moved
     \/ WriteCurrent(w) \/ OpenCurrent(w) \/ FillCurrent(w)
  /\ \/ unlinked' = unlinked
     \/ WriteCurrent(w) \/ WriteHistory(w) \/ SeedHistory(w) \/ OpenCurrent(w)
  /\ tickets' = tickets \/ CallTransition(w)
  /\ seeds' = seeds \/ CallSeed(w)
  /\ disturbed => disturbed'

(* How w comes to the point where it is now. *)
ArrivesOf(w) ==
  /\ pc'[w] \in MovePoints =>
       CallTransition(w) \/ Retry(w) \/ (pc[w] \in MovePoints /\ job'[w] = job[w])
  /\ pc'[w] \in SeedPoints =>
       CallSeed(w) \/ (pc[w] \in SeedPoints /\ job'[w] = job[w])
  /\ pc'[w] \in Describing =>
       CallSeed(w) \/ (pc[w] \in Describing /\ job'[w] = job[w])
  /\ pc'[w] \in Filed =>
       (pc[w] = "fillManifest" /\ WriteManifest(w)) \/ (pc[w] \in Filed /\ job'[w] = job[w])
  /\ pc'[w] = "fillVector" => OpenVector(w)
  /\ pc'[w] = "fillHistory" => SeedHistory(w) /\ history' = TornHistory
  /\ pc'[w] = "verify" => ReadManifest(w)
  /\ pc'[w] = "writeCurrent" => AcceptVerified(w)
  /\ pc'[w] = "writeHistory" => WriteCurrent(w)
  /\ seen'[w] = seen[w] \/ seen'[w] = NoManifest \/ ReadManifest(w)

(* A call that ends leaves its worker idle and empty-handed. *)
LEMMA ReturnEffect ==
  ASSUME Types, NEW w \in Workers, Return(w)
  PROVE  pc'[w] = "idle" /\ seen'[w] = NoManifest /\ KeepsOthers(w)
BY DEF Return, Goto, Forget, KeepsOthers, Types, WorkersTypeOK

(* Every action. *)
LEMMA StepEffect ==
  ASSUME Types, NEW w \in Workers, Does(w)
  PROVE  KeepsOthers(w) /\ WritesOf(w) /\ ArrivesOf(w)
<1>1. CASE CallSeed(w)
  BY <1>1
    DEF CallSeed, At, Goto, KeepsOthers, WritesOf, ArrivesOf, Types, WorkersTypeOK,
        MovePoints, SeedPoints, Critical, Describing, Filed, files, memory, ghosts, counts
<1>2. CASE CallTransition(w)
  <2>1. pc'[w] = "lock" /\ seen' = seen /\ KeepsOthers(w)
    BY <1>2 DEF CallTransition, Serve, Goto, KeepsOthers, Types, WorkersTypeOK
  <2>2. ArrivesOf(w)
    BY <1>2, <2>1 DEF ArrivesOf, MovePoints, SeedPoints, Critical, Describing, Filed
  <2>3. /\ UNCHANGED <<files, moved, seeds, disturbed>>
        /\ tickets' = tickets \/ CallTransition(w)
    BY <1>2 DEF CallTransition, Serve, files, ghosts
  <2> QED BY <2>1, <2>2, <2>3 DEF WritesOf, files
<1>3. CASE Retry(w)
  <2>1. pc'[w] = "lock" /\ seen' = seen /\ KeepsOthers(w)
    BY <1>3 DEF Retry, Serve, Goto, KeepsOthers, Types, WorkersTypeOK
  <2>2. ArrivesOf(w)
    BY <1>3, <2>1 DEF ArrivesOf, MovePoints, SeedPoints, Critical, Describing, Filed
  <2>3. /\ UNCHANGED <<files, moved, seeds, disturbed>>
        /\ tickets' = tickets \/ CallTransition(w)
    BY <1>3 DEF Retry, Serve, files, ghosts
  <2> QED BY <2>1, <2>2, <2>3 DEF WritesOf, files
<1>4. CASE AcquireLock(w)
  BY <1>4
    DEF AcquireLock, At, Goto, KeepsOthers, WritesOf, ArrivesOf, Types, WorkersTypeOK,
        MovePoints, SeedPoints, Critical, Describing, Filed, files, memory, ghosts, counts
<1>5. CASE ReadPointer(w)
  BY <1>5
    DEF ReadPointer, At, Goto, KeepsOthers, WritesOf, ArrivesOf, Types, WorkersTypeOK,
        MovePoints, SeedPoints, Critical, Describing, Filed, files, memory, ghosts, counts
<1>6. CASE ReturnRepeat(w)
  BY <1>6, ReturnEffect
    DEF ReturnRepeat, WritesOf, ArrivesOf, MovePoints, SeedPoints, Critical, Describing, Filed, files, ghosts, counts
<1>7. CASE RefuseUnknown(w)
  BY <1>7, ReturnEffect
    DEF RefuseUnknown, WritesOf, ArrivesOf, MovePoints, SeedPoints, Critical, Describing, Filed, files, ghosts, counts
<1>8. CASE RefuseStale(w)
  BY <1>8, ReturnEffect
    DEF RefuseStale, WritesOf, ArrivesOf, MovePoints, SeedPoints, Critical, Describing, Filed, files, ghosts, counts
<1>9. CASE Proceed(w)
  BY <1>9
    DEF Proceed, At, Goto, KeepsOthers, WritesOf, ArrivesOf, Types, WorkersTypeOK,
        MovePoints, SeedPoints, Critical, Describing, Filed, files, memory, ghosts, counts
<1>10. CASE ReadManifest(w)
  BY <1>10
    DEF ReadManifest, At, Goto, KeepsOthers, WritesOf, ArrivesOf, Types, WorkersTypeOK,
        MovePoints, SeedPoints, Critical, Describing, Filed, files, memory, ghosts, counts
<1>11. CASE RefuseUnverified(w)
  BY <1>11, ReturnEffect
    DEF RefuseUnverified, WritesOf, ArrivesOf, MovePoints, SeedPoints, Critical, Describing, Filed, files, ghosts, counts
<1>12. CASE AcceptVerified(w)
  BY <1>12
    DEF AcceptVerified, At, Goto, KeepsOthers, WritesOf, ArrivesOf, Types, WorkersTypeOK,
        MovePoints, SeedPoints, Critical, Describing, Filed, files, memory, ghosts, counts
<1>13. CASE WriteCurrent(w)
  BY <1>13
    DEF WriteCurrent, At, Goto, KeepsOthers, WritesOf, ArrivesOf, Types, WorkersTypeOK,
        MovePoints, SeedPoints, Critical, Describing, Filed, files, memory, ghosts, counts
<1>14. CASE WriteHistory(w)
  BY <1>14, ReturnEffect
    DEF WriteHistory, WritesOf, ArrivesOf, MovePoints, SeedPoints, Critical, Describing, Filed, files, ghosts, counts
<1>15. CASE WriteManifest(w)
  BY <1>15
    DEF WriteManifest, At, Goto, KeepsOthers, WritesOf, ArrivesOf, Types, WorkersTypeOK,
        MovePoints, SeedPoints, Critical, Describing, Filed, files, memory, ghosts, counts
<1>16. CASE OpenVector(w)
  BY <1>16
    DEF OpenVector, At, Goto, KeepsOthers, WritesOf, ArrivesOf, Types, WorkersTypeOK,
        MovePoints, SeedPoints, Critical, Describing, Filed, files, memory, ghosts, counts
<1>17. CASE FillVector(w)
  BY <1>17
    DEF FillVector, At, Goto, KeepsOthers, WritesOf, ArrivesOf, Types, WorkersTypeOK,
        MovePoints, SeedPoints, Critical, Describing, Filed, files, memory, ghosts, counts
<1>18. CASE VectorsDone(w)
  BY <1>18
    DEF VectorsDone, At, Goto, KeepsOthers, WritesOf, ArrivesOf, Types, WorkersTypeOK,
        MovePoints, SeedPoints, Critical, Describing, Filed, files, memory, ghosts, counts
<1>19. CASE ReadReleases(w)
  BY <1>19
    DEF ReadReleases, At, Goto, KeepsOthers, WritesOf, ArrivesOf, Types, WorkersTypeOK,
        MovePoints, SeedPoints, Critical, Describing, Filed, files, memory, ghosts, counts
<1>20. CASE SeedHistory(w)
  <2>1. \/ pc[w] = "openHistory" /\ pc'[w] = "fillHistory" /\ history' = TornHistory
        \/ pc[w] = "fillHistory" /\ pc'[w] = "seeCurrent"
    BY <1>20 DEF SeedHistory, At, Goto, Types, WorkersTypeOK
  <2>2. KeepsOthers(w) /\ UNCHANGED memory
    BY <1>20 DEF SeedHistory, Goto, KeepsOthers, Types, WorkersTypeOK, memory
  <2>3. WritesOf(w)
    <3>1. UNCHANGED <<manifest, vectors, current, moved, tickets, seeds>>
      BY <1>20 DEF SeedHistory, counts
    <3>2. disturbed => disturbed'
      BY <1>20 DEF SeedHistory
    <3> QED BY <1>20, <3>1, <3>2 DEF WritesOf
  <2>4. ArrivesOf(w)
    BY <1>20, <2>1, <2>2
      DEF ArrivesOf, MovePoints, SeedPoints, Critical, Describing, Filed, memory
  <2> QED BY <2>2, <2>3, <2>4
<1>21. CASE SeeCurrent(w)
  <2>1. CASE Return(w)
    BY <1>21, <2>1, ReturnEffect
      DEF SeeCurrent, WritesOf, ArrivesOf, MovePoints, SeedPoints, Critical, Describing, Filed, files, ghosts, counts
  <2>2. CASE Goto(w, "openCurrent") /\ UNCHANGED <<lock, memory>>
    BY <1>21, <2>2
      DEF SeeCurrent, At, Goto, KeepsOthers, WritesOf, ArrivesOf, Types, WorkersTypeOK,
          MovePoints, SeedPoints, Critical, Describing, Filed, files, memory, ghosts, counts
  <2> QED BY <1>21, <2>1, <2>2 DEF SeeCurrent
<1>22. CASE OpenCurrent(w)
  BY <1>22
    DEF OpenCurrent, At, Goto, KeepsOthers, WritesOf, ArrivesOf, Types, WorkersTypeOK,
        MovePoints, SeedPoints, Critical, Describing, Filed, files, memory, ghosts, counts
<1>23. CASE FillCurrent(w)
  BY <1>23, ReturnEffect
    DEF FillCurrent, WritesOf, ArrivesOf, MovePoints, SeedPoints, Critical, Describing, Filed, files, ghosts, counts
<1>24. CASE Fail(w)
  BY <1>24, ReturnEffect
    DEF Fail, WritesOf, ArrivesOf, MovePoints, SeedPoints, Critical, Describing, Filed, files, ghosts, counts
<1> QED
  BY <1>1, <1>2, <1>3, <1>4, <1>5, <1>6, <1>7, <1>8, <1>9, <1>10, <1>11, <1>12,
       <1>13, <1>14, <1>15, <1>16, <1>17, <1>18, <1>19, <1>20, <1>21, <1>22, <1>23, <1>24
     DEF Does, Call, Step, Transition, Seeding

(* A history.json that a seed still fills holds no event: who puts one there *)
(* puts another file in its place.                                           *)
LEMMA FilledStep ==
  ASSUME Types, FilledInv, NEW w \in Workers, Does(w)
  PROVE  FilledInv'
<1> SUFFICES ASSUME NEW u \in Workers, pc'[u] = "fillHistory", u \notin unlinked'
             PROVE  history'.events = <<>>
  BY DEF FilledInv
<1>0. KeepsOthers(w) /\ WritesOf(w) /\ ArrivesOf(w)
  BY StepEffect
<1>1. CASE u = w
  BY <1>0, <1>1 DEF ArrivesOf, TornHistory, NoHistory
<1>2. CASE u # w
  <2>1. pc[u] = "fillHistory"
    BY <1>0, <1>2 DEF KeepsOthers
  <2>2. ~WriteHistory(w)
    BY <2>1 DEF WriteHistory, At
  <2>3. CASE SeedHistory(w)
    <3>1. u \notin unlinked
      BY <1>2, <2>3 DEF SeedHistory
    <3>2. history.events = <<>>
      BY <2>1, <3>1 DEF FilledInv
    <3> QED BY <2>3, <3>2, SeededEvents
  <2>4. CASE ~SeedHistory(w)
    <3>1. history' = history
      BY <1>0, <2>2, <2>4 DEF WritesOf
    <3>2. u \notin unlinked
      BY <1>0, <1>2, <2>2, <2>4 DEF WritesOf, WriteCurrent, OpenCurrent
    <3> QED BY <2>1, <3>1, <3>2 DEF FilledInv
  <2> QED BY <2>3, <2>4
<1> QED BY <1>1, <1>2

(* The layers of RegistryInv, one step further.                              *)
LEMMA RegistryStep == RegistryInv /\ [Next]_vars => RegistryInv'
<1> SUFFICES ASSUME RegistryInv, [Next]_vars PROVE RegistryInv'
  OBVIOUS
<1>1. FilledInv'
  <2>1. CASE UNCHANGED vars
    BY <2>1 DEF RegistryInv, FilledInv, vars, files
  <2>2. ASSUME NEW w \in Workers, Does(w) PROVE FilledInv'
    BY <2>2, FilledStep DEF RegistryInv
  <2> QED BY <2>1, <2>2 DEF Next, Does
<1> QED BY <1>1, TypeStep, CallStep, MemoryStep, AccountStep DEF RegistryInv

-----------------------------------------------------------------------------
(* Tickets. *)

(* What an operation was first used for is never replaced.                   *)
LEMMA TicketsStay ==
  ASSUME Types, NEW w \in Workers, Does(w)
  PROVE  \A op \in Ops : Used(op) => tickets'[op] = tickets[op]
<1>1. CASE tickets' = tickets
  BY <1>1
<1>2. CASE CallTransition(w)
  <2>1. PICK op \in Ops, v \in Versions, kind \in {"promote", "rollback"} :
          LET ticket == [kind |-> kind, op |-> op, version |-> v,
                         expVersion |-> current.version, expGen |-> current.gen]
          IN tickets[op].kind = "none" /\ tickets' = [tickets EXCEPT ![op] = ticket]
    BY <1>2 DEF CallTransition
  <2> QED BY <2>1 DEF Used, Types, GhostsTypeOK
<1> QED BY <1>1, <1>2, StepEffect DEF WritesOf

(* Retries repeat what the operation was first used for.                     *)
LEMMA TicketStep ==
  ASSUME Types, CallInv, TicketInv, NEW w \in Workers, Does(w)
  PROVE  TicketInv'
<1> DEFINE Same(u) == /\ tickets[job[u].op].kind # "none"
                      /\ job[u].expGen = tickets[job[u].op].expGen
<1>1. CASE CallTransition(w)
  <2>1. PICK op \in Ops, v \in Versions, kind \in {"promote", "rollback"} :
          LET ticket == [kind |-> kind, op |-> op, version |-> v,
                         expVersion |-> current.version, expGen |-> current.gen]
          IN /\ tickets[op].kind = "none"
             /\ tickets' = [tickets EXCEPT ![op] = ticket]
             /\ Serve(w, ticket)
    BY <1>1 DEF CallTransition
  <2>2. /\ tickets'[op].op = op /\ tickets'[op].kind # "none"
        /\ tickets'[op].expGen = current.gen
        /\ \A o \in Ops \ {op} : tickets'[o] = tickets[o]
    BY <2>1 DEF Types, GhostsTypeOK
  <2>3. job'[w].op = op /\ job'[w].expGen = current.gen
    BY <2>1 DEF Serve, Types, WorkersTypeOK
  <2>4. ASSUME NEW u \in Workers \ {w}, pc'[u] \in MovePoints PROVE Same(u)'
    <3>1. pc[u] \in MovePoints /\ job'[u] = job[u] /\ job[u].op \in Ops
      BY <2>4, StepEffect DEF KeepsOthers, CallInv, CallInvOf, MoveJobs
    <3>2. Same(u)
      BY <3>1 DEF TicketInv, Used
    <3> QED BY <3>1, <3>2, TicketsStay DEF Used
  <2> QED BY <2>2, <2>3, <2>4 DEF TicketInv, Used
<1>2. CASE tickets' = tickets
  <2>1. ASSUME NEW u \in Workers, pc'[u] \in MovePoints PROVE Same(u)'
    <3>1. CASE pc[u] \in MovePoints /\ job'[u] = job[u]
      BY <1>2, <3>1 DEF TicketInv, Used
    <3>2. CASE u = w /\ Retry(w)
      <4>1. PICK op \in Ops : tickets[op].kind # "none" /\ Serve(w, tickets[op])
        BY <3>2 DEF Retry
      <4>2. job'[w].op = tickets[op].op /\ job'[w].expGen = tickets[op].expGen
        BY <4>1 DEF Serve, Types, WorkersTypeOK
      <4> QED BY <1>2, <3>2, <4>1, <4>2 DEF TicketInv, Used
    <3>3. CASE u = w /\ CallTransition(w)
      <4>1. PICK op \in Ops, v \in Versions, kind \in {"promote", "rollback"} :
              LET ticket == [kind |-> kind, op |-> op, version |-> v,
                             expVersion |-> current.version, expGen |-> current.gen]
              IN tickets[op].kind = "none" /\ tickets' = [tickets EXCEPT ![op] = ticket]
        BY <3>3 DEF CallTransition
      <4>2. tickets'[op].kind \in {"promote", "rollback"}
        BY <4>1 DEF Types, GhostsTypeOK
      <4> QED BY <1>2, <4>1, <4>2
    <3> QED BY <2>1, <3>1, <3>2, <3>3, StepEffect DEF KeepsOthers, ArrivesOf
  <2> QED BY <1>2, <2>1 DEF TicketInv, Used
<1> QED BY <1>1, <1>2, StepEffect DEF WritesOf

-----------------------------------------------------------------------------
(* Generations. *)

(* The set of operations that moved the pointer is finite.                   *)
LEMMA MovedIsFinite ==
  ASSUME Types
  PROVE  IsFiniteSet(moved) /\ Cardinality(moved) \in Nat /\ IsFiniteSet(Ops)
BY FS_Subset, FS_CardinalityType, RegistryAssumption DEF Types, GhostsTypeOK

(* Without a readable pointer no operation has moved it.                     *)
LEMMA UnmovedAtFirst ==
  ASSUME Types, SpentInv, ~disturbed, ~Readable(current)
  PROVE  current.gen = 0 /\ current.version = "none" /\ moved = {}
<1>1. current.gen = 0 /\ current.version = "none"
  BY DEF Types, FilesTypeOK, Pointers, NoCurrent, TornCurrent, Readable
<1>2. ASSUME NEW op \in moved PROVE FALSE
  <2>1. op \in Ops /\ Used(op) /\ tickets[op].expGen < 0
    BY <1>1 DEF SpentInv, Types, GhostsTypeOK
  <2>2. tickets[op].expGen \in Nat
    BY <2>1 DEF Types, GhostsTypeOK, Used, NoJob, Tickets
  <2> QED BY <2>1, <2>2
<1> QED BY <1>1, <1>2

(* The move that a write of the pointer makes: from the generation its       *)
(* operation expects, by an operation that has not moved it before.          *)
LEMMA MoveEffect ==
  ASSUME Types, CallInv, MemoryInv, TicketInv, SpentInv, NEW w \in Workers,
         WriteCurrent(w), ~disturbed
  PROVE  /\ cur[w] = current /\ Readable(current) /\ current.gen \in Nat
         /\ job[w].op \in Ops \ moved /\ job[w].version \in Versions
         /\ Used(job[w].op) /\ tickets[job[w].op].expGen = current.gen
         /\ current' = [state |-> "ok", version |-> job[w].version, gen |-> current.gen + 1]
         /\ moved' = moved \cup {job[w].op}
<1>1. cur[w] = current /\ Readable(current)
  BY DEF WriteCurrent, At, CallInv, CallInvOf, MemoryInv, MemoryInvOf, Compared
<1>2. job[w] \in MoveJobs /\ job[w].expGen = cur[w].gen
  BY DEF WriteCurrent, At, CallInv, CallInvOf, MovePoints, Critical, Compared, Stale
<1>3. Used(job[w].op) /\ tickets[job[w].op].expGen = current.gen
  BY <1>1, <1>2 DEF WriteCurrent, At, TicketInv, MovePoints, Critical
<1>4. current.gen \in Nat
  BY <1>1, Fields DEF Types, FilesTypeOK
<1>5. job[w].op \notin moved
  BY <1>3, <1>4 DEF SpentInv
<1> QED BY <1>1, <1>2, <1>3, <1>4, <1>5 DEF WriteCurrent, MoveJobs, NextGeneration

(* Operations that have moved the pointer stay spent.                        *)
LEMMA SpentStep ==
  ASSUME Types, CallInv, MemoryInv, TicketInv, SpentInv, Types', NEW w \in Workers, Does(w)
  PROVE  SpentInv'
<1> SUFFICES ASSUME ~disturbed' PROVE SpentInv'
  BY DEF SpentInv
<1>0. ~disturbed
  BY StepEffect DEF WritesOf
<1> DEFINE Pointer == /\ Readable(current) => current.gen > 0
                      /\ current.gen <= 1 + Cardinality(moved)
                      /\ \A op \in moved : Used(op) /\ tickets[op].expGen < current.gen
           Event(i) == LET event == history.events[i] IN
                         Used(event.op) /\ event.gen = tickets[event.op].expGen + 1
           Told     == \A i \in 1..Len(history.events) : Event(i)
<1>1. Pointer /\ Told
  BY <1>0 DEF SpentInv
<1>2. Pointer'
  <2>1. \A op \in moved : Used(op)' /\ tickets'[op] = tickets[op]
    BY <1>1, TicketsStay DEF Types, GhostsTypeOK, Used
  <2>2. CASE current' = current /\ moved' = moved
    BY <1>1, <2>1, <2>2 DEF Readable
  <2>3. CASE WriteCurrent(w)
    <3>1. /\ current.gen \in Nat /\ current'.gen = current.gen + 1
          /\ job[w].op \in Ops \ moved /\ moved' = moved \cup {job[w].op}
          /\ Used(job[w].op) /\ tickets[job[w].op].expGen = current.gen
      BY <1>0, <2>3, MoveEffect
    <3>2. Cardinality(moved') = Cardinality(moved) + 1 /\ Cardinality(moved) \in Nat
      BY <3>1, MovedIsFinite, FS_AddElement
    <3>3. current'.gen > 0 /\ current'.gen <= 1 + Cardinality(moved')
      BY <1>1, <3>1, <3>2
    <3>4. tickets' = tickets
      BY <2>3 DEF WriteCurrent
    <3>5. \A op \in moved' : tickets'[op].kind # "none" /\ tickets'[op].expGen < current'.gen
      <4>1. ASSUME NEW op \in moved PROVE tickets'[op].kind # "none" /\ tickets'[op].expGen < current'.gen
        <5>1. tickets[op] \in Tickets
          BY <1>1 DEF Types, GhostsTypeOK, Used, NoJob
        <5>2. tickets[op].expGen \in Nat /\ tickets[op].expGen < current.gen
          BY <1>1, <5>1 DEF Tickets
        <5> QED BY <1>1, <3>1, <3>4, <5>2 DEF Used
      <4>2. tickets'[job[w].op].kind # "none" /\ tickets'[job[w].op].expGen < current'.gen
        BY <3>1, <3>4 DEF Used
      <4> QED BY <3>1, <4>1, <4>2
    <3> QED BY <3>3, <3>5 DEF Used
  <2>4. CASE OpenCurrent(w) \/ FillCurrent(w)
    <3>1. moved' = moved
      BY <2>4 DEF OpenCurrent, FillCurrent
    <3>2. current' = current \/ ~Readable(current)
      BY <2>4, FilledPointer DEF OpenCurrent, Readable
    <3>3. current' = current \/ current' = TornCurrent \/ current'.gen = 1
      BY <2>4, FilledPointer DEF OpenCurrent
    <3>4. CASE ~Readable(current) /\ current' # current
      <4>1. moved' = {}
        BY <1>0, <3>1, <3>4, UnmovedAtFirst
      <4> QED BY <3>3, <3>4, <4>1, FS_EmptySet DEF TornCurrent, NoCurrent, Readable
    <3> QED BY <2>2, <3>1, <3>2, <3>4
  <2> QED BY <2>2, <2>3, <2>4, StepEffect DEF WritesOf
<1>3. Told'
  <2>1. \A e \in Events : Used(e.op) => Used(e.op)' /\ tickets'[e.op] = tickets[e.op]
    BY TicketsStay DEF Events, Used
  <2>2. history.events \in Seq(Events)
    BY Fields DEF Types, FilesTypeOK
  <2>3. ASSUME NEW i \in 1..Len(history.events), history'.events[i] = history.events[i]
        PROVE  Event(i)'
    BY <1>1, <2>1, <2>2, <2>3
  <2>4. CASE history' = history
    BY <2>3, <2>4
  <2>5. CASE WriteHistory(w)
    <3>1. history'.events = Append(history.events, EventOf(w))
      BY <1>0, <2>5 DEF WriteHistory, At, MemoryInv, MemoryInvOf, Compared
    <3>2. EventOf(w).op = job[w].op /\ EventOf(w).gen = job[w].expGen + 1
      BY <2>5 DEF WriteHistory, At, CallInv, CallInvOf, Stale, EventOf, NextGeneration
    <3>3. Used(job[w].op) /\ job[w].expGen = tickets[job[w].op].expGen
      BY <2>5 DEF WriteHistory, At, TicketInv, MovePoints, Critical
    <3>4. tickets' = tickets
      BY <2>5 DEF WriteHistory
    <3>5. /\ \A i \in 1..Len(history.events) : history'.events[i] = history.events[i]
          /\ Len(history'.events) = Len(history.events) + 1
          /\ history'.events[Len(history'.events)] = EventOf(w)
      BY <2>2, <3>1
    <3>6. LET event == EventOf(w) IN
            tickets'[event.op].kind # "none" /\ event.gen = tickets'[event.op].expGen + 1
      BY <3>2, <3>3, <3>4 DEF Used
    <3>7. ASSUME NEW i \in 1..Len(history'.events) PROVE Event(i)'
      <4>1. CASE i \in 1..Len(history.events)
        BY <2>3, <3>5, <4>1
      <4>2. CASE i = Len(history'.events)
        BY <3>5, <3>6, <4>2 DEF Used
      <4> QED BY <2>2, <3>5, <4>1, <4>2
    <3> QED BY <3>7
  <2>6. CASE SeedHistory(w)
    <3>1. history' = history \/ history'.events = <<>>
      BY <2>6 DEF SeedHistory, TornHistory, NoHistory
    <3> QED BY <2>4, <3>1
  <2> QED BY <2>4, <2>5, <2>6, StepEffect DEF WritesOf
<1> QED BY <1>2, <1>3 DEF SpentInv

-----------------------------------------------------------------------------
(* Manifests and vectors. *)

(* The corpora of manifests. *)
LEMMA Corpus ==
  ASSUME NEW m \in Manifests
  PROVE  /\ m.corpus \in [Entries -> Hashes \cup {"absent"}]
         /\ \A e \in Entries : m.corpus[e] # "torn"
         /\ m.hash = 0 => m.corpus = NoCorpus
<1>1. m.corpus \in [Entries -> Hashes \cup {"absent"}]
  BY RegistryAssumption DEF Manifests, NoManifest, TornManifest, NoCorpus
<1>2. \A e \in Entries : m.corpus[e] # "torn"
  BY <1>1, RegistryAssumption
<1>3. m.hash = 0 => m.corpus = NoCorpus
  BY DEF Manifests, NoManifest, TornManifest
<1> QED BY <1>1, <1>2, <1>3

(* What a seed call is given. *)
LEMMA SeedEffect ==
  ASSUME Types, NEW w \in Workers, CallSeed(w)
  PROVE  pc'[w] = "openManifest" /\ job'[w].hash = seeds + 1 /\ seeds' = seeds + 1
BY DEF CallSeed, Goto, Types, WorkersTypeOK

(* No step brings back a writer of a settled manifest. *)
LEMMA SettledStays ==
  ASSUME Types, NEW w \in Workers, Does(w), NEW hash \in Nat, Settled(hash)
  PROVE  Settled(hash)'
<1>1. seeds \in Nat /\ (seeds' = seeds \/ seeds' = seeds + 1)
  BY StepEffect, SeedEffect DEF Types, GhostsTypeOK, WritesOf
<1>2. hash <= seeds'
  BY <1>1 DEF Settled
<1>3. ASSUME NEW u \in Workers, pc'[u] \in Describing PROVE job'[u].hash # hash
  <2>1. CASE pc[u] \in Describing /\ job'[u] = job[u]
    BY <2>1 DEF Settled
  <2>2. CASE u = w /\ CallSeed(w)
    BY <1>1, <2>2, SeedEffect DEF Settled
  <2> QED BY <1>3, <2>1, <2>2, StepEffect DEF KeepsOthers, ArrivesOf
<1> QED BY <1>2, <1>3 DEF Settled

(* The two steps of writing a manifest. *)
LEMMA ManifestEffect ==
  ASSUME Types, CallInv, NEW w \in Workers, WriteManifest(w)
  PROVE  /\ pc[w] \in Describing /\ job[w] \in SeedJobs
         /\ \A v \in Versions : v # job[w].version => manifest'[v] = manifest[v]
         /\ manifest'[job[w].version].hash \in {0, job[w].hash}
         /\ pc[w] = "openManifest" => manifest'[job[w].version] = TornManifest
         /\ pc[w] = "fillManifest" =>
              /\ pc'[w] = "vectors"
              /\ manifest'[job[w].version].hash = job[w].hash
              /\ manifest'[job[w].version].corpus = job[w].corpus
         /\ UNCHANGED <<vectors, history, current, job, seen, filling, seeds>>
<1>1. pc[w] \in Describing /\ job[w] \in SeedJobs
  BY DEF WriteManifest, At, CallInv, CallInvOf, Describing, SeedPoints
<1>2. job[w].version \in Versions
  BY <1>1 DEF SeedJobs
<1> QED
  BY <1>1, <1>2
     DEF WriteManifest, At, Goto, Types, FilesTypeOK, WorkersTypeOK, TornManifest, NoManifest,
         memory, counts

(* A vector file is claimed only where there is none. *)
LEMMA OpenEffect ==
  ASSUME Types, CallInv, NEW w \in Workers, OpenVector(w)
  PROVE  /\ pc[w] = "vectors" /\ job[w] \in SeedJobs
         /\ job[w].version \in Versions /\ filling'[w] \in Entries
         /\ vectors[job[w].version][filling'[w]] = "absent"
         /\ job[w].corpus[filling'[w]] # "absent"
         /\ vectors'[job[w].version][filling'[w]] = "torn"
         /\ \A v \in Versions, e \in Entries :
              <<v, e>> # <<job[w].version, filling'[w]>> => vectors'[v][e] = vectors[v][e]
         /\ \A v \in Versions : v # job[w].version => vectors'[v] = vectors[v]
         /\ disturbed' = (disturbed \/ manifest[job[w].version].hash # job[w].hash)
         /\ UNCHANGED <<manifest, history, current, job, seen, seeds>>
<1>1. pc[w] = "vectors" /\ job[w] \in SeedJobs
  BY DEF OpenVector, At, CallInv, CallInvOf, SeedPoints
<1>2. job[w].version \in Versions
  BY <1>1 DEF SeedJobs
<1>3. PICK e \in Lacking(w) : /\ vectors' = [vectors EXCEPT ![job[w].version][e] = "torn"]
                              /\ filling' = [filling EXCEPT ![w] = e]
  BY DEF OpenVector
<1>4. filling'[w] = e
  BY <1>3 DEF Types, WorkersTypeOK
<1>5. /\ e \in Entries /\ job[w].corpus[e] # "absent"
      /\ vectors[job[w].version][e] = "absent"
  BY DEF Lacking
<1>6. /\ disturbed' = (disturbed \/ manifest[job[w].version].hash # job[w].hash)
      /\ UNCHANGED <<manifest, history, current, job, seen, seeds>>
  BY DEF OpenVector, counts
<1>7. /\ vectors'[job[w].version][e] = "torn"
      /\ \A v \in Versions, f \in Entries :
           <<v, f>> # <<job[w].version, e>> => vectors'[v][f] = vectors[v][f]
      /\ \A v \in Versions : v # job[w].version => vectors'[v] = vectors[v]
  BY <1>2, <1>3, <1>5 DEF Types, FilesTypeOK
<1> QED BY <1>1, <1>2, <1>4, <1>5, <1>6, <1>7

(* It is filled by the worker that claimed it. *)
LEMMA FillEffect ==
  ASSUME Types, CallInv, NEW w \in Workers, FillVector(w)
  PROVE  /\ pc[w] = "fillVector" /\ job[w].version \in Versions /\ filling[w] \in Entries
         /\ \A v \in Versions, e \in Entries :
              <<v, e>> # <<job[w].version, filling[w]>> => vectors'[v][e] = vectors[v][e]
         /\ \A v \in Versions : v # job[w].version => vectors'[v] = vectors[v]
         /\ UNCHANGED <<manifest, history, current, job, seen, seeds>>
<1>1. pc[w] = "fillVector" /\ job[w].version \in Versions /\ filling[w] \in Entries
  BY DEF FillVector, At, CallInv, CallInvOf, SeedPoints, SeedJobs
<1>2. vectors' = [vectors EXCEPT ![job[w].version][filling[w]] = job[w].corpus[filling[w]]]
  BY DEF FillVector
<1>3. /\ \A v \in Versions, e \in Entries :
           <<v, e>> # <<job[w].version, filling[w]>> => vectors'[v][e] = vectors[v][e]
      /\ \A v \in Versions : v # job[w].version => vectors'[v] = vectors[v]
  BY <1>1, <1>2 DEF Types, FilesTypeOK
<1>4. UNCHANGED <<manifest, history, current, job, seen, seeds>>
  BY DEF FillVector, counts
<1> QED BY <1>1, <1>3, <1>4

(* A hash keeps standing for one content, and a vector file keeps one writer. *)
LEMMA SeedStep ==
  ASSUME Types, CallInv, SeedInv, Types', CallInv', NEW w \in Workers, Does(w)
  PROVE  SeedInv'
<1>0. KeepsOthers(w) /\ WritesOf(w) /\ ArrivesOf(w)
  BY StepEffect
<1>1. \A v \in Versions : manifest[v] \in Manifests /\ manifest[v].hash \in Nat
  BY Fields, RegistryAssumption DEF Types, FilesTypeOK
<1>2. \A u \in Workers : seen[u] \in Manifests /\ seen[u].hash \in Nat
  BY Fields, RegistryAssumption DEF Types, WorkersTypeOK
<1>3. \A u \in Workers : pc[u] \in SeedPoints =>
        job[u].hash \in 1..MaxSeeds /\ job[u].version \in Versions /\ job[u].hash <= seeds
  BY DEF CallInv, CallInvOf, SeedJobs, SeedInv
<1>4. Settled(0)'
  <2>1. \A u \in Workers : pc'[u] \in Describing => job'[u].hash \in 1..MaxSeeds
    BY DEF CallInv, CallInvOf, Describing, SeedPoints, SeedJobs
  <2>2. seeds' \in Nat
    BY DEF Types, GhostsTypeOK
  <2> QED BY <2>1, <2>2 DEF Settled
<1>5. \A hash \in Nat : Settled(hash) => Settled(hash)'
  BY SettledStays
<1>6. ASSUME NEW v \in Versions PROVE Settled(manifest[v].hash)'
  <2>1. CASE manifest'[v] = manifest[v]
    BY <1>1, <1>5, <2>1 DEF SeedInv
  <2>2. CASE manifest'[v].hash = 0
    BY <1>4, <2>2
  <2>3. CASE WriteManifest(w) /\ pc[w] = "fillManifest" /\ v = job[w].version
    <3>1. /\ manifest'[v].hash = job[w].hash /\ pc'[w] = "vectors"
          /\ job' = job /\ seeds' = seeds /\ job[w].hash <= seeds
      BY <1>3, <2>3, ManifestEffect DEF SeedPoints
    <3>2. \A u \in Workers \ {w} : pc'[u] \in Describing => job[u].hash # job[w].hash
      BY <1>0, <2>3 DEF KeepsOthers, SeedInv, Describing, SeedPoints
    <3> QED BY <3>1, <3>2 DEF Settled, Describing
  <2>4. WriteManifest(w) => v # job[w].version \/ pc[w] \in Describing
    BY ManifestEffect
  <2> QED
    BY <1>0, <2>1, <2>2, <2>3, <2>4, ManifestEffect
       DEF WritesOf, Describing, TornManifest, NoManifest
<1>7. ASSUME NEW u \in Workers PROVE Settled(seen[u].hash)'
  <2>1. CASE seen'[u] = seen[u]
    BY <1>2, <1>5, <2>1 DEF SeedInv
  <2>2. CASE seen'[u] = NoManifest
    BY <1>4, <2>2 DEF NoManifest
  <2>3. CASE u = w /\ ReadManifest(w)
    <3>1. job[w].version \in Versions
      BY <2>3 DEF ReadManifest, At, CallInv, CallInvOf, MovePoints, Critical, MoveJobs
    <3>2. seen'[w] = manifest[job[w].version]
      BY <2>3 DEF ReadManifest, Types, WorkersTypeOK
    <3> QED BY <1>1, <1>5, <2>3, <3>1, <3>2 DEF SeedInv
  <2> QED BY <1>0, <2>1, <2>2, <2>3 DEF KeepsOthers, ArrivesOf
<1>8. ASSUME NEW u \in Workers, pc'[u] \in SeedPoints PROVE job'[u].hash <= seeds'
  <2>1. seeds \in Nat /\ (seeds' = seeds \/ seeds' = seeds + 1)
    BY <1>0, SeedEffect DEF Types, GhostsTypeOK, WritesOf
  <2>2. CASE pc[u] \in SeedPoints /\ job'[u] = job[u]
    BY <1>3, <2>1, <2>2
  <2>3. CASE u = w /\ CallSeed(w)
    BY <2>1, <2>3, SeedEffect
  <2> QED BY <1>0, <1>8, <2>2, <2>3 DEF KeepsOthers, ArrivesOf
<1>9. ASSUME NEW u \in Workers, pc'[u] \in Filed,
             manifest'[job'[u].version].hash = job'[u].hash
      PROVE  manifest'[job'[u].version].corpus = job'[u].corpus
  <2>1. CASE u = w /\ pc[w] = "fillManifest" /\ WriteManifest(w)
    BY <2>1, ManifestEffect
  <2>2. CASE pc[u] \in Filed /\ job'[u] = job[u]
    <3>1. pc[u] \in SeedPoints /\ pc[u] \notin Describing
      BY <2>2 DEF Filed
    <3>2. job[u].hash \in 1..MaxSeeds /\ job[u].version \in Versions
      BY <1>3, <3>1
    <3>3. manifest'[job[u].version] = manifest[job[u].version]
      <4>1. CASE WriteManifest(w)
        <5>1. u # w /\ job[w].hash # job[u].hash
          BY <3>1, <4>1, ManifestEffect DEF SeedInv, Describing, SeedPoints
        <5>2. manifest'[job[u].version].hash # 0
          BY <1>9, <2>2, <3>2
        <5>3. job[w].version # job[u].version
          BY <1>9, <2>2, <4>1, <5>1, <5>2, ManifestEffect
        <5> QED BY <3>2, <4>1, <5>3, ManifestEffect
      <4> QED BY <1>0, <4>1 DEF WritesOf
    <3> QED BY <1>9, <2>2, <3>1, <3>3 DEF SeedInv
  <2> QED BY <1>0, <1>9, <2>1, <2>2 DEF KeepsOthers, ArrivesOf
<1>10. ASSUME NEW u \in Workers, pc'[u] = "fillVector"
       PROVE  vectors'[job'[u].version][filling'[u]] = "torn"
  <2>1. CASE u = w
    <3>1. OpenVector(w)
      BY <1>0, <1>10, <2>1 DEF ArrivesOf
    <3> QED BY <2>1, <3>1, OpenEffect
  <2>2. CASE u # w
    <3>1. pc[u] = "fillVector" /\ job'[u] = job[u] /\ filling'[u] = filling[u]
      BY <1>0, <1>10, <2>2 DEF KeepsOthers
    <3>2. /\ vectors[job[u].version][filling[u]] = "torn"
          /\ job[u].version \in Versions /\ filling[u] \in Entries
      BY <1>3, <3>1 DEF SeedInv, SeedPoints, CallInv, CallInvOf
    <3>3. CASE vectors' = vectors
      BY <3>1, <3>2, <3>3
    <3>4. CASE OpenVector(w)
      <4>1. vectors[job[w].version][filling'[w]] = "absent"
        BY <3>4, OpenEffect
      <4>2. <<job[w].version, filling'[w]>> # <<job[u].version, filling[u]>>
        BY <3>2, <4>1
      <4> QED BY <3>1, <3>2, <3>4, <4>2, OpenEffect
    <3>5. CASE FillVector(w)
      <4>1. pc[w] = "fillVector"
        BY <3>5, FillEffect
      <4>2. <<job[w].version, filling[w]>> # <<job[u].version, filling[u]>>
        BY <2>2, <3>1, <4>1 DEF SeedInv
      <4> QED BY <3>1, <3>2, <3>5, <4>2, FillEffect
    <3> QED BY <1>0, <3>3, <3>4, <3>5 DEF WritesOf
  <2> QED BY <2>1, <2>2
<1>11. ASSUME NEW u \in Workers, pc'[u] \in {"verify", "writeCurrent", "writeHistory"},
              manifest'[job'[u].version].hash = seen'[u].hash
       PROVE  manifest'[job'[u].version].corpus = seen'[u].corpus
  <2>1. CASE u = w /\ ReadManifest(w)
    <3>1. /\ manifest' = manifest /\ job' = job
          /\ seen'[w] = manifest[job[w].version]
      BY <2>1 DEF ReadManifest, files, Types, WorkersTypeOK
    <3> QED BY <2>1, <3>1
  <2>2. CASE /\ pc[u] \in {"verify", "writeCurrent", "writeHistory"}
             /\ job'[u] = job[u] /\ seen'[u] = seen[u]
    <3>1. job[u].version \in Versions
      BY <2>2 DEF CallInv, CallInvOf, MovePoints, Critical, MoveJobs
    <3>2. CASE manifest'[job[u].version] = manifest[job[u].version]
      BY <1>11, <2>2, <3>2 DEF SeedInv
    <3>3. CASE WriteManifest(w) /\ job[w].version = job[u].version
      <4>1. job[w].hash # seen[u].hash
        BY <3>3, ManifestEffect DEF SeedInv, Settled
      <4>2. seen[u].hash = 0
        BY <1>11, <2>2, <3>3, <4>1, ManifestEffect
      <4>3. job[w].hash # 0
        BY <1>3, <3>3, ManifestEffect DEF Describing, SeedPoints
      <4>4. pc[w] = "openManifest"
        BY <1>11, <2>2, <3>3, <4>2, <4>3, ManifestEffect DEF Describing
      <4>5. manifest'[job[u].version] = TornManifest /\ seen[u].corpus = NoCorpus
        BY <1>2, <3>3, <4>2, <4>4, ManifestEffect, Corpus
      <4> QED BY <2>2, <4>5 DEF TornManifest, NoManifest
    <3> QED BY <1>0, <3>1, <3>2, <3>3, ManifestEffect DEF WritesOf
  <2>3. u = w => ReadManifest(w) \/ AcceptVerified(w) \/ WriteCurrent(w)
    BY <1>0, <1>11 DEF ArrivesOf
  <2>4. AcceptVerified(w) => pc[w] = "verify" /\ job' = job /\ seen' = seen
    BY DEF AcceptVerified, At, memory
  <2>5. WriteCurrent(w) => pc[w] = "writeCurrent" /\ job' = job /\ seen' = seen
    BY DEF WriteCurrent, At, memory
  <2> QED BY <1>0, <1>11, <2>1, <2>2, <2>3, <2>4, <2>5 DEF KeepsOthers
<1>12. ASSUME NEW u \in Workers, NEW x \in Workers, u # x,
              pc'[u] \in SeedPoints, pc'[x] \in SeedPoints
       PROVE  job'[u].hash # job'[x].hash
  <2>1. \A y \in {u, x} :
          (pc[y] \in SeedPoints /\ job'[y] = job[y]) \/ (y = w /\ CallSeed(w))
    BY <1>0, <1>12 DEF KeepsOthers, ArrivesOf
  <2>2. CASE \A y \in {u, x} : pc[y] \in SeedPoints /\ job'[y] = job[y]
    BY <1>12, <2>2 DEF SeedInv
  <2>3. CASE w \in {u, x} /\ CallSeed(w)
    <3>1. PICK y \in {u, x} : y # w
      BY <1>12
    <3>2. job'[y].hash <= seeds /\ job'[y].hash \in Nat
      BY <1>3, <2>1, <3>1
    <3>3. job'[w].hash = seeds + 1 /\ seeds \in Nat
      BY <2>3, SeedEffect DEF Types, GhostsTypeOK
    <3>4. job'[y].hash # job'[w].hash
      BY <3>2, <3>3
    <3> QED BY <1>12, <2>3, <3>1, <3>4
  <2> QED BY <2>1, <2>2, <2>3
<1>13. ASSUME NEW u \in Workers, NEW x \in Workers, u # x,
              pc'[u] = "fillVector", pc'[x] = "fillVector"
       PROVE  <<job'[u].version, filling'[u]>> # <<job'[x].version, filling'[x]>>
  <2>1. CASE u # w /\ x # w
    BY <1>0, <1>13, <2>1 DEF KeepsOthers, SeedInv
  <2>2. CASE u = w \/ x = w
    <3>1. PICK y \in {u, x} : y # w
      BY <1>13
    <3>2. pc[y] = "fillVector" /\ job'[y] = job[y] /\ filling'[y] = filling[y]
      BY <1>0, <1>13, <3>1 DEF KeepsOthers
    <3>3. vectors[job[y].version][filling[y]] = "torn"
      BY <3>2 DEF SeedInv
    <3>4. OpenVector(w)
      BY <1>0, <1>13, <2>2 DEF ArrivesOf
    <3>5. vectors[job'[w].version][filling'[w]] = "absent"
      BY <3>4, OpenEffect
    <3>6. <<job'[y].version, filling'[y]>> # <<job'[w].version, filling'[w]>>
      BY <3>2, <3>3, <3>5
    <3> QED BY <1>13, <2>2, <3>1, <3>6
  <2> QED BY <2>1, <2>2
<1> QED
  BY <1>6, <1>7, <1>8, <1>9, <1>10, <1>11, <1>12, <1>13 DEF SeedInv

-----------------------------------------------------------------------------
(* Verified releases. *)

(* Seeding adds only vectors that a manifest names and that are missing, so  *)
(* it adds none to a version that is complete.                               *)
LEMMA CompleteStays ==
  ASSUME Types, CallInv, SeedInv, NEW w \in Workers, Does(w), ~disturbed',
         NEW v \in Versions, NEW hash \in 1..MaxSeeds, Settled(hash), Complete(v, hash)
  PROVE  Complete(v, hash)'
<1>0. WritesOf(w)
  BY StepEffect
<1> SUFFICES ASSUME manifest'[v].hash = hash PROVE vectors'[v] = manifest'[v].corpus
  BY DEF Complete
<1>1. manifest'[v] = manifest[v]
  <2>1. CASE WriteManifest(w)
    <3>1. job[w].hash # hash
      BY <2>1, ManifestEffect DEF Settled
    <3>2. v # job[w].version
      BY <2>1, <3>1, ManifestEffect
    <3> QED BY <2>1, <3>2, ManifestEffect
  <2> QED BY <1>0, <2>1 DEF WritesOf
<1>2. vectors[v] = manifest[v].corpus
  BY <1>1 DEF Complete
<1>3. \A e \in Entries : vectors[v][e] # "torn"
  BY <1>2, Corpus DEF Types, FilesTypeOK
<1>4. OpenVector(w) => v # job[w].version
  <2> SUFFICES ASSUME OpenVector(w), v = job[w].version PROVE FALSE
    OBVIOUS
  <2>1. manifest[v].hash = job[w].hash
    BY OpenEffect
  <2>2. manifest[v].corpus = job[w].corpus
    BY <2>1, OpenEffect DEF SeedInv, Filed, SeedPoints, Describing
  <2> QED BY <1>2, <2>2, OpenEffect
<1>5. FillVector(w) => v # job[w].version
  BY <1>3, FillEffect DEF SeedInv
<1>6. vectors'[v] = vectors[v]
  BY <1>0, <1>4, <1>5, OpenEffect, FillEffect DEF WritesOf
<1> QED BY <1>1, <1>2, <1>6

(* What was verified stays verified, up to the event that tells of it.       *)
LEMMA VerifiedStep ==
  ASSUME Types, CallInv, MemoryInv, SeedInv, VerifiedInv, Types', CallInv',
         NEW w \in Workers, Does(w)
  PROVE  VerifiedInv'
<1> SUFFICES ASSUME ~disturbed' PROVE VerifiedInv'
  BY DEF VerifiedInv
<1>0. ~disturbed /\ KeepsOthers(w) /\ WritesOf(w) /\ ArrivesOf(w)
  BY StepEffect DEF WritesOf
<1> DEFINE Stands(v, hash) == manifest'[v].hash = hash => vectors'[v] = manifest'[v].corpus
           Final(hash)     == /\ hash <= seeds'
                              /\ \A u \in Workers : pc'[u] \in Describing => job'[u].hash # hash
<1>1. \A v \in Versions, hash \in 1..MaxSeeds :
        Settled(hash) /\ Complete(v, hash) => Final(hash) /\ Stands(v, hash)
  <2> SUFFICES ASSUME NEW v \in Versions, NEW hash \in 1..MaxSeeds,
                      Settled(hash), Complete(v, hash)
               PROVE  Final(hash) /\ Stands(v, hash)
    OBVIOUS
  <2>1. hash \in Nat
    BY RegistryAssumption
  <2>2. Settled(hash)'
    BY <2>1, SettledStays
  <2>3. Complete(v, hash)'
    BY CompleteStays
  <2> QED BY <2>2, <2>3 DEF Settled, Complete
<1>2. ASSUME NEW u \in Workers, pc'[u] \in {"writeCurrent", "writeHistory"}
      PROVE  Stands(job'[u].version, seen'[u].hash)
  <2> HIDE DEF Stands, Final
  <2>1. ASSUME /\ pc[u] \in {"verify", "writeCurrent", "writeHistory"}
               /\ job'[u] = job[u] /\ seen'[u] = seen[u] /\ Readable(seen[u])
               /\ Complete(job[u].version, seen[u].hash)
        PROVE  Stands(job'[u].version, seen'[u].hash)
    <3>1. job[u].version \in Versions
      BY <2>1 DEF CallInv, CallInvOf, MovePoints, Critical, MoveJobs
    <3>2. seen[u].hash \in 1..MaxSeeds
      BY <2>1, Fields DEF Types, WorkersTypeOK
    <3>3. Settled(seen[u].hash)
      BY DEF SeedInv
    <3> QED BY <1>1, <2>1, <3>1, <3>2, <3>3
  <2>2. CASE u = w /\ AcceptVerified(w)
    <3>1. /\ pc[w] = "verify" /\ job' = job /\ seen' = seen
          /\ Readable(seen[w]) /\ vectors[job[w].version] = seen[w].corpus
      BY <2>2 DEF AcceptVerified, At, Approved, Verified, memory
    <3>2. Complete(job[w].version, seen[w].hash)
      BY <3>1 DEF Complete, SeedInv
    <3> QED BY <2>1, <2>2, <3>1, <3>2
  <2>3. CASE u = w /\ WriteCurrent(w)
    <3>1. pc[w] = "writeCurrent" /\ job' = job /\ seen' = seen
      BY <2>3 DEF WriteCurrent, At, memory
    <3> QED BY <1>0, <2>1, <2>3, <3>1 DEF VerifiedInv, CallInv, CallInvOf
  <2>4. CASE u # w
    <3>1. pc[u] = pc'[u] /\ job'[u] = job[u] /\ seen'[u] = seen[u]
      BY <1>0, <2>4 DEF KeepsOthers
    <3> QED BY <1>0, <1>2, <2>1, <3>1 DEF VerifiedInv, CallInv, CallInvOf
  <2> QED BY <1>0, <1>2, <2>2, <2>3, <2>4 DEF ArrivesOf
<1>3. ASSUME NEW i \in 1..Len(history'.events)
      PROVE  Final(history'.events[i].hash)
             /\ Stands(history'.events[i].to, history'.events[i].hash)
  <2> HIDE DEF Stands, Final
  <2>1. history.events \in Seq(Events)
    BY Fields DEF Types, FilesTypeOK
  <2>2. CASE i \in 1..Len(history.events) /\ history'.events[i] = history.events[i]
    <3>1. history.events[i].hash \in 1..MaxSeeds /\ history.events[i].to \in Versions
      <4>1. history.events[i] \in Events
        BY <2>1, <2>2
      <4> QED BY <4>1 DEF Events
    <3>2. /\ Settled(history.events[i].hash)
          /\ Complete(history.events[i].to, history.events[i].hash)
      BY <1>0, <2>2 DEF VerifiedInv
    <3> QED BY <1>1, <2>2, <3>1, <3>2
  <2>3. CASE WriteHistory(w) /\ i \notin 1..Len(history.events)
    <3>1. history'.events = Append(history.events, EventOf(w))
      BY <1>0, <2>3 DEF WriteHistory, At, MemoryInv, MemoryInvOf, Compared
    <3>2. history'.events[i] = EventOf(w)
      BY <2>1, <2>3, <3>1
    <3>3. EventOf(w).to = job[w].version /\ EventOf(w).hash = seen[w].hash
      BY DEF EventOf
    <3>4. /\ pc[w] = "writeHistory" /\ job[w].version \in Versions
          /\ seen[w] \in Manifests /\ Readable(seen[w])
      BY <2>3 DEF WriteHistory, At, CallInv, CallInvOf, MovePoints, Critical, MoveJobs,
                  Types, WorkersTypeOK
    <3>5. seen[w].hash \in 1..MaxSeeds
      BY <3>4, Fields
    <3>6. Settled(seen[w].hash) /\ Complete(job[w].version, seen[w].hash)
      BY <1>0, <3>4 DEF SeedInv, VerifiedInv
    <3> QED BY <1>1, <3>2, <3>3, <3>4, <3>5, <3>6
  <2>4. CASE WriteHistory(w) /\ i \in 1..Len(history.events)
    <3>1. history'.events = Append(history.events, EventOf(w))
      BY <1>0, <2>4 DEF WriteHistory, At, MemoryInv, MemoryInvOf, Compared
    <3> QED BY <2>1, <2>2, <2>4, <3>1
  <2>5. CASE SeedHistory(w)
    <3>1. history' = history \/ history'.events = <<>>
      BY <2>5 DEF SeedHistory, TornHistory, NoHistory
    <3> QED BY <2>2, <3>1
  <2> QED BY <1>0, <2>2, <2>3, <2>4, <2>5 DEF WritesOf
<1> QED BY <1>2, <1>3 DEF VerifiedInv, Settled, Complete

-----------------------------------------------------------------------------
(* Theorems. *)

(* The layers of RegistryInv hold in every reachable state.                  *)
THEOREM RegistryInvHolds == Spec => []RegistryInv
<1>1. Init => RegistryInv
  BY InitialRegistry
<1>2. RegistryInv /\ [Next]_vars => RegistryInv'
  BY RegistryStep
<1> QED BY <1>1, <1>2, PTL DEF Spec

(* However promotions, rollbacks, retries and failures interleave, the       *)
(* history accounts for the pointer, unless a seed wrote over it.            *)
THEOREM HistoryAccounts == Spec => []HistoryExplainsPointer
<1>1. RegistryInv => HistoryExplainsPointer
  BY DEF RegistryInv, AccountInv, HistoryExplainsPointer
<1> QED BY <1>1, RegistryInvHolds, PTL

(* A transition reported as made is in the history from then on.             *)
THEOREM AcknowledgedStays == Spec => []AcknowledgedIsRecorded
<1>1. RegistryInv => AcknowledgedIsRecorded
  BY DEF RegistryInv, AccountInv, AcknowledgedIsRecorded
<1> QED BY <1>1, RegistryInvHolds, PTL

(* The pointer a transition replaces is the one its caller expected.         *)
THEOREM SwapsWhatWasCompared == Spec => CompareAndSwap
<1>1. RegistryInv /\ [Next]_vars =>
        [\A w \in Workers : WriteCurrent(w) /\ ~disturbed =>
           /\ current.version = job[w].expVersion /\ current.gen = job[w].expGen
           /\ current'.gen = current.gen + 1]_vars
  <2> SUFFICES ASSUME RegistryInv, NEW w \in Workers, WriteCurrent(w), ~disturbed
               PROVE  /\ current.version = job[w].expVersion /\ current.gen = job[w].expGen
                      /\ current'.gen = current.gen + 1
    OBVIOUS
  <2>1. Readable(cur[w]) /\ ~Stale(cur[w], job[w])
    BY DEF RegistryInv, CallInv, CallInvOf, WriteCurrent, At, Compared
  <2>2. cur[w] = current
    BY <2>1 DEF RegistryInv, MemoryInv, MemoryInvOf, WriteCurrent, At, Compared
  <2> QED BY <2>1, <2>2 DEF Stale, WriteCurrent, NextGeneration
<1> QED BY <1>1, RegistryInvHolds, PTL DEF Spec, CompareAndSwap

(* All layers hold in every reachable state, whatever is seeded beside.      *)
THEOREM ReleaseInvHolds == Spec => []ReleaseInv
<1>1. Init => RegistryInv
  BY InitialRegistry
<1>2. Init => TicketInv /\ SpentInv /\ SeedInv /\ VerifiedInv
  <2> SUFFICES ASSUME Init PROVE TicketInv /\ SpentInv /\ SeedInv /\ VerifiedInv
    OBVIOUS
  <2>1. TicketInv
    BY DEF Init, TicketInv, Used, NoJob, MovePoints, Critical
  <2>2. SpentInv
    BY FS_EmptySet DEF Init, SpentInv, Readable, NoCurrent, NoHistory
  <2>3. SeedInv
    BY DEF Init, SeedInv, Settled, NoManifest, Describing, SeedPoints, Filed
  <2>4. VerifiedInv
    BY DEF Init, VerifiedInv, NoHistory
  <2> QED BY <2>1, <2>2, <2>3, <2>4
<1>3. ReleaseInv /\ [Next]_vars => ReleaseInv'
  <2> SUFFICES ASSUME ReleaseInv, [Next]_vars PROVE ReleaseInv'
    OBVIOUS
  <2>1. RegistryInv'
    BY RegistryStep DEF ReleaseInv
  <2>2. ASSUME NEW w \in Workers, Does(w)
        PROVE  TicketInv' /\ SpentInv' /\ SeedInv' /\ VerifiedInv'
    BY <2>1, <2>2, TicketStep, SpentStep, SeedStep, VerifiedStep DEF ReleaseInv, RegistryInv
  <2>3. CASE UNCHANGED vars
    <3>1. UNCHANGED <<manifest, vectors, history, current, pc, job, seen, filling, tickets,
                      moved, disturbed, seeds>>
      BY <2>3 DEF vars, files, memory, ghosts, counts
    <3>2. TicketInv' /\ SpentInv'
      BY <3>1 DEF ReleaseInv, TicketInv, SpentInv, Used
    <3>3. SeedInv' /\ VerifiedInv'
      BY <3>1 DEF ReleaseInv, SeedInv, VerifiedInv, Settled, Complete
    <3> QED BY <2>1, <3>2, <3>3 DEF ReleaseInv
  <2> QED BY <2>1, <2>2, <2>3 DEF ReleaseInv, Next, Does
<1> QED BY <1>1, <1>2, <1>3, PTL DEF Spec, ReleaseInv

(* An operation has at most one event, however often it is retried and       *)
(* whatever fails between the two writes of a transition.                    *)
THEOREM OneEvent == Spec => []OneEventPerOperation
<1>1. ReleaseInv => OneEventPerOperation
  <2> SUFFICES ASSUME ReleaseInv, ~disturbed,
                      NEW i \in 1..Len(history.events), NEW j \in 1..Len(history.events),
                      history.events[i].op = history.events[j].op
               PROVE  i = j
    BY DEF OneEventPerOperation
  <2>1. history.events[i].gen = history.events[j].gen
    BY DEF ReleaseInv, SpentInv
  <2>2. \A k \in 1..Len(history.events) : history.events[k].gen \in Nat
    <3>1. history.events \in Seq(Events)
      BY Fields DEF ReleaseInv, RegistryInv, Types, FilesTypeOK
    <3>2. \A k \in 1..Len(history.events) : history.events[k] \in Events
      BY <3>1
    <3> QED BY <3>2 DEF Events
  <2>3. Chained(history.events)
    BY DEF ReleaseInv, RegistryInv, AccountInv
  <2> QED BY <2>1, <2>2, <2>3 DEF Chained
<1> QED BY <1>1, ReleaseInvHolds, PTL

(* A release that was promoted, or rolled back to, verifies from then on, as *)
(* long as its manifest is the approved one.                                 *)
THEOREM ApprovedVerifies == Spec => []ApprovedStaysVerified
<1>1. ReleaseInv => ApprovedStaysVerified
  BY DEF ReleaseInv, VerifiedInv, Complete, ApprovedStaysVerified
<1> QED BY <1>1, ReleaseInvHolds, PTL

(* Without seeding beside, nothing is ever disturbed.                        *)
LEMMA QuietIsUndisturbed == QuietSpec => Spec /\ []~disturbed
<1>1. Init => ~disturbed
  BY DEF Init
<1>2. ~disturbed /\ [Next /\ ~disturbed']_vars => (~disturbed)'
  BY DEF vars, ghosts
<1>3. [Next /\ ~disturbed']_vars => [Next]_vars
  OBVIOUS
<1> QED BY <1>1, <1>2, <1>3, PTL DEF QuietSpec, Spec

(* The generation counts operations, not attempts.                           *)
THEOREM TypesHold == QuietSpec => []TypeOK
<1>1. ReleaseInv /\ ~disturbed => TypeOK
  <2> SUFFICES ASSUME ReleaseInv, ~disturbed PROVE TypeOK
    OBVIOUS
  <2>1. Types
    BY DEF ReleaseInv, RegistryInv
  <2>2. Cardinality(moved) \in Nat /\ Cardinality(Ops) \in Nat
        /\ Cardinality(moved) <= Cardinality(Ops)
    BY <2>1, RegistryAssumption, FS_CardinalityType, FS_Subset DEF Types, GhostsTypeOK
  <2>3. current.gen \in Nat /\ current.gen <= 1 + Cardinality(moved)
    BY <2>1 DEF ReleaseInv, SpentInv, Types, FilesTypeOK, Pointers, NoCurrent, TornCurrent
  <2> QED BY <2>1, <2>2, <2>3 DEF TypeOK
<1> QED BY <1>1, ReleaseInvHolds, QuietIsUndisturbed, PTL

(* The pointer file and the operations that moved it, under concurrent       *)
(* promotions, rollbacks, retries, seeds and failures, are the register of   *)
(* ReleaseRegister: it is created once, and each operation moves it at most  *)
(* once, by one generation.                                                  *)
THEOREM RegisterIsImplemented == QuietSpec => ImplementsRegister
<1>1. Init => Register!Init
  BY DEF Init, Register!Init, NoCurrent
<1>2. ReleaseInv /\ ~disturbed /\ ~disturbed' /\ [Next]_vars => [Register!Next]_(Register!register)
  <2> SUFFICES ASSUME ReleaseInv, ~disturbed, ~disturbed', [Next]_vars
               PROVE  Register!Next \/ UNCHANGED <<current.version, current.gen, moved>>
    BY DEF Register!register
  <2> DEFINE pointer == [version |-> current.version, gen |-> current.gen]
  <2>1. CASE UNCHANGED vars
    BY <2>1 DEF vars, files, ghosts
  <2>2. ASSUME NEW w \in Workers, Does(w)
        PROVE  Register!Next \/ UNCHANGED <<current.version, current.gen, moved>>
    <3>1. CASE WriteCurrent(w)
      <4>1. /\ Readable(current) /\ job[w].op \in Ops \ moved /\ job[w].version \in Versions
            /\ current' = [state |-> "ok", version |-> job[w].version, gen |-> current.gen + 1]
            /\ moved' = moved \cup {job[w].op}
        BY <3>1, MoveEffect DEF ReleaseInv, RegistryInv
      <4>2. current.gen > 0
        BY <4>1 DEF ReleaseInv, SpentInv
      <4>3. Register!Move
        BY <4>1, <4>2 DEF Register!Move
      <4> QED BY <4>3 DEF Register!Next
    <3>2. CASE OpenCurrent(w)
      <4>1. ~Readable(current) /\ current' = TornCurrent /\ moved' = moved
        BY <3>2 DEF OpenCurrent, Readable
      <4>2. current.gen = 0 /\ current.version = "none"
        BY <4>1, UnmovedAtFirst DEF ReleaseInv, RegistryInv
      <4> QED BY <4>1, <4>2 DEF TornCurrent, NoCurrent
    <3>3. CASE FillCurrent(w)
      <4> SUFFICES ASSUME current' # current PROVE Register!Next
        BY <3>3 DEF FillCurrent
      <4>1. /\ ~Readable(current) /\ moved' = moved
            /\ current' = [state |-> "ok", version |-> job[w].version, gen |-> 1]
        BY <3>3, FilledPointer DEF FillCurrent
      <4>2. current.gen = 0
        BY <4>1, UnmovedAtFirst DEF ReleaseInv, RegistryInv
      <4>3. job[w].version \in Versions
        BY <3>3 DEF FillCurrent, At, ReleaseInv, RegistryInv, CallInv, CallInvOf, SeedPoints, SeedJobs
      <4>4. Register!Create
        BY <4>1, <4>2, <4>3 DEF Register!Create
      <4> QED BY <4>4 DEF Register!Next
    <3> QED
      BY <2>2, <3>1, <3>2, <3>3, StepEffect DEF ReleaseInv, RegistryInv, WritesOf
  <2> QED BY <2>1, <2>2 DEF Next, Does
<1> QED
  BY <1>1, <1>2, ReleaseInvHolds, QuietIsUndisturbed, PTL
     DEF QuietSpec, Spec, ImplementsRegister, Register!Spec
=============================================================================
