--------------------------- MODULE ReleaseRegistry ---------------------------
(***************************************************************************)
(* The local release registry: seeding of releases, and promotion and      *)
(* rollback of the current pointer by compare-and-swap.                    *)
(*                                                                         *)
(* Promotion and rollback hold a file lock and replace current.json and    *)
(* history.json atomically, one after the other.  Seeding takes no lock    *)
(* and writes in place: a file is truncated in one step and filled in a    *)
(* later one, and reads as torn in between.  A file replaced in between is *)
(* no longer the one being filled: what is written is lost with it.        *)
(*                                                                         *)
(* A content hash is a value; the manifest hash, which covers the creation *)
(* time, is the number of the seed call that wrote the manifest.  The      *)
(* generation "gen-i" is i.  The audit file is left out.                   *)
(***************************************************************************)
EXTENDS Integers, Sequences, FiniteSets

CONSTANTS
  Workers,    \* callers: threads or processes
  Nobody,     \* "no worker", for the free lock
  Versions,   \* release versions
  Entries,    \* dictionary entries
  Hashes,     \* content hashes of an entry
  Corpora,    \* what releases are seeded from: entries and their hashes
  Ops,        \* operation ids of promotions and rollbacks
  MaxCalls,   \* bound: promote and rollback calls, retries included
  MaxSeeds,   \* bound: seed calls
  MaxFaults   \* bound: crashes and exceptions

Contents == Hashes \cup {"absent", "torn"}

ASSUME RegistryAssumption ==
  /\ Nobody \notin Workers
  /\ {"absent", "torn"} \cap Hashes = {}
  /\ Corpora \subseteq [Entries -> Hashes \cup {"absent"}]
  /\ IsFiniteSet(Ops)
  /\ MaxCalls \in Nat /\ MaxSeeds \in Nat /\ MaxFaults \in Nat

VARIABLES
  manifest,   \* releases/<version>.json
  vectors,    \* per version: the content of each entry's vector file
  history,    \* registry/history.json: releases and events
  current,    \* registry/current.json
  unlinked,   \* workers whose opened history.json or current.json was replaced
  lock,       \* holder of registry/.registry.lock
  pc, job,    \* per worker: control point, and the call being served
  cur, hist, seen,   \* per worker: current, history and manifest as read
  filling,    \* per worker: the entry whose vector file is being written
  tickets,    \* what each operation id was first used for
  moved, acked,      \* history: operations that moved the pointer; that succeeded
  disturbed,  \* history: a seed wrote over events, a pointer or a manifest's vectors
  calls, seeds, faults

files  == <<manifest, vectors, history, current, unlinked>>
memory == <<job, cur, hist, seen, filling>>
ghosts == <<moved, acked, disturbed>>
counts == <<calls, seeds, faults>>
vars   == <<files, lock, pc, memory, tickets, ghosts, counts>>

NoCorpus   == [e \in Entries |-> "absent"]
NoManifest == [state |-> "absent", hash |-> 0, corpus |-> NoCorpus]
NoHistory  == [state |-> "absent", releases |-> {}, events |-> <<>>]
NoCurrent  == [state |-> "absent", version |-> "none", gen |-> 0]
TornManifest == [NoManifest EXCEPT !.state = "torn"]
TornHistory  == [NoHistory EXCEPT !.state = "torn"]
TornCurrent  == [NoCurrent EXCEPT !.state = "torn"]
NoJob      == [kind |-> "none"]
NoEntry    == "none"

Readable(file) == file.state = "ok"
Recorded(h, version) == \E r \in h.releases : r.version = version
Applied(h, op, version) ==
  \E i \in 1..Len(h.events) : h.events[i].op = op /\ h.events[i].to = version

At(w, point)   == pc[w] = point
Goto(w, point) == pc' = [pc EXCEPT ![w] = point]
Serving(w, kinds) == job[w].kind \in kinds

NextGenerationByTwo(gen) == gen + 2

NextGeneration(gen) == gen + 1

\* Faulty: only the version is compared (ABA).
StaleVersion(pointer, request) == pointer.version # request.expVersion

(* The compare of the compare-and-swap. *)
Stale(pointer, request) ==
  pointer.version # request.expVersion \/ pointer.gen # request.expGen

\* Faulty: vectors the manifest does not name are not noticed.
VerifiedIgnoringExtra(m, files_) ==
  Readable(m) /\ \A e \in Entries : m.corpus[e] # "absent" => files_[e] = m.corpus[e]

(* verify_release: a manifest whose entries are exactly those with a vector *)
(* file, each with the hash the manifest names.                             *)
Verified(m, files_) == Readable(m) /\ files_ = m.corpus

Forget(w) ==
  /\ job'     = [job EXCEPT ![w] = NoJob]
  /\ cur'     = [cur EXCEPT ![w] = NoCurrent]
  /\ hist'    = [hist EXCEPT ![w] = NoHistory]
  /\ seen'    = [seen EXCEPT ![w] = NoManifest]
  /\ filling' = [filling EXCEPT ![w] = NoEntry]

Return(w) ==
  /\ Goto(w, "idle")
  /\ lock' = IF lock = w THEN Nobody ELSE lock
  /\ Forget(w)

-----------------------------------------------------------------------------
(* Calls. *)

CallSeed(w) ==
  /\ At(w, "idle") /\ seeds < MaxSeeds
  /\ \E v \in Versions, c \in Corpora :
       job' = [job EXCEPT ![w] =
                 [kind |-> "seed", version |-> v, corpus |-> c, hash |-> seeds + 1]]
  /\ seeds' = seeds + 1
  /\ Goto(w, "openManifest")
  /\ UNCHANGED <<files, lock, cur, hist, seen, filling, tickets, ghosts, calls, faults>>

(* The route resolves the approval's target hash from the manifest on disk. *)
Serve(w, ticket) ==
  /\ job' = [job EXCEPT ![w] =
       [kind |-> ticket.kind, op |-> ticket.op, version |-> ticket.version,
        expVersion |-> ticket.expVersion, expGen |-> ticket.expGen,
        approval |-> manifest[ticket.version].hash]]
  /\ calls' = calls + 1
  /\ Goto(w, "lock")
  /\ UNCHANGED <<files, lock, cur, hist, seen, filling, ghosts, seeds, faults>>

(* A caller decides on the pointer it has just looked at. *)
CallTransition(w) ==
  /\ At(w, "idle") /\ calls < MaxCalls /\ Readable(current)
  /\ \E op \in Ops, v \in Versions, kind \in {"promote", "rollback"} :
       LET ticket == [kind |-> kind, op |-> op, version |-> v,
                      expVersion |-> current.version, expGen |-> current.gen]
       IN /\ tickets[op].kind = "none"
          /\ tickets' = [tickets EXCEPT ![op] = ticket]
          /\ Serve(w, ticket)

(* The same operation once more, whatever became of the first attempt. *)
Retry(w) ==
  /\ At(w, "idle") /\ calls < MaxCalls
  /\ \E op \in Ops : tickets[op].kind # "none" /\ Serve(w, tickets[op])
  /\ UNCHANGED tickets

-----------------------------------------------------------------------------
(* promote_release and rollback_release. *)

\* Faulty: the lock is shared.
AcquireShared(w) ==
  /\ At(w, "lock")
  /\ lock' = w
  /\ Goto(w, "readCurrent")
  /\ UNCHANGED <<files, memory, tickets, ghosts, counts>>

AcquireLock(w) ==
  /\ At(w, "lock") /\ lock = Nobody
  /\ lock' = w
  /\ Goto(w, "readCurrent")
  /\ UNCHANGED <<files, memory, tickets, ghosts, counts>>

ReadPointer(w) ==
  /\ \/ /\ At(w, "readCurrent") /\ Goto(w, "readHistory")
        /\ cur' = [cur EXCEPT ![w] = current]
        /\ UNCHANGED hist
     \/ /\ At(w, "readHistory") /\ Goto(w, "decide")
        /\ hist' = [hist EXCEPT ![w] = IF Readable(history) THEN history ELSE NoHistory]
        /\ UNCHANGED cur
  /\ UNCHANGED <<files, lock, job, seen, filling, tickets, ghosts, counts>>

(* A promotion is a repeat when its event is recorded; a rollback whenever  *)
(* the pointer is at its target, recorded or not.                           *)
Repeat(w) ==
  /\ At(w, "decide") /\ Readable(cur[w])
  /\ \/ Serving(w, {"promote"}) /\ Applied(hist[w], job[w].op, job[w].version)
     \/ Serving(w, {"rollback"}) /\ cur[w].version = job[w].version

ReturnRepeat(w) ==
  /\ Repeat(w)
  /\ Return(w)
  /\ UNCHANGED <<files, tickets, ghosts, counts>>

(* 404: no pointer, or no such release to roll back to. *)
RefuseUnknown(w) ==
  /\ At(w, "decide")
  /\ \/ ~Readable(cur[w])
     \/ /\ ~Repeat(w) /\ ~Stale(cur[w], job[w])
        /\ Serving(w, {"rollback"}) /\ ~Recorded(hist[w], job[w].version)
  /\ Return(w)
  /\ UNCHANGED <<files, tickets, ghosts, counts>>

(* 409: another version or generation than the caller expected. *)
RefuseStale(w) ==
  /\ At(w, "decide") /\ Readable(cur[w]) /\ ~Repeat(w) /\ Stale(cur[w], job[w])
  /\ Return(w)
  /\ UNCHANGED <<files, tickets, ghosts, counts>>

Proceed(w) ==
  /\ At(w, "decide") /\ Readable(cur[w]) /\ ~Repeat(w) /\ ~Stale(cur[w], job[w])
  /\ Serving(w, {"rollback"}) => Recorded(hist[w], job[w].version)
  /\ Goto(w, "readManifest")
  /\ UNCHANGED <<files, lock, memory, tickets, ghosts, counts>>

ReadManifest(w) ==
  /\ At(w, "readManifest")
  /\ seen' = [seen EXCEPT ![w] = manifest[job[w].version]]
  /\ Goto(w, "verify")
  /\ UNCHANGED <<files, lock, job, cur, hist, filling, tickets, ghosts, counts>>

Approved(w) ==
  /\ Verified(seen[w], vectors[job[w].version])
  /\ job[w].approval = seen[w].hash

(* 404 or 422: missing, torn, not verified, or approved for another hash. *)
RefuseUnverified(w) ==
  /\ At(w, "verify") /\ ~Approved(w)
  /\ Return(w)
  /\ UNCHANGED <<files, tickets, ghosts, counts>>

AcceptVerified(w) ==
  /\ At(w, "verify") /\ Approved(w)
  /\ Goto(w, "writeCurrent")
  /\ UNCHANGED <<files, lock, memory, tickets, ghosts, counts>>

WriteCurrent(w) ==
  /\ At(w, "writeCurrent")
  /\ current' = [state |-> "ok", version |-> job[w].version,
                 gen |-> NextGeneration(cur[w].gen)]
  /\ unlinked' = unlinked \cup {u \in Workers : At(u, "fillCurrent")}
  /\ moved' = moved \cup {job[w].op}
  /\ Goto(w, "writeHistory")
  /\ UNCHANGED <<manifest, vectors, history, lock, memory, tickets, acked,
                 disturbed, counts>>

EventOf(w) ==
  [type |-> job[w].kind, op |-> job[w].op, from |-> cur[w].version,
   to |-> job[w].version, gen |-> NextGeneration(cur[w].gen), hash |-> seen[w].hash]

(* Only a promotion adds a release that is not recorded yet. *)
ReleasesAfter(w) ==
  IF Serving(w, {"promote"}) /\ ~Recorded(hist[w], job[w].version)
  THEN hist[w].releases \cup {[version |-> job[w].version, hash |-> seen[w].hash]}
  ELSE hist[w].releases

\* Faulty: earlier events are not carried over.
WriteLastEvent(w) ==
  /\ At(w, "writeHistory")
  /\ history' = [state |-> "ok", releases |-> ReleasesAfter(w), events |-> <<EventOf(w)>>]
  /\ unlinked' = unlinked \cup {u \in Workers : At(u, "fillHistory")}
  /\ acked' = acked \cup {job[w].op}
  /\ Return(w)
  /\ UNCHANGED <<manifest, vectors, current, tickets, moved, disturbed, counts>>

WriteHistory(w) ==
  /\ At(w, "writeHistory")
  /\ history' = [state |-> "ok", releases |-> ReleasesAfter(w),
                 events |-> Append(hist[w].events, EventOf(w))]
  /\ unlinked' = unlinked \cup {u \in Workers : At(u, "fillHistory")}
  /\ acked' = acked \cup {job[w].op}
  /\ Return(w)
  /\ UNCHANGED <<manifest, vectors, current, tickets, moved, disturbed, counts>>

-----------------------------------------------------------------------------
(* seed_release. *)

WriteManifest(w) ==
  /\ \/ /\ At(w, "openManifest") /\ Goto(w, "fillManifest")
        /\ manifest' = [manifest EXCEPT ![job[w].version] = TornManifest]
     \/ /\ At(w, "fillManifest") /\ Goto(w, "vectors")
        /\ manifest' = [manifest EXCEPT ![job[w].version] =
                          [state |-> "ok", hash |-> job[w].hash, corpus |-> job[w].corpus]]
  /\ UNCHANGED <<vectors, history, current, unlinked, lock, memory, tickets, ghosts, counts>>

(* Entries of the corpus that have no vector file; existing files are kept. *)
Lacking(w) ==
  {e \in Entries : job[w].corpus[e] # "absent" /\ vectors[job[w].version][e] = "absent"}

(* Looking for the file and creating it is one step. *)
OpenVector(w) ==
  /\ At(w, "vectors") /\ Lacking(w) # {}
  /\ \E e \in Lacking(w) :
       /\ vectors' = [vectors EXCEPT ![job[w].version][e] = "torn"]
       /\ filling' = [filling EXCEPT ![w] = e]
  /\ disturbed' = (disturbed \/ manifest[job[w].version].hash # job[w].hash)
  /\ Goto(w, "fillVector")
  /\ UNCHANGED <<manifest, history, current, unlinked, lock, job, cur, hist, seen,
                 tickets, moved, acked, counts>>

FillVector(w) ==
  /\ At(w, "fillVector")
  /\ vectors' = [vectors EXCEPT ![job[w].version][filling[w]] = job[w].corpus[filling[w]]]
  /\ filling' = [filling EXCEPT ![w] = NoEntry]
  /\ Goto(w, "vectors")
  /\ UNCHANGED <<manifest, history, current, unlinked, lock, job, cur, hist, seen,
                 tickets, ghosts, counts>>

VectorsDone(w) ==
  /\ At(w, "vectors") /\ Lacking(w) = {}
  /\ Goto(w, "readReleases")
  /\ UNCHANGED <<files, lock, memory, tickets, ghosts, counts>>

ReadReleases(w) ==
  /\ At(w, "readReleases")
  /\ hist' = [hist EXCEPT ![w] = history]
  /\ Goto(w, IF Recorded(history, job[w].version) THEN "seeCurrent" ELSE "openHistory")
  /\ UNCHANGED <<files, lock, job, cur, seen, filling, tickets, ghosts, counts>>

(* A version not recorded yet rewrites history.json as a list of releases:  *)
(* events are dropped, unless a transition has replaced the opened file.    *)
SeedHistory(w) ==
  /\ \/ /\ At(w, "openHistory") /\ Goto(w, "fillHistory")
        /\ history' = TornHistory
        /\ unlinked' = unlinked \ {w}
        /\ disturbed' = (disturbed \/ history.events # <<>>)
     \/ /\ At(w, "fillHistory") /\ Goto(w, "seeCurrent")
        /\ history' = IF w \in unlinked THEN history
                      ELSE [state |-> "ok", events |-> <<>>,
                            releases |-> hist[w].releases \cup
                              {[version |-> job[w].version, hash |-> job[w].hash]}]
        /\ UNCHANGED <<unlinked, disturbed>>
  /\ UNCHANGED <<manifest, vectors, current, lock, memory, tickets, moved, acked, counts>>

SeeCurrent(w) ==
  /\ At(w, "seeCurrent")
  /\ IF current.state = "absent"
     THEN Goto(w, "openCurrent") /\ UNCHANGED <<lock, memory>>
     ELSE Return(w)
  /\ UNCHANGED <<files, tickets, ghosts, counts>>

OpenCurrent(w) ==
  /\ At(w, "openCurrent")
  /\ current' = TornCurrent
  /\ unlinked' = unlinked \ {w}
  /\ disturbed' = (disturbed \/ current.state # "absent")
  /\ Goto(w, "fillCurrent")
  /\ UNCHANGED <<manifest, vectors, history, lock, memory, tickets, moved, acked, counts>>

FillCurrent(w) ==
  /\ At(w, "fillCurrent")
  /\ current' = IF w \in unlinked THEN current
                ELSE [state |-> "ok", version |-> job[w].version, gen |-> 1]
  /\ disturbed' = (disturbed \/ (w \notin unlinked /\ current.state # "torn"))
  /\ Return(w)
  /\ UNCHANGED <<manifest, vectors, history, unlinked, tickets, moved, acked, counts>>

-----------------------------------------------------------------------------
(* A crash or an exception: the call is gone, its lock released, what it    *)
(* had written stays.                                                       *)
Fail(w) ==
  /\ ~At(w, "idle") /\ faults < MaxFaults
  /\ faults' = faults + 1
  /\ Return(w)
  /\ UNCHANGED <<files, tickets, ghosts, calls, seeds>>

Init ==
  /\ manifest = [v \in Versions |-> NoManifest]
  /\ vectors = [v \in Versions |-> NoCorpus]
  /\ history = NoHistory /\ current = NoCurrent /\ lock = Nobody /\ unlinked = {}
  /\ pc = [w \in Workers |-> "idle"]
  /\ job = [w \in Workers |-> NoJob]
  /\ cur = [w \in Workers |-> NoCurrent] /\ hist = [w \in Workers |-> NoHistory]
  /\ seen = [w \in Workers |-> NoManifest]
  /\ filling = [w \in Workers |-> NoEntry]
  /\ tickets = [op \in Ops |-> NoJob]
  /\ moved = {} /\ acked = {} /\ disturbed = FALSE
  /\ calls = 0 /\ seeds = 0 /\ faults = 0

Transition(w) ==
  \/ AcquireLock(w) \/ ReadPointer(w)
  \/ ReturnRepeat(w) \/ RefuseUnknown(w) \/ RefuseStale(w) \/ Proceed(w)
  \/ ReadManifest(w) \/ RefuseUnverified(w) \/ AcceptVerified(w)
  \/ WriteCurrent(w) \/ WriteHistory(w)
Seeding(w) ==
  \/ WriteManifest(w) \/ OpenVector(w) \/ FillVector(w) \/ VectorsDone(w)
  \/ ReadReleases(w) \/ SeedHistory(w) \/ SeeCurrent(w)
  \/ OpenCurrent(w) \/ FillCurrent(w)
Step(w) == Transition(w) \/ Seeding(w)
Call(w) == CallSeed(w) \/ CallTransition(w) \/ Retry(w)

Next == \E w \in Workers : Call(w) \/ Step(w) \/ Fail(w)

Spec == Init /\ [][Next]_vars
=============================================================================
