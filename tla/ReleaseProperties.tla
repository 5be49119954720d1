-------------------------- MODULE ReleaseProperties --------------------------
(***************************************************************************)
(* Properties of the release registry.  Seeding takes no lock and rewrites *)
(* registry files, so most hold as long as no seed writes over what others *)
(* have written or are about to rely on (~disturbed).                      *)
(***************************************************************************)
EXTENDS ReleaseRegistry

Critical   == {"readCurrent", "readHistory", "decide", "readManifest", "verify",
               "writeCurrent", "writeHistory"}
MovePoints == Critical \cup {"lock"}
SeedPoints == {"openManifest", "fillManifest", "vectors", "fillVector", "readReleases",
               "openHistory", "fillHistory", "seeCurrent", "openCurrent", "fillCurrent"}
Points     == {"idle"} \cup MovePoints \cup SeedPoints

Manifests == {NoManifest, TornManifest}
               \cup [state : {"ok"}, hash : 1..MaxSeeds, corpus : Corpora]
Pointers  == {NoCurrent, TornCurrent} \cup [state : {"ok"}, version : Versions, gen : Nat]
Releases  == [version : Versions, hash : 1..MaxSeeds]
Events    == [type : {"promote", "rollback"}, op : Ops, from : Versions, to : Versions,
              gen : Nat, hash : 1..MaxSeeds]
Histories == {NoHistory, TornHistory}
               \cup [state : {"ok"}, releases : SUBSET Releases, events : Seq(Events)]
Tickets   == [kind : {"promote", "rollback"}, op : Ops, version : Versions,
              expVersion : Versions, expGen : Nat]
SeedJobs  == [kind : {"seed"}, version : Versions, corpus : Corpora, hash : 1..MaxSeeds]
MoveJobs  == [kind : {"promote", "rollback"}, op : Ops, version : Versions,
              expVersion : Versions, expGen : Nat, approval : 0..MaxSeeds]

FilesTypeOK ==
  /\ manifest \in [Versions -> Manifests]
  /\ vectors \in [Versions -> [Entries -> Contents]]
  /\ history \in Histories /\ current \in Pointers
  /\ unlinked \subseteq Workers /\ lock \in Workers \cup {Nobody}

WorkersTypeOK ==
  /\ pc \in [Workers -> Points]
  /\ job \in [Workers -> SeedJobs \cup MoveJobs \cup {NoJob}]
  /\ cur \in [Workers -> Pointers] /\ hist \in [Workers -> Histories]
  /\ seen \in [Workers -> Manifests]
  /\ filling \in [Workers -> Entries \cup {NoEntry}]

GhostsTypeOK ==
  /\ tickets \in [Ops -> Tickets \cup {NoJob}]
  /\ moved \subseteq Ops /\ acked \subseteq Ops /\ disturbed \in BOOLEAN
  /\ calls \in 0..MaxCalls /\ seeds \in 0..MaxSeeds /\ faults \in 0..MaxFaults

Types == FilesTypeOK /\ WorkersTypeOK /\ GhostsTypeOK

(* Types of all variables; the generation is bounded by the operations: each *)
(* advances it at most once, however often it is retried.                    *)
TypeOK ==
  /\ Types
  /\ current.gen <= 1 + Cardinality(Ops)

(* A pointer that a history may end at. *)
EndsAt(events, pointer) ==
  Len(events) > 0 =>
    /\ Readable(pointer)
    /\ events[Len(events)].gen <= pointer.gen
    /\ events[Len(events)].gen = pointer.gen => events[Len(events)].to = pointer.version

Chained(events) ==
  \A i, j \in 1..Len(events) :
    i < j => /\ events[i].gen < events[j].gen
             /\ events[j].gen = events[i].gen + 1 => events[j].from = events[i].to

(* The history is an account of the pointer's moves, with gaps only where a  *)
(* failure cut a transition between its two writes: generations increase,    *)
(* adjacent events are chained, none is ahead of the pointer and the one     *)
(* that carries its generation names its version.                            *)
HistoryExplainsPointer ==
  ~disturbed => Chained(history.events) /\ EndsAt(history.events, current)

(* "same operation retry is idempotent (no second event)".                   *)
OneEventPerOperation ==
  ~disturbed =>
    \A i, j \in 1..Len(history.events) :
      history.events[i].op = history.events[j].op => i = j

(* A transition reported as made stays in the history: no other writer's     *)
(* read-modify-write of history.json loses it.                               *)
AcknowledgedIsRecorded ==
  ~disturbed =>
    \A op \in acked : \E i \in 1..Len(history.events) : history.events[i].op = op

(* Only verified releases are promoted, and seeding never touches an         *)
(* existing vector: as long as the manifest approved in an event is still on *)
(* disk, the release verifies.                                               *)
ApprovedStaysVerified ==
  ~disturbed =>
    \A i \in 1..Len(history.events) :
      LET event == history.events[i] IN
        manifest[event.to].hash = event.hash => vectors[event.to] = manifest[event.to].corpus

(* "one generation-token CAS transition": the pointer a transition replaces  *)
(* is still the one its caller expected, whatever happened between the       *)
(* comparison and the write, and its successor has the next generation.      *)
CompareAndSwap ==
  [][\A w \in Workers : WriteCurrent(w) /\ ~disturbed =>
       /\ current.version = job[w].expVersion /\ current.gen = job[w].expGen
       /\ current'.gen = current.gen + 1]_vars

(* Executions in which no seed writes over events, over a pointer, or into   *)
(* the vectors of another seed's manifest.                                   *)
QuietSpec == Init /\ [][Next /\ ~disturbed']_vars

(* The pointer file and the operations that moved it implement the abstract  *)
(* register, through failures and retries.                                   *)
Register == INSTANCE ReleaseRegister WITH
              pointer <- [version |-> current.version, gen |-> current.gen],
              done <- moved
ImplementsRegister == Register!Spec

-----------------------------------------------------------------------------
(* The inductive invariant behind CompareAndSwap, HistoryExplainsPointer and *)
(* AcknowledgedIsRecorded, in layers.                                        *)

Compared == {"readManifest", "verify", "writeCurrent"}

(* A worker at a point of an operation serves that operation, with the lock  *)
(* where it needs it, and goes on only when the comparison succeeded.        *)
CallInvOf(w) ==
  /\ pc[w] \in MovePoints => job[w] \in MoveJobs
  /\ pc[w] \in SeedPoints => job[w] \in SeedJobs
  /\ pc[w] = "fillVector" =>
       filling[w] \in Entries /\ job[w].corpus[filling[w]] \in Hashes
  /\ pc[w] \in Critical => lock = w
  /\ pc[w] \in Compared \cup {"writeHistory"} =>
       Readable(cur[w]) /\ ~Stale(cur[w], job[w])
  /\ pc[w] \in {"writeCurrent", "writeHistory"} => Readable(seen[w])
CallInv == \A w \in Workers : CallInvOf(w)

(* What a worker has read under the lock is what the files still hold.       *)
MemoryInvOf(w) ==
  /\ pc[w] \in Compared \cup {"readHistory", "decide"} /\ Readable(cur[w]) =>
       cur[w] = current
  /\ pc[w] = "writeHistory" =>
       current = [state |-> "ok", version |-> job[w].version,
                  gen |-> NextGeneration(cur[w].gen)]
  /\ pc[w] \in Compared \cup {"decide", "writeHistory"} =>
       hist[w].events = history.events
MemoryInv == ~disturbed => \A w \in Workers : MemoryInvOf(w)

(* No transition is recorded in a history.json that a seed has still to fill. *)
FilledInv ==
  \A w \in Workers :
    pc[w] = "fillHistory" /\ w \notin unlinked => history.events = <<>>

AccountInv ==
  ~disturbed =>
    /\ Chained(history.events)
    /\ EndsAt(history.events, current)
    /\ \A w \in Workers : pc[w] = "writeHistory" => EndsAt(history.events, cur[w])
    /\ \A op \in acked : \E i \in 1..Len(history.events) : history.events[i].op = op

RegistryInv == Types /\ CallInv /\ FilledInv /\ MemoryInv /\ AccountInv

-----------------------------------------------------------------------------
(* What TypeOK, OneEventPerOperation, ApprovedStaysVerified and              *)
(* ImplementsRegister need besides.                                          *)

Used(op) == tickets[op].kind # "none"

(* Every attempt at an operation compares with what the operation was first  *)
(* used for.                                                                 *)
TicketInv ==
  /\ \A op \in Ops : Used(op) => tickets[op].op = op
  /\ \A w \in Workers :
       pc[w] \in MovePoints => Used(job[w].op) /\ job[w].expGen = tickets[job[w].op].expGen

(* An operation that has moved the pointer expects a generation the pointer  *)
(* has left for good, and its event tells which.                             *)
SpentInv ==
  ~disturbed =>
    /\ Readable(current) => current.gen > 0
    /\ current.gen <= 1 + Cardinality(moved)
    /\ \A op \in moved : Used(op) /\ tickets[op].expGen < current.gen
    /\ \A i \in 1..Len(history.events) :
         LET event == history.events[i] IN
           Used(event.op) /\ event.gen = tickets[event.op].expGen + 1

Describing == {"openManifest", "fillManifest"}
Filed      == SeedPoints \ Describing

(* No manifest with this hash will be written any more.                      *)
Settled(hash) ==
  /\ hash <= seeds
  /\ \A w \in Workers : pc[w] \in Describing => job[w].hash # hash

(* A manifest hash stands for one content, and a vector file has one writer. *)
SeedInv ==
  /\ \A v \in Versions : Settled(manifest[v].hash)
  /\ \A w \in Workers :
       /\ Settled(seen[w].hash)
       /\ pc[w] \in SeedPoints => job[w].hash <= seeds
       /\ pc[w] \in Filed /\ manifest[job[w].version].hash = job[w].hash =>
            manifest[job[w].version].corpus = job[w].corpus
       /\ pc[w] = "fillVector" => vectors[job[w].version][filling[w]] = "torn"
       /\ pc[w] \in {"verify", "writeCurrent", "writeHistory"}
          /\ manifest[job[w].version].hash = seen[w].hash =>
            manifest[job[w].version].corpus = seen[w].corpus
  /\ \A w, u \in Workers :
       /\ pc[w] \in SeedPoints /\ pc[u] \in SeedPoints /\ w # u => job[w].hash # job[u].hash
       /\ pc[w] = "fillVector" /\ pc[u] = "fillVector" /\ w # u =>
            <<job[w].version, filling[w]>> # <<job[u].version, filling[u]>>

(* Vectors that complete what the manifest with this hash names stay so.     *)
Complete(v, hash) == manifest[v].hash = hash => vectors[v] = manifest[v].corpus

VerifiedInv ==
  ~disturbed =>
    /\ \A w \in Workers :
         pc[w] \in {"writeCurrent", "writeHistory"} => Complete(job[w].version, seen[w].hash)
    /\ \A i \in 1..Len(history.events) :
         LET event == history.events[i] IN
           Settled(event.hash) /\ Complete(event.to, event.hash)

ReleaseInv == RegistryInv /\ TicketInv /\ SpentInv /\ SeedInv /\ VerifiedInv

-----------------------------------------------------------------------------
(* A statement of the documentation that the code does not meet.             *)

(* "Current pointer and history (append-only, previous events preserved      *)
(* byte-identical)": a history that can be read still holds the event of     *)
(* every transition reported as made.                                        *)
HistoryAppendOnly ==
  Readable(history) =>
    \A op \in acked : \E i \in 1..Len(history.events) : history.events[i].op = op
=============================================================================
