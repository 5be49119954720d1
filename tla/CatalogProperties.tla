--------------------------- MODULE CatalogProperties ---------------------------
(***************************************************************************)
(* Properties of the catalog preflight.                                    *)
(***************************************************************************)
EXTENDS CatalogPreflight

(* What a request asks for, by the documentation alone: no order of entries  *)
(* or observations, no spelling of keys, no default left out or spelled out, *)
(* no label an official source does not need, no transport.                  *)
OthersOf(entry) ==
  {[role |-> RoleOf(o), source |-> source_identity(Head(o.source))] :
     o \in Range(entry.observations)}
Asked(entry) ==
  [key |-> Head(entry.key).word, source |-> source_identity(Head(entry.source)),
   comparison |-> Text(TransportOf(entry).comparison, "exact"), others |-> OthersOf(entry)]
Work(request) ==
  [identity |-> <<request.catalog.id, request.catalog.corpus>>,
   limit    |-> EffectiveLimit(request.limit),
   policy   |-> Text(request.catalog.comparison, COMPARISON_POLICY_VERSION),
   records  |-> {Asked(entry) : entry \in Range(Head(request.catalog.entries))}]

(* The keys that have fewer than `limit' others before them.                 *)
FirstKeys(work) ==
  LET keys == {r.key : r \in work.records}
  IN  {k \in keys : Cardinality({l \in keys : Rank[l] < Rank[k]}) < work.limit}

(* "Retrieval time and input order are excluded": two requests are the same  *)
(* run exactly if they ask for the same work, and a run selects the first of *)
(* its keys (the run identity preflight() computes and run() looks up).      *)
FingerprintNamesWork ==
  \A a, b \in admitted :
    /\ (a.plan.run_fingerprint = b.plan.run_fingerprint) <=> (Work(a.request) = Work(b.request))
    /\ {r.stable_key : r \in Range(a.plan.selected)} = FirstKeys(Work(a.request))
    /\ AllDifferent([i \in 1..Len(a.plan.selected) |-> a.plan.selected[i].stable_key])

(* A source without an expected hash yields nothing: its bytes are rejected. *)
Accepts(payload) == Range(TransportOf(payload).expected)
Readings(record) ==
  <<Range(record.transport.expected)>> \o
  [i \in 1..Len(record.observations) |-> Accepts(record.observations[i])]

(* Transports are in no fingerprint, so a run may be resumed with another    *)
(* transport for every source.  Whichever it is, each source read in its     *)
(* turn is accepted with the bytes the first request pinned or not at all.   *)
SameRunSameBytes ==
  \A a, b \in admitted :
    a.plan.run_fingerprint = b.plan.run_fingerprint =>
      \A i \in 1..Len(a.plan.selected) :
        LET one == Readings(a.plan.selected[i])
            two == Readings(b.plan.selected[i])
        IN  Len(one) = Len(two) /\ \A j \in 1..Len(one) : Cardinality(one[j] \cup two[j]) <= 1
=============================================================================
