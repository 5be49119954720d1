--------------------------- MODULE CatalogPreflight ---------------------------
(***************************************************************************)
(* Preflight: what a catalog and a limit must look like to become a run,   *)
(* and the plan they become.  It is a function of its input: it reads no   *)
(* fixture, keeps no state, and refuses with one error or returns a plan   *)
(* whose fingerprint names the run.                                        *)
(*                                                                         *)
(* A field with several names is the sequence of the values given under    *)
(* them, in the order the code looks them up: <<>> when it is missing.     *)
(* Texts are strings and Rank is their order; NotText is a JSON value of   *)
(* another type; a fingerprint is the document that is hashed.             *)
(***************************************************************************)
EXTENDS Integers, FiniteSets, SequencesExt, StableSort

CONSTANTS
  Requests,        \* [catalog, limit]: what callers ask for
  MaxRequests,     \* bound: requests admitted in a behaviour
  Rank,            \* the position of each text in the order of texts
  Hashes,          \* texts of 64 lower-case hexadecimal digits
  NotText

Missing == "missing"      \* a text no catalog holds

-----------------------------------------------------------------------------
(* Fields. *)

Known(payload) == ~payload.unknown
Unambiguous(field) == Len(field) <= 1
OptionalText(field) == Unambiguous(field) /\ NotText \notin Range(field)
Text(field, default) == IF field = <<>> \/ field = <<"">> THEN default ELSE Head(field)
RequiredText(field) == OptionalText(field) /\ Text(field, Missing) # Missing
IsTime(field) == field = <<"with a timezone">>
IsHash(field) == Len(field) = 1 /\ Head(field) \in Hashes

(* A raw key is a word in some spelling: NFKC, the collapsing of white space *)
(* and case folding leave the word; a flaw is what makes it no identifier.   *)
Flaws == {"control character", "too long", "path-like", "url"}
normalize_stable_key(raw) == raw.word
IsKey(raw) == raw.flaw \notin Flaws /\ raw.word # ""

DEFAULT_LIMIT == 100
MAX_LIMIT == 100
EffectiveLimit(limit) == IF limit = <<>> THEN DEFAULT_LIMIT ELSE Head(limit)
LimitAdmitted(limit) == EffectiveLimit(limit) \in 1..MAX_LIMIT

-----------------------------------------------------------------------------
(* Source references. *)

PARSER_VERSION == "0.1.0"
TRANSFORM_VERSION == "0.1.0"
AUTHORITY_POLICY_VERSION == "official-first-v1"
COMPARISON_POLICY_VERSION == "sha256-exact-v1"

OfficialKinds == {"official-live", "official-snapshot"}
SourceKinds == OfficialKinds \cup {"rule", "sipebi", "gov-derived", "fallback", "enrichment",
                                   "evaluation", "ai-proposal"}
OfficialHosts == {"kbbi.kemdikbud.go.id"}
Hosts == OfficialHosts \cup {"kbbi.web.id"}

IsOfficial(source) == Head(source.kind) \in OfficialKinds

SourceAdmitted(source, key) ==
  /\ Known(source)
  /\ RequiredText(source.kind) /\ Head(source.kind) \in SourceKinds
  /\ OptionalText(source.edition) /\ OptionalText(source.version)
  /\ IsTime(source.retrieved)
  /\ IsHash(source.hash)
  /\ OptionalText(source.parser) /\ Text(source.parser, PARSER_VERSION) = PARSER_VERSION
  /\ Len(source.url) = 1
  /\ LET url == Head(source.url) IN
       /\ url.scheme = "https" /\ url.host \in Hosts
       /\ IsOfficial(source) => url.host \in OfficialHosts
       /\ IsKey(url.tail) /\ normalize_stable_key(url.tail) = key

(* The time of retrieval is no part of a source's identity.                  *)
source_identity(source) ==
  [url |-> Head(source.url).text, source_kind |-> Head(source.kind),
   edition |-> Text(source.edition, "VI"), source_version |-> Text(source.version, "VI"),
   content_hash |-> Head(source.hash), parser_version |-> PARSER_VERSION]

(* Two references are the same to the search for duplicates when these agree.*)
Reference(source) == <<Head(source.kind), Head(source.hash), Head(source.url).text>>

-----------------------------------------------------------------------------
(* Transports. *)

Adapters == {"fixture", "local-fixture"}
ContentTypes == {"application/json", "application/xhtml+xml", "text/html", "text/plain"}
Statuses == 100..599

FixtureAdmitted(transport) ==
  /\ Known(transport)
  /\ RequiredText(transport.adapter) /\ Head(transport.adapter) \in Adapters
  /\ transport.status \in Statuses
  /\ OptionalText(transport.content_type) /\ OptionalText(transport.comparison)
  /\ Text(transport.comparison, "exact") \in {"exact", "sha256"}

Succeeds(transport) == transport.status < 400
DeclaresItsBytes(transport) ==
  /\ Succeeds(transport) => Text(transport.content_type, "text/html") \in ContentTypes
  /\ IsHash(transport.expected) \/ (transport.expected = <<>> /\ ~Succeeds(transport))

(* `binds' are the fields that name or hold the bytes.                       *)
BytesBound(transport) ==
  /\ Cardinality(transport.binds) <= 1 \/ transport.binds = {"path", "content"}
  /\ transport.binds = {} => ~Succeeds(transport)
  /\ "path" \in transport.binds => transport.path # "outside the root"
  /\ (transport.binds = {"path"} /\ Succeeds(transport)) => transport.path = "a file"
  /\ transport.binds \ {"path"} # {} => transport.decodes

(* These two have several names too, but here the first name simply wins.    *)
RetriesBounded(transport) ==
  /\ transport.max_retries # <<>> => Head(transport.max_retries) \in 0..10
  /\ transport.attempt_sequence # <<>> =>
       /\ Head(transport.attempt_sequence) # <<>>
       /\ Range(Head(transport.attempt_sequence)) \subseteq Statuses

TransportAdmitted(transport) ==
  /\ FixtureAdmitted(transport) /\ DeclaresItsBytes(transport)
  /\ BytesBound(transport) /\ RetriesBounded(transport)

(* Bytes bound beside the source instead of in a transport of their own.     *)
Inline(payload) ==
  [unknown |-> FALSE, adapter |-> <<"fixture">>, status |-> 200, content_type |-> <<>>,
   comparison |-> <<>>, expected |-> <<>>, binds |-> payload.binds, path |-> payload.path,
   decodes |-> TRUE, max_retries |-> <<>>, attempt_sequence |-> <<>>]

TransportOf(payload) ==
  IF payload.transport # <<>> THEN Head(payload.transport) ELSE Inline(payload)

\* Faulty: nobody compares the two hashes.
BindingAdmittedUncompared(payload, key) ==
  /\ Known(payload)
  /\ Len(payload.source) = 1 /\ SourceAdmitted(Head(payload.source), key)
  /\ Unambiguous(payload.transport)
  /\ (payload.transport = <<>>) = (payload.binds # {})
  /\ TransportAdmitted(TransportOf(payload))

(* What an entry and an observation have in common: one source, its key in   *)
(* the URL, one transport, and one opinion on the hash of the bytes.         *)
BindingAdmitted(payload, key) ==
  /\ Known(payload)
  /\ Len(payload.source) = 1 /\ SourceAdmitted(Head(payload.source), key)
  /\ Unambiguous(payload.transport)
  /\ (payload.transport = <<>>) = (payload.binds # {})
  /\ TransportAdmitted(TransportOf(payload))
  /\ TransportOf(payload).expected \in {<<>>, Head(payload.source).hash}

-----------------------------------------------------------------------------
(* Observations and records. *)

Roles == {"official", "fallback", "evidence"}

(* An official source is official whatever it is called.                     *)
RoleOf(observation) ==
  IF IsOfficial(Head(observation.source)) THEN "official" ELSE Text(observation.role, "evidence")

ObservationAdmitted(observation, key) ==
  /\ BindingAdmitted(observation, key)
  /\ OptionalText(observation.role)
  /\ LET role == Text(observation.role, "evidence") IN
       /\ role \in Roles
       /\ role = "official" => IsOfficial(Head(observation.source))

AllDifferent(seq) == \A i, j \in 1..Len(seq) : seq[i] = seq[j] => i = j
SourcesOf(entry) == entry.source \o [i \in 1..Len(entry.observations) |-> Head(entry.observations[i].source)]

EntryAdmitted(entry) ==
  /\ entry.key # <<NotText>> /\ Len(entry.key) = 1 /\ IsKey(Head(entry.key))
  /\ BindingAdmitted(entry, normalize_stable_key(Head(entry.key)))
  /\ \A i \in 1..Len(entry.observations) :
       ObservationAdmitted(entry.observations[i], normalize_stable_key(Head(entry.key)))
  /\ LET sources == SourcesOf(entry)
     IN  AllDifferent([i \in 1..Len(sources) |-> Reference(sources[i])])

(* Tuples of texts, compared text by text.                                   *)
Precedes(s, t) ==
  \E i \in 1..Len(s) : Rank[s[i]] < Rank[t[i]] /\ \A j \in 1..(i - 1) : s[j] = t[j]

\* Faulty: sources of one role and URL stay in the order they are given in.
SortKeyWithoutHash(observation) ==
  <<RoleOf(observation), source_identity(Head(observation.source)).url>>

SortKey(observation) ==
  LET identity == source_identity(Head(observation.source))
  IN  <<RoleOf(observation), identity.url, identity.source_kind, identity.edition,
        identity.source_version, identity.content_hash, identity.parser_version>>

additional_observations(entry) ==
  Sorted(entry.observations, LAMBDA o, p : Precedes(SortKey(o), SortKey(p)))

StableKey(entry) == normalize_stable_key(Head(entry.key))
Record(entry) ==
  [stable_key |-> StableKey(entry), source |-> Head(entry.source), transport |-> TransportOf(entry),
   observations |-> additional_observations(entry)]

-----------------------------------------------------------------------------
(* Catalogs. *)

Pinned(pin, installed) == OptionalText(pin) /\ Text(pin, installed) = installed

PolicyAdmitted(catalog) ==
  /\ Pinned(catalog.authority, "official-first")
  /\ OptionalText(catalog.comparison)
  /\ Text(catalog.comparison, COMPARISON_POLICY_VERSION)
       \in {COMPARISON_POLICY_VERSION, "exact", "sha256"}

CatalogAdmitted(catalog) ==
  /\ Known(catalog)
  /\ RequiredText(catalog.id) /\ RequiredText(catalog.corpus)
  /\ Len(catalog.entries) = 1
  /\ Known(catalog.pins)
  /\ Pinned(catalog.pins.parser, PARSER_VERSION)
  /\ Pinned(catalog.pins.transform, TRANSFORM_VERSION)
  /\ Pinned(catalog.pins.validation, AUTHORITY_POLICY_VERSION)
  /\ LET entries == Head(catalog.entries) IN
       /\ \A i \in 1..Len(entries) : EntryAdmitted(entries[i])
       /\ AllDifferent([i \in 1..Len(entries) |-> StableKey(entries[i])])
  /\ PolicyAdmitted(catalog)

Records(catalog) ==
  LET entries == Head(catalog.entries)
  IN  Sorted([i \in 1..Len(entries) |-> Record(entries[i])],
             LAMBDA r, s : Rank[r.stable_key] < Rank[s.stable_key])

fingerprint_record(record) ==
  [stable_key |-> record.stable_key, source_ref |-> source_identity(record.source),
   observations |-> [i \in 1..Len(record.observations) |->
     [role |-> RoleOf(record.observations[i]),
      source_ref |-> source_identity(Head(record.observations[i].source))]]]

catalog_fingerprint(catalog) ==
  LET records == Records(catalog)
  IN  [catalog_id |-> Head(catalog.id), corpus_version |-> Head(catalog.corpus),
       records |-> [i \in 1..Len(records) |-> fingerprint_record(records[i])]]

(* The transports are in neither fingerprint, but for their comparison mode. *)
run_fingerprint(request) ==
  LET records == Records(request.catalog)
  IN  [catalog_fingerprint |-> catalog_fingerprint(request.catalog),
       effective_limit |-> EffectiveLimit(request.limit),
       comparison_policy |-> Text(request.catalog.comparison, COMPARISON_POLICY_VERSION),
       comparison_records |-> [i \in 1..Len(records) |->
         <<records[i].stable_key, Text(records[i].transport.comparison, "exact")>>]]

Plan(request) ==
  LET records == Records(request.catalog)
      limit   == EffectiveLimit(request.limit)
  IN  [run_fingerprint |-> run_fingerprint(request),
       selected |-> SubSeq(records, 1, IF Len(records) < limit THEN Len(records) ELSE limit)]

-----------------------------------------------------------------------------
(* What a request is made of, whatever its fields say: the texts that are    *)
(* sorted by have a rank.                                                    *)

TextField == Seq(STRING \cup {NotText})
RankField == Seq(DOMAIN Rank \cup {NotText})
RawKeys   == [word : DOMAIN Rank, spelling : STRING, flaw : STRING]
Urls      == [text : DOMAIN Rank, scheme : STRING, host : STRING, tail : RawKeys]

SourceForms ==
  [unknown : BOOLEAN, url : Seq(Urls), kind : TextField, edition : RankField, version : RankField,
   retrieved : TextField, hash : TextField, parser : TextField]
TransportForms ==
  [unknown : BOOLEAN, adapter : TextField, status : Int \cup {NotText}, content_type : TextField,
   comparison : TextField, expected : TextField, binds : SUBSET STRING, path : STRING,
   decodes : BOOLEAN, max_retries : Seq(Int), attempt_sequence : Seq(Seq(Int))]
PayloadForms(Observed) ==
  [unknown : BOOLEAN, source : Seq(SourceForms), transport : Seq(TransportForms),
   binds : SUBSET STRING, path : STRING, role : TextField, key : Seq(RawKeys \cup {NotText}),
   observations : Observed]
EntryForms == PayloadForms(Seq(PayloadForms({<<>>})))
CatalogForms ==
  [unknown : BOOLEAN, id : TextField, corpus : TextField, entries : Seq(Seq(EntryForms)),
   pins : [unknown : BOOLEAN, parser : TextField, transform : TextField, validation : TextField],
   authority : TextField, comparison : TextField]

ASSUME CatalogAssumption ==
  /\ Requests \subseteq [catalog : CatalogForms, limit : Seq(Int \cup {NotText})]
  /\ Rank \in [DOMAIN Rank -> Int] /\ IsInjective(Rank)
  /\ Hashes \cup SourceKinds \cup Roles \cup {"VI", PARSER_VERSION} \subseteq DOMAIN Rank

-----------------------------------------------------------------------------
VARIABLE admitted          \* the requests that became runs, with their plans

Init == admitted = {}

preflight(request) ==
  /\ Cardinality(admitted) < MaxRequests
  /\ LimitAdmitted(request.limit) /\ CatalogAdmitted(request.catalog)
  /\ admitted' = admitted \cup {[request |-> request, plan |-> Plan(request)]}

Next == \E request \in Requests : preflight(request)

Spec == Init /\ [][Next]_admitted
=============================================================================
