---------------------------- MODULE CatalogProofs ----------------------------
(***************************************************************************)
(* Proofs about the catalog preflight, for any set of requests, any order  *)
(* of texts and any number of admissions: a fingerprint names the work     *)
(* asked for, and with it the bytes a run may accept.                      *)
(***************************************************************************)
EXTENDS CatalogProperties, StableSortProofs, SequenceTheorems, TLAPS

-----------------------------------------------------------------------------
(* The order of texts, and of tuples of texts. *)

LEMMA TextsAreOrdered ==
  /\ \A s \in DOMAIN Rank : Rank[s] \in Int
  /\ \A s, t \in DOMAIN Rank : Rank[s] = Rank[t] => s = t
<1>1. Rank \in [DOMAIN Rank -> Int] /\ IsInjective(Rank)
  BY CatalogAssumption
<1> QED BY <1>1 DEF IsInjective

SortKeys     == {s \in Seq(DOMAIN Rank) : Len(s) = 7}
SortKeyOrder == {p \in SortKeys \X SortKeys : Precedes(p[1], p[2])}

(* The first text in which two tuples differ decides, and there is one.      *)
LEMMA TuplesAreOrdered == StrictOrder(SortKeyOrder, SortKeys)
<1>1. \A s \in SortKeys : \A i \in 1..7 : s[i] \in DOMAIN Rank /\ Rank[s[i]] \in Int
  <2> SUFFICES ASSUME NEW s \in SortKeys, NEW i \in 1..7
               PROVE  s[i] \in DOMAIN Rank /\ Rank[s[i]] \in Int
    OBVIOUS
  <2> DEFINE D == DOMAIN Rank
  <2>1. s \in Seq(D) /\ Len(s) = 7
    BY DEF SortKeys
  <2> HIDE DEF D
  <2>2. s[i] \in D
    <3>1. i \in 1..Len(s)
      BY <2>1
    <3> QED BY <2>1, <3>1, ElementOfSeq, Zenon
  <2> QED BY <2>2, TextsAreOrdered DEF D
<1>2. \A s, t \in SortKeys : <<s, t>> \in SortKeyOrder <=> Precedes(s, t)
  BY DEF SortKeyOrder
<1>3. \A s, t \in SortKeys : Precedes(s, t) <=>
        \E i \in 1..7 : Rank[s[i]] < Rank[t[i]] /\ \A j \in 1..(i - 1) : s[j] = t[j]
  BY DEF SortKeys, Precedes
<1>4. ASSUME NEW s \in SortKeys PROVE <<s, s>> \notin SortKeyOrder
  BY <1>1, <1>2, <1>3
<1>5. ASSUME NEW s \in SortKeys, NEW t \in SortKeys, NEW u \in SortKeys,
             <<s, t>> \in SortKeyOrder, <<t, u>> \in SortKeyOrder
      PROVE  <<s, u>> \in SortKeyOrder
  <2>1. PICK i \in 1..7 : Rank[s[i]] < Rank[t[i]] /\ \A j \in 1..(i - 1) : s[j] = t[j]
    BY <1>2, <1>3, <1>5
  <2>2. PICK k \in 1..7 : Rank[t[k]] < Rank[u[k]] /\ \A j \in 1..(k - 1) : t[j] = u[j]
    BY <1>2, <1>3, <1>5
  <2>3. PICK m \in {i, k} : m <= i /\ m <= k
    OBVIOUS
  <2>4. Rank[s[m]] < Rank[u[m]] /\ \A j \in 1..(m - 1) : s[j] = u[j]
    <3>1. Rank[s[m]] \in Int /\ Rank[t[m]] \in Int /\ Rank[u[m]] \in Int
      BY <1>1
    <3>2. m < i => s[m] = t[m]
      BY <2>1
    <3>3. m < k => t[m] = u[m]
      BY <2>2
    <3> QED BY <2>1, <2>2, <2>3, <3>1, <3>2, <3>3
  <2> QED BY <1>2, <1>3, <2>4
<1>6. ASSUME NEW s \in SortKeys, NEW t \in SortKeys, s # t
      PROVE  <<s, t>> \in SortKeyOrder \/ <<t, s>> \in SortKeyOrder
  <2> DEFINE D == {i \in 1..7 : s[i] # t[i]}
  <2>1. D \subseteq Nat /\ D # {}
    BY <1>6 DEF SortKeys
  <2>2. PICK m \in D : \A n \in D : m <= n
    BY <2>1, Least
  <2>3. m \in 1..7 /\ s[m] # t[m] /\ \A j \in 1..(m - 1) : s[j] = t[j]
    BY <2>2
  <2>4. Rank[s[m]] < Rank[t[m]] \/ Rank[t[m]] < Rank[s[m]]
    BY <1>1, <2>3, TextsAreOrdered
  <2> QED BY <1>2, <1>3, <2>3, <2>4
<1> QED BY <1>4, <1>5, <1>6 DEF StrictOrder

-----------------------------------------------------------------------------
(* What admission says. *)

EntriesOf(request)  == Head(request.catalog.entries)
Admissible(request) ==
  /\ request \in Requests
  /\ LimitAdmitted(request.limit) /\ CatalogAdmitted(request.catalog)

LEMMA FieldsHold ==
  ASSUME NEW S, NEW field \in Seq(S), Len(field) = 1
  PROVE  field = <<Head(field)>> /\ Head(field) \in S /\ Range(field) = {Head(field)}
<1>1. field[1] \in S /\ Head(field) = field[1] /\ DOMAIN field = 1..1
  OBVIOUS
<1>2. <<field[1]>> \in Seq(S) /\ Len(<<field[1]>>) = 1 /\ <<field[1]>>[1] = field[1]
  BY <1>1
<1>3. field = <<field[1]>>
  <2>1. \A i \in 1..Len(field) : field[i] = <<field[1]>>[i]
    BY <1>2
  <2> QED BY <1>2, <2>1, SeqEqual
<1>4. \A i : i \in DOMAIN field <=> i = 1
  BY <1>1
<1> QED BY <1>1, <1>3, <1>4 DEF Range

LEMMA OneOrNone ==
  ASSUME NEW S, NEW field \in Seq(S), Len(field) <= 1, field # <<>>
  PROVE  Len(field) = 1
<1>1. Len(field) \in Nat \ {0}
  BY EmptySeq, Zenon
<1>2. \A n \in Nat \ {0} : n <= 1 => n = 1
  OBVIOUS
<1> QED BY <1>1, <1>2, Zenon

(* The identity of an admitted source is made of texts that have a rank.     *)
LEMMA SourceIsRanked ==
  ASSUME NEW source \in SourceForms, NEW key, SourceAdmitted(source, key)
  PROVE  LET identity == source_identity(source) IN
         /\ {identity.url, identity.source_kind, identity.edition, identity.source_version,
             identity.content_hash, identity.parser_version} \subseteq DOMAIN Rank
         /\ source.hash = <<identity.content_hash>>
<1>1. Head(source.kind) \in DOMAIN Rank /\ PARSER_VERSION \in DOMAIN Rank /\ "VI" \in DOMAIN Rank
      /\ Hashes \subseteq DOMAIN Rank
  BY CatalogAssumption DEF SourceAdmitted
<1>2. source.hash = <<Head(source.hash)>> /\ Head(source.hash) \in DOMAIN Rank
  <2>1. source.hash \in TextField /\ Len(source.hash) = 1 /\ Head(source.hash) \in Hashes
    BY DEF SourceForms, SourceAdmitted, IsHash
  <2> QED BY <1>1, <2>1, FieldsHold DEF TextField
<1>3. Head(source.url).text \in DOMAIN Rank
  <2>1. source.url \in Seq(Urls) /\ Len(source.url) = 1
    BY DEF SourceForms, SourceAdmitted
  <2>2. Head(source.url) \in Urls
    BY <2>1, FieldsHold
  <2> QED BY <2>2 DEF Urls
<1>4. ASSUME NEW field \in RankField, OptionalText(field)
      PROVE  Text(field, "VI") \in DOMAIN Rank
  <2>1. CASE field = <<>>
    BY <1>1, <2>1 DEF Text
  <2>2. CASE field # <<>>
    <3>1. Len(field) = 1
      BY <1>4, <2>2, OneOrNone DEF OptionalText, Unambiguous, RankField
    <3>2. Head(field) \in DOMAIN Rank
      BY <1>4, <3>1, FieldsHold DEF OptionalText, RankField
    <3> QED BY <1>1, <3>2 DEF Text
  <2> QED BY <2>1, <2>2
<1>5. source.edition \in RankField /\ source.version \in RankField
      /\ OptionalText(source.edition) /\ OptionalText(source.version)
  BY DEF SourceForms, SourceAdmitted
<1> QED BY <1>1, <1>2, <1>3, <1>4, <1>5 DEF source_identity

LEMMA EntryForm ==
  ASSUME NEW entry \in EntryForms
  PROVE  /\ entry.source \in Seq(SourceForms) /\ entry.transport \in Seq(TransportForms)
         /\ entry.key \in Seq(RawKeys \cup {NotText})
         /\ entry.observations \in Seq(PayloadForms({<<>>}))
         /\ \A i \in 1..Len(entry.observations) :
              entry.observations[i].source \in Seq(SourceForms)
<1>1. /\ entry.source \in Seq(SourceForms) /\ entry.transport \in Seq(TransportForms)
      /\ entry.key \in Seq(RawKeys \cup {NotText})
      /\ entry.observations \in Seq(PayloadForms({<<>>}))
  BY DEF EntryForms, PayloadForms
<1>2. \A payload \in PayloadForms({<<>>}) : payload.source \in Seq(SourceForms)
  BY DEF PayloadForms
<1>3. ASSUME NEW i \in 1..Len(entry.observations)
      PROVE  entry.observations[i] \in PayloadForms({<<>>})
  BY <1>1, ElementOfSeq
<1> QED BY <1>1, <1>2, <1>3

LEMMA EntriesHold ==
  ASSUME NEW request, Admissible(request)
  PROVE  /\ EntriesOf(request) \in Seq(EntryForms)
         /\ request.catalog.id = <<Head(request.catalog.id)>>
         /\ request.catalog.corpus = <<Head(request.catalog.corpus)>>
         /\ \A i \in 1..Len(EntriesOf(request)) :
              EntriesOf(request)[i] \in EntryForms /\ EntryAdmitted(EntriesOf(request)[i])
         /\ AllDifferent([i \in 1..Len(EntriesOf(request)) |-> StableKey(EntriesOf(request)[i])])
<1>1. request.catalog \in CatalogForms
  BY CatalogAssumption DEF Admissible
<1>2. /\ request.catalog.id \in TextField /\ request.catalog.corpus \in TextField
      /\ request.catalog.entries \in Seq(Seq(EntryForms))
  BY <1>1 DEF CatalogForms
<1>3. /\ RequiredText(request.catalog.id) /\ RequiredText(request.catalog.corpus)
      /\ Len(request.catalog.entries) = 1
      /\ \A i \in 1..Len(EntriesOf(request)) : EntryAdmitted(EntriesOf(request)[i])
      /\ AllDifferent([i \in 1..Len(EntriesOf(request)) |-> StableKey(EntriesOf(request)[i])])
  BY DEF Admissible, CatalogAdmitted, EntriesOf
<1>4. ASSUME NEW field \in TextField, RequiredText(field)
      PROVE  field = <<Head(field)>>
  <2>1. field # <<>> /\ Len(field) <= 1
    BY <1>4 DEF RequiredText, OptionalText, Unambiguous, Text
  <2>2. Len(field) = 1
    BY <2>1, OneOrNone DEF TextField
  <2> QED BY <2>2, FieldsHold DEF TextField
<1>5. EntriesOf(request) \in Seq(EntryForms)
  BY <1>2, <1>3, FieldsHold DEF EntriesOf
<1>6. ASSUME NEW i \in 1..Len(EntriesOf(request)) PROVE EntriesOf(request)[i] \in EntryForms
  BY <1>5, ElementOfSeq
<1> QED BY <1>2, <1>3, <1>4, <1>5, <1>6

(* The key, the source and the transport of an entry, and its observations,  *)
(* no two of which are of one reference.                                     *)
LEMMA EntryHolds ==
  ASSUME NEW entry \in EntryForms, EntryAdmitted(entry)
  PROVE  /\ StableKey(entry) \in DOMAIN Rank
         /\ Head(entry.source) \in SourceForms
         /\ SourceAdmitted(Head(entry.source), StableKey(entry))
         /\ \A i \in 1..Len(entry.observations) :
              /\ ObservationAdmitted(entry.observations[i], StableKey(entry))
              /\ Head(entry.observations[i].source) \in SourceForms
         /\ \A i, j \in 1..Len(entry.observations) :
              Reference(Head(entry.observations[i].source))
                = Reference(Head(entry.observations[j].source)) => i = j
<1>1. Len(entry.key) = 1 /\ entry.key # <<NotText>>
  BY DEF EntryAdmitted
<1>2. Head(entry.key) \in RawKeys \cup {NotText} /\ entry.key = <<Head(entry.key)>>
  BY <1>1, EntryForm, FieldsHold
<1>3. StableKey(entry) \in DOMAIN Rank
  BY <1>1, <1>2 DEF StableKey, normalize_stable_key, RawKeys
<1>4. /\ Len(entry.source) = 1 /\ SourceAdmitted(Head(entry.source), StableKey(entry))
      /\ \A i \in 1..Len(entry.observations) :
           /\ ObservationAdmitted(entry.observations[i], StableKey(entry))
           /\ Len(entry.observations[i].source) = 1
  BY DEF EntryAdmitted, BindingAdmitted, ObservationAdmitted, StableKey
<1>5. /\ Head(entry.source) \in SourceForms
      /\ \A i \in 1..Len(entry.observations) : Head(entry.observations[i].source) \in SourceForms
  BY <1>4, EntryForm, FieldsHold
<1> DEFINE n      == Len(entry.observations)
           others == [i \in 1..n |-> Head(entry.observations[i].source)]
           all    == SourcesOf(entry)
<1>6. n \in Nat
  BY EntryForm
<1>7. others \in Seq(SourceForms) /\ Len(others) = n
  <2>1. others \in [1..n -> SourceForms]
    BY <1>5
  <2> HIDE DEF others, n
  <2> QED BY <1>6, <2>1
<1>8. /\ all = entry.source \o others
      /\ Len(all) = n + 1
      /\ \A i \in 1..n : all[i + 1] = others[i]
  <2>1. all = entry.source \o others
    BY DEF SourcesOf
  <2> HIDE DEF all, others, n
  <2>2. entry.source \in Seq(SourceForms)
    BY EntryForm
  <2>3. /\ Len(entry.source \o others) = 1 + n
        /\ \A i \in 1..(1 + n) : (entry.source \o others)[i] =
              IF i <= 1 THEN entry.source[i] ELSE others[i - 1]
    <3>1. /\ Len(entry.source \o others) = Len(entry.source) + Len(others)
          /\ \A i \in 1..(Len(entry.source) + Len(others)) : (entry.source \o others)[i] =
                IF i <= Len(entry.source) THEN entry.source[i] ELSE others[i - Len(entry.source)]
      BY <1>7, <2>2, ConcatProperties, Zenon
    <3> QED BY <1>4, <1>7, <3>1
  <2>4. ASSUME NEW i \in 1..n PROVE all[i + 1] = others[i]
    <3>1. i + 1 \in 1..(1 + n) /\ ~(i + 1 <= 1) /\ (i + 1) - 1 = i
      BY <1>6
    <3> QED BY <2>1, <2>3, <3>1
  <2>5. Len(all) = n + 1
    BY <1>6, <2>1, <2>3
  <2> QED BY <2>1, <2>4, <2>5, Zenon
<1>9. AllDifferent([i \in 1..Len(all) |-> Reference(all[i])])
  BY DEF EntryAdmitted
<1>10. ASSUME NEW i \in 1..n, NEW j \in 1..n, Reference(others[i]) = Reference(others[j])
       PROVE  i = j
  <2> DEFINE refs == [m \in 1..(n + 1) |-> Reference(all[m])]
  <2> HIDE DEF all, others, n
  <2>1. AllDifferent(refs)
    BY <1>8, <1>9
  <2>2. i + 1 \in 1..(n + 1) /\ j + 1 \in 1..(n + 1) /\ n + 1 \in Nat
    BY <1>6
  <2>3. /\ Len(refs) = n + 1
        /\ refs[i + 1] = Reference(all[i + 1]) /\ refs[j + 1] = Reference(all[j + 1])
    BY <2>2
  <2> HIDE DEF refs
  <2>4. refs[i + 1] = refs[j + 1]
    BY <1>8, <1>10, <2>3
  <2>5. i + 1 = j + 1
    BY <2>1, <2>2, <2>3, <2>4 DEF AllDifferent
  <2> QED BY <2>5
<1>11. ASSUME NEW i \in 1..n, NEW j \in 1..n,
              Reference(Head(entry.observations[i].source))
                = Reference(Head(entry.observations[j].source))
       PROVE  i = j
  BY <1>10, <1>11
<1> QED BY <1>3, <1>4, <1>5, <1>11

-----------------------------------------------------------------------------
(* What sorting makes of the observations of an entry, and of the entries.   *)

SortKeyOf(role, identity) ==
  <<role, identity.url, identity.source_kind, identity.edition, identity.source_version,
    identity.content_hash, identity.parser_version>>

LEMMA SevenTexts ==
  ASSUME NEW D, NEW a \in D, NEW b \in D, NEW c \in D, NEW d \in D, NEW e \in D, NEW f \in D,
         NEW g \in D
  PROVE  <<a, b, c, d, e, f, g>> \in Seq(D) /\ Len(<<a, b, c, d, e, f, g>>) = 7
OBVIOUS

LEMMA SortKeysDiffer ==
  ASSUME NEW entry \in EntryForms, EntryAdmitted(entry)
  PROVE  /\ \A i \in 1..Len(entry.observations) : SortKey(entry.observations[i]) \in SortKeys
         /\ \A i, j \in 1..Len(entry.observations) :
              SortKey(entry.observations[i]) = SortKey(entry.observations[j]) => i = j
<1>1. ASSUME NEW i \in 1..Len(entry.observations)
      PROVE  SortKey(entry.observations[i]) \in SortKeys
  <2> DEFINE o        == entry.observations[i]
             identity == source_identity(Head(o.source))
  <2>1. /\ ObservationAdmitted(o, StableKey(entry)) /\ Head(o.source) \in SourceForms
        /\ SourceAdmitted(Head(o.source), StableKey(entry))
    BY EntryHolds DEF ObservationAdmitted, BindingAdmitted
  <2>2. RoleOf(o) \in DOMAIN Rank
    <3>1. RoleOf(o) \in Roles
      BY <2>1 DEF RoleOf, Roles, ObservationAdmitted
    <3> QED BY <3>1, CatalogAssumption
  <2>3. {identity.url, identity.source_kind, identity.edition, identity.source_version,
         identity.content_hash, identity.parser_version} \subseteq DOMAIN Rank
    BY <2>1, SourceIsRanked
  <2>4. SortKey(o) = SortKeyOf(RoleOf(o), identity)
    BY DEF SortKey, SortKeyOf
  <2> HIDE DEF o, identity
  <2>5. SortKeyOf(RoleOf(o), identity) \in SortKeys
    BY <2>2, <2>3, SevenTexts, Zenon DEF SortKeyOf, SortKeys
  <2> QED BY <2>4, <2>5 DEF o
<1>2. ASSUME NEW i \in 1..Len(entry.observations), NEW j \in 1..Len(entry.observations),
             SortKey(entry.observations[i]) = SortKey(entry.observations[j])
      PROVE  i = j
  <2>1. Reference(Head(entry.observations[i].source)) = Reference(Head(entry.observations[j].source))
    BY <1>2 DEF SortKey, Reference, source_identity
  <2> QED BY <2>1, EntryHolds
<1> QED BY <1>1, <1>2

LEMMA ObservationsAre ==
  ASSUME NEW entry \in EntryForms, EntryAdmitted(entry)
  PROVE  \E at \in Rearrangements(Len(entry.observations)) :
           /\ Increasing(SortKeyOrder, Len(entry.observations),
                [m \in 1..Len(entry.observations) |-> SortKey(entry.observations[at[m]])])
           /\ additional_observations(entry) = Rearranged(Len(entry.observations), entry.observations, at)
<1> DEFINE n   == Len(entry.observations)
           key == [i \in 1..n |-> SortKey(entry.observations[i])]
<1>1. entry.observations \in Seq(PayloadForms({<<>>}))
  BY EntryForm
<1>2. key \in [1..n -> SortKeys] /\ Distinct(n, key)
  BY SortKeysDiffer DEF Distinct
<1>3. Positions(entry.observations, LAMBDA o, p : Precedes(SortKey(o), SortKey(p)))
        = KeyOrder(SortKeyOrder, n, key)
  <2>1. \A i, j \in 1..n : Precedes(SortKey(entry.observations[i]), SortKey(entry.observations[j]))
                              <=> <<key[i], key[j]>> \in SortKeyOrder
    BY <1>2 DEF SortKeyOrder
  <2> QED BY <2>1 DEF Positions, KeyOrder
<1>4. additional_observations(entry) = Arranged(entry.observations, KeyOrder(SortKeyOrder, n, key))
  BY <1>3 DEF additional_observations, Sorted
<1>5. PICK at \in Rearrangements(Len(entry.observations)) :
        SortsByKey(at, entry.observations, key, SortKeyOrder)
  <2>1. key \in [1..Len(entry.observations) -> SortKeys] /\ Distinct(Len(entry.observations), key)
    BY <1>2
  <2> HIDE DEF key, n
  <2> QED BY <1>1, <2>1, TuplesAreOrdered, SortingByKey, Zenon
<1>6. Rearranged(n, key, at) = [m \in 1..n |-> SortKey(entry.observations[at[m]])]
  BY DEF Rearrangements, Rearranged
<1> QED BY <1>4, <1>5, <1>6 DEF SortsByKey

KeysOrder == {p \in (DOMAIN Rank) \X (DOMAIN Rank) : Rank[p[1]] < Rank[p[2]]}

LEMMA KeysAreOrdered ==
  /\ StrictOrder(KeysOrder, DOMAIN Rank)
  /\ \A k, l \in DOMAIN Rank : <<k, l>> \in KeysOrder <=> Rank[k] < Rank[l]
<1>1. \A k, l \in DOMAIN Rank : <<k, l>> \in KeysOrder <=> Rank[k] < Rank[l]
  BY DEF KeysOrder
<1>2. ASSUME NEW k \in DOMAIN Rank PROVE <<k, k>> \notin KeysOrder
  BY <1>1, TextsAreOrdered
<1>3. ASSUME NEW k \in DOMAIN Rank, NEW l \in DOMAIN Rank, NEW m \in DOMAIN Rank,
             <<k, l>> \in KeysOrder, <<l, m>> \in KeysOrder
      PROVE  <<k, m>> \in KeysOrder
  BY <1>1, <1>3, TextsAreOrdered
<1>4. ASSUME NEW k \in DOMAIN Rank, NEW l \in DOMAIN Rank, k # l
      PROVE  <<k, l>> \in KeysOrder \/ <<l, k>> \in KeysOrder
  BY <1>1, <1>4, TextsAreOrdered
<1> QED BY <1>1, <1>2, <1>3, <1>4 DEF StrictOrder

(* The entries of a request in the order of their keys.                      *)
KeysOf(n, s) == [i \in 1..n |-> StableKey(s[i])]
Lists(request, n, s) ==
  /\ \A i \in 1..n : EntryAdmitted(s[i])
  /\ Members(n, s) = Range(EntriesOf(request))
  /\ KeysOf(n, s) \in [1..n -> DOMAIN Rank] /\ Increasing(KeysOrder, n, KeysOf(n, s))
  /\ Records(request.catalog) = [i \in 1..n |-> Record(s[i])]

LEMMA RecordsAre ==
  ASSUME NEW request, Admissible(request)
  PROVE  \E n \in Nat : \E s \in [1..n -> EntryForms] : Lists(request, n, s)
<1> DEFINE E   == EntriesOf(request)
           n   == Len(E)
           R   == {Record(entry) : entry \in EntryForms}
           all == [i \in 1..n |-> Record(E[i])]
           key == [i \in 1..n |-> StableKey(E[i])]
<1>1. /\ E \in Seq(EntryForms) /\ n \in Nat
      /\ \A i \in 1..n : E[i] \in EntryForms /\ EntryAdmitted(E[i])
  <2>1. E \in Seq(EntryForms) /\ \A i \in 1..n : E[i] \in EntryForms /\ EntryAdmitted(E[i])
    BY EntriesHold, Zenon
  <2> HIDE DEF E
  <2> QED BY <2>1
<1>2. key \in [1..n -> DOMAIN Rank] /\ Distinct(n, key)
  <2>1. key \in [1..n -> DOMAIN Rank]
    BY <1>1, EntryHolds
  <2>2. AllDifferent(key) /\ Len(key) = n
    BY <1>1, EntriesHold
  <2> QED BY <2>1, <2>2 DEF AllDifferent, Distinct
<1>3. all \in Seq(R) /\ Len(all) = n
  <2>1. all \in [1..n -> R]
    BY <1>1
  <2> HIDE DEF all, n, E, R
  <2> QED BY <1>1, <2>1
<1>4. Positions(all, LAMBDA r, t : Rank[r.stable_key] < Rank[t.stable_key])
        = KeyOrder(KeysOrder, n, key)
  <2>1. \A i, j \in 1..n : Rank[all[i].stable_key] < Rank[all[j].stable_key]
                              <=> <<key[i], key[j]>> \in KeysOrder
    <3>1. \A i \in 1..n : all[i].stable_key = key[i]
      BY DEF Record
    <3> HIDE DEF all, key, n
    <3> QED BY <1>2, <3>1, KeysAreOrdered
  <2> HIDE DEF all, key, n
  <2> QED BY <1>3, <2>1 DEF Positions, KeyOrder
<1>5. Records(request.catalog) = Arranged(all, KeyOrder(KeysOrder, n, key))
  BY <1>4 DEF Records, Sorted, EntriesOf
<1>6. PICK at \in Rearrangements(Len(all)) : SortsByKey(at, all, key, KeysOrder)
  <2> DEFINE D == DOMAIN Rank
  <2>1. key \in [1..Len(all) -> D] /\ Distinct(Len(all), key)
    BY <1>2, <1>3
  <2>2. StrictOrder(KeysOrder, D)
    BY KeysAreOrdered
  <2>3. all \in Seq(R)
    BY <1>3
  <2> HIDE DEF key, all, n, E, R, D
  <2> QED BY <2>1, <2>2, <2>3, SortingByKey, Zenon
<1> DEFINE s == [i \in 1..n |-> E[at[i]]]
<1>7. /\ at \in [1..n -> 1..n]
      /\ \A i \in 1..n : \E m \in 1..n : at[m] = i
  BY <1>3, <1>6 DEF Rearrangements
<1>8. s \in [1..n -> EntryForms] /\ \A i \in 1..n : EntryAdmitted(s[i])
  BY <1>1, <1>7
<1>9. Members(n, s) = Range(E)
  <2>1. \A x : x \in Range(E) <=> \E i \in 1..n : x = E[i]
    BY <1>1 DEF Range
  <2>2. \A x : x \in Members(n, s) <=> \E m \in 1..n : x = E[at[m]]
    BY DEF Members
  <2> HIDE DEF E, n, s
  <2>3. ASSUME NEW x, x \in Range(E) PROVE x \in Members(n, s)
    <3>1. PICK i \in 1..n : x = E[i]
      BY <2>1, <2>3
    <3>2. PICK m \in 1..n : at[m] = i
      BY <1>7
    <3> QED BY <2>2, <3>1, <3>2
  <2>4. ASSUME NEW x, x \in Members(n, s) PROVE x \in Range(E)
    BY <1>7, <2>1, <2>2, <2>4
  <2> QED BY <2>3, <2>4
<1>10. KeysOf(n, s) \in [1..n -> DOMAIN Rank] /\ Increasing(KeysOrder, n, KeysOf(n, s))
  <2>1. Rearranged(n, key, at) = KeysOf(n, s)
    BY <1>7 DEF Rearranged, KeysOf
  <2>2. KeysOf(n, s) \in [1..n -> DOMAIN Rank]
    BY <1>8, EntryHolds DEF KeysOf
  <2> QED BY <1>3, <1>6, <2>1, <2>2 DEF SortsByKey
<1>11. Records(request.catalog) = [i \in 1..n |-> Record(s[i])]
  <2>1. Rearranged(n, all, at) = [i \in 1..n |-> Record(s[i])]
    BY <1>7 DEF Rearranged
  <2> QED BY <1>3, <1>5, <1>6, <2>1 DEF SortsByKey
<1> QED BY <1>1, <1>8, <1>9, <1>10, <1>11 DEF Lists

-----------------------------------------------------------------------------
(* What an entry's fingerprint holds is what the entry asks for.             *)

Identified(entry) == fingerprint_record(Record(entry))
ObservationNamed(k) ==
  [role |-> k[1],
   source_ref |-> [url |-> k[2], source_kind |-> k[3], edition |-> k[4], source_version |-> k[5],
                   content_hash |-> k[6], parser_version |-> k[7]]]

LEMMA NamesOfObservations ==
  ASSUME NEW observation
  PROVE  /\ SortKey(observation)
              = SortKeyOf(RoleOf(observation), source_identity(Head(observation.source)))
         /\ ObservationNamed(SortKey(observation))
              = [role |-> RoleOf(observation), source_ref |-> source_identity(Head(observation.source))]
<1>1. SortKey(observation)
        = SortKeyOf(RoleOf(observation), source_identity(Head(observation.source)))
  BY DEF SortKey, SortKeyOf
<1>2. ObservationNamed(SortKey(observation)).source_ref = source_identity(Head(observation.source))
  BY DEF ObservationNamed, SortKey, source_identity
<1>3. ObservationNamed(SortKey(observation)).role = RoleOf(observation)
  BY DEF ObservationNamed, SortKey
<1> QED BY <1>1, <1>2, <1>3 DEF ObservationNamed

Identifies(entry, n, s) ==
  /\ Increasing(SortKeyOrder, n, s)
  /\ Members(n, s) = {SortKeyOf(x.role, x.source) : x \in OthersOf(entry)}
  /\ Identified(entry).observations = [m \in 1..n |-> ObservationNamed(s[m])]

LEMMA ObservationsAreNamed ==
  ASSUME NEW entry \in EntryForms, EntryAdmitted(entry)
  PROVE  /\ \E n \in Nat : \E s \in [1..n -> SortKeys] : Identifies(entry, n, s)
         /\ OthersOf(entry) = {[role |-> x.role, source |-> x.source_ref] :
                                 x \in Range(Identified(entry).observations)}
<1> DEFINE given == entry.observations
           n     == Len(given)
<1>1. n \in Nat /\ DOMAIN given = 1..n
  BY EntryForm
<1>2. PICK at \in Rearrangements(n) :
        /\ Increasing(SortKeyOrder, n, [m \in 1..n |-> SortKey(given[at[m]])])
        /\ additional_observations(entry) = Rearranged(n, given, at)
  BY ObservationsAre
<1>3. at \in [1..n -> 1..n] /\ \A i \in 1..n : \E m \in 1..n : at[m] = i
  BY <1>2 DEF Rearrangements
<1> DEFINE s == [m \in 1..n |-> SortKey(given[at[m]])]
<1>4. s \in [1..n -> SortKeys]
  BY <1>3, SortKeysDiffer
<1>5. Identified(entry).observations = [m \in 1..n |-> ObservationNamed(s[m])]
  <2> DEFINE obs == Record(entry).observations
  <2>1. obs = [m \in 1..n |-> given[at[m]]]
    BY <1>2 DEF Record, Rearranged
  <2>2. Len(obs) = n /\ \A m \in 1..n : obs[m] = given[at[m]]
    BY <1>1, <2>1
  <2>3. Identified(entry).observations
          = [m \in 1..Len(obs) |-> [role |-> RoleOf(obs[m]),
                                    source_ref |-> source_identity(Head(obs[m].source))]]
    BY DEF Identified, fingerprint_record
  <2> HIDE DEF obs, given, n
  <2>4. \A m \in 1..n : ObservationNamed(SortKey(obs[m]))
          = [role |-> RoleOf(obs[m]), source_ref |-> source_identity(Head(obs[m].source))]
    BY NamesOfObservations
  <2>5. \A m \in 1..n : s[m] = SortKey(obs[m])
    BY <2>2
  <2> QED BY <2>2, <2>3, <2>4, <2>5
<1>6. \A x : x \in OthersOf(entry) <=> \E m \in 1..n :
        x = [role |-> RoleOf(given[at[m]]), source |-> source_identity(Head(given[at[m]].source))]
  <2>1. \A x : x \in OthersOf(entry) <=> \E i \in 1..n :
          x = [role |-> RoleOf(given[i]), source |-> source_identity(Head(given[i].source))]
    BY <1>1 DEF OthersOf, Range
  <2> HIDE DEF given, n
  <2>2. ASSUME NEW x, x \in OthersOf(entry)
        PROVE  \E m \in 1..n : x = [role |-> RoleOf(given[at[m]]),
                                    source |-> source_identity(Head(given[at[m]].source))]
    <3>1. PICK i \in 1..n :
            x = [role |-> RoleOf(given[i]), source |-> source_identity(Head(given[i].source))]
      BY <2>1, <2>2
    <3>2. PICK m \in 1..n : at[m] = i
      BY <1>3
    <3> QED BY <3>1, <3>2
  <2>3. ASSUME NEW m \in 1..n
        PROVE  [role |-> RoleOf(given[at[m]]), source |-> source_identity(Head(given[at[m]].source))]
                 \in OthersOf(entry)
    <3>1. at[m] \in 1..n
      BY <1>3
    <3> QED BY <2>1, <3>1
  <2> QED BY <2>2, <2>3
<1> DEFINE o == [m \in 1..n |-> [role   |-> RoleOf(given[at[m]]),
                                  source |-> source_identity(Head(given[at[m]].source))]]
<1>7. \A x : x \in OthersOf(entry) <=> \E m \in 1..n : x = o[m]
  BY <1>6
<1>8. ASSUME NEW m \in 1..n
      PROVE  /\ s[m] = SortKeyOf(o[m].role, o[m].source)
             /\ o[m] = [role   |-> ObservationNamed(s[m]).role,
                        source |-> ObservationNamed(s[m]).source_ref]
  BY NamesOfObservations
<1>9. Members(n, s) = {SortKeyOf(x.role, x.source) : x \in OthersOf(entry)}
  <2> DEFINE KeyOf(x) == SortKeyOf(x.role, x.source)
  <2>1. \A m \in 1..n : s[m] = KeyOf(o[m])
    BY <1>8
  <2> HIDE DEF s, n, o, KeyOf
  <2>2. {KeyOf(x) : x \in OthersOf(entry)} = {s[m] : m \in 1..n}
    BY <1>7, <2>1
  <2> QED BY <2>2 DEF Members, KeyOf
<1>10. OthersOf(entry) = {[role |-> x.role, source |-> x.source_ref] :
                           x \in Range(Identified(entry).observations)}
  <2> DEFINE OtherOf(x) == [role |-> x.role, source |-> x.source_ref]
             ids        == Identified(entry).observations
  <2>1. \A m \in 1..n : o[m] = OtherOf(ids[m])
    BY <1>5, <1>8
  <2>2. \A x : x \in Range(ids) <=> \E m \in 1..n : x = ids[m]
    BY <1>5 DEF Range
  <2> HIDE DEF s, n, o, ids, OtherOf
  <2>3. OthersOf(entry) = {OtherOf(x) : x \in Range(ids)}
    BY <1>7, <2>1, <2>2
  <2> QED BY <2>3 DEF OtherOf, ids
<1>11. Identifies(entry, n, s)
  BY <1>2, <1>5, <1>9 DEF Identifies
<1> HIDE DEF n, s
<1> QED BY <1>1, <1>4, <1>11, <1>10

LEMMA SameObservations ==
  ASSUME NEW d \in EntryForms, EntryAdmitted(d), NEW e \in EntryForms, EntryAdmitted(e)
  PROVE  OthersOf(d) = OthersOf(e) <=> Identified(d).observations = Identified(e).observations
<1>1. ASSUME OthersOf(d) = OthersOf(e)
      PROVE  Identified(d).observations = Identified(e).observations
  <2>1. PICK n \in Nat : \E s \in [1..n -> SortKeys] : Identifies(d, n, s)
    BY ObservationsAreNamed
  <2>2. PICK s \in [1..n -> SortKeys] : Identifies(d, n, s)
    BY <2>1
  <2>3. PICK m \in Nat : \E t \in [1..m -> SortKeys] : Identifies(e, m, t)
    BY ObservationsAreNamed
  <2>4. PICK t \in [1..m -> SortKeys] : Identifies(e, m, t)
    BY <2>3
  <2>5. /\ Members(n, s) = Members(m, t)
        /\ Increasing(SortKeyOrder, n, s) /\ Increasing(SortKeyOrder, m, t)
    BY <1>1, <2>2, <2>4 DEF Identifies
  <2>6. n = m /\ s = t
    BY <2>5, TuplesAreOrdered, OneAscent, Zenon
  <2> QED BY <2>2, <2>4, <2>6 DEF Identifies
<1>2. ASSUME Identified(d).observations = Identified(e).observations
      PROVE  OthersOf(d) = OthersOf(e)
  BY <1>2, ObservationsAreNamed
<1> QED BY <1>1, <1>2

(* Two entries ask for the same if they have one fingerprint and one mode of *)
(* comparison.                                                               *)
ComparisonOf(entry) == Text(TransportOf(entry).comparison, "exact")

LEMMA AskedIsIdentified ==
  ASSUME NEW d \in EntryForms, EntryAdmitted(d), NEW e \in EntryForms, EntryAdmitted(e)
  PROVE  Asked(d) = Asked(e) <=>
           Identified(d) = Identified(e) /\ ComparisonOf(d) = ComparisonOf(e)
<1>1. ASSUME NEW entry \in EntryForms
      PROVE  /\ Identified(entry) = [stable_key   |-> StableKey(entry),
                                     source_ref   |-> source_identity(Head(entry.source)),
                                     observations |-> Identified(entry).observations]
             /\ Asked(entry) = [key        |-> StableKey(entry),
                                source     |-> source_identity(Head(entry.source)),
                                comparison |-> ComparisonOf(entry),
                                others     |-> OthersOf(entry)]
  BY DEF Identified, fingerprint_record, Record, Asked, ComparisonOf, StableKey,
         normalize_stable_key
<1>2. Asked(d) = Asked(e) <=>
        /\ StableKey(d) = StableKey(e)
        /\ source_identity(Head(d.source)) = source_identity(Head(e.source))
        /\ ComparisonOf(d) = ComparisonOf(e) /\ OthersOf(d) = OthersOf(e)
  BY <1>1
<1>3. Identified(d) = Identified(e) <=>
        /\ StableKey(d) = StableKey(e)
        /\ source_identity(Head(d.source)) = source_identity(Head(e.source))
        /\ Identified(d).observations = Identified(e).observations
  BY <1>1
<1> QED BY <1>2, <1>3, SameObservations

(* Two requests ask for the same entries if they ask for the same, one by    *)
(* one, in the order of the keys.                                            *)
LEMMA AskedInOrder ==
  ASSUME NEW a, Admissible(a), NEW n \in Nat, NEW s \in [1..n -> EntryForms], Lists(a, n, s),
         NEW b, Admissible(b), NEW m \in Nat, NEW t \in [1..m -> EntryForms], Lists(b, m, t)
  PROVE  Work(a).records = Work(b).records <=> n = m /\ \A i \in 1..n : Asked(s[i]) = Asked(t[i])
<1>1. ASSUME NEW request, NEW k \in Nat, NEW u \in [1..k -> EntryForms], Lists(request, k, u)
      PROVE  \A x : x \in Work(request).records <=> \E i \in 1..k : x = Asked(u[i])
  <2>1. \A x : x \in Range(EntriesOf(request)) <=> \E i \in 1..k : x = u[i]
    BY <1>1 DEF Lists, Members
  <2> QED BY <2>1 DEF Work, EntriesOf
<1>2. \A x : x \in Work(a).records <=> \E i \in 1..n : x = Asked(s[i])
  BY <1>1
<1>3. \A x : x \in Work(b).records <=> \E i \in 1..m : x = Asked(t[i])
  BY <1>1
<1>4. ASSUME NEW entry PROVE Asked(entry).key = StableKey(entry)
  BY DEF Asked, StableKey, normalize_stable_key
<1>5. ASSUME Work(a).records = Work(b).records
      PROVE  n = m /\ \A i \in 1..n : Asked(s[i]) = Asked(t[i])
  <2>1. /\ KeysOf(n, s) \in [1..n -> DOMAIN Rank] /\ Increasing(KeysOrder, n, KeysOf(n, s))
        /\ KeysOf(m, t) \in [1..m -> DOMAIN Rank] /\ Increasing(KeysOrder, m, KeysOf(m, t))
    BY DEF Lists
  <2>2. Members(n, KeysOf(n, s)) = Members(m, KeysOf(m, t))
    <3>1. /\ \A i \in 1..n : \E j \in 1..m : Asked(s[i]) = Asked(t[j])
          /\ \A j \in 1..m : \E i \in 1..n : Asked(s[i]) = Asked(t[j])
      BY <1>5, <1>2, <1>3
    <3>2. /\ \A i \in 1..n : \E j \in 1..m : StableKey(s[i]) = StableKey(t[j])
          /\ \A j \in 1..m : \E i \in 1..n : StableKey(s[i]) = StableKey(t[j])
      BY <1>4, <3>1
    <3> DEFINE f == KeysOf(n, s)
               g == KeysOf(m, t)
    <3>3. /\ \A i \in 1..n : f[i] = StableKey(s[i])
          /\ \A j \in 1..m : g[j] = StableKey(t[j])
      BY DEF KeysOf
    <3> HIDE DEF f, g
    <3>4. ASSUME NEW i \in 1..n PROVE \E j \in 1..m : f[i] = g[j]
      <4>1. PICK j \in 1..m : StableKey(s[i]) = StableKey(t[j])
        BY <3>2
      <4> QED BY <3>3, <4>1
    <3>5. ASSUME NEW j \in 1..m PROVE \E i \in 1..n : g[j] = f[i]
      <4>1. PICK i \in 1..n : StableKey(s[i]) = StableKey(t[j])
        BY <3>2
      <4> QED BY <3>3, <4>1
    <3>6. \A x : x \in Members(n, f) <=> x \in Members(m, g)
      BY <3>4, <3>5 DEF Members
    <3>7. Members(n, f) = Members(m, g)
      BY <3>6 DEF Members
    <3> QED BY <3>7 DEF f, g
  <2>3. n = m /\ KeysOf(n, s) = KeysOf(m, t)
    <3> DEFINE D == DOMAIN Rank
    <3>1. /\ StrictOrder(KeysOrder, D)
          /\ KeysOf(n, s) \in [1..n -> D] /\ KeysOf(m, t) \in [1..m -> D]
      BY <2>1, KeysAreOrdered
    <3> HIDE DEF D
    <3> QED BY <2>1, <2>2, <3>1, OneAscent, Zenon
  <2>4. ASSUME NEW i \in 1..n PROVE Asked(s[i]) = Asked(t[i])
    <3>1. PICK j \in 1..m : Asked(s[i]) = Asked(t[j])
      BY <1>5, <1>2, <1>3
    <3>2. StableKey(t[j]) = StableKey(t[i])
      <4>1. StableKey(s[i]) = StableKey(t[j])
        BY <1>4, <3>1
      <4>2. StableKey(s[i]) = StableKey(t[i])
        BY <2>3 DEF KeysOf
      <4> QED BY <4>1, <4>2
    <3>3. i = j
      <4>1. \A p \in 1..m : KeysOf(m, t)[p] = StableKey(t[p]) /\ KeysOf(m, t)[p] \in DOMAIN Rank
        BY <2>1 DEF KeysOf
      <4>2. \A p, q \in 1..m : p < q => <<StableKey(t[p]), StableKey(t[q])>> \in KeysOrder
        BY <2>1, <4>1 DEF Increasing
      <4>3. <<StableKey(t[i]), StableKey(t[j])>> \notin KeysOrder
            /\ <<StableKey(t[j]), StableKey(t[i])>> \notin KeysOrder
        BY <2>3, <3>2, <4>1, KeysAreOrdered DEF StrictOrder
      <4> QED BY <2>3, <4>2, <4>3
    <3> QED BY <3>1, <3>3
  <2> QED BY <2>3, <2>4
<1>6. ASSUME n = m, \A i \in 1..n : Asked(s[i]) = Asked(t[i])
      PROVE  Work(a).records = Work(b).records
  <2>1. \A x : x \in Work(a).records <=> x \in Work(b).records
    BY <1>6, <1>2, <1>3
  <2>2. \A request : Work(request).records = {Asked(entry) : entry \in Range(EntriesOf(request))}
    BY DEF Work, EntriesOf
  <2> QED BY <2>1, <2>2
<1> QED BY <1>5, <1>6

LEMMA FingerprintIs ==
  ASSUME NEW request, NEW n \in Nat, NEW s \in [1..n -> EntryForms], Lists(request, n, s)
  PROVE  run_fingerprint(request) =
           [catalog_fingerprint |->
              [catalog_id |-> Head(request.catalog.id), corpus_version |-> Head(request.catalog.corpus),
               records |-> [i \in 1..n |-> Identified(s[i])]],
            effective_limit |-> EffectiveLimit(request.limit),
            comparison_policy |-> Text(request.catalog.comparison, COMPARISON_POLICY_VERSION),
            comparison_records |-> [i \in 1..n |-> <<StableKey(s[i]), ComparisonOf(s[i])>>]]
<1> DEFINE records == Records(request.catalog)
<1>1. Len(records) = n /\ \A i \in 1..n : records[i] = Record(s[i])
  BY DEF Lists
<1>2. \A i \in 1..n : /\ fingerprint_record(records[i]) = Identified(s[i])
                      /\ records[i].stable_key = StableKey(s[i])
                      /\ Text(records[i].transport.comparison, "exact") = ComparisonOf(s[i])
  BY <1>1 DEF Identified, Record, ComparisonOf
<1>3. run_fingerprint(request) =
        [catalog_fingerprint |->
           [catalog_id |-> Head(request.catalog.id), corpus_version |-> Head(request.catalog.corpus),
            records |-> [i \in 1..Len(records) |-> fingerprint_record(records[i])]],
         effective_limit |-> EffectiveLimit(request.limit),
         comparison_policy |-> Text(request.catalog.comparison, COMPARISON_POLICY_VERSION),
         comparison_records |-> [i \in 1..Len(records) |->
           <<records[i].stable_key, Text(records[i].transport.comparison, "exact")>>]]
  BY DEF run_fingerprint, catalog_fingerprint
<1> HIDE DEF records
<1>4. [i \in 1..Len(records) |-> fingerprint_record(records[i])] = [i \in 1..n |-> Identified(s[i])]
  BY <1>1, <1>2
<1>5. [i \in 1..Len(records) |-> <<records[i].stable_key, Text(records[i].transport.comparison, "exact")>>]
        = [i \in 1..n |-> <<StableKey(s[i]), ComparisonOf(s[i])>>]
  BY <1>1, <1>2
<1> QED BY <1>3, <1>4, <1>5

(* Two admitted requests have one fingerprint exactly if they ask for the    *)
(* same work.                                                                *)
LEMMA FingerprintsAreWork ==
  ASSUME NEW a, Admissible(a), NEW b, Admissible(b)
  PROVE  run_fingerprint(a) = run_fingerprint(b) <=> Work(a) = Work(b)
<1>1. PICK n \in Nat : \E s \in [1..n -> EntryForms] : Lists(a, n, s)
  BY RecordsAre
<1>2. PICK s \in [1..n -> EntryForms] : Lists(a, n, s)
  BY <1>1
<1>3. PICK m \in Nat : \E t \in [1..m -> EntryForms] : Lists(b, m, t)
  BY RecordsAre
<1>4. PICK t \in [1..m -> EntryForms] : Lists(b, m, t)
  BY <1>3
<1>5. \A i \in 1..n, j \in 1..m :
        Asked(s[i]) = Asked(t[j]) <=>
          Identified(s[i]) = Identified(t[j]) /\ ComparisonOf(s[i]) = ComparisonOf(t[j])
  BY <1>2, <1>4, AskedIsIdentified DEF Lists
<1>6. \A i \in 1..n, j \in 1..m : Identified(s[i]) = Identified(t[j]) => StableKey(s[i]) = StableKey(t[j])
  BY DEF Identified, fingerprint_record, Record
<1> DEFINE Named(request) == /\ request.catalog.id = <<Head(request.catalog.id)>>
                             /\ request.catalog.corpus = <<Head(request.catalog.corpus)>>
           Limit(request) == EffectiveLimit(request.limit)
           Policy(request) == Text(request.catalog.comparison, COMPARISON_POLICY_VERSION)
           ids(k, u)   == [i \in 1..k |-> Identified(u[i])]
           modes(k, u) == [i \in 1..k |-> <<StableKey(u[i]), ComparisonOf(u[i])>>]
<1>7. Work(a) = Work(b) <=>
        /\ a.catalog.id = b.catalog.id /\ a.catalog.corpus = b.catalog.corpus
        /\ Limit(a) = Limit(b) /\ Policy(a) = Policy(b)
        /\ Work(a).records = Work(b).records
  BY DEF Work
<1>8. run_fingerprint(a) = run_fingerprint(b) <=>
        /\ Head(a.catalog.id) = Head(b.catalog.id) /\ Head(a.catalog.corpus) = Head(b.catalog.corpus)
        /\ Limit(a) = Limit(b) /\ Policy(a) = Policy(b)
        /\ ids(n, s) = ids(m, t) /\ modes(n, s) = modes(m, t)
  <2>1. run_fingerprint(a) =
          [catalog_fingerprint |->
             [catalog_id |-> Head(a.catalog.id), corpus_version |-> Head(a.catalog.corpus),
              records |-> ids(n, s)],
           effective_limit |-> Limit(a), comparison_policy |-> Policy(a),
           comparison_records |-> modes(n, s)]
    BY <1>2, FingerprintIs
  <2>2. run_fingerprint(b) =
          [catalog_fingerprint |->
             [catalog_id |-> Head(b.catalog.id), corpus_version |-> Head(b.catalog.corpus),
              records |-> ids(m, t)],
           effective_limit |-> Limit(b), comparison_policy |-> Policy(b),
           comparison_records |-> modes(m, t)]
    BY <1>4, FingerprintIs
  <2> HIDE DEF ids, modes, Limit, Policy
  <2> QED BY <2>1, <2>2
<1>9. /\ a.catalog.id = b.catalog.id <=> Head(a.catalog.id) = Head(b.catalog.id)
      /\ a.catalog.corpus = b.catalog.corpus <=> Head(a.catalog.corpus) = Head(b.catalog.corpus)
  <2>1. Named(a) /\ Named(b)
    BY EntriesHold
  <2> QED BY <2>1
<1>10. ids(n, s) = ids(m, t) /\ modes(n, s) = modes(m, t) <=>
         /\ n = m
         /\ \A i \in 1..n : Identified(s[i]) = Identified(t[i]) /\ ComparisonOf(s[i]) = ComparisonOf(t[i])
  <2>1. ASSUME ids(n, s) = ids(m, t), modes(n, s) = modes(m, t)
        PROVE  /\ n = m
               /\ \A i \in 1..n : /\ Identified(s[i]) = Identified(t[i])
                                  /\ ComparisonOf(s[i]) = ComparisonOf(t[i])
    <3>1. n = m
      <4>1. Len(ids(n, s)) = n /\ Len(ids(m, t)) = m
        OBVIOUS
      <4> QED BY <2>1, <4>1
    <3>2. ASSUME NEW i \in 1..n
          PROVE  Identified(s[i]) = Identified(t[i]) /\ ComparisonOf(s[i]) = ComparisonOf(t[i])
      <4>1. /\ ids(n, s)[i] = Identified(s[i]) /\ ids(m, t)[i] = Identified(t[i])
            /\ modes(n, s)[i] = <<StableKey(s[i]), ComparisonOf(s[i])>>
            /\ modes(m, t)[i] = <<StableKey(t[i]), ComparisonOf(t[i])>>
        BY <3>1
      <4> HIDE DEF ids, modes
      <4> QED BY <2>1, <4>1
    <3> QED BY <3>1, <3>2
  <2>2. ASSUME n = m, \A i \in 1..n : /\ Identified(s[i]) = Identified(t[i])
                                      /\ ComparisonOf(s[i]) = ComparisonOf(t[i])
        PROVE  ids(n, s) = ids(m, t) /\ modes(n, s) = modes(m, t)
    BY <1>6, <2>2
  <2> QED BY <2>1, <2>2
<1>11. Work(a).records = Work(b).records <=> n = m /\ \A i \in 1..n : Asked(s[i]) = Asked(t[i])
  BY <1>2, <1>4, AskedInOrder
<1> HIDE DEF ids, modes, Limit, Policy
<1> QED BY <1>5, <1>7, <1>8, <1>9, <1>10, <1>11

-----------------------------------------------------------------------------
(* The selection: the first entries, up to the limit. *)

Selects(request, n, s, k) ==
  /\ \A i \in 1..n : i \in 1..k <=> i - 1 < EffectiveLimit(request.limit)
  /\ k <= n /\ Plan(request).selected = [i \in 1..k |-> Record(s[i])]

LEMMA SelectedAre ==
  ASSUME NEW request, Admissible(request),
         NEW n \in Nat, NEW s \in [1..n -> EntryForms], Lists(request, n, s)
  PROVE  \E k \in Nat : Selects(request, n, s, k)
<1> DEFINE records == Records(request.catalog)
           limit   == EffectiveLimit(request.limit)
           k       == IF Len(records) < limit THEN Len(records) ELSE limit
           R       == {Record(entry) : entry \in EntryForms}
<1>1. limit \in Nat
  <2>1. limit \in 1..100
    BY DEF Admissible, LimitAdmitted, MAX_LIMIT
  <2> HIDE DEF limit
  <2> QED BY <2>1
<1>2. Len(records) = n /\ records \in Seq(R) /\ \A i \in 1..n : records[i] = Record(s[i])
  <2>1. records = [i \in 1..n |-> Record(s[i])]
    BY DEF Lists
  <2>2. records \in [1..n -> R]
    BY <2>1
  <2>3. \A i \in 1..n : records[i] = Record(s[i])
    BY <2>1
  <2> HIDE DEF records, R
  <2> QED BY <2>1, <2>2, <2>3
<1>3. Plan(request).selected = SubSeq(records, 1, k)
  BY DEF Plan
<1> HIDE DEF records, R, limit
<1>4. k \in Nat /\ k <= n /\ \A i \in 1..n : i \in 1..k <=> i - 1 < limit
  BY <1>1, <1>2
<1> HIDE DEF k
<1>5. SubSeq(records, 1, k) = [i \in 1..k |-> records[i]]
  BY <1>2, <1>4
<1>6. [i \in 1..k |-> records[i]] = [i \in 1..k |-> Record(s[i])]
  BY <1>2, <1>4
<1> QED BY <1>3, <1>4, <1>5, <1>6 DEF limit, Selects

LEMMA FirstAreSelected ==
  ASSUME NEW request, Admissible(request)
  PROVE  LET selected == Plan(request).selected IN
         /\ {r.stable_key : r \in Range(selected)} = FirstKeys(Work(request))
         /\ AllDifferent([i \in 1..Len(selected) |-> selected[i].stable_key])
<1>1. PICK n \in Nat : \E s \in [1..n -> EntryForms] : Lists(request, n, s)
  BY RecordsAre
<1>2. PICK s \in [1..n -> EntryForms] : Lists(request, n, s)
  BY <1>1
<1>3. PICK k \in Nat :
        /\ \A i \in 1..n : i \in 1..k <=> i - 1 < EffectiveLimit(request.limit)
        /\ k <= n /\ Plan(request).selected = [i \in 1..k |-> Record(s[i])]
  <2>1. \E k \in Nat : Selects(request, n, s, k)
    BY <1>2, SelectedAre
  <2> QED BY <2>1 DEF Selects
<1> DEFINE selected == Plan(request).selected
           keys     == {r.key : r \in Work(request).records}
           D        == DOMAIN Rank
           f        == KeysOf(n, s)
<1>4. /\ Len(selected) = k
      /\ \A i \in 1..k : i \in 1..n /\ selected[i].stable_key = f[i]
  BY <1>3 DEF KeysOf, Record
<1>5. f \in [1..n -> D] /\ Increasing(KeysOrder, n, f) /\ StrictOrder(KeysOrder, D)
  BY <1>2, KeysAreOrdered DEF Lists
<1>6. \A i, j \in 1..n : f[i] = f[j] => i = j
  <2>1. \A i, j \in 1..n : i < j => <<f[i], f[j]>> \in KeysOrder
    BY <1>5 DEF Increasing
  <2>2. \A i \in 1..n : <<f[i], f[i]>> \notin KeysOrder
    BY <1>5 DEF StrictOrder
  <2> HIDE DEF f, D
  <2>3. ASSUME NEW i \in 1..n, NEW j \in 1..n, f[i] = f[j] PROVE ~(i < j) /\ ~(j < i)
    BY <2>1, <2>2, <2>3
  <2> QED BY <2>3
<1>7. \A x : x \in keys <=> \E i \in 1..n : x = f[i]
  <2>1. \A x : x \in Range(EntriesOf(request)) <=> \E i \in 1..n : x = s[i]
    BY <1>2 DEF Lists, Members
  <2>2. \A i \in 1..n : Asked(s[i]).key = f[i]
    BY DEF Asked, StableKey, normalize_stable_key, KeysOf
  <2>3. \A x : x \in Work(request).records <=> \E i \in 1..n : x = Asked(s[i])
    BY <2>1 DEF Work, EntriesOf
  <2> HIDE DEF f
  <2> QED BY <2>2, <2>3
<1>8. keys = Members(n, f)
  <2> HIDE DEF keys, f
  <2> QED BY <1>7 DEF Members
<1>9. Ranked(KeysOrder, n, f)
  <2> HIDE DEF f, D
  <2> QED BY <1>5, Ascending, Zenon
<1>10. ASSUME NEW i \in 1..n
       PROVE  Cardinality({l \in keys : Rank[l] < Rank[f[i]]}) = i - 1
  <2>1. keys \subseteq D /\ f[i] \in D
    <3> HIDE DEF keys, f, D
    <3> QED BY <1>5, <1>7
  <2>2. {l \in keys : Rank[l] < Rank[f[i]]} = Below(KeysOrder, keys, f[i])
    BY <2>1, KeysAreOrdered DEF Below
  <2> HIDE DEF keys, f
  <2> QED BY <1>8, <1>9, <2>2 DEF Ranked
<1>11. FirstKeys(Work(request))
         = {x \in keys : Cardinality({l \in keys : Rank[l] < Rank[x]}) < EffectiveLimit(request.limit)}
  BY DEF FirstKeys, Work
<1>12. \A x : x \in {r.stable_key : r \in Range(selected)} <=> \E i \in 1..k : x = f[i]
  <2>1. \A x : x \in Range(selected) <=> \E i \in 1..k : x = selected[i]
    BY <1>3 DEF Range
  <2> HIDE DEF selected, f
  <2> QED BY <1>4, <2>1
<1> HIDE DEF selected, keys, f, D
<1>13. \A x : x \in FirstKeys(Work(request)) <=> \E i \in 1..k : x = f[i]
  <2>1. \A i \in 1..n : f[i] \in FirstKeys(Work(request)) <=> i \in 1..k
    BY <1>3, <1>7, <1>10, <1>11
  <2>2. \A x \in FirstKeys(Work(request)) : \E i \in 1..n : x = f[i]
    BY <1>7, <1>11
  <2>3. \A i \in 1..k : i \in 1..n
    BY <1>4
  <2> QED BY <2>1, <2>2, <2>3
<1>14. {r.stable_key : r \in Range(selected)} = FirstKeys(Work(request))
  <2> DEFINE S == {r.stable_key : r \in Range(selected)}
  <2>1. \A x : x \in S <=> x \in FirstKeys(Work(request))
    BY <1>12, <1>13
  <2> HIDE DEF S
  <2>2. S = FirstKeys(Work(request))
    BY <2>1
  <2> QED BY <2>2 DEF S
<1>15. AllDifferent([i \in 1..Len(selected) |-> selected[i].stable_key])
  <2> DEFINE g == [i \in 1..Len(selected) |-> selected[i].stable_key]
  <2>1. Len(g) = k /\ \A i \in 1..k : i \in 1..n /\ g[i] = f[i]
    BY <1>4
  <2> HIDE DEF g
  <2>2. AllDifferent(g)
    BY <1>6, <2>1 DEF AllDifferent
  <2> QED BY <2>2 DEF g
<1> QED BY <1>14, <1>15 DEF selected

-----------------------------------------------------------------------------
(* The bytes a run accepts. *)

(* A source is accepted with the bytes its own hash names, or not at all.    *)
LEMMA AcceptedBytes ==
  ASSUME NEW payload, NEW key, BindingAdmitted(payload, key), Head(payload.source) \in SourceForms
  PROVE  Accepts(payload) \subseteq {source_identity(Head(payload.source)).content_hash}
<1> DEFINE hash == source_identity(Head(payload.source)).content_hash
           expected == TransportOf(payload).expected
<1>1. Head(payload.source).hash = <<hash>>
  BY SourceIsRanked DEF BindingAdmitted
<1>2. expected = <<>> \/ expected = <<hash>>
  BY <1>1 DEF BindingAdmitted
<1>3. Accepts(payload) = Range(expected)
  BY DEF Accepts
<1> HIDE DEF hash, expected
<1>4. Range(<<>>) = {} /\ Range(<<hash>>) = {hash}
  BY DEF Range
<1> QED BY <1>2, <1>3, <1>4 DEF hash

LEMMA ReadingsAre ==
  ASSUME NEW entry \in EntryForms, EntryAdmitted(entry)
  PROVE  LET ids      == Identified(entry)
             n        == Len(ids.observations)
             readings == Readings(Record(entry))
         IN  /\ n \in Nat /\ Len(readings) = n + 1
             /\ readings[1] \subseteq {ids.source_ref.content_hash}
             /\ \A j \in 1..n : readings[j + 1] \subseteq {ids.observations[j].source_ref.content_hash}
<1> DEFINE given    == entry.observations
           n        == Len(given)
           ids      == Identified(entry)
           own      == Range(TransportOf(entry).expected)
           obs      == Record(entry).observations
           theirs   == [j \in 1..Len(obs) |-> Accepts(obs[j])]
           readings == Readings(Record(entry))
<1>1. n \in Nat
  BY EntryForm
<1>2. PICK at \in Rearrangements(n) : additional_observations(entry) = Rearranged(n, given, at)
  BY ObservationsAre
<1>3. \A m \in 1..n : at[m] \in 1..n
  BY <1>2 DEF Rearrangements
<1>4. Len(obs) = n /\ \A m \in 1..n : obs[m] = given[at[m]]
  <2>1. obs = [m \in 1..n |-> given[at[m]]]
    BY <1>2 DEF Record, Rearranged
  <2> HIDE DEF obs, given, n
  <2> QED BY <1>1, <2>1
<1>5. /\ ids.source_ref = source_identity(Head(entry.source))
      /\ Len(ids.observations) = n
      /\ \A m \in 1..n : ids.observations[m].source_ref = source_identity(Head(obs[m].source))
  <2>1. ids.observations = [m \in 1..Len(obs) |-> [role |-> RoleOf(obs[m]),
                                       source_ref |-> source_identity(Head(obs[m].source))]]
    BY DEF Identified, fingerprint_record
  <2>2. ids.source_ref = source_identity(Head(entry.source))
    BY DEF Identified, fingerprint_record, Record
  <2> HIDE DEF ids, obs, n
  <2> QED BY <1>1, <1>4, <2>1, <2>2
<1>6. own \subseteq {ids.source_ref.content_hash}
  <2>1. own = Accepts(entry)
    BY DEF Accepts
  <2>2. BindingAdmitted(entry, StableKey(entry)) /\ Head(entry.source) \in SourceForms
    BY EntryHolds DEF EntryAdmitted, StableKey
  <2> QED BY <1>5, <2>1, <2>2, AcceptedBytes
<1>7. ASSUME NEW m \in 1..n
      PROVE  Accepts(obs[m]) \subseteq {ids.observations[m].source_ref.content_hash}
  <2>1. /\ BindingAdmitted(given[at[m]], StableKey(entry))
        /\ Head(given[at[m]].source) \in SourceForms
    BY <1>3, EntryHolds DEF ObservationAdmitted
  <2>2. obs[m] = given[at[m]]
    BY <1>4
  <2> HIDE DEF obs, given, ids, n
  <2> QED BY <1>5, <2>1, <2>2, AcceptedBytes
<1>8. readings = <<own>> \o theirs
  BY DEF Readings, Record
<1>9. Len(readings) = n + 1 /\ readings[1] = own /\ \A j \in 1..n : readings[j + 1] = Accepts(obs[j])
  <2> DEFINE T == {own} \cup {Accepts(obs[j]) : j \in 1..n}
  <2>1. \A j \in 1..n : Accepts(obs[j]) \in T
    OBVIOUS
  <2>2. own \in T
    OBVIOUS
  <2> HIDE DEF T, own, obs, n, readings
  <2>3. <<own>> \in Seq(T) /\ theirs \in Seq(T) /\ Len(<<own>>) = 1 /\ Len(theirs) = n
        /\ <<own>>[1] = own /\ \A j \in 1..n : theirs[j] = Accepts(obs[j])
    BY <1>1, <1>4, <2>1, <2>2
  <2> HIDE DEF theirs
  <2>4. /\ Len(<<own>> \o theirs) = 1 + n
        /\ \A i \in 1..(1 + n) : (<<own>> \o theirs)[i] = IF i <= 1 THEN own ELSE theirs[i - 1]
    <3>1. /\ Len(<<own>> \o theirs) = Len(<<own>>) + Len(theirs)
          /\ \A i \in 1..(Len(<<own>>) + Len(theirs)) : (<<own>> \o theirs)[i] =
                IF i <= Len(<<own>>) THEN <<own>>[i] ELSE theirs[i - Len(<<own>>)]
      BY <2>3, ConcatProperties, Zenon
    <3> DEFINE all == <<own>> \o theirs
    <3>2. \A i \in 1..(1 + n) : all[i] = IF i <= 1 THEN <<own>>[i] ELSE theirs[i - 1]
      BY <2>3, <3>1
    <3>3. \A i \in 1..(1 + n) : i <= 1 => i = 1
      BY <1>1
    <3> HIDE DEF all
    <3>4. \A i \in 1..(1 + n) : all[i] = IF i <= 1 THEN own ELSE theirs[i - 1]
      BY <2>3, <3>2, <3>3
    <3> QED BY <2>3, <3>1, <3>4 DEF all
  <2>5. ASSUME NEW j \in 1..n PROVE readings[j + 1] = Accepts(obs[j])
    <3>1. j + 1 \in 1..(1 + n) /\ ~(j + 1 <= 1) /\ (j + 1) - 1 = j
      BY <1>1
    <3> QED BY <1>8, <2>3, <2>4, <3>1
  <2>6. readings[1] = own /\ Len(readings) = n + 1
    BY <1>1, <1>8, <2>4
  <2> QED BY <2>5, <2>6
<1> HIDE DEF readings, obs, ids, n, own
<1> QED BY <1>1, <1>5, <1>6, <1>7, <1>9 DEF ids, readings

LEMMA SameBytes ==
  ASSUME NEW a, Admissible(a), NEW b, Admissible(b), run_fingerprint(a) = run_fingerprint(b),
         NEW i \in 1..Len(Plan(a).selected)
  PROVE  LET one == Readings(Plan(a).selected[i])
             two == Readings(Plan(b).selected[i])
         IN  Len(one) = Len(two) /\ \A j \in 1..Len(one) : Cardinality(one[j] \cup two[j]) <= 1
<1>1. PICK n \in Nat : \E s \in [1..n -> EntryForms] : Lists(a, n, s)
  BY RecordsAre
<1>2. PICK s \in [1..n -> EntryForms] : Lists(a, n, s)
  BY <1>1
<1>3. PICK m \in Nat : \E t \in [1..m -> EntryForms] : Lists(b, m, t)
  BY RecordsAre
<1>4. PICK t \in [1..m -> EntryForms] : Lists(b, m, t)
  BY <1>3
<1>5. /\ n = m /\ \A j \in 1..n : Identified(s[j]) = Identified(t[j])
      /\ EffectiveLimit(a.limit) = EffectiveLimit(b.limit)
  <2> DEFINE ids(k, u) == [j \in 1..k |-> Identified(u[j])]
  <2>1. /\ run_fingerprint(a).catalog_fingerprint.records = ids(n, s)
        /\ run_fingerprint(b).catalog_fingerprint.records = ids(m, t)
        /\ run_fingerprint(a).effective_limit = EffectiveLimit(a.limit)
        /\ run_fingerprint(b).effective_limit = EffectiveLimit(b.limit)
    BY <1>2, <1>4, FingerprintIs
  <2>2. Len(ids(n, s)) = n /\ Len(ids(m, t)) = m
    OBVIOUS
  <2>3. /\ \A j \in 1..n : ids(n, s)[j] = Identified(s[j])
        /\ \A j \in 1..m : ids(m, t)[j] = Identified(t[j])
    OBVIOUS
  <2> HIDE DEF ids
  <2> QED BY <2>1, <2>2, <2>3
<1>6. PICK k \in Nat :
        /\ \A j \in 1..n : j \in 1..k <=> j - 1 < EffectiveLimit(a.limit)
        /\ k <= n /\ Plan(a).selected = [j \in 1..k |-> Record(s[j])]
  <2>1. \E k \in Nat : Selects(a, n, s, k)
    BY <1>2, SelectedAre
  <2> QED BY <2>1 DEF Selects
<1>7. PICK l \in Nat :
        /\ \A j \in 1..m : j \in 1..l <=> j - 1 < EffectiveLimit(b.limit)
        /\ l <= m /\ Plan(b).selected = [j \in 1..l |-> Record(t[j])]
  <2>1. \E l \in Nat : Selects(b, m, t, l)
    BY <1>4, SelectedAre
  <2> QED BY <2>1 DEF Selects
<1>8. /\ i \in 1..n
      /\ Plan(a).selected[i] = Record(s[i]) /\ Plan(b).selected[i] = Record(t[i])
  <2>1. i \in 1..k
    BY <1>6
  <2>2. i \in 1..n
    BY <1>6, <2>1
  <2>3. i \in 1..l
    BY <1>5, <1>6, <1>7, <2>1, <2>2
  <2> QED BY <1>6, <1>7, <2>1, <2>2, <2>3
<1> DEFINE ids == Identified(s[i])
           N   == Len(ids.observations)
           one == Readings(Record(s[i]))
           two == Readings(Record(t[i]))
           H   == [j \in 1..(N + 1) |-> IF j = 1 THEN ids.source_ref.content_hash
                                       ELSE ids.observations[j - 1].source_ref.content_hash]
<1>9. ASSUME NEW e \in EntryForms, EntryAdmitted(e), Identified(e) = ids
      PROVE  /\ N \in Nat /\ Len(Readings(Record(e))) = N + 1
             /\ Readings(Record(e))[1] \subseteq {ids.source_ref.content_hash}
             /\ \A j \in 1..N : Readings(Record(e))[j + 1]
                                \subseteq {ids.observations[j].source_ref.content_hash}
  <2>1. LET is == Identified(e)
            p  == Len(is.observations)
            rs == Readings(Record(e))
        IN  /\ p \in Nat /\ Len(rs) = p + 1
            /\ rs[1] \subseteq {is.source_ref.content_hash}
            /\ \A j \in 1..p : rs[j + 1] \subseteq {is.observations[j].source_ref.content_hash}
    BY <1>9, ReadingsAre, Zenon
  <2> QED BY <1>9, <2>1
<1>10. /\ s[i] \in EntryForms /\ EntryAdmitted(s[i])
       /\ t[i] \in EntryForms /\ EntryAdmitted(t[i]) /\ Identified(t[i]) = ids
  BY <1>2, <1>4, <1>5, <1>8 DEF Lists
<1>11. N \in Nat /\ Len(one) = N + 1 /\ Len(two) = N + 1
  BY <1>9, <1>10
<1>12. ASSUME NEW j \in 1..(N + 1)
       PROVE  \E hash : one[j] \subseteq {hash} /\ two[j] \subseteq {hash}
  <2>1. CASE j = 1
    BY <1>9, <1>10, <2>1
  <2>2. CASE j # 1
    <3>1. j - 1 \in 1..N /\ (j - 1) + 1 = j
      BY <1>11, <2>2
    <3> HIDE DEF N
    <3> QED BY <1>9, <1>10, <3>1
  <2> QED BY <2>1, <2>2
<1>13. ASSUME NEW j \in 1..(N + 1) PROVE Cardinality(one[j] \cup two[j]) <= 1
  <2> DEFINE both == one[j] \cup two[j]
  <2>1. PICK hash : both \subseteq {hash}
    BY <1>12
  <2> HIDE DEF both
  <2>2. IsFiniteSet({hash}) /\ Cardinality({hash}) = 1
    BY FS_Singleton
  <2>3. IsFiniteSet(both) /\ Cardinality(both) <= Cardinality({hash})
    BY <2>1, <2>2, FS_Subset
  <2> QED BY <2>2, <2>3 DEF both
<1> HIDE DEF N, one, two, ids
<1>14. Len(one) = Len(two) /\ \A j \in 1..Len(one) : Cardinality(one[j] \cup two[j]) <= 1
  BY <1>11, <1>13
<1> QED BY <1>8, <1>14 DEF one, two

-----------------------------------------------------------------------------
(* The theorems. *)

Admissions == \A a \in admitted : Admissible(a.request) /\ a.plan = Plan(a.request)

(* Whatever is admitted passed the checks of preflight(), and its plan is    *)
(* the plan of its request.                                                  *)
LEMMA OnlyPlansAreAdmitted == Spec => []Admissions
<1>1. Init => Admissions
  BY DEF Init, Admissions
<1>2. Admissions /\ [Next]_admitted => Admissions'
  <2> SUFFICES ASSUME Admissions, [Next]_admitted PROVE Admissions'
    OBVIOUS
  <2>1. ASSUME NEW request \in Requests, preflight(request) PROVE Admissions'
    <3>1. Admissible(request)
      BY <2>1 DEF preflight, Admissible
    <3>2. \A a \in admitted' : a \in admitted \/ a = [request |-> request, plan |-> Plan(request)]
      BY <2>1 DEF preflight
    <3> QED BY <3>1, <3>2 DEF Admissions
  <2>2. CASE UNCHANGED admitted
    BY <2>2 DEF Admissions
  <2> QED BY <2>1, <2>2 DEF Next
<1> QED BY <1>1, <1>2, PTL DEF Spec

LEMMA AdmissionsName == Admissions => FingerprintNamesWork
<1> SUFFICES ASSUME Admissions, NEW a \in admitted, NEW b \in admitted
             PROVE  /\ (a.plan.run_fingerprint = b.plan.run_fingerprint)
                          <=> (Work(a.request) = Work(b.request))
                    /\ {r.stable_key : r \in Range(a.plan.selected)} = FirstKeys(Work(a.request))
                    /\ AllDifferent([i \in 1..Len(a.plan.selected) |-> a.plan.selected[i].stable_key])
  BY DEF FingerprintNamesWork
<1>1. /\ Admissible(a.request) /\ a.plan = Plan(a.request)
      /\ Admissible(b.request) /\ b.plan = Plan(b.request)
  BY DEF Admissions
<1>2. \A request : Plan(request).run_fingerprint = run_fingerprint(request)
  BY DEF Plan
<1>3. (a.plan.run_fingerprint = b.plan.run_fingerprint) <=> (Work(a.request) = Work(b.request))
  BY <1>1, <1>2, FingerprintsAreWork
<1>4. LET selected == Plan(a.request).selected IN
      /\ {r.stable_key : r \in Range(selected)} = FirstKeys(Work(a.request))
      /\ AllDifferent([i \in 1..Len(selected) |-> selected[i].stable_key])
  BY <1>1, FirstAreSelected, Zenon
<1> QED BY <1>1, <1>3, <1>4

(* Two admitted requests are one run exactly if they ask for the same work,  *)
(* in whatever order, spelling or default they put it, and the records a     *)
(* plan selects are the first in the order of keys, each once: the run       *)
(* identity preflight() computes and run() looks up.                         *)
THEOREM RunsAreNamedByTheirWork == Spec => []FingerprintNamesWork
BY OnlyPlansAreAdmitted, AdmissionsName, PTL

LEMMA AdmissionsPinBytes == Admissions => SameRunSameBytes
<1> SUFFICES ASSUME Admissions, NEW a \in admitted, NEW b \in admitted,
                    a.plan.run_fingerprint = b.plan.run_fingerprint,
                    NEW i \in 1..Len(a.plan.selected)
             PROVE  LET one == Readings(a.plan.selected[i])
                        two == Readings(b.plan.selected[i])
                    IN  Len(one) = Len(two) /\ \A j \in 1..Len(one) : Cardinality(one[j] \cup two[j]) <= 1
  BY DEF SameRunSameBytes
<1>1. /\ Admissible(a.request) /\ a.plan = Plan(a.request)
      /\ Admissible(b.request) /\ b.plan = Plan(b.request)
  BY DEF Admissions
<1>2. run_fingerprint(a.request) = run_fingerprint(b.request)
  BY <1>1 DEF Plan
<1>3. i \in 1..Len(Plan(a.request).selected)
  BY <1>1
<1>4. LET one == Readings(Plan(a.request).selected[i])
          two == Readings(Plan(b.request).selected[i])
      IN  Len(one) = Len(two) /\ \A j \in 1..Len(one) : Cardinality(one[j] \cup two[j]) <= 1
  BY <1>1, <1>2, <1>3, SameBytes, Zenon
<1> QED BY <1>1, <1>4

(* A run resumed with other transports reads the same sources in the same    *)
(* order, and accepts of each the bytes first pinned or nothing: the expected*)
(* hash of a transport is that of its source, which the fingerprint names.   *)
THEOREM ARunKeepsItsBytes == Spec => []SameRunSameBytes
BY OnlyPlansAreAdmitted, AdmissionsPinBytes, PTL
=============================================================================
