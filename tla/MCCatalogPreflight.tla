-------------------------- MODULE MCCatalogPreflight --------------------------
(* A small instance of the catalog preflight for TLC: one catalog and what a *)
(* caller may change in it.                                                  *)
EXTENDS CatalogProperties

Texts == <<"", "0.1.0", "VI", "VII", "a", "ai-proposal", "b", "c", "enrichment",
           "evaluation", "evidence", "fallback", "gov-derived", "h1", "h2",
           "official", "official-live", "official-snapshot", "rule", "sipebi",
           "url a", "url a/", "url b", "v9">>
TextRank == [t \in Range(Texts) |-> CHOOSE i \in 1..Len(Texts) : Texts[i] = t]

Key(word) == [word |-> word, spelling |-> "plain", flaw |-> "none"]
Url(text, word) ==
  [text |-> text, scheme |-> "https", host |-> "kbbi.kemdikbud.go.id", tail |-> Key(word)]
Source(text, word, kind, hash) ==
  [unknown |-> FALSE, url |-> <<Url(text, word)>>, kind |-> <<kind>>, edition |-> <<>>,
   version |-> <<>>, retrieved |-> <<"with a timezone">>, hash |-> <<hash>>, parser |-> <<>>]
Fixture(hash) ==
  [unknown |-> FALSE, adapter |-> <<"fixture">>, status |-> 200, content_type |-> <<>>,
   comparison |-> <<>>, expected |-> <<hash>>, binds |-> {"path"}, path |-> "a file",
   decodes |-> TRUE, max_retries |-> <<>>, attempt_sequence |-> <<>>]
Bound(source, hash) ==
  [unknown |-> FALSE, source |-> <<source>>, transport |-> <<Fixture(hash)>>, binds |-> {},
   path |-> "a file", role |-> <<>>, key |-> <<>>, observations |-> <<>>]
Entry(text, word, hash) ==
  [Bound(Source(text, word, "official-snapshot", hash), hash) EXCEPT !.key = <<Key(word)>>]

A == Entry("url a", "a", "h1")
B == Entry("url b", "b", "h2")

(* Transports that say other things about the same bytes, or nothing.        *)
Transports == LET f == Fixture("h1") IN
  {f, [f EXCEPT !.status = 503, !.expected = <<>>], [f EXCEPT !.expected = <<"h2">>],
   [f EXCEPT !.expected = <<>>], [f EXCEPT !.expected = <<"h1", "h1">>],
   [f EXCEPT !.status = 404, !.binds = {}, !.content_type = <<"image/png">>],
   [f EXCEPT !.binds = {}], [f EXCEPT !.binds = {"path", "content"}, !.path = "no file"],
   [f EXCEPT !.path = "no file"], [f EXCEPT !.binds = {"base64"}, !.decodes = FALSE],
   [f EXCEPT !.binds = {"bytes", "raw_bytes"}], [f EXCEPT !.path = "outside the root"],
   [f EXCEPT !.comparison = <<"sha256">>], [f EXCEPT !.comparison = <<"exact">>],
   [f EXCEPT !.max_retries = <<11>>], [f EXCEPT !.max_retries = <<2, 3>>],
   [f EXCEPT !.attempt_sequence = <<<<>>>>], [f EXCEPT !.attempt_sequence = <<<<503, 200>>>>],
   [f EXCEPT !.adapter = <<"gcs">>], [f EXCEPT !.status = 600], [f EXCEPT !.status = NotText],
   [f EXCEPT !.content_type = <<"image/png">>], [f EXCEPT !.unknown = TRUE]}

(* The same source, other sources, and references that are refused.          *)
Sources == LET s == Head(A.source) IN
  {[s EXCEPT !.edition = <<"VI">>], [s EXCEPT !.edition = <<"">>], [s EXCEPT !.edition = <<"VII">>],
   [s EXCEPT !.edition = <<"VI", "VI">>], [s EXCEPT !.version = <<NotText>>],
   [s EXCEPT !.parser = <<"0.1.0">>], [s EXCEPT !.parser = <<"v9">>],
   [s EXCEPT !.kind = <<"official-live">>], [s EXCEPT !.kind = <<"rule">>],
   [s EXCEPT !.kind = <<"web">>], [s EXCEPT !.kind = <<"">>], [s EXCEPT !.retrieved = <<"naive">>],
   [s EXCEPT !.hash = <<"h2">>], [s EXCEPT !.hash = <<"short">>], [s EXCEPT !.unknown = TRUE],
   [s EXCEPT !.url[1].text = "url a/"], [s EXCEPT !.url[1].scheme = "http"],
   [s EXCEPT !.url[1].host = "kbbi.web.id"],
   [s EXCEPT !.kind = <<"rule">>, !.url[1].host = "kbbi.web.id"],
   [s EXCEPT !.url[1].tail.word = "b"], [s EXCEPT !.url[1].tail.spelling = "wide"]}

Live     == Bound(Source("url a", "a", "official-live", "h1"), "h1")
Labelled == [Live EXCEPT !.role = <<"official">>]
Rule     == [Bound(Source("url a/", "a", "rule", "h2"), "h2") EXCEPT !.role = <<"fallback">>]
Rival    == [Rule EXCEPT !.source[1].hash = <<"h1">>, !.transport[1].expected = <<"h1">>]
Boasting == [Rule EXCEPT !.role = <<"official">>]
Observations ==
  {<<Live, Rule>>, <<Rule, Live>>, <<Rule, Labelled>>, <<Rule, Rival>>, <<Rival, Rule>>, <<Rule, Rule>>,
   <<Boasting>>, <<[Rule EXCEPT !.role = <<>>]>>, <<[Rule EXCEPT !.role = <<"witness">>]>>,
   <<[Rule EXCEPT !.role = <<"fallback", "fallback">>]>>, <<A>>, <<[Live EXCEPT !.unknown = TRUE]>>,
   <<[Rule EXCEPT !.transport[1].status = 503, !.transport[1].expected = <<>>]>>, <<Rule>>}

Entries ==
  {A} \cup {[A EXCEPT !.transport = <<t>>] : t \in Transports}
      \cup {[A EXCEPT !.source = <<s>>] : s \in Sources}
      \cup {[A EXCEPT !.observations = o] : o \in Observations}
      \cup {[A EXCEPT !.source[1].hash = <<"h2">>, !.transport[1].expected = <<"h2">>],
            [A EXCEPT !.key[1].spelling = "upper"], [A EXCEPT !.key[1].flaw = "path-like"],
            [A EXCEPT !.key = <<NotText>>], [A EXCEPT !.key = <<Key("a"), Key("a")>>],
            [A EXCEPT !.key[1].word = ""], [A EXCEPT !.transport = <<>>, !.binds = {"content"}],
            [A EXCEPT !.binds = {"content"}], [A EXCEPT !.transport = <<>>],
            [A EXCEPT !.unknown = TRUE]}

Of(entries) ==
  [unknown |-> FALSE, id |-> <<"kbbi">>, corpus |-> <<"vi">>, entries |-> <<entries>>,
   pins |-> [unknown |-> FALSE, parser |-> <<>>, transform |-> <<>>, validation |-> <<>>],
   authority |-> <<>>, comparison |-> <<>>]
Catalogs == LET c == Of(<<B, A>>) IN
  {Of(<<e>>) : e \in Entries} \cup {Of(es) : es \in {<<>>, <<A, B>>, <<A, B, A>>}} \cup
  {[c EXCEPT !.comparison = <<"sha256-exact-v1">>], [c EXCEPT !.comparison = <<"exact">>],
   [c EXCEPT !.comparison = <<"loose">>], [c EXCEPT !.authority = <<"newest-first">>],
   [c EXCEPT !.pins.parser = <<"0.1.0">>], [c EXCEPT !.pins.transform = <<"v9">>],
   [c EXCEPT !.pins.validation = <<"official-first-v1">>], [c EXCEPT !.pins.unknown = TRUE],
   [c EXCEPT !.id = <<"other">>], [c EXCEPT !.id = <<"kbbi", "kbbi">>], [c EXCEPT !.corpus = <<>>],
   [c EXCEPT !.entries = <<>>], [c EXCEPT !.unknown = TRUE]}

AnyRequest ==
  {[catalog |-> c, limit |-> <<>>] : c \in Catalogs} \cup
  {[catalog |-> Of(es), limit |-> <<n>>] : es \in {<<A, B>>, <<B, A>>}, n \in {0, 1, 2, 100, 101, NotText}}
=============================================================================
