--------------------------- MODULE MCReviewPipeline ---------------------------
(* Small instances of the review pipeline for TLC. *)
EXTENDS PipelineProperties, TLC

CONSTANTS p, v1, e1

Pages2 == [x |-> "red", y |-> "blue", z |-> "red", u |-> "unparsable"]

Source(official, statuses, raw) ==
  [official |-> official, inline |-> TRUE, single |-> FALSE, timeout |-> FALSE, statuses |-> statuses,
   retries |-> 1, raw |-> raw, page |-> Pages2[raw]]
Official(raw) == Source(TRUE, <<"success">>, raw)
Evidence(raw) == Source(FALSE, <<"success">>, raw)
OnDisk(b) == [b EXCEPT !.inline = FALSE]
Single(b, status) == [b EXCEPT !.single = TRUE, !.statuses = <<status>>]

(* The first key has two officials and evidence that agrees with one only, a *)
(* transport that gives up, or one to be retried; the second is plain.       *)
Conflicted == <<OnDisk(Official("x")), Official("y"), Evidence("z")>>
Twins      == <<OnDisk(Official("x")), Official("z")>>
Contested  == <<Official("x"), OnDisk(Evidence("y"))>>
Exhausting == <<Source(TRUE, <<"transient", "transient">>, "x"), Evidence("y")>>
Waiting    == <<Single(Official("x"), "transient"), Evidence("y")>>
Recovering == <<Source(TRUE, <<"transient", "success">>, "x")>>
Gone       == <<Single(Official("x"), "permanent"), Official("u")>>
BothGone   == <<Single(Official("x"), "permanent"), Single(Official("y"), "permanent")>>
TimingOut  == <<[Official("x") EXCEPT !.timeout = TRUE], Evidence("z")>>

Of(first, second) == [k \in Keys |-> IF k = "k1" THEN first ELSE second]
Plain == <<Official("x")>>

Disputed == Of(Contested, Plain)
AllCatalogs == {Of(first, Plain) : first \in {Conflicted, Contested, Twins, Exhausting, Waiting,
                                              Recovering, Gone, BothGone, TimingOut}}

TwoRuns == [r \in Runs |-> IF r = "r1" THEN <<"k1", "k2">> ELSE <<"k1">>]
OneProcess == [e \in Evaluators |-> p]

Within(made, f, c, d, n) ==
  [runs |-> made, faults |-> f, changes |-> c, decisions |-> d, evaluations |-> n]
(* Two runs under failures; for one catalog, one run and its evaluations.    *)
Either == [c \in Catalogs |-> IF c = Disputed THEN Within({"r1"}, 1, 1, 1, 2)
                              ELSE Within(Runs, 1, 1, 2, 0)]
Calm   == [c \in Catalogs |-> Within(Runs, 0, 0, 2, 0)]
=============================================================================
