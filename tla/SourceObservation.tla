-------------------------- MODULE SourceObservation --------------------------
(***************************************************************************)
(* One physical observation of a catalog binding: the bounded retry loop   *)
(* of its fixture transport, and what the fetched bytes come to.           *)
(*                                                                         *)
(* A status is kept as its class, and a page as what parsing and           *)
(* validating it gives: the lexical fields of an entry, or the way it      *)
(* fails.  A binding pins the hash of its bytes, here the name of its raw  *)
(* snapshot.                                                               *)
(***************************************************************************)
EXTENDS Integers, Sequences

CONSTANTS
  Lexemes,   \* lexical contents an entry may have
  Raws,      \* raw snapshots, named by their hash
  NoRaw      \* nothing was fetched

Pages    == Lexemes \cup {"unparsable", "invalid", "suspect"}
Files    == {"pinned", "altered", "missing"}
Statuses == {"success", "transient", "permanent"}

(* "single" is a transport with one status and no attempt_sequence; "inline" *)
(* one that carries its bytes instead of the path of a fixture file.         *)
Bindings == [official : BOOLEAN, inline : BOOLEAN, single : BOOLEAN, timeout : BOOLEAN,
             statuses : Seq(Statuses) \ {<<>>}, retries : Nat,
             raw : Raws, page : Pages]

NoEntry  == "none"
Outcomes == {"accepted", "retryable", "failed", "rejected", "quarantined"}

-----------------------------------------------------------------------------
(* The transport phase. *)

Retryable(class) == class \in {"transient", "timeout"}

(* The timeout flag of a transport replaces its first status.                *)
Class(b, n) == IF b.timeout /\ n = 1 THEN "timeout" ELSE b.statuses[n]

(* No more requests than the retry budget or the sequence allows.            *)
Budget(b) == IF b.single THEN 1
             ELSE IF b.retries + 1 < Len(b.statuses) THEN b.retries + 1
             ELSE Len(b.statuses)
Ends(b, n) == n = Budget(b) \/ ~Retryable(Class(b, n))

(* The request the retry loop ends with.                                     *)
Requests(b) ==
  CHOOSE n \in 1..Budget(b) : Ends(b, n) /\ \A m \in 1..(n - 1) : ~Ends(b, m)
Final(b) == Class(b, Requests(b))

(* A sequence that could have been retried further leaves the key retryable; *)
(* one that used its last retry fails it.                                    *)
Exhausted(b) == ~b.single /\ Retryable(Final(b)) /\ Len(b.statuses) > b.retries

(* The delay before a retry is jittered, and is part of the error recorded:  *)
(* it is the one thing two observations of the same transport differ in.     *)
Delays(b) == IF b.single /\ Retryable(Final(b)) THEN {1, 2} ELSE {0}

(* How the transport phase ends; "read" goes on to the fixture.  A timeout   *)
(* at the end of a sequence has status 0, which no later branch takes for a  *)
(* failure.                                                                  *)
Transport(b) ==
  CASE Exhausted(b)             -> "transport_exhausted"
    [] Final(b) = "permanent"   -> "transport_permanent"
    [] Final(b) = "transient" /\ ~Exhausted(b) -> "transport_retryable"
    [] Final(b) = "timeout" /\ b.single        -> "transport_timeout"
    [] OTHER                    -> "read"

-----------------------------------------------------------------------------
(* What the observation of a binding comes to, its fixture being in a given  *)
(* state.                                                                    *)

Result(outcome, code, raw, lexeme, delay) ==
  [outcome |-> outcome, code |-> code, raw |-> raw, lexeme |-> lexeme, delay |-> delay]
AlteredRaw == "altered"

Unfetched(b) ==
  {Result(IF Transport(b) \in {"transport_retryable", "transport_timeout"}
          THEN "retryable" ELSE "failed", Transport(b), NoRaw, NoEntry, d) : d \in Delays(b)}

Parsed(b) ==
  CASE b.page = "unparsable" -> Result("rejected", "parse_failure", b.raw, NoEntry, 0)
    [] b.page = "suspect" -> Result("quarantined", "suspect_entry", b.raw, NoEntry, 0)
    [] b.page = "invalid" ->
         Result("rejected", "deterministic_validation_failure", b.raw, NoEntry, 0)
    [] OTHER -> Result("accepted", "none", b.raw, b.page, 0)

(* The bytes are the pinned ones, and are kept whatever they hold.           *)
Fetched(result) ==
  result.code \in {"none", "parse_failure", "suspect_entry", "deterministic_validation_failure"}

Observations(b, file) ==
  IF Transport(b) # "read" THEN Unfetched(b)
  ELSE CASE file = "missing" -> {Result("rejected", "fixture_read_error", NoRaw, NoEntry, 0)}
         [] file = "altered" -> {Result("rejected", "raw_hash_mismatch", AlteredRaw, NoEntry, 0)}
         [] OTHER            -> {Parsed(b)}

(* The reason a quarantine gives for a result.                               *)
Reason(b, result) ==
  IF b.official /\ result.code \in {"transport_exhausted", "transport_permanent"}
  THEN "official_transport_failure"
  ELSE IF b.official /\ result.code \in {"parse_failure", "deterministic_validation_failure"}
  THEN "official_validation_failure"
  ELSE result.code
=============================================================================
