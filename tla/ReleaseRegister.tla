--------------------------- MODULE ReleaseRegister ---------------------------
(***************************************************************************)
(* What the release registry promises: a pointer that is created once and  *)
(* then moved by compare-and-swap, each operation moving it at most once   *)
(* and every move giving it a generation it never had.                     *)
(***************************************************************************)
EXTENDS Integers

CONSTANTS Versions, Ops

VARIABLES pointer,  \* version and generation; generation 0 before creation
          done      \* operations that have moved the pointer

register == <<pointer, done>>

Init == pointer = [version |-> "none", gen |-> 0] /\ done = {}

Create ==
  /\ pointer.gen = 0
  /\ \E v \in Versions : pointer' = [version |-> v, gen |-> 1]
  /\ UNCHANGED done

Move ==
  /\ pointer.gen > 0
  /\ \E op \in Ops \ done, v \in Versions :
       /\ pointer' = [version |-> v, gen |-> pointer.gen + 1]
       /\ done' = done \cup {op}

Next == Create \/ Move
Spec == Init /\ [][Next]_register
=============================================================================
