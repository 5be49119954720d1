------------------------- MODULE MCCheckpointDriver -------------------------
(* Small instances of the checkpoint driver for TLC. *)
EXTENDS CheckpointProperties, TLC

CONSTANTS p

(* Every caller inside one process, as under the API server's thread pool. *)
OneProcess == [th \in Threads |-> p]

(* Every caller a process of its own, as with the command line. *)
ProcessPerThread == [th \in Threads |-> th]
Symmetry == Permutations(Threads)

(* Next to nothing is promised once an executor was overtaken: what the      *)
(* calls of then do to each other is explored, and no further call.          *)
FewCallsOvertake == overtaken => calls <= 2
=============================================================================
