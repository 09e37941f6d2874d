------------------------- MODULE MCWorkerSupervisor -------------------------
(* Small instances of WorkerSupervisor. *)
EXTENDS WorkerSupervisor, TLC

CONSTANTS w1, w2

\* w1 supervises w2
PairTree == [w \in {w1, w2} |-> IF w = w1 THEN Root ELSE w1]

ToolSymmetry == Permutations(Tools)
=============================================================================
