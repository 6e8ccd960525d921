-------------------------- MODULE MCExecutionEngine --------------------------
(* Model-checking instances of ExecutionEngine. *)
EXTENDS ExecutionEngine, TLC

(* Requests are interchangeable until one carries a transaction. *)
ReqSymmetry == Permutations(Reqs)
=============================================================================
