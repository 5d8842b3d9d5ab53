------------------------------- MODULE MCPlatform -------------------------------
(* Instances of Platform for the model checker. *)
EXTENDS PlatformInvariant, TLC

WorkerSymmetry == Permutations(Worker)
WorkerInvocationSymmetry == Permutations(Worker) \cup Permutations(Invocation)
================================================================================
