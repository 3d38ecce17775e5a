-------------------------- MODULE MCProverExecutor --------------------------
(* Instances of ProverExecutor for TLC. *)
EXTENDS ProverExecutor, TLC

\* agglayer-prover with two CPU provers, two permits at every layer.
LimitsCpuCpu == [l \in Layers |-> 2]

\* A network primary and a CPU fallback of one permit, as in the executor's tests.
LimitsNetCpuOne == [l \in {"fallback"} |-> 1]

RequestSymmetry == Permutations(Requests)
=============================================================================
