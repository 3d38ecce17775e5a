-------------------------- MODULE MCProverDeadline --------------------------
(* Instances of ProverDeadline for TLC. *)
EXTENDS ProverDeadline

\* Network provers behind an outer limit of one request.
LimitsNetwork == [l \in {"outer"} |-> 1]

\* Two and three ticks: the two timers differ.
TimeoutsShort == [primary |-> 2, fallback |-> 3]

\* The default configuration, scaled: the proving request timeout of either
\* prover is the request's maximum duration plus the one-second padding.
TimeoutsDefault == [primary |-> 3, fallback |-> 3]
=============================================================================
