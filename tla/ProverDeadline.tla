--------------------------- MODULE ProverDeadline ---------------------------
(***************************************************************************)
(* ProverExecutor with time: how long a request may stay in the service.   *)
(* Time is counted in abstract ticks.  A prover's Timeout layer starts its *)
(* timer when the prover service is called and fires exactly when it is    *)
(* due; everything else a runtime can do at once, it does before the next  *)
(* tick.  There is no timer for a whole request: Prover::create_service    *)
(* builds Timeout(ConcurrencyLimit(Executor)) and then takes into_inner()  *)
(* of it, which is the ConcurrencyLimit without the Timeout.               *)
(***************************************************************************)
EXTENDS ProverExecutor

CONSTANTS
    ProvingRequestTimeout,  \* [Provers -> ticks], get_proving_request_timeout
    MaxRequestDuration      \* max_request_duration of agglayer-prover

ASSUME TimeoutsAssumption == ProvingRequestTimeout \in [Provers -> Nat]
ASSUME DurationAssumption == MaxRequestDuration \in Nat

VARIABLES
    age,     \* [Requests -> Nat]: ticks since the worker called the Executor
    spent    \* [Requests -> Nat]: ticks since the current prover was called

timedVars == <<pc, stage, answer, job, queue, hand, polling, reserved, free, age, spent>>

InExecutor(r) == pc[r] \in {"wait", "run"}

TimedInit ==
    /\ Init
    /\ age = [r \in Requests |-> 0]
    /\ spent = [r \in Requests |-> 0]

\* Calling the prover service arms the timer of its Timeout layer.
Arm(r) ==
    /\ ProverCall(r)
    /\ spent' = [spent EXCEPT ![r] = 0]
    /\ UNCHANGED age

\* Mutant: the timer fires one tick late.
DueLate(r) == pc[r] = "run" /\ spent[r] = ProvingRequestTimeout[stage[r]] + 1

\* The timer of the running prover call is due.
Due(r) == pc[r] = "run" /\ spent[r] = ProvingRequestTimeout[stage[r]]

Expire(r) ==
    /\ Due(r)
    /\ Timeout(r)
    /\ UNCHANGED <<age, spent>>

\* The steps that no timer is part of.
Untimed ==
    /\ \/ \E r \in Requests :
            \/ Receive(r) \/ Enqueue(r) \/ Resolve(r) \/ Cancel(r)
            \/ \E s \in Provers : Prove(r, s) \/ Verify(r, s)
       \/ Worker
       \/ \E l \in Limited : Reserve(l)
    /\ UNCHANGED <<age, spent>>

\* A prover call that can start, or a result that can be delivered, is not kept
\* waiting by the runtime for a whole tick.
Urgent(r) ==
    \/ pc[r] = "wait" /\ (stage[r] \in Limited => free[stage[r]] > 0)
    \/ pc[r] = "run" /\ job[stage[r]][r] \in Results

\* Bound on the clock: past every deadline, there is nothing left to observe.
Horizon == MaxRequestDuration + ProvingRequestTimeout["primary"]
             + ProvingRequestTimeout["fallback"]

Tick ==
    /\ \E r \in Requests : InExecutor(r)
    /\ \A r \in Requests : ~Due(r) /\ ~Urgent(r)
    /\ \A r \in Requests : InExecutor(r) => age[r] <= Horizon
    /\ age' = [r \in Requests |-> IF InExecutor(r) THEN age[r] + 1 ELSE age[r]]
    /\ spent' = [r \in Requests |-> IF pc[r] = "run" THEN spent[r] + 1 ELSE spent[r]]
    /\ UNCHANGED vars

TimedNext ==
    \/ \E r \in Requests : Arm(r) \/ Expire(r)
    \/ Untimed
    \/ Tick

TimedSpec == TimedInit /\ [][TimedNext]_timedVars

-----------------------------------------------------------------------------
(* Properties *)

\* With network provers only, nothing but the two prover timeouts bounds a
\* request, and they do: it leaves the Executor after at most their sum.
NetworkDuration ==
    Limited \cap Provers = {} =>
        \A r \in Requests : InExecutor(r) =>
            age[r] <= ProvingRequestTimeout["primary"]
                        + (IF HasFallback THEN ProvingRequestTimeout["fallback"] ELSE 0)

\* "The maximum duration of a request": no request stays in the service for
\* longer than max_request_duration.
WithinMaxRequestDuration ==
    \A r \in Requests : InExecutor(r) => age[r] <= MaxRequestDuration
=============================================================================
