------------------------ MODULE ProverDeadlineProofs ------------------------
(* Proofs about ProverDeadline: what the two prover timeouts bound. *)
EXTENDS ProverDeadline, ProverExecutorProofs

\* The timeouts of the two provers.
PrimaryTimeout == ProvingRequestTimeout["primary"]
FallbackTimeout == ProvingRequestTimeout["fallback"]

ClockTypes ==
    /\ TypeOK
    /\ age \in [Requests -> Nat] /\ spent \in [Requests -> Nat]

\* How long a request that waits for no permit can have been in the Executor, by
\* where it is: with network provers it never waits for a prover to be ready.
AgeOf(r) ==
    /\ stage[r] = "fallback" => HasFallback
    /\ pc[r] \in {"new", "ready", "queued"} => stage[r] = "primary" /\ age[r] = 0
    /\ pc[r] = "wait" /\ stage[r] = "primary" => age[r] = 0
    /\ pc[r] = "wait" /\ stage[r] = "fallback" => age[r] <= PrimaryTimeout
    /\ pc[r] = "run" /\ stage[r] = "primary" =>
          age[r] = spent[r] /\ spent[r] <= PrimaryTimeout
    /\ pc[r] = "run" /\ stage[r] = "fallback" =>
          age[r] <= PrimaryTimeout + spent[r] /\ spent[r] <= FallbackTimeout

AgeInv == \A r \in Requests : AgeOf(r)

\* Every step of the timed service is one of the service, or a tick.
LEMMA TimedStep == [TimedNext]_timedVars => [Next]_vars
<1> SUFFICES ASSUME [TimedNext]_timedVars PROVE [Next]_vars
    OBVIOUS
<1>1. CASE UNCHANGED timedVars
    BY <1>1 DEF timedVars, vars
<1>2. CASE Tick
    BY <1>2 DEF Tick
<1>3. CASE \E r \in Requests : Arm(r) \/ Expire(r)
    BY <1>3 DEF Arm, Expire, Next
<1>4. CASE Untimed
    BY <1>4, Zenon DEF Untimed, Next
<1> QED BY <1>1, <1>2, <1>3, <1>4 DEF TimedNext

LEMMA ClockTypesStep == ClockTypes /\ [TimedNext]_timedVars => ClockTypes'
<1> SUFFICES ASSUME ClockTypes, [TimedNext]_timedVars PROVE ClockTypes'
    OBVIOUS
<1> USE DEF ClockTypes
<1>1. TypeOK'
    BY TimedStep, TypeStep
<1>2. CASE UNCHANGED timedVars
    BY <1>1, <1>2 DEF timedVars
<1>3. ASSUME NEW r \in Requests, Arm(r) \/ Expire(r) PROVE ClockTypes'
    BY <1>1, <1>3 DEF Arm, Expire
<1>4. CASE Untimed
    BY <1>1, <1>4 DEF Untimed
<1>5. CASE Tick
    BY <1>1, <1>5 DEF Tick
<1> QED BY <1>2, <1>3, <1>4, <1>5 DEF TimedNext

\* The prover call of r ends, with a result or by its timer.
LEMMA AgeSettle ==
    ASSUME ClockTypes, AgeInv, NEW r \in Requests, NEW x, pc[r] = "run", Settle(r, x),
           UNCHANGED <<age, spent>>
    PROVE  AgeInv'
<1> SUFFICES ASSUME NEW q \in Requests PROVE AgeOf(q)'
    BY DEF AgeInv
<1>0. /\ pc \in [Requests -> PCs] /\ stage \in [Requests -> Provers]
      /\ age \in [Requests -> Nat] /\ spent \in [Requests -> Nat] /\ AgeOf(q)
      /\ PrimaryTimeout \in Nat /\ FallbackTimeout \in Nat
    BY TimeoutsAssumption DEF ClockTypes, TypeOK, AgeInv, PrimaryTimeout, FallbackTimeout, Provers
<1>1. CASE x \in ProverErrors /\ stage[r] = "primary" /\ HasFallback
    <2>1. pc' = [pc EXCEPT ![r] = "wait"] /\ stage' = [stage EXCEPT ![r] = "fallback"]
        BY <1>1 DEF Settle
    <2> QED BY <1>0, <1>1, <2>1 DEF AgeOf, PrimaryTimeout, FallbackTimeout
<1>2. CASE ~(x \in ProverErrors /\ stage[r] = "primary" /\ HasFallback)
    <2>1. pc' = [pc EXCEPT ![r] = "done"] /\ stage' = stage
        BY <1>2, FallbackAssumption DEF Settle
    <2> QED BY <1>0, <2>1 DEF AgeOf, PrimaryTimeout, FallbackTimeout
<1> QED BY <1>1, <1>2

\* Each step keeps the account of the time.
LEMMA AgeStep ==
    ASSUME Limited \cap Provers = {}, ClockTypes, AgeInv, [TimedNext]_timedVars
    PROVE  AgeInv'
<1>0. /\ pc \in [Requests -> PCs] /\ stage \in [Requests -> Provers]
      /\ age \in [Requests -> Nat] /\ spent \in [Requests -> Nat]
      /\ hand \in Requests \cup {NoRequest} /\ NoRequest \notin Requests
      /\ PrimaryTimeout \in Nat /\ FallbackTimeout \in Nat
      /\ \A r \in Requests : AgeOf(r)
    BY TimeoutsAssumption, RequestsAssumption
       DEF ClockTypes, TypeOK, AgeInv, PrimaryTimeout, FallbackTimeout, Provers
<1> SUFFICES ASSUME NEW q \in Requests PROVE AgeOf(q)'
    BY DEF AgeInv
<1>1. ASSUME UNCHANGED <<pc, stage, age, spent>> PROVE AgeOf(q)'
    BY <1>0, <1>1 DEF AgeOf, PrimaryTimeout, FallbackTimeout
\* Calling the prover starts its timer; the request did not age while it waited.
<1>2. ASSUME NEW r \in Requests, Arm(r) PROVE AgeOf(q)'
    <2>1. /\ pc[r] = "wait" /\ pc' = [pc EXCEPT ![r] = "run"]
          /\ spent' = [spent EXCEPT ![r] = 0] /\ UNCHANGED <<age, stage>>
        BY <1>2 DEF Arm, ProverCall
    <2> QED BY <1>0, <2>1 DEF AgeOf, PrimaryTimeout, FallbackTimeout, Provers
<1>3. ASSUME NEW r \in Requests, Expire(r) PROVE AgeOf(q)'
    BY <1>3, AgeSettle DEF Expire, Timeout, AgeInv
<1>4. CASE Untimed
    <2>1. UNCHANGED <<age, spent>>
        BY <1>4 DEF Untimed
    \* A handler enters the service, leaves it, or is called by the worker.
    <2>2. ASSUME NEW r \in Requests, NEW p, pc' = [pc EXCEPT ![r] = p], stage' = stage,
                 \/ pc[r] \in {"new", "ready", "queued"} /\ p \in {"ready", "queued", "wait"}
                 \/ p \in {"done", "cancelled"}
          PROVE  AgeOf(q)'
        BY <1>0, <2>1, <2>2 DEF AgeOf, PrimaryTimeout, FallbackTimeout
    <2>3. ASSUME NEW r \in Requests, Receive(r) \/ Enqueue(r) \/ Cancel(r) PROVE AgeOf(q)'
        BY <2>2, <2>3 DEF Receive, Enqueue, Cancel
    <2>4. ASSUME NEW r \in Requests, Resolve(r) PROVE AgeOf(q)'
        BY <2>1, <2>4, AgeSettle DEF Resolve, AgeInv
    <2>5. ASSUME NEW r \in Requests, NEW s \in Provers, Prove(r, s) \/ Verify(r, s)
          PROVE  AgeOf(q)'
        BY <1>1, <2>1, <2>5 DEF Prove, Verify
    <2>6. CASE WorkerCall
        BY <1>0, <2>2, <2>6 DEF WorkerCall
    <2>7. CASE WorkerTake \/ WorkerDrop \/ \E l \in Limited : Reserve(l)
        BY <1>1, <2>1, <2>7 DEF WorkerTake, WorkerDrop, Reserve
    <2> QED BY <1>4, <2>3, <2>4, <2>5, <2>6, <2>7 DEF Untimed, Worker
\* Time passes only for requests whose prover runs and whose timer is not due.
<1>5. CASE Tick
    <2>1. /\ UNCHANGED <<pc, stage>>
          /\ age' = [r \in Requests |-> IF InExecutor(r) THEN age[r] + 1 ELSE age[r]]
          /\ spent' = [r \in Requests |-> IF pc[r] = "run" THEN spent[r] + 1 ELSE spent[r]]
          /\ ~Due(q) /\ ~Urgent(q)
        BY <1>5 DEF Tick, vars
    <2>2. pc[q] # "wait"
        BY <1>0, <2>1 DEF Urgent
    <2>3. pc[q] = "run" => spent[q] # ProvingRequestTimeout[stage[q]]
        BY <2>1 DEF Due
    <2>4. CASE pc[q] = "run"
        <3>1. age'[q] = age[q] + 1 /\ spent'[q] = spent[q] + 1
            BY <1>0, <2>1, <2>4 DEF InExecutor
        <3> QED BY <1>0, <2>1, <2>3, <2>4, <3>1
                DEF AgeOf, PrimaryTimeout, FallbackTimeout, Provers
    <2>5. CASE pc[q] # "run"
        <3>1. age'[q] = age[q] /\ spent'[q] = spent[q]
            BY <1>0, <2>1, <2>2, <2>5 DEF InExecutor
        <3> QED BY <1>0, <2>1, <3>1 DEF AgeOf, PrimaryTimeout, FallbackTimeout
    <2> QED BY <2>4, <2>5
<1>6. CASE UNCHANGED timedVars
    BY <1>1, <1>6 DEF timedVars
<1> QED BY <1>2, <1>3, <1>4, <1>5, <1>6 DEF TimedNext

\* For any timeouts, requests and Buffer: with network provers only, a request leaves
\* the Executor after at most the timeouts of the provers it has, whatever the provers,
\* the clients and the other requests do (the Timeout layers of build_network_service).
THEOREM NetworkDurationCorrect == TimedSpec => []NetworkDuration
<1>1. CASE Limited \cap Provers = {}
    <2>1. TimedInit => ClockTypes /\ AgeInv
        <3> SUFFICES ASSUME TimedInit PROVE ClockTypes /\ AgeInv
            OBVIOUS
        <3>1. TypeOK
            BY TypeInit DEF TimedInit
        <3> QED BY <3>1 DEF TimedInit, Init, ClockTypes, AgeInv, AgeOf
    <2>2. ClockTypes /\ AgeInv /\ [TimedNext]_timedVars => (ClockTypes /\ AgeInv)'
        BY <1>1, ClockTypesStep, AgeStep
    <2>3. ClockTypes /\ AgeInv => NetworkDuration
        <3> SUFFICES ASSUME ClockTypes, AgeInv, NEW r \in Requests, InExecutor(r)
                     PROVE  age[r] <= PrimaryTimeout
                                + (IF HasFallback THEN FallbackTimeout ELSE 0)
            BY DEF NetworkDuration, PrimaryTimeout, FallbackTimeout
        <3>1. /\ stage[r] \in Provers /\ age[r] \in Nat /\ spent[r] \in Nat /\ AgeOf(r)
              /\ PrimaryTimeout \in Nat /\ FallbackTimeout \in Nat
            BY TimeoutsAssumption
               DEF ClockTypes, TypeOK, AgeInv, PrimaryTimeout, FallbackTimeout, Provers
        <3> QED BY <3>1 DEF AgeOf, InExecutor, Provers
    <2> QED BY <2>1, <2>2, <2>3, PTL DEF TimedSpec
<1>2. CASE ~(Limited \cap Provers = {})
    <2>1. NetworkDuration
        BY <1>2 DEF NetworkDuration
    <2> QED BY <2>1, PTL
<1> QED BY <1>1, <1>2
=============================================================================
