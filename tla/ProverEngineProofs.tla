------------------------- MODULE ProverEngineProofs -------------------------
(* Proofs about ProverEngine: graceful shutdown abandons no request. *)
EXTENDS ProverEngine, TLAPS

\* The main thread has seen the RPC server's task end.
PastAwait == {"await_metrics", "shutdown_prover", "shutdown_metrics", "returned"}

\* The inductive invariant: what the main thread awaited stays true, because a
\* server that stopped accepts nothing any more.
DrainInv ==
    /\ main \in PastAwait => rpc = "stopped"
    /\ rpc = "stopped" /\ main # "failed" => \A r \in Requests : request[r] # "running"

\* Each step of the main thread, the servers and the requests keeps the types.
LEMMA TypeStep == TypeOK /\ [Next]_vars => TypeOK'
<1> SUFFICES ASSUME TypeOK, [Next]_vars PROVE TypeOK'
    OBVIOUS
<1> USE DEF TypeOK, Stages, ServerStates
<1>1. CASE UNCHANGED vars
    BY <1>1 DEF vars
<1>2. CASE MainStep
    BY <1>2 DEF MainStep, BindMetrics, BindRpc, Serve, InstallHandlers,
                AwaitProver, AwaitMetrics, ShutdownProver, ShutdownMetrics
<1>3. CASE StartFails \/ Signal \/ Killed
    BY <1>3 DEF StartFails, Signal, Killed
<1>4. CASE RpcDrains \/ RpcStops \/ MetricsStops
    BY <1>4 DEF RpcDrains, RpcStops, MetricsStops
<1>5. ASSUME NEW r \in Requests,
             Accept(r) \/ SpawnBlocking(r) \/ EndRequest(r) \/ ThreadEnds(r)
      PROVE  TypeOK'
    BY <1>5 DEF Accept, SpawnBlocking, EndRequest, ThreadEnds
<1> QED BY <1>1, <1>2, <1>3, <1>4, <1>5 DEF Next

\* Each step keeps what the main thread awaited.
LEMMA DrainStep == TypeOK /\ DrainInv /\ [Next]_vars => DrainInv'
<1> SUFFICES ASSUME TypeOK, DrainInv, [Next]_vars PROVE DrainInv'
    OBVIOUS
<1> USE DEF DrainInv, PastAwait
<1>1. CASE UNCHANGED vars
    BY <1>1 DEF vars
<1>2. CASE MainStep
  <2>1. CASE BindMetrics \/ BindRpc \/ Serve \/ InstallHandlers
    BY <2>1 DEF BindMetrics, BindRpc, Serve, InstallHandlers
  <2>2. CASE AwaitProver \/ AwaitMetrics \/ ShutdownProver \/ ShutdownMetrics
    BY <2>2 DEF AwaitProver, AwaitMetrics, ShutdownProver, ShutdownMetrics
  <2> QED BY <1>2, <2>1, <2>2 DEF MainStep
<1>3. CASE StartFails \/ Signal \/ Killed
    BY <1>3 DEF StartFails, Signal, Killed
<1>4. CASE RpcDrains \/ RpcStops \/ MetricsStops
    BY <1>4 DEF RpcDrains, RpcStops, MetricsStops
<1>5. ASSUME NEW r \in Requests,
             Accept(r) \/ SpawnBlocking(r) \/ EndRequest(r) \/ ThreadEnds(r)
      PROVE  DrainInv'
  <2>1. CASE Accept(r)
    \* A server that accepts has not stopped.
    BY <2>1 DEF Accept
  <2>2. CASE SpawnBlocking(r) \/ ThreadEnds(r)
    BY <2>2 DEF SpawnBlocking, ThreadEnds
  <2>3. CASE EndRequest(r)
    BY <2>3 DEF EndRequest, TypeOK
  <2> QED BY <1>5, <2>1, <2>2, <2>3
<1> QED BY <1>1, <1>2, <1>3, <1>4, <1>5 DEF Next

\* For any set of requests: when start has returned after a signal, no request that
\* the RPC server accepted is still running.
THEOREM ShutdownAbandonsNothing == Spec => []NoRequestAbandoned
<1>1. Init => TypeOK /\ DrainInv
    BY DEF Init, TypeOK, DrainInv, Stages, ServerStates, PastAwait
<1>2. TypeOK /\ DrainInv /\ [Next]_vars => (TypeOK /\ DrainInv)'
    BY TypeStep, DrainStep
<1>3. TypeOK /\ DrainInv => NoRequestAbandoned
    BY DEF DrainInv, PastAwait, NoRequestAbandoned
<1> QED BY <1>1, <1>2, <1>3, PTL DEF Spec
=============================================================================
