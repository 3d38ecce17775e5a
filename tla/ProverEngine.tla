---------------------------- MODULE ProverEngine ----------------------------
(***************************************************************************)
(* ProverEngine::start: the life of a prover process, from binding its two *)
(* servers to graceful shutdown on SIGTERM or SIGINT.  The main thread     *)
(* runs start; the RPC and metrics servers are tasks of two runtimes that  *)
(* share a cancellation token with it.                                     *)
(*                                                                         *)
(* External: axum's graceful shutdown (stop accepting, let the running     *)
(* requests end, stop), tokio's Runtime::shutdown_timeout, signals.  What  *)
(* a request does is ProverExecutor's or AggchainProofFlow's; here it runs *)
(* until it ends, and may leave a blocking proof on a thread behind, as    *)
(* sp1_blocking does for a client that left or a proof that timed out.     *)
(***************************************************************************)
EXTENDS Naturals

CONSTANT Requests

VARIABLES
    main,       \* where the main thread is in start
    token,      \* whether cancellation_token is cancelled
    rpc,        \* the RPC server task
    metrics,    \* the metrics server task
    request,    \* of each request, whether it is "new", "running" or "ended"
    threads     \* the requests with a proof running on a blocking thread

vars == <<main, token, rpc, metrics, request, threads>>

Stages == {"bind_metrics", "bind_rpc", "serve", "install", "select", "await_prover",
           "await_metrics", "shutdown_prover", "shutdown_metrics",
           "returned", "failed", "killed"}
ServerStates == {"none", "serving", "draining", "stopped"}

\* The type of every variable.
TypeOK ==
    /\ main \in Stages
    /\ token \in BOOLEAN
    /\ rpc \in ServerStates /\ metrics \in ServerStates
    /\ request \in [Requests -> {"new", "running", "ended"}]
    /\ threads \in SUBSET Requests

Init ==
    /\ main = "bind_metrics"
    /\ token = FALSE
    /\ rpc = "none" /\ metrics = "none"
    /\ request = [r \in Requests |-> "new"]
    /\ threads = {}

Exited == main \in {"returned", "failed", "killed"}

-----------------------------------------------------------------------------
(* The main thread. *)

\* `?` returns early, the last time on building the runtime of the select: the
\* runtimes are dropped with their tasks, and the drop guard cancels the token.
StartFails ==
    /\ main \in {"bind_metrics", "bind_rpc", "serve", "install"}
    /\ main' = "failed"
    /\ token' = TRUE
    /\ rpc' = "stopped" /\ metrics' = "stopped"
    /\ UNCHANGED <<request, threads>>

BindMetrics ==
    /\ main = "bind_metrics"
    /\ main' = "bind_rpc"
    /\ metrics' = "serving"
    /\ UNCHANGED <<token, rpc, request, threads>>

BindRpc ==
    /\ main = "bind_rpc"
    /\ main' = "serve"
    /\ UNCHANGED <<token, rpc, metrics, request, threads>>

\* Reflection and health are added and the RPC server is spawned.
Serve ==
    /\ main = "serve"
    /\ main' = "install"
    /\ rpc' = "serving"
    /\ UNCHANGED <<token, metrics, request, threads>>

\* The select is polled for the first time, which installs the signal handlers.
InstallHandlers ==
    /\ main = "install"
    /\ main' = "select"
    /\ UNCHANGED <<token, rpc, metrics, request, threads>>

\* SIGTERM or SIGINT: both branches cancel the token and wait for the servers.
Signal ==
    /\ main = "select"
    /\ main' = "await_prover"
    /\ token' = TRUE
    /\ UNCHANGED <<rpc, metrics, request, threads>>

\* The same signals end the process before the handlers are installed.
Killed ==
    /\ main \in {"bind_metrics", "bind_rpc", "serve", "install"}
    /\ main' = "killed"
    /\ UNCHANGED <<token, rpc, metrics, request, threads>>

\* Mutant: the handle of the RPC server is not awaited.
AwaitProverSkipped ==
    /\ main = "await_prover"
    /\ main' = "await_metrics"
    /\ UNCHANGED <<token, rpc, metrics, request, threads>>

AwaitProver ==
    /\ main = "await_prover"
    /\ rpc = "stopped"
    /\ main' = "await_metrics"
    /\ UNCHANGED <<token, rpc, metrics, request, threads>>

AwaitMetrics ==
    /\ main = "await_metrics"
    /\ metrics = "stopped"
    /\ main' = "shutdown_prover"
    /\ UNCHANGED <<token, rpc, metrics, request, threads>>

\* Mutant: the runtime is dropped, which waits for its blocking threads.
ShutdownProverDropped ==
    /\ main = "shutdown_prover"
    /\ threads = {}
    /\ main' = "shutdown_metrics"
    /\ UNCHANGED <<token, rpc, metrics, request, threads>>

\* shutdown_timeout: the blocking threads end or the time is over.
ShutdownProver ==
    /\ main = "shutdown_prover"
    /\ main' = "shutdown_metrics"
    /\ UNCHANGED <<token, rpc, metrics, request, threads>>

\* start returns, and the process ends with the threads that are left.
ShutdownMetrics ==
    /\ main = "shutdown_metrics"
    /\ main' = "returned"
    /\ threads' = {}
    /\ UNCHANGED <<token, rpc, metrics, request>>

-----------------------------------------------------------------------------
(* The servers and the requests. *)

Accept(r) ==
    /\ ~Exited
    /\ rpc = "serving"
    /\ request[r] = "new"
    /\ request' = [request EXCEPT ![r] = "running"]
    /\ UNCHANGED <<main, token, rpc, metrics, threads>>

\* sp1_blocking starts a proof on a blocking thread.
SpawnBlocking(r) ==
    /\ ~Exited
    /\ request[r] = "running"
    /\ r \notin threads
    /\ threads' = threads \cup {r}
    /\ UNCHANGED <<main, token, rpc, metrics, request>>

\* The request is answered or its client left; its thread goes on.
EndRequest(r) ==
    /\ ~Exited
    /\ request[r] = "running"
    /\ request' = [request EXCEPT ![r] = "ended"]
    /\ UNCHANGED <<main, token, rpc, metrics, threads>>

ThreadEnds(r) ==
    /\ ~Exited
    /\ r \in threads
    /\ threads' = threads \ {r}
    /\ UNCHANGED <<main, token, rpc, metrics, request>>

\* The server task sees the cancelled token and stops accepting.
RpcDrains ==
    /\ ~Exited
    /\ token /\ rpc = "serving"
    /\ rpc' = "draining"
    /\ UNCHANGED <<main, token, metrics, request, threads>>

\* The server task ends with the last of its requests.
RpcStops ==
    /\ ~Exited
    /\ rpc = "draining"
    /\ \A r \in Requests : request[r] # "running"
    /\ rpc' = "stopped"
    /\ UNCHANGED <<main, token, metrics, request, threads>>

MetricsStops ==
    /\ ~Exited
    /\ token /\ metrics = "serving"
    /\ metrics' = "stopped"
    /\ UNCHANGED <<main, token, rpc, request, threads>>

MainStep ==
    \/ BindMetrics \/ BindRpc \/ Serve \/ InstallHandlers
    \/ AwaitProver \/ AwaitMetrics \/ ShutdownProver \/ ShutdownMetrics

Next ==
    \/ MainStep \/ StartFails \/ Signal \/ Killed
    \/ RpcDrains \/ RpcStops \/ MetricsStops
    \/ \E r \in Requests : Accept(r) \/ SpawnBlocking(r) \/ EndRequest(r) \/ ThreadEnds(r)

\* The main thread and the servers go on when they can, and every running request
\* ends (EveryRequestAnswered of ProverExecutor).  Blocking threads may run forever.
Fairness ==
    /\ WF_vars(MainStep)
    /\ WF_vars(RpcDrains) /\ WF_vars(RpcStops) /\ WF_vars(MetricsStops)
    /\ \A r \in Requests : WF_vars(EndRequest(r))

Spec == Init /\ [][Next]_vars

FairSpec == Spec /\ Fairness

-----------------------------------------------------------------------------
(* Properties *)

\* Graceful shutdown abandons no request: when start has returned after a signal,
\* every request that the RPC server ever accepted has ended, although it went on
\* accepting until its task saw the token.
NoRequestAbandoned ==
    main = "returned" => \A r \in Requests : request[r] # "running"

\* A signal that the select receives ends the process, even when a proof on a
\* blocking thread never ends: runtime_shutdown_timeout bounds the wait for it.
ShutdownCompletes == main = "await_prover" ~> main = "returned"
=============================================================================
