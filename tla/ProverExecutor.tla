--------------------------- MODULE ProverExecutor ---------------------------
(***************************************************************************)
(* The path of a proving request through a prover process:                 *)
(*                                                                         *)
(*   gRPC handler -> Buffer -> [ConcurrencyLimit] -> Executor              *)
(*                -> primary prover -> fallback prover                     *)
(*                                                                         *)
(* as assembled by agglayer-prover (Prover::create_service, ProverRPC) and *)
(* by aggchain-proof-builder (no outer limit), around the Executor of      *)
(* prover-executor.  The tower middleware is external: its Buffer,         *)
(* ConcurrencyLimit and Timeout are modelled by what the code relies on:   *)
(*                                                                         *)
(*  - poll_ready of a ConcurrencyLimit takes a permit of the semaphore and *)
(*    keeps it in the service value until `call` moves it into the         *)
(*    response future; a clone shares the semaphore but starts without a   *)
(*    permit;                                                              *)
(*  - a Timeout starts counting at `call`, so it does not cover `ready`;   *)
(*  - the Buffer's worker holds one message while the service behind it is *)
(*    not ready, and skips the messages whose caller is gone.              *)
(*                                                                         *)
(* A "layer" is a place where a ConcurrencyLimit may stand.  Limits maps   *)
(* each layer that has one to its number of permits: the CPU and mock      *)
(* provers do (build_local_service), the network prover does not           *)
(* (build_network_service), the outer one exists in agglayer-prover only.  *)
(***************************************************************************)
EXTENDS Naturals, Sequences, FiniteSets

CONSTANTS
    Requests,       \* the requests clients may send, each at most once
    NoRequest,      \* the Buffer worker holds no message
    HasFallback,    \* Executor.fallback is Some(..)
    Limits,         \* [limited layer -> permits of its semaphore]
    BufferBound     \* the Buffer's bound (max_buffered_queries, or 100)

Provers == {"primary", "fallback"}
Layers == {"outer"} \cup Provers
Limited == DOMAIN Limits

ASSUME RequestsAssumption == IsFiniteSet(Requests) /\ NoRequest \notin Requests
ASSUME FallbackAssumption == HasFallback \in BOOLEAN
ASSUME LimitsAssumption ==
    /\ Limited \subseteq Layers
    /\ Limits \in [Limited -> Nat]
    /\ "fallback" \in Limited => HasFallback
ASSUME BufferAssumption == BufferBound \in Nat

\* Error::{ProverFailed, ProofVerificationFailed, UnableToExecuteProver}: what
\* a prover service can answer besides a proof.
ProverErrors == {"ProverFailed", "ProofVerificationFailed", "UnableToExecuteProver"}

\* A proof is told apart by what verification would say of it.
Proofs == {"valid", "invalid"}
Results == Proofs \cup ProverErrors

\* The task that proves for one request on one prover: proving, then holding
\* an unverified proof, then finished with a result.
JobStates == {"idle", "proving", "unverified_valid", "unverified_invalid"} \cup Results

\* Where the handler of a request is.
PCs == {"new", "ready", "queued", "wait", "run", "done", "cancelled"}

VARIABLES
    pc,        \* [Requests -> PCs]
    stage,     \* [Requests -> Provers]: the prover Executor::call is at
    answer,    \* [Requests -> what the client was told]
    job,       \* [Provers -> [Requests -> JobStates]]
    queue,     \* the Buffer's channel
    hand,      \* the message the Buffer's worker holds
    polling,   \* poll_ready of the stack was started and has not returned
    reserved,  \* layers whose permit is kept in the worker's service value
    free       \* [Limited -> Nat]: permits left in each semaphore

vars == <<pc, stage, answer, job, queue, hand, polling, reserved, free>>

Answers == {"none", "InvalidArgument", "Internal"} \cup Results

Init ==
    /\ pc = [r \in Requests |-> "new"]
    /\ stage = [r \in Requests |-> "primary"]
    /\ answer = [r \in Requests |-> "none"]
    /\ job = [s \in Provers |-> [r \in Requests |-> "idle"]]
    /\ queue = <<>>
    /\ hand = NoRequest
    /\ polling = FALSE
    /\ reserved = {}
    /\ free = Limits

\* The permits a request's response futures own: the outer one from the worker's
\* `call` until the Executor's future is gone, the prover's while its service
\* call is running.
Held(r) == (IF pc[r] \in {"wait", "run"} THEN {"outer"} ELSE {})
             \cup (IF pc[r] = "run" THEN {stage[r]} ELSE {})

Holders(l) == {r \in Requests : l \in Held(r)}

\* Dropping a permit returns it to its semaphore.
Released(ls) == [l \in Limited |-> IF l \in ls THEN free[l] + 1 ELSE free[l]]

Taken(l) == [k \in Limited |-> IF k = l THEN free[k] - 1 ELSE free[k]]

BufferInUse == Len(queue) + (IF hand = NoRequest THEN 0 ELSE 1)

-----------------------------------------------------------------------------
(* The gRPC handler: ProverRPC::generate_proof up to the Buffer. *)

\* A request arrives; its stdin decodes or the client gets InvalidArgument.
Receive(r) ==
    /\ pc[r] = "new"
    /\ \/ /\ pc' = [pc EXCEPT ![r] = "ready"]
          /\ UNCHANGED answer
       \/ /\ pc' = [pc EXCEPT ![r] = "done"]
          /\ answer' = [answer EXCEPT ![r] = "InvalidArgument"]
    /\ UNCHANGED <<stage, job, queue, hand, polling, reserved, free>>

\* `executor.ready()` gets a slot of the Buffer and `call` sends the message.
Enqueue(r) ==
    /\ pc[r] = "ready"
    /\ BufferInUse < BufferBound
    /\ pc' = [pc EXCEPT ![r] = "queued"]
    /\ queue' = Append(queue, r)
    /\ UNCHANGED <<stage, answer, job, hand, polling, reserved, free>>

-----------------------------------------------------------------------------
(* The Buffer's worker and the service stack behind it. *)

\* Mutant: the worker receives although it still holds a message.
WorkerTakeOver ==
    /\ queue # <<>>
    /\ queue' = Tail(queue)
    /\ IF pc[Head(queue)] = "queued"
       THEN hand' = Head(queue) /\ polling' = TRUE
       ELSE UNCHANGED <<hand, polling>>
    /\ UNCHANGED <<pc, stage, answer, job, reserved, free>>

\* The worker receives the next message whose caller still waits and starts
\* poll_ready for it; messages of cancelled callers are dropped on the way.
WorkerTake ==
    /\ hand = NoRequest
    /\ queue # <<>>
    /\ queue' = Tail(queue)
    /\ IF pc[Head(queue)] = "queued"
       THEN hand' = Head(queue) /\ polling' = TRUE
       ELSE UNCHANGED <<hand, polling>>
    /\ UNCHANGED <<pc, stage, answer, job, reserved, free>>

\* Mutant: a message in hand is kept although its caller is gone.
WorkerDropNever == FALSE

\* The caller of the message in hand is gone: the worker drops it.  An acquire
\* that was pending stays queued in its semaphore.
WorkerDrop ==
    /\ hand # NoRequest
    /\ pc[hand] = "cancelled"
    /\ hand' = NoRequest
    /\ UNCHANGED <<pc, stage, answer, job, queue, polling, reserved, free>>

\* The order in which poll_ready descends: the outer ConcurrencyLimit, then
\* Executor::poll_ready's primary, then its fallback.
Before(l) == CASE l = "outer"    -> {}
               [] l = "primary"  -> {"outer"}
               [] l = "fallback" -> {"outer", "primary"}

\* poll_ready of one limited layer gets a permit and keeps it in the service
\* value (self.primary and self.fallback of the Executor, or the outer layer).
Reserve(l) ==
    /\ polling
    /\ l \notin reserved
    /\ Before(l) \cap Limited \subseteq reserved
    /\ free[l] > 0
    /\ free' = Taken(l)
    /\ reserved' = reserved \cup {l}
    /\ polling' = (hand # NoRequest)
    /\ UNCHANGED <<pc, stage, answer, job, queue, hand>>

\* Mutant: Executor::poll_ready returns after the primary.
WorkerCallPrimaryOnly ==
    /\ hand # NoRequest
    /\ pc[hand] = "queued"
    /\ Limited \ {"fallback"} \subseteq reserved
    /\ pc' = [pc EXCEPT ![hand] = "wait"]
    /\ hand' = NoRequest
    /\ polling' = FALSE
    /\ reserved' = reserved \ {"outer"}
    /\ UNCHANGED <<stage, answer, job, queue, free>>

\* Every layer is ready: the worker calls the stack and sends the response
\* future to the handler.  The outer permit moves into that future; the permits
\* kept in self.primary and self.fallback stay where they are, because
\* Executor::call clones both services and calls the clones.
WorkerCall ==
    /\ hand # NoRequest
    /\ pc[hand] = "queued"
    /\ Limited \subseteq reserved
    /\ pc' = [pc EXCEPT ![hand] = "wait"]
    /\ hand' = NoRequest
    /\ polling' = FALSE
    /\ reserved' = reserved \ {"outer"}
    /\ UNCHANGED <<stage, answer, job, queue, free>>

-----------------------------------------------------------------------------
(* The future of Executor::call, polled by the handler. *)

\* Mutant: the prover service is called before it is ready.
ProverCallUnready(r) ==
    /\ pc[r] = "wait"
    /\ free' = Taken(stage[r])
    /\ pc' = [pc EXCEPT ![r] = "run"]
    /\ job' = [job EXCEPT ![stage[r]][r] = "proving"]
    /\ UNCHANGED <<stage, answer, queue, hand, polling, reserved>>

\* `ready().await` of the cloned prover service, then `call`: the Timeout starts
\* and the prover's task is spawned.
ProverCall(r) ==
    /\ pc[r] = "wait"
    /\ IF stage[r] \in Limited
       THEN free[stage[r]] > 0 /\ free' = Taken(stage[r])
       ELSE UNCHANGED free
    /\ pc' = [pc EXCEPT ![r] = "run"]
    /\ job' = [job EXCEPT ![stage[r]][r] = "proving"]
    /\ UNCHANGED <<stage, answer, queue, hand, polling, reserved>>

\* The handler still waits for the task of prover s.
Attached(r, s) == pc[r] = "run" /\ stage[r] = s

\* What is left of a task that finishes with x: nothing if nobody waits for it.
Finished(r, s, x) == IF Attached(r, s) THEN x ELSE "idle"

\* prover.prove(..).run(): a proof, an error, or a panic caught by sp1_blocking
\* or sp1_async.
Prove(r, s) ==
    /\ job[s][r] = "proving"
    /\ \E x \in {"unverified_valid", "unverified_invalid",
                 Finished(r, s, "ProverFailed"), Finished(r, s, "UnableToExecuteProver")} :
            job' = [job EXCEPT ![s][r] = x]
    /\ UNCHANGED <<pc, stage, answer, queue, hand, polling, reserved, free>>

\* Mutant: the proof is returned without verifying it.
VerifySkipped(r, s) ==
    /\ job[s][r] \in {"unverified_valid", "unverified_invalid"}
    /\ job' = [job EXCEPT ![s][r] = Finished(r, s,
                    IF @ = "unverified_valid" THEN "valid" ELSE "invalid")]
    /\ UNCHANGED <<pc, stage, answer, queue, hand, polling, reserved, free>>

\* prover.verify(&proof, &verification_key): only a proof that verifies becomes
\* a Response; verification may panic too.
Verify(r, s) ==
    /\ job[s][r] \in {"unverified_valid", "unverified_invalid"}
    /\ \E x \in {IF job[s][r] = "unverified_valid"
                 THEN "valid" ELSE "ProofVerificationFailed",
                 "UnableToExecuteProver"} :
            job' = [job EXCEPT ![s][r] = Finished(r, s, x)]
    /\ UNCHANGED <<pc, stage, answer, queue, hand, polling, reserved, free>>

\* The prover service call of r ended with x and its permit is dropped.  A proof
\* is the answer (unless it cannot be serialized); an error sends the request to
\* the fallback, or is the answer when there is none left.
Settle(r, x) ==
    IF x \in ProverErrors /\ stage[r] = "primary" /\ HasFallback
    THEN /\ free' = Released({stage[r]})
         /\ pc' = [pc EXCEPT ![r] = "wait"]
         /\ stage' = [stage EXCEPT ![r] = "fallback"]
         /\ UNCHANGED answer
    ELSE /\ free' = Released(Held(r))
         /\ pc' = [pc EXCEPT ![r] = "done"]
         /\ \E a \in IF x \in Proofs THEN {x, "Internal"} ELSE {x} :
                answer' = [answer EXCEPT ![r] = a]
         /\ UNCHANGED stage

\* The task's result reaches the future that awaits it.
Resolve(r) ==
    /\ pc[r] = "run"
    /\ job[stage[r]][r] \in Results
    /\ Settle(r, job[stage[r]][r])
    /\ job' = [job EXCEPT ![stage[r]][r] = "idle"]
    /\ UNCHANGED <<queue, hand, polling, reserved>>

\* What dropping the future of r's running prover call leaves of its task: a
\* task of the blocking pool (the local provers) keeps running, the network
\* prover's future is dropped with it.
Dropped(r) ==
    IF pc[r] = "run"
    THEN [job EXCEPT ![stage[r]][r] =
            IF stage[r] \in Limited /\ @ \notin Results THEN @ ELSE "idle"]
    ELSE job

\* The prover's Timeout elapses: ProverFailed("request timed out").  The task may
\* have finished at the same moment.
Timeout(r) ==
    /\ pc[r] = "run"
    /\ Settle(r, "ProverFailed")
    /\ job' = Dropped(r)
    /\ UNCHANGED <<queue, hand, polling, reserved>>

\* Mutant: dropping the handler keeps its permits.
CancelKeepingPermits(r) ==
    /\ pc[r] \in {"ready", "queued", "wait", "run"}
    /\ pc' = [pc EXCEPT ![r] = "cancelled"]
    /\ job' = Dropped(r)
    /\ UNCHANGED <<stage, answer, queue, hand, polling, reserved, free>>

\* The client goes away: tonic drops the handler and all it owns.  A message in
\* the Buffer stays there until the worker meets it.
Cancel(r) ==
    /\ pc[r] \in {"ready", "queued", "wait", "run"}
    /\ pc' = [pc EXCEPT ![r] = "cancelled"]
    /\ free' = Released(Held(r))
    /\ job' = Dropped(r)
    /\ UNCHANGED <<stage, answer, queue, hand, polling, reserved>>

-----------------------------------------------------------------------------
Worker == WorkerTake \/ WorkerDrop \/ WorkerCall

Next ==
    \/ \E r \in Requests :
          \/ Receive(r) \/ Enqueue(r) \/ ProverCall(r)
          \/ Resolve(r) \/ Timeout(r) \/ Cancel(r)
          \/ \E s \in Provers : Prove(r, s) \/ Verify(r, s)
    \/ Worker
    \/ \E l \in Limited : Reserve(l)

Spec == Init /\ [][Next]_vars

(***************************************************************************)
(* Fairness.  The runtime polls every woken task, timers fire, and the     *)
(* semaphores are first in, first out: a waiter for a slot or a permit     *)
(* that keeps becoming available gets it.  Nothing is assumed of clients   *)
(* or of the provers, which may run forever.                               *)
(***************************************************************************)
Fairness ==
    /\ WF_vars(WorkerTake) /\ WF_vars(WorkerDrop) /\ WF_vars(WorkerCall)
    /\ \A l \in Limited : SF_vars(Reserve(l))
    /\ \A r \in Requests :
          /\ SF_vars(Enqueue(r))
          /\ SF_vars(ProverCall(r))
          /\ WF_vars(Resolve(r) \/ Timeout(r))

FairSpec == Spec /\ Fairness

-----------------------------------------------------------------------------
(* Properties *)

\* The type of every variable.
TypeOK ==
    /\ pc \in [Requests -> PCs]
    /\ stage \in [Requests -> Provers]
    /\ answer \in [Requests -> Answers]
    /\ job \in [Provers -> [Requests -> JobStates]]
    /\ queue \in Seq(Requests)
    /\ hand \in Requests \cup {NoRequest}
    /\ polling \in BOOLEAN
    /\ reserved \subseteq Limited
    /\ free \in [Limited -> Nat]

\* No path through success, failure, panic, timeout, fallback or a client that
\* goes away leaks or duplicates a permit of any ConcurrencyLimit: what is free,
\* what poll_ready keeps in the service value and what response futures own add
\* up to the configured limit.
PermitsConserved ==
    \A l \in Limited :
        free[l] + (IF l \in reserved THEN 1 ELSE 0) + Cardinality(Holders(l)) = Limits[l]

\* The permit that Executor::poll_ready leaves in self.primary and self.fallback
\* is never used by Executor::call: a local prover configured with limit n never
\* proves for more than n - 1 requests at once.
OnePermitIdle ==
    \A s \in Limited \cap Provers :
        Holders(s) # {} => Cardinality(Holders(s)) < Limits[s]

Occurrences(r) == Cardinality({i \in 1..Len(queue) : queue[i] = r})
                    + (IF hand = r THEN 1 ELSE 0)

\* The Buffer neither loses nor repeats a message: a handler that waits for the
\* worker has exactly one message in the Buffer, whatever other callers did, and
\* the Buffer stays within its bound.
BufferFaithful ==
    /\ \A r \in Requests :
          /\ pc[r] = "queued" => Occurrences(r) = 1
          /\ pc[r] \notin {"queued", "cancelled"} => Occurrences(r) = 0
          /\ Occurrences(r) <= 1
    /\ BufferInUse <= BufferBound

\* The service promise of ProofService, with the outer limit as its capacity.
PhaseOf(p) ==
    CASE p = "new" -> "idle"
      [] p \in {"ready", "queued"} -> "accepted"
      [] p \in {"wait", "run"} -> "executing"
      [] p = "done" -> "answered"
      [] p = "cancelled" -> "dropped"

phaseBar == [r \in Requests |-> PhaseOf(pc[r])]

CapacityBar == IF "outer" \in Limited THEN Limits["outer"] ELSE Cardinality(Requests)

RepliesBar == {"valid", "Internal"} \cup ProverErrors

Service == INSTANCE ProofService WITH
    Capacity <- CapacityBar, Replies <- RepliesBar, phase <- phaseBar, reply <- answer

\* Whatever the Buffer, the permits, the timeouts and the two provers do, a
\* client sees the simple service: one answer at most, never a proof that does
\* not verify, and never more requests executing than the outer limit.
ImplementsService == Service!ServiceSpec

\* Every request that passed decoding is eventually answered, unless its client
\* leaves: no interleaving of the worker, the clones, timeouts and cancelled
\* callers leaves a handler waiting forever.
EveryRequestAnswered ==
    \A r \in Requests : pc[r] = "ready" ~> pc[r] \in {"done", "cancelled"}
=============================================================================
