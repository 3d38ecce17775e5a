---------------------------- MODULE ProofService ----------------------------
(***************************************************************************)
(* What the proving service promises a client, without buffers, permits,   *)
(* timeouts or provers: a request is accepted or rejected, executed at     *)
(* most once at a time within the service's capacity, and answered at most *)
(* once; the answer never carries a proof that does not verify; a client   *)
(* that goes away gets nothing.  ProverExecutor implements it.             *)
(***************************************************************************)
EXTENDS Naturals, FiniteSets

CONSTANTS
    Requests,
    Capacity,     \* how many requests may execute at once
    Replies       \* what an executed request may be answered

VARIABLES phase, reply

svars == <<phase, reply>>

Phases == {"idle", "accepted", "executing", "answered", "dropped"}

ServiceInit ==
    /\ phase = [r \in Requests |-> "idle"]
    /\ reply = [r \in Requests |-> "none"]

Accept(r) ==
    /\ phase[r] = "idle"
    /\ phase' = [phase EXCEPT ![r] = "accepted"]
    /\ UNCHANGED reply

Reject(r) ==
    /\ phase[r] = "idle"
    /\ phase' = [phase EXCEPT ![r] = "answered"]
    /\ reply' = [reply EXCEPT ![r] = "InvalidArgument"]

Executing == {r \in Requests : phase[r] = "executing"}

Start(r) ==
    /\ phase[r] = "accepted"
    /\ Cardinality(Executing) < Capacity
    /\ phase' = [phase EXCEPT ![r] = "executing"]
    /\ UNCHANGED reply

Reply(r) ==
    /\ phase[r] = "executing"
    /\ phase' = [phase EXCEPT ![r] = "answered"]
    /\ \E a \in Replies : reply' = [reply EXCEPT ![r] = a]

Drop(r) ==
    /\ phase[r] \in {"accepted", "executing"}
    /\ phase' = [phase EXCEPT ![r] = "dropped"]
    /\ UNCHANGED reply

ServiceNext == \E r \in Requests :
    Accept(r) \/ Reject(r) \/ Start(r) \/ Reply(r) \/ Drop(r)

ServiceSpec == ServiceInit /\ [][ServiceNext]_svars
=============================================================================
