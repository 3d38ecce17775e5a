----------------------------- MODULE AggkitProver -----------------------------
(***************************************************************************)
(* An aggkit-prover process: its start-up, the two Buffers that a request  *)
(* goes through, the calls that it makes on the way, and the settings of   *)
(* L1 that it depends on, while ProverEngine starts and stops it.          *)
(*                                                                         *)
(*   handler -> Buffer -> AggchainProofService                             *)
(*     -> [ProposerService: L1 block, proposer, proof of the range]        *)
(*     -> AggchainProofBuilder: chain data -> Buffer -> Executor           *)
(*                                                                         *)
(* The trusted sequencer and the name of the op-succinct configuration are *)
(* read once, at start-up; what the configuration says is read for every   *)
(* request.  Governance on L1 may change all of them at any moment.        *)
(*                                                                         *)
(* What a proof says about the L2 chain is AggchainProofFlow's; here it is *)
(* the part of its public values that comes from the settings.  A Buffer   *)
(* is as in ProverExecutor: its worker holds the head of its queue until   *)
(* the service behind is ready, and the head keeps its slot until then.    *)
(*                                                                         *)
(* External: L1, the RPC nodes, the proposer, the prover network, clients. *)
(***************************************************************************)
EXTENDS Naturals, Sequences

CONSTANTS
    Requests,
    Sequencers, ConfigNames, RollupConfigs,
    InitialSettings,        \* of L1, when the process starts
    LaterSettings,          \* the settings that L1 may change to
    OuterBound, InnerBound, \* MAX_CONCURRENT_REQUESTS of the two Buffers
    MaxRetries,             \* DEFAULT_HTTP_RPC_NODE_BACKOFF_MAX_RETRIES
    MaxUpdates              \* bound on the changes of the settings on L1

\* The keys of the embedded programs: VKEY_HASH and VKEY_COMMITMENT.
ElfKeys == "elf"

\* OpSuccinctConfig, with its two keys as one.
Configs == [keys : {ElfKeys, "other"}, rollup_config_hash : RollupConfigs]

Settings == [trustedSequencer : Sequencers, selectedOpSuccinctConfigName : ConfigNames,
             opSuccinctConfigs : [ConfigNames -> Configs], updates : Nat]

ASSUME AggkitAssumption ==
    /\ InitialSettings \in Settings /\ InitialSettings.updates = 0
    /\ LaterSettings \subseteq Settings
    /\ OuterBound \in Nat /\ InnerBound \in Nat
    /\ MaxRetries \in Nat /\ MaxUpdates \in Nat

VARIABLES
    main, token, rpc, metrics, request, threads,    \* of ProverEngine
    l1,         \* the settings of AggchainFEP, and how often they changed
    boot,       \* the steps of start-up still to do, and the retries of the first
    client,     \* what AggchainContractsRpcClient keeps
    stage,      \* where the handling of each request is
    mode,       \* of each request that runs: normal or optimistic
    tries,      \* retries of the RPC read that each request is at
    queue,      \* the Buffer of GrpcService
    reserved,   \* a slot of the inner Buffer is kept in the builder's prover
    inner,      \* the Buffer of AggchainProofBuilder
    witness,    \* of each request: the settings that its proof is made for
    seen        \* history: the configurations that L1 had during the request

Engine == INSTANCE ProverEngine

engine == <<main, token, rpc, metrics, request, threads>>
own == <<l1, boot, client, stage, mode, tries, queue, reserved, inner, witness, seen>>
vars == <<main, token, rpc, metrics, request, threads,
          l1, boot, client, stage, mode, tries, queue, reserved, inner, witness, seen>>

Live == ~Engine!Exited

\* AggregationProofPublicValues, the part that comes from the settings.
PublicValues == [rollup_config_hash : RollupConfigs, prover_address : Sequencers]

NoWitness == [status |-> "none"]

\* In place of public values: a signature in the witness that nobody has checked yet.
Unread == [rollup_config_hash |-> "unread", prover_address |-> "unread"]

(* What each constructor of start-up waits for, in order: any of these can fail. *)

try_load == <<"try_load">>
parse_evm_sketch_genesis == <<"parse_evm_sketch_genesis">>
AggchainContractsRpcClient_new == <<"bridgeAddress", "rollupIDToRollupData", "trustedSequencer",
    "selectedOpSuccinctConfigName">> \o parse_evm_sketch_genesis
ErigonContractsClient_new == <<"bridgeAddress">> \o parse_evm_sketch_genesis
ProposerRpcClient_new == <<"connect">>
ProposerService_new == ProposerRpcClient_new \o <<"compute_pkey_vkey">>
new_network_prover == <<"new_network_prover">>
new_network == new_network_prover \o ProposerService_new
new_mock == ProposerRpcClient_new \o ProposerService_new
vkey == <<"vkey">>
AggchainProofBuilder_new == <<"Executor">> \o vkey \o <<"opSuccinctConfigs">>

\* proposer is new_network or new_mock, as the configuration says.
AggchainProofService_new(proposer) ==
    AggchainContractsRpcClient_new \o ErigonContractsClient_new
        \o proposer \o AggchainProofBuilder_new

runtime(proposer) == try_load \o AggchainProofService_new(proposer)

Init ==
    /\ Engine!Init
    /\ l1 = InitialSettings
    /\ boot \in [steps : {runtime(new_network), runtime(new_mock)}, tries : {0}]
    /\ client = [trusted_sequencer |-> "none", op_succinct_config_name |-> "none", since |-> 0]
    /\ stage = [r \in Requests |-> "new"]
    /\ mode = [r \in Requests |-> "normal"]
    /\ tries = [r \in Requests |-> 0]
    /\ queue = <<>> /\ reserved = FALSE /\ inner = <<>>
    /\ witness = [r \in Requests |-> NoWitness]
    /\ seen = [r \in Requests |-> {}]

-----------------------------------------------------------------------------
(* L1, external: the governance of AggchainFEP. *)

Govern(new) ==
    /\ Live
    /\ l1.updates < MaxUpdates
    /\ new # l1 /\ [new EXCEPT !.updates = 0] \in LaterSettings
    /\ l1' = [new EXCEPT !.updates = l1.updates + 1]
    /\ seen' = [r \in Requests |->
                  IF request[r] = "running"
                  THEN seen[r] \cup {new.opSuccinctConfigs[client.op_succinct_config_name]}
                  ELSE seen[r]]
    /\ UNCHANGED <<engine, boot, client, stage, mode, tries, queue, reserved, inner, witness>>

SetTrustedSequencer(s) == Govern([l1 EXCEPT !.trustedSequencer = s])
SelectOpSuccinctConfig(n) == Govern([l1 EXCEPT !.selectedOpSuccinctConfigName = n])
SetOpSuccinctConfig(n, c) == Govern([l1 EXCEPT !.opSuccinctConfigs[n] = c])

-----------------------------------------------------------------------------
(* Start-up: runtime, up to ProverEngine::start. *)

\* The steps that read a contract through an alloy provider with RetryBackoffLayer.
AlloyReads == {"bridgeAddress", "rollupIDToRollupData", "trustedSequencer",
               "selectedOpSuccinctConfigName", "opSuccinctConfigs"}

\* The read of the configuration that the client uses, from L1 as it is now.
get_op_succinct_config == l1.opSuccinctConfigs[client.op_succinct_config_name]

\* Mutant: the keys are taken for granted.
validate_op_succinct_config_keys_never(config) == TRUE

\* The keys on L1 have to be the ones of the embedded programs.
validate_op_succinct_config_keys(config) == config.keys = ElfKeys

\* Mutant: the name is the first one there is, not the selected one.
StepResultDefaultName(step) ==
    CASE step = "trustedSequencer" ->
            [client EXCEPT !.trusted_sequencer = l1.trustedSequencer, !.since = l1.updates]
      [] step = "selectedOpSuccinctConfigName" ->
            [client EXCEPT !.op_succinct_config_name = CHOOSE n \in ConfigNames : TRUE]
      [] OTHER -> client

\* What the client keeps of a step.  (`since` is history.)
StepResult(step) ==
    CASE step = "trustedSequencer" ->
            [client EXCEPT !.trusted_sequencer = l1.trustedSequencer, !.since = l1.updates]
      [] step = "selectedOpSuccinctConfigName" ->
            [client EXCEPT !.op_succinct_config_name = l1.selectedOpSuccinctConfigName]
      [] OTHER -> client

\* The next step succeeds.  The last one is AggchainProofBuilder::new's check of
\* the keys, after which runtime calls ProverEngine::start.
StartUp ==
    /\ main = "bind_metrics" /\ boot.steps # <<>>
    /\ Head(boot.steps) = "opSuccinctConfigs" =>
            validate_op_succinct_config_keys(get_op_succinct_config)
    /\ client' = StepResult(Head(boot.steps))
    /\ boot' = [steps |-> Tail(boot.steps), tries |-> 0]
    /\ UNCHANGED <<engine, l1, stage, mode, tries, queue, reserved, inner, witness, seen>>

StartUpRetry ==
    /\ main = "bind_metrics" /\ boot.steps # <<>>
    /\ Head(boot.steps) \in AlloyReads
    /\ boot.tries < MaxRetries
    /\ boot' = [boot EXCEPT !.tries = @ + 1]
    /\ UNCHANGED <<engine, l1, client, stage, mode, tries, queue, reserved, inner, witness, seen>>

\* A step fails, or the keys are not the ones expected: the process ends.
StartUpFails ==
    /\ boot.steps # <<>>
    /\ Engine!StartFails
    /\ UNCHANGED own

-----------------------------------------------------------------------------
(* The handler and the Buffer of GrpcService. *)

Accept(r, m) ==
    /\ Engine!Accept(r)
    /\ stage' = [stage EXCEPT ![r] = "received"]
    /\ mode' = [mode EXCEPT ![r] = m]
    /\ seen' = [seen EXCEPT ![r] = {get_op_succinct_config}]
    /\ UNCHANGED <<l1, boot, client, tries, queue, reserved, inner, witness>>

\* The handling of r goes on to another stage.
GoesOn(r, from, to) ==
    /\ Live
    /\ stage[r] = from
    /\ stage' = [stage EXCEPT ![r] = to]
    /\ tries' = [tries EXCEPT ![r] = 0]

\* The request is valid (RequestDecoding has what that is).
Decode(r) ==
    /\ GoesOn(r, "received", "ready")
    /\ UNCHANGED <<engine, l1, boot, client, mode, queue, reserved, inner, witness, seen>>

\* `ready` gets a slot and `call` sends the message.
Enqueue(r) ==
    /\ Len(queue) < OuterBound
    /\ GoesOn(r, "ready", "queued")
    /\ queue' = Append(queue, r)
    /\ UNCHANGED <<engine, l1, boot, client, mode, reserved, inner, witness, seen>>

\* AggchainProofBuilder::poll_ready takes a slot of the inner Buffer for `self`.
PollReady ==
    /\ Live
    /\ queue # <<>> /\ stage[Head(queue)] = "queued"
    /\ ~reserved
    /\ Len(inner) < InnerBound
    /\ reserved' = TRUE
    /\ UNCHANGED <<engine, l1, boot, client, stage, mode, tries, queue, inner, witness, seen>>

\* Mutant: the builder calls its own prover, not a clone, so the slot is used up.
WorkerCallMovesSlot ==
    /\ Live
    /\ queue # <<>> /\ stage[Head(queue)] = "queued"
    /\ reserved
    /\ stage' = [stage EXCEPT ![Head(queue)] =
                    IF mode[Head(queue)] = "normal" THEN "get_block_number"
                                                    ELSE "retrieve_chain_data"]
    /\ queue' = Tail(queue)
    /\ reserved' = FALSE
    /\ UNCHANGED <<engine, l1, boot, client, mode, tries, inner, witness, seen>>

\* AggchainProofService::call clones the proposer and the builder: the slot stays
\* in `self`, and the clone has none.
WorkerCall ==
    /\ Live
    /\ queue # <<>> /\ stage[Head(queue)] = "queued"
    /\ reserved
    /\ stage' = [stage EXCEPT ![Head(queue)] =
                    IF mode[Head(queue)] = "normal" THEN "get_block_number"
                                                    ELSE "retrieve_chain_data"]
    /\ queue' = Tail(queue)
    /\ UNCHANGED <<engine, l1, boot, client, mode, tries, reserved, inner, witness, seen>>

\* The client of the next message is gone.
WorkerDrop ==
    /\ Live
    /\ queue # <<>> /\ stage[Head(queue)] = "ended"
    /\ queue' = Tail(queue)
    /\ UNCHANGED <<engine, l1, boot, client, stage, mode, tries, reserved, inner, witness, seen>>

-----------------------------------------------------------------------------
(* ProposerService::call. *)

\* L1 tells the number of the block.
GetBlockNumber(r) ==
    /\ GoesOn(r, "get_block_number", "request_agg_proof")
    /\ UNCHANGED <<engine, l1, boot, client, mode, queue, reserved, inner, witness, seen>>

\* The proposer answers with an id and a range, within request_timeout.
RequestAggProof(r) ==
    /\ GoesOn(r, "request_agg_proof", "wait_for_proof")
    /\ UNCHANGED <<engine, l1, boot, client, mode, queue, reserved, inner, witness, seen>>

\* The proof arrives, within proving_timeout, and verifies.  A mock prover has no
\* proving_timeout: it asks the proposer once more, within request_timeout.
WaitForProof(r) ==
    /\ GoesOn(r, "wait_for_proof", "retrieve_chain_data")
    /\ UNCHANGED <<engine, l1, boot, client, mode, queue, reserved, inner, witness, seen>>

\* Mutant: the count of the retries starts again at its limit.
RetryForever(r) ==
    /\ Live
    /\ stage[r] \in {"get_block_number", "retrieve_chain_data"}
    /\ tries' = [tries EXCEPT ![r] = (@ + 1) % (MaxRetries + 1)]
    /\ UNCHANGED <<engine, l1, boot, client, stage, mode, queue, reserved, inner, witness, seen>>

\* Mutant: one retry more.
RetryOnceMore(r) ==
    /\ Live
    /\ stage[r] \in {"get_block_number", "retrieve_chain_data"}
    /\ tries[r] <= MaxRetries
    /\ tries' = [tries EXCEPT ![r] = @ + 1]
    /\ UNCHANGED <<engine, l1, boot, client, stage, mode, queue, reserved, inner, witness, seen>>

\* RetryBackoffLayer tries a refused read again.
Retry(r) ==
    /\ Live
    /\ stage[r] \in {"get_block_number", "retrieve_chain_data"}
    /\ tries[r] < MaxRetries
    /\ tries' = [tries EXCEPT ![r] = @ + 1]
    /\ UNCHANGED <<engine, l1, boot, client, stage, mode, queue, reserved, inner, witness, seen>>

-----------------------------------------------------------------------------
(* AggchainProofBuilder::call. *)

\* The public values that the settings of a witness call for.
Expected(config, sequencer) ==
    [rollup_config_hash |-> config.rollup_config_hash, prover_address |-> sequencer]

\* Mutant: the parameters have the sequencer of now, not the one of the witness.
aggchain_params_refreshed(config, sequencer) ==
    [rollup_config_hash |-> config.rollup_config_hash, keys |-> config.keys,
     trusted_sequencer |-> l1.trustedSequencer]

\* AggchainParamsValues, the part that comes from the settings.
aggchain_params(config, sequencer) ==
    [rollup_config_hash |-> config.rollup_config_hash, keys |-> config.keys,
     trusted_sequencer |-> sequencer]

\* retrieve_chain_data: the configuration of now, under the name of start-up, with
\* the sequencer of start-up.  The public values of an aggregation proof have to be
\* the ones these call for; a signature is not looked at here.
RetrieveChainData(r, vouched) ==
    LET config == get_op_succinct_config IN
    /\ GoesOn(r, "retrieve_chain_data", "prover_ready")
    /\ validate_op_succinct_config_keys(config)
    /\ IF mode[r] = "normal" THEN vouched = Expected(config, client.trusted_sequencer)
                            ELSE vouched = Unread
    /\ witness' = [witness EXCEPT ![r] =
            [status |-> "built", vouched |-> vouched,
             expected |-> Expected(config, client.trusted_sequencer),
             params |-> aggchain_params(config, client.trusted_sequencer)]]
    /\ UNCHANGED <<engine, l1, boot, client, mode, queue, reserved, inner, seen>>

\* `prover.ready()` of the clone gets a slot of the inner Buffer, next to the one
\* that is kept, and `call` sends the message.
ProverEnqueue(r) ==
    /\ Len(inner) + (IF reserved THEN 1 ELSE 0) < InnerBound
    /\ GoesOn(r, "prover_ready", "prover_queued")
    /\ inner' = Append(inner, r)
    /\ UNCHANGED <<engine, l1, boot, client, mode, queue, reserved, witness, seen>>

\* The Executor is ready and is called; a local prover uses a blocking thread.
ExecutorCall ==
    /\ Live
    /\ inner # <<>> /\ stage[Head(inner)] = "prover_queued"
    /\ \/ Engine!SpawnBlocking(Head(inner))
       \/ UNCHANGED engine
    /\ stage' = [stage EXCEPT ![Head(inner)] = "proving"]
    /\ inner' = Tail(inner)
    /\ UNCHANGED <<l1, boot, client, mode, tries, queue, reserved, witness, seen>>

ExecutorDrop ==
    /\ Live
    /\ inner # <<>> /\ stage[Head(inner)] = "ended"
    /\ inner' = Tail(inner)
    /\ UNCHANGED <<engine, l1, boot, client, stage, mode, tries, queue, reserved, witness, seen>>

\* The Executor returns a proof, which exists only when the program accepts the
\* aggregation proof or the signature, which is for the values `signed`; the client
\* gets it.
Proved(r, signed) ==
    /\ stage[r] = "proving"
    /\ r \notin threads
    /\ witness' = [witness EXCEPT ![r].vouched = IF mode[r] = "normal" THEN @ ELSE signed]
    /\ witness'[r].vouched = witness[r].expected
    /\ Engine!EndRequest(r)
    /\ stage' = [stage EXCEPT ![r] = "proven"]
    /\ mode' = [mode EXCEPT ![r] = "normal"]
    /\ UNCHANGED <<l1, boot, client, tries, queue, reserved, inner, seen>>

\* The handler ends without a proof, and all it holds is dropped.
Dropped(r) ==
    /\ Engine!EndRequest(r)
    /\ stage' = [stage EXCEPT ![r] = "ended"]
    /\ tries' = [tries EXCEPT ![r] = 0]
    /\ witness' = [witness EXCEPT ![r] = NoWitness]
    /\ seen' = [seen EXCEPT ![r] = {}]
    /\ mode' = [mode EXCEPT ![r] = "normal"]
    /\ UNCHANGED <<l1, boot, client, queue, reserved, inner>>

\* An error is the answer: the request is invalid, a call fails or times out, a
\* proof, a key or a signature is not as expected, or the Executor gives up.
Fail(r) ==
    /\ stage[r] \in {"received", "get_block_number", "request_agg_proof", "wait_for_proof",
                     "retrieve_chain_data", "proving"}
    /\ Dropped(r)

\* The client goes away.
Cancel(r) ==
    /\ stage[r] \notin {"new", "proven", "ended"}
    /\ Dropped(r)

-----------------------------------------------------------------------------
\* The steps of ProverEngine that are not steps of a request.
EngineMain == boot.steps = <<>> /\ Engine!MainStep /\ UNCHANGED own
EngineOther ==
    /\ \/ boot.steps = <<>> /\ Engine!StartFails
       \/ Engine!Killed \/ Engine!Signal
       \/ \E r \in Requests : Engine!ThreadEnds(r)
    /\ UNCHANGED own
RpcDrains == Engine!RpcDrains /\ UNCHANGED own
RpcStops == Engine!RpcStops /\ UNCHANGED own
MetricsStops == Engine!MetricsStops /\ UNCHANGED own

\* The calls that r waits for: each is answered, refused or fails.
Awaited(r) ==
    \/ Decode(r) \/ GetBlockNumber(r) \/ RequestAggProof(r) \/ WaitForProof(r) \/ Retry(r)
    \/ \E vouched \in PublicValues \cup {Unread} : RetrieveChainData(r, vouched)
    \/ \E signed \in PublicValues : Proved(r, signed)
    \/ Fail(r)

Worker == PollReady \/ WorkerCall \/ WorkerDrop

Next ==
    \/ \E s \in Sequencers : SetTrustedSequencer(s)
    \/ \E n \in ConfigNames :
          SelectOpSuccinctConfig(n) \/ \E c \in Configs : SetOpSuccinctConfig(n, c)
    \/ StartUp \/ StartUpRetry \/ StartUpFails
    \/ EngineMain \/ EngineOther \/ RpcDrains \/ RpcStops \/ MetricsStops
    \/ \E r \in Requests :
          \/ \E m \in {"normal", "optimistic"} : Accept(r, m)
          \/ Enqueue(r) \/ Awaited(r) \/ ProverEnqueue(r) \/ Cancel(r)
    \/ Worker \/ ExecutorCall \/ ExecutorDrop

Spec == Init /\ [][Next]_vars

(***************************************************************************)
(* Fairness.  The runtimes poll what is woken and the Buffers' semaphores  *)
(* are first in, first out.  A call is answered or fails: the proposer and *)
(* the prover network are bounded by timeouts, the Executor answers        *)
(* (EveryRequestAnswered of ProverExecutor), and that an RPC node answers  *)
(* or refuses is an assumption, because the code sets no timeout there.    *)
(***************************************************************************)
Fairness ==
    /\ WF_vars(StartUp \/ StartUpRetry \/ StartUpFails)
    /\ WF_vars(EngineMain)
    /\ WF_vars(RpcDrains) /\ WF_vars(RpcStops) /\ WF_vars(MetricsStops)
    /\ WF_vars(Worker)
    /\ WF_vars(ExecutorCall \/ ExecutorDrop)
    /\ \A r \in Requests :
          WF_vars(Awaited(r)) /\ SF_vars(Enqueue(r)) /\ SF_vars(ProverEnqueue(r))

FairSpec == Spec /\ Fairness

-----------------------------------------------------------------------------
(* Properties *)

Stages == {"new", "received", "ready", "queued", "get_block_number", "request_agg_proof",
           "wait_for_proof", "retrieve_chain_data", "prover_ready", "prover_queued",
           "proving", "proven", "ended"}

\* The type of every variable that is not ProverEngine's.
TypeOK ==
    /\ l1 \in Settings /\ l1.updates <= MaxUpdates
    /\ boot.tries \in 0..MaxRetries
    /\ client \in [trusted_sequencer : Sequencers \cup {"none"},
                   op_succinct_config_name : ConfigNames \cup {"none"}, since : 0..MaxUpdates]
    /\ stage \in [Requests -> Stages]
    /\ mode \in [Requests -> {"normal", "optimistic"}]
    /\ tries \in [Requests -> 0..MaxRetries]
    /\ queue \in Seq(Requests) /\ Len(queue) <= OuterBound
    /\ reserved \in BOOLEAN
    /\ inner \in Seq(Requests) /\ Len(inner) <= InnerBound
    /\ \A r \in Requests : witness[r].status \in {"none", "built"} /\ seen[r] \subseteq Configs

\* The parameters that AggchainFEP asks of a proof that is to settle now, external.
ParamsOnL1 ==
    aggchain_params(l1.opSuccinctConfigs[l1.selectedOpSuccinctConfigName], l1.trustedSequencer)

\* Start-up's copy of the settings grows stale, and a proof may be returned long
\* after it was requested.  Still, a proof that L1 would settle now was vouched for,
\* by the aggregation proof or the signature, for the sequencer that is in office
\* and the rollup configuration that is selected now.
OnlyCurrentSettles ==
    \A r \in Requests :
        stage[r] = "proven" /\ witness[r].params = ParamsOnL1 =>
            witness[r].vouched = [rollup_config_hash |-> ParamsOnL1.rollup_config_hash,
                                  prover_address |-> l1.trustedSequencer]

\* A proof that is returned is for a configuration that L1 had, under the name in
\* use and with the keys of the embedded programs, at some moment of the request
\* itself: what start-up or an earlier request found is never enough.
KeysCheckedInRequest ==
    \A r \in Requests :
        stage[r] = "proven" =>
            [keys |-> ElfKeys, rollup_config_hash |-> witness[r].params.rollup_config_hash]
                \in seen[r]

\* As long as the settings do not change after the process read the first of them,
\* every proof it returns is one that L1 settles; the reads of start-up are several
\* calls, with changes before and between them.
SettlesUnlessChanged ==
    \A r \in Requests :
        stage[r] = "proven" /\ l1.updates = client.since => witness[r].params = ParamsOnL1

\* The slot that poll_ready keeps in the builder is never used by a request, so the
\* inner Buffer takes one message less than its bound.
OneInnerSlotIdle == inner # <<>> => Len(inner) < InnerBound

\* The process with its start-up, Buffers, retries and calls is a ProverEngine: in
\* particular start-up ends, every request that was accepted is answered or left by
\* its client, whatever the others and L1 do, and a signal ends the process.
ImplementsEngine == Engine!FairSpec
=============================================================================
