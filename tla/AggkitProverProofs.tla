------------------------- MODULE AggkitProverProofs -------------------------
(* Proofs about AggkitProver, for any requests, settings, Buffers and retries. *)
EXTENDS AggkitProver, TLAPS

-----------------------------------------------------------------------------
(* The inductive invariant *)

\* What a witness can be.
Params == [rollup_config_hash : RollupConfigs, keys : {ElfKeys, "other"},
           trusted_sequencer : Sequencers]
Witnesses ==
    {NoWitness} \cup
    [status : {"built"}, vouched : PublicValues \cup {Unread}, expected : PublicValues,
     params : Params]

\* The steps of start-up.
StepNames ==
    AlloyReads \cup {"try_load", "parse_evm_sketch_genesis", "connect", "compute_pkey_vkey",
                    "new_network_prover", "Executor", "vkey"}

Types ==
    /\ TypeOK /\ Engine!TypeOK
    /\ boot \in [steps : Seq(StepNames), tries : 0..MaxRetries]
    /\ witness \in [Requests -> Witnesses]
    /\ seen \in [Requests -> SUBSET Configs]

\* The step is still to be done.
Has(steps, step) == \E i \in 1..Len(steps) : steps[i] = step

\* After a read of the sequencer there always comes a read of the selected name.
Ordered(steps) ==
    \A i \in 1..Len(steps) : steps[i] = "trustedSequencer" =>
        \E j \in i + 1..Len(steps) : steps[j] = "selectedOpSuccinctConfigName"

\* Nothing is served before start-up is over, and a stage of a request is one of
\* the process's life.
BootInv ==
    /\ main \notin {"bind_metrics", "failed", "killed"} => boot.steps = <<>>
    /\ main = "bind_metrics" => rpc = "none"
    /\ \A r \in Requests :
          /\ request[r] # "new" => boot.steps = <<>>
          /\ stage[r] = "new" <=> request[r] = "new"
          /\ stage[r] \in {"proven", "ended"} <=> request[r] = "ended"

\* The client's copy of the settings: complete when start-up is over, and the one
\* of L1 as long as L1 did not change after the first read.
ClientInv ==
    /\ Ordered(boot.steps)
    /\ client.trusted_sequencer \in Sequencers \/ Has(boot.steps, "trustedSequencer")
    /\ client.op_succinct_config_name \in ConfigNames
          \/ Has(boot.steps, "selectedOpSuccinctConfigName")
    /\ client.since <= l1.updates
    /\ client.since = l1.updates =>
          /\ ~Has(boot.steps, "trustedSequencer") =>
                client.trusted_sequencer = l1.trustedSequencer
          /\ ~Has(boot.steps, "selectedOpSuccinctConfigName") =>
                client.op_succinct_config_name = l1.selectedOpSuccinctConfigName

\* The stages in which a request has a witness.
Witnessed == {"prover_ready", "prover_queued", "proving", "proven"}

\* A witness is made of the client's sequencer and of a configuration that L1 had
\* during the request, with good keys.
WitnessOf(r) ==
    /\ request[r] = "running" => get_op_succinct_config \in seen[r]
    /\ stage[r] \in Witnessed <=> witness[r].status = "built"
    /\ stage[r] \in Witnessed =>
          LET w == witness[r] IN
          /\ w.expected = [rollup_config_hash |-> w.params.rollup_config_hash,
                           prover_address |-> w.params.trusted_sequencer]
          /\ w.params.keys = ElfKeys
          /\ w.params.trusted_sequencer = client.trusted_sequencer
          /\ [keys |-> ElfKeys, rollup_config_hash |-> w.params.rollup_config_hash] \in seen[r]
          /\ client.since = l1.updates =>
                w.params = aggchain_params(get_op_succinct_config, client.trusted_sequencer)
    /\ stage[r] = "proven" => witness[r].vouched = witness[r].expected

WitnessInv == \A r \in Requests : WitnessOf(r)

\* The stages after AggchainProofService::call.
Called == {"get_block_number", "request_agg_proof", "wait_for_proof", "retrieve_chain_data",
           "prover_ready", "prover_queued", "proving"}

\* A request that was called found a slot of the inner Buffer kept, and it stays so.
SlotInv ==
    /\ \A r \in Requests : stage[r] \in Called => reserved
    /\ inner # <<>> => reserved
    /\ reserved => Len(inner) < InnerBound

IInv == Types /\ BootInv /\ ClientInv /\ WitnessInv /\ SlotInv

-----------------------------------------------------------------------------
(* Sequences of start-up steps *)

LEMMA HasConcat ==
    ASSUME NEW s \in Seq(StepNames), NEW t \in Seq(StepNames), NEW x, Has(s, x) \/ Has(t, x)
    PROVE  Has(s \o t, x)
<1>1. Len(s) \in Nat /\ Len(t) \in Nat /\ Len(s \o t) = Len(s) + Len(t)
    OBVIOUS
<1>2. CASE Has(s, x)
    <2>1. PICK i \in 1..Len(s) : s[i] = x
        BY <1>2 DEF Has
    <2>2. i \in 1..Len(s \o t) /\ (s \o t)[i] = x
        BY <1>1, <2>1
    <2> QED BY <2>2 DEF Has
<1>3. CASE Has(t, x)
    <2>1. PICK i \in 1..Len(t) : t[i] = x
        BY <1>3 DEF Has
    <2>2. Len(s) + i \in 1..Len(s \o t) /\ (s \o t)[Len(s) + i] = x
        BY <1>1, <2>1
    <2> QED BY <2>2 DEF Has
<1> QED BY <1>2, <1>3

LEMMA OrderedConcat ==
    ASSUME NEW s \in Seq(StepNames), NEW t \in Seq(StepNames), Ordered(s), Ordered(t)
    PROVE  Ordered(s \o t)
<1>1. Len(s) \in Nat /\ Len(t) \in Nat /\ Len(s \o t) = Len(s) + Len(t)
    OBVIOUS
<1> SUFFICES ASSUME NEW i \in 1..Len(s \o t), (s \o t)[i] = "trustedSequencer"
             PROVE  \E j \in i + 1..Len(s \o t) : (s \o t)[j] = "selectedOpSuccinctConfigName"
    BY DEF Ordered
<1>2. CASE i <= Len(s)
    <2>1. i \in 1..Len(s) /\ s[i] = "trustedSequencer"
        BY <1>1, <1>2
    <2>2. PICK j \in i + 1..Len(s) : s[j] = "selectedOpSuccinctConfigName"
        BY <2>1 DEF Ordered
    <2>3. j \in i + 1..Len(s \o t) /\ (s \o t)[j] = "selectedOpSuccinctConfigName"
        BY <1>1, <2>2
    <2> QED BY <2>3
<1>3. CASE i > Len(s)
    <2>1. i - Len(s) \in 1..Len(t) /\ t[i - Len(s)] = "trustedSequencer"
        BY <1>1, <1>3
    <2>2. PICK j \in i - Len(s) + 1..Len(t) : t[j] = "selectedOpSuccinctConfigName"
        BY <2>1 DEF Ordered
    <2>3. Len(s) + j \in i + 1..Len(s \o t)
          /\ (s \o t)[Len(s) + j] = "selectedOpSuccinctConfigName"
        BY <1>1, <1>3, <2>2
    <2> QED BY <2>3
<1> QED BY <1>1, <1>2, <1>3

\* What is left of start-up after a step.
LEMMA StepsTail ==
    ASSUME NEW steps \in Seq(StepNames), steps # <<>>
    PROVE  /\ Head(steps) \in StepNames /\ Tail(steps) \in Seq(StepNames)
           /\ Ordered(steps) => Ordered(Tail(steps))
           /\ \A x : Has(Tail(steps), x) => Has(steps, x)
           /\ \A x : Has(steps, x) => Has(Tail(steps), x) \/ Head(steps) = x
           /\ Ordered(steps) /\ Head(steps) = "trustedSequencer" =>
                Has(Tail(steps), "selectedOpSuccinctConfigName")
<1>1. /\ Head(steps) \in StepNames /\ Tail(steps) \in Seq(StepNames)
      /\ Len(steps) \in Nat /\ Len(steps) > 0 /\ Len(Tail(steps)) = Len(steps) - 1
      /\ Head(steps) = steps[1]
      /\ \A i \in 1..Len(steps) - 1 : Tail(steps)[i] = steps[i + 1]
    OBVIOUS
<1>2. ASSUME Ordered(steps) PROVE Ordered(Tail(steps))
    <2> SUFFICES ASSUME NEW i \in 1..Len(Tail(steps)), Tail(steps)[i] = "trustedSequencer"
                 PROVE  \E j \in i + 1..Len(Tail(steps)) :
                            Tail(steps)[j] = "selectedOpSuccinctConfigName"
        BY DEF Ordered
    <2>1. i + 1 \in 1..Len(steps) /\ steps[i + 1] = "trustedSequencer"
        BY <1>1
    <2>2. PICK j \in i + 2..Len(steps) : steps[j] = "selectedOpSuccinctConfigName"
        BY <1>1, <1>2, <2>1 DEF Ordered
    <2>3. j - 1 \in i + 1..Len(Tail(steps))
          /\ Tail(steps)[j - 1] = "selectedOpSuccinctConfigName"
        BY <1>1, <2>2
    <2> QED BY <2>3
<1>3. ASSUME NEW x, Has(Tail(steps), x) PROVE Has(steps, x)
    <2>1. PICK i \in 1..Len(Tail(steps)) : Tail(steps)[i] = x
        BY <1>3 DEF Has
    <2>2. i + 1 \in 1..Len(steps) /\ steps[i + 1] = x
        BY <1>1, <2>1
    <2> QED BY <2>2 DEF Has
<1>4. ASSUME NEW x, NEW i \in 1..Len(steps), steps[i] = x, i # 1 PROVE Has(Tail(steps), x)
    <2>1. i - 1 \in 1..Len(Tail(steps)) /\ Tail(steps)[i - 1] = x
        BY <1>1, <1>4
    <2> QED BY <2>1 DEF Has
<1>5. ASSUME NEW x, Has(steps, x) PROVE Has(Tail(steps), x) \/ Head(steps) = x
    BY <1>1, <1>4, <1>5 DEF Has
<1>6. ASSUME Ordered(steps), Head(steps) = "trustedSequencer"
      PROVE  Has(Tail(steps), "selectedOpSuccinctConfigName")
    <2>1. PICK j \in 2..Len(steps) : steps[j] = "selectedOpSuccinctConfigName"
        BY <1>1, <1>6 DEF Ordered
    <2> QED BY <1>1, <1>4, <2>1
<1> QED BY <1>1, <1>2, <1>3, <1>5, <1>6

\* The steps of start-up, whichever proposer the configuration asks for.
LEMMA RuntimeSteps ==
    ASSUME NEW proposer \in {new_network, new_mock}
    PROVE  /\ runtime(proposer) \in Seq(StepNames)
           /\ Ordered(runtime(proposer))
           /\ Has(runtime(proposer), "trustedSequencer")
           /\ Has(runtime(proposer), "selectedOpSuccinctConfigName")
<1> DEFINE Good == {s \in Seq(StepNames) : Ordered(s)}
<1>1. /\ <<"try_load">> \in Good /\ <<"parse_evm_sketch_genesis">> \in Good
      /\ <<"bridgeAddress">> \in Good /\ <<"connect">> \in Good
      /\ <<"compute_pkey_vkey">> \in Good /\ <<"new_network_prover">> \in Good
      /\ <<"Executor">> \in Good /\ <<"vkey">> \in Good /\ <<"opSuccinctConfigs">> \in Good
    BY DEF Ordered, StepNames, AlloyReads
<1>2. \A s, t : s \in Good /\ t \in Good => (s \o t) \in Good
    BY OrderedConcat
<1> DEFINE reads == <<"bridgeAddress", "rollupIDToRollupData", "trustedSequencer",
                      "selectedOpSuccinctConfigName">>
<1>3. /\ reads \in Good
      /\ Has(reads, "trustedSequencer") /\ Has(reads, "selectedOpSuccinctConfigName")
    <2>1. /\ reads \in Seq(StepNames) /\ Len(reads) = 4
          /\ reads[1] = "bridgeAddress" /\ reads[2] = "rollupIDToRollupData"
          /\ reads[3] = "trustedSequencer" /\ reads[4] = "selectedOpSuccinctConfigName"
        BY DEF StepNames, AlloyReads
    <2> HIDE DEF reads
    <2>2. 3 \in 1..Len(reads) /\ 4 \in 1..Len(reads) /\ 4 \in 3 + 1..Len(reads)
        BY <2>1
    <2>3. \A i \in 1..Len(reads) : reads[i] = "trustedSequencer" => i = 3
        BY <2>1
    <2> QED BY <2>1, <2>2, <2>3 DEF Ordered, Has
<1> HIDE DEF Good, reads
<1>4. try_load \in Good /\ parse_evm_sketch_genesis \in Good /\ ErigonContractsClient_new \in Good
    BY <1>1, <1>2 DEF try_load, parse_evm_sketch_genesis, ErigonContractsClient_new
<1>5. proposer \in Good
    <2>1. ProposerRpcClient_new \in Good /\ ProposerService_new \in Good /\ new_network_prover \in Good
        BY <1>1, <1>2 DEF ProposerRpcClient_new, ProposerService_new, new_network_prover
    <2> QED BY <1>2, <2>1 DEF new_network, new_mock
<1>6. AggchainProofBuilder_new \in Good
    BY <1>1, <1>2 DEF AggchainProofBuilder_new, vkey
<1> DEFINE C == AggchainContractsRpcClient_new
           E == ErigonContractsClient_new
           B == AggchainProofBuilder_new
<1>7. /\ C \in Good
      /\ Has(C, "trustedSequencer") /\ Has(C, "selectedOpSuccinctConfigName")
    BY <1>2, <1>3, <1>4, HasConcat DEF AggchainContractsRpcClient_new, Good, reads
<1>8. \A s, t : s \in Good /\ t \in Good => \A x : Has(s, x) \/ Has(t, x) => Has(s \o t, x)
    BY HasConcat DEF Good
<1> HIDE DEF C, E, B
<1>9. /\ (C \o E) \in Good /\ (C \o E \o proposer) \in Good /\ (C \o E \o proposer \o B) \in Good
      /\ (try_load \o (C \o E \o proposer \o B)) \in Good
    BY <1>2, <1>4, <1>5, <1>6, <1>7 DEF E, B
<1>10. \A x : Has(C, x) => Has(try_load \o (C \o E \o proposer \o B), x)
    BY <1>4, <1>5, <1>6, <1>7, <1>8, <1>9 DEF E, B
<1>11. runtime(proposer) = try_load \o (C \o E \o proposer \o B)
    BY DEF runtime, AggchainProofService_new, C, E, B
<1> QED BY <1>7, <1>9, <1>10, <1>11 DEF Good

-----------------------------------------------------------------------------
(* The initial states *)

\* A process that has not started satisfies the invariant.
LEMMA InvInit == Init => IInv
<1> SUFFICES ASSUME Init PROVE IInv
    OBVIOUS
<1> USE DEF Init
<1>1. boot \in [steps : Seq(StepNames), tries : 0..MaxRetries]
      /\ Ordered(boot.steps) /\ Has(boot.steps, "trustedSequencer")
      /\ Has(boot.steps, "selectedOpSuccinctConfigName")
    <2>1. \A p \in {new_network, new_mock} :
            /\ runtime(p) \in Seq(StepNames) /\ Ordered(runtime(p))
            /\ Has(runtime(p), "trustedSequencer")
            /\ Has(runtime(p), "selectedOpSuccinctConfigName")
        BY RuntimeSteps
    <2>2. boot = [steps |-> boot.steps, tries |-> 0]
          /\ boot.steps \in {runtime(new_network), runtime(new_mock)}
        OBVIOUS
    <2>3. 0 \in 0..MaxRetries
        BY AggkitAssumption
    <2> QED BY <2>1, <2>2, <2>3
<1>2. Engine!TypeOK
    BY DEF Engine!Init, Engine!TypeOK, Engine!Stages, Engine!ServerStates
<1>3. TypeOK
    <2>1. l1 \in Settings /\ l1.updates <= MaxUpdates
        BY AggkitAssumption
    <2>2. client \in [trusted_sequencer : Sequencers \cup {"none"},
                     op_succinct_config_name : ConfigNames \cup {"none"}, since : 0..MaxUpdates]
        BY AggkitAssumption
    <2>3. /\ stage \in [Requests -> Stages]
          /\ mode \in [Requests -> {"normal", "optimistic"}]
          /\ tries \in [Requests -> 0..MaxRetries]
        BY AggkitAssumption DEF Stages
    <2>4. /\ queue \in Seq(Requests) /\ Len(queue) <= OuterBound
          /\ inner \in Seq(Requests) /\ Len(inner) <= InnerBound
        BY AggkitAssumption
    <2>5. reserved \in BOOLEAN
        OBVIOUS
    <2>6. \A r \in Requests : witness[r].status \in {"none", "built"} /\ seen[r] \subseteq Configs
        BY DEF NoWitness
    <2> QED BY <1>1, <2>1, <2>2, <2>3, <2>4, <2>5, <2>6 DEF TypeOK
<1>4. Types
    BY <1>1, <1>2, <1>3 DEF Types, Witnesses
<1>5. BootInv
    BY DEF BootInv, Engine!Init
<1>6. ClientInv
    BY <1>1, AggkitAssumption DEF ClientInv
<1>7. WitnessInv
    BY DEF WitnessInv, WitnessOf, Witnessed, NoWitness, Engine!Init
<1>8. SlotInv
    BY DEF SlotInv, Called
<1> QED BY <1>4, <1>5, <1>6, <1>7, <1>8 DEF IInv

-----------------------------------------------------------------------------
(* The actions *)

\* A change on L1 is one of the whole settings.
LEMMA GovernStep ==
    ASSUME TypeOK,
           \/ \E s \in Sequencers : SetTrustedSequencer(s)
           \/ \E n \in ConfigNames :
                SelectOpSuccinctConfig(n) \/ \E c \in Configs : SetOpSuccinctConfig(n, c)
    PROVE  \E new \in Settings : Govern(new)
<1>1. l1 \in Settings
    BY DEF TypeOK
<1>2. ASSUME NEW s \in Sequencers, SetTrustedSequencer(s) PROVE \E new \in Settings : Govern(new)
    <2>1. [l1 EXCEPT !.trustedSequencer = s] \in Settings
        BY <1>1 DEF Settings
    <2> QED BY <1>2, <2>1 DEF SetTrustedSequencer
<1>3. ASSUME NEW n \in ConfigNames, SelectOpSuccinctConfig(n)
      PROVE  \E new \in Settings : Govern(new)
    <2>1. [l1 EXCEPT !.selectedOpSuccinctConfigName = n] \in Settings
        BY <1>1 DEF Settings
    <2> QED BY <1>3, <2>1 DEF SelectOpSuccinctConfig
<1>4. ASSUME NEW n \in ConfigNames, NEW c \in Configs, SetOpSuccinctConfig(n, c)
      PROVE  \E new \in Settings : Govern(new)
    <2>1. [l1 EXCEPT !.opSuccinctConfigs[n] = c] \in Settings
        BY <1>1 DEF Settings
    <2> QED BY <1>4, <2>1 DEF SetOpSuccinctConfig
<1> QED BY <1>2, <1>3, <1>4

\* When start-up is over the client has a name and a sequencer, and L1 has a
\* configuration under that name.
LEMMA Booted ==
    ASSUME IInv, boot.steps = <<>>
    PROVE  /\ client.trusted_sequencer \in Sequencers
           /\ client.op_succinct_config_name \in ConfigNames
           /\ get_op_succinct_config \in Configs
<1>1. \A x : ~Has(boot.steps, x)
    BY DEF Has
<1>2. client.trusted_sequencer \in Sequencers /\ client.op_succinct_config_name \in ConfigNames
    BY <1>1 DEF IInv, ClientInv
<1>3. l1 \in Settings
    BY DEF IInv, Types, TypeOK
<1> QED BY <1>2, <1>3 DEF Settings, get_op_succinct_config

\* A request that is handled is running, and start-up is over.
LEMMA Handled ==
    ASSUME IInv, NEW r \in Requests, stage[r] \notin {"new", "proven", "ended"}
    PROVE  request[r] = "running" /\ boot.steps = <<>>
BY DEF IInv, Types, BootInv, Engine!TypeOK

\* A server that serves is one of a process that has started.
LEMMA Serving ==
    ASSUME IInv, rpc = "serving", Live
    PROVE  boot.steps = <<>>
BY DEF IInv, BootInv, Live, Engine!Exited

\* What each step of a request is, and what it leaves alone.
LEMMA Steps ==
    ASSUME IInv, [Next]_vars
    PROVE  \/ UNCHANGED vars
           \/ \E new \in Settings : Govern(new)
           \/ StartUp \/ StartUpRetry
           \/ UNCHANGED own /\ (StartUpFails \/ EngineMain \/ EngineOther
                                  \/ RpcDrains \/ RpcStops \/ MetricsStops)
           \/ PollReady \/ WorkerCall \/ WorkerDrop \/ ExecutorCall \/ ExecutorDrop
           \/ \E r \in Requests :
                \/ \E m \in {"normal", "optimistic"} : Accept(r, m)
                \/ Decode(r) \/ GetBlockNumber(r) \/ RequestAggProof(r) \/ WaitForProof(r)
                \/ Retry(r) \/ Enqueue(r) \/ ProverEnqueue(r)
                \/ \E vouched \in PublicValues \cup {Unread} : RetrieveChainData(r, vouched)
                \/ \E signed \in PublicValues : Proved(r, signed)
                \/ stage[r] \notin {"new", "proven", "ended"} /\ Dropped(r)
<1>1. TypeOK
    BY DEF IInv, Types
<1>2. ASSUME NEW r \in Requests, Fail(r) \/ Cancel(r)
      PROVE  stage[r] \notin {"new", "proven", "ended"} /\ Dropped(r)
    BY <1>2 DEF Fail, Cancel
<1>3. ASSUME StartUpFails \/ EngineMain \/ EngineOther \/ RpcDrains \/ RpcStops \/ MetricsStops
      PROVE  UNCHANGED own
    BY <1>3 DEF StartUpFails, EngineMain, EngineOther, RpcDrains, RpcStops, MetricsStops
<1> QED BY <1>1, <1>2, <1>3, GovernStep, Zenon DEF Next, Awaited, Worker

-----------------------------------------------------------------------------
(* Types *)

\* The engine's part of a step.
LEMMA EngineTypes ==
    ASSUME IInv, [Next]_vars
    PROVE  Engine!TypeOK'
<1> USE DEF Engine!TypeOK, Engine!Stages, Engine!ServerStates
<1>1. Engine!TypeOK
    BY DEF IInv, Types
<1>2. ASSUME UNCHANGED engine PROVE Engine!TypeOK'
    BY <1>1, <1>2 DEF engine
<1>3. CASE StartUpFails \/ EngineOther
    BY <1>1, <1>3 DEF StartUpFails, EngineOther, Engine!StartFails, Engine!Killed, Engine!Signal,
                     Engine!ThreadEnds
<1>4. CASE EngineMain
    BY <1>1, <1>4 DEF EngineMain, Engine!MainStep, Engine!BindMetrics, Engine!BindRpc,
        Engine!Serve, Engine!InstallHandlers, Engine!AwaitProver, Engine!AwaitMetrics,
        Engine!ShutdownProver, Engine!ShutdownMetrics
<1>5. CASE RpcDrains \/ RpcStops \/ MetricsStops
    BY <1>1, <1>5 DEF RpcDrains, RpcStops, MetricsStops, Engine!RpcDrains, Engine!RpcStops,
                     Engine!MetricsStops
<1>6. ASSUME NEW r \in Requests,
             Engine!Accept(r) \/ Engine!SpawnBlocking(r) \/ Engine!EndRequest(r)
      PROVE  Engine!TypeOK'
    BY <1>1, <1>6 DEF Engine!Accept, Engine!SpawnBlocking, Engine!EndRequest
<1>7. CASE ExecutorCall
    <2>1. Head(inner) \in Requests
        BY <1>7 DEF IInv, Types, TypeOK, ExecutorCall
    <2> QED BY <1>2, <1>6, <1>7, <2>1 DEF ExecutorCall
<1>8. CASE \/ UNCHANGED vars \/ StartUp \/ StartUpRetry \/ PollReady \/ WorkerCall \/ WorkerDrop
           \/ ExecutorDrop \/ \E new \in Settings : Govern(new)
    BY <1>2, <1>8 DEF vars, engine, StartUp, StartUpRetry, PollReady, WorkerCall, WorkerDrop,
                     ExecutorDrop, Govern
<1>9. ASSUME NEW r \in Requests,
             \/ Decode(r) \/ GetBlockNumber(r) \/ RequestAggProof(r) \/ WaitForProof(r)
             \/ Retry(r) \/ Enqueue(r) \/ ProverEnqueue(r)
             \/ \E vouched \in PublicValues \cup {Unread} : RetrieveChainData(r, vouched)
      PROVE  Engine!TypeOK'
    BY <1>2, <1>9, Zenon DEF Decode, GetBlockNumber, RequestAggProof, WaitForProof, Retry, Enqueue,
                     ProverEnqueue, RetrieveChainData
<1>10. ASSUME NEW r \in Requests,
             \/ \E m \in {"normal", "optimistic"} : Accept(r, m)
             \/ \E signed \in PublicValues : Proved(r, signed)
             \/ Dropped(r)
      PROVE  Engine!TypeOK'
    BY <1>6, <1>10, Zenon DEF Accept, Proved, Dropped
<1> QED BY Steps, <1>3, <1>4, <1>5, <1>7, <1>8, <1>9, <1>10, Zenon

\* Each step keeps the types.
LEMMA TypesStep ==
    ASSUME IInv, [Next]_vars
    PROVE  Types'
<1> USE DEF IInv, Types, TypeOK
<1>1. Engine!TypeOK'
    BY EngineTypes
<1>2. CASE UNCHANGED own
    BY <1>1, <1>2 DEF own
<1>3. ASSUME NEW new \in Settings, Govern(new) PROVE Types'
    <2>1. l1' \in Settings /\ l1'.updates <= MaxUpdates
        <3>1. l1.updates \in Nat /\ l1.updates < MaxUpdates /\ MaxUpdates \in Nat
            BY <1>3, AggkitAssumption DEF Govern, Settings
        <3>2. l1' = [new EXCEPT !.updates = l1.updates + 1]
            BY <1>3 DEF Govern
        <3>3. l1.updates + 1 \in Nat /\ l1.updates + 1 <= MaxUpdates
            BY <3>1
        <3> HIDE DEF IInv, Types, TypeOK
        <3> QED BY <3>2, <3>3 DEF Settings
    <2>2. \A r \in Requests : request[r] = "running" =>
            new.opSuccinctConfigs[client.op_succinct_config_name] \in Configs
        <3> SUFFICES ASSUME NEW r \in Requests, request[r] = "running"
                     PROVE  new.opSuccinctConfigs[client.op_succinct_config_name] \in Configs
            OBVIOUS
        <3>1. boot.steps = <<>>
            BY DEF BootInv
        <3>2. client.op_succinct_config_name \in ConfigNames
            BY <3>1, Booted
        <3> QED BY <3>2 DEF Settings
    <2>3. seen' \in [Requests -> SUBSET Configs]
        BY <1>3, <2>2 DEF Govern
    <2> QED BY <1>1, <1>3, <2>1, <2>3 DEF Govern
<1>4. CASE StartUp
    <2>1. Head(boot.steps) \in StepNames /\ Tail(boot.steps) \in Seq(StepNames)
        BY <1>4, StepsTail DEF StartUp
    <2>2. boot' \in [steps : Seq(StepNames), tries : 0..MaxRetries]
        BY <1>4, <2>1, AggkitAssumption DEF StartUp
    <2>3. client' \in [trusted_sequencer : Sequencers \cup {"none"},
                      op_succinct_config_name : ConfigNames \cup {"none"}, since : 0..MaxUpdates]
        <3>1. l1.trustedSequencer \in Sequencers /\ l1.updates \in 0..MaxUpdates
              /\ l1.selectedOpSuccinctConfigName \in ConfigNames
            BY AggkitAssumption DEF Settings
        <3>2. client' = StepResult(Head(boot.steps))
            BY <1>4 DEF StartUp
        <3>3. client \in [trusted_sequencer : Sequencers \cup {"none"},
                      op_succinct_config_name : ConfigNames \cup {"none"}, since : 0..MaxUpdates]
            OBVIOUS
        <3> HIDE DEF IInv, Types, TypeOK
        <3> QED BY <3>1, <3>2, <3>3 DEF StepResult
    <2> QED BY <1>1, <1>4, <2>2, <2>3 DEF StartUp
<1>5. CASE StartUpRetry
    <2>1. boot' \in [steps : Seq(StepNames), tries : 0..MaxRetries]
        <3>1. boot \in [steps : Seq(StepNames), tries : 0..MaxRetries]
              /\ boot' = [boot EXCEPT !.tries = boot.tries + 1]
            BY <1>5 DEF StartUpRetry
        <3>2. boot.tries + 1 \in 0..MaxRetries
            BY <1>5, AggkitAssumption DEF StartUpRetry
        <3> HIDE DEF IInv, Types, TypeOK
        <3> QED BY <3>1, <3>2
    <2> QED BY <1>1, <1>5, <2>1 DEF StartUpRetry
<1>6. CASE PollReady
    <2>1. reserved' \in BOOLEAN
        BY <1>6 DEF PollReady
    <2> QED BY <1>1, <1>6, <2>1 DEF PollReady
<1>7. CASE WorkerCall
    <2>1. /\ queue' \in Seq(Requests) /\ Len(queue') <= OuterBound
        BY <1>7, AggkitAssumption DEF WorkerCall
    <2>2. stage' \in [Requests -> Stages]
        BY <1>7 DEF WorkerCall, Stages
    <2> QED BY <1>1, <1>7, <2>1, <2>2 DEF WorkerCall
<1>8. CASE WorkerDrop
    <2>1. /\ queue' \in Seq(Requests) /\ Len(queue') <= OuterBound
        BY <1>8, AggkitAssumption DEF WorkerDrop
    <2> QED BY <1>1, <1>8, <2>1 DEF WorkerDrop
<1>9. CASE ExecutorCall
    <2>1. inner' \in Seq(Requests) /\ Len(inner') <= InnerBound
        BY <1>9, AggkitAssumption DEF ExecutorCall
    <2>2. stage' \in [Requests -> Stages]
        BY <1>9 DEF ExecutorCall, Stages
    <2> QED BY <1>1, <1>9, <2>1, <2>2 DEF ExecutorCall
<1>10. CASE ExecutorDrop
    <2>1. inner' \in Seq(Requests) /\ Len(inner') <= InnerBound
        BY <1>10, AggkitAssumption DEF ExecutorDrop
    <2> QED BY <1>1, <1>10, <2>1 DEF ExecutorDrop
<1>11. ASSUME NEW r \in Requests, NEW m \in {"normal", "optimistic"}, Accept(r, m) PROVE Types'
    <2>1. get_op_succinct_config \in Configs
        BY <1>11, Serving, Booted DEF Accept, Engine!Accept, Live
    <2>2. stage' \in [Requests -> Stages] /\ mode' \in [Requests -> {"normal", "optimistic"}]
          /\ seen' \in [Requests -> SUBSET Configs]
        BY <1>11, <2>1 DEF Accept, Stages
    <2> QED BY <1>1, <1>11, <2>2 DEF Accept
<1>12. ASSUME NEW r \in Requests, NEW from, NEW to \in Stages, GoesOn(r, from, to)
       PROVE  stage' \in [Requests -> Stages] /\ tries' \in [Requests -> 0..MaxRetries]
    BY <1>12, AggkitAssumption DEF GoesOn
<1>13. ASSUME NEW r \in Requests,
              Decode(r) \/ GetBlockNumber(r) \/ RequestAggProof(r) \/ WaitForProof(r)
       PROVE  Types'
    <2>1. stage' \in [Requests -> Stages] /\ tries' \in [Requests -> 0..MaxRetries]
        BY <1>12, <1>13 DEF Decode, GetBlockNumber, RequestAggProof, WaitForProof, Stages
    <2> QED BY <1>1, <1>13, <2>1 DEF Decode, GetBlockNumber, RequestAggProof, WaitForProof
<1>14. ASSUME NEW r \in Requests, Retry(r) PROVE Types'
    <2>1. tries' \in [Requests -> 0..MaxRetries]
        BY <1>14, AggkitAssumption DEF Retry
    <2> QED BY <1>1, <1>14, <2>1 DEF Retry
<1>15. ASSUME NEW r \in Requests, Enqueue(r) PROVE Types'
    <2>1. stage' \in [Requests -> Stages] /\ tries' \in [Requests -> 0..MaxRetries]
        BY <1>12, <1>15 DEF Enqueue, Stages
    <2>2. queue' \in Seq(Requests) /\ Len(queue') <= OuterBound
        BY <1>15, AggkitAssumption DEF Enqueue
    <2> QED BY <1>1, <1>15, <2>1, <2>2 DEF Enqueue
<1>16. ASSUME NEW r \in Requests, ProverEnqueue(r) PROVE Types'
    <2>1. stage' \in [Requests -> Stages] /\ tries' \in [Requests -> 0..MaxRetries]
        BY <1>12, <1>16 DEF ProverEnqueue, Stages
    <2>2. inner' \in Seq(Requests) /\ Len(inner') <= InnerBound
        BY <1>16, AggkitAssumption DEF ProverEnqueue
    <2> QED BY <1>1, <1>16, <2>1, <2>2 DEF ProverEnqueue
<1>17. ASSUME NEW r \in Requests, NEW vouched \in PublicValues \cup {Unread},
              RetrieveChainData(r, vouched)
       PROVE  Types'
    <2>1. stage' \in [Requests -> Stages] /\ tries' \in [Requests -> 0..MaxRetries]
        BY <1>12, <1>17 DEF RetrieveChainData, Stages
    <2>2. client.trusted_sequencer \in Sequencers /\ get_op_succinct_config \in Configs
        BY <1>17, Handled, Booted DEF RetrieveChainData, GoesOn
    <2>3. witness' \in [Requests -> Witnesses]
        BY <1>17, <2>2 DEF RetrieveChainData, Witnesses, Expected, aggchain_params, PublicValues,
                         Params, Configs
    <2>4. \A q \in Requests : witness'[q].status \in {"none", "built"}
        BY <2>3 DEF Witnesses, NoWitness
    <2> QED BY <1>1, <1>17, <2>1, <2>3, <2>4 DEF RetrieveChainData
<1>18. ASSUME NEW r \in Requests, NEW signed \in PublicValues, Proved(r, signed) PROVE Types'
    <2>1. stage' \in [Requests -> Stages] /\ mode' \in [Requests -> {"normal", "optimistic"}]
        BY <1>18 DEF Proved, Stages
    <2>2. witness[r] \in Witnesses /\ witness[r].status = "built"
        BY <1>18 DEF Proved, WitnessInv, WitnessOf, Witnessed
    <2>3. witness' \in [Requests -> Witnesses]
        BY <1>18, <2>2 DEF Proved, Witnesses, NoWitness
    <2>4. \A q \in Requests : witness'[q].status \in {"none", "built"}
        BY <2>3 DEF Witnesses, NoWitness
    <2> QED BY <1>1, <1>18, <2>1, <2>3, <2>4 DEF Proved
<1>19. ASSUME NEW r \in Requests, Dropped(r) PROVE Types'
    <2>1. stage' \in [Requests -> Stages] /\ mode' \in [Requests -> {"normal", "optimistic"}]
          /\ tries' \in [Requests -> 0..MaxRetries]
        BY <1>19, AggkitAssumption DEF Dropped, Stages
    <2>2. witness' \in [Requests -> Witnesses] /\ seen' \in [Requests -> SUBSET Configs]
        BY <1>19 DEF Dropped, Witnesses
    <2>3. \A q \in Requests : witness'[q].status \in {"none", "built"}
        BY <2>2 DEF Witnesses, NoWitness
    <2> QED BY <1>1, <1>19, <2>1, <2>2, <2>3 DEF Dropped
<1>20. UNCHANGED vars => UNCHANGED own
    BY DEF vars, own
<1> QED BY Steps, <1>2, <1>3, <1>4, <1>5, <1>6, <1>7, <1>8, <1>9, <1>10, <1>11, <1>13, <1>14,
           <1>15, <1>16, <1>17, <1>18, <1>19, <1>20, Zenon

-----------------------------------------------------------------------------
(* Start-up and the life of a request *)

\* Each step keeps the order of start-up, requests and their stages.
LEMMA BootStep ==
    ASSUME IInv, [Next]_vars
    PROVE  BootInv'
<1> USE DEF IInv, BootInv
<1>0. /\ main \in Engine!Stages /\ rpc \in Engine!ServerStates
      /\ request \in [Requests -> {"new", "running", "ended"}] /\ stage \in [Requests -> Stages]
    BY DEF Types, TypeOK, Engine!TypeOK
<1>1. ASSUME UNCHANGED <<main, rpc, request, boot, stage>> PROVE BootInv'
    BY <1>1
<1>2. CASE UNCHANGED own /\ StartUpFails
    BY <1>0, <1>2 DEF own, StartUpFails, Engine!StartFails
<1>3. CASE UNCHANGED own /\ EngineMain
    BY <1>0, <1>3 DEF own, EngineMain, Engine!MainStep, Engine!BindMetrics, Engine!BindRpc,
        Engine!Serve, Engine!InstallHandlers, Engine!AwaitProver, Engine!AwaitMetrics,
        Engine!ShutdownProver, Engine!ShutdownMetrics
<1>4. CASE UNCHANGED own /\ EngineOther
    BY <1>0, <1>4 DEF own, EngineOther, Engine!StartFails, Engine!Killed, Engine!Signal,
        Engine!ThreadEnds
<1>5. CASE UNCHANGED own /\ (RpcDrains \/ RpcStops \/ MetricsStops)
    BY <1>0, <1>5 DEF own, RpcDrains, RpcStops, MetricsStops, Engine!RpcDrains, Engine!RpcStops,
        Engine!MetricsStops
<1>6. CASE StartUp
    <2>1. \A r \in Requests : request[r] = "new"
        BY <1>6 DEF StartUp
    <2> QED BY <1>0, <1>6, <2>1 DEF StartUp, engine
<1>7. CASE StartUpRetry
    <2>1. \A r \in Requests : request[r] = "new"
        BY <1>7 DEF StartUpRetry
    <2> QED BY <1>0, <1>7, <2>1 DEF StartUpRetry, engine
<1>8. CASE PollReady \/ WorkerDrop \/ ExecutorDrop \/ \E new \in Settings : Govern(new)
    BY <1>1, <1>8 DEF PollReady, WorkerDrop, ExecutorDrop, Govern, engine
\* A request that goes on stays one that is handled.
<1>9. ASSUME NEW r \in Requests, stage[r] \notin {"new", "proven", "ended"},
             NEW to \in Stages \ {"new", "proven", "ended"},
             stage' = [stage EXCEPT ![r] = to], UNCHANGED <<main, rpc, request, boot>>
      PROVE  BootInv'
    BY <1>0, <1>9
<1>10. CASE WorkerCall
    <2>1. Head(queue) \in Requests
        BY <1>10 DEF Types, TypeOK, WorkerCall
    <2> QED BY <1>9, <1>10, <2>1 DEF WorkerCall, engine, Stages
<1>11. CASE ExecutorCall
    <2>1. Head(inner) \in Requests
        BY <1>11 DEF Types, TypeOK, ExecutorCall
    <2>2. UNCHANGED <<main, rpc, request, boot>>
        BY <1>11 DEF ExecutorCall, Engine!SpawnBlocking, engine
    <2> QED BY <1>9, <1>11, <2>1, <2>2 DEF ExecutorCall, Stages
<1>12. ASSUME NEW r \in Requests,
              \/ Decode(r) \/ GetBlockNumber(r) \/ RequestAggProof(r) \/ WaitForProof(r)
              \/ Enqueue(r) \/ ProverEnqueue(r)
              \/ \E vouched \in PublicValues \cup {Unread} : RetrieveChainData(r, vouched)
       PROVE  BootInv'
    BY <1>9, <1>12 DEF Decode, GetBlockNumber, RequestAggProof, WaitForProof, Enqueue,
                      ProverEnqueue, RetrieveChainData, GoesOn, engine, Stages
<1>13. ASSUME NEW r \in Requests, Retry(r) PROVE BootInv'
    BY <1>1, <1>13 DEF Retry, engine
<1>14. ASSUME NEW r \in Requests, NEW m \in {"normal", "optimistic"}, Accept(r, m) PROVE BootInv'
    <2>1. boot.steps = <<>>
        BY <1>14, Serving DEF Accept, Engine!Accept, Live
    <2> QED BY <1>0, <1>14, <2>1 DEF Accept, Engine!Accept
<1>15. ASSUME NEW r \in Requests,
              (\E signed \in PublicValues : Proved(r, signed)) \/ Dropped(r)
       PROVE  BootInv'
    <2>1. request[r] = "running" /\ request' = [request EXCEPT ![r] = "ended"]
          /\ UNCHANGED <<main, rpc, boot>>
        BY <1>15 DEF Proved, Dropped, Engine!EndRequest
    <2>2. PICK to \in {"proven", "ended"} : stage' = [stage EXCEPT ![r] = to]
        BY <1>15 DEF Proved, Dropped
    <2> QED BY <1>0, <2>1, <2>2
<1>16. UNCHANGED vars => UNCHANGED <<main, rpc, request, boot, stage>>
    BY DEF vars
<1> QED BY Steps, <1>1, <1>2, <1>3, <1>4, <1>5, <1>6, <1>7, <1>8, <1>10, <1>11, <1>12, <1>13,
           <1>14, <1>15, <1>16, Zenon

-----------------------------------------------------------------------------
(* The copy of the settings *)

\* Only start-up and L1 touch what ClientInv is about.
LEMMA Untouched ==
    ASSUME IInv, [Next]_vars
    PROVE  \/ UNCHANGED <<l1, boot, client>>
           \/ \E new \in Settings : Govern(new)
           \/ StartUp \/ StartUpRetry
<1>1. UNCHANGED vars \/ UNCHANGED own => UNCHANGED <<l1, boot, client>>
    BY DEF vars, own
<1>2. ASSUME PollReady \/ WorkerCall \/ WorkerDrop \/ ExecutorCall \/ ExecutorDrop
      PROVE  UNCHANGED <<l1, boot, client>>
    BY <1>2 DEF PollReady, WorkerCall, WorkerDrop, ExecutorCall, ExecutorDrop
<1>3. ASSUME NEW r \in Requests,
             \/ \E m \in {"normal", "optimistic"} : Accept(r, m)
             \/ Decode(r) \/ GetBlockNumber(r) \/ RequestAggProof(r) \/ WaitForProof(r)
             \/ Retry(r) \/ Enqueue(r) \/ ProverEnqueue(r)
             \/ \E vouched \in PublicValues \cup {Unread} : RetrieveChainData(r, vouched)
             \/ \E signed \in PublicValues : Proved(r, signed)
             \/ Dropped(r)
      PROVE  UNCHANGED <<l1, boot, client>>
    BY <1>3 DEF Accept, Decode, GetBlockNumber, RequestAggProof, WaitForProof, Retry, Enqueue,
                ProverEnqueue, RetrieveChainData, Proved, Dropped
<1> QED BY Steps, <1>1, <1>2, <1>3, Zenon

\* Each step keeps the client's copy complete, and equal to L1's settings as long as
\* these did not change.
LEMMA ClientStep ==
    ASSUME IInv, [Next]_vars
    PROVE  ClientInv'
<1> USE DEF ClientInv
<1>0. /\ ClientInv /\ l1 \in Settings /\ client.since \in Nat
      /\ boot.steps \in Seq(StepNames)
      /\ client \in [trusted_sequencer : Sequencers \cup {"none"},
                     op_succinct_config_name : ConfigNames \cup {"none"}, since : 0..MaxUpdates]
    BY DEF IInv, Types, TypeOK
<1>1. CASE UNCHANGED <<l1, boot, client>>
    BY <1>0, <1>1
<1>2. ASSUME NEW new \in Settings, Govern(new) PROVE ClientInv'
    <2>1. l1.updates \in Nat /\ l1'.updates = l1.updates + 1 /\ UNCHANGED <<boot, client>>
        BY <1>0, <1>2 DEF Govern, Settings
    <2>2. client.since < l1'.updates
        BY <1>0, <2>1
    <2> QED BY <1>0, <2>1, <2>2
<1>3. CASE StartUpRetry
    <2>1. boot'.steps = boot.steps /\ UNCHANGED <<l1, client>>
        BY <1>0, <1>3 DEF StartUpRetry, IInv, Types
    <2> QED BY <1>0, <2>1
<1>4. CASE StartUp
    <2> DEFINE steps == boot.steps
               step == Head(boot.steps)
               rest == Tail(boot.steps)
    <2>1. /\ steps # <<>> /\ boot'.steps = rest /\ l1' = l1 /\ client' = StepResult(step)
        BY <1>4 DEF StartUp
    <2>2. /\ Ordered(rest)
          /\ \A x : Has(rest, x) => Has(steps, x)
          /\ \A x : Has(steps, x) => Has(rest, x) \/ step = x
          /\ step = "trustedSequencer" => Has(rest, "selectedOpSuccinctConfigName")
        BY <1>0, <2>1, StepsTail
    <2>3. l1.trustedSequencer \in Sequencers /\ l1.selectedOpSuccinctConfigName \in ConfigNames
          /\ l1.updates \in Nat
        BY <1>0 DEF Settings
    <2> HIDE DEF steps, step, rest
    <2>4. CASE step = "trustedSequencer"
        <3>1. client' = [client EXCEPT !.trusted_sequencer = l1.trustedSequencer,
                                       !.since = l1.updates]
            BY <2>1, <2>4 DEF StepResult
        <3>2. /\ client'.trusted_sequencer = l1.trustedSequencer /\ client'.since = l1.updates
              /\ client'.op_succinct_config_name = client.op_succinct_config_name
            BY <1>0, <3>1
        <3> QED BY <1>0, <2>1, <2>2, <2>3, <2>4, <3>2 DEF steps
    <2>5. CASE step = "selectedOpSuccinctConfigName"
        <3>1. client' = [client EXCEPT !.op_succinct_config_name =
                                           l1.selectedOpSuccinctConfigName]
            BY <2>1, <2>5 DEF StepResult
        <3>2. /\ client'.trusted_sequencer = client.trusted_sequencer
              /\ client'.since = client.since
              /\ client'.op_succinct_config_name = l1.selectedOpSuccinctConfigName
            BY <1>0, <3>1
        <3> QED BY <1>0, <2>1, <2>2, <2>3, <2>5, <3>2 DEF steps
    <2>6. CASE step \notin {"trustedSequencer", "selectedOpSuccinctConfigName"}
        <3>1. client' = client
            BY <2>1, <2>6 DEF StepResult
        <3> QED BY <1>0, <2>1, <2>2, <2>6, <3>1 DEF steps
    <2> QED BY <2>4, <2>5, <2>6
<1> QED BY <1>1, <1>2, <1>3, <1>4, Untouched, Zenon

-----------------------------------------------------------------------------
(* The witnesses *)

\* Each step keeps what a witness is made of.
LEMMA WitnessStep ==
    ASSUME IInv, [Next]_vars
    PROVE  WitnessInv'
<1>0. /\ request \in [Requests -> {"new", "running", "ended"}] /\ stage \in [Requests -> Stages]
      /\ witness \in [Requests -> Witnesses] /\ seen \in [Requests -> SUBSET Configs]
      /\ client.since <= l1.updates /\ client.since \in Nat /\ l1.updates \in Nat
      /\ \A r \in Requests : WitnessOf(r)
      /\ \A r \in Requests : stage[r] = "new" <=> request[r] = "new"
      /\ \A r \in Requests : stage[r] \in {"proven", "ended"} <=> request[r] = "ended"
    <2>1. /\ request \in [Requests -> {"new", "running", "ended"}]
          /\ stage \in [Requests -> Stages]
          /\ witness \in [Requests -> Witnesses] /\ seen \in [Requests -> SUBSET Configs]
        BY DEF IInv, Types, TypeOK, Engine!TypeOK
    <2>2. client.since <= l1.updates /\ client.since \in Nat /\ l1.updates \in Nat
        BY DEF IInv, Types, TypeOK, ClientInv, Settings
    <2>3. \A r \in Requests : WitnessOf(r)
        BY DEF IInv, WitnessInv
    <2> QED BY <2>1, <2>2, <2>3 DEF IInv, BootInv
<1> SUFFICES ASSUME NEW q \in Requests PROVE WitnessOf(q)'
    BY DEF WitnessInv
<1> USE DEF WitnessOf
<1>1. ASSUME UNCHANGED <<l1, client>>, request'[q] = request[q], stage'[q] = stage[q],
             witness'[q] = witness[q], seen'[q] = seen[q]
      PROVE  WitnessOf(q)'
    BY <1>0, <1>1 DEF get_op_succinct_config, aggchain_params
<1>2. ASSUME UNCHANGED <<l1, client>>, UNCHANGED <<request, stage, witness, seen>>
      PROVE  WitnessOf(q)'
    BY <1>1, <1>2
\* A change on L1 during a request is seen, and ends what is said of unchanged settings.
<1>3. ASSUME NEW new \in Settings, Govern(new) PROVE WitnessOf(q)'
    <2>1. /\ l1'.updates = l1.updates + 1 /\ l1'.opSuccinctConfigs = new.opSuccinctConfigs
          /\ UNCHANGED <<client, stage, witness, request>>
        BY <1>3 DEF Govern, Settings, engine
    <2>2. client'.since # l1'.updates
        BY <1>0, <2>1
    <2>3. seen[q] \subseteq seen'[q]
          /\ (request[q] = "running" => get_op_succinct_config' \in seen'[q])
        BY <1>0, <1>3, <2>1 DEF Govern, get_op_succinct_config
    <2> HIDE DEF WitnessOf
    <2>4. WitnessOf(q)
        BY <1>0
    <2> QED BY <2>1, <2>2, <2>3, <2>4 DEF WitnessOf
<1>4. CASE StartUp
    <2>1. request[q] = "new" /\ stage[q] = "new"
        BY <1>4 DEF StartUp, IInv, BootInv
    <2>2. request'[q] = "new" /\ stage'[q] = "new" /\ witness'[q] = witness[q]
        BY <1>4, <2>1 DEF StartUp, engine
    <2>3. witness[q].status # "built"
        BY <1>0, <2>1 DEF Witnessed
    <2> QED BY <2>2, <2>3 DEF Witnessed
<1>5. CASE StartUpRetry \/ PollReady \/ WorkerDrop \/ ExecutorDrop
    BY <1>2, <1>5 DEF StartUpRetry, PollReady, WorkerDrop, ExecutorDrop, engine
<1>6. ASSUME UNCHANGED own, StartUpFails \/ EngineMain \/ EngineOther \/ RpcDrains \/ RpcStops
                              \/ MetricsStops
      PROVE  WitnessOf(q)'
    <2>1. UNCHANGED request
        BY <1>6 DEF StartUpFails, EngineMain, EngineOther, RpcDrains, RpcStops, MetricsStops,
            Engine!StartFails, Engine!Killed, Engine!Signal, Engine!ThreadEnds, Engine!RpcDrains,
            Engine!RpcStops, Engine!MetricsStops, Engine!MainStep, Engine!BindMetrics,
            Engine!BindRpc, Engine!Serve, Engine!InstallHandlers, Engine!AwaitProver,
            Engine!AwaitMetrics, Engine!ShutdownProver, Engine!ShutdownMetrics
    <2> QED BY <1>2, <1>6, <2>1 DEF own
\* A step of a request that neither makes nor ends a witness.
<1>7. ASSUME NEW r \in Requests, NEW to,
             UNCHANGED <<l1, client, request, witness, seen>>, stage' = [stage EXCEPT ![r] = to],
             stage[r] # "proven", to # "proven", stage[r] \in Witnessed <=> to \in Witnessed
      PROVE  WitnessOf(q)'
    <2>1. CASE q = r
        BY <1>0, <1>7, <2>1 DEF get_op_succinct_config, aggchain_params
    <2>2. CASE q # r
        BY <1>0, <1>1, <1>7, <2>2
    <2> QED BY <2>1, <2>2
<1>8. CASE WorkerCall
    <2>1. Head(queue) \in Requests
        BY <1>8 DEF IInv, Types, TypeOK, WorkerCall
    <2> QED BY <1>7, <1>8, <2>1 DEF WorkerCall, engine, Witnessed
<1>9. CASE ExecutorCall
    <2>1. Head(inner) \in Requests
        BY <1>9 DEF IInv, Types, TypeOK, ExecutorCall
    <2>2. UNCHANGED request
        BY <1>9 DEF ExecutorCall, Engine!SpawnBlocking, engine
    <2> QED BY <1>7, <1>9, <2>1, <2>2 DEF ExecutorCall, Witnessed
<1>10. ASSUME NEW r \in Requests,
              \/ Decode(r) \/ GetBlockNumber(r) \/ RequestAggProof(r) \/ WaitForProof(r)
              \/ Enqueue(r) \/ ProverEnqueue(r)
       PROVE  WitnessOf(q)'
    BY <1>7, <1>10 DEF Decode, GetBlockNumber, RequestAggProof, WaitForProof, Enqueue,
                      ProverEnqueue, GoesOn, engine, Witnessed
<1>11. ASSUME NEW r \in Requests, Retry(r) PROVE WitnessOf(q)'
    BY <1>2, <1>11 DEF Retry, engine
<1>12. ASSUME NEW r \in Requests, NEW m \in {"normal", "optimistic"}, Accept(r, m)
       PROVE  WitnessOf(q)'
    <2>1. /\ UNCHANGED <<l1, client, witness>> /\ request[r] = "new"
          /\ request' = [request EXCEPT ![r] = "running"]
          /\ stage' = [stage EXCEPT ![r] = "received"]
          /\ seen' = [seen EXCEPT ![r] = {get_op_succinct_config}]
        BY <1>12 DEF Accept, Engine!Accept
    <2>2. CASE q = r
        <3>1. stage[r] \notin Witnessed
            BY <1>0, <2>1 DEF Witnessed
        <3> QED BY <1>0, <2>1, <2>2, <3>1 DEF get_op_succinct_config, Witnessed
    <2>3. CASE q # r
        BY <1>0, <1>1, <2>1, <2>3
    <2> QED BY <2>2, <2>3
<1>13. ASSUME NEW r \in Requests, NEW vouched \in PublicValues \cup {Unread},
              RetrieveChainData(r, vouched)
       PROVE  WitnessOf(q)'
    <2> DEFINE config == get_op_succinct_config
               w == [status |-> "built", vouched |-> vouched,
                     expected |-> Expected(config, client.trusted_sequencer),
                     params |-> aggchain_params(config, client.trusted_sequencer)]
    <2>1. /\ UNCHANGED <<l1, client, request, seen>>
          /\ stage[r] = "retrieve_chain_data" /\ stage' = [stage EXCEPT ![r] = "prover_ready"]
          /\ config.keys = ElfKeys
          /\ witness' = [witness EXCEPT ![r] = w]
        BY <1>13 DEF RetrieveChainData, GoesOn, engine, validate_op_succinct_config_keys
    <2>2. CASE q = r
        <3>1. request[r] = "running" /\ config \in Configs
            BY <2>1, Handled, Booted
        <3>2. config \in seen[r] /\ config = [keys |-> ElfKeys,
                                              rollup_config_hash |-> config.rollup_config_hash]
            BY <1>0, <2>1, <3>1 DEF Configs
        <3>3. /\ w.status = "built"
              /\ w.expected = [rollup_config_hash |-> w.params.rollup_config_hash,
                               prover_address |-> w.params.trusted_sequencer]
              /\ w.params.keys = ElfKeys
              /\ w.params.rollup_config_hash = config.rollup_config_hash
              /\ w.params.trusted_sequencer = client.trusted_sequencer
              /\ w.params = aggchain_params(config, client.trusted_sequencer)
            BY <2>1 DEF Expected, aggchain_params
        <3>4. /\ witness'[q] = w /\ stage'[q] = "prover_ready" /\ seen'[q] = seen[r]
              /\ get_op_succinct_config' = config
            BY <1>0, <2>1, <2>2 DEF get_op_succinct_config
        <3> HIDE DEF w, config
        <3> QED BY <2>1, <3>2, <3>3, <3>4 DEF Witnessed, aggchain_params
    <2>3. CASE q # r
        BY <1>0, <1>1, <2>1, <2>3
    <2> QED BY <2>2, <2>3
<1>14. ASSUME NEW r \in Requests, NEW signed \in PublicValues, Proved(r, signed)
       PROVE  WitnessOf(q)'
    <2> DEFINE v == IF mode[r] = "normal" THEN witness[r].vouched ELSE signed
               w == [witness[r] EXCEPT !.vouched = v]
    <2>1. /\ UNCHANGED <<l1, client, seen>> /\ stage[r] = "proving"
          /\ request' = [request EXCEPT ![r] = "ended"]
          /\ stage' = [stage EXCEPT ![r] = "proven"]
          /\ witness' = [witness EXCEPT ![r] = w]
          /\ witness'[r].vouched = witness[r].expected
        BY <1>14 DEF Proved, Engine!EndRequest
    <2>2. CASE q = r
        <3>1. witness[r] \in Witnesses /\ witness[r].status = "built"
            BY <1>0, <2>1 DEF Witnessed
        <3>2. /\ w.status = witness[r].status /\ w.expected = witness[r].expected
              /\ w.params = witness[r].params
            BY <3>1 DEF Witnesses, NoWitness
        <3>3. witness'[q] = w /\ stage'[q] = "proven" /\ request'[q] = "ended"
              /\ w.vouched = w.expected
            BY <1>0, <2>1, <2>2, <3>2
        <3>4. stage[q] \in Witnessed /\ stage'[q] \in Witnessed
            BY <2>1, <2>2, <3>3 DEF Witnessed
        <3> HIDE DEF w, v, WitnessOf
        <3>5. WitnessOf(q)
            BY <1>0
        <3> QED BY <2>1, <2>2, <3>1, <3>2, <3>3, <3>4, <3>5
                DEF WitnessOf, get_op_succinct_config, aggchain_params
    <2>3. CASE q # r
        BY <1>0, <1>1, <2>1, <2>3
    <2> QED BY <2>2, <2>3
<1>15. ASSUME NEW r \in Requests, Dropped(r) PROVE WitnessOf(q)'
    <2>1. /\ UNCHANGED <<l1, client>>
          /\ request' = [request EXCEPT ![r] = "ended"]
          /\ stage' = [stage EXCEPT ![r] = "ended"]
          /\ witness' = [witness EXCEPT ![r] = NoWitness]
          /\ seen' = [seen EXCEPT ![r] = {}]
        BY <1>15 DEF Dropped, Engine!EndRequest
    <2>2. CASE q = r
        BY <1>0, <2>1, <2>2 DEF Witnessed, NoWitness
    <2>3. CASE q # r
        BY <1>0, <1>1, <2>1, <2>3
    <2> QED BY <2>2, <2>3
<1>16. UNCHANGED vars => UNCHANGED <<l1, client>> /\ UNCHANGED <<request, stage, witness, seen>>
    BY DEF vars
<1> HIDE DEF WitnessOf
<1> QED BY Steps, <1>2, <1>3, <1>4, <1>5, <1>6, <1>8, <1>9, <1>10, <1>11, <1>12, <1>13, <1>14,
           <1>15, <1>16, Zenon

-----------------------------------------------------------------------------
(* The slot of the inner Buffer *)

\* Each step keeps the slot for as long as a request is past AggchainProofService::call.
LEMMA SlotStep ==
    ASSUME IInv, [Next]_vars
    PROVE  SlotInv'
<1> USE DEF SlotInv
<1>0. /\ SlotInv /\ stage \in [Requests -> Stages]
      /\ inner \in Seq(Requests) /\ queue \in Seq(Requests) /\ InnerBound \in Nat
    BY AggkitAssumption DEF IInv, Types, TypeOK
<1>1. ASSUME UNCHANGED <<stage, reserved, inner>> PROVE SlotInv'
    BY <1>0, <1>1
<1>2. CASE \/ UNCHANGED vars \/ UNCHANGED own \/ StartUp \/ StartUpRetry \/ WorkerDrop
           \/ \E new \in Settings : Govern(new)
    BY <1>1, <1>2 DEF vars, own, StartUp, StartUpRetry, WorkerDrop, Govern
<1>3. CASE PollReady
    BY <1>0, <1>3 DEF PollReady
<1>4. CASE WorkerCall
    BY <1>0, <1>4 DEF WorkerCall
<1>5. CASE ExecutorCall
    <2>1. stage[Head(inner)] \in Called /\ Head(inner) \in Requests
        BY <1>0, <1>5 DEF ExecutorCall, Called
    <2>2. reserved' = reserved /\ reserved
        BY <1>0, <1>5, <2>1 DEF ExecutorCall
    <2>3. Len(inner') < InnerBound
        BY <1>0, <1>5, <2>2 DEF ExecutorCall
    <2> QED BY <2>2, <2>3
<1>6. CASE ExecutorDrop
    <2>1. reserved' = reserved /\ reserved /\ stage' = stage
        BY <1>0, <1>6 DEF ExecutorDrop
    <2>2. Len(inner') < InnerBound
        BY <1>0, <1>6, <2>1 DEF ExecutorDrop
    <2> QED BY <1>0, <2>1, <2>2
\* A request that goes on to a stage that needs the slot was at one that did.
<1>7. ASSUME NEW r \in Requests, NEW to, stage' = [stage EXCEPT ![r] = to],
             to \in Called => stage[r] \in Called, UNCHANGED <<reserved, inner>>
      PROVE  SlotInv'
    BY <1>0, <1>7
<1>8. ASSUME NEW r \in Requests,
             \/ \E m \in {"normal", "optimistic"} : Accept(r, m)
             \/ Decode(r) \/ GetBlockNumber(r) \/ RequestAggProof(r) \/ WaitForProof(r)
             \/ Enqueue(r)
             \/ \E vouched \in PublicValues \cup {Unread} : RetrieveChainData(r, vouched)
             \/ \E signed \in PublicValues : Proved(r, signed)
             \/ Dropped(r)
      PROVE  SlotInv'
    BY <1>7, <1>8 DEF Accept, Decode, GetBlockNumber, RequestAggProof, WaitForProof, Enqueue,
                     RetrieveChainData, Proved, Dropped, GoesOn, Called
<1>9. ASSUME NEW r \in Requests, Retry(r) PROVE SlotInv'
    BY <1>1, <1>9 DEF Retry
<1>10. ASSUME NEW r \in Requests, ProverEnqueue(r) PROVE SlotInv'
    <2>1. stage[r] \in Called
        BY <1>10 DEF ProverEnqueue, GoesOn, Called
    <2>2. reserved /\ reserved' = reserved
        BY <1>0, <1>10, <2>1 DEF ProverEnqueue
    <2>3. Len(inner) + 1 < InnerBound /\ inner' = Append(inner, r)
        BY <1>10, <2>2 DEF ProverEnqueue
    <2> QED BY <1>0, <2>2, <2>3
<1> QED BY Steps, <1>2, <1>3, <1>4, <1>5, <1>6, <1>8, <1>9, <1>10, Zenon

-----------------------------------------------------------------------------
(* Theorems *)

LEMMA InvStep == IInv /\ [Next]_vars => IInv'
BY TypesStep, BootStep, ClientStep, WitnessStep, SlotStep DEF IInv

LEMMA Invariance == Spec => []IInv
BY InvInit, InvStep, PTL DEF Spec

\* Every variable of the process keeps its type; the retries of a read, the queues of
\* the two Buffers and the changes on L1 stay within their bounds.
THEOREM AggkitTypes == Spec => []TypeOK
<1>1. IInv => TypeOK
    BY DEF IInv, Types
<1> QED BY Invariance, <1>1, PTL

\* However often governance changes the settings, before, between and after the reads
\* of start-up and during any request: a proof that L1 would settle was vouched for,
\* by the aggregation proof or the signature, for the sequencer and the rollup
\* configuration that are in force on L1 (RetrieveChainData, Proved).
THEOREM SettledIsCurrent == Spec => []OnlyCurrentSettles
<1>1. IInv => OnlyCurrentSettles
    <2> SUFFICES ASSUME IInv, NEW r \in Requests, stage[r] = "proven",
                        witness[r].params = ParamsOnL1
                 PROVE  witness[r].vouched =
                            [rollup_config_hash |-> ParamsOnL1.rollup_config_hash,
                             prover_address |-> l1.trustedSequencer]
        BY DEF OnlyCurrentSettles
    <2>1. WitnessOf(r)
        BY DEF IInv, WitnessInv
    <2>2. witness[r].vouched = [rollup_config_hash |-> ParamsOnL1.rollup_config_hash,
                                prover_address |-> ParamsOnL1.trusted_sequencer]
        BY <2>1 DEF WitnessOf, Witnessed
    <2>3. ParamsOnL1.trusted_sequencer = l1.trustedSequencer
        BY DEF ParamsOnL1, aggchain_params
    <2> QED BY <2>2, <2>3
<1> QED BY Invariance, <1>1, PTL

\* Every proof that is returned is for a configuration with the keys of the embedded
\* programs that L1 had during the request itself (retrieve_chain_data reads and
\* checks it again for every request).
THEOREM KeysOfTheRequest == Spec => []KeysCheckedInRequest
<1>1. IInv => KeysCheckedInRequest
    BY DEF IInv, WitnessInv, WitnessOf, Witnessed, KeysCheckedInRequest
<1> QED BY Invariance, <1>1, PTL

\* As long as L1 does not change after the first read of start-up, every proof that is
\* returned has the parameters that L1 asks for, although the sequencer and the name
\* are read by two calls and then kept for the life of the process.
THEOREM UnchangedSettles == Spec => []SettlesUnlessChanged
<1>1. IInv => SettlesUnlessChanged
    <2> SUFFICES ASSUME IInv, NEW r \in Requests, stage[r] = "proven", l1.updates = client.since
                 PROVE  witness[r].params = ParamsOnL1
        BY DEF SettlesUnlessChanged
    <2>1. boot.steps = <<>>
        BY DEF IInv, BootInv
    <2>2. ~Has(boot.steps, "trustedSequencer")
          /\ ~Has(boot.steps, "selectedOpSuccinctConfigName")
        BY <2>1 DEF Has
    <2>3. /\ client.trusted_sequencer = l1.trustedSequencer
          /\ client.op_succinct_config_name = l1.selectedOpSuccinctConfigName
        BY <2>2 DEF IInv, ClientInv
    <2>4. WitnessOf(r)
        BY DEF IInv, WitnessInv
    <2>5. witness[r].params = aggchain_params(get_op_succinct_config, client.trusted_sequencer)
        BY <2>4 DEF WitnessOf, Witnessed
    <2> QED BY <2>3, <2>5 DEF ParamsOnL1, get_op_succinct_config
<1> QED BY Invariance, <1>1, PTL

\* The inner Buffer never holds as many messages as its bound, because poll_ready keeps
\* one slot in the builder that every request clones.
THEOREM InnerSlotIdle == Spec => []OneInnerSlotIdle
<1>1. IInv => OneInnerSlotIdle
    BY DEF IInv, SlotInv, OneInnerSlotIdle
<1> QED BY Invariance, <1>1, PTL

-----------------------------------------------------------------------------
(* The process is a ProverEngine *)

\* Each step is a step of ProverEngine, or leaves what it sees alone.
LEMMA EngineStep ==
    ASSUME IInv, [Next]_vars
    PROVE  [Engine!Next]_engine
<1>1. CASE UNCHANGED own /\ (StartUpFails \/ EngineMain \/ EngineOther
                               \/ RpcDrains \/ RpcStops \/ MetricsStops)
    BY <1>1 DEF StartUpFails, EngineMain, EngineOther, RpcDrains, RpcStops, MetricsStops,
                Engine!Next
<1>2. ASSUME NEW r \in Requests,
             Engine!Accept(r) \/ Engine!SpawnBlocking(r) \/ Engine!EndRequest(r)
      PROVE  [Engine!Next]_engine
    BY <1>2 DEF Engine!Next
<1>3. CASE ExecutorCall
    <2>1. Head(inner) \in Requests
        BY <1>3 DEF IInv, Types, TypeOK, ExecutorCall
    <2> QED BY <1>2, <1>3, <2>1 DEF ExecutorCall
<1>4. CASE \/ UNCHANGED vars \/ StartUp \/ StartUpRetry \/ PollReady \/ WorkerCall \/ WorkerDrop
           \/ ExecutorDrop \/ \E new \in Settings : Govern(new)
    BY <1>4 DEF vars, engine, StartUp, StartUpRetry, PollReady, WorkerCall, WorkerDrop,
                ExecutorDrop, Govern
<1>5. ASSUME NEW r \in Requests,
             \/ Decode(r) \/ GetBlockNumber(r) \/ RequestAggProof(r) \/ WaitForProof(r)
             \/ Retry(r) \/ Enqueue(r) \/ ProverEnqueue(r)
             \/ \E vouched \in PublicValues \cup {Unread} : RetrieveChainData(r, vouched)
      PROVE  UNCHANGED engine
    BY <1>5, Zenon DEF Decode, GetBlockNumber, RequestAggProof, WaitForProof, Retry, Enqueue,
                ProverEnqueue, RetrieveChainData
<1>6. ASSUME NEW r \in Requests,
             \/ \E m \in {"normal", "optimistic"} : Accept(r, m)
             \/ \E signed \in PublicValues : Proved(r, signed)
             \/ Dropped(r)
      PROVE  [Engine!Next]_engine
    BY <1>2, <1>6, Zenon DEF Accept, Proved, Dropped
<1> QED BY Steps, <1>1, <1>3, <1>4, <1>5, <1>6, Zenon

\* The process, with its start-up, Buffers, retries and calls, takes only the steps
\* that ProverEngine::start allows: the safety part of ImplementsEngine.
THEOREM AggkitImplementsEngine == Spec => Engine!Spec
<1>1. Init => Engine!Init
    BY DEF Init
<1>2. IInv /\ [Next]_vars => [Engine!Next]_Engine!vars
    BY EngineStep DEF engine, Engine!vars
<1> QED BY Invariance, <1>1, <1>2, PTL DEF Spec, Engine!Spec
=============================================================================
