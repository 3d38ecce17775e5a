# TLA+ models of the provers

This directory holds the formal models of `gateway-fm/provers`: the two prover
services (`agglayer-prover` and `aggkit-prover`) and the aggchain proof program
that one of them proves. The modules are checked with TLC on small instances;
the safety properties are also proved with TLAPS for every value of the constants.
Paths below are relative to `src/crates/`.

## 1. The system

Two gRPC processes share one engine and one executor.

```
 agglayer-prover                        aggkit-prover
 ProverRPC::generate_proof              GrpcService::generate_(optimistic_)aggchain_proof
   |                                      |
 Buffer                                 Buffer(100)
   |                                      |
 ConcurrencyLimit                       AggchainProofService
   |                                      |-- ProposerService -- proposer, SP1 cluster
 Executor                                 |-- AggchainProofBuilder
   |-- primary                                 |-- contracts client -- L1 and L2 RPC nodes
   |-- fallback                                |-- Buffer(100) -- Executor
                                                      (proves aggchain-proof-program)
```

| component | state | operations | what is hard about it |
|---|---|---|---|
| prover-executor | the permits of each `ConcurrencyLimit`, proving tasks, timers | `poll_ready`, `call`, the local and network prover services | permits kept in a service value while clones are called; tasks that outlive their caller; timeout against late result; panics |
| agglayer-prover | the Buffer's channel and its worker | `generate_proof`, `create_service`, `main` | cancelled clients, a full Buffer, a request timeout that is built and dropped |
| aggchain-proof-core, bridge | none: pure | `BridgeConstraintsInput::verify` and its parts, `filter_values` | adversarial witnesses, removals and re-insertions over several proofs |
| aggchain-proof-core, full execution proof | none: pure | `FepInputs::verify`, public values, claim root | which values bind the block; 32-bit block number |
| aggchain-proof-program | none | verify, then commit | the only judge of a witness |
| aggchain-proof-builder | keys, contracts client, a handle of the inner Buffer | `new`, `poll_ready`, `retrieve_chain_data`, `call` | many RPC reads of a chain that moves between them; a Buffer slot that nobody uses |
| aggchain-proof-service | clones of its two services | `new`, `poll_ready`, normal and optimistic requests | the proposer chooses the end block |
| aggkit-prover | the outer Buffer | `runtime`, two handlers | decoding, range check, a context made before the range is known |
| proposer-service, proposer-client | connections, verification key | `new`, request, wait, verify | the proof arrives long after the answer that names its range |
| aggchain-proof-contracts | L1 and L2 connections; sequencer and configuration name read once | `new`, six reads used by a request, the host's static calls | answers from different blocks; cached L1 values |
| prover-alloy | none | reads with retries | no timeout, a count of retries |
| prover-engine | cancellation token, two runtimes, two server tasks | `start` | graceful shutdown with requests and blocking threads running |
| configuration, generated types, logging, ELF utilities | plain data | parsing, conversion | nothing that changes state at run time |

`PROJECT.json` lists all components with their sources and status, the hazards
at their lines, and for every definition the source lines it stands for.

What makes each part correct:

* executor: no permit is lost or duplicated; the Buffer neither loses nor repeats
  a message; a client gets one answer at most and never an unverified proof; every
  request is answered; time in the executor is bounded by the timeouts;
* bridge constraints: a proof that names the blocks of its range, whatever else is in
  its witness, covers only GERs of the L1 info tree and commits to the exit root of the
  range and to the claims that stand at its end, each with its leaf, but for indices
  claimed before the range (section 6, item 4); so every claimed index is in some
  commitment; and no honest range is refused;
* request flow: whatever the chain does meanwhile, a returned proof is about one
  chain, and its context describes that chain; a truncated block number never stands
  for another state; an end block that nobody asked for changes nothing on the bridge;
  a request is taken whole or not at all; a quiet chain is provable;
* aggkit-prover: although it keeps settings of L1 from its start, a proof that L1
  settles was vouched for under the settings that are in force; nothing waits forever;
* engine: a graceful shutdown abandons no request and ends.

## 2. Modules

| module | models | extends |
|---|---|---|
| `ProofService` | abstract: what a proving service promises its clients | |
| `ProverExecutor` | the handler, Buffer, limits, `Executor` and its provers | instantiates `ProofService` |
| `ProverDeadline` | the same with a clock: the Timeout layers | `ProverExecutor` |
| `ProverExecutorProofs` | theorems about `ProverExecutor` | `ProverExecutor`, TLAPS |
| `ProverDeadlineProofs` | theorem about `ProverDeadline` | `ProverDeadline`, `ProverExecutorProofs` |
| `HashChains` | `filter_values`, `validate_hash_chain` as operators | |
| `FilterValues` | `filter_values` loop by loop | `HashChains` |
| `FilterValuesProofs` | theorems about `FilterValues` | `FilterValues`, `BridgeConstraintsProofs` |
| `L2Bridge` | external: the GER manager and bridge contracts | |
| `BridgeConstraints` | `BridgeConstraintsInput::verify` | `HashChains`, `L2Bridge` |
| `BridgeConstraintsProofs` | lemmas: induction, counting, `filter_values`, hash chains | `BridgeConstraints`, TLAPS |
| `BridgeSettlement` | sequences of proofs over a growing L2 chain | `BridgeConstraints` |
| `BridgeSettlementProofs` | theorems about `BridgeSettlement` | `BridgeSettlement`, `BridgeConstraintsProofs` |
| `RequestDecoding` | the conversion of a gRPC request and its errors | |
| `AggchainProofFlow` | one request through aggkit-prover, and the L2 chain | `BridgeConstraints`, `RequestDecoding` |
| `AggchainProofFlowProofs` | theorems about `AggchainProofFlow` | `AggchainProofFlow`, `BridgeConstraintsProofs` |
| `AggkitProver` | an aggkit-prover process: start-up, requests, Buffers, L1's settings | instantiates `ProverEngine` |
| `AggkitProverProofs` | theorems about `AggkitProver` | `AggkitProver`, TLAPS |
| `ProverEngine` | `ProverEngine::start`: start, serving, shutdown | |
| `ProverEngineProofs` | theorem about `ProverEngine` | `ProverEngine`, TLAPS |
| `MC...` | instances for TLC | |

Definitions named "Mutant" in a comment are not used by any specification. Each
is a plausible mistake in the definition that follows it; replacing the definition
by it makes the property that `PROJECT.json` pairs with it fail.

### ProverExecutor

One variable per piece of state: `pc` (where a handler is), `stage` (which prover
`Executor::call` is at), `answer`, `job` (the proving task of each prover for each
request), `queue` and `hand` (the Buffer's channel and the message its worker
holds), `polling` and `reserved` (a `poll_ready` in progress and the permits it
left in the worker's service value), `free` (the semaphores).

`Receive`, `Enqueue`, `Resolve` are `generate_proof`; `WorkerTake`, `WorkerDrop`
the Buffer's worker; `Reserve` and `WorkerCall` `Executor::poll_ready` and `call`
behind the outer limit; `ProverCall` the `ready().await?.call(..)` on a clone of
the prover service; `Prove` and `Verify` the body of the local and the network
prover; `Timeout` the Timeout layer; `Cancel` a client that leaves.

The point the model keeps in full is where permits live. tower's `ConcurrencyLimit`
keeps the permit that `poll_ready` got in the service value, a clone starts without
one, and `call` moves it into the response future. `Executor::poll_ready` polls
`self.primary` and `self.fallback` but `call` uses clones, so one permit of each
limited prover stays in `self` for good. A layer that is absent from `Limits` has
no limit (the network provers; the outer layer in aggkit-prover).

A task of a local prover runs on a blocking thread and goes on when the future that
awaits it is dropped; a network prover's future is dropped with it.

### ProverDeadline

Adds a clock of ticks. `age` counts since the worker's call, `spent` since the
current prover's call; a due timer and a step that is ready at once are taken
before the next tick. `Horizon` bounds the clock past every deadline.

### HashChains, FilterValues, L2Bridge, BridgeConstraints, BridgeSettlement

Hashes and commitments are taken to be free of collisions, so each stands for what
was hashed. A block is the history of bridge events up to it: its hash determines
them and the contracts' storage is a function of them. An L1 info root is the set
of GERs below it; a Merkle proof exists for exactly these; the set only grows.
A static call gives a value only on a sketch that is anchored at the expected block
and holds the state the call reads. The host puts that state there by making calls of
its own, so a sketch carries the set of calls made on it (`EvmSketch`).

`BridgeSettlement` emits events that the contracts admit and runs the program
(`verify_aggchain_inputs`: `FepInputs::verify`, then the bridge constraints) on
arbitrary witnesses. `Prove` quantifies over the two block hashes, the sketches, the
lists, the commitment, the exit root, the end block and the mode. Aggregation proofs and
the sequencer's signature are external: they vouch for state roots of the chain
(`Vouched`). So is `Settle`: L1 takes a proof whose `l2_pre_root` is the state it has.
State roots that are not vouched for or do not settle, and lists longer than what the
two blocks can differ by, are left out of the search: they fail the checks that follow.

Assumption: a proof names the blocks of its range. The hashes at which the bridge
constraints are checked, `prev_block_hash` and `new_block_hash`, are fields of the
witness (`aggchain-proof-core/src/proof.rs:66`). Neither is a public value, and no check
ties them to the state roots, to each other or to the proof before; the claim root that
would have is the state root alone (section 6, item 3). The program accepts proofs that
name other blocks, and the model takes them; but about these nothing can be said, and the
history is forgotten. `last.named` says that the last proof named its blocks, `bound` that
all did; `CommitmentExact` is stated under the first, `GersLegitimate` and
`ClaimsReported` under the second. `HonestRangeProvable` needs neither. What speaks for
the assumption is that `AggchainProofBuilder` fills in the hashes of the two blocks it
read (`get_l2_output_at_block`), and that a mixture of blocks in its own witnesses does
not pass (`ProofOfOneChain`).

### RequestDecoding, AggchainProofFlow

A request on the wire carries the set of its faults, each a field and whether it is
missing or invalid. The operators of `RequestDecoding` are the `TryFrom`
implementations: the errors that a request has, in the order in which the code meets
them, of which the client is told the first. The two handlers check the range at
different points of that order, as in the code. `wire` keeps the request as sent.

`chain` grows before the request and is reorganised during it. The handlers, the
proposer's answer, its proof, each RPC read, the check of the keys on L1, the
comparison of public values and the run of the program are separate steps, so
every reorganisation falls between any two of them. `Fail` is any error of an RPC,
of the proposer, of the wait for or the check of its proof, or of the prover.

Assumptions, all about parts outside the repository:

* the last proven block is settled; reorganisations stay above it;
* the proposer names any end block of the chain, below the last proven block or beyond
  the requested one included: no line compares its answer with the request;
* a verified aggregation proof is of some range of the chain of its time;
* an aggregation proof's other public values (L1 head; rollup configuration, keys and
  sequencer are `AggkitProver`'s) match, or the comparison fails like any other
  mismatch;
* the aggsender describes the chain as it is when it submits; its map of GERs has
  the GER as key, hence one entry per GER;
* a block has one bridge event: the order of GERs within a block, by `block_index`
  (`aggchain-proof-types/src/proof.rs:62`), is not modelled;
* the Erigon client reads sketches from another node than the other values
  (`http://127.0.0.1:8123`). A node that is behind or ahead answers like the same
  node at another time, which a reorganisation between the reads covers.

### AggkitProver

The process around those requests, in the variables of `ProverEngine` and eleven of
its own. `boot` is what is left of start-up: each constructor is the sequence of the
steps it waits for (`AggchainContractsRpcClient_new`, `ProposerService_new`, ...) and
`runtime` their composition; every step can fail and ends the process, and the
contract reads are retried. `l1` has the settings of AggchainFEP, which governance
changes at any moment, `client` the copy that start-up made: the sequencer, and the
name under which each request looks up the configuration.

A request goes through `stage`: decoded, into the outer Buffer (`queue`), called by
its worker, to L1 for a block number, to the proposer and back with a proof, to the
chain data, into the inner Buffer (`inner`), to the Executor. `AggchainProofService`
calls clones of its services, so the slot of the inner Buffer that
`AggchainProofBuilder::poll_ready` took stays in the original (`reserved`) and every
later `poll_ready` finds it there; the clone in `call` takes another. tower's Buffer
keeps the slot of a message until its service is called with it. `witness` has what
the proof is made for, `seen` (history) the configurations that L1 had during the
request.

What a proof says about L2 is in `AggchainProofFlow`; here a proof is the part of its
public values that comes from the settings, vouched for by the aggregation proof or
by the signature. That a proof "settles" means that its aggchain parameters are the
ones AggchainFEP computes from its settings (`ParamsOnL1`, external). Whether L1 is in
optimistic mode is not read by this code and not modelled. A behaviour is one life of
the process: nothing is persisted, and a restart is another behaviour.

### ProverEngine

`main` is the position of the main thread in `start`; `token`, `rpc`, `metrics`
the cancellation token and the server tasks; `request` and `threads` the requests
and the proofs on blocking threads. A signal before the handlers are installed
ends the process (`Killed`).

## 3. Runs

| run | instance | shows |
|---|---|---|
| `executor_cpu` | 3 requests, limits of 2 at all three layers, Buffer of 2 | `TypeOK`, `PermitsConserved`, `OnePermitIdle`, `BufferFaithful`, and that the executor implements `ProofService` |
| `executor_live` | 2 requests, same limits, Buffer of 1 | `EveryRequestAnswered` |
| `executor_one_permit` | 1 request, fallback with one permit | violated: `EveryRequestAnswered` (section 6) |
| `deadline_network` | 2 requests, timeouts of 2 and 3 ticks | `NetworkDuration` |
| `deadline_default` | 1 request, prover timeout above the request's | violated: `WithinMaxRequestDuration` (section 6) |
| `filter_values` | lists of up to 3 removals and 5 values over 2 keys | `TypeOK`, `BagDifference`, `KeepsLatest`, `RecursiveFormAgrees` |
| `bridge_settlement` | 4 events, 1 GER, 1 index, 2 leaves, one block off the chain | `GersLegitimate`, `ClaimsReported`, `CommitmentExact` (all three assume that proofs name their blocks), `HonestRangeProvable` |
| `aggchain_flow` | 2 blocks, 2 reorganisations, 1 GER, 1 claim | `ProofOfOneChain`, `ContextDescribesProof`, `QuietRangeProvable`, `UnaskedEndBlock` |
| `aggchain_request` | 3 blocks, any two faults, block numbers modulo 2 | `BlockNumberExact`, `UnaskedEndBlock`, `RequestTakenWhole` |
| `aggkit_prover` | 2 requests, Buffers of 1 and 2, one retry, one change of L1's settings | `TypeOK`, `OnlyCurrentSettles`, `KeysCheckedInRequest`, `SettlesUnlessChanged`, `OneInnerSlotIdle`, and that the process implements `ProverEngine` with its fairness |
| `claim_root` | 2 blocks, no reorganisation | violated: `ClaimRootBindsBlock` (section 6) |
| `engine_shutdown` | 3 requests | `NoRequestAbandoned`, `ShutdownCompletes` |

Why the bounds are enough. With limits of 2 one permit is the idle one and the
other is competed for; the third request finds the Buffer full and the permits
taken. The Buffer of 1 in `executor_live` makes every wait happen. Two prover
timeouts of different length tell the two timers apart. Three removals and five
values of two keys have counters that reach zero, removals without a value and
values on both sides. Four events hold insert, remove, insert again and remove again,
and claim, unset, claim again with an exit before, between or after, in every split
into ranges, with two leaves to tell a claim from the next. A witness can name every
block of the chain and one that is not of it, at both ends. That several GERs and
indices do not disturb each other is left to the theorems.

With two blocks a range can insert and remove, or claim and unset; with two
reorganisations the chain that the request describes can be replaced before the
aggregation proof and come back before the sketches are read, which one reorganisation
cannot do. With one GER and one claim the witness lists have one element at most: that
longer ones are in the order of the chain is shown by the theorem `QuietRangesProvable`
and not by the run. In `aggchain_flow` no block number reaches `BlockModulus`; in
`aggchain_request` it is 2 and stands for 2^32, so blocks 2 and 3 truncate, to a block
that is inside or below the range. Three blocks leave room for an end block on either
side of the last proven and of the requested one. `UnaskedEndBlock` is checked in both
runs: an end block beyond the requested one needs numbers that do not truncate, one
below the last proven block three blocks. Two faults are what it takes for their order
to matter.

In `aggkit_prover` the change can be of the sequencer, of the selected name, of a good
configuration into another good one or into one with other keys, at any point of
start-up or of a request; two requests fill the outer Buffer and compete for the one
slot of the inner one that is not kept. `SettlesUnlessChanged` is about processes that
saw no change. What becomes of a process that read its settings in the middle of one is
`OnlyCurrentSettles`: its proofs settle only if what it read is what is in force.

Deadlock is not checked where it is no error: clients, events and blocks are
bounded, and a request, a filter or a process ends. `EveryRequestAnswered`,
`ShutdownCompletes` and `ImplementsEngine` say what must not stop.

Fairness. `ProverExecutor`: tokio polls every woken task and fires timers (weak
fairness of the worker's steps and of the end of a running prover call, by result
or by timeout); tokio's semaphores are first in, first out (strong fairness of the
steps that take a slot or a permit). Nothing is assumed of clients, and provers may
run forever. `ProverEngine`: the main thread and the server tasks proceed, and every
running request ends, which is what `EveryRequestAnswered` says of the requests
behind it; blocking threads may run forever. `AggkitProver` assumes less than that and
implies it (`ImplementsEngine`): the runtimes poll what was woken, a wait for a slot
of a Buffer is first in, first out (strong fairness), and each call that a request
waits for is answered, refused or fails. For the proposer and the prover network that
is due to their timeouts (600 s and 3600 s by default), for the Executor to
`EveryRequestAnswered`. For the RPC nodes it is an assumption: the code sets no
timeout on its HTTP clients. Nothing is assumed of clients, signals and governance.

## 4. Proofs

Every invariant that a passing run checks is also a theorem, for every value of the
constants. What is assumed of these are the `ASSUME`s of the models and nothing else:
requests are finitely many and distinct from `NoRequest`, limits, bounds and timeouts
are naturals, the block modulus is not zero, a limited fallback exists, faults are of
fields that a request has, L1's settings are of their types and start with no change
counted. `ProverEngine` has none.

Lists of any length. `Items`, `filter_values` and `FlattenSeq` are recursive functions.
`BridgeConstraintsProofs` shows that their defining equation has a solution and what it
is element by element (`FilterUnfold`, `ItemsUnfold`; `FlatUnfold` in
`AggchainProofFlowProofs`), by induction on a set of naturals: `NatInduct` follows from
the well-foundedness of `<`, `SeqInduct` from that. The later lemmas are about one
element more (`ItemsAppend`, `FilterAppend`, `FlatAppend`) and about concatenation.

### The executor

* `TypeCorrect`: `TypeOK` is inductive.
* `PermitsCorrect`: `TypeOK /\ PermitsConserved` is inductive. The lemmas
  `PermitsReleased` and `PermitsTaken` say how the sets of permit holders change
  with a single `free` update.
* `OnePermitIdleCorrect`: from `PermitsConserved` and `PermitKept`: once the worker
  has called the executor, a permit of each limited prover stays in `reserved`. No
  step takes it away, which is exactly the behaviour that section 6 is about.
* `BufferCorrect`: `BufferInv` adds to `BufferFaithful` that no request is in the
  channel twice, or in the channel and in the worker's hand.
* `ExecutorImplementsService`: initial states map to initial states and every step
  to a step of `ProofService` or a stutter. `OnlyVerified` (no job ends with an
  unverified proof) gives the answers, `RoomAtCall` (by `PermitsConserved`, a
  reserved outer permit means that fewer requests than the limit execute) the
  capacity.
* `NetworkDurationCorrect`: the age of a request is bounded by where it is: by
  `spent` while the first prover runs, by the first timeout plus `spent` during the
  second. It needs that a network prover is never waited for before its call.

### The bridge constraints

* `FilterTypes`, `FilterIsBagDifference`: `FilterInv` relates each counter to what was
  counted and used up: it is the removals minus the values met so far, stopped at zero.
* `FilterKeepsLatest`, `LoopsAgree`: a value is skipped as long as fewer values with its
  key came before it than there are removals (`FilterOut`), so the counters are not
  needed to say what is kept.
* `ProvenGersLegitimate`, `ProvenClaimsReported`, `ProvenCommitmentExact`: under the
  assumption of section 2, that proofs name their blocks; the rest of the witness, the
  sketches included, is arbitrary. `ProveMeans` is what that leaves of a step: the
  anchors of the sketches and the hash chains allow one choice of the lists
  (`ExtendsRange`).
* The GERs and the indices: on a chain that the contracts admit, a GER or an index was
  set as often as undone, and once more if it is in force (`GersBalanced`,
  `IndicesBalanced`). Over a range the difference is that of being in force at its ends
  (`Net`), so what `filter_values` keeps covers all that came into force.
* The commitment: `filter_values` keeps a claim of the range exactly if no later event
  unsets it and its index was not claimed at the start of the range
  (`StandsByCounting`, `Fresh`): if it was, the range has one more unset of the index
  than claims before, and each claim has an unset to be dropped for.
* The leaves, in `ProvenClaimsReported`: a claim that stands is `Fresh` in the range it
  was made in, hence reported by that range's proof (`FreshCommitted`), or its index was
  claimed where that range starts. `EndsInv` makes the end of the last range the start
  of the next; a claim that stands now stood at every end since (`StoodBefore`).
* `HonestRangesProvable`: what the true lists keep is in force at the end of the range
  (`InsertedInForce`), so it has inclusion proofs; the true state roots are vouched for
  (`HonestVouched`).

### One request

`IInv` of `AggchainProofFlowProofs` says of every answer that was read, and of the block
that the aggregation proof ends with, that it is of a block which had that number at
some moment of the request (`Past`): it agrees with the chain of now up to the last
proven block, and everywhere if there was no reorganisation. Nothing relates two answers
to each other; that is left to what the program checks.

* `ProofIsOfOneChain`: the anchors of the sketches make them sketches of the two blocks
  whose hashes were read; these agree up to the shorter one, so one is a prefix of the
  other, and the only lists that pass `validate_hash_chain` are those of the blocks
  between (`ExtendsRange`), or empty ones when the new block is below (`ExtendsBelow`).
* `ContextIsOfProof`: what the program was given is the context, cut to the range.
* `BlockNumberIsExact`: the aggregation proof is of a block with the truncated number,
  and the comparison makes its state root that of the block that was read; in optimistic
  mode the signature has the number itself.
* `UnaskedEndBlockHarmless`: the lists of the request have no more entries than the
  requested blocks have events (`GersDescribe`, `ExitsDescribe`), so the blocks beyond
  have none. Below the last proven block, state roots of a longer block are never
  shorter (`StateBelow`), in both ranges that the comparison makes equal.
* `RequestIsTakenWhole`: the list of errors names exactly the broken fields (`Names`),
  proved converter by converter (`NamesGers`, `NamesExits`, `NamesInputs`,
  `NamesOptimistic`, `NamesRange`), hence it is empty exactly if there is none and its
  head is one of them. `WholeInv` adds that there is no request before the submission.
* `QuietRangesProvable`: with nothing removed the contracts insert no GER twice
  (`QuietInsertsOnce`), so the request's map, which keeps one entry per GER, loses
  none, and the lists that the builder makes are those of the range. `ComparedInv` adds
  that a proof which reaches the prover passed the comparison.

### The processes

* `AggkitTypes`, `SettledIsCurrent`, `KeysOfTheRequest`, `UnchangedSettles`: the
  invariant says that the client's copy is L1's as long as no change was counted since
  the first read (`ClientInv`; the name is read before the configuration, `Ordered`),
  and that a witness is made of that copy and of a configuration in `seen`, with the
  keys of the programs (`WitnessOf`).
* `InnerSlotIdle`: `SlotInv`: from the first call on, a slot of the inner Buffer is kept.
* `AggkitImplementsEngine`: steps of requests and of start-up are steps of
  `ProverEngine` or stutters (`BootInv`: nothing is served before start-up is over).
* `ShutdownAbandonsNothing`: `DrainInv`: past the await the RPC server has stopped,
  and a server that has stopped has no running request and accepts none.

Only model-checked: what is under fairness (`EveryRequestAnswered`, `ShutdownCompletes`
and the liveness part of `ImplementsEngine`), which is out of the prover's reach, and
the three violations of section 6, which are counterexamples.

## 5. What is not modelled

* EVM execution, Merkle trees, signatures, SP1 itself: external, as described above.
* Encodings, except where a property is about them (the 32-bit block number, the claim
  root): a value that does not decode is an error.
* The generated gRPC code, a quarter of the implementation's lines.
* What configuration files say, logging, ELF and key utilities, back-off times.
* The mock prover's own behaviour (it asks the proposer for a proof by the low 64 bits
  of the request id) and the test-only server of agglayer-prover.
* `AggchainContractsRpcClient`'s own sketches and output roots: `AggchainProofService`
  uses the ones of `ErigonContractsClient`.

## 6. Where code and documents disagree

1. *One permit is none.* With `max-concurrency-limit` 1 for a prover, the permit
   that `Executor::poll_ready` keeps in `self` is the one that `call`'s clone waits
   for; the request is never answered (`executor_one_permit`). The test
   `executor_fallback_behavior_cpu` (`prover-executor/src/tests.rs:112`) builds such
   a fallback and expects an answer; it calls the executor without `poll_ready`,
   which the Buffer of the services does not. More generally a limit of n admits
   n - 1 proofs at once (`OnePermitIdle`, proved).
2. *No request timeout.* `create_service` takes `into_inner()` of the Timeout that
   it has just built, so `max_request_duration`, "The maximum duration of a
   request.", has no effect (`deadline_default`). What bounds a request with network
   provers is the sum of their timeouts (`NetworkDuration`).
3. *The claim root is the state root.* `compute_output_root` ignores the withdrawal
   storage root and the block hash that the documentation of `ClaimRoot` names, so
   blocks that leave the state alone share a claim root (`claim_root`). Nor does any
   other public value have the block hashes at which the bridge constraints are checked:
   what section 4 says of sequences of proofs assumes that each names the blocks of its
   range.
4. *A second claim of an index can go uncommitted.* `verify_constrained_global_indices`
   drops as many claims of an index as the range has unsets of it, also when an unset is
   of a claim of an earlier range. Claim (i, x); in the next range unset i and claim
   (i, y): the first proof commits to (i, x), the second to nothing, and (i, y) stands.
   The witness documents its field as "Commitment on the imported bridge exits minus the
   unset ones." (`aggchain-proof-core/src/proof.rs:27`). By index, as the comment of the
   function has it (`bridge/mod.rs:331`), that is what the code computes; by exit it is
   not. This is part of what `CommitmentExact` states and `ProvenCommitmentExact` proves;
   `ClaimsReported` says what remains: the index is reported, and this is the only case
   in which the claim is not.

## 7. Plan

Done: the executor with its clock, the bridge constraints, the request flow with
decoding, the engine and aggkit-prover as a whole, with all their invariants proved.
Next: action properties of `ProverExecutor` and `AggkitProver` that the invariants imply
only together: an answer, once given, stays; no step but a client's takes a request out
of a Buffer; and the fallback is tried before a request is refused.
