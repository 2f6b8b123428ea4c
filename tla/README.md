# A verification project for BeaconKit

BeaconKit is a beacon chain that runs as an ABCI application on CometBFT and drives an
EVM execution client over the engine API. This directory holds TLA+ models of its own core
logic, TLC configurations that check them on small instances, and TLAPS proofs. Paths
are relative to the repository; `mod/` is where its Go modules live.

`PROJECT.json` lists every component, run, mutant, finding, hazard and theorem, and maps
each definition of a model to the lines it stands for.

## 1. The system

### How the parts work together

CometBFT calls the node three times per block. **PrepareProposal** asks the validator
service for a block: a payload from the payload builder, deposits from the deposit store,
sidecars and a state root computed by two goroutines. **ProcessProposal** verifies
a proposed block on a copy of the state that is thrown away afterwards, and starts
goroutines that ask the execution client to build the next payload. **FinalizeBlock** applies
the decided block to the state, persists the blob sidecars, and starts a goroutine that
announces the block on a feed. Two kinds of subscribers live on that feed: the deposit service,
which reads the deposit contract's logs a few blocks back, and the pruners of the
deposit store and of the availability store. Only **Commit**, later, makes the state
durable; the deposit store and the blob files are written directly and not with the state.

Before all that, the **genesis commands** put the first deposits and the execution client's
genesis block into a file, of which InitGenesis makes the first state; and the **service
registry** starts the services one after the other and waits for the execution client.

### Inventory

| Component | State | Operations | What is hard | What makes it correct | Modules |
|---|---|---|---|---|---|
| Deposit service (`execution/pkg/deposit`) | `failedBlocks`, feed subscription | fetch on a block event, catch up on a timer | events out of order, failing reads and writes, crash, number wraps below the follow distance | every deposit old enough reaches the store, none is skipped | DepositPipeline |
| Deposit store (`storage/pkg/deposit`) | index to deposit, on disk | enqueue, read from an index, prune | half-written batches, pruning while others read | a read returns a gap-free run; nothing unapplied is pruned | DepositPipeline, DepositQueue |
| Pruners and manager (`storage/pkg/pruner`, `manager`) | none of their own | event, range, `Prune` | late and reordered events | prune only what is no longer needed | DepositPipeline, AvailabilityStore |
| Block feed (`async`, `beacon/blockchain/process.go`) | waiting senders | send from one goroutine per block | no order among senders | – | both |
| File database (`storage/pkg/filedb`) | files, `firstNonNilIndex` | set, has, delete, delete range, prune | no lock, crash between create and write, partial removal | no file below the bound | RangeDB |
| Availability store (`da/pkg/store`) | the blob files | persist, is-available, prune window | goroutine per sidecar, crash, pruning ahead of commit | blobs of the window are complete on disk | AvailabilityStore |
| Blob factory and verifier (`da/pkg/blob`) | none | build and verify sidecars | sidecars are built while the block changes; two proofs joined by computed offsets | honest sidecars pass verification, others do not | ProposalAssembly, SSZMerkle, Merkleization |
| Blockchain service (`beacon/blockchain`) | once-flags | verify incoming, process, payload goroutines | goroutines that outlive their round | proposals extend the finalized block | PayloadBuilding, StateTransition |
| Validator service (`beacon/validator`) | none | request block for proposal | concurrency over one block, state read at several points | an honest block is accepted | ProposalAssembly, StateTransition |
| Payload builder, cache (`payload/pkg`) | payload IDs per slot and parent | request async and sync, retrieve, cache get, set, prune | stale IDs, late stores, size limit | an ID answers the slot and parent it was built for | PayloadBuilding |
| Execution engine and client (`execution/pkg/engine`, `client`) | connection | start, forkchoice update, new payload, get payload | statuses, errors, timeouts, retries | no failure passes for a verdict, none stops the node | EngineClient, AbciNode |
| State processor (`state-transition/pkg/core`) | registry, balances, counters, rings of roots and mixes, slashings | slots, epochs, header, payload, randao, withdrawals, deposits | a change of many steps with an error at any of them; wrap-around of sweep, rings and counters | what is accepted can be applied; rings and stake follow the chain | StateTransition, Staking |
| Beacon state database (`storage/pkg/beacondb`) | the collections and their indexes | add, update, read, copy, save | layered contexts, an index beside the data, a codec that all share | indexes and data agree, an abandoned copy leaves no trace | BeaconDB |
| ABCI middlewares (`runtime/pkg/runtime/middleware`), encoding | cached validator updates | genesis, prepare, process, pre-block, end-block | cached values that survive an early return, a response built too early | CometBFT's validator set is the state's | AbciNode |
| Service registry and runtime, node assembly | list of services | register, start | order; a service that waits for ever | handlers run only once the client is connected | AbciNode |
| Merkle trees (`primitives/pkg/merkle`) | layers of nodes | build, insert, prove, verify, hash a level in parallel | in-place update, split over processors | every way leads to the root of the leaves | MerkleTree, GrowingTree, ParallelHashing |
| SSZ (`primitives/pkg/ssz`), consensus types, engine primitives | none | marshal, unmarshal, size, root, JSON, hashes of a payload | limits, offsets and sizes written several times over | what is written is read back, what is stored has a root, a payload keeps its hash | SSZCodec, SSZContainers, SSZBellatrix, SSZMerkle, Merkleization, EnginePayload, PayloadJourney |
| Command line (`cli/pkg/commands`) | deposit files, genesis file | add-premined-deposit, collect, execution-payload, create-validator | repeated and interrupted commands | the file makes the state it stands for | GenesisCeremony |
| Chain spec, primitives | none | slots to epochs, data availability period | – | read where they are used | StateTransition, AvailabilityStore |
| KZG bindings, node API, contracts, deployment | see PROJECT.json | | | | not modelled, with reasons there |

## 2. The models

### DepositPipeline, DepositQueue

`DepositPipeline` follows a deposit from the contract's log to the state's
`eth1DepositIndex` on several nodes that share one finalized chain. A deposit is its index in the
log. `chain` is the finalized chain: for each block the contract's count after its payload,
the deposits it carries and the state's counter after it. Each node has
its own heights (finalized, committed), feed (`feedq` is the set of goroutines waiting to send,
`sending` the event under way), fetcher, pruner, store on disk and `failedBlocks` in
memory. `ProposeBlock` is the proposer's dequeue together with the decision and the state
processor's counting; `FetchSucceeds` and `FetchFails` are the ends of
`fetchAndStoreDeposits`, the second with any prefix of the block's deposits already stored; `Crash` forgets
what is only in memory and lets CometBFT replay an uncommitted block. `lost` is a history
variable: the block numbers a crash has forgotten.

`DepositQueue` says what all that promises: a first-in-first-out queue whose consumer sees only
entries that are old enough. `ImplementsQueue` is the refinement, with the mapping
`counts <- ` the contract's counts and `next <- ` the state's counter.

### RangeDB, AvailabilityStore

`RangeDB` is the file database: `Set` in its two file-system steps, `Prune`
directory by directory, its failure in the middle of a directory, and the loss of the bound in a
restart. `AvailabilityStore` uses it as
the node does: one goroutine per sidecar, the check of availability, acceptance, commit, crash, and
the pruner driven by events in any order.

### PayloadBuilding

Which payload a proposal carries. `requests` are the running calls of `RequestPayloadAsync`, each
with the arguments it was called with and the step it is at (cache lookup, forkchoice update,
cache store), so that calls interleave at each of them; `posts` are the goroutines that FinalizeBlock
leaves behind. A payload is its parent and the state its attributes were read from. The
execution client (external) may not answer, forget its payloads in a restart, and
receive updates in any order.

### ProposalAssembly

The errgroup in which `RequestBlockForProposal` builds the sidecars (one goroutine per blob, each
copying the block's header) while another goroutine sets the block's state root.

### Staking

The stake-handling part of the state transition, one iteration of each loop per step, on
the copy `st` of the state that a transition works on. `saved` is the state of the last
finalized block; only FinalizeBlock's transition is saved. The registry,
balances, the deposit counter, the withdrawal counters, the slot and the epoch's validator updates are
modelled with their arithmetic; public keys and credentials are abstract. `power` is CometBFT's validator set (external).

### StateTransition

The other half of the transition: the header, the three rings (block roots, state roots, randao
mixes), the slashings vector, the payload checks and the context flags, with every error that
ends it. The same operators `ProcessSlots` and `Transition` are run by the three callers that
have to agree: `RequestBlockForProposal` (no checks, on a copy whose slots are advanced before
the block is filled in), `VerifyIncomingBlock` (all checks) and `FinalizeBlock` (optimistic
engine, saved). The engine answers valid, accepted, invalid or not at all. With *accepted* the verifier's transition
ends at the payload and the block passes all the same (`AcceptedTransition`, `receive.go:170-176`): the verdict is
then "halfway", and an optimistic payload begun on that copy is marked so. A root is the index of a value in a table of all that was hashed, a mix the set
of reveals that were XORed into it. A proposer may get any one thing of `Faults` wrong, heights
pass without a block, rounds are abandoned, and payloads are built ahead of time on states that
are then given up.

### EngineClient, AbciNode

`EngineClient` classifies the answers of the engine API as `handleRPCError`,
`processPayloadStatusResult` and `VerifyAndNotifyNewPayload` do, optimistic and not, and has the
connection (`initializeConnection`, the JWT refresh of HTTP). The execution client is
external: up, down or of another chain. `AbciNode` is one node around it: the registry starts the
services in `serviceTypes`' order, the engine client retrying; then the handlers run. A proposal
is its two transactions. `PrepareProposalHandler` may read them before the goroutines have filled them in
(`validator.go:207`; Go leaves the order open, so both are taken), and another node may send anything: no block, one
that does not decode, one with an invalid payload ("bad"), one that fails a check after the payload ("flawed"), and one that the decoder refuses only
for the bytes at its end ("cut"). ProcessProposal ignores the decoder's error (`validator.go:234-237`) and verifies what the decoder has
filled in (`block.go:92-94`), so that a block of the last kind can be accepted and decided; PreBlock does not ignore it and leaves the block out. `valUpdates` is the field in
which PreBlock leaves the updates for EndBlock; `comet` is what CometBFT makes of them. A crash
may come anywhere and a decided block is replayed. What a block does to the state is in the two models above; here it
deposits for one validator.

### The algorithms

`SSZCodec` is the code that the SSZ generator writes, as operators on a description of a container:
buffers are sequences of fields with lengths and offsets, and `SSZContainers` and `SSZBellatrix`
hold each container with its own limits where the source has them, three times where the source has them three times.
`SSZMerkle` is merkleization, bit lists, block body
roots and inclusion proofs, `Merkleization` the requests that are made of it (the root of a list, the sidecars of a body), `MerkleTree` the tree, its proofs and generalized indices
(a hash is the pair of its arguments), `GrowingTree` a tree that is built and then gets leaves inserted, at any index, `ParallelHashing` the split of a level
over goroutines, which the trees use for their layers with the host's `Goroutines`, `EnginePayload` the JSON codecs and the hashes of a payload request, `PayloadJourney` the way of a payload from one execution client to another, where a mixture of two may arrive.

`BeaconDB` has state: layers of writes (the committed store, a copy, a copy of that), each with
the collections under their prefixes and the references of the indexed map, set index after index; an operation that
fails leaves its layer spoiled, which may be thrown away and not saved. `codec` is the fork
version that all copies share. `GenesisCeremony` has the deposit files, the commands between the
creation of a file and its content, the genesis file and the first state; a file is known by the place of its name among all
names, since `os.ReadDir` sorts by name. `Iteration` has the orders in which files and the keys of a store are visited.

`MCAlgorithms` puts all these in one specification: a behaviour is a job (a value that is encoded,
disturbed and decoded; a list, a document), or the hashing of a layer, or the growth of a tree, or a sequence of
operations on the database, or a genesis ceremony.

## 3. The runs

| Run | Question | Result |
|---|---|---|
| Deposits | Do deposits reach the state in log order, without a silent loss and without pruning one too early, with failing fetches, a crash, a lagging client? Is every one that is old enough stored in the end? | holds; also implements `DepositQueue` |
| BlobAvailability | Are the window's blobs complete on disk, is the file database's bound right, through crashes, failed writes and failed prunes, and are old blobs removed in the end? | holds |
| PayloadProposals | Does a proposal extend the finalized block, with optimistic builds and without, when goroutines of abandoned rounds run late and both sides restart? Is an undecided block ever called finalized? | holds; never |
| PayloadAccepted | Is ignoring an ACCEPTED status safe? | **violated**: the state it builds from has stopped half-way |
| ProposalSidecars | Does a validator accept an honest proposer's sidecars? | **violated**: headers may be copied before and after the root is set |
| Staking | Are registry, balances and withdrawal numbers consistent over saved and abandoned transitions? Is every excess paid out, do voting powers follow the stake? | holds, unless a sweep fails for good |
| StakingNewBalance | Is a new validator's balance the deposit's amount? | **violated**: effective balance plus amount |
| Transition | Is an honest block accepted, is what was accepted applicable in FinalizeBlock, and do the rings say what the chain says, over missed heights and rings that wrap? | holds, but for the status ACCEPTED: a block accepted on it has had half its checks, and an honest block with a payload begun after it may be refused (PayloadAccepted) |
| AbciNode | Does CometBFT's validator set follow the state, when does a node stop, do all nodes make the same of a decided block, does a node accept only what its client vouched for, does it start? | holds; it stops only for a decided block whose sidecars are missing or that was decided on ACCEPTED; nodes may differ only over an invalid payload that some clients do not know to be invalid |
| Algorithms | Do codecs, roots, proofs, hashing, JSON, the state database and the genesis commands do what they are defined to do, on every small input and every short sequence? | holds |
| ParallelRoots | Does the parallel hashing of a level agree with gohashtree for the sizes of the conformance test, on any host? | **violated**: 5000 nodes on 64 processors leave four parents zero |
| InclusionProofs | Does `HasValidInclusionProof` accept the proposer's own sidecars? | **violated**: as soon as the payload has a transaction, whose root is computed in two ways |

A violated run states what a comment or an interface of the repository says and exhibits what the code
does; `findings` quotes both.

### Other differences between comments and code, and limits of the code

Met while modelling; the models follow the code, and no run is about them.

* `KVStore.Prune(start, end)` removes `end` keys from `start` on (`storage/pkg/deposit/store.go:120`), its comment says
  `[start, end)`. Its only caller passes a length.
* The pruner of the availability store counts its window in slots (`da/pkg/store/pruner.go:32`), `WithinDAPeriod` in
  epochs: within the oldest epoch of the period, sidecars are removed that the period still asks for.
* `RangeDB.Prune` with a start above indices in use moves the bound above them (`storage/pkg/filedb/range_db.go:115`),
  against the invariant in its comment. The node prunes from 0 only, where `NoIndexBelowFirst` holds.
* The payload that is rebuilt after a rejected block is cached under the slot of the committed state
  (`beacon/blockchain/payload.go:154`), where the proposer of the current slot does not look.
* When the execution client has forgotten a payload, the fallback of `RetrievePayload` finds the same ID in the cache
  and builds nothing (`payload/pkg/builder/payload.go:51`).
* The payload ID cache keeps one slot more than `historicalPayloadIDCacheSize` (`payload/pkg/cache/payload_id.go:98`).
* The start of the next sweep is computed from the last withdrawal's number and not from its validator
  (`state_processor_staking.go:302`); the two differ once the registry has grown. `ExcessPaidOut` holds nevertheless.
* A deposit for an existing validator raises its effective balance and not its balance
  (`state_processor_staking.go:140`).
* An empty list of sidecars is accepted in ProcessProposal for a block that has commitments, and the same block fails
  in FinalizeBlock (`HaltExplained` says that, apart from blocks decided on the status ACCEPTED, this is the only such case).
* `errors.Is(err, ErrEngineAPITimeout)` (`execution/pkg/engine/engine.go`) is never true, since the client wraps another
  error; the general case that follows treats it alike.
* The logs of a block that the execution client does not have yet are an empty answer and no error
  (`execution/pkg/deposit/contract.go:81`), so its deposits are never fetched. The runs bound the client's lag by the follow distance.
* `failedBlocks` is a plain map of two goroutines (`execution/pkg/deposit/sync.go:96`); Go aborts a process that it
  catches at it, which is the model's crash.
* A deposit for a new validator with a wrong signature fails every block from then on
  (`state_processor_staking.go:182`): each proposer finds it at the head of its store.
* The deposits of the genesis file advance the state's deposit counter (`state_processor_genesis.go:110`), and the contract in
  `contracts/` counts from 0. With G genesis deposits the contract's first G deposits are passed over unless the contract is deployed with
  that count. `AppliedInLogOrder` is stated from the genesis count on, and `DepositQueue` begins there.
* `GetTotalActiveBalances` returns its total in the same statement as the call that computes it
  (`storage/pkg/beacondb/registry.go:251`); Go leaves the order open, the gc compiler reads it after the call.
* `CalculateMultiMerkleRoot` does not find helper nodes at the place it looks for them; it has no caller.
* `Tree.Insert` at an index above the number of leaves (`primitives/pkg/merkle/tree.go:107`) fills up the lowest layer with zeros, but extends the
  list of leaves and each layer above by one node, wherever the index is. The root is then not that of the leaves (four leaves, Insert at 6). Only tests
  call Insert, and `TreeFollowsLeaves` excepts such trees.
* `Tree.Insert` beyond the depth appends a leaf that the root does not cover, and `NewRootWithDepth` of too many leaves is
  zero; the root with length of a tree with the single leaf zero is that of the empty tree, and a proof for it fails.
* Decoders append to the slices of the value they are given, so a reused value keeps the bytes of its
  first use (`payload.ssz.go:150`); every caller decodes into a new one. They accept a gap before the first list, so that such bytes have a second, shorter encoding.
* An empty list of basic values takes one chunk, and a list of containers is never refused for its length
  (`ssz/merkleize.go`).
* Transactions that are nil are written to JSON as `null`, which the decoder of the other side refuses.
* Collecting the genesis deposits twice appends them again: each validator's effective balance counts both
  (`cli/pkg/commands/genesis/collect.go:88`). An interrupted `add-premined-deposit` leaves an empty file that refuses the next
  attempt and every collection (`deposit.go:170`).

### Bounds

Every bound is a constant named as such in its module, or stands in the MC module.

* *Deposits*: one node (the theorems of section 4 are for any set of nodes), four blocks with two deposits each and at most two per
  beacon block, a follow distance of one, one failed block at a time and one
  crash between any two steps. Four blocks leave two events waiting for the feed at once behind the
  follow distance. With a distance of one the subtraction of `sync.go:51` gives 0 for the first block and does not wrap; that it wraps for larger
  distances is in the model, and the theorems are for every distance. `EventuallyStored` does not ask for what a crash forgot.
* *BlobAvailability*: two sidecars (written concurrently), a window of one slot, four slots, one
  restart, one failed prune; two events follow the one that matters.
* *PayloadProposals*: two variants per slot make rounds that are abandoned. With optimistic builds two slots are enough
  for a request of the first to end in the second; without, three slots, since its goroutines
  span a finalization and a commit, with one crash and one restart of the client. The theorems are for any bounds.
* *Staking*: one genesis validator and up to two more, a sweep of three validators with two withdrawals per
  payload (so both the full and the short case of the sweep occur, and the sweep wraps), deposits below
  and above the cap, with a wrong signature and without an address. `U64Mod` is 8: slots and withdrawal numbers
  wrap within a run, which makes the behaviours infinite and the liveness properties meaningful.
* *Transition*: rings of two entries and epochs of two slots over four heights, so that each ring wraps, epochs begin at
  heights with and without a block; one abandoned round; every single fault of a proposal and every answer of the engine.
* *AbciNode*: epochs of two heights over four heights, two validators of which one joins, one crash, one failure of
  the execution client; every kind of block and of sidecars, and every answer of the client that does not contradict the block.
* *Algorithms*: lists of up to two elements and one above the limit, with every field of every container; trees of up to five
  leaves, four at first, inserted in any order, with gaps and without, and depth three, and a depth above the maximum; layers around the size at which hashing becomes parallel, for hosts of 1 to 128 processors; six operations on a database with
  two keys and three layers; ceremonies of two deposits, collected up to twice, with one interruption; lists of up to four elements under limits of up to six; bodies of up to four commitments; documents that lack up to two fields, and pairs
  out of 11 payloads that exchange one field, the hashes or the parent.

`CHECK_DEADLOCK FALSE` stands where the bounds end a behaviour (a chain of full length, a job that is done),
and in Staking because a validator without an address really
stops every later transition.

### Fairness

* `DepositPipeline!Fairness`: goroutines that can run do run (weak fairness of finalizing, committing,
  sending, receiving, fetching, pruning), and a fetch that the catch-up fetcher's timer repeats for ever
  succeeds at some time (strong fairness): the code retries without limit and leaves it to the client to
  answer one day.
* `AvailabilityStore!Fairness`: the feed delivers and the pruner's goroutine runs. Writers and
  consensus need no fairness for `EventuallyPruned`.
* `Staking!Fairness`: CometBFT goes on deciding blocks (strong fairness, because transitions of other ABCI calls
  may come between), and a transition that has begun ends.
* `AbciNode!Spec`: the goroutine of StartAll and its ticker run. Nothing is assumed of the execution client (`StartupCompletes` excepts a
  client that stays away), of CometBFT or of the operator.

### Mutants

Every property of a passing run has a mutant in the modules, an operator next to the one it replaces, that changes
the code the way a plausible bug would and makes the property fail.

## 4. The proofs

TLAPS checks these for every value of the constants that satisfies the named `ASSUME`s.

`DepositPipelineProofs`, from `ConstantsAssumption` (heights stay so small that the wrapped
subtraction does not reach a block number again):

* `TypeCorrect`, `PipelineInvariant`, `DepositsInLogOrder` (`AppliedInLogOrder`), `PrunerSafe`
  (`PrunerKeepsUnapplied`), `PipelineImplementsQueue` (`ImplementsQueue`) and, where the execution client
  lags no more than the follow distance, `DepositsAccountedFor` (`NoSilentLoss`): a fetch then finds the logs of
  the block it asks for, so a block number only leaves the lists when its deposits are stored or a crash forgets it.
* `AppliedInLogOrder` speaks of the chain only. That blocks take only old deposits needs to know what
  a store may hold (`StoresAreFollowed`), which needs to know what a fetch under way may be about
  (`FetchesAreFollowed`); the pruner needs every event in flight to be about a block the node has
  finalized (`EventsAreFinalized`) and counters that never fall (`CountersMonotone`). Their
  conjunction with the type invariant is `PipelineInv`, which is inductive.

`AvailabilityStoreProofs`, from `AvailabilityAssumption`:

* `TypeCorrect`, `AvailabilityInvariant`, `RangeBoundRight` (`NoIndexBelowFirst`), `BlobsAvailable` (`WindowAvailable`).
* `WindowAvailable` is not inductive: a crash takes `height` back by one and the window with it. `AvailabilityInv` counts the
  window from the committed height (`CommittedWindowAvailable`), says what a running prune may still remove and
  has left behind (`PruneIsBehind`), and what each writer has achieved (`WritersAreRight`).

`StakingProofs`, from `StakingAssumption` (the chain-spec divisors are not zero, the genesis file names no public key
twice):

* `TypeCorrect`, `StakingInvariant`, `ValidatorsRegisteredOnce` (`PubkeysUnique`), `WithdrawalsAreDebited` (`WithdrawalsDebited`),
  `WithdrawalsNumbered` (`WithdrawalIndicesConsecutive`).
* The heart of `WithdrawalsAreDebited` is that remainders of numbers less than `n` apart differ (`RemaindersDiffer`), so that a sweep of at
  most `n` validators meets each once. `StakingInv` adds to the properties what a transition knows at each of its
  steps (`TransitionRight`): that an idle node's copy is the saved state, that no expected amount exceeds the balance it is taken from,
  and that the counter has moved by the number of withdrawals when the deposits begin.

`PayloadBuildingProofs`, from `PayloadAssumption` and `DistinctAssumption` (the names for "no payload" and "a call is running" are
not payloads):

* `TypeCorrect`, `FinalizedOnlyDecided` (`ElFinalIsFinalized`) and, where no payload status is ACCEPTED,
  `ProposalsExtendFinalized` (`ProposalExtendsFinalized`); PayloadAccepted shows that the condition is needed.
* `FinalInv` says that every goroutine only knows decided blocks as finalized. `BuildInv` says what the cache may hold: the entry for the
  slot after a block has a payload on that block, or is of a goroutine so late that a later block is committed; entries of rebuilds are
  under the block's own slot, where no proposer looks.

`StateTransitionProofs`, from `BoundsAssumption` (rings and epochs are not empty):

* `TransitionSafe`, `HonestProposals` (`HonestBlockAccepted`), `NoFailedFinalize` (`AcceptedBlockFinalizes`), `RingsTellThePast`
  (`RingsFollowChain`) and `BlocksLinked` (`ChainLinked`): for every size of the rings, every number of slots per epoch, any
  validators, heights without a block and abandoned rounds.
* The status ACCEPTED makes two exceptions, which the properties state. A block accepted on it ("halfway") has passed the header and parent-hash checks only, so
  `AcceptedBlockFinalizes` is about the blocks that passed all of them. A payload begun on the half-way state has the mix of the block before, so
  `HonestBlockAccepted` is about blocks with other payloads. The rings and the links of the chain hold whichever way a block was accepted, since FinalizeBlock
  makes all checks. `AcceptedBlockFinalizes` also takes it that the client does not call a payload invalid that it called valid (`Consistent`).
* Proposer, verifier and finalizer run the same operators over a table of hashes that grows. The first part of the module shows that a
  transition is the same over every table that begins with the one it was first run on, and adds nothing when run again (`Passes`); through `ProcessSlots`, whose
  rounds are a recursive function, this goes by induction over their number. The second part says what the rounds leave in the rings:
  at slot `s` the entries of the last `SlotsPerHistoricalRoot` slots (by `RemaindersDiffer`, no two of these share an entry) and, for the mixes, the parity of the
  reveals per validator and epoch, counted over the chain.
* `HonestBlockAccepted` alone is not inductive. `TransitionInv` adds that the committed state is the one whose root the last
  block announced (`StateIsTip`), that a round's proposal, once accepted, passes for the finalizer whatever its engine answers
  (`ProposalsPass`), and that every payload under construction was begun on the block its entry names, with the mix that its slot will
  have (`PayloadsMatch`), which is what lets an honest proposer use a payload from the cache.

`AbciNodeProofs`, from `NodeAssumption` (finitely many public keys, epochs are not empty):

* `AcceptedAreVouched` (`AcceptedOnlyIfVouched`): by cases over the answers, only VALID and ACCEPTED get past the engine and its client
  to ProcessProposal, and a block that is there only in part fails whatever the answer. `VerdictInv` adds that a verdict is about the one proposal of the round.
* `HandlersAreConnected` (`ConnectedBeforeHandlers`, the safety part of `StartupCompletes`), from `StartupInv`: whatever starts after the
  engine client starts on an open connection.
* `PowersFollowState` (`CometFollowsState`), `HaltsExplained` (`HaltExplained`) and `NodesFinalizeAlike` (`FinalizedAlike`: what FinalizeBlock returns is
  what a freshly started node with a syncing client would return), from `NodeInv`. EndBlock hands
  CometBFT whatever is in `valUpdates`, also what an earlier block left there. That is harmless because of `CacheIn`: what is left over is
  what CometBFT has been told already, in the committed result and in the pending one, and a crash empties the cache with the result. That the
  updates of several epochs in one block come out right, the last one for each key, needs that stakes only
  grow (`Bounded`) and induction over the epochs of a block.

`AlgorithmsProofs`, the parts of the Algorithms run that need no recursive operator:

* `EveryLayerHashed` (`ParentsHashed`), from `HashingAssumption` (lengths are natural numbers, there is a processor) and arithmetic:
  `SegmentsDisjoint`, `SegmentsMatchEven`, `AllHashedWhenLastGroupFits` for every layer and every number of processors. `AllHashedOnSmallHosts`: 50 goroutines or
  fewer always hash everything. The theorems about trees and lists below rest on this through `HostAssumption`: the host that hashes has at most 51 processors. On larger ones
  they are false of layers of 5000 nodes and more (ParallelRoots).
* `DatabaseSafe`, `RegistryIsAligned` (`RegistryAligned`), `SlashingsSummed`
  (`TotalSlashingIsSum`), `HeadersReadable` (`HeaderReadable`), from `AmountsAssumption` (amounts and balances are natural numbers), for any keys and any number of
  layers and operations. A store is one function of keys with prefixes; since no two prefixes are equal
  (`PrefixesDiffer`) it is ten independent functions, and `Set` and `Unset` change one of them. An operation that
  succeeds keeps the store right (`AddRight`, `UpdateRight`, `BalanceRight`, `SlashRight`, `HeaderRight`); one that
  fails spoils its layer, which then is neither copied nor saved. Sums are numbers of units
  (`SlashedUnits`, `ActiveUnits`), so that their arithmetic is that of cardinalities. For the committee, the second half of
  `RegistryAligned`, induction over the size of a finite set shows that the order in which an iterator returns its
  keys exists (`NumberOrderSorts`, `PairOrderSorts`) and that the sum over a sequence that has every element once is the number of
  units (`SumCountsUnits`); the rest follows from the two indexes being aligned (`CommitteeOfAligned`).
* `GenesisFollows` (`GenesisFollowsFiles`), from `GenesisAssumption` (finitely many numbered files, amounts are numbers, the
  increment is positive), for every number of deposits, in every order, with interrupted and
  repeated commands. `CeremonyInv` says that what is in a file, or on its way into one, or in the genesis file, is signed for a chain
  without a root, and that the state is the one of the genesis file. Below it goes an induction over the deposits of the file: after `n` of them the
  validators are the keys seen, each once, with the sum of the shares of its key, cut to the maximum. That the code cuts
  after every deposit and the property once, at the end, makes no difference because shares are not negative. A signature binds
  the fork data, so that the ceremony's messages are no deposits on the chain that comes out of it.

* `TreeFollows` (`TreeFollowsLeaves`), from `TreeAssumption` (depths and bounds are natural numbers) and `HostAssumption`, for trees of every depth that the
  code allows and any number of leaves, also beyond the depth, as long as no Insert left a gap. `TreeInv` says of every layer that it holds the first nodes of the reference tree at its height, all of them
  that are not zero hashes, and that a layer is at least half as long as the one below: this is what Insert needs to find the parent's
  place, and more than the property says. Inductions over the height show that the constructor makes such layers, that a round of Insert leaves the layers so
  far those of the changed leaves (`RoundRight`), that the walk of the verifier passes the nodes on the way up
  (`PathPassesNodes`), and, downwards, that a walk that ends in the root has started at the leaf of its index (`PathBinds`); the last
  needs that a hash determines its arguments.
* `ListsAndBodies` (`ListsAndBodiesBind`), from `HostAssumption` and `LimitsAssumption` (limits have a zero hash at their depth; the limit of the commitments is a
  power of two, as the chain spec's 16 is), for lists of every length, every limit and chunk size, and every body. Padding: the
  logarithm is the least exponent that suffices (`CeilIsLeast`), so that hashing level by level with zero hashes ends in the root of the reference
  tree at the depth of the limit (`PaddedRoot`). Sidecars: a branch can be walked in parts, each with the index that the part before has left
  (`WalkInParts`), so that the offset 26 * limit leads through the list, then past its length, then as 13 through the body
  (`InclusionWalk`); the leaves that the factory hashes are those that the body hashes (`BodyNodes`), which is where a transaction would make the
  difference; and what is accepted is the commitment at its index, going down again (`BranchBinds`).
* `PayloadsKeepIdentity` (`PayloadKeepsIdentity`), from `ProposalsAssumption` (transactions and blob hashes are sequences), for any payloads, mixed in any
  set of fields, and documents that lack any fields. No two required fields have the same name (`Named`), so that
  decoding stops at the first that is missing (`DecodedIs`); JSON and SSZ leave a built payload as it is, except that
  missing withdrawals become an empty list (`InBlockIs`); and a block hash, as a term, determines fields, withdrawals and parent (`BlockHashBinds`).

`NumberLemmas` has what these share: the least element of a set of natural numbers, induction, quotients and remainders, and powers of two, which the provers
do not know: `2^n` is the number of the subsets of a set of `n` elements, from which its doubling follows. Induction
is stated of a set (`InductionOverNat`: a set with 0 and with each successor holds all numbers), since an operator
cannot be a parameter for these provers; each use defines the set of the numbers the claim holds for.

Only model-checked: the liveness properties (`EventuallyStored`, `EventuallyPruned`, `ExcessPaidOut`, `PowerFollowsStake`, `StartupCompletes`: fairness and
ENABLED are outside this prover); what the codecs of the SSZ modules compute (`RoundTrip`, `LimitsAgree`: RECURSIVE operators); and the multiproof indices of `HelperIndices`, whose property is itself about a tree of bounded depth.

## 5. What is left out

Modelled abstractly: signatures, hashes and KZG proofs are outcomes or terms; the execution client, CometBFT, the
feed, the file system and the Cosmos store are modelled from how the code uses them; accesses to `failedBlocks` and to
`firstNonNilIndex`, which the code does not lock, are atomic in the models. That a copy of the state on which an operation failed is
thrown away is taken from the callers, as a guard of `BeaconDB`, and not checked.

Not modelled: the KZG bindings (two library calls), the node API (read-only handlers), the Solidity contracts other than the
deposit contract's counter, deployment, mocks and generated bindings, metrics, flags, configuration and dependency
injection, the JWT command, the SSZ serializer by reflection (`primitives/pkg/ssz/v2/lib/serializer.go`; the node does not use it, and its own test says that it does not match the generated
code yet), the wrapper `ExecutionPayloadHeader.UnmarshalJSON` (`payload_header.go:75-79`; it decodes with the codec that is modelled, into a new value that its caller does not see), the tree form (`GetTree`) of the generated SSZ code, the byte order and text form of numbers, and the getters of
the containers. None keeps state that another part depends on.

What a later version could add: proofs about the codecs, once they are written without RECURSIVE operators.
