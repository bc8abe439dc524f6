# A verification project for random-network

TLA+ modules of the random network: the contracts that carry a request for
randomness to the random network and its answer back, the curve arithmetic that
verifies an answer, the Go service that makes it with its contract binding, the
programs that send transactions on a timer, and the solver (`oif-solver`) that
moves messages and fills intents. TLC checks every module on small instances;
TLAPS proves the safety properties of the contracts, of the executor's process
with its event iterator, of the periodic senders, and of the solver's event
source, wallet and order handling for every value of their constants.

Paths below are relative to `src/`. Every definition that stands for code is
listed with its lines in `PROJECT.json` under `map`.

## 1. The system

    client --requestRandomness--> VRFRequestV1 --dispatch--> Mailbox (origin chain)
                                                                |
                                             oif-solver, randomtestnet: process()
                                                                v
    vrf-executor <--RequestReceived log-- VRFCoreV1 <--handle-- Mailbox (random network)
         |                                   |
         +----executeVRF(id, value, proof)-->+--dispatch--> Mailbox --process()--> VRFRequestV1
                                                                        receiveRandomness --> client

| Component | State | Operations | Talks to |
|---|---|---|---|
| `VRFRequestV1` (`contracts/vrf-core/src`) | requests with requester and status, a nonce, the recipient on the random network | `initialize`, `setRandomNetworkRecipient`, `requestRandomness`, `handle` | mailbox, clients (callback inside `handle`) |
| `VRFCoreV1` | request data by id, the set of pending ids, roles | `initialize`, `addRelayer`, `addExecutor`, `handle`, `handleCrossChainRequest`, `executeVRF` | mailbox, verification library |
| `VRFVerificationLib`, `VRF`, `EllipticCurve` | none | `verify`, `fastVerify`, the curve operations | called by the core |
| Hyperlane mailbox (external) | nonce, dispatched and delivered messages | `dispatch`, `process` | both contracts, the solver |
| `vrf-executor` | `lastBlockNumber`, two unbuffered channels, `opts.Nonce` | blocks listener, core listener, executor, transactor, relayer, interrupt | a node of the random network |
| relayer and `tx-generator` | a nonce read once and counted on | one transaction per tick | the pool of a node, shared with other wallets of the account |
| binding of `VRFCoreV1` (`vrf-executor/abi`) | per iterator: a buffered channel, a goroutine, `done`, `fail`, `Event` | calls, transactions (estimate, then send), `Filter...`, `Next`, `Close` | a node; its caller is the core listener |
| `BaseListener` (`oif-solver/solvers`) | `lastProcessedBlocks`, `initialBlock`, `processedIds`, a timer | `create`, `pollEvents`, `processPrevBlocks` | an RPC node; hands events to a filler |
| `BaseFiller` | rules, allow and block lists | `create` (prepare, fill, settle), `prepareIntent`, `evaluateRules`, `isAllowedIntent` | lists, a concrete filler |
| `NonceKeeperWallet` | a promise of the next nonce per chain | `sendTransaction`, `getNextNonce`, `checkError` | shared by all fillers of a chain |
| randomtestnet solver | none | `fill` = `Mailbox.process` | mailboxes of both sides |
| hyperlane7683 solver | the table `indexedBlocks` | `fill`, `settleOrder`, `getLastIndexedBlocks`, `saveBlockNumber` | token contracts, settlers |
| intent lists (`config/`) | two levels of lists | `matches`, `isAllowedIntent` | every filler |
| custom rules, eco solver, solver manager, scripts, deployment | see section 8 | | |

### What is hard here

* **Concurrency.** One request reaches the core from the mailbox and from
  relayers, several executors answer it, and the solver delivers messages of
  several chains in any order. Roles change while answers wait for a block. In
  the executor three goroutines hand values over unbuffered channels; the
  iterator that reads the logs has a goroutine of its own, and a `select` that may
  see the end of its work before the work. In the solver every `await` lets other tasks run: polls of
  one source overlap, tasks take nonces of one wallet, the legs of an order run
  in parallel and go on after the order's task has failed.
* **Failure.** An interrupt has to reach goroutines that are blocked. The executor keeps nothing on disk and loses everything when it
  stops; the solver keeps one table that it writes without waiting. Any RPC call
  may fail, and a transaction whose call failed may be in the node all the same.
* **Reentrancy.** `VRFRequestV1` calls its client before it writes the status; the
  client may ask again, or have a second message for the same request processed.
* **Trust.** The security module `VRFRequestV1` names accepts every message
  (`VRFInterchainSecurityModule.sol:35-40`) and `handle` looks at neither origin nor
  sender (`VRFRequestV1.sol:141-154`): what the core promises reaches the client
  only where no other message does.
* **Default values.** The unset entry of both contracts' mappings reads
  *pending*, and 0 means "nothing yet" in several places.
* **Arithmetic.** Affine and Jacobian addition with special cases, a scalar
  multiplication that treats 0 apart, verification through `ecrecover`.

`PROJECT.json` lists each such hazard at its line with the properties that would
notice it going wrong, or why none does yet.

### What makes each component correct

* Contracts: the core gives one answer per request, back to its sender; one callback
  and the validated value for the client, unless a message nobody dispatched
  answered it; no request is lost; what is decided stays; a request sent to the core
  is answered unless a service drops it.
* Verification: the curve operations are the group law; the two verifiers agree;
  the provider's proofs pass.
* Executor: each block is scanned once, nonces have no gap, one transaction per
  request and run, nothing is forgotten without an error, an interrupt ends it.
* Iterator: the logs of a query once and in order, no goroutine left behind.
* Senders: never ahead of the account's nonces; an acknowledged transaction is
  not replaced.
* Core seen through the binding: only holders of the role answer, nobody gains a
  role once there is no admin, what an executor sends is refused only when it comes
  too late.
* Listener: no block between start and progress is passed over, unconfirmed
  blocks wait, events are handled in the end.
* Wallet: no nonce is given twice in a run, no transaction replaces another.
* Order filling: only completely filled orders are saved or settled; a restart
  neither repeats saved orders nor forgets the ones it is responsible for.
* Lists: block-list before allow-list, both levels together.

## 2. Modules

| Module | Stands for | State | Actions |
|---|---|---|---|
| `VRFMessages` | ids, proofs, answers, messages | none | none |
| `HyperlaneMailbox` | the mailboxes, as the contracts and the solver use them (external) | `mailboxNonce`, `dispatched`, `delivered` | `Dispatch`, `Process`, `ProcessUndispatched` |
| `VRFRequestV1` | the request contract of every origin chain, with its clients | `requests`, `requestNonce`, `randomNetworkRecipient`, `randomnes`, and the histories `callbacks`, `foreign` | `RequestRandomness`, `SetRandomNetworkRecipient`, `CallbackReturns`, `CallbackReenters`, `CallbackRepeats`, `CallbackFails` |
| `VRFCoreV1` | the core | `coreRequests`, `pendingRequests`, `requestReceived`, roles | `HandleCrossChainRequest`, `ExecuteVRF`, `AddRelayer`, `AddExecutor` |
| `VRFNetwork` | all of these with solver and executors; the properties and the inductive invariant | theirs | one per transaction |
| `VRFServices` | the network with an executor service and a solver that drop what fails | theirs and the history `dropped` | `ExecutorServes`, `ExecutorDrops`, `SolverServes`, `SolverDrops` |
| `RandomnessService` | the abstract promise to a client | `status`, `drawn`, `received`, `outside` | `Ask`, `Draw`, `Complete`, `CompleteAndAsk`, `Fail` |
| `CoreRequests` | the core's record of a request, as every other part sees it | `received`, `validated` | `Receive`, `Validate` |
| `VRFNetworkProofs` | the proofs | | |
| `EllipticCurve`, `VRF` | the libraries of the same names | none | operators |
| `VRFProof` | the provider, and the operators against a reference | `call`, `result` | `Multiply`, `Add`, `VerifyProof` |
| `AccountNonces` | an account's nonces at a node (external) | none | `PendingCount`, `WithTransaction` as operators |
| `VRFExecutor` | the executor's process, its relayer's hold on `run()`, and its node | see the module | one per channel operation, call and outcome |
| `PeriodicSender` | the relayer's loop with its transactor; the `tx-generator` | `nonce`, `pool`, `acked`, `behind`, ... | `RelayerTick`, `GeneratorTick`, starts, stops, blocks, another wallet |
| `LogStream` | what a reader of events promises its caller | `rest`, `event`, `reading`, `abandoned` | `Query`, `HandOut`, `End`, `Abandon` |
| `EventIterator` | the binding's iterator, go-ethereum's goroutine behind it, the loop of the core listener | `unsent`, `logs`, `producer`, `done`, `fail`, `caller`, ... | one per channel operation and return |
| `VRFCoreBinding` | the core's methods and events as the binding offers them, with `AccessControl` | `roles`, `requests`, `logs`, `pool`, ... | `Administer`, `Answer`, `Include`, `HandleCrossChainRequest` |
| `VRFExecutorProofs`, `PeriodicSenderProofs`, `EventIteratorProofs`, `VRFCoreBindingProofs` | the proofs | | |
| `BaseListener` | one event source | `lastProcessedBlock`, `polls`, `backfill`, ... | one per stretch between two awaits |
| `NonceKeeperWallet` | the wallet and its chain | `pc`, `place`, `taken`, `count`, ... | one per stretch between two awaits |
| `Hyperlane7683` | orders of several legs in that solver, and its table | `tasks`, `saves`, `db`, ... | one per leg's call and outcome |
| `IntentFilter` | the lists | `lists`, `intent`, `outcome` | `Decide` |
| `BaseListenerProofs`, `FillerProofs` (the wallet and the lists), `Hyperlane7683Proofs` | the proofs | | |
| `MCVRFNetwork`, `MCVRFServices`, `MCVRFProof`, `MCHyperlane7683`, `MCIntentFilter`, `MCEventIterator` | values of constants for TLC | | |

How code becomes actions:

* A **transaction** on a chain is one action: EVM transactions are atomic, so
  `ProcessAtRequest` is the mailbox's `process`, `handle` of the contract, the
  client's callback and the write of the status after it. The callback's four
  outcomes are four operators: it stores the value, it stores it and asks again
  (`requestRandomness` from inside `handle`), it has a second message for the same
  request processed (`ProcessNested`), or it fails.
* A **message nobody dispatched** is taken by `VRFRequestV1` like any other
  (`UndispatchedAtRequest`), with any answer whose proof verifies for its own key,
  also for an id never requested: the unset entry reads pending. `foreign` records
  the requests that were answered with the help of one, so that the properties can
  say what holds of all requests and what holds of the others. The core leaves
  the mailbox's default module in place, which is external and taken to accept
  dispatched messages only.
* A **goroutine step** is what lies between two channel operations or calls. A
  send on an unbuffered channel and its receive are one step.
* A **JavaScript step** is what lies between two `await`s. State read after an
  `await` is read in the later step, as in the code: `ReadsLastProcessed` is
  where `pollEvents` reads `lastProcessedBlocks`.
* A **call that may fail** has one action for success, one for failure and,
  where the code cannot tell, one for success with a lost reply
  (`SubmitReplyLost`, `FillReplyLost`).
* A **pure function** is an operator with the function's name.

Abstractions: hashes are injective (a request id is the record it hashes, a
proof is the key and the message it was made for), except in `VRFProof`, where
the hash is a fixed function to a few bits and collisions happen. Logging, gas
amounts, ABI encoding and proxies are left out. In `Hyperlane7683` each leg needs one
unit of a token on its chain; a rule or list may refuse any order
(`Refuse`), and `IntentFilter` says which the lists refuse.

Composition: `VRFNetwork` extends the contracts and the mailbox, `VRFServices` extends
`VRFNetwork`. Two abstract
specifications link the modules that look at one thing from different sides, instead
of a product of them:

* `CoreRequests` is the core's record of its requests: received once, validated
  once, never before. `VRFNetwork` has it in the contract, `VRFExecutor` behind its
  node (the logs and `answered`), `VRFCoreBinding` behind the calls and
  transactions of the services. All three are proved to implement it (section 6),
  so what the executor assumes of the core is what the network's core does:
  `ExecutorSubmits` allows every answer, repeated, late or for an id nobody
  requested, that any number of `VRFExecutor`s or other holders of the role could send, and the revert of a second one is the transaction
  that uses its nonce only.
* `LogStream` is what a reader of events is given. `EventIterator` is proved to
  implement it, and `todo` of `VRFExecutor` is the rest of such a stream
  (`FilterLogs` a query, `TakeRequest` a log handed out, `IterationFails` a query
  given up).

`VRFExecutor` and `PeriodicSender` share the account of `AccountNonces`.
`VRFCoreBinding` has the core's roles in full, which only grow in `VRFNetwork`,
and leaves the routing of answers to that module. `Hyperlane7683` takes over the ranges of
`BaseListener` for backfill and polls, with overlaps as `Copies`.

## 3. Runs

| Run | Checks | Bounds and why they are enough |
|---|---|---|
| `network_routing` | `IInv`, `ClientsHoldTheCoresValue`, `OneAnswerToTheSender`, `NoRequestIsLost`, `DecidedStays` | Two chains whose contracts share one address, a client on each, an executor with two values, a relayer, one request per contract: two requests can be in flight at once, with everything about them equal but the chain; each can be executed before it is received, answered twice, or answered by a message nobody dispatched. |
| `network_service` | `OneCallback`, `ImplementsService`, `EveryRequestIsAnswered` | One chain, two requests of one client, the second possibly from inside the callback of the first, a second message inside a callback; either service may drop either request. No symmetry, because of liveness. |
| `vrf_executor` | `NoNonceGap`, `ScannedOnce`, `NothingForgotten`, `SentOnce`, `RequestsAreSubmitted`, `InterruptEndsIt` | Two requests, three blocks, two starts, each with the relayer or without: a range of several blocks, two requests in one range, a reply lost in the first run and its transaction mined in the second, an interrupt at any point. |
| `event_iterator` | `NoGoroutineIsLeft`, `ImplementsLogStream`, `EveryQueryEnds` | A channel of two (128 in go-ethereum) and answers of up to four logs, two more than fit; two queries, so that a goroutine of the first could meet the second. |
| `periodic_sender` | `CountsRight`, `AcknowledgedIsKept`, `StaleGeneratorEnds` | Six transactions over three starts: enough for a lost reply, a second wallet's send and their inclusion in each of two runs. |
| `vrf_core_binding` | `AnswersAreByExecutors`, `NoAdminNoGrant`, `AnswersAreTaken` | Two services, one request, three role changes: a grant, a revocation and a renunciation can all be overtaken by an answer, or overtake it; each service's only try may fail before or after the node has its transaction. |
| `base_listener` | `NothingPassedOver`, `OnlyConfirmedIsPolled`, `ProcessedIsNotRepeated`, `HandledOnce`, `EventsAreHandled` | Two events, six blocks, one confirmation, two polls at a time: a slow poll and a fast one with different ranges, a backfill beside them, and two polls one after the other that both hand events over, for which five blocks are too few. |
| `base_listener_start_block` | violation of `EveryBlockIsCovered` | One event, six blocks, one poll at a time: the event is in the latest block of the start, two more pairs of blocks are polled, and it is never handled; finding 1. |
| `nonce_keeper_wallet` | `NoncesAreConsecutive`, `NothingReplaced`, `SentIsMined` | Three calls with two jobs (so two of them collide on chain), two runs of the solver: the count is asked, answered or rejected between any two steps, and a restart leaves transactions pending. |
| `vrf_proof` | `ArithmeticIsRight`, `ProofsVerify`, `FastVerifyAgrees` | `y^2 = x^3 + 7` mod 79, of prime order 67, in 7-bit words. Like secp256k1: the prime is 3 mod 4, the order is below it and uses the highest bit, no point has a zero coordinate. All words as scalars, all pairs of points; 108 proofs, each also with another `s`, a sign byte that is none, and a byte missing. |
| `hyperlane7683` | `OnlyFilledIsRecorded`, `FillsCanBePaid`, `SavedIsNotHandledAgain`, `EveryOrderIsHandled` | An order with two legs and one with one leg that may be handled twice in a run, money for two legs on each chain, so that both orders can be on record in different blocks and the money is gone when one comes again; three blocks, two runs over one table: a poll of two blocks after the start, or a backfill of the first block. Any awaited transaction may stall. |
| `intent_filter` | `BlockedIsIgnored`, `AllowListIsExact` | All intents of two accounts, two chains (one name part of the other) or an unconfigured one, and at most two recipients, against all configurations of at most two filters in any of the four lists; addresses in them are checksummed, in upper case, without 0x or ICAP texts. |

`CHECK_DEADLOCK FALSE` is set where the bound on blocks, sends or queries, the
end of the inputs, or a process that stays down after its last start ends a
behaviour. There is no separate run for types: the type facts are conjuncts of the
invariants that are proved (section 6).

Bounds in guards: `MaxRequests` (requests of a contract), `MaxBlocks`,
`MaxStarts`/`MaxRuns`, `MaxPolls`, `MaxSends`, `MaxQueries`, `MaxAdministration`
(transactions that change roles), and `RepeatExplored` of `Hyperlane7683`, which
lets an order come again only when no other is open; histories count 0, 1, many.

`mutants` in `PROJECT.json` names for every property of a passing run a changed
definition (a dropped guard, a swapped order, an off-by-one) that the run refutes.

## 4. What the properties say, and do not

* `OneCallback`, `ClientsHoldTheCoresValue` and the value in `ImplementsService` except
  the requests in `foreign`. Of those they still say that the client is called back
  only when its request is answered, that it holds a value for its own completed
  request only, and that what is decided stays (`DecidedStays`). The core's side
  (`OneAnswerToTheSender`, `NoRequestIsLost`, its half of `DecidedStays`) has no exception.
* `NoRequestIsLost` says of a request made before `setRandomNetworkRecipient` that it
  waits in the mailbox, where it stays for ever: it is dispatched to the
  zero address (`VRFRequestV1.sol:121`). `EveryRequestIsAnswered` is about the others.
* `EveryRequestIsAnswered` says *or a service has dropped it*: the executor goes on after an
  error and never tries again (`executor.go:42-51`), a range whose filter fails is gone
  (`vrf_core/listener.go:39`), a start begins at the head (`blocks/listener.go:48`), the
  executor is not reached while the relayer runs (finding 3), and the solver
  only logs a failed `process`. What it excludes is a request that no service has
  dropped and that nobody can take up any more.
* `ScannedOnce` and `RequestsAreSubmitted` begin at the first block the
  executor sees: what was logged while it was down is not seen by it
  (`blocks/listener.go:48`). `RequestsAreSubmitted` is about a process that is in
  the executor: while the relayer is enabled it is not (finding 3), and
  `InterruptEndsIt` says that it gets out of both.
* `NothingForgotten` counts a request as given up after an error of any call,
  also an iteration whose error nobody asks for (`vrf_core/listener.go:44`).
* `ImplementsLogStream` says what may be handed out; that a query comes to its end
  is `EveryQueryEnds`. `Err()` of the subscription never carries an error here:
  the goroutine of `FilterLogs` returns nil.
* `CountsRight`: `behind` is set by a lost reply and by another wallet of the
  account, and reset by the next start. A relayer that is behind replaces a
  transaction that is still pending, never one it knows of
  (`AcknowledgedIsKept`), or is refused until it is restarted (finding 4).
  `PeriodicSender` is about a contract that has the relayer's method (finding 2).
* `AnswersAreByExecutors` is about the role when a transaction runs, not when it
  was estimated. That a pending request is answered is not promised: a service tries once,
  and the gas price, the estimate and the send may fail, the last also when the
  node has the transaction (`transactor.go:59-70`). `AnswersAreTaken` says that an
  executor's signature is not what fails.
* `HandledOnce` holds only while polls do not overlap. When they do, a slow poll moves `lastProcessedBlocks` back and events come again;
  `NothingPassedOver` holds all the same.
* `EventsAreHandled` needs a second confirmed block: `toBlock <= fromBlock`
  (`BaseListener.ts:141`) leaves a single new block for later.
* `SentIsMined` excludes the gap a task leaves that fails, or dies, with a nonce in
  hand. `NothingReplaced` is about one run: after a restart the count of *mined*
  transactions may name the nonce of a pending one (`NonceKeeperWallet.ts:26`).
* `EveryOrderIsHandled` says only that an order's task ends. After a restart it
  covers the orders from the highest block on record on. Orders of lower blocks
  that were still under way are lost: the table keeps no trace of them. It does not
  cover an order in a single last block, which is not polled (`BaseListener.ts:141`),
  nor promise an end to a task that waits for a receipt: `tx.wait()` has no timeout, and
  a transaction behind a nonce gap is never mined (`Stalls`). A backfill waits behind such a
  task (`StuckBehindAnother`). What such a transaction does when it is mined
  after all, in a later run, is left to `OtherSolverFills`.
* `FillsCanBePaid` promises money only to a task that ran alone: the balance is
  checked without being reserved.
* `ArithmeticIsRight` excludes the scalar 0, which `derivePoint`/`ecMul` take for
  1, and states that the group order reverts. `FastVerifyAgrees` and
  `ProofsVerify` exclude proofs in which `c` or `s` is 0 for that reason, and
  abscissas not below the order, for which `ecrecover` gives no answer; all have
  negligible probability on secp256k1 and all occur on the small curve.
* `BlockedIsIgnored` and `AllowListIsExact` speak of what a filter names: an account only
  when filter and event both write it with 0x. Recipients in 32 bytes and filters
  without 0x or in ICAP form name nothing but through `*` (findings 5 and 9).
  `AllowListIsExact` excludes filters with a chain given as a plain string (finding 6).

## 5. Fairness

* `VRFServices`: for each request, weak fairness of the executor service taking it up *or
  dropping it* once it is in the log, and of the solver delivering or dropping one of its
  messages. The listener polls on a timer and the executor's loop goes on; no step
  has to succeed. Nothing is assumed of clients, relayers or admins, nor of which
  executor answers or which message is delivered first. `VRFNetwork` has no fairness.
* `VRFExecutor`: weak fairness of the ticker, of each goroutine's next step, and of
  the relayer and the executor seeing the end of their context. Go runs
  goroutines that can run, RPC calls return, with success *or* failure, and a
  `select` that finds the context done again and again takes that case. Nothing
  makes the chain go on or the process start.
* `EventIterator`: weak fairness of the goroutine and of its caller, whose wait for
  the executor ends (`RequestsAreSubmitted`).
* `PeriodicSender`: weak fairness of the generator's tick and of blocks. Whether a
  send fails is open.
* `VRFCoreBinding`: weak fairness of each account's next transaction getting into a
  block. Nothing is assumed of a service reading an event or trying at all.
* `BaseListener`: weak fairness of the timer, of each poll's next step and of the
  backfill: `setInterval` fires and promises settle.
* `NonceKeeperWallet`: every task's next step, the answer to the count, and mining.
* `Hyperlane7683`: polls of at least two confirmed blocks, the hand-over of what they
  read, the backfill, and for each task that some call of it returns or waits for
  good. Which outcome it has is open.

## 6. Proofs

`VRFNetworkProofs` proves the types of the network, its invariants, the action
property and the refinements, one part after the other. `FillerProofs` is about the
lists and the wallet, the other modules named `...Proofs` are about one module each.
Every strengthening below was checked by TLC on the instances of section 3 before it
was proved, and so were the three refinements of `CoreRequests`. Every safety
property of a passing run is proved but those of `vrf_proof` and the first half of
`AnswersAreTaken`.

| Theorem | States |
|---|---|
| `TypesAreKept` | `Spec => []TypeOK` |
| `InvariantHolds` | `Spec => []IInv` |
| `CalledBackOnce` | `Spec => []OneCallback` |
| `AnsweredOnceToTheSender` | `Spec => []OneAnswerToTheSender` |
| `PendingSetAgrees` | `Spec => []PendingSetIsExact` |
| `ClientsHoldValidatedValues` | `Spec => []ClientsHoldTheCoresValue` |
| `RequestsAreNeverLost` | `Spec => []NoRequestIsLost` |
| `DecidedRequestsStay` | `Spec => DecidedStays` |
| `NetworkImplementsService` | `Spec => ImplementsService` |
| `NetworkContainsACore` | `Spec => ImplementsCore` |
| `SendersCountRight` (`PeriodicSender`) | `Spec => []CountsRight` |
| `AcknowledgedTransactionsStay` (`PeriodicSender`) | `Spec => []AcknowledgedIsKept` |
| `GoroutinesAreGone` (`EventIterator`) | `Spec => []NoGoroutineIsLeft` |
| `IteratorIsAStream` (`EventIterator`) | `Spec => ImplementsLogStream` |
| `NoncesHaveNoGap` (`VRFExecutor`) | `Spec => []NoNonceGap` |
| `BlocksAreScannedOnce` (`VRFExecutor`) | `Spec => []ScannedOnce` |
| `RequestsAreSentOnce` (`VRFExecutor`) | `Spec => []SentOnce` |
| `NothingIsForgotten` (`VRFExecutor`) | `Spec => []NothingForgotten` |
| `NodeShowsACore` (`VRFExecutor`) | `Spec => ImplementsCore` |
| `TypesAreKept` (`VRFExecutor`) | `Spec => []TypeOK` |
| `AnsweredByExecutors` (`VRFCoreBinding`) | `Spec => []AnswersAreByExecutors` |
| `LogsTellRoles` (`VRFCoreBinding`) | `Spec => []RolesByLogs` |
| `NoGrantWithoutAdmin` (`VRFCoreBinding`) | `Spec => NoAdminNoGrant` |
| `BindingShowsACore` (`VRFCoreBinding`) | `Spec => ImplementsCore` |
| `EventsAreNotSkipped` (`BaseListener`) | `Spec => []NothingPassedOver` |
| `PolledIsConfirmed` (`BaseListener`) | `Spec => []OnlyConfirmedIsPolled` |
| `ProcessedStayProcessed` (`BaseListener`) | `Spec => []ProcessedIsNotRepeated` |
| `EventsAreHandledOnce` (`BaseListener`) | `Spec => []HandledOnce` |
| `TypesAreKept` (`BaseListener`) | `Spec => []TypeOK` |
| `BlockedAreIgnored` (`IntentFilter`) | `FilterSpec => []BlockedIsIgnored` |
| `AllowedAreListed` (`IntentFilter`) | `FilterSpec => []AllowListIsExact` |
| `NoncesFollowEachOther` (`NonceKeeperWallet`) | `Spec => []NoncesAreConsecutive` |
| `SentIsNotReplaced` (`NonceKeeperWallet`) | `Spec => []NothingReplaced` |
| `RecordedIsFilled` (`Hyperlane7683`) | `Spec => []OnlyFilledIsRecorded` |
| `CheckedFillsCanBePaid` (`Hyperlane7683`) | `Spec => []FillsCanBePaid` |
| `SavedOrdersStayHandled` (`Hyperlane7683`) | `Spec => []SavedIsNotHandledAgain` |

### The network

The theorems hold for any sets of chains, clients, executors and values and any
`MaxRequests`, under the named assumptions of the modules: the random network is
not an origin chain, `Zero` is nobody's address, domain or value, and
the like. What the contracts trust is in the model: the mailbox delivers a message
at most once and to its recipient, to the core only when it was dispatched; relayers
hand over only logged messages; ids do not collide; a signature is made by its signer.
To the request contracts anything may be delivered, and an executor may answer any id.

None of the properties is inductive alone; `IInv` (in `VRFNetwork`) relates the
records each party keeps of one request:

* `RequestsKnowTheirOwner`, `NoncesAreFresh`: an id in use belongs to its chain
  and client, and a new nonce has no entry. Without them a new request could
  overwrite an old one.
* `RequestMessagesAreRequests`: a request and the message that carries it exist
  together.
* `CoreEntriesAreRequests`: what the core stored of a request it has received is true of
  it. The unset entry reads `PENDING_EXECUTION` and may be executed: the answer goes to
  domain zero, the entry keeps origin and sender zero, and the request is taken all
  the same when it arrives, and is pending then.
* `PendingSetIsExact`: the set and the mapping agree.
* `AnswerMessagesAreTheCores`, `OneAnswerToTheSender`: validated entries and
  answers match one to one.
* `DeliveredIsDone`: a delivered message had its effect, so that a pending
  request's answer has not been delivered, and an answered request has the core's
  answer or is foreign. This and the one answer per request make a second callback
  impossible without a foreign message, although the contract writes its status
  after the call.
* `OneCallback`, `ClientsHoldExactlyTheirs`: the history and the clients' storage.

Lemmas follow the transactions: one for each of the core's two operations, for a new
request, for the outcomes of a callback (`ReentersInv` combines an answer
with a new request), dispatched or not, and `NextInv` collects them. The refinement maps
`status` to the request contract, `drawn` to the core and `received` to the
client; `ServiceStep` shows that each transaction is a step of the service or
none.

### One core

`ImplementsCore` is stated in three modules, with `received` and `validated` of
`CoreRequests` mapped to what each of them keeps.

* In the network `IInv` is enough: an entry has a timestamp exactly when its id is in
  the log, so `handle` receives a new request, and what `executeVRF` takes validates a
  request that was received and not yet validated, or writes the entry of an id that
  was not received, which counts as neither.
* Behind the executor's node a block may hold the answers of several requests, of
  this run of the process and of earlier ones, and of requests that another executor
  has answered meanwhile. `PoolIsLogged` is what has to be known of them: what was
  sent is of a request that was in the logs. The process sends only for a request
  its listeners have passed (`RequestsOK`), and logs do not go away.
* Behind the binding the contract itself would validate a request nobody made: its
  entry reads `PENDING_EXECUTION`. That this does not happen rests on the services,
  which answer what they find in the events (`LoggedAreReceived`), and on no other
  transaction being of that kind (`WaitingAreReceived`).

### The roles and the answers

`AnswersAreByExecutors` speaks of the logs before an answer, when roles were as they
are nowhere recorded any more. `RolesAreLogged` says that at every moment the events
tell who has a role: an account holds it exactly when it was granted once more than
it was revoked, because an event is logged only when something changes. The log
before an answer is never changed (`AppendedLog`), so what was true when it ran stays
true of the prefix. `ValidatedOnce` counts the answers of a request: one if it is
validated, none otherwise. Nothing is needed about the transactions that wait:
whatever an estimate once said, they are checked when they run, and
`NoGrantWithoutAdmin` holds of grants that are already sent for the same reason. The
queries are sets of positions in the log, so that what one more event does to them
is a fact about cardinalities (`CountOfMore`). The theorems hold for any accounts, requests and
number of role changes.

### Nonces

`PendingCount` is the least nonce not below the mined ones that no transaction in
the pool has, a `CHOOSE`. Both modules that prove about an account begin with what
its operators do to a pool without a gap: `PendingCountIs` names the value that is
chosen, and each of the others one thing that can happen to the pool (a
transaction with the next nonce, one that takes the place of another, one or several
included).
`VRFExecutorProofs` needs nothing more for `NoNonceGap` than the types it speaks
of (`NoncesOK`): a reply that is lost leaves the process one nonce behind, and the
next send takes the place of the lost transaction. `PeriodicSenderProofs` adds
to this that no nonce is used twice in the pool (`PoolOK`), that serials are those
of transactions already sent (`SerialsOK`), and why a running program never
replaces what was acknowledged: such a transaction is in a block or has a nonce
below the next one of the program (`AckedIsBelow`).

### The executor

`ScannedOnce` says nothing of a range on offer. `RangesOK` adds that it begins
where the last one ended (`OfferedContinues`), also when blocks were made since,
and that before the first range nothing was scanned.

`SentOnce` is about a counter that only the last of three goroutines writes; that a
request reaches it once is a fact about all of them. `LogsOK` says that logs are in
the order of their blocks and name a request once, so that a query over a range
gives the requests of its blocks and no others, each once (`IdsOfIs`; the number of
logs before a block, `LogsBefore`, is a `CHOOSE`, and `LogsBeforeIs` shows that it
exists). `RequestsOK` says that what is in the process or was sent for is behind
`lastBlock` (`Behind`), and that what waits, what is worked on and what was sent
are apart. A range on offer lies ahead of `lastBlock`, hence is new
(`OfferedIsNew`), also when `lastBlock` is still 0 and the same range comes again:
there are no logs in block 0.

`NothingForgotten` would break when a transaction is replaced in the pool: its
request was sent for and is no longer there. `LostAreDropped` says why it does not: a
transaction whose nonce the process may still use is one whose reply was lost, and
its request was given up then. At a start no such transaction exists, because the
nonce is the pending count of a pool without a gap; so this invariant needs that of
the nonces too, besides the ranges and the logs.

All of it holds for any requests, blocks and number of starts.

### The iterator

`NoGoroutineIsLeft` is part of an invariant with two more facts: a goroutine that
nobody told to stop is over only with its work done, and only `Close` tells it.
They make the end of the subscription mean that everything is in the buffer, so
that `Next` may go on with the buffer and stop when it is empty. The refinement
maps the rest of the stream to `logs \o unsent`; a log that moves from the
goroutine to the buffer is a stutter (`MovingALog`), one that is read is handed
out (`TakingALog`).

### The listener

`NothingPassedOver` speaks of the block on record, which a poll writes long after
it chose its range; another poll may have begun, ended or moved the record
meanwhile. The strengthening, `PollOK`, says of every poll that waits for its logs
that it asked for confirmed blocks only and that all events before its `from`
were handled when it asked (`SeenUpTo`), which stays true however late the poll
ends. `EventsOK` (an event is in one block, none ahead of the chain) makes a new
block one that no earlier poll asked for, and `BackfillOK` keeps the backfill
before the start.

A second invariant on top of it, `OnceInv`, is about events that come twice. Of the
two reasons for a repetition, a backfill that reads a processed event and polls that
move the record back, the first is excluded by `ProcessedStay` (what was processed
is in the initial block, and what the backfill has left is not of it) and
`StartIsPassed` (polls are past the start). The second is excluded only without an
overlap: then one poll is under way, it goes on where the last one ended, and
nothing beyond is handled yet (`OneAtATime`). The types of the polls and of the
backfill (`TypesAreKept`) rest on the first of these invariants: a range is one of
blocks because its poll saw them. The theorems hold for any number of polls at a time, events,
blocks and confirmations.

### The lists

The lists are a chain of loops that stop at the first item that decides, or throws.
`FirstExists` gives that item (there is a lowest one), `SomeIs` says what `some()`
returns: "no" if and only if every item says no, and never "yes" unless one does.
`ValueMatches` and `FilterMatches` relate what the code compares to what the
properties speak of: a value that names an account or chain matches it, and, except
for a chain as a plain string (`NoPlainChain`, finding 6), only then. An event writes
accounts with 0x or, for some recipients, in 32 bytes (`DataTexts`); a filter without 0x
or in ICAP form equals and contains none of these. `DecisionIs` puts block-list,
allow-list and recipients together. They hold for any lists of any length, any chain names
contained in each other, and any filters the schemas let pass, in all the forms of an address.

### The wallet

`NoncesAreConsecutive` speaks of the places of the tasks of one run; `PlacesOfTheRun`
adds which steps of a call have one, so that a restart, which takes the places away,
leaves no call of the earlier run that still counts. For `NothingReplaced`,
`SendersKnowTheCount` says that a place becomes a nonce only when the count is known
and then never changes, and `PoolIsSent` that what waits in the pool with a place
has the nonce of it: distinct places are distinct nonces, whatever the order the
sends arrive in.

### The orders

A task's phase says how far its legs are (`LegsAt`): approved when it fills, filled
when it settles, unless a leg has failed. What a leg is filled by may be another
handling of the order or another solver; the proof needs only that legs that are
filled stay so. `MoneyFor` carries the check of the funds to the moment of the fill:
a task that was alone so far is the only one under way, so nobody else spends.
`SavedIsNotHandledAgain` needs `SavedStay`: the orders on record at the start are at or below
the block the polls go on from, and the backfill leaves those of the highest block
out by name and begins at that block (`BeginningCoversTheRows`); `OnlyOpened` ties
the rows to the blocks of their orders. The theorems hold for any orders with any
legs, chains, funds and runs.

**Only model-checked**: liveness, which is about fairness and what is enabled;
`AnswersAreTaken`, one half of which is liveness; and the three properties of `VRFProof`: the loops of the curve arithmetic (`InvLoop`,
`MulLoop`, `TryAndIncrement`) are RECURSIVE operators, and what they compute for every
input needs induction over data.

## 7. Findings

1. `oif-solver/solvers/BaseListener.ts:75`: the backfill ends at `latest - 1`, polling
   begins at `latest + 1` (run `base_listener_start_block`).
2. `vrf-executor/abi/VRFCore.go:683`: the binding was made for another version of the
   contract. Its `HandleCrossChainRequest` is internal and has other parameters
   in `VRFCoreV1.sol:106`, so every estimate of `transactor.RequestVRF` reverts and the
   relayer only logs errors; its `initialize` has two arguments, the contract's three.
3. `vrf-executor/cmd/main.go:109`: `relayer.Start` blocks `run()`, so with the
   relayer enabled `exec.Run` is reached only when the context ends (`relaying` in
   `VRFExecutor`).
4. `vrf-executor/internal/transactor/transactor.go:94`: the nonce is never read again.
   When a reply is lost and the transaction is mined, every later one of the process is refused
   (`SubmitFails`, and `behind` in `PeriodicSender`); `tx-generator/main.go:106`
   panics instead and starts anew (`StaleGeneratorEnds`).
5. `oif-solver/solvers/hyperlane7683/listener.ts:35`: recipients reach the lists
   in 32 bytes, where a filter can only hold addresses, so no filter on the
   recipient matches (`RecipientForm` of `IntentFilter`; the run has addresses).
6. `oif-solver/config/index.ts:37`: a filter `"arbitrumsepolia"` matches the chain
   `sepolia`, whose name is part of it, because `String.includes` is used.
7. `contracts/vrf-core/src/libraries/VRF.sol:463`: `randomValueFromVRFProof` ignores
   what `fastVerify` returns. Nothing calls it.
8. `oif-solver/solvers/randomtestnet/filler.ts:111`: the check of the destination is
   commented out.
9. `oif-solver/config/types.ts:7`: the schema lets addresses without 0x and ICAP texts
   pass, which no text of an event ever equals or is part of.

## 8. Not modelled

* The eco solver: it is off and has no intent source.
* The custom rules and `buildRules`; the native-token legs of hyperlane7683.
* Several sources on one chain in `BaseListener`, which share an entry of
  `lastProcessedBlocks`.
* Randomness of other than 32 bytes, `gammaToHash`, `Codec` (unused), proxies and their upgrades.
* In the bindings: deployment, `initialize` and upgrades, `supportsInterface`, the
  `Watch...` subscriptions and `Parse...` functions, which nothing calls, and
  `VRFVerificationLib.go`, which nothing imports. The iterators of the other
  events are the code of `EventIterator` again.
* The solver's start and manager, its scripts, the configuration of nodes and
  containers.

## 9. Plan

The modules were written in the order of section 2: what a request goes through
first, then what the off-chain processes add. What comes next:

1. *Model*: the eco solver's fill, whose tasks set each other's allowance, and
   `withdrawRewards`, which begins to listen for the proof after the fill and holds
   the backfill until it comes; several sources with one chain key in
   `BaseListener`; the custom rules and `buildRules` as operators against what
   their configuration asks for.
2. *Abstract*: a counter that `NonceKeeperWallet` implements within a run; a record
   of orders, open or on record, that `Hyperlane7683` implements.
3. *Prove*: what these need, and the types of `PeriodicSender` and `Hyperlane7683`.
