# A TLA+ development of the Solana connector

The connector (Go, `src/`) puts a REST API in front of a Solana cluster. It
sends transactions, answers queries, and above all *subscribes*: it follows
transactions and addresses through RPC polling and WebSocket notifications and
tells a consumer, over RabbitMQ or HTTP, when a transaction is confirmed and
when a transaction it has announced is gone from the chain. This directory
holds models of the parts that keep state, the TLC configurations that check
them and the TLAPS proofs about them. `PROJECT.json` maps every definition to
the lines it stands for.

In this file `S` is `src/pkg/service/subscription_service.go`.

## 1. The system

| Component | State | Operations | Modelled in |
|---|---|---|---|
| Transaction subscriptions (`S`) | `txSubs`, `txWatchers`, `publishedState`, `pendingCallbacks` | subscribe, cancel, signature watcher, poll, `transitionTxState`, callback retry | `TxLifecycle` |
| Address subscriptions (`S`) | `addressSubs` with a checkpoint per account, `addressWatchers` | subscribe, cancel, refresh, watchers, gap backfill | `AddressTracking` |
| Subscription store (`pkg/store`) | four MySQL tables | save, update, delete, `Load` | in both of the above |
| Callback publishers (`pkg/callback`) | AMQP connection, channel, its two notification channels, a mutex | publish | `CallbackPublisher` |
| Chain service (`chain_service.go`) | idempotency table, `cfg.Tokens`, the token table | send, faucet, tokens; queries | `ChainGateway`; `ChainQueries` |
| Controller (`pkg/controller`) | none | handlers, `autoSubscribeTx` | as the start and the end of a request, in the modules of the services |
| WebSocket client (`pkg/solana/ws.go`) | a connection and three goroutines per call | connect, subscribe, read, heartbeat, close | `WsStream` |
| RPC client (`pkg/solana/rpc.go`) | endpoint counter | call with retries | `ChainQueries` |
| Decoding (`chain_transform.go`, `decoder.go`) | none | events and parties of a transaction | `TxDecoding` |
| Addresses, base58, transactions (`pkg/solana`) | none | encode, decode, build a transfer, derive an address | `SolanaEncoding` |
| Application start, models | none of their own | loading and restoring | the `Crash` and `Restart` actions; the fields the properties need |
| Configuration, logging, utilities, API docs | none that changes | | not modelled |

How they meet:

- **The poll goroutine** (`start`, S:121-133) runs on a ticker: latest block,
  then every transaction subscription, every tracked transaction, every address
  subscription, and last the queued callbacks.
- **A watcher goroutine** per subscribed transaction waits for a signature
  notification, then queries and reports; an address has one per tracked
  account, each running a backfill when its connection is up and for every
  notification.
- **API goroutines** save a row and change the maps, in either order.
- All of them report through `transitionTxState` (S:516-574), which reads the
  recorded state under the lock, publishes without it and writes afterwards.
- A failed publish goes to a queue in memory and in MySQL, which later polls
  retry. A restart loads the tables (`restore`, `resumeWatchers`) and nothing
  else: goroutines, memory and in-flight publishes are gone.

What makes it hard is that **no operation holds the lock across its steps**.
Every one is a snapshot, some calls to the network, and a write of what the
snapshot said; the poller, the watchers, the backfills and the API run them
concurrently on the same transaction or address; and the process may stop
between any two statements. `PROJECT.json` lists the hazards line by line.

What must hold, component by component:

- *transactions*: no state is recorded before its callback is delivered or
  queued; no rollback without a callback; queued callbacks drain; finality is
  recorded, a vanished transaction is rolled back; every request for a
  transaction not yet published is called back; subscriptions end; one live
  watcher for each;
- *addresses*: a checkpoint never passes a transaction that was not reported;
  every transaction after the start is reported; at most one live watcher per
  account;
- *publishers*: success only for the call's own message; every call returns,
  unless the broker falls silent for good;
- *gateway*: a faucet key pays once; what was sent is watched or the client,
  if it stayed, knows; the token map agrees with the table;
- *WebSocket client*: nothing lands unseen between two connections; a connection
  that died is noticed and a healthy one is not given up; a call leaves nothing
  behind;
- *queries*: a failure is never reported as absence; the retries of a call reach
  every endpoint of an odd pool, and of an even one those of one parity; every
  query is answered;
- *conversions*: read with its status, the events of a transaction account for
  the balances it moved, up to the rounding of a float64; what is encoded is what
  the cluster decodes.

## 2. Modules

### `CallbackOutbox`, `TxLifecycle`

`TxLifecycle` is the state machine of transactions. Its variables are the
fields of `subscriptionService` (`subMem`, `pubMem`, `pendMem`, `entry`), the
tables (`subStore`, `pubStore`, `pendStore`), the chain as the RPC node
reports it (`chain`, `head`) and, per goroutine, a program point with its local
variables (`pc`, `job`, `goal`, `data`, and the poller's loop).

A goroutine's action covers what it does between two points at which another
goroutine can see the difference: a lock section, one SQL statement, one call.
`transitionTxState` is thus `TransitionRead`, `Publish`, then `ClearMem` and
`ClearStore` or `QueueMem` and `QueueStore`, then `WriteMem` and `WriteStore`,
whoever runs it: a worker, the poller, or the poller's retry of a queued task.
`SubscriptionStatus`, `SubscriptionDecide` and `SubscriptionDetail` are the
three reads of `advanceTxSubscriptionState`, `TrackedStatus` is
`advanceTrackedTxState`, `RegisterStore`/`RegisterMem`, `CancelStore`/
`CancelMem` and `StatusStore`/`StatusMem` are the two halves of subscribing,
cancelling and ending. `Crash` clears everything but the tables and restores
what `Load` restores. A worker with generation 0 is a backfill's report; a
generation from 1 on is a run of the signature watcher.

`QueryTransaction` may answer with nothing (`nullResult` when the chain does not
have the transaction; `withhold` when it does, and the node says null, *not found*
or -32000 all the same), and the poller then publishes what it has.

History variables: `sent` (delivered), `unsaved` (the last save in the queue
table failed), `blank` (published without its transaction), `forgotten` (a fork
took it from the chain), `withheld` (the node answered nothing for a transaction it
reports) and `awaited`: the transactions with a request, accepted before anything
was published of them, that no callback has been delivered for since. A callback
of an earlier subscription does not count.

`CallbackOutbox` is the abstract specification: tasks are queued, delivered at
least once and recorded, and no state is recorded before its task is delivered
or queued. `ImplementsOutbox` maps the tables of `TxLifecycle` to it.

### `AddressTracking`

One address. A slot holds at most one transaction of interest, which touches a
set of accounts, so a slot number names its transaction. `sub` and `row` are the
subscription in memory and its row; `snap` is the copy a goroutine works on
(`cloneAddressSub`). `backfillAddressAccounts` is `BackfillRead`,
`BackfillLatest` (empty checkpoints start at the latest slot), `BackfillFetch`
per account, `BackfillReport` per transaction, `SaveStore` and `SaveMem` (the
write of the whole copy). `RefreshMem`/`RefreshStore` are the poll's refresh,
`Dial`, `Notified`, `Disconnected`, `WatchCancelled` are the watcher as the
WebSocket client lets it see things.

The module stands on its own next to `TxLifecycle`: a report here is the
`BackfillStart` there, and neither touches the other's state.

### `PublisherContract`, `CallbackPublisher`

A process is one call, named by its message. `publishJSON` is `Lock`,
`ensureConnected`, `Send` and `Select` with the mutex held from `Lock` to the
answer. The AMQP library is modelled from its use: frames of the current
connection (`incoming`) are put in the two channels of capacity one by a reader
that waits for room (`Dispatch`); a message of a connection given up may still
arrive (`orphans`, `BrokerLate`). The timeout of `Select` can fire at any time.
The HTTP publisher is `post` and `Response`. `transport` is chosen once, as
`NewCallbackPublisher` does.

What `ensureConnected` and `resetLocked` ask the broker, ExchangeDeclare and the
two Close, are points of their own (`declare`, `close`): only the wait for the
confirmation has a timeout, and a broker that is `silent` on a connection that
stands answers none of them, while the mutex is held (rabbitmq.go:97, 119,
133-144). A connection that is gone answers with an error at once; one whose
channel alone is closed (`half`) must still be asked.

`PublisherContract` states what `TxLifecycle`'s `Publish` takes for granted: the
message of a call that returns no error was accepted, by a queue or by the consumer,
or dropped by a broker that has no queue for it (mandatory delivery returns a
message and *also* confirms it; the select may take the confirmation, and leaves the
return in its channel for a later call, which fails). Success is therefore not
proof of delivery where no queue is bound. A call that returns an error may have
delivered, or do so later: `publishLate` in `TxLifecycle`.

### `ChainGateway`

A process is one HTTP request; a retry is another request. `Arrive` chooses a
handler and its arguments; the steps of `Faucet`, `SendSignedTransaction`,
`autoSubscribeTx`, `AddToken`, `GetToken`, `DeleteToken` follow. A transfer is
determined by payee and blockhash, as signatures are. A client may leave (`Leave`)
while its request runs: the context of its outgoing calls is done (`gone`), and each
of them ends without its answer (`Unanswered`), with or without its effect; the
registration has a context of its own and is made all the same. `excuse` is a history
variable: names on which requests overlapped, whose entry was lost, or one of
whose answers was lost, to a client that left included. The properties say exactly
what holds without them.

### `WsStream`

One watcher, of an account or of a signature, and its calls one after the other.
`Dial`, `subscribe`, the read loops `StreamAccountNotifications` and
`WaitSignatureNotification`, `onSubscribed` and `Handle` (the backfills that run
inside the loop), `Unwind` (the deferred calls) and `Sleep` are the watcher's
goroutine; `Ping`, `HeartbeatEnds` and `closeConnOnDone` the two goroutines each
connection has besides. The node registers a subscription, acknowledges it,
answers pings and notifies; the connection may break with an error or die in
silence. Time is a number of ticks: `left` to the read deadline, `toPing` to the
next ping. A tick passes only when everybody prompt has done what there is to do;
what may take long, a backfill or a dead network, is a fault and counted. A frame
is one of four kinds, and that a notification says *something landed* is all it
says, as for the code, which backfills on it. `seen` follows `landed` when a
backfill ran: what the backfill itself does is `AddressTracking`.

The one assumption on the node beyond the protocol is that, for a signature, it
acknowledges before it notifies; for an account it may notify first.

### `ChainQueries`

One HTTP query through the RPC client: `Request`, then per attempt `Call` (with
`pickEndpoint`), `callEndpoint` with whatever the node replied, and `Backoff`;
`GetLatestBlock` makes two calls. Other callers only move `nextIndex`
(`OtherCalls`). An endpoint is a node with its own late view of the ledger; a
reply is a value, null, the code the client takes for *not found*, or a failure,
and the service functions turn it into what the handler answers. `heard`, `asked`
and `alone` are history.

### `TxDecoding`, `SolanaEncoding`

The pure parts. In `TxDecoding` a transaction grows by an instruction per step;
each step does to the balances what the runtime did, and appends what
`toChainEvents` makes of the instruction, so that every reachable state is a
transaction beside its decoding. A transaction may have `failed`: its records stay as
they were and nothing moves, but `toChainEvents` does not look (only the status of
`toChainTx` does, chain_transform.go:29-32) and decodes it like any other. An amount
is a float64 that was parsed and divided by ten once for each decimal
(decoder.go:189-226): `Float` is any number within `Rounding` of the amount. The
iteration over the map `cfg.Tokens` is a nondeterministic choice. In `SolanaEncoding` a behaviour is one job: base58 either
way, a transfer built from key, payee and amount, or the search for the bump of
a derived address; references are the decoder, a reader of transactions written
from the other side (`ReadTransaction`), and the definition of the highest bump.
Digits and bytes have small bases; hashing, the curve and signing are parameters.

### MC modules

`MCTxLifecycle`, `MCAddressTracking`, `MCChainQueries`, `MCChainGateway`,
`MCCallbackPublisher`, `MCWsStream` and `MCConversions` extend the modules for
TLC. `MCAddressTracking` and `MCChainQueries` also hold the two properties that
quote the documents and do not hold; the gateway's has the symmetry, and `MCConversions` puts `TxDecoding` and
`SolanaEncoding` side by side with their bounded inputs: a behaviour of `MCSpec`
is a behaviour of one of them.

### Mistakes on purpose

Definitions introduced by "With a mistake:" are variants of the definition that
follows or precedes them, with a plausible bug: a dropped error check, a missing
reset, a wrong bound. No specification uses them; `PROJECT.json` pairs each with
a property that it breaks, under the configuration of the run, as evidence that
the property is about the code.

## 3. Runs

Passing:

| Run | Bounds | What it shows |
|---|---|---|
| `tx_delivery` | 1 transaction, 1 watcher, 2 slots, 2 faults of crash, failed or late publish, failed save, fork, RPC error, empty or withheld answer | types, `AnnouncedBeforeRecorded`, `RollbackOnlyAfterCallback`, `RequestIsCalledBack`, `CallbackCarriesTx`, and the refinement of `CallbackOutbox` |
| `tx_concurrency` | 1 transaction, 1 watcher, a backfill, API calls, 2 slots, no faults; fair | `OneLiveWatcher` in every order, `SubscriptionEnds` |
| `tx_live` | 1 transaction, 1 watcher, no expiry, 2 faults of crash, failed publish, fork; fair | `QueueDrains`, `FinalityIsReached`, `VanishedIsRolledBack`, `SubscribedIsCalledBack` |
| `addr_checkpoints` | 1 account, 3 slots, 3 backfills at once, 1 event of crash, failed call, failed save, empty answer; fair | `CheckpointCoversReported`, `EveryTransactionReported` |
| `addr_watchers` | 2 accounts, 2 watcher generations, 1 event of cancel, subscribe again, token change, failures | types, `OneLiveWatcher`, `CancelIsFinal` |
| `publisher` | 3 calls, both transports, 3 faults of broken connection, silent broker, refusals, no queue; fair | channel capacities, the refinement of `PublisherContract`, `EveryCallReturns` |
| `gateway` | 3 requests, 2 keys, 2 payees, 1 token code, 2 blockhashes, 2 faults of failed call, lost answer, client that leaves, expiry, restart | types, `KeyPaysOnce`, `SentIsAccounted`, `TokensAgree` |
| `ws_stream` | an account or a signature, 3 connections, 2 landings, a deadline of 3 ticks, 2 faults; fair | types, `NothingOutlivesTheCall`, `UnseenIsOnItsWay`, `DeadlineNeedsSilence`, `LandedIsSeen`, `CancelEndsEverything` |
| `queries` | each query, 1 to 3 endpoints, 2 extra rounds of attempts, up to 9 failures; fair | types, `AloneAsksTheRounds`, `AbsenceIsSaid`, `EveryQueryIsAnswered` |
| `conversions` | transactions of 2 instructions, succeeded or failed, over 2 accounts, 2 wallets, 2 token codes; base58 strings up to 6 digits, 5 keys, 10 amounts | `EventsExplainBalances`, `EveryMoveIsReported`, `OneTransferIsShown`, `Base58RoundTrip`, `TransferIsReadBack`, `HighestBumpIsFound` |

Finding a disagreement (each checks one property, which TLC violates):

| Run | The document says | The code |
|---|---|---|
| `doc_nothing_is_skipped` | README.md:96, without a checkpoint everything after the first slot is tracked | the older of two copies starts the account again, later (S:429, 719) |
| `doc_unknown_is_not_onchain` | Connector.md:187, 189, `ifTxOnchain` says whether the transaction is in a block | null, the answer for an unknown transaction, becomes an empty transaction on chain (rpc.go:127) |

Four more promises of Connector.md hold only under conditions. The safety
properties name them as their exceptions, with a history variable; the liveness
properties are checked where they are met:

- *A subscription request is called back at least once after it was received*
  (492-494): not when its transaction is already published, which is the case 494
  gives as the reason for the promise. The request finds a recorded state, which
  nobody announces again (S:224, 246, 518), and the poll completes it without a
  callback; so does one for a transaction that was dropped, which goes straight to
  FINALIZED (S:236). Nor when the window ends without the transaction.
  `RequestIsCalledBack` and `SubscribedIsCalledBack` are about requests accepted
  before their transaction was published; each of those gets a callback of its own,
  and an earlier one does not count.
- *Only a dropped or reverted transaction may be empty* (450): a fork between
  the status and the details, or a node that answers nothing for a transaction it
  reports as confirmed (rpc.go:118, 127, chain_service.go:410), gives a CONFIRMED
  callback without its transaction (S:225-241, which logs the case at S:331).
  `CallbackCarriesTx` excepts what a fork took from the chain and what the node
  withheld.
- *A fork is rolled back* (498): not when a poll expires the subscription between
  a watcher's publish and its write, since DROPPED is final and untracked (S:253,
  517-567). `VanishedIsRolledBack` is checked where nothing expires.
- *A cancelled address stays cancelled* (410): a backfill that copied the
  subscription before writes it back, ACTIVE (S:713-719). `CancelIsFinal` is about
  an address nobody works on a copy of.

The documents differ from the code in wording too: README.md and Connector.md
describe `logsSubscribe` on a program and a callback with `state` and
`previousState`; the code subscribes to accounts and sends `tx` and `txEvents`.
The models follow the code.

### Why the bounds are enough

- *One transaction* (`TxLifecycle`): every map and table is keyed by the
  transaction, and the only things shared, the poller's snapshots and the
  crash, treat each alike. The proofs hold for any set.
- *One subscribe and one cancel call* per transaction or address under way:
  their halves interleave with each other and with everything else.
- *`MaxGen`*: a watcher generation is reused once it has ended; one is enough
  for the races with the poller and with a cancelled watcher winding down, and
  `SingleWatcher` is proved for any number.
- *`MaxHead`, `EndBlock`*: only whether the window has passed matters.
- *`MaxSlot` = 3*: a first slot that starts the checkpoint, one to be found and
  one more for the checkpoint to pass it.
- *`MaxBusy` = 3*: the poller and two watcher goroutines in a backfill at once.
- *`MaxFaults`, `MaxEvents`*: every hazard listed takes at most two.
- *`MaxHash` = 1*: two requests with the same and with different blockhashes.
- *`PongWait` = 3*: the code's deadline is three ping intervals, whatever their
  length; one tick per ping is the shortest that keeps that.
- *`MaxFaults` = 2* in `WsStream`: three connections, so that one ends with an
  error and its successor too; `MaxLanded` = 2: one the backfill sees, one it misses.
- *`RetryTimes` = 2* is the client's default; `MaxFaults` = 9 in `ChainQueries`
  lets every attempt at three endpoints fail. The connector configures one
  endpoint; the client takes any number, odd and even differ, and both are run.
- *`IndexMod` = 10* stands for the 2^32 of the counter. As that it is even, and at
  least the attempts of a call, so that the counter wraps at most once within one.
- *`Rounding` = 1*, a tenth of a unit of the mint: that an event may be off by less
  than the smallest amount, either way, and that two add up. *`Decimals`* and
  *`NativeDecimals`* = 0, `MaxDecimals` = 1: the mint's decimals and others.
- *`MaxLength` = 2*: an event is made of one instruction and the records around the
  transaction, so that two show that they add up and that no other is looked at.
- *`Byte` 8, `Radix` 3, `Low` 4, `KeySize` 2*: the arithmetic of 256, 58, 128 and 32
  with a base that does not divide the other and lengths above one digit.

Deadlock checking is off where a behaviour ends: in `Publisher.cfg`, `Gateway.cfg`,
`Queries.cfg` and `QueryUnknown.cfg` when every call or request has its answer, in
`WsStream.cfg` when the watcher has ended, in `Conversions.cfg` when the input is
converted. Elsewhere the poll goroutine never stops and neither may the model.

### Fairness

`LiveSpec` of each module assumes only what the Go runtime and the ticker give:

- weak fairness of the poll goroutine and of a worker's next step: a runnable
  goroutine runs, and RPC and SQL calls end. That a publish ends is the
  publisher's own claim, `EveryCallReturns`, and holds as far as that does;
- in `CallbackPublisher`, weak fairness of a call that can go on, and of what is
  behind the answer to a Close (`Behind`). A broker that is not silent answers
  ExchangeDeclare and Close; it owes no confirmation, and may be silent for good;
  the consumer owes nothing. `EveryCallReturns` therefore has two exceptions, and
  they are real in the code: a broker that stays silent on an open connection
  blocks the caller, and with it every callback, and so does the library's reader
  when a return that nobody took fills its channel while a Close is waiting
  (`ReaderStuck`);
- in `TxLifecycle`, weak fairness of `RegisterMem` and `CancelMem`: an API call
  that has written its row goes on to the lock section;
- in `TxLifecycle`, strong fairness of the poll's retry of the whole queue
  (`RetryStart(pendMem)`): a task is due one poll interval after it failed, and
  polls are one interval apart, so that some poll finds all of them due;
- in `AddressTracking`, weak fairness of the poll goroutine and its backfill
  alone: what is shown to be reported is reported without any watcher;

- in `WsStream`, weak fairness of the watcher and of the goroutines of each
  connection, of a live node's registration and acknowledgement and of its pongs,
  and of time (`Tick`) until the watcher is cancelled: a cancelled watcher must end
  without waiting for a deadline, and does;
- in `ChainQueries`, weak fairness of the handler's goroutine and of the end of an
  attempt, by an answer or by the timeout of the HTTP client.

Subscribing, cancelling, sending, the chain and every fault are never fair; the
number of faults is bounded, so they stop.

## 4. Proofs

TLAPS checks, for every value of the constants:

- `TxLifecycleProofs`: `TypeCorrect`, `OutboxOrder` (`AnnouncedBeforeRecorded`)
  and `RollbackOrder` (`RollbackOnlyAfterCallback`). Neither invariant is
  inductive alone: one has to know what a goroutine between the publish and the
  write has achieved. The inductive invariant `DeliveryInv` adds that a goroutine
  clearing a queue entry has delivered its message (`ClearAfterDelivery`), that one
  about to write a state has announced it (`WriteAfterAnnouncement`), and that
  whoever holds a rollback, as its goal (`RollbackGoal`), in the poll's snapshot
  (`TrackedSnapshot`) or in a queue (`RollbackTask`), comes after a callback that
  is covered. The type invariant it rests on, `TypeInv`, adds what the poller's
  control state says of its goal and its loop.
  `Refinement` follows from `DeliveryInv`: every step is a step of
  `CallbackOutbox` or leaves its variables alone.
  `SingleWatcher`: `OneLiveWatcher` is inductive given the types, since a step that
  starts a watcher finds no other, a step that unregisters one cancels it under
  the same lock, and no other step starts a goroutine.
  `CallbackData` (`CallbackCarriesTx`): `CarryInv` adds that a worker keeps to the
  transaction it was started for (`OwnJob`), that whoever asks for the details has
  seen the transaction on chain (`SeenBeforeQuery`), and that who got none
  (`EmptyAnswer`) was answered after a fork, or by a node that withheld it.
  `RequestsAnswered` (`RequestIsCalledBack`), in two stages. `PublishedInv` says
  that nobody gets ahead of the first publication: the poller with a second state has
  CONFIRMED on its way first (`SecondState`), and whoever is about to record FINALIZED
  or REVERTED, or follows a transaction as CONFIRMED, finds something recorded of it
  (`PastFirst`, `Published`). `PledgeInv` adds that a process that
  clears a queue entry has answered the requests for it (`NoneCleared`), and one
  about to record CONFIRMED has answered them or queued the callback
  (`QueuedBeforeWrite`).
- `CallbackPublisherProofs`: `TypeCorrect`, `CallInvariance` and `Refinement`.
  `CallInv` says that the mutex has one holder (`OneHolder`); that what is on the
  connection, among the frames read from it and in `p.confirms` belongs to the call
  that waits for it or is giving the connection up, in one of six shapes (`InFlight`,
  `OneInFlight`); that `p.returns`, where the return of a call that has ended may
  stay, holds only messages the broker dropped (`ReturnsDropped`); that what is on
  its way after an answer belongs to a failed call (`OrphansFailed`), and that an
  accepting response comes after the acceptance (`RepliesTaken`). This is why it is
  safe that the code does not compare delivery tags, and why each of its four calls
  of `resetLocked` is needed.
- `AddressTrackingProofs`: `TypeCorrect`, `SingleWatcher` (`OneLiveWatcher`),
  `CheckpointCovers` (`CheckpointCoversReported`) and `CancelStays`
  (`CancelIsFinal`). `SingleWatcher` gives at most one live watcher, and none
  without a subscription; an address that a stale copy made active again after a
  cancellation has none until it is subscribed again, refreshed or restored. The
  watcher of an address is not safe by itself, since a copy that is written back can bring a subscription back:
  `WatcherInv` adds that any copy that may be has a target (`CopySet`, `SnapSet`).
  `CoverInv` says of every copy, wherever it is, that its checkpoints do not pass
  the head nor the latest slot its owner read, and that outside fetching and
  reporting nothing is found and unreported; `MainFirst` that a watcher's main
  goroutine has ended before its accounts' goroutines run. This is why an old copy
  that overwrites a newer one moves checkpoints back, never past something
  unreported. The action property `CancelIsFinal` needs, besides, that a
  subscription without a target is none (`SubSet`), so that no ending watcher and
  no listed subscription can be saved for one that was cancelled.
- `ChainGatewayProofs`: `TypeCorrect`, `SentAccounted`, `TokensMatch` and
  `FaucetPaysOnce`. `GateType` says what a request holds at each step, and
  `SentInv` which steps answer for a transaction that was sent (`Answerable`): one of
  them is the end of a request whose client has gone, which answers nobody. The
  other two share `NameInv`: a name without an excuse has at most one request at
  work (`Alone`), map and table agree unless that request is about to copy one to
  the other (`TokenInv`), and what it copies is what the table has (`CopyInv`); a payment is kept under its key or about to be (`KeptInv`), one that
  is about to be made is the first (`FreshInv`), and none is made twice
  (`OneTransfer`).
- `WsStreamProofs`: `TypeCorrect`, `NothingIsLeft` (`NothingOutlivesTheCall`),
  `NoGap` (`UnseenIsOnItsWay`) and `DeadlineIsFair` (`DeadlineNeedsSilence`).
  `CallInv` extends the first to the handling of a signature's notification,
  `Acknowledged` says that a stream is only read while the node notifies, and
  `PaceInv` that the time since the last refresh and the time to the next ping
  (`Paced`) are within what was held up plus one interval while the heartbeat runs
  (`Beating`), unless an answer is due. It holds for any `PongWait` from 3 on.
- `ChainQueriesProofs`: `TypeCorrect`, `OnlySaidIsAbsent` (`AbsenceIsSaid`) and
  `RoundsAreAsked` (`AloneAsksTheRounds`). `Trying` bounds the attempt that is under
  way, and `Said` says that nothing is answered before a call returns; that
  `pickEndpoint` stays in range for any number of endpoints is part of the first.
  For the last, `SoloInv` says what a caller that is alone has asked: its n-th
  attempt finds the index n further than its first did (`Solo`). The rest is the
  arithmetic of remainders: such attempts are two endpoints apart (`TwoApart`),
  steps of two reach every remainder of an odd number (`OddRound`) and one parity
  of an even one (`EvenRound`); where the index wraps inside the call, one of the
  two stretches is still a whole round (`WholeRound`).
- `TxDecodingProofs`: `BalancesExplained` (`EventsExplainBalances`), `MovesReported`
  (`EveryMoveIsReported`) and `TransferShown` (`OneTransferIsShown`), for
  transactions of any length. Each is inductive once the recursive sum `Total` is
  known to add what is appended (`TotalAppend`) and to follow a change of one term
  (`TotalUpdate`); `GainMoves` and `IntoAppend` apply them to the wallets' balances
  and to the events, and `DecodeFacts` says what `toChainEvents` makes of one
  instruction, for every order in which the token map may be iterated. Each event
  adds at most one rounding to the distance between the two (`NearStep`), and one of
  a failed transaction, which counts for nothing, adds none (`NearWider`).
- `SolanaEncodingProofs`: `Base58` (`Base58RoundTrip`), `HighestBump`
  (`HighestBumpIsFound`) and `TransferReadBack` (`TransferIsReadBack`). The
  invariant, `ResultIsOfJob`, is short: a result is that of its job. The work is in
  what the definitions compute. A sequence of digits is its leading zeros and
  the digits of its number (`Canonical`), and reading the digits of a number
  gives it back (`ReadDigits`), so that recoding twice is the identity for any
  two bases (`Recode`); a compact-u16 and a little-endian number are read back as
  what was written (`ReadCompactFacts`, `LittleEndianFacts`), and so is the whole
  transaction, item by item of its layout (`TransferIsRead`).

The last two modules reason about recursive functions. The induction they need is
over sets of naturals, not over an operator: a set of naturals with a member has a
least one (`LeastExists`, from the well-foundedness of the order), hence
`SetInduction`, and a statement about all numbers or lengths is the set of those it
holds for. That a recursive definition has the value its equation says is shown
the same way, by building a solution stage by stage (`Recursion`, `PartialFacts`,
`PowerFacts`).

The proofs rest on the `ConstantAssumption` of each module (bounds are naturals,
the environment events are known names, process identifiers are distinct, the
accounts of a transaction are finitely many), on `RetryAssumption` (a client
retries, as the only caller of `NewClient` has it, and the index has an even range)
and on `EncodingAssumption` (bases above one, a byte twice what a byte of a
compact-u16 holds, inputs made of bytes). TLC evaluates them in every run of the
module.

Only model-checked: the liveness properties of each module, since fairness and
ENABLED are beyond the prover. Every invariant, action property and refinement that
a passing run checks is also a theorem.

## 5. What is not modelled

- **Wording and formatting**: JSON, log lines, error texts, the text of amounts.
  How far a float64 may be off is a constant, not derived from IEEE arithmetic.
- **An index that lags**: a slot and its transactions reach the RPC node at once
  in `AddressTracking`; a node whose signature index lags behind its slot would
  let S:483 pass a transaction.
- **Sizes of pages**: `FetchAddressSignatures` is taken to its last page; that a
  failing page fails the backfill is modelled.
- **Data races**: `deriveTrackedAccounts` reads `cfg.Tokens` without its lock; the
  model lets it see any token list, and the process may crash at any time.
- **RabbitMQ redelivery and consumers**: the promise ends at the queue.
- **Code without a caller**: `StreamLogsNotifications`, `FetchBlockTransactions`,
  `CheckSignatureLive`, `BasicAuthMiddleware`, and the utilities but for the signal
  trap that prints stacks.
- **Inner instructions and transfer fees**: the decoder looks at neither; a
  transaction that moves tokens by a program's inner instructions has no events,
  and the model has no such instructions. Names of programs and instructions are
  compared without regard to case, which a model value cannot show.
- **Identifiers**: an event's code is the signature and the position of the
  instruction (chain_transform.go:64); a transaction is accepted as base64 or base58,
  and a text that is both is read as base64 (chain_service.go:86). Neither is
  told apart by a property.
- **Binding**: the handlers refuse a request without its fields before any state
  changes. One consequence is that `AddToken` cannot be given 0 decimals, since the
  binding calls a zero missing.
- **`/-/reload`** ends the process: it is the `Crash` of the models.
- The components marked not modelled in section 1: configuration is read once and
  its values are constants, logging and the API documentation change nothing.

## 6. Plan

Done, in this order: transactions with their outbox (the core), addresses, the
publishers with their contract, the gateway; then the WebSocket client, the
queries over the RPC client, the conversions, and the proofs about every one of
them.

Left:

1. A lagging index in `AddressTracking`, stated as the assumption under which
   `CheckpointCoversReported` holds, and token changes during a backfill.
2. `WsStream` as the refinement of the `Dial`, `Notified` and `Disconnected` that
   `AddressTracking` takes for the client.
3. Two transactions in `TxLifecycle` with the poller's loop over both, for the
   order in which one poll treats them.
