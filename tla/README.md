# TLA+ models of the eth filter API (faxchain)

These modules model the Ethereum-style filter and subscription bridge in
`src/app/rpc/namespaces/eth/filters/api.go` (`PublicFilterAPI`). They are
checked with TLC. The rest of `src/` is listed in the inventory below.

## 1. Inventory

### Components

| Component | Source | State | Operations |
|---|---|---|---|
| Filter registry | `api.go` `PublicFilterAPI` | `filters: map[rpc.ID]*filter` under `filtersMu`. Each filter holds a type, accumulated `hashes`/`logs`, a deadline `*time.Timer`, its `*Subscription` and its `crit`, which is never set. | `NewPendingTransactionFilter`, `NewBlockFilter`, `NewFilter`, `GetFilterChanges`, `UninstallFilter`, `GetFilterLogs` |
| Listening goroutines | `api.go` 131-151, 223-243, 393-425 | one per filter, blocked in `select` on the subscription's event and error channels | receive an event (append under lock), receive an error (delete, and return except for pending-tx), decode failure (return) |
| Deadline sweeper | `api.go` `timeoutLoop` 89-107 | a ticker with period `deadline` (5 min) | on each tick, under `filtersMu`, unsubscribe and delete every filter whose timer has a value in `C` |
| Event system / Subscription | not under `src/` (spec.md 4.1) | one backend connection; per subscription an event channel, an error channel and a cancel | `SubscribePendingTxs`, `SubscribeNewHeads`, `SubscribeLogs`, `Unsubscribe`, cancel func |
| Push subscriptions | `api.go` `NewPendingTransactions`, `NewHeads`, `Logs` 158-357 | one goroutine per subscription relaying events to the RPC notifier | relay, stop on `rpcSub.Err()`, on `notifier.Closed()`, or on a decode or notify error |
| Log queries | `api.go` `GetLogs` 433-463, `GetFilterLogs` 487-523 | none (stateless); `Filter`/`FilterLogs` are not under `src/` | resolve a block hash or a range and match addresses/topics |
| Rate limiter | `golang.org/x/time/rate` via `Backend.GetRateLimiter` | per-method token bucket | `Allow()`; a refusal returns before any state change |
| App wiring and modules | `app/app.go`, `client/flags.go`, codecs, `token/genesis.go`, `evm/keeper/params.go`, `distribution/types/proposal.go` | keepers, configuration | construction, ABCI delegation, genesis I/O, validation |
| Staking vote weight | `staking/keeper/weight.go` | none | `calculateWeight(nowTime, tokens)` |

### How they interact

A client call takes `filtersMu` for a short map operation. Creation first
subscribes to the event system, then inserts the filter under the lock and
starts a listening goroutine. The goroutine takes the same lock to append each
event to the filter. `GetFilterChanges` takes the lock, stops, drains and
resets the deadline timer, then returns and clears the accumulated items.
`timeoutLoop` takes the lock on every tick and evicts each filter whose timer
has fired. `UninstallFilter` deletes under the lock and unsubscribes after
releasing it. Push subscriptions do not use the registry: their goroutine
forwards events to the RPC notifier until the client or the connection goes
away.

### What is hard

* **Interleaving.** Listeners, polls, uninstalls and the sweeper all work on
  the same filters.
* **Timers.** `GetFilterChanges` receives from `f.deadline.C` while holding the
  lock whenever `Stop()` fails. The code relies on the fact that only the
  sweeper (which then deletes the filter) and the poll (which then `Reset`s)
  ever drain `C`; otherwise the call blocks forever and the whole registry
  stops.
* **Eviction timing.** A filter's timer and the ticker can fire at the same
  instant, in either order.
* **Failure paths.** A subscription error, an undecodable event, or a closed
  channel after `Unsubscribe` each take a different path in each listener.
  Only some of those paths delete the filter, and only some cancel the
  subscription.

### Properties that make it correct

* Registry: every item produced for a live filter is returned by exactly one
  poll, in order (spec P1). A poll never blocks. A filter polled within the
  window is never evicted, and an idle one is evicted by the first tick after
  its deadline (P2). A removed filter's subscription is canceled and its
  goroutine ends (spec section 3).
* Push subscriptions: a subscription ends, and its backend subscription is
  canceled, exactly when the client unsubscribes, the connection closes, or a
  decode error occurs. It does not end on an ordinary non-EVM event.
* Log queries: `GetFilterLogs(id)` equals `GetLogs(crit)` for the criteria the
  filter was created with (spec section 8 E2E). The matcher obeys spec 3 and 4.5 (P4).
* Creation: in no span of seconds does a method register more filters than
  its token bucket admits (P5).
* App: a multi-message StdTx holding an order or EVM message is refused, and a refused tx never succeeds.

## 2. Plan

In order of importance:

1. **FilterRegistry** + **PollingFilter** (done): the registry, its
   listeners, timers and sweeper, and the abstract poll-filter it refines.
2. **PushSubscriptions** (done): the three push handlers with the notifier,
   the client unsubscribe, the connection close and decode/notify errors.
   Liveness: every push subscription whose client left cancels its backend
   subscription. A violation run covers the non-EVM `return` in `Logs`.
3. **LogQuery** (done): the criteria, block-hash versus range resolution,
   and the matcher as a recursive operator checked against a direct
   definition of spec 4.5. A violation run shows `GetFilterLogs` ignoring
   the `NewFilter` criteria (`api.go:390`).
4. **FilterCreation** (done): what each creation call returns to the client,
   with per-method rate limiters: the error-text-as-id path (`api.go:119,
   211`) and the `err` NewFilter shares with its goroutine (`api.go:427`).
5. **AppABCI** (done): the ABCI cycle of `app.go`, with InitChain, the
   module manager's hook orders, `syncTx` and a restart through
   `LoadLatestVersion`. `validateMsgHook` is checked against the rule its
   error message states, and the hook orders against the comments that
   constrain them.
6. `calculateWeight` (Go truncating division, then a float rate): a
   candidate only if a property with a stated expectation turns up (see
   section 4).

## 3. Modules and runs

### PollingFilter (abstract)

`used`, `registered`, `published`, `inflight`, `queue` and `delivered`.
`Publish` records an item the chain produced for a registered filter and puts
it in flight. `Accumulate` moves the head of the in-flight items to the queue.
`Poll` appends the queue to `delivered` and empties it. `Remove(S)` drops
filters; a sweep removes several in one step.

### FilterRegistry

| Variable | Code |
|---|---|
| `filters` | `api.filters`; each record is `[typ, items, timer, since]`, where `items` are `hashes` or `logs`; `since` is a history field, the time `items` last went from empty to non-empty (reset to 0 when a poll clears them) |
| `timer` | `f.deadline`: `active` means running, `at` is the expiry, `fired` means a value is waiting in `C` |
| `tick` | a tick buffered in `ticker.C` |
| `sub`, `errc`, `chan`, `emitted` | the event-system subscription, its error and event channels (spec-modelled) |
| `listener` | the listening goroutine |
| `unsubPending` | an `UninstallFilter` call between unlock and `f.s.Unsubscribe` |
| `wedged` | a goroutine blocked forever holding `filtersMu` |
| `lastPoll`, `produced`, `delivered` | history variables for the properties and the refinement mapping |

Each critical section under `filtersMu` is one atomic step. Creation
(subscribe, insert, start goroutine) is one step, because no client knows the
id before the call returns. A call refused by the rate limiter, or naming an
unknown id, changes nothing, so it is a stuttering step and is not written
out.

Events carry an identity `n`, which stands for the hash or the log they yield.
For logs filters an event is `match`, `nomatch` (FilterLogs keeps nothing) or
`undecodable` (DecodeResultData fails). A canceled subscription's channels are
closed: the listener may read a zero event, and `errc` stays ready.

Time is a discrete clock. `TimerFire` fires a due timer during the current
instant, before or after that instant's sweep. `Tick` advances the clock only
once due timers have fired and a buffered tick has been swept. This assumes
the sweeper runs promptly, which holds because it only waits for `filtersMu`,
and critical sections are short.

Fairness (`FairSpec`): weak fairness on each listener case and on the second
half of `UninstallFilter`. Go runs every runnable goroutine, and `select`
picks uniformly among ready cases. Clients, the backend and the clock get no
fairness.

### PushSubscriptions

| Variable | Code |
|---|---|
| `kind`, `task` | which handler created the RPC subscription; its relaying goroutine |
| `sub`, `chan`, `emitted` | the event-system subscription and its event channel (spec-modelled) |
| `unsubscribed` | `rpcSub.Err()` is ready: the client sent `eth_unsubscribe` |
| `connClosed` | `notifier.Closed()` is ready, and every `Notify` fails |
| `failed`, `produced`, `notified` | history: a handling failure, the items produced while subscribed, the items sent to the client |

Creation is one step. A refused creation (no notifier, subscribe error)
changes nothing. Each `select` case of a relay is an action: an event case
per kind (`PendingTxsReceive`, `HeadsReceive`, `LogsReceive`) and the two
stop cases, merged as `ClientGone` because both call `Unsubscribe` and
return. Every `return` runs the deferred `cancelSubs` (`Return`). A logs
event is `match`, `nomatch` (FilterLogs keeps nothing), `nonEvm` (no EVM
message in `event.Events`) or `undecodable`. Only the relay itself cancels
its subscription, and it does so as it returns, so it never reads a closed
event channel. The invalid-type branches (`api.go` 270-273, 326-330) are
therefore unreachable and are not written out. All subscriptions share one
connection.

Fairness (`FairSpec`): weak fairness on each relay's cases; the client, the
chain and the connection get none.

### LogQuery

`chain` holds the committed blocks, each a sequence of logs `[addr,
topics]`; a block's hash is its height. `filters` is the registry seen by
`GetFilterLogs`: the type and the stored `crit`, which `NewFilter` never sets
(`ZeroCrit`). `requested` records the criteria `NewFilter` was given, and
`lastCall` the latest answer with the chain height it ran at.

`FilterOf` is the construction in `GetLogs` and `GetFilterLogs`: a block
filter if a hash is given, else a range with missing bounds set to
`rpc.LatestBlockNumber` (-1). `RunFilter` (Filter.Logs, spec-modelled)
resolves -1 to the head, walks the committed blocks of the range
recursively (`RangeLogs`), and fails on a hash that names no committed
block. The matcher `TopicsMatch` is recursive over the topic positions.
spec.md reads two ways on a wildcard beyond the log's topics: 4.5 says an
empty position "matches unconditionally", while 3 says positions beyond the
log's topic count never match, and P4 says a log with fewer topics than the
criteria never matches. Both `TopicsMatch` and the reference follow 3 and
P4, reading 4.5's rule as applying to the positions the log has. This is
also go-ethereum's `filterLogs` rule. FilterLogs itself is not under `src/`.
The run's pattern `<<{tB}, {}>>` against the one-topic log `<<tB>>` is the
case where the two readings differ, and both sides exclude that log.
The reference `SpecResult` is written independently from spec.md 3 and 4.5: it
selects from all committed logs, in chain order, those in scope and
matching a quantified topic rule. Query inputs are `Criteria`, the product
of small sets of hashes (none, committed, not committed), bounds (nil,
latest, 1, 2), address sets and topic patterns (including a wildcard
before a topic and a topic before a wildcard).

### FilterCreation

| Variable | Code |
|---|---|
| `tokens` | the per-method limiter returned by `GetRateLimiter` (token bucket, spec-modelled from P5) |
| `pc`, `kindOf`, `result` | a creation call, its method and the `(id, err)` it returned |
| `registered`, `registeredAt` | `api.filters`, and the second each id was inserted (`NotYet` if never) |
| `listener` | the call's listening goroutine |
| `errVar` | NewFilter's local `err`, which its goroutine also assigns |

`NewPendingTransactionFilter` and `NewBlockFilter` are each one step: their
return value is not shared with the goroutine. A refusal or a subscribe
error returns `ErrorText` as the id, with no error. `NewFilter` is two steps,
register then return, because its goroutine writes `err` (`api.go:401,
406`) and the return reads it with no synchronisation. Once the goroutine
has stored a decode error, the read may see either value. The listener
failure paths are those that touch `err` or the registry. `Tick` refills
every limiter once a second, capped at the burst. The constant `LimitedApis`
holds the methods named in `--rpc.rate-limit-api` (`flags.go:23`, empty by
default). Any other method gets a nil limiter, so `Allowed(m)` lets it
through, as the code's `rateLimiter != nil` test does, and `TakeToken` leaves
its bucket alone. `AdmittedWithinRate` bounds the limited methods only.

### AppABCI

`phase` follows Tendermint's calls: InitChain once while no block is
committed, then BeginBlock, DeliverTx*, EndBlock, Commit. Each `app.go`
method delegates to BaseApp, and the perf calls are left out. InitChain,
BeginBlock and EndBlock run the module manager's hooks one module per step
(`RunModule`), in the three orders NewOKExChainApp sets (`InitGenesisOrder`,
`BeginOrder`, `EndOrder`). The orders are literal lists, so no property
restates them. `hooks` and `ran` record the manager call and the
modules it has run. What each module's hook does is in keepers outside this
repository. `Restart` stops the node at any point and rebuilds it with
`LoadLatestVersion`. The uncommitted block is lost. InitChain is replayed if
no block was committed. `synced` is not rolled back, because SyncTx hands
the tx to the backend and stream keepers. `DeliverTx(tx)` runs the ante handler: for a StdTx that includes
`validateMsgHook`, and an Ethereum tx takes the EVM path without it. The
messages' execution is a nondeterministic outcome. A successful StdTx is
synced (`synced`) when the backend or stream analysis is enabled. An
Ethereum tx does not decode as an `auth.StdTx`, so it is never synced.
`HookLoop` is the hook's `for` loop, written recursively. `DocumentedVerdict`
is the rule in the hook's error text, stated over the whole message list.
Txs are every StdTx of one to three messages drawn from bank, valid and
invalid order, MsgEthermint and MsgEthereumTx messages (258 txs), plus a
bare Ethereum tx.

### Runs

| Run | Bounds | Checks | Result |
|---|---|---|---|
| `timing` | 2 ids, all kinds, window 2, clock 0..5, 1 event per subscription | `TypeOK`, `PollNeverBlocks`, `EvictionWithinOneSweep`, `EvictOnlyWhenIdle` | pass |
| `delivery` | 1 id, blocks or logs, window 1, clock 0..2, 2 events, `FairSpec` | `ImplementsPollingFilter`, `RemovedFilterReleased` | pass |
| `pending_leak` | 2 ids, pending-tx filters only, window 1, clock 0..2, 1 event each, `FairSpec` | `RemovedFilterReleased` | violation (code bug) |
| `undecodable_tx` | 2 ids, logs filters, undecodable events allowed, window 1, clock 0..1, 2 events each | `ImplementsPollingFilter` | violation (spec divergence) |
| `push` | 2 subscriptions, all kinds, all log events, 2 events each, `FairSpec` | `NotifiedInOrder`, `LeftClientReleased` | pass |
| `logquery` | chains of 1-2 blocks from 3 contents, 480 criteria, 1 filter id | `GetLogsAsSpecified` | pass |
| `filterlogs_crit` | as `logquery`, 2 filter ids, the spec.md 8 E2E criteria | `GetFilterLogsAsCreated` | violation (code bug) |
| `creation` | 3 calls, rate 1/s, burst 1, clock 0..2, `eth_newBlockFilter` not rate-limited, symmetry | `AdmittedWithinRate` | pass |
| `error_as_id` | as `creation` | `ReturnedIdNamesFilter` | violation (spec divergence) |
| `newfilter_err_race` | as `creation` | `ErrorMeansNoFilter` | violation (code bug) |
| `abci` | 259 txs, 2 blocks of up to 2 txs, 1 restart | `HookAsDocumented` | pass |
| `logs_nonevm` | 2 logs subscriptions, all log events | `EndsOnlyWhenAsked` | violation (code bug) |

`PushSubscriptions` and `FilterCreation` define a `TypeOK`, but no run
checks it. The only ways to break either would be to change code outside
this repository: fresh subscription ids come from go-ethereum's notifier,
and the bucket's refill cap comes from `golang.org/x/time/rate`.
`FilterRegistry`'s `TypeOK` is checked once, in `timing`.

Why these bounds are enough:

* Two ids let two filters be stale at the same sweep, and let one filter be
  uninstalled while the other is listened to.
* A clock of 0..5 with window 2 covers creation or poll at both phases of the
  ticker, and two sweep periods after each.
* Two events per subscription exercise ordering. A window of 1 in `delivery`
  lets the sweep happen within the short clock. `delivery` follows one
  filter: the abstract filter and the release property are per filter, and
  the sweeper's handling of two filters at once is in `timing`. With two
  filters, two events and fairness the run would not finish in minutes.
* In `abci`, one restart can happen after any step. That covers a stop
  inside InitGenesis (InitChain is then replayed), inside BeginBlocker, and
  between Commit and the next block. Two blocks are enough for a restart
  after a commit to reload a non-zero height.

### Findings

* `pending_leak`: the pending-transaction listener (`api.go:145-148`) deletes
  its filter on `errCh` but does not return. Its `defer cancelSubs()` never
  runs, so after a subscription error the subscription stays open forever.
  After an `Unsubscribe` the goroutine spins on the closed `errCh`. The block
  and logs listeners return.
* `undecodable_tx`: on a `DecodeResultData` failure (`api.go:406-408`) the
  logs listener returns without deleting its filter. The filter stays
  registered, polls keep succeeding (and keep resetting the deadline), but no
  later log ever reaches it. spec.md 4.2 says the filter is removed.
* `filterlogs_crit`: `NewFilter` stores the filter without `crit`
  (`api.go:390`), so `GetFilterLogs` runs the zero criteria: every log of the
  latest block, whatever addresses, topics or range the filter was created
  with.
* `error_as_id`: a refused or failed `NewPendingTransactionFilter` or
  `NewBlockFilter` returns `"error creating ... filter: ..."` as the filter
  id, with no JSON-RPC error. spec.md 7 and P5 say the call fails with
  `ServerBusy` or `SubscriptionFailed`.
* `newfilter_err_race`: if NewFilter's first event fails to decode before
  `return filterID, err`, the caller may get that error although the filter
  stays registered. Only the sweeper reclaims it. This is a data race on
  `err`.
* `logs_nonevm`: the `Logs` relay (`api.go:320-323`) returns on the first Tx
  event without an EVM message, although its comment says such a
  transaction is ignored. The client's live feed stops silently: no error,
  no further logs. spec.md 4.4 ends a feed only on unsubscribe, connection
  close or a decode failure.

## 4. Not modelled

* **Rate limiter outside creation.** For `GetLogs`, `GetFilterChanges` and
  the push calls, a refusal changes no state, so it is a stuttering step.
  The bucket itself is an external library, modelled in FilterCreation from
  P5.
* **A zero rate.** `--rpc.rate-limit-count` defaults to 0 (`flags.go:24`).
  A method named in `--rpc.rate-limit-api` with that default admits its
  burst once and then refuses every call. `AdmittedWithinRate` holds at rate
  0, and nothing states that this configuration should do otherwise, so it
  is listed as a hazard and is not checked.
* **`calculateWeight`.** It is one stateless function. Nothing in spec.md,
  a comment or a test states what it should give before its epoch.
* **App wiring, codecs, flags, genesis, params and proposals.** These are
  keeper construction in `NewOKExChainApp`, codec registration, flag
  declarations, a params get/set, the token genesis import/export
  (`initGenesis` and `ExportGenesis` call keeper methods that are not in
  this repository, and nothing states their contract), and the community
  pool proposal's `ValidateBasic` (three checks in sequence). None has
  concurrent or stateful logic of its own. The ABCI methods, the module
  orders, the ante hook and `validateMsgHook` are modelled in AppABCI.
* **Double sync after a restart.** The block's SyncTx calls happen before
  Commit, so a block replayed after a restart syncs its txs again
  (`app.go:446`). The keepers' storage is not in this repository, and
  nothing says whether their writes are undone. AppABCI counts the calls,
  but has no stated expectation to check the count against.
* **The data race on `err` in the push handlers.** The relay assigns the
  handler's captured `err` while the handler returns it (`api.go:201, 292,
  356`). This only affects the call's return value, which the model does
  not carry.
* **The event system's fan-out and its shared context.** They are not under
  `src/`. Only what spec.md 4.1 says is modelled. The push handlers set the
  shared context with `api.events.WithContext` (`api.go:169, 255, 302`).
  `NewPendingTransactions` cancels its own context when it returns. spec.md
  5 says a push subscription's cancellation is bound to a deadline-bounded
  context, but not which context a subscription binds to when another call
  has replaced it. That choice decides whether a concurrent call cuts a
  subscription short, so it is left out rather than guessed.
