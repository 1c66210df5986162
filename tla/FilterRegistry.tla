--------------------------- MODULE FilterRegistry ---------------------------
(***************************************************************************)
(* The poll-style filter registry of PublicFilterAPI                      *)
(* (src/app/rpc/namespaces/eth/filters/api.go): the filters map under     *)
(* filtersMu, one listening goroutine per filter draining its event-system *)
(* subscription, the per-filter deadline timer, the timeoutLoop sweeper,   *)
(* GetFilterChanges and UninstallFilter.                                   *)
(*                                                                         *)
(* Every critical section under filtersMu is one atomic step.  The event  *)
(* system (not under src/) is modelled from spec.md 4.1: a subscription   *)
(* is open until canceled; canceling closes its event and error channels, *)
(* after which a receive on either is always ready (Go closed channels).  *)
(***************************************************************************)
EXTENDS Naturals, Sequences, FiniteSets, TLC

CONSTANTS
  Ids,           \* rpc.IDs of subscriptions / filters, each used at most once
  Kinds,         \* filter types clients create: a subset of {"pending", "blocks", "logs"}
  LogEventKinds, \* what a Tx event is to a logs filter: "match", "nomatch", "undecodable"
  Deadline,      \* `deadline`: the inactivity window and the timeoutLoop period
  MaxTime,       \* bound on the clock
  MaxEmit        \* bound on the events published per subscription

ASSUME
  /\ Kinds \subseteq {"pending", "blocks", "logs"}
  /\ LogEventKinds \subseteq {"match", "nomatch", "undecodable"}
  /\ Deadline \in Nat \ {0}
  /\ MaxTime \in Nat /\ MaxEmit \in Nat

VARIABLES
  now,          \* the clock, in time units
  tick,         \* the timeoutLoop ticker has a tick buffered in ticker.C
  filters,      \* api.filters: id -> [typ, items, timer]
  kind,         \* the subscription type of each id ("none" before creation)
  sub,          \* event-system subscription state: "none", "open", "canceled"
  errc,         \* its error channel: "empty", "value" (one error), "closed"
  chan,         \* its event channel: events published, not yet received
  emitted,      \* number of events published on it
  listener,     \* the listening goroutine: "none", "running", "done"
  unsubPending, \* UninstallFilter calls between unlock and f.s.Unsubscribe
  wedged,       \* a goroutine blocks forever holding filtersMu
  lastPoll,     \* history: when the filter was created or last polled
  produced,     \* history: items the chain produced while the filter was registered
  delivered     \* history: concatenation of GetFilterChanges results

vars == <<now, tick, filters, kind, sub, errc, chan, emitted, listener,
          unsubPending, wedged, lastPoll, produced, delivered>>

(* An event carries the identity n of the hash or log it yields; a closed  *)
(* channel yields the zero event.                                          *)
Events == [n : 1..MaxEmit, k : {"ok"} \cup LogEventKinds]
ZeroEvent == [n |-> 0, k |-> "zero"]

(* time.Timer: running until `at`, then its value waits in C until read. *)
Timers == [active : BOOLEAN, at : Nat, fired : BOOLEAN]
\* Mutant: the timer is armed one time unit short of the window.
NewTimerEarly == [active |-> TRUE, at |-> now + Deadline - 1, fired |-> FALSE]
NewTimer == [active |-> TRUE, at |-> now + Deadline, fired |-> FALSE]

Registered == DOMAIN filters
RemoveIds(f, S) == [id \in DOMAIN f \ S |-> f[id]]

(* The items a filter accumulates from events: every hash, matching logs. *)
IsItem(e) == e.k \in {"ok", "match"}
Payloads(s) ==
  LET m == SelectSeq(s, IsItem) IN [i \in 1..Len(m) |-> m[i].n]

-----------------------------------------------------------------------------
(* Event system (spec.md 4.1): publishing, runtime errors, cancellation.  *)

\* The chain produces an event of the subscription's query; an open
\* subscription queues it, a canceled one no longer receives it.
Publish(id) ==
  /\ sub[id] # "none"
  /\ emitted[id] < MaxEmit
  /\ \E k \in IF kind[id] = "logs" THEN LogEventKinds ELSE {"ok"} :
       LET e == [n |-> emitted[id] + 1, k |-> k] IN
       /\ chan' = IF sub[id] = "open" THEN [chan EXCEPT ![id] = Append(@, e)]
                                      ELSE chan
       /\ produced' = IF id \in Registered /\ IsItem(e)
                      THEN [produced EXCEPT ![id] = Append(@, e.n)]
                      ELSE produced
  /\ emitted' = [emitted EXCEPT ![id] = @ + 1]
  /\ UNCHANGED <<now, tick, filters, kind, sub, errc, listener, unsubPending,
                 wedged, lastPoll, delivered>>

\* The backend reports a runtime error on an open subscription.
SubscriptionError(id) ==
  /\ sub[id] = "open"
  /\ errc[id] = "empty"
  /\ errc' = [errc EXCEPT ![id] = "value"]
  /\ UNCHANGED <<now, tick, filters, kind, sub, chan, emitted, listener,
                 unsubPending, wedged, lastPoll, produced, delivered>>

\* Unsubscribe / cancelSubs: idempotent, closes both channels.
CancelSubs(S) ==
  /\ sub' = [id \in Ids |-> IF id \in S THEN "canceled" ELSE sub[id]]
  /\ errc' = [id \in Ids |-> IF id \in S THEN "closed" ELSE errc[id]]

-----------------------------------------------------------------------------
(* Creation: subscribe, insert under filtersMu, start the listener.  No    *)
(* client knows the id before the call returns, so the three are one step. *)

\* Mutant: the filter is stored under the zero rpc.ID("") that NewFilter
\* declares before it reads the subscription's id.
InstallUnderEmptyId(id, t) ==
  /\ ~wedged
  /\ t \in Kinds
  /\ sub[id] = "none"
  /\ filters' = filters @@ ("" :> [typ |-> t, items |-> <<>>, timer |-> NewTimer])
  /\ kind' = [kind EXCEPT ![id] = t]
  /\ sub' = [sub EXCEPT ![id] = "open"]
  /\ listener' = [listener EXCEPT ![id] = "running"]
  /\ lastPoll' = [lastPoll EXCEPT ![id] = now]
  /\ UNCHANGED <<now, tick, errc, chan, emitted, unsubPending, wedged, produced,
                 delivered>>

Install(id, t) ==
  /\ ~wedged
  /\ t \in Kinds
  /\ sub[id] = "none"
  /\ filters' = filters @@ (id :> [typ |-> t, items |-> <<>>, timer |-> NewTimer])
  /\ kind' = [kind EXCEPT ![id] = t]
  /\ sub' = [sub EXCEPT ![id] = "open"]
  /\ listener' = [listener EXCEPT ![id] = "running"]
  /\ lastPoll' = [lastPoll EXCEPT ![id] = now]
  /\ UNCHANGED <<now, tick, errc, chan, emitted, unsubPending, wedged, produced,
                 delivered>>

NewPendingTransactionFilter(id) == Install(id, "pending")
NewBlockFilter(id) == Install(id, "blocks")
NewFilter(id) == Install(id, "logs")

-----------------------------------------------------------------------------
(* Listening goroutines.  Go's select picks any ready case.               *)

CanReceive(id) == chan[id] # <<>> \/ sub[id] = "canceled"
Received(id) == IF chan[id] # <<>> THEN Head(chan[id]) ELSE ZeroEvent
ChanAfterReceive(id) ==
  [chan EXCEPT ![id] = IF @ # <<>> THEN Tail(@) ELSE @]

\* Under filtersMu: append to the filter if it is still registered.
AppendIfFound(id, x) ==
  IF id \in Registered
  THEN [filters EXCEPT ![id].items = Append(@, x)]
  ELSE filters

\* Hash listeners: append the tx hash / header hash of the event.
HashReceive(id) ==
  /\ listener[id] = "running"
  /\ ~wedged
  /\ CanReceive(id)
  /\ chan' = ChanAfterReceive(id)
  /\ filters' = AppendIfFound(id, Received(id).n)
  /\ UNCHANGED <<now, tick, kind, sub, errc, emitted, listener, unsubPending,
                 wedged, lastPoll, produced, delivered>>

PendingTxReceive(id) == kind[id] = "pending" /\ HashReceive(id)
BlockReceive(id) == kind[id] = "blocks" /\ HashReceive(id)

\* Pending-tx listener on errCh: delete the filter and keep looping.
PendingTxError(id) ==
  /\ listener[id] = "running"
  /\ kind[id] = "pending"
  /\ ~wedged
  /\ errc[id] # "empty"
  /\ filters' = RemoveIds(filters, {id})
  /\ errc' = [errc EXCEPT ![id] = IF @ = "value" THEN "empty" ELSE @]
  /\ UNCHANGED <<now, tick, kind, sub, chan, emitted, listener, unsubPending,
                 wedged, lastPoll, produced, delivered>>

\* The listener returns; its deferred cancelSubs cancels the subscription.
ListenerExit(id) ==
  /\ listener' = [listener EXCEPT ![id] = "done"]
  /\ CancelSubs({id})

\* Block and logs listeners on errCh: delete the filter and return.
ErrorDeleteReturn(id) ==
  /\ listener[id] = "running"
  /\ ~wedged
  /\ errc[id] # "empty"
  /\ filters' = RemoveIds(filters, {id})
  /\ ListenerExit(id)
  /\ UNCHANGED <<now, tick, kind, chan, emitted, unsubPending, wedged,
                 lastPoll, produced, delivered>>

BlockError(id) == kind[id] = "blocks" /\ ErrorDeleteReturn(id)
LogsError(id) == kind[id] = "logs" /\ ErrorDeleteReturn(id)

\* Logs listener on an event: a zero event (closed channel) fails the type
\* assertion and an undecodable result fails DecodeResultData; both return
\* without touching the registry.  Otherwise append the logs FilterLogs keeps.
LogsReceive(id) ==
  LET e == Received(id) IN
  /\ listener[id] = "running"
  /\ kind[id] = "logs"
  /\ CanReceive(id)
  /\ chan' = ChanAfterReceive(id)
  /\ \/ /\ e.k \in {"zero", "undecodable"}
        /\ ListenerExit(id)
        /\ UNCHANGED filters
     \/ /\ e.k \in {"match", "nomatch"}
        /\ ~wedged
        /\ filters' = IF e.k = "match" THEN AppendIfFound(id, e.n) ELSE filters
        /\ UNCHANGED <<sub, errc, listener>>
  /\ UNCHANGED <<now, tick, kind, emitted, unsubPending, wedged, lastPoll,
                 produced, delivered>>

-----------------------------------------------------------------------------
(* Time: timers and the timeoutLoop ticker.  A timer due now fires during *)
(* this instant, before or after the sweep of the same instant; the clock *)
(* advances once every due timer has fired and a buffered tick is swept   *)
(* (the sweeper only waits for filtersMu, held for short sections).       *)

TimerFire(id) ==
  /\ id \in Registered
  /\ filters[id].timer.active
  /\ filters[id].timer.at <= now
  /\ filters' = [filters EXCEPT ![id].timer = [active |-> FALSE, at |-> @.at,
                                              fired |-> TRUE]]
  /\ UNCHANGED <<now, tick, kind, sub, errc, chan, emitted, listener,
                 unsubPending, wedged, lastPoll, produced, delivered>>

Tick ==
  /\ now < MaxTime
  /\ ~tick
  /\ \A id \in Registered : ~(filters[id].timer.active /\ filters[id].timer.at <= now)
  /\ now' = now + 1
  /\ tick' = ((now + 1) % Deadline = 0)
  /\ UNCHANGED <<filters, kind, sub, errc, chan, emitted, listener,
                 unsubPending, wedged, lastPoll, produced, delivered>>

\* Mutant: the sweep evicts at most one stale filter per tick.
SweepOne ==
  LET stale == {id \in Registered : filters[id].timer.fired}
      gone == IF stale = {} THEN {} ELSE {CHOOSE id \in stale : TRUE} IN
  /\ tick
  /\ ~wedged
  /\ tick' = FALSE
  /\ CancelSubs(gone)
  /\ filters' = RemoveIds(filters, gone)
  /\ UNCHANGED <<now, kind, chan, emitted, listener, unsubPending, wedged,
                 lastPoll, produced, delivered>>

\* timeoutLoop: on a tick, under filtersMu, unsubscribe and delete every
\* filter whose deadline timer has a value waiting in C.
Sweep ==
  LET stale == {id \in Registered : filters[id].timer.fired} IN
  /\ tick
  /\ ~wedged
  /\ tick' = FALSE
  /\ CancelSubs(stale)
  /\ filters' = RemoveIds(filters, stale)
  /\ UNCHANGED <<now, kind, chan, emitted, listener, unsubPending, wedged,
                 lastPoll, produced, delivered>>

-----------------------------------------------------------------------------
(* Client calls on existing filters.  A call refused by the rate limiter, *)
(* or naming an unknown id, returns without a state change.               *)

\* Mutant: Reset sits inside the `if !Stop()` block, so a poll that stops
\* a running timer leaves it stopped.
GetFilterChangesResetOnlyIfExpired(id) ==
  LET t == filters[id].timer IN
  /\ ~wedged
  /\ id \in Registered
  /\ \/ /\ t.active \/ t.fired
        /\ filters' = [filters EXCEPT ![id].items = <<>>,
                         ![id].timer = IF t.active THEN [t EXCEPT !.active = FALSE]
                                                   ELSE NewTimer]
        /\ delivered' = [delivered EXCEPT ![id] = @ \o filters[id].items]
        /\ lastPoll' = [lastPoll EXCEPT ![id] = now]
        /\ UNCHANGED wedged
     \/ /\ ~t.active /\ ~t.fired
        /\ wedged' = TRUE
        /\ UNCHANGED <<filters, delivered, lastPoll>>
  /\ UNCHANGED <<now, tick, kind, sub, errc, chan, emitted, listener,
                 unsubPending, produced>>

\* Mutant: the accumulated items are returned but not cleared.
GetFilterChangesKeepsItems(id) ==
  LET t == filters[id].timer IN
  /\ ~wedged
  /\ id \in Registered
  /\ \/ /\ t.active \/ t.fired
        /\ filters' = [filters EXCEPT ![id].timer = NewTimer]
        /\ delivered' = [delivered EXCEPT ![id] = @ \o filters[id].items]
        /\ lastPoll' = [lastPoll EXCEPT ![id] = now]
        /\ UNCHANGED wedged
     \/ /\ ~t.active /\ ~t.fired
        /\ wedged' = TRUE
        /\ UNCHANGED <<filters, delivered, lastPoll>>
  /\ UNCHANGED <<now, tick, kind, sub, errc, chan, emitted, listener,
                 unsubPending, produced>>

\* Under filtersMu: if Stop() fails, receive from C (blocking forever if C
\* is empty), Reset the timer, return the accumulated items and clear them.
GetFilterChanges(id) ==
  LET t == filters[id].timer IN
  /\ ~wedged
  /\ id \in Registered
  /\ \/ /\ t.active \/ t.fired
        /\ filters' = [filters EXCEPT ![id].items = <<>>, ![id].timer = NewTimer]
        /\ delivered' = [delivered EXCEPT ![id] = @ \o filters[id].items]
        /\ lastPoll' = [lastPoll EXCEPT ![id] = now]
        /\ UNCHANGED wedged
     \/ /\ ~t.active /\ ~t.fired
        /\ wedged' = TRUE
        /\ UNCHANGED <<filters, delivered, lastPoll>>
  /\ UNCHANGED <<now, tick, kind, sub, errc, chan, emitted, listener,
                 unsubPending, produced>>

\* Mutant: the filter is deleted but f.s.Unsubscribe is never called.
UninstallFilterNoUnsubscribe(id) ==
  /\ ~wedged
  /\ id \in Registered
  /\ filters' = RemoveIds(filters, {id})
  /\ UNCHANGED <<now, tick, kind, sub, errc, chan, emitted, listener, wedged,
                 unsubPending, lastPoll, produced, delivered>>

\* Under filtersMu: delete the filter; Unsubscribe comes after the unlock.
UninstallFilter(id) ==
  /\ ~wedged
  /\ id \in Registered
  /\ filters' = RemoveIds(filters, {id})
  /\ unsubPending' = unsubPending \cup {id}
  /\ UNCHANGED <<now, tick, kind, sub, errc, chan, emitted, listener, wedged,
                 lastPoll, produced, delivered>>

UninstallUnsubscribe(id) ==
  /\ id \in unsubPending
  /\ unsubPending' = unsubPending \ {id}
  /\ CancelSubs({id})
  /\ UNCHANGED <<now, tick, filters, kind, chan, emitted, listener, wedged,
                 lastPoll, produced, delivered>>

-----------------------------------------------------------------------------
Init ==
  /\ now = 0
  /\ tick = FALSE
  /\ filters = <<>>
  /\ kind = [id \in Ids |-> "none"]
  /\ sub = [id \in Ids |-> "none"]
  /\ errc = [id \in Ids |-> "empty"]
  /\ chan = [id \in Ids |-> <<>>]
  /\ emitted = [id \in Ids |-> 0]
  /\ listener = [id \in Ids |-> "none"]
  /\ unsubPending = {}
  /\ wedged = FALSE
  /\ lastPoll = [id \in Ids |-> 0]
  /\ produced = [id \in Ids |-> <<>>]
  /\ delivered = [id \in Ids |-> <<>>]

Next ==
  \/ Tick
  \/ Sweep
  \/ \E id \in Ids :
       \/ NewPendingTransactionFilter(id) \/ NewBlockFilter(id) \/ NewFilter(id)
       \/ Publish(id) \/ SubscriptionError(id)
       \/ PendingTxReceive(id) \/ PendingTxError(id)
       \/ BlockReceive(id) \/ BlockError(id)
       \/ LogsReceive(id) \/ LogsError(id)
       \/ TimerFire(id)
       \/ GetFilterChanges(id)
       \/ UninstallFilter(id) \/ UninstallUnsubscribe(id)

(* Go schedules every runnable goroutine, and its select picks among ready *)
(* cases at random: each listener case and the rest of an UninstallFilter *)
(* call are weakly fair.  Clients, the backend and the clock are not.     *)
Fairness ==
  \A id \in Ids :
    /\ WF_vars(PendingTxReceive(id)) /\ WF_vars(PendingTxError(id))
    /\ WF_vars(BlockReceive(id)) /\ WF_vars(BlockError(id))
    /\ WF_vars(LogsReceive(id)) /\ WF_vars(LogsError(id))
    /\ WF_vars(UninstallUnsubscribe(id))

Spec == Init /\ [][Next]_vars
FairSpec == Spec /\ Fairness

-----------------------------------------------------------------------------
TypeOK ==
  /\ now \in 0..MaxTime
  /\ tick \in BOOLEAN
  /\ Registered \subseteq Ids
  /\ \A id \in Registered :
       filters[id] \in [typ : Kinds, items : Seq(0..MaxEmit), timer : Timers]
  /\ kind \in [Ids -> Kinds \cup {"none"}]
  /\ sub \in [Ids -> {"none", "open", "canceled"}]
  /\ errc \in [Ids -> {"empty", "value", "closed"}]
  /\ \A id \in Ids : chan[id] \in Seq(Events)
  /\ emitted \in [Ids -> 0..MaxEmit]
  /\ listener \in [Ids -> {"none", "running", "done"}]
  /\ unsubPending \subseteq Ids
  /\ wedged \in BOOLEAN
  /\ lastPoll \in [Ids -> 0..MaxTime]

(* GetFilterChanges never blocks on `<-f.deadline.C` while holding        *)
(* filtersMu: whenever Stop() reports the timer already expired, its value *)
(* is still in C, because only the sweeper (which then deletes the filter) *)
(* and GetFilterChanges (which then Resets it) ever drain C.              *)
PollNeverBlocks == ~wedged

(* The sweeper evicts a filter only once the filter has gone a full       *)
(* inactivity window without GetFilterChanges (spec.md P2, first half).  *)
EvictOnlyWhenIdle ==
  [][tick /\ ~tick' =>
       \A id \in Registered \ DOMAIN filters' : now - lastPoll[id] >= Deadline]_vars

(* An unpolled filter is gone by the first sweep tick after its deadline  *)
(* (spec.md 4.3 and P2): a filter is still registered, outside a pending  *)
(* sweep, only before the first multiple of Deadline past lastPoll +      *)
(* Deadline.                                                              *)
FirstTickAfter(t) == (t \div Deadline + 1) * Deadline
EvictionWithinOneSweep ==
  \A id \in Registered : tick \/ now < FirstTickAfter(lastPoll[id] + Deadline)

(* Refinement (spec.md P1, drain exactness): the registry with its         *)
(* listeners implements PollingFilter.  A registered filter's in-flight    *)
(* items are those in its subscription's event channel, its queue what it  *)
(* has accumulated; every event the chain produces for a registered        *)
(* filter reaches GetFilterChanges exactly once and in order.              *)
Abstract == INSTANCE PollingFilter WITH
  Items <- 0..MaxEmit,
  used <- {id \in Ids : sub[id] # "none"},
  registered <- Registered,
  published <- produced,
  inflight <- [id \in Ids |-> IF id \in Registered THEN Payloads(chan[id]) ELSE <<>>],
  queue <- [id \in Ids |-> IF id \in Registered THEN filters[id].items ELSE <<>>],
  delivered <- delivered
ImplementsPollingFilter == Abstract!Spec

(* Every filter removed from the registry, by whichever path, eventually  *)
(* has its subscription canceled and its listening goroutine finished     *)
(* (spec.md 3: no subscription may outlive its filter).                   *)
RemovedFilterReleased ==
  \A id \in Ids :
    (sub[id] # "none" /\ id \notin Registered)
      ~> (sub[id] = "canceled" /\ listener[id] = "done")
=============================================================================
