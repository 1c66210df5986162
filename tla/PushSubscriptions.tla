-------------------------- MODULE PushSubscriptions --------------------------
(***************************************************************************)
(* The push subscriptions of PublicFilterAPI                              *)
(* (src/app/rpc/namespaces/eth/filters/api.go): NewPendingTransactions,   *)
(* NewHeads and Logs.  Each creates an event-system subscription and an   *)
(* RPC subscription on the client's connection, and starts a goroutine    *)
(* that relays every event to notifier.Notify until the client            *)
(* unsubscribes (rpcSub.Err()), the connection closes (notifier.Closed()), *)
(* or handling an event fails.  The goroutine's deferred cancelSubs is the *)
(* only cleanup.  Only this goroutine cancels its event-system            *)
(* subscription, and only as it returns, so it never reads a closed       *)
(* event channel.                                                          *)
(***************************************************************************)
EXTENDS Naturals, Sequences

CONSTANTS
  Subs,          \* RPC subscriptions opened on one client connection
  Kinds,         \* subset of {"pendingTxs", "heads", "logs"}
  LogEventKinds, \* Tx events seen by a logs subscription: "match", "nomatch",
                 \* "nonEvm" (no MsgEthereumTx/MsgEthermint), "undecodable"
  MaxEmit        \* bound on the events published per subscription

ASSUME
  /\ Kinds \subseteq {"pendingTxs", "heads", "logs"}
  /\ LogEventKinds \subseteq {"match", "nomatch", "nonEvm", "undecodable"}
  /\ MaxEmit \in Nat

VARIABLES
  kind,        \* which handler created the subscription ("none" before)
  task,        \* the relaying goroutine: "none", "live", "done"
  sub,         \* event-system subscription: "none", "open", "canceled"
  chan,        \* its event channel
  emitted,     \* events published on it
  unsubscribed,\* the client sent eth_unsubscribe: rpcSub.Err() is ready
  connClosed,  \* the connection is gone: notifier.Closed() is ready and
               \* every Notify fails
  failed,      \* history: handling an event of this subscription failed
  produced,    \* history: items the chain produced while the subscription was open
  notified     \* history: items sent to the client, in order

vars == <<kind, task, sub, chan, emitted, unsubscribed, connClosed, failed,
          produced, notified>>

EventKindsOf(k) ==
  CASE k = "pendingTxs" -> {"tx"}
    [] k = "heads"      -> {"header"}
    [] k = "logs"       -> LogEventKinds
    [] OTHER            -> {}

\* An event yields an item to notify: a tx hash, a header, a matching log.
IsItem(e) == e.k \in {"tx", "header", "match"}

-----------------------------------------------------------------------------
(* Creation.  Without notifier support, or when the event-system          *)
(* subscribe fails, the call returns an error and changes nothing.        *)

Subscribe(s, k) ==
  /\ k \in Kinds
  /\ kind[s] = "none"
  /\ kind' = [kind EXCEPT ![s] = k]
  /\ task' = [task EXCEPT ![s] = "live"]
  /\ sub' = [sub EXCEPT ![s] = "open"]
  /\ UNCHANGED <<chan, emitted, unsubscribed, connClosed, failed, produced,
                 notified>>

NewPendingTransactions(s) == Subscribe(s, "pendingTxs")
NewHeads(s) == Subscribe(s, "heads")
Logs(s) == Subscribe(s, "logs")

-----------------------------------------------------------------------------
(* Environment: the chain, the client and the connection.                *)

Publish(s) ==
  /\ sub[s] = "open"
  /\ emitted[s] < MaxEmit
  /\ \E k \in EventKindsOf(kind[s]) :
       LET e == [n |-> emitted[s] + 1, k |-> k] IN
       /\ chan' = [chan EXCEPT ![s] = Append(@, e)]
       /\ produced' = IF IsItem(e) THEN [produced EXCEPT ![s] = Append(@, e.n)]
                                   ELSE produced
  /\ emitted' = [emitted EXCEPT ![s] = @ + 1]
  /\ UNCHANGED <<kind, task, sub, unsubscribed, connClosed, failed, notified>>

ClientUnsubscribe(s) ==
  /\ kind[s] # "none"
  /\ ~unsubscribed[s]
  /\ unsubscribed' = [unsubscribed EXCEPT ![s] = TRUE]
  /\ UNCHANGED <<kind, task, sub, chan, emitted, connClosed, failed, produced,
                 notified>>

ConnectionClose ==
  /\ ~connClosed
  /\ connClosed' = TRUE
  /\ UNCHANGED <<kind, task, sub, chan, emitted, unsubscribed, failed, produced,
                 notified>>

-----------------------------------------------------------------------------
(* The relaying goroutines.                                                *)

\* return: the deferred cancelSubs cancels the event-system subscription.
Return(s) ==
  /\ task' = [task EXCEPT ![s] = "done"]
  /\ sub' = [sub EXCEPT ![s] = "canceled"]

\* Take the next event off the channel; `ok` is its outcome: "notified",
\* "skipped" (nothing to notify) or "failed" (the goroutine returns).
Consume(s, ok) ==
  LET e == Head(chan[s]) IN
  /\ chan' = [chan EXCEPT ![s] = Tail(@)]
  /\ \/ /\ ok = "notified"
        /\ notified' = [notified EXCEPT ![s] = Append(@, e.n)]
        /\ UNCHANGED <<task, sub, failed>>
     \/ /\ ok = "skipped"
        /\ UNCHANGED <<task, sub, failed, notified>>
     \/ /\ ok = "failed"
        /\ failed' = [failed EXCEPT ![s] = TRUE]
        /\ Return(s)
        /\ UNCHANGED notified
  /\ UNCHANGED <<kind, emitted, unsubscribed, connClosed, produced>>

\* notifier.Notify fails once the connection is gone.
NotifyOutcome == IF connClosed THEN "failed" ELSE "notified"

\* case ev := <-txsCh: notify the tx hash; on a Notify error, return.
PendingTxsReceive(s) ==
  /\ task[s] = "live" /\ kind[s] = "pendingTxs"
  /\ chan[s] # <<>>
  /\ Consume(s, NotifyOutcome)

\* case ev := <-headersCh: notify the header; on a Notify error, send it to
\* headersSub.err and return.
HeadsReceive(s) ==
  /\ task[s] = "live" /\ kind[s] = "heads"
  /\ chan[s] # <<>>
  /\ Consume(s, NotifyOutcome)

\* case event := <-logsCh: a Tx that is not an EVM tx makes the goroutine
\* return; an undecodable result returns; otherwise FilterLogs and notify
\* each matching log, returning on a Notify error.
\* Mutant: every decoded log is notified, FilterLogs is skipped.
LogsReceiveUnfiltered(s) ==
  LET e == Head(chan[s]) IN
  /\ task[s] = "live" /\ kind[s] = "logs"
  /\ chan[s] # <<>>
  /\ \/ /\ e.k = "nonEvm"
        /\ chan' = [chan EXCEPT ![s] = Tail(@)]
        /\ Return(s)
        /\ UNCHANGED <<kind, emitted, unsubscribed, connClosed, failed,
                       produced, notified>>
     \/ /\ e.k = "undecodable"
        /\ Consume(s, "failed")
     \/ /\ e.k \in {"match", "nomatch"}
        /\ Consume(s, NotifyOutcome)

LogsReceive(s) ==
  LET e == Head(chan[s]) IN
  /\ task[s] = "live" /\ kind[s] = "logs"
  /\ chan[s] # <<>>
  /\ \/ /\ e.k = "nonEvm"
        /\ chan' = [chan EXCEPT ![s] = Tail(@)]
        /\ Return(s)
        /\ UNCHANGED <<kind, emitted, unsubscribed, connClosed, failed,
                       produced, notified>>
     \/ /\ e.k = "undecodable"
        /\ Consume(s, "failed")
     \/ /\ e.k = "nomatch"
        /\ Consume(s, "skipped")
     \/ /\ e.k = "match"
        /\ Consume(s, NotifyOutcome)

\* Mutant: Unsubscribe without the return; the loop goes on.
ClientGoneNoReturn(s) ==
  /\ task[s] = "live"
  /\ unsubscribed[s] \/ connClosed
  /\ sub' = [sub EXCEPT ![s] = "canceled"]
  /\ UNCHANGED <<kind, task, chan, emitted, unsubscribed, connClosed, failed,
                 produced, notified>>

\* case <-rpcSub.Err() and case <-notifier.Closed(): Unsubscribe, return.
ClientGone(s) ==
  /\ task[s] = "live"
  /\ unsubscribed[s] \/ connClosed
  /\ Return(s)
  /\ UNCHANGED <<kind, chan, emitted, unsubscribed, connClosed, failed,
                 produced, notified>>

PendingTxsStop(s) == kind[s] = "pendingTxs" /\ ClientGone(s)
HeadsStop(s) == kind[s] = "heads" /\ ClientGone(s)
LogsStop(s) == kind[s] = "logs" /\ ClientGone(s)

-----------------------------------------------------------------------------
Init ==
  /\ kind = [s \in Subs |-> "none"]
  /\ task = [s \in Subs |-> "none"]
  /\ sub = [s \in Subs |-> "none"]
  /\ chan = [s \in Subs |-> <<>>]
  /\ emitted = [s \in Subs |-> 0]
  /\ unsubscribed = [s \in Subs |-> FALSE]
  /\ connClosed = FALSE
  /\ failed = [s \in Subs |-> FALSE]
  /\ produced = [s \in Subs |-> <<>>]
  /\ notified = [s \in Subs |-> <<>>]

Next ==
  \/ ConnectionClose
  \/ \E s \in Subs :
       \/ NewPendingTransactions(s) \/ NewHeads(s) \/ Logs(s)
       \/ Publish(s) \/ ClientUnsubscribe(s)
       \/ PendingTxsReceive(s) \/ HeadsReceive(s) \/ LogsReceive(s)
       \/ PendingTxsStop(s) \/ HeadsStop(s) \/ LogsStop(s)

(* Each goroutine is scheduled, and its select picks uniformly among the  *)
(* ready cases, so each case is weakly fair.  Client, chain and           *)
(* connection get no fairness.                                            *)
Fairness ==
  \A s \in Subs :
    /\ WF_vars(PendingTxsReceive(s)) /\ WF_vars(HeadsReceive(s))
    /\ WF_vars(LogsReceive(s))
    /\ WF_vars(PendingTxsStop(s)) /\ WF_vars(HeadsStop(s)) /\ WF_vars(LogsStop(s))

Spec == Init /\ [][Next]_vars
FairSpec == Spec /\ Fairness

-----------------------------------------------------------------------------
TypeOK ==
  /\ kind \in [Subs -> Kinds \cup {"none"}]
  /\ task \in [Subs -> {"none", "live", "done"}]
  /\ sub \in [Subs -> {"none", "open", "canceled"}]
  /\ \A s \in Subs : chan[s] \in Seq([n : 1..MaxEmit, k : EventKindsOf(kind[s])])
  /\ emitted \in [Subs -> 0..MaxEmit]
  /\ unsubscribed \in [Subs -> BOOLEAN]
  /\ connClosed \in BOOLEAN
  /\ failed \in [Subs -> BOOLEAN]

(* The client receives, in order and once each, a prefix of the items the *)
(* chain produced for its subscription: no event of another kind, no log  *)
(* FilterLogs rejects, nothing twice (spec.md 4.4, 5).                    *)
NotifiedInOrder ==
  \A s \in Subs :
    /\ Len(notified[s]) <= Len(produced[s])
    /\ notified[s] = SubSeq(produced[s], 1, Len(notified[s]))

(* A push subscription ends only when the client unsubscribes, the        *)
(* connection closes, or handling one of its events failed (spec.md 4.4). *)
EndsOnlyWhenAsked ==
  \A s \in Subs : task[s] = "done" => unsubscribed[s] \/ connClosed \/ failed[s]

(* Once the client has unsubscribed or the connection has closed, the     *)
(* goroutine returns and the event-system subscription is canceled.       *)
LeftClientReleased ==
  \A s \in Subs :
    (task[s] = "live" /\ (unsubscribed[s] \/ connClosed))
      ~> (task[s] = "done" /\ sub[s] = "canceled")
=============================================================================
