--------------------------- MODULE PollingFilter ---------------------------
(***************************************************************************)
(* What a poll-style filter promises its client (spec.md 3, 5 and P1):   *)
(* every item the chain publishes while a filter is registered travels,   *)
(* in publication order, to the filter's accumulated items, and each      *)
(* accumulated item is returned by exactly one poll; a poll returns       *)
(* everything accumulated since the previous poll.  Removal drops what    *)
(* was not polled.  No locks, timers or goroutines: those belong to       *)
(* FilterRegistry, which is shown to implement this module.               *)
(***************************************************************************)
EXTENDS Sequences

CONSTANTS
  Ids,     \* filter identities, each installed at most once
  Items    \* the values a filter accumulates (hashes or logs)

VARIABLES
  used,        \* ids ever installed
  registered,  \* ids currently installed
  published,   \* published[id]: every item the chain produced for it while installed
  inflight,    \* inflight[id]: items published, not yet accumulated
  queue,       \* queue[id]: items accumulated, not yet polled
  delivered    \* delivered[id]: concatenation of every poll's result

vars == <<used, registered, published, inflight, queue, delivered>>

Init ==
  /\ used = {}
  /\ registered = {}
  /\ published = [id \in Ids |-> <<>>]
  /\ inflight = [id \in Ids |-> <<>>]
  /\ queue = [id \in Ids |-> <<>>]
  /\ delivered = [id \in Ids |-> <<>>]

Install(id) ==
  /\ id \notin used
  /\ used' = used \cup {id}
  /\ registered' = registered \cup {id}
  /\ UNCHANGED <<published, inflight, queue, delivered>>

Publish(id, x) ==
  /\ id \in registered
  /\ published' = [published EXCEPT ![id] = Append(@, x)]
  /\ inflight' = [inflight EXCEPT ![id] = Append(@, x)]
  /\ UNCHANGED <<used, registered, queue, delivered>>

Accumulate(id) ==
  /\ id \in registered
  /\ inflight[id] # <<>>
  /\ queue' = [queue EXCEPT ![id] = Append(@, Head(inflight[id]))]
  /\ inflight' = [inflight EXCEPT ![id] = Tail(@)]
  /\ UNCHANGED <<used, registered, published, delivered>>

Poll(id) ==
  /\ id \in registered
  /\ delivered' = [delivered EXCEPT ![id] = @ \o queue[id]]
  /\ queue' = [queue EXCEPT ![id] = <<>>]
  /\ UNCHANGED <<used, registered, published, inflight>>

\* Several filters may be removed in one step (one sweep of the registry).
Remove(S) ==
  /\ S # {}
  /\ S \subseteq registered
  /\ registered' = registered \ S
  /\ inflight' = [id \in Ids |-> IF id \in S THEN <<>> ELSE inflight[id]]
  /\ queue' = [id \in Ids |-> IF id \in S THEN <<>> ELSE queue[id]]
  /\ UNCHANGED <<used, published, delivered>>

Next ==
  \/ \E id \in Ids : Install(id) \/ Accumulate(id) \/ Poll(id)
  \/ \E id \in Ids, x \in Items : Publish(id, x)
  \/ \E S \in SUBSET Ids : Remove(S)

Spec == Init /\ [][Next]_vars
=============================================================================
