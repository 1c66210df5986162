--------------------------- MODULE FilterCreation ---------------------------
(***************************************************************************)
(* What the filter-creation calls of PublicFilterAPI                      *)
(* (src/app/rpc/namespaces/eth/filters/api.go) return to their caller:    *)
(* NewPendingTransactionFilter and NewBlockFilter return an rpc.ID only,  *)
(* and on a rate-limiter refusal or a subscribe error they return the     *)
(* error's text as that ID; NewFilter returns (id, err), where err is a   *)
(* variable its listening goroutine also assigns.  Each method has its    *)
(* own limiter (GetRateLimiter(method)), a token bucket refilled once per *)
(* second (spec.md 8 P5); the bucket is not under src/.  A method not     *)
(* named in --rpc.rate-limit-api (flags.go:23, empty by default) has a    *)
(* nil limiter, and the code's "rateLimiter != nil" lets it through.      *)
(***************************************************************************)
EXTENDS Integers, FiniteSets

CONSTANTS
  Calls,      \* creation calls; a call that registers a filter names it
  Rate,       \* tokens a limiter regains per second
  Burst,      \* a limiter's capacity
  LimitedApis, \* the methods named in --rpc.rate-limit-api
  MaxTime,    \* bound on the clock, in seconds
  ErrorText,  \* an rpc.ID holding "error creating ... filter: ..."
  NoId        \* rpc.ID("")

Methods == {"pending", "blocks", "logs"}

VARIABLES
  now,        \* seconds since start
  tokens,     \* tokens[m]: what the limiter of method m can still allow
  kindOf,     \* the method each call invoked ("none" before it starts)
  pc,         \* "idle", "subscribed" (NewFilter, before its return), "returned"
  registered, \* ids in api.filters
  registeredAt, \* history: when each id was inserted in api.filters (NotYet)
  listener,   \* a call's listening goroutine: "none", "running", "done"
  errVar,     \* NewFilter's local err: "nil" or "decode"
  result      \* what the call returned: [id, err]

vars == <<now, tokens, kindOf, pc, registered, registeredAt, listener,
          errVar, result>>

NoResult == [id |-> NoId, err |-> "nil"]
NotYet == -1

\* The ids ever inserted in api.filters.
everRegistered == {c \in Calls : registeredAt[c] # NotYet}
ErrKinds == {"nil", "busy", "subscribe", "decode"}

-----------------------------------------------------------------------------
(* The limiter (golang.org/x/time/rate, spec.md 8 P5).                    *)

\* rateLimiter != nil && !rateLimiter.Allow() refuses the call.
Allowed(m) == m \notin LimitedApis \/ tokens[m] > 0
TakeToken(m) ==
  tokens' = IF m \in LimitedApis THEN [tokens EXCEPT ![m] = @ - 1] ELSE tokens

Tick ==
  /\ now < MaxTime
  /\ now' = now + 1
  /\ tokens' = [m \in Methods |->
                  IF tokens[m] + Rate > Burst THEN Burst ELSE tokens[m] + Rate]
  /\ UNCHANGED <<kindOf, pc, registered, registeredAt, listener, errVar,
                 result>>

-----------------------------------------------------------------------------
(* Creation.                                                               *)

\* Insert the filter under filtersMu and start its listening goroutine.
Register(c) ==
  /\ registered' = registered \cup {c}
  /\ registeredAt' = [registeredAt EXCEPT ![c] = now]
  /\ listener' = [listener EXCEPT ![c] = "running"]

\* NewPendingTransactionFilter and NewBlockFilter: refused, or subscribe
\* failed, return the error text as the id; otherwise register and return
\* the subscription's id.  The whole call is one step: nothing it returns
\* is shared with its goroutine.
CreateHashFilter(c, m) ==
  /\ pc[c] = "idle"
  /\ kindOf' = [kindOf EXCEPT ![c] = m]
  /\ pc' = [pc EXCEPT ![c] = "returned"]
  /\ \/ /\ ~Allowed(m)
        /\ result' = [result EXCEPT ![c] = [id |-> ErrorText, err |-> "nil"]]
        /\ UNCHANGED <<tokens, registered, registeredAt, listener>>
     \/ /\ Allowed(m) /\ TakeToken(m)
        /\ result' = [result EXCEPT ![c] = [id |-> ErrorText, err |-> "nil"]]
        /\ UNCHANGED <<registered, registeredAt, listener>>
     \/ /\ Allowed(m) /\ TakeToken(m)
        /\ Register(c)
        /\ result' = [result EXCEPT ![c] = [id |-> c, err |-> "nil"]]
  /\ UNCHANGED <<now, errVar>>

NewPendingTransactionFilter(c) == CreateHashFilter(c, "pending")
NewBlockFilter(c) == CreateHashFilter(c, "blocks")

\* Mutant: NewFilter without its rate-limiter check.
NewFilterSubscribeUnlimited(c) ==
  /\ pc[c] = "idle"
  /\ kindOf' = [kindOf EXCEPT ![c] = "logs"]
  /\ \/ /\ pc' = [pc EXCEPT ![c] = "returned"]
        /\ result' = [result EXCEPT ![c] = [id |-> NoId, err |-> "subscribe"]]
        /\ UNCHANGED <<registered, registeredAt, listener>>
     \/ /\ Register(c)
        /\ pc' = [pc EXCEPT ![c] = "subscribed"]
        /\ UNCHANGED result
  /\ UNCHANGED <<now, tokens, errVar>>

\* NewFilter up to its return: refused returns ("", ErrServerBusy); a
\* subscribe error returns ("", err); otherwise register and start the
\* goroutine, which shares err with the call.
NewFilterSubscribe(c) ==
  /\ pc[c] = "idle"
  /\ kindOf' = [kindOf EXCEPT ![c] = "logs"]
  /\ \/ /\ ~Allowed("logs")
        /\ pc' = [pc EXCEPT ![c] = "returned"]
        /\ result' = [result EXCEPT ![c] = [id |-> NoId, err |-> "busy"]]
        /\ UNCHANGED <<tokens, registered, registeredAt, listener>>
     \/ /\ Allowed("logs") /\ TakeToken("logs")
        /\ pc' = [pc EXCEPT ![c] = "returned"]
        /\ result' = [result EXCEPT ![c] = [id |-> NoId, err |-> "subscribe"]]
        /\ UNCHANGED <<registered, registeredAt, listener>>
     \/ /\ Allowed("logs") /\ TakeToken("logs")
        /\ Register(c)
        /\ pc' = [pc EXCEPT ![c] = "subscribed"]
        /\ UNCHANGED result
  /\ UNCHANGED <<now, errVar>>

\* return filterID, err: the read of err races with the goroutine's writes,
\* so once the goroutine has stored an error either value may be read.
NewFilterReturn(c) ==
  /\ pc[c] = "subscribed"
  /\ pc' = [pc EXCEPT ![c] = "returned"]
  /\ \E e \in {"nil", errVar[c]} :
       result' = [result EXCEPT ![c] = [id |-> c, err |-> e]]
  /\ UNCHANGED <<now, tokens, kindOf, registered, registeredAt, listener,
                 errVar>>

-----------------------------------------------------------------------------
(* The listening goroutines' failure paths.                                *)

\* NewFilter's goroutine: an event that is not EventDataTx, or whose result
\* does not decode, is stored in err and the goroutine returns; the filter
\* stays registered.
NewFilterListenerDecodeError(c) ==
  /\ kindOf[c] = "logs" /\ listener[c] = "running"
  /\ errVar' = [errVar EXCEPT ![c] = "decode"]
  /\ listener' = [listener EXCEPT ![c] = "done"]
  /\ UNCHANGED <<now, tokens, kindOf, pc, registered, registeredAt, result>>

\* A subscription error deletes the filter; the block and logs goroutines
\* return, the pending-tx goroutine keeps looping.
ListenerSubscriptionError(c) ==
  /\ listener[c] = "running" /\ c \in registered
  /\ registered' = registered \ {c}
  /\ listener' = IF kindOf[c] = "pending" THEN listener
                 ELSE [listener EXCEPT ![c] = "done"]
  /\ UNCHANGED <<now, tokens, kindOf, pc, registeredAt, errVar, result>>

-----------------------------------------------------------------------------
Init ==
  /\ now = 0
  /\ tokens = [m \in Methods |-> Burst]
  /\ kindOf = [c \in Calls |-> "none"]
  /\ pc = [c \in Calls |-> "idle"]
  /\ registered = {}
  /\ registeredAt = [c \in Calls |-> NotYet]
  /\ listener = [c \in Calls |-> "none"]
  /\ errVar = [c \in Calls |-> "nil"]
  /\ result = [c \in Calls |-> NoResult]

Next ==
  \/ Tick
  \/ \E c \in Calls :
       \/ NewPendingTransactionFilter(c) \/ NewBlockFilter(c)
       \/ NewFilterSubscribe(c) \/ NewFilterReturn(c)
       \/ NewFilterListenerDecodeError(c) \/ ListenerSubscriptionError(c)

Spec == Init /\ [][Next]_vars

-----------------------------------------------------------------------------
TypeOK ==
  /\ now \in 0..MaxTime
  /\ tokens \in [Methods -> 0..Burst]
  /\ kindOf \in [Calls -> Methods \cup {"none"}]
  /\ pc \in [Calls -> {"idle", "subscribed", "returned"}]
  /\ registeredAt \in [Calls -> {NotYet} \cup 0..MaxTime]
  /\ registered \subseteq everRegistered
  /\ listener \in [Calls -> {"none", "running", "done"}]
  /\ errVar \in [Calls -> {"nil", "decode"}]
  /\ \A c \in Calls : result[c].err \in ErrKinds

(* No rate-limited method (one named in --rpc.rate-limit-api) registers *)
(* more filters in any span of seconds t1..t2 than its bucket admits: the *)
(* burst plus the rate for every second the span spans (spec.md 8 P5:    *)
(* with K a second, the (K+1)-th call within one second is refused and    *)
(* registers nothing).  A refill that overfills the bucket while a method *)
(* is idle, or a call that skips the limiter, lets a later second admit   *)
(* more.                                                                  *)
AdmittedWithinRate ==
  \A m \in LimitedApis, t1, t2 \in 0..now :
    t1 <= t2 =>
      Cardinality({c \in everRegistered :
                     kindOf[c] = m /\ registeredAt[c] \in t1..t2})
        <= Burst + Rate * (t2 - t1)

(* A creation call that reports no error hands back the id of the filter  *)
(* it registered (spec.md 7: creation errors are surfaced to the caller   *)
(* and no filter is registered; 9: an id must not carry an error).       *)
ReturnedIdNamesFilter ==
  \A c \in Calls :
    (pc[c] = "returned" /\ result[c].err = "nil") => result[c].id = c

(* A creation call that reports an error registered no filter             *)
(* (spec.md 7).                                                           *)
ErrorMeansNoFilter ==
  \A c \in Calls :
    (pc[c] = "returned" /\ result[c].err # "nil") => c \notin everRegistered
=============================================================================
