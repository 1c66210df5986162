------------------------------ MODULE LogQuery ------------------------------
(***************************************************************************)
(* Historical log queries of PublicFilterAPI                              *)
(* (src/app/rpc/namespaces/eth/filters/api.go): GetLogs builds a block    *)
(* filter when the criteria carry a block hash, and otherwise a range     *)
(* filter whose missing bounds default to "latest"; GetFilterLogs builds   *)
(* the same filter from the criteria stored in a registered filter.       *)
(* Running a filter (Filter.Logs) and the log matcher (FilterLogs) are    *)
(* not under src/; they are modelled from spec.md 4.5.  A block's hash is *)
(* represented by its height.                                             *)
(***************************************************************************)
EXTENDS Integers, Sequences, SequencesExt

CONSTANTS
  Ids,            \* filter ids
  BlockContents,  \* the log sequences a committed block may hold; a log is
                  \* [addr |-> address, topics |-> sequence of topics]
  MaxHeight,      \* bound on the chain's height
  Criteria,       \* the criteria clients pass to GetLogs
  FilterCriteria, \* the criteria clients pass to NewFilter
  NoBlock         \* a nil *big.Int or nil BlockHash

\* rpc.LatestBlockNumber.Int64()
Latest == -1

VARIABLES
  chain,     \* chain[h]: the logs of the committed block at height h
  filters,   \* the registry's view: id -> [typ, crit]
  requested, \* history: the criteria each NewFilter call was given
  lastCall   \* the latest query and what it returned

vars == <<chain, filters, requested, lastCall>>

\* The criteria NewFilter stores: the filter literal leaves crit unset.
ZeroCrit ==
  [blockHash |-> NoBlock, from |-> NoBlock, to |-> NoBlock,
   addresses |-> {}, topics |-> <<>>]

NoCall ==
  [call |-> "none", id |-> NoBlock, crit |-> ZeroCrit, height |-> 0,
   err |-> FALSE, logs |-> <<>>]

-----------------------------------------------------------------------------
(* FilterLogs and Filter.Logs (spec.md 4.5).                              *)

\* Position-wise topic match (spec.md 3, P4): an empty set matches any topic
\* the log has at that position; a position beyond the log's topics never
\* matches, wildcard or not.
RECURSIVE TopicsMatch(_, _)
TopicsMatch(logTopics, topics) ==
  IF topics = <<>> THEN TRUE
  ELSE /\ logTopics # <<>>
       /\ Head(topics) = {} \/ Head(logTopics) \in Head(topics)
       /\ TopicsMatch(Tail(logTopics), Tail(topics))

Matches(l, addresses, topics) ==
  /\ addresses = {} \/ l.addr \in addresses
  /\ TopicsMatch(l.topics, topics)

\* The logs of block h of chain ch, tagged with their height.
BlockLogs(ch, h) ==
  [i \in 1..Len(ch[h]) |-> [h |-> h, addr |-> ch[h][i].addr,
                            topics |-> ch[h][i].topics]]

MatchedIn(ch, h, f) ==
  SelectSeq(BlockLogs(ch, h), LAMBDA l : Matches(l, f.addresses, f.topics))

\* A range filter walks the committed blocks from begin to end.
RECURSIVE RangeLogs(_, _, _, _)
RangeLogs(ch, from, to, f) ==
  IF from > to THEN <<>>
  ELSE MatchedIn(ch, from, f) \o RangeLogs(ch, from + 1, to, f)

\* Filter.Logs: "latest" resolves to the head at call time; a block hash
\* that names no committed block is an error.
RunFilter(ch, f) ==
  LET Resolve(n) == IF n = Latest THEN Len(ch) ELSE n
      lo == IF Resolve(f.begin) < 1 THEN 1 ELSE Resolve(f.begin)
      hi == IF Resolve(f.end) > Len(ch) THEN Len(ch) ELSE Resolve(f.end)
  IN  IF f.blockHash = NoBlock
      THEN [err |-> FALSE, logs |-> RangeLogs(ch, lo, hi, f)]
      ELSE IF f.blockHash \in 1..Len(ch)
           THEN [err |-> FALSE, logs |-> MatchedIn(ch, f.blockHash, f)]
           ELSE [err |-> TRUE, logs |-> <<>>]

-----------------------------------------------------------------------------
(* api.go: from criteria to a filter.                                     *)

\* Mutant: a missing fromBlock defaults to the genesis block.
FilterOfFromGenesis(crit) ==
  [blockHash |-> crit.blockHash,
   begin |-> IF crit.from = NoBlock THEN 0 ELSE crit.from,
   end |-> IF crit.to = NoBlock THEN Latest ELSE crit.to,
   addresses |-> crit.addresses, topics |-> crit.topics]

\* NewBlockFilter(backend, crit) if crit.BlockHash != nil, else
\* NewRangeFilter(backend, begin, end, crit.Addresses, crit.Topics) with
\* begin and end defaulting to rpc.LatestBlockNumber.
FilterOf(crit) ==
  [blockHash |-> crit.blockHash,
   begin |-> IF crit.from = NoBlock THEN Latest ELSE crit.from,
   end |-> IF crit.to = NoBlock THEN Latest ELSE crit.to,
   addresses |-> crit.addresses, topics |-> crit.topics]

Answer(call, id, crit, res) ==
  [call |-> call, id |-> id, crit |-> crit, height |-> Len(chain),
   err |-> res.err, logs |-> res.logs]

-----------------------------------------------------------------------------
(* Actions.                                                                *)

CommitBlock ==
  /\ Len(chain) < MaxHeight
  /\ \E b \in BlockContents : chain' = Append(chain, b)
  /\ UNCHANGED <<filters, requested, lastCall>>

\* NewFilter registers a logs filter whose crit is never assigned.
NewFilter(id, crit) ==
  /\ id \notin DOMAIN filters
  /\ filters' = filters @@ (id :> [typ |-> "logs", crit |-> ZeroCrit])
  /\ requested' = requested @@ (id :> crit)
  /\ UNCHANGED <<chain, lastCall>>

\* NewBlockFilter and NewPendingTransactionFilter register other types.
NewOtherFilter(id) ==
  /\ id \notin DOMAIN filters
  /\ filters' = filters @@ (id :> [typ |-> "other", crit |-> ZeroCrit])
  /\ UNCHANGED <<chain, requested, lastCall>>

GetLogs(crit) ==
  /\ lastCall' = Answer("getLogs", NoBlock, crit, RunFilter(chain, FilterOf(crit)))
  /\ UNCHANGED <<chain, filters, requested>>

\* Not found and wrong type are errors; otherwise run the stored criteria.
GetFilterLogs(id) ==
  LET found == id \in DOMAIN filters
      crit == IF found THEN filters[id].crit ELSE ZeroCrit
      res == IF found /\ filters[id].typ = "logs"
             THEN RunFilter(chain, FilterOf(crit))
             ELSE [err |-> TRUE, logs |-> <<>>]
  IN  /\ lastCall' = Answer("getFilterLogs", id, crit, res)
      /\ UNCHANGED <<chain, filters, requested>>

Init ==
  /\ chain \in {<<b>> : b \in BlockContents}
  /\ filters = <<>>
  /\ requested = <<>>
  /\ lastCall = NoCall

Next ==
  \/ CommitBlock
  \/ \E id \in Ids : NewOtherFilter(id) \/ GetFilterLogs(id)
  \/ \E id \in Ids, c \in FilterCriteria : NewFilter(id, c)
  \/ \E c \in Criteria : GetLogs(c)

Spec == Init /\ [][Next]_vars

-----------------------------------------------------------------------------
(* Reference: what spec.md 4.5 and 3 say a query returns.                 *)

\* Every committed log in chain order.
AllLogs(ch) == FlattenSeq([h \in 1..Len(ch) |-> BlockLogs(ch, h)])

SpecMatches(l, crit) ==
  /\ crit.addresses = {} \/ l.addr \in crit.addresses
  /\ Len(crit.topics) <= Len(l.topics)
  /\ \A i \in 1..Len(crit.topics) :
       crit.topics[i] = {} \/ l.topics[i] \in crit.topics[i]

\* A block hash selects that block; otherwise fromBlock..toBlock, inclusive,
\* with a missing or "latest" bound meaning the current head.
InScope(h, crit, head) ==
  LET Bound(n) == IF n \in {NoBlock, Latest} THEN head ELSE n IN
  IF crit.blockHash # NoBlock THEN h = crit.blockHash
  ELSE Bound(crit.from) <= h /\ h <= Bound(crit.to)

SpecResult(ch, crit) ==
  IF crit.blockHash # NoBlock /\ crit.blockHash \notin 1..Len(ch)
  THEN [err |-> TRUE, logs |-> <<>>]
  ELSE [err |-> FALSE,
        logs |-> SelectSeq(AllLogs(ch),
                   LAMBDA l : InScope(l.h, crit, Len(ch)) /\ SpecMatches(l, crit))]

\* The chain as it was when the latest call ran.
ChainAtCall == SubSeq(chain, 1, lastCall.height)

(* GetLogs returns, in chain order, exactly the committed logs in the     *)
(* block or range the criteria name that match their addresses and       *)
(* topics (spec.md 4.5, 8 E2E): the default bounds, the "latest" tag, the *)
(* block-hash precedence and the matcher all have to agree.              *)
GetLogsAsSpecified ==
  lastCall.call = "getLogs" =>
    [err |-> lastCall.err, logs |-> lastCall.logs]
      = SpecResult(ChainAtCall, lastCall.crit)

(* GetFilterLogs on a logs filter returns what GetLogs returns for the    *)
(* criteria the filter was created with (spec.md 3, 8 E2E).               *)
GetFilterLogsAsCreated ==
  [][ (/\ lastCall' # lastCall
       /\ lastCall'.call = "getFilterLogs"
       /\ lastCall'.id \in DOMAIN requested)
      => [err |-> lastCall'.err, logs |-> lastCall'.logs]
           = SpecResult(chain, requested[lastCall'.id]) ]_vars
=============================================================================
