------------------------------ MODULE AppABCI ------------------------------
(***************************************************************************)
(* The ABCI block cycle of OKExChainApp (src/app/app.go): BeginBlock,     *)
(* DeliverTx, EndBlock and Commit delegate to BaseApp; DeliverTx then     *)
(* syncs a successful tx to the backend and stream keepers (syncTx), and  *)
(* the ante handler runs validateMsgHook on a StdTx's messages.  BaseApp, *)
(* the ante chain and the keepers are not in this repository: a message's *)
(* execution and the order checks (ValidateMsgNewOrders,                  *)
(* ValidateMsgCancelOrders) are nondeterministic outcomes.  An Ethereum   *)
(* tx is its own MsgEthereumTx, not an auth.StdTx, and takes the EVM ante *)
(* path without the hook.                                                  *)
(***************************************************************************)
EXTENDS Naturals, Sequences

CONSTANTS
  Txs,          \* the txs a block may carry: [std, msgs]; a msg is [k, valid]
  SyncEnabled,  \* BackendConfig.EnableBackend \/ StreamKeeper.AnalysisEnable()
  MaxHeight,    \* bound on committed blocks
  MaxTxs,       \* bound on txs per block
  MaxRestarts   \* bound on restarts of the node

\* Message kinds the hook singles out.
OrderKinds == {"newOrders", "cancelOrders"}
EvmKinds == {"ethereumTx", "ethermint"}

\* The module manager's orders, as NewOKExChainApp sets them.
BeginOrder ==
  <<"stream", "order", "token", "dex", "mint", "distr", "slashing",
    "staking", "farm", "evidence", "evm">>

EndOrder ==
  <<"crisis", "gov", "dex", "order", "staking", "backend", "stream", "evm">>

InitGenesisOrder ==
  <<"auth", "distr", "staking", "bank", "slashing", "gov", "mint", "supply",
    "token", "dex", "order", "ammswap", "farm", "evm", "crisis", "genutil",
    "params", "evidence">>

VARIABLES
  height,    \* LastBlockHeight()
  phase,     \* "init" (awaiting InitChain), "initGenesis", "begin" (awaiting
             \* BeginBlock), "beginBlocker", "deliver", "endBlocker",
             \* "committing"
  hooks,     \* the module manager call that ran last: "none",
             \* "initGenesis", "beginBlocker", "endBlocker"
  ran,       \* the modules that call has run so far, in order
  restarts,  \* restarts of the node so far
  nTxs,      \* txs delivered in the current block
  lastTx,    \* the latest tx delivered
  lastHook,  \* what validateMsgHook returned for it ("none" if not run)
  lastResp,  \* "ok" or "error"
  synced     \* txs handed to BackendKeeper.SyncTx and StreamKeeper.SyncTx

vars == <<height, phase, hooks, ran, restarts, nTxs, lastTx, lastHook,
          lastResp, synced>>

NoTx == [std |-> FALSE, msgs |-> <<>>]

-----------------------------------------------------------------------------
(* validateMsgHook: an order or EVM message in a tx of more than one      *)
(* message is refused at once; an order message is validated and its     *)
(* error returned.                                                         *)

\* Mutant: the multi-message check is missing from the MsgEthermint case.
HookLoopNoEthermintCheck(msgs, n) ==
  LET special == OrderKinds \cup {"ethereumTx"}
      firstBad == {i \in 1..Len(msgs) :
                     \/ msgs[i].k \in special /\ n > 1
                     \/ msgs[i].k \in OrderKinds /\ ~msgs[i].valid}
  IN  IF firstBad = {} THEN "ok"
      ELSE LET i == CHOOSE j \in firstBad : \A l \in firstBad : j <= l IN
           IF msgs[i].k \in special /\ n > 1 THEN "wrongMsg" ELSE "invalid"

\* The for loop over msgs; n is len(msgs).
RECURSIVE HookLoop(_, _)
HookLoop(msgs, n) ==
  IF msgs = <<>> THEN "ok"
  ELSE LET m == Head(msgs) IN
       IF m.k \in OrderKinds \cup EvmKinds /\ n > 1 THEN "wrongMsg"
       ELSE IF m.k \in OrderKinds /\ ~m.valid THEN "invalid"
       ELSE HookLoop(Tail(msgs), n)

ValidateMsgHook(msgs) == HookLoop(msgs, Len(msgs))

\* The ante handler NewOKExChainApp installs: the hook sees a StdTx's
\* messages; an Ethereum tx takes the EVM path without it.
AnteHook(tx) == IF tx.std THEN ValidateMsgHook(tx.msgs) ELSE "none"

-----------------------------------------------------------------------------
\* InitChainer: mm.InitGenesis over the genesis order.  Tendermint calls
\* InitChain only while no block is committed.
InitChain ==
  /\ phase = "init"
  /\ phase' = "initGenesis"
  /\ hooks' = "initGenesis" /\ ran' = <<>>
  /\ UNCHANGED <<height, restarts, nTxs, lastTx, lastHook, lastResp, synced>>

BeginBlock ==
  /\ phase = "begin" /\ height < MaxHeight
  /\ phase' = "beginBlocker"
  /\ hooks' = "beginBlocker" /\ ran' = <<>>
  /\ nTxs' = 0
  /\ UNCHANGED <<height, restarts, lastTx, lastHook, lastResp, synced>>

\* One module's hook inside mm.InitGenesis, mm.BeginBlock or mm.EndBlock,
\* in the manager's order; after the last one the ABCI call returns.
RunModule(p, order, next) ==
  /\ phase = p /\ Len(ran) < Len(order)
  /\ ran' = Append(ran, order[Len(ran) + 1])
  /\ phase' = IF Len(ran) + 1 = Len(order) THEN next ELSE p
  /\ UNCHANGED <<height, hooks, restarts, nTxs, lastTx, lastHook, lastResp,
                 synced>>

InitGenesisStep == RunModule("initGenesis", InitGenesisOrder, "begin")
BeginBlockerStep == RunModule("beginBlocker", BeginOrder, "deliver")
EndBlockerStep == RunModule("endBlocker", EndOrder, "committing")

\* BaseApp.DeliverTx runs the ante handler and then the messages; a
\* successful tx is synced when syncing is enabled and it decodes as an
\* auth.StdTx.
DeliverTx(tx) ==
  LET hook == AnteHook(tx) IN
  /\ phase = "deliver" /\ nTxs < MaxTxs
  /\ nTxs' = nTxs + 1
  /\ lastTx' = tx
  /\ lastHook' = hook
  /\ \E executed \in BOOLEAN :
       LET ok == hook \in {"ok", "none"} /\ executed IN
       /\ lastResp' = IF ok THEN "ok" ELSE "error"
       /\ synced' = IF ok /\ SyncEnabled /\ tx.std THEN synced + 1 ELSE synced
  /\ UNCHANGED <<height, phase, hooks, ran, restarts>>

EndBlock ==
  /\ phase = "deliver"
  /\ phase' = "endBlocker"
  /\ hooks' = "endBlocker" /\ ran' = <<>>
  /\ UNCHANGED <<height, restarts, nTxs, lastTx, lastHook, lastResp, synced>>

Commit ==
  /\ phase = "committing"
  /\ height' = height + 1
  /\ phase' = "begin"
  /\ UNCHANGED <<hooks, ran, restarts, nTxs, lastTx, lastHook, lastResp,
                 synced>>

\* The node stops at any point and NewOKExChainApp reloads the last
\* committed version (LoadLatestVersion): the uncommitted block is gone,
\* and Tendermint replays InitChain if nothing was committed.  What
\* SyncTx handed to the backend and stream keepers stays handed.
Restart ==
  /\ restarts < MaxRestarts
  /\ restarts' = restarts + 1
  /\ phase' = IF height = 0 THEN "init" ELSE "begin"
  /\ hooks' = "none" /\ ran' = <<>>
  /\ nTxs' = 0
  /\ UNCHANGED <<height, lastTx, lastHook, lastResp, synced>>

Init ==
  /\ height = 0
  /\ phase = "init"
  /\ hooks = "none"
  /\ ran = <<>>
  /\ restarts = 0
  /\ nTxs = 0
  /\ lastTx = NoTx
  /\ lastHook = "none"
  /\ lastResp = "ok"
  /\ synced = 0

Next ==
  \/ InitChain \/ InitGenesisStep
  \/ BeginBlock \/ BeginBlockerStep
  \/ \E tx \in Txs : DeliverTx(tx)
  \/ EndBlock \/ EndBlockerStep
  \/ Commit
  \/ Restart

Spec == Init /\ [][Next]_vars

-----------------------------------------------------------------------------
\* The rule the hook's error states: "It is not allowed that a transaction
\* with more than one message contains order or evm message".
Special(m) == m.k \in OrderKinds \cup EvmKinds

DocumentedVerdict(msgs) ==
  IF Len(msgs) > 1 /\ \E i \in 1..Len(msgs) : Special(msgs[i]) THEN "wrongMsg"
  ELSE IF \E i \in 1..Len(msgs) : msgs[i].k \in OrderKinds /\ ~msgs[i].valid
       THEN "invalid"
  ELSE "ok"

(* validateMsgHook refuses a StdTx of several messages exactly when one of *)
(* them is an order or EVM message, whatever its position, and otherwise  *)
(* returns the order validation's error; a StdTx it refuses is never      *)
(* delivered successfully.                                                 *)
HookAsDocumented ==
  lastTx.std =>
    /\ lastHook = DocumentedVerdict(lastTx.msgs)
    /\ lastHook # "ok" => lastResp = "error"

=============================================================================
