------------------------------ MODULE MCServices ------------------------------
(***************************************************************************)
(* The services that wait for somebody: actions and the calls they make,   *)
(* the market data of the workers, the dialogs of the bot.  They share no  *)
(* state, and meet only in what a call promises, so that TLC explores one  *)
(* at a time: the one a behaviour begins with.                             *)
(***************************************************************************)
EXTENDS ActionBus, Rpc, TickerHub, Dialogs

CONSTANTS c1, c2, c3, w1, w2, btc, eth, ann, bob

VARIABLE part   \* what is explored

allVars == <<part, busVars, rpcVars, wsVars, hubVars, dlgVars>>

\* A call without a timeout, one that waits for two ticks, and one for one.
MCTimeout == [c \in Calls |-> IF c = c1 THEN 0 ELSE IF c = c2 THEN 2 ELSE 1]
MCTraded == [w \in Workers |-> IF w = w1 THEN {btc, eth} ELSE {btc}]
MCRequests == Symbols \X {1, 2}

MCInit ==
  /\ part \in {"actions", "calls", "hub", "socket", "dialogs"}
  /\ BusInit /\ RpcInit /\ HubInit /\ DlgInit
  /\ part = "dialogs" \/ \A d \in Asks : author[d] = ann /\ command[d] = "clear"

\* Bound: a websocket by itself is sent one request.
OneRequest == \A r \in Requests : asker'[r] # "idle" => r = <<btc, 1>>

MCNext ==
  /\ UNCHANGED part
  /\ \/ part = "actions" /\ BusNext /\ UNCHANGED <<rpcVars, wsVars, hubVars, dlgVars>>
     \/ part = "calls" /\ RpcNext /\ UNCHANGED <<busVars, wsVars, hubVars, dlgVars>>
     \/ part = "hub" /\ HubNext /\ UNCHANGED <<busVars, rpcVars, dlgVars>>
     \/ part = "socket" /\ WsNext /\ OneRequest /\ UNCHANGED <<busVars, rpcVars, hubVars, dlgVars>>
     \/ part = "dialogs" /\ DlgNext /\ UNCHANGED <<busVars, rpcVars, wsVars, hubVars>>

\* RpcFairness, HubFairness and DlgFairness, each asked of the part that moves.
MCFairness ==
  /\ WF_rpcVars(part = "calls" /\ Tick)
  /\ \A c \in Calls : /\ WF_rpcVars(part = "calls" /\ Push(c))
                      /\ WF_rpcVars(part = "calls" /\ Take(c))
                      /\ WF_rpcVars(part = "calls" /\ GiveUp(c))
  /\ \A w \in Workers : WF_<<wsVars, hubVars>>(part = "hub" /\ WorkerStep(w))
  /\ WF_<<wsVars, hubVars>>(part = "hub" /\ ticker /\ Wakes /\ UNCHANGED hubVars)
  /\ \A d \in Asks : WF_dlgVars(part = "dialogs" /\ Expire(d))

MCSpec == MCInit /\ [][MCNext]_allVars /\ MCFairness

\* The shape of the state of all parts.
TypeOK == BusTypeOK /\ RpcTypeOK /\ HubTypeOK /\ DlgTypeOK
=============================================================================
