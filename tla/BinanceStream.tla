----------------------------- MODULE BinanceStream -----------------------------
(***************************************************************************)
(* The user data stream of a Binance futures account: what the exchange    *)
(* tells of its orders while they are filled in parts, canceled or         *)
(* liquidated, and what BinanceFutures._on_message makes executions of.    *)
(*                                                                         *)
(* The manager's own _on_message, which would renew an expired listen key, *)
(* is hidden by the attribute of the same name that __init__ sets, so that *)
(* the event reaches BinanceFutures._on_message, which does not know it.   *)
(***************************************************************************)
EXTENDS Naturals, Sequences, SequencesExt

CONSTANTS
    Orders,
    OrderQty,      \* parts an order may be filled in
    OrderTypes,    \* a set with "MARKET", "STOP", "TAKE_PROFIT", "TRAILING_STOP_MARKET"
    MaxFundings    \* bound of the model

ASSUME StreamAssumption == OrderQty \in Nat \ {0} /\ MaxFundings \in Nat

VARIABLES
    orders,     \* at the exchange: state, type, liquidation, parts that are filled, and
                \* whether commission was paid for the last of them
    stream,     \* messages on their way
    keyLives,   \* whether the listen key is valid
    reported,   \* executions given to the worker
    fundings
streamVars == <<orders, stream, keyLives, reported, fundings>>

NoCommission == 0   \* the message has no "n": "will not push if no commission"

StreamInit ==
    /\ orders = [o \in Orders |-> [state |-> "NONE", type |-> "", forced |-> FALSE,
                                   filled |-> 0, paid |-> FALSE]]
    /\ stream = <<>> /\ keyLives = TRUE /\ reported = <<>> /\ fundings = 0

\* What the exchange sends, as long as the key lives.
Sent(message) == stream' = IF keyLives THEN Append(stream, message) ELSE stream

PlaceOrder(o, type, forced) ==
    /\ orders[o].state = "NONE"
    /\ orders' = [orders EXCEPT ![o] = [@ EXCEPT !.state = "NEW", !.type = type, !.forced = forced]]
    /\ UNCHANGED <<stream, keyLives, reported, fundings>>

\* A part is filled.  The message has the order's whole quantity (q), and the
\* commission of this part only (n), if there is any.
Fill(o, paid) ==
    /\ orders[o].state \in {"NEW", "PARTIALLY_FILLED"}
    /\ LET filled == orders[o].filled + 1
           X == IF filled = OrderQty THEN "FILLED" ELSE "PARTIALLY_FILLED"
       IN  /\ orders' = [orders EXCEPT ![o].filled = filled, ![o].state = X, ![o].paid = paid]
           /\ Sent([e |-> "ORDER_TRADE_UPDATE", order |-> o, X |-> X, q |-> OrderQty,
                    n |-> IF paid THEN 1 ELSE NoCommission])
    /\ UNCHANGED <<keyLives, reported, fundings>>

Cancel(o) ==
    /\ orders[o].state \in {"NEW", "PARTIALLY_FILLED"}
    /\ orders' = [orders EXCEPT ![o].state = "CANCELED"]
    /\ Sent([e |-> "ORDER_TRADE_UPDATE", order |-> o, X |-> "CANCELED", q |-> OrderQty,
             n |-> NoCommission])
    /\ UNCHANGED <<keyLives, reported, fundings>>

PayFunding ==
    /\ fundings < MaxFundings /\ fundings' = fundings + 1
    /\ Sent([e |-> "ACCOUNT_UPDATE"])
    /\ UNCHANGED <<orders, keyLives, reported>>

\* The last message of a stream is that its key has expired.
KeyExpires ==
    /\ keyLives /\ keyLives' = FALSE
    /\ Sent([e |-> "listenKeyExpired"])
    /\ UNCHANGED <<orders, reported, fundings>>

-----------------------------------------------------------------------------
\* A forced order is a liquidation only when its type is none of the first two.
ExecTypeOf(order) ==
    CASE order.type \in {"MARKET", "LIMIT"} -> "TRADE"
      [] order.type \notin {"MARKET", "LIMIT"} /\ order.forced -> "LIQUIDATION"
      [] order.type = "STOP" /\ ~ order.forced -> "STOP"
      [] order.type = "TAKE_PROFIT" /\ ~ order.forced -> "TP"
      [] OTHER -> "none"

ExecutionsBug(message) ==
    CASE message.e = "ORDER_TRADE_UPDATE" ->
            LET type == ExecTypeOf(orders[message.order])
            IN  IF /\ message.X \in {"PARTIALLY_FILLED", "FILLED"} /\ type # "none"
                   /\ message.n # NoCommission
                THEN <<[order |-> message.order, type |-> type, qty |-> message.q,
                        commission |-> message.n]>>
                ELSE <<>>
      [] message.e = "ACCOUNT_UPDATE" -> <<[type |-> "FUNDING"]>>
      [] OTHER -> <<>>

\* The executions a message makes: only the one that fills an order does, with
\* the quantity of all its parts.  Without commission data["n"] raises, the manager's
\* _callback logs it, and of this message nothing is left.
Executions(message) ==
    CASE message.e = "ORDER_TRADE_UPDATE" ->
            LET type == ExecTypeOf(orders[message.order])
            IN  IF message.X = "FILLED" /\ type # "none" /\ message.n # NoCommission
                THEN <<[order |-> message.order, type |-> type, qty |-> message.q,
                        commission |-> message.n]>>
                ELSE <<>>
      [] message.e = "ACCOUNT_UPDATE" -> <<[type |-> "FUNDING"]>>
      [] OTHER -> <<>>

OnMessage ==
    /\ stream # <<>> /\ stream' = Tail(stream)
    /\ reported' = reported \o Executions(Head(stream))
    /\ UNCHANGED <<orders, keyLives, fundings>>

StreamNext ==
    \/ \E o \in Orders :
          \/ \E type \in OrderTypes, forced \in BOOLEAN : PlaceOrder(o, type, forced)
          \/ \E paid \in BOOLEAN : Fill(o, paid)
          \/ Cancel(o)
    \/ PayFunding \/ KeyExpires \/ OnMessage

-----------------------------------------------------------------------------
StreamSpec == StreamInit /\ [][StreamNext]_streamVars

\* The i-th report is one of an execution of o.
Tells(i, o) == reported[i].type # "FUNDING" /\ reported[i].order = o

\* What the handler makes an execution of once the order is filled: a known type,
\* whose last part paid commission.  The others are lost.
Heard(order) == ExecTypeOf(order) # "none" /\ order.paid

\* Orders filled in parts, canceled in between, and a stream that may break off:
\* the worker hears of an order once and of all of it, or not at all; and of
\* every order that is filled if the stream lives and is read, unless it is of
\* a type the handler leaves out, or the part that filled it was free of commission.
WholeOrders ==
    \A o \in Orders :
        /\ \A i, k \in DOMAIN reported : Tells(i, o) /\ Tells(k, o) => i = k
        /\ \A i \in DOMAIN reported : Tells(i, o) => reported[i].qty = orders[o].filled
        /\ keyLives /\ stream = <<>> /\ orders[o].state = "FILLED"
              /\ Heard(orders[o]) => \E i \in DOMAIN reported : Tells(i, o)
=============================================================================
