------------------------------ MODULE TradeOps ------------------------------
(***************************************************************************)
(* Trades as pure values: lib/lib/db/models/trade.py (Trade.from_execution,*)
(* Trade.add_execution, Trade.calc_pnl) and the choice of the trade an     *)
(* execution belongs to (get_trade in lib/lib/exchanges/worker.py).  The   *)
(* state machines TradeBook and Resync are built from these operators.     *)
(*                                                                         *)
(* Decimal prices are multiplied by Scale, so that the weighted averages   *)
(* of the code are exact integers while quantities stay below the bound    *)
(* whose common multiple Scale is.  Linear (non-inverse) contracts only.   *)
(***************************************************************************)
EXTENDS Integers, Sequences, FiniteSets

CONSTANTS
    Symbols,    \* the (symbol, market type) pairs a client trades
    Scale,      \* common multiple of the quantities a trade can reach
    Unset       \* the realized_pnl of an execution whose exchange reports none

ASSUME ScaleAssumption == Scale \in Nat \ {0} /\ Unset \notin Int

Sides == {"BUY", "SELL"}

\* ExecType.  Transfers are spot and excluded from the trades of a derivatives client
\* (exclude_from_trade).  The liquidations, stops and take-profits of Binance's stream
\* have a side, a quantity and no market_type: they find no trade whatever their type
\* is, and are not told apart from trades here.
ExecTypes == {"trade", "funding"}

Pos == Nat \ {0}

Executions ==
    [symbol : Symbols, side : Sides, type : ExecTypes, qty : Pos, price : Pos,
     commission : Int, realized : Int \cup {Unset}, reduce : BOOLEAN, tagged : BOOLEAN]

\* What Binance makes of INSURANCE_CLEAR (a liquidation) and its stream of FUNDING_FEE:
\* an execution whose side, quantity, price and market_type are all NULL.
Bare(s, type, commission, realized) ==
    [symbol |-> s, side |-> "NULL", type |-> type, qty |-> 0, price |-> 0,
     commission |-> commission, realized |-> realized, reduce |-> FALSE, tagged |-> FALSE]

IsBare(e) == e.qty = 0

\* Trade.exit before the first reducing execution.  Prices are positive.
NoExit == 0

Trades ==
    [symbol : Symbols, side : Sides, qty : Pos, open_qty : Nat, entry : Int,
     exit : Int, realized_pnl : Int, total_commissions : Int,
     executions : Seq(Executions)]

Sign(side) == IF side = "BUY" THEN 1 ELSE -1

\* Execution.effective_qty, and the exposure a trade still carries.
EffectiveQty(e) == Sign(e.side) * e.qty
Exposure(t) == Sign(t.side) * t.open_qty

IsOpen(t) == t.open_qty > 0

\* The operators whose names end in Bug are variants with a plausible mistake.
\* No definition uses them: they show which mistakes the properties notice.
WeightedAvgBug(v1, w1, v2, w2) == (v1 * w2 + v2 * w1) \div (w1 + w2)

WeightedAvg(v1, w1, v2, w2) == (v1 * w1 + v2 * w2) \div (w1 + w2)

-----------------------------------------------------------------------------
\* Trade.from_execution: the execution becomes the trade's `initial`.
FromExecution(e) ==
    [symbol |-> e.symbol, side |-> e.side, qty |-> e.qty, open_qty |-> e.qty,
     entry |-> Scale * e.price, exit |-> NoExit, realized_pnl |-> 0,
     total_commissions |-> e.commission, executions |-> <<e>>]

CalcPnlBug(t, qty, price) == Sign(t.side) * (Scale * price - t.entry) * t.qty

\* Trade.calc_pnl of a linear contract.
CalcPnl(t, qty, price) == Sign(t.side) * (Scale * price - t.entry) * qty

\* add_execution, funding and liquidation: money only, the quantities stay.
Charge(t, e) ==
    [t EXCEPT !.realized_pnl = @ + (IF e.realized = Unset THEN 0 ELSE e.realized),
              !.total_commissions = @ + e.commission,
              !.executions = Append(@, e)]

IncreaseBug(t, e) ==
    [t EXCEPT !.entry = WeightedAvg(@, t.qty, Scale * e.price, e.qty),
              !.open_qty = @ + e.qty,
              !.total_commissions = @ + e.commission,
              !.executions = Append(@, e)]

\* add_execution, same side as `initial`: the trade grows.
Increase(t, e) ==
    [t EXCEPT !.entry = WeightedAvg(@, t.qty, Scale * e.price, e.qty),
              !.qty = @ + e.qty,
              !.open_qty = @ + e.qty,
              !.total_commissions = @ + e.commission,
              !.executions = Append(@, e)]

\* add_execution, opposite side and not `reduce`: the trade keeps the
\* execution in its list but nothing else of it.
Attach(t, e) == [t EXCEPT !.executions = Append(@, e)]

ClosingUndividedBug(t, e) == e

ClosingFeeBug(t, e) == [e EXCEPT !.qty = IF e.qty > t.open_qty THEN t.open_qty ELSE e.qty]

RestBug(t, e) == [e EXCEPT !.reduce = TRUE, !.tagged = TRUE]

\* The two halves of an execution larger than what is open: the first closes
\* the trade, the second (new_exec) starts another one.  The commission is
\* divided in proportion.  new_exec is built without `reduce` and
\* `market_type`; the server defaults of these columns apply once it is saved.
\* Neither has it a realized_pnl: what the exchange reported stays with the first.
Closing(t, e) ==
    IF e.qty > t.open_qty
    THEN [e EXCEPT !.qty = t.open_qty,
                   !.commission = e.commission
                       - (e.commission * (e.qty - t.open_qty)) \div e.qty]
    ELSE e

Rest(t, e) ==
    [e EXCEPT !.qty = e.qty - t.open_qty,
              !.commission = (e.commission * (e.qty - t.open_qty)) \div e.qty,
              !.realized = Unset, !.reduce = TRUE, !.tagged = TRUE]

\* The execution with the profit it is booked with: the exchange's figure, or, if it
\* reports none, what calc_pnl finds.
Valued(t, e) ==
    [e EXCEPT !.realized = IF @ = Unset THEN CalcPnl(t, e.qty, e.price) ELSE @]

\* add_execution, opposite side and `reduce`, with the part that fits.
Reduce(t, e) ==
    [t EXCEPT !.exit = IF @ = NoExit THEN Scale * e.price
                       ELSE WeightedAvg(@, t.qty - t.open_qty,
                                        Scale * e.price, e.qty),
              !.open_qty = @ - e.qty,
              !.realized_pnl = @ + Valued(t, e).realized,
              !.total_commissions = @ + e.commission,
              !.executions = Append(@, Valued(t, e))]

\* Trade.add_execution: the trade after it, and the trade it returns, if any.
Moves(e) == e.type = "trade"
Grows(t, e) == Moves(e) /\ e.side = t.side
Shrinks(t, e) == Moves(e) /\ e.side # t.side /\ e.reduce
Rejects(t, e) == Moves(e) /\ e.side # t.side /\ ~e.reduce

AddExecution(t, e) ==
    IF Grows(t, e) THEN Increase(t, e)
    ELSE IF Shrinks(t, e) THEN Reduce(t, Closing(t, e))
    ELSE IF Rejects(t, e) THEN Attach(t, e)
    ELSE Charge(t, e)

NewTradeBug(t, e) == IF Rejects(t, e) THEN <<FromExecution(e)>> ELSE <<>>

NewTrade(t, e) ==
    IF Shrinks(t, e) /\ e.qty > t.open_qty THEN <<FromExecution(Rest(t, e))>>
    ELSE IF Rejects(t, e) THEN <<FromExecution(e)>>
    ELSE <<>>

-----------------------------------------------------------------------------
MatchingBug(book, e) ==
    {i \in DOMAIN book : e.tagged /\ book[i].symbol = e.symbol}

\* get_trade: the query.  An execution whose market_type is not set compares
\* NULL with the column and matches nothing, liquidations included, though they are
\* not asked to match an open trade.
Matching(book, e) ==
    {i \in DOMAIN book :
        /\ e.tagged
        /\ book[i].symbol = e.symbol
        /\ e.type # "liquidation" => IsOpen(book[i])}

\* get_trade: among several, one the execution reduces, else the first row of
\* a query without ORDER BY, which may be any; of a liquidation, the one opened last.
TradeFor(book, e) ==
    LET all == Matching(book, e)
        reducible == {i \in all : e.reduce /\ e.side # book[i].side}
        chosen == IF Cardinality(all) > 1 /\ reducible # {} THEN reducible ELSE all
    IN  IF e.type = "liquidation" THEN {i \in chosen : \A j \in chosen : j <= i} ELSE chosen

\* Worker._add_executions for one execution: the books it can produce.
AddTo(book, i, e) ==
    [book EXCEPT ![i] = AddExecution(@, e)] \o NewTrade(book[i], e)

\* A trade of what has no quantity and no price is refused by its table.
Refused(book, e) == IsBare(e) /\ Matching(book, e) = {}

\* What was to be committed with what is refused is rolled back.
BooksAfter(book, e) ==
    IF Matching(book, e) # {} THEN {AddTo(book, i, e) : i \in TradeFor(book, e)}
    ELSE IF Refused(book, e) THEN {book}
    ELSE {Append(book, FromExecution(e))}
=============================================================================
