------------------------------ MODULE TradeBook -----------------------------
(***************************************************************************)
(* The trades of one client, built execution by execution: the handler     *)
(* Worker._on_execution of lib/lib/exchanges/worker.py, which finds the    *)
(* trade an execution belongs to and applies Trade.add_execution or        *)
(* Trade.from_execution.                                                   *)
(*                                                                         *)
(* The exchange is external: it holds one signed position per symbol       *)
(* (a netting account) and delivers executions in order.  What differs     *)
(* between the exchanges is the flags their executions carry:              *)
(*   "mock"    reduce is set, market_type is set (the test exchange);      *)
(*   "binance" so they are in Binance's REST interface, which also reports *)
(*             what each execution realized, and clearances of its         *)
(*             insurance fund, of which nothing is set but that;           *)
(*   "bybit"   reduce is the order's reduceOnly flag, and funding fees are *)
(*             executions too;                                             *)
(*   "stream"  neither reduce nor market_type is set (Binance's websocket  *)
(*             events: both are None until the row is saved), and of a     *)
(*             funding fee nothing but the fee.                            *)
(***************************************************************************)
EXTENDS TradeOps, Summation

CONSTANTS
    Accounts,   \* the exchanges considered, among the four above
    Qtys,       \* quantities of one execution
    MaxQty,     \* the largest of them
    Prices,     \* prices of one execution
    FeeRate,    \* commission of one unit of quantity
    Figures,    \* what Binance may report of an execution that reduces
    MaxFills    \* bound of the model: executions delivered in all

ASSUME TradeBookAssumption ==
    /\ Accounts \subseteq {"mock", "binance", "bybit", "stream"}
    /\ MaxQty \in Nat /\ Qtys \subseteq 1 .. MaxQty
    /\ Prices \subseteq Pos
    /\ FeeRate \in Nat
    /\ Figures \subseteq Int
    /\ MaxFills \in Nat

\* The averages of the model are exact, as the Decimals of the code are: Scale is a
\* multiple of every quantity that a trade can reach.
ASSUME ScaleIsExact == \A n \in 1 .. MaxFills * MaxQty : Scale % n = 0

VARIABLES
    account,    \* the client's exchange; it never changes
    position,   \* external: position[s], the signed quantity held
    book,       \* the client's trades, in the order they were opened
    charged,    \* external: fees the exchange took so far
    gained,     \* external: profits it reported so far
    refused,    \* whether the database has refused one of its executions
    fills       \* number of executions delivered

vars == <<account, position, book, charged, gained, refused, fills>>

Init ==
    /\ account \in Accounts
    /\ position = [s \in Symbols |-> 0]
    /\ book = <<>>
    /\ charged = 0
    /\ gained = 0
    /\ refused = FALSE
    /\ fills = 0

Execution(s, side, type, qty, price, reduce, realized) ==
    [symbol |-> s, side |-> side, type |-> type, qty |-> qty, price |-> price,
     commission |-> FeeRate * qty, realized |-> realized, reduce |-> reduce,
     tagged |-> account # "stream"]

\* What an exchange may set the reduce flag to.  Bybit lets a reduce-only order
\* fill only against a position at least as large.
ReduceFlags(s, side, qty) ==
    IF account \in {"mock", "binance"} THEN {TRUE}
    ELSE IF account = "stream" THEN {FALSE}
    ELSE {FALSE} \cup {b \in {TRUE} : -Sign(side) * position[s] >= qty}

\* What an exchange may report as realized.  That of the stream is in no trade, as no
\* execution of it reduces one.
Realized(s, side) ==
    IF account # "binance" THEN {Unset}
    ELSE IF Sign(side) * position[s] < 0 THEN Figures
    ELSE {0}

\* One execution, committed with the trades it changes (Worker._on_execution).  Once one
\* was refused, the worker adds no other: nobody rolls its session back, and a
\* synchronization fetches and fails at the same one each time.  The model ends there.
Add(e) ==
    /\ fills < MaxFills /\ ~refused
    /\ fills' = fills + 1
    /\ refused' = Refused(book, e)
    /\ book' \in BooksAfter(book, e)

OnExecution(e) ==
    /\ Add(e)
    /\ charged' = charged + e.commission
    /\ gained' = gained + (IF e.realized = Unset THEN 0 ELSE e.realized)

Fill(s, side, qty, price) ==
    /\ \E reduce \in ReduceFlags(s, side, qty), realized \in Realized(s, side) :
          OnExecution(Execution(s, side, "trade", qty, price, reduce, realized))
    /\ position' = [position EXCEPT ![s] = @ + Sign(side) * qty]
    /\ UNCHANGED account

\* A funding fee is charged on the whole position.  The parser of such
\* executions leaves reduce unset.
Funding(s, side, price) ==
    /\ account = "bybit"
    /\ position[s] # 0
    /\ Sign(side) * position[s] > 0
    /\ OnExecution(Execution(s, side, "funding", Sign(side) * position[s],
                             price, FALSE, Unset))
    /\ UNCHANGED <<account, position>>

\* The insurance fund clears what a liquidated position has left; a funding fee in the
\* stream.  Neither is in `charged` or `gained`, as no trade is there to show it.
Clear(s) ==
    /\ \E amount \in Figures :
          \/ account = "binance" /\ Add(Bare(s, "liquidation", 0, amount))
          \/ account = "stream" /\ Add(Bare(s, "funding", amount, Unset))
    /\ UNCHANGED <<account, position, charged, gained>>

Next ==
    \/ \E s \in Symbols, side \in Sides, price \in Prices :
          \/ \E qty \in Qtys : Fill(s, side, qty, price)
          \/ Funding(s, side, price)
    \/ \E s \in Symbols : Clear(s)

Spec == Init /\ [][Next]_vars

-----------------------------------------------------------------------------
OpenTrades(s) == {i \in DOMAIN book : book[i].symbol = s /\ IsOpen(book[i])}

\* The shape of the state.
TypeOK ==
    /\ account \in Accounts
    /\ position \in [Symbols -> Int]
    /\ book \in Seq(Trades)
    /\ charged \in Nat /\ gained \in Int /\ refused \in BOOLEAN
    /\ fills \in 0 .. MaxFills

\* Whatever flags the executions carry, and however they were split over
\* trades, the open trades of a symbol add up to the position held at the
\* exchange, as long as the worker adds what it is given.
NetExposureIsPosition ==
    \A s \in Symbols :
        SumOf([i \in DOMAIN book |-> IF i \in OpenTrades(s) THEN Exposure(book[i]) ELSE 0],
              Len(book)) = position[s]

\* test_pnl_service.py asserts `trade.open_qty == position.qty` of every open
\* trade: a position is one open trade of its side and quantity, no position
\* is none.
TradeShowsPosition ==
    \A s \in Symbols :
        IF position[s] = 0 THEN OpenTrades(s) = {}
        ELSE \E i \in OpenTrades(s) : /\ OpenTrades(s) = {i}
                                      /\ Exposure(book[i]) = position[s]

\* The code keeps that promise when every execution says it reduces.
ReducingAccountShowsPosition ==
    account \in {"mock", "binance"} => TradeShowsPosition

\* No trade ever closes more than it took: an execution that is too large for
\* its trade is divided, and the remainder opens a trade of its own.
NeverOverclosed == \A i \in DOMAIN book : book[i].open_qty <= book[i].qty

\* Dividing an execution loses no fee and charges none twice: the trades'
\* commissions are the fees the exchange took.
FeesConserved ==
    SumOf([i \in DOMAIN book |-> book[i].total_commissions], Len(book)) = charged

\* Nor is a profit lost that Binance has reported, or booked twice: the trades' profits
\* are those figures, however the executions were divided.
ProfitsConserved ==
    account = "binance" =>
        SumOf([i \in DOMAIN book |-> book[i].realized_pnl], Len(book)) = gained

\* The executions that made a trade grow and shrink, and what some of them come to.
Opening(t) == {k \in DOMAIN t.executions : Grows(t, t.executions[k])}
Reducing(t) == {k \in DOMAIN t.executions : Shrinks(t, t.executions[k])}

Quantity(t, ks) ==
    SumOf([k \in DOMAIN t.executions |-> IF k \in ks THEN t.executions[k].qty ELSE 0],
          Len(t.executions))

Worth(t, ks) ==
    SumOf([k \in DOMAIN t.executions |->
             IF k \in ks THEN t.executions[k].price * t.executions[k].qty ELSE 0],
          Len(t.executions))

\* The columns of a trade are determined by its executions: quantities are
\* sums, entry and exit are the average prices of both sides.  (Executions
\* that were only attached count for nothing.)
TradeIsItsExecutions ==
    \A i \in DOMAIN book :
        LET t == book[i] IN
            /\ t.qty = Quantity(t, Opening(t))
            /\ t.open_qty = t.qty - Quantity(t, Reducing(t))
            /\ t.entry * t.qty = Scale * Worth(t, Opening(t))
            /\ t.exit * (t.qty - t.open_qty) = Scale * Worth(t, Reducing(t))

\* A trade that grew again after it was partly closed.  Its entry then
\* averages over quantity that is closed already.
GrewAfterClosing(t) == \E j \in Reducing(t), k \in Opening(t) : j < k

\* Where the code computes it, the realized profit of a closed trade is what its
\* executions paid out, unless the trade grew after it was partly closed.
PnlIsCashFlow ==
    account # "binance" => \A i \in DOMAIN book :
        LET t == book[i] IN
            ~IsOpen(t) /\ ~GrewAfterClosing(t) =>
                t.realized_pnl =
                    Sign(t.side) * Scale * (Worth(t, Reducing(t)) - Worth(t, Opening(t)))

\* What a trade shows is what its executions paid.
MoneyAddsUp ==
    /\ FeesConserved
    /\ ProfitsConserved
    /\ TradeIsItsExecutions
    /\ PnlIsCashFlow

\* Once closed, a trade is history: later executions, funding fees included, go to other
\* trades; and no trade disappears or changes symbol or side.  This is so for the
\* clearances of Binance's insurance fund too, which come after a trade is closed and,
\* says the comment at worker.py:533, "still have to be attributed to" it: they find no
\* trade, and the one that would be made of them is refused (NoneIsRefused).
ClosedTradesAreFinal ==
    [][\A i \in DOMAIN book :
          /\ i \in DOMAIN book'
          /\ book'[i].symbol = book[i].symbol
          /\ book'[i].side = book[i].side
          /\ ~IsOpen(book[i]) => book'[i] = book[i]]_vars

\* That every clearance is attributed to a trade, as the comment wants, is not so.
NoneIsRefused == ~refused
=============================================================================
