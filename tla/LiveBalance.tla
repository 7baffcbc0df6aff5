------------------------------ MODULE LiveBalance ------------------------------
(***************************************************************************)
(* What a worker makes of the tickers of the open trades (Worker.update):  *)
(* the pnl of a trade with its data points, its highest and its lowest,    *)
(* and the balance it publishes and writes to redis.  Executions of the    *)
(* same client come in between, and so does the restart of the collector.  *)
(*                                                                         *)
(* PnlData objects are shared: the highest point of a trade may be the     *)
(* latest one too, and is changed in place.  `points' are a trade's        *)
(* objects, and latest, max and min say which of them they are.            *)
(*                                                                         *)
(* Amounts are small integers and have no time; a move is significant when *)
(* it exceeds a fixed amount, not one in proportion to the trade's size.   *)
(***************************************************************************)
EXTENDS Integers, Sequences, FiniteSetsExt

CONSTANTS
    Trades,        \* possible trades of the client, each of a symbol of its own
    Ccys,          \* the currencies its balance consists of
    UsdLike,       \* those with a rate of 1
    SettleOf(_),   \* the currency a trade is settled in
    Price,          \* the price of the others, once a ticker has come
    Levels,        \* unrealized pnls a ticker may mean
    Gains,         \* realized pnls an execution may have
    Threshold,     \* a significant move
    NoLive,        \* not an integer: no ticker has come
    MaxTicks, MaxExecutions   \* bounds of the model

ASSUME LiveAssumption ==
    /\ UsdLike \subseteq Ccys /\ \A t \in Trades : SettleOf(t) \in Ccys
    /\ Levels \union Gains \subseteq Int /\ Threshold \in Nat /\ NoLive \notin Int

VARIABLES
    trades,      \* client.open_trades: a function on the open ones
    stored,      \* the same, as last committed
    doing,    \* "idle", "added": an execution in memory, or "reading": refresh
    opened,      \* the trade the execution has opened
    cash,        \* client.currently_realized
    priced,       \* currencies the ticker of which has come
    quotes,      \* balances that are computed and not yet written
    shown,       \* the balance in redis
    ticks, executions,
    ticked       \* whether a ticker has come since the last execution
liveVars == <<trades, stored, doing, opened, cash, priced, quotes, shown, ticks,
              executions, ticked>>

NoQuote == [n |-> 0, amounts |-> [c \in Ccys |-> 0], total |-> 0]

\* from_execution.  high and low are history: of all totals there have been.
\* raced tells that a ticker came while refresh was reading.
FromExecution ==
    [open |-> TRUE, realized |-> 0, live |-> NoLive, points |-> <<0, 0>>, max |-> 1, min |-> 2,
     latest |-> 0, high |-> 0, low |-> 0, raced |-> FALSE]

LiveInit ==
    /\ trades = <<>> /\ stored = <<>> /\ doing = "idle" /\ opened = {}
    /\ cash = [c \in Ccys |-> 1] /\ priced = {} /\ quotes = {} /\ shown = NoQuote
    /\ ticks = 0 /\ executions = 0 /\ ticked = FALSE

-----------------------------------------------------------------------------
ReplacePnlBug(tr, live) == [tr.points EXCEPT ![tr.max] = IF live >= @ THEN live ELSE @]

\* _replace_pnl of both: the object itself is overwritten.
ReplacePnl(tr, live) ==
    [i \in DOMAIN tr.points |->
        IF \/ i = tr.max /\ live >= tr.points[i]
           \/ i = tr.min /\ live <= tr.points[i]
        THEN live ELSE tr.points[i]]

Significant(tr, live) ==
    \/ tr.latest = 0
    \/ tr.points[tr.max] = tr.points[tr.min]
    \/ live - tr.points[tr.latest] > Threshold
    \/ tr.points[tr.latest] - live > Threshold

UpdatePnl(tr, upnl, force) ==
    LET live == tr.realized + upnl
        next == Len(tr.points) + 1
        seen == [tr EXCEPT !.live = upnl,
                           !.high = IF live > @ THEN live ELSE @,
                           !.low = IF live < @ THEN live ELSE @,
                           !.raced = @ \/ doing = "reading"]
    IN  IF force \/ Significant(tr, live)
        THEN [seen EXCEPT !.points = Append(@, live), !.latest = next,
                          !.max = IF live # 0 /\ live > tr.points[@] THEN next ELSE @,
                          !.min = IF live # 0 /\ live < tr.points[@] THEN next ELSE @]
        ELSE [seen EXCEPT !.points = ReplacePnl(tr, live)]

\* The realized amounts of the balance, the unrealized ones left out.
Clone == cash

\* The clone, to which the unrealized pnl of the open trades is added.
Amounts(open) ==
    [c \in Ccys |->
        Clone[c] + MapThenSumSet(LAMBDA t : open[t].live,
                      {t \in DOMAIN open : SettleOf(t) = c /\ open[t].live # NoLive})]

\* evaluate, with rate 0 for a currency the ticker of which has not come.
Evaluate(amounts) ==
    MapThenSumSet(LAMBDA c : IF c \in UsdLike THEN amounts[c]
                             ELSE IF c \in priced THEN amounts[c] * Price ELSE 0, Ccys)

UpdateBug(t, upnl) ==
    /\ ticks < MaxTicks /\ ticks' = ticks + 1
    /\ trades' = [trades EXCEPT ![t] = UpdatePnl(@, upnl, FALSE)]
    /\ quotes' = quotes \union {[n |-> ticks + 1, amounts |-> Amounts(trades)]}
    /\ ticked' = TRUE
    /\ UNCHANGED <<stored, doing, opened, cash, priced, shown, executions>>

\* Worker.update until it waits: for the ticker of a currency, or for redis.
Update(t, upnl) ==
    /\ ticks < MaxTicks /\ ticks' = ticks + 1
    /\ trades' = [trades EXCEPT ![t] = UpdatePnl(@, upnl, FALSE)]
    /\ quotes' = quotes \union {[n |-> ticks + 1, amounts |-> Amounts(trades')]}
    /\ ticked' = TRUE
    /\ UNCHANGED <<stored, doing, opened, cash, priced, shown, executions>>

\* The rest of it: updates that overlap are written in any order.
Publish(q) ==
    /\ quotes' = quotes \ {q}
    /\ shown' = [n |-> q.n, amounts |-> q.amounts, total |-> Evaluate(q.amounts)]
    /\ UNCHANGED <<trades, stored, doing, opened, cash, priced, ticks, executions, ticked>>

\* The DataService's update, for the symbol a currency is converted by.
TickerComes(c) ==
    /\ priced' = priced \union {c}
    /\ UNCHANGED <<trades, stored, doing, opened, cash, quotes, shown, ticks, executions,
                   ticked>>

-----------------------------------------------------------------------------
\* A trade that goes on, or one that closes, which is updated with an unrealized
\* pnl of zero.
Executed(tr, gain, closes) ==
    LET traded == [tr EXCEPT !.realized = @ + gain]
    IN  IF closes THEN UpdatePnl([traded EXCEPT !.open = FALSE], 0, TRUE) ELSE traded

\* _add_executions in memory: of a trade not yet there, or of one that is.
AddExecution(t, gain, closes) ==
    /\ doing = "idle" /\ doing' = "added"
    /\ executions < MaxExecutions /\ executions' = executions + 1
    /\ IF t \notin DOMAIN trades
       THEN ~ closes /\ gain = 0 /\ opened' = {t} /\ UNCHANGED trades
       ELSE trades' = [trades EXCEPT ![t] = Executed(@, gain, closes)] /\ opened' = {}
    /\ ticked' = FALSE
    /\ UNCHANGED <<stored, cash, priced, quotes, shown, ticks>>

\* The realized balance is fetched, and everything is committed: refresh has
\* sent its query, for the trades that are open.
CommitExecution(c, amount) ==
    /\ doing = "added" /\ doing' = "reading"
    /\ stored' = [t \in {u \in DOMAIN trades : trades[u].open} \union opened |->
                     IF t \in DOMAIN trades THEN trades[t] ELSE FromExecution]
    /\ cash' = [cash EXCEPT ![c] = amount] /\ opened' = {}
    /\ ticked' = FALSE
    /\ UNCHANGED <<trades, priced, quotes, shown, ticks, executions>>

\* The rows overwrite what a trade has of the loaded columns (populate_existing):
\* which points are its highest and lowest, and the values of those two.  What
\* is no column stays.
Reload(tr, row) ==
    [tr EXCEPT !.max = row.max, !.min = row.min,
               !.points = [@ EXCEPT ![row.max] = row.points[row.max],
                                    ![row.min] = row.points[row.min]]]

Refresh ==
    /\ doing = "reading" /\ doing' = "idle"
    /\ trades' = [t \in DOMAIN stored |->
                     IF t \in DOMAIN trades THEN Reload(trades[t], stored[t]) ELSE stored[t]]
    /\ ticked' = FALSE
    /\ UNCHANGED <<stored, opened, cash, priced, quotes, shown, ticks, executions>>

\* The collector restarts, with what is committed.  pnl_data is never loaded, so
\* that no point is the latest; the balance in redis stays.
Restart ==
    /\ trades' = [t \in DOMAIN stored |->
                     [stored[t] EXCEPT !.live = NoLive, !.latest = 0, !.raced = FALSE,
                         !.high = stored[t].points[stored[t].max],
                         !.low = stored[t].points[stored[t].min],
                         !.points = <<@[stored[t].max], @[stored[t].min]>>,
                         !.max = 1, !.min = 2]]
    /\ stored' = trades'
    /\ doing' = "idle" /\ opened' = {} /\ priced' = {} /\ quotes' = {} /\ ticked' = FALSE
    /\ UNCHANGED <<cash, shown, ticks, executions>>

LiveNext ==
    \/ \E t \in DOMAIN trades, upnl \in Levels : (trades[t].open \/ upnl = 0) /\ Update(t, upnl)
    \/ \E q \in quotes : Publish(q)
    \/ \E c \in Ccys \ (UsdLike \union priced) : TickerComes(c)
    \/ \E t \in Trades, gain \in Gains, closes \in BOOLEAN : AddExecution(t, gain, closes)
    \/ \E c \in Ccys, amount \in {1, 2} : CommitExecution(c, amount)
    \/ Refresh
    \/ Restart

LiveSpec == LiveInit /\ [][LiveNext]_liveVars

-----------------------------------------------------------------------------
\* Objects shared between the latest, the highest and the lowest point, and
\* changed in place: the two extremes of a trade are those of all pnls there
\* were, as long as no ticker came while refresh was reading.
ExtremesHold ==
    \A t \in DOMAIN trades :
        LET tr == trades[t]
        IN  ~ tr.raced => /\ tr.points[tr.max] = tr.high
                          /\ tr.points[tr.min] = tr.low

\* The live balance in redis is that of the newest ticker only when no update
\* overtook another; then it is the balance as it would be computed now, unless
\* an execution has come since: nothing writes it then, and when the last trade
\* has closed nothing will until the client is synchronized again.
LiveIsCurrent ==
    ticked /\ shown.n = ticks => shown.amounts = Amounts(trades)

\* Neither the extremes of a trade nor the balance shown lose what a ticker said,
\* though they share objects and updates overtake each other.
LiveIsRight == ExtremesHold /\ LiveIsCurrent
=============================================================================
