------------------------------- MODULE Resync -------------------------------
(***************************************************************************)
(* Worker.synchronize_positions of lib/lib/exchanges/worker.py: a worker   *)
(* that starts fetches what the exchange executed since the last           *)
(* synchronization, compares it with the executions of the stored trades,  *)
(* reverses the trades the comparison does not confirm, and adds the       *)
(* executions that are missing.  Then the websocket delivers executions,   *)
(* until the connection is lost or the collector stops.                    *)
(*                                                                         *)
(* The exchange is external.  It keeps filling orders while the worker     *)
(* synchronizes, and its executions are as the tests' exchange and         *)
(* Binance's REST interface report them: reducing, and with a market type. *)
(* Its clock and the collector's are one, `now`, and no two executions     *)
(* have the same time.  Prices, fees, balances and transfers play no part. *)
(* Left out are clearances of the insurance fund, at which every           *)
(* synchronization that adds them fails (Refused); and the executions      *)
(* that Binance lists again because it is asked from a whole second on     *)
(* (BinanceHistory): they enter the comparison, and are dropped after it,  *)
(* as valid_until is never earlier than `since`.                           *)
(*                                                                         *)
(* The session of a synchronization is committed by its first and its last *)
(* step only, so what happens to the trades in between is in `work`.       *)
(***************************************************************************)
EXTENDS TradeOps, Summation, SequencesExt

CONSTANTS
    Qtys,       \* quantities of one execution
    MaxFills,   \* bound of the model: executions in all
    MaxStops    \* bound of the model: failures and stops in all

ASSUME ResyncAssumption == Qtys \subseteq Pos /\ MaxFills \in Nat /\ MaxStops \in Nat

VARIABLES
    history,    \* external: executions of the account, oldest first
    now,        \* the time
    book,       \* committed: the client's trades
    since,      \* committed: Client.last_execution_sync
    state,      \* committed: Client.state
    phase,      \* how far the worker is
    fetched,    \* all_executions
    work,       \* the trades in the session of the synchronization
    should,     \* real_positions: the quantities the exchange reported
    quiet,      \* history variable: nothing was filled since the start
    stops

exchange == <<history, now>>
stored == <<book, since, state>>
session == <<fetched, work, should>>
vars == <<exchange, stored, session, phase, quiet, stops>>

Phases == {"down", "begun", "reversed", "positioned", "live"}

\* None, for times: before every execution.
Never == -1

NoPosition == [s \in Symbols |-> 0]

Init ==
    /\ history = <<>>
    /\ now = 0
    /\ book = <<>>
    /\ since = Never
    /\ state = "OK"
    /\ phase = "down"
    /\ fetched = <<>>
    /\ work = <<>>
    /\ should = NoPosition
    /\ quiet = TRUE
    /\ stops = 0

-----------------------------------------------------------------------------
Execution(s, side, qty) ==
    [symbol |-> s, side |-> side, type |-> "trade", qty |-> qty, price |-> 1,
     commission |-> 0, realized |-> Unset, reduce |-> TRUE, tagged |-> TRUE,
     time |-> now + 1]

\* The executions at some of the places of a sequence.  (Written with FlattenSeq,
\* whose definition the proofs can expand, as they cannot that of SelectSeq.)
Chosen(execs, places) ==
    FlattenSeq([k \in DOMAIN execs |-> IF k \in places THEN <<execs[k]>> ELSE <<>>])

After(execs, t) == Chosen(execs, {k \in DOMAIN execs : execs[k].time > t})

At(execs, t) == Chosen(execs, {k \in DOMAIN execs : execs[k].time = t})

OfSymbol(execs, s) == Chosen(execs, {k \in DOMAIN execs : execs[k].symbol = s})

Signed(execs) == SumOf([k \in DOMAIN execs |-> EffectiveQty(execs[k])], Len(execs))

Gross(execs) == SumOf([k \in DOMAIN execs |-> execs[k].qty], Len(execs))

\* The stored executions of one time: more than one if it was divided.
Pieces(trades, t) ==
    FlattenSeq([i \in DOMAIN trades |-> At(trades[i].executions, t)])

\* check_executions: the stored executions in the order of their times.  The
\* query does not say which piece of a divided execution comes first.
CheckExecutions(trades, t, newestFirst) ==
    LET at(k) == Pieces(trades, k)
    IN  After(FlattenSeq([k \in 1 .. now |->
                  IF newestFirst THEN Reverse(at(k)) ELSE at(k)]), t)

Upto(execs, n) == SubSeq(execs, 1, IF n < Len(execs) THEN n ELSE Len(execs))

\* Definitions whose names end in Bug are variants with a plausible mistake,
\* used by no other definition.  Here: zip instead of zip_longest.
ValidUntilBug(execs, checks, t) ==
    LET equal == {n \in DOMAIN execs \cap DOMAIN checks :
                     Gross(Upto(execs, n)) = Gross(Upto(checks, n))}
    IN  IF equal = {} THEN t ELSE execs[Max(equal)].time

\* valid_until: the time of the last execution up to which the two lists have
\* the same sum of absolute quantities.
ValidUntil(execs, checks, t) ==
    LET longest == IF Len(execs) > Len(checks) THEN execs ELSE checks
        equal == {n \in DOMAIN longest : /\ Gross(Upto(execs, n)) = Gross(Upto(checks, n))
                                         /\ Gross(Upto(execs, n)) # 0}
        n == Max(equal)
    IN  IF equal = {} THEN t
        ELSE IF n \in DOMAIN execs THEN execs[n].time ELSE checks[n].time

\* The trade made again of its initial execution and those of the others that
\* happened before `date`.
Rebuilt(t, date) ==
    LET upto[k \in DOMAIN t.executions] ==
            IF k = 1 THEN FromExecution(t.executions[1])
            ELSE IF t.executions[k].time < date
            THEN AddExecution(upto[k - 1], t.executions[k])
            ELSE upto[k - 1]
    IN  upto[Len(t.executions)]

ReverseToKeepsBug(t, date) == <<t>>

ReverseToStrictBug(t, date) ==
    IF Last(t.executions).time < date THEN <<t>>
    ELSE IF date > Head(t.executions).time THEN <<Rebuilt(t, date)>>
    ELSE <<>>

ReverseToInitialBug(t, date) ==
    IF Last(t.executions).time <= date THEN <<t>> ELSE <<Rebuilt(t, date)>>

\* Trade.reverse_to: the trade stays, is rebuilt, or is deleted with its
\* executions.  (A rebuilt trade is added to the session; here it takes the
\* place of the one it replaces.)
ReverseTo(t, date) ==
    IF Last(t.executions).time <= date THEN <<t>>
    ELSE IF date > Head(t.executions).time THEN <<Rebuilt(t, date)>>
    ELSE <<>>

Reversed(trades, date) ==
    FlattenSeq([i \in DOMAIN trades |-> ReverseTo(trades[i], date)])

StartQtysBug(s) == {0}

\* positions.get(symbol, 0): the quantity (not the open quantity, and without
\* sign) of an open trade, as loaded when the synchronization began.
StartQtys(s) ==
    LET all == {i \in DOMAIN book : book[i].symbol = s /\ IsOpen(book[i])}
    IN  IF all = {} THEN {0} ELSE {book[i].qty : i \in all}

AlignBug(execs, start, target) ==
    LET n == Len(execs)
        fits == {k \in 0 .. n : start + Gross(SubSeq(execs, k + 1, n)) = target}
    IN  SubSeq(execs, Min(fits \cup {n}) + 1, n)

\* Executions are dropped from the front until the rest leads from the start
\* quantity to the position reported, or nothing is left.
Align(execs, start, target) ==
    LET n == Len(execs)
        Rest_(k) == SubSeq(execs, k + 1, n)
        fits == {k \in 0 .. n : start + Signed(Rest_(k)) = target}
    IN  Rest_(Min(fits \cup {n}))

\* Worker._add_executions, one execution after the other.
AddAll(trades, execs) ==
    LET books[k \in 0 .. Len(execs)] ==
            IF k = 0 THEN {trades}
            ELSE UNION {BooksAfter(b, execs[k]) : b \in books[k - 1]}
    IN  books[Len(execs)]

-----------------------------------------------------------------------------
\* The exchange fills an order.  The websocket delivers the execution, or the
\* connection was lost and nobody notices.
Fill(s, side, qty) ==
    LET e == Execution(s, side, qty)
    IN  /\ Len(history) < MaxFills
        /\ history' = Append(history, e)
        /\ now' = now + 1
        /\ quiet' = FALSE
        /\ \/ phase = "live" /\ book' \in BooksAfter(book, e)
           \/ book' = book
        /\ UNCHANGED <<since, state, session, phase, stops>>

\* The client is marked before anything is fetched.
Begin ==
    /\ phase = "down"
    /\ phase' = "begun"
    /\ state' = "SYNCHRONIZING"
    /\ quiet' = TRUE
    /\ UNCHANGED <<exchange, book, since, session, stops>>

\* get_executions, the comparison with the stored executions, and reverse_to.
Fetch ==
    /\ phase = "begun"
    /\ phase' = "reversed"
    /\ \E newestFirst \in BOOLEAN :
          LET execs == After(history, since)
              valid == ValidUntil(execs, CheckExecutions(book, since, newestFirst), since)
          IN  /\ fetched' = After(execs, valid)
              /\ work' = Reversed(book, valid)
    /\ UNCHANGED <<exchange, stored, should, quiet, stops>>

\* get_positions
Positions ==
    /\ phase = "reversed"
    /\ phase' = "positioned"
    /\ should' = [s \in Symbols |-> Signed(OfSymbol(history, s))]
    /\ UNCHANGED <<exchange, stored, fetched, work, quiet, stops>>

\* The fetched executions are aligned with the positions, symbol by symbol,
\* and added; the commit; Worker.startup.
Finish ==
    /\ phase = "positioned"
    /\ phase' = "live"
    /\ \E start \in [Symbols -> UNION {StartQtys(s) : s \in Symbols}] :
          /\ \A s \in Symbols : start[s] \in StartQtys(s)
          /\ LET aligned(s) == Align(OfSymbol(fetched, s), start[s], should[s])
                 added == Chosen(fetched, {k \in DOMAIN fetched :
                              Contains(aligned(fetched[k].symbol), fetched[k])})
             IN  book' \in AddAll(work, added)
    /\ since' = now
    /\ state' = "OK"
    /\ fetched' = <<>>
    /\ work' = <<>>
    /\ should' = NoPosition
    /\ UNCHANGED <<exchange, quiet, stops>>

\* A request fails or the collector stops: the session is rolled back.  The
\* worker starts again with the collector.
Stop ==
    /\ phase # "down"
    /\ stops < MaxStops
    /\ stops' = stops + 1
    /\ phase' = "down"
    /\ fetched' = <<>>
    /\ work' = <<>>
    /\ should' = NoPosition
    /\ UNCHANGED <<exchange, stored, quiet>>

Next ==
    \/ \E s \in Symbols, side \in Sides, qty \in Qtys : Fill(s, side, qty)
    \/ Begin
    \/ Fetch
    \/ Positions
    \/ Finish
    \/ Stop

Spec == Init /\ [][Next]_vars

-----------------------------------------------------------------------------
Position(s) == Signed(OfSymbol(history, s))

OpenTrades(s) == {i \in DOMAIN book : book[i].symbol = s /\ IsOpen(book[i])}

TradesShowPosition ==
    \A s \in Symbols :
        IF Position(s) = 0 THEN OpenTrades(s) = {}
        ELSE \E i \in OpenTrades(s) : /\ OpenTrades(s) = {i}
                                      /\ Exposure(book[i]) = Position(s)

\* How much the stored trades hold of an execution of the exchange.
Recorded(h) == Gross(Pieces(book, h.time))

\* The stored trades hold the first n executions of the exchange and no other.
Holds(n) ==
    \A k \in DOMAIN history : Recorded(history[k]) = IF k <= n THEN history[k].qty ELSE 0

\* All that the stored trades miss happened since the last synchronization.
OnlyTailMissed == \E n \in 0 .. Len(history) : since <= n /\ Holds(n)

\* The shape of the state.
TypeOK ==
    /\ now = Len(history)
    /\ \A k \in DOMAIN history : history[k].time = k
    /\ since \in {Never} \cup 0 .. now
    /\ state \in {"OK", "SYNCHRONIZING"}
    /\ phase \in Phases
    /\ \A i \in DOMAIN book :
          /\ book[i].open_qty \in 0 .. book[i].qty
          /\ book[i].symbol \in Symbols /\ book[i].side \in Sides
    /\ should \in [Symbols -> Int]
    /\ quiet \in BOOLEAN
    /\ stops \in 0 .. MaxStops

\* However often the worker starts, fails and starts again, no execution is
\* counted twice: neither one that the websocket delivered and a later
\* synchronization fetches again, nor one that was divided between two trades.
NothingTwice == \A k \in DOMAIN history : Recorded(history[k]) <= history[k].qty

\* Neither lost executions nor reversed trades ever leave two open trades of
\* one symbol, so get_trade never has to choose.
OneOpenTrade == \A s \in Symbols : Cardinality(OpenTrades(s)) <= 1

\* No restart makes the book record anything twice, or trade anything twice.
NothingDoubled == NothingTwice /\ OneOpenTrade

\* The first synchronization of a client, of an account that does not trade
\* meanwhile, leaves exactly the positions held.
FirstSyncIsExact ==
    [][Finish /\ quiet /\ since = Never => TradesShowPosition']_vars

\* A synchronization that finds nothing missing changes no trade.
SyncIsIdempotent ==
    [][Finish /\ quiet /\ Holds(Len(history)) => book' = book]_vars

\* Executions that were missed at the end are caught up with, when every open
\* trade is long and none of it is closed, and no execution since the last
\* synchronization was divided between two trades.
PlainOpen == \A i \in DOMAIN book :
    IsOpen(book[i]) => book[i].side = "BUY" /\ book[i].open_qty = book[i].qty

Undivided == \A i \in DOMAIN book : \A k \in DOMAIN book[i].executions :
    LET e == book[i].executions[k]
    IN  e.time > since => e.qty = history[e.time].qty

SyncCatchesUp ==
    [][/\ Finish /\ quiet
       /\ OnlyTailMissed /\ PlainOpen /\ Undivided
       => TradesShowPosition']_vars

\* worker.py, synchronize_positions: "Responsible for synchronizing the client
\* with the exchange": executions missed at the end are caught up with.
SyncSynchronizes ==
    [][/\ Finish /\ quiet /\ OnlyTailMissed
       => TradesShowPosition']_vars

\* Trades that were closed before the last synchronization stay as they are.
Archive == {book[i] : i \in {j \in DOMAIN book :
              ~IsOpen(book[j]) /\ Last(book[j].executions).time <= since}}

ArchiveIsFinal == [][Archive \subseteq {book'[i] : i \in DOMAIN book'}]_vars
=============================================================================
