----------------------------- MODULE BinanceHistory -----------------------------
(***************************************************************************)
(* BinanceFutures._get_executions: the income history says which symbols   *)
(* were traded and from which trade on; the trades of each are then asked  *)
(* for.  The initial synchronization leaves out trades at the beginning    *)
(* that close a position, whose opening is too long ago to be listed.      *)
(*                                                                         *)
(* The exchange is external.  A trade is named by its id, which is its     *)
(* time too; it has one income of type COMMISSION and, if it closes, one   *)
(* of type REALIZED_PNL after it, and an auction of the insurance fund     *)
(* (INSURANCE_CLEAR) is an income of no trade.  Trades go on between any   *)
(* two requests.                                                           *)
(***************************************************************************)
EXTENDS Naturals, Sequences, FiniteSets, SequencesExt, FiniteSetsExt

CONSTANTS
    Pairs,        \* symbols
    IncomeLimit,  \* "limit": 1000, of /fapi/v1/income
    TradeLimit,   \* external: the trades one answer of /fapi/v1/userTrades has
    Second,       \* moments of a second
    MaxTrades     \* bound of the model

ASSUME BinanceAssumption ==
    /\ IncomeLimit \in Nat /\ TradeLimit \in Nat \ {0} /\ Second \in Nat \ {0}
    /\ MaxTrades \in Nat

VARIABLES
    happened,    \* external: what happened on the account, oldest first
    since,     \* 0 for None: the initial synchronization
    startTime, \* since_ts
    incomes,   \* the incomes that are still to be looked at
    asking,    \* the fetch is under way
    done,      \* symbols_done
    lastCommission,   \* current_commission, for the symbols it has: a trade or None
    execs,     \* results: trades by id
    atStart       \* history variable: how many trades there were at the beginning
binanceVars ==
    <<happened, since, startTime, incomes, asking, done, lastCommission, execs, atStart>>

NoTrade == 0   \* None
Events == ({"open", "close", "clear"} \X Pairs)

BinanceInit ==
    /\ happened = <<>> /\ since = 0 /\ startTime = 0 /\ incomes = <<>> /\ asking = FALSE
    /\ done = {} /\ lastCommission = <<>> /\ execs = <<>> /\ atStart = 0

Traded ==
    /\ Len(happened) < MaxTrades
    /\ \E e \in Events : happened' = Append(happened, e)
    /\ UNCHANGED <<since, startTime, incomes, asking, done, lastCommission, execs, atStart>>

-----------------------------------------------------------------------------
Income(type, id) == [type |-> type, symbol |-> happened[id][2], id |-> id]

IncomesOf(id) ==
    CASE happened[id][1] = "open" -> <<Income("COMMISSION", id)>>
      [] happened[id][1] = "close" -> <<Income("COMMISSION", id), Income("REALIZED_PNL", id)>>
      [] OTHER -> <<Income("INSURANCE_CLEAR", id)>>

IncomesBetween(time, end) == FlattenSeq([k \in 1 .. end - time |-> IncomesOf(time + k)])

\* _parse_datetime: int(date.timestamp()) * 1000 + 1, the beginning of the second of
\* the date, and a millisecond so as not to have what happened there again.
ParseDatetime(date) == date - (date % Second)

\* External: the first incomes after a time.
IncomesSince(time) ==
    LET all == IncomesBetween(time, Len(happened))
    IN  SubSeq(all, 1, Min({IncomeLimit, Len(all)}))

TradesOf(s) == {id \in DOMAIN happened : happened[id][2] = s /\ happened[id][1] # "clear"}

\* _fetch_execs: the first trades of a symbol from an id on.
FetchExecs(s, from) ==
    LET all == {id \in TradesOf(s) : id >= from}
    IN  [k \in 1 .. Min({TradeLimit, Cardinality(all)}) |->
            CHOOSE id \in all : Cardinality({other \in all : other <= id}) = k]

\* get_safe(symbol, "tradeId")
GetSafe(s) == IF s \in DOMAIN lastCommission THEN lastCommission[s] ELSE NoTrade

SetCurrent(s, id) ==
    lastCommission' = [t \in DOMAIN lastCommission \union {s} |-> IF t = s THEN id ELSE lastCommission[t]]

\* The transfers that get_executions asks for before are none: the type of a row
\* is text, and _get_internal_transfers looks for numbers.
Ask ==
    /\ ~ asking
    /\ since' \in 0 .. Len(happened)
    /\ startTime' = ParseDatetime(since')
    /\ incomes' = IncomesSince(startTime')
    /\ asking' = TRUE /\ done' = {} /\ lastCommission' = <<>> /\ execs' = <<>>
    /\ atStart' = Len(happened)
    /\ UNCHANGED happened

FirstCommissionBug ==
    /\ asking /\ incomes # <<>> /\ Head(incomes).type = "COMMISSION"
    /\ LET s == Head(incomes).symbol
           id == Head(incomes).id
       IN  /\ incomes' = Tail(incomes)
           /\ IF s \notin done /\ (GetSafe(s) # NoTrade \/ since # 0)
              THEN /\ done' = done \union {s}
                   /\ execs' = execs \o FetchExecs(s, id)
              ELSE UNCHANGED <<done, execs>>
           /\ IF s \notin done THEN SetCurrent(s, id) ELSE UNCHANGED lastCommission
    /\ UNCHANGED <<happened, since, startTime, asking, atStart>>

\* An income of type COMMISSION.
FirstCommission ==
    /\ asking /\ incomes # <<>> /\ Head(incomes).type = "COMMISSION"
    /\ LET s == Head(incomes).symbol
           id == Head(incomes).id
       IN  /\ incomes' = Tail(incomes)
           /\ IF s \notin done /\ (GetSafe(s) # NoTrade \/ since # 0)
              THEN /\ done' = done \union {s}
                   /\ execs' = execs \o FetchExecs(s, IF since # 0 THEN id ELSE GetSafe(s))
              ELSE UNCHANGED <<done, execs>>
           /\ IF s \notin done THEN SetCurrent(s, id) ELSE UNCHANGED lastCommission
    /\ UNCHANGED <<happened, since, startTime, asking, atStart>>

RealizedPnlBug ==
    /\ asking /\ incomes # <<>> /\ Head(incomes).type = "REALIZED_PNL"
    /\ incomes' = Tail(incomes)
    /\ UNCHANGED <<happened, since, startTime, asking, done, lastCommission, execs, atStart>>

\* An income of type REALIZED_PNL: the trade of the current commission closed.
RealizedPnl ==
    /\ asking /\ incomes # <<>> /\ Head(incomes).type = "REALIZED_PNL"
    /\ incomes' = Tail(incomes)
    /\ IF /\ Head(incomes).symbol \notin done
          /\ GetSafe(Head(incomes).symbol) = Head(incomes).id
       THEN SetCurrent(Head(incomes).symbol, NoTrade)
       ELSE UNCHANGED lastCommission
    /\ UNCHANGED <<happened, since, startTime, asking, done, execs, atStart>>

\* An income of type INSURANCE_CLEAR is an execution itself.
InsuranceClear ==
    /\ asking /\ incomes # <<>> /\ Head(incomes).type = "INSURANCE_CLEAR"
    /\ incomes' = Tail(incomes)
    /\ execs' = Append(execs, Head(incomes).id)
    /\ UNCHANGED <<happened, since, startTime, asking, done, lastCommission, atStart>>

\* The loop after the incomes: symbols with one opening trade, the last listed.
FetchRest ==
    /\ asking /\ incomes = <<>>
    /\ \E s \in DOMAIN lastCommission \ done :
          /\ lastCommission[s] # NoTrade
          /\ done' = done \union {s}
          /\ execs' = execs \o FetchExecs(s, lastCommission[s])
    /\ UNCHANGED <<happened, since, startTime, incomes, asking, lastCommission, atStart>>

\* A request fails, or income["tradeId"] of None: every listed trade of a symbol
\* closes.  The synchronization fails.
Fails ==
    /\ asking
    /\ asking' = FALSE /\ execs' = <<>>
    /\ UNCHANGED <<happened, since, startTime, incomes, done, lastCommission, atStart>>

Return ==
    /\ asking /\ incomes = <<>> /\ DOMAIN lastCommission \subseteq done
    /\ asking' = FALSE
    /\ UNCHANGED <<happened, since, startTime, incomes, done, lastCommission, execs, atStart>>

BinanceNext ==
    \/ Traded \/ Ask \/ FirstCommission \/ RealizedPnl \/ InsuranceClear
    \/ FetchRest \/ Fails \/ Return

BinanceSpec == BinanceInit /\ [][BinanceNext]_binanceVars

-----------------------------------------------------------------------------
BinanceTypeOK ==
    /\ happened \in Seq(Events)
    /\ since \in 0 .. MaxTrades /\ startTime \in 0 .. since /\ atStart \in 0 .. MaxTrades
    /\ asking \in BOOLEAN /\ done \subseteq Pairs
    /\ DOMAIN lastCommission \subseteq Pairs
    /\ \A s \in DOMAIN lastCommission : lastCommission[s] \in 0 .. MaxTrades
    /\ execs \in Seq(1 .. MaxTrades)

Returned == ~ asking /\ incomes = <<>> /\ execs # <<>>
AllListed == Len(IncomesBetween(startTime, atStart)) <= IncomeLimit
PlacesOf(s) == {i \in DOMAIN execs : execs[i] \in TradesOf(s)}

\* What the initial synchronization may leave out: the trades of a symbol
\* before its first opening one.
Leading(s) ==
    {id \in TradesOf(s) : \A k \in TradesOf(s) : k <= id => happened[k][1] = "close"}

Due(s) ==
    IF since # 0 THEN {id \in TradesOf(s) : id > ParseDatetime(since)}
    ELSE TradesOf(s) \ Leading(s)

Got(s) == {execs[i] : i \in PlacesOf(s)}

\* Of a symbol the result has once, in order and without a gap, the trades that
\* are due, until an answer is full or the later ones came after the beginning.
WholeOf(s) ==
    /\ Got(s) \subseteq Due(s)
    /\ \A i, j \in PlacesOf(s) : i < j => execs[i] < execs[j]
    /\ \A id \in Due(s) \ Got(s) : /\ \A other \in Got(s) : other < id
                                   /\ Cardinality(Got(s)) < TradeLimit => id > atStart

\* Requests while trades go on, and the commission that is remembered: the result
\* is whole of every symbol, or in the initial synchronization from the first
\* opening trade on; provided that the answer with the incomes is not full
\* (_get_executions asks for no second one).  Trades after `since` are all there, and
\* so are once more those of the second of `since` that came before it: the start of
\* the query has no fraction of a second.
NothingLeftOut == Returned /\ AllListed => \A s \in Pairs : WholeOf(s)
=============================================================================
