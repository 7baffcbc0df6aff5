------------------------------ MODULE BybitHistory ------------------------------
(***************************************************************************)
(* BybitDerivatives.get_executions: what a worker asks Bybit for when it   *)
(* synchronizes.  First the transfers, in three lists read with one        *)
(* `params`, then the filled orders, then the funding of every symbol that *)
(* had an order, all with another `params`.  A list comes in pages, newest *)
(* record first; the parameter "cursor" says where a page begins, and      *)
(* outlives the list it was for.                                           *)
(*                                                                         *)
(* The exchange is external: it creates and fills orders between any two   *)
(* requests, its cursor is the last record of a page (not an offset), and  *)
(* a record is named by its time.  The two categories are read one after   *)
(* the other in the same way; here there is one.                           *)
(***************************************************************************)
EXTENDS Naturals, Sequences, FiniteSets, SequencesExt, FiniteSetsExt

CONSTANTS
    Coins,       \* symbols
    PageSize,    \* records on a page
    MaxRecords   \* bound of the model: records in all

ASSUME BybitAssumption == PageSize \in Nat \ {0} /\ MaxRecords \in Nat

VARIABLES
    feed,    \* external: records by their time (of creation, for an order)
    syncedTo,      \* last_execution_sync; 0 for None: 365 days ago
    reading,    \* the list that is read, or where the fetch is
    cursor,     \* params["cursor"], 0 if params has none
    first,      \* page is True: the next page of the list is its first one
    symbols,    \* symbols whose funding is still to be read
    results,    \* times of the records in the result, as read
    atFetch        \* history variable: the records when the fetch began
fetch == <<syncedTo, reading, cursor, first, symbols, results, atFetch>>
bybitVars == <<feed, fetch>>

Transfers == {"internal", "out", "in"}
Kinds == (Transfers \X {"all"}) \union ({"open", "orders", "funding"} \X Coins)
NoList == <<"idle", "all">>
Done == <<"done", "all">>
OrderEntries == <<"orders", "all">>

BybitInit ==
    /\ feed = <<>>
    /\ syncedTo = 0 /\ reading = NoList /\ cursor = 0 /\ first = TRUE
    /\ symbols = {} /\ results = <<>> /\ atFetch = <<>>

-----------------------------------------------------------------------------
\* External: a transfer, an order, a funding fee, or an open order is filled.
Happens ==
    /\ Len(feed) < MaxRecords
    /\ \E k \in Kinds : feed' = Append(feed, k)
    /\ UNCHANGED fetch

Filled ==
    /\ \E t \in DOMAIN feed :
          /\ feed[t][1] = "open"
          /\ feed' = [feed EXCEPT ![t][1] = "orders"]
    /\ UNCHANGED fetch

-----------------------------------------------------------------------------
\* The records of a list.  startTime filters the transfers; only filled orders
\* are asked for.
Listed(recs, list) ==
    {t \in DOMAIN recs :
        /\ recs[t][1] = list[1]
        /\ list[1] = "funding" => recs[t][2] = list[2]
        /\ list[1] \in Transfers => t >= syncedTo}

\* External: a page, newest record first, of those before the cursor.
PageAt(list, before) ==
    LET rest == {t \in Listed(feed, list) : before = 0 \/ t < before}
    IN  [k \in 1 .. Min({PageSize, Cardinality(rest)}) |->
            CHOOSE t \in rest : Cardinality({u \in rest : u >= t}) = k]

More(list, page) ==
    page # <<>> /\ \E t \in Listed(feed, list) : t < Last(page)

\* The valid argument of _get_paginated_v3: orders by createdTime, funding by
\* execTime.
IsValid(list, t) == list[1] \in {"orders", "funding"} => t > syncedTo

\* The records of a page up to the first that is not valid.
Valid(list, page) ==
    SubSeq(page, 1, Max({n \in 0 .. Len(page) : \A k \in 1 .. n : IsValid(list, page[k])}))

\* _get_internal_transfers_v3: an internal transfer of the account has its
\* amount and its timestamp as strings, which are multiplied by -1 and read as
\* a number: it raises.
Unreadable(list, page) == list[1] = "internal" /\ page # <<>>

\* for symbol in symbols, which share one `params`.
NextSymbol(left) ==
    IF left = {}
    THEN reading' = Done /\ UNCHANGED symbols
    ELSE \E s \in left : reading' = <<"funding", s>> /\ symbols' = left \ {s}

\* symbols: the ones of the orders.
OrderedCoins(times) == {feed[t][2] : t \in {u \in times : feed[u][1] = "orders"}}

\* The list that is read after this one.
NextList ==
    CASE reading = <<"internal", "all">> -> reading' = <<"out", "all">> /\ UNCHANGED symbols
      [] reading = <<"out", "all">> -> reading' = <<"in", "all">> /\ UNCHANGED symbols
      [] reading = <<"in", "all">> -> reading' = OrderEntries /\ UNCHANGED symbols
      [] reading = OrderEntries -> NextSymbol(OrderedCoins(ToSet(results')))
      [] OTHER -> NextSymbol(symbols)

\* `params` is a new one for the orders, and for the funding.
KeptCursor(before) ==
    IF reading \in {<<"in", "all">>, OrderEntries} THEN 0 ELSE before

FetchBegins ==
    /\ reading \in {NoList, Done}
    /\ syncedTo' \in 0 .. Len(feed)
    /\ reading' = <<"internal", "all">>
    /\ cursor' = 0 /\ first' = TRUE /\ symbols' = {} /\ results' = <<>>
    /\ atFetch' = feed
    /\ UNCHANGED feed

GetPageBug ==
    /\ reading \notin {NoList, Done}
    /\ LET page == PageAt(reading, cursor)
           valid == Valid(reading, page)
           on == valid = page /\ More(reading, page)
       IN  /\ ~ Unreadable(reading, page)
           /\ results' = results \o valid
           /\ first' = ~ on
           /\ IF on
              THEN cursor' = Last(page) /\ UNCHANGED <<reading, symbols>>
              ELSE cursor' = KeptCursor(cursor) /\ NextList
    /\ UNCHANGED <<feed, syncedTo, atFetch>>

\* One turn of the loop of _get_paginated_v3.  A cursor that was left in params
\* by the list before is deleted.
GetPage ==
    /\ reading \notin {NoList, Done}
    /\ LET before == IF first THEN 0 ELSE cursor
           page == PageAt(reading, before)
           valid == Valid(reading, page)
           on == valid = page /\ More(reading, page)
       IN  /\ ~ Unreadable(reading, page)
           /\ results' = results \o valid
           /\ first' = ~ on
           /\ IF on
              THEN cursor' = Last(page) /\ UNCHANGED <<reading, symbols>>
              ELSE cursor' = KeptCursor(before) /\ NextList
    /\ UNCHANGED <<feed, syncedTo, atFetch>>

\* A request fails, or a record cannot be read: nothing of the fetch is kept.
Raises ==
    /\ reading \notin {NoList, Done}
    /\ reading' = NoList /\ results' = <<>>
    /\ UNCHANGED <<feed, syncedTo, cursor, first, symbols, atFetch>>

\* What get_executions returns: get_transfers leaves out what is not a transfer
\* of the account, and all is sorted by time.
GetExecutions ==
    [k \in DOMAIN results |-> CHOOSE t \in ToSet(results) :
        /\ Cardinality({i \in DOMAIN results : results[i] < t}) < k
        /\ k <= Cardinality({i \in DOMAIN results : results[i] <= t})]

BybitNext == Happens \/ Filled \/ FetchBegins \/ GetPage \/ Raises

BybitSpec == BybitInit /\ [][BybitNext]_bybitVars

-----------------------------------------------------------------------------
BybitTypeOK ==
    /\ feed \in Seq(Kinds) /\ atFetch \in Seq(Kinds)
    /\ syncedTo \in 0 .. MaxRecords /\ cursor \in 0 .. MaxRecords
    /\ first \in BOOLEAN
    /\ reading \in {NoList, Done, OrderEntries} \union (Transfers \X {"all"})
                       \union ({"funding"} \X Coins)
    /\ symbols \subseteq Coins
    /\ results \in Seq(1 .. MaxRecords)

\* Pages and the cursor left by the list before: when a fetch is over, its
\* result has once, and only once, every transfer, every filled order and every
\* funding fee of a symbol with an order that the exchange had when the fetch
\* began and that is newer than `since`, whatever it did in the meantime
\* (_get_paginated_v3).
FetchIsComplete ==
    reading = Done =>
        LET got == ToSet(GetExecutions)
            traded == OrderedCoins(got)
        IN  /\ \A i \in 2 .. Len(results) : GetExecutions[i - 1] < GetExecutions[i]
            /\ \A t \in got : t >= syncedTo
            /\ \A t \in DOMAIN atFetch : t > syncedTo =>
                  /\ atFetch[t][1] \in {"out", "in", "orders"} => t \in got
                  /\ atFetch[t][1] = "funding" /\ atFetch[t][2] \in traded => t \in got
=============================================================================
