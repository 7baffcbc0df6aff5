------------------------------- MODULE Intervals -------------------------------
(***************************************************************************)
(* The intervals the API and the bot show: of the balances of an account   *)
(* the last one of every date (daily_balance_stmt), over several accounts  *)
(* added up (get_client_overview), are divided into days, weeks and months *)
(* (create_intervals), each with what was transferred in it as its offset  *)
(* (transfer_gen) and its gain without that (Interval.create).             *)
(*                                                                         *)
(* The balances come from the rest of the system: an account earns, money  *)
(* is transferred, and its balance is stored, now and then.  There is one  *)
(* currency.  Time is a number, no two things happen at the same time, and *)
(* a balance or a transfer is named by its time.                           *)
(***************************************************************************)
EXTENDS Summation, Sequences, FiniteSets, FiniteSetsExt

CONSTANTS
    Accts,      \* clients
    Earnings,   \* amounts that are earned at a time
    Moves,      \* amounts that are transferred at a time
    DayLen,     \* times in a day
    WeekDays,   \* days in a week
    MonthDays,  \* days in a month
    MaxMoment   \* bound of the model

ASSUME IntervalAssumption ==
    /\ Earnings \subseteq Int /\ Moves \subseteq Int /\ MaxMoment \in Nat
    /\ {DayLen, WeekDays, MonthDays} \subseteq Nat \ {0}

\* Of every time so far a Balance or a Transfer of an account, what it earned (a
\* history variable), or nothing.
VARIABLE history

\* sum_iter: what the entries of these times add up to.
Total(times) == SumOf([t \in DOMAIN history |-> IF t \in times THEN history[t].amount ELSE 0],
                      Len(history))
Of(a, kind) == {t \in DOMAIN history : history[t].kind = kind /\ history[t].acct = a}
\* What an account has earned and was transferred.
Money(a) == Of(a, "earning") \union Of(a, "transfer")
Between(times, from, to) == {t \in times : from < t /\ t <= to}

IntervalInit == history = <<>>

Happen(entry) == Len(history) < MaxMoment /\ history' = Append(history, entry)

Earn == \E a \in Accts, amount \in Earnings :
            Happen([kind |-> "earning", acct |-> a, amount |-> amount])

Transferred == \E a \in Accts, amount \in Moves :
                   Happen([kind |-> "transfer", acct |-> a, amount |-> amount])

\* A balance is stored, with all that was earned and transferred.
Stored == \E a \in Accts :
              Happen([kind |-> "balance", acct |-> a,
                      amount |-> Total(Money(a))])

Passes == Happen([kind |-> "nothing"])

IntervalNext == Earn \/ Transferred \/ Stored \/ Passes

IntervalSpec == IntervalInit /\ [][IntervalNext]_history

-----------------------------------------------------------------------------
Day(t) == t \div DayLen

\* is_same: a week that two months share is divided.
IsSame(a, b, length) ==
    LET month(t) == Day(t) \div MonthDays
        week(t) == Day(t) \div WeekDays
    IN  /\ month(a) = month(b)
        /\ length \in {"week", "day"} => week(a) = week(b)
        /\ length = "day" => Day(a) = Day(b)

Lengths == {"day", "week", "month"}

\* order_by(time)
InOrder(times) == [k \in 1 .. Cardinality(times) |->
                      CHOOSE t \in times : Cardinality({u \in times : u <= t}) = k]

\* row_number() == 1, partitioned by date: the last of each date.
LastOfDays(times) == {t \in times : \A u \in times : Day(u) = Day(t) => u <= t}

DailyBalance(a) == InOrder(LastOfDays(Of(a, "balance")))

\* Balance.sum: its time is the newest one.
SumIter(balances) == [time |-> Max(balances), amount |-> Total(balances)]

AllDailyBug(daily) ==
    LET ends == InOrder(LastOfDays(daily))
    IN  [k \in DOMAIN ends |-> SumIter({t \in daily : Day(t) = Day(ends[k])})]

\* The loop over by_day: the balances of a day and, of accounts without one, the
\* latest of a day before.
AllDaily(daily) ==
    LET ends == InOrder(LastOfDays(daily))
        upto(d) == {t \in daily : Day(t) <= d}
        latest(d) == {t \in upto(d) :
                         \A u \in upto(d) : history[u].acct = history[t].acct => u <= t}
    IN  [k \in DOMAIN ends |-> SumIter(latest(Day(ends[k])))]

\* The daily balances of all accounts.
Dailies == UNION {LastOfDays(Of(a, "balance")) : a \in Accts}

-----------------------------------------------------------------------------
SendBug(moved, before, time) == Total(Between(moved, -1, time))

\* transfer_gen with reset: what a send of `time` yields after one of `before` is
\* the sum of the transfers since then.
Send(moved, before, time) == Total(Between(moved, before, time))

\* transfer_gen without it: of all so far.
SendAll(moved, time) == Total(Between(moved, -1, time))

\* Interval.create and AmountBase.gain_since.
Create(prev, current, offset) ==
    [start |-> prev, end |-> current, offset |-> offset,
     gain |-> history[current].amount - history[prev].amount - offset]

\* The pairs of create_intervals, for one length: results, recent and offsets
\* after the k-th pair (the first pair only sets recent).
Intervalled(daily, moved, length) ==
    LET after[k \in 0 .. Len(daily) - 1] ==
            IF k = 0 THEN [results |-> <<>>, recent |-> daily[1], offset |-> 0]
            ELSE LET was == after[k - 1]
                     prev == daily[k]
                     current == daily[k + 1]
                     offset == was.offset + Send(moved, IF k = 1 THEN -1 ELSE prev, current)
                 IN  IF k = 1 \/ IsSame(current, prev, length)
                     THEN [was EXCEPT !.offset = offset]
                     ELSE [results |-> Append(was.results, Create(was.recent, prev, offset)),
                           recent |-> prev, offset |-> 0]
    IN  after

CreateIntervals(daily, moved, length) ==
    IF Len(daily) < 2 THEN <<>>
    ELSE LET all == Intervalled(daily, moved, length)[Len(daily) - 1]
         IN  Append(all.results, Create(all.recent, daily[Len(daily)], all.offset))

\* calc_daily, of any length: the transfers between the first and the last.  A single
\* balance has no interval of any length to look up.
CalcIntervals(a, length) ==
    LET daily == DailyBalance(a)
        moved == {t \in Of(a, "transfer") : daily[1] < t /\ t < daily[Len(daily)]}
    IN  IF daily = <<>> THEN <<>>
        ELSE IF Len(daily) = 1 THEN "KeyError" ELSE CreateIntervals(daily, moved, length)

\* get_client_history: the balances after a time; the first is the initial one.  The
\* query names no order: rows are taken to come as they were stored, which is by time
\* as long as no synchronization stores balances of the past.
ClientHistory(a, start) == InOrder(Between(Of(a, "balance"), start, Len(history)))

\* create_history in mode "pnl", without the unrealized: a point per balance.
Graph(a, start) ==
    LET balances == ClientHistory(a, start)
        moved == Between(Of(a, "transfer"), start, Len(history))
    IN  [i \in DOMAIN balances |->
            history[balances[i]].amount - SendAll(moved, balances[i])
               - history[balances[1]].amount]

-----------------------------------------------------------------------------
EarnedIn(a, from, to) == Total(Between(Of(a, "earning"), from, to))

\* The boundaries of create_intervals and the reset of transfer_gen: the
\* intervals of a length follow one another from the first to the last daily
\* balance, every transfer between is the offset of one of them, and so their
\* gains add up to what was earned.
GainsAddUp ==
    \A a \in Accts, length \in Lengths :
        LET daily == DailyBalance(a)
            all == CalcIntervals(a, length)
            last == Len(all)
        IN  Len(daily) > 1 =>
               /\ all[1].start = daily[1] /\ all[last].end = daily[Len(daily)]
               /\ \A i \in 2 .. last : all[i].start = all[i - 1].end
               /\ SumOf([i \in 1 .. last |-> all[i].gain], last)
                     = EarnedIn(a, daily[1], daily[Len(daily)])

\* What the accounts had, each when it last stored a balance by the end of a day.
Had(d) == Total({t \in DOMAIN history : \E a \in Accts : /\ t \in Money(a)
                                                         /\ \E b \in Of(a, "balance") :
                                                               t < b /\ Day(b) <= d})

\* Days on which only some accounts have a balance: the balance of a day is the
\* sum of what each account had stored by its end (get_client_overview).
DailyIsTotal ==
    \A i \in DOMAIN AllDaily(Dailies) :
        AllDaily(Dailies)[i].amount = Had(Day(AllDaily(Dailies)[i].time))

\* The offset that create_history takes from transfer_gen, without reset: from
\* one point of the graph to a later one the account gained what it earned.
GraphIsEarnings ==
    \A a \in Accts : \A start \in 0 .. Len(history) :
        LET balances == ClientHistory(a, start)
        IN  \A i \in 1 .. Len(balances) - 1 :
               Graph(a, start)[i + 1] - Graph(a, start)[i]
                  = EarnedIn(a, balances[i], balances[i + 1])

\* Intervals, days and graph tell of the same earnings.
GainsAreEarnings == GainsAddUp /\ DailyIsTotal /\ GraphIsEarnings
=============================================================================
