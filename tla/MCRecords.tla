------------------------------ MODULE MCRecords ------------------------------
(***************************************************************************)
(* What the program records, computes and shows: requests to the exchange  *)
(* and the reports that are read from it, the live balance, the intervals, *)
(* overviews and scoreboards, journals and labels, channels, guilds, and   *)
(* the migrations of the database below.  They are components of their own *)
(* that share no state in the models; TLC explores the one that a          *)
(* behaviour begins with.                                                  *)
(***************************************************************************)
EXTENDS ExchangeRequests, Reports, LiveBalance, Intervals, Overview, Scoreboard, Notes,
        Channels, Guilds, Migrations

CONSTANTS u1, k1, t1, p1, s1, o2, g1

VARIABLE part   \* what is explored

moneyVars == <<liveVars, history, ovVars, scoreVars>>
userVars == <<journalVars, labelVars, chanVars, guildVars>>
allVars == <<part, reqVars, reportVars, moneyVars, userVars, migVars>>

-----------------------------------------------------------------------------
(* Values of the constants.                                                *)

MCSettle(t) == "btc"
MCLevels == {-2, 0, 1, 2}
MCGains == {0, -1}
MCMoves == {2, -1}
MCQueries == {[since |-> 0, to |-> 0, currency |-> "usd"],
              [since |-> 1, to |-> 2, currency |-> "usd"]}
MCTableOf == [r \in TableRows |-> CASE r = u1 -> "user" [] r = k1 -> "client"
                                    [] r = t1 -> "trade" [] r = p1 -> "pnldata"]
MCParentRow == [r \in TableRows |-> CASE r = u1 -> NoRow [] r = k1 -> u1
                                      [] r = t1 -> k1 [] r = p1 -> t1]

-----------------------------------------------------------------------------
(* Bounds.                                                                 *)

\* How far requests may overspend; keys are renewed and revoked where every answer takes
\* the default.
RequestsBounded == bucket' >= -4 /\ (exchange # "default" => apiKey' = apiKey /\ good' = good)

\* While a fetch goes on, one record is added; when it is over the next begins.
FetchBounded == /\ reading # NoList => Len(feed') <= Len(atFetch') + 1
                /\ reading = Done => FetchBegins

\* One order of each type; the second, which it meets on the way, is of the market.
StreamBounded == orders'[o2].type \in {"", "MARKET"}

LiveBounded == Cardinality(quotes') <= 2 /\ cash'["usdt"] = 1

JournalsBounded ==
  \A j \in DOMAIN journals' : journals'[j].kind \in (IF j = 1 THEN {"week", "day"} ELSE {"manual"})

\* Executions come to one of the clients.
OverviewBounded == \A a \in Accounts \ {k1} : commits'[a] = 0 /\ handling'[a] = "none"

\* One message is under way at a time.
ChannelsBounded == Cardinality(publishing') <= 1

\* The bot stays in the first guild, and joins and leaves the second.
GuildsBounded == g1 \in joined'

\* One client, with two sessions or two entries; or two clients, for the ranks, of
\* whom the second has one balance, and one session.  The client has three balances,
\* and two where there is more than that and one entry.  Leaderboards of no entries
\* are left out, and balances that are stored when the event is over.
Held(c) == IF records[c] = None THEN 0 ELSE Cardinality(records[c])
ScoreBounded ==
  /\ clock > End => Held(u1)' <= Held(u1) /\ Held(k1)' <= Held(k1)
  /\ Held(u1)' <= (IF entry'[2] = None /\ Held(k1)' = 0 THEN 3 ELSE 2)
  /\ Held(k1)' <= 1 /\ records'[k1] # None
  /\ entry'[2] # None \/ Held(k1)' > 0 =>
       \A s \in Sessions \ {Collector} : session'[s] = Fresh
  /\ Held(k1)' > 0 => \A e \in Entries : entry'[e] # Gone
  /\ \A s \in Sessions : session'[s] # session[s] =>
                           DOMAIN session[s].rows # {} \/ DOMAIN session'[s].rows # {}

-----------------------------------------------------------------------------
\* What has several initial states has one of them while another part is explored.  Names
\* and users of the guilds are alike: the first guild has the first name.
MCInit ==
  /\ part \in {"requests", "bybit", "binance", "stream", "live", "intervals", "overview",
               "scoreboard", "journals", "labels", "channels", "guilds", "migrations"}
  /\ ReqInit /\ BybitInit /\ BinanceInit /\ StreamInit /\ LiveInit /\ IntervalInit /\ OvInit
  /\ ScoreInit /\ JournalInit /\ LabelInit /\ ChanInit /\ GuildInit /\ MigInit
  /\ part = "requests" \/ exchange = "default"
  /\ part = "guilds" \/ title \in [GuildIds -> {"north"}]
  /\ title[g1] = "north" /\ joined = {g1} /\ owner \in [Portfolios -> {"ann"}]
  /\ part = "migrations" \/ origin = "new"

MCNext ==
  /\ \/ /\ part = "requests" /\ ReqNext /\ RequestsBounded
        /\ UNCHANGED <<reportVars, moneyVars, userVars, migVars>>
     \/ /\ \/ part = "bybit" /\ BybitNext /\ FetchBounded /\ UNCHANGED <<binanceVars, streamVars>>
           \/ part = "binance" /\ BinanceNext /\ UNCHANGED <<bybitVars, streamVars>>
           \/ part = "stream" /\ StreamNext /\ StreamBounded /\ UNCHANGED <<bybitVars, binanceVars>>
        /\ UNCHANGED <<reqVars, moneyVars, userVars, migVars>>
     \/ /\ \/ part = "live" /\ LiveNext /\ LiveBounded /\ UNCHANGED <<history, ovVars, scoreVars>>
           \/ part = "intervals" /\ IntervalNext /\ UNCHANGED <<liveVars, ovVars, scoreVars>>
           \/ part = "overview" /\ OvNext /\ OverviewBounded
                                /\ UNCHANGED <<liveVars, history, scoreVars>>
           \/ part = "scoreboard" /\ ScoreNext /\ ScoreBounded
                                  /\ UNCHANGED <<liveVars, history, ovVars>>
        /\ UNCHANGED <<reqVars, reportVars, userVars, migVars>>
     \/ /\ \/ part = "journals" /\ JournalNext /\ JournalsBounded
                                /\ UNCHANGED <<labelVars, chanVars, guildVars>>
           \/ part = "labels" /\ LabelNext /\ UNCHANGED <<journalVars, chanVars, guildVars>>
           \/ part = "channels" /\ ChanNext /\ ChannelsBounded
                                /\ UNCHANGED <<journalVars, labelVars, guildVars>>
           \/ part = "guilds" /\ GuildNext /\ GuildsBounded
                              /\ UNCHANGED <<journalVars, labelVars, chanVars>>
        /\ UNCHANGED <<reqVars, reportVars, moneyVars, migVars>>
     \/ /\ part = "migrations" /\ MigNext
        /\ UNCHANGED <<reqVars, reportVars, moneyVars, userVars>>
  /\ UNCHANGED part

MCSpec == MCInit /\ [][MCNext]_allVars

-----------------------------------------------------------------------------
\* The shape of the state of all parts.
TypeOK ==
  /\ ReqTypeOK /\ BybitTypeOK /\ BinanceTypeOK /\ OvTypeOK /\ ScoreTypeOK
  /\ ChanTypeOK /\ GuildTypeOK /\ MigTypeOK
=============================================================================
