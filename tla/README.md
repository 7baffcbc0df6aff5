# Verification of TradeAlpha's backend

TLA+ models of the backend of TradeAlpha, a service that follows the accounts its
users have at crypto exchanges: it records their executions, builds trades out of
them, tracks balances, runs trading competitions ("events") and answers a web
front end and a Discord bot. The program is Python (asyncio, SQLAlchemy, redis,
APScheduler, FastAPI); paths below are relative to `src/`.

The models are checked with TLC on small instances. Most safety properties are also
proved with TLAPS for every value of the constants: those of the trade book, of its
synchronization with the exchange, of the registry of workers, of the event service, of remote calls, actions, tickers and
dialogs, of requests to the exchanges and the stream of orders, of the messenger's
channels, of cached overviews and the live balance, of scoreboards, journals and
labels, and of the registrations of Discord servers.

- [1 Inventory](#1-inventory)
- [2 The modules and the code](#2-the-modules-and-the-code)
- [3 The runs](#3-the-runs)
- [4 Bounds, and why they are enough](#4-bounds-and-why-they-are-enough)
- [5 Fairness](#5-fairness)
- [6 What is proved](#6-what-is-proved)
- [7 Assumptions about the outside](#7-assumptions-about-the-outside)
- [8 Disagreements found](#8-disagreements-found)
- [9 What is not modelled](#9-what-is-not-modelled)
- [10 Plan](#10-plan)

## 1 Inventory

Three processes share one Postgres database and one redis server:

- the **collector** (`projects/collector`) talks to the exchanges and is the only
  writer of executions, trades and balances. `__main__.py` runs its services in one
  event loop, with one redis connection and one APScheduler;
- the **API** (`projects/api`) serves users; it writes clients, events, actions,
  labels, journals and the like;
- the **bot** (`projects/bot`) is a Discord front end that asks the database, and
  is asked by the others through RPC.

They talk through three channels: the database; *messages*, published by the mapper
listeners of `lib/lib/messenger.py` whenever the ORM flushes a change of a watched
table; and *RPC* over redis lists.

### Trade book: `lib/lib/exchanges/worker.py`, `lib/lib/db/models/trade.py`, `execution.py`

| | |
|---|---|
| State | per client, a list of trades: side, quantity, open quantity, entry, exit, realized profit, commissions, and the executions that made them |
| Operations | `Worker._on_execution` receives executions, `get_trade` finds the trade an execution belongs to, `Trade.add_execution` lets it grow, shrink, close, or divides the execution and opens another trade with the rest; `Trade.from_execution` starts one |
| Interacts with | the exchange's websocket (callbacks), the database (one commit per batch), the messenger (trades are published) |
| Hard | which trade an execution belongs to depends on flags that each exchange sets differently; averages and profits are booked piece by piece; an execution may be divided; a long sequence of legal calls must never reach a book that contradicts the position |
| Correct when | the open trades are the position, no fee or quantity is lost or doubled, profits add up to what was paid out, closed trades are history |

### Synchronization: `Worker.synchronize_positions`, `Trade.reverse_to`

| | |
|---|---|
| State | the committed trades, `Client.last_execution_sync` and `Client.state`; in the session, the executions fetched and the trades as changed so far |
| Operations | mark the client; fetch executions since the last synchronization and compare them with the stored ones; reverse the trades the comparison does not confirm; fetch positions; align and add the missing executions; commit; connect the websocket |
| Interacts with | the exchange's REST interface, the trade book, the registry of workers (through the state that it writes) |
| Hard | failure and restart between any two requests; fills while it runs; fills that both the websocket and the request deliver, or neither; comparison by sums |
| Correct when | no execution is recorded twice, missing ones are caught up with, repeating it changes nothing, what is archived stays |

### Registry of workers: `collector/services/balanceservice.py` (`ExtendedBalanceService`)

| | |
|---|---|
| State | `_workers_by_id`; each worker's websocket and progress; the client's row in the database |
| Operations | `init` (subscribe, read the clients, add them one after the other), `_on_client_add`, `_on_client_update`, `_on_client_delete`, `add_client`, `add_client_by_id`, `remove_worker`; in the API `confirm_client`, `update_client`, `delete_client` |
| Interacts with | the API through messages that precede the commit; itself, since it hears what its own workers write |
| Hard | stale messages, a row that is not there yet, awaits between the registration and the end of the initialization, a stop in between, failures that leave a worker registered |
| Correct when | each active client has one worker and no other client has any, archiving is not undone, the service does not keep itself busy |

### Event service: `collector/services/eventservice.py`

| | |
|---|---|
| State | four one-shot jobs and one daily job of the scheduler per event; the service's long-lived session |
| Operations | `init`, `_on_event`, `_on_event_delete`, `_schedule`, `_unregister`, the job `fn`, `_on_balance`, `_on_transfer` |
| Interacts with | the API (creates, changes and deletes events), the scheduler, the bot (which shows the announcements) |
| Hard | the jobs live in memory, the session keeps what it has loaded, messages precede commits, jobs take no lock, `remove_job` raises |
| Correct when | every phase of an event is announced once, at its date; a deleted event is silent |

### Messenger: `lib/lib/messenger.py`

State: redis subscriptions by channel and pattern; the session a row is flushed in. A
flush publishes in a task of its own, before the commit, on a channel made of the ids
of the row's parents as far as the session's (weak) identity map knows them; one task
per message handles it and exceptions are logged. Hard: order of message and commit,
loss without a subscriber, stars in channels. Correct when who asked for a row's
messages, by whichever ids, hears them, and nobody else.

### Market data: `collector/services/dataservice.py`, `lib/lib/exchanges/exchangeticker.py`, `lib/lib/models/observer.py`

State: one ticker per exchange with its connection and its subscriptions, counted by
observers. Hard: a ticker is stored before it is connected, so a second subscriber may
use it too early; subscribing awaits between one symbol and the next; workers
unsubscribe with a key that matches nothing. Correct when who thinks it watches a symbol
observes it, the exchange is asked for a symbol once, and a worker's refresh ends.

### Websocket manager: `lib/lib/models/async_websocket_manager.py`

State: the connection, the requests waiting for an answer by id. Hard: a request that
times out and an answer that comes late; a connection lost while another is opened. Correct
when each answer goes to its request once and a connection that was replaced is not heard.

### Requests to an exchange: `lib/lib/exchanges/exchange.py`

State: token buckets and a cache of responses per exchange class. Hard: weights are
deducted after the answer, by each class in a way of its own; a key is denied after it was replaced. Correct when the
exchange's limits are kept and only clients whose key is denied are marked.

### Histories and streams: `lib/lib/exchanges/bybit`, `lib/lib/exchanges/binance`

State: while a worker fetches, the cursor and the records so far; the parts of orders that
the stream has told. Hard: the account goes on while its history is read in pages; limits
cut it; one dictionary of parameters serves several lists. Correct when nothing is read
twice or left out, and an order told in parts is reported whole.

### Live balance: `Worker.update`, `Trade.update_pnl`

State: of each open trade the latest, highest and lowest pnl, which may be one object; the
balance in redis. Hard: objects changed in place, writes that overtake each other,
executions in between. Correct when extremes are extremes, and the balance is the newest
ticker's.

### RPC: `lib/lib/db/redis/rpc.py`

State: a redis list of requests and one of answers per request, with an expiry. Hard:
the caller's timeout races the answer, the server crashes. Correct when a request is
executed at most once, never after its caller's time, and an answer reaches its own caller.

### Cache of overviews: `api/utils/client.py` (`ClientCache`)

State: redis hashes by client, the set of a user's client ids. Hard: read, compute, and
write in the background, while an execution invalidates. Correct when what is served is
not older than the last invalidation, but for a write that comes late.

### Actions and alerts: `collector/services/actionservice.py`, `alertservice.py`

State: the actions per topic, one callback per channel; alerts per symbol. Hard: two
actions on one channel, actions that run once and are removed after an await, edits
in between. Correct when the service listens to what was asked for, and once to a
one-time action.

### Events and scoreboard: `api/routers/event.py`, `lib/lib/db/models/event.py`, `evententry.py`

State: entries with an initial balance and a liquidation time, scores and ranks. Hard:
check and insert in two steps, several sessions that rate the same event, stale
entries in the service's session. Correct when ranks follow the gains, nobody's first
balance is replaced and who is liquidated stays so.

### Performance calculations: `lib/lib/db/calc.py`, `lib/lib/utils.py`

Balances, one per date, and transfers become intervals with gains. Correct when
they agree with what was earned, at the boundaries of the intervals too.

### Journals, templates, labels: `api/routers`, `lib/lib/db/models/editing`

State: rows that refer to each other. Hard: a request reads and commits in two
steps, what it read may be deleted in between, and the database's cascades reach
further than the session knows. Correct when nothing refers to what is gone, chapters
of a journal do not overlap, and a trade has the labels that were asked for.

### Discord: `bot/utils.py`, `bot/cogs`, `bot/__main__.py`, `api/routers/discord.py`

State: callbacks of buttons and selections by author, the messages that still show
them; the bot's guilds, the accounts linked to users, the client registered per guild.
Hard: an author's dialogs share their callbacks, answers come late or never; an account
is unlinked while a request about it awaits the bot. Correct when nobody answers
another's question, what is deleted was asked for, and an account is shown only its own.

### Migrations: `alembic`, `tools/init_db.py`

State: the schema and its version. Hard: 43 revisions, each written for the schema that the
one before leaves, several of which cannot run (any more). Correct when a failure
changes nothing, downgrades undo upgrades, and the last revision serves today's models.

### The rest

Basic balance polling, alerts, authorization grants, the adapters of the other exchanges,
the API's remaining routers, the coin tracker, the synced service, query helpers and test
utilities. Section 9 says why each is not modelled.

## 2 The modules and the code

| Module | Models | State |
|---|---|---|
| `TradeOps` | `Trade.from_execution`, `add_execution`, `calc_pnl`, `get_trade` as operators on trades, which are records | none |
| `TradeBook` | one client's book under `Worker._on_execution`, for four kinds of exchange account | `book`, `refused`; the exchange's `position`, `charged` fees and `gained` profits |
| `Summation` | sums of the first numbers of a sequence | none |
| `SummationProofs` | lemmas about sums, by descent | |
| `TradeBookProofs` | theorems about `TradeBook` | |
| `Resync` | `Worker.synchronize_positions`, `Trade.reverse_to`, the websocket, failures and restarts | committed `book`, `since`, `state`; session `fetched`, `work`, `should`; the exchange's `history` |
| `ResyncProofs` | theorems about `Resync` | |
| `EventLifecycle` | `EventService`, the part of the API that writes events, the scheduler | `db`, `tx`, `known` and `broken` (session), `jobs`, `daily`, `inbox`, `running` |
| `EventProofs` | theorems about `EventLifecycle` | |
| `ClientService` | `ExtendedBalanceService`, the API's operations on clients, the messages between them, the workers' states | `row`, `pending`, `channel`, `lookups`, `workers`, `registered` |
| `ClientServiceProofs` | theorems about `ClientService` | |
| `Call` | the abstract specification of a remote call | `outcome`, `ran` |
| `Rpc` | `Client.call`, `Server.run` over redis; implements `Call` | `caller`, `mark`, `givesUp`, `queue`, `answer`, `expires`, `server` |
| `ActionBus` | the action service, the API's writes to actions, the bot's call | `row`, `flushed`, `inbox`, `known`, `callback`, `execution` |
| `Websocket` | `WebsocketManager` with the clients of Binance and Bybit | `ws`, `link`, `owner`, `asker`, `fut`, `incoming` |
| `TickerHub` | `DataService`, `ExchangeTicker`, `Worker.refresh`; EXTENDS `Websocket`, which is the ticker's connection | `ticker`, `observers`, `watched`, `refresh` |
| `Dialogs` | the bot's questions: `create_selection`, yes-no buttons, three commands | `command`, `progress`, `picks`, `menus`, `buttons`, `onSelect`, `onButton` |
| `ServicesProofs` | theorems about `Rpc`, `Dialogs`, `ActionBus`, `Websocket`, `TickerHub`, and all of them together | |
| `ExchangeRequests` | `Exchange._request`: limits, cache, denied keys | `exchange`, `bucket`, `cached`, `call`, `apiKey`, `state` |
| `BybitHistory`, `BinanceHistory` | how executions are fetched | cursor or done symbols, `startTime`, results; the exchange's `feed` or `happened` |
| `BinanceStream` | what is made of Binance's user data stream | `stream`, `reported`; the exchange's `orders` |
| `Reports` | the histories and the stream side by side, and what all three keep | |
| `ReportsProofs` | theorems about `ExchangeRequests`, `BybitHistory`, `BinanceHistory`, `BinanceStream` | |
| `LiveBalance` | `Worker.update`, `Trade.update_pnl`, the balance in redis | `trades` with `points`, `stored`, `quotes`, `shown` |
| `Intervals` | `daily_balance_stmt`, `create_intervals`, `transfer_gen`, `Interval.create` as operators, over accounts that earn and transfer | `history`: of every time a balance, a transfer, earnings or nothing |
| `Overview` | `ClientCache`, `get_client_overview`, the set of client ids | `overview`, `reader`, `handling`, `clientIds` |
| `Scoreboard` | joining, `Event.get_leaderboard`, its saving by service and requests | `entry`, `records`, `scored`, `session`, `board` |
| `Journals`, `Labels` | the routers of journals, chapters, templates; of labels, groups and a trade's labels | the tables; the requests between read and commit |
| `Notes` | `Journals` and `Labels` side by side, and what both keep | |
| `Channels` | `NameSpace`, `Messenger.sub_channel`, `listen_class` | `identity`, `linked`, `subscribed`, `publishing` |
| `Guilds` | the bot's guild handlers, `update_guild`, linking of accounts, the commands that show a client | `rowName`, `linkedTo`, `registered`, `command` |
| `UsersProofs` | theorems about `Guilds`, `Scoreboard`, `Labels`, `Journals`, `Overview`, `Channels`, `LiveBalance`, `Intervals` | |
| `Migrations` | each file under `alembic/versions` as a pair of lists of operations; alembic; `init_db` | `version`, `schema`, `stocked`, `txn` |

`MC...` modules give TLC its instances. Operators whose names end in `Bug` are
variants with a plausible mistake; no other definition uses them. Each property is
known to fail when the definition it watches is replaced by one of them.

**TradeOps and TradeBook.** A `Fill` or a `Funding` is a call of `_on_execution` with
one execution: the guard and the flags of the execution are the exchange's,
`BooksAfter` is the handler (`get_trade`, then `from_execution` or
`add_execution`), and everything is committed at the end of the handler, so one
action is one transaction. The branches of `add_execution` are `Increase` (same
side), `Reduce` (opposite side and `reduce`), `Attach` (opposite side, not
`reduce`: the execution is appended to the trade and a new trade is returned) and
`Charge` (funding). `Closing` and `Rest` are the two halves of an execution that is
too large. What a reducing execution is booked with is `Valued`: the `realized_pnl` its
exchange has reported, or `calc_pnl`'s. `get_trade` without an order is a
nondeterministic choice. An execution whose `market_type` is not set (`tagged` is false)
compares `NULL` and matches no trade. The exchanges differ in these flags and figures
only, which is what `account` says. `Clear` is what Binance makes of an insurance
clearance (REST) and of a funding fee (websocket): an execution that is `Bare`, without
side, quantity, price and market type. It matches no trade, the trade made of it is
refused by the table, and then the account's executions are added no more (`Add`).

**Resync.** The phases are the awaits of `synchronize_positions` at which something
else can happen: `Begin` (the state is committed), `Fetch`
(`get_executions`, the comparison and `reverse_to`, all in the session),
`Positions`, `Finish` (alignment, `_add_executions`, the commit of trades, state and
`last_execution_sync`, then `startup`). Between them the exchange may `Fill`; `Stop`
is a failed request or a stop of the collector, at any phase, and drops the
session. In `"live"`, a fill is delivered or, when the connection is gone, missed.
`ValidUntil`, `ReverseTo` and `Align` are the code's three computations, on
sequences.

**EventLifecycle.** The API's `Flush` publishes, its `Commit` follows. `Handle` takes
a message: the service reads the event (a coroutine, which may be disturbed by
another one in the same session), or uses what the session knows. `Schedule` and
`Unregister` are `_schedule` and `_unregister`; `Fire`, `Read` and `Announce` are
the job `fn` split at its awaits. For a start or an end the event is rated before it is
announced: `Raise` is a rating that raises, `Break` a flush that fails, after which the
session refuses everything until the next start (`broken`). `Start` and `Subscribe` are `init`. `OnBalance`
stands for the handlers of balances and transfers, of which only the use of
the session matters here.

**ClientService.** `Create`, `Edit` and `Delete` are the API's handlers up to the
flush, `Commit` their commit. `Handle` is `_on_client_add` and `_on_client_update` up
to the read of the row, `Lookup` is `add_client_by_id`. `Load`, `Mark`, `Finish`,
`Startup` are the steps of a worker's initialization that touch the client's row;
`OnExecution` is what a live worker publishes of the client as its session knows it;
`Fail` and `Refuse` are exceptions and a key the exchange refuses. `Subscribe`, `List` and
`AddNext` are `init`. A message carries the state and type it was flushed with,
which is what the handler judges it by. `disturbed` and `misled` are history: an
operation fell into work of the collector; a worker was removed by a message that no
longer said what the row was or was about to be.

**Rpc, ActionBus.** `Mark`, `Push`, `Take`, `GiveUp` are `Client.call` (the key with
the expiry, the request, the answer, the end of `blpop`); `Pop`, `Check`, `Start`,
`Return`, `Respond` are one round of `Server.run`, and `Crash` may come between any
two. `outcome` is what a caller can tell, through which `Rpc` implements `Call`.
`ActionBus` takes a call for what `Call` promises: `Called` ends with an answer or a
failure, and after a failure the bot may have sent its message or not.

**Websocket, TickerHub.** `Connect`, `Opened`, `ReadData`, `ReadAnswer`, `Drop` and
`Reconnect` are the task that opens and reads a connection, `Polled` and
`PollTimeout` those who wait for it, `Send`, `Answers`, `RequestTimesOut` the
requests. `TickerHub` uses these as the ticker's connection, with `StartRefresh`,
`SubscribeNext`, `SubscribeConnected`, `SubscribeEnds` and `EndRefresh` for a worker
that subscribes symbol by symbol.

**Dialogs.** `Clear`, `CheckEntry`, `OfferEntry`, `DeleteAll` send a question;
`Choose` and `Click` run whatever callback the registry has under the author's name,
`Expire` is the timeout of the wait.

**ExchangeRequests, BybitHistory, BinanceHistory, BinanceStream.** A request is
split at its awaits (`Request`, `WakeUp` after a pause, then `Succeed`, `Deny`, `Refuse` or
`LoseAnswer`). `SetWeights` is the method of the class that `exchange` names: the default
takes the weight, Binance's believes the header of the answer, Bybit's takes nothing. A history is one action per page or per record the code looks at, so
that the exchange may act between any two. Binance is asked from `startTime` on, the
second of `since` (`ParseDatetime`).

**LiveBalance.** `Update` is one ticker for one trade with `_replace_pnl` on the shared
points; it computes a quote, which `Publish` writes later. `AddExecution`,
`CommitExecution`, `Refresh` are `_on_execution` at its awaits.

**Intervals.** The only actions are the world's (`Earn`, `Transferred`, `Stored`,
`Passes`); the code is in the operators, and `GainsAreEarnings` compares what they
return with what was earned between the balances.

**Overview, Scoreboard, Journals, Labels.** Each request has a session that reads in
one action and writes in a later one (`LookUp`, `ReadOne`, `Answer`, `WriteOverview`;
`Load`, `Rate`, `Save`; `BeginChapter`, `BeginUpdate`, `CommitRequest`;
`ReadTrade`, `Execute`, `CommitTrade`). `StoreBalance` is a worker's balance of now,
`StorePast` those that a synchronization adds of the times of its executions. Cascades of foreign keys are part of the
action that deletes.

**Channels.** `LoadRow`, `LinkRow`, `ForgetRow` are what the session holds;
`FlushRow` makes the channel, `PublishRow` is the task that sends.

**Guilds.** `AskGuild` (the call of the bot), `CheckPortfolio`, `Upsert` are
`update_guild` at its awaits; `Balance`, `Gain`, `Daily` find what `Show` sends.

**Migrations.** A revision is a record of what `upgrade` and `downgrade` do, in order,
to a set of schema objects; `Revise` runs one, `Commit` and `Fail` end the
transaction all of a command's revisions share.

Variables marked *history variable* or *external* in the modules are not the
collector's: `charged`, `gained`, `history`, `position` are the exchange's; `quiet`, `reliable`,
`failed`, `disturbed`, `announced` and the `epoch` of announcements record what a property
needs to talk about the past.

## 3 The runs

| Run | Question | Answer |
|---|---|---|
| `trade_book` | does the book, built execution by execution, stay in agreement with the account? | Yes: the open trades add up to the position for every kind of account (`NetExposureIsPosition`), show it as one trade where all executions reduce (the tests' exchange and Binance's REST interface, `ReducingAccountShowsPosition`); no overclosing; fees and the profits that Binance reports are conserved, columns are determined by executions and profits that the code computes are the cash flow (`MoneyAddsUp`); closed trades are final, for clearances too, though a comment wants those attributed (see 8). All this until an execution is refused |
| `trade_book_stream` | does that hold of Binance's websocket too? | No, see 8 |
| `resync` | is a synchronization safe wherever it is interrupted, and exact when it is not? | Nothing is recorded twice and a symbol has one open trade (`NothingDoubled`), `ArchiveIsFinal` always; the first one is exact (`FirstSyncIsExact`), one that has nothing to do does nothing (`SyncIsIdempotent`), and missing executions are caught up with when the open trades are long and whole and nothing recent was divided (`SyncCatchesUp`) |
| `resync_missed` | without those conditions? | No, see 8 |
| `event` | is each phase announced on time and once, by a service that restarts, shares one session among coroutines, and is told about uncommitted changes? | Of events that it read after their commit, or found active at its start, and that nothing disturbed since: yes (`Punctual`), and they come to their end (`ComesToAnEnd`); a phase whose own rating raises is not announced (see 8), and takes no other with it. A deleted event is silent (`DeletedStaysSilent`) |
| `event_restart`, `event_update` | and of all events? | No, see 8 |
| `event_join` | is a second entry with the same client refused? | No, see 8 |
| `client` | does the registry agree with the clients? | At rest, for a client that the API and the collector were not busy with at the same time: yes, with one worker at most, unless a live worker had itself removed (`misled`, see 8) (`WorkersAgree`), and synchronizations leave the archive alone (`ArchiveHolds`). It always comes to rest (`Settles`), whatever overlaps |
| `client_delete` | does a deletion reach it? | No, see 8 |
| `services` | do those who wait for somebody get what they wait for, once? | Yes, see the next table |
| `records` | is what is recorded, computed and shown whole, and in agreement with what it is made from? | Yes, see the next table |

| Property | Of | Says |
|---|---|---|
| `ActionsAsAsked` | `ActionBus` | an action that has its channel for itself, and whose messages did not race their commits, is called by its channel exactly while it exists; a one-time action is not started after one of its executions has come to its end. Messages that come during the call of the bot do run it twice (see 8) |
| `ImplementsCall` | `Rpc` | the refinement of `Call`: run at most once, answered only after a run |
| `TimesAreKept` | `Rpc` | a request given up before the server took it is dropped; a caller with a timeout is not left waiting |
| `SubscribedOnce` | `TickerHub` | what a worker takes for subscribed it observes, and the exchange is asked once per symbol |
| `RefreshEnds` | `TickerHub` | a worker's refresh ends, whatever the connection does |
| `AbandonedIsSilent` | `Websocket` | nothing of a connection is handled after something of its successor |
| `DialogsApart` | `Dialogs` | answers stay with their author, a question takes one, only histories that were chosen and confirmed are cleared |
| `CommandsEnd` | `Dialogs` | no command waits for ever, though its buttons may have become unreachable |
| `RequestsAreKept` | `ExchangeRequests` | limits hold while requests keep apart, of the classes that count, and Binance's while the exchange itself tells of no more than the limit (Bybit's class counts nothing and is not limited); only a client whose present key was denied, or whose replaced one was denied late, is marked |
| `ReportsAreWhole` | `BybitHistory`, `BinanceHistory`, `BinanceStream` | a fetched history has everything there was when it began and nothing twice, unless the answer with the incomes is full; on Binance since the beginning of a second; an order told in parts is reported once and whole, or not at all, as when its last part is free of commission |
| `LiveIsRight` | `LiveBalance` | extremes are those of all pnls there were, though objects are shared; the balance shown is the newest ticker's when that was not overtaken |
| `GainsAreEarnings` | `Intervals` | gains of intervals are what was earned in them |
| `OverviewsAreTrue` | `Overview` | a cached overview is stale only if a write came late; a client counts twice only if no ids were named; no client is missing from the ids |
| `ScoresAreFair` | `Scoreboard` | an entry whose client is deleted keeps no score, ranks follow gains, liquidations stay, and what an entry is measured from is set by a look at its client's balances alone and not lost, whatever the sessions had loaded and whichever past balances a synchronization adds |
| `NotesAreKept` | `Journals`, `Labels` | nothing stored refers to what is gone, a chapter is lost only with what it belongs to, periods of a journal's chapters are apart; a request that succeeds leaves a trade with the labels it was asked for |
| `HeardAsAsked` | `Channels` | listeners hear what they asked for if the session held the parents, and nothing else |
| `GuildsAreRight` | `Guilds` | accounts are shown their own client; names of guilds are right when the bot is ready |
| `MigrationsHold` | `Migrations` | schema and stamp agree after any commands and failures; the last revision has what the models need; from the last broken revision on, upgrades go through |

Some conditions deserve a word, since they limit what is claimed. `reliable` and
`disturbed` are lost as soon as a change overlaps with work of the collector on the same
object. Without them the properties are false: e.g. archiving a client while
it synchronizes is overwritten by the synchronization's last write
(`worker.py:449`), and an event's `NEW` message handled before the commit leaves the
event without jobs (`eventservice.py:71`). The models contain these behaviours, and
the safety of everything around them is checked in their presence. Restarts
clear `disturbed`: a started collector has to agree again whatever happened before.

The same holds of the history variables of the other modules (`misled`, `spoilt`,
`overlap`, `usedUp`, `replaced`, `late`, `raced`, `plain`, `touched`): each marks one race that the code is
open to, by the action in which it happens, and the property says that no other
way leads to the bad state.

The part of `MoneyAddsUp` about cash flow (`PnlIsCashFlow`) is only stated of trades that did not grow after they were
partly closed. Otherwise the later, larger entry also averages over quantity that
is already closed, and the sum of the profits differs from what was paid; the
source states nothing else, so this is a documented limit, not a finding. Nor is it stated
of Binance's executions, which are booked with the exchange's figure (`trade.py:523`): of
those `ProfitsConserved` says that the figures are neither lost nor doubled.

`ScoresAreFair` does not say that the first balance of an entry is set once. Two sessions
that both found none look for it, and a synchronization may add an earlier balance between
them, so that the second one replaces it by that (`MeasuredFromStart`).

## 4 Bounds, and why they are enough

| Run | Bounds |
|---|---|
| `trade_book` | 2 symbols (symmetric), 5 executions, quantities 1 and 2, prices 1 and 3, all four accounts, figures 0 and 2 reported by Binance |
| `resync` | 2 symbols (symmetric), 4 executions, quantities 1 and 2, 2 stops |
| `event` | 1 event, 2 schedules (all phases apart; two at one time), 4 points in time, ratings that raise, 1 stop, 1 update or balance message |
| `client` | 1 client, 3 operations of which 1 may overlap, 1 stop, 1 failure, 2 executions or overlaps together, 7 workers at a time |
| `services` | actions: 2 on 2 topics, 2 executions at once, 2 writes, 1 restart; calls: 3 with timeouts 0, 1 and 2, one of an unknown method, 3 ticks, 1 crash; hub: 2 workers, of 2 symbols and of 1, 2 connections, 1 message on the way; dialogs: 3 commands of 2 authors, 1 account each |
| `records` | see below; each part has 2 of what may be confused (clients, symbols, keys, guilds, journals, labels, sessions, orders), and 2 to 5 steps of time |
| `event_join` | 2 clients, 2 entries, 2 sessions |

*Parts.* `MCServices` and `MCRecords` hold several components that share no state
in the models. Their product would be out of reach and show nothing, so that the variable
`part` says which one a behaviour explores; the others rest in their initial
state. Every fairness condition of `MCServices` is that of its component conjoined with
`part = ...`, since a resting component whose steps had to be taken would rule the
behaviour out and make every liveness property true. The components meet in two
places: `TickerHub` contains `Websocket`, and `ActionBus` relies on `Call`, which `Rpc`
implements.

*Parts of `records`.* Requests: 2 at once, 2 keys, an interval of 1 and 3 units of time, the
three ways to take a weight, 1 or 3 told as used of a limit of 2; how far the limit is overspent
is cut, and keys are replaced and revoked with the default way only, as what a denial does is the
same with each (`RequestsBounded`). Histories: pages of 1, 3 records, 1 added while a fetch goes on; up to
4 trades of 2 symbols, two to a second, with 5 incomes and 2 trades to an answer. Stream: 2 orders filled in
2 parts, the second of the market (`StreamBounded`). Live balance:
1 trade, 3 tickers, 2 executions, 2 quotes under way. Intervals: 2 accounts, days of 2
units, weeks of 3 and months of 2 days. Overview: 2 clients, one of which
has executions (`OverviewBounded`), 1 reader, 2 queries.
Scoreboard: 2 clients, 2 sessions; one client with 3 balances, of now or of the past, or two
with fewer, stored before the event is over (`ScoreBounded`). Journals: 2, with 2 chapters and a template. Labels: 2 in 2 groups, 1
trade, 2 requests. Channels: a lineage of 4 tables, 2 flushes, one
message under way (`ChannelsBounded`). Guilds: 2, with 2
users, 1 account, 1 client; names and users are alike, so that the first guild and the client
begin with the first of them, and the bot stays in the first (`GuildsBounded`). Migrations: all revisions, rows in 3 tables.

*Executions.* A trade can open, grow, shrink, be turned over by an execution that is
too large, and be closed within four executions; the fifth falls upon what is left,
including closed trades; what is refused is the last. Two quantities make an execution smaller than, as
large as and larger than what is open. Two symbols are enough for one to disturb
another. The proofs remove these bounds for the invariants they cover.
`Scale = 2520`, the least common multiple of 1 to 10, makes each weighted average
exact, as five executions of at most two units make a trade of at most ten;
`Decimal` division with 28 digits is taken to be exact.

*Synchronizations.* Two stops give three synchronizations: a first one that fails
half way, one that repeats it, one that finds missed or delivered fills. Prices and fees
are left out of `Resync`, where `TradeBook` covers them. `ResyncMissed` has one symbol
and three stops.

*Events.* Events share the session only through the coroutines that run in it, and
`OnBalance` makes one event's coroutines meet. Two schedules are what an update
needs. `MaxTime` lets the last phase pass. A rating may raise at each start and end. `EventRestart` and `EventUpdate` set bounds to zero
where the counterexample does not need them.

*Clients.* Clients share `_db_lock` and the channel's order and nothing else, so
one client meets all interleavings of its own. Three operations let it be created,
archived and activated again, or created, edited and deleted, each of them before,
during or after a restart; one of them may fall into any step of the collector's.
Two executions are what a refusal needs to show: the first makes the worker read it, the
second publishes it. `MaxExecutions` counts the overlap too, as both together exceed
what is checked in five minutes. The proof removes all of these bounds for
`WorkersAgree`.
`MaxWorkers` is never reached: `Settles` would fail if it were in the way.

No deadlock check: every instance stops when its bounds are used up, and the system
itself may be idle for ever (`CHECK_DEADLOCK FALSE` in each configuration).

## 5 Fairness

`event`, `client` and `services` check liveness.

`EventLifecycle!Fairness`: time passes (`Tick`); APScheduler starts a job that is due
(`Fire`); a job that was started reads, and announces or raises (`Read`, `Announce`, `Raise`,
per event and phase), since a coroutine of the event loop is resumed when the database answers.
The conditions are weak fairness: once due, a job stays due until it runs. Nothing is
assumed of users, of messages, or that a stopped collector is started again, which
is why `ComesToAnEnd` allows the service to become unreliable, and the rating of the end to
raise.

`ClientService!FairSpec`: weak fairness of the disjunction of all the collector's
steps and the API's commits: some task that can run does run, requests return and
flushed transactions commit. It is the weakest condition under which anything at
all happens; `Settles` needs no fairness among tasks, because work is only created
by work. Stops, failures and API operations are not fair.

`services`: redis keeps time and wakes a caller at its timeout (`Tick`, `GiveUp`), a
caller whose key is set pushes its request, and one whose answer is there takes it;
nothing is assumed of the server. A worker's refresh goes on when it can
(`WorkerStep`), and a wait ends by its timeout (`Wakes`); nothing is assumed of the
exchange or the connection. A question expires (`Expire`), and no user has to answer.

## 6 What is proved

Each module of proofs is about one component, or some that belong together, and every
theorem is for every value of the constants that the assumptions named with it allow.
A component's theorems rest on an invariant of its own, for which there is one lemma
per action; what it says beyond the property is below.

### Sums

The provers at hand cannot do induction over an operator. `SummationProofs` does
without: the order of the numbers is well founded (`NatLessThanWellFounded`), so a set of
numbers that has with each its predecessor is empty (`Descent`). The set of the numbers
for which a statement fails is such a set. In this way sums exist (`SumsExist`), are whole
numbers, and change as their numbers do (`SumsAgree`, `SumsDiffer`). The ranks of a
leaderboard, defined by recursion too, are reasoned about in the same way, and so are
sequences that are joined (`FlattenIs`, `FlattenFirst`) and the k-th of a set in its order
(`KthOldest`).

### The trade book

`TradeBookProofs` proves, from `ScaleAssumption` (`Scale` is a positive whole number, and
`Unset`, what stands for no figure, is none) and `TradeBookAssumption` (quantities and prices
are positive, fee rate and bound are numbers, figures are whole numbers, accounts are among
the four), for every set of symbols, quantities and
prices, and every number of executions:

| Theorem | States |
|---|---|
| `TypeCorrect` | `Spec => []TypeOK` |
| `NoOverclosing` | `Spec => []NeverOverclosed` |
| `ReducingAccount` | `Spec => []ReducingAccountShowsPosition` |
| `ClosedFinal` | `Spec => ClosedTradesAreFinal` |
| `NetExposure` | `Spec => []NetExposureIsPosition` |
| `MoneyConserved` | `Spec => []MoneyAddsUp` |

The first four follow from `Invariance`: `Spec => []Inv` with
`Inv == TypeOK /\ NeverOverclosed /\ ReducingAccountShowsPosition`. None of the three
is inductive alone:

- `TypeOK` needs `NeverOverclosed`, because the exit of a reduced trade is a
  weighted average that divides by `(qty - open_qty) + closed`, which is positive
  only if no more is open than was taken;
- `ReducingAccountShowsPosition` needs both: an execution that meets the one open
  trade of its symbol makes it grow, shrink, close, or be replaced by the rest, and
  in each case the exposure moves by the execution's signed quantity, the amount by
  which the position moves (`ExposureAfter`, `ShowsStep`);
- `ClosedTradesAreFinal` is a step property: what has a market type is a trade or a fee,
  for which `get_trade` matches open trades only (`MatchingOpen`, `TradeForMatches`);
  clearances have none, match nothing and start nothing (`BareChangesNothing`); and everything
  else of the book is kept (`BookStep`).

The lemmas go from operators (`WeightedAvgInt`, `FromExecutionSound`, `ClosingType`,
`RestType`, `AddExecutionSound`, `NewTradeSound`) over books (`BookStep`, `AppendShows`,
`ReplaceShows`) to actions (`FillStep`, `FundingStep`, `ClearStep`), one per action of `Next`.

The last two follow from `MoneyInv`: what an execution adds to the exposures and fees of
the trades is what it adds to the position and to what was charged, be it divided or not
(`ExposureMoves`, `FeesMove`). The same holds of the profits that Binance reports
(`ProfitsMove`): a figure other than 0 comes with an execution against the position, so that
the one open trade that shows it is reduced (`ReportedReduces`) and the figure goes into that
trade, the rest that may be divided from the execution having none. And every trade is `Accounted`: its columns are what its
executions come to. The averages of the code are Decimals. In the model they are whole
numbers, exact because `Scale` is a multiple of every quantity a trade can reach
(`ScaleIsExact`, with `MaxQty` the largest quantity of an execution); the proof needs the
bound `Bound(fills)` on what a trade took to use it. Profit needs the sums of both sides
before each execution (`PnlIsCashFlow` follows from entry and exit, where `calc_pnl` is used).

### Synchronizations

`ResyncProofs` proves, from `ResyncAssumption` (quantities are positive, bounds are
numbers), for any symbols, quantities and fills, any number of failures and
restarts, and every choice of a query without an order:

| Theorem | States |
|---|---|
| `TypeCorrect` | `Spec => []TypeOK` |
| `RestartsDoubleNothing` | `Spec => []NothingDoubled` |
| `ArchiveIsKept` | `Spec => ArchiveIsFinal` |
| `FirstSyncExact` | `Spec => FirstSyncIsExact` |
| `CatchesUp` | `Spec => SyncCatchesUp` |
| `SyncRepeats` | `Spec => SyncIsIdempotent` |

`NothingDoubled` is not inductive: that a synchronization stores nothing twice depends on
what it fetched, which may overlap with what is stored and was stored in pieces. `Inv`
adds three things.

- Of each symbol, the stored trades follow each other (`BookOk`): all but the last are
  closed, and no execution of an earlier one is later than the first of a later one. Only
  so does reversing to a date leave one open trade of a symbol at most. Each trade is
  `TradeOk`: its executions are in the order of their times, and its open quantity is
  what they come to from the last one that opened it (`OpenRun`; those against it have got
  their profit when they were booked, and keep it), so that a trade made
  again from some of its executions never divides one of them.
- No execution is held for more than its quantity, pieces counted together (`Held`).
- When a synchronization has fetched, there is a time until which the trades in its
  session are those that were stored (`ValidTo`), and all it has fetched is later. What
  was reversed beyond that time is dropped, so that what is added cannot double it.

`BookStep` says what one execution does to a book that is so kept, `BookReversed` what a
reversal does, and `FillInv` to `StopInv` carry `Inv` through the actions. The archive is
final because a trade without executions after a date is made again as it was.

The properties about accounts that do not trade meanwhile need more. `QuietInv` says
what a quiet synchronization has fetched: for the first one all executions, of a book that
is empty; nothing, and an untouched book, if every execution is stored (the sums that are
compared are then the same, although the pieces are grouped differently). `AddAllShows`
adds executions to a book and follows the position that it shows (`Shows`): closed, or one
open trade with just this exposure.

`SyncCatchesUp` starts from a book that is not empty, so the position that book shows has
to be known first. The argument goes:

- `ToldInv`: the stored trades are made of parts of the account's own executions, each with
  the symbol, the side and the time of the whole, under a trade of its symbol.
- The exposure of a trade is the sum of its executions with their signs, and sums may be
  swapped (`HeldShows`): a book shows, of each symbol, what the account's executions come
  to as far as they are held. If all until a time `n` are held and none later, this is the
  position at `n`, and the executions after `n` make the difference (`PositionSplit`).
- If no execution since the last synchronization was divided, there are as many rows to
  compare as executions until `n`. As quantities are positive the two sequences of sums
  are rising, and they last agree exactly at `n` (`TailValid`). So what is fetched is the
  rest after `n`, and no trade is reversed (`FetchTail`). `CatchInv` keeps this until the
  commit.
- If the open trades are long and whole, the quantity the alignment starts from is the
  position shown (`StartIs`), so that it drops nothing (`AlignAll`). Without `PlainOpen`
  it may drop them, and so `SyncSynchronizes` is violated. `AddAllShows` then leads
  from the position at `n` to that of the account.

### The registry of workers

`ClientServiceProofs` proves, from `BoundsAssumption` (finitely many clients, bounds that
are numbers), for any clients and any number of workers, operations, failures,
executions, overlaps and restarts:

| Theorem | States |
|---|---|
| `ServiceTypes` | `Spec => []TypeOK` |
| `WorkersFollowClients` | `Spec => []WorkersAgree` |
| `ArchivedStaysArchived` | `Spec => ArchiveHolds` |

`WorkersAgree` speaks of rest; the invariant has to say what is on its way before. For
each client that was not disturbed (`Calm`):

- its registered worker is its only one (`OwnWorker`), and so a client without one is on
  its way to one at most once: as a message, as a lookup or in the queue of `init`
  (`OneAdder`), while one with a worker is on its way to no other (`NoAdder`);
- a message about a client without a worker says what its row is or is about to be
  (`Current`), so that a lookup, and a place in the queue, are of a full client
  (`LooksFull`, `WaitsFull`);
- a message that removes the worker comes alone, and never while the worker is being
  initialized (`LastWord`): this is why no synchronization goes on without being registered;
- an active full client without a worker is on its way to one, unless `misled` (`Added`);
  a worker is of a full client outside of the archive, or its removal is on its way
  (`Fits`); a synchronization that is over has left the state (`Serves`).

There is one lemma per action. `Frame` says that a step about one client leaves the others
calm, `WorkerFrame` that a worker's step is about its own client only. `List` rests on
the order of a finite set having each element once (`Ordered`). `ArchiveHolds` follows: a
worker that is at work is registered, no message that removes it is on its way, and so its
client is not in the archive (`NoneAtWork`); besides, the API flushes no state but those
it was asked for (`AskedStates`).

### The event service

`EventProofs` proves, from `EventAssumption` (the schedules are valid, and what stands for
no event is no schedule), for any events, schedules, stops and overlaps:

| Theorem | States |
|---|---|
| `EventTypes` | `Spec => []TypeOK` |
| `Punctuality` | `Spec => []Punctual` |
| `Silence` | `Spec => DeletedStaysSilent` |

`Punctual` speaks of the time when nothing is due any more. The invariant follows each
phase of an event that the service can be relied on: it is scheduled, under
way, announced or failed, in exactly one of these, and its date is behind it in all but the
first (`OnTime`); if its date had passed when the event was read, it is in none. That it is not
lost or doubled in between needs that what the service knows is what is committed and
nothing on its way will change it (`Steady`), that its session is not broken, that no job runs twice at a time
(`OneTask`), that who has not read an event has nothing of it (`UnknownIsQuiet`), and that
a reading that nothing disturbs is alone (`Alone`). `DeletedStaysSilent` is a step
property: a job announces only after it has read the event, and the reading of a deleted
one ends the job (`SilenceStep`).

### Remote calls

`ServicesProofs` proves, for any set of calls, any timeouts and expiry, and any number of
crashes:

| Theorem | States |
|---|---|
| `PlacesKept` | `RpcSpec => []PlaceInv` |
| `CallsAreKept` | `RpcSpec => ImplementsCall`, that is `C!CallSpec` |
| `GivenUpIsDropped` | `RpcSpec => ExpiredIsDropped` |
| `CallsTyped` | `RpcSpec => []RpcTypeOK` |

The abstract invariant (run at most once) is not inductive in `Rpc`, because nothing in
`Start` says that the method has not run: what does is where the request is.
`PlaceInv` says that a request is in the queue, at the server or done with, never in two of
these places, that `ran` is 0 until it has left the queue and was let through, and that
an answer in redis is of a call that ran. With it, each action is an action of `Call` or a
stutter (`Push` asks, `Start` runs, `Take` answers, `GiveUp` and an error fail), which
is `CallsAreKept`. `GivenUpIsDropped` rests on times (`DueInv`): the key's expiry was set
before the wait began, so that it is not later than `givesUp`, and a caller that has
given up has no key.

### Actions

`ServicesProofs` proves `ActionsTyped`, `BusSpec => []BusTypeOK`, and `ActionsKept`,
`BusSpec => ActionsAsAsked`, from `ActionBusAssumption` (the absence of an action is
neither an action nor a topic), for any actions, writes and restarts. `ActionsAsAsked`
says what the service listens to when nothing of an action is on its way. For every action that no overlap has
spoilt, `BusInv` says what is on its way: messages are of what was flushed (`Told`), the
last of them is what the row is or is about to be (`LastWord`), and what the service
remembers and listens to is what the messages before it said (`Remembers`, `Subscribed`). An
action that runs once and has come to its end (`Retired`) is in no callback any more, so that
nothing triggers it; before that, each message on its channel does, and `NotStartedAfterwards`
allows it.

### The websocket and the tickers

`ServicesProofs` proves, for any workers, symbols and owners and any number of connections:

| Theorem | States |
|---|---|
| `OldConnectionsSilent`, `OldTickersSilent` | `WsSpec => AbandonedIsSilent`, `HubSpec => AbandonedIsSilent` |
| `HubTyped` | `HubSpec => []HubTypeOK` |
| `TickersKept` | `HubSpec => []SubscribedOnce` |
| `ServicesTyped` | `MCSpec => []TypeOK`, of all services together |

`Heard` says that a connection that was the manager's is opened no more, so that what was
heard of it stays before what is heard of the next. `HubInv` says of a refresh that its
worker is among the observers of each symbol it has been through (`Observed`), and of a
symbol that the exchange was asked for that it has observers (`FirstAsked`), which is why
nobody asks a second time.

### Requests to an exchange

`ReportsProofs` proves `RequestsKept`, `ReqSpec => []RequestsAreKept`, from
`RequestsAssumption`: amounts are numbers, a request costs no more than the limit holds
(`Weight <= MaxAmount`, else it would wait for ever), and its pause is a whole number of
units. Limits hold because a request that is alone has been paid for when it is sent,
and will have been when its pause is over (`Alone`), whichever class it is of: Bybit's never takes
anything, and after an answer of Binance's the bucket is what its header says. Marks are right because the key a
client is about to be marked for was denied and is one that it has or has had
(`MarksDenied`, `KeysGiven`).

### Channels

`UsersProofs` proves `HeardRight`, `ChanSpec => []HeardAsAsked`, from
`ChannelsAssumption`: a row has at most three above it, as in `SPACES`. The strengthening
(`IdsOwn`) is that a message has ids of its row's lineage only, and all of them if its flush
found every parent in the session.

### The live balance

`UsersProofs` proves `LiveShown`, `LiveSpec => []LiveIsRight`, for any trades, prices and
interleaving of tickers, executions and restarts. The extremes of a trade are indices into
its points, and points are replaced in place: `WellKept` says that the two are never one
point, and that the points are what was highest and lowest, unless the trade is `raced`. A
trade that is read again while an execution is under way is the one that was stored, or
raced (`TradesKept`). What is shown is the newest balance because a quote of the newest tick has
the amounts of the trades as they are, once there was a tick (`QuotesKept`).

### Histories and the stream of orders

`ReportsProofs` proves, from the assumptions of the three modules (a page and an answer hold
something, amounts are numbers):

| Theorem | States |
|---|---|
| `HistoryIsWhole` | `BybitSpec => []FetchIsComplete` |
| `IncomesLeaveNothingOut` | `BinanceSpec => []NothingLeftOut` |
| `OrdersAreWhole` | `StreamSpec => []WholeOrders` |
| `ReportsWhole` | `ReportsSpec => []ReportsAreWhole`, of all three |

They hold for any symbols, any size of page or answer, and any number of records, of which
more may come between any two requests.

The k-th newest record of a list is defined as the one that is not older than exactly k
(`PageAt`), so that a page needs no recursion. That there is one for every k up to the number
of records follows by descent (`KthThere`, `KthOldest`), and with it what a page or an answer
has: the first records of the list in their order, with no gap (`NewestAre`, `OldestAre`).

*Bybit.* `ReadDownTo` says how far a list has been read: wholly, if the fetch is past it; down
to the cursor, if it is the one that is read now and not at its first page. `FetchInv` has it
that the results are records of lists read, once each (`ResultsRead`, `ResultsOnce`), that
every record newer than `since` which was there when the fetch began and which its list has
been read down to is in the results (`NewRead`), and that what was listed then
still is (`StillListed`). The cursor that outlives its list would break the second clause:
a list would begin with the page that another list has reached.

*Binance.* All is about what came after the second of `since` began (`startTime`), which is
fixed when the fetch begins. `ReadUpTo(m, owed)` says that the incomes that are left are those after trade m,
after its last one if a profit is `owed`. A symbol that is done is whole (`WholeOf`);
of one that is not, `Waits` says that the commission remembered is of its first opening trade
up to m, or that there was none, in which case the latest one may be remembered as long as its
profit is owed. Trades that come meanwhile change neither, as they come after all that was
listed (`WholeLater`, `WaitsLater`).

*The stream.* The invariant `ToldOnce` follows an order through the stream: there is one
message that it is filled, or one report made of that message, or none; and one at least,
if the listen key lives, the order is of a type that is told of and its last part paid
commission (`Heard`). Orders have any number of
parts, and the stream may break off anywhere.

### Scoreboards

`UsersProofs` proves `ScoresShown`, `ScoreSpec => ScoresAreFair`, from
`ScoreboardAssumption` (what stands for nothing is no value; bounds are numbers), for any
entries, clients, balances and sessions. `ScoreInv` has four parts, for the records of
balances, the entries, what every session has loaded, and the board: an entry that
is not measured is not liquidated either (`EntryOk`), and what a session has loaded of an entry
may be behind it but is of nothing else (`RowOk`): a session that knows the first balance
knows of one that is there, and one that finds none looks at what the client has, in the same
step in which it writes. Past balances change what it finds, not this. Ranks are defined along the sorted scores; `RankIsFirst`
shows by descent that a rank is the first place of those with the same gain, and so
one more than the number of those who gained more (`RankCounts`).

### Journals and labels

`UsersProofs` proves, from the assumptions of `Journals` and `Labels`, for any journals,
chapters, templates, trades, labels and requests:

| Theorem | States |
|---|---|
| `LabelsKept` | `LabelSpec => AskedAreThere` |
| `JournalsKept` | `JournalSpec`: nothing dangles, periods are apart, only what was asked for is deleted |
| `NotesKept` | `NotesSpec => NotesAreKept`, both together |

A request that has read and not committed may find what it read deleted. `JournalInv` adds
to `NothingDangles` that a row that is about to be created has the dates of its journal as
they were read, of an id that was in use (`Tables`); `UpdatesOk` that an update inserts
all it was asked for.

### Discord registrations

`UsersProofs` proves, for any number of guilds, accounts, users and clients:

| Theorem | States |
|---|---|
| `GuildsTyped` | `GuildSpec => []GuildTypeOK` |
| `BotIsRight` | `GuildSpec => GuildsAreRight` |

That an account is shown its own client is strengthened by `OwnInv`: what a request
has read on the way (the account it asked for, the client it has checked) is still its
user's, or the account is marked as raced. That names are right is strengthened by
`ReadInv`: between the read in `on_ready` and its write, what was read is what
the rows have, unless touched. Each has one lemma per action.

### The bot's dialogs

`ServicesProofs` proves `DialogsKeptApart`, `DlgSpec => DialogsApart`, from
`DlgAssumption` (the absence of a callback is not a command), for any number of users,
accounts and commands: answers stay with the author they are of, a question takes one,
and what is cleared was asked for. The messages and clicks say nothing of whose
callbacks they reach; the registry does, and `DlgInv` adds what it is: the callbacks
under an author's name are of that author's commands (`RegistryOwn`), of commands that
have asked and have no answer yet (`RegistryFresh`), and only `/clear` awaits a
confirmation (`AskingClears`).

### Intervals

`UsersProofs` proves `GainsShown`, `IntervalSpec => []GainsAreEarnings`, from
`IntervalAssumption` (amounts are integers, lengths are positive), for any accounts and
lengths of days, weeks and months. The invariant `LedgerInv` is that a balance is what its
account had earned and was transferred before it, so that two of them differ by what was
earned and transferred between (`BalancesDiffer`). All else is about the operators, for any
history. The pairs of `create_intervals` are a recursive function: `PairsChain` shows by
descent that after every pair the intervals so far follow one another, and that
their gains and the transfers booked into them make up what the balance has grown by
(`Chained`); whatever `is_same` says, no boundary loses a transfer. For the days
of several accounts, the balances added are the latest one of each account (`LatestAdd`),
and what each stands for does not overlap.

### Cached overviews

`UsersProofs` proves `OverviewsHold`, `OvSpec => []OverviewsAreTrue`, for any clients,
requests and queries and any number of executions. Each of its parts has its own
strengthening: an overview that is in the cache while the worker has invalidated it
and not yet committed was written in between (`WrittenBetween`, without which the
commit would make a stale one of it unnoticed); a request computes only after it has
read all it will read (`ComputedLast`); and every client is in the set of ids or about
to be, be the set empty or not (`IdsComing`).

### Only model-checked

- All liveness (`ComesToAnEnd`, `Settles`, `RefreshEnds`, `CommandsEnd`, the half of
  `TimesAreKept` that something happens): out of the prover's reach.
- `MigrationsHold`: the migrations are data, and there is one instance, which TLC explores
  as a whole. The type invariant of the run that has it.

## 7 Assumptions about the outside

- An exchange account is netting: one signed position per symbol. Executions of a client
  arrive in order. Contracts are linear.
- The profit that Binance's REST interface reports of an execution is kept as it is
  (`trade.py:523`). It is an arbitrary number in the model, 0 for an execution that does not
  reduce the position, so that nothing is assumed of its agreement with `calc_pnl`; that a
  trade's profit is its cash flow holds on Binance as far as the exchange's figures are. Fees and
  figures of what is refused are in no trade and not counted.
- `Resync`: the exchange's clock is the collector's, no two executions have one time,
  executions are reported as Binance's REST interface does. When a trade is rebuilt in
  `reverse_to`, SQLAlchemy moves the executions kept to the new one (the relation
  decides), the old one is deleted. The pieces of a divided execution have one time,
  and a query by time returns all such groups in the same order, whichever it is. The
  exchange is asked from `last_execution_sync` on exactly: what Binance lists of the second
  before it enters the comparison, and is then cut off, as `valid_until` is never earlier.
- APScheduler 3: a job added with a date further back than the grace of one second is
  dropped, a date just passed still runs, one instance per job at a time, the job
  store is in memory, and a `lambda` that returns a coroutine does not run it.
- redis delivers in order to whoever has subscribed, and loses for who has not.
- SQLAlchemy: a session returns the instance it knows unless told to populate it again;
  `expire_on_commit=False`; two coroutines in one session may fail. A bulk
  `DELETE` or `UPDATE` runs no mapper listeners. What was flushed holds its row until the
  commit, so a worker's write waits for the API's and the other way round. What was
  flushed commits.
- redis: a key expires at its time; a list is popped by one reader; `blpop` returns when
  its timeout has passed. The server of a queue is one process.
- asyncio: tasks interleave at awaits only; a future that is finished takes no result and
  raises for who sets one; `wait_for` cancels what it waits for.
- Intervals: the days, balances and transfers of a client come in the order of their times,
  though `get_client_history` has no `ORDER BY` (`db/utils.py:101-108`); of a single balance
  `calc_daily` raises (`calc.py:111`), which has no intervals to look at.
- Exchanges: Bybit's cursor is a record, not an offset; Binance's trade ids are in the
  order of time; a stream delivers in order.
- `Scoreboard`, and `Migrations` for the origin `"created"`: the database was made from
  the models, as `tools/init_db.py` and the tests do. One that revisions made has the key
  of entries (revision f4263b42cb51).
- Postgres: foreign keys are checked and cascade at the statement; a revision's
  transaction rolls back its DDL.
- `ClientService`: the API runs one operation per client at a time, and reads the
  client when it flushes. A worker that is removed is closed in one step; one that has no
  websocket yet is not closed by its cleanup, as there is nothing to close.

## 8 Disagreements found

Each is a run that must fail; PROJECT.json quotes the line it contradicts.

- `trade_book_stream`: executions of Binance's websocket
  (`lib/lib/exchanges/binance/worker.py:440`) carry neither `market_type` nor `reduce`,
  so `get_trade` finds no trade, and each fill opens one of its own.
- `resync_missed`: the alignment starts from the unsigned quantity of the open trade
  (`lib/lib/exchanges/worker.py:292`). With a short or partly closed trade, missed
  executions are dropped, and as `last_execution_sync` moves on they never come back.
- `event_restart`: `EventService.init` (`eventservice.py:36`) takes up active events only.
  One that is still to start loses its jobs in a restart.
- `event_update`: `_on_event` (`eventservice.py:71`) reads the event from the identity
  map, so an update reschedules it to its old dates.
- `client_delete`: the API deletes clients with a bulk statement
  (`projects/api/api/routers/client.py:511`), which publishes nothing; the worker stays.
- `event_join`: the key of event entries is assigned to `__tableargs__`
  (`lib/lib/db/models/evententry.py:108`), which SQLAlchemy does not read, so a second
  registration with the same client is accepted in a database made from the models.

Others were met while modelling. They are stated in the modules as definitions that no
run checks, or are part of the actions:

- `TradeBook!NoneIsRefused`: liquidations "still have to be attributed to the corresponding
  trade" after it was closed (`worker.py:533-535`). Those that Binance's REST history makes of
  clearances (`binance/worker.py:315`) have no market type and find no trade, and the one made
  of them has no quantity and is refused (`trade.py:83-85`). So every synchronization that adds
  one fails, and as `last_execution_sync` does not move, so does the next. The funding fees of
  Binance's stream fare alike, and leave the worker's session unusable (`worker.py:509`).
- `EventLifecycle!Raise`: a start or an end is announced only after the event was rated
  (`eventservice.py:122-129`), which raises for an entry without a client or a client
  without a balance; the phase is then never announced.
- `ActionBus!NotStartedAfterwards`: a one-time action is removed after the bot has answered
  (`actionservice.py:129`), so that a second message on its channel during that await runs it
  a second time.
- `ExchangeRequests!SetWeights`: Bybit's class overrides `set_weights` with one that only logs
  (`bybit/derivatives.py:63`), so that its limit never holds a request back.
- `BinanceStream!Executions`: a report without commission, which a comment names
  (`binance/worker.py:402`), raises at `data["n"]` (`:448`), and its execution is lost until the
  next synchronization.
- `BinanceHistory!ParseDatetime`: the millisecond that shall keep old entries out
  (`binance/worker.py:115`) is added to a whole second, so that those of the same second are
  listed again.
- `Scoreboard!MeasuredFromStart`: the balance an entry is measured from may be replaced by an
  earlier one, see 3.

- `TickerHub!SubscribedIsAsked`: `DataService.subscribe` promises updates
  (`dataservice.py:41`), but a refused or unanswered subscription stays observed, and a
  lost ticker connection is not replaced.
- `Dialogs!ButtonsAreWired`: the buttons of an author's earlier message run the
  callbacks of his later question (`bot/utils.py:776`).
- `Overview!ReadOnlyMisses`: without ids, clients found in the cache are read again
  (`api/routers/client.py:174`) and counted twice.
- `Migrations!MigrationsRun`: the revisions cannot be run from the start, as
  `drop_constraint(None)` and a cast from interval cannot; `StampIsHead`: a database made
  from the models lacks two keys, of clients (`client.py:315`) and entries.
- `Intervals`: a balance that starts late appears as a gain (`lib/lib/db/calc.py:48-64`).
- `Guilds`: one renamed guild renames all rows, as the statement has no `WHERE`
  (`bot/__main__.py:98`).
- `BinanceStream`: an expired listen key is not renewed
  (`futures_websocket_client.py:41`), and a partly filled order that is canceled is
  never reported.
- `BinanceHistory`: the incomes are asked for once, and what does not fit in the answer
  (1000) is not fetched by this synchronization (`binance/worker.py:272`). `NothingLeftOut` is
  of the others.
- `BybitHistory`: an order that was made before `since` and filled later is not fetched
  again (`derivatives.py:85`).
- `Labels`: `update_trade` fails when the trade has one of the labels asked for
  (`routers/trade.py:90`).
- `ExchangeRequests`: requests in flight together overspend (`exchange.py:437`).
- `ClientService!misled`: a live worker keeps the row that it read after its last execution.
  When that was refused by the exchange and the API has made the client valid since, its
  next execution publishes the old state (`worker.py:506`), and `_on_client_update` removes
  the worker of an active client.

## 9 What is not modelled

| Part | Why |
|---|---|
| `BasicBalanceService` | `_exchange_jobs` is keyed by name and read with an `Exchange`: adding a client always raises (`balanceservice.py:159,164`), so there is no behaviour |
| `AlertService` | its `initialize_alerts` is never called |
| `throttler.py`, `syncedservice.py`, coin tracker, volume fetcher | made but never run, or used nowhere |
| Other exchanges, and the rest of Binance's and Bybit's adapters | formats; their flags are in `TradeBook!ReduceFlags` |
| Authorization grants, users, oauth | one query per request and no state between; linking of accounts is in `Guilds` |
| Other routers and CRUD | one transaction each, with no state but the row it writes |
| Embeds, charts, documents, formatting | text |
| Inverse contracts, spot trades, transfers | left out of the trade book; the quantities and states do not depend on them |
| What follows when the database refuses a statement of a worker (`worker.py:509`) | the session stays broken until the worker is made anew; `TradeBook` ends there, and `Resync` leaves the executions out that are refused |
| Streaks and other statistics | pure functions of what `Intervals` checks |

## 10 Plan

Done: `TradeOps`, `TradeBook`; `Resync`; `EventLifecycle`;
`ClientService`; `Rpc` with its refinement; `ActionBus`; `Websocket` and `TickerHub`;
`Dialogs`; `ExchangeRequests`; the histories and the stream; `LiveBalance`; `Intervals`;
`Overview`; `Scoreboard`; `Journals` and `Labels`; `Channels`; `Guilds`; `Migrations`. All
have proofs but `Migrations`.

Left, in order of worth:

1. `Resync` composed with `ClientService`: two workers of one client, where one worker
   at a time is what `NothingDoubled` relies on.
2. `Scoreboard` composed with `EventLifecycle` through what its jobs do.
3. What becomes of a worker whose session is unusable after a refused statement
   (`worker.py:509`), up to the restart that frees it.
