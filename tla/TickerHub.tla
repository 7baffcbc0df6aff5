-------------------------------- MODULE TickerHub --------------------------------
(***************************************************************************)
(* Market data for the workers of one exchange: DataService with its       *)
(* tickers, ExchangeTicker with its observables, and Worker.refresh, which *)
(* subscribes to the symbols of its open trades.  The ticker's websocket   *)
(* is Websocket's.                                                         *)
(***************************************************************************)
EXTENDS Websocket, FiniteSets

CONSTANTS
  Traded,     \* the symbols that each worker's client may have trades in
  Nothing
Workers == Owners
Symbols == Feeds
\* The messages SUBSCRIBE that the model may need: the first and a second one.
ASSUME HubAssumption ==
  /\ Requests = Symbols \X {1, 2} /\ Nothing \notin Symbols
  /\ Traded \in [Workers -> SUBSET Symbols]

VARIABLES
  ticker,     \* the exchange has an entry in DataService._exchanges
  observers,  \* _callbacks: the observers of each symbol
  watched,    \* _subscribed_symbols of each worker
  refresh     \* where Worker.refresh of each worker is

hubVars == <<ticker, observers, watched, refresh>>

AtRest == [phase |-> "rest", target |-> {}, todo |-> {}, symbol |-> Nothing]

HubTypeOK ==
  /\ WsTypeOK
  /\ ticker \in BOOLEAN
  /\ observers \in [Symbols -> SUBSET Workers]
  /\ watched \in [Workers -> SUBSET Symbols]
  /\ refresh \in [Workers -> [phase : {"rest", "next", "connecting", "asking", "stopped"},
                              target : SUBSET Symbols, todo : SUBSET Symbols,
                              symbol : Symbols \cup {Nothing}]]

HubInit ==
  /\ WsInit
  /\ ticker = FALSE
  /\ observers = [s \in Symbols |-> {}]
  /\ watched = [w \in Workers |-> {}]
  /\ refresh = [w \in Workers |-> AtRest]

HubAsks(s) == Cardinality({r \in Requests : r[1] = s /\ asker[r] # "idle"})
NextAsk(s) == <<s, HubAsks(s) + 1>>

-----------------------------------------------------------------------------
(* DataService.unsubscribe takes a channel and its arguments, but a worker *)
(* passes a whole subscription as the channel: the key it looks up is that *)
(* of no observable, and nothing is detached.                              *)

Unsubscribe(w, ss) == UNCHANGED observers

-----------------------------------------------------------------------------
(* Worker.refresh.                                                         *)

\* The symbols of the open trades now; those it no longer needs come first.
StartRefresh(w) ==
  /\ refresh[w].phase = "rest"
  /\ \E target \in SUBSET Traded[w] :
       /\ target # watched[w]
       /\ refresh' = [refresh EXCEPT ![w] = [AtRest EXCEPT
                        !.phase = "next", !.target = target, !.todo = target \ watched[w]]]
       /\ Unsubscribe(w, watched[w] \ target)
  /\ UNCHANGED <<ticker, watched, wsVars>>

Turn(w, phase, s) ==
  refresh' = [refresh EXCEPT ![w].phase = phase, ![w].symbol = s, ![w].todo = @ \ {s}]

\* A slip: the observable is kept only once the exchange has answered.
SubscribeBug(w, s) ==
  \/ /\ refresh[w].phase # "asking" /\ observers[s] = {}
     /\ HubAsks(s) < 2 /\ Send(NextAsk(s)) /\ Turn(w, "asking", s)
     /\ UNCHANGED observers
  \/ /\ observers[s] # {} /\ Turn(w, "next", s) /\ UNCHANGED wsVars
     /\ observers' = [observers EXCEPT ![s] = @ \cup {w}]

\* ExchangeTicker.subscribe: the first observer of a symbol has it asked for.
Subscribe(w, s) ==
  /\ observers' = [observers EXCEPT ![s] = @ \cup {w}]
  /\ \/ observers[s] = {} /\ Send(NextAsk(s)) /\ Turn(w, "asking", s)
     \/ observers[s] # {} /\ Turn(w, "next", s) /\ UNCHANGED wsVars

\* DataService.subscribe: the first one creates the ticker and connects it; any
\* other one uses it, whether it is connected yet or not.
SubscribeNext(w) ==
  /\ refresh[w].phase = "next"
  /\ \E s \in refresh[w].todo :
       \/ /\ ~ticker /\ ticker' = TRUE
          /\ Connect(w) /\ Turn(w, "connecting", s)
          /\ UNCHANGED observers
       \/ ticker /\ Subscribe(w, s) /\ UNCHANGED ticker
  /\ UNCHANGED watched

SubscribeConnected(w) ==
  /\ refresh[w].phase = "connecting" /\ owner[w] = "returned"
  /\ Subscribe(w, refresh[w].symbol)
  /\ UNCHANGED <<ticker, watched>>

\* The answer, an error or a timeout, which DataService logs.
SubscribeEnds(w) ==
  /\ refresh[w].phase = "asking"
  /\ \A r \in Requests : r[1] = refresh[w].symbol => asker[r] # "waiting"
  /\ refresh' = [refresh EXCEPT ![w].phase = "next"]
  /\ UNCHANGED <<ticker, observers, watched, wsVars>>

\* A slip: the symbols are noted before they are all subscribed to.
EndRefreshBug(w) ==
  /\ refresh[w].phase = "next"
  /\ watched' = [watched EXCEPT ![w] = refresh[w].target]
  /\ refresh' = [refresh EXCEPT ![w] = AtRest]
  /\ UNCHANGED <<ticker, observers, wsVars>>

EndRefresh(w) ==
  /\ refresh[w].phase = "next" /\ refresh[w].todo = {}
  /\ watched' = [watched EXCEPT ![w] = refresh[w].target]
  /\ refresh' = [refresh EXCEPT ![w] = AtRest]
  /\ UNCHANGED <<ticker, observers, wsVars>>

\* Worker.cleanup.
Cleanup(w) ==
  /\ refresh[w].phase = "rest"
  /\ Unsubscribe(w, watched[w])
  /\ refresh' = [refresh EXCEPT ![w].phase = "stopped"]
  /\ UNCHANGED <<ticker, watched, wsVars>>

-----------------------------------------------------------------------------
(* The websocket of the ticker, and the exchange behind it.                *)

\* The exchange feeds what it was asked for.
Feed(s) ==
  /\ \E r \in Requests : r[1] = s /\ asker[r] \notin {"idle", "refused"}
  /\ \E c \in Conns : Arrives(c, Data(s))

\* Opening and polling are bounded by the timeouts of aiohttp and of connect.
Wakes == \/ \E w \in Workers : refresh[w].phase = "connecting" /\ (Polled(w) \/ PollTimeout(w))
         \/ \E r \in Requests : RequestTimesOut(r) \/ Answered(r)

SocketStep ==
  /\ ticker
  /\ \/ Wakes
     \/ \E c \in Conns : Opened(c) \/ OpenFails(c) \/ Drop(c) \/ ReadData(c) \/ ReadAnswer(c)
     \/ \E r \in Requests : Answers(r)
     \/ \E s \in Symbols : Feed(s)
  /\ UNCHANGED hubVars

WorkerStep(w) ==
  SubscribeNext(w) \/ SubscribeConnected(w) \/ SubscribeEnds(w) \/ EndRefresh(w)

HubNext ==
  \/ \E w \in Workers : StartRefresh(w) \/ WorkerStep(w) \/ Cleanup(w)
  \/ SocketStep

HubSpec == HubInit /\ [][HubNext]_<<wsVars, hubVars>>

\* The event loop runs every task that can run; a wait ends by its timeout.
HubFairness ==
  /\ \A w \in Workers : WF_<<wsVars, hubVars>>(WorkerStep(w))
  /\ WF_<<wsVars, hubVars>>(ticker /\ Wakes /\ UNCHANGED hubVars)

-----------------------------------------------------------------------------
(* Properties.                                                             *)

\* What a worker takes for subscribed has it among its observers, though it
\* subscribes symbol by symbol while others do and connections come and go.
WatchedIsObserved ==
  \A w \in Workers : \A s \in watched[w] : w \in observers[s]

\* Workers that subscribe to a symbol at the same time have the exchange asked
\* for it once: the observable is there before the answer is awaited.
AskedOnce == ticker => \A s \in Symbols : HubAsks(s) <= 1

\* What is watched is subscribed to, and once.
SubscribedOnce == WatchedIsObserved /\ AskedOnce

\* A refresh ends, whether the exchange answers, refuses or is gone.
RefreshEnds ==
  \A w \in Workers :
    refresh[w].phase \in {"next", "connecting", "asking"} ~> refresh[w].phase = "rest"

\* What the docstring of DataService.subscribe says: who subscribed is notified
\* whenever updates arrive, so the exchange has been asked for the symbol.
SubscribedIsAsked ==
  \A w \in Workers : \A s \in watched[w] :
    \E r \in Requests : r[1] = s /\ asker[r] \in {"waiting", "returned", "raised", "timeout"}
====
