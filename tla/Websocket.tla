-------------------------------- MODULE Websocket --------------------------------
(***************************************************************************)
(* A websocket to an exchange (lib/lib/models/async_websocket_manager.py,  *)
(* with the clients of Binance and Bybit built on it): the task that opens *)
(* a connection and reads it, those who wait for it to be open, and those  *)
(* who wait for the answer to a message.  Any of them may run whenever     *)
(* another one awaits.  Connections are numbered in the order in which     *)
(* they are begun.                                                         *)
(***************************************************************************)
EXTENDS Naturals, Sequences

CONSTANTS
  Owners,     \* tasks that connect, reconnect or close
  Requests,   \* messages sent with an id
  Answering,  \* the client finds the id in an answer (Bybit; Binance does not)
  Feeds,      \* what the exchange has data about
  MaxConns,   \* bound of the connections begun
  MaxInbox    \* bound of the messages of a connection on their way

ASSUME WebsocketAssumption ==
  Answering \in BOOLEAN /\ MaxConns \in Nat \ {0} /\ MaxInbox \in Nat \ {0}

VARIABLES
  ws,      \* self._ws, 0 for None
  link,    \* each connection
  owner,   \* what each owner awaits
  asker,   \* what each sender awaits, or how it ended
  fut,     \* the future in self._waiting, which stays there
  incoming,   \* what comes in on a connection
  heard    \* history variable: whose messages were handled, each change once

wsVars == <<ws, link, owner, asker, fut, incoming, heard>>

Conns == 1 .. MaxConns
Data(f) == <<"data", f>>
Good(r) == <<"good", r>>
Bad(r) == <<"bad", r>>

WsTypeOK ==
  /\ ws \in 0 .. MaxConns
  /\ link \in [Conns -> {"unused", "opening", "open", "closed"}]
  /\ owner \in [Owners -> {"idle", "closing", "polling", "returned"}]
  /\ asker \in [Requests -> {"idle", "waiting", "refused", "returned", "raised", "timeout"}]
  /\ fut \in [Requests -> {"none", "pending", "result", "error", "cancelled"}]
  /\ \A c \in Conns : Len(incoming[c]) <= MaxInbox
  /\ heard \in Seq(Conns)

WsInit ==
  /\ ws = 0
  /\ link = [c \in Conns |-> "unused"]
  /\ owner = [k \in Owners |-> "idle"]
  /\ asker = [r \in Requests |-> "idle"]
  /\ fut = [r \in Requests |-> "none"]
  /\ incoming = [c \in Conns |-> <<>>]
  /\ heard = <<>>

\* The property connected.
Connected == ws # 0 /\ link[ws] = "open"
Fresh == {c \in Conns : link[c] = "unused" /\ \A d \in Conns : d < c => link[d] # "unused"}

-----------------------------------------------------------------------------
(* Connecting.                                                             *)

\* connect: nothing to do, or a task that runs _run, and then polling.
StartConnect(k, w, l) ==
  \/ /\ w # 0 /\ l[w] = "open"
     /\ owner' = [owner EXCEPT ![k] = "returned"] /\ link' = l
  \/ /\ ~(w # 0 /\ l[w] = "open")
     /\ \E c \in Fresh : link' = [l EXCEPT ![c] = "opening"]
     /\ owner' = [owner EXCEPT ![k] = "polling"]

Connect(k) ==
  /\ owner[k] \in {"idle", "returned"}
  /\ StartConnect(k, ws, link)
  /\ UNCHANGED <<ws, asker, fut, incoming, heard>>

\* _run: the connection is up and becomes the one of the manager, whichever
\* was it before.
Opened(c) ==
  /\ link[c] = "opening"
  /\ link' = [link EXCEPT ![c] = "open"]
  /\ ws' = c
  /\ UNCHANGED <<owner, asker, fut, incoming, heard>>

\* ws_connect raises: the task is gone, and those who poll go on.
OpenFails(c) ==
  /\ link[c] = "opening"
  /\ link' = [link EXCEPT ![c] = "closed"]
  /\ UNCHANGED <<ws, owner, asker, fut, incoming, heard>>

Polled(k) ==
  /\ owner[k] = "polling" /\ Connected
  /\ owner' = [owner EXCEPT ![k] = "returned"]
  /\ UNCHANGED <<ws, link, asker, fut, incoming, heard>>

\* After _CONNECT_TIMEOUT_S.  The task goes on and may still set _ws.
PollTimeout(k) ==
  /\ owner[k] = "polling" /\ ~Connected
  /\ owner' = [owner EXCEPT ![k] = "returned"]
  /\ ws' = 0
  /\ UNCHANGED <<link, asker, fut, incoming, heard>>

\* reconnect: close, whose handshake is awaited, and then connect.
Reconnect(k) ==
  /\ owner[k] \in {"idle", "returned"} /\ Connected
  /\ link' = [link EXCEPT ![ws] = "closed"]
  /\ owner' = [owner EXCEPT ![k] = "closing"]
  /\ UNCHANGED <<ws, asker, fut, incoming, heard>>

\* close sets _ws to None, even if another connection has become it meanwhile.
Closed(k) ==
  /\ owner[k] = "closing"
  /\ StartConnect(k, 0, link)
  /\ ws' = 0
  /\ UNCHANGED <<asker, fut, incoming, heard>>

\* The remote end or the network closes.  The reader's loop just ends: iteration
\* stops before a CLOSED message is seen, and the handler of ERROR is called
\* without the argument that it wants.  Nobody reconnects.
Drop(c) ==
  /\ link[c] = "open" /\ incoming[c] = <<>>
  /\ link' = [link EXCEPT ![c] = "closed"]
  /\ UNCHANGED <<ws, owner, asker, fut, incoming, heard>>

-----------------------------------------------------------------------------
(* Messages.                                                               *)

\* send without a connection returns at once, as if nothing was to be sent.
Send(r) ==
  /\ asker[r] = "idle"
  /\ asker' = [asker EXCEPT ![r] = IF Connected THEN "waiting" ELSE "refused"]
  /\ fut' = [fut EXCEPT ![r] = IF Connected THEN "pending" ELSE "none"]
  /\ UNCHANGED <<ws, link, owner, incoming, heard>>

\* The exchange sends an answer, perhaps late, or data.
Arrives(c, m) ==
  /\ link[c] = "open" /\ Len(incoming[c]) < MaxInbox
  /\ incoming' = [incoming EXCEPT ![c] = Append(@, m)]
  /\ UNCHANGED <<ws, link, owner, asker, fut, heard>>

Answers(r) ==
  /\ fut[r] \in {"pending", "cancelled"}
  /\ \A c \in Conns : \A i \in DOMAIN incoming[c] : incoming[c][i] \notin {Good(r), Bad(r)}
  /\ \E c \in Conns : \E m \in {Good(r), Bad(r)} : Arrives(c, m)

HandleMessage(c) ==
  heard' = IF heard # <<>> /\ heard[Len(heard)] = c THEN heard ELSE Append(heard, c)

\* A slip: every connection's messages are handled.
CallbackBug(c) == HandleMessage(c)

\* _callback: only what comes in on the connection of the manager is handled.
Callback(c) == IF ws = c THEN HandleMessage(c) ELSE UNCHANGED heard

ReadData(c) ==
  /\ link[c] = "open" /\ incoming[c] # <<>>
  /\ Answering => Head(incoming[c])[1] = "data"
  /\ incoming' = [incoming EXCEPT ![c] = Tail(@)]
  /\ Callback(c)
  /\ UNCHANGED <<ws, link, owner, asker, fut>>

\* An answer in time settles the future; one that is late is set on a cancelled
\* future, which raises and ends the reader and with it the connection.
ReadAnswer(c) ==
  /\ Answering
  /\ link[c] = "open" /\ incoming[c] # <<>>
  /\ \E r \in Requests :
       /\ Head(incoming[c]) \in {Good(r), Bad(r)}
       /\ \/ /\ fut[r] = "pending"
             /\ fut' = [fut EXCEPT ![r] = IF Head(incoming[c]) = Good(r) THEN "result" ELSE "error"]
             /\ incoming' = [incoming EXCEPT ![c] = Tail(@)]
             /\ Callback(c)
             /\ UNCHANGED link
          \/ /\ fut[r] # "pending"
             /\ link' = [link EXCEPT ![c] = "closed"]
             /\ incoming' = [incoming EXCEPT ![c] = <<>>]
             /\ UNCHANGED <<fut, heard>>
  /\ UNCHANGED <<ws, owner, asker>>

\* A slip: the wait has no limit while the connection is up.
RequestTimesOutBug(r) ==
  /\ asker[r] = "waiting" /\ fut[r] = "pending" /\ ~Connected
  /\ asker' = [asker EXCEPT ![r] = "timeout"]
  /\ fut' = [fut EXCEPT ![r] = "cancelled"]
  /\ UNCHANGED <<ws, link, owner, incoming, heard>>

\* wait_for, after 10 seconds: the future is cancelled and stays in _waiting.
RequestTimesOut(r) ==
  /\ asker[r] = "waiting" /\ fut[r] = "pending"
  /\ asker' = [asker EXCEPT ![r] = "timeout"]
  /\ fut' = [fut EXCEPT ![r] = "cancelled"]
  /\ UNCHANGED <<ws, link, owner, incoming, heard>>

Answered(r) ==
  /\ asker[r] = "waiting" /\ fut[r] \in {"result", "error"}
  /\ asker' = [asker EXCEPT ![r] = IF fut[r] = "result" THEN "returned" ELSE "raised"]
  /\ UNCHANGED <<ws, link, owner, fut, incoming, heard>>

-----------------------------------------------------------------------------
(* A manager of its own, such as the stream of a user's account.           *)

WsNext ==
  \/ \E k \in Owners : Connect(k) \/ Reconnect(k) \/ Closed(k) \/ Polled(k) \/ PollTimeout(k)
  \/ \E c \in Conns :
       \/ Opened(c) \/ OpenFails(c) \/ Drop(c) \/ ReadData(c) \/ ReadAnswer(c)
       \/ \E f \in Feeds : Arrives(c, Data(f))
  \/ \E r \in Requests : Send(r) \/ Answers(r) \/ RequestTimesOut(r) \/ Answered(r)

WsSpec == WsInit /\ [][WsNext]_wsVars

\* A connection that another one took the place of is never heard again, however
\* connects, reconnects and late openings interleave: nothing of the old one is
\* handled after something of the new one.
AbandonedIsSilent ==
  [][heard' # heard => \A i \in DOMAIN heard : heard[i] # heard'[Len(heard')]]_wsVars
====
