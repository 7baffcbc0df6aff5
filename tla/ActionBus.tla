-------------------------------- MODULE ActionBus --------------------------------
(***************************************************************************)
(* Actions of users (collector/services/actionservice.py): each is run by  *)
(* the messages of one channel, reports to Discord through a remote call,  *)
(* and an action of the kind ONCE is removed when it has run.  The API     *)
(* (api/crudrouter.py) creates, edits and deletes them; the service learns *)
(* of that from messages (lib/lib/messenger.py) that a flush publishes     *)
(* before the commit.  redis keeps one callback per channel.               *)
(***************************************************************************)
EXTENDS Naturals, Sequences, FiniteSets

CONSTANTS
  Actions,
  Topics,       \* channels: type, topic and ids of an action
  Once,         \* the actions with trigger_type ONCE
  Webhooks,     \* the actions whose platform is a webhook, which does nothing
  Runs,         \* executions, each of which is at most one call
  NoAction,     \* no callback, and no row
  MaxWrites,    \* bound of the API's operations
  MaxRestarts   \* bound of restarts of the collector

ASSUME ActionBusAssumption ==
  /\ Once \subseteq Actions
  /\ Webhooks \subseteq Actions
  /\ NoAction \notin Actions \cup Topics
  /\ MaxWrites \in Nat
  /\ MaxRestarts \in Nat

VARIABLES
  row,        \* the committed topic of each action, NoAction without a row
  flushed,    \* the API's transaction on each action, none or the topic to be
  inbox,      \* messages about actions
  known,      \* the topic of each instance in the service's session
  foreign,    \* actions whose instance belongs to the session init has read with
  callback,   \* the action whose callback each channel has
  execution,  \* what each execution does, and of which action
  reported,   \* outcome of the call of each execution
  sent,       \* whether the bot has sent its message
  doomed,     \* rows deleted in the service's transaction, which nobody commits
  writes, restarts,
  spoilt      \* history variable: actions whose subscription cannot be relied on

busVars == <<row, flushed, inbox, known, foreign, callback, execution, reported, sent,
             doomed, writes, restarts, spoilt>>

api == <<row, flushed>>
session == <<known, foreign, doomed>>
bounds == <<writes, restarts>>

Remote == INSTANCE Call WITH Calls <- Runs, outcome <- reported, ran <- sent

Unchanged == [kind |-> "none", topic |-> NoAction]
Idle == [stage |-> "idle", action |-> NoAction]
Stages == {"preparing", "calling", "reported", "done", "raised", "stopped"}

\* The actions that run once and of which an execution has come to its end.
Retired == {a \in Once : \E r \in Runs : execution[r] = [stage |-> "done", action |-> a]}

BusTypeOK ==
  /\ row \in [Actions -> Topics \cup {NoAction}]
  /\ flushed \in [Actions -> {Unchanged} \cup
                    [kind : {"new", "update", "delete"}, topic : Topics \cup {NoAction}]]
  /\ inbox \in Seq([kind : {"new", "update", "delete"}, action : Actions])
  /\ known \in [Actions -> Topics \cup {NoAction}]
  /\ foreign \subseteq Actions
  /\ callback \in [Topics -> Actions \cup {NoAction}]
  /\ execution \in [Runs -> {Idle} \cup [stage : Stages, action : Actions]]
  /\ Remote!CallTypeOK
  /\ doomed \subseteq Once
  /\ writes \in 0 .. MaxWrites
  /\ restarts \in 0 .. MaxRestarts
  /\ spoilt \subseteq Actions

BusInit ==
  /\ row = [a \in Actions |-> NoAction]
  /\ flushed = [a \in Actions |-> Unchanged]
  /\ inbox = <<>>
  /\ known = [a \in Actions |-> NoAction]
  /\ foreign = {}
  /\ callback = [t \in Topics |-> NoAction]
  /\ execution = [r \in Runs |-> Idle]
  /\ Remote!CallInit
  /\ doomed = {}
  /\ writes = 0
  /\ restarts = 0
  /\ spoilt = {}

-----------------------------------------------------------------------------
(* The API: a flush publishes, the commit follows.                         *)

Busy(a) == flushed[a] # Unchanged
Exists(a) == row[a] # NoAction

\* A row that the service deletes without a commit is locked for ever.
Write(a, kind, topic) ==
  /\ writes < MaxWrites
  /\ ~Busy(a)
  /\ a \notin doomed
  /\ writes' = writes + 1
  /\ flushed' = [flushed EXCEPT ![a] = [kind |-> kind, topic |-> topic]]
  /\ inbox' = Append(inbox, [kind |-> kind, action |-> a])
  /\ UNCHANGED <<row, session, callback, execution, reported, sent, restarts>>

\* A channel has one callback: two actions on it disturb each other.
Sharing(a, topic) ==
  {b \in Actions \ {a} : topic \in {row[b], flushed[b].topic, known[b]}}

\* create: an id is given once.
Create(a, topic) ==
  /\ ~Exists(a) /\ known[a] = NoAction /\ a \notin Retired \cup spoilt
  /\ Write(a, "new", topic)
  /\ spoilt' = spoilt \cup IF Sharing(a, topic) = {} THEN {} ELSE {a} \cup Sharing(a, topic)

\* update_one, of the attributes that make the channel.
Edit(a, topic) ==
  /\ Exists(a) /\ topic # row[a]
  /\ Write(a, "update", topic)
  /\ spoilt' = spoilt \cup {a} \cup Sharing(a, topic)

Delete(a) ==
  /\ Exists(a)
  /\ Write(a, "delete", NoAction)
  /\ UNCHANGED spoilt

Commit(a) ==
  /\ Busy(a)
  /\ row' = [row EXCEPT ![a] = flushed[a].topic]
  /\ flushed' = [flushed EXCEPT ![a] = Unchanged]
  /\ UNCHANGED <<inbox, session, callback, execution, reported, sent, bounds, spoilt>>

-----------------------------------------------------------------------------
(* Messages about actions: table_decorator reads the row, then the handler *)
(* runs with it, or raises if there is none.                               *)

Visible(a) == IF a \in doomed THEN NoAction ELSE row[a]

Adds(a, topic) == callback' = [callback EXCEPT ![topic] = a]
Removes(topic) == callback' = [callback EXCEPT ![topic] = NoAction]

\* A slip: the handlers of two categories are swapped.
HandlerBug(kind, a, topic) ==
  IF kind = "update" THEN Removes(topic) ELSE Adds(a, topic)

\* add, update (remove and add) and remove, all for the channel as it is read.
Handler(kind, a, topic) ==
  IF kind = "delete" THEN Removes(topic) ELSE Adds(a, topic)

\* Whether the handler reads what the message is about: a new row after its commit,
\* a deleted one before.
InTime(m) == IF m.kind = "delete" THEN Visible(m.action) # NoAction
             ELSE ~Busy(m.action) /\ Visible(m.action) # NoAction

Handle ==
  /\ inbox # <<>>
  /\ inbox' = Tail(inbox)
  /\ LET m == Head(inbox)
         topic == Visible(m.action)
     IN /\ IF topic = NoAction THEN UNCHANGED <<known, callback>>
           ELSE /\ known' = [known EXCEPT ![m.action] = topic]
                /\ Handler(m.kind, m.action, topic)
        /\ spoilt' = IF InTime(m) THEN spoilt ELSE spoilt \cup {m.action}
  /\ UNCHANGED <<api, foreign, doomed, execution, reported, sent, bounds>>

-----------------------------------------------------------------------------
(* Executions.                                                             *)

\* A message on a channel runs its callback.
Trigger(r, topic) ==
  /\ execution[r] = Idle
  /\ callback[topic] # NoAction
  /\ execution' = [execution EXCEPT ![r] = [stage |-> "preparing", action |-> callback[topic]]]
  /\ UNCHANGED <<api, inbox, session, callback, reported, sent, bounds, spoilt>>

At(r, stage) == execution[r].stage = stage
Goes(r, stage) == execution' = [execution EXCEPT ![r].stage = stage]

\* The user and what to show are read, in a session that all executions share, and
\* the call is made; a webhook makes none.
Prepare(r) ==
  /\ At(r, "preparing")
  /\ IF execution[r].action \in Webhooks
     THEN Goes(r, "reported") /\ UNCHANGED <<reported, sent>>
     ELSE Goes(r, "calling") /\ Remote!Ask(r)
  /\ UNCHANGED <<api, inbox, session, callback, bounds, spoilt>>

\* Whoever has no Discord account, what cannot be shown, two queries at a time.
Raise(r) ==
  /\ At(r, "preparing")
  /\ Goes(r, "raised")
  /\ UNCHANGED <<api, inbox, session, callback, reported, sent, bounds, spoilt>>

\* The bot and the call, whatever carries it; an exception of it is only logged.
Bot(r) ==
  /\ Remote!RunMethod(r)
  /\ UNCHANGED <<api, inbox, session, callback, execution, bounds, spoilt>>

Called(r) ==
  /\ At(r, "calling")
  /\ Goes(r, "reported")
  /\ Remote!Answer(r) \/ Remote!Fail(r)
  /\ UNCHANGED <<api, inbox, session, callback, bounds, spoilt>>

\* A slip: the action is deleted and stays subscribed.
FinishBug(r) ==
  /\ At(r, "reported")
  /\ Goes(r, "done")
  /\ LET a == execution[r].action IN
       IF a \in Once
       THEN /\ doomed' = IF a \in foreign THEN doomed ELSE doomed \cup {a}
            /\ UNCHANGED callback
       ELSE UNCHANGED <<callback, doomed>>
  /\ UNCHANGED <<api, inbox, known, foreign, reported, sent, bounds, spoilt>>

\* A slip: every action is taken for one that runs once.
FinishAlwaysBug(r) ==
  /\ At(r, "reported")
  /\ Goes(r, "done")
  /\ LET a == execution[r].action IN
       /\ Removes(known[a])
       /\ doomed' = IF a \in foreign THEN doomed ELSE doomed \cup {a}
  /\ UNCHANGED <<api, inbox, known, foreign, reported, sent, bounds, spoilt>>

\* The end of execute: an action that runs once is unsubscribed, and deleted in the
\* service's session, which refuses instances of another one.
Finish(r) ==
  /\ At(r, "reported")
  /\ Goes(r, "done")
  /\ LET a == execution[r].action IN
       IF a \in Once
       THEN /\ Removes(known[a])
            /\ doomed' = IF a \in foreign THEN doomed ELSE doomed \cup {a}
       ELSE UNCHANGED <<callback, doomed>>
  /\ UNCHANGED <<api, inbox, known, foreign, reported, sent, bounds, spoilt>>

\* The collector stops and starts: init reads the actions and subscribes them one
\* after the other, in any order.  What was to be deleted is not.
Restart ==
  /\ restarts < MaxRestarts
  /\ restarts' = restarts + 1
  /\ \E last \in [Topics -> Actions \cup {NoAction}] :
       /\ \A t \in Topics : IF \E a \in Actions : row[a] = t
                            THEN last[t] # NoAction /\ row[last[t]] = t
                            ELSE last[t] = NoAction
       /\ callback' = last
  /\ known' = row
  /\ foreign' = {a \in Actions : Exists(a)}
  /\ doomed' = {}
  /\ inbox' = <<>>
  /\ execution' = [r \in Runs |->
       IF execution[r] = Idle THEN Idle ELSE [execution[r] EXCEPT !.stage = "stopped"]]
  /\ spoilt' = {a \in Actions : Busy(a) \/ (Exists(a) /\ Sharing(a, row[a]) # {})}
  /\ UNCHANGED <<api, reported, sent, writes>>

BusNext ==
  \/ \E a \in Actions : Delete(a) \/ Commit(a)
  \/ \E a \in Actions, t \in Topics : Create(a, t) \/ Edit(a, t)
  \/ Handle
  \/ \E r \in Runs, t \in Topics : Trigger(r, t)
  \/ \E r \in Runs : Prepare(r) \/ Raise(r) \/ Bot(r) \/ Called(r) \/ Finish(r)
  \/ Restart

BusSpec == BusInit /\ [][BusNext]_busVars

-----------------------------------------------------------------------------
\* Nothing about an action is on its way.
Rests(a) == ~Busy(a) /\ \A i \in 1 .. Len(inbox) : inbox[i].action # a

\* An action that has its channel for itself, and whose messages met the right side of
\* their commits, is called by its channel if it exists and was not run once, and by
\* none if not.
SubscribedAsAsked ==
  \A a \in Actions \ spoilt : Rests(a) =>
    {t \in Topics : callback[t] = a} = (IF Exists(a) /\ a \notin Retired THEN {row[a]} ELSE {})

\* Executions of such an action that runs once begin before any of them has come to its
\* end.  One that raises does not count, and two messages that come while the bot is
\* asked do run the action twice: nothing but the end of an execution unsubscribes it.
NotStartedAfterwards ==
  \A r, q \in Runs : execution[r] = Idle /\ execution'[r] # Idle /\ execution[q].stage = "done" =>
    execution'[r].action # execution[q].action \/ execution[q].action \notin Once \ spoilt

\* Every step leaves the service listening to what the users have asked for, and while
\* the collector runs none starts a one-time action after an execution of it has come
\* to its end, even by messages that come while it is being deleted
\* (ActionService.add, remove, execute; init).
ActionsAsAsked == [][SubscribedAsAsked' /\ NotStartedAfterwards]_busVars
=============================================================================
