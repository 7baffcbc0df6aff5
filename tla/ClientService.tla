--------------------------- MODULE ClientService ---------------------------
(***************************************************************************)
(* The registry of workers of the collector's ExtendedBalanceService       *)
(* (balanceservice.py) and the two sides that drive it: the API, which     *)
(* creates, edits and deletes clients, and the workers themselves, whose   *)
(* synchronization writes the client's state.  Every change the ORM        *)
(* flushes is published on a redis channel, before it is committed, and    *)
(* the collector also hears its own changes.                               *)
(***************************************************************************)
EXTENDS Naturals, Sequences, SequencesExt, FiniteSets

CONSTANTS
    Clients,        \* ids of clients
    MaxEdits,       \* bound: operations of the API ...
    MaxOverlaps,    \* bound: ... and those that find the collector busy
    MaxStops,       \* bound: stops of the collector
    MaxFailures,    \* bound: synchronizations and requests that fail
    MaxExecutions,  \* bound: executions that live workers record, and overlaps
    MaxWorkers      \* bound: workers at a time

ASSUME BoundsAssumption ==
    /\ IsFiniteSet(Clients)
    /\ {MaxEdits, MaxOverlaps, MaxStops, MaxFailures, MaxExecutions, MaxWorkers}
         \subseteq Nat

States == {"ok", "synchronizing", "archived", "invalid"}
Types == {"basic", "full"}
Rows == [state : States, type : Types]

Unborn == [state |-> "unborn", type |-> "unborn"]   \* not created yet
Gone == [state |-> "gone", type |-> "gone"]         \* deleted

Same == "same"                                      \* a column not written
Changes == [state : States \cup {Same}, type : Types \cup {Same}]
Nothing == [state |-> "none", type |-> "none"]      \* no transaction

Messages == [client : Clients, category : {"new", "update"},
             state : States, type : Types]

VARIABLES
    row,            \* the client's row, as committed
    pending,        \* what the API has flushed and not committed
    channel,        \* messages the collector has not received yet
    up,             \* "down", "subscribed" or "listed": how far init has come
    queue,          \* clients that init has still to add
    lookups,        \* clients whose row a handler is about to read
    workers,        \* the workers that are registered or still do something
    registered,     \* _workers_by_id: an index of workers, 0 if none
    edits, overlaps, stops, failures, executions,
    disturbed,      \* the API and the collector were busy with the client at once
    misled          \* the worker was removed on the word of an outdated message

vars == <<row, pending, channel, up, queue, lookups, workers,
          registered, edits, overlaps, stops, failures, executions, disturbed, misled>>

db == <<row, pending>>
counters == <<edits, overlaps, stops, failures, executions>>
starting == <<up, queue>>

Working == {"begin", "loaded", "sync", "startup"}
Phases == Working \cup {"live", "failed"}

\* loaded: the client as the worker's session knows it; byInit: whether init
\* waits for the worker.
Workers == [client : Clients, phase : Phases, loaded : Rows \cup {Unborn},
            byInit : BOOLEAN]
Free == [phase |-> "free"]

Exists(c) == row[c] \notin {Unborn, Gone}

\* The row as it will be when the API's transaction is committed.
After(c) ==
    IF pending[c] = Nothing THEN row[c]
    ELSE [state |-> IF pending[c].state = Same THEN row[c].state ELSE pending[c].state,
          type  |-> IF pending[c].type = Same THEN row[c].type ELSE pending[c].type]

\* Definitions whose names end in Bug are variants with a plausible mistake,
\* for checking that the properties notice it.
EligibleBug(r) == r \in Rows /\ r.state # "invalid"

\* _all_client_stmt
Eligible(r) == r \in Rows /\ r.state \notin {"archived", "invalid"}

IsWorking(w) == workers[w].phase \in Working

Init ==
    /\ row = [c \in Clients |-> Unborn]
    /\ pending = [c \in Clients |-> Nothing]
    /\ channel = <<>> /\ lookups = <<>>
    /\ up = "down" /\ queue = <<>>
    /\ workers = [w \in 1 .. MaxWorkers |-> Free]
    /\ registered = [c \in Clients |-> 0]
    /\ edits = 0 /\ overlaps = 0 /\ stops = 0 /\ failures = 0 /\ executions = 0
    /\ disturbed = [c \in Clients |-> FALSE] /\ misled = [c \in Clients |-> FALSE]

\* A message reaches only a collector that has subscribed.
Publish(c, category, state, type) ==
    channel' = IF up = "down" THEN channel
               ELSE Append(channel, [client |-> c, category |-> category,
                                     state |-> state, type |-> type])

\* The collector, or a transaction of the API, has something left to do for c.
Busy(c) ==
    \/ pending[c] # Nothing
    \/ \E i \in DOMAIN channel : channel[i].client = c
    \/ Contains(lookups, c) \/ Contains(queue, c)
    \/ up = "subscribed"
    \/ \E w \in DOMAIN workers : IsWorking(w) /\ workers[w].client = c

Disturb(c, why) == disturbed' = [disturbed EXCEPT ![c] = @ \/ why]

-----------------------------------------------------------------------------
(* The API.  A flush publishes; the commit follows.                        *)

\* One more operation on c, which the collector may be busy with.
Operation(c) ==
    /\ pending[c] = Nothing
    /\ edits < MaxEdits /\ edits' = edits + 1
    /\ Busy(c) => overlaps < MaxOverlaps /\ overlaps + executions < MaxExecutions
    /\ overlaps' = IF Busy(c) THEN overlaps + 1 ELSE overlaps
    /\ Disturb(c, Busy(c))
    /\ UNCHANGED <<lookups, workers, registered, stops, failures, executions, misled>>
    /\ UNCHANGED starting

\* confirm_client
Create(c) ==
    /\ row[c] = Unborn /\ Operation(c)
    /\ \E type \in Types :
         /\ pending' = [pending EXCEPT ![c] = [state |-> "ok", type |-> type]]
         /\ Publish(c, "new", "ok", type)
    /\ UNCHANGED row

\* update_client, from the read to the flush: only the columns that differ are
\* written.  An edit of the
\* name or the key writes neither of these two, and publishes all the same.
Edit(c) ==
    /\ Exists(c) /\ Operation(c)
    /\ \E state \in {"ok", "archived", row[c].state}, type \in Types :
         LET old == row[c]
         IN  /\ pending' = [pending EXCEPT ![c] =
                   [state |-> IF state = old.state THEN Same ELSE state,
                    type  |-> IF type = old.type THEN Same ELSE type]]
             /\ Publish(c, "update", state, type)
    /\ UNCHANGED row

Commit(c) ==
    /\ pending[c] # Nothing
    /\ row' = [row EXCEPT ![c] = After(c)]
    /\ pending' = [pending EXCEPT ![c] = Nothing]
    /\ UNCHANGED <<channel, lookups, workers, registered, disturbed, misled>>
    /\ UNCHANGED starting /\ UNCHANGED counters

\* delete_client: one DELETE statement, of which the ORM's listeners, and so
\* the collector, hear nothing.
Delete(c) ==
    /\ Exists(c) /\ Operation(c)
    /\ row' = [row EXCEPT ![c] = Gone]
    /\ UNCHANGED <<pending, channel>>

-----------------------------------------------------------------------------
(* The handlers of the service.                                            *)

\* add_client up to the first await of the synchronization: the worker is
\* registered before it is initialized.
AddClient(c, byInit) ==
    LET free == {w \in DOMAIN workers : workers[w] = Free}
        w == CHOOSE w \in free : TRUE
    IN  /\ free # {}
        /\ workers' = [workers EXCEPT ![w] = [client |-> c, phase |-> "begin",
                                             loaded |-> Unborn, byInit |-> byInit]]
        /\ registered' = [registered EXCEPT ![c] = w]
        /\ misled' = [misled EXCEPT ![c] = FALSE]

\* still registered after its cleanup
RemoveWorkerBug(c) ==
    LET w == registered[c]
    IN  /\ workers' = IF IsWorking(w) THEN workers ELSE [workers EXCEPT ![w] = Free]
        /\ UNCHANGED registered

\* not cleaned up
RemoveWorkerOpenBug(c) ==
    registered' = [registered EXCEPT ![c] = 0] /\ UNCHANGED workers

\* remove_worker.  Cleaning up closes the websocket of a worker that has one;
\* a worker that is still being initialized goes on.
RemoveWorker(c) ==
    LET w == registered[c]
    IN  /\ registered' = [registered EXCEPT ![c] = 0]
        /\ workers' = IF IsWorking(w) THEN workers ELSE [workers EXCEPT ![w] = Free]

RemovesBug(m) == m.state \in {"archived", "invalid"}

\* Whether an update asks for a registered worker to be removed, or for a
\* client without one to be added.
Removes(m) == m.state \in {"archived", "invalid"} \/ m.type # "full"
Adds(m) == m.state # "synchronizing" /\ m.type = "full"

Outdated(m) == m.state # After(m.client).state \/ m.type # After(m.client).type

\* _on_client_add and _on_client_update up to the read of the row
Handle ==
    /\ channel # <<>>
    /\ channel' = Tail(channel)
    /\ LET m == Head(channel)
           known == m.category = "update" /\ registered[m.client] # 0
           adds == ~known /\ IF m.category = "new" THEN m.type = "full" ELSE Adds(m)
       IN  /\ lookups' = IF adds THEN Append(lookups, m.client) ELSE lookups
           /\ IF known /\ Removes(m)
              THEN RemoveWorker(m.client) /\ misled' = [misled EXCEPT ![m.client] = Outdated(m)]
              ELSE UNCHANGED <<workers, registered, misled>>
    /\ UNCHANGED disturbed /\ UNCHANGED db /\ UNCHANGED starting /\ UNCHANGED counters

\* A lookup that finds no client tries again.
LookupBug ==
    /\ lookups # <<>>
    /\ LET c == Head(lookups)
       IN  /\ IF Eligible(row[c]) THEN AddClient(c, FALSE) /\ lookups' = Tail(lookups)
              ELSE UNCHANGED <<workers, registered, lookups, misled>>
           /\ Disturb(c, pending[c] # Nothing)
    /\ UNCHANGED channel /\ UNCHANGED db /\ UNCHANGED starting /\ UNCHANGED counters

\* add_client_by_id: the lookups take turns, under _db_lock.  One that finds
\* no client raises.  A row the API has not committed cannot be seen.  While
\* init reads the clients, in the same session without the lock, a lookup may
\* fail.
Lookup ==
    /\ lookups # <<>>
    /\ lookups' = Tail(lookups)
    /\ LET c == Head(lookups)
       IN  /\ \/ Eligible(row[c]) /\ AddClient(c, FALSE)
              \/ /\ ~Eligible(row[c]) \/ up = "subscribed"
                 /\ UNCHANGED <<workers, registered, misled>>
           /\ Disturb(c, pending[c] # Nothing)
    /\ UNCHANGED channel /\ UNCHANGED db /\ UNCHANGED starting /\ UNCHANGED counters

-----------------------------------------------------------------------------
(* A worker's initialization, synchronize_positions and startup, and what   *)
(* it writes once it is live.  Its UPDATEs wait for the API's transaction,  *)
(* which holds the row.                                                    *)

Moves(w, phase, known) ==
    workers' = [workers EXCEPT ![w] = [client |-> @.client, phase |-> phase, loaded |-> known,
                                       byInit |-> @.byInit /\ phase \in Working]]

\* A failed worker stays registered; one that is not is forgotten.
Fails(w) ==
    IF registered[workers[w].client] = w THEN Moves(w, "failed", Unborn)
    ELSE workers' = [workers EXCEPT ![w] = Free]

WorkerStep == UNCHANGED <<pending, lookups, registered, edits, overlaps, stops, misled>>
              /\ UNCHANGED starting

\* The client is read; one that has gone raises.
Load(w) ==
    LET c == workers[w].client
    IN  /\ workers[w].phase = "begin"
        /\ IF Exists(c)
           THEN Moves(w, "loaded", row[c])
           ELSE Fails(w)
        /\ UNCHANGED <<row, channel, failures, executions, disturbed>> /\ WorkerStep

\* The client is marked.  Without a difference to what was loaded there is
\* no UPDATE, but a message all the same.
Mark(w) ==
    LET c == workers[w].client
        old == workers[w].loaded
        writes == old.state # "synchronizing"
    IN  /\ workers[w].phase = "loaded"
        /\ writes => pending[c] = Nothing
        /\ IF writes /\ ~Exists(c) THEN Fails(w) /\ UNCHANGED <<row, channel>>
           ELSE /\ Moves(w, "sync", [old EXCEPT !.state = "synchronizing"])
                /\ row' = IF writes THEN [row EXCEPT ![c].state = "synchronizing"] ELSE row
                /\ Publish(c, "update", "synchronizing", old.type)
        /\ UNCHANGED <<failures, executions, disturbed>> /\ WorkerStep

\* The state is written as OK, whatever it is by now.
Finish(w) ==
    LET c == workers[w].client
    IN  /\ workers[w].phase = "sync" /\ pending[c] = Nothing
        /\ IF ~Exists(c) THEN Fails(w) /\ UNCHANGED <<row, channel>>
           ELSE /\ Moves(w, "startup", [workers[w].loaded EXCEPT !.state = "ok"])
                /\ row' = [row EXCEPT ![c].state = "ok"]
                /\ Publish(c, "update", "ok", workers[w].loaded.type)
        /\ UNCHANGED <<failures, executions, disturbed>> /\ WorkerStep

\* startup: the websocket is opened and the client read again
Startup(w) ==
    /\ workers[w].phase = "startup"
    /\ LET c == workers[w].client
       IN  IF Exists(c) THEN Moves(w, "live", row[c]) ELSE Fails(w)
    /\ UNCHANGED <<row, channel, failures, executions, disturbed>> /\ WorkerStep

\* _on_execution: the balance is written to the client, which is published as
\* the session knows it, and read again.
OnExecution(w) ==
    LET c == workers[w].client
    IN  /\ workers[w].phase = "live" /\ pending[c] = Nothing
        /\ overlaps + executions < MaxExecutions /\ executions' = executions + 1
        /\ Disturb(c, Busy(c))
        /\ IF Exists(c)
           THEN /\ Publish(c, "update", workers[w].loaded.state, workers[w].loaded.type)
                /\ Moves(w, "live", row[c])
           ELSE UNCHANGED <<channel, workers>>
        /\ UNCHANGED <<row, failures>> /\ WorkerStep

\* An exception of the initialization: it is logged, and the worker stays
\* registered.
Fail(w) ==
    /\ workers[w].phase \in Working /\ failures < MaxFailures
    /\ failures' = failures + 1
    /\ Fails(w)
    /\ UNCHANGED <<row, channel, executions, disturbed>> /\ WorkerStep

\* The exchange refuses the client's key: Exchange._request invalidates the
\* client with an UPDATE statement that is not published.
Refuse(w) ==
    LET c == workers[w].client
    IN  /\ workers[w].phase \in {"sync", "startup", "live"}
        /\ failures < MaxFailures /\ pending[c] = Nothing
        /\ failures' = failures + 1
        /\ row' = IF Exists(c) THEN [row EXCEPT ![c].state = "invalid"] ELSE row
        /\ IF workers[w].phase = "live" THEN UNCHANGED workers ELSE Fails(w)
        /\ UNCHANGED <<channel, executions, disturbed>> /\ WorkerStep

-----------------------------------------------------------------------------
(* The service stops and starts.                                           *)

Stop ==
    /\ up # "down" /\ stops < MaxStops
    /\ stops' = stops + 1
    /\ up' = "down" /\ queue' = <<>>
    /\ channel' = <<>> /\ lookups' = <<>>
    /\ workers' = [w \in DOMAIN workers |-> Free] /\ registered' = [c \in Clients |-> 0]
    /\ UNCHANGED <<edits, overlaps, failures, executions, disturbed, misled>> /\ UNCHANGED db

\* init subscribes first ...
Subscribe ==
    /\ up = "down"
    /\ up' = "subscribed"
    /\ disturbed' = [c \in Clients |-> pending[c] # Nothing]
    /\ misled' = [c \in Clients |-> FALSE]
    /\ UNCHANGED <<queue, channel, lookups, workers, registered>>
    /\ UNCHANGED db /\ UNCHANGED counters

\* ... then reads the clients ...
List ==
    /\ up = "subscribed"
    /\ up' = "listed"
    /\ queue' \in SetToSeqs({c \in Clients : Eligible(row[c]) /\ row[c].type = "full"})
    /\ UNCHANGED <<channel, lookups, workers, registered, disturbed, misled>>
    /\ UNCHANGED db /\ UNCHANGED counters

\* ... and adds them one after the other.
AddNext ==
    /\ queue # <<>>
    /\ \A w \in DOMAIN workers : workers[w] # Free => ~workers[w].byInit
    /\ queue' = Tail(queue)
    /\ AddClient(Head(queue), TRUE)
    /\ UNCHANGED <<up, channel, lookups, disturbed>> /\ UNCHANGED db /\ UNCHANGED counters

-----------------------------------------------------------------------------
Collector ==
    \/ Subscribe \/ List \/ AddNext
    \/ Handle \/ Lookup
    \/ \E w \in DOMAIN workers : Load(w) \/ Mark(w) \/ Finish(w) \/ Startup(w)

Next ==
    \/ \E c \in Clients : Create(c) \/ Edit(c) \/ Delete(c) \/ Commit(c)
    \/ \E w \in DOMAIN workers : OnExecution(w) \/ Fail(w) \/ Refuse(w)
    \/ Collector
    \/ Stop

Spec == Init /\ [][Next]_vars

\* A task that can run is run, a call to the exchange or the database returns,
\* and a transaction of the API that was flushed is committed.
FairSpec == Spec /\ WF_vars(Collector \/ \E c \in Clients : Commit(c))

-----------------------------------------------------------------------------
(* Properties.                                                             *)

\* Nothing concerning c is on its way.
Quiet(c) == up = "listed" /\ ~Busy(c)

\* The variables have their types, and a registered worker is the client's
\* own and was not cleaned up.
TypeOK ==
    /\ row \in [Clients -> Rows \cup {Unborn, Gone}]
    /\ pending \in [Clients -> Changes \cup {Nothing}]
    /\ channel \in Seq(Messages)
    /\ up \in {"down", "subscribed", "listed"}
    /\ queue \in Seq(Clients) /\ lookups \in Seq(Clients)
    /\ workers \in [1 .. MaxWorkers -> Workers \cup {Free}]
    /\ registered \in [Clients -> 0 .. MaxWorkers]
    /\ \A c \in Clients :
         registered[c] # 0 =>
           /\ workers[registered[c]] # Free
           /\ workers[registered[c]].client = c
    /\ edits \in 0 .. MaxEdits /\ overlaps \in 0 .. MaxOverlaps
    /\ stops \in 0 .. MaxStops /\ failures \in 0 .. MaxFailures
    /\ executions \in 0 .. MaxExecutions
    /\ disturbed \in [Clients -> BOOLEAN] /\ misled \in [Clients -> BOOLEAN]

\* When everything is at rest and the API and the collector were not busy with
\* the client at the same time: an active full client has its worker, an archived
\* or basic one has none, and a worker that serves belongs to a client that is
\* active, or that the exchange refused.  This holds across failures, and
\* again after every restart, whatever happened before it.  A worker publishes the
\* client as it last read it, though: one that has read that the exchange refused it
\* has itself removed by its next execution, be the client valid again by then.
Agreement ==
    \A c \in Clients : Quiet(c) /\ ~disturbed[c] /\ Exists(c) =>
        /\ row[c] = [state |-> "ok", type |-> "full"] => registered[c] # 0 \/ misled[c]
        /\ (row[c].state = "archived" \/ row[c].type = "basic") => registered[c] = 0
        /\ (registered[c] # 0 /\ workers[registered[c]].phase = "live")
             => row[c].state \in {"ok", "invalid"}

\* A client has one worker at most, and it is the registered one: no second
\* websocket records its executions, and none outlives its removal.
OneWorker ==
    \A c \in Clients : ~disturbed[c] =>
        \A w \in DOMAIN workers :
            workers[w] # Free /\ workers[w].client = c => registered[c] = w

\* The registry is right, and no worker lives beside it.
WorkersAgree == Agreement /\ OneWorker

\* Only the API takes a client out of the archive: no synchronization sets an
\* archived client's state, as long as it does not overlap with the archiving.
\* (A request refused by the exchange still turns it into an invalid one.)
ArchiveHolds ==
    [][\A c \in Clients : row[c].state = "archived" /\ ~disturbed'[c] =>
           \/ row'[c].state \in {"archived", "invalid", "gone"}
           \/ pending[c].state = "ok"]_vars

\* The service comes to rest: what a worker writes is heard by the service
\* that made it, and that never sets off one worker after another, however the
\* API's operations overlap with them.
Settles == <>[](\A c \in Clients : ~Busy(c))

\* What the tests' fixture waits for after it has deleted a client
\* (projects/collector/tests/conftest.py:134-139): its worker is removed.
DeletedClientIsRemoved ==
    \A c \in Clients : Quiet(c) /\ ~disturbed[c] /\ row[c] = Gone => registered[c] = 0

=============================================================================
