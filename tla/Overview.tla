-------------------------------- MODULE Overview --------------------------------
(***************************************************************************)
(* The overviews of a user's clients that the API keeps in redis: requests *)
(* read them, compute what is missing and write it back after the answer,  *)
(* while workers add executions and invalidate.  Beside them, the set of   *)
(* the user's client ids in redis, filled as clients are inserted.         *)
(***************************************************************************)
EXTENDS Integers, FiniteSets

CONSTANTS
  Accounts,     \* the clients that the user may have
  Readers,      \* requests for an overview
  Queries,      \* ClientQueryParams: [since, to, currency]; 0 is no bound
  Nobody,
  MaxVersion    \* bound: commits of executions of a client

VARIABLES
  exists,     \* the rows of client
  commits,    \* of each client: how many times executions of it were committed
  handling,   \* where _on_execution of each client's worker is
  overview,   \* the cache of each client: the query, and the version it shows
  reader,
  clientIds, adding,   \* user:<id>:clients, and the sadd's not yet sent
  late        \* history: clients whose overview was written too late, or
              \* was left alone by a synchronization

ovVars == <<exists, commits, handling, overview, reader, clientIds, adding, late>>

NoOverview == [query |-> Nobody, version |-> 0]
NoReader == [phase |-> "idle", query |-> Nobody, all |-> FALSE, asked |-> {}, maybe |-> {},
             hits |-> {}, computed |-> {}, version |-> [a \in Accounts |-> 0], todo |-> {}]

OvTypeOK ==
  /\ exists \subseteq Accounts
  /\ commits \in [Accounts -> 0..MaxVersion]
  /\ handling \in [Accounts -> {"none", "added", "invalidated"}]
  /\ \A a \in Accounts : overview[a].query \in Queries \cup {Nobody}
  /\ \A r \in Readers : reader[r].phase \in {"idle", "reading", "answered"}
  /\ clientIds \subseteq Accounts /\ adding \subseteq Accounts

OvInit ==
  /\ exists = {} /\ clientIds = {} /\ adding = {} /\ late = {}
  /\ commits = [a \in Accounts |-> 0]
  /\ handling = [a \in Accounts |-> "none"]
  /\ overview = [a \in Accounts |-> NoOverview]
  /\ reader = [r \in Readers |-> NoReader]

-----------------------------------------------------------------------------
(* Clients come and go.                                                    *)

InsertBug(a) ==
  /\ a \notin exists \cup clientIds
  /\ exists' = exists \cup {a}
  /\ UNCHANGED <<commits, handling, overview, reader, clientIds, adding, late>>

\* The listener of the insert schedules the sadd.  Ids are not used twice.
Insert(a) ==
  /\ a \notin exists \cup clientIds \cup adding
  /\ exists' = exists \cup {a} /\ adding' = adding \cup {a}
  /\ UNCHANGED <<commits, handling, overview, reader, clientIds, late>>

AddId(a) ==
  /\ a \in adding
  /\ clientIds' = clientIds \cup {a} /\ adding' = adding \ {a}
  /\ UNCHANGED <<exists, commits, handling, overview, reader, late>>

\* The statement that deletes fires no listener: the id stays in redis.
RemoveAccount(a) ==
  /\ a \in exists \ adding /\ a \in clientIds
  /\ exists' = exists \ {a}
  /\ handling' = [handling EXCEPT ![a] = "none"]
  /\ UNCHANGED <<commits, overview, reader, clientIds, adding, late>>

\* get_client_ids of a request for the balance: an empty set is filled from the rows.
FillIds ==
  /\ clientIds = {} /\ exists # {}
  /\ clientIds' = exists
  /\ UNCHANGED <<exists, commits, handling, overview, reader, adding, late>>

-----------------------------------------------------------------------------
(* Executions of a worker.                                                 *)

AddExecutions(a) ==
  /\ a \in exists /\ handling[a] = "none" /\ commits[a] < MaxVersion
  /\ handling' = [handling EXCEPT ![a] = "added"]
  /\ UNCHANGED <<exists, commits, overview, reader, clientIds, adding, late>>

InvalidateBug(a) ==
  /\ handling[a] = "added"
  /\ handling' = [handling EXCEPT ![a] = "invalidated"]
  /\ late' = late \ {a}
  /\ UNCHANGED <<exists, commits, overview, reader, clientIds, adding>>

\* The cache goes before the commit, with the new balance fetched in between.
Invalidate(a) ==
  /\ handling[a] = "added"
  /\ handling' = [handling EXCEPT ![a] = "invalidated"]
  /\ overview' = [overview EXCEPT ![a] = NoOverview]
  /\ late' = late \ {a}
  /\ UNCHANGED <<exists, commits, reader, clientIds, adding>>

Committed(a) == commits' = [commits EXCEPT ![a] = @ + 1]

CommitExecutions(a) ==
  /\ handling[a] = "invalidated"
  /\ Committed(a)
  /\ handling' = [handling EXCEPT ![a] = "none"]
  /\ UNCHANGED <<exists, overview, reader, clientIds, adding, late>>

\* An exception, of the exchange or of the database: nothing is committed.
FailExecutions(a) ==
  /\ handling[a] # "none"
  /\ handling' = [handling EXCEPT ![a] = "none"]
  /\ UNCHANGED <<exists, commits, overview, reader, clientIds, adding, late>>

\* Executions that are not realtime do not invalidate.
Synchronize(a) ==
  /\ a \in exists /\ handling[a] = "none" /\ commits[a] < MaxVersion
  /\ Committed(a)
  /\ late' = IF overview[a] # NoOverview THEN late \cup {a} ELSE late
  /\ UNCHANGED <<exists, handling, overview, reader, clientIds, adding>>

\* redis: five minutes have passed.
Expire(a) ==
  /\ overview[a] # NoOverview
  /\ overview' = [overview EXCEPT ![a] = NoOverview]
  /\ late' = late \ {a}
  /\ UNCHANGED <<exists, commits, handling, reader, clientIds, adding>>

-----------------------------------------------------------------------------
(* A request for an overview.                                              *)

\* A query with an end is not within itself.
Within(p, q) ==
  /\ q.since = 0 \/ (p.since # 0 /\ p.since >= q.since)
  /\ q.to = 0 \/ (p.to # 0 /\ p.to < q.to)
  /\ p.currency = q.currency

\* Of which clients the overview kept may do.  With no ids given, all are meant.
LookUp(r) ==
  /\ reader[r].phase = "idle"
  /\ \E q \in Queries, asked \in SUBSET Accounts :
       LET clients == IF asked = {} THEN exists ELSE asked IN
       /\ clients # {}
       /\ reader' = [reader EXCEPT ![r] =
            [NoReader EXCEPT !.phase = "reading", !.query = q, !.all = (asked = {}),
                             !.asked = clients,
                             !.maybe = {a \in clients : /\ overview[a] # NoOverview
                                                        /\ Within(q, overview[a].query)}]]
  /\ UNCHANGED <<exists, commits, handling, overview, clientIds, adding, late>>

\* The overview is read in a second step, and may be gone or another one by then.
ReadOne(r, a) ==
  /\ reader[r].phase = "reading" /\ a \in reader[r].maybe
  /\ reader' = [reader EXCEPT ![r].maybe = @ \ {a},
                              ![r].hits = IF overview[a] # NoOverview THEN @ \cup {a} ELSE @]
  /\ UNCHANGED <<exists, commits, handling, overview, clientIds, adding, late>>

\* What to compute from the rows: with no ids given, every client of the user.
ToComputeBug(r) == IF reader[r].asked = reader[r].hits THEN {} ELSE exists
ToCompute(r) ==
  LET misses == reader[r].asked \ reader[r].hits
  IN IF misses = {} THEN {} ELSE IF reader[r].all THEN exists ELSE misses \cap exists

\* Without any overview the id is invalid, and there is nothing to write.
Answer(r) ==
  /\ reader[r].phase = "reading" /\ reader[r].maybe = {}
  /\ reader' = [reader EXCEPT ![r].phase = "answered", ![r].computed = ToCompute(r),
                              ![r].todo = ToCompute(r), ![r].version = commits]
  /\ UNCHANGED <<exists, commits, handling, overview, clientIds, adding, late>>

\* A background task of the answer.
WriteOverview(r, a) ==
  /\ reader[r].phase = "answered" /\ a \in reader[r].todo
  /\ overview' = [overview EXCEPT ![a] = [query |-> reader[r].query, version |-> reader[r].version[a]]]
  /\ reader' = [reader EXCEPT ![r].todo = @ \ {a}]
  /\ late' = IF reader[r].version[a] < commits[a] \/ handling[a] = "invalidated"
             THEN late \cup {a} ELSE late
  /\ UNCHANGED <<exists, commits, handling, clientIds, adding>>

Close(r) ==
  /\ reader[r].phase = "answered" /\ reader[r].todo = {}
  /\ reader' = [reader EXCEPT ![r] = NoReader]
  /\ UNCHANGED <<exists, commits, handling, overview, clientIds, adding, late>>

OvNext ==
  \/ \E a \in Accounts :
       \/ Insert(a) \/ AddId(a) \/ RemoveAccount(a)
       \/ AddExecutions(a) \/ Invalidate(a) \/ CommitExecutions(a) \/ FailExecutions(a)
       \/ Synchronize(a) \/ Expire(a)
  \/ FillIds
  \/ \E r \in Readers : \/ LookUp(r) \/ Answer(r) \/ Close(r)
                        \/ \E a \in Accounts : ReadOne(r, a) \/ WriteOverview(r, a)

OvSpec == OvInit /\ [][OvNext]_ovVars

-----------------------------------------------------------------------------
(* What overviews owe.                                                     *)

\* An overview kept shows all executions committed, unless it was computed before
\* the last of them and written after, or they came with a synchronization
\* (_add_executions, ClientCache.write).
StaleOnlyIfLate ==
  \A a \in Accounts : overview[a] # NoOverview /\ overview[a].version < commits[a] => a \in late

\* A client is counted twice, from the cache and from the rows, only when no ids
\* were asked for (get_client_overview).
TwiceOnlyIfAll ==
  \A r \in Readers : reader[r].hits \cap reader[r].computed # {} => reader[r].all

\* Once the set of ids is not empty, every client is in it or about to be
\* (User.get_client_ids, the listener of Client).
ClientsAreKnown == clientIds # {} => exists \subseteq clientIds \cup adding

\* An overview is wrong in no way but these: too late by one write behind, doubled
\* where no clients were named; and no client is missing from the set of ids.
OverviewsAreTrue == StaleOnlyIfLate /\ TwiceOnlyIfAll /\ ClientsAreKnown

\* "All clients that weren't found in cache have to be read from DB": those, and
\* no others.
ReadOnlyMisses == \A r \in Readers : reader[r].hits \cap reader[r].computed = {}
====
