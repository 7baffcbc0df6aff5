------------------------------- MODULE Scoreboard -------------------------------
(***************************************************************************)
(* Who takes part in an event and how they score: joining and leaving, the *)
(* leaderboard that the event service and every request for it compute and *)
(* save, each in a session of its own, and the deletion of a client that   *)
(* takes part.                                                             *)
(***************************************************************************)
EXTENDS Integers, Sequences, FiniteSets

CONSTANTS
  Clients,
  Equities,      \* realized balances that a client may have
  Sessions,      \* computations of the leaderboard; Collector's session is kept
  Collector,
  Start, RegistrationEnd, End,
  RektThreshold, \* percent lost
  Gone,
  None,
  LastTime, MaxEntries   \* bounds
Entries == 1..MaxEntries
Times == 0..LastTime

Balances == [time : Times, realized : Equities]
EntryRows == [client : Clients \cup {None}, joined : Times,
              init : Balances \cup {None}, rekt : Times \cup {None}]

ASSUME ScoreboardAssumption ==
  /\ Collector \in Sessions
  /\ Equities \subseteq Nat \ {0}
  /\ 0 <= Start /\ Start <= RegistrationEnd /\ RegistrationEnd <= End   \* Event.validate
  /\ LastTime \in Nat /\ MaxEntries \in Nat
  /\ None \notin Clients \cup Times \cup Balances \cup EntryRows
  /\ \A rs \in SUBSET Balances : rs # None
  /\ Gone \notin EntryRows /\ Gone # None

VARIABLES
  clock,
  records,   \* the balances stored of each client; None: the client is deleted
  entry,     \* the rows of evententry; None: not yet used, Gone: deleted
  scored,    \* the entries that have a row in eventscore
  session,   \* of each computation: what it has loaded, and how far it is
  board      \* the leaderboard saved last, until another one is begun

scoreVars == <<clock, records, entry, scored, session, board>>

Exists(e) == entry[e] \notin {None, Gone}

\* A session knows rows as it loaded them, and which attributes it has set since.
Fresh == [phase |-> "none", rows |-> [e \in {} |-> None], valid |-> [e \in {} |-> 0]]

ScoreTypeOK ==
  /\ clock \in Times
  /\ entry \in [Entries -> EntryRows \cup {None, Gone}]
  /\ scored \subseteq {e \in Entries : Exists(e)}
  /\ \A s \in Sessions : session[s].phase \in {"none", "loaded", "rated", "broken"}

NoBoard == [e \in {} |-> <<>>]

ScoreInit ==
  /\ clock = 0
  /\ records = [c \in Clients |-> {}]
  /\ entry = [e \in Entries |-> None]
  /\ scored = {}
  /\ session = [s \in Sessions |-> Fresh]
  /\ board = NoBoard

\* Event.state, with the registration open from the start.
IsActive == Start <= clock /\ clock <= End
IsRegistration == clock <= RegistrationEnd

-----------------------------------------------------------------------------
(* Taking part.                                                            *)

\* The key of user and event is declared where SQLAlchemy does not look for it, so
\* that a database that is made from the models (tools/init_db.py, the tests) refuses
\* no second entry, and max_registrations is looked at by update only.
Join(c) ==
  /\ IsRegistration /\ records[c] # None
  /\ \E e \in Entries :
       /\ entry[e] = None
       /\ \A f \in 1..(e - 1) : entry[f] # None
       /\ entry' = [entry EXCEPT ![e] =
            [client |-> c, joined |-> clock, init |-> None, rekt |-> None]]
  /\ UNCHANGED <<clock, records, scored, session, board>>

\* A slip: the scores of the entry stay.
LeaveBug(e) ==
  /\ Exists(e)
  /\ entry' = [entry EXCEPT ![e] = Gone]
  /\ UNCHANGED <<clock, records, scored, session, board>>

Leave(e) ==
  /\ Exists(e)
  /\ entry' = [entry EXCEPT ![e] = Gone]
  /\ scored' = scored \ {e}
  /\ UNCHANGED <<clock, records, session, board>>

\* The balances of the client go with it, and with them the entries that refer
\* to one; the other entries of the client stay, with no client.
DeleteClientBug(c) ==
  /\ records[c] # None
  /\ records' = [records EXCEPT ![c] = None]
  /\ entry' = [e \in Entries |-> IF Exists(e) /\ entry[e].client = c
                                 THEN [entry[e] EXCEPT !.client = None] ELSE entry[e]]
  /\ UNCHANGED <<clock, scored, session, board>>

DeleteClient(c) ==
  LET Mine == {e \in Entries : Exists(e) /\ entry[e].client = c}
      Cascaded == {e \in Mine : entry[e].init # None}
  IN /\ records[c] # None
     /\ records' = [records EXCEPT ![c] = None]
     /\ entry' = [e \in Entries |-> IF e \in Cascaded THEN Gone
                                    ELSE IF e \in Mine THEN [entry[e] EXCEPT !.client = None]
                                    ELSE entry[e]]
     /\ scored' = scored \ Cascaded
     /\ UNCHANGED <<clock, session, board>>

-----------------------------------------------------------------------------
(* The balances of a client.                                               *)

NewestOf(rs) == CHOOSE r \in rs : \A q \in rs : q.time <= r.time
Oldest(rs) == CHOOSE r \in rs : \A q \in rs : q.time >= r.time

\* get_balance_at_time: the last balance before the given time, or the first one.
BalanceAtTime(c, t) ==
  LET before == {r \in records[c] : r.time < t}
  IN IF records[c] \in {None, {}} THEN None
     ELSE IF before # {} THEN NewestOf(before) ELSE Oldest(records[c])

\* Balances of times that had none: of now, when a worker was told one
\* (_update_realized_balance), and of the executions that a synchronization
\* fetched, which lie in the past.
Store(c, times) ==
  /\ records[c] # None
  /\ \A r \in records[c] : r.time \notin times
  /\ \E x \in [times -> Equities] :
       records' = [records EXCEPT ![c] = @ \cup {[time |-> t, realized |-> x[t]] : t \in times}]
  /\ UNCHANGED <<clock, entry, scored, session, board>>

StoreBalance(c) == Store(c, {clock})
StorePast(c) == \E times \in SUBSET (0..clock) : times # {} /\ Store(c, times)

\* calc_percentage_diff
Relative(then, change) == IF then > 0 THEN (100 * change) \div then ELSE 0

\* calc_gain, with no transfers: nothing for a client that has no balance now.
GainSince(c, then) ==
  IF records[c] \in {None, {}} THEN None
  ELSE Relative(then.realized, NewestOf(records[c]).realized - then.realized)

-----------------------------------------------------------------------------
(* A leaderboard: loaded, rated, saved.                                    *)

\* The event service's session keeps the collection of entries that it loaded
\* first, and their attributes; a request has a session of its own.
Existing == {e \in Entries : Exists(e)}
Load(s) ==
  /\ session[s].phase = "none"
  /\ \/ session' = [session EXCEPT ![s].phase = "loaded", ![s].rows = [e \in Existing |-> entry[e]]]
     \/ /\ s = Collector /\ DOMAIN session[s].rows # {}
        /\ session' = [session EXCEPT ![s].phase = "loaded"]
  /\ board' = NoBoard
  /\ UNCHANGED <<clock, records, entry, scored>>

\* A failed request drops its session; the event service's keeps refusing after
\* a failed flush, and only forgets a failed evaluation.
Dropped(s, flushed) ==
  session' = [session EXCEPT ![s] = IF s # Collector THEN Fresh
                                    ELSE [@ EXCEPT !.phase = IF flushed THEN "broken" ELSE "none"]]

Initialised(row) ==
  IF row.init # None THEN row
  ELSE [row EXCEPT !.init = IF row.client = None THEN None ELSE BalanceAtTime(row.client, row.joined)]
GainOf(row) == GainSince(row.client, row.init)
Judged(row) ==
  IF GainOf(row) # None /\ row.rekt = None /\ GainOf(row) < -RektThreshold
  THEN [row EXCEPT !.rekt = clock] ELSE row

\* An entry with no client, or of one without any balance, fails the whole
\* leaderboard: get_balance_at_time of None, or max of None and a date.
CannotRate(rows) == \E e \in DOMAIN rows : Initialised(rows[e]).init = None

FlushedBug(old, new, row) == [row EXCEPT !.init = new.init, !.rekt = new.rekt]

\* A flush writes the attributes that the session has set, and no others.
Flushed(old, new, row) ==
  [row EXCEPT !.init = IF old.init # new.init THEN new.init ELSE @,
              !.rekt = IF old.rekt # new.rekt THEN new.rekt ELSE @]

\* get_leaderboard, up to its commit.  Out of the event's time it scores nobody.
Rate(s) ==
  LET rows == session[s].rows
      new == [e \in DOMAIN rows |-> Judged(Initialised(rows[e]))]
      changed == {e \in DOMAIN rows : new[e] # rows[e]}
      known == {e \in DOMAIN rows : GainOf(new[e]) # None}
  IN /\ session[s].phase = "loaded"
     /\ IF ~IsActive
        THEN /\ session' = [session EXCEPT ![s].phase = "rated", ![s].valid = [e \in {} |-> 0]]
             /\ UNCHANGED entry
        ELSE IF CannotRate(rows) THEN Dropped(s, FALSE) /\ UNCHANGED entry
        ELSE IF \E e \in changed : ~Exists(e) THEN Dropped(s, TRUE) /\ UNCHANGED entry
        ELSE /\ entry' = [e \in Entries |-> IF e \in changed
                                            THEN Flushed(rows[e], new[e], entry[e]) ELSE entry[e]]
             /\ session' = [session EXCEPT ![s] =
                  [phase |-> "rated", rows |-> new, valid |-> [e \in known |-> GainOf(new[e])]]]
     /\ UNCHANGED <<clock, records, scored, board>>

\* The rank of each entry of a list sorted by gain: entries with the same gain
\* share one, and the next takes its place in the list.
RanksBug(list, valid) == [n \in 1..Len(list) |-> n]
Ranks(list, valid) ==
  LET rank[n \in 1..Len(list)] ==
        IF n = 1 THEN 1
        ELSE IF valid[list[n]] < valid[list[n - 1]] THEN n ELSE rank[n - 1]
  IN rank

Sorted(valid) == {list \in [1..Cardinality(DOMAIN valid) -> DOMAIN valid] :
                    /\ \A m, n \in DOMAIN list : m < n => list[m] # list[n]
                    /\ \A m, n \in DOMAIN list : m < n => valid[list[m]] >= valid[list[n]]}

\* save_leaderboard: all rows, or none when an entry is gone by now.
Save(s) ==
  LET valid == session[s].valid
  IN /\ session[s].phase = "rated"
     /\ IF \E e \in DOMAIN valid : ~Exists(e)
        THEN Dropped(s, TRUE) /\ UNCHANGED <<scored, board>>
        ELSE /\ \E list \in Sorted(valid) :
                  board' = [e \in DOMAIN valid |->
                    [gain |-> valid[e],
                     rank |-> Ranks(list, valid)[CHOOSE n \in DOMAIN list : list[n] = e]]]
             /\ scored' = scored \cup DOMAIN valid
             /\ session' = [session EXCEPT ![s] =
                             IF s = Collector THEN [@ EXCEPT !.phase = "none"] ELSE Fresh]
     /\ UNCHANGED <<clock, records, entry>>

Tick == /\ clock < LastTime
        /\ clock' = clock + 1
        /\ UNCHANGED <<records, entry, scored, session, board>>

ScoreNext ==
  \/ \E c \in Clients : Join(c) \/ DeleteClient(c) \/ StoreBalance(c) \/ StorePast(c)
  \/ \E e \in Entries : Leave(e)
  \/ \E s \in Sessions : Load(s) \/ Rate(s) \/ Save(s)
  \/ Tick

ScoreSpec == ScoreInit /\ [][ScoreNext]_scoreVars

-----------------------------------------------------------------------------
(* What a scoreboard owes.                                                 *)

\* An entry that a deleted client leaves behind was never measured: the balance
\* an entry starts from takes the entry, and its scores, with it.
OrphansUnscored ==
  \A e \in Entries : Exists(e) /\ entry[e].client = None
     => entry[e].init = None /\ entry[e].rekt = None /\ e \notin scored

\* A saved rank is one more than the number of those who gained more
\* (get_leaderboard).
RanksAreFair ==
  \A e \in DOMAIN board :
     board[e].rank = 1 + Cardinality({f \in DOMAIN board : board[f].gain > board[e].gain})

Stays(e) == Exists(e) /\ Exists(e)'

\* Who is rekt stays rekt, and the balance that an entry is measured from is set by
\* nothing but a look at what the client has now, and never lost, whatever the sessions
\* had loaded when they wrote (get_leaderboard's commit).  It is not set once only: two
\* sessions that both found none look for it themselves, and a synchronization may
\* store an earlier balance between them.
MeasuredFromStart ==
  [][\A e \in Entries : Stays(e) =>
       /\ entry[e].rekt # None => entry'[e].rekt # None
       /\ entry[e].init # None => entry'[e].init # None
       /\ entry'[e].init # entry[e].init =>
            entry'[e].init = BalanceAtTime(entry[e].client, entry[e].joined)]_scoreVars

\* What a scoreboard shows was measured from the start, of who takes part, and is ranked
\* fairly.
ScoresAreFair == []OrphansUnscored /\ []RanksAreFair /\ MeasuredFromStart

\* Joining twice is refused (join_event: "Already signed up").  It is not.
JoinsOnce ==
  \A e, f \in Entries : Exists(e) /\ Exists(f) /\ entry[e].client # None
     /\ entry[e].client = entry[f].client => e = f
====
