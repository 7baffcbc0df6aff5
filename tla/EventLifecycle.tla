--------------------------- MODULE EventLifecycle ---------------------------
(***************************************************************************)
(* EventService of the collector: it announces the four phases of every    *)
(* event, with jobs of the scheduler that messages of the API set up.      *)
(*                                                                         *)
(* The API flushes a change of an event, which publishes a message, and    *)
(* commits it afterwards.  The service reads the event on the message, and *)
(* keeps it: the session of the service lives as long as the service, does *)
(* not expire what it has loaded, and the daily job of the event holds on  *)
(* to the instance.  All coroutines of the service share that one session, *)
(* the jobs without the lock; whatever overlaps there may fail.  Rating an *)
(* event (save_leaderboard, get_summary) may raise: then its phase is not  *)
(* announced, and when it was a flush that failed, nobody rolls back and   *)
(* the session refuses everything until the service starts again.          *)
(*                                                                         *)
(* External: the scheduler runs a job as soon as its time has come, drops  *)
(* a job that is added later than that, runs no job twice at a time, and   *)
(* keeps its jobs in memory; redis delivers in order to who has            *)
(* subscribed, and else to no one.  One unit of time is longer than the    *)
(* second the scheduler grants a late job.  When a rating raises is said   *)
(* by Scoreboard; what the daily job does plays no part: its lambda makes  *)
(* a coroutine that nobody awaits.                                         *)
(***************************************************************************)
EXTENDS Naturals, Sequences, FiniteSets

CONSTANTS
    Events,
    Schedules,      \* the dates an event may have
    Absent,         \* no event yet, or none in the session
    Gone,           \* a deleted event
    Idle,           \* no change that is not committed
    MaxTime,        \* bound of the model: the time
    MaxStops,       \* bound of the model: stops of the collector
    MaxExtras,      \* bound of the model: updates and balance messages in all
    MaxBalances,    \* bound of the model: no balance message after that many
    Overtaking,     \* whether a message may be read before the commit
    Failing         \* whether a rating may raise

Phases == {"REGISTRATION_START", "START", "REGISTRATION_END", "END"}
\* Before these are announced the event is rated.
Rated == {"START", "END"}

Times == 0 .. MaxTime

\* Event.validate
Valid(d) ==
    /\ d["START"] < d["END"]
    /\ d["REGISTRATION_START"] < d["REGISTRATION_END"]
    /\ d["START"] <= d["REGISTRATION_END"]
    /\ d["REGISTRATION_END"] <= d["END"]
    /\ d["REGISTRATION_START"] <= d["START"]

ASSUME EventAssumption ==
    /\ {MaxTime, MaxStops, MaxExtras, MaxBalances} \subseteq Nat
    /\ Overtaking \in BOOLEAN /\ Failing \in BOOLEAN
    /\ \A d \in Schedules : d \in [Phases -> Times] /\ Valid(d)
    /\ Absent # Gone /\ Absent # Idle /\ Gone # Idle
    /\ {Absent, Gone, Idle} \intersect Schedules = {}

VARIABLES
    now,
    db,         \* committed: the dates of an event, Absent or Gone
    tx,         \* flushed and not committed, or Idle
    service,    \* "down", "starting" or "up"
    known,      \* the dates in the session of the service, or Absent
    jobs,       \* the one-shot jobs of the scheduler, by event and phase
    daily,      \* the events with a daily job
    inbox,      \* messages the service has not looked at
    running,    \* coroutines that use the session of the service
    broken,     \* whether that session refuses everything
    announced,  \* history variable: what was published, in which epoch
    failed,     \* history variable: phases whose rating raised, in this epoch
    reliable,   \* history variable: since when the service can be relied on
    stops, extras

store == <<db, tx>>
scheduler == <<jobs, daily>>
counters == <<stops, extras>>
ratings == <<broken, failed>>
vars == <<now, store, service, known, scheduler, inbox, running, ratings,
          announced, reliable, counters>>

Unreliable == MaxTime + 1

Exists(e) == db[e] \in Schedules

\* Event.is_expr(EventState.ACTIVE)
Active(e) == Exists(e) /\ db[e]["START"] <= now /\ now <= db[e]["END"]

Init ==
    /\ now = 0
    /\ db = [e \in Events |-> Absent]
    /\ tx = [e \in Events |-> Idle]
    /\ service = "up"
    /\ known = [e \in Events |-> Absent]
    /\ jobs = <<>>
    /\ daily = {}
    /\ inbox = <<>>
    /\ running = {}
    /\ broken = FALSE
    /\ failed = [e \in Events |-> {}]
    /\ announced = [e \in Events |-> <<>>]
    /\ reliable = [e \in Events |-> Unreliable]
    /\ stops = 0 /\ extras = 0

-----------------------------------------------------------------------------
(***************************************************************************)
(* The API                                                                 *)
(***************************************************************************)
Message(kind, e) ==
    inbox' = IF service = "up" THEN Append(inbox, [kind |-> kind, event |-> e]) ELSE inbox

Flush(kind, e, value) ==
    /\ tx[e] = Idle
    /\ tx' = [tx EXCEPT ![e] = value]
    /\ Message(kind, e)
    /\ UNCHANGED <<now, db, service, known, scheduler, running, announced, ratings, stops>>

Create(e, d) ==
    /\ db[e] = Absent
    /\ Flush("NEW", e, d)
    /\ UNCHANGED <<reliable, extras>>

\* A date may be set to one that is not over, whatever it was.
Update(e, d) ==
    /\ Exists(e)
    /\ extras < MaxExtras
    /\ \A p \in Phases : d[p] # db[e][p] => d[p] >= now
    /\ extras' = extras + 1
    /\ reliable' = [reliable EXCEPT ![e] = Unreliable]
    /\ Flush("UPDATE", e, d)

Delete(e) ==
    /\ Exists(e)
    /\ reliable' = [reliable EXCEPT ![e] = Unreliable]
    /\ Flush("DELETE", e, Gone)
    /\ UNCHANGED extras

Commit(e) ==
    /\ tx[e] # Idle
    /\ db' = [db EXCEPT ![e] = tx[e]]
    /\ tx' = [tx EXCEPT ![e] = Idle]
    /\ UNCHANGED <<now, service, known, scheduler, inbox, running, announced, ratings, reliable, counters>>

-----------------------------------------------------------------------------
(***************************************************************************)
(* The service.  A coroutine that uses the session is a member of running. *)
(***************************************************************************)
Task(job, e) == [job |-> job, event |-> e, step |-> "started", clash |-> FALSE]

IsRunning(job, e) == \E r \in running : r.job = job /\ r.event = e

\* r joins the coroutines that use the session; they are in each other's way.
Join(r) ==
    IF running = {}
    THEN running' = {r} /\ UNCHANGED reliable
    ELSE /\ running' = {[x EXCEPT !.clash = TRUE] : x \in running \cup {r}}
         /\ reliable' = [e \in Events |-> IF \E x \in running \cup {r} : x.event = e
                                          THEN Unreliable ELSE reliable[e]]

\* Definitions whose names end in Bug are variants with a plausible mistake,
\* used by no other definition.
ScheduleExclusiveBug(e, d) ==
    /\ jobs' = [k \in {k \in DOMAIN jobs : k[1] # e} \cup
                      {<<e, p>> : p \in {q \in Phases : d[q] > now}} |->
                    IF k[1] = e THEN d[k[2]] ELSE jobs[k]]
    /\ daily' = daily \cup {e}

ScheduleAnyBug(e, d) ==
    /\ jobs' = [k \in {k \in DOMAIN jobs : k[1] # e} \cup {<<e, p>> : p \in Phases} |->
                    IF k[1] = e THEN d[k[2]] ELSE jobs[k]]
    /\ daily' = daily \cup {e}

\* EventService._schedule: a job for every phase, set to the date of the
\* phase; the scheduler drops those whose date is over.  And a daily job.
Schedule(e, d) ==
    /\ jobs' = [k \in {k \in DOMAIN jobs : k[1] # e} \cup
                      {<<e, p>> : p \in {q \in Phases : d[q] >= now}} |->
                    IF k[1] = e THEN d[k[2]] ELSE jobs[k]]
    /\ daily' = daily \cup {e}

UnregisterOrder == <<"START", "END", "REGISTRATION_START", "REGISTRATION_END">>

\* EventService._unregister: the first job that is not there any more ends
\* it, with an error.
Unregister(e) ==
    LET removed == {UnregisterOrder[i] : i \in
            {j \in 1 .. 4 : \A k \in 1 .. j : <<e, UnregisterOrder[k]>> \in DOMAIN jobs}}
    IN  /\ jobs' = [k \in DOMAIN jobs \ {<<e, p>> : p \in removed} |-> jobs[k]]
        /\ daily' = IF removed = Phases THEN daily \ {e} ELSE daily

\* A message is looked at.  An event that is in the session is not read again; a
\* broken session gives none, as its rollback has expired what it had loaded.
Handle ==
    /\ service = "up" /\ inbox # <<>>
    /\ LET e == Head(inbox).event
           kind == Head(inbox).kind
       IN  /\ Overtaking \/ tx[e] = Idle
           /\ \/ /\ kind = "DELETE"
                 /\ Unregister(e)
                 /\ UNCHANGED <<running, reliable>>
              \/ /\ kind # "DELETE" /\ known[e] # Absent /\ ~broken
                 /\ Schedule(e, known[e])
                 /\ UNCHANGED <<running, reliable>>
              \/ /\ kind # "DELETE" /\ known[e] = Absent /\ ~broken
                 /\ Join(Task(kind, e))
                 /\ UNCHANGED scheduler
              \/ /\ kind # "DELETE" /\ broken
                 /\ UNCHANGED <<scheduler, running, reliable>>
    /\ inbox' = Tail(inbox)
    /\ UNCHANGED <<now, store, service, known, announced, ratings, counters>>

\* The event is committed, and no message about it is left.
Undisturbed(e) ==
    /\ Exists(e) /\ tx[e] = Idle
    /\ \A i \in DOMAIN inbox : inbox[i].event # e
    /\ ~IsRunning("UPDATE", e)

\* EventService._on_event, after the read: nothing is scheduled for an event
\* that is not committed yet.
Loaded(r) ==
    /\ r \in running /\ r.job \in {"NEW", "UPDATE"} /\ ~broken
    /\ running' = running \ {r}
    /\ LET d == IF known[r.event] # Absent THEN known[r.event] ELSE db[r.event]
       IN  IF d \in Schedules
           THEN /\ known' = [known EXCEPT ![r.event] = d]
                /\ Schedule(r.event, d)
                /\ reliable' = [reliable EXCEPT ![r.event] =
                      IF r.job = "NEW" /\ ~r.clash /\ Undisturbed(r.event) THEN now ELSE @]
           ELSE UNCHANGED <<known, scheduler, reliable>>
    /\ UNCHANGED <<now, store, service, inbox, announced, ratings, counters>>

\* The scheduler starts a job whose time has come.
Fire(e, p) ==
    /\ <<e, p>> \in DOMAIN jobs
    /\ jobs[<<e, p>>] <= now
    /\ jobs' = [k \in DOMAIN jobs \ {<<e, p>>} |-> jobs[k]]
    /\ IF IsRunning(p, e) THEN UNCHANGED <<running, reliable>> ELSE Join(Task(p, e))
    /\ UNCHANGED <<now, store, service, known, daily, inbox, announced, ratings, counters>>

ReadBug(r) ==
    /\ r \in running /\ r.job \in Phases /\ r.step = "started"
    /\ running' = (running \ {r}) \cup {[r EXCEPT !.step = "loaded"]}
    /\ UNCHANGED <<now, store, service, known, scheduler, inbox, announced, ratings, reliable, counters>>

\* fn of schedule_job reads the event anew, to see whether it is there.
Read(r) ==
    /\ r \in running /\ r.job \in Phases /\ r.step = "started" /\ ~broken
    /\ running' = (running \ {r}) \cup
          (IF Exists(r.event) THEN {[r EXCEPT !.step = "loaded"]} ELSE {})
    /\ UNCHANGED <<now, store, service, known, scheduler, inbox, announced, ratings, reliable, counters>>

AnnounceBug(r) ==
    /\ r \in running /\ r.step = "loaded"
    /\ running' = running \ {r}
    /\ announced' = IF Exists(r.event) /\ now < db[r.event]["END"]
                    THEN [announced EXCEPT ![r.event] = Append(@, [phase |-> r.job, epoch |-> stops])]
                    ELSE announced
    /\ UNCHANGED <<now, store, service, known, scheduler, inbox, ratings, reliable, counters>>

\* The leaderboard is saved, the commit, pub_instance; for what is not rated there is
\* nothing between the read and pub_instance.
Announce(r) ==
    /\ r \in running /\ r.step = "loaded"
    /\ r.job \in Rated => ~broken
    /\ running' = running \ {r}
    /\ announced' = [announced EXCEPT ![r.event] =
          Append(@, [phase |-> r.job, epoch |-> stops])]
    /\ UNCHANGED <<now, store, service, known, scheduler, inbox, ratings, reliable, counters>>

\* save_leaderboard or get_summary raises, of an entry without a client, or of a client
\* without a balance: the job has been run and is not run again.
Raise(r) ==
    /\ Failing
    /\ r \in running /\ r.step = "loaded" /\ r.job \in Rated /\ ~broken
    /\ running' = running \ {r}
    /\ failed' = [failed EXCEPT ![r.event] = @ \cup {r.job}]
    /\ UNCHANGED <<now, store, service, known, scheduler, inbox, broken, announced, reliable, counters>>

\* A flush fails: of a rating, of what a rating that raised has left in the session, or
\* of a coroutine that was disturbed.
Break(r) ==
    /\ Failing
    /\ r \in running /\ r.job # "INIT" /\ ~broken
    /\ \/ r.step = "loaded" /\ r.job \in Rated
       \/ r.clash
       \/ \E e \in Events : failed[e] # {}
    /\ running' = running \ {r}
    /\ broken' = TRUE
    /\ reliable' = [e \in Events |-> Unreliable]
    /\ UNCHANGED <<now, store, service, known, scheduler, inbox, failed, announced, counters>>

\* EventService._on_balance and _on_transfer, one at a time: the lock.
OnBalance(e) ==
    /\ service = "up"
    /\ extras < MaxBalances
    /\ \A x \in Events : ~IsRunning("BALANCE", x)
    /\ extras' = extras + 1
    /\ Join(Task("BALANCE", e))
    /\ UNCHANGED <<now, store, service, known, scheduler, inbox, announced, ratings, stops>>

Saved(r) ==
    /\ r \in running /\ r.job \in {"BALANCE", "INIT"} /\ ~broken
    /\ r.job = "INIT" => Exists(r.event)
    /\ running' = running \ {r}
    /\ UNCHANGED <<now, store, service, known, scheduler, inbox, announced, ratings, reliable, counters>>

\* A coroutine that was disturbed fails, and every one whose session is broken; what
\* fails EventService.init ends the collector.
Fail(r) ==
    /\ r \in running /\ (r.clash \/ broken) /\ r.job # "INIT"
    /\ running' = running \ {r}
    /\ UNCHANGED <<now, store, service, known, scheduler, inbox, announced, ratings, reliable, counters>>

-----------------------------------------------------------------------------
\* The collector ends.  An error of EventService.init ends all services.
Stop ==
    /\ service # "down"
    /\ stops < MaxStops
    /\ service' = "down"
    /\ known' = [e \in Events |-> Absent]
    /\ jobs' = <<>>
    /\ daily' = {}
    /\ inbox' = <<>>
    /\ running' = {}
    /\ broken' = FALSE
    /\ failed' = [e \in Events |-> {}]
    /\ reliable' = [e \in Events |-> Unreliable]
    /\ stops' = stops + 1
    /\ UNCHANGED <<now, store, announced, extras>>

\* EventService.init: the active events are scheduled and their leaderboards
\* saved.
Start ==
    LET active == {e \in Events : Active(e)}
    IN  /\ service = "down"
        /\ service' = "starting"
        /\ known' = [e \in Events |-> IF e \in active THEN db[e] ELSE Absent]
        /\ jobs' = [k \in {k \in active \X Phases : db[k[1]][k[2]] >= now} |-> db[k[1]][k[2]]]
        /\ daily' = active
        /\ running' = {Task("INIT", e) : e \in active}
        /\ reliable' = [e \in Events |->
              IF e \in active /\ Undisturbed(e) THEN now ELSE Unreliable]
        /\ UNCHANGED <<now, store, inbox, announced, ratings, counters>>

\* Only then the service subscribes.
Subscribe ==
    /\ service = "starting"
    /\ \A e \in Events : ~IsRunning("INIT", e)
    /\ service' = "up"
    /\ UNCHANGED <<now, store, known, scheduler, inbox, running, announced, ratings, reliable, counters>>

\* The scheduler is never late.
Tick ==
    /\ now < MaxTime
    /\ \A k \in DOMAIN jobs : jobs[k] > now
    /\ now' = now + 1
    /\ UNCHANGED <<store, service, known, scheduler, inbox, running, announced, ratings, reliable, counters>>

Next ==
    \/ \E e \in Events, d \in Schedules : Create(e, d) \/ Update(e, d)
    \/ \E e \in Events : Delete(e) \/ Commit(e) \/ OnBalance(e)
    \/ \E e \in Events, p \in Phases : Fire(e, p)
    \/ \E r \in running : Loaded(r) \/ Read(r) \/ Announce(r) \/ Saved(r)
                          \/ Raise(r) \/ Break(r) \/ Fail(r)
    \/ Handle
    \/ Stop
    \/ Start
    \/ Subscribe
    \/ Tick

\* Time passes, the scheduler starts what is due, and coroutines come to an
\* end.  Nothing is assumed of the API's users, or that a stopped collector
\* starts again.
Fairness ==
    /\ WF_vars(Tick)
    /\ WF_vars(\E e \in Events, p \in Phases : Fire(e, p))
    /\ \A e \in Events, p \in Phases :
          /\ WF_vars(\E r \in running : r.event = e /\ r.job = p /\ Read(r))
          /\ WF_vars(\E r \in running : r.event = e /\ r.job = p /\ (Announce(r) \/ Raise(r)))

Spec == Init /\ [][Next]_vars

FairSpec == Spec /\ Fairness

-----------------------------------------------------------------------------
\* What was published of a phase since the collector last started.
Announcements(e, p) ==
    {i \in DOMAIN announced[e] : announced[e][i] = [phase |-> p, epoch |-> stops]}

\* Nothing of the event is due or under way.
Settled(e) ==
    /\ service = "up"
    /\ \A p \in Phases : <<e, p>> \in DOMAIN jobs => jobs[<<e, p>>] > now
    /\ \A r \in running : r.event # e

\* The shape of the state; no job of the scheduler is ever in the past.
TypeOK ==
    /\ now \in Times
    /\ db \in [Events -> Schedules \cup {Absent, Gone}]
    /\ tx \in [Events -> Schedules \cup {Gone, Idle}]
    /\ service \in {"down", "starting", "up"}
    /\ known \in [Events -> Schedules \cup {Absent}]
    /\ DOMAIN jobs \subseteq Events \X Phases
    /\ \A k \in DOMAIN jobs : jobs[k] \in now .. MaxTime
    /\ daily \subseteq Events
    /\ \A r \in running : r.event \in Events /\ r.step \in {"started", "loaded"}
    /\ broken \in BOOLEAN /\ failed \in [Events -> SUBSET Rated]
    /\ reliable \in [Events -> Times \cup {Unreliable}]

\* An event that the service has read after its commit, or found active when
\* it started, and that was not changed and not disturbed since, while the
\* session takes what it is given: every phase from then on is announced when its
\* date has come, once, and no other is.  A start or an end whose rating raised is
\* not announced, then or later, and takes none of the other phases with it.
Punctual ==
    \A e \in Events : reliable[e] # Unreliable /\ Settled(e) =>
        \A p \in Phases :
            Cardinality(Announcements(e, p)) =
                IF reliable[e] <= db[e][p] /\ db[e][p] <= now /\ p \notin failed[e] THEN 1 ELSE 0

\* Whatever jobs are left behind by a deletion, a late message or a failed
\* _unregister: once the deletion of an event is committed, no job gets as far
\* as to announce it, except those that had read it before.
Announcing(e) == {r.job : r \in {x \in running : x.event = e /\ x.step = "loaded"}}

DeletedStaysSilent ==
    [][\A e \in Events : db[e] = Gone => Announcing(e)' \subseteq Announcing(e)]_vars

\* Every such event comes to its end: END is announced, unless something
\* intervenes or the rating of the end raises.
ComesToAnEnd ==
    \A e \in Events :
        reliable[e] # Unreliable /\ reliable[e] <= db[e]["END"] ~>
            \/ reliable[e] = Unreliable
            \/ "END" \in failed[e]
            \/ Announcements(e, "END") # {}

\* docs/features/events.md: "The event service is responsible for firing the
\* lifetime cycles of events": when the date of a committed event has passed,
\* its phase was announced, if the service had nothing else left to do.
LifecycleFires ==
    [][\A e \in Events, p \in Phases :
         /\ Tick /\ Exists(e) /\ tx[e] = Idle /\ inbox = <<>> /\ Settled(e)
         /\ db[e][p] = now
         => \E i \in DOMAIN announced[e] : announced[e][i].phase = p]_vars
=============================================================================
