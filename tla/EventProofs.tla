----------------------------- MODULE EventProofs -----------------------------
(***************************************************************************)
(* Proofs about EventLifecycle, for any events and schedules and any       *)
(* number of changes, balance messages and stops: the state keeps its      *)
(* shape, events that the service can be relied on are announced           *)
(* punctually, and deleted ones are not announced.                         *)
(***************************************************************************)
EXTENDS EventLifecycle, FiniteSetTheorems, TLAPS

Reading == {"NEW", "UPDATE"}
Tasks == {r \in [job : Phases \cup Reading \cup {"INIT", "BALANCE"}, event : Events,
                 step : {"started", "loaded"}, clash : BOOLEAN] :
            r.step = "loaded" => r.job \in Phases}
Messages == [kind : Reading \cup {"DELETE"}, event : Events]

Shape ==
    /\ TypeOK
    /\ running \subseteq Tasks
    /\ inbox \in Seq(Messages)
    /\ announced \in [Events -> Seq([phase : Phases, epoch : 0 .. stops])]
    /\ stops \in Nat

HasJob(e, p) == <<e, p>> \in DOMAIN jobs

\* The scheduler runs no job twice at a time.
OneTask ==
    \A r, x \in running : r.job \in Phases /\ r.job = x.job /\ r.event = x.event => r = x

\* Who has not read an event has not scheduled, run or announced anything of it.
UnknownIsQuiet ==
    \A e \in Events : known[e] = Absent =>
        /\ failed[e] = {}
        /\ \A p \in Phases : ~HasJob(e, p) /\ ~IsRunning(p, e) /\ Announcements(e, p) = {}

DownIsIdle ==
    service = "down" => running = {} /\ ~broken /\ \A e \in Events : known[e] = Absent

\* Who reads an event undisturbed is alone, and the first to read it.
Alone ==
    \A r \in running : r.job \in Reading /\ ~r.clash =>
        running = {r} /\ known[r.event] = Absent

\* A phase whose date was still to come is scheduled, under way, announced or was not
\* rated, each once, and has its date behind it in the last three cases.
Scheduled(e, p) ==
    /\ HasJob(e, p) /\ jobs[<<e, p>>] = db[e][p] /\ ~IsRunning(p, e)
    /\ Announcements(e, p) = {} /\ p \notin failed[e]
UnderWay(e, p) ==
    /\ ~HasJob(e, p) /\ IsRunning(p, e) /\ db[e][p] <= now
    /\ Announcements(e, p) = {} /\ p \notin failed[e]
Published(e, p) ==
    /\ ~HasJob(e, p) /\ ~IsRunning(p, e) /\ db[e][p] <= now
    /\ p \notin failed[e] /\ \E i \in DOMAIN announced[e] : Announcements(e, p) = {i}
Unrated(e, p) ==
    /\ ~HasJob(e, p) /\ ~IsRunning(p, e) /\ db[e][p] <= now
    /\ p \in failed[e] /\ Announcements(e, p) = {}
Over(e, p) == ~HasJob(e, p) /\ ~IsRunning(p, e) /\ Announcements(e, p) = {}

OnTime(e, p) ==
    IF db[e][p] < reliable[e] THEN Over(e, p)
    ELSE Scheduled(e, p) \/ UnderWay(e, p) \/ Published(e, p) \/ Unrated(e, p)

\* What the service knows of an event it can be relied on is what is committed,
\* nothing is on its way that would change it, and none of its tasks may fail but for
\* its rating.
Steady(e) ==
    /\ ~broken
    /\ Exists(e) /\ tx[e] = Idle /\ known[e] = db[e] /\ reliable[e] <= now
    /\ \A i \in DOMAIN inbox : inbox[i].event # e
    /\ \A r \in running : r.event = e => r.job \notin Reading /\ ~r.clash

Kept(e) == reliable[e] # Unreliable => Steady(e) /\ \A p \in Phases : OnTime(e, p)

Order == OneTask /\ UnknownIsQuiet /\ DownIsIdle /\ Alone

EventInv == Shape /\ Order /\ \A e \in Events : Kept(e)

-----------------------------------------------------------------------------
LEMMA Constants ==
  /\ MaxTime \in Nat /\ MaxStops \in Nat /\ MaxExtras \in Nat
  /\ Absent \notin Schedules /\ Gone \notin Schedules /\ Idle \notin Schedules
  /\ Absent # Gone /\ Absent # Idle /\ Gone # Idle
  /\ \A d \in Schedules, p \in Phases : d[p] \in Times
  /\ Unreliable \notin Times /\ \A t \in Times : t # Unreliable
BY EventAssumption DEF Times, Unreliable

LEMMA Appended ==
  ASSUME NEW S, NEW s \in Seq(S), NEW x \in S
  PROVE  /\ Append(s, x) \in Seq(S)
         /\ \A i \in DOMAIN Append(s, x) :
              Append(s, x)[i] = x \/ (i \in DOMAIN s /\ Append(s, x)[i] = s[i])
         /\ \A i \in DOMAIN s : i \in DOMAIN Append(s, x) /\ Append(s, x)[i] = s[i]
         /\ Len(s) + 1 \in DOMAIN Append(s, x) /\ Append(s, x)[Len(s) + 1] = x
         /\ Len(s) + 1 \notin DOMAIN s
         /\ DOMAIN Append(s, x) = DOMAIN s \cup {Len(s) + 1}
OBVIOUS

LEMMA Tailed ==
  ASSUME NEW S, NEW s \in Seq(S), s # <<>>
  PROVE  /\ Tail(s) \in Seq(S) /\ Head(s) \in S
         /\ \A i \in DOMAIN Tail(s) : i + 1 \in DOMAIN s /\ Tail(s)[i] = s[i + 1]
         /\ 1 \in DOMAIN s /\ Head(s) = s[1]
OBVIOUS

LEMMA Widened ==
  ASSUME NEW S, NEW T, S \subseteq T, NEW s \in Seq(S)
  PROVE  s \in Seq(T) /\ \A i \in DOMAIN s : s[i] \in S
<1>1. /\ Len(s) \in Nat /\ DOMAIN s = 1 .. Len(s)
      /\ \A i \in 1 .. Len(s) : s[i] \in S
      /\ s = [i \in 1 .. Len(s) |-> s[i]]
  OBVIOUS
<1>2. [i \in 1 .. Len(s) |-> s[i]] \in [1 .. Len(s) -> T]
  BY <1>1
<1> QED BY <1>1, <1>2

LEMMA InitHolds == Init => EventInv
<1> SUFFICES ASSUME Init PROVE EventInv
  OBVIOUS
<1>1. TypeOK
  <2>1. broken \in BOOLEAN /\ failed \in [Events -> SUBSET Rated]
    BY DEF Init
  <2> QED BY <2>1, Constants DEF Init, TypeOK, Times
<1>2. Shape
  BY <1>1 DEF Init, Shape
<1>3. Order
  BY DEF Init, Order, OneTask, UnknownIsQuiet, DownIsIdle, Alone, HasJob, IsRunning, Announcements
<1>4. \A e \in Events : Kept(e)
  BY DEF Init, Kept
<1> QED BY <1>2, <1>3, <1>4 DEF EventInv

\* A step that leaves an event, its jobs and its tasks alone keeps it.
Untouched(e) ==
    /\ now' = now /\ db'[e] = db[e] /\ tx'[e] = tx[e] /\ known'[e] = known[e]
    /\ announced'[e] = announced[e] /\ stops' = stops
    /\ broken' = broken /\ failed'[e] = failed[e]
    /\ \A p \in Phases :
         /\ HasJob(e, p)' <=> HasJob(e, p)
         /\ HasJob(e, p) => jobs'[<<e, p>>] = jobs[<<e, p>>]
         /\ IsRunning(p, e)' <=> IsRunning(p, e)

LEMMA KeptFrame ==
  ASSUME NEW e \in Events, Kept(e), Untouched(e), reliable'[e] \in {reliable[e], Unreliable},
         reliable'[e] # Unreliable => /\ \A i \in DOMAIN inbox' : inbox'[i].event # e
                                      /\ \A r \in running' : r.event = e =>
                                           r.job \notin Reading /\ ~r.clash
  PROVE  Kept(e)'
<1> SUFFICES ASSUME reliable'[e] # Unreliable
             PROVE  Steady(e)' /\ \A p \in Phases : OnTime(e, p)'
  BY DEF Kept
<1>1. reliable'[e] = reliable[e] /\ Steady(e) /\ \A p \in Phases : OnTime(e, p)
  BY DEF Kept
<1>2. Steady(e)'
  BY <1>1 DEF Steady, Untouched, Exists
<1>3. ASSUME NEW p \in Phases PROVE OnTime(e, p)'
  <2>1. Announcements(e, p)' = Announcements(e, p)
    BY DEF Untouched, Announcements
  <2>2. OnTime(e, p)
    BY <1>1
  <2> QED BY <1>1, <2>1, <2>2
          DEF Untouched, OnTime, Over, Scheduled, UnderWay, Published, Unrated
<1> QED BY <1>2, <1>3

\* A step that changes no jobs, tasks, announcements nor what is known.
LEMMA OrderFrame ==
  ASSUME Order, UNCHANGED <<service, known, jobs, running, announced, broken, failed, stops>>
  PROVE  Order'
BY DEF Order, OneTask, UnknownIsQuiet, DownIsIdle, Alone, HasJob, IsRunning, Announcements

-----------------------------------------------------------------------------
(* The API.                                                                *)

LEMMA FlushStep ==
  ASSUME EventInv, NEW kind \in Reading \cup {"DELETE"}, NEW e \in Events,
         NEW value \in Schedules \cup {Gone}, Flush(kind, e, value),
         reliable' \in [Events -> Times \cup {Unreliable}], reliable'[e] = Unreliable,
         \A d \in Events \ {e} : reliable'[d] = reliable[d]
  PROVE  EventInv'
<1>1. Shape /\ Order
  BY DEF EventInv
<1>2. /\ inbox' \in Seq(Messages)
      /\ \A d \in Events \ {e} : (\A i \in DOMAIN inbox : inbox[i].event # d)
           => \A i \in DOMAIN inbox' : inbox'[i].event # d
  <2> DEFINE m == [kind |-> kind, event |-> e]
  <2>1. m \in Messages /\ inbox \in Seq(Messages)
    BY <1>1 DEF Messages, Shape
  <2>2. CASE service = "up"
    <3>1. inbox' = Append(inbox, m)
      BY <2>2 DEF Flush, Message
    <3>2. m.event = e
      OBVIOUS
    <3> HIDE DEF m
    <3> QED BY <2>1, <3>1, <3>2, Appended
  <2>3. CASE service # "up"
    BY <2>1, <2>3 DEF Flush, Message
  <2> QED BY <2>2, <2>3
<1>3. Shape'
  <2>1. TypeOK'
    BY <1>1, Constants DEF Shape, TypeOK, Flush, scheduler, ratings
  <2> QED BY <1>1, <1>2, <2>1 DEF Shape, Flush
<1>4. Order'
  BY <1>1, OrderFrame DEF Flush, scheduler, ratings
<1>5. ASSUME NEW d \in Events PROVE Kept(d)'
  <2>1. CASE d = e
    BY <2>1 DEF Kept
  <2>2. CASE d # e
    <3>1. Kept(d) /\ Untouched(d)
      BY <2>2, <1>1 DEF EventInv, Flush, Untouched, HasJob, IsRunning, Shape, TypeOK, scheduler, ratings
    <3> QED BY <1>2, <2>2, <3>1, KeptFrame DEF Flush, Kept, Steady
  <2> QED BY <2>1, <2>2
<1> QED BY <1>3, <1>4, <1>5 DEF EventInv

LEMMA CreateStep ==
  ASSUME EventInv, NEW e \in Events, NEW d \in Schedules, Create(e, d)
  PROVE  EventInv'
<1>1. reliable[e] = Unreliable
  BY Constants DEF EventInv, Kept, Steady, Exists, Create
<1>2. reliable' = reliable /\ reliable \in [Events -> Times \cup {Unreliable}]
  BY DEF Create, EventInv, Shape, TypeOK
<1> QED BY <1>1, <1>2, FlushStep DEF Create, Reading

LEMMA UpdateStep ==
  ASSUME EventInv, NEW e \in Events, NEW d \in Schedules, Update(e, d)
  PROVE  EventInv'
<1>1. reliable \in [Events -> Times \cup {Unreliable}]
  BY DEF EventInv, Shape, TypeOK
<1> QED BY <1>1, FlushStep DEF Update, Reading

LEMMA DeleteStep ==
  ASSUME EventInv, NEW e \in Events, Delete(e)
  PROVE  EventInv'
<1>1. reliable \in [Events -> Times \cup {Unreliable}]
  BY DEF EventInv, Shape, TypeOK
<1> QED BY <1>1, FlushStep DEF Delete, Reading

LEMMA CommitStep ==
  ASSUME EventInv, NEW e \in Events, Commit(e)
  PROVE  EventInv'
<1>1. Shape /\ Order
  BY DEF EventInv
<1>2. Shape'
  <2>1. TypeOK'
    BY <1>1, Constants DEF Shape, TypeOK, Commit, scheduler, ratings
  <2> QED BY <1>1, <2>1 DEF Shape, Commit, counters, ratings
<1>3. Order'
  BY <1>1, OrderFrame DEF Commit, counters, scheduler, ratings
<1>4. ASSUME NEW d \in Events PROVE Kept(d)'
  <2>1. CASE d = e
    BY <2>1 DEF Commit, EventInv, Kept, Steady
  <2>2. CASE d # e
    <3>1. Kept(d) /\ Untouched(d)
      BY <2>2, <1>1 DEF EventInv, Commit, Untouched, HasJob, IsRunning, Shape, TypeOK, counters, scheduler, ratings
    <3> QED BY <3>1, KeptFrame DEF Commit, Kept, Steady
  <2> QED BY <2>1, <2>2
<1> QED BY <1>2, <1>3, <1>4 DEF EventInv

-----------------------------------------------------------------------------
(* What the operations of the service do with jobs and tasks.              *)

LEMMA Scheduling ==
  ASSUME Shape, NEW e \in Events, NEW d \in Schedules, Schedule(e, d)
  PROVE  /\ DOMAIN jobs' \subseteq Events \X Phases
         /\ \A k \in DOMAIN jobs' : jobs'[k] \in now .. MaxTime
         /\ daily' \subseteq Events
         /\ \A x \in Events \ {e}, p \in Phases :
              (HasJob(x, p)' <=> HasJob(x, p)) /\ (HasJob(x, p) => jobs'[<<x, p>>] = jobs[<<x, p>>])
         /\ \A p \in Phases :
              (HasJob(e, p)' <=> d[p] >= now) /\ (HasJob(e, p)' => jobs'[<<e, p>>] = d[p])
<1>1. /\ DOMAIN jobs \subseteq Events \X Phases /\ now \in Nat /\ MaxTime \in Nat
      /\ \A k \in DOMAIN jobs : jobs[k] \in now .. MaxTime
      /\ \A p \in Phases : d[p] \in 0 .. MaxTime
      /\ daily \subseteq Events
  BY Constants DEF Shape, TypeOK, Times
<1>2. DOMAIN jobs' = {k \in DOMAIN jobs : k[1] # e} \cup {<<e, p>> : p \in {q \in Phases : d[q] >= now}}
  BY DEF Schedule
<1>3. \A k \in DOMAIN jobs' : jobs'[k] = IF k[1] = e THEN d[k[2]] ELSE jobs[k]
  BY DEF Schedule
<1>4. \A k \in DOMAIN jobs' : k \in Events \X Phases /\ jobs'[k] \in now .. MaxTime
  BY <1>1, <1>2, <1>3
<1>5. \A x \in Events \ {e}, p \in Phases :
        /\ <<x, p>> \in DOMAIN jobs' <=> <<x, p>> \in DOMAIN jobs
        /\ <<x, p>> \in DOMAIN jobs => jobs'[<<x, p>>] = jobs[<<x, p>>]
  BY <1>2, <1>3
<1>6. \A p \in Phases : /\ <<e, p>> \in DOMAIN jobs' <=> d[p] >= now
                        /\ <<e, p>> \in DOMAIN jobs' => jobs'[<<e, p>>] = d[p]
  BY <1>2, <1>3
<1> QED BY <1>1, <1>4, <1>5, <1>6 DEF HasJob, Schedule

LEMMA Unregistering ==
  ASSUME Shape, NEW e \in Events, Unregister(e)
  PROVE  /\ DOMAIN jobs' \subseteq DOMAIN jobs
         /\ \A k \in DOMAIN jobs' : jobs'[k] = jobs[k]
         /\ daily' \subseteq Events
         /\ \A x \in Events \ {e}, p \in Phases : HasJob(x, p)' <=> HasJob(x, p)
<1> DEFINE removed == {UnregisterOrder[i] : i \in
              {j \in 1 .. 4 : \A k \in 1 .. j : <<e, UnregisterOrder[k]>> \in DOMAIN jobs}}
<1>1. /\ jobs' = [k \in DOMAIN jobs \ {<<e, p>> : p \in removed} |-> jobs[k]]
      /\ daily' = IF removed = Phases THEN daily \ {e} ELSE daily
  BY DEF Unregister
<1> HIDE DEF removed
<1> QED BY <1>1 DEF HasJob, Shape, TypeOK

LEMMA Joining ==
  ASSUME Shape, NEW r \in Tasks, r.step = "started", ~r.clash, Join(r)
  PROVE  /\ running' \subseteq Tasks
         /\ reliable' \in [Events -> Times \cup {Unreliable}]
         /\ \A x \in running' : \E y \in running \cup {r} :
              x = [y EXCEPT !.clash = x.clash] /\ x.job = y.job /\ x.event = y.event /\ x.step = y.step
         /\ \A y \in running \cup {r} : \E x \in running' :
              x.job = y.job /\ x.event = y.event /\ x.step = y.step
         /\ running = {} => running' = {r}
         /\ running # {} => \A x \in running' : x.clash
         /\ \A e \in Events : reliable'[e] \in {reliable[e], Unreliable}
         /\ \A e \in Events : reliable'[e] # Unreliable =>
              \/ running = {}
              \/ \A x \in running \cup {r} : x.event # e
<1>1. reliable \in [Events -> Times \cup {Unreliable}] /\ running \subseteq Tasks
  BY DEF Shape, TypeOK
<1>2. CASE running = {}
  <2>1. running' = {r} /\ reliable' = reliable
    BY <1>2 DEF Join
  <2>2. r = [r EXCEPT !.clash = r.clash]
    BY DEF Tasks
  <2> QED BY <1>1, <1>2, <2>1, <2>2
<1>3. CASE running # {}
  <2>1. /\ running' = {[x EXCEPT !.clash = TRUE] : x \in running \cup {r}}
        /\ reliable' = [e \in Events |-> IF \E x \in running \cup {r} : x.event = e
                                         THEN Unreliable ELSE reliable[e]]
    BY <1>3 DEF Join
  <2>2. \A y \in Tasks : LET x == [y EXCEPT !.clash = TRUE] IN
          x \in Tasks /\ x.job = y.job /\ x.event = y.event /\ x.step = y.step /\ x.clash = TRUE
    BY DEF Tasks
  <2>3. \A x \in running' : \E y \in running \cup {r} : x = [y EXCEPT !.clash = TRUE]
    BY <2>1
  <2>4. \A y \in running \cup {r} : [y EXCEPT !.clash = TRUE] \in running'
    BY <2>1
  <2>5. \A x \in running' : x \in Tasks /\ x.clash
    BY <1>1, <2>2, <2>3, ZenonT(30)
  <2>6. \A x \in running' : \E y \in running \cup {r} :
          x = [y EXCEPT !.clash = x.clash] /\ x.job = y.job /\ x.event = y.event /\ x.step = y.step
    <3> TAKE x \in running'
    <3>1. PICK y \in running \cup {r} : x = [y EXCEPT !.clash = TRUE]
      BY <2>3
    <3>2. x.clash = TRUE /\ x.job = y.job /\ x.event = y.event /\ x.step = y.step
      BY <1>1, <2>2, <3>1
    <3> QED BY <3>1, <3>2
  <2>7. \A y \in running \cup {r} : \E x \in running' :
          x.job = y.job /\ x.event = y.event /\ x.step = y.step
    BY <1>1, <2>2, <2>4
  <2> QED BY <1>1, <1>3, <2>1, <2>5, <2>6, <2>7
<1> QED BY <1>2, <1>3

\* A task that joins is added to those that run, and keeps the order among them.
LEMMA JoinOrder ==
  ASSUME Shape, Order, NEW r \in Tasks, r.step = "started", ~r.clash, Join(r),
         ~IsRunning(r.job, r.event) \/ r.job \notin Phases,
         r.job \in Reading => known[r.event] = Absent,
         UNCHANGED known
  PROVE  /\ OneTask' /\ Alone'
         /\ \A e \in Events, p \in Phases :
              IsRunning(p, e)' <=> IsRunning(p, e) \/ (r.job = p /\ r.event = e)
<1>1. OneTask'
  <2> SUFFICES ASSUME NEW x1 \in running', NEW x2 \in running', x1.job \in Phases,
                      x1.job = x2.job, x1.event = x2.event
               PROVE  x1 = x2
    BY DEF OneTask
  <2>1. PICK y1 \in running \cup {r} : /\ x1 = [y1 EXCEPT !.clash = x1.clash]
                                       /\ x1.job = y1.job /\ x1.event = y1.event
    BY Joining
  <2>2. PICK y2 \in running \cup {r} : /\ x2 = [y2 EXCEPT !.clash = x2.clash]
                                       /\ x2.job = y2.job /\ x2.event = y2.event
    BY Joining
  <2>3. y1 = y2
    BY <2>1, <2>2 DEF Order, OneTask, IsRunning
  <2>4. CASE running = {}
    BY <2>4, Joining
  <2>5. CASE running # {}
    <3>1. x1.clash /\ x2.clash /\ x1.clash \in BOOLEAN /\ x2.clash \in BOOLEAN
      BY <2>5, Joining DEF Tasks
    <3>2. x1.clash = x2.clash
      BY <3>1
    <3> QED BY <2>1, <2>2, <2>3, <3>2
  <2> QED BY <2>4, <2>5
<1>2. Alone'
  <2> SUFFICES ASSUME NEW x \in running', x.job \in Reading, ~x.clash
               PROVE  running' = {x} /\ known'[x.event] = Absent
    BY DEF Alone
  <2>1. running' = {r}
    BY Joining
  <2> QED BY <2>1
<1>3. \A e \in Events, p \in Phases :
        IsRunning(p, e)' <=> IsRunning(p, e) \/ (r.job = p /\ r.event = e)
  BY Joining DEF IsRunning
<1> QED BY <1>1, <1>2, <1>3

-----------------------------------------------------------------------------
(* The service.                                                            *)

\* No task about an event that is relied on fails or changes it.
LEMMA RelyOn ==
  ASSUME EventInv, NEW e \in Events, reliable[e] # Unreliable
  PROVE  Steady(e) /\ \A p \in Phases : OnTime(e, p)
BY DEF EventInv, Kept

LEMMA HandleStep ==
  ASSUME EventInv, Handle
  PROVE  EventInv'
<1> DEFINE e == Head(inbox).event
           kind == Head(inbox).kind
<1>1. Shape /\ Order
  BY DEF EventInv
<1>2. /\ Head(inbox) \in Messages /\ inbox' \in Seq(Messages) /\ Head(inbox) = inbox[1]
      /\ 1 \in DOMAIN inbox
      /\ \A i \in DOMAIN inbox' : i + 1 \in DOMAIN inbox /\ inbox'[i] = inbox[i + 1]
  BY <1>1, Tailed DEF Handle, Shape
<1>3. e \in Events /\ kind \in Reading \cup {"DELETE"}
  BY <1>2 DEF Messages
<1>4. reliable[e] = Unreliable
  BY <1>2, <1>3, RelyOn DEF Steady
<1>5. /\ service = "up"
      /\ UNCHANGED <<now, db, tx, service, known, announced, broken, failed, stops, extras>>
      /\ \/ kind = "DELETE" /\ Unregister(e) /\ UNCHANGED <<running, reliable>>
         \/ known[e] # Absent /\ Schedule(e, known[e]) /\ UNCHANGED <<running, reliable>>
         \/ kind # "DELETE" /\ known[e] = Absent /\ Join(Task(kind, e)) /\ UNCHANGED <<jobs, daily>>
         \/ UNCHANGED <<jobs, daily, running, reliable>>
  BY DEF Handle, store, counters, scheduler, ratings
<1> HIDE DEF e, kind
<1>6. \A d \in Events : (\A i \in DOMAIN inbox : inbox[i].event # d)
                         => \A i \in DOMAIN inbox' : inbox'[i].event # d
  BY <1>2
<1>7. CASE Unregister(e) /\ UNCHANGED <<running, reliable>>
  <2>1. /\ DOMAIN jobs' \subseteq DOMAIN jobs
        /\ \A k \in DOMAIN jobs' : jobs'[k] = jobs[k]
        /\ daily' \subseteq Events
        /\ \A x \in Events \ {e}, p \in Phases : HasJob(x, p)' <=> HasJob(x, p)
    BY <1>1, <1>3, <1>7, Unregistering
  <2>2. Shape'
    BY <1>1, <1>2, <1>5, <1>7, <2>1 DEF Shape, TypeOK
  <2>3. Order'
    BY <1>1, <1>5, <1>7, <2>1
       DEF Order, OneTask, UnknownIsQuiet, DownIsIdle, Alone, HasJob, IsRunning, Announcements
  <2>4. ASSUME NEW d \in Events PROVE Kept(d)'
    <3>1. CASE d = e
      BY <1>4, <1>7, <3>1 DEF Kept
    <3>2. CASE d # e
      <4>1. Untouched(d)
        BY <1>5, <1>7, <2>1, <3>2 DEF Untouched, HasJob, IsRunning
      <4> QED BY <1>6, <1>7, <4>1, KeptFrame DEF EventInv, Kept, Steady
    <3> QED BY <3>1, <3>2
  <2> QED BY <2>2, <2>3, <2>4 DEF EventInv
<1>8. CASE known[e] # Absent /\ Schedule(e, known[e]) /\ UNCHANGED <<running, reliable>>
  <2>1. known[e] \in Schedules
    BY <1>1, <1>3, <1>8 DEF Shape, TypeOK
  <2>2. /\ DOMAIN jobs' \subseteq Events \X Phases
        /\ \A k \in DOMAIN jobs' : jobs'[k] \in now .. MaxTime
        /\ daily' \subseteq Events
        /\ \A x \in Events \ {e}, p \in Phases :
             (HasJob(x, p)' <=> HasJob(x, p)) /\ (HasJob(x, p) => jobs'[<<x, p>>] = jobs[<<x, p>>])
    BY <1>1, <1>3, <1>8, <2>1, Scheduling
  <2>3. Shape'
    <3>1. broken' \in BOOLEAN /\ failed' \in [Events -> SUBSET Rated]
      BY <1>1, <1>5 DEF Shape, TypeOK
    <3>2. TypeOK'
      BY <1>1, <1>5, <1>8, <2>2, <3>1 DEF Shape, TypeOK
    <3> QED BY <1>1, <1>2, <1>5, <1>8, <3>2 DEF Shape
  <2>4. Order'
    <3>1. OneTask' /\ Alone' /\ DownIsIdle'
      BY <1>1, <1>5, <1>8 DEF Order, OneTask, Alone, DownIsIdle
    <3>2. ASSUME NEW d \in Events, known'[d] = Absent
          PROVE  failed'[d] = {} /\ \A p \in Phases :
                   ~HasJob(d, p)' /\ ~IsRunning(p, d)' /\ Announcements(d, p)' = {}
      <4>1. /\ failed[d] = {} /\ d # e
            /\ \A p \in Phases : ~HasJob(d, p) /\ ~IsRunning(p, d) /\ Announcements(d, p) = {}
        BY <1>1, <1>5, <1>8, <3>2 DEF Order, UnknownIsQuiet
      <4>2. \A p \in Phases : ~HasJob(d, p)'
        BY <2>2, <4>1
      <4>3. failed'[d] = {}
        BY <1>5, <4>1
      <4>4. \A p \in Phases : ~IsRunning(p, d)'
        BY <1>8, <4>1 DEF IsRunning
      <4>5. \A p \in Phases : Announcements(d, p)' = {}
        BY <1>5, <4>1 DEF Announcements
      <4> QED BY <4>2, <4>3, <4>4, <4>5
    <3> QED BY <3>1, <3>2 DEF Order, UnknownIsQuiet
  <2>5. ASSUME NEW d \in Events PROVE Kept(d)'
    <3>1. CASE d = e
      BY <1>4, <1>8, <3>1 DEF Kept
    <3>2. CASE d # e
      <4>1. Untouched(d)
        BY <1>5, <1>8, <2>2, <3>2 DEF Untouched, IsRunning
      <4> QED BY <1>6, <1>8, <4>1, KeptFrame DEF EventInv, Kept, Steady
    <3> QED BY <3>1, <3>2
  <2> QED BY <2>3, <2>4, <2>5 DEF EventInv
<1>9. CASE /\ kind # "DELETE" /\ known[e] = Absent /\ Join(Task(kind, e))
           /\ UNCHANGED <<jobs, daily>>
  <2> DEFINE r == Task(kind, e)
  <2>1. /\ r \in Tasks /\ r.step = "started" /\ ~r.clash /\ r.job \notin Phases
        /\ r.job = kind /\ r.event = e
    BY <1>3, <1>9 DEF Task, Tasks, Reading, Phases
  <2>2. Join(r)
    BY <1>9
  <2> HIDE DEF r
  <2>3. /\ OneTask' /\ Alone'
        /\ \A d \in Events, p \in Phases : IsRunning(p, d)' <=> IsRunning(p, d)
    BY <1>1, <1>5, <1>9, <2>1, <2>2, JoinOrder
  <2>4. /\ running' \subseteq Tasks /\ reliable' \in [Events -> Times \cup {Unreliable}]
        /\ \A d \in Events : reliable'[d] \in {reliable[d], Unreliable}
    BY <1>1, <2>1, <2>2, Joining
  <2>5. Shape'
    BY <1>1, <1>2, <1>5, <1>9, <2>4 DEF Shape, TypeOK, Tasks
  <2>6. Order'
    BY <1>1, <1>5, <1>9, <2>3 DEF Order, UnknownIsQuiet, DownIsIdle, HasJob, Announcements
  <2>7. ASSUME NEW d \in Events PROVE Kept(d)'
    <3>1. CASE d = e
      BY <1>4, <2>4, <3>1 DEF Kept
    <3>2. CASE d # e
      <4>1. Untouched(d)
        BY <1>5, <1>9, <2>3 DEF Untouched, HasJob
      <4>2. ASSUME reliable'[d] # Unreliable
            PROVE  \A x \in running' : x.event = d => FALSE
        <5>1. running = {} \/ \A x \in running \cup {r} : x.event # d
          BY <1>1, <2>1, <2>2, <4>2, Joining
        <5>2. \A x \in running \cup {r} : x.event # d
          BY <5>1, <2>1, <3>2
        <5> QED BY <1>1, <2>1, <2>2, <5>2, Joining
      <4> QED BY <1>6, <2>4, <4>1, <4>2, KeptFrame DEF EventInv, Kept, Steady
    <3> QED BY <3>1, <3>2
  <2> QED BY <2>5, <2>6, <2>7 DEF EventInv
<1>10. CASE UNCHANGED <<jobs, daily, running, reliable>>
  <2>1. Shape'
    BY <1>1, <1>2, <1>5, <1>10 DEF Shape, TypeOK
  <2>2. Order'
    BY <1>1, <1>5, <1>10, OrderFrame
  <2>3. ASSUME NEW d \in Events PROVE Kept(d)'
    <3>1. Untouched(d)
      BY <1>5, <1>10 DEF Untouched, HasJob, IsRunning
    <3> QED BY <1>6, <1>10, <3>1, KeptFrame DEF EventInv, Kept, Steady
  <2> QED BY <2>1, <2>2, <2>3 DEF EventInv
<1> QED BY <1>5, <1>7, <1>8, <1>9, <1>10

LEMMA LoadedStep ==
  ASSUME EventInv, NEW r \in running, Loaded(r)
  PROVE  EventInv'
<1> DEFINE e == r.event
           d == IF known[e] # Absent THEN known[e] ELSE db[e]
<1>1. Shape /\ Order
  BY DEF EventInv
<1>2. /\ r \in Tasks /\ e \in Events /\ r.job \in Reading /\ r.job \notin Phases
      /\ running' = running \ {r} /\ ~broken
      /\ UNCHANGED <<now, db, tx, service, inbox, announced, broken, failed, stops, extras>>
  BY <1>1 DEF Loaded, Shape, Tasks, Reading, Phases, store, counters, ratings
<1>3. reliable[e] = Unreliable
  BY <1>2, RelyOn DEF Steady
<1>4. /\ \A p \in Phases, x \in Events : IsRunning(p, x)' <=> IsRunning(p, x)
      /\ running' \subseteq running
  BY <1>2 DEF IsRunning
<1>5. Alone /\ (~r.clash => running' = {} /\ known[e] = Absent)
  BY <1>1, <1>2 DEF Order, Alone
<1>6. CASE d \notin Schedules
  <2>1. UNCHANGED <<known, jobs, daily, reliable>>
    BY <1>6 DEF Loaded, scheduler, ratings
  <2>2. Shape'
    BY <1>1, <1>2, <1>4, <2>1 DEF Shape, TypeOK
  <2>3. Order'
    BY <1>1, <1>2, <1>4, <2>1
       DEF Order, OneTask, UnknownIsQuiet, DownIsIdle, Alone, HasJob, Announcements
  <2>4. ASSUME NEW x \in Events PROVE Kept(x)'
    <3>1. Untouched(x)
      BY <1>2, <1>4, <2>1 DEF Untouched, HasJob
    <3> QED BY <1>2, <1>4, <2>1, <3>1, KeptFrame DEF EventInv, Kept, Steady
  <2> QED BY <2>2, <2>3, <2>4 DEF EventInv
<1>7. CASE d \in Schedules
  <2>1. /\ known' = [known EXCEPT ![e] = d] /\ Schedule(e, d)
        /\ reliable' = [reliable EXCEPT ![e] =
              IF r.job = "NEW" /\ ~r.clash /\ Undisturbed(e) THEN now ELSE @]
    BY <1>7 DEF Loaded
  <2>2. /\ DOMAIN jobs' \subseteq Events \X Phases
        /\ \A k \in DOMAIN jobs' : jobs'[k] \in now .. MaxTime
        /\ daily' \subseteq Events
        /\ \A x \in Events \ {e}, p \in Phases :
             (HasJob(x, p)' <=> HasJob(x, p)) /\ (HasJob(x, p) => jobs'[<<x, p>>] = jobs[<<x, p>>])
        /\ \A p \in Phases :
             (HasJob(e, p)' <=> d[p] >= now) /\ (HasJob(e, p)' => jobs'[<<e, p>>] = d[p])
    BY <1>1, <1>2, <1>7, <2>1, Scheduling
  <2>3. d # Absent /\ (known[e] = Absent => d = db[e]) /\ Absent \notin Schedules
    BY <1>7, Constants
  <2>4. ~r.clash /\ Undisturbed(e) => d = db[e] /\ db[e] \in Schedules
    BY <1>5, <2>3 DEF Undisturbed, Exists
  <2>9. now \in Times /\ now \in Nat /\ reliable \in [Events -> Times \cup {Unreliable}]
        /\ known \in [Events -> Schedules \cup {Absent}]
    BY <1>1 DEF Shape, TypeOK, Times
  <2>10. Phases # {}
    BY DEF Phases
  <2> HIDE DEF d, e
  <2>5. Shape'
    <3>1. TypeOK'
      BY <1>1, <1>2, <1>4, <1>7, <2>1, <2>2, <2>9 DEF Shape, TypeOK
    <3> QED BY <1>1, <1>2, <1>4, <3>1 DEF Shape
  <2>6. Order'
    <3>1. UnknownIsQuiet'
      <4> SUFFICES ASSUME NEW x \in Events, known'[x] = Absent, NEW p \in Phases
                   PROVE  failed'[x] = {} /\ ~HasJob(x, p)' /\ ~IsRunning(p, x)'
                          /\ Announcements(x, p)' = {}
        BY <2>10 DEF UnknownIsQuiet
      <4>1. x # e /\ known[x] = Absent
        BY <2>1, <2>3, <2>9
      <4>2. failed[x] = {} /\ ~HasJob(x, p) /\ ~IsRunning(p, x) /\ Announcements(x, p) = {}
        BY <1>1, <4>1 DEF Order, UnknownIsQuiet
      <4>3. Announcements(x, p)' = Announcements(x, p)
        BY <1>2 DEF Announcements
      <4> QED BY <1>2, <1>4, <2>2, <4>1, <4>2, <4>3
    <3>2. OneTask' /\ Alone'
      BY <1>1, <1>2, <1>4, <2>1 DEF Order, OneTask, Alone
    <3>3. DownIsIdle'
      BY <1>1, <1>2 DEF Order, DownIsIdle
    <3> QED BY <3>1, <3>2, <3>3 DEF Order
  <2>7. ASSUME NEW x \in Events, x # e PROVE Kept(x)'
    <3>1. Untouched(x)
      BY <1>2, <1>4, <2>1, <2>2, <2>7, <2>9 DEF Untouched
    <3> QED BY <1>2, <1>4, <2>1, <2>7, <2>9, <3>1, KeptFrame DEF EventInv, Kept, Steady
  <2>8. Kept(e)'
    <3> SUFFICES ASSUME reliable'[e] # Unreliable
                 PROVE  Steady(e)' /\ \A p \in Phases : OnTime(e, p)'
      BY DEF Kept
    <3>1. ~r.clash /\ Undisturbed(e) /\ reliable'[e] = now
      BY <1>2, <1>3, <2>1, <2>9
    <3>2. /\ d = db[e] /\ db[e] \in Schedules /\ running' = {} /\ known[e] = Absent
          /\ \A p \in Phases : db[e][p] \in Nat
      BY <1>5, <2>4, <3>1, Constants DEF Times, e
    <3>3. Steady(e)'
      BY <1>2, <2>1, <2>9, <3>1, <3>2 DEF Steady, Undisturbed, Exists
    <3>4. ASSUME NEW p \in Phases PROVE OnTime(e, p)'
      <4>1. ~IsRunning(p, e)' /\ Announcements(e, p)' = {}
        BY <1>1, <1>2, <3>2 DEF Order, UnknownIsQuiet, IsRunning, Announcements
      <4>2. failed'[e] = {}
        BY <1>1, <1>2, <3>2 DEF Order, UnknownIsQuiet, e
      <4> QED BY <1>2, <2>2, <2>9, <3>1, <3>2, <4>1, <4>2 DEF OnTime, Over, Scheduled
    <3> QED BY <3>3, <3>4
  <2> QED BY <2>5, <2>6, <2>7, <2>8 DEF EventInv
<1> QED BY <1>6, <1>7

\* A step that only ends a task which announces nothing.
LEMMA EndStep ==
  ASSUME EventInv, NEW r \in running, running' = running \ {r},
         \/ r.job \notin Phases
         \/ r.event \in Events /\ reliable[r.event] = Unreliable,
         UNCHANGED <<now, store, service, known, scheduler, inbox, announced, broken, failed, reliable, counters>>
  PROVE  EventInv'
<1>1. Shape /\ Order /\ r.event \in Events /\ running' \subseteq running
      /\ UNCHANGED <<now, db, tx, service, known, jobs, daily, inbox, announced, broken, failed, reliable, stops>>
  BY DEF EventInv, store, scheduler, counters, Shape, TypeOK, ratings
<1>2. Shape'
  BY <1>1 DEF Shape, TypeOK
<1>3. \A p \in Phases, x \in Events : IsRunning(p, x)' => IsRunning(p, x)
  BY <1>1 DEF IsRunning
<1>4. Order'
  <2>1. OneTask' /\ Alone'
    BY <1>1 DEF Order, OneTask, Alone
  <2>2. UnknownIsQuiet'
    BY <1>1, <1>3 DEF Order, UnknownIsQuiet, HasJob, Announcements
  <2>3. DownIsIdle'
    BY <1>1 DEF Order, DownIsIdle
  <2> QED BY <2>1, <2>2, <2>3 DEF Order
<1>5. ASSUME NEW x \in Events, reliable[x] # Unreliable PROVE Kept(x)'
  <2>1. \A p \in Phases : IsRunning(p, x)' <=> IsRunning(p, x)
    BY <1>5 DEF IsRunning
  <2>2. Untouched(x)
    BY <1>1, <2>1 DEF Untouched, HasJob
  <2> QED BY <1>1, <2>2, KeptFrame DEF EventInv, Kept, Steady
<1>6. ASSUME NEW x \in Events, reliable[x] = Unreliable PROVE Kept(x)'
  BY <1>1, <1>6 DEF Kept
<1> QED BY <1>2, <1>4, <1>5, <1>6 DEF EventInv

LEMMA SavedStep ==
  ASSUME EventInv, NEW r \in running, Saved(r)
  PROVE  EventInv'
BY EndStep DEF Saved, Phases, ratings

LEMMA FailStep ==
  ASSUME EventInv, NEW r \in running, Fail(r)
  PROVE  EventInv'
<1>1. r.event \in Events /\ (r.clash \/ broken)
  BY DEF EventInv, Shape, TypeOK, Fail
<1>2. reliable[r.event] = Unreliable
  BY <1>1, RelyOn DEF Steady
<1> QED BY <1>1, <1>2, EndStep DEF Fail, ratings

LEMMA FireStep ==
  ASSUME EventInv, NEW e \in Events, NEW p \in Phases, Fire(e, p)
  PROVE  EventInv'
<1> DEFINE r == Task(p, e)
<1>1. /\ Shape /\ Order /\ HasJob(e, p) /\ jobs[<<e, p>>] <= now
      /\ UNCHANGED <<now, db, tx, service, known, daily, inbox, announced, broken, failed, stops, extras>>
  BY DEF EventInv, Fire, HasJob, store, counters, ratings
<1>2. /\ \A x \in Events, q \in Phases :
           HasJob(x, q)' <=> HasJob(x, q) /\ (x # e \/ q # p)
      /\ \A k \in DOMAIN jobs' : k \in DOMAIN jobs /\ jobs'[k] = jobs[k]
  BY DEF Fire, HasJob
<1>3. known[e] # Absent
  BY <1>1 DEF Order, UnknownIsQuiet
<1>4. /\ r \in Tasks /\ r.step = "started" /\ ~r.clash /\ r.job = p /\ r.event = e
      /\ r.job \notin Reading /\ r.job # "INIT"
  BY DEF Task, Tasks, Phases, Reading
<1>5. ~IsRunning(p, e) => Join(r)
  BY DEF Fire
<1> HIDE DEF r
<1>6. CASE IsRunning(p, e)
  <2>1. UNCHANGED <<running, reliable>>
    BY <1>6 DEF Fire
  <2>2. Shape'
    BY <1>1, <1>2, <2>1 DEF Shape, TypeOK
  <2>3. Order'
    BY <1>1, <1>2, <2>1 DEF Order, OneTask, UnknownIsQuiet, DownIsIdle, Alone, IsRunning, Announcements
  <2>4. reliable[e] = Unreliable
    <3>1. SUFFICES ASSUME reliable[e] # Unreliable PROVE FALSE
      OBVIOUS
    <3>2. OnTime(e, p)
      BY <3>1, RelyOn
    <3> QED BY <1>1, <1>6, <3>2 DEF OnTime, Over, Scheduled, UnderWay, Published, Unrated
  <2>5. ASSUME NEW x \in Events PROVE Kept(x)'
    <3>1. CASE x = e
      BY <2>1, <2>4, <3>1 DEF Kept
    <3>2. CASE x # e
      <4>1. Untouched(x)
        BY <1>1, <1>2, <2>1, <3>2 DEF Untouched, IsRunning, HasJob
      <4> QED BY <1>1, <2>1, <4>1, KeptFrame DEF EventInv, Kept, Steady
    <3> QED BY <3>1, <3>2
  <2> QED BY <2>2, <2>3, <2>5 DEF EventInv
<1>7. CASE ~IsRunning(p, e)
  <2>1. /\ OneTask' /\ Alone'
        /\ \A x \in Events, q \in Phases :
             IsRunning(q, x)' <=> IsRunning(q, x) \/ (p = q /\ e = x)
    BY <1>1, <1>4, <1>5, <1>7, JoinOrder
  <2>2. /\ running' \subseteq Tasks /\ reliable' \in [Events -> Times \cup {Unreliable}]
        /\ \A x \in Events : reliable'[x] \in {reliable[x], Unreliable}
        /\ running = {} => running' = {r}
        /\ \A x \in Events : reliable'[x] # Unreliable =>
             running = {} \/ \A y \in running \cup {r} : y.event # x
    BY <1>1, <1>4, <1>5, <1>7, Joining
  <2>3. Shape'
    BY <1>1, <1>2, <2>2 DEF Shape, TypeOK, Tasks
  <2>4. Order'
    <3>1. UnknownIsQuiet'
      BY <1>1, <1>2, <1>3, <2>1 DEF Order, UnknownIsQuiet, Announcements
    <3>2. DownIsIdle'
      BY <1>1, <1>3 DEF Order, DownIsIdle
    <3> QED BY <2>1, <3>1, <3>2 DEF Order
  <2>5. ASSUME NEW x \in Events, reliable'[x] # Unreliable
        PROVE  \A y \in running' : y.event = x => y.job \notin Reading /\ ~y.clash
    <3>1. CASE running = {}
      BY <1>4, <2>2, <3>1
    <3>2. CASE running # {}
      <4>1. \A y \in running \cup {r} : y.event # x
        BY <2>2, <2>5, <3>2
      <4>2. \A z \in running' : \E y \in running \cup {r} : z.event = y.event
        BY <1>1, <1>4, <1>5, <1>7, Joining
      <4> QED BY <4>1, <4>2
    <3> QED BY <3>1, <3>2
  <2>6. ASSUME NEW x \in Events, x # e PROVE Kept(x)'
    <3>1. Untouched(x)
      BY <1>1, <1>2, <2>1, <2>6 DEF Untouched, HasJob
    <3> QED BY <1>1, <2>2, <2>5, <3>1, KeptFrame DEF EventInv, Kept, Steady
  <2>7. Kept(e)'
    <3> SUFFICES ASSUME reliable'[e] # Unreliable
                 PROVE  Steady(e)' /\ \A q \in Phases : OnTime(e, q)'
      BY DEF Kept
    <3>1. reliable'[e] = reliable[e] /\ Steady(e) /\ \A q \in Phases : OnTime(e, q)
      BY <2>2, RelyOn
    <3>2. Steady(e)'
      BY <1>1, <2>5, <3>1 DEF Steady, Exists
    <3>3. \A q \in Phases : Announcements(e, q)' = Announcements(e, q)
      BY <1>1 DEF Announcements
    <3>4. OnTime(e, p)'
      BY <1>1, <1>2, <1>7, <2>1, <3>1, <3>3
         DEF OnTime, Over, Scheduled, UnderWay, Published, Unrated
    <3>5. ASSUME NEW q \in Phases, q # p PROVE OnTime(e, q)'
      <4>1. /\ HasJob(e, q)' <=> HasJob(e, q)
            /\ IsRunning(q, e)' <=> IsRunning(q, e)
            /\ HasJob(e, q) => jobs'[<<e, q>>] = jobs[<<e, q>>]
        BY <1>2, <2>1, <3>5 DEF HasJob
      <4>2. OnTime(e, q)
        BY <3>1
      <4> QED BY <1>1, <3>1, <3>3, <4>1, <4>2
              DEF OnTime, Over, Scheduled, UnderWay, Published, Unrated
    <3> QED BY <3>2, <3>4, <3>5
  <2> QED BY <2>3, <2>4, <2>6, <2>7 DEF EventInv
<1> QED BY <1>6, <1>7

LEMMA ReadStep ==
  ASSUME EventInv, NEW r \in running, Read(r)
  PROVE  EventInv'
<1>1. /\ Shape /\ Order /\ r \in Tasks /\ r.event \in Events /\ r.job \in Phases /\ r.job \notin Reading
      /\ UNCHANGED <<now, db, tx, service, known, jobs, daily, inbox, announced, broken, failed, reliable, stops>>
  BY DEF EventInv, Read, Shape, Tasks, Phases, Reading, store, scheduler, counters, ratings
<1>2. CASE ~Exists(r.event)
  <2>1. running' = running \ {r}
    BY <1>2 DEF Read
  <2>2. reliable[r.event] = Unreliable
    BY <1>1, <1>2, RelyOn DEF Steady
  <2> QED BY <1>1, <2>1, <2>2, EndStep DEF Read
<1>3. CASE Exists(r.event)
  <2> DEFINE s == [r EXCEPT !.step = "loaded"]
  <2>1. /\ s \in Tasks /\ s.job = r.job /\ s.event = r.event /\ s.clash = r.clash
    BY <1>1 DEF Tasks
  <2>2. running' = (running \ {r}) \cup {s}
    BY <1>3 DEF Read
  <2> HIDE DEF s
  <2>3. Shape'
    BY <1>1, <2>1, <2>2 DEF Shape, TypeOK, Tasks
  <2>4. \A x \in Events, p \in Phases : IsRunning(p, x)' <=> IsRunning(p, x)
    BY <2>1, <2>2 DEF IsRunning
  <2>5. OneTask' /\ Alone'
    BY <1>1, <2>1, <2>2 DEF Order, OneTask, Alone
  <2>6. UnknownIsQuiet'
    BY <1>1, <2>4 DEF Order, UnknownIsQuiet, HasJob, Announcements
  <2>7. DownIsIdle'
    BY <1>1 DEF Order, DownIsIdle
  <2>8. ASSUME NEW x \in Events PROVE Kept(x)'
    <3>1. Untouched(x)
      BY <1>1, <2>4 DEF Untouched, HasJob
    <3>2. Kept(x)
      BY DEF EventInv
    <3>3. reliable[x] # Unreliable => \A y \in running' : y.event = x => y.job \notin Reading /\ ~y.clash
      BY <1>1, <2>1, <2>2, <3>2 DEF Kept, Steady
    <3> QED BY <1>1, <3>1, <3>2, <3>3, KeptFrame DEF Kept, Steady
  <2> QED BY <2>3, <2>5, <2>6, <2>7, <2>8 DEF EventInv, Order
<1> QED BY <1>2, <1>3

LEMMA AnnounceStep ==
  ASSUME EventInv, NEW r \in running, Announce(r)
  PROVE  EventInv'
<1> DEFINE e == r.event
           a == [phase |-> r.job, epoch |-> stops]
<1>1. /\ Shape /\ Order /\ r \in Tasks /\ e \in Events /\ r.job \in Phases
      /\ UNCHANGED <<now, db, tx, service, known, jobs, daily, inbox, broken, failed, reliable, stops>>
      /\ running' = running \ {r}
  BY DEF EventInv, Announce, Shape, Tasks, store, scheduler, counters, ratings
<1>2. /\ a \in [phase : Phases, epoch : 0 .. stops] /\ a.phase = r.job /\ stops \in Nat
      /\ announced[e] \in Seq([phase : Phases, epoch : 0 .. stops])
      /\ announced \in [Events -> Seq([phase : Phases, epoch : 0 .. stops])]
  <2>1. stops \in Nat /\ announced \in [Events -> Seq([phase : Phases, epoch : 0 .. stops])]
    BY <1>1 DEF Shape
  <2>2. stops \in 0 .. stops
    BY <2>1
  <2> QED BY <1>1, <2>1, <2>2
<1>3. announced' = [announced EXCEPT ![e] = Append(announced[e], a)]
  BY DEF Announce
<1>4. /\ announced'[e] = Append(announced[e], a)
      /\ \A x \in Events \ {e} : announced'[x] = announced[x]
  BY <1>2, <1>3, <1>1
<1> HIDE DEF a
<1>5. /\ Append(announced[e], a) \in Seq([phase : Phases, epoch : 0 .. stops])
      /\ \A i \in DOMAIN announced[e] : announced'[e][i] = announced[e][i]
      /\ announced'[e][Len(announced[e]) + 1] = a /\ Len(announced[e]) + 1 \notin DOMAIN announced[e]
      /\ DOMAIN announced'[e] = DOMAIN announced[e] \cup {Len(announced[e]) + 1}
  <2> HIDE DEF e
  <2> QED BY <1>2, <1>4, Appended
<1>6. /\ \A x \in Events \ {e}, p \in Phases : Announcements(x, p)' = Announcements(x, p)
      /\ \A p \in Phases \ {r.job} : Announcements(e, p)' = Announcements(e, p)
      /\ Announcements(e, r.job)' = Announcements(e, r.job) \cup {Len(announced[e]) + 1}
  <2>1. \A x \in Events \ {e}, p \in Phases : Announcements(x, p)' = Announcements(x, p)
    BY <1>1, <1>4 DEF Announcements
  <2>2. \A p \in Phases \ {r.job} : Announcements(e, p)' = Announcements(e, p)
    BY <1>1, <1>2, <1>5 DEF Announcements
  <2>3. Announcements(e, r.job)' = Announcements(e, r.job) \cup {Len(announced[e]) + 1}
    BY <1>1, <1>2, <1>5 DEF Announcements, a
  <2> QED BY <2>1, <2>2, <2>3
<1>7. IsRunning(r.job, e) /\ known[e] # Absent
  BY <1>1 DEF Order, UnknownIsQuiet, IsRunning
<1>8. /\ \A x \in Events, p \in Phases : x # e \/ p # r.job =>
           (IsRunning(p, x)' <=> IsRunning(p, x))
      /\ ~IsRunning(r.job, e)'
  BY <1>1 DEF IsRunning, Order, OneTask
<1> HIDE DEF e
<1>9. Shape'
  BY <1>1, <1>2, <1>3, <1>5 DEF Shape, TypeOK
<1>10. Order'
  <2>1. OneTask' /\ Alone'
    BY <1>1 DEF Order, OneTask, Alone
  <2>2. UnknownIsQuiet'
    BY <1>1, <1>6, <1>7, <1>8 DEF Order, UnknownIsQuiet, HasJob
  <2>3. DownIsIdle'
    BY <1>1 DEF Order, DownIsIdle
  <2> QED BY <2>1, <2>2, <2>3 DEF Order
<1>11. ASSUME NEW x \in Events, x # e PROVE Kept(x)'
  <2>1. Untouched(x)
    BY <1>1, <1>4, <1>8, <1>11 DEF Untouched, HasJob
  <2> QED BY <1>1, <2>1, KeptFrame DEF EventInv, Kept, Steady
<1>12. Kept(e)'
  <2> SUFFICES ASSUME reliable'[e] # Unreliable
               PROVE  Steady(e)' /\ \A p \in Phases : OnTime(e, p)'
    BY DEF Kept
  <2>1. Steady(e) /\ \A p \in Phases : OnTime(e, p)
    BY <1>1, RelyOn
  <2>2. Steady(e)'
    BY <1>1, <2>1 DEF Steady, Exists
  <2>3. OnTime(e, r.job)'
    <3>1. UnderWay(e, r.job) /\ ~(db[e][r.job] < reliable[e])
      BY <1>1, <1>7, <2>1 DEF OnTime, Over, Scheduled, UnderWay, Published, Unrated
    <3>2. Announcements(e, r.job)' = {Len(announced[e]) + 1}
      BY <1>6, <3>1 DEF UnderWay
    <3> QED BY <1>1, <1>5, <1>8, <3>1, <3>2 DEF OnTime, UnderWay, Published, Unrated, HasJob
  <2>4. ASSUME NEW p \in Phases, p # r.job PROVE OnTime(e, p)'
    <3>1. /\ OnTime(e, p) /\ Announcements(e, p)' = Announcements(e, p)
          /\ IsRunning(p, e)' <=> IsRunning(p, e)
          /\ HasJob(e, p)' <=> HasJob(e, p)
      BY <1>1, <1>6, <1>8, <2>1, <2>4 DEF HasJob
    <3> QED BY <1>1, <1>5, <3>1 DEF OnTime, Over, Scheduled, UnderWay, Published, Unrated
  <2> QED BY <2>2, <2>3, <2>4
<1> QED BY <1>9, <1>10, <1>11, <1>12 DEF EventInv

LEMMA RaiseStep ==
  ASSUME EventInv, NEW r \in running, Raise(r)
  PROVE  EventInv'
<1> DEFINE e == r.event
<1>1. /\ Shape /\ Order /\ r \in Tasks /\ e \in Events /\ r.job \in Phases /\ r.job \in Rated
      /\ UNCHANGED <<now, db, tx, service, known, jobs, daily, inbox, announced, broken, reliable, stops>>
      /\ running' = running \ {r}
      /\ failed' = [failed EXCEPT ![e] = @ \cup {r.job}]
  BY DEF EventInv, Raise, Shape, Tasks, Phases, Rated, store, scheduler, counters, ratings
<1>2. /\ failed \in [Events -> SUBSET Rated] /\ failed' \in [Events -> SUBSET Rated]
      /\ failed'[e] = failed[e] \cup {r.job}
      /\ \A x \in Events \ {e} : failed'[x] = failed[x]
  BY <1>1 DEF Shape, TypeOK
<1>3. IsRunning(r.job, e) /\ known[e] # Absent
  BY <1>1 DEF Order, UnknownIsQuiet, IsRunning
<1>4. /\ \A x \in Events, p \in Phases : x # e \/ p # r.job =>
           (IsRunning(p, x)' <=> IsRunning(p, x))
      /\ ~IsRunning(r.job, e)'
  BY <1>1 DEF IsRunning, Order, OneTask
<1> HIDE DEF e
<1>5. Shape'
  BY <1>1, <1>2 DEF Shape, TypeOK
<1>6. \A x \in Events, p \in Phases : Announcements(x, p)' = Announcements(x, p)
  BY <1>1 DEF Announcements
<1>7. Order'
  <2>1. OneTask' /\ Alone'
    BY <1>1 DEF Order, OneTask, Alone
  <2>2. UnknownIsQuiet'
    BY <1>1, <1>2, <1>3, <1>4, <1>6 DEF Order, UnknownIsQuiet, HasJob
  <2>3. DownIsIdle'
    BY <1>1 DEF Order, DownIsIdle
  <2> QED BY <2>1, <2>2, <2>3 DEF Order
<1>8. ASSUME NEW x \in Events, x # e PROVE Kept(x)'
  <2>1. Untouched(x)
    BY <1>1, <1>2, <1>4, <1>8 DEF Untouched, HasJob
  <2> QED BY <1>1, <2>1, KeptFrame DEF EventInv, Kept, Steady
<1>9. Kept(e)'
  <2> SUFFICES ASSUME reliable'[e] # Unreliable
               PROVE  Steady(e)' /\ \A p \in Phases : OnTime(e, p)'
    BY DEF Kept
  <2>1. Steady(e) /\ \A p \in Phases : OnTime(e, p)
    BY <1>1, RelyOn
  <2>2. Steady(e)'
    BY <1>1, <2>1 DEF Steady, Exists
  <2>3. OnTime(e, r.job)'
    <3>1. UnderWay(e, r.job) /\ ~(db[e][r.job] < reliable[e])
      BY <1>1, <1>3, <2>1 DEF OnTime, Over, Scheduled, UnderWay, Published, Unrated
    <3> QED BY <1>1, <1>2, <1>4, <1>6, <3>1 DEF OnTime, UnderWay, Unrated, HasJob
  <2>4. ASSUME NEW p \in Phases, p # r.job PROVE OnTime(e, p)'
    <3>1. /\ OnTime(e, p) /\ Announcements(e, p)' = Announcements(e, p)
          /\ IsRunning(p, e)' <=> IsRunning(p, e)
          /\ HasJob(e, p)' <=> HasJob(e, p)
          /\ p \in failed'[e] <=> p \in failed[e]
      BY <1>1, <1>2, <1>4, <1>6, <2>1, <2>4 DEF HasJob
    <3> QED BY <1>1, <3>1 DEF OnTime, Over, Scheduled, UnderWay, Published, Unrated
  <2> QED BY <2>2, <2>3, <2>4
<1> QED BY <1>5, <1>7, <1>8, <1>9 DEF EventInv

LEMMA BreakStep ==
  ASSUME EventInv, NEW r \in running, Break(r)
  PROVE  EventInv'
<1>1. /\ Shape /\ Order /\ running' \subseteq running /\ running # {} /\ broken' = TRUE
      /\ reliable' = [e \in Events |-> Unreliable]
      /\ UNCHANGED <<now, db, tx, service, known, jobs, daily, inbox, announced, failed, stops>>
  BY DEF EventInv, Break, store, scheduler, counters
<1>2. Shape'
  BY <1>1 DEF Shape, TypeOK
<1>3. \A p \in Phases, x \in Events : IsRunning(p, x)' => IsRunning(p, x)
  BY <1>1 DEF IsRunning
<1>4. Order'
  <2>1. OneTask' /\ Alone'
    BY <1>1 DEF Order, OneTask, Alone
  <2>2. UnknownIsQuiet'
    BY <1>1, <1>3 DEF Order, UnknownIsQuiet, HasJob, Announcements
  <2>3. DownIsIdle'
    BY <1>1 DEF Order, DownIsIdle
  <2> QED BY <2>1, <2>2, <2>3 DEF Order
<1>5. \A e \in Events : Kept(e)'
  BY <1>1 DEF Kept
<1> QED BY <1>2, <1>4, <1>5 DEF EventInv

LEMMA OnBalanceStep ==
  ASSUME EventInv, NEW e \in Events, OnBalance(e)
  PROVE  EventInv'
<1> DEFINE r == Task("BALANCE", e)
<1>1. /\ Shape /\ Order /\ service = "up" /\ Join(r)
      /\ UNCHANGED <<now, db, tx, service, known, jobs, daily, inbox, announced, broken, failed, stops>>
  BY DEF EventInv, OnBalance, store, scheduler, ratings
<1>2. /\ r \in Tasks /\ r.step = "started" /\ ~r.clash /\ r.event = e
      /\ r.job \notin Reading /\ r.job \notin Phases
  BY DEF Task, Tasks, Phases, Reading
<1> HIDE DEF r
<1>3. /\ OneTask' /\ Alone'
      /\ \A x \in Events, q \in Phases : IsRunning(q, x)' <=> IsRunning(q, x)
  BY <1>1, <1>2, JoinOrder
<1>4. /\ running' \subseteq Tasks /\ reliable' \in [Events -> Times \cup {Unreliable}]
      /\ \A x \in Events : reliable'[x] \in {reliable[x], Unreliable}
      /\ running = {} => running' = {r}
      /\ \A x \in Events : reliable'[x] # Unreliable =>
           running = {} \/ \A y \in running \cup {r} : y.event # x
  BY <1>1, <1>2, Joining
<1>5. Shape'
  BY <1>1, <1>4 DEF Shape, TypeOK, Tasks
<1>6. Order'
  <2>1. UnknownIsQuiet'
    BY <1>1, <1>3 DEF Order, UnknownIsQuiet, HasJob, Announcements
  <2>2. DownIsIdle'
    BY <1>1 DEF DownIsIdle
  <2> QED BY <1>3, <2>1, <2>2 DEF Order
<1>7. ASSUME NEW x \in Events PROVE Kept(x)'
  <2>1. Untouched(x)
    BY <1>1, <1>3 DEF Untouched, HasJob
  <2>2. ASSUME reliable'[x] # Unreliable
        PROVE  \A y \in running' : y.event = x => y.job \notin Reading /\ ~y.clash
    <3>1. CASE running = {}
      BY <1>2, <1>4, <3>1
    <3>2. CASE running # {}
      <4>1. \A y \in running \cup {r} : y.event # x
        BY <1>4, <2>2, <3>2
      <4>2. \A z \in running' : \E y \in running \cup {r} : z.event = y.event
        BY <1>1, <1>2, Joining
      <4> QED BY <4>1, <4>2
    <3> QED BY <3>1, <3>2
  <2> QED BY <1>1, <1>4, <2>1, <2>2, KeptFrame DEF EventInv, Kept, Steady
<1> QED BY <1>5, <1>6, <1>7 DEF EventInv

-----------------------------------------------------------------------------
(* Stops and starts, and the time.                                         *)

LEMMA StopStep ==
  ASSUME EventInv, Stop
  PROVE  EventInv'
<1>1. /\ Shape /\ stops \in Nat /\ stops' = stops + 1 /\ running' = {} /\ jobs' = <<>>
      /\ inbox' = <<>> /\ daily' = {} /\ service' = "down"
      /\ broken' = FALSE /\ failed' = [e \in Events |-> {}]
      /\ known' = [e \in Events |-> Absent] /\ reliable' = [e \in Events |-> Unreliable]
      /\ UNCHANGED <<now, db, tx, announced>>
  BY DEF EventInv, Stop, store, Shape, ratings
<1>2. ASSUME NEW e \in Events, NEW p \in Phases PROVE Announcements(e, p)' = {}
  <2>1. announced[e] \in Seq([phase : Phases, epoch : 0 .. stops])
    BY <1>1 DEF Shape
  <2>2. \A i \in DOMAIN announced[e] : announced[e][i] \in [phase : Phases, epoch : 0 .. stops]
    BY <2>1, Widened
  <2>3. ASSUME NEW a \in [phase : Phases, epoch : 0 .. stops] PROVE a.epoch # stops + 1
    <3>1. a.epoch \in 0 .. stops
      OBVIOUS
    <3> HIDE DEF Shape
    <3>2. stops + 1 \notin 0 .. stops
      BY <1>1
    <3> QED BY <3>1, <3>2
  <2>4. \A i \in DOMAIN announced[e] : announced[e][i] # [phase |-> p, epoch |-> stops + 1]
    BY <2>2, <2>3
  <2> QED BY <1>1, <2>4 DEF Announcements
<1>3. Shape'
  <2>1. TypeOK'
    <3>1. broken' \in BOOLEAN /\ failed' \in [Events -> SUBSET Rated]
      BY <1>1
    <3>2. /\ known' \in [Events -> Schedules \cup {Absent}] /\ DOMAIN jobs' = {}
          /\ reliable' \in [Events -> Times \cup {Unreliable}]
      BY <1>1
    <3> QED BY <1>1, <3>1, <3>2 DEF Shape, TypeOK
  <2>2. announced' \in [Events -> Seq([phase : Phases, epoch : 0 .. stops'])]
    <3> DEFINE A == [phase : Phases, epoch : 0 .. stops]
               B == [phase : Phases, epoch : 0 .. stops']
    <3>1. A \subseteq B /\ announced' = announced /\ announced \in [Events -> Seq(A)]
      <4>1. \A n \in 0 .. stops : n \in 0 .. stops'
        BY <1>1
      <4>2. A \subseteq B
        BY <4>1
      <4> QED BY <1>1, <4>2 DEF Shape
    <3> HIDE DEF A, B
    <3>2. announced = [e \in Events |-> announced[e]]
      BY <3>1
    <3>3. \A e \in Events : announced[e] \in Seq(B)
      BY <3>1, Widened
    <3>4. announced \in [Events -> Seq(B)]
      BY <3>2, <3>3
    <3> QED BY <3>1, <3>4 DEF B
  <2>3. running' \subseteq Tasks /\ inbox' \in Seq(Messages) /\ stops' \in Nat
    BY <1>1
  <2> QED BY <2>1, <2>2, <2>3 DEF Shape
<1>4. Order'
  BY <1>1, <1>2 DEF Order, OneTask, UnknownIsQuiet, DownIsIdle, Alone, HasJob, IsRunning
<1>5. \A e \in Events : Kept(e)'
  BY <1>1 DEF Kept
<1> QED BY <1>3, <1>4, <1>5 DEF EventInv

LEMMA StartStep ==
  ASSUME EventInv, Start
  PROVE  EventInv'
<1> DEFINE active == {e \in Events : Active(e)}
<1>1. /\ Shape /\ Order /\ service = "down" /\ service' = "starting" /\ running = {}
      /\ known' = [e \in Events |-> IF e \in active THEN db[e] ELSE Absent]
      /\ jobs' = [k \in {k \in active \X Phases : db[k[1]][k[2]] >= now} |-> db[k[1]][k[2]]]
      /\ daily' = active
      /\ running' = {Task("INIT", e) : e \in active}
      /\ reliable' = [e \in Events |-> IF e \in active /\ Undisturbed(e) THEN now ELSE Unreliable]
      /\ UNCHANGED <<now, db, tx, inbox, announced, broken, failed, stops, extras>>
  BY DEF EventInv, Start, store, counters, Order, DownIsIdle, ratings
<1>2. /\ now \in Times /\ now \in Nat /\ MaxTime \in Nat
      /\ \A e \in active : e \in Events /\ db[e] \in Schedules
      /\ \A e \in active, p \in Phases : db[e][p] \in Times /\ db[e][p] \in 0 .. MaxTime
  BY <1>1, Constants DEF Shape, TypeOK, Times, Active, Exists
<1>3. /\ \A e \in Events, p \in Phases : Announcements(e, p)' = {}
      /\ ~broken' /\ \A e \in Events : failed'[e] = {}
  BY <1>1 DEF Order, DownIsIdle, UnknownIsQuiet, Announcements
<1>4. \A e \in Events, p \in Phases :
        /\ HasJob(e, p)' <=> e \in active /\ db[e][p] >= now
        /\ HasJob(e, p)' => jobs'[<<e, p>>] = db[e][p]
  BY <1>1 DEF HasJob
<1>5. \A r \in running' : /\ r \in Tasks /\ r.job = "INIT" /\ ~r.clash
                          /\ r.job \notin Phases /\ r.job \notin Reading /\ r.event \in active
                          /\ r.step = "started"
  <2> SUFFICES ASSUME NEW e \in active
               PROVE  /\ Task("INIT", e) \in Tasks /\ Task("INIT", e).job = "INIT"
                      /\ ~Task("INIT", e).clash /\ Task("INIT", e).event \in active
                      /\ "INIT" \notin Phases /\ "INIT" \notin Reading
                      /\ Task("INIT", e).step = "started"
    <3> HIDE DEF active
    <3> QED BY <1>1
  <2>1. e \in Events
    OBVIOUS
  <2> HIDE DEF active
  <2> QED BY <2>1 DEF Task, Tasks, Phases, Reading
<1>6. \A k \in DOMAIN jobs' : k \in Events \X Phases /\ jobs'[k] \in now .. MaxTime
  BY <1>1, <1>2
<1> HIDE DEF active
<1>7. Shape'
  <2>1. known' \in [Events -> Schedules \cup {Absent}] /\ daily' \subseteq Events
        /\ reliable' \in [Events -> Times \cup {Unreliable}]
    BY <1>1, <1>2
  <2>2. TypeOK'
    BY <1>1, <1>2, <1>5, <1>6, <2>1 DEF Shape, TypeOK
  <2> QED BY <1>1, <1>5, <2>2 DEF Shape
<1>8. Order'
  <2>1. UnknownIsQuiet'
    <3>1. \A e \in Events : known'[e] = Absent => e \notin active
      BY <1>1, <1>2, Constants
    <3>2. ASSUME NEW e \in Events, NEW p \in Phases PROVE ~IsRunning(p, e)'
      BY <1>5 DEF IsRunning
    <3>3. ASSUME NEW e \in Events, known'[e] = Absent, NEW p \in Phases
          PROVE  ~HasJob(e, p)' /\ Announcements(e, p)' = {}
      BY <1>3, <1>4, <3>1, <3>3
    <3> QED BY <1>3, <3>2, <3>3 DEF UnknownIsQuiet
  <2>2. OneTask' /\ Alone'
    BY <1>5 DEF OneTask, Alone
  <2>3. DownIsIdle'
    BY <1>1 DEF DownIsIdle
  <2> QED BY <2>1, <2>2, <2>3 DEF Order
<1>9. ASSUME NEW e \in Events, reliable'[e] # Unreliable
      PROVE  Steady(e)' /\ \A p \in Phases : OnTime(e, p)'
  <2>1. e \in active /\ Undisturbed(e) /\ reliable'[e] = now /\ known'[e] = db[e]
    BY <1>1, <1>9
  <2>2. Steady(e)'
    BY <1>1, <1>2, <1>3, <1>5, <2>1 DEF Steady, Undisturbed, Exists
  <2>3. ASSUME NEW p \in Phases PROVE OnTime(e, p)'
    <3>1. ~IsRunning(p, e)'
      BY <1>5 DEF IsRunning
    <3>2. db[e][p] \in Nat
      BY <1>2, <2>1 DEF Times
    <3>3. now' = now /\ db'[e] = db[e] /\ Announcements(e, p)' = {} /\ now \in Nat
      BY <1>1, <1>2, <1>3
    <3>4. CASE db[e][p] < now
      <4>1. ~(db[e][p] >= now)
        BY <3>2, <3>3, <3>4
      <4>2. ~HasJob(e, p)'
        BY <1>4, <4>1
      <4> QED BY <2>1, <3>1, <3>3, <3>4, <4>2 DEF OnTime, Over
    <3>5. CASE ~(db[e][p] < now)
      <4>1. HasJob(e, p)' /\ jobs'[<<e, p>>] = db[e][p]
        BY <1>4, <2>1, <3>2, <3>3, <3>5
      <4> QED BY <1>3, <2>1, <3>1, <3>3, <3>5, <4>1 DEF OnTime, Scheduled
    <3> QED BY <3>4, <3>5
  <2> QED BY <2>2, <2>3
<1> QED BY <1>7, <1>8, <1>9 DEF EventInv, Kept

LEMMA SubscribeStep ==
  ASSUME EventInv, Subscribe
  PROVE  EventInv'
<1>1. /\ Shape /\ Order /\ service = "starting" /\ service' = "up"
      /\ UNCHANGED <<now, db, tx, known, jobs, daily, inbox, running, announced, broken, failed, reliable, stops>>
  BY DEF EventInv, Subscribe, store, scheduler, counters, ratings
<1>2. Shape'
  BY <1>1 DEF Shape, TypeOK
<1>3. Order'
  BY <1>1 DEF Order, OneTask, UnknownIsQuiet, DownIsIdle, Alone, HasJob, IsRunning, Announcements
<1>4. ASSUME NEW e \in Events PROVE Kept(e)'
  <2>1. Untouched(e)
    BY <1>1 DEF Untouched, HasJob, IsRunning
  <2> QED BY <1>1, <2>1, KeptFrame DEF EventInv, Kept, Steady
<1> QED BY <1>2, <1>3, <1>4 DEF EventInv

LEMMA TickStep ==
  ASSUME EventInv, Tick
  PROVE  EventInv'
<1>1. /\ Shape /\ Order /\ now' = now + 1 /\ now \in Nat /\ now < MaxTime /\ MaxTime \in Nat
      /\ \A k \in DOMAIN jobs : jobs[k] > now
      /\ UNCHANGED <<db, tx, service, known, jobs, daily, inbox, running, announced, broken, failed, reliable, stops>>
  <2>1. Shape /\ Order
    BY DEF EventInv
  <2>2. now \in Nat /\ MaxTime \in Nat
    BY <2>1, Constants DEF Shape, TypeOK, Times
  <2> QED BY <2>1, <2>2 DEF Tick, store, scheduler, counters, ratings
<1>2. Shape'
  <2>1. now' \in Times
    BY <1>1 DEF Times
  <2>2. \A k \in DOMAIN jobs' : jobs'[k] \in now' .. MaxTime
    BY <1>1 DEF Shape, TypeOK
  <2>3. TypeOK'
    BY <1>1, <2>1, <2>2 DEF Shape, TypeOK
  <2> QED BY <1>1, <2>3 DEF Shape
<1>3. Order'
  BY <1>1, OrderFrame
<1>4. ASSUME NEW e \in Events, reliable'[e] # Unreliable
      PROVE  Steady(e)' /\ \A p \in Phases : OnTime(e, p)'
  <2>1. /\ Steady(e) /\ \A p \in Phases : OnTime(e, p)
        /\ reliable[e] \in Nat /\ \A p \in Phases : db[e][p] \in Nat
    BY <1>1, <1>4, RelyOn, Constants DEF Shape, TypeOK, Times, Steady, Exists
  <2>2. Steady(e)'
    BY <1>1, <2>1 DEF Steady, Exists
  <2>3. ASSUME NEW p \in Phases PROVE OnTime(e, p)'
    <3>1. OnTime(e, p) /\ Announcements(e, p)' = Announcements(e, p) /\ db[e][p] \in Nat
      BY <1>1, <2>1 DEF Announcements
    <3> QED BY <1>1, <2>1, <3>1
            DEF OnTime, Over, Scheduled, UnderWay, Published, Unrated, HasJob, IsRunning
  <2> QED BY <2>2, <2>3
<1> QED BY <1>2, <1>3, <1>4 DEF EventInv, Kept

LEMMA EventInvStep ==
  ASSUME EventInv, [Next]_vars
  PROVE  EventInv'
<1>1. CASE UNCHANGED vars
  <2>1. /\ UNCHANGED <<now, db, tx, service, known, jobs, daily, inbox, running, announced, broken, failed, reliable, stops>>
        /\ Shape /\ Order
    BY <1>1 DEF vars, store, scheduler, counters, EventInv, ratings
  <2>2. Shape'
    BY <2>1 DEF Shape, TypeOK
  <2>3. Order'
    BY <2>1, OrderFrame
  <2>4. ASSUME NEW e \in Events PROVE Kept(e)'
    <3>1. Untouched(e)
      BY <2>1 DEF Untouched, HasJob, IsRunning
    <3> QED BY <2>1, <3>1, KeptFrame DEF EventInv, Kept, Steady
  <2> QED BY <2>2, <2>3, <2>4 DEF EventInv
<1>2. CASE Next
  BY <1>2, CreateStep, UpdateStep, DeleteStep, CommitStep, OnBalanceStep, FireStep, LoadedStep,
     ReadStep, AnnounceStep, RaiseStep, BreakStep, SavedStep, FailStep, HandleStep, StopStep, StartStep, SubscribeStep,
     TickStep DEF Next
<1> QED BY <1>1, <1>2

THEOREM EventInvariance == Spec => []EventInv
BY InitHolds, EventInvStep, PTL DEF Spec

-----------------------------------------------------------------------------
(* What the runs check of it.                                              *)

\* Every variable keeps its shape, whatever overlaps, and no job of the
\* scheduler is ever left in the past (EventService, apscheduler).
THEOREM EventTypes == Spec => []TypeOK
<1>1. EventInv => TypeOK
  BY DEF EventInv, Shape
<1> QED BY <1>1, EventInvariance, PTL

LEMMA PunctualHolds ==
  ASSUME EventInv
  PROVE  Punctual
<1> SUFFICES ASSUME NEW e \in Events, reliable[e] # Unreliable, Settled(e), NEW p \in Phases
             PROVE  Cardinality(Announcements(e, p)) =
                      IF reliable[e] <= db[e][p] /\ db[e][p] <= now /\ p \notin failed[e]
                      THEN 1 ELSE 0
  BY DEF Punctual
<1>1. /\ now \in Nat /\ reliable[e] \in Nat /\ db[e][p] \in Nat
      /\ Steady(e) /\ OnTime(e, p)
  <2>1. Shape /\ Steady(e) /\ OnTime(e, p)
    BY RelyOn DEF EventInv
  <2>2. now \in Times /\ reliable[e] \in Times /\ db[e][p] \in Times
    BY <2>1, Constants DEF Shape, TypeOK, Steady, Exists
  <2> QED BY <2>1, <2>2 DEF Times
<1>2. /\ \A r \in running : r.event # e
      /\ ~IsRunning(p, e)
      /\ HasJob(e, p) => jobs[<<e, p>>] > now
  BY DEF Settled, IsRunning, HasJob
<1>3. Cardinality({}) = 0 /\ \A i : Cardinality({i}) = 1
  BY FS_EmptySet, FS_Singleton
<1>4. CASE db[e][p] < reliable[e]
  BY <1>1, <1>3, <1>4 DEF OnTime, Over
<1>5. CASE ~(db[e][p] < reliable[e])
  <2>1. CASE Scheduled(e, p)
    BY <1>1, <1>2, <1>3, <2>1 DEF Scheduled
  <2>2. CASE UnderWay(e, p)
    BY <1>2, <2>2 DEF UnderWay
  <2>3. CASE Published(e, p)
    <3>1. PICK i : Announcements(e, p) = {i}
      BY <2>3 DEF Published
    <3>2. Cardinality(Announcements(e, p)) = 1
      BY <1>3, <3>1
    <3>3. reliable[e] <= db[e][p] /\ db[e][p] <= now /\ p \notin failed[e]
      BY <1>1, <1>5, <2>3 DEF Published
    <3> QED BY <3>2, <3>3
  <2>4. CASE Unrated(e, p)
    BY <1>3, <2>4 DEF Unrated
  <2> QED BY <1>1, <1>5, <2>1, <2>2, <2>3, <2>4 DEF OnTime
<1> QED BY <1>4, <1>5

\* Once nothing is due any more, an event that the service was undisturbed to
\* read, and that was not changed since, has had each of its phases announced
\* exactly once if its date came after the reading and its rating, when it has one,
\* did not raise, and not at all otherwise (EventService._schedule, schedule_job).
THEOREM Punctuality == Spec => []Punctual
BY EventInvariance, PunctualHolds, PTL

\* Who gets as far as to announce was there before, or found its event committed.
LEMMA SilenceStep ==
  ASSUME EventInv, [Next]_vars, NEW x \in running', x.step = "loaded"
  PROVE  \/ Exists(x.event)
         \/ \E y \in running : y.job = x.job /\ y.event = x.event /\ y.step = "loaded"
<1> DEFINE Before == \E y \in running : y.job = x.job /\ y.event = x.event /\ y.step = "loaded"
<1>1. Shape
  BY DEF EventInv
<1>2. CASE running' \subseteq running
  BY <1>2
<1>3. ASSUME NEW job \in Phases \cup Reading \cup {"BALANCE"}, NEW e \in Events, Join(Task(job, e))
      PROVE  Before
  <2> DEFINE t == Task(job, e)
  <2>1. t \in Tasks /\ t.step = "started" /\ ~t.clash
    BY DEF Task, Tasks
  <2> HIDE DEF t
  <2>2. Join(t)
    BY <1>3 DEF t
  <2>3. PICK y \in running \cup {t} : x.job = y.job /\ x.event = y.event /\ x.step = y.step
    BY <1>1, <2>1, <2>2, Joining
  <2> QED BY <2>1, <2>3
<1>4. CASE \E r \in running : Read(r)
  <2> PICK r \in running : Read(r)
    BY <1>4
  <2>1. CASE x \in running
    BY <2>1
  <2>2. CASE x \notin running
    <3>1. Exists(r.event) /\ x = [r EXCEPT !.step = "loaded"]
      BY <2>2 DEF Read
    <3>2. r \in Tasks
      BY <1>1 DEF Shape
    <3>3. x.event = r.event
      BY <3>1, <3>2 DEF Tasks
    <3> QED BY <3>1, <3>3
  <2> QED BY <2>1, <2>2
<1>5. CASE Start
  <2>1. \A e : Task("INIT", e).step = "started"
    BY DEF Task
  <2> QED BY <1>5, <2>1 DEF Start
<1>6. CASE Handle
  <2>1. inbox \in Seq(Messages) /\ inbox # <<>>
    BY <1>1, <1>6 DEF Shape, Handle
  <2>2. Head(inbox) \in Messages
    BY <2>1, Tailed
  <2>3. \/ running' = running
        \/ Head(inbox).kind # "DELETE" /\ Join(Task(Head(inbox).kind, Head(inbox).event))
    <3> DEFINE e == Head(inbox).event
               kind == Head(inbox).kind
    <3>1. \/ UNCHANGED <<running, reliable>>
          \/ kind # "DELETE" /\ Join(Task(kind, e))
      BY <1>6 DEF Handle
    <3> QED BY <3>1
  <2>4. Head(inbox).event \in Events
        /\ (Head(inbox).kind # "DELETE" => Head(inbox).kind \in Reading)
    BY <2>2 DEF Messages, Reading
  <2> QED BY <1>2, <1>3, <2>3, <2>4
<1>7. ASSUME NEW e \in Events, NEW p \in Phases, Fire(e, p) PROVE Before
  <2>1. running' = running \/ Join(Task(p, e))
    BY <1>7 DEF Fire
  <2> QED BY <1>2, <1>3, <2>1
<1>8. ASSUME NEW e \in Events, OnBalance(e) PROVE Before
  BY <1>3, <1>8 DEF OnBalance
<1>9. CASE Stop
  BY <1>9 DEF Stop
<1>10. CASE \E r \in running : Loaded(r) \/ Announce(r) \/ Saved(r)
                              \/ Raise(r) \/ Break(r) \/ Fail(r)
  BY <1>2, <1>10 DEF Loaded, Announce, Saved, Raise, Break, Fail
<1>11. CASE \/ \E e \in Events, d \in Schedules : Create(e, d) \/ Update(e, d)
            \/ \E e \in Events : Delete(e) \/ Commit(e)
            \/ Subscribe \/ Tick \/ UNCHANGED vars
  BY <1>2, <1>11 DEF Create, Update, Delete, Flush, Commit, Subscribe, Tick, vars
<1> QED BY <1>4, <1>5, <1>6, <1>7, <1>8, <1>9, <1>10, <1>11 DEF Next

\* Once the deletion of an event is committed no job gets as far as to announce
\* it, except those that had read it before, although _unregister may leave its
\* jobs behind (fn of schedule_job).
THEOREM Silence == Spec => DeletedStaysSilent
<1>1. ASSUME EventInv, [Next]_vars, NEW e \in Events, db[e] = Gone
      PROVE  Announcing(e)' \subseteq Announcing(e)
  <2> SUFFICES ASSUME NEW x \in running', x.event = e, x.step = "loaded"
               PROVE  \E y \in running : y.event = e /\ y.step = "loaded" /\ y.job = x.job
    BY DEF Announcing
  <2>1. ~Exists(e)
    BY <1>1, Constants DEF Exists
  <2> QED BY <1>1, <2>1, SilenceStep
<1>2. EventInv /\ [Next]_vars =>
        [\A e \in Events : db[e] = Gone => Announcing(e)' \subseteq Announcing(e)]_vars
  BY <1>1
<1> QED BY <1>2, EventInvariance, PTL DEF Spec, DeletedStaysSilent
=============================================================================
