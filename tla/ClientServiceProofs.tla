-------------------------- MODULE ClientServiceProofs --------------------------
(***************************************************************************)
(* Theorems about ClientService: for any number of clients and workers,    *)
(* any operations of the API, failures, executions and restarts, the       *)
(* registry of workers agrees with the clients whenever both are at rest,  *)
(* no client has a second worker, and no synchronization takes a client    *)
(* out of the archive.                                                     *)
(***************************************************************************)
EXTENDS ClientService, SequenceTheorems, FunctionTheorems, FiniteSetTheorems, TLAPS

Slots == 1 .. MaxWorkers
Of(c) == {m \in Messages : m.client = c}
IsOf(w, c) == workers[w] # Free /\ workers[w].client = c

\* What is on its way for c: a message, a lookup, its turn in init, a worker at work.
Told(c) == \E m \in Of(c) : Contains(channel, m)
Looked(c) == Contains(lookups, c)
Waits(c) == Contains(queue, c)
Works(c) == \E w \in Slots : IsOf(w, c) /\ IsWorking(w)

\* No two elements of s are in A.
OneIn(s, A) == \A i, j \in 1 .. Len(s) : s[i] \in A /\ s[j] \in A => i = j

-----------------------------------------------------------------------------
(* Types, and what holds of every client.                                  *)

LoadedRows == \A w \in Slots :
  workers[w].phase \in {"loaded", "sync", "startup", "live"} => workers[w].loaded \in Rows

\* A transaction leaves a whole row.
WholeRows == \A c \in Clients : pending[c] # Nothing => After(c) \in Rows

DownIsEmpty == up = "down" =>
  /\ channel = <<>> /\ lookups = <<>> /\ queue = <<>>
  /\ \A w \in Slots : workers[w] = Free
  /\ \A c \in Clients : registered[c] = 0

Shape == TypeOK /\ LoadedRows /\ WholeRows /\ DownIsEmpty

-----------------------------------------------------------------------------
(* What holds of a client that the API and the collector were not busy     *)
(* with at once.                                                           *)

OwnWorker(c) == \A w \in Slots : IsOf(w, c) => registered[c] = w

\* A client without a worker is on its way to one at most once ...
OneAdder(c) == registered[c] = 0 =>
  /\ OneIn(channel, Of(c)) /\ OneIn(lookups, {c}) /\ OneIn(queue, {c})
  /\ ~(Told(c) /\ Looked(c)) /\ ~(Told(c) /\ Waits(c)) /\ ~(Looked(c) /\ Waits(c))

\* ... and one with a worker is not on its way to another.
NoAdder(c) == registered[c] # 0 =>
  /\ ~Looked(c) /\ ~Waits(c)
  /\ \A m \in Of(c) : Contains(channel, m) => m.category = "update"

\* What is said of a client without a worker is true.
Current(c) == registered[c] = 0 => \A m \in Of(c) : Contains(channel, m) => ~Outdated(m)

\* A message that removes the worker is the only one, and the worker is not at work.
LastWord(c) == \A m \in Of(c) : Contains(channel, m) /\ Removes(m) =>
  OneIn(channel, Of(c)) /\ ~Works(c)

LooksFull(c) == Looked(c) => After(c).type = "full"
WaitsFull(c) == Waits(c) => pending[c] = Nothing /\ Eligible(row[c]) /\ row[c].type = "full"
WorksFull(c) ==
  /\ Works(c) => pending[c] = Nothing /\ row[c].type = "full"
  /\ \A w \in Slots : IsOf(w, c) /\ workers[w].phase \in {"loaded", "sync", "startup"} =>
       workers[w].loaded.type = "full"

UnbornFree(c) == row[c] = Unborn => registered[c] = 0

\* While init is about to read the clients, nothing happens to them.
ListsAll(c) == up = "subscribed" =>
  /\ pending[c] = Nothing /\ registered[c] = 0
  /\ ~Told(c) /\ ~Looked(c) /\ ~Waits(c)

\* An active full client has a worker, or is on its way to one.
Added(c) == up = "listed" /\ registered[c] = 0 /\ ~misled[c]
              /\ After(c) = [state |-> "ok", type |-> "full"] =>
  Told(c) \/ Looked(c) \/ Waits(c)

\* A worker is of a full client outside of the archive, or about to be removed.
Fits(c) == registered[c] # 0 =>
  \/ \E m \in Of(c) : Contains(channel, m) /\ Removes(m)
  \/ After(c) = Gone
  \/ After(c).type = "full" /\ After(c).state # "archived"

\* A synchronization that is over has said so.
Serves(c) == \A w \in Slots : IsOf(w, c) /\ workers[w].phase \in {"startup", "live"} =>
  After(c).state # "synchronizing"

Adders(c) == OneAdder(c) /\ NoAdder(c) /\ Current(c) /\ LastWord(c)
Fulls(c) == LooksFull(c) /\ WaitsFull(c) /\ WorksFull(c) /\ UnbornFree(c)
Calm(c) == /\ OwnWorker(c) /\ Adders(c) /\ Fulls(c)
           /\ ListsAll(c) /\ Added(c) /\ Fits(c) /\ Serves(c)

AgreeInv == Shape /\ \A c \in Clients : disturbed[c] \/ Calm(c)

-----------------------------------------------------------------------------
(* Sequences.                                                              *)

LEMMA Appended ==
  ASSUME NEW S, NEW s \in Seq(S), NEW e \in S
  PROVE  /\ Append(s, e) \in Seq(S)
         /\ \A x : Contains(Append(s, e), x) <=> Contains(s, x) \/ x = e
         /\ \A A : e \notin A => (OneIn(Append(s, e), A) <=> OneIn(s, A))
         /\ \A A : (\A x \in A : ~Contains(s, x)) => OneIn(Append(s, e), A)
<1>1. /\ Append(s, e) \in Seq(S) /\ Len(Append(s, e)) = Len(s) + 1
      /\ \A i \in 1 .. Len(s) : Append(s, e)[i] = s[i]
      /\ Append(s, e)[Len(s) + 1] = e /\ Len(s) \in Nat
  BY AppendProperties
<1> DEFINE t == Append(s, e)
<1> HIDE DEF t
<1>2. /\ Len(t) = Len(s) + 1 /\ Len(s) \in Nat /\ t[Len(s) + 1] = e
      /\ \A i \in 1 .. Len(s) : t[i] = s[i]
  BY <1>1 DEF t
<1>3. \A i : i \in 1 .. Len(t) <=> i \in 1 .. Len(s) \/ i = Len(s) + 1
  BY <1>2
<1>4. \A x : Contains(t, x) <=> Contains(s, x) \/ x = e
  BY <1>2, <1>3 DEF Contains
<1>5. \A A : e \notin A => (OneIn(t, A) <=> OneIn(s, A))
  BY <1>2, <1>3 DEF OneIn
<1>6. ASSUME NEW A, \A x \in A : ~Contains(s, x) PROVE OneIn(t, A)
  BY <1>2, <1>3, <1>6 DEF OneIn, Contains
<1> QED BY <1>1, <1>4, <1>5, <1>6 DEF t

LEMMA Tailed ==
  ASSUME NEW S, NEW s \in Seq(S), s # <<>>
  PROVE  /\ Tail(s) \in Seq(S) /\ Head(s) \in S
         /\ \A x : Contains(s, x) <=> Contains(Tail(s), x) \/ x = Head(s)
         /\ \A A : Head(s) \notin A => (OneIn(Tail(s), A) <=> OneIn(s, A))
         /\ \A A : OneIn(s, A) => OneIn(Tail(s), A)
         /\ \A A : OneIn(s, A) /\ Head(s) \in A => \A x \in A : ~Contains(Tail(s), x)
<1>1. /\ Tail(s) \in Seq(S) /\ Head(s) \in S /\ Len(Tail(s)) = Len(s) - 1
      /\ \A i \in 1 .. Len(Tail(s)) : Tail(s)[i] = s[i + 1]
      /\ Head(s) = s[1] /\ Len(s) \in Nat /\ Len(s) > 0
  BY HeadTailProperties, EmptySeq
<1> DEFINE t == Tail(s)
           h == Head(s)
<1> HIDE DEF t, h
<1>2. /\ Len(t) = Len(s) - 1 /\ Len(s) \in Nat /\ Len(s) > 0 /\ h = s[1]
      /\ \A i \in 1 .. Len(t) : t[i] = s[i + 1]
  BY <1>1 DEF t, h
<1>4. \A i \in 2 .. Len(s) : i - 1 \in 1 .. Len(t) /\ t[i - 1] = s[i]
  BY <1>2
<1>5. \A i \in 1 .. Len(t) : i + 1 \in 2 .. Len(s) /\ t[i] = s[i + 1] /\ i \in Nat
  BY <1>2
<1>6. \A i \in 1 .. Len(s) : i = 1 \/ i \in 2 .. Len(s)
  BY <1>2
<1>7. 1 \in 1 .. Len(s)
  BY <1>2
<1>8. \A x : Contains(s, x) <=> Contains(t, x) \/ x = h
  BY <1>2, <1>4, <1>5, <1>6, <1>7 DEF Contains
<1>9. ASSUME NEW A, OneIn(s, A) PROVE OneIn(t, A)
  <2> SUFFICES ASSUME NEW i \in 1 .. Len(t), NEW j \in 1 .. Len(t), t[i] \in A, t[j] \in A
               PROVE  i = j
    BY DEF OneIn
  <2>1. i + 1 \in 1 .. Len(s) /\ j + 1 \in 1 .. Len(s) /\ i \in Nat /\ j \in Nat
    BY <1>2
  <2>2. i + 1 = j + 1
    BY <1>2, <1>9, <2>1 DEF OneIn
  <2> QED BY <2>1, <2>2
<1>10. ASSUME NEW A, h \notin A, OneIn(t, A) PROVE OneIn(s, A)
  BY <1>2, <1>4, <1>6, <1>10 DEF OneIn
<1>11. ASSUME NEW A, OneIn(s, A), h \in A, NEW x \in A PROVE ~Contains(t, x)
  BY <1>2, <1>5, <1>7, <1>11 DEF OneIn, Contains
<1> QED BY <1>1, <1>8, <1>9, <1>10, <1>11 DEF t, h

\* A flush appends one message, if the collector has subscribed.
LEMMA Published ==
  ASSUME channel \in Seq(Messages), NEW c \in Clients, NEW category, NEW state, NEW type,
         NEW told \in Messages,
         told = [client |-> c, category |-> category, state |-> state, type |-> type],
         Publish(c, category, state, type)
  PROVE  /\ channel' \in Seq(Messages) /\ told \in Of(c)
         /\ up = "down" => channel' = channel
         /\ up # "down" =>
              /\ \A m : Contains(channel', m) <=> Contains(channel, m) \/ m = told
              /\ \A d : d # c => (OneIn(channel', Of(d)) <=> OneIn(channel, Of(d)))
              /\ ~Told(c) => OneIn(channel', Of(c))
<1>1. told \in Of(c) /\ \A d : d # c => told \notin Of(d)
  BY DEF Of
<1>2. CASE up = "down"
  BY <1>1, <1>2 DEF Publish
<1>3. CASE up # "down"
  <2>1. channel' = Append(channel, told)
    BY <1>3 DEF Publish
  <2> QED BY <1>1, <1>3, <2>1, Appended DEF Told
<1> QED BY <1>2, <1>3

-----------------------------------------------------------------------------
(* Workers.                                                                *)

\* One slot changes, to a worker of the same client or to none.
Turns(w, new) == workers' = [workers EXCEPT ![w] = new]

LEMMA Moved ==
  ASSUME Shape, NEW w \in Slots, workers[w] # Free, NEW phase \in Phases,
         NEW known \in Rows \cup {Unborn}, Moves(w, phase, known)
  PROVE  \E new \in Workers :
           /\ Turns(w, new) /\ new.client = workers[w].client
           /\ new.phase = phase /\ new.loaded = known /\ new # Free
<1> DEFINE new == [client |-> workers[w].client, phase |-> phase, loaded |-> known,
                   byInit |-> workers[w].byInit /\ phase \in Working]
<1>1. workers[w] \in Workers /\ workers \in [Slots -> Workers \cup {Free}]
  BY DEF Shape, TypeOK, Slots
<1>2. new \in Workers
  <2>1. (workers[w].byInit /\ phase \in Working) \in BOOLEAN
    OBVIOUS
  <2>2. workers[w].client \in Clients
    BY <1>1 DEF Workers
  <2> QED BY <2>1, <2>2 DEF Workers
<1>3. Turns(w, new)
  BY <1>1 DEF Moves, Turns
<1>4. new # Free
  <2>1. Free.phase = "free" /\ new.phase \in Phases
    BY DEF Free
  <2> QED BY <2>1 DEF Phases, Working
<1>5. new.client = workers[w].client /\ new.phase = phase /\ new.loaded = known
  OBVIOUS
<1> QED BY <1>2, <1>3, <1>4, <1>5

LEMMA Failed ==
  ASSUME Shape, NEW w \in Slots, workers[w] # Free, Fails(w)
  PROVE  \/ /\ registered[workers[w].client] = w
            /\ \E new \in Workers : Turns(w, new) /\ new.client = workers[w].client
                                    /\ new.phase = "failed" /\ new # Free
         \/ registered[workers[w].client] # w /\ Turns(w, Free)
<1>1. CASE registered[workers[w].client] = w
  <2>1. Moves(w, "failed", Unborn)
    BY <1>1 DEF Fails
  <2> QED BY <1>1, <2>1, Moved DEF Phases
<1>2. CASE registered[workers[w].client] # w
  BY <1>2 DEF Fails, Turns
<1> QED BY <1>1, <1>2

\* The part of TypeOK that is about workers, and the rest.
RegistryTypes ==
  /\ workers \in [Slots -> Workers \cup {Free}]
  /\ registered \in [Clients -> 0 .. MaxWorkers]
  /\ \A c \in Clients : registered[c] # 0 =>
       workers[registered[c]] # Free /\ workers[registered[c]].client = c

DataTypes ==
  /\ row \in [Clients -> Rows \cup {Unborn, Gone}]
  /\ pending \in [Clients -> Changes \cup {Nothing}]
  /\ channel \in Seq(Messages)
  /\ up \in {"down", "subscribed", "listed"}
  /\ queue \in Seq(Clients) /\ lookups \in Seq(Clients)
  /\ disturbed \in [Clients -> BOOLEAN] /\ misled \in [Clients -> BOOLEAN]

CounterTypes ==
  /\ edits \in 0 .. MaxEdits /\ overlaps \in 0 .. MaxOverlaps
  /\ stops \in 0 .. MaxStops /\ failures \in 0 .. MaxFailures
  /\ executions \in 0 .. MaxExecutions

LEMMA TypesSplit == TypeOK <=> RegistryTypes /\ DataTypes /\ CounterTypes
  BY DEF TypeOK, RegistryTypes, DataTypes, CounterTypes, Slots

LEMMA TypesSplitNext == TypeOK' <=> RegistryTypes' /\ DataTypes' /\ CounterTypes'
  BY DEF TypeOK, RegistryTypes, DataTypes, CounterTypes, Slots

LEMMA Bounds == {MaxEdits, MaxOverlaps, MaxStops, MaxFailures, MaxExecutions, MaxWorkers}
                  \subseteq Nat
  BY BoundsAssumption

\* A worker that goes on stays its client's; one that is forgotten was not registered.
LEMMA TurnedTypes ==
  ASSUME RegistryTypes, LoadedRows, NEW w \in Slots, workers[w] # Free, NEW new,
         Turns(w, new), UNCHANGED registered,
         \/ /\ new \in Workers /\ new.client = workers[w].client /\ new # Free
            /\ new.phase \in {"loaded", "sync", "startup", "live"} => new.loaded \in Rows
         \/ new = Free /\ registered[workers[w].client] # w
  PROVE  RegistryTypes' /\ LoadedRows'
<1>1. workers' \in [Slots -> Workers \cup {Free}] /\ workers'[w] = new
      /\ \A v \in Slots \ {w} : workers'[v] = workers[v]
  BY DEF RegistryTypes, Turns
<1>2. \A c \in Clients : registered[c] # 0 => registered[c] \in Slots
  BY Bounds DEF RegistryTypes, Slots
<1>3. RegistryTypes'
  BY <1>1, <1>2 DEF RegistryTypes
<1>4. Free.phase \notin {"loaded", "sync", "startup", "live"}
  BY DEF Free
<1> QED BY <1>1, <1>3, <1>4 DEF LoadedRows

-----------------------------------------------------------------------------
(* The shape of the state is kept: the API.                                *)

LEMMA InitShape == Init => Shape
<1> SUFFICES ASSUME Init PROVE Shape
  OBVIOUS
<1>1. RegistryTypes /\ LoadedRows
  BY Bounds DEF Init, RegistryTypes, LoadedRows, Slots, Free
<1>2. DataTypes
  BY EmptySeq DEF Init, DataTypes
<1>3. CounterTypes
  BY Bounds DEF Init, CounterTypes
<1>4. WholeRows /\ DownIsEmpty
  BY DEF Init, WholeRows, DownIsEmpty, Slots
<1> QED BY <1>1, <1>2, <1>3, <1>4, TypesSplit DEF Shape

LEMMA OperationTypes ==
  ASSUME Shape, NEW c \in Clients, Operation(c)
  PROVE  /\ RegistryTypes' /\ LoadedRows' /\ CounterTypes'
         /\ disturbed' \in [Clients -> BOOLEAN] /\ misled' = misled
         /\ UNCHANGED <<lookups, workers, registered, up, queue>>
         /\ pending[c] = Nothing
         /\ ~disturbed'[c] => ~disturbed[c] /\ ~Busy(c)
         /\ \A d \in Clients \ {c} : disturbed'[d] = disturbed[d]
<1>1. UNCHANGED <<lookups, workers, registered, stops, failures, executions, misled, up, queue>>
      /\ pending[c] = Nothing
  BY DEF Operation, starting
<1>2. RegistryTypes /\ DataTypes /\ CounterTypes /\ LoadedRows
  BY TypesSplit DEF Shape
<1>3. RegistryTypes' /\ LoadedRows'
  BY <1>1, <1>2 DEF RegistryTypes, LoadedRows
<1>4. CounterTypes'
  <2>1. edits' = edits + 1 /\ edits < MaxEdits
    BY DEF Operation
  <2>2. \/ overlaps' = overlaps
        \/ overlaps' = overlaps + 1 /\ overlaps < MaxOverlaps
    BY DEF Operation
  <2> QED BY <1>1, <1>2, <2>1, <2>2, Bounds DEF CounterTypes
<1>5. /\ disturbed' \in [Clients -> BOOLEAN]
      /\ ~disturbed'[c] => ~disturbed[c] /\ ~Busy(c)
      /\ \A d \in Clients \ {c} : disturbed'[d] = disturbed[d]
  BY <1>2 DEF Operation, Disturb, DataTypes
<1> QED BY <1>1, <1>3, <1>4, <1>5

LEMMA NotBusy ==
  ASSUME Shape, NEW c \in Clients, ~Busy(c)
  PROVE  pending[c] = Nothing /\ up # "subscribed"
         /\ ~Told(c) /\ ~Looked(c) /\ ~Waits(c) /\ ~Works(c)
<1>1. DOMAIN channel = 1 .. Len(channel)
  BY LenProperties DEF Shape, TypeOK
<1>2. ~Told(c)
  BY <1>1 DEF Busy, Told, Of, Contains
<1>3. ~Works(c)
  <2>1. DOMAIN workers = Slots
    BY DEF Shape, TypeOK, Slots
  <2> QED BY <2>1 DEF Busy, Works, IsOf
<1> QED BY <1>2, <1>3 DEF Busy, Looked, Waits

\* What concerns other clients concerns nothing of d.
Untouched(d) ==
  /\ row'[d] = row[d] /\ pending'[d] = pending[d] /\ up' = up
  /\ registered'[d] = registered[d] /\ misled'[d] = misled[d]
  /\ \A w \in Slots : IsOf(w, d)' <=> IsOf(w, d)
  /\ \A w \in Slots : IsOf(w, d) => workers'[w] = workers[w]
  /\ \A m \in Of(d) : Contains(channel', m) <=> Contains(channel, m)
  /\ OneIn(channel', Of(d)) <=> OneIn(channel, Of(d))
  /\ Looked(d)' <=> Looked(d)
  /\ OneIn(lookups', {d}) <=> OneIn(lookups, {d})
  /\ Waits(d)' <=> Waits(d)
  /\ OneIn(queue', {d}) <=> OneIn(queue, {d})

LEMMA Frame == ASSUME NEW d \in Clients, Untouched(d), Calm(d) PROVE Calm(d)'
<1>1. After(d)' = After(d) /\ (Told(d)' <=> Told(d))
  BY DEF Untouched, After, Told
<1>2. /\ \A w \in Slots : IsOf(w, d)' <=> IsOf(w, d)
      /\ \A w \in Slots : IsOf(w, d) => workers'[w] = workers[w]
      /\ Works(d)' <=> Works(d)
  BY DEF Untouched, Works, IsWorking
<1>3. \A m \in Of(d) : Outdated(m)' <=> Outdated(m)
  BY <1>1 DEF Outdated, Of
<1> USE DEF Untouched, Calm
<1>4. OwnWorker(d)' /\ OneAdder(d)'
  BY <1>1, <1>2 DEF OwnWorker, Adders, OneAdder
<1>5. NoAdder(d)' /\ Current(d)' /\ LastWord(d)'
  BY <1>1, <1>2, <1>3 DEF Adders, NoAdder, Current, LastWord
<1>6. Fulls(d)'
  BY <1>1, <1>2 DEF Fulls, LooksFull, WaitsFull, WorksFull, UnbornFree
<1>7. ListsAll(d)' /\ Added(d)' /\ Fits(d)' /\ Serves(d)'
  BY <1>1, <1>2 DEF ListsAll, Added, Fits, Serves
<1> QED BY <1>4, <1>5, <1>6, <1>7 DEF Adders

\* Create and Edit: an operation flushes a change and tells of what will be.
LEMMA Flushed ==
  ASSUME AgreeInv, NEW c \in Clients, Operation(c), UNCHANGED row,
         NEW change \in Changes, change # Nothing, pending' = [pending EXCEPT ![c] = change],
         NEW state \in States, NEW type \in Types, NEW category \in {"new", "update"},
         After(c)' = [state |-> state, type |-> type],
         Publish(c, category, state, type), category = "new" => row[c] = Unborn,
         state = "synchronizing" => row[c].state = "synchronizing"
  PROVE  AgreeInv'
<1> DEFINE told == [client |-> c, category |-> category, state |-> state, type |-> type]
<1>1. Shape /\ RegistryTypes /\ DataTypes
  BY TypesSplit DEF AgreeInv, Shape
<1>2. /\ RegistryTypes' /\ LoadedRows' /\ CounterTypes'
      /\ disturbed' \in [Clients -> BOOLEAN] /\ misled' = misled
      /\ UNCHANGED <<lookups, workers, registered, up, queue>>
      /\ pending[c] = Nothing
      /\ ~disturbed'[c] => ~disturbed[c] /\ ~Busy(c)
      /\ \A d \in Clients \ {c} : disturbed'[d] = disturbed[d]
  BY <1>1, OperationTypes
<1>3. told \in Messages
  BY DEF Messages
<1>4. /\ channel' \in Seq(Messages) /\ told \in Of(c)
      /\ up = "down" => channel' = channel
      /\ up # "down" =>
           /\ \A m : Contains(channel', m) <=> Contains(channel, m) \/ m = told
           /\ \A d : d # c => (OneIn(channel', Of(d)) <=> OneIn(channel, Of(d)))
           /\ ~Told(c) => OneIn(channel', Of(c))
  BY <1>1, <1>3, Published DEF DataTypes
<1> HIDE DEF told
<1>5. Shape'
  <2>1. DataTypes'
    BY <1>1, <1>2, <1>4 DEF DataTypes
  <2>2. WholeRows'
    <3>1. [state |-> state, type |-> type] \in Rows
      BY DEF Rows
    <3>2. ASSUME NEW d \in Clients \ {c} PROVE After(d)' = After(d) /\ pending'[d] = pending[d]
      BY <1>1 DEF After, DataTypes
    <3> QED BY <1>1, <3>1, <3>2 DEF WholeRows, Shape
  <2>3. DownIsEmpty'
    BY <1>1, <1>2, <1>4 DEF Shape, DownIsEmpty
  <2> QED BY <1>2, <2>1, <2>2, <2>3, TypesSplitNext DEF Shape
<1>6. ASSUME NEW d \in Clients \ {c}, ~disturbed'[d] PROVE Calm(d)'
  <2>1. ~disturbed[d] /\ Calm(d)
    BY <1>2, <1>6 DEF AgreeInv
  <2>2. told \notin Of(d)
    BY DEF told, Of
  <2>3. pending'[d] = pending[d]
    BY <1>1 DEF DataTypes
  <2>4. Untouched(d)
    BY <1>2, <1>4, <2>2, <2>3 DEF Untouched, IsOf, Looked, Waits
  <2> QED BY <2>1, <2>4, Frame
<1>7. ASSUME ~disturbed'[c] PROVE Calm(c)'
  <2>1. /\ Calm(c) /\ up # "subscribed"
        /\ ~Told(c) /\ ~Looked(c) /\ ~Waits(c) /\ ~Works(c)
    BY <1>1, <1>2, <1>7, NotBusy DEF AgreeInv
  <2>2. /\ \A m \in Of(c) : Contains(channel', m) => m = told /\ up = "listed"
        /\ up = "listed" => Contains(channel', told) /\ OneIn(channel', Of(c))
        /\ up = "down" => channel' = channel /\ registered[c] = 0
        /\ told \in Of(c)
    BY <1>1, <1>4, <2>1 DEF Shape, DownIsEmpty, DataTypes, Told
  <2>3. /\ told.state = After(c)'.state /\ told.type = After(c)'.type
        /\ told.category = category /\ told.client = c
        /\ After(c)' = [state |-> state, type |-> type]
        /\ After(c) = row[c] /\ up \in {"down", "listed"}
    BY <1>1, <1>2, <2>1 DEF told, After, DataTypes
  <2>4. /\ \A w \in Slots : (IsOf(w, c)' <=> IsOf(w, c)) /\ workers'[w] = workers[w]
        /\ ~Works(c)' /\ ~Looked(c)' /\ ~Waits(c)'
    BY <1>2, <2>1 DEF IsOf, Works, IsWorking, Looked, Waits
  <2> USE <1>2, <2>1, <2>2, <2>3, <2>4 DEF Calm
  <2>5. OwnWorker(c)' /\ OneAdder(c)'
    BY DEF OwnWorker, Adders, OneAdder, Told
  <2>6. NoAdder(c)' /\ Current(c)' /\ LastWord(c)'
    BY DEF Adders, Fulls, NoAdder, UnbornFree, Current, LastWord, Outdated, Of
  <2>7. Fulls(c)'
    <3>1. \A w \in Slots : IsOf(w, c) => ~IsWorking(w)
      BY DEF Works
    <3> QED BY <3>1 DEF Fulls, LooksFull, WaitsFull, WorksFull, UnbornFree, IsWorking, Working
  <2>8. ListsAll(c)' /\ Added(c)'
    BY DEF ListsAll, Added, Told
  <2>9. Fits(c)'
    BY DEF Fits, Removes
  <2>10. Serves(c)'
    BY DEF Serves
  <2> QED BY <2>5, <2>6, <2>7, <2>8, <2>9, <2>10 DEF Adders
<1> QED BY <1>5, <1>6, <1>7 DEF AgreeInv

LEMMA CreateStep == ASSUME AgreeInv, NEW c \in Clients, Create(c) PROVE AgreeInv'
<1>1. PICK type \in Types :
        /\ pending' = [pending EXCEPT ![c] = [state |-> "ok", type |-> type]]
        /\ Publish(c, "new", "ok", type)
        /\ row[c] = Unborn /\ Operation(c) /\ UNCHANGED row
  BY DEF Create
<1> DEFINE change == [state |-> "ok", type |-> type]
<1>2. change \in Changes /\ change # Nothing /\ change.state # Same /\ change.type # Same
  BY DEF Changes, Nothing, States, Types, Same
<1>3. After(c)' = change
  BY <1>1, <1>2 DEF After, AgreeInv, Shape, TypeOK
<1> QED BY <1>1, <1>2, <1>3, Flushed DEF States

LEMMA EditStep == ASSUME AgreeInv, NEW c \in Clients, Edit(c) PROVE AgreeInv'
<1>1. PICK state \in {"ok", "archived", row[c].state}, type \in Types :
        /\ pending' = [pending EXCEPT ![c] =
             [state |-> IF state = row[c].state THEN Same ELSE state,
              type  |-> IF type = row[c].type THEN Same ELSE type]]
        /\ Publish(c, "update", state, type)
        /\ Exists(c) /\ Operation(c) /\ UNCHANGED row
  BY DEF Edit
<1> DEFINE change == [state |-> IF state = row[c].state THEN Same ELSE state,
                      type  |-> IF type = row[c].type THEN Same ELSE type]
<1>2. row[c] \in Rows
  BY <1>1 DEF AgreeInv, Shape, TypeOK, Exists
<1>3. row[c].state \in States /\ row[c].type \in Types /\ state \in States
  BY <1>1, <1>2 DEF Rows, States
<1>4. change \in Changes /\ change # Nothing
  BY <1>3 DEF Changes, Nothing, States, Types, Same
<1>5. After(c)' = [state |-> state, type |-> type]
  <2>1. pending'[c] = change /\ row'[c] = row[c]
    BY <1>1 DEF AgreeInv, Shape, TypeOK
  <2>2. state # Same /\ type # Same
    BY <1>3 DEF States, Types, Same
  <2> QED BY <1>4, <2>1, <2>2 DEF After
<1>6. state = "synchronizing" => row[c].state = "synchronizing"
  OBVIOUS
<1> QED BY <1>1, <1>3, <1>4, <1>5, <1>6, Flushed

\* What will be is.
LEMMA CommitStep == ASSUME AgreeInv, NEW c \in Clients, Commit(c) PROVE AgreeInv'
<1>1. /\ pending[c] # Nothing /\ row' = [row EXCEPT ![c] = After(c)]
      /\ pending' = [pending EXCEPT ![c] = Nothing]
      /\ UNCHANGED <<channel, lookups, workers, registered, disturbed, misled, up, queue,
                     edits, overlaps, stops, failures, executions>>
  BY DEF Commit, starting, counters
<1>2. Shape /\ RegistryTypes /\ DataTypes /\ CounterTypes
  BY TypesSplit DEF AgreeInv, Shape
<1>3. After(c) \in Rows
  BY <1>1, <1>2 DEF Shape, WholeRows
<1>4. /\ After(c)' = After(c) /\ row'[c] = After(c) /\ pending'[c] = Nothing
      /\ \A d \in Clients \ {c} : row'[d] = row[d] /\ pending'[d] = pending[d]
  BY <1>1, <1>2 DEF After, DataTypes
<1>5. Shape'
  <2>1. RegistryTypes' /\ CounterTypes' /\ LoadedRows' /\ DownIsEmpty'
    BY <1>1, <1>2 DEF RegistryTypes, CounterTypes, LoadedRows, DownIsEmpty, Shape
  <2>2. DataTypes'
    BY <1>1, <1>2, <1>3 DEF DataTypes
  <2>3. WholeRows'
    BY <1>2, <1>4 DEF WholeRows, Shape, After
  <2> QED BY <2>1, <2>2, <2>3, TypesSplitNext DEF Shape
<1>6. ASSUME NEW d \in Clients \ {c}, ~disturbed'[d] PROVE Calm(d)'
  <2>1. Calm(d)
    BY <1>1, <1>6 DEF AgreeInv
  <2>2. Untouched(d)
    BY <1>1, <1>4 DEF Untouched, IsOf, Looked, Waits
  <2> QED BY <2>1, <2>2, Frame
<1>7. ASSUME ~disturbed'[c] PROVE Calm(c)'
  <2>1. Calm(c) /\ ~Waits(c) /\ ~Works(c) /\ up # "subscribed"
    BY <1>1, <1>7 DEF AgreeInv, Calm, Fulls, WaitsFull, WorksFull, ListsAll
  <2>2. /\ \A w \in Slots : IsOf(w, c)' <=> IsOf(w, c)
        /\ (Told(c)' <=> Told(c)) /\ (Looked(c)' <=> Looked(c)) /\ ~Waits(c)' /\ ~Works(c)'
        /\ \A m \in Of(c) : Outdated(m)' <=> Outdated(m)
    BY <1>1, <1>4, <2>1 DEF IsOf, Told, Looked, Waits, Works, IsWorking, Outdated, Of
  <2> USE <1>1, <1>4, <2>1, <2>2 DEF Calm
  <2>3. OwnWorker(c)' /\ Adders(c)'
    BY DEF OwnWorker, Adders, OneAdder, NoAdder, Current, LastWord
  <2>4. Fulls(c)'
    <3>1. After(c) # Unborn
      BY <1>3 DEF Rows, Unborn, States
    <3> QED BY <3>1 DEF Fulls, LooksFull, WaitsFull, WorksFull, UnbornFree
  <2>5. ListsAll(c)' /\ Added(c)' /\ Fits(c)' /\ Serves(c)'
    BY DEF ListsAll, Added, Fits, Serves
  <2> QED BY <2>3, <2>4, <2>5
<1> QED BY <1>5, <1>6, <1>7 DEF AgreeInv

LEMMA DeleteStep == ASSUME AgreeInv, NEW c \in Clients, Delete(c) PROVE AgreeInv'
<1>1. Operation(c) /\ row' = [row EXCEPT ![c] = Gone] /\ UNCHANGED <<pending, channel>>
  BY DEF Delete
<1>2. Shape /\ RegistryTypes /\ DataTypes
  BY TypesSplit DEF AgreeInv, Shape
<1>3. /\ RegistryTypes' /\ LoadedRows' /\ CounterTypes'
      /\ disturbed' \in [Clients -> BOOLEAN] /\ misled' = misled
      /\ UNCHANGED <<lookups, workers, registered, up, queue>>
      /\ pending[c] = Nothing
      /\ ~disturbed'[c] => ~disturbed[c] /\ ~Busy(c)
      /\ \A d \in Clients \ {c} : disturbed'[d] = disturbed[d]
  BY <1>1, <1>2, OperationTypes
<1>4. /\ row'[c] = Gone /\ After(c)' = Gone
      /\ \A d \in Clients \ {c} : row'[d] = row[d] /\ After(d)' = After(d)
  BY <1>1, <1>2, <1>3 DEF DataTypes, After
<1>5. Shape'
  <2>1. DataTypes'
    BY <1>1, <1>2, <1>3 DEF DataTypes
  <2>2. WholeRows' /\ DownIsEmpty'
    BY <1>1, <1>2, <1>3, <1>4 DEF Shape, WholeRows, DownIsEmpty
  <2> QED BY <1>3, <2>1, <2>2, TypesSplitNext DEF Shape
<1>6. ASSUME NEW d \in Clients \ {c}, ~disturbed'[d] PROVE Calm(d)'
  <2>1. Calm(d)
    BY <1>3, <1>6 DEF AgreeInv
  <2>2. Untouched(d)
    BY <1>1, <1>3, <1>4 DEF Untouched, IsOf, Looked, Waits
  <2> QED BY <2>1, <2>2, Frame
<1>7. ASSUME ~disturbed'[c] PROVE Calm(c)'
  <2>1. /\ Calm(c) /\ up # "subscribed"
        /\ ~Told(c) /\ ~Looked(c) /\ ~Waits(c) /\ ~Works(c)
    BY <1>2, <1>3, <1>7, NotBusy DEF AgreeInv
  <2>2. /\ \A w \in Slots : IsOf(w, c)' <=> IsOf(w, c)
        /\ ~Told(c)' /\ ~Looked(c)' /\ ~Waits(c)' /\ ~Works(c)'
    BY <1>1, <1>3, <2>1 DEF IsOf, Told, Looked, Waits, Works, IsWorking
  <2> USE <1>1, <1>3, <1>4, <2>1, <2>2 DEF Calm
  <2>3. OwnWorker(c)' /\ Adders(c)'
    BY DEF OwnWorker, Adders, OneAdder, NoAdder, Current, LastWord, Told
  <2>4. Fulls(c)'
    <3>1. Gone # Unborn
      BY DEF Gone, Unborn
    <3> QED BY <3>1 DEF Fulls, LooksFull, WaitsFull, WorksFull, UnbornFree
  <2>5. ListsAll(c)' /\ Added(c)' /\ Fits(c)' /\ Serves(c)'
    BY DEF ListsAll, Added, Fits, Serves, Gone
  <2> QED BY <2>3, <2>4, <2>5
<1> QED BY <1>5, <1>6, <1>7 DEF AgreeInv

-----------------------------------------------------------------------------
(* The handlers.                                                           *)

\* The three things that a message may lead to.
HandleRemoves(m) ==
  /\ m.category = "update" /\ registered[m.client] # 0 /\ Removes(m)
  /\ RemoveWorker(m.client) /\ misled' = [misled EXCEPT ![m.client] = Outdated(m)]
  /\ UNCHANGED lookups

HandleAdds(m) ==
  /\ \/ m.category = "new" /\ m.type = "full"
     \/ m.category = "update" /\ registered[m.client] = 0 /\ Adds(m)
  /\ lookups' = Append(lookups, m.client)
  /\ UNCHANGED <<workers, registered, misled>>

HandleDrops(m) ==
  /\ \/ m.category = "update" /\ registered[m.client] # 0 /\ ~Removes(m)
     \/ m.category = "new" /\ m.type # "full"
     \/ m.category = "update" /\ registered[m.client] = 0 /\ ~Adds(m)
  /\ UNCHANGED <<workers, registered, misled, lookups>>

\* What is left of the channel.
Received(m) ==
  /\ channel' \in Seq(Messages) /\ m \in Messages
  /\ \A x : Contains(channel, x) <=> Contains(channel', x) \/ x = m
  /\ \A A : m \notin A => (OneIn(channel', A) <=> OneIn(channel, A))
  /\ \A A : OneIn(channel, A) => OneIn(channel', A)
  /\ \A A : OneIn(channel, A) /\ m \in A => \A x \in A : ~Contains(channel', x)
  /\ channel # <<>>
  /\ UNCHANGED <<row, pending, up, queue, disturbed, edits, overlaps, stops, failures, executions>>

LEMMA Handled ==
  ASSUME Shape, Handle
  PROVE  \E m \in Messages : Received(m) /\ (HandleRemoves(m) \/ HandleAdds(m) \/ HandleDrops(m))
<1> DEFINE m == Head(channel)
<1>1. channel \in Seq(Messages) /\ channel # <<>> /\ channel' = Tail(channel)
  BY DEF Shape, TypeOK, Handle
<1>2. Received(m)
  <2>1. UNCHANGED <<row, pending, up, queue, disturbed, edits, overlaps, stops, failures, executions>>
    BY DEF Handle, db, starting, counters
  <2> QED BY <1>1, <2>1, Tailed DEF Received
<1>3. m.category \in {"new", "update"}
  BY <1>2 DEF Received, Messages
<1> DEFINE known == m.category = "update" /\ registered[m.client] # 0
           adds == ~known /\ IF m.category = "new" THEN m.type = "full" ELSE Adds(m)
<1>4. /\ lookups' = IF adds THEN Append(lookups, m.client) ELSE lookups
      /\ IF known /\ Removes(m)
         THEN RemoveWorker(m.client) /\ misled' = [misled EXCEPT ![m.client] = Outdated(m)]
         ELSE UNCHANGED <<workers, registered, misled>>
  BY DEF Handle
<1> HIDE DEF m
<1>5. HandleRemoves(m) \/ HandleAdds(m) \/ HandleDrops(m)
  <2>1. CASE known /\ Removes(m)
    BY <1>4, <2>1 DEF HandleRemoves
  <2>2. CASE known /\ ~Removes(m)
    BY <1>4, <2>2 DEF HandleDrops
  <2>3. CASE ~known /\ adds
    <3>1. lookups' = Append(lookups, m.client) /\ UNCHANGED <<workers, registered, misled>>
      BY <1>4, <2>3
    <3>2. \/ m.category = "new" /\ m.type = "full"
          \/ m.category = "update" /\ registered[m.client] = 0 /\ Adds(m)
      BY <1>3, <2>3
    <3> QED BY <3>1, <3>2 DEF HandleAdds
  <2>4. CASE ~known /\ ~adds
    <3>1. UNCHANGED <<workers, registered, misled, lookups>>
      BY <1>4, <2>4
    <3>2. \/ m.category = "new" /\ m.type # "full"
          \/ m.category = "update" /\ registered[m.client] = 0 /\ ~Adds(m)
      BY <1>3, <2>4
    <3> QED BY <3>1, <3>2 DEF HandleDrops
  <2> QED BY <2>1, <2>2, <2>3, <2>4
<1> QED BY <1>2, <1>5 DEF Received

LEMMA RemoveStep ==
  ASSUME AgreeInv, NEW m \in Messages, Received(m), HandleRemoves(m)
  PROVE  AgreeInv'
<1> DEFINE c == m.client
           w == registered[c]
<1>1. Shape /\ RegistryTypes /\ DataTypes /\ CounterTypes /\ c \in Clients
  BY TypesSplit DEF AgreeInv, Shape, Messages
<1>2. /\ w # 0 /\ w \in Slots /\ registered' = [registered EXCEPT ![c] = 0]
      /\ workers' = IF IsWorking(w) THEN workers ELSE [workers EXCEPT ![w] = Free]
      /\ misled' = [misled EXCEPT ![c] = Outdated(m)] /\ UNCHANGED lookups
      /\ workers[w] # Free /\ workers[w].client = c /\ Removes(m) /\ m \in Of(c)
  BY <1>1, Bounds DEF HandleRemoves, RemoveWorker, RegistryTypes, Slots, Of
<1> HIDE DEF c, w
<1>3. Shape'
  <2>1. RegistryTypes'
    <3>1. workers' \in [Slots -> Workers \cup {Free}]
      BY <1>1, <1>2 DEF RegistryTypes
    <3>2. registered' \in [Clients -> 0 .. MaxWorkers]
      BY <1>1, <1>2, Bounds DEF RegistryTypes
    <3>3. ASSUME NEW d \in Clients, registered'[d] # 0
          PROVE  workers'[registered'[d]] # Free /\ workers'[registered'[d]].client = d
      <4>1. d # c /\ registered'[d] = registered[d]
        BY <1>1, <1>2, <3>3 DEF RegistryTypes
      <4>2. /\ workers[registered[d]] # Free /\ workers[registered[d]].client = d
            /\ registered[d] # w
        BY <1>1, <1>2, <3>3, <4>1 DEF RegistryTypes
      <4>3. workers'[registered[d]] = workers[registered[d]]
        BY <1>1, <1>2, <4>2 DEF RegistryTypes
      <4> QED BY <4>1, <4>2, <4>3
    <3> QED BY <3>1, <3>2, <3>3 DEF RegistryTypes
  <2>2. LoadedRows'
    BY <1>1, <1>2 DEF Shape, LoadedRows, RegistryTypes, Free
  <2>3. DataTypes' /\ CounterTypes'
    BY <1>1, <1>2 DEF DataTypes, CounterTypes, Received, Outdated
  <2>4. WholeRows' /\ DownIsEmpty'
    BY <1>1 DEF Shape, WholeRows, DownIsEmpty, Received, After
  <2> QED BY <2>1, <2>2, <2>3, <2>4, TypesSplitNext DEF Shape
<1>4. ASSUME NEW d \in Clients \ {c}, ~disturbed'[d] PROVE Calm(d)'
  <2>1. Calm(d)
    BY <1>4 DEF AgreeInv, Received
  <2>2. m \notin Of(d)
    BY <1>2 DEF Of
  <2>3. \A v \in Slots : (IsOf(v, d)' <=> IsOf(v, d)) /\ (IsOf(v, d) => workers'[v] = workers[v])
    BY <1>1, <1>2 DEF IsOf, RegistryTypes
  <2>4. Untouched(d)
    BY <1>1, <1>2, <2>2, <2>3 DEF Untouched, Received, Looked, Waits, RegistryTypes, DataTypes
  <2> QED BY <2>1, <2>4, Frame
<1>5. ASSUME ~disturbed'[c] PROVE Calm(c)'
  <2>1. Calm(c) /\ Contains(channel, m)
    BY <1>1, <1>5 DEF AgreeInv, Received
  <2>2. OneIn(channel, Of(c)) /\ ~Works(c) /\ ~Looked(c) /\ ~Waits(c)
    BY <1>2, <2>1 DEF Calm, Adders, LastWord, NoAdder, w
  <2>3. /\ \A x \in Of(c) : ~Contains(channel', x)
        /\ OneIn(channel', Of(c)) /\ ~Told(c)' /\ ~Looked(c)' /\ ~Waits(c)'
    BY <1>2, <2>2 DEF Received, Told, Looked, Waits
  <2>4. \A v \in Slots : ~IsOf(v, c)'
    <3>1. workers' = [workers EXCEPT ![w] = Free]
      BY <1>2, <2>2 DEF Works, IsOf
    <3> QED BY <1>1, <1>2, <2>1, <3>1 DEF IsOf, RegistryTypes, Calm, OwnWorker, w
  <2>5. ~Works(c)' /\ registered'[c] = 0 /\ misled'[c] = Outdated(m) /\ After(c)' = After(c)
        /\ UNCHANGED <<row, pending, up, queue, lookups>>
    BY <1>1, <1>2, <2>4 DEF Works, RegistryTypes, DataTypes, Received, After
  <2>6. ~Outdated(m) => After(c) # [state |-> "ok", type |-> "full"]
    BY <1>2 DEF Outdated, Removes, c
  <2>7. ~(up = "subscribed")
    BY <1>2, <2>1 DEF Calm, ListsAll, w
  <2> USE <1>2, <2>1, <2>3, <2>4, <2>5, <2>6, <2>7 DEF Calm
  <2>8. OneIn(lookups, {c}) /\ OneIn(queue, {c})
    BY <2>2 DEF OneIn, Looked, Waits, Contains
  <2>9. OwnWorker(c)' /\ Adders(c)'
    BY <2>8 DEF OwnWorker, Adders, OneAdder, NoAdder, Current, LastWord
  <2>10. Fulls(c)'
    BY DEF Fulls, LooksFull, WaitsFull, WorksFull, UnbornFree
  <2>11. ListsAll(c)' /\ Added(c)' /\ Fits(c)' /\ Serves(c)'
    BY DEF ListsAll, Added, Fits, Serves
  <2> QED BY <2>9, <2>10, <2>11
<1> QED BY <1>3, <1>4, <1>5 DEF AgreeInv

\* A message that adds becomes a lookup, one that does not is gone.
LEMMA AddStep ==
  ASSUME AgreeInv, NEW m \in Messages, Received(m), HandleAdds(m) \/ HandleDrops(m)
  PROVE  AgreeInv'
<1> DEFINE c == m.client
<1>1. Shape /\ RegistryTypes /\ DataTypes /\ CounterTypes /\ c \in Clients /\ m \in Of(c)
  BY TypesSplit DEF AgreeInv, Shape, Messages, Of
<1>2. /\ UNCHANGED <<workers, registered, misled, row, pending, up, queue, disturbed>>
  BY DEF HandleAdds, HandleDrops, Received
<1>3. \/ HandleDrops(m) /\ lookups' = lookups
      \/ HandleAdds(m) /\ lookups' = Append(lookups, c)
  BY DEF HandleAdds, HandleDrops
<1> HIDE DEF c
<1>5. /\ lookups' \in Seq(Clients)
      /\ \A A : c \notin A => (OneIn(lookups', A) <=> OneIn(lookups, A))
      /\ \A x : x # c => (Contains(lookups', x) <=> Contains(lookups, x))
  <2>1. lookups \in Seq(Clients)
    BY <1>1 DEF DataTypes
  <2>2. CASE lookups' = lookups
    BY <2>1, <2>2
  <2>3. CASE lookups' = Append(lookups, c)
    BY <1>1, <2>1, <2>3, Appended
  <2> QED BY <1>3, <2>2, <2>3
<1>6. HandleAdds(m) => Looked(c)'
  BY <1>1, <1>3, Appended DEF Looked, DataTypes, HandleAdds, c
<1>4. Shape'
  <2>1. RegistryTypes' /\ LoadedRows' /\ CounterTypes'
    BY <1>1, <1>2 DEF RegistryTypes, LoadedRows, CounterTypes, Shape, Received
  <2>2. DataTypes'
    BY <1>1, <1>2, <1>5 DEF DataTypes, Received
  <2>3. WholeRows' /\ DownIsEmpty'
    BY <1>1, <1>2 DEF Shape, WholeRows, DownIsEmpty, Received, After
  <2> QED BY <2>1, <2>2, <2>3, TypesSplitNext DEF Shape
<1>7. ASSUME NEW d \in Clients \ {c}, ~disturbed'[d] PROVE Calm(d)'
  <2>1. Calm(d) /\ m \notin Of(d) /\ c \notin {d}
    BY <1>1, <1>2, <1>7 DEF AgreeInv, Of
  <2>2. Untouched(d)
    BY <1>2, <1>5, <2>1 DEF Untouched, Received, Looked, Waits, IsOf
  <2> QED BY <2>1, <2>2, Frame
<1>8. ASSUME ~disturbed'[c] PROVE Calm(c)'
  <2>1. Calm(c) /\ Contains(channel, m) /\ Told(c)
    BY <1>1, <1>2, <1>8 DEF AgreeInv, Received, Told
  <2>2. /\ After(c)' = After(c) /\ (Works(c)' <=> Works(c)) /\ (Waits(c)' <=> Waits(c))
        /\ \A w \in Slots : IsOf(w, c)' <=> IsOf(w, c)
        /\ \A x \in Of(c) : Outdated(x)' <=> Outdated(x)
        /\ up # "subscribed"
    BY <1>2, <2>1 DEF After, Works, Waits, IsOf, IsWorking, Outdated, Of, Calm, ListsAll
  <2>3. CASE registered[c] = 0
    <3>1. /\ OneIn(channel, Of(c)) /\ ~Looked(c) /\ ~Waits(c) /\ ~Outdated(m)
          /\ OneIn(queue, {c})
      BY <1>1, <2>1, <2>3 DEF Calm, Adders, OneAdder, Current
    <3>2. ~Told(c)' /\ OneIn(channel', Of(c)) /\ \A x \in Of(c) : ~Contains(channel', x)
      BY <1>1, <3>1 DEF Received, Told
    <3>3. OneIn(lookups', {c})
      <4>1. \A x \in {c} : ~Contains(lookups, x)
        BY <3>1 DEF Looked
      <4>2. OneIn(lookups, {c})
        BY <3>1 DEF Looked, OneIn, Contains
      <4>3. OneIn(Append(lookups, c), {c})
        <5>1. lookups \in Seq(Clients) /\ c \in Clients
          BY <1>1 DEF DataTypes
        <5> DEFINE A == {c}
        <5>2. \A x \in A : ~Contains(lookups, x)
          BY <4>1
        <5> HIDE DEF A
        <5>3. OneIn(Append(lookups, c), A)
          BY <5>1, <5>2, Appended
        <5> QED BY <5>3 DEF A
      <4> QED BY <1>3, <4>2, <4>3
    <3>4. Looked(c)' => After(c).type = "full"
      <4>1. HandleAdds(m) => m.type = "full"
        BY DEF HandleAdds, Adds
      <4>2. HandleDrops(m) => ~Looked(c)'
        BY <3>1 DEF HandleDrops, Looked
      <4> QED BY <1>3, <3>1, <4>1, <4>2 DEF Outdated, c
    <3>5. After(c) = [state |-> "ok", type |-> "full"] => Looked(c)'
      <4>1. After(c) = [state |-> "ok", type |-> "full"] => HandleAdds(m)
        <5> SUFFICES ASSUME After(c) = [state |-> "ok", type |-> "full"] PROVE HandleAdds(m)
          OBVIOUS
        <5>1. m.state = "ok" /\ m.type = "full"
          BY <3>1 DEF Outdated, c
        <5>2. ~HandleDrops(m)
          BY <2>3, <5>1 DEF HandleDrops, Adds, c
        <5> QED BY <1>3, <5>2
      <4> QED BY <1>6, <4>1
    <3> USE <1>2, <2>1, <2>2, <2>3, <3>1, <3>2, <3>3, <3>4, <3>5 DEF Calm
    <3>6. OwnWorker(c)' /\ Adders(c)'
      BY DEF OwnWorker, Adders, OneAdder, NoAdder, Current, LastWord
    <3>7. Fulls(c)'
      BY DEF Fulls, LooksFull, WaitsFull, WorksFull, UnbornFree
    <3>8. ListsAll(c)' /\ Added(c)' /\ Fits(c)' /\ Serves(c)'
      BY DEF ListsAll, Added, Fits, Serves
    <3> QED BY <3>6, <3>7, <3>8
  <2>4. CASE registered[c] # 0
    <3>1. m.category = "update" /\ ~Looked(c) /\ ~Waits(c)
      BY <1>1, <2>1, <2>4 DEF Calm, Adders, NoAdder
    <3>2. ~Removes(m) /\ lookups' = lookups
      BY <2>4, <3>1 DEF HandleAdds, HandleDrops, c
    <3>3. /\ \A x \in Of(c) : Contains(channel', x) => Contains(channel, x)
          /\ \A x \in Of(c) : Contains(channel, x) /\ Removes(x) => Contains(channel', x)
          /\ OneIn(channel, Of(c)) => OneIn(channel', Of(c))
      BY <3>2 DEF Received
    <3>4. ~Looked(c)' /\ ~Waits(c)'
      BY <1>2, <3>1, <3>2 DEF Looked, Waits
    <3> USE <1>2, <2>1, <2>2, <2>4, <3>3, <3>4 DEF Calm
    <3>5. OwnWorker(c)' /\ Adders(c)'
      BY DEF OwnWorker, Adders, OneAdder, NoAdder, Current, LastWord
    <3>6. Fulls(c)'
      BY DEF Fulls, LooksFull, WaitsFull, WorksFull, UnbornFree
    <3>7. ListsAll(c)' /\ Added(c)' /\ Fits(c)' /\ Serves(c)'
      BY DEF ListsAll, Added, Fits, Serves
    <3> QED BY <3>5, <3>6, <3>7
  <2> QED BY <2>3, <2>4
<1> QED BY <1>4, <1>7, <1>8 DEF AgreeInv

LEMMA HandleStep == AgreeInv /\ Handle => AgreeInv'
  BY Handled, RemoveStep, AddStep DEF AgreeInv

\* The new worker takes a free slot.
Joins(c, w) ==
  /\ workers[w] = Free
  /\ \E new \in Workers : /\ Turns(w, new) /\ new.client = c /\ new # Free
                          /\ new.phase = "begin"
  /\ registered' = [registered EXCEPT ![c] = w]
  /\ misled' = [misled EXCEPT ![c] = FALSE]

LEMMA Joined ==
  ASSUME Shape, NEW c \in Clients, NEW byInit \in BOOLEAN, AddClient(c, byInit)
  PROVE  \E w \in Slots : Joins(c, w) /\ RegistryTypes' /\ LoadedRows'
<1>1. RegistryTypes /\ LoadedRows
  BY TypesSplit DEF Shape
<1> DEFINE free == {v \in DOMAIN workers : workers[v] = Free}
           w == CHOOSE v \in free : TRUE
           new == [client |-> c, phase |-> "begin", loaded |-> Unborn, byInit |-> byInit]
<1>2. free # {} /\ workers' = [workers EXCEPT ![w] = new]
      /\ registered' = [registered EXCEPT ![c] = w]
      /\ misled' = [misled EXCEPT ![c] = FALSE]
  BY DEF AddClient
<1>3. w \in Slots /\ workers[w] = Free
  BY <1>1, <1>2 DEF RegistryTypes
<1>4. new \in Workers
  BY DEF Workers, Phases, Working
<1>5. new # Free
  <2>1. new.phase # Free.phase
    BY DEF Free
  <2> QED BY <2>1
<1>6. new.client = c /\ new.phase = "begin"
  OBVIOUS
<1> HIDE DEF w, new
<1>7. Joins(c, w)
  BY <1>2, <1>3, <1>4, <1>5, <1>6 DEF Joins, Turns
<1>8. LoadedRows'
  BY <1>1, <1>2, <1>6 DEF RegistryTypes, LoadedRows
<1>9. RegistryTypes'
  <2>1. workers' \in [Slots -> Workers \cup {Free}]
    BY <1>1, <1>2, <1>4 DEF RegistryTypes
  <2>2. registered' \in [Clients -> 0 .. MaxWorkers]
    BY <1>1, <1>2, <1>3, Bounds DEF RegistryTypes, Slots
  <2>3. ASSUME NEW d \in Clients, registered'[d] # 0
        PROVE  workers'[registered'[d]] # Free /\ workers'[registered'[d]].client = d
    <3>1. CASE d = c
      BY <1>1, <1>2, <1>3, <1>5, <1>6, <3>1 DEF RegistryTypes
    <3>2. CASE d # c
      BY <1>1, <1>2, <1>3, <2>3, <3>2 DEF RegistryTypes
    <3> QED BY <3>1, <3>2
  <2> QED BY <2>1, <2>2, <2>3 DEF RegistryTypes
<1> QED BY <1>3, <1>7, <1>8, <1>9

\* Who joins was on the way to one worker, which is this one.
LEMMA JoinedCalm ==
  ASSUME Shape, NEW c \in Clients, NEW w \in Slots, Joins(c, w), Calm(c),
         UNCHANGED <<row, pending, up, channel>>,
         registered[c] = 0, ~Told(c), ~Looked(c)', ~Waits(c)',
         pending[c] = Nothing, Eligible(row[c]), row[c].type = "full", up # "subscribed"
  PROVE  Calm(c)'
<1>1. RegistryTypes
  BY TypesSplit DEF Shape
<1>2. /\ registered'[c] = w /\ w # 0
      /\ workers'[w] # Free /\ workers'[w].client = c /\ workers'[w].phase = "begin"
      /\ \A v \in Slots \ {w} : workers'[v] = workers[v]
  BY <1>1, Bounds DEF Joins, Turns, RegistryTypes, Slots
<1>3. \A v \in Slots : IsOf(v, c)' => v = w
  <2>1. \A v \in Slots : ~IsOf(v, c)
    BY Bounds DEF Calm, OwnWorker, Slots
  <2> QED BY <1>2, <2>1 DEF IsOf
<1>4. After(c)' = row[c] /\ row[c] \in Rows /\ row[c].state # "archived" /\ ~Told(c)'
  BY DEF After, Eligible, Told
<1>5. row[c] # Unborn
  BY <1>4 DEF Rows, Unborn, States
<1>6. OwnWorker(c)' /\ Adders(c)'
  BY <1>2, <1>3, <1>4 DEF OwnWorker, Adders, OneAdder, NoAdder, Current, LastWord, Told
<1>7. Fulls(c)'
  BY <1>2, <1>3, <1>4, <1>5 DEF Fulls, LooksFull, WaitsFull, WorksFull, UnbornFree
<1>8. ListsAll(c)' /\ Added(c)' /\ Fits(c)' /\ Serves(c)'
  BY <1>2, <1>3, <1>4 DEF ListsAll, Added, Fits, Serves
<1> QED BY <1>6, <1>7, <1>8 DEF Calm

LEMMA JoinedOthers ==
  ASSUME Shape, NEW c \in Clients, NEW w \in Slots, Joins(c, w), NEW d \in Clients \ {c}
  PROVE  /\ registered'[d] = registered[d] /\ misled'[d] = misled[d]
         /\ \A v \in Slots : IsOf(v, d)' <=> IsOf(v, d)
         /\ \A v \in Slots : IsOf(v, d) => workers'[v] = workers[v]
<1>1. RegistryTypes /\ DataTypes
  BY TypesSplit DEF Shape
<1>2. registered'[d] = registered[d] /\ misled'[d] = misled[d]
  BY <1>1 DEF Joins, RegistryTypes, DataTypes
<1>3. /\ workers[w] = Free /\ workers'[w].client = c
      /\ \A v \in Slots \ {w} : workers'[v] = workers[v]
  BY <1>1 DEF Joins, Turns, RegistryTypes
<1> QED BY <1>2, <1>3 DEF IsOf

LEMMA LookupStep == AgreeInv /\ Lookup => AgreeInv'
<1> SUFFICES ASSUME AgreeInv, Lookup PROVE AgreeInv'
  OBVIOUS
<1>1. Shape /\ RegistryTypes /\ DataTypes /\ CounterTypes
  BY TypesSplit DEF AgreeInv, Shape
<1>9. PICK c \in Clients : c = Head(lookups)
  BY <1>1, Tailed DEF DataTypes, Lookup
<1>2. /\ lookups' \in Seq(Clients) /\ c \in Clients /\ lookups # <<>>
      /\ \A x : Contains(lookups, x) <=> Contains(lookups', x) \/ x = c
      /\ \A A : c \notin A => (OneIn(lookups', A) <=> OneIn(lookups, A))
      /\ \A A : OneIn(lookups, A) => OneIn(lookups', A)
      /\ \A A : OneIn(lookups, A) /\ c \in A => \A x \in A : ~Contains(lookups', x)
  <2>1. lookups \in Seq(Clients) /\ lookups # <<>> /\ lookups' = Tail(lookups)
    BY <1>1 DEF DataTypes, Lookup
  <2> QED BY <1>9, <2>1, Tailed
<1>3. /\ \/ Eligible(row[c]) /\ AddClient(c, FALSE)
         \/ /\ ~Eligible(row[c]) \/ up = "subscribed"
            /\ UNCHANGED <<workers, registered, misled>>
      /\ disturbed' = [disturbed EXCEPT ![c] = @ \/ pending[c] # Nothing]
      /\ UNCHANGED <<channel, row, pending, up, queue, edits, overlaps, stops, failures, executions>>
  BY <1>9 DEF Lookup, Disturb, db, starting, counters
<1>4. /\ disturbed' \in [Clients -> BOOLEAN]
      /\ \A d \in Clients : ~disturbed'[d] => ~disturbed[d]
      /\ ~disturbed'[c] => pending[c] = Nothing
  BY <1>1, <1>2, <1>3 DEF DataTypes
<1>5. \/ \E w \in Slots : Eligible(row[c]) /\ Joins(c, w) /\ RegistryTypes' /\ LoadedRows'
      \/ /\ ~Eligible(row[c]) \/ up = "subscribed"
         /\ UNCHANGED <<workers, registered, misled>>
  BY <1>1, <1>2, <1>3, Joined
<1>6. Shape'
  <2>1. RegistryTypes' /\ LoadedRows'
    BY <1>1, <1>5 DEF Shape, RegistryTypes, LoadedRows
  <2>2. misled' \in [Clients -> BOOLEAN]
    BY <1>1, <1>2, <1>5 DEF DataTypes, Joins
  <2>3. DataTypes' /\ CounterTypes'
    BY <1>1, <1>2, <1>3, <1>4, <2>2 DEF DataTypes, CounterTypes
  <2>4. WholeRows' /\ DownIsEmpty'
    BY <1>1, <1>2, <1>3 DEF Shape, WholeRows, DownIsEmpty, After
  <2> QED BY <2>1, <2>3, <2>4, TypesSplitNext DEF Shape
<1>7. ASSUME NEW d \in Clients \ {c}, ~disturbed'[d] PROVE Calm(d)'
  <2>1. Calm(d)
    BY <1>4, <1>7 DEF AgreeInv
  <2>2. /\ registered'[d] = registered[d] /\ misled'[d] = misled[d]
        /\ \A v \in Slots : IsOf(v, d)' <=> IsOf(v, d)
        /\ \A v \in Slots : IsOf(v, d) => workers'[v] = workers[v]
    BY <1>1, <1>2, <1>5, JoinedOthers DEF IsOf
  <2>3. (Looked(d)' <=> Looked(d)) /\ (OneIn(lookups', {d}) <=> OneIn(lookups, {d}))
    BY <1>2 DEF Looked
  <2>4. Untouched(d)
    BY <1>3, <2>2, <2>3 DEF Untouched, Waits
  <2> QED BY <2>1, <2>4, Frame
<1>8. ASSUME ~disturbed'[c] PROVE Calm(c)'
  <2>1. Calm(c) /\ Looked(c) /\ pending[c] = Nothing
    BY <1>2, <1>4, <1>8 DEF AgreeInv, Looked
  <2>2. registered[c] = 0 /\ ~Told(c) /\ ~Waits(c) /\ OneIn(lookups, {c}) /\ OneIn(channel, Of(c))
        /\ OneIn(queue, {c}) /\ up # "subscribed"
    BY <2>1 DEF Calm, Adders, OneAdder, NoAdder, ListsAll
  <2>3. ~Looked(c)' /\ ~Waits(c)' /\ ~Told(c)' /\ OneIn(lookups', {c})
    BY <1>2, <1>3, <2>2 DEF Looked, Waits, Told
  <2>4. After(c) = row[c] /\ After(c)' = row[c]
    BY <1>3, <2>1 DEF After
  <2>5. CASE Eligible(row[c]) /\ \E w \in Slots : Joins(c, w)
    <3>1. row[c].type = "full"
      BY <2>1, <2>4 DEF Calm, Fulls, LooksFull
    <3> QED BY <1>1, <1>2, <1>3, <2>1, <2>2, <2>3, <2>5, <3>1, JoinedCalm
  <2>6. CASE ~Eligible(row[c]) /\ UNCHANGED <<workers, registered, misled>>
    <3>1. row[c] # [state |-> "ok", type |-> "full"]
      BY <2>6 DEF Eligible, Rows, States, Types
    <3>2. /\ \A w \in Slots : IsOf(w, c)' <=> IsOf(w, c)
          /\ (Works(c)' <=> Works(c)) /\ \A m \in Of(c) : Outdated(m)' <=> Outdated(m)
      BY <1>3, <2>4, <2>6 DEF IsOf, Works, IsWorking, Outdated, Of
    <3> USE <1>3, <2>1, <2>2, <2>3, <2>4, <2>6, <3>1, <3>2 DEF Calm
    <3>3. OwnWorker(c)' /\ Adders(c)'
      BY DEF OwnWorker, Adders, OneAdder, NoAdder, Current, LastWord, Told
    <3>4. Fulls(c)'
      BY DEF Fulls, LooksFull, WaitsFull, WorksFull, UnbornFree
    <3>5. ListsAll(c)' /\ Added(c)' /\ Fits(c)' /\ Serves(c)'
      BY DEF ListsAll, Added, Fits, Serves
    <3> QED BY <3>3, <3>4, <3>5
  <2> QED BY <1>5, <2>2, <2>5, <2>6
<1> QED BY <1>2, <1>6, <1>7, <1>8 DEF AgreeInv

LEMMA AddNextStep == AgreeInv /\ AddNext => AgreeInv'
<1> SUFFICES ASSUME AgreeInv, AddNext PROVE AgreeInv'
  OBVIOUS
<1>1. Shape /\ RegistryTypes /\ DataTypes /\ CounterTypes
  BY TypesSplit DEF AgreeInv, Shape
<1>2. PICK c \in Clients : c = Head(queue)
  BY <1>1, Tailed DEF DataTypes, AddNext
<1>3. /\ queue' \in Seq(Clients) /\ queue # <<>>
      /\ \A x : Contains(queue, x) <=> Contains(queue', x) \/ x = c
      /\ \A A : c \notin A => (OneIn(queue', A) <=> OneIn(queue, A))
      /\ \A A : OneIn(queue, A) /\ c \in A => \A x \in A : ~Contains(queue', x)
  <2>1. queue \in Seq(Clients) /\ queue # <<>> /\ queue' = Tail(queue)
    BY <1>1 DEF DataTypes, AddNext
  <2> QED BY <1>2, <2>1, Tailed
<1>4. /\ AddClient(c, TRUE)
      /\ UNCHANGED <<channel, row, pending, up, lookups, disturbed,
                     edits, overlaps, stops, failures, executions>>
  BY <1>2 DEF AddNext, db, counters
<1>5. PICK w \in Slots : Joins(c, w) /\ RegistryTypes' /\ LoadedRows'
  BY <1>1, <1>4, Joined
<1>6. Shape'
  <2>1. misled' \in [Clients -> BOOLEAN]
    BY <1>1, <1>5 DEF DataTypes, Joins
  <2>2. DataTypes' /\ CounterTypes'
    BY <1>1, <1>3, <1>4, <2>1 DEF DataTypes, CounterTypes
  <2>3. WholeRows' /\ DownIsEmpty'
    BY <1>1, <1>3, <1>4 DEF Shape, WholeRows, DownIsEmpty, After
  <2> QED BY <1>5, <2>2, <2>3, TypesSplitNext DEF Shape
<1>7. ASSUME NEW d \in Clients \ {c}, ~disturbed'[d] PROVE Calm(d)'
  <2>1. Calm(d)
    BY <1>4, <1>7 DEF AgreeInv
  <2>2. /\ registered'[d] = registered[d] /\ misled'[d] = misled[d]
        /\ \A v \in Slots : IsOf(v, d)' <=> IsOf(v, d)
        /\ \A v \in Slots : IsOf(v, d) => workers'[v] = workers[v]
    BY <1>1, <1>5, JoinedOthers
  <2>3. (Waits(d)' <=> Waits(d)) /\ (OneIn(queue', {d}) <=> OneIn(queue, {d}))
    BY <1>3 DEF Waits
  <2>4. Untouched(d)
    BY <1>4, <2>2, <2>3 DEF Untouched, Looked
  <2> QED BY <2>1, <2>4, Frame
<1>8. ASSUME ~disturbed'[c] PROVE Calm(c)'
  <2>1. Calm(c) /\ Waits(c)
    BY <1>3, <1>4, <1>8 DEF AgreeInv, Waits
  <2>2. /\ registered[c] = 0 /\ ~Told(c) /\ ~Looked(c) /\ OneIn(queue, {c}) /\ up # "subscribed"
        /\ pending[c] = Nothing /\ Eligible(row[c]) /\ row[c].type = "full"
    BY <2>1 DEF Calm, Adders, OneAdder, NoAdder, ListsAll, Fulls, WaitsFull
  <2>3. ~Looked(c)' /\ ~Waits(c)'
    BY <1>3, <1>4, <2>2 DEF Looked, Waits
  <2> QED BY <1>1, <1>4, <1>5, <2>1, <2>2, <2>3, JoinedCalm
<1> QED BY <1>6, <1>7, <1>8 DEF AgreeInv

-----------------------------------------------------------------------------
(* Workers at work.                                                        *)

\* What a step of a worker of c leaves to the others.
WorkerOthers(c) ==
  /\ UNCHANGED <<pending, lookups, registered, edits, overlaps, stops, misled, up, queue>>
  /\ \A d \in Clients \ {c} : row'[d] = row[d] /\ disturbed'[d] = disturbed[d]
  /\ row' \in [Clients -> Rows \cup {Unborn, Gone}] /\ disturbed' \in [Clients -> BOOLEAN]
  /\ channel' \in Seq(Messages) /\ up # "down"
  /\ \A d \in Clients \ {c} :
       /\ \A m \in Of(d) : Contains(channel', m) <=> Contains(channel, m)
       /\ OneIn(channel', Of(d)) <=> OneIn(channel, Of(d))
  /\ CounterTypes'

\* What the worker becomes.
Becomes(w, new) ==
  /\ Turns(w, new)
  /\ \/ /\ new \in Workers /\ new.client = workers[w].client /\ new # Free
        /\ new.phase \in {"loaded", "sync", "startup", "live"} => new.loaded \in Rows
     \/ new = Free /\ registered[workers[w].client] # w

LEMMA WorkerUp ==
  ASSUME Shape, NEW w \in Slots, workers[w] # Free
  PROVE  up # "down" /\ workers[w] \in Workers /\ workers[w].client \in Clients
  BY DEF Shape, DownIsEmpty, TypeOK, Slots, Workers

LEMMA WorkerFrame ==
  ASSUME AgreeInv, NEW w \in Slots, workers[w] # Free, NEW new, Becomes(w, new),
         NEW c \in Clients, c = workers[w].client, WorkerOthers(c),
         pending[c] # Nothing => After(c)' \in Rows
  PROVE  Shape' /\ \A d \in Clients \ {c} : disturbed'[d] \/ Calm(d)'
<1>1. Shape /\ RegistryTypes /\ DataTypes /\ CounterTypes
  BY TypesSplit DEF AgreeInv, Shape
<1>2. RegistryTypes' /\ LoadedRows'
  BY <1>1, TurnedTypes DEF Shape, Becomes, WorkerOthers
<1>3. Shape'
  <2>1. DataTypes' /\ CounterTypes'
    BY <1>1 DEF DataTypes, WorkerOthers
  <2>2. DownIsEmpty'
    BY DEF DownIsEmpty, WorkerOthers
  <2>3. WholeRows'
    <3>1. \A d \in Clients \ {c} : After(d)' = After(d)
      BY <1>1 DEF After, WorkerOthers
    <3> QED BY <1>1, <3>1 DEF WholeRows, Shape, WorkerOthers
  <2> QED BY <1>2, <2>1, <2>2, <2>3, TypesSplitNext DEF Shape
<1>4. ASSUME NEW d \in Clients \ {c}, ~disturbed'[d] PROVE Calm(d)'
  <2>1. Calm(d)
    BY <1>4 DEF AgreeInv, WorkerOthers
  <2>2. /\ workers'[w] = new /\ \A v \in Slots \ {w} : workers'[v] = workers[v]
        /\ new = Free \/ new.client # d
    BY <1>1 DEF Becomes, Turns, RegistryTypes
  <2>3. \A v \in Slots : (IsOf(v, d)' <=> IsOf(v, d)) /\ (IsOf(v, d) => workers'[v] = workers[v])
    BY <2>2 DEF IsOf
  <2>4. Untouched(d)
    BY <2>3 DEF Untouched, WorkerOthers, Looked, Waits
  <2> QED BY <2>1, <2>4, Frame
<1> QED BY <1>3, <1>4

LEMMA BecomesMoved ==
  ASSUME Shape, NEW w \in Slots, workers[w] # Free, NEW phase \in Phases,
         NEW known \in Rows \cup {Unborn}, Moves(w, phase, known),
         phase \in {"loaded", "sync", "startup", "live"} => known \in Rows
  PROVE  \E new : Becomes(w, new) /\ new # Free /\ new.client = workers[w].client
                  /\ new.phase = phase /\ new.loaded = known
<1>1. PICK new \in Workers :
        /\ Turns(w, new) /\ new.client = workers[w].client
        /\ new.phase = phase /\ new.loaded = known /\ new # Free
  BY Moved
<1> QED BY <1>1 DEF Becomes

LEMMA BecomesFailed ==
  ASSUME Shape, NEW w \in Slots, workers[w] # Free, Fails(w)
  PROVE  \E new :
           /\ Becomes(w, new)
           /\ registered[workers[w].client] = w =>
                new # Free /\ new.client = workers[w].client /\ new.phase = "failed"
<1>1. CASE registered[workers[w].client] = w /\ \E new \in Workers :
             Turns(w, new) /\ new.client = workers[w].client /\ new.phase = "failed" /\ new # Free
  BY <1>1 DEF Becomes
<1>2. CASE registered[workers[w].client] # w /\ Turns(w, Free)
  BY <1>2 DEF Becomes
<1> QED BY <1>1, <1>2, Failed

LEMMA BecomesSame ==
  ASSUME Shape, NEW w \in Slots, workers[w] # Free, UNCHANGED workers
  PROVE  Becomes(w, workers[w])
<1>1. workers \in [Slots -> Workers \cup {Free}] /\ LoadedRows
  BY DEF Shape, TypeOK, Slots
<1> QED BY <1>1 DEF Becomes, Turns, LoadedRows

\* What the client's worker needs to know of its step.
LEMMA WorkerCalm ==
  ASSUME Shape, NEW w \in Slots, NEW c \in Clients, IsOf(w, c), Calm(c), WorkerOthers(c),
         NEW new, Becomes(w, new), new # Free, new.client = c,
         \A m \in Of(c) : Contains(channel', m) => m.category = "update",
         LastWord(c)', Fits(c)', row'[c] # Unborn,
         new.phase \in Working => pending[c] = Nothing /\ row'[c].type = "full",
         new.phase \in {"loaded", "sync", "startup"} => new.loaded.type = "full",
         new.phase \in {"startup", "live"} => After(c)'.state # "synchronizing"
  PROVE  Calm(c)'
<1>1. RegistryTypes
  BY TypesSplit DEF Shape
<1>2. registered[c] = w /\ w # 0 /\ ~Looked(c) /\ ~Waits(c) /\ up # "subscribed"
      /\ \A v \in Slots : IsOf(v, c) => v = w
  BY Bounds DEF Calm, OwnWorker, Adders, NoAdder, ListsAll, Slots
<1>3. registered'[c] = w /\ ~Looked(c)' /\ ~Waits(c)' /\ up' = up /\ pending' = pending
  BY <1>2 DEF WorkerOthers, Looked, Waits
<1>4. workers'[w] = new /\ \A v \in Slots : IsOf(v, c)' => v = w
  BY <1>1, <1>2 DEF Becomes, Turns, RegistryTypes, IsOf
<1>5. OwnWorker(c)' /\ Adders(c)'
  BY <1>2, <1>3, <1>4 DEF OwnWorker, Adders, OneAdder, NoAdder, Current
<1>6. Fulls(c)'
  BY <1>3, <1>4 DEF Fulls, LooksFull, WaitsFull, WorksFull, UnbornFree, Works, IsWorking
<1>7. ListsAll(c)' /\ Added(c)' /\ Serves(c)'
  BY <1>2, <1>3, <1>4 DEF ListsAll, Added, Serves
<1> QED BY <1>5, <1>6, <1>7 DEF Calm

\* A worker at work is of a client that is there, full and not archived, and
\* nothing on its way removes it.
LEMMA AtWork ==
  ASSUME Shape, NEW w \in Slots, NEW c \in Clients, IsOf(w, c), IsWorking(w), Calm(c)
  PROVE  /\ registered[c] = w /\ Works(c) /\ pending[c] = Nothing /\ After(c) = row[c]
         /\ Exists(c) /\ row[c] \in Rows /\ row[c] # Unborn
         /\ row[c].type = "full" /\ row[c].state # "archived"
         /\ \A m \in Of(c) : Contains(channel, m) => m.category = "update" /\ ~Removes(m)
<1>1. registered[c] = w /\ w # 0 /\ Works(c)
  BY Bounds DEF Calm, OwnWorker, Works, Slots
<1>2. pending[c] = Nothing /\ row[c].type = "full" /\ After(c) = row[c]
  BY <1>1 DEF Calm, Fulls, WorksFull, After
<1>3. \A m \in Of(c) : Contains(channel, m) => m.category = "update" /\ ~Removes(m)
  BY <1>1 DEF Calm, Adders, NoAdder, LastWord
<1>4. row[c] # Unborn /\ row[c] # Gone
  BY <1>2 DEF Unborn, Gone
<1>5. row[c] \in Rows /\ Exists(c)
  BY <1>4 DEF Shape, TypeOK, Exists
<1>6. row[c].state # "archived"
  BY <1>1, <1>2, <1>3, <1>4 DEF Calm, Fits
<1> QED BY <1>1, <1>2, <1>3, <1>4, <1>5, <1>6

\* Who says nothing leaves the channel as it is.
LEMMA Silent ==
  ASSUME NEW c \in Clients, channel' = channel, LastWord(c), Works(c)' => Works(c)
  PROVE  LastWord(c)'
  BY DEF LastWord

LEMMA SilentOthers ==
  ASSUME Shape, up # "down", NEW c \in Clients, WorkerStep,
         UNCHANGED <<row, channel, executions, disturbed>>,
         failures' = failures \/ (failures < MaxFailures /\ failures' = failures + 1)
  PROVE  WorkerOthers(c)
<1>1. DataTypes /\ CounterTypes
  BY TypesSplit DEF Shape
<1>2. CounterTypes'
  BY <1>1, Bounds DEF CounterTypes, WorkerStep
<1>3. UNCHANGED <<pending, lookups, registered, edits, overlaps, stops, misled, up, queue>>
  BY DEF WorkerStep, starting
<1> QED BY <1>1, <1>2, <1>3 DEF WorkerOthers, DataTypes

LEMMA IsSlot ==
  ASSUME Shape, NEW w, workers[w].phase \in Phases, w \in DOMAIN workers
  PROVE  w \in Slots /\ workers[w] # Free /\ up # "down"
         /\ workers[w] \in Workers /\ workers[w].client \in Clients
<1>1. w \in Slots
  BY DEF Shape, TypeOK, Slots
<1>2. workers[w] # Free
  BY DEF Free, Phases, Working
<1> QED BY <1>1, <1>2, WorkerUp

\* A step of a worker at work that writes nothing.
LEMMA SilentStep ==
  ASSUME AgreeInv, NEW w \in Slots, workers[w] # Free, IsWorking(w),
         NEW c \in Clients, c = workers[w].client, WorkerOthers(c),
         UNCHANGED <<row, channel, disturbed>>,
         NEW new, Becomes(w, new),
         (Exists(c) /\ registered[c] = w) =>
            /\ new # Free /\ new.client = c
            /\ new.phase \in {"loaded", "sync", "startup"} => new.loaded.type = row[c].type
            /\ new.phase \in {"startup", "live"} => workers[w].phase = "startup"
  PROVE  AgreeInv'
<1>1. After(c)' = After(c) /\ UNCHANGED <<pending, registered>>
  BY DEF After, WorkerOthers
<1>2. pending[c] # Nothing => After(c)' \in Rows
  BY <1>1 DEF AgreeInv, Shape, WholeRows
<1>3. Shape' /\ \A d \in Clients \ {c} : disturbed'[d] \/ Calm(d)'
  BY <1>2, WorkerFrame
<1>4. ASSUME ~disturbed'[c] PROVE Calm(c)'
  <2>1. Shape /\ Calm(c) /\ IsOf(w, c)
    BY <1>4 DEF AgreeInv, IsOf
  <2>2. /\ registered[c] = w /\ Works(c) /\ pending[c] = Nothing /\ After(c) = row[c]
        /\ Exists(c) /\ row[c] # Unborn /\ row[c].type = "full" /\ row[c].state # "archived"
        /\ \A m \in Of(c) : Contains(channel, m) => m.category = "update"
    BY <2>1, AtWork
  <2>3. LastWord(c)'
    BY <2>1, <2>2, Silent DEF Calm, Adders
  <2>4. Fits(c)'
    BY <1>1, <2>2 DEF Fits
  <2>5. new.phase \in {"startup", "live"} => After(c)'.state # "synchronizing"
    BY <1>1, <2>1, <2>2 DEF Calm, Serves
  <2> QED BY <1>1, <2>1, <2>2, <2>3, <2>4, <2>5, WorkerCalm
<1> QED BY <1>3, <1>4 DEF AgreeInv

LEMMA LoadStep == ASSUME AgreeInv, NEW w \in DOMAIN workers, Load(w) PROVE AgreeInv'
<1>1. Shape /\ workers[w].phase = "begin" /\ failures' = failures
  BY DEF AgreeInv, Load
<1>2. PICK c \in Clients : c = workers[w].client
  BY <1>1, IsSlot DEF Phases, Working
<1>3. w \in Slots /\ workers[w] # Free /\ up # "down" /\ IsWorking(w) /\ workers[w] \in Workers
  BY <1>1, IsSlot DEF Phases, Working, IsWorking
<1>4. UNCHANGED <<row, channel, executions, disturbed>> /\ WorkerOthers(c)
  BY <1>1, <1>3, SilentOthers DEF Load
<1>5. CASE Exists(c)
  <2>1. Moves(w, "loaded", row[c]) /\ row[c] \in Rows
    BY <1>1, <1>2, <1>5 DEF Load, Exists, Shape, TypeOK
  <2>2. PICK new : Becomes(w, new) /\ new # Free /\ new.client = c
                   /\ new.phase = "loaded" /\ new.loaded = row[c]
    BY <1>1, <1>2, <1>3, <2>1, BecomesMoved DEF Phases, Working
  <2> QED BY <1>2, <1>3, <1>4, <2>2, SilentStep
<1>6. CASE ~Exists(c)
  <2>1. PICK new : Becomes(w, new)
    BY <1>1, <1>2, <1>3, <1>6, BecomesFailed DEF Load
  <2> QED BY <1>2, <1>3, <1>4, <1>6, <2>1, SilentStep
<1> QED BY <1>5, <1>6

LEMMA StartupStep == ASSUME AgreeInv, NEW w \in DOMAIN workers, Startup(w) PROVE AgreeInv'
<1>1. Shape /\ workers[w].phase = "startup" /\ failures' = failures
  BY DEF AgreeInv, Startup
<1>2. PICK c \in Clients : c = workers[w].client
  BY <1>1, IsSlot DEF Phases, Working
<1>3. w \in Slots /\ workers[w] # Free /\ up # "down" /\ IsWorking(w) /\ workers[w] \in Workers
  BY <1>1, IsSlot DEF Phases, Working, IsWorking
<1>4. UNCHANGED <<row, channel, executions, disturbed>> /\ WorkerOthers(c)
  BY <1>1, <1>3, SilentOthers DEF Startup
<1>5. CASE Exists(c)
  <2>1. Moves(w, "live", row[c]) /\ row[c] \in Rows
    BY <1>1, <1>2, <1>5 DEF Startup, Exists, Shape, TypeOK
  <2>2. PICK new : Becomes(w, new) /\ new # Free /\ new.client = c /\ new.phase = "live"
    BY <1>1, <1>2, <1>3, <2>1, BecomesMoved DEF Phases, Working
  <2> QED BY <1>1, <1>2, <1>3, <1>4, <2>2, SilentStep
<1>6. CASE ~Exists(c)
  <2>1. PICK new : Becomes(w, new)
    BY <1>1, <1>2, <1>3, <1>6, BecomesFailed DEF Startup
  <2> QED BY <1>2, <1>3, <1>4, <1>6, <2>1, SilentStep
<1> QED BY <1>5, <1>6

LEMMA FailStep == ASSUME AgreeInv, NEW w \in DOMAIN workers, Fail(w) PROVE AgreeInv'
<1>1. Shape /\ workers[w].phase \in Working /\ Fails(w)
      /\ failures < MaxFailures /\ failures' = failures + 1
  BY DEF AgreeInv, Fail
<1>2. PICK c \in Clients : c = workers[w].client
  BY <1>1, IsSlot DEF Phases
<1>3. w \in Slots /\ workers[w] # Free /\ up # "down" /\ IsWorking(w)
  BY <1>1, IsSlot DEF Phases, IsWorking
<1>4. UNCHANGED <<row, channel, executions, disturbed>> /\ WorkerOthers(c)
  BY <1>1, <1>3, SilentOthers DEF Fail
<1>5. PICK new :
        /\ Becomes(w, new)
        /\ registered[c] = w => new # Free /\ new.client = c /\ new.phase = "failed"
  BY <1>1, <1>2, <1>3, BecomesFailed
<1> QED BY <1>2, <1>3, <1>4, <1>5, SilentStep

\* What the channel gains.
LEMMA Spoken ==
  ASSUME Shape, up # "down", NEW c \in Clients, NEW state \in States, NEW type \in Types,
         Publish(c, "update", state, type), WorkerStep, failures' = failures,
         executions' = executions \/ (executions < MaxExecutions /\ executions' = executions + 1),
         row' \in [Clients -> Rows \cup {Unborn, Gone}], disturbed' \in [Clients -> BOOLEAN],
         \A d \in Clients \ {c} : row'[d] = row[d] /\ disturbed'[d] = disturbed[d]
  PROVE  /\ WorkerOthers(c)
         /\ ~Told(c) => OneIn(channel', Of(c))
         /\ \A m \in Of(c) : Contains(channel', m) =>
              \/ Contains(channel, m)
              \/ m.category = "update" /\ m.state = state /\ m.type = type
         /\ \E m \in Of(c) : Contains(channel', m) /\ m.state = state /\ m.type = type
<1> DEFINE told == [client |-> c, category |-> "update", state |-> state, type |-> type]
<1>1. DataTypes /\ CounterTypes
  BY TypesSplit DEF Shape
<1>2. told \in Messages /\ told.category = "update" /\ told.state = state /\ told.type = type
  BY DEF Messages
<1>3. told \in Of(c) /\ \A d \in Clients \ {c} : told \notin Of(d)
  BY <1>2 DEF Of
<1>4. /\ channel' \in Seq(Messages)
      /\ \A m : Contains(channel', m) <=> Contains(channel, m) \/ m = told
      /\ \A d : d # c => (OneIn(channel', Of(d)) <=> OneIn(channel, Of(d)))
      /\ ~Told(c) => OneIn(channel', Of(c))
  BY <1>1, <1>2, Published DEF DataTypes
<1> HIDE DEF told
<1>5. CounterTypes'
  BY <1>1, Bounds DEF CounterTypes, WorkerStep
<1>6. UNCHANGED <<pending, lookups, registered, edits, overlaps, stops, misled, up, queue>>
  BY DEF WorkerStep, starting
<1>7. WorkerOthers(c)
  BY <1>3, <1>4, <1>5, <1>6 DEF WorkerOthers
<1> QED BY <1>2, <1>3, <1>4, <1>7

\* A step of a worker at work that writes its client's state and says so.
LEMMA SpokenStep ==
  ASSUME AgreeInv, NEW w \in Slots, workers[w] # Free, workers[w].phase \in {"loaded", "sync"},
         NEW c \in Clients, c = workers[w].client, WorkerOthers(c), UNCHANGED disturbed,
         NEW new, Becomes(w, new), new # Free, new.client = c,
         new.phase \in {"sync", "startup"}, new.loaded.type = workers[w].loaded.type,
         pending[c] # Nothing => row'[c] = row[c],
         row'[c] = row[c] \/ (row'[c].state \in {"ok", "synchronizing"} /\ row'[c].type = row[c].type),
         new.phase = "startup" => row'[c].state # "synchronizing",
         NEW state \in {"ok", "synchronizing"},
         \A m \in Of(c) : Contains(channel', m) =>
           \/ Contains(channel, m)
           \/ m.category = "update" /\ m.state = state /\ m.type = workers[w].loaded.type
  PROVE  AgreeInv'
<1>1. UNCHANGED pending
  BY DEF WorkerOthers
<1>2. pending[c] # Nothing => After(c)' \in Rows
  BY <1>1 DEF AgreeInv, Shape, WholeRows, After
<1>3. Shape' /\ \A d \in Clients \ {c} : disturbed'[d] \/ Calm(d)'
  BY <1>2, WorkerFrame
<1>4. ASSUME ~disturbed'[c] PROVE Calm(c)'
  <2>1. Shape /\ Calm(c) /\ IsOf(w, c) /\ IsWorking(w)
    BY <1>4 DEF AgreeInv, IsOf, IsWorking, Working
  <2>2. /\ Works(c) /\ pending[c] = Nothing /\ row[c] \in Rows
        /\ row[c].type = "full" /\ row[c].state # "archived"
        /\ \A m \in Of(c) : Contains(channel, m) => m.category = "update" /\ ~Removes(m)
    BY <2>1, AtWork
  <2>3. workers[w].loaded.type = "full"
    BY <2>1 DEF Calm, Fulls, WorksFull
  <2>4. /\ \A m \in Of(c) : Contains(channel', m) => m.category = "update"
        /\ LastWord(c)'
    BY <2>2, <2>3 DEF Removes, LastWord
  <2>5. row'[c].type = "full" /\ row'[c].state # "archived" /\ After(c)' = row'[c]
    BY <1>1, <2>2 DEF After
  <2>6. Fits(c)' /\ row'[c] # Unborn
    BY <2>5 DEF Fits, Unborn
  <2> QED BY <1>1, <2>1, <2>2, <2>3, <2>4, <2>5, <2>6, WorkerCalm
<1> QED BY <1>3, <1>4 DEF AgreeInv

LEMMA MarkStep == ASSUME AgreeInv, NEW w \in DOMAIN workers, Mark(w) PROVE AgreeInv'
<1>1. Shape /\ workers[w].phase = "loaded"
  BY DEF AgreeInv, Mark
<1>2. PICK c \in Clients : c = workers[w].client
  BY <1>1, IsSlot DEF Phases, Working
<1>3. w \in Slots /\ workers[w] # Free /\ up # "down" /\ IsWorking(w)
  BY <1>1, IsSlot DEF Phases, Working, IsWorking
<1>4. PICK old \in Rows : old = workers[w].loaded
  BY <1>1, <1>3 DEF Shape, LoadedRows
<1> DEFINE writes == old.state # "synchronizing"
<1>5. /\ writes => pending[c] = Nothing
      /\ IF writes /\ ~Exists(c) THEN Fails(w) /\ UNCHANGED <<row, channel>>
         ELSE /\ Moves(w, "sync", [old EXCEPT !.state = "synchronizing"])
              /\ row' = IF writes THEN [row EXCEPT ![c].state = "synchronizing"] ELSE row
              /\ Publish(c, "update", "synchronizing", old.type)
      /\ UNCHANGED <<failures, executions, disturbed>> /\ WorkerStep
  BY <1>2, <1>4 DEF Mark
<1>6. CASE writes /\ ~Exists(c)
  <2>1. WorkerOthers(c) /\ UNCHANGED <<row, channel, disturbed>> /\ Fails(w)
    BY <1>1, <1>3, <1>5, <1>6, SilentOthers
  <2>2. PICK new : Becomes(w, new)
    BY <1>1, <1>3, <2>1, BecomesFailed
  <2> QED BY <1>2, <1>3, <1>6, <2>1, <2>2, SilentStep
<1>7. CASE ~(writes /\ ~Exists(c))
  <2> DEFINE known == [old EXCEPT !.state = "synchronizing"]
  <2>1. known \in Rows /\ known.type = old.type /\ old.type \in Types
    BY DEF Rows, States
  <2>2. Moves(w, "sync", known)
    BY <1>5, <1>7
  <2>3. PICK new : Becomes(w, new) /\ new # Free /\ new.client = c
                   /\ new.phase = "sync" /\ new.loaded = known
    BY <1>1, <1>2, <1>3, <2>1, <2>2, BecomesMoved DEF Phases, Working
  <2>4. DataTypes
    BY <1>1, TypesSplit DEF Shape
  <2>5. writes => row[c] \in Rows
    BY <1>7, <2>4 DEF Exists, DataTypes
  <2>6. /\ row' \in [Clients -> Rows \cup {Unborn, Gone}]
        /\ \A d \in Clients \ {c} : row'[d] = row[d]
        /\ pending[c] # Nothing => row'[c] = row[c]
        /\ row'[c] = row[c] \/ (row'[c].state = "synchronizing" /\ row'[c].type = row[c].type)
    <3>1. CASE writes
      <4>1. row' = [row EXCEPT ![c] = [row[c] EXCEPT !.state = "synchronizing"]]
        BY <1>5, <1>7, <3>1
      <4>2. [row[c] EXCEPT !.state = "synchronizing"] \in Rows
        BY <2>5, <3>1 DEF Rows, States
      <4> QED BY <1>5, <2>4, <2>5, <3>1, <4>1, <4>2 DEF DataTypes, Rows
    <3>2. CASE ~writes
      BY <1>5, <1>7, <2>4, <3>2 DEF DataTypes
    <3> QED BY <3>1, <3>2
  <2>7. /\ WorkerOthers(c)
        /\ \A m \in Of(c) : Contains(channel', m) =>
              \/ Contains(channel, m)
              \/ m.category = "update" /\ m.state = "synchronizing" /\ m.type = old.type
    BY <1>1, <1>3, <1>5, <1>7, <2>1, <2>4, <2>6, Spoken DEF DataTypes, States
  <2> HIDE DEF known
  <2> QED BY <1>1, <1>2, <1>3, <1>4, <1>5, <2>1, <2>3, <2>6, <2>7, SpokenStep
<1> QED BY <1>6, <1>7

LEMMA FinishStep == ASSUME AgreeInv, NEW w \in DOMAIN workers, Finish(w) PROVE AgreeInv'
<1>1. Shape /\ workers[w].phase = "sync"
  BY DEF AgreeInv, Finish
<1>2. PICK c \in Clients : c = workers[w].client
  BY <1>1, IsSlot DEF Phases, Working
<1>3. w \in Slots /\ workers[w] # Free /\ up # "down" /\ IsWorking(w)
  BY <1>1, IsSlot DEF Phases, Working, IsWorking
<1>4. PICK old \in Rows : old = workers[w].loaded
  BY <1>1, <1>3 DEF Shape, LoadedRows
<1>5. /\ pending[c] = Nothing
      /\ IF ~Exists(c) THEN Fails(w) /\ UNCHANGED <<row, channel>>
         ELSE /\ Moves(w, "startup", [old EXCEPT !.state = "ok"])
              /\ row' = [row EXCEPT ![c].state = "ok"]
              /\ Publish(c, "update", "ok", old.type)
      /\ UNCHANGED <<failures, executions, disturbed>> /\ WorkerStep
  BY <1>2, <1>4 DEF Finish
<1>6. CASE ~Exists(c)
  <2>1. WorkerOthers(c) /\ UNCHANGED <<row, channel, disturbed>> /\ Fails(w)
    BY <1>1, <1>3, <1>5, <1>6, SilentOthers
  <2>2. PICK new : Becomes(w, new)
    BY <1>1, <1>3, <2>1, BecomesFailed
  <2> QED BY <1>2, <1>3, <1>6, <2>1, <2>2, SilentStep
<1>7. CASE Exists(c)
  <2> DEFINE known == [old EXCEPT !.state = "ok"]
  <2>1. known \in Rows /\ known.type = old.type /\ old.type \in Types
    BY DEF Rows, States
  <2>2. Moves(w, "startup", known)
    BY <1>5, <1>7
  <2>3. PICK new : Becomes(w, new) /\ new # Free /\ new.client = c
                   /\ new.phase = "startup" /\ new.loaded = known
    BY <1>1, <1>2, <1>3, <2>1, <2>2, BecomesMoved DEF Phases, Working
  <2>4. DataTypes
    BY <1>1, TypesSplit DEF Shape
  <2>5. row[c] \in Rows
    BY <1>7, <2>4 DEF Exists, DataTypes
  <2>6. /\ row' \in [Clients -> Rows \cup {Unborn, Gone}]
        /\ \A d \in Clients \ {c} : row'[d] = row[d]
        /\ row'[c].state = "ok" /\ row'[c].type = row[c].type
    <3>1. row' = [row EXCEPT ![c] = [row[c] EXCEPT !.state = "ok"]]
      BY <1>5, <1>7
    <3>2. [row[c] EXCEPT !.state = "ok"] \in Rows
      BY <2>5 DEF Rows, States
    <3> QED BY <2>4, <2>5, <3>1, <3>2 DEF DataTypes, Rows
  <2>7. /\ WorkerOthers(c)
        /\ \A m \in Of(c) : Contains(channel', m) =>
              \/ Contains(channel, m)
              \/ m.category = "update" /\ m.state = "ok" /\ m.type = old.type
    BY <1>1, <1>3, <1>5, <1>7, <2>1, <2>4, <2>6, Spoken DEF DataTypes, States
  <2> HIDE DEF known
  <2> QED BY <1>1, <1>2, <1>3, <1>4, <1>5, <2>1, <2>3, <2>6, <2>7, SpokenStep
<1> QED BY <1>6, <1>7

-----------------------------------------------------------------------------
(* Workers that are live, and the exchange's refusals.                     *)

LEMMA OnExecutionStep ==
  ASSUME AgreeInv, NEW w \in DOMAIN workers, OnExecution(w) PROVE AgreeInv'
<1>1. Shape /\ workers[w].phase = "live"
  BY DEF AgreeInv, OnExecution
<1>2. PICK c \in Clients : c = workers[w].client
  BY <1>1, IsSlot DEF Phases
<1>3. w \in Slots /\ workers[w] # Free /\ up # "down"
  BY <1>1, IsSlot DEF Phases
<1>4. PICK old \in Rows : old = workers[w].loaded
  BY <1>1, <1>3 DEF Shape, LoadedRows
<1>5. /\ pending[c] = Nothing /\ overlaps + executions < MaxExecutions
      /\ executions' = executions + 1 /\ Disturb(c, Busy(c))
      /\ IF Exists(c) THEN Publish(c, "update", old.state, old.type) /\ Moves(w, "live", row[c])
         ELSE UNCHANGED <<channel, workers>>
      /\ UNCHANGED <<row, failures>> /\ WorkerStep
  BY <1>2, <1>4 DEF OnExecution
<1>6. DataTypes /\ CounterTypes
  BY <1>1, TypesSplit DEF Shape
<1>7. /\ disturbed' \in [Clients -> BOOLEAN]
      /\ \A d \in Clients \ {c} : disturbed'[d] = disturbed[d]
      /\ ~disturbed'[c] => ~disturbed[c] /\ ~Busy(c)
  BY <1>5, <1>6 DEF Disturb, DataTypes
<1>8. executions < MaxExecutions
  BY <1>5, <1>6, Bounds DEF CounterTypes
<1>9. UNCHANGED pending /\ After(c)' = After(c)
  BY <1>5 DEF WorkerStep, After
<1>10. /\ WorkerOthers(c)
       /\ ~Told(c) => OneIn(channel', Of(c))
       /\ \A m \in Of(c) : Contains(channel', m) => Contains(channel, m) \/ m.category = "update"
       /\ ~Exists(c) => channel' = channel
  <2>1. old.state \in States /\ old.type \in Types
    BY DEF Rows
  <2>2. CASE Exists(c)
    <3>1. Publish(c, "update", old.state, old.type) /\ UNCHANGED <<row, failures>> /\ WorkerStep
      BY <1>5, <2>2
    <3>2. row' \in [Clients -> Rows \cup {Unborn, Gone}]
      BY <1>6, <3>1 DEF DataTypes
    <3>3. \A d \in Clients \ {c} : row'[d] = row[d] /\ disturbed'[d] = disturbed[d]
      BY <1>7, <3>1
    <3> QED BY <1>1, <1>3, <1>5, <1>7, <1>8, <2>1, <2>2, <3>1, <3>2, <3>3, Spoken
  <2>3. CASE ~Exists(c)
    <3>1. channel' = channel
      BY <1>5, <2>3
    <3>2. CounterTypes'
      BY <1>5, <1>6, <1>8, Bounds DEF CounterTypes, WorkerStep
    <3>3. WorkerOthers(c)
      BY <1>3, <1>5, <1>6, <1>7, <3>1, <3>2 DEF WorkerOthers, WorkerStep, starting, DataTypes
    <3>4. ~Told(c) => OneIn(channel', Of(c))
      BY <1>6, <3>1 DEF Told, OneIn, Contains, DataTypes
    <3> QED BY <2>3, <3>1, <3>3, <3>4
  <2> QED BY <2>2, <2>3
<1>11. PICK new : Becomes(w, new) /\ new # Free /\ new.client = c /\ new.phase = "live"
  <2>1. CASE Exists(c)
    <3>1. Moves(w, "live", row[c]) /\ row[c] \in Rows
      BY <1>5, <1>6, <2>1 DEF Exists, DataTypes
    <3> QED BY <1>1, <1>2, <1>3, <3>1, BecomesMoved DEF Phases
  <2>2. CASE ~Exists(c)
    <3>1. Becomes(w, workers[w])
      BY <1>1, <1>3, <1>5, <2>2, BecomesSame
    <3> QED BY <1>1, <1>2, <1>3, <3>1
  <2> QED BY <2>1, <2>2
<1>12. Shape' /\ \A d \in Clients \ {c} : disturbed'[d] \/ Calm(d)'
  BY <1>2, <1>3, <1>5, <1>10, <1>11, WorkerFrame
<1>13. ASSUME ~disturbed'[c] PROVE Calm(c)'
  <2>1. /\ Calm(c) /\ IsOf(w, c) /\ ~Told(c) /\ ~Works(c)
    BY <1>1, <1>2, <1>3, <1>7, <1>13, NotBusy DEF AgreeInv, IsOf
  <2>2. registered[c] = w /\ w # 0
    BY <1>3, <2>1, Bounds DEF Calm, OwnWorker, Slots
  <2>3. \A m \in Of(c) : Contains(channel', m) => m.category = "update"
    BY <1>10, <2>1 DEF Told
  <2>4. row'[c] # Unborn
    BY <1>5, <2>1, <2>2 DEF Calm, Fulls, UnbornFree
  <2>5. ~Works(c)'
    <3>1. workers \in [Slots -> Workers \cup {Free}]
      BY <1>1 DEF Shape, TypeOK, Slots
    <3>2. workers'[w] = new /\ \A v \in Slots \ {w} : workers'[v] = workers[v]
      BY <1>3, <1>11, <3>1 DEF Becomes, Turns
    <3> QED BY <1>11, <2>1, <3>2 DEF Works, IsOf, IsWorking, Working
  <2>6. LastWord(c)'
    BY <1>10, <2>1, <2>5 DEF LastWord
  <2>7. Fits(c)'
    BY <1>9, <2>1, <2>2 DEF Calm, Fits, Told
  <2>8. After(c)'.state # "synchronizing"
    BY <1>1, <1>3, <1>9, <2>1 DEF Calm, Serves
  <2> QED BY <1>1, <1>3, <1>10, <1>11, <2>1, <2>3, <2>4, <2>6, <2>7, <2>8, WorkerCalm DEF Working
<1> QED BY <1>12, <1>13 DEF AgreeInv

LEMMA RefuseStep ==
  ASSUME AgreeInv, NEW w \in DOMAIN workers, Refuse(w) PROVE AgreeInv'
<1>1. Shape /\ workers[w].phase \in {"sync", "startup", "live"}
  BY DEF AgreeInv, Refuse
<1>2. PICK c \in Clients : c = workers[w].client
  BY <1>1, IsSlot DEF Phases, Working
<1>3. w \in Slots /\ workers[w] # Free /\ up # "down"
  BY <1>1, IsSlot DEF Phases, Working
<1>4. /\ pending[c] = Nothing /\ failures < MaxFailures /\ failures' = failures + 1
      /\ row' = IF Exists(c) THEN [row EXCEPT ![c].state = "invalid"] ELSE row
      /\ IF workers[w].phase = "live" THEN UNCHANGED workers ELSE Fails(w)
      /\ UNCHANGED <<channel, executions, disturbed>> /\ WorkerStep
  BY <1>2 DEF Refuse
<1>5. DataTypes /\ CounterTypes
  BY <1>1, TypesSplit DEF Shape
<1>6. /\ row' \in [Clients -> Rows \cup {Unborn, Gone}]
      /\ \A d \in Clients \ {c} : row'[d] = row[d]
      /\ row'[c].type = row[c].type
      /\ row'[c] = row[c] \/ (Exists(c) /\ row'[c].state = "invalid")
      /\ row[c] # Unborn => row'[c] # Unborn
  <2>1. CASE Exists(c)
    <3>1. row' = [row EXCEPT ![c] = [row[c] EXCEPT !.state = "invalid"]] /\ row[c] \in Rows
      BY <1>4, <1>5, <2>1 DEF Exists, DataTypes
    <3>2. [row[c] EXCEPT !.state = "invalid"] \in Rows
      BY <3>1 DEF Rows, States
    <3> QED BY <1>5, <2>1, <3>1, <3>2 DEF DataTypes, Rows, Unborn
  <2>2. CASE ~Exists(c)
    BY <1>4, <1>5, <2>2 DEF DataTypes
  <2> QED BY <2>1, <2>2
<1>7. WorkerOthers(c)
  <2>1. CounterTypes'
    BY <1>4, <1>5, Bounds DEF CounterTypes, WorkerStep
  <2> QED BY <1>3, <1>4, <1>5, <1>6, <2>1 DEF WorkerOthers, WorkerStep, starting, DataTypes
<1>8. PICK new :
        /\ Becomes(w, new)
        /\ registered[c] = w => new # Free /\ new.client = c
        /\ registered[c] = w => \/ workers[w].phase = "live" /\ new = workers[w]
                                \/ new.phase = "failed"
  <2>1. CASE workers[w].phase = "live"
    BY <1>1, <1>2, <1>3, <1>4, <2>1, BecomesSame
  <2>2. CASE workers[w].phase # "live"
    BY <1>1, <1>2, <1>3, <1>4, <2>2, BecomesFailed
  <2> QED BY <2>1, <2>2
<1>9. Shape' /\ \A d \in Clients \ {c} : disturbed'[d] \/ Calm(d)'
  BY <1>2, <1>3, <1>4, <1>7, <1>8, WorkerFrame
<1>10. ASSUME ~disturbed'[c] PROVE Calm(c)'
  <2>1. Calm(c) /\ IsOf(w, c)
    BY <1>2, <1>3, <1>4, <1>10 DEF AgreeInv, IsOf
  <2>2. registered[c] = w /\ w # 0
    BY <1>3, <2>1, Bounds DEF Calm, OwnWorker, Slots
  <2>3. new # Free /\ new.client = c /\ new.phase \in {"live", "failed"}
        /\ (new.phase = "live" => workers[w].phase = "live")
    BY <1>8, <2>2
  <2>4. Works(c)' => Works(c)
    <3>1. workers \in [Slots -> Workers \cup {Free}]
      BY <1>1 DEF Shape, TypeOK, Slots
    <3>2. workers'[w] = new /\ \A v \in Slots \ {w} : workers'[v] = workers[v]
      BY <1>3, <1>8, <3>1 DEF Becomes, Turns
    <3> QED BY <2>3, <3>2 DEF Works, IsOf, IsWorking, Working
  <2>5. LastWord(c)' /\ \A m \in Of(c) : Contains(channel', m) => m.category = "update"
    BY <1>4, <2>1, <2>2, <2>4, Silent DEF Calm, Adders, NoAdder
  <2>6. After(c) = row[c] /\ After(c)' = row'[c]
    BY <1>4 DEF After, WorkerStep
  <2>7. Fits(c)'
    <3>1. \/ \E m \in Of(c) : Contains(channel, m) /\ Removes(m)
          \/ row[c] = Gone
          \/ row[c].type = "full" /\ row[c].state # "archived"
      BY <2>1, <2>2, <2>6 DEF Calm, Fits
    <3>2. row[c] = Gone => row'[c] = Gone
      BY <1>4 DEF Exists
    <3> QED BY <1>4, <1>6, <2>6, <3>1, <3>2 DEF Fits
  <2>8. row'[c] # Unborn
    BY <1>6, <2>1, <2>2 DEF Calm, Fulls, UnbornFree
  <2>9. new.phase = "live" => After(c)'.state # "synchronizing"
    BY <1>3, <1>6, <2>1, <2>3, <2>6 DEF Calm, Serves
  <2> QED BY <1>1, <1>3, <1>7, <1>8, <2>1, <2>3, <2>5, <2>7, <2>8, <2>9, WorkerCalm DEF Working
<1> QED BY <1>9, <1>10 DEF AgreeInv

-----------------------------------------------------------------------------
(* The service stops and starts.                                           *)

\* Nobody at home.
Empty ==
  /\ channel = <<>> /\ lookups = <<>> /\ queue = <<>> /\ up # "listed"
  /\ workers = [w \in Slots |-> Free] /\ registered = [c \in Clients |-> 0]

LEMMA EmptyCalm ==
  ASSUME NEW c \in Clients, Empty, up = "subscribed" => pending[c] = Nothing
  PROVE  Calm(c)
<1>1. /\ \A x : ~Contains(channel, x) /\ ~Contains(lookups, x) /\ ~Contains(queue, x)
      /\ \A A : OneIn(channel, A) /\ OneIn(lookups, A) /\ OneIn(queue, A)
      /\ \A w \in Slots : ~IsOf(w, c)
      /\ registered[c] = 0 /\ up # "listed"
  BY EmptySeq DEF Empty, Contains, OneIn, IsOf
<1>2. ~Told(c) /\ ~Looked(c) /\ ~Waits(c) /\ ~Works(c)
  BY <1>1 DEF Told, Looked, Waits, Works
<1>3. OwnWorker(c) /\ Adders(c)
  BY <1>1, <1>2 DEF OwnWorker, Adders, OneAdder, NoAdder, Current, LastWord
<1>4. Fulls(c)
  BY <1>1, <1>2 DEF Fulls, LooksFull, WaitsFull, WorksFull, UnbornFree
<1> QED BY <1>1, <1>2, <1>3, <1>4 DEF Calm, ListsAll, Added, Fits, Serves

LEMMA EmptyCalmNext ==
  ASSUME NEW c \in Clients, Empty', up' = "subscribed" => pending'[c] = Nothing
  PROVE  Calm(c)'
<1>1. /\ \A x : ~Contains(channel', x) /\ ~Contains(lookups', x) /\ ~Contains(queue', x)
      /\ \A A : OneIn(channel', A) /\ OneIn(lookups', A) /\ OneIn(queue', A)
      /\ \A w \in Slots : ~IsOf(w, c)'
      /\ registered'[c] = 0 /\ up' # "listed"
  BY EmptySeq DEF Empty, Contains, OneIn, IsOf
<1>2. ~Told(c)' /\ ~Looked(c)' /\ ~Waits(c)' /\ ~Works(c)'
  BY <1>1 DEF Told, Looked, Waits, Works
<1>3. OwnWorker(c)' /\ Adders(c)'
  BY <1>1, <1>2 DEF OwnWorker, Adders, OneAdder, NoAdder, Current, LastWord
<1>4. Fulls(c)'
  BY <1>1, <1>2 DEF Fulls, LooksFull, WaitsFull, WorksFull, UnbornFree
<1> QED BY <1>1, <1>2, <1>3, <1>4 DEF Calm, ListsAll, Added, Fits, Serves

LEMMA EmptyTypesNext == Empty' => RegistryTypes' /\ LoadedRows' /\ DownIsEmpty'
<1> SUFFICES ASSUME Empty' PROVE RegistryTypes' /\ LoadedRows' /\ DownIsEmpty'
  OBVIOUS
<1>1. RegistryTypes' /\ LoadedRows'
  BY Bounds DEF Empty, RegistryTypes, LoadedRows, Free
<1>2. DownIsEmpty'
  BY DEF Empty, DownIsEmpty
<1> QED BY <1>1, <1>2

LEMMA InitAgrees == Init => AgreeInv
<1> SUFFICES ASSUME Init PROVE AgreeInv
  OBVIOUS
<1>1. Empty
  BY DEF Init, Empty, Slots
<1>2. up # "subscribed"
  BY DEF Init
<1> QED BY <1>1, <1>2, InitShape, EmptyCalm DEF AgreeInv

LEMMA StopStep == AgreeInv /\ Stop => AgreeInv'
<1> SUFFICES ASSUME AgreeInv, Stop PROVE AgreeInv'
  OBVIOUS
<1>1. Shape /\ DataTypes /\ CounterTypes
  BY TypesSplit DEF AgreeInv, Shape
<1>2. /\ stops < MaxStops /\ stops' = stops + 1 /\ up' = "down"
      /\ UNCHANGED <<row, pending, edits, overlaps, failures, executions, disturbed, misled>>
  BY DEF Stop, db
<1>3. Empty'
  BY <1>1 DEF Stop, Empty, Slots, Shape, TypeOK
<1>4. RegistryTypes' /\ LoadedRows' /\ DownIsEmpty'
  BY <1>3, EmptyTypesNext
<1>5. DataTypes' /\ CounterTypes'
  BY <1>1, <1>2, <1>3, Bounds, EmptySeq DEF DataTypes, CounterTypes, Empty
<1>6. WholeRows'
  BY <1>1, <1>2 DEF Shape, WholeRows, After
<1> QED BY <1>2, <1>3, <1>4, <1>5, <1>6, TypesSplitNext, EmptyCalmNext DEF AgreeInv, Shape

LEMMA SubscribeStep == AgreeInv /\ Subscribe => AgreeInv'
<1> SUFFICES ASSUME AgreeInv, Subscribe PROVE AgreeInv'
  OBVIOUS
<1>1. Shape /\ RegistryTypes /\ DataTypes /\ CounterTypes
  BY TypesSplit DEF AgreeInv, Shape
<1>2. /\ up = "down" /\ up' = "subscribed" /\ disturbed' = [c \in Clients |-> pending[c] # Nothing]
      /\ misled' = [c \in Clients |-> FALSE]
      /\ UNCHANGED <<row, pending, queue, channel, lookups, workers, registered,
                     edits, overlaps, stops, failures, executions>>
  BY DEF Subscribe, db, counters
<1>3. Empty'
  BY <1>1, <1>2 DEF Empty, Shape, DownIsEmpty, RegistryTypes
<1>4. RegistryTypes' /\ LoadedRows' /\ DownIsEmpty'
  BY <1>3, EmptyTypesNext
<1>5. DataTypes' /\ CounterTypes'
  BY <1>1, <1>2 DEF DataTypes, CounterTypes
<1>6. WholeRows'
  BY <1>1, <1>2 DEF Shape, WholeRows, After
<1> QED BY <1>2, <1>3, <1>4, <1>5, <1>6, TypesSplitNext, EmptyCalmNext DEF AgreeInv, Shape

\* An order of a set has all of it, and each element once.
LEMMA Ordered ==
  ASSUME NEW S, IsFiniteSet(S), NEW s \in SetToSeqs(S)
  PROVE  /\ s \in Seq(S)
         /\ \A x : Contains(s, x) <=> x \in S
         /\ \A x : OneIn(s, {x})
<1> DEFINE n == Cardinality(S)
<1>1. n \in Nat
  BY FS_CardinalityType
<1> HIDE DEF n
<1>2. s \in [1 .. n -> S] /\ \A i, j \in 1 .. n : i # j => s[i] # s[j]
  BY DEF SetToSeqs, n
<1>3. s \in Seq(S) /\ Len(s) = n
  BY <1>1, <1>2
<1>4. s \in Injection(1 .. n, S)
  BY <1>2 DEF Injection, IsInjective
<1>5. Cardinality(1 .. n) = n
  BY <1>1, FS_Interval
<1>6. s \in Surjection(1 .. n, S)
  BY <1>4, <1>5, FS_Injection DEF n
<1>7. \A x : Contains(s, x) <=> x \in S
  BY <1>2, <1>3, <1>6 DEF Surjection, Contains
<1>8. \A x : OneIn(s, {x})
  BY <1>2, <1>3 DEF OneIn
<1> QED BY <1>3, <1>7, <1>8

LEMMA ListStep == AgreeInv /\ List => AgreeInv'
<1> SUFFICES ASSUME AgreeInv, List PROVE AgreeInv'
  OBVIOUS
<1> DEFINE listed == {c \in Clients : Eligible(row[c]) /\ row[c].type = "full"}
<1>1. Shape /\ RegistryTypes /\ DataTypes /\ CounterTypes
  BY TypesSplit DEF AgreeInv, Shape
<1>2. /\ up = "subscribed" /\ up' = "listed" /\ queue' \in SetToSeqs(listed)
      /\ UNCHANGED <<row, pending, channel, lookups, workers, registered, disturbed, misled,
                     edits, overlaps, stops, failures, executions>>
  BY DEF List, db, counters
<1>3. IsFiniteSet(listed) /\ listed \subseteq Clients
  BY BoundsAssumption, FS_Subset
<1> HIDE DEF listed
<1>4. /\ queue' \in Seq(listed)
      /\ \A x : Contains(queue', x) <=> x \in listed
      /\ \A x : OneIn(queue', {x})
  BY <1>2, <1>3, Ordered
<1>5. Shape'
  <2>1. RegistryTypes' /\ LoadedRows' /\ DownIsEmpty'
    BY <1>1, <1>2 DEF RegistryTypes, LoadedRows, DownIsEmpty, Shape
  <2>2. queue' \in Seq(Clients)
    BY <1>3, <1>4
  <2>3. DataTypes' /\ CounterTypes'
    BY <1>1, <1>2, <2>2 DEF DataTypes, CounterTypes
  <2>4. WholeRows'
    BY <1>1, <1>2 DEF Shape, WholeRows, After
  <2> QED BY <2>1, <2>3, <2>4, TypesSplitNext DEF Shape
<1>6. ASSUME NEW c \in Clients, ~disturbed'[c] PROVE Calm(c)'
  <2>1. /\ Calm(c) /\ pending[c] = Nothing /\ registered[c] = 0 /\ ~Told(c) /\ ~Looked(c)
        /\ OneIn(channel, Of(c)) /\ OneIn(lookups, {c})
    BY <1>2, <1>6 DEF AgreeInv, Calm, ListsAll, Adders, OneAdder
  <2>2. After(c)' = row[c] /\ (Waits(c)' <=> Eligible(row[c]) /\ row[c].type = "full")
    BY <1>2, <1>4, <2>1 DEF After, Waits, listed
  <2>3. /\ \A w \in Slots : ~IsOf(w, c)
        /\ \A w \in Slots : ~IsOf(w, c)'
    BY <1>2, <2>1, Bounds DEF Calm, OwnWorker, IsOf, Slots
  <2>4. ~Told(c)' /\ ~Looked(c)' /\ ~Works(c)' /\ OneIn(queue', {c})
    BY <1>2, <1>4, <2>1, <2>3 DEF Told, Looked, Works
  <2>5. row[c] = [state |-> "ok", type |-> "full"] => Waits(c)'
    BY <2>2 DEF Eligible, Rows, States, Types
  <2> USE <1>2, <2>1, <2>2, <2>3, <2>4, <2>5
  <2>6. OwnWorker(c)' /\ Adders(c)'
    BY DEF OwnWorker, Adders, OneAdder, NoAdder, Current, LastWord, Told
  <2>7. Fulls(c)'
    BY DEF Fulls, LooksFull, WaitsFull, WorksFull, UnbornFree
  <2>8. ListsAll(c)' /\ Added(c)' /\ Fits(c)' /\ Serves(c)'
    BY DEF ListsAll, Added, Fits, Serves
  <2> QED BY <2>6, <2>7, <2>8 DEF Calm
<1> QED BY <1>5, <1>6 DEF AgreeInv

LEMMA StutterStep == AgreeInv /\ UNCHANGED vars => AgreeInv'
<1> SUFFICES ASSUME AgreeInv, UNCHANGED vars PROVE AgreeInv'
  OBVIOUS
<1>1. Shape'
  <2>1. RegistryTypes /\ DataTypes /\ CounterTypes /\ LoadedRows /\ WholeRows /\ DownIsEmpty
    BY TypesSplit DEF AgreeInv, Shape
  <2>2. RegistryTypes' /\ DataTypes' /\ CounterTypes'
    BY <2>1 DEF vars, RegistryTypes, DataTypes, CounterTypes
  <2>3. LoadedRows' /\ WholeRows' /\ DownIsEmpty'
    BY <2>1 DEF vars, LoadedRows, WholeRows, DownIsEmpty, After
  <2> QED BY <2>2, <2>3, TypesSplitNext DEF Shape
<1>2. ASSUME NEW c \in Clients, ~disturbed'[c] PROVE Calm(c)'
  <2>1. Calm(c)
    BY <1>2 DEF AgreeInv, vars
  <2>2. Untouched(c)
    BY DEF vars, Untouched, IsOf, Looked, Waits
  <2> QED BY <2>1, <2>2, Frame
<1> QED BY <1>1, <1>2 DEF AgreeInv

-----------------------------------------------------------------------------
(* The theorems.                                                           *)

LEMMA AgreeStep == AgreeInv /\ [Next]_vars => AgreeInv'
<1> SUFFICES ASSUME AgreeInv, [Next]_vars PROVE AgreeInv'
  OBVIOUS
<1>1. ASSUME NEW c \in Clients, Create(c) \/ Edit(c) \/ Delete(c) \/ Commit(c) PROVE AgreeInv'
  BY <1>1, CreateStep, EditStep, DeleteStep, CommitStep
<1>2. ASSUME NEW w \in DOMAIN workers, OnExecution(w) \/ Fail(w) \/ Refuse(w) PROVE AgreeInv'
  BY <1>2, OnExecutionStep, FailStep, RefuseStep
<1>3. ASSUME NEW w \in DOMAIN workers, Load(w) \/ Mark(w) \/ Finish(w) \/ Startup(w) PROVE AgreeInv'
  BY <1>3, LoadStep, MarkStep, FinishStep, StartupStep
<1>4. CASE Subscribe \/ List \/ AddNext \/ Handle \/ Lookup
  BY <1>4, SubscribeStep, ListStep, AddNextStep, HandleStep, LookupStep
<1>5. CASE Stop
  BY <1>5, StopStep
<1>6. CASE UNCHANGED vars
  BY <1>6, StutterStep
<1> QED BY <1>1, <1>2, <1>3, <1>4, <1>5, <1>6 DEF Next, Collector

LEMMA InvAgrees == AgreeInv => TypeOK /\ WorkersAgree
<1> SUFFICES ASSUME AgreeInv PROVE TypeOK /\ WorkersAgree
  OBVIOUS
<1>1. Shape /\ RegistryTypes
  BY TypesSplit DEF AgreeInv, Shape
<1>2. ASSUME NEW c \in Clients, Quiet(c), ~disturbed[c], Exists(c)
      PROVE  /\ row[c] = [state |-> "ok", type |-> "full"] => registered[c] # 0 \/ misled[c]
             /\ (row[c].state = "archived" \/ row[c].type = "basic") => registered[c] = 0
             /\ (registered[c] # 0 /\ workers[registered[c]].phase = "live")
                  => row[c].state \in {"ok", "invalid"}
  <2>1. Calm(c) /\ up = "listed" /\ pending[c] = Nothing
        /\ ~Told(c) /\ ~Looked(c) /\ ~Waits(c)
    BY <1>1, <1>2, NotBusy DEF AgreeInv, Quiet
  <2>2. After(c) = row[c] /\ row[c] \in Rows /\ row[c] # Gone
    BY <1>1, <1>2, <2>1 DEF After, Exists, Shape, TypeOK
  <2>3. row[c] = [state |-> "ok", type |-> "full"] => registered[c] # 0 \/ misled[c]
    BY <2>1, <2>2 DEF Calm, Added
  <2>4. registered[c] # 0 => row[c].type = "full" /\ row[c].state # "archived"
    BY <2>1, <2>2 DEF Calm, Fits, Told
  <2>5. ASSUME registered[c] # 0, workers[registered[c]].phase = "live"
        PROVE  row[c].state \in {"ok", "invalid"}
    <3>1. registered[c] \in Slots /\ IsOf(registered[c], c)
      BY <1>1, <2>5, Bounds DEF RegistryTypes, IsOf, Slots
    <3>2. row[c].state # "synchronizing"
      BY <2>1, <2>2, <2>5, <3>1 DEF Calm, Serves
    <3> QED BY <2>2, <2>4, <2>5, <3>2 DEF Rows, States
  <2> QED BY <2>3, <2>4, <2>5
<1>3. OneWorker
  <2>1. DOMAIN workers = Slots
    BY <1>1 DEF RegistryTypes
  <2> QED BY <2>1 DEF AgreeInv, Calm, OwnWorker, OneWorker, IsOf
<1> QED BY <1>1, <1>2, <1>3 DEF Shape, WorkersAgree, Agreement

\* The variables of the registry have their types, for any number of clients,
\* workers, operations, failures and restarts.
THEOREM ServiceTypes == Spec => []TypeOK
<1>1. Init => AgreeInv
  BY InitAgrees
<1>2. AgreeInv /\ [Next]_vars => AgreeInv'
  BY AgreeStep
<1>3. AgreeInv => TypeOK
  BY InvAgrees
<1> QED BY <1>1, <1>2, <1>3, PTL DEF Spec

\* Whenever a client and the collector are at rest, the registry has the workers
\* that the clients call for, and no client has a second one: what
\* balanceservice.py's handlers add and remove follows what the API wrote.
THEOREM WorkersFollowClients == Spec => []WorkersAgree
<1>1. Init => AgreeInv
  BY InitAgrees
<1>2. AgreeInv /\ [Next]_vars => AgreeInv'
  BY AgreeStep
<1>3. AgreeInv => WorkersAgree
  BY InvAgrees
<1> QED BY <1>1, <1>2, <1>3, PTL DEF Spec

-----------------------------------------------------------------------------
(* The archive.                                                            *)

\* What the API has flushed of a state is one it was asked for.
AskedStates == \A c \in Clients : pending[c] = Nothing \/ pending[c].state \in {"ok", "archived", Same}

LEMMA AskedStep == TypeOK /\ AskedStates /\ [Next]_vars => AskedStates'
<1> SUFFICES ASSUME TypeOK, AskedStates, [Next]_vars PROVE AskedStates'
  OBVIOUS
<1> USE DEF TypeOK
<1>1. ASSUME NEW c \in Clients, Create(c) PROVE AskedStates'
  <2>1. PICK type \in Types : pending' = [pending EXCEPT ![c] = [state |-> "ok", type |-> type]]
    BY <1>1 DEF Create
  <2>2. PICK change : change = [state |-> "ok", type |-> type]
    OBVIOUS
  <2>3. change.state \in {"ok", "archived", Same}
    BY <2>2
  <2>4. pending' = [pending EXCEPT ![c] = change]
    BY <2>1, <2>2
  <2> QED BY <2>3, <2>4 DEF AskedStates
<1>2. ASSUME NEW c \in Clients, Edit(c) PROVE AskedStates'
  <2>1. PICK state \in {"ok", "archived", row[c].state}, type \in Types :
          pending' = [pending EXCEPT ![c] =
                        [state |-> IF state = row[c].state THEN Same ELSE state,
                         type |-> IF type = row[c].type THEN Same ELSE type]]
    BY <1>2 DEF Edit
  <2>2. PICK change : change = [state |-> IF state = row[c].state THEN Same ELSE state,
                                type |-> IF type = row[c].type THEN Same ELSE type]
    OBVIOUS
  <2>3. change.state \in {"ok", "archived", Same}
    BY <2>2
  <2>4. pending' = [pending EXCEPT ![c] = change]
    BY <2>1, <2>2
  <2> QED BY <2>3, <2>4 DEF AskedStates
<1>3. ASSUME NEW c \in Clients, Commit(c) PROVE AskedStates'
  BY <1>3 DEF Commit, AskedStates
<1>4. CASE UNCHANGED pending
  BY <1>4 DEF AskedStates
<1>5. ASSUME NEW c \in Clients, Delete(c) PROVE UNCHANGED pending
  BY <1>5 DEF Delete
<1>6. ASSUME NEW w \in DOMAIN workers,
             \/ OnExecution(w) \/ Fail(w) \/ Refuse(w)
             \/ Load(w) \/ Mark(w) \/ Finish(w) \/ Startup(w)
      PROVE  UNCHANGED pending
  BY <1>6 DEF OnExecution, Fail, Refuse, Load, Mark, Finish, Startup, WorkerStep
<1>7. CASE Subscribe \/ List \/ AddNext \/ Handle \/ Lookup \/ Stop
  BY <1>4, <1>7 DEF Subscribe, List, AddNext, Handle, Lookup, Stop, db
<1>8. CASE UNCHANGED vars
  BY <1>4, <1>8 DEF vars
<1> QED BY <1>1, <1>2, <1>3, <1>4, <1>5, <1>6, <1>7, <1>8 DEF Next, Collector

\* No worker of a client in the archive is at work, unless the API and the collector
\* were busy with it at once.
LEMMA NoneAtWork ==
  ASSUME AgreeInv, NEW w \in DOMAIN workers, IsWorking(w),
         ~disturbed[workers[w].client], row[workers[w].client].state = "archived"
  PROVE  FALSE
<1> DEFINE c == workers[w].client
<1>1. w \in Slots /\ workers[w] # Free /\ c \in Clients
  BY DEF AgreeInv, Shape, TypeOK, Slots, IsWorking, Working, Free, Workers
<1>2. Calm(c) /\ IsOf(w, c) /\ Works(c)
  BY <1>1 DEF AgreeInv, IsOf, Works
<1>3. registered[c] = w /\ w # 0
  BY <1>1, <1>2, Bounds DEF Calm, OwnWorker, Slots
<1>4. pending[c] = Nothing /\ After(c) = row[c]
  BY <1>2 DEF Calm, Fulls, WorksFull, After
<1>5. ~ \E m \in Of(c) : Contains(channel, m) /\ Removes(m)
  BY <1>2 DEF Calm, Adders, LastWord
<1> QED BY <1>2, <1>3, <1>4, <1>5 DEF Calm, Fits, Gone

\* What a step makes of an archived client.
StaysArchived(c) ==
  row[c].state = "archived" /\ ~disturbed'[c] =>
    row'[c].state \in {"archived", "invalid", "gone"} \/ pending[c].state = "ok"

LEMMA ArchiveStep == AgreeInv /\ AskedStates /\ [Next]_vars => \A c \in Clients : StaysArchived(c)
<1> SUFFICES ASSUME AgreeInv, AskedStates, [Next]_vars, NEW c \in Clients,
                    row[c].state = "archived", ~disturbed'[c]
             PROVE  row'[c].state \in {"archived", "invalid", "gone"} \/ pending[c].state = "ok"
  BY DEF StaysArchived
<1> DEFINE Goal == row'[c].state \in {"archived", "invalid", "gone"} \/ pending[c].state = "ok"
<1>1. /\ row \in [Clients -> Rows \cup {Unborn, Gone}]
      /\ workers \in [1 .. MaxWorkers -> Workers \cup {Free}]
      /\ Exists(c) /\ row[c] \in Rows
  BY DEF AgreeInv, Shape, TypeOK, Exists, Unborn, Gone
<1>2. CASE UNCHANGED row
  BY <1>2
<1>3. ASSUME NEW d \in Clients, Create(d) \/ Edit(d) PROVE UNCHANGED row
  BY <1>3 DEF Create, Edit
<1>4. ASSUME NEW d \in Clients, Delete(d) PROVE Goal
  BY <1>1, <1>4 DEF Delete, Gone
<1>5. ASSUME NEW d \in Clients, Commit(d) PROVE Goal
  <2>1. row' = [row EXCEPT ![d] = After(d)] /\ pending[d] # Nothing
    BY <1>5 DEF Commit
  <2>2. CASE d # c
    BY <1>1, <2>1, <2>2
  <2>3. CASE d = c
    <3>1. row'[c] = After(c) /\ pending[c].state \in {"ok", "archived", Same}
      BY <1>1, <2>1, <2>3 DEF AskedStates
    <3>2. After(c).state = IF pending[c].state = Same THEN row[c].state ELSE pending[c].state
      BY <2>1, <2>3 DEF After
    <3> QED BY <3>1, <3>2
  <2> QED BY <2>2, <2>3
<1>6. ASSUME NEW w \in DOMAIN workers, Refuse(w) PROVE Goal
  <2>1. PICK d : d = workers[w].client
    OBVIOUS
  <2>2. row' = IF Exists(d) THEN [row EXCEPT ![d].state = "invalid"] ELSE row
    BY <1>6, <2>1 DEF Refuse
  <2> QED BY <1>1, <2>2 DEF Rows
<1>7. ASSUME NEW w \in DOMAIN workers, Mark(w) \/ Finish(w) PROVE Goal
  <2>1. PICK d : d = workers[w].client
    OBVIOUS
  <2>2. /\ IsWorking(w) /\ disturbed' = disturbed
        /\ \/ row' = row
           \/ row' = [row EXCEPT ![d].state = "synchronizing"]
           \/ row' = [row EXCEPT ![d].state = "ok"]
    BY <1>7, <2>1 DEF Mark, Finish, IsWorking, Working
  <2>3. d # c
    BY <1>7, <2>1, <2>2, NoneAtWork
  <2> QED BY <1>1, <2>2, <2>3
<1>8. ASSUME NEW w \in DOMAIN workers, OnExecution(w) \/ Fail(w) \/ Load(w) \/ Startup(w)
      PROVE  UNCHANGED row
  BY <1>8 DEF OnExecution, Fail, Load, Startup
<1>9. CASE Subscribe \/ List \/ AddNext \/ Handle \/ Lookup \/ Stop
  BY <1>2, <1>9 DEF Subscribe, List, AddNext, Handle, Lookup, Stop, db
<1>10. CASE UNCHANGED vars
  BY <1>2, <1>10 DEF vars
<1> QED BY <1>2, <1>3, <1>4, <1>5, <1>6, <1>7, <1>8, <1>9, <1>10 DEF Next, Collector

\* A synchronization never takes a client out of the archive (its worker writes the
\* state as OK, whatever it is by then), unless it overlaps with the archiving.
THEOREM ArchivedStaysArchived == Spec => ArchiveHolds
<1>1. Init => AgreeInv /\ AskedStates
  BY InitAgrees DEF Init, AskedStates
<1>2. AgreeInv /\ AskedStates /\ [Next]_vars => AgreeInv' /\ AskedStates'
  BY AgreeStep, AskedStep, InvAgrees
<1>3. AgreeInv /\ AskedStates /\ [Next]_vars =>
        [\A c \in Clients : row[c].state = "archived" /\ ~disturbed'[c] =>
            \/ row'[c].state \in {"archived", "invalid", "gone"}
            \/ pending[c].state = "ok"]_vars
  BY ArchiveStep DEF StaysArchived
<1> QED BY <1>1, <1>2, <1>3, PTL DEF Spec, ArchiveHolds
=============================================================================
