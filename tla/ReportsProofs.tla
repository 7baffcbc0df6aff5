----------------------------- MODULE ReportsProofs -----------------------------
(***************************************************************************)
(* Theorems about what is asked of an exchange and what it reports: the    *)
(* limits of requests, the stream of orders, the histories of Bybit and of *)
(* Binance, and all three reports.  Each has its own invariant.            *)
(***************************************************************************)
EXTENDS ExchangeRequests, Reports, SummationProofs, FiniteSetTheorems, TLAPS

-----------------------------------------------------------------------------
(***************************************************************************)
(* Theorems about ExchangeRequests: for any limit, any number of requests  *)
(* and clients, and any keys, requests that keep apart do not spend more   *)
(* than the limit, and only a client one of whose keys was denied is       *)
(* marked.                                                                 *)
(***************************************************************************)

\* Limit.amount is refilled by whole units, up to the limit.
Bucket == /\ bucket \in Int /\ bucket <= Full
          /\ now \in Nat /\ lastTs \in Nat /\ lastTs <= now

Calls == [phase : {"idle", "sleeping", "sent", "marking"}, account : KeyOwners \cup {"none"},
          key : Nat, url : Urls \cup {"none"}, cache : BOOLEAN, until : Nat]

CallTypes == /\ call \in [Slots -> Calls]
             /\ \A s \in Slots : call[s].phase # "idle" => call[s].account \in KeyOwners

KeyTypes == apiKey \in [KeyOwners -> Nat] /\ state \in [KeyOwners -> {"OK", "INVALID"}]

InFlight(s) == call[s].phase \in {"sleeping", "sent"}

\* A request that is alone has been paid for when it is sent, and will have been when
\* its pause is over.
Alone == ~overlap /\ ~usedUp =>
  /\ \A s, t \in Slots : InFlight(s) /\ InFlight(t) => s = t
  /\ bucket >= 0
  /\ \A s \in Slots : call[s].phase = "sent" => bucket >= Cost
  /\ \A s \in Slots : call[s].phase = "sleeping" => call[s].until >= lastTs + Pause

\* The key for which a client is about to be marked was denied, and is the one that
\* it has, or one that it has had.
MarksDenied == \A s \in Slots : call[s].phase = "marking" =>
  /\ <<call[s].account, call[s].key>> \in denied
  /\ call[s].key <= apiKey[call[s].account]

KeysGiven == \A s \in Slots : call[s].phase # "idle" /\ call[s].key # 0 =>
  call[s].key <= apiKey[call[s].account]

PaceInv == Bucket /\ CallTypes /\ KeyTypes /\ Alone
MarkInv == CallTypes /\ KeyTypes /\ MarksDenied /\ KeysGiven /\ InvalidIsDenied

-----------------------------------------------------------------------------
(* The amounts.                                                            *)

\* A pause refills what a request costs.
LEMMA BucketAmounts ==
  /\ Interval \in Nat \ {0} /\ Expiry \in Nat /\ UsedWeights \subseteq Nat
  /\ Cost \in Nat /\ Full \in Nat /\ Cost <= Full
  /\ Pause \in Nat /\ Pause * Interval = Cost
  /\ \A used \in Nat : used * MaxAmount \in Nat /\ (used <= MaxAmount => used * MaxAmount <= Full)
<1>1. /\ Interval \in Nat /\ Interval > 0 /\ MaxAmount \in Nat /\ Weight \in Nat
      /\ Expiry \in Nat /\ UsedWeights \subseteq Nat /\ Weight <= MaxAmount /\ (Weight * MaxAmount) % Interval = 0
  BY RequestsAssumption
<1>2. ASSUME NEW a \in Nat, NEW b \in Nat, NEW c \in Nat, a <= b
      PROVE  a * c \in Nat /\ a * c <= b * c
  <2>1. (b - a) * c >= 0 /\ (b - a) * c = b * c - a * c
    BY <1>2
  <2> QED BY <2>1
<1>3. Cost \in Nat /\ Full \in Nat /\ Cost <= Full
  BY <1>1, <1>2 DEF Cost, Full
<1>4. ASSUME NEW c \in Nat, c % Interval = 0
      PROVE  c \div Interval \in Nat /\ (c \div Interval) * Interval = c
  BY <1>1, <1>4
<1>5. ASSUME NEW used \in Nat
      PROVE  used * MaxAmount \in Nat /\ (used <= MaxAmount => used * MaxAmount <= Full)
  BY <1>1, <1>2 DEF Full
<1> QED BY <1>1, <1>3, <1>4, <1>5 DEF Cost, Pause

LEMMA Refilling ==
  ASSUME Bucket
  PROVE  /\ Refilled(bucket) \in Int /\ Refilled(bucket) <= Full
         /\ bucket <= Refilled(bucket)
         /\ bucket >= 0 /\ now >= lastTs + Pause => Refilled(bucket) >= Cost
<1> DEFINE gain == (now - lastTs) * Interval
<1>1. gain \in Nat
  BY BucketAmounts DEF Bucket
<1>2. now >= lastTs + Pause => gain >= Cost
  <2> SUFFICES ASSUME now >= lastTs + Pause PROVE gain >= Cost
    OBVIOUS
  <2> DEFINE more == now - lastTs - Pause
  <2>1. more \in Nat /\ now - lastTs = more + Pause
    BY BucketAmounts DEF Bucket
  <2>2. more * Interval \in Nat /\ (more + Pause) * Interval = more * Interval + Pause * Interval
    BY <2>1, BucketAmounts
  <2> QED BY <2>1, <2>2, BucketAmounts
<1> HIDE DEF gain
<1>3. Refilled(bucket) = IF bucket + gain > Full THEN Full ELSE bucket + gain
  BY DEF Refilled, gain
<1> QED BY <1>1, <1>2, <1>3, BucketAmounts DEF Bucket

-----------------------------------------------------------------------------
(* What requests spend: one lemma per group of actions.                    *)

LEMMA PaceInit == ReqInit => PaceInv
<1> SUFFICES ASSUME ReqInit PROVE PaceInv
  OBVIOUS
<1>1. Bucket /\ CallTypes /\ KeyTypes
  BY BucketAmounts DEF ReqInit, Bucket, CallTypes, Calls, Idle, KeyTypes
<1>2. Alone
  BY BucketAmounts DEF ReqInit, Alone, InFlight, Idle
<1> QED BY <1>1, <1>2 DEF PaceInv

\* A request sees the bucket refilled; another one in flight is an overlap.
LEMMA PaceRequest == ASSUME PaceInv, NEW s \in Slots, Request(s) PROVE PaceInv'
<1> DEFINE full == Refilled(bucket)
<1> USE DEF PaceInv
<1>1. /\ call[s] = Idle
      /\ bucket' = full /\ lastTs' = now /\ now' = now
      /\ UNCHANGED <<apiKey, state>>
      /\ overlap' = (overlap \/ \E t \in Slots \ {s} : InFlight(t)) /\ usedUp' = usedUp
  BY DEF Request, InFlight
<1>2. PICK a \in KeyOwners, u \in Urls, cache \in BOOLEAN, k \in Nat :
        call' = [call EXCEPT ![s] =
          [phase |-> IF Exceeded(full) THEN "sleeping" ELSE "sent",
           account |-> a, key |-> k, url |-> u, cache |-> cache,
           until |-> IF Exceeded(full) THEN now + Pause ELSE now]]
  <2>1. \A a \in KeyOwners, sign \in BOOLEAN : \A k \in IF sign THEN 1..apiKey[a] ELSE {0} : k \in Nat
    BY DEF KeyTypes
  <2> QED BY <2>1 DEF Request
<1>3. full \in Int /\ full <= Full /\ bucket <= full
  BY Refilling
<1> HIDE DEF full
<1>4. Bucket' /\ KeyTypes'
  BY <1>1, <1>3 DEF Bucket, KeyTypes
<1>5. CallTypes'
  BY <1>1, <1>2, BucketAmounts DEF Bucket, CallTypes, Calls
<1>6. Alone'
  <2>1. SUFFICES ASSUME ~overlap', ~usedUp' PROVE Alone'
    BY DEF Alone
  <2>2. ~overlap /\ ~usedUp /\ \A t \in Slots \ {s} : ~InFlight(t)
    BY <1>1, <2>1
  <2>3. bucket >= 0
    BY <2>2 DEF Alone
  <2>4. \A t \in Slots \ {s} : call'[t] = call[t] /\ ~InFlight(t)
    BY <1>2, <2>2 DEF CallTypes
  <2>5. \/ full >= Cost /\ call'[s].phase = "sent"
        \/ call'[s].phase = "sleeping" /\ call'[s].until = now + Pause
    BY <1>2, <1>3, BucketAmounts DEF CallTypes, Exceeded
  <2> QED BY <1>1, <1>3, <2>3, <2>4, <2>5, BucketAmounts DEF Alone, InFlight, Bucket
<1> QED BY <1>4, <1>5, <1>6

\* What the amount gains in a pause is what the request takes from it.
LEMMA PaceWakeUp == ASSUME PaceInv, NEW s \in Slots, WakeUp(s) PROVE PaceInv'
<1> DEFINE full == Refilled(bucket)
<1> USE DEF PaceInv
<1>1. /\ call[s].phase = "sleeping" /\ now >= call[s].until
      /\ bucket' = full /\ lastTs' = now /\ now' = now
      /\ call' = [call EXCEPT ![s].phase = "sent"]
      /\ UNCHANGED <<apiKey, state, overlap, usedUp>>
  BY DEF WakeUp
<1>2. /\ full \in Int /\ full <= Full /\ bucket <= full
      /\ bucket >= 0 /\ now >= lastTs + Pause => full >= Cost
  BY Refilling
<1> HIDE DEF full
<1>3. Bucket' /\ KeyTypes' /\ CallTypes'
  BY <1>1, <1>2 DEF Bucket, KeyTypes, CallTypes, Calls
<1>4. Alone'
  <2>1. SUFFICES ASSUME ~overlap', ~usedUp' PROVE Alone'
    BY DEF Alone
  <2>2. /\ \A t \in Slots \ {s} : ~InFlight(t)
        /\ bucket >= 0 /\ call[s].until >= lastTs + Pause
    BY <1>1, <2>1 DEF Alone, InFlight
  <2>3. full >= Cost
    <3>1. call[s].until \in Nat
      BY DEF CallTypes, Calls
    <3> QED BY <1>1, <1>2, <2>2, <3>1, BucketAmounts DEF Bucket
  <2>4. \A t \in Slots \ {s} : call'[t] = call[t]
    BY <1>1 DEF CallTypes
  <2>5. call'[s].phase = "sent"
    BY <1>1 DEF CallTypes
  <2> QED BY <1>1, <1>2, <2>2, <2>3, <2>4, <2>5, BucketAmounts DEF Alone, InFlight
<1> QED BY <1>3, <1>4

\* A request that is over, or denied, is not in flight.
LEMMA AnswerTypes ==
  ASSUME CallTypes, NEW s \in Slots,
         \/ call' = [call EXCEPT ![s] = Idle]
         \/ call' = [call EXCEPT ![s].phase = "marking"] /\ call[s].phase = "sent"
  PROVE  /\ CallTypes' /\ call'[s].phase \notin {"sleeping", "sent"}
         /\ \A t \in Slots \ {s} : call'[t] = call[t]
         /\ \/ call'[s].phase = "idle"
            \/ /\ call'[s].phase = "marking" /\ call'[s].account = call[s].account
               /\ call'[s].key = call[s].key
<1>1. CASE call' = [call EXCEPT ![s] = Idle]
  <2>1. Idle \in Calls /\ Idle.phase = "idle"
    BY DEF Idle, Calls
  <2> QED BY <1>1, <2>1 DEF CallTypes
<1>2. CASE call' = [call EXCEPT ![s].phase = "marking"] /\ call[s].phase = "sent"
  <2>1. call[s] \in Calls /\ call[s].account \in KeyOwners
    BY <1>2 DEF CallTypes
  <2>2. /\ [call[s] EXCEPT !.phase = "marking"] \in Calls
        /\ [call[s] EXCEPT !.phase = "marking"].phase = "marking"
        /\ [call[s] EXCEPT !.phase = "marking"].account = call[s].account
        /\ [call[s] EXCEPT !.phase = "marking"].key = call[s].key
    BY <2>1 DEF Calls
  <2>3. call' = [call EXCEPT ![s] = [call[s] EXCEPT !.phase = "marking"]]
    BY <1>2
  <2> QED BY <2>1, <2>2, <2>3 DEF CallTypes
<1> QED BY <1>1, <1>2

\* An answer takes what was there when its request was sent, or nothing, or it says
\* what was used.
LEMMA PaceAnswer ==
  ASSUME PaceInv, NEW s \in Slots,
         \/ Refuse(s) \/ LoseAnswer(s) \/ Succeed(s) \/ Deny(s) \/ MarkInvalid(s)
  PROVE  PaceInv'
<1> USE DEF PaceInv
<1>1. /\ \/ call' = [call EXCEPT ![s] = Idle]
         \/ call' = [call EXCEPT ![s].phase = "marking"] /\ call[s].phase = "sent"
      /\ \/ bucket' = bucket
         \/ bucket' = bucket - Cost /\ call[s].phase = "sent"
         \/ /\ \E used \in UsedWeights : /\ bucket' = Full - used * MaxAmount
                                         /\ used > MaxAmount => usedUp'
            /\ call[s].phase = "sent"
      /\ usedUp => usedUp'
      /\ UNCHANGED <<now, lastTs, apiKey, overlap>>
  <2>1. CASE LoseAnswer(s) \/ MarkInvalid(s)
    BY <2>1 DEF LoseAnswer, MarkInvalid, Failed
  <2>2. CASE Refuse(s) \/ Succeed(s) \/ Deny(s)
    <3>1. /\ \/ call' = [call EXCEPT ![s] = Idle]
             \/ call' = [call EXCEPT ![s].phase = "marking"]
          /\ SetWeights /\ call[s].phase = "sent"
          /\ UNCHANGED <<now, lastTs, apiKey, overlap>>
      BY <2>2 DEF Refuse, Succeed, Deny, Failed
    <3>2. CASE bucket' \in {bucket, bucket - Cost} /\ usedUp' = usedUp
      BY <3>1, <3>2
    <3>3. ASSUME NEW used \in UsedWeights, bucket' = Full - used * MaxAmount,
                 usedUp' = (usedUp \/ used > MaxAmount)
          PROVE  (usedUp => usedUp') /\ (used > MaxAmount => usedUp')
      BY <3>3, ZenonT(30)
    <3>4. \/ bucket' \in {bucket, bucket - Cost} /\ usedUp' = usedUp
          \/ \E used \in UsedWeights : /\ bucket' = Full - used * MaxAmount
                                       /\ usedUp' = (usedUp \/ used > MaxAmount)
      BY <3>1, ZenonT(30) DEF SetWeights, Take
    <3> QED BY <3>1, <3>2, <3>3, <3>4
  <2> QED BY <2>1, <2>2
<1>2. KeyTypes'
  <2>1. CASE MarkInvalid(s)
    BY <1>1, <2>1 DEF MarkInvalid, KeyTypes
  <2>2. CASE ~MarkInvalid(s)
    BY <1>1, <2>2 DEF Refuse, LoseAnswer, Succeed, Deny, KeyTypes
  <2> QED BY <2>1, <2>2
<1>3. Bucket'
  <2>1. CASE bucket' \in {bucket, bucket - Cost}
    BY <1>1, <2>1, BucketAmounts DEF Bucket
  <2>2. ASSUME NEW used \in UsedWeights, bucket' = Full - used * MaxAmount PROVE Bucket'
    BY <1>1, <2>2, BucketAmounts DEF Bucket
  <2> QED BY <1>1, <2>1, <2>2
<1>4. CallTypes' /\ ~InFlight(s)' /\ \A t \in Slots \ {s} : call'[t] = call[t]
  BY <1>1, AnswerTypes DEF InFlight
<1>5. Alone'
  <2>1. SUFFICES ASSUME ~overlap', ~usedUp' PROVE Alone'
    BY DEF Alone
  <2>2. ~InFlight(s)' /\ \A t \in Slots \ {s} : call'[t] = call[t]
    BY <1>4
  <2>3. CASE bucket' = bucket
    BY <1>1, <2>1, <2>2, <2>3 DEF Alone, InFlight
  <2>4. CASE bucket' = bucket - Cost /\ call[s].phase = "sent"
    <3>1. bucket' >= 0
      BY <1>1, <2>1, <2>4, BucketAmounts DEF Alone, Bucket
    <3>2. \A t \in Slots : ~InFlight(t)'
      BY <1>1, <2>1, <2>2, <2>4 DEF Alone, InFlight
    <3> QED BY <3>1, <3>2 DEF Alone, InFlight
  <2>5. ASSUME NEW used \in UsedWeights, bucket' = Full - used * MaxAmount,
               used > MaxAmount => usedUp', call[s].phase = "sent"
        PROVE  Alone'
    <3>1. bucket' >= 0
      <4>1. used \in Nat /\ used <= MaxAmount /\ MaxAmount \in Nat
        BY <2>1, <2>5, BucketAmounts, RequestsAssumption
      <4> QED BY <2>5, <4>1, BucketAmounts
    <3>2. \A t \in Slots : ~InFlight(t)'
      BY <1>1, <2>1, <2>2, <2>5 DEF Alone, InFlight
    <3> QED BY <3>1, <3>2 DEF Alone, InFlight
  <2> QED BY <1>1, <2>3, <2>4, <2>5
<1> QED BY <1>2, <1>3, <1>4, <1>5

\* Keys are given and taken without regard to what is in flight; time only passes.
LEMMA PaceElse ==
  ASSUME PaceInv, (\E a \in KeyOwners : NewKey(a)) \/ Revoke \/ ReqTick \/ UNCHANGED reqVars
  PROVE  PaceInv'
<1> USE DEF PaceInv
<1>1. /\ UNCHANGED <<bucket, lastTs, call, overlap, usedUp>>
      /\ now' = now \/ now' = now + 1
  BY DEF NewKey, Revoke, ReqTick, reqVars
<1>2. KeyTypes'
  BY DEF NewKey, Revoke, ReqTick, reqVars, KeyTypes
<1> QED BY <1>1, <1>2 DEF Bucket, CallTypes, Alone, InFlight

-----------------------------------------------------------------------------
(* Who is marked.                                                          *)

LEMMA MarkInit == ReqInit => MarkInv
<1> SUFFICES ASSUME ReqInit PROVE MarkInv
  OBVIOUS
<1>1. CallTypes /\ KeyTypes
  BY PaceInit DEF PaceInv
<1>2. MarksDenied /\ KeysGiven /\ InvalidIsDenied
  BY DEF ReqInit, MarksDenied, KeysGiven, InvalidIsDenied, Idle
<1> QED BY <1>1, <1>2 DEF MarkInv

\* A request is signed with a key that the client has or had.
LEMMA MarkRequest == ASSUME MarkInv, PaceInv, NEW s \in Slots, Request(s) PROVE MarkInv'
<1> USE DEF MarkInv
<1>1. CallTypes' /\ KeyTypes'
  BY PaceRequest DEF PaceInv
<1>2. /\ call'[s].phase \in {"sleeping", "sent"}
      /\ call'[s].key # 0 => call'[s].key <= apiKey[call'[s].account]
      /\ \A t \in Slots \ {s} : call'[t] = call[t]
      /\ UNCHANGED <<apiKey, state, denied, replaced>>
  <2>1. PICK a \in KeyOwners, u \in Urls, sign \in BOOLEAN, cache \in BOOLEAN :
        \E k \in IF sign THEN 1..apiKey[a] ELSE {0} : \E t \in {now, now + Pause} :
          call' = [call EXCEPT ![s] =
            [phase |-> IF Exceeded(Refilled(bucket)) THEN "sleeping" ELSE "sent",
             account |-> a, key |-> k, url |-> u, cache |-> cache, until |-> t]]
    BY ZenonT(30) DEF Request
  <2>2. UNCHANGED <<apiKey, state, denied, replaced>>
    BY DEF Request
  <2>3. PICK k \in IF sign THEN 1..apiKey[a] ELSE {0}, t \in {now, now + Pause} :
        call' = [call EXCEPT ![s] =
          [phase |-> IF Exceeded(Refilled(bucket)) THEN "sleeping" ELSE "sent",
           account |-> a, key |-> k, url |-> u, cache |-> cache, until |-> t]]
    BY <2>1
  <2>4. k # 0 => k <= apiKey[a]
    BY <2>3 DEF KeyTypes
  <2> QED BY <2>2, <2>3, <2>4 DEF CallTypes
<1> QED BY <1>1, <1>2 DEF MarksDenied, KeysGiven, InvalidIsDenied

LEMMA MarkWakeUp == ASSUME MarkInv, PaceInv, NEW s \in Slots, WakeUp(s) PROVE MarkInv'
<1> USE DEF MarkInv
<1>1. CallTypes' /\ KeyTypes'
  BY PaceWakeUp DEF PaceInv
<1> QED BY <1>1 DEF WakeUp, CallTypes, MarksDenied, KeysGiven, InvalidIsDenied

\* A denial is of the key of the request; the mark is of the client.
LEMMA MarkAnswer ==
  ASSUME MarkInv, PaceInv, NEW s \in Slots,
         \/ Refuse(s) \/ LoseAnswer(s) \/ Succeed(s) \/ Deny(s) \/ MarkInvalid(s)
  PROVE  MarkInv'
<1> USE DEF MarkInv
<1>1. CallTypes' /\ KeyTypes'
  BY PaceAnswer DEF PaceInv
<1>2. CASE Refuse(s) \/ LoseAnswer(s) \/ Succeed(s)
  BY <1>1, <1>2 DEF Refuse, LoseAnswer, Succeed, Failed, Idle, CallTypes, MarksDenied,
                    KeysGiven, InvalidIsDenied
<1>3. CASE Deny(s)
  <2>1. /\ denied' = denied \cup {<<call[s].account, call[s].key>>}
        /\ replaced \subseteq replaced' /\ UNCHANGED <<apiKey, state>>
        /\ call[s].phase = "sent" /\ call[s].key # 0
        /\ \/ call' = [call EXCEPT ![s].phase = "marking"]
           \/ call' = [call EXCEPT ![s] = Idle]
    BY <1>3 DEF Deny, Failed
  <2>2. MarksDenied' /\ KeysGiven'
    BY <2>1, AnswerTypes DEF MarksDenied, KeysGiven
  <2>3. InvalidIsDenied'
    BY <2>1 DEF InvalidIsDenied
  <2> QED BY <1>1, <2>2, <2>3
<1>4. CASE MarkInvalid(s)
  <2> DEFINE a == call[s].account
  <2>1. /\ call[s].phase = "marking" /\ call' = [call EXCEPT ![s] = Idle]
        /\ state' = [state EXCEPT ![a] = "INVALID"]
        /\ replaced' = IF call[s].key < apiKey[a] THEN replaced \cup {a} ELSE replaced
        /\ UNCHANGED <<apiKey, denied>>
    BY <1>4 DEF MarkInvalid, Failed
  <2>2. MarksDenied' /\ KeysGiven'
    BY <2>1 DEF CallTypes, Idle, MarksDenied, KeysGiven
  <2>3. <<a, apiKey[a]>> \in denied' \/ a \in replaced'
    <3>1. /\ a \in KeyOwners /\ call[s].key \in Nat /\ apiKey[a] \in Nat
          /\ <<a, call[s].key>> \in denied /\ call[s].key <= apiKey[a]
      BY <2>1 DEF CallTypes, Calls, KeyTypes, MarksDenied
    <3>2. call[s].key = apiKey[a] \/ call[s].key < apiKey[a]
      BY <3>1
    <3> QED BY <2>1, <3>1, <3>2
  <2>4. InvalidIsDenied'
    BY <2>1, <2>3 DEF KeyTypes, InvalidIsDenied
  <2> QED BY <1>1, <2>2, <2>4
<1> QED BY <1>2, <1>3, <1>4

\* A new key makes the client valid, and every key in use a former one.
LEMMA MarkElse ==
  ASSUME MarkInv, PaceInv,
         (\E a \in KeyOwners : NewKey(a)) \/ Revoke \/ ReqTick \/ UNCHANGED reqVars
  PROVE  MarkInv'
<1> USE DEF MarkInv
<1>1. CallTypes' /\ KeyTypes'
  BY PaceElse DEF PaceInv
<1>2. UNCHANGED <<call, denied, replaced>>
  BY DEF NewKey, Revoke, ReqTick, reqVars
<1>3. CASE UNCHANGED <<apiKey, state>>
  BY <1>1, <1>2, <1>3 DEF MarksDenied, KeysGiven, InvalidIsDenied
<1>4. ASSUME NEW a \in KeyOwners, NewKey(a) PROVE MarkInv'
  <2>1. /\ apiKey' = [apiKey EXCEPT ![a] = @ + 1]
        /\ state' = [state EXCEPT ![a] = "OK"]
    BY <1>4 DEF NewKey
  <2>2. \A b \in KeyOwners : apiKey[b] \in Nat /\ apiKey[b] <= apiKey'[b]
    BY <2>1 DEF KeyTypes
  <2>3. \A t \in Slots : call[t].key \in Nat
    BY DEF CallTypes, Calls
  <2>4. MarksDenied' /\ KeysGiven'
    BY <1>1, <1>2, <2>2, <2>3 DEF CallTypes, KeyTypes, MarksDenied, KeysGiven
  <2>5. InvalidIsDenied'
    BY <1>2, <2>1 DEF KeyTypes, InvalidIsDenied
  <2> QED BY <1>1, <2>4, <2>5
<1> QED BY <1>3, <1>4 DEF Revoke, ReqTick, reqVars

-----------------------------------------------------------------------------
LEMMA PaceStep == PaceInv /\ [ReqNext]_reqVars => PaceInv'
  BY PaceRequest, PaceWakeUp, PaceAnswer, PaceElse DEF ReqNext

LEMMA MarkStep == PaceInv /\ MarkInv /\ [ReqNext]_reqVars => MarkInv'
  BY MarkRequest, MarkWakeUp, MarkAnswer, MarkElse DEF ReqNext

\* Whatever the limits and however many requests of a class are in flight, those that
\* keep apart are within the limit, and nobody is marked but for a key that was
\* denied (Exchange._request).
THEOREM RequestsKept == ReqSpec => []RequestsAreKept
<1>1. ReqInit => PaceInv /\ MarkInv
  BY PaceInit, MarkInit
<1>2. PaceInv /\ MarkInv /\ [ReqNext]_reqVars => (PaceInv /\ MarkInv)'
  BY PaceStep, MarkStep
<1>3. PaceInv /\ MarkInv => RequestsAreKept
  BY DEF PaceInv, MarkInv, Alone, RequestsAreKept, PacedAlone
<1> QED BY <1>1, <1>2, <1>3, PTL DEF ReqSpec

-----------------------------------------------------------------------------
(***************************************************************************)
(* Theorem about BinanceStream: for any orders, any number of parts they   *)
(* are filled in, and a stream that breaks off anywhere, an order is one   *)
(* execution or none.  The message that it is filled and the report that   *)
(* is made of it follow one another, and there is one of the two at most.  *)
(***************************************************************************)

OrderStates == {"NONE", "NEW", "PARTIALLY_FILLED", "FILLED", "CANCELED"}
OrderRecords == [state : OrderStates, type : OrderTypes \cup {""}, forced : BOOLEAN, filled : Nat,
                 paid : BOOLEAN]

Messages == [e : {"ORDER_TRADE_UPDATE"}, order : Orders,
             X : {"PARTIALLY_FILLED", "FILLED", "CANCELED"}, q : {OrderQty}, n : {NoCommission, 1}]
            \cup [e : {"ACCOUNT_UPDATE", "listenKeyExpired"}]

Reports == [order : Orders, type : {"TRADE", "LIQUIDATION", "STOP", "TP"}, qty : {OrderQty},
            commission : {NoCommission, 1}]
           \cup [type : {"FUNDING"}]

StreamTypes ==
  /\ orders \in [Orders -> OrderRecords] /\ stream \in Seq(Messages)
  /\ reported \in Seq(Reports) /\ keyLives \in BOOLEAN

\* The message that an order is filled.
Fills(m, o) == m.e = "ORDER_TRADE_UPDATE" /\ m.order = o /\ m.X = "FILLED"

\* What is under way of an order, and what has been told of it.
Under(o) == {k \in DOMAIN stream : Fills(stream[k], o)}
Told(o) == {i \in DOMAIN reported : Tells(i, o)}

\* An order is told of by one message or one report, when all of it is filled.
ToldOnce(o) ==
  /\ orders[o].state = "FILLED" => orders[o].filled = OrderQty
  /\ Under(o) # {} \/ Told(o) # {} => orders[o].state = "FILLED"
  /\ \A k, l \in Under(o) : k = l
  /\ \A i, j \in Told(o) : i = j
  /\ Under(o) = {} \/ Told(o) = {}
  /\ keyLives /\ orders[o].state = "FILLED" /\ Heard(orders[o]) => Under(o) # {} \/ Told(o) # {}

\* The message that an order is filled says whether its last part paid commission.
PaidTold(o) == \A k \in Under(o) : orders[o].paid => stream[k].n # NoCommission

OrdersTold == \A o \in Orders : ToldOnce(o) /\ PaidTold(o)

StreamInv == StreamTypes /\ OrdersTold

LEMMA StreamStarts == StreamInit => StreamInv
<1> SUFFICES ASSUME StreamInit PROVE StreamInv
  OBVIOUS
<1>1. stream = <<>> /\ reported = <<>> /\ keyLives \in BOOLEAN
  BY DEF StreamInit
<1>2. PICK new : new = [state |-> "NONE", type |-> "", forced |-> FALSE, filled |-> 0, paid |-> FALSE]
  OBVIOUS
<1>3. orders = [o \in Orders |-> new] /\ new.state = "NONE"
  BY <1>2 DEF StreamInit
<1>4. new \in OrderRecords
  BY <1>2 DEF OrderRecords, OrderStates
<1>5. StreamTypes
  BY <1>1, <1>3, <1>4 DEF StreamTypes
<1>6. ASSUME NEW o \in Orders PROVE ToldOnce(o) /\ PaidTold(o)
  <2>1. Under(o) = {} /\ Told(o) = {}
    BY <1>1 DEF Under, Told
  <2>2. orders[o].state = "NONE"
    BY <1>3
  <2> QED BY <2>1, <2>2 DEF ToldOnce, PaidTold
<1> QED BY <1>5, <1>6 DEF StreamInv, OrdersTold

\* A message at the end of the stream.
LEMMA Queued ==
  ASSUME StreamTypes, NEW m \in Messages, stream' = Append(stream, m), NEW o \in Orders
  PROVE  /\ stream' \in Seq(Messages)
         /\ Fills(m, o) => Under(o)' = Under(o) \cup {Len(stream) + 1}
         /\ ~ Fills(m, o) => Under(o)' = Under(o)
         /\ stream'[Len(stream) + 1] = m /\ \A k \in Under(o) : stream'[k] = stream[k]
<1>1. stream \in Seq(Messages)
  BY DEF StreamTypes
<1> DEFINE n == Len(stream)
<1>2. /\ stream' \in Seq(Messages) /\ DOMAIN stream = 1 .. n /\ DOMAIN stream' = 1 .. n + 1 /\ n \in Nat
      /\ stream'[n + 1] = m /\ \A k \in 1 .. n : stream'[k] = stream[k]
  BY <1>1
<1> HIDE DEF n
<1>3. ASSUME NEW k \in 1 .. n PROVE k \in Under(o)' <=> k \in Under(o)
  BY <1>2 DEF Under, Fills
<1>4. n + 1 \in Under(o)' <=> Fills(m, o)
  BY <1>2 DEF Under, Fills
<1>5. Under(o) \subseteq 1 .. n /\ Under(o)' \subseteq 1 .. n + 1 /\ n + 1 \notin 1 .. n
  BY <1>2 DEF Under
<1>6. \A k \in 1 .. n + 1 : k \in 1 .. n \/ k = n + 1
  BY <1>2
<1> QED BY <1>2, <1>3, <1>4, <1>5, <1>6 DEF n

\* What becomes of the stream and of what is told, when a message is or is not sent.
LEMMA SentOn ==
  ASSUME StreamTypes, NEW m \in Messages, Sent(m), reported' = reported, NEW o \in Orders
  PROVE  /\ stream' \in Seq(Messages) /\ Told(o)' = Told(o)
         /\ Fills(m, o) /\ keyLives => Under(o)' = Under(o) \cup {Len(stream) + 1}
         /\ ~ (Fills(m, o) /\ keyLives) => Under(o)' = Under(o)
         /\ keyLives => stream'[Len(stream) + 1] = m
         /\ \A k \in Under(o) : stream'[k] = stream[k]
<1>1. Told(o)' = Told(o)
  BY DEF Told, Tells
<1>2. CASE keyLives
  BY <1>1, <1>2, Queued DEF Sent
<1>3. CASE ~ keyLives
  <2>1. stream' = stream
    BY <1>3 DEF Sent
  <2> QED BY <1>1, <1>3, <2>1 DEF Under, Fills, StreamTypes
<1> QED BY <1>2, <1>3

\* An order that nothing is sent of and that stays as it is.
LEMMA OrderStays ==
  ASSUME NEW o \in Orders, ToldOnce(o), orders'[o] = orders[o], keyLives' => keyLives,
         Under(o)' = Under(o), Told(o)' = Told(o)
  PROVE  ToldOnce(o)'
BY DEF ToldOnce, ExecTypeOf, Heard

LEMMA PaidStays ==
  ASSUME NEW o \in Orders, PaidTold(o), orders'[o] = orders[o], Under(o)' = Under(o),
         \A k \in Under(o) : stream'[k] = stream[k]
  PROVE  PaidTold(o)'
BY DEF PaidTold

LEMMA PlaceStep ==
  ASSUME StreamInv, NEW p \in Orders, NEW type \in OrderTypes, NEW forced \in BOOLEAN,
         PlaceOrder(p, type, forced)
  PROVE  StreamInv'
<1> USE DEF StreamInv, StreamTypes
<1>1. /\ orders[p].state = "NONE" /\ stream' = stream /\ keyLives' = keyLives
      /\ reported' = reported
      /\ orders' = [orders EXCEPT ![p] = [orders[p] EXCEPT !.state = "NEW", !.type = type,
                                                          !.forced = forced]]
  BY DEF PlaceOrder
<1>2. orders[p] \in OrderRecords
  OBVIOUS
<1>3. PICK new : new = [orders[p] EXCEPT !.state = "NEW", !.type = type, !.forced = forced]
  OBVIOUS
<1>4. new \in OrderRecords /\ new.state = "NEW"
  BY <1>2, <1>3 DEF OrderRecords, OrderStates
<1>5. orders' \in [Orders -> OrderRecords] /\ \A o \in Orders : orders'[o] = IF o = p THEN new ELSE orders[o]
  BY <1>1, <1>3, <1>4
<1>6. ASSUME NEW o \in Orders PROVE ToldOnce(o)' /\ PaidTold(o)'
  <2>1. Under(o)' = Under(o) /\ Told(o)' = Told(o)
    BY <1>1 DEF Under, Fills, Told, Tells
  <2>2. ToldOnce(o) /\ PaidTold(o)
    BY DEF OrdersTold
  <2>3. CASE o = p
    BY <1>1, <1>4, <1>5, <2>1, <2>2, <2>3 DEF ToldOnce, PaidTold
  <2>4. CASE o # p
    BY <1>1, <1>5, <2>1, <2>2, <2>4, OrderStays, PaidStays
  <2> QED BY <2>3, <2>4
<1> QED BY <1>1, <1>5, <1>6 DEF OrdersTold

LEMMA FillStep == ASSUME StreamInv, NEW p \in Orders, NEW paid \in BOOLEAN, Fill(p, paid)
                 PROVE  StreamInv'
<1> USE DEF StreamInv, StreamTypes
<1>1. PICK filled, X :
        /\ filled = orders[p].filled + 1
        /\ X = (IF filled = OrderQty THEN "FILLED" ELSE "PARTIALLY_FILLED")
  OBVIOUS
<1>2. PICK m : m = [e |-> "ORDER_TRADE_UPDATE", order |-> p, X |-> X, q |-> OrderQty,
                      n |-> IF paid THEN 1 ELSE NoCommission]
  OBVIOUS
<1>3. /\ orders[p].state \in {"NEW", "PARTIALLY_FILLED"} /\ Sent(m)
      /\ orders' = [orders EXCEPT ![p].filled = filled, ![p].state = X, ![p].paid = paid]
      /\ keyLives' = keyLives /\ reported' = reported
  BY <1>1, <1>2 DEF Fill
<1>4. m \in Messages /\ (paid => m.n # NoCommission) /\ \A o \in Orders : Fills(m, o) <=> o = p /\ X = "FILLED"
  BY <1>1, <1>2 DEF Messages, Fills, NoCommission
<1>5. orders[p] \in OrderRecords
  OBVIOUS
<1>6. PICK new : new = [orders[p] EXCEPT !.filled = filled, !.state = X, !.paid = paid]
  OBVIOUS
<1>7. /\ new \in OrderRecords /\ new.state = X /\ new.filled = filled /\ new.paid = paid
  <2>4. orders[p].filled \in Nat
    BY <1>5 DEF OrderRecords
  <2>1. filled \in Nat
    BY <1>1, <2>4
  <2>3. X \in OrderStates
    BY <1>1 DEF OrderStates
  <2>2. new = [orders[p] EXCEPT !.filled = filled, !.state = X, !.paid = paid]
    BY <1>6
  <2> QED BY <1>1, <1>5, <2>1, <2>2, <2>3 DEF OrderRecords
<1>8. orders' \in [Orders -> OrderRecords] /\ \A o \in Orders : orders'[o] = IF o = p THEN new ELSE orders[o]
  <2>1. orders' = [orders EXCEPT ![p] = new]
    BY <1>3, <1>5, <1>6 DEF OrderRecords
  <2> QED BY <1>7, <2>1
<1>9. ASSUME NEW o \in Orders PROVE ToldOnce(o)' /\ PaidTold(o)'
  <2>1. /\ Told(o)' = Told(o)
        /\ o = p /\ X = "FILLED" /\ keyLives => Under(o)' = Under(o) \cup {Len(stream) + 1}
        /\ ~ (o = p /\ X = "FILLED" /\ keyLives) => Under(o)' = Under(o)
        /\ keyLives => stream'[Len(stream) + 1] = m
        /\ \A k \in Under(o) : stream'[k] = stream[k]
    BY <1>3, <1>4, SentOn
  <2>2. ToldOnce(o) /\ PaidTold(o)
    BY DEF OrdersTold
  <2>3. CASE o = p
    <3>1. Under(o) = {} /\ Told(o) = {}
      BY <1>3, <2>2, <2>3 DEF ToldOnce
    <3>2. CASE X = "FILLED"
      <4>1. filled = OrderQty /\ orders'[o] = new
        BY <1>1, <1>8, <2>3, <3>2
      <4>2. Under(o)' = (IF keyLives THEN {Len(stream) + 1} ELSE {}) /\ Told(o)' = {}
        BY <2>1, <2>3, <3>1, <3>2
      <4> QED BY <1>3, <1>4, <1>7, <2>1, <3>2, <4>1, <4>2 DEF ToldOnce, PaidTold
    <3>3. CASE X # "FILLED"
      BY <1>7, <1>8, <2>1, <2>3, <3>1, <3>3 DEF ToldOnce, PaidTold
    <3> QED BY <3>2, <3>3
  <2>4. CASE o # p
    BY <1>3, <1>8, <2>1, <2>2, <2>4, OrderStays, PaidStays
  <2> QED BY <2>3, <2>4
<1>10. stream' \in Seq(Messages)
  BY <1>3, <1>4, SentOn
<1> QED BY <1>3, <1>8, <1>9, <1>10 DEF OrdersTold

LEMMA CancelStep == ASSUME StreamInv, NEW p \in Orders, Cancel(p) PROVE StreamInv'
<1> USE DEF StreamInv, StreamTypes
<1>1. PICK m : m = [e |-> "ORDER_TRADE_UPDATE", order |-> p, X |-> "CANCELED", q |-> OrderQty, n |-> NoCommission]
  OBVIOUS
<1>2. /\ orders[p].state \in {"NEW", "PARTIALLY_FILLED"} /\ Sent(m)
      /\ orders' = [orders EXCEPT ![p].state = "CANCELED"]
      /\ keyLives' = keyLives /\ reported' = reported
  BY <1>1 DEF Cancel
<1>3. m \in Messages /\ \A o \in Orders : ~ Fills(m, o)
  BY <1>1 DEF Messages, Fills
<1>4. /\ orders' \in [Orders -> OrderRecords] /\ orders'[p].state = "CANCELED"
      /\ \A o \in Orders \ {p} : orders'[o] = orders[o]
  BY <1>2 DEF OrderRecords, OrderStates
<1>5. ASSUME NEW o \in Orders PROVE ToldOnce(o)' /\ PaidTold(o)'
  <2>1. /\ Told(o)' = Told(o) /\ Under(o)' = Under(o)
        /\ \A k \in Under(o) : stream'[k] = stream[k]
    BY <1>2, <1>3, SentOn
  <2>2. ToldOnce(o) /\ PaidTold(o)
    BY DEF OrdersTold
  <2>3. CASE o = p
    BY <1>2, <1>4, <2>1, <2>2, <2>3 DEF ToldOnce, PaidTold
  <2>4. CASE o # p
    BY <1>2, <1>4, <2>1, <2>2, <2>4, OrderStays, PaidStays
  <2> QED BY <2>3, <2>4
<1>6. stream' \in Seq(Messages)
  BY <1>2, <1>3, SentOn
<1> QED BY <1>2, <1>4, <1>5, <1>6 DEF OrdersTold

LEMMA AccountStep == StreamInv /\ (PayFunding \/ KeyExpires) => StreamInv'
<1> SUFFICES ASSUME StreamInv, PayFunding \/ KeyExpires PROVE StreamInv'
  OBVIOUS
<1> USE DEF StreamInv, StreamTypes
<1>1. PICK m \in [e : {"ACCOUNT_UPDATE", "listenKeyExpired"}] : Sent(m)
  BY DEF PayFunding, KeyExpires
<1>2. orders' = orders /\ reported' = reported /\ (keyLives' = keyLives \/ keyLives' = FALSE)
  BY DEF PayFunding, KeyExpires
<1>3. m \in Messages /\ \A o \in Orders : ~ Fills(m, o)
  BY <1>1 DEF Messages, Fills
<1>4. ASSUME NEW o \in Orders PROVE ToldOnce(o)' /\ PaidTold(o)'
  <2>1. /\ Told(o)' = Told(o) /\ Under(o)' = Under(o) /\ ToldOnce(o) /\ PaidTold(o)
        /\ \A k \in Under(o) : stream'[k] = stream[k]
    BY <1>1, <1>2, <1>3, SentOn DEF OrdersTold
  <2> QED BY <1>2, <2>1, OrderStays, PaidStays
<1>6. stream' \in Seq(Messages)
  BY <1>1, <1>3 DEF Sent
<1> QED BY <1>2, <1>4, <1>6 DEF OrdersTold

\* What a message that is taken from the stream leaves under way.
LEMMA Taken ==
  ASSUME StreamTypes, stream # <<>>, stream' = Tail(stream), NEW o \in Orders
  PROVE  /\ stream' \in Seq(Messages) /\ Head(stream) \in Messages
         /\ \A k \in Under(o)' : k + 1 \in Under(o) /\ k \in Nat \ {0} /\ stream'[k] = stream[k + 1]
         /\ \A k \in Under(o) : (k = 1 /\ Fills(Head(stream), o)) \/ k - 1 \in Under(o)'
         /\ Fills(Head(stream), o) => 1 \in Under(o)
<1>1. stream \in Seq(Messages)
  BY DEF StreamTypes
<1>2. /\ stream' \in Seq(Messages) /\ Head(stream) \in Messages /\ Head(stream) = stream[1]
      /\ Len(stream) \in Nat \ {0} /\ DOMAIN stream = 1 .. Len(stream)
      /\ DOMAIN stream' = 1 .. Len(stream) - 1
      /\ \A k \in 1 .. Len(stream) - 1 : stream'[k] = stream[k + 1]
  BY <1>1
<1>3. ASSUME NEW k \in Under(o)'
      PROVE  k + 1 \in Under(o) /\ k \in Nat \ {0} /\ stream'[k] = stream[k + 1]
  BY <1>2, <1>3 DEF Under, Fills
<1>4. ASSUME NEW k \in Under(o) PROVE (k = 1 /\ Fills(Head(stream), o)) \/ k - 1 \in Under(o)'
  <2>1. k \in 1 .. Len(stream) /\ Fills(stream[k], o)
    BY <1>2 DEF Under
  <2>2. CASE k = 1
    BY <1>2, <2>1, <2>2
  <2>3. CASE k # 1
    <3>1. k - 1 \in 1 .. Len(stream) - 1 /\ (k - 1) + 1 = k
      BY <1>2, <2>1, <2>3
    <3>2. stream'[k - 1] = stream[k]
      BY <1>2, <3>1
    <3> QED BY <1>2, <2>1, <3>1, <3>2 DEF Under, Fills
  <2> QED BY <2>2, <2>3
<1>5. Fills(Head(stream), o) => 1 \in Under(o)
  BY <1>2 DEF Under
<1> QED BY <1>2, <1>3, <1>4, <1>5

\* A report at the end of what was reported.
LEMMA Reported ==
  ASSUME StreamTypes, NEW x \in Reports, reported' = Append(reported, x), NEW o \in Orders
  PROVE  /\ reported' \in Seq(Reports)
         /\ Told(o)' = IF x.type # "FUNDING" /\ x.order = o THEN Told(o) \cup {Len(reported) + 1}
                       ELSE Told(o)
<1>1. reported \in Seq(Reports)
  BY DEF StreamTypes
<1> DEFINE n == Len(reported)
<1>2. /\ reported' \in Seq(Reports) /\ DOMAIN reported = 1 .. n /\ DOMAIN reported' = 1 .. n + 1
      /\ n \in Nat /\ reported'[n + 1] = x /\ \A k \in 1 .. n : reported'[k] = reported[k]
  BY <1>1
<1> HIDE DEF n
<1>3. ASSUME NEW k \in 1 .. n PROVE k \in Told(o)' <=> k \in Told(o)
  BY <1>2 DEF Told, Tells
<1>4. n + 1 \in Told(o)' <=> x.type # "FUNDING" /\ x.order = o
  BY <1>2 DEF Told, Tells
<1>5. Told(o) \subseteq 1 .. n /\ Told(o)' \subseteq 1 .. n + 1 /\ n + 1 \notin 1 .. n
  BY <1>2 DEF Told
<1>6. \A k \in 1 .. n + 1 : k \in 1 .. n \/ k = n + 1
  BY <1>2
<1>7. CASE x.type # "FUNDING" /\ x.order = o
  BY <1>2, <1>3, <1>4, <1>5, <1>6, <1>7 DEF n
<1>8. CASE ~ (x.type # "FUNDING" /\ x.order = o)
  <2>1. n + 1 \notin Told(o)'
    BY <1>4, <1>8
  <2>2. Told(o)' = Told(o)
    BY <1>3, <1>5, <1>6, <2>1
  <2> QED BY <1>2, <1>8, <2>2
<1> QED BY <1>7, <1>8

\* What a message makes.
LEMMA Makes ==
  ASSUME StreamTypes, NEW m \in Messages
  PROVE  \/ /\ Executions(m) = <<>>
            /\ \A o \in Orders : Fills(m, o) => ExecTypeOf(orders[o]) = "none" \/ m.n = NoCommission
         \/ \E x \in Reports :
              /\ Executions(m) = <<x>>
              /\ \A o \in Orders : (x.type # "FUNDING" /\ x.order = o) <=> Fills(m, o)
<1>1. CASE m.e = "ORDER_TRADE_UPDATE"
  <2>1. m \in [e : {"ORDER_TRADE_UPDATE"}, order : Orders,
               X : {"PARTIALLY_FILLED", "FILLED", "CANCELED"}, q : {OrderQty}, n : {NoCommission, 1}]
    BY <1>1 DEF Messages
  <2>2. PICK type : type = ExecTypeOf(orders[m.order])
    OBVIOUS
  <2>3. type \in {"TRADE", "LIQUIDATION", "STOP", "TP", "none"}
    BY <2>2 DEF ExecTypeOf
  <2>4. PICK x : x = [order |-> m.order, type |-> type, qty |-> m.q, commission |-> m.n]
    OBVIOUS
  <2>5. Executions(m) = IF m.X = "FILLED" /\ type # "none" /\ m.n # NoCommission THEN <<x>> ELSE <<>>
    BY <1>1, <2>2, <2>4 DEF Executions
  <2>6. CASE m.X = "FILLED" /\ type # "none" /\ m.n # NoCommission
    <3>1. x \in Reports
      BY <2>1, <2>3, <2>4, <2>6 DEF Reports
    <3>2. \A o \in Orders : (x.type # "FUNDING" /\ x.order = o) <=> Fills(m, o)
      BY <1>1, <2>3, <2>4, <2>6 DEF Fills
    <3> QED BY <2>5, <2>6, <3>1, <3>2
  <2>7. CASE ~ (m.X = "FILLED" /\ type # "none" /\ m.n # NoCommission)
    BY <2>2, <2>5, <2>7 DEF Fills
  <2> QED BY <2>6, <2>7
<1>2. CASE m.e = "ACCOUNT_UPDATE"
  <2>1. PICK x : x = [type |-> "FUNDING"]
    OBVIOUS
  <2>2. Executions(m) = <<x>> /\ x \in Reports /\ x.type = "FUNDING"
    BY <1>2, <2>1 DEF Executions, Reports
  <2>3. \A o \in Orders : ~ Fills(m, o)
    BY <1>2 DEF Fills
  <2> QED BY <2>2, <2>3
<1>3. CASE m.e \notin {"ORDER_TRADE_UPDATE", "ACCOUNT_UPDATE"}
  BY <1>3 DEF Executions, Fills
<1> QED BY <1>1, <1>2, <1>3

LEMMA MessageStep == StreamInv /\ OnMessage => StreamInv'
<1> SUFFICES ASSUME StreamInv, OnMessage PROVE StreamInv'
  OBVIOUS
<1>1. StreamTypes /\ OrdersTold
  BY DEF StreamInv
<1>2. PICK m : m = Head(stream)
  OBVIOUS
<1>3. /\ stream # <<>> /\ stream' = Tail(stream) /\ reported' = reported \o Executions(m)
      /\ orders' = orders /\ keyLives' = keyLives
  BY <1>2 DEF OnMessage
<1>4. stream' \in Seq(Messages) /\ m \in Messages
  BY <1>1, <1>2, <1>3 DEF StreamTypes
<1>6. CASE /\ Executions(m) = <<>>
           /\ \A o \in Orders : Fills(m, o) => ExecTypeOf(orders[o]) = "none" \/ m.n = NoCommission
  <2>1. reported' = reported
    BY <1>1, <1>3, <1>6 DEF StreamTypes
  <2>2. ASSUME NEW o \in Orders PROVE ToldOnce(o)' /\ PaidTold(o)'
    <3>1. Told(o)' = Told(o) /\ ToldOnce(o) /\ PaidTold(o)
      BY <1>1, <2>1 DEF Told, Tells, OrdersTold
    <3>2. /\ \A k \in Under(o)' : /\ k + 1 \in Under(o) /\ k \in Nat \ {0}
                                /\ stream'[k] = stream[k + 1]
          /\ \A k \in Under(o) : (k = 1 /\ Fills(m, o)) \/ k - 1 \in Under(o)'
      BY <1>1, <1>2, <1>3, Taken
    <3>3. \A k, l \in Under(o)' : k = l
      <4>1. ASSUME NEW k \in Under(o)', NEW l \in Under(o)' PROVE k + 1 = l + 1 /\ k \in Nat /\ l \in Nat
        BY <3>1, <3>2, <4>1 DEF ToldOnce
      <4> QED BY <4>1
    <3>4. Under(o)' # {} => Under(o) # {}
      BY <3>2
    <3>5. Under(o) # {} /\ ~ Fills(m, o) => Under(o)' # {}
      BY <3>2
    <3>6. PaidTold(o)'
      BY <1>3, <3>1, <3>2 DEF PaidTold
    <3>7. Fills(m, o) => ~ Heard(orders[o])
      <4>1. Fills(m, o) => 1 \in Under(o) /\ stream[1] = m
        BY <1>1, <1>2, <1>3, Taken DEF StreamTypes
      <4> QED BY <1>6, <3>1, <4>1 DEF PaidTold, Heard
    <3> QED BY <1>3, <3>1, <3>3, <3>4, <3>5, <3>6, <3>7 DEF ToldOnce
  <2> QED BY <1>1, <1>3, <1>4, <2>1, <2>2 DEF StreamInv, StreamTypes, OrdersTold
<1>7. ASSUME NEW x \in Reports, Executions(m) = <<x>>,
             \A o \in Orders : (x.type # "FUNDING" /\ x.order = o) <=> Fills(m, o)
      PROVE  StreamInv'
  <2>1. reported' = Append(reported, x)
    BY <1>1, <1>3, <1>7 DEF StreamTypes
  <2>2. ASSUME NEW o \in Orders PROVE ToldOnce(o)' /\ PaidTold(o)'
    <3>1. /\ Told(o)' = (IF Fills(m, o) THEN Told(o) \cup {Len(reported) + 1} ELSE Told(o))
          /\ ToldOnce(o) /\ PaidTold(o)
      BY <1>1, <1>7, <2>1, Reported DEF OrdersTold
    <3>2. /\ \A k \in Under(o)' : /\ k + 1 \in Under(o) /\ k \in Nat \ {0}
                                /\ stream'[k] = stream[k + 1]
          /\ \A k \in Under(o) : (k = 1 /\ Fills(m, o)) \/ k - 1 \in Under(o)'
          /\ Fills(m, o) => 1 \in Under(o)
      BY <1>1, <1>2, <1>3, Taken
    <3>3. \A k, l \in Under(o)' : k = l
      <4>1. ASSUME NEW k \in Under(o)', NEW l \in Under(o)' PROVE k + 1 = l + 1 /\ k \in Nat /\ l \in Nat
        BY <3>1, <3>2, <4>1 DEF ToldOnce
      <4> QED BY <4>1
    <3>4. ASSUME Fills(m, o) PROVE ToldOnce(o)'
      <4>1. 1 \in Under(o)
        BY <3>2, <3>4
      <4>2. Told(o) = {} /\ orders[o].state = "FILLED"
        BY <3>1, <4>1 DEF ToldOnce
      <4>3. Under(o)' = {}
        <5> SUFFICES ASSUME NEW k \in Under(o)' PROVE FALSE
          OBVIOUS
        <5>1. k + 1 \in Under(o) /\ k \in Nat \ {0}
          BY <3>2
        <5>2. k + 1 = 1
          BY <3>1, <4>1, <5>1 DEF ToldOnce
        <5> QED BY <5>1, <5>2
      <4>4. Told(o)' = {Len(reported) + 1}
        BY <3>1, <3>4, <4>2
      <4> QED BY <1>3, <3>1, <4>2, <4>3, <4>4 DEF ToldOnce
    <3>5. ASSUME ~ Fills(m, o) PROVE ToldOnce(o)'
      <4>1. Told(o)' = Told(o) /\ (Under(o)' # {} <=> Under(o) # {})
        BY <3>1, <3>2, <3>5
      <4> QED BY <1>3, <3>1, <3>3, <4>1 DEF ToldOnce
    <3>6. PaidTold(o)'
      BY <1>3, <3>1, <3>2 DEF PaidTold
    <3> QED BY <3>4, <3>5, <3>6
  <2>3. reported' \in Seq(Reports)
    BY <1>1, <2>1 DEF StreamTypes
  <2> QED BY <1>1, <1>3, <1>4, <2>2, <2>3 DEF StreamInv, StreamTypes, OrdersTold
<1> QED BY <1>1, <1>4, <1>6, <1>7, Makes

LEMMA StreamStep == StreamInv /\ [StreamNext]_streamVars => StreamInv'
<1>1. ASSUME StreamInv, StreamNext PROVE StreamInv'
  BY <1>1, PlaceStep, FillStep, CancelStep, AccountStep, MessageStep DEF StreamNext
<1>2. ASSUME StreamInv, UNCHANGED streamVars PROVE StreamInv'
  <2>1. /\ orders' = orders /\ stream' = stream /\ reported' = reported /\ keyLives' = keyLives
    BY <1>2 DEF streamVars
  <2>2. ASSUME NEW o \in Orders PROVE ToldOnce(o)' /\ PaidTold(o)'
    <3>1. Under(o)' = Under(o) /\ Told(o)' = Told(o) /\ ToldOnce(o) /\ PaidTold(o)
      BY <1>2, <2>1 DEF Under, Fills, Told, Tells, StreamInv, OrdersTold
    <3> QED BY <2>1, <3>1, OrderStays, PaidStays
  <2> QED BY <1>2, <2>1, <2>2 DEF StreamInv, StreamTypes, OrdersTold
<1> QED BY <1>1, <1>2

\* Reading BinanceFutures._on_message (binance/worker.py): an order that is filled in
\* parts, and one that is canceled in between, is one execution of all of it or none,
\* and no filled order is missed while the listen key lives, but for one of an unknown
\* type or whose last part paid no commission.
THEOREM OrdersAreWhole == StreamSpec => []WholeOrders
<1>1. StreamInv => WholeOrders
  <2> SUFFICES ASSUME StreamInv, NEW o \in Orders
               PROVE  /\ \A i, k \in DOMAIN reported : Tells(i, o) /\ Tells(k, o) => i = k
                      /\ \A i \in DOMAIN reported : Tells(i, o) => reported[i].qty = orders[o].filled
                      /\ keyLives /\ stream = <<>> /\ orders[o].state = "FILLED"
                           /\ Heard(orders[o]) => \E i \in DOMAIN reported : Tells(i, o)
    BY DEF WholeOrders
  <2>1. StreamTypes /\ ToldOnce(o)
    BY DEF StreamInv, OrdersTold
  <2>2. \A i, k \in DOMAIN reported : Tells(i, o) /\ Tells(k, o) => i = k
    BY <2>1 DEF ToldOnce, Told
  <2>3. ASSUME NEW i \in DOMAIN reported, Tells(i, o) PROVE reported[i].qty = orders[o].filled
    <3>1. orders[o].filled = OrderQty
      BY <2>1, <2>3 DEF ToldOnce, Told
    <3>2. reported[i] \in Reports /\ reported[i].type # "FUNDING"
      BY <2>1, <2>3 DEF StreamTypes, Tells
    <3> QED BY <3>1, <3>2 DEF Reports
  <2>4. stream = <<>> => Under(o) = {}
    BY DEF Under
  <2>5. ASSUME keyLives, stream = <<>>, orders[o].state = "FILLED", Heard(orders[o])
        PROVE  \E i \in DOMAIN reported : Tells(i, o)
    BY <2>1, <2>4, <2>5 DEF ToldOnce, Told
  <2> QED BY <2>2, <2>3, <2>5
<1> QED BY <1>1, StreamStarts, StreamStep, PTL DEF StreamSpec

-----------------------------------------------------------------------------
(***************************************************************************)
(* The history of Bybit.  First what it means to be the k-th: how many     *)
(* numbers of a set are not older than one of them.                        *)
(***************************************************************************)
NotOlder(S, t) == {u \in S : u >= t}

LEMMA Bounded ==
  ASSUME NEW m \in Nat, NEW S, \A u \in S : u \in 1 .. m
  PROVE  /\ IsFiniteSet(S) /\ Cardinality(S) \in Nat
         /\ \A t : IsFiniteSet(NotOlder(S, t)) /\ Cardinality(NotOlder(S, t)) \in 0 .. Cardinality(S)
<1>1. IsFiniteSet(1 .. m)
  BY FS_Interval
<1>2. IsFiniteSet(S)
  BY <1>1, FS_Subset
<1>3. ASSUME NEW t
      PROVE  /\ IsFiniteSet(NotOlder(S, t)) /\ Cardinality(NotOlder(S, t)) \in Nat
             /\ Cardinality(NotOlder(S, t)) <= Cardinality(S)
  <2>1. NotOlder(S, t) \subseteq S
    BY DEF NotOlder
  <2> QED BY <1>2, <2>1, FS_Subset, FS_CardinalityType
<1> QED BY <1>2, <1>3, FS_CardinalityType

\* Of two members the older one has more that are not older than it.
LEMMA OlderHasMore ==
  ASSUME NEW m \in Nat, NEW S, \A u \in S : u \in 1 .. m, NEW t \in S, NEW v \in S, t < v
  PROVE  Cardinality(NotOlder(S, v)) < Cardinality(NotOlder(S, t))
<1>1. PICK B, C : B = NotOlder(S, v) /\ C = NotOlder(S, t)
  OBVIOUS
<1>2. /\ IsFiniteSet(B) /\ IsFiniteSet(C)
      /\ Cardinality(B) \in Nat /\ Cardinality(C) \in Nat
  BY <1>1, Bounded
<1>3. t \notin B /\ B \cup {t} \subseteq C
  BY <1>1 DEF NotOlder
<1>4. Cardinality(B \cup {t}) = Cardinality(B) + 1
  BY <1>2, <1>3, FS_AddElement
<1>5. Cardinality(B \cup {t}) <= Cardinality(C)
  BY <1>2, <1>3, FS_Subset
<1> QED BY <1>1, <1>2, <1>4, <1>5

LEMMA KthThere ==
  ASSUME NEW m \in Nat, NEW S, \A u \in S : u \in 1 .. m, NEW k \in 1 .. Cardinality(S)
  PROVE  \E t \in S : Cardinality(NotOlder(S, t)) = k
<1> DEFINE A == {x \in 1 .. m + 1 : Cardinality(NotOlder(S, x)) < k}
<1>1. Cardinality(S) \in Nat /\ \A t : Cardinality(NotOlder(S, t)) \in Nat
  BY Bounded
<1>2. m + 1 \in A
  <2>1. NotOlder(S, m + 1) = {}
    BY DEF NotOlder
  <2> QED BY <1>1, <2>1, FS_EmptySet
<1>3. 1 \notin A
  <2>1. NotOlder(S, 1) = S
    BY DEF NotOlder
  <2> QED BY <1>1, <2>1
<1>4. \E x \in A : x - 1 \notin A
  <2> SUFFICES ASSUME \A x \in A : x - 1 \in A PROVE FALSE
    OBVIOUS
  <2>1. \A x \in A : x # 0 /\ x - 1 \in A
    OBVIOUS
  <2>2. A \in SUBSET Nat
    OBVIOUS
  <2> HIDE DEF A
  <2>3. A = {}
    BY <2>1, <2>2, Descent
  <2> QED BY <1>2, <2>3
<1>5. PICK x \in A : x - 1 \notin A
  BY <1>4
<1>6. PICK y \in 1 .. m : y = x - 1
  BY <1>3, <1>5
<1>7. /\ Cardinality(NotOlder(S, y + 1)) < k /\ k <= Cardinality(NotOlder(S, y))
  BY <1>1, <1>5, <1>6
<1>8. NotOlder(S, y) \subseteq NotOlder(S, y + 1) \cup {y}
  BY DEF NotOlder
<1>9. y \in S
  <2> SUFFICES ASSUME y \notin S PROVE FALSE
    OBVIOUS
  <2>1. NotOlder(S, y) = NotOlder(S, y + 1)
    BY DEF NotOlder
  <2> QED BY <1>1, <1>7, <2>1
<1>10. Cardinality(NotOlder(S, y)) <= Cardinality(NotOlder(S, y + 1)) + 1
  <2>1. IsFiniteSet(NotOlder(S, y + 1)) /\ y \notin NotOlder(S, y + 1)
    BY Bounded DEF NotOlder
  <2>2. /\ IsFiniteSet(NotOlder(S, y + 1) \cup {y})
        /\ Cardinality(NotOlder(S, y + 1) \cup {y}) = Cardinality(NotOlder(S, y + 1)) + 1
    BY <2>1, FS_AddElement
  <2> QED BY <1>8, <2>2, FS_Subset
<1> QED BY <1>1, <1>7, <1>9, <1>10

\* The newest n numbers of a set, as they come on a page.
Newest(S, n) == [k \in 1 .. Min({n, Cardinality(S)}) |-> CHOOSE t \in S : Cardinality({u \in S : u >= t}) = k]

LEMMA NewestAre ==
  ASSUME NEW m \in Nat, NEW S, \A u \in S : u \in 1 .. m, NEW n \in Nat \ {0}
  PROVE  /\ Newest(S, n) \in Seq(S)
         /\ \A j \in DOMAIN Newest(S, n) : \A i \in 1 .. j - 1 : Newest(S, n)[j] < Newest(S, n)[i]
         /\ \A t \in S : \/ \E k \in DOMAIN Newest(S, n) : Newest(S, n)[k] = t
                         \/ \A k \in DOMAIN Newest(S, n) : t < Newest(S, n)[k]
         /\ S # {} => Newest(S, n) # <<>>
<1>1. Cardinality(S) \in Nat /\ \A t : Cardinality(NotOlder(S, t)) \in 0 .. Cardinality(S)
  BY Bounded
<1>2. PICK c \in Nat : c = Cardinality(S)
  BY <1>1
<1>3. PICK l \in Nat : l = Min({n, c}) /\ l \in {n, c} /\ l <= n /\ l <= c
  BY <1>2, MinOfTwo
<1>4. PICK p : p = Newest(S, n)
  OBVIOUS
<1>5. p = [k \in 1 .. l |-> CHOOSE t \in S : Cardinality(NotOlder(S, t)) = k]
  BY <1>2, <1>3, <1>4 DEF Newest, NotOlder
<1>6. \A k \in 1 .. l : p[k] \in S /\ Cardinality(NotOlder(S, p[k])) = k
  <2> SUFFICES ASSUME NEW k \in 1 .. l PROVE p[k] \in S /\ Cardinality(NotOlder(S, p[k])) = k
    OBVIOUS
  <2>1. \E t \in S : Cardinality(NotOlder(S, t)) = k
    BY <1>2, <1>3, KthThere
  <2>2. p[k] = CHOOSE t \in S : Cardinality(NotOlder(S, t)) = k
    BY <1>5
  <2> QED BY <2>1, <2>2
<1>7. DOMAIN p = 1 .. l /\ p \in Seq(S)
  BY <1>5, <1>6
<1>8. \A t \in S, v \in S : /\ t \in Int /\ v \in Int
                            /\ t < v => Cardinality(NotOlder(S, v)) < Cardinality(NotOlder(S, t))
  BY OlderHasMore
<1>9. ASSUME NEW j \in 1 .. l, NEW i \in 1 .. j - 1 PROVE p[j] < p[i]
  <2>1. /\ p[i] \in S /\ Cardinality(NotOlder(S, p[i])) = i
        /\ p[j] \in S /\ Cardinality(NotOlder(S, p[j])) = j
    BY <1>6
  <2> QED BY <1>8, <2>1
<1>10. ASSUME NEW t \in S, \A k \in 1 .. l : p[k] # t, NEW k \in 1 .. l PROVE t < p[k]
  <2>1. PICK d \in Nat : d = Cardinality(NotOlder(S, t)) /\ d <= c
    BY <1>1, <1>2
  <2>2. p[k] \in S /\ Cardinality(NotOlder(S, p[k])) = k
    BY <1>6
  <2>3. SUFFICES ASSUME p[k] < t PROVE FALSE
    BY <1>8, <1>10, <2>2
  <2>4. d < k
    BY <1>8, <2>1, <2>2, <2>3
  <2>5. d # 0
    <3>1. t \in NotOlder(S, t)
      BY <1>8 DEF NotOlder
    <3> QED BY <2>1, <3>1, Bounded, FS_EmptySet
  <2>6. d \in 1 .. l
    BY <2>4, <2>5
  <2>7. p[d] \in S /\ Cardinality(NotOlder(S, p[d])) = d /\ p[d] # t
    BY <1>6, <1>10, <2>6
  <2> QED BY <1>8, <2>1, <2>7
<1>11. S # {} => l # 0
  <2>1. S # {} => c # 0
    BY <1>2, Bounded, FS_EmptySet
  <2> QED BY <1>3, <2>1
<1>12. S # {} => p # <<>>
  BY <1>7, <1>11
<1> QED BY <1>4, <1>7, <1>9, <1>10, <1>12

LEMMA MaxOfSome ==
  ASSUME NEW n \in Nat, NEW S, \A k \in S : k \in 0 .. n, 0 \in S
  PROVE  Max(S) \in S /\ \A k \in S : k <= Max(S)
<1>1. \E x \in S : \A y \in S : y <= x
  BY NewestThere
<1> QED BY <1>1 DEF Max

\* The records of a page that are valid: all before the first that is not.
LEMMA ValidIs ==
  ASSUME NEW list, NEW S, NEW page \in Seq(S)
  PROVE  \E n \in 0 .. Len(page) :
            /\ Valid(list, page) = SubSeq(page, 1, n)
            /\ \A k \in 1 .. n : IsValid(list, page[k])
            /\ n < Len(page) => ~IsValid(list, page[n + 1])
<1>1. PICK l \in Nat : l = Len(page)
  OBVIOUS
<1>2. PICK P : P = {n \in 0 .. l : \A k \in 1 .. n : IsValid(list, page[k])}
  OBVIOUS
<1>3. 0 \in P /\ \A k \in P : k \in 0 .. l
  BY <1>2
<1>4. PICK n : n = Max(P) /\ n \in P /\ \A k \in P : k <= n
  BY <1>3, MaxOfSome
<1>5. n \in 0 .. l /\ \A k \in 1 .. n : IsValid(list, page[k])
  BY <1>2, <1>4
<1>6. n < l => ~IsValid(list, page[n + 1])
  <2> SUFFICES ASSUME n < l, IsValid(list, page[n + 1]) PROVE FALSE
    OBVIOUS
  <2>1. n + 1 \in P
    <3>1. \A k \in 1 .. n + 1 : k \in 1 .. n \/ k = n + 1
      BY <1>5
    <3>2. n + 1 \in 0 .. l
      BY <1>5
    <3> QED BY <1>2, <1>5, <3>1, <3>2
  <2> QED BY <1>4, <1>5, <2>1
<1>7. Valid(list, page) = SubSeq(page, 1, n)
  BY <1>1, <1>2, <1>4 DEF Valid
<1> QED BY <1>1, <1>5, <1>6, <1>7

\* Places of a list with a number that is not greater than t, or less than t.
Places(s, t) == {i \in DOMAIN s : s[i] <= t}
Before(s, t) == {i \in DOMAIN s : s[i] < t}

LEMMA PlacesFinite ==
  ASSUME NEW m \in Nat, NEW s \in Seq(1 .. m)
  PROVE  /\ \A t : IsFiniteSet(Places(s, t)) /\ Cardinality(Places(s, t)) \in 0 .. Len(s)
         /\ \A t : IsFiniteSet(Before(s, t)) /\ Cardinality(Before(s, t)) \in 0 .. Len(s)
<1>1. IsFiniteSet(1 .. Len(s)) /\ Cardinality(1 .. Len(s)) = Len(s) /\ DOMAIN s = 1 .. Len(s)
  <2>1. PICK n \in Nat : n = Len(s)
    OBVIOUS
  <2>2. IsFiniteSet(1 .. n) /\ Cardinality(1 .. n) = n
    BY FS_Interval
  <2> QED BY <2>1, <2>2
<1>2. ASSUME NEW T \in SUBSET DOMAIN s
      PROVE  IsFiniteSet(T) /\ Cardinality(T) \in 0 .. Len(s)
  BY <1>1, FS_Subset, FS_CardinalityType
<1>3. \A t : Places(s, t) \in SUBSET DOMAIN s /\ Before(s, t) \in SUBSET DOMAIN s
  BY DEF Places, Before
<1> QED BY <1>2, <1>3

\* Numbers that are all different, in their order, are the same and grow.
LEMMA SortedAre ==
  ASSUME NEW m \in Nat, NEW s \in Seq(1 .. m), \A i, j \in DOMAIN s : i # j => s[i] # s[j],
         NEW g, g = [k \in DOMAIN s |-> CHOOSE t \in ToSet(s) :
                        /\ Cardinality({i \in DOMAIN s : s[i] < t}) < k
                        /\ k <= Cardinality({i \in DOMAIN s : s[i] <= t})]
  PROVE  /\ ToSet(g) = ToSet(s)
         /\ \A i \in 2 .. Len(s) : g[i - 1] < g[i]
<1> DEFINE C(t) == Cardinality(Places(s, t))
           D(t) == Cardinality(Before(s, t))
<1>1. PICK n \in Nat : n = Len(s) /\ DOMAIN s = 1 .. n
  OBVIOUS
<1>2. \A t : C(t) \in 0 .. n /\ D(t) \in 0 .. n
  BY <1>1, PlacesFinite
<1>3. \A i \in 1 .. n : s[i] \in 1 .. m
  BY <1>1
<1>4. g = [k \in 1 .. n |-> CHOOSE t \in ToSet(s) : D(t) < k /\ k <= C(t)]
  BY <1>1 DEF Places, Before
<1>5. ASSUME NEW k \in 1 .. n PROVE \E t \in ToSet(s) : D(t) < k /\ k <= C(t)
  <2> DEFINE A == {x \in 0 .. m : k <= C(x)}
  <2>1. m \in A
    <3>1. Places(s, m) = 1 .. n
      BY <1>1, <1>3 DEF Places
    <3>2. C(m) = n
      BY <3>1, FS_Interval
    <3> QED BY <3>2
  <2>2. 0 \notin A
    <3>1. Places(s, 0) = {}
      BY <1>1, <1>3 DEF Places
    <3>2. C(0) = 0
      BY <3>1, FS_EmptySet
    <3> QED BY <3>2
  <2>3. \E x \in A : x - 1 \notin A
    <3> SUFFICES ASSUME \A x \in A : x - 1 \in A PROVE FALSE
      OBVIOUS
    <3>1. \A x \in A : x # 0 /\ x - 1 \in A
      BY <2>2
    <3>2. A \in SUBSET Nat
      OBVIOUS
    <3> HIDE DEF A
    <3> QED BY <2>1, <3>1, <3>2, Descent
  <2>4. PICK x \in A : x - 1 \notin A
    BY <2>3
  <2>5. x \in 1 .. m /\ x - 1 \in 0 .. m
    BY <2>2, <2>4
  <2>6. C(x - 1) < k /\ k <= C(x)
    BY <1>2, <2>4, <2>5
  <2>7. Before(s, x) = Places(s, x - 1)
    BY <1>1, <1>3, <2>5 DEF Before, Places
  <2>8. x \in ToSet(s)
    <3> SUFFICES ASSUME \A i \in 1 .. n : s[i] # x PROVE FALSE
      BY <1>1 DEF ToSet
    <3>1. Places(s, x) = Places(s, x - 1)
      BY <1>1, <1>3, <2>5 DEF Places
    <3> QED BY <1>2, <2>6, <3>1
  <2> QED BY <2>6, <2>7, <2>8
<1>6. ASSUME NEW t \in ToSet(s)
      PROVE  D(t) + 1 = C(t) /\ t \in 1 .. m
  <2>1. PICK i \in 1 .. n : s[i] = t
    BY <1>1 DEF ToSet
  <2>2. Places(s, t) = Before(s, t) \cup {i} /\ i \notin Before(s, t)
    BY <1>1, <1>3, <2>1, SMTT(30) DEF Places, Before
  <2> QED BY <1>2, <1>3, <2>1, <2>2, PlacesFinite, FS_AddElement
<1>7. ASSUME NEW t \in ToSet(s), NEW v \in ToSet(s), t < v
      PROVE  C(t) <= D(v)
  <2>1. Places(s, t) \subseteq Before(s, v)
    <3>1. t \in 1 .. m /\ v \in 1 .. m
      BY <1>6
    <3>2. \A i \in 1 .. n : s[i] <= t => s[i] < v
      BY <1>3, <1>7, <3>1
    <3> QED BY <1>1, <3>2 DEF Places, Before
  <2> QED BY <2>1, PlacesFinite, FS_Subset
<1> HIDE DEF C, D
<1>8. \A k \in 1 .. n : g[k] \in ToSet(s) /\ D(g[k]) < k /\ k <= C(g[k])
  <2> SUFFICES ASSUME NEW k \in 1 .. n PROVE g[k] \in ToSet(s) /\ D(g[k]) < k /\ k <= C(g[k])
    OBVIOUS
  <2>1. g[k] = CHOOSE t \in ToSet(s) : D(t) < k /\ k <= C(t)
    BY <1>4
  <2> QED BY <1>5, <2>1
<1>9. ASSUME NEW i \in 2 .. n PROVE g[i - 1] < g[i]
  <2>1. i \in 1 .. n /\ i - 1 \in 1 .. n
    OBVIOUS
  <2>2. PICK a \in ToSet(s), b \in ToSet(s) : a = g[i - 1] /\ b = g[i]
    BY <1>8, <2>1
  <2>3. D(a) < i - 1 /\ i <= C(b)
    BY <1>8, <2>1, <2>2
  <2>4. a \in 1 .. m /\ b \in 1 .. m /\ D(a) \in 0 .. n /\ C(b) \in 0 .. n
    BY <1>2, <1>6
  <2>5. D(b) + 1 = C(b) /\ D(b) \in 0 .. n
    BY <1>2, <1>6
  <2>6. a # b
    BY <2>3, <2>4, <2>5
  <2>7. ~(b < a)
    <3> SUFFICES ASSUME b < a PROVE FALSE
      OBVIOUS
    <3>1. C(b) <= D(a)
      BY <1>7
    <3> QED BY <2>3, <2>4, <3>1
  <2> QED BY <2>2, <2>4, <2>6, <2>7
<1>10. ASSUME NEW t \in ToSet(s) PROVE \E k \in 1 .. n : g[k] = t
  <2>1. C(t) \in 1 .. n /\ D(t) + 1 = C(t) /\ D(t) \in 0 .. n
    BY <1>2, <1>6
  <2>2. PICK k \in 1 .. n : k = C(t)
    BY <2>1
  <2>3. PICK v \in ToSet(s) : v = g[k] /\ D(v) < k /\ k <= C(v)
    BY <1>8
  <2>4. t \in 1 .. m /\ v \in 1 .. m /\ D(v) \in 0 .. n /\ C(v) \in 0 .. n
    BY <1>2, <1>6
  <2>5. ~(v < t)
    <3> SUFFICES ASSUME v < t PROVE FALSE
      OBVIOUS
    <3>1. C(v) <= D(t)
      BY <1>7
    <3> QED BY <2>1, <2>2, <2>3, <2>4, <3>1
  <2>6. ~(t < v)
    <3> SUFFICES ASSUME t < v PROVE FALSE
      OBVIOUS
    <3>1. C(t) <= D(v)
      BY <1>7
    <3> QED BY <2>1, <2>2, <2>3, <2>4, <3>1
  <2>7. v = t
    BY <2>4, <2>5, <2>6
  <2> QED BY <2>3, <2>7
<1>11. ToSet(g) = ToSet(s)
  <2>1. DOMAIN g = 1 .. n
    BY <1>4
  <2>2. ToSet(g) = {g[k] : k \in 1 .. n}
    BY <2>1 DEF ToSet
  <2>3. \A x : x \in ToSet(g) => x \in ToSet(s)
    BY <1>8, <2>2
  <2>4. \A x : x \in ToSet(s) => x \in ToSet(g)
    BY <1>10, <2>2
  <2> QED BY <2>3, <2>4
<1> QED BY <1>1, <1>9, <1>11

-----------------------------------------------------------------------------
(***************************************************************************)
(* The fetch of Bybit's history.  What was read of a list is what the      *)
(* result has of it: all of it, or down to the cursor.                     *)
(***************************************************************************)
FetchLists == (Transfers \X {"all"}) \cup {OrderEntries} \cup ({"funding"} \X Coins)

Stage(list) ==
  CASE list[1] = "internal" -> 1
    [] list[1] = "out" -> 2
    [] list[1] = "in" -> 3
    [] list[1] = "orders" -> 4
    [] list[1] = "funding" -> 5
    [] OTHER -> 6

CoinsRead == OrderedCoins(ToSet(results))

\* A list has been read, or been read down to the time t.
ReadThrough(list) ==
  IF list[1] = "funding"
  THEN Stage(reading) >= 5 /\ list[2] \in CoinsRead \ symbols /\ reading # list
  ELSE Stage(list) < Stage(reading)

ReadDownTo(list, t) == ReadThrough(list) \/ (list = reading /\ ~first /\ t >= cursor)

FeedTypes == BybitTypeOK /\ Len(feed) <= MaxRecords

\* What was listed when the fetch began is listed still.
StillListed ==
  /\ Len(atFetch) <= Len(feed)
  /\ \A t \in DOMAIN atFetch : atFetch[t][1] # "open" => feed[t] = atFetch[t]

ResultsOnce == \A i, j \in DOMAIN results : i # j => results[i] # results[j]

CoinsLeft ==
  /\ Stage(reading) # 5 => symbols = {}
  /\ Stage(reading) = 5 => symbols \subseteq CoinsRead /\ reading[2] \in CoinsRead \ symbols

\* Every result is of a list that was read down to it.
ResultsRead ==
  \A i \in DOMAIN results :
    /\ results[i] \in DOMAIN feed /\ results[i] >= syncedTo
    /\ \E l \in FetchLists : results[i] \in Listed(feed, l) /\ ReadDownTo(l, results[i])

\* What is new of a list is in the result, as far as the list was read.
NewRead ==
  \A l \in FetchLists : \A t \in Listed(atFetch, l) :
    /\ l[1] # "internal" /\ t > syncedTo /\ ReadDownTo(l, t)
    => t \in ToSet(results)

FetchInv == StillListed /\ ResultsOnce /\ CoinsLeft /\ ResultsRead /\ NewRead

BybitInv ==
  /\ FeedTypes
  /\ ~first => cursor # 0
  /\ reading # NoList => reading \in FetchLists \cup {Done} /\ FetchInv

LEMMA BybitStarts == BybitInit => BybitInv
BY BybitAssumption DEF BybitInit, BybitInv, FeedTypes, BybitTypeOK, NoList

\* Lists have no record in common.
LEMMA OneList ==
  ASSUME NEW recs, NEW l \in FetchLists, NEW m \in FetchLists,
         NEW t, t \in Listed(recs, l), t \in Listed(recs, m)
  PROVE  l = m
<1>1. recs[t][1] = l[1] /\ recs[t][1] = m[1] /\ (l[1] = "funding" => l[2] = m[2])
  BY DEF Listed
<1>2. l = <<l[1], l[2]>> /\ m = <<m[1], m[2]>>
  BY DEF FetchLists, OrderEntries
<1>3. \A k \in FetchLists : k[1] = "funding" \/ k[2] = "all"
  BY DEF FetchLists, OrderEntries
<1>4. l[2] = m[2]
  BY <1>1, <1>3
<1> QED BY <1>1, <1>2, <1>4

LEMMA StageOf ==
  /\ \A l \in FetchLists : /\ Stage(l) \in 1 .. 5 /\ l[1] # "open"
                           /\ Stage(l) = 5 <=> l[1] = "funding"
                           /\ l # NoList /\ l # Done
  /\ \A l, m \in FetchLists : Stage(l) = Stage(m) /\ l[1] # "funding" => l = m
  /\ Stage(Done) = 6
<1>1. \A l \in FetchLists : \/ l = <<"internal", "all">> /\ Stage(l) = 1 /\ l[1] = "internal"
                            \/ l = <<"out", "all">> /\ Stage(l) = 2 /\ l[1] = "out"
                            \/ l = <<"in", "all">> /\ Stage(l) = 3 /\ l[1] = "in"
                            \/ l = OrderEntries /\ Stage(l) = 4 /\ l[1] = "orders"
                            \/ Stage(l) = 5 /\ l[1] = "funding"
  BY DEF FetchLists, Transfers, OrderEntries, Stage
<1>2. Stage(Done) = 6 /\ Done[1] = "done" /\ NoList[1] = "idle"
  BY DEF Stage, Done, NoList
<1> QED BY <1>1, <1>2

\* What the exchange does between two requests.
LEMMA FeedMoves ==
  ASSUME BybitInv, UNCHANGED fetch, feed' \in Seq(Kinds), Len(feed') <= MaxRecords,
         Len(feed) <= Len(feed'),
         \A t \in DOMAIN feed : feed[t][1] # "open" => feed'[t] = feed[t]
  PROVE  BybitInv'
<1>1. /\ UNCHANGED <<syncedTo, reading, cursor, first, symbols, results, atFetch>>
  BY DEF fetch
<1>2. FeedTypes'
  BY <1>1 DEF BybitInv, FeedTypes, BybitTypeOK
<1>3. (~first => cursor # 0)'
  BY <1>1 DEF BybitInv
<1>4. ASSUME reading # NoList
      PROVE  FetchInv'
  <2>1. FetchInv /\ reading \in FetchLists \cup {Done}
    BY <1>4 DEF BybitInv
  <2>2. PICK n \in Nat, n2 \in Nat, k \in Nat :
          /\ DOMAIN feed = 1 .. n /\ DOMAIN feed' = 1 .. n2 /\ n <= n2
          /\ DOMAIN atFetch = 1 .. k /\ k <= n /\ Len(atFetch) = k /\ Len(feed') = n2
    <3>1. feed \in Seq(Kinds) /\ atFetch \in Seq(Kinds)
      BY DEF BybitInv, FeedTypes, BybitTypeOK
    <3> QED BY <2>1, <3>1 DEF FetchInv, StillListed
  <2>3. StillListed'
    <3>1. \A t \in 1 .. k : atFetch[t][1] # "open" => feed[t] = atFetch[t] /\ feed'[t] = feed[t]
      BY <2>1, <2>2 DEF FetchInv, StillListed
    <3> QED BY <1>1, <2>2, <3>1 DEF StillListed
  <2>4. \A l \in FetchLists : \A t \in Listed(feed, l) : t \in Listed(feed, l)' /\ feed'[t] = feed[t]
    <3> SUFFICES ASSUME NEW l \in FetchLists, NEW t \in Listed(feed, l)
                 PROVE  t \in Listed(feed, l)' /\ feed'[t] = feed[t]
      OBVIOUS
    <3>1. t \in DOMAIN feed /\ feed[t][1] = l[1] /\ l[1] # "open"
      BY StageOf DEF Listed
    <3> QED BY <1>1, <2>2, <3>1 DEF Listed
  <2>5. \A i \in DOMAIN results : feed'[results[i]] = feed[results[i]]
    BY <2>1, <2>4 DEF FetchInv, ResultsRead
  <2>6. CoinsRead' = CoinsRead
    <3>1. \A t \in ToSet(results) : feed'[t] = feed[t]
      BY <2>5 DEF ToSet
    <3>2. {u \in ToSet(results) : feed'[u][1] = "orders"} = {u \in ToSet(results) : feed[u][1] = "orders"}
      BY <3>1
    <3> QED BY <1>1, <3>1, <3>2 DEF CoinsRead, OrderedCoins
  <2>7. \A l, t : ReadDownTo(l, t)' <=> ReadDownTo(l, t)
    BY <1>1, <2>6 DEF ReadDownTo, ReadThrough
  <2>8. ResultsOnce' /\ CoinsLeft'
    BY <1>1, <2>1, <2>6 DEF FetchInv, ResultsOnce, CoinsLeft
  <2>9. ResultsRead'
    <3> SUFFICES ASSUME NEW i \in DOMAIN results
                 PROVE  /\ results[i] \in DOMAIN feed' /\ results[i] >= syncedTo
                        /\ \E l \in FetchLists : results[i] \in Listed(feed, l)' /\ ReadDownTo(l, results[i])
      BY <1>1, <2>7 DEF ResultsRead
    <3>1. results[i] \in DOMAIN feed /\ results[i] >= syncedTo
      BY <2>1 DEF FetchInv, ResultsRead
    <3>2. PICK l \in FetchLists : results[i] \in Listed(feed, l) /\ ReadDownTo(l, results[i])
      BY <2>1 DEF FetchInv, ResultsRead
    <3> QED BY <2>2, <2>4, <3>1, <3>2
  <2>10. NewRead'
    <3>1. \A l : Listed(atFetch, l)' = Listed(atFetch, l)
      BY <1>1 DEF Listed
    <3> QED BY <1>1, <2>1, <2>7, <3>1 DEF FetchInv, NewRead
  <2> QED BY <2>3, <2>8, <2>9, <2>10 DEF FetchInv
<1> QED BY <1>1, <1>2, <1>3, <1>4 DEF BybitInv

LEMMA HappensStep == BybitInv /\ (Happens \/ Filled) => BybitInv'
<1> SUFFICES ASSUME BybitInv, Happens \/ Filled PROVE BybitInv'
  OBVIOUS
<1>1. feed \in Seq(Kinds) /\ Len(feed) <= MaxRecords /\ UNCHANGED fetch /\ MaxRecords \in Nat
  BY BybitAssumption DEF BybitInv, FeedTypes, BybitTypeOK, Happens, Filled
<1>2. CASE Happens
  <2>1. PICK k \in Kinds : feed' = Append(feed, k) /\ Len(feed) < MaxRecords
    BY <1>2 DEF Happens
  <2>2. /\ feed' \in Seq(Kinds) /\ Len(feed') = Len(feed) + 1
        /\ \A t \in DOMAIN feed : feed'[t] = feed[t]
    BY <1>1, <2>1
  <2>3. Len(feed) <= Len(feed') /\ Len(feed') <= MaxRecords
    BY <1>1, <2>1, <2>2
  <2> QED BY <1>1, <2>2, <2>3, FeedMoves
<1>3. CASE Filled
  <2>1. PICK t \in DOMAIN feed : feed[t][1] = "open" /\ feed' = [feed EXCEPT ![t][1] = "orders"]
    BY <1>3 DEF Filled
  <2>2. feed[t] \in Kinds
    BY <1>1
  <2>3. PICK c \in Coins : feed[t] = <<"open", c>>
    BY <2>1, <2>2 DEF Kinds, Transfers
  <2>4. [feed[t] EXCEPT ![1] = "orders"] = <<"orders", c>> /\ <<"orders", c>> \in Kinds
    BY <2>3 DEF Kinds
  <2>5. feed' = [feed EXCEPT ![t] = <<"orders", c>>]
    BY <2>1, <2>4
  <2>6. /\ feed' \in Seq(Kinds) /\ Len(feed') = Len(feed)
        /\ \A u \in DOMAIN feed : u # t => feed'[u] = feed[u]
    BY <1>1, <2>4, <2>5
  <2> QED BY <1>1, <2>1, <2>6, FeedMoves
<1> QED BY <1>2, <1>3

LEMMA BeginsStep == BybitInv /\ FetchBegins => BybitInv'
<1> SUFFICES ASSUME BybitInv, FetchBegins PROVE BybitInv'
  OBVIOUS
<1>1. /\ reading' = <<"internal", "all">> /\ cursor' = 0 /\ first' = TRUE /\ symbols' = {}
      /\ results' = <<>> /\ atFetch' = feed /\ feed' = feed /\ syncedTo' \in 0 .. Len(feed)
  BY DEF FetchBegins
<1>2. feed \in Seq(Kinds) /\ Len(feed) <= MaxRecords /\ MaxRecords \in Nat
  BY BybitAssumption DEF BybitInv, FeedTypes, BybitTypeOK
<1>3. FeedTypes'
  <2>1. syncedTo' \in 0 .. MaxRecords
    BY <1>1, <1>2
  <2>2. <<"internal", "all">> \in Transfers \X {"all"}
    BY DEF Transfers
  <2> QED BY <1>1, <1>2, <2>1, <2>2 DEF FeedTypes, BybitTypeOK
<1>4. <<"internal", "all">> \in FetchLists /\ Stage(<<"internal", "all">>) = 1
  BY DEF FetchLists, Transfers, Stage
<1>5. StillListed' /\ ResultsOnce' /\ CoinsLeft' /\ ResultsRead'
  BY <1>1, <1>2, <1>4 DEF StillListed, ResultsOnce, CoinsLeft, ResultsRead
<1>6. \A l \in FetchLists : \A t : ~ReadDownTo(l, t)'
  <2> SUFFICES ASSUME NEW l \in FetchLists, NEW t PROVE ~ReadDownTo(l, t)'
    OBVIOUS
  <2>1. Stage(l) \in 1 .. 5
    BY StageOf
  <2> QED BY <1>1, <1>4, <2>1 DEF ReadDownTo, ReadThrough
<1>7. NewRead'
  BY <1>6 DEF NewRead
<1> QED BY <1>1, <1>3, <1>4, <1>5, <1>7 DEF BybitInv, FetchInv

LEMMA RaisesStep == BybitInv /\ Raises => BybitInv'
<1> SUFFICES ASSUME BybitInv, Raises PROVE BybitInv'
  OBVIOUS
<1>1. <<>> \in Seq(1 .. MaxRecords)
  OBVIOUS
<1> QED BY <1>1 DEF Raises, BybitInv, FeedTypes, BybitTypeOK

\* The list that is read next: then this one has been read through.
LEMMA NextRead ==
  ASSUME NEW l, l \in FetchLists, l = reading, CoinsLeft, NextList, UNCHANGED feed,
         CoinsRead \subseteq Coins, CoinsRead' \subseteq Coins,
         l[1] # "orders" => CoinsRead' = CoinsRead
  PROVE  /\ reading' \in FetchLists \cup {Done} /\ symbols' \subseteq Coins
         /\ CoinsLeft'
         /\ \A m \in FetchLists : ReadThrough(m)' <=> ReadThrough(m) \/ m = l
<1>1. \A m \in FetchLists : /\ Stage(m) \in 1 .. 5 /\ (Stage(m) = 5 <=> m[1] = "funding")
                            /\ m # NoList /\ m # Done
  BY StageOf
<1>2. \A m \in FetchLists : Stage(m) = Stage(l) /\ l[1] # "funding" => m = l
  BY StageOf
<1>3. OrderEntries \in FetchLists /\ Stage(OrderEntries) = 4 /\ OrderEntries[1] = "orders"
  BY DEF FetchLists, OrderEntries, Stage
<1>4. CASE \E m \in FetchLists : /\ reading' = m /\ symbols' = symbols
                                 /\ Stage(m) = Stage(l) + 1 /\ Stage(m) <= 4
  <2>1. PICK m \in FetchLists : /\ reading' = m /\ symbols' = symbols
                                /\ Stage(m) = Stage(l) + 1 /\ Stage(m) <= 4
    BY <1>4
  <2>2. symbols = {} /\ l[1] # "funding"
    BY <1>1, <2>1 DEF CoinsLeft
  <2>3. CoinsLeft'
    BY <2>1, <2>2 DEF CoinsLeft
  <2>4. ASSUME NEW k \in FetchLists, ReadThrough(k)' PROVE ReadThrough(k) \/ k = l
    <3>1. k[1] # "funding" /\ Stage(k) < Stage(m)
      BY <1>1, <2>1, <2>4 DEF ReadThrough
    <3>2. Stage(k) < Stage(l) \/ Stage(k) = Stage(l)
      BY <1>1, <2>1, <3>1
    <3> QED BY <1>2, <2>2, <3>1, <3>2 DEF ReadThrough
  <2>5. ASSUME NEW k \in FetchLists, ReadThrough(k) \/ k = l PROVE ReadThrough(k)'
    <3>1. k[1] # "funding" /\ Stage(k) <= Stage(l)
      BY <1>1, <2>1, <2>2, <2>5 DEF ReadThrough
    <3> QED BY <1>1, <2>1, <3>1 DEF ReadThrough
  <2> QED BY <2>1, <2>2, <2>3, <2>4, <2>5
<1>5. CASE l = OrderEntries
  <2>1. NextSymbol(CoinsRead')
    <3>1. l # <<"internal", "all">> /\ l # <<"out", "all">> /\ l # <<"in", "all">>
      BY <1>5 DEF OrderEntries
    <3>2. CoinsRead' = OrderedCoins(ToSet(results'))
      BY DEF CoinsRead, OrderedCoins
    <3> QED BY <1>5, <3>1, <3>2 DEF NextList
  <2>2. symbols = {}
    BY <1>3, <1>5 DEF CoinsLeft
  <2>3. CASE CoinsRead' = {}
    <3>1. reading' = Done /\ symbols' = {}
      BY <2>1, <2>2, <2>3 DEF NextSymbol
    <3>2. CoinsLeft'
      BY <3>1, StageOf DEF CoinsLeft
    <3>3. ASSUME NEW k \in FetchLists, ReadThrough(k)' PROVE ReadThrough(k) \/ k = l
      <4>1. k[1] # "funding"
        BY <2>3, <3>3 DEF ReadThrough
      <4>2. Stage(k) < Stage(l) \/ Stage(k) = Stage(l)
        BY <1>1, <1>3, <1>5, <4>1
      <4> QED BY <1>2, <1>3, <1>5, <4>1, <4>2 DEF ReadThrough
    <3>4. ASSUME NEW k \in FetchLists, ReadThrough(k) \/ k = l PROVE ReadThrough(k)'
      <4>1. k[1] # "funding" /\ Stage(k) <= 4
        BY <1>1, <1>3, <1>5, <3>4 DEF ReadThrough
      <4> QED BY <1>1, <3>1, <4>1, StageOf DEF ReadThrough
    <3> QED BY <3>1, <3>2, <3>3, <3>4
  <2>4. CASE CoinsRead' # {}
    <3>1. PICK s \in CoinsRead' : reading' = <<"funding", s>> /\ symbols' = CoinsRead' \ {s}
      BY <2>1, <2>4 DEF NextSymbol
    <3>2. <<"funding", s>> \in FetchLists /\ Stage(<<"funding", s>>) = 5
      BY DEF FetchLists, Stage
    <3>3. CoinsLeft'
      BY <3>1, <3>2 DEF CoinsLeft
    <3>4. ASSUME NEW k \in FetchLists, ReadThrough(k)' PROVE ReadThrough(k) \/ k = l
      <4>1. k[1] # "funding"
        <5> SUFFICES ASSUME k[1] = "funding" PROVE FALSE
          OBVIOUS
        <5>1. k[2] \in CoinsRead' /\ k[2] \notin symbols' /\ reading' # k
          BY <3>4 DEF ReadThrough
        <5>2. k = <<"funding", k[2]>>
          BY DEF FetchLists, OrderEntries, Transfers
        <5> QED BY <3>1, <5>1, <5>2
      <4>2. Stage(k) < Stage(l) \/ Stage(k) = Stage(l)
        BY <1>1, <1>3, <1>5, <4>1
      <4> QED BY <1>2, <1>3, <1>5, <4>1, <4>2 DEF ReadThrough
    <3>5. ASSUME NEW k \in FetchLists, ReadThrough(k) \/ k = l PROVE ReadThrough(k)'
      <4>1. k[1] # "funding" /\ Stage(k) <= 4
        BY <1>1, <1>3, <1>5, <3>5 DEF ReadThrough
      <4> QED BY <1>1, <3>1, <4>1, <3>2 DEF ReadThrough
    <3> QED BY <3>1, <3>2, <3>3, <3>4, <3>5
  <2> QED BY <2>3, <2>4
<1>6. CASE l[1] = "funding"
  <2>1. NextSymbol(symbols) /\ CoinsRead' = CoinsRead /\ Stage(l) = 5
    <3>1. l # <<"internal", "all">> /\ l # <<"out", "all">> /\ l # <<"in", "all">> /\ l # OrderEntries
      BY <1>6 DEF OrderEntries
    <3> QED BY <1>1, <1>6, <3>1 DEF NextList
  <2>2. symbols \subseteq CoinsRead /\ l[2] \in CoinsRead \ symbols
    BY <2>1 DEF CoinsLeft
  <2>3. \A k \in FetchLists : k[1] = "funding" => k = <<"funding", k[2]>>
    BY DEF FetchLists, OrderEntries, Transfers
  <2>4. CASE symbols = {}
    <3>1. reading' = Done /\ symbols' = {}
      BY <2>1, <2>4 DEF NextSymbol
    <3>2. CoinsLeft'
      BY <3>1, StageOf DEF CoinsLeft
    <3>3. ASSUME NEW k \in FetchLists, ReadThrough(k)' PROVE ReadThrough(k) \/ k = l
      <4>1. k[1] # "funding" => ReadThrough(k)
        BY <1>1, <2>1 DEF ReadThrough
      <4>2. k[1] = "funding" => ReadThrough(k) \/ k = l
        BY <2>1, <2>4, <3>1, <3>3 DEF ReadThrough
      <4> QED BY <4>1, <4>2
    <3>4. ASSUME NEW k \in FetchLists, ReadThrough(k) \/ k = l PROVE ReadThrough(k)'
      <4>1. k[1] # "funding" => ReadThrough(k)'
        BY <1>1, <3>1, StageOf DEF ReadThrough
      <4>2. k[1] = "funding" => k[2] \in CoinsRead \ symbols
        BY <2>2, <3>4 DEF ReadThrough
      <4>3. k[1] = "funding" => ReadThrough(k)'
        BY <1>1, <2>1, <3>1, <4>2, StageOf DEF ReadThrough
      <4> QED BY <4>1, <4>3
    <3> QED BY <3>1, <3>2, <3>3, <3>4
  <2>5. CASE symbols # {}
    <3>1. PICK s \in symbols : reading' = <<"funding", s>> /\ symbols' = symbols \ {s}
      BY <2>1, <2>5 DEF NextSymbol
    <3>2. <<"funding", s>> \in FetchLists /\ Stage(<<"funding", s>>) = 5
      BY <2>2 DEF FetchLists, Stage
    <3>3. CoinsLeft'
      BY <2>1, <2>2, <3>1, <3>2 DEF CoinsLeft
    <3>4. ASSUME NEW k \in FetchLists, ReadThrough(k)' PROVE ReadThrough(k) \/ k = l
      <4>1. k[1] # "funding" => ReadThrough(k)
        BY <1>1, <2>1 DEF ReadThrough
      <4>2. ASSUME k[1] = "funding", k # l PROVE ReadThrough(k)
        <5>1. k[2] \in CoinsRead /\ k[2] \notin symbols' /\ reading' # k
          BY <2>1, <3>4, <4>2 DEF ReadThrough
        <5>2. k[2] \notin symbols
          BY <2>3, <3>1, <4>2, <5>1
        <5> QED BY <2>1, <4>2, <5>1, <5>2 DEF ReadThrough
      <4> QED BY <4>1, <4>2
    <3>5. ASSUME NEW k \in FetchLists, ReadThrough(k) \/ k = l PROVE ReadThrough(k)'
      <4>1. k[1] # "funding" => ReadThrough(k)'
        BY <1>1, <3>1, <3>2 DEF ReadThrough
      <4>2. k[1] = "funding" => k[2] \in CoinsRead \ symbols
        BY <2>2, <3>5 DEF ReadThrough
      <4>3. k[1] = "funding" => ReadThrough(k)'
        BY <1>1, <2>1, <3>1, <4>2, <2>3, <3>2 DEF ReadThrough
      <4> QED BY <4>1, <4>3
    <3> QED BY <2>2, <3>1, <3>2, <3>3, <3>4, <3>5
  <2> QED BY <2>4, <2>5
<1>7. \/ l = <<"internal", "all">> \/ l = <<"out", "all">> \/ l = <<"in", "all">>
      \/ l = OrderEntries \/ l[1] = "funding"
  BY DEF FetchLists, Transfers
<1>8. l \in {<<"internal", "all">>, <<"out", "all">>, <<"in", "all">>} =>
        \E m \in FetchLists : /\ reading' = m /\ symbols' = symbols
                              /\ Stage(m) = Stage(l) + 1 /\ Stage(m) <= 4
  <2>1. /\ <<"out", "all">> \in FetchLists /\ Stage(<<"out", "all">>) = 2
        /\ <<"in", "all">> \in FetchLists /\ Stage(<<"in", "all">>) = 3
        /\ Stage(<<"internal", "all">>) = 1
    BY DEF FetchLists, Transfers, Stage
  <2> DEFINE a == <<"internal", "all">>
             b == <<"out", "all">>
             c == <<"in", "all">>
  <2>5. a # b /\ a # c /\ b # c /\ a # OrderEntries /\ b # OrderEntries /\ c # OrderEntries
    BY DEF OrderEntries
  <2>6. (CASE reading = a -> reading' = b /\ UNCHANGED symbols
           [] reading = b -> reading' = c /\ UNCHANGED symbols
           [] reading = c -> reading' = OrderEntries /\ UNCHANGED symbols
           [] reading = OrderEntries -> NextSymbol(OrderedCoins(ToSet(results')))
           [] OTHER -> NextSymbol(symbols))
    BY DEF NextList
  <2> HIDE DEF a, b, c
  <2>2. l = a => reading' = b /\ symbols' = symbols
    BY <2>5, <2>6
  <2>3. l = b => reading' = c /\ symbols' = symbols
    BY <2>5, <2>6
  <2>4. l = c => reading' = OrderEntries /\ symbols' = symbols
    BY <2>5, <2>6
  <2> QED BY <1>3, <2>1, <2>2, <2>3, <2>4 DEF a, b, c
<1> QED BY <1>4, <1>5, <1>6, <1>7, <1>8

\* One turn of the loop.
LEMMA GetPageStep == BybitInv /\ GetPage => BybitInv'
<1> SUFFICES ASSUME BybitInv, GetPage PROVE BybitInv'
  OBVIOUS
<1>1. PICK l : l \in FetchLists /\ l = reading
  <2>1. reading # NoList /\ reading # Done
    BY DEF GetPage
  <2> QED BY <2>1 DEF BybitInv
<1>2. /\ l # NoList /\ l # Done /\ Stage(l) \in 1 .. 5 /\ ~ReadThrough(l) /\ FetchInv
      /\ Stage(l) = 5 <=> l[1] = "funding"
  <2>1. Stage(l) \in 1 .. 5 /\ l # NoList /\ l # Done /\ (Stage(l) = 5 <=> l[1] = "funding")
    BY <1>1, StageOf
  <2> QED BY <1>1, <2>1 DEF BybitInv, ReadThrough
<1>3. /\ feed' = feed /\ syncedTo' = syncedTo /\ atFetch' = atFetch
  BY DEF GetPage
<1>4. /\ feed \in Seq(Kinds) /\ atFetch \in Seq(Kinds) /\ syncedTo \in 0 .. MaxRecords
      /\ cursor \in 0 .. MaxRecords /\ first \in BOOLEAN /\ results \in Seq(1 .. MaxRecords)
      /\ Len(feed) <= MaxRecords /\ MaxRecords \in Nat /\ PageSize \in Nat \ {0}
      /\ symbols \subseteq Coins
  BY BybitAssumption DEF BybitInv, FeedTypes, BybitTypeOK
<1>5. PICK o \in Nat : o = Len(feed) /\ DOMAIN feed = 1 .. o /\ o <= MaxRecords
  BY <1>4
<1>6. PICK b \in 0 .. MaxRecords : /\ b = IF first THEN 0 ELSE cursor
                                   /\ b = 0 <=> first
  BY <1>4 DEF BybitInv
<1>7. PICK rest : rest = {t \in Listed(feed, l) : b = 0 \/ t < b}
  OBVIOUS
<1>8. \A t \in rest : t \in 1 .. o
  BY <1>5, <1>7 DEF Listed
<1>9. PICK page : page = PageAt(l, b)
  OBVIOUS
<1>10. /\ page \in Seq(rest)
       /\ \A j \in DOMAIN page : \A i \in 1 .. j - 1 : page[j] < page[i]
       /\ \A t \in rest : (\E k \in DOMAIN page : page[k] = t) \/ (\A k \in DOMAIN page : t < page[k])
       /\ rest # {} => page # <<>>
  <2>1. page = Newest(rest, PageSize)
    BY <1>7, <1>9 DEF PageAt, Newest
  <2> QED BY <1>4, <1>8, <2>1, NewestAre
<1>11. PICK p \in Nat : p = Len(page) /\ DOMAIN page = 1 .. p
  BY <1>10
<1>12. PICK n \in 0 .. p : /\ Valid(l, page) = SubSeq(page, 1, n)
                           /\ \A k \in 1 .. n : IsValid(l, page[k])
                           /\ n < p => ~IsValid(l, page[n + 1])
  BY <1>10, <1>11, ValidIs
<1>13. PICK valid : valid = Valid(l, page)
  OBVIOUS
<1>14. /\ valid \in Seq(rest) /\ Len(valid) = n /\ DOMAIN valid = 1 .. n
       /\ \A k \in 1 .. n : valid[k] = page[k] /\ page[k] \in rest
       /\ valid = page <=> n = p
  <2>1. /\ valid = SubSeq(page, 1, n) /\ Len(valid) = n /\ DOMAIN valid = 1 .. n
        /\ \A k \in 1 .. n : valid[k] = page[k] /\ page[k] \in rest
    BY <1>10, <1>11, <1>12, <1>13
  <2>2. valid \in Seq(rest)
    BY <2>1
  <2>3. n = p => valid = page
    BY <1>10, <1>11, <2>1
  <2> QED BY <1>11, <2>1, <2>2, <2>3
<1>15. PICK on \in BOOLEAN : on <=> valid = page /\ More(l, page)
  OBVIOUS
<1>16. /\ results' = results \o valid /\ first' = ~on
       /\ on => cursor' = Last(page) /\ reading' = reading /\ symbols' = symbols
       /\ ~on => cursor' = KeptCursor(b) /\ NextList
  <2>1. l = reading /\ b = (IF first THEN 0 ELSE cursor)
    BY <1>1, <1>6
  <2> QED BY <2>1, <1>9, <1>13, <1>15 DEF GetPage
<1>17. PICK r \in Nat : r = Len(results) /\ DOMAIN results = 1 .. r
  BY <1>4
<1>18. /\ results' \in Seq(1 .. MaxRecords) /\ DOMAIN results' = 1 .. r + n
       /\ \A i \in 1 .. r : results'[i] = results[i]
       /\ \A k \in 1 .. n : results'[r + k] = page[k]
  <2>1. valid \in Seq(1 .. MaxRecords)
    <3>1. \A k \in 1 .. n : valid[k] \in 1 .. MaxRecords
      <4>1. \A t \in 1 .. o : t \in 1 .. MaxRecords
        BY <1>4, <1>5
      <4> QED BY <1>8, <1>14, <4>1
    <3>2. n \in Nat
      BY <1>12
    <3>3. PICK q : q = [k \in 1 .. n |-> page[k]]
      OBVIOUS
    <3>4. q \in Seq(1 .. MaxRecords)
      <4>1. \A k \in 1 .. n : page[k] \in 1 .. MaxRecords
        BY <1>14, <3>1
      <4> QED BY <3>2, <3>3, <4>1
    <3>5. valid = q
      BY <1>14, <3>2, <3>3
    <3> QED BY <3>4, <3>5
  <2> QED BY <1>4, <1>14, <1>16, <1>17, <2>1
<1>19. \A j \in 1 .. r + n : j \in 1 .. r \/ \E k \in 1 .. n : j = r + k
  <2> SUFFICES ASSUME NEW j \in 1 .. r + n, j \notin 1 .. r PROVE \E k \in 1 .. n : j = r + k
    OBVIOUS
  <2>1. j - r \in 1 .. n /\ j = r + (j - r)
    BY <1>12
  <2> QED BY <2>1
<1>20. \A t : t \in ToSet(results') <=> t \in ToSet(results) \/ \E k \in 1 .. n : t = page[k]
  <2>1. \A t \in ToSet(results) : t \in ToSet(results')
    <3>1. \A i \in 1 .. r : i \in 1 .. r + n
      BY <1>12
    <3> QED BY <1>17, <1>18, <3>1 DEF ToSet
  <2>2. ASSUME NEW k \in 1 .. n PROVE page[k] \in ToSet(results')
    <3>1. r + k \in 1 .. r + n
      BY <1>12
    <3> QED BY <1>18, <3>1 DEF ToSet
  <2>3. ASSUME NEW t \in ToSet(results') PROVE t \in ToSet(results) \/ \E k \in 1 .. n : t = page[k]
    <3>1. PICK j \in 1 .. r + n : t = results'[j]
      BY <1>18 DEF ToSet
    <3>2. j \in 1 .. r => t \in ToSet(results)
      BY <1>17, <1>18, <3>1 DEF ToSet
    <3> QED BY <1>18, <1>19, <3>1, <3>2
  <2> QED BY <2>1, <2>2, <2>3
\* Nothing on the page was read before.
<1>21. ASSUME NEW t \in rest, NEW i \in 1 .. r PROVE results[i] # t
  <2> SUFFICES ASSUME results[i] = t PROVE FALSE
    OBVIOUS
  <2>1. PICK m \in FetchLists : t \in Listed(feed, m) /\ ReadDownTo(m, t)
    BY <1>2, <1>17 DEF FetchInv, ResultsRead
  <2>2. t \in Listed(feed, l)
    BY <1>7
  <2>3. m = l
    BY <1>1, <2>1, <2>2, OneList
  <2>4. ~first /\ t >= cursor
    BY <1>1, <1>2, <2>1, <2>3 DEF ReadDownTo
  <2>5. b = cursor /\ b # 0 /\ t < b
    BY <1>6, <1>7, <2>4
  <2> QED BY <1>4, <1>8, <2>4, <2>5
<1>22. ResultsOnce'
  <2>1. ASSUME NEW i \in 1 .. r + n, NEW j \in 1 .. r + n, i < j PROVE results'[i] # results'[j]
    <3>1. CASE j \in 1 .. r
      <4>1. i \in 1 .. r
        BY <2>1, <3>1
      <4> QED BY <1>2, <1>17, <1>18, <2>1, <3>1, <4>1 DEF FetchInv, ResultsOnce
    <3>2. CASE i \in 1 .. r /\ j \notin 1 .. r
      <4>1. PICK k \in 1 .. n : j = r + k
        BY <1>19, <3>2
      <4>2. results'[j] \in rest
        BY <1>14, <1>18, <4>1
      <4> QED BY <1>18, <1>21, <3>2, <4>2
    <3>3. CASE i \notin 1 .. r
      <4>1. PICK k \in 1 .. n : i = r + k
        BY <1>19, <3>3
      <4>2. PICK h \in 1 .. n : j = r + h
        BY <1>19, <2>1, <3>3
      <4>3. k \in 1 .. h - 1 /\ h \in DOMAIN page
        BY <1>11, <1>12, <2>1, <4>1, <4>2
      <4>4. page[h] < page[k] /\ page[h] \in 1 .. o /\ page[k] \in 1 .. o
        BY <1>8, <1>10, <1>14, <4>3
      <4> QED BY <1>18, <4>1, <4>2, <4>4
    <3> QED BY <3>1, <3>2, <3>3
  <2>2. \A i \in 1 .. r + n, j \in 1 .. r + n : i # j => i < j \/ j < i
    OBVIOUS
  <2>3. \A i, j \in 1 .. r + n : i # j => results'[i] # results'[j]
    BY <2>1, <2>2
  <2> QED BY <1>18, <2>3 DEF ResultsOnce
\* What is new of the list is in the result now, or further down.
<1>23. ASSUME NEW t \in rest, t > syncedTo, \A k \in 1 .. n : page[k] # t
       PROVE  on /\ t < Last(page)
  <2>1. t \in 1 .. o /\ \A k \in 1 .. p : page[k] \in 1 .. o
    BY <1>8, <1>10, <1>11
  <2>2. ASSUME n < p PROVE FALSE
    <3>1. n + 1 \in 1 .. p /\ ~IsValid(l, page[n + 1])
      BY <1>12, <2>2
    <3>2. page[n + 1] <= syncedTo
      BY <1>4, <2>1, <3>1 DEF IsValid
    <3>3. page[n + 1] < t
      BY <1>4, <1>23, <2>1, <3>1, <3>2
    <3>4. ~(\A k \in 1 .. p : t < page[k])
      BY <2>1, <3>1, <3>3
    <3>5. PICK k \in 1 .. p : page[k] = t
      BY <1>10, <1>11, <3>4
    <3>6. n + 1 \in 1 .. k - 1
      BY <1>12, <1>23, <2>1, <3>1, <3>3, <3>5
    <3>7. page[k] < page[n + 1]
      BY <1>10, <1>11, <3>6
    <3> QED BY <2>1, <3>1, <3>3, <3>5, <3>7
  <2>3. n = p /\ valid = page
    BY <1>12, <1>14, <2>2
  <2>4. page # <<>> /\ p \in 1 .. p /\ Last(page) = page[p]
    <3>1. page # <<>>
      BY <1>10
    <3> QED BY <1>10, <1>11, <3>1 DEF Last
  <2>5. t < Last(page)
    BY <1>10, <1>11, <1>23, <2>3, <2>4
  <2>6. t \in Listed(feed, l)
    BY <1>7
  <2> QED BY <1>15, <2>3, <2>4, <2>5, <2>6 DEF More
<1>24. /\ CoinsRead \subseteq Coins /\ CoinsRead' \subseteq Coins
       /\ l[1] # "orders" => CoinsRead' = CoinsRead
  <2>1. \A u \in DOMAIN feed : feed[u][1] = "orders" => feed[u][2] \in Coins
    BY <1>4 DEF Kinds, Transfers
  <2>2. \A u \in ToSet(results) : u \in DOMAIN feed
    BY <1>2 DEF FetchInv, ResultsRead, ToSet
  <2>3. \A k \in 1 .. n : page[k] \in DOMAIN feed /\ feed[page[k]][1] = l[1]
    BY <1>7, <1>14 DEF Listed
  <2>4. \A u \in ToSet(results') : u \in DOMAIN feed
    BY <1>20, <2>2, <2>3
  <2>5. CoinsRead \subseteq Coins
    BY <2>1, <2>2 DEF CoinsRead, OrderedCoins
  <2>6. CoinsRead' \subseteq Coins
    BY <1>3, <2>1, <2>4 DEF CoinsRead, OrderedCoins
  <2>7. ASSUME l[1] # "orders" PROVE CoinsRead' = CoinsRead
    <3>1. {u \in ToSet(results') : feed[u][1] = "orders"} = {u \in ToSet(results) : feed[u][1] = "orders"}
      BY <1>20, <2>3, <2>7
    <3> QED BY <1>3, <3>1 DEF CoinsRead, OrderedCoins
  <2> QED BY <2>5, <2>6, <2>7
<1>25. StillListed'
  BY <1>2, <1>3 DEF FetchInv, StillListed
<1>26. \A m : Listed(feed, m)' = Listed(feed, m) /\ Listed(atFetch, m)' = Listed(atFetch, m)
  BY <1>3 DEF Listed
\* What was listed of l when the fetch began is listed now.
<1>27. \A t \in Listed(atFetch, l) : t \in Listed(feed, l)
  <2> SUFFICES ASSUME NEW t \in Listed(atFetch, l) PROVE t \in Listed(feed, l)
    OBVIOUS
  <2>1. t \in DOMAIN atFetch /\ atFetch[t][1] = l[1] /\ l[1] # "open"
    BY <1>1, StageOf DEF Listed
  <2>2. feed[t] = atFetch[t] /\ Len(atFetch) <= Len(feed)
    BY <1>2, <2>1 DEF FetchInv, StillListed
  <2>3. t \in DOMAIN feed
    BY <1>4, <2>1, <2>2
  <2> QED BY <2>1, <2>2, <2>3 DEF Listed
<1>28. \A i \in 1 .. r : /\ results[i] \in 1 .. o /\ results[i] >= syncedTo
                        /\ \E m \in FetchLists : results[i] \in Listed(feed, m) /\ ReadDownTo(m, results[i])
  BY <1>2, <1>5, <1>17 DEF FetchInv, ResultsRead
<1>29. ASSUME NEW k \in 1 .. n
       PROVE  page[k] \in 1 .. o /\ page[k] >= syncedTo /\ page[k] \in Listed(feed, l)
  <2>1. page[k] \in Listed(feed, l) /\ page[k] \in 1 .. o /\ IsValid(l, page[k])
    BY <1>7, <1>8, <1>12, <1>14
  <2>2. l[1] \in Transfers \/ l[1] \in {"orders", "funding"}
    BY <1>1 DEF FetchLists, OrderEntries
  <2> QED BY <1>4, <2>1, <2>2 DEF Listed, IsValid
\* The invariants of what was read follow from what became of each list.
<1>30. ASSUME \A m \in FetchLists : \A t \in 1 .. o : ReadDownTo(m, t) => ReadDownTo(m, t)',
              \A k \in 1 .. n : ReadDownTo(l, page[k])'
       PROVE  ResultsRead'
  <2>1. ASSUME NEW j \in 1 .. r + n, NEW x, x = results'[j]
        PROVE  /\ x \in 1 .. o /\ x >= syncedTo
               /\ \E m \in FetchLists : x \in Listed(feed, m) /\ ReadDownTo(m, x)'
    <3>1. CASE j \in 1 .. r
      <4>1. x = results[j]
        BY <1>18, <2>1, <3>1
      <4>2. x \in 1 .. o /\ x >= syncedTo
        BY <1>28, <3>1, <4>1
      <4>3. PICK m \in FetchLists : x \in Listed(feed, m) /\ ReadDownTo(m, x)
        BY <1>28, <3>1, <4>1
      <4> QED BY <1>30, <4>2, <4>3
    <3>2. CASE j \notin 1 .. r
      <4>1. PICK k \in 1 .. n : j = r + k
        BY <1>19, <3>2
      <4>2. x = page[k]
        BY <1>18, <2>1, <4>1
      <4> QED BY <1>1, <1>29, <1>30, <4>2
    <3> QED BY <3>1, <3>2
  <2> QED BY <1>3, <1>5, <1>18, <1>26, <2>1 DEF ResultsRead
<1>31. ASSUME \A m \in FetchLists : \A t \in Listed(atFetch, m) :
                 ReadDownTo(m, t)' /\ t > syncedTo => ReadDownTo(m, t) \/ t \in ToSet(results')
       PROVE  NewRead'
  <2> SUFFICES ASSUME NEW m \in FetchLists, NEW t \in Listed(atFetch, m),
                      m[1] # "internal", t > syncedTo, ReadDownTo(m, t)'
               PROVE  t \in ToSet(results')
    BY <1>3, <1>26 DEF NewRead
  <2>1. ReadDownTo(m, t) \/ t \in ToSet(results')
    BY <1>31
  <2>2. ReadDownTo(m, t) => t \in ToSet(results)
    BY <1>2 DEF FetchInv, NewRead
  <2> QED BY <1>20, <2>1, <2>2
\* The list goes on.
<1>32. CASE on
  <2>1. valid = page /\ n = p /\ page # <<>> /\ p # 0
    BY <1>10, <1>11, <1>14, <1>15, <1>32 DEF More
  <2>2. PICK c \in 1 .. o : /\ c = Last(page) /\ c = page[p] /\ c \in rest
                            /\ \A k \in 1 .. n : page[k] >= c
    <3>1. p \in 1 .. p /\ Last(page) = page[p] /\ page[p] \in rest /\ page[p] \in 1 .. o
      BY <1>8, <1>10, <1>11, <2>1 DEF Last
    <3>2. ASSUME NEW k \in 1 .. n PROVE page[k] >= page[p]
      <4>1. k # p => page[p] < page[k]
        BY <1>10, <1>11, <2>1, <3>1
      <4>2. page[k] \in 1 .. o
        BY <1>29
      <4> QED BY <3>1, <4>1, <4>2
    <3> QED BY <3>1, <3>2
  <2>3. /\ first' = FALSE /\ cursor' = c /\ reading' = l /\ symbols' = symbols
    BY <1>1, <1>16, <1>32, <2>2
  <2>4. \A m \in FetchLists : ReadThrough(m)' <=> ReadThrough(m)
    <3> SUFFICES ASSUME NEW m \in FetchLists PROVE ReadThrough(m)' <=> ReadThrough(m)
      OBVIOUS
    <3>1. CASE l[1] # "orders"
      BY <1>1, <1>24, <2>3, <3>1 DEF ReadThrough
    <3>2. CASE l[1] = "orders"
      <4>1. Stage(l) = 4
        BY <3>2 DEF Stage
      <4> QED BY <1>1, <2>3, <4>1 DEF ReadThrough
    <3> QED BY <3>1, <3>2
  <2>5. \A m \in FetchLists : \A t \in 1 .. o :
           ReadDownTo(m, t)' <=> ReadThrough(m) \/ (m = l /\ t >= c)
    BY <2>3, <2>4 DEF ReadDownTo
  <2>6. \A m \in FetchLists : \A t \in 1 .. o : ReadDownTo(m, t) => ReadDownTo(m, t)'
    <3> SUFFICES ASSUME NEW m \in FetchLists, NEW t \in 1 .. o, ReadDownTo(m, t)
                 PROVE  ReadDownTo(m, t)'
      OBVIOUS
    <3>1. ReadThrough(m) \/ (m = l /\ ~first /\ t >= cursor)
      BY <1>1 DEF ReadDownTo
    <3>2. ~first => c < cursor
      BY <1>6, <1>7, <2>2
    <3> QED BY <1>4, <2>5, <3>1, <3>2
  <2>7. \A k \in 1 .. n : ReadDownTo(l, page[k])'
    BY <1>1, <1>29, <2>2, <2>5
  <2>8. \A m \in FetchLists : \A t \in Listed(atFetch, m) :
           ReadDownTo(m, t)' /\ t > syncedTo => ReadDownTo(m, t) \/ t \in ToSet(results')
    <3> SUFFICES ASSUME NEW m \in FetchLists, NEW t \in Listed(atFetch, m),
                        ReadDownTo(m, t)', t > syncedTo, ~ReadDownTo(m, t)
                 PROVE  t \in ToSet(results')
      OBVIOUS
    <3>1. t \in 1 .. o
      <4>1. t \in DOMAIN atFetch /\ Len(atFetch) <= o
        BY <1>2, <1>5 DEF Listed, FetchInv, StillListed
      <4> QED BY <1>4, <4>1
    <3>2. m = l /\ t >= c
      BY <2>5, <3>1 DEF ReadDownTo
    <3>3. first \/ t < cursor
      BY <1>1, <1>4, <3>1, <3>2 DEF ReadDownTo
    <3>4. t \in rest
      BY <1>6, <1>7, <1>27, <3>2, <3>3
    <3>5. ~(t < c)
      BY <3>1, <3>2
    <3> QED BY <1>20, <1>23, <2>2, <3>4, <3>5
  <2>9. ResultsRead' /\ NewRead'
    BY <1>30, <1>31, <2>6, <2>7, <2>8
  <2>10. CoinsLeft'
    <3>1. Stage(l) = 5 => l[1] # "orders"
      BY DEF Stage
    <3>2. CoinsLeft
      BY <1>2 DEF FetchInv
    <3> QED BY <1>1, <1>24, <2>3, <3>1, <3>2 DEF CoinsLeft
  <2>11. FeedTypes'
    <3>1. cursor' \in 0 .. MaxRecords /\ first' \in BOOLEAN /\ reading' = reading
      <4>1. \A t \in 1 .. o : t \in 0 .. MaxRecords
        BY <1>4, <1>5
      <4> QED BY <1>1, <2>2, <2>3, <4>1
    <3> QED BY <1>3, <1>18, <2>3, <3>1 DEF BybitInv, FeedTypes, BybitTypeOK
  <2> QED BY <1>1, <1>22, <1>25, <2>2, <2>3, <2>9, <2>10, <2>11 DEF BybitInv, FetchInv
\* The list was read through.
<1>33. CASE ~on
  <2>1. first' = TRUE /\ NextList /\ cursor' = KeptCursor(b)
    BY <1>16, <1>33
  <2>2. /\ reading' \in FetchLists \cup {Done} /\ symbols' \subseteq Coins
        /\ CoinsLeft'
        /\ \A m \in FetchLists : ReadThrough(m)' <=> ReadThrough(m) \/ m = l
    BY <1>1, <1>2, <1>3, <1>24, <2>1, NextRead DEF FetchInv
  <2>3. \A m \in FetchLists : \A t \in 1 .. o :
           ReadDownTo(m, t)' <=> ReadThrough(m) \/ m = l
    BY <2>1, <2>2 DEF ReadDownTo
  <2>4. \A m \in FetchLists : \A t \in 1 .. o : ReadDownTo(m, t) => ReadDownTo(m, t)'
    BY <1>1, <2>3 DEF ReadDownTo
  <2>5. \A k \in 1 .. n : ReadDownTo(l, page[k])'
    BY <1>1, <1>29, <2>3
  <2>6. \A m \in FetchLists : \A t \in Listed(atFetch, m) :
           ReadDownTo(m, t)' /\ t > syncedTo => ReadDownTo(m, t) \/ t \in ToSet(results')
    <3> SUFFICES ASSUME NEW m \in FetchLists, NEW t \in Listed(atFetch, m),
                        ReadDownTo(m, t)', t > syncedTo, ~ReadDownTo(m, t)
                 PROVE  t \in ToSet(results')
      OBVIOUS
    <3>1. t \in 1 .. o
      <4>1. t \in DOMAIN atFetch /\ Len(atFetch) <= o
        BY <1>2, <1>5 DEF Listed, FetchInv, StillListed
      <4> QED BY <1>4, <4>1
    <3>2. m = l
      BY <2>3, <3>1 DEF ReadDownTo
    <3>3. first \/ t < cursor
      BY <1>1, <1>4, <3>1, <3>2 DEF ReadDownTo
    <3>4. t \in rest
      BY <1>6, <1>7, <1>27, <3>2, <3>3
    <3> QED BY <1>20, <1>23, <1>33, <3>4
  <2>7. ResultsRead' /\ NewRead'
    BY <1>30, <1>31, <2>4, <2>5, <2>6
  <2>8. FeedTypes'
    <3>1. cursor' \in 0 .. MaxRecords
      BY <1>4, <2>1 DEF KeptCursor
    <3>2. reading' \in {NoList, Done, OrderEntries} \cup (Transfers \X {"all"}) \cup ({"funding"} \X Coins)
      BY <2>2 DEF FetchLists
    <3> QED BY <1>3, <1>18, <2>1, <2>2, <3>1, <3>2 DEF BybitInv, FeedTypes, BybitTypeOK
  <2> QED BY <1>22, <1>25, <2>1, <2>2, <2>7, <2>8 DEF BybitInv, FetchInv
<1> QED BY <1>32, <1>33

LEMMA BybitStep == BybitInv /\ [BybitNext]_bybitVars => BybitInv'
<1>1. BybitInv /\ UNCHANGED bybitVars => BybitInv'
  <2> SUFFICES ASSUME BybitInv, UNCHANGED bybitVars PROVE BybitInv'
    OBVIOUS
  <2>1. UNCHANGED fetch /\ feed' = feed
    BY DEF bybitVars
  <2>2. feed \in Seq(Kinds) /\ Len(feed) <= MaxRecords
    BY DEF BybitInv, FeedTypes, BybitTypeOK
  <2>3. Len(feed) <= Len(feed)
    BY <2>2
  <2> QED BY <2>1, <2>2, <2>3, FeedMoves
<1> QED BY <1>1, HappensStep, BeginsStep, GetPageStep, RaisesStep DEF BybitNext

LEMMA Complete == BybitInv => FetchIsComplete
<1> SUFFICES ASSUME BybitInv, reading = Done PROVE FetchIsComplete
  BY DEF FetchIsComplete
<1>1. FetchInv /\ Stage(reading) = 6 /\ symbols = {}
  <2>1. reading # NoList
    BY DEF Done, NoList
  <2> QED BY <2>1, StageOf DEF BybitInv, FetchInv, CoinsLeft
<1>2. results \in Seq(1 .. MaxRecords) /\ MaxRecords \in Nat
  BY BybitAssumption DEF BybitInv, FeedTypes, BybitTypeOK
<1>3. PICK got : got = ToSet(GetExecutions)
  OBVIOUS
<1>4. got = ToSet(results) /\ \A i \in 2 .. Len(results) : GetExecutions[i - 1] < GetExecutions[i]
  BY <1>1, <1>2, <1>3, SortedAre DEF FetchInv, ResultsOnce, GetExecutions
<1>5. \A t \in got : t >= syncedTo
  BY <1>1, <1>4 DEF FetchInv, ResultsRead, ToSet
<1>6. OrderedCoins(got) = CoinsRead /\ OrderedCoins(got) \subseteq Coins
  <2>1. OrderedCoins(got) = CoinsRead
    BY <1>4 DEF CoinsRead
  <2>2. feed \in Seq(Kinds)
    BY DEF BybitInv, FeedTypes, BybitTypeOK
  <2>3. \A u \in DOMAIN feed : feed[u][1] = "orders" => feed[u][2] \in Coins
    BY <2>2 DEF Kinds, Transfers
  <2>4. \A u \in got : u \in DOMAIN feed
    BY <1>1, <1>4 DEF FetchInv, ResultsRead, ToSet
  <2> QED BY <2>1, <2>3, <2>4 DEF OrderedCoins
<1>7. ASSUME NEW t \in DOMAIN atFetch, t > syncedTo, atFetch[t][1] \in {"out", "in", "orders"}
      PROVE  t \in got
  <2>1. PICK l : l = <<atFetch[t][1], "all">>
    OBVIOUS
  <2>2. l \in FetchLists /\ l[1] = atFetch[t][1]
    BY <1>7, <2>1 DEF FetchLists, OrderEntries, Transfers
  <2>3. t \in Listed(atFetch, l)
    <3>1. t \in Int /\ syncedTo \in Int /\ t >= syncedTo
      BY <1>7 DEF BybitInv, FeedTypes, BybitTypeOK
    <3> QED BY <1>7, <2>2, <3>1 DEF Listed
  <2>4. l[1] # "funding" /\ l[1] # "internal"
    BY <1>7, <2>2
  <2>5. ReadDownTo(l, t)
    BY <1>1, <2>2, <2>4, StageOf DEF ReadDownTo, ReadThrough
  <2> QED BY <1>1, <1>4, <1>7, <2>2, <2>3, <2>4, <2>5 DEF FetchInv, NewRead
<1>8. ASSUME NEW t \in DOMAIN atFetch, t > syncedTo, atFetch[t][1] = "funding",
             atFetch[t][2] \in OrderedCoins(got)
      PROVE  t \in got
  <2>1. PICK l : l = <<"funding", atFetch[t][2]>>
    OBVIOUS
  <2>2. l \in FetchLists /\ l[1] = "funding" /\ l[2] = atFetch[t][2]
    BY <1>6, <1>8, <2>1 DEF FetchLists
  <2>3. t \in Listed(atFetch, l)
    BY <1>8, <2>2 DEF Listed, Transfers
  <2>4. ReadDownTo(l, t)
    BY <1>1, <1>6, <1>8, <2>2, StageOf DEF ReadDownTo, ReadThrough
  <2> QED BY <1>1, <1>4, <1>8, <2>2, <2>3, <2>4 DEF FetchInv, NewRead
<1> QED BY <1>3, <1>4, <1>5, <1>7, <1>8 DEF FetchIsComplete

\* However the exchange adds and fills orders between the pages of however many
\* lists, a fetch that ends has each new record once.
THEOREM HistoryIsWhole == BybitSpec => []FetchIsComplete
<1>1. BybitInv /\ [BybitNext]_bybitVars => BybitInv'
  BY BybitStep
<1>2. BybitSpec => []BybitInv
  BY <1>1, BybitStarts, PTL DEF BybitSpec
<1>3. BybitInv => FetchIsComplete
  BY Complete
<1> QED BY <1>2, <1>3, PTL

-----------------------------------------------------------------------------
(***************************************************************************)
(* The history of Binance.  The first trades of a symbol, oldest first.    *)
(***************************************************************************)
Oldest(S, n) == [k \in 1 .. Min({n, Cardinality(S)}) |-> CHOOSE t \in S : Cardinality({u \in S : u <= t}) = k]

\* What is and what is not among the oldest n.
LEMMA OldestAre ==
  ASSUME NEW m \in Nat, NEW S, \A u \in S : u \in 1 .. m, NEW n \in Nat,
         NEW p, p = Oldest(S, n), NEW got, got = {p[k] : k \in DOMAIN p}
  PROVE  /\ p \in Seq(S)
         /\ \A j \in DOMAIN p : \A i \in 1 .. j - 1 : p[i] < p[j]
         /\ \A t \in S : \/ t \in got
                         \/ (\A k \in DOMAIN p : p[k] < t) /\ Cardinality(got) >= n
<1>1. Cardinality(S) \in Nat /\ \A t : Cardinality(NotNewer(S, t)) \in 0 .. Cardinality(S)
  BY NotNewerFinite
<1>2. PICK c \in Nat : c = Cardinality(S)
  BY <1>1
<1>3. PICK l \in Nat : l = Min({n, c}) /\ l \in {n, c} /\ l <= n /\ l <= c
  BY <1>2, MinOfTwo
<1>5. p = [k \in 1 .. l |-> CHOOSE t \in S : Cardinality(NotNewer(S, t)) = k]
  BY <1>2, <1>3 DEF Oldest, NotNewer
<1>6. \A k \in 1 .. l : p[k] \in S /\ Cardinality(NotNewer(S, p[k])) = k
  <2> SUFFICES ASSUME NEW k \in 1 .. l PROVE p[k] \in S /\ Cardinality(NotNewer(S, p[k])) = k
    OBVIOUS
  <2>1. \E t \in S : Cardinality(NotNewer(S, t)) = k
    BY <1>2, <1>3, KthOldest
  <2>2. p[k] = CHOOSE t \in S : Cardinality(NotNewer(S, t)) = k
    BY <1>5
  <2> QED BY <2>1, <2>2
<1>7. DOMAIN p = 1 .. l /\ p \in Seq(S)
  BY <1>5, <1>6
<1>8. \A t \in S, v \in S : /\ t \in Int /\ v \in Int
                            /\ t < v => Cardinality(NotNewer(S, t)) < Cardinality(NotNewer(S, v))
  BY NewerHasMore
<1>9. ASSUME NEW j \in 1 .. l, NEW i \in 1 .. j - 1 PROVE p[i] < p[j]
  <2>1. /\ p[i] \in S /\ Cardinality(NotNewer(S, p[i])) = i
        /\ p[j] \in S /\ Cardinality(NotNewer(S, p[j])) = j
    BY <1>6
  <2> QED BY <1>8, <2>1
<1>10. Cardinality(got) = l
  <2>1. got = {p[k] : k \in 1 .. l}
    BY <1>7
  <2>2. p \in Surjection(1 .. l, got)
    BY <1>5, <1>7, <2>1 DEF Surjection
  <2>3. p \in Injection(1 .. l, got)
    <3>1. \A i \in 1 .. l, j \in 1 .. l : p[i] = p[j] => i = j
      BY <1>6
    <3> QED BY <2>2, <3>1 DEF Surjection, Injection, IsInjective
  <2>4. p \in Bijection(1 .. l, got)
    BY <2>2, <2>3 DEF Bijection
  <2>5. IsFiniteSet(1 .. l) /\ Cardinality(1 .. l) = l
    BY FS_Interval
  <2>6. ExistsBijection(1 .. l, got)
    BY <2>4 DEF ExistsBijection
  <2> QED BY <2>5, <2>6, FS_Bijection
<1>11. ASSUME NEW t \in S, t \notin got
       PROVE  (\A k \in 1 .. l : p[k] < t) /\ Cardinality(got) >= n
  <2>1. PICK d \in Nat : d = Cardinality(NotNewer(S, t)) /\ d <= c
    BY <1>1, <1>2
  <2>2. d # 0
    <3>1. t \in NotNewer(S, t)
      BY <1>8 DEF NotNewer
    <3> QED BY <2>1, <3>1, NotNewerFinite, FS_EmptySet
  <2>3. d \notin 1 .. l
    <3> SUFFICES ASSUME d \in 1 .. l PROVE FALSE
      OBVIOUS
    <3>1. p[d] \in S /\ Cardinality(NotNewer(S, p[d])) = d /\ p[d] # t
      BY <1>6, <1>7, <1>11
    <3> QED BY <1>8, <2>1, <3>1
  <2>4. l < d
    BY <2>2, <2>3
  <2>5. l = n
    BY <1>3, <2>1, <2>4
  <2>6. ASSUME NEW k \in 1 .. l PROVE p[k] < t
    <3>1. p[k] \in S /\ Cardinality(NotNewer(S, p[k])) = k
      BY <1>6
    <3>2. p[k] # t
      BY <2>1, <2>4, <3>1
    <3>3. SUFFICES ASSUME t < p[k] PROVE FALSE
      BY <1>8, <3>1, <3>2
    <3>4. d < k
      BY <1>8, <2>1, <3>1, <3>3
    <3> QED BY <2>4, <3>4
  <2> QED BY <1>10, <2>5, <2>6
<1> QED BY <1>7, <1>9, <1>11

-----------------------------------------------------------------------------
(* What is left to read.                                                   *)

IncomeKinds == {"COMMISSION", "REALIZED_PNL", "INSURANCE_CLEAR"}
IncomesType == [type : IncomeKinds, symbol : Pairs, id : 1 .. Len(happened)]

Listing(time, end) == [k \in 1 .. end - time |-> IncomesOf(time + k)]

\* What has happened, and how long the model lets it go on.
Happenings == happened \in Seq(Events) /\ Len(happened) <= MaxTrades /\ MaxTrades \in Nat

LEMMA EventIs ==
  ASSUME Happenings, NEW id \in 1 .. Len(happened)
  PROVE  /\ happened[id][1] \in {"open", "close", "clear"} /\ happened[id][2] \in Pairs
         /\ id \in 1 .. MaxTrades
<1>1. happened[id] \in Events
  BY DEF Happenings
<1>2. PICK k \in {"open", "close", "clear"}, s \in Pairs : happened[id] = <<k, s>>
  BY <1>1 DEF Events
<1> QED BY <1>2 DEF Happenings

LEMMA IncomesTypes ==
  ASSUME Happenings
  PROVE  \A id \in 1 .. Len(happened) : IncomesOf(id) \in Seq(IncomesType)
<1> SUFFICES ASSUME NEW id \in 1 .. Len(happened) PROVE IncomesOf(id) \in Seq(IncomesType)
  OBVIOUS
<1>1. /\ happened[id][1] \in {"open", "close", "clear"} /\ happened[id][2] \in Pairs
      /\ id \in 1 .. MaxTrades
  BY EventIs
<1>2. \A k \in IncomeKinds : Income(k, id) \in IncomesType
  BY <1>1 DEF Income, IncomesType
<1> DEFINE c == Income("COMMISSION", id)
           r == Income("REALIZED_PNL", id)
           i == Income("INSURANCE_CLEAR", id)
<1>3. c \in IncomesType /\ r \in IncomesType /\ i \in IncomesType
  BY <1>2 DEF IncomeKinds
<1>4. IncomesOf(id) \in {<<c>>, <<c, r>>, <<i>>}
  BY <1>1 DEF IncomesOf
<1>5. ASSUME NEW T, NEW x \in T, NEW y \in T PROVE <<x>> \in Seq(T) /\ <<x, y>> \in Seq(T)
  OBVIOUS
<1> HIDE DEF c, r, i
<1>6. <<c>> \in Seq(IncomesType) /\ <<c, r>> \in Seq(IncomesType) /\ <<i>> \in Seq(IncomesType)
  BY <1>3, <1>5
<1> QED BY <1>4, <1>6

LEMMA ListingTypes ==
  ASSUME Happenings, NEW a \in Nat, a <= Len(happened), NEW m \in 0 .. a
  PROVE  /\ Listing(m, a) \in Seq(Seq(IncomesType)) /\ Len(Listing(m, a)) = a - m
         /\ IncomesBetween(m, a) \in Seq(IncomesType)
<1>1. Len(happened) \in Nat
  BY DEF Happenings
<1>2. \A k \in 1 .. a - m : IncomesOf(m + k) \in Seq(IncomesType)
  <2>1. \A k \in 1 .. a - m : m + k \in 1 .. Len(happened)
    BY <1>1
  <2> QED BY <2>1, IncomesTypes
<1>3. PICK T : T = Seq(IncomesType)
  OBVIOUS
<1>4. \A k \in 1 .. a - m : IncomesOf(m + k) \in T
  BY <1>2, <1>3
<1>5. a - m \in Nat
  OBVIOUS
<1>6. Listing(m, a) \in Seq(T) /\ Len(Listing(m, a)) = a - m
  BY <1>4, <1>5 DEF Listing
<1>7. Listing(m, a) \in Seq(Seq(IncomesType))
  BY <1>3, <1>6
<1>8. IncomesBetween(m, a) = FlattenSeq(Listing(m, a))
  BY DEF IncomesBetween, Listing
<1> QED BY <1>6, <1>7, <1>8, FlattenSeqType

\* What comes next.
LEMMA IncomesNext ==
  ASSUME Happenings, NEW a \in Nat, a <= Len(happened), NEW m \in 0 .. a
  PROVE  /\ m = a => IncomesBetween(m, a) = <<>>
         /\ m # a => IncomesBetween(m, a) = IncomesOf(m + 1) \o IncomesBetween(m + 1, a)
<1>1. /\ Listing(m, a) \in Seq(Seq(IncomesType)) /\ Len(Listing(m, a)) = a - m
      /\ IncomesBetween(m, a) = FlattenSeq(Listing(m, a))
  BY ListingTypes DEF IncomesBetween, Listing
<1>2. ASSUME m = a PROVE IncomesBetween(m, a) = <<>>
  <2>1. Listing(m, a) = <<>>
    BY <1>1, <1>2, EmptySeq
  <2> QED BY <1>1, <2>1 DEF FlattenSeq
<1>3. ASSUME m # a PROVE IncomesBetween(m, a) = IncomesOf(m + 1) \o IncomesBetween(m + 1, a)
  <2>1. m + 1 \in 0 .. a /\ a - (m + 1) \in Nat /\ a - m = (a - (m + 1)) + 1
    BY <1>3
  <2>2. /\ Listing(m + 1, a) \in Seq(Seq(IncomesType)) /\ Len(Listing(m + 1, a)) = a - (m + 1)
        /\ IncomesBetween(m + 1, a) = FlattenSeq(Listing(m + 1, a))
    BY <2>1, ListingTypes DEF IncomesBetween, Listing
  <2>3. \A i \in 1 .. a - (m + 1) : Listing(m + 1, a)[i] = Listing(m, a)[i + 1]
    <3> SUFFICES ASSUME NEW i \in 1 .. a - (m + 1)
                 PROVE  Listing(m + 1, a)[i] = Listing(m, a)[i + 1]
      OBVIOUS
    <3>1. i + 1 \in 1 .. a - m /\ (m + 1) + i = m + (i + 1)
      BY <2>1
    <3> QED BY <3>1 DEF Listing
  <2>4. Listing(m, a)[1] = IncomesOf(m + 1)
    BY <2>1 DEF Listing
  <2>5. PICK x \in Seq(Seq(IncomesType)), y \in Seq(Seq(IncomesType)) :
          x = Listing(m, a) /\ y = Listing(m + 1, a)
    BY <1>1, <2>2
  <2>6. Len(x) = Len(y) + 1 /\ \A i \in 1 .. Len(y) : y[i] = x[i + 1]
    BY <1>1, <2>1, <2>2, <2>3, <2>5
  <2>7. FlattenSeq(x) = x[1] \o FlattenSeq(y)
    BY <2>6, FlattenFirst
  <2> QED BY <1>1, <2>2, <2>4, <2>5, <2>7
<1> QED BY <1>2, <1>3

\* What is listed stays so.
LEMMA StillIncomes ==
  ASSUME Happenings, NEW a \in Nat, a <= Len(happened), NEW m \in 0 .. a,
         \A id \in 1 .. Len(happened) : happened'[id] = happened[id]
  PROVE  IncomesBetween(m, a)' = IncomesBetween(m, a)
<1>1. Len(happened) \in Nat
  BY DEF Happenings
<1>2. \A id \in 1 .. Len(happened) : IncomesOf(id)' = IncomesOf(id)
  BY DEF IncomesOf, Income
<1>3. \A k \in 1 .. a - m : m + k \in 1 .. Len(happened)
  BY <1>1
<1>4. \A k \in 1 .. a - m : IncomesOf(m + k)' = IncomesOf(m + k)
  BY <1>2, <1>3
<1>5. Listing(m, a)' = Listing(m, a)
  BY <1>4 DEF Listing
<1> QED BY <1>5 DEF IncomesBetween, Listing

\* The beginning of a second is not after anything in it.
LEMMA Seconds == ASSUME NEW date \in Nat PROVE ParseDatetime(date) \in 0 .. date
<1>1. Second \in Nat /\ Second > 0
  BY BinanceAssumption
<1>2. date % Second \in Nat /\ date % Second <= date
  <2>1. /\ date = Second * (date \div Second) + (date % Second)
        /\ date % Second \in 0 .. Second - 1 /\ date \div Second \in Nat
    BY <1>1
  <2>2. Second * (date \div Second) \in Nat
    BY <1>1, <2>1
  <2> QED BY <2>1, <2>2
<1> QED BY <1>2 DEF ParseDatetime

-----------------------------------------------------------------------------
(***************************************************************************)
(* What a fetch has read: the incomes of everything up to m, but for those *)
(* of m that are owed still.                                               *)
(***************************************************************************)

Bounds ==
  /\ Happenings /\ BinanceTypeOK
  /\ since <= atStart /\ atStart <= Len(happened) /\ startTime = ParseDatetime(since)
  /\ incomes \in Seq(IncomesType)
  /\ \A i \in DOMAIN execs : execs[i] \in 1 .. Len(happened)

Owed(id) == IF happened[id][1] = "close" THEN 1 ELSE 0

LeftAfter(m, owed) ==
  IF owed = 1 THEN <<Income("REALIZED_PNL", m)>> \o IncomesBetween(m, atStart)
  ELSE IncomesBetween(m, atStart)

\* A symbol that is not done: nothing of it is in the result, and the commission that
\* is remembered, if there is one, is its first opening one and its last.
Waits(s, m, owed) ==
  /\ PlacesOf(s) = {}
  /\ since # 0 => /\ s \notin DOMAIN lastCommission
                  /\ \A id \in TradesOf(s) : startTime < id => m < id
  /\ since = 0 /\ GetSafe(s) = NoTrade =>
        \A id \in TradesOf(s) : id <= m => happened[id][1] = "close"
  /\ since = 0 /\ GetSafe(s) # NoTrade =>
        /\ GetSafe(s) \in TradesOf(s) /\ GetSafe(s) <= m
        /\ \A id \in TradesOf(s) : id < GetSafe(s) => happened[id][1] = "close"
        /\ \A id \in TradesOf(s) : GetSafe(s) < id => m < id
        /\ happened[GetSafe(s)][1] = "open" \/ (owed = 1 /\ GetSafe(s) = m)

ReadUpTo(m, owed) ==
  /\ m \in startTime .. atStart /\ owed \in {0, 1}
  /\ owed = 1 => m # 0 /\ happened[m][1] = "close"
  /\ incomes = LeftAfter(m, owed)
  /\ \A s \in Pairs : /\ s \in done => WholeOf(s)
                      /\ s \notin done => Waits(s, m, owed)

BinanceInv ==
  /\ Bounds /\ NothingLeftOut
  /\ asking /\ AllListed => \E m, owed : ReadUpTo(m, owed)

-----------------------------------------------------------------------------
LEMMA TradesAre ==
  ASSUME Happenings, NEW s
  PROVE  /\ Len(happened) \in Nat
         /\ \A id \in TradesOf(s) : /\ id \in 1 .. Len(happened) /\ id \in 1 .. MaxTrades
                                    /\ happened[id][2] = s
                                    /\ happened[id][1] \in {"open", "close"}
<1>1. DOMAIN happened = 1 .. Len(happened) /\ Len(happened) \in Nat
  BY DEF Happenings
<1> QED BY <1>1, EventIs DEF TradesOf, Happenings

\* What one request for trades returns.
LEMMA FetchReturns ==
  ASSUME Happenings, NEW s, NEW from \in Nat, NEW p, p = FetchExecs(s, from)
  PROVE  /\ p \in Seq(TradesOf(s)) /\ Len(p) \in Nat /\ DOMAIN p = 1 .. Len(p)
         /\ \A k \in 1 .. Len(p) : /\ p[k] \in TradesOf(s) /\ p[k] >= from
                                   /\ p[k] \in 1 .. Len(happened) /\ p[k] \in 1 .. MaxTrades
         /\ \A j \in 1 .. Len(p) : \A i \in 1 .. j - 1 : p[i] < p[j]
         /\ \A id \in TradesOf(s) : id >= from =>
               \/ id \in {p[k] : k \in 1 .. Len(p)}
               \/ /\ \A k \in 1 .. Len(p) : p[k] < id
                  /\ Cardinality({p[k] : k \in 1 .. Len(p)}) >= TradeLimit
<1>1. PICK S : S = {id \in TradesOf(s) : id >= from}
  OBVIOUS
<1>2. /\ Len(happened) \in Nat /\ TradeLimit \in Nat
      /\ \A u \in S : u \in 1 .. Len(happened)
  BY <1>1, TradesAre, BinanceAssumption
<1>3. p = Oldest(S, TradeLimit)
  BY <1>1 DEF FetchExecs, Oldest
<1>4. PICK got : got = {p[k] : k \in DOMAIN p}
  OBVIOUS
<1>5. /\ p \in Seq(S)
      /\ \A j \in DOMAIN p : \A i \in 1 .. j - 1 : p[i] < p[j]
      /\ \A t \in S : \/ t \in got
                      \/ (\A k \in DOMAIN p : p[k] < t) /\ Cardinality(got) >= TradeLimit
  BY <1>2, <1>3, <1>4, OldestAre, ZenonT(30)
<1>6. DOMAIN p = 1 .. Len(p) /\ Len(p) \in Nat /\ \A k \in 1 .. Len(p) : p[k] \in S
  BY <1>5
<1>7. \A k \in 1 .. Len(p) : /\ p[k] \in TradesOf(s) /\ p[k] >= from
                             /\ p[k] \in 1 .. Len(happened) /\ p[k] \in 1 .. MaxTrades
  BY <1>1, <1>6, TradesAre
<1>8. S \subseteq TradesOf(s)
  BY <1>1
<1>9. p \in Seq(TradesOf(s))
  BY <1>5, <1>8
<1>10. got = {p[k] : k \in 1 .. Len(p)}
  BY <1>4, <1>6
<1>11. \A id \in TradesOf(s) : id >= from => id \in S
  BY <1>1
<1> QED BY <1>5, <1>6, <1>7, <1>9, <1>10, <1>11

\* The trades that are due, from the first one.
LEMMA DueFrom ==
  ASSUME Bounds, NEW s, NEW from \in TradesOf(s),
         \/ /\ since # 0 /\ startTime < from
            /\ \A id \in TradesOf(s) : startTime < id => from <= id
         \/ /\ since = 0 /\ happened[from][1] = "open"
            /\ \A id \in TradesOf(s) : id < from => happened[id][1] = "close"
  PROVE  Due(s) = {id \in TradesOf(s) : id >= from}
<1>1. Happenings /\ startTime \in Nat
  BY DEF Bounds, BinanceTypeOK
<1>2. from \in Int /\ \A id \in TradesOf(s) : id \in Int
  BY <1>1, TradesAre
<1>3. CASE since # 0
  <2>1. startTime < from /\ \A id \in TradesOf(s) : startTime < id => from <= id
    BY <1>3
  <2>2. \A id \in TradesOf(s) : startTime < id <=> id >= from
    BY <1>1, <1>2, <2>1
  <2>3. Due(s) = {id \in TradesOf(s) : id > startTime}
    BY <1>3 DEF Due, Bounds
  <2> QED BY <1>1, <1>2, <2>2, <2>3
<1>4. CASE since = 0
  <2>1. happened[from][1] = "open" /\ \A id \in TradesOf(s) : id < from => happened[id][1] = "close"
    BY <1>4
  <2>2. ASSUME NEW id \in TradesOf(s) PROVE id \in Leading(s) <=> id < from
    <3>1. ASSUME id < from PROVE id \in Leading(s)
      <4>1. \A k \in TradesOf(s) : k <= id => k < from
        BY <1>2, <3>1
      <4> QED BY <2>1, <4>1 DEF Leading
    <3>2. ASSUME id \in Leading(s), ~ id < from PROVE FALSE
      <4>1. from <= id
        <5>1. id \in Int /\ from \in Int
          BY <1>2
        <5>2. ~ id < from
          BY <3>2
        <5> QED BY <5>1, <5>2
      <4>2. happened[from][1] = "close"
        BY <3>2, <4>1 DEF Leading
      <4> QED BY <2>1, <4>2
    <3> QED BY <3>1, <3>2
  <2>3. Due(s) = TradesOf(s) \ Leading(s)
    BY <1>4 DEF Due
  <2>4. \A id \in TradesOf(s) : id \notin Leading(s) <=> id >= from
    BY <1>2, <2>2
  <2> QED BY <2>3, <2>4
<1> QED BY <1>3, <1>4

-----------------------------------------------------------------------------
(* What a step leaves as it is.                                            *)

\* Executions of other symbols, and clears, join the result.
LEMMA OthersJoin ==
  ASSUME Bounds, NEW s, UNCHANGED happened, NEW q, Len(q) \in Nat, execs' = execs \o q,
         \A k \in 1 .. Len(q) : q[k] \notin TradesOf(s)
  PROVE  /\ PlacesOf(s)' = PlacesOf(s) /\ Got(s)' = Got(s)
         /\ \A i \in PlacesOf(s) : execs'[i] = execs[i]
<1>1. /\ Len(execs) \in Nat /\ DOMAIN execs = 1 .. Len(execs)
  BY DEF Bounds, BinanceTypeOK
<1>2. /\ DOMAIN execs' = 1 .. Len(execs) + Len(q)
      /\ \A i \in 1 .. Len(execs) : execs'[i] = execs[i]
      /\ \A i \in 1 .. Len(execs) + Len(q) : i > Len(execs) => execs'[i] = q[i - Len(execs)]
  BY <1>1
<1>3. TradesOf(s)' = TradesOf(s)
  BY DEF TradesOf
<1>4. ASSUME NEW i \in DOMAIN execs', execs'[i] \in TradesOf(s)
      PROVE  i \in 1 .. Len(execs)
  <2> SUFFICES ASSUME i > Len(execs) PROVE FALSE
    BY <1>1, <1>2
  <2>1. i - Len(execs) \in 1 .. Len(q)
    BY <1>1, <1>2
  <2>2. execs'[i] = q[i - Len(execs)]
    BY <1>1, <1>2
  <2> QED BY <1>4, <2>1, <2>2
<1>5. PlacesOf(s)' = {i \in DOMAIN execs' : execs'[i] \in TradesOf(s)}
  BY <1>3 DEF PlacesOf
<1>6. DOMAIN execs \subseteq DOMAIN execs'
  BY <1>1, <1>2
<1>7. PlacesOf(s)' = PlacesOf(s)
  BY <1>1, <1>2, <1>4, <1>5, <1>6 DEF PlacesOf
<1>8. \A i \in PlacesOf(s) : execs'[i] = execs[i]
  BY <1>1, <1>2 DEF PlacesOf
<1>9. Got(s)' = Got(s)
  BY <1>7, <1>8 DEF Got
<1> QED BY <1>7, <1>8, <1>9

LEMMA WholeStays ==
  ASSUME NEW s, WholeOf(s), UNCHANGED <<happened, since, startTime, atStart>>,
         PlacesOf(s)' = PlacesOf(s), Got(s)' = Got(s),
         \A i \in PlacesOf(s) : execs'[i] = execs[i]
  PROVE  WholeOf(s)'
<1>1. Due(s)' = Due(s)
  BY DEF Due, Leading, TradesOf
<1>2. /\ Got(s) \subseteq Due(s)
      /\ \A i, j \in PlacesOf(s) : i < j => execs[i] < execs[j]
      /\ \A id \in Due(s) \ Got(s) : /\ \A other \in Got(s) : other < id
                                     /\ Cardinality(Got(s)) < TradeLimit => id > atStart
  BY DEF WholeOf
<1>3. (\A i, j \in PlacesOf(s) : i < j => execs[i] < execs[j])'
  BY <1>2
<1>4. (Got(s) \subseteq Due(s))'
  BY <1>1, <1>2
<1>5. (\A id \in Due(s) \ Got(s) : /\ \A other \in Got(s) : other < id
                                   /\ Cardinality(Got(s)) < TradeLimit => id > atStart)'
  BY <1>1, <1>2
<1> QED BY <1>3, <1>4, <1>5 DEF WholeOf

\* What is read next, of another symbol, and a profit of another trade.
LEMMA WaitsStill ==
  ASSUME Bounds, NEW s, NEW m \in Nat, NEW owed \in {0, 1}, Waits(s, m, owed),
         UNCHANGED <<happened, since, startTime>>,
         PlacesOf(s)' = PlacesOf(s), GetSafe(s)' = GetSafe(s),
         s \in DOMAIN lastCommission' <=> s \in DOMAIN lastCommission,
         NEW n \in {m, m + 1}, n # m => n \notin TradesOf(s),
         owed = 1 => GetSafe(s) # m,
         NEW after \in {0, 1}
  PROVE  Waits(s, n, after)'
<1>1. TradesOf(s)' = TradesOf(s) /\ startTime \in Nat
  BY DEF TradesOf, Bounds, BinanceTypeOK
<1>2. \A id \in TradesOf(s) : id \in Int /\ (id <= n <=> id <= m) /\ (m < id <=> n < id)
  <2> SUFFICES ASSUME NEW id \in TradesOf(s)
               PROVE  id \in Int /\ (id <= n <=> id <= m) /\ (m < id <=> n < id)
    OBVIOUS
  <2>1. id \in Int
    BY TradesAre DEF Bounds
  <2>2. CASE n = m
    BY <2>1, <2>2
  <2>3. CASE n # m
    <3>1. n = m + 1 /\ id # n
      BY <2>3
    <3> QED BY <2>1, <3>1
  <2> QED BY <2>1, <2>2, <2>3
<1>3. PICK f : f = GetSafe(s)
  OBVIOUS
<1>4. (PlacesOf(s) = {})'
  BY DEF Waits
<1>5. (since # 0 => /\ s \notin DOMAIN lastCommission
                    /\ \A id \in TradesOf(s) : startTime < id => n < id)'
  BY <1>1, <1>2 DEF Waits
<1>6. (since = 0 /\ GetSafe(s) = NoTrade =>
          \A id \in TradesOf(s) : id <= n => happened[id][1] = "close")'
  BY <1>1, <1>2 DEF Waits
<1>7. ASSUME since = 0, f # NoTrade
      PROVE  /\ f \in TradesOf(s) /\ f <= n
             /\ \A id \in TradesOf(s) : id < f => happened[id][1] = "close"
             /\ \A id \in TradesOf(s) : f < id => n < id
             /\ happened[f][1] = "open"
  <2>1. /\ f \in TradesOf(s) /\ f <= m
        /\ \A id \in TradesOf(s) : id < f => happened[id][1] = "close"
        /\ \A id \in TradesOf(s) : f < id => m < id
        /\ happened[f][1] = "open" \/ (owed = 1 /\ f = m)
    BY <1>3, <1>7 DEF Waits
  <2> QED BY <1>2, <1>3, <2>1
<1>8. (since = 0 /\ GetSafe(s) # NoTrade =>
          /\ GetSafe(s) \in TradesOf(s) /\ GetSafe(s) <= n
          /\ \A id \in TradesOf(s) : id < GetSafe(s) => happened[id][1] = "close"
          /\ \A id \in TradesOf(s) : GetSafe(s) < id => n < id
          /\ happened[GetSafe(s)][1] = "open" \/ (after = 1 /\ GetSafe(s) = n))'
  BY <1>1, <1>3, <1>7
<1> QED BY <1>4, <1>5, <1>6, <1>8 DEF Waits

\* A symbol is asked for.
LEMMA WholeFromHere ==
  ASSUME Bounds, NEW s, NEW from \in TradesOf(s), UNCHANGED <<happened, since, startTime, atStart>>,
         execs' = execs \o FetchExecs(s, from), PlacesOf(s) = {},
         Due(s) = {id \in TradesOf(s) : id >= from}
  PROVE  WholeOf(s)'
<1>1. PICK p : p = FetchExecs(s, from)
  OBVIOUS
<1>2. Happenings /\ from \in Nat
  BY TradesAre DEF Bounds
<1>3. /\ Len(p) \in Nat /\ DOMAIN p = 1 .. Len(p)
      /\ \A k \in 1 .. Len(p) : /\ p[k] \in TradesOf(s) /\ p[k] >= from
                                /\ p[k] \in 1 .. Len(happened)
      /\ \A j \in 1 .. Len(p) : \A i \in 1 .. j - 1 : p[i] < p[j]
      /\ \A id \in TradesOf(s) : id >= from =>
            \/ id \in {p[k] : k \in 1 .. Len(p)}
            \/ /\ \A k \in 1 .. Len(p) : p[k] < id
               /\ Cardinality({p[k] : k \in 1 .. Len(p)}) >= TradeLimit
  <2>1. \A q : q = FetchExecs(s, from) =>
          /\ Len(q) \in Nat /\ DOMAIN q = 1 .. Len(q)
          /\ \A k \in 1 .. Len(q) : /\ q[k] \in TradesOf(s) /\ q[k] >= from
                                    /\ q[k] \in 1 .. Len(happened)
          /\ \A j \in 1 .. Len(q) : \A i \in 1 .. j - 1 : q[i] < q[j]
          /\ \A id \in TradesOf(s) : id >= from =>
                \/ id \in {q[k] : k \in 1 .. Len(q)}
                \/ /\ \A k \in 1 .. Len(q) : q[k] < id
                   /\ Cardinality({q[k] : k \in 1 .. Len(q)}) >= TradeLimit
    BY <1>2, FetchReturns
  <2> QED BY <1>1, <2>1, ZenonT(30)
<1>4. Len(execs) \in Nat /\ DOMAIN execs = 1 .. Len(execs)
  BY DEF Bounds, BinanceTypeOK
<1> DEFINE l == Len(execs)
<1>5. /\ DOMAIN execs' = 1 .. l + Len(p)
      /\ \A i \in 1 .. l : execs'[i] = execs[i]
      /\ \A i \in l + 1 .. l + Len(p) : execs'[i] = p[i - l]
  BY <1>1, <1>3, <1>4
<1>6. TradesOf(s)' = TradesOf(s) /\ Due(s)' = Due(s)
  BY DEF Due, Leading, TradesOf
<1>7. \A i \in 1 .. l : execs'[i] \notin TradesOf(s)
  BY <1>4, <1>5 DEF PlacesOf
<1>8. \A i \in l + 1 .. l + Len(p) : i - l \in 1 .. Len(p)
  BY <1>3, <1>4
<1>9. PlacesOf(s)' = l + 1 .. l + Len(p)
  <2>1. PlacesOf(s)' = {i \in 1 .. l + Len(p) : execs'[i] \in TradesOf(s)}
    BY <1>5, <1>6 DEF PlacesOf
  <2>2. \A i \in l + 1 .. l + Len(p) : execs'[i] \in TradesOf(s)
    BY <1>3, <1>5, <1>8
  <2>3. \A i \in 1 .. l + Len(p) : i \in 1 .. l \/ i \in l + 1 .. l + Len(p)
    BY <1>3, <1>4
  <2>4. \A i \in l + 1 .. l + Len(p) : i \in 1 .. l + Len(p)
    BY <1>3, <1>4
  <2> QED BY <1>7, <2>1, <2>2, <2>3, <2>4
<1>10. Got(s)' = {p[k] : k \in 1 .. Len(p)}
  <2>1. Got(s)' = {execs'[i] : i \in l + 1 .. l + Len(p)}
    BY <1>9 DEF Got
  <2>2. \A i \in l + 1 .. l + Len(p) : execs'[i] \in {p[k] : k \in 1 .. Len(p)}
    BY <1>5, <1>8
  <2>3. ASSUME NEW k \in 1 .. Len(p) PROVE \E i \in l + 1 .. l + Len(p) : p[k] = execs'[i]
    <3>1. k + l \in l + 1 .. l + Len(p) /\ (k + l) - l = k
      BY <1>3, <1>4
    <3> QED BY <1>5, <3>1
  <2> QED BY <2>1, <2>2, <2>3
<1> HIDE DEF l
<1>11. (Got(s) \subseteq Due(s))'
  BY <1>3, <1>6, <1>10
<1>12. (\A i, j \in PlacesOf(s) : i < j => execs[i] < execs[j])'
  <2> SUFFICES ASSUME NEW i \in l + 1 .. l + Len(p), NEW j \in l + 1 .. l + Len(p), i < j
               PROVE  execs'[i] < execs'[j]
    BY <1>9
  <2>1. l \in Nat
    BY <1>4 DEF l
  <2>2. j - l \in 1 .. Len(p) /\ i - l \in 1 .. (j - l) - 1
    BY <1>3, <2>1
  <2> QED BY <1>3, <1>5, <2>2
<1>13. (\A id \in Due(s) \ Got(s) : /\ \A other \in Got(s) : other < id
                                    /\ Cardinality(Got(s)) < TradeLimit => id > atStart)'
  <2> SUFFICES ASSUME NEW id \in Due(s), id \notin {p[k] : k \in 1 .. Len(p)}
               PROVE  /\ \A other \in {p[k] : k \in 1 .. Len(p)} : other < id
                      /\ ~ Cardinality({p[k] : k \in 1 .. Len(p)}) < TradeLimit
    BY <1>6, <1>10
  <2>1. id \in TradesOf(s) /\ id >= from
    OBVIOUS
  <2>2. /\ \A k \in 1 .. Len(p) : p[k] < id
        /\ Cardinality({p[k] : k \in 1 .. Len(p)}) >= TradeLimit
    BY <1>3, <2>1
  <2>3. Cardinality({p[k] : k \in 1 .. Len(p)}) \in Nat /\ TradeLimit \in Nat
    <3>1. IsFiniteSet(1 .. Len(happened))
      <4>1. Len(happened) \in Nat
        BY <1>2 DEF Happenings
      <4>2. PICK n \in Nat : n = Len(happened)
        BY <4>1
      <4>3. IsFiniteSet(1 .. n)
        BY FS_Interval
      <4> QED BY <4>2, <4>3
    <3>2. {p[k] : k \in 1 .. Len(p)} \subseteq 1 .. Len(happened)
      BY <1>3
    <3> QED BY <3>1, <3>2, FS_Subset, FS_CardinalityType, BinanceAssumption
  <2>4. PICK c \in Nat : c = Cardinality({p[k] : k \in 1 .. Len(p)})
    BY <2>3
  <2>5. ~ c < TradeLimit
    BY <2>2, <2>3, <2>4
  <2>6. \A other \in {p[k] : k \in 1 .. Len(p)} : other < id
    BY <2>2
  <2>7. ~ Cardinality({p[k] : k \in 1 .. Len(p)}) < TradeLimit
    BY <2>4, <2>5
  <2> QED BY <2>6, <2>7
<1> QED BY <1>11, <1>12, <1>13 DEF WholeOf

-----------------------------------------------------------------------------
(* Trades go on.                                                           *)

LEMMA OneMore ==
  ASSUME Bounds, Traded
  PROVE  /\ Len(happened) \in Nat /\ Len(happened') = Len(happened) + 1
         /\ happened' \in Seq(Events) /\ Len(happened') <= MaxTrades
         /\ \A id \in 1 .. Len(happened) : happened'[id] = happened[id]
         /\ \A s : /\ TradesOf(s) \subseteq TradesOf(s)'
                   /\ \A id \in TradesOf(s)' : id \in TradesOf(s) \/ id = Len(happened) + 1
<1>1. /\ Len(happened) \in Nat /\ happened \in Seq(Events) /\ DOMAIN happened = 1 .. Len(happened)
      /\ Len(happened) < MaxTrades /\ MaxTrades \in Nat
  BY DEF Bounds, Happenings, Traded
<1>2. PICK e \in Events : happened' = Append(happened, e)
  BY DEF Traded
<1>3. /\ happened' \in Seq(Events) /\ Len(happened') = Len(happened) + 1
      /\ DOMAIN happened' = 1 .. Len(happened) + 1
      /\ \A id \in 1 .. Len(happened) : happened'[id] = happened[id]
  BY <1>1, <1>2
<1>4. ASSUME NEW s
      PROVE  /\ TradesOf(s) \subseteq TradesOf(s)'
             /\ \A id \in TradesOf(s)' : id \in TradesOf(s) \/ id = Len(happened) + 1
  <2>1. TradesOf(s) = {id \in 1 .. Len(happened) : happened[id][2] = s /\ happened[id][1] # "clear"}
    BY <1>1 DEF TradesOf
  <2>2. TradesOf(s)' = {id \in 1 .. Len(happened) + 1 : happened'[id][2] = s /\ happened'[id][1] # "clear"}
    BY <1>3 DEF TradesOf
  <2>3. \A id \in 1 .. Len(happened) + 1 : id \in 1 .. Len(happened) \/ id = Len(happened) + 1
    BY <1>1
  <2>4. 1 .. Len(happened) \subseteq 1 .. Len(happened) + 1
    BY <1>1
  <2> QED BY <1>3, <2>1, <2>2, <2>3, <2>4
<1> QED BY <1>1, <1>3, <1>4

LEMMA WholeLater ==
  ASSUME Bounds, Traded, NEW s, WholeOf(s)
  PROVE  WholeOf(s)'
<1>1. /\ Len(happened) \in Nat
      /\ \A id \in 1 .. Len(happened) : happened'[id] = happened[id]
      /\ TradesOf(s) \subseteq TradesOf(s)'
      /\ \A id \in TradesOf(s)' : id \in TradesOf(s) \/ id = Len(happened) + 1
  BY OneMore
<1>2. \A id \in TradesOf(s) : id \in 1 .. Len(happened)
  BY TradesAre DEF Bounds
<1>3. UNCHANGED <<since, startTime, execs, atStart>> /\ startTime \in Nat /\ atStart \in Nat /\ atStart <= Len(happened)
  BY DEF Traded, Bounds, BinanceTypeOK
<1>4. \A i \in DOMAIN execs : execs[i] \in 1 .. Len(happened)
  BY DEF Bounds
<1>5. PlacesOf(s)' = PlacesOf(s) /\ Got(s)' = Got(s)
  <2>1. \A i \in DOMAIN execs : execs[i] \in TradesOf(s)' <=> execs[i] \in TradesOf(s)
    <3>1. \A i \in DOMAIN execs : execs[i] # Len(happened) + 1
      BY <1>1, <1>4
    <3> QED BY <1>1, <3>1
  <2>2. PlacesOf(s)' = {i \in DOMAIN execs : execs[i] \in TradesOf(s)'}
    BY <1>3 DEF PlacesOf
  <2>3. PlacesOf(s)' = PlacesOf(s)
    BY <2>1, <2>2 DEF PlacesOf
  <2> QED BY <1>3, <2>3 DEF Got
<1>6. \A id \in TradesOf(s) : id \in Leading(s)' <=> id \in Leading(s)
  <2> SUFFICES ASSUME NEW id \in TradesOf(s) PROVE id \in Leading(s)' <=> id \in Leading(s)
    OBVIOUS
  <2>1. \A k \in TradesOf(s)' : k <= id => k \in TradesOf(s)
    <3> SUFFICES ASSUME NEW k \in TradesOf(s)', k <= id, k = Len(happened) + 1 PROVE FALSE
      BY <1>1
    <3>1. id <= Len(happened) /\ id \in Int
      BY <1>2
    <3> QED BY <1>1, <3>1
  <2>2. \A k \in TradesOf(s) : happened'[k] = happened[k]
    BY <1>1, <1>2
  <2>3. (\A k \in TradesOf(s)' : k <= id => happened'[k][1] = "close")
           <=> (\A k \in TradesOf(s) : k <= id => happened[k][1] = "close")
    BY <1>1, <2>1, <2>2
  <2>4. id \in Leading(s)' <=> id \in TradesOf(s)' /\ \A k \in TradesOf(s)' : k <= id => happened'[k][1] = "close"
    BY DEF Leading
  <2>5. id \in Leading(s) <=> \A k \in TradesOf(s) : k <= id => happened[k][1] = "close"
    BY DEF Leading
  <2> QED BY <1>1, <2>3, <2>4, <2>5
<1>7. /\ Due(s) \subseteq Due(s)'
      /\ \A id \in Due(s)' : id \in Due(s) \/ id = Len(happened) + 1
  <2>1. CASE since # 0
    <3>1. /\ Due(s) = {id \in TradesOf(s) : id > startTime}
          /\ Due(s)' = {id \in TradesOf(s)' : id > startTime}
      BY <1>3, <2>1 DEF Due, Bounds
    <3> QED BY <1>1, <3>1
  <2>2. CASE since = 0
    <3>1. Due(s) = TradesOf(s) \ Leading(s) /\ Due(s)' = TradesOf(s)' \ Leading(s)'
      BY <1>3, <2>2 DEF Due
    <3> QED BY <1>1, <1>6, <3>1
  <2> QED BY <2>1, <2>2
<1>8. /\ Got(s) \subseteq Due(s)
      /\ \A i, j \in PlacesOf(s) : i < j => execs[i] < execs[j]
      /\ \A id \in Due(s) \ Got(s) : /\ \A other \in Got(s) : other < id
                                     /\ Cardinality(Got(s)) < TradeLimit => id > atStart
  BY DEF WholeOf
<1>9. (Got(s) \subseteq Due(s))'
  BY <1>5, <1>7, <1>8
<1>10. (\A i, j \in PlacesOf(s) : i < j => execs[i] < execs[j])'
  BY <1>3, <1>5, <1>8
<1>11. \A other \in Got(s) : other < Len(happened) + 1
  <2>1. \A other \in Got(s) : other \in 1 .. Len(happened)
    BY <1>4 DEF Got, PlacesOf
  <2> QED BY <1>1, <2>1
<1>12. Len(happened) + 1 > atStart
  BY <1>1, <1>3
<1>13. (\A id \in Due(s) \ Got(s) :
          /\ \A other \in Got(s) : other < id
          /\ Cardinality(Got(s)) < TradeLimit => id > atStart)'
  BY <1>3, <1>5, <1>7, <1>8, <1>11, <1>12
<1> QED BY <1>9, <1>10, <1>13 DEF WholeOf

LEMMA WaitsLater ==
  ASSUME Bounds, Traded, NEW s, NEW m \in Nat, m <= Len(happened), NEW owed, Waits(s, m, owed)
  PROVE  Waits(s, m, owed)'
<1>1. /\ Len(happened) \in Nat
      /\ \A id \in 1 .. Len(happened) : happened'[id] = happened[id]
      /\ TradesOf(s) \subseteq TradesOf(s)'
      /\ \A id \in TradesOf(s)' : id \in TradesOf(s) \/ id = Len(happened) + 1
  BY OneMore
<1>2. \A id \in TradesOf(s) : id \in 1 .. Len(happened) /\ happened'[id] = happened[id]
  BY <1>1, TradesAre DEF Bounds
<1>3. UNCHANGED <<since, startTime, execs, lastCommission>>
  BY DEF Traded
<1>4. \A i \in DOMAIN execs : execs[i] # Len(happened) + 1
  <2>1. \A i \in DOMAIN execs : execs[i] \in 1 .. Len(happened)
    BY DEF Bounds
  <2> QED BY <1>1, <2>1
<1>5. (PlacesOf(s) = {})'
  BY <1>1, <1>3, <1>4 DEF Waits, PlacesOf
<1>6. m < Len(happened) + 1 /\ ~ Len(happened) + 1 <= m
  BY <1>1
<1>7. GetSafe(s)' = GetSafe(s)
  BY <1>3 DEF GetSafe
<1>8. PICK f : f = GetSafe(s)
  OBVIOUS
<1>9. (since # 0 => /\ s \notin DOMAIN lastCommission
                    /\ \A id \in TradesOf(s) : startTime < id => m < id)'
  BY <1>1, <1>3, <1>6 DEF Waits
<1>10. (since = 0 /\ GetSafe(s) = NoTrade =>
          \A id \in TradesOf(s) : id <= m => happened[id][1] = "close")'
  BY <1>1, <1>2, <1>3, <1>6, <1>7 DEF Waits
<1>11. ASSUME since = 0, f # NoTrade
       PROVE  /\ f \in TradesOf(s)' /\ f <= m
              /\ \A id \in TradesOf(s)' : id < f => happened'[id][1] = "close"
              /\ \A id \in TradesOf(s)' : f < id => m < id
              /\ happened'[f][1] = "open" \/ (owed = 1 /\ f = m)
  <2>1. /\ f \in TradesOf(s) /\ f <= m
        /\ \A id \in TradesOf(s) : id < f => happened[id][1] = "close"
        /\ \A id \in TradesOf(s) : f < id => m < id
        /\ happened[f][1] = "open" \/ (owed = 1 /\ f = m)
    BY <1>8, <1>11 DEF Waits
  <2>2. f \in Int /\ ~ Len(happened) + 1 < f
    BY <1>1, <1>2, <2>1
  <2> QED BY <1>1, <1>2, <1>6, <2>1, <2>2
<1>12. (since = 0 /\ GetSafe(s) # NoTrade =>
          /\ GetSafe(s) \in TradesOf(s) /\ GetSafe(s) <= m
          /\ \A id \in TradesOf(s) : id < GetSafe(s) => happened[id][1] = "close"
          /\ \A id \in TradesOf(s) : GetSafe(s) < id => m < id
          /\ happened[GetSafe(s)][1] = "open" \/ (owed = 1 /\ GetSafe(s) = m))'
  BY <1>3, <1>7, <1>8, <1>11
<1> QED BY <1>5, <1>9, <1>10, <1>12 DEF Waits

-----------------------------------------------------------------------------
(* The next income, and what the loop remembers.                           *)

LEMMA FirstLeft ==
  ASSUME Bounds, incomes # <<>>
  PROVE  /\ Head(incomes).type \in IncomeKinds /\ Head(incomes).symbol \in Pairs
         /\ Head(incomes).id \in 1 .. Len(happened) /\ Head(incomes).id \in 1 .. MaxTrades
         /\ Tail(incomes) \in Seq(IncomesType)
<1>1. incomes \in Seq(IncomesType) /\ Len(happened) \in Nat /\ Len(happened) <= MaxTrades /\ MaxTrades \in Nat
  BY DEF Bounds, Happenings
<1>2. Head(incomes) \in IncomesType /\ Tail(incomes) \in Seq(IncomesType)
  BY <1>1
<1>3. \A x \in IncomesType : x.type \in IncomeKinds /\ x.symbol \in Pairs /\ x.id \in 1 .. Len(happened)
  BY DEF IncomesType
<1> QED BY <1>1, <1>2, <1>3

LEMMA NextIncome ==
  ASSUME Bounds, NEW m, NEW owed, ReadUpTo(m, owed)
  PROVE  /\ m \in Nat /\ m \in 0 .. atStart
         /\ incomes = <<>> => owed = 0 /\ m = atStart
         /\ incomes # <<>> /\ owed = 1 =>
               Head(incomes) = Income("REALIZED_PNL", m) /\ Tail(incomes) = LeftAfter(m, 0)
         /\ incomes # <<>> /\ owed = 0 =>
               /\ m + 1 \in 1 .. atStart
               /\ Head(incomes) = Income(IF happened[m + 1][1] = "clear" THEN "INSURANCE_CLEAR"
                                         ELSE "COMMISSION", m + 1)
               /\ Tail(incomes) = LeftAfter(m + 1, Owed(m + 1))
<1>1. /\ m \in Nat /\ atStart \in Nat /\ m \in 0 .. atStart /\ atStart <= Len(happened)
      /\ owed \in {0, 1} /\ Happenings
  BY DEF Bounds, BinanceTypeOK, ReadUpTo
<1>2. incomes = LeftAfter(m, owed)
  BY DEF ReadUpTo
<1>3. ASSUME NEW n \in 0 .. atStart PROVE IncomesBetween(n, atStart) \in Seq(IncomesType)
  BY <1>1, ListingTypes
<1>4. ASSUME NEW T, NEW x, NEW rest \in Seq(T), <<x>> \in Seq(T)
      PROVE  /\ <<x>> \o rest # <<>> /\ Head(<<x>> \o rest) = x /\ Tail(<<x>> \o rest) = rest
  <2>1. Len(<<x>> \o rest) = 1 + Len(rest) /\ <<x>> \o rest \in Seq(T)
    BY <1>4
  <2>2. <<x>> \o rest # <<>>
    BY <2>1
  <2>3. Head(<<x>> \o rest) = x
    BY <1>4, <2>1
  <2>4. /\ Tail(<<x>> \o rest) \in Seq(T) /\ Len(Tail(<<x>> \o rest)) = Len(rest)
        /\ \A i \in 1 .. Len(rest) : Tail(<<x>> \o rest)[i] = rest[i]
    BY <1>4, <2>1, <2>2
  <2>5. Tail(<<x>> \o rest) = rest
    BY <2>4, SeqEqual
  <2> QED BY <2>2, <2>3, <2>5
<1>5. CASE owed = 1
  <2>1. incomes = <<Income("REALIZED_PNL", m)>> \o IncomesBetween(m, atStart)
    BY <1>2, <1>5 DEF LeftAfter
  <2>2. m \in 1 .. Len(happened) /\ happened[m][1] = "close"
    BY <1>1, <1>5 DEF ReadUpTo
  <2>3. <<Income("REALIZED_PNL", m)>> \in Seq(IncomesType)
    <3>1. Income("REALIZED_PNL", m) \in IncomesType
      BY <1>1, <2>2, EventIs DEF Income, IncomesType, IncomeKinds
    <3> QED BY <3>1
  <2>4. IncomesBetween(m, atStart) \in Seq(IncomesType)
    BY <1>1, <1>3
  <2>5. LeftAfter(m, 0) = IncomesBetween(m, atStart)
    BY DEF LeftAfter
  <2> HIDE DEF Income
  <2> QED BY <1>1, <1>4, <1>5, <2>1, <2>3, <2>4, <2>5
<1>6. CASE owed = 0 /\ m = atStart
  <2>1. incomes = <<>>
    BY <1>1, <1>2, <1>6, IncomesNext DEF LeftAfter
  <2> QED BY <1>1, <1>6, <2>1
<1>7. CASE owed = 0 /\ m # atStart
  <2>1. m + 1 \in 1 .. atStart /\ m + 1 \in 0 .. atStart /\ m + 1 \in 1 .. Len(happened)
    BY <1>1, <1>7
  <2>2. incomes = IncomesOf(m + 1) \o IncomesBetween(m + 1, atStart)
    BY <1>1, <1>2, <1>7, IncomesNext DEF LeftAfter
  <2>3. PICK rest \in Seq(IncomesType) : rest = IncomesBetween(m + 1, atStart)
    BY <1>3, <2>1
  <2>4. /\ happened[m + 1][1] \in {"open", "close", "clear"} /\ happened[m + 1][2] \in Pairs
        /\ m + 1 \in 1 .. MaxTrades
    BY <1>1, <2>1, EventIs
  <2>5. PICK c, r, i : /\ c = Income("COMMISSION", m + 1) /\ r = Income("REALIZED_PNL", m + 1)
                       /\ i = Income("INSURANCE_CLEAR", m + 1)
    OBVIOUS
  <2>6. c \in IncomesType /\ r \in IncomesType /\ i \in IncomesType
    BY <2>1, <2>4, <2>5 DEF Income, IncomesType, IncomeKinds
  <2>7. <<c>> \in Seq(IncomesType) /\ <<r>> \in Seq(IncomesType) /\ <<i>> \in Seq(IncomesType)
    BY <2>6
  <2>8. CASE happened[m + 1][1] = "open"
    <3>1. incomes = <<c>> \o rest
      BY <2>2, <2>3, <2>5, <2>8 DEF IncomesOf
    <3>2. LeftAfter(m + 1, Owed(m + 1)) = rest
      BY <2>3, <2>8 DEF LeftAfter, Owed
    <3>3. incomes # <<>> /\ Head(incomes) = c /\ Tail(incomes) = rest
      BY <1>4, <2>7, <3>1
    <3> QED BY <1>1, <1>7, <2>1, <2>5, <2>8, <3>2, <3>3
  <2>9. CASE happened[m + 1][1] = "clear"
    <3>1. incomes = <<i>> \o rest
      BY <2>2, <2>3, <2>5, <2>9 DEF IncomesOf
    <3>2. LeftAfter(m + 1, Owed(m + 1)) = rest
      BY <2>3, <2>9 DEF LeftAfter, Owed
    <3>3. incomes # <<>> /\ Head(incomes) = i /\ Tail(incomes) = rest
      BY <1>4, <2>7, <3>1
    <3> QED BY <1>1, <1>7, <2>1, <2>5, <2>9, <3>2, <3>3
  <2>10. CASE happened[m + 1][1] = "close"
    <3>1. incomes = <<c, r>> \o rest
      BY <2>2, <2>3, <2>5, <2>10 DEF IncomesOf
    <3>2. <<c, r>> \o rest = <<c>> \o (<<r>> \o rest) /\ <<r>> \o rest \in Seq(IncomesType)
      <4>1. <<c, r>> = <<c>> \o <<r>>
        <5>1. /\ <<c, r>> \in Seq(IncomesType) /\ <<c>> \o <<r>> \in Seq(IncomesType)
              /\ Len(<<c, r>>) = 2 /\ Len(<<c>> \o <<r>>) = 2
          BY <2>6, <2>7
        <5>2. \A k \in 1 .. 2 : <<c, r>>[k] = (<<c>> \o <<r>>)[k]
          BY <2>7
        <5> QED BY <5>1, <5>2, SeqEqual
      <4>2. ASSUME NEW T, NEW x \in Seq(T), NEW y \in Seq(T), NEW z \in Seq(T)
            PROVE  (x \o y) \o z = x \o (y \o z) /\ y \o z \in Seq(T)
        OBVIOUS
      <4> QED BY <2>7, <4>1, <4>2
    <3>3. LeftAfter(m + 1, Owed(m + 1)) = <<r>> \o rest
      BY <2>3, <2>5, <2>10 DEF LeftAfter, Owed
    <3>4. incomes # <<>> /\ Head(incomes) = c /\ Tail(incomes) = <<r>> \o rest
      BY <1>4, <2>7, <3>1, <3>2
    <3>5. Tail(incomes) = LeftAfter(m + 1, Owed(m + 1))
      BY <3>3, <3>4
    <3>6. Head(incomes) = Income(IF happened[m + 1][1] = "clear" THEN "INSURANCE_CLEAR"
                                 ELSE "COMMISSION", m + 1)
      BY <2>5, <2>10, <3>4
    <3> QED BY <1>1, <1>7, <2>1, <3>4, <3>5, <3>6
  <2> QED BY <2>4, <2>8, <2>9, <2>10
<1> QED BY <1>1, <1>5, <1>6, <1>7

LEMMA LeftStays ==
  ASSUME Bounds, UNCHANGED <<happened, atStart>>
  PROVE  \A m, owed : LeftAfter(m, owed)' = LeftAfter(m, owed)
BY DEF LeftAfter, Income, IncomesBetween, IncomesOf

LEMMA CurrentIs ==
  ASSUME Bounds, NEW s \in Pairs, NEW id \in 0 .. MaxTrades, SetCurrent(s, id)
  PROVE  /\ GetSafe(s)' = id /\ DOMAIN lastCommission' = DOMAIN lastCommission \union {s}
         /\ DOMAIN lastCommission' \subseteq Pairs
         /\ \A t \in DOMAIN lastCommission' : lastCommission'[t] \in 0 .. MaxTrades
         /\ \A t : t # s => /\ GetSafe(t)' = GetSafe(t)
                            /\ t \in DOMAIN lastCommission' <=> t \in DOMAIN lastCommission
<1>1. /\ DOMAIN lastCommission \subseteq Pairs
      /\ \A t \in DOMAIN lastCommission : lastCommission[t] \in 0 .. MaxTrades
  BY DEF Bounds, BinanceTypeOK
<1>2. lastCommission' = [t \in DOMAIN lastCommission \union {s} |-> IF t = s THEN id ELSE lastCommission[t]]
  BY DEF SetCurrent
<1>3. /\ DOMAIN lastCommission' = DOMAIN lastCommission \union {s} /\ lastCommission'[s] = id
      /\ \A t \in DOMAIN lastCommission : t # s => lastCommission'[t] = lastCommission[t]
  BY <1>2
<1> QED BY <1>1, <1>3 DEF GetSafe

-----------------------------------------------------------------------------
(* The steps.                                                              *)

\* What a request for trades adds to the result.
LEMMA JoinedTypes ==
  ASSUME Bounds, NEW s, NEW from \in Nat, execs' = execs \o FetchExecs(s, from)
  PROVE  execs' \in Seq(1 .. MaxTrades) /\ \A i \in DOMAIN execs' : execs'[i] \in 1 .. Len(happened)
<1>1. PICK p : p = FetchExecs(s, from)
  OBVIOUS
<1>2. PICK D : D = 1 .. Len(happened)
  OBVIOUS
<1>3. Happenings /\ \A k \in D : k \in 1 .. MaxTrades
  BY <1>2 DEF Bounds, Happenings
<1>4. p \in Seq(D)
  <2>1. p \in Seq(TradesOf(s))
    BY <1>1, <1>3, FetchReturns
  <2>2. \A id \in TradesOf(s) : id \in D
    BY <1>2, <1>3, TradesAre
  <2> QED BY <2>1, <2>2
<1>5. execs \in Seq(D)
  BY <1>2, SMTT(30) DEF Bounds, BinanceTypeOK
<1>6. execs' \in Seq(D)
  BY <1>1, <1>4, <1>5
<1>7. execs' \in Seq(1 .. MaxTrades)
  <2>1. PICK V : V = 1 .. MaxTrades
    OBVIOUS
  <2>2. \A k \in D : k \in V
    BY <1>3, <2>1
  <2>3. ASSUME NEW e \in Seq(D) PROVE e \in Seq(V)
    BY <2>2
  <2> QED BY <1>6, <2>1, <2>3
<1> QED BY <1>2, <1>6, <1>7

LEMMA BoundsStep ==
  ASSUME Bounds, BinanceNext
  PROVE  Bounds'
<1>0. /\ IncomeLimit \in Nat /\ MaxTrades \in Nat /\ Len(happened) \in Nat /\ Len(happened) <= MaxTrades
      /\ Happenings /\ happened \in Seq(Events)
      /\ since \in 0 .. MaxTrades /\ startTime \in 0 .. since /\ atStart \in 0 .. MaxTrades
      /\ since <= atStart /\ atStart <= Len(happened) /\ startTime = ParseDatetime(since)
      /\ asking \in BOOLEAN /\ done \subseteq Pairs
      /\ DOMAIN lastCommission \subseteq Pairs
      /\ \A s \in DOMAIN lastCommission : lastCommission[s] \in 0 .. MaxTrades
      /\ incomes \in Seq(IncomesType)
      /\ execs \in Seq(1 .. MaxTrades)
      /\ \A i \in DOMAIN execs : execs[i] \in 1 .. Len(happened)
  BY BinanceAssumption DEF Bounds, BinanceTypeOK, Happenings
<1>1. CASE Traded
  <2>1. /\ Len(happened') = Len(happened) + 1
        /\ happened' \in Seq(Events) /\ Len(happened') <= MaxTrades
    BY <1>1, OneMore
  <2>2. UNCHANGED <<since, startTime, incomes, asking, done, lastCommission, execs, atStart>>
    BY <1>1 DEF Traded
  <2>3. \A n \in 1 .. Len(happened) : n \in 1 .. Len(happened')
    BY <1>0, <2>1
  <2>4. atStart' <= Len(happened')
    BY <1>0, <2>1, <2>2
  <2>5. incomes' \in Seq(IncomesType')
    <3>1. \A x \in IncomesType : x \in IncomesType'
      BY <2>3 DEF IncomesType
    <3>2. PICK T, V : T = IncomesType /\ V = IncomesType'
      OBVIOUS
    <3>3. incomes \in Seq(T) /\ \A x \in T : x \in V
      BY <1>0, <3>1, <3>2
    <3>4. incomes \in Seq(V)
      BY <3>3
    <3> QED BY <2>2, <3>2, <3>4
  <2>6. BinanceTypeOK'
    BY <1>0, <2>1, <2>2 DEF BinanceTypeOK
  <2>7. \A i \in DOMAIN execs' : execs'[i] \in 1 .. Len(happened')
    BY <1>0, <2>2, <2>3
  <2>8. Happenings'
    BY <1>0, <2>1 DEF Happenings
  <2>9. since' <= atStart' /\ startTime' = ParseDatetime(since')
    BY <1>0, <2>2
  <2> QED BY <2>4, <2>5, <2>6, <2>7, <2>8, <2>9 DEF Bounds
<1>2. ASSUME UNCHANGED happened, BinanceTypeOK', since' <= atStart', atStart' <= Len(happened),
             startTime' = ParseDatetime(since'),
             incomes' \in Seq(IncomesType), \A i \in DOMAIN execs' : execs'[i] \in 1 .. Len(happened)
      PROVE  Bounds'
  <2>1. IncomesType' = IncomesType
    BY <1>2 DEF IncomesType
  <2>2. Happenings'
    BY <1>0, <1>2 DEF Happenings
  <2> QED BY <1>2, <2>1, <2>2 DEF Bounds
<1>3. CASE Ask
  <2>0. since' \in 0 .. Len(happened) /\ startTime' = ParseDatetime(since')
    BY <1>3 DEF Ask
  <2>1. PICK g \in 0 .. Len(happened) : g = startTime' /\ g \in 0 .. since'
    <3>1. since' \in Nat
      BY <1>0, <2>0
    <3>2. startTime' \in 0 .. since'
      BY <2>0, <3>1, Seconds
    <3> QED BY <1>0, <2>0, <3>2
  <2>2. PICK all : all = IncomesBetween(g, Len(happened))
    OBVIOUS
  <2>3. all \in Seq(IncomesType)
    <3>1. PICK a \in Nat : a = Len(happened)
      BY <1>0
    <3>2. g \in 0 .. a /\ a <= Len(happened)
      BY <1>0, <3>1
    <3>3. IncomesBetween(g, a) \in Seq(IncomesType)
      BY <1>0, <3>2, ListingTypes
    <3> QED BY <2>2, <3>1, <3>3
  <2>4. PICK n \in Nat : n = Min({IncomeLimit, Len(all)}) /\ n <= Len(all)
    <3>1. Len(all) \in Nat
      BY <2>3
    <3> QED BY <1>0, <3>1, MinOfTwo
  <2>5. incomes' = SubSeq(all, 1, n)
    BY <1>3, <2>1, <2>2, <2>4 DEF Ask, IncomesSince
  <2>6. incomes' \in Seq(IncomesType)
    <3>1. PICK T : T = IncomesType
      OBVIOUS
    <3>2. all \in Seq(T)
      BY <2>3, <3>1
    <3>3. \A i \in 1 .. n : all[i] \in T
      BY <2>4, <3>2
    <3>4. SubSeq(all, 1, n) \in Seq(T)
      <4>1. 1 \in Int /\ n \in Int
        OBVIOUS
      <4> QED BY <3>3, <4>1, SubSeqProperties
    <3> QED BY <2>5, <3>1, <3>4
  <2>7. /\ UNCHANGED happened /\ atStart' = Len(happened)
        /\ asking' = TRUE /\ done' = {} /\ lastCommission' = <<>> /\ execs' = <<>>
    BY <1>3 DEF Ask
  <2>8. DOMAIN lastCommission' = {} /\ DOMAIN execs' = {} /\ execs' \in Seq(1 .. MaxTrades)
    BY <2>7
  <2>9. BinanceTypeOK'
    BY <1>0, <2>0, <2>1, <2>7, <2>8 DEF BinanceTypeOK
  <2>10. since' <= atStart' /\ atStart' <= Len(happened)
    BY <1>0, <2>0, <2>7
  <2> QED BY <1>2, <2>0, <2>6, <2>7, <2>8, <2>9, <2>10
<1>4. CASE FirstCommission
  <2>1. /\ incomes # <<>> /\ incomes' = Tail(incomes)
        /\ UNCHANGED <<happened, since, startTime, asking, atStart>>
    BY <1>4 DEF FirstCommission
  <2>2. PICK s, id : s = Head(incomes).symbol /\ id = Head(incomes).id
    OBVIOUS
  <2>3. /\ s \in Pairs /\ id \in 1 .. Len(happened) /\ id \in 1 .. MaxTrades
        /\ incomes' \in Seq(IncomesType)
    BY <2>1, <2>2, FirstLeft
  <2>4. done' \subseteq Pairs
    BY <1>0, <1>4, <2>2, <2>3 DEF FirstCommission
  <2>5. /\ DOMAIN lastCommission' \subseteq Pairs
        /\ \A t \in DOMAIN lastCommission' : lastCommission'[t] \in 0 .. MaxTrades
    <3>1. SetCurrent(s, id) \/ UNCHANGED lastCommission
      BY <1>4, <2>2 DEF FirstCommission
    <3>2. id \in 0 .. MaxTrades
      BY <2>3
    <3>3. CASE SetCurrent(s, id)
      BY <2>3, <3>2, <3>3, CurrentIs
    <3> QED BY <1>0, <3>1, <3>3
  <2>6. GetSafe(s) \in Nat /\ id \in Nat
    BY <1>0, <2>3 DEF GetSafe, NoTrade
  <2>7. execs' \in Seq(1 .. MaxTrades) /\ \A i \in DOMAIN execs' : execs'[i] \in 1 .. Len(happened)
    <3>1. \/ UNCHANGED execs
          \/ execs' = execs \o FetchExecs(s, id)
          \/ execs' = execs \o FetchExecs(s, GetSafe(s))
      BY <1>4, <2>2 DEF FirstCommission
    <3> QED BY <1>0, <2>6, <3>1, JoinedTypes
  <2>8. BinanceTypeOK'
    BY <1>0, <2>1, <2>4, <2>5, <2>7 DEF BinanceTypeOK
  <2> QED BY <1>0, <1>2, <2>1, <2>3, <2>7, <2>8
<1>5. CASE RealizedPnl
  <2>1. /\ incomes # <<>> /\ incomes' = Tail(incomes)
        /\ UNCHANGED <<happened, since, startTime, asking, done, execs, atStart>>
    BY <1>5 DEF RealizedPnl
  <2>2. Head(incomes).symbol \in Pairs /\ incomes' \in Seq(IncomesType)
    BY <2>1, FirstLeft
  <2>3. /\ DOMAIN lastCommission' \subseteq Pairs
        /\ \A t \in DOMAIN lastCommission' : lastCommission'[t] \in 0 .. MaxTrades
    <3>1. SetCurrent(Head(incomes).symbol, NoTrade) \/ UNCHANGED lastCommission
      BY <1>5 DEF RealizedPnl
    <3>2. NoTrade \in 0 .. MaxTrades
      BY <1>0 DEF NoTrade
    <3>3. CASE SetCurrent(Head(incomes).symbol, NoTrade)
      BY <2>2, <3>2, <3>3, CurrentIs
    <3> QED BY <1>0, <3>1, <3>3
  <2>4. BinanceTypeOK'
    BY <1>0, <2>1, <2>3 DEF BinanceTypeOK
  <2> QED BY <1>0, <1>2, <2>1, <2>2, <2>4
<1>6. CASE InsuranceClear
  <2>1. /\ incomes # <<>> /\ incomes' = Tail(incomes) /\ execs' = Append(execs, Head(incomes).id)
        /\ UNCHANGED <<happened, since, startTime, asking, done, lastCommission, atStart>>
    BY <1>6 DEF InsuranceClear
  <2>2. /\ Head(incomes).id \in 1 .. Len(happened) /\ Head(incomes).id \in 1 .. MaxTrades
        /\ incomes' \in Seq(IncomesType)
    BY <2>1, FirstLeft
  <2>3. execs' \in Seq(1 .. MaxTrades) /\ \A i \in DOMAIN execs' : execs'[i] \in 1 .. Len(happened)
    BY <1>0, <2>1, <2>2
  <2>4. BinanceTypeOK'
    BY <1>0, <2>1, <2>3 DEF BinanceTypeOK
  <2> QED BY <1>0, <1>2, <2>1, <2>2, <2>3, <2>4
<1>7. CASE FetchRest
  <2>1. UNCHANGED <<happened, since, startTime, incomes, asking, lastCommission, atStart>>
    BY <1>7 DEF FetchRest
  <2>2. PICK s \in DOMAIN lastCommission : /\ done' = done \union {s}
                                            /\ execs' = execs \o FetchExecs(s, lastCommission[s])
    BY <1>7 DEF FetchRest
  <2>3. s \in Pairs /\ lastCommission[s] \in Nat
    BY <1>0
  <2>4. execs' \in Seq(1 .. MaxTrades) /\ \A i \in DOMAIN execs' : execs'[i] \in 1 .. Len(happened)
    BY <2>2, <2>3, JoinedTypes
  <2>5. BinanceTypeOK'
    BY <1>0, <2>1, <2>2, <2>3, <2>4 DEF BinanceTypeOK
  <2> QED BY <1>0, <1>2, <2>1, <2>4, <2>5
<1>8. CASE Fails
  <2>1. /\ asking' = FALSE /\ execs' = <<>>
        /\ UNCHANGED <<happened, since, startTime, incomes, done, lastCommission, atStart>>
    BY <1>8 DEF Fails
  <2>2. DOMAIN execs' = {} /\ execs' \in Seq(1 .. MaxTrades)
    BY <2>1
  <2>3. BinanceTypeOK'
    BY <1>0, <2>1, <2>2 DEF BinanceTypeOK
  <2> QED BY <1>0, <1>2, <2>1, <2>2, <2>3
<1>9. CASE Return
  <2>1. asking' = FALSE /\ UNCHANGED <<happened, since, startTime, incomes, done, lastCommission, execs, atStart>>
    BY <1>9 DEF Return
  <2>2. BinanceTypeOK'
    BY <1>0, <2>1 DEF BinanceTypeOK
  <2> QED BY <1>0, <1>2, <2>1, <2>2
<1> QED BY <1>1, <1>3, <1>4, <1>5, <1>6, <1>7, <1>8, <1>9 DEF BinanceNext

LEMMA ListedLater ==
  ASSUME Bounds, Traded
  PROVE  /\ AllListed' <=> AllListed
         /\ \A m \in 0 .. atStart : IncomesBetween(m, atStart)' = IncomesBetween(m, atStart)
<1>1. PICK a \in Nat, g \in Nat : a = atStart /\ g = startTime /\ a <= Len(happened) /\ g <= a
  BY DEF Bounds, BinanceTypeOK
<1>2. UNCHANGED <<since, startTime, atStart>> /\ \A id \in 1 .. Len(happened) : happened'[id] = happened[id]
  BY OneMore DEF Traded
<1>3. \A m \in 0 .. a : IncomesBetween(m, a)' = IncomesBetween(m, a)
  BY <1>1, <1>2, StillIncomes DEF Bounds
<1>4. ASSUME NEW m \in 0 .. a
      PROVE  /\ IncomesBetween(m, atStart)' = IncomesBetween(m, a)'
             /\ IncomesBetween(m, atStart) = IncomesBetween(m, a)
  BY <1>1, <1>2 DEF IncomesBetween
<1>5. IncomesBetween(startTime, atStart)' = IncomesBetween(g, a)'
  BY <1>1, <1>2 DEF IncomesBetween
<1>6. IncomesBetween(startTime, atStart) = IncomesBetween(g, a)
  BY <1>1
<1>7. AllListed' <=> AllListed
  <2>1. g \in 0 .. a
    BY <1>1
  <2>2. IncomesBetween(startTime, atStart)' = IncomesBetween(startTime, atStart)
    BY <1>3, <1>5, <1>6, <2>1
  <2> QED BY <2>2 DEF AllListed
<1> QED BY <1>1, <1>3, <1>4, <1>7

LEMMA TradedReads ==
  ASSUME Bounds, Traded, NEW m, NEW owed, ReadUpTo(m, owed)
  PROVE  ReadUpTo(m, owed)'
<1>1. /\ m \in Nat /\ m \in 0 .. atStart /\ m \in startTime .. atStart /\ owed \in {0, 1}
      /\ atStart <= Len(happened) /\ atStart \in Nat /\ Len(happened) \in Nat
  BY NextIncome DEF Bounds, BinanceTypeOK, ReadUpTo, Happenings
<1>2. /\ UNCHANGED <<since, startTime, incomes, done, atStart>>
      /\ \A id \in 1 .. Len(happened) : happened'[id] = happened[id]
  BY OneMore DEF Traded
<1>3. owed = 1 => m # 0 /\ happened[m][1] = "close" /\ happened'[m] = happened[m]
  BY <1>1, <1>2 DEF ReadUpTo
<1>4. LeftAfter(m, owed)' = LeftAfter(m, owed)
  <2>1. IncomesBetween(m, atStart)' = IncomesBetween(m, atStart)
    BY <1>1, ListedLater
  <2>2. owed = 1 => Income("REALIZED_PNL", m)' = Income("REALIZED_PNL", m)
    BY <1>3 DEF Income
  <2>3. CASE owed = 1
    BY <2>1, <2>2, <2>3 DEF LeftAfter
  <2>4. CASE owed = 0
    BY <2>1, <2>4 DEF LeftAfter
  <2> QED BY <1>1, <2>3, <2>4
<1>5. incomes' = LeftAfter(m, owed)'
  BY <1>2, <1>4 DEF ReadUpTo
<1>6. m <= Len(happened)
  BY <1>1
<1>7. ASSUME NEW s \in Pairs
      PROVE  (s \in done => WholeOf(s)')  /\ (s \notin done => Waits(s, m, owed)')
  BY <1>1, <1>6, WholeLater, WaitsLater DEF ReadUpTo
<1> QED BY <1>1, <1>2, <1>3, <1>5, <1>7 DEF ReadUpTo

\* What the symbols need for the next income.
LEMMA NextReads ==
  ASSUME Bounds, UNCHANGED <<happened, since, startTime, atStart>>,
         NEW m, NEW owed, m \in startTime .. atStart, owed \in {0, 1},
         owed = 1 => m # 0 /\ happened[m][1] = "close",
         incomes' = LeftAfter(m, owed),
         \A s \in Pairs : (s \in done' => WholeOf(s)') /\ (s \notin done' => Waits(s, m, owed)')
  PROVE  ReadUpTo(m, owed)'
BY LeftStays DEF ReadUpTo

\* The result has nothing more of a symbol.
LEMMA UntouchedOf ==
  ASSUME Bounds, NEW s, UNCHANGED <<happened, since, startTime, atStart>>,
         \/ UNCHANGED execs
         \/ \E t : \E from \in Nat : t # s /\ execs' = execs \o FetchExecs(t, from)
         \/ \E id : id \notin TradesOf(s) /\ execs' = Append(execs, id)
  PROVE  PlacesOf(s)' = PlacesOf(s) /\ (WholeOf(s) => WholeOf(s)')
<1>1. CASE UNCHANGED execs
  <2>1. PlacesOf(s)' = PlacesOf(s) /\ Got(s)' = Got(s) /\ \A i \in PlacesOf(s) : execs'[i] = execs[i]
    BY <1>1 DEF PlacesOf, Got, TradesOf
  <2> QED BY <2>1, WholeStays
<1>2. ASSUME NEW t, NEW from \in Nat, t # s, execs' = execs \o FetchExecs(t, from)
      PROVE  PlacesOf(s)' = PlacesOf(s) /\ (WholeOf(s) => WholeOf(s)')
  <2>1. PICK p : p = FetchExecs(t, from)
    OBVIOUS
  <2>2. Len(p) \in Nat /\ \A k \in 1 .. Len(p) : p[k] \in TradesOf(t)
    BY <2>1, FetchReturns DEF Bounds
  <2>3. \A k \in 1 .. Len(p) : p[k] \notin TradesOf(s)
    <3>1. Happenings
      BY DEF Bounds
    <3> QED BY <1>2, <2>2, <3>1, TradesAre
  <2>4. execs' = execs \o p
    BY <1>2, <2>1
  <2> QED BY <2>2, <2>3, <2>4, OthersJoin, WholeStays
<1>3. ASSUME NEW id, id \notin TradesOf(s), execs' = Append(execs, id)
      PROVE  PlacesOf(s)' = PlacesOf(s) /\ (WholeOf(s) => WholeOf(s)')
  <2>1. PICK q : q = <<id>>
    OBVIOUS
  <2>2. Len(q) \in Nat /\ \A k \in 1 .. Len(q) : q[k] \notin TradesOf(s)
    BY <1>3, <2>1
  <2>3. execs' = execs \o q
    <3>1. execs \in Seq(1 .. MaxTrades)
      BY DEF Bounds, BinanceTypeOK
    <3> QED BY <1>3, <2>1, <3>1
  <2> QED BY <2>2, <2>3, OthersJoin, WholeStays
<1> QED BY <1>1, <1>2, <1>3

LEMMA AskReads ==
  ASSUME Bounds, Ask, AllListed'
  PROVE  \E n : ReadUpTo(n, 0)'
<1>0. since' \in 0 .. Len(happened) /\ startTime' = ParseDatetime(since') /\ Len(happened) \in Nat
  BY DEF Ask, Bounds, Happenings
<1>1. PICK g \in 0 .. Len(happened) : g = startTime' /\ (since' = 0 => g = 0)
  <2>1. startTime' \in 0 .. since' /\ since' \in Nat
    BY <1>0, Seconds
  <2> QED BY <1>0, <2>1
<1>2. PICK a \in Nat : a = Len(happened)
  BY DEF Bounds, Happenings
<1>3. /\ UNCHANGED happened /\ atStart' = a /\ done' = {} /\ lastCommission' = <<>> /\ execs' = <<>>
  BY <1>2 DEF Ask
<1>4. PICK all : all = IncomesBetween(g, a)
  OBVIOUS
<1>5. all \in Seq(IncomesType)
  <2>1. g \in 0 .. a /\ a <= Len(happened)
    BY <1>1, <1>2
  <2> QED BY <1>4, <2>1, ListingTypes DEF Bounds
<1>6. IncomesBetween(startTime, atStart)' = all
  BY <1>1, <1>3, <1>4 DEF IncomesBetween, IncomesOf, Income
<1>7. Len(all) \in Nat /\ Len(all) <= IncomeLimit
  BY <1>5, <1>6 DEF AllListed
<1>8. incomes' = all
  <2>1. Min({IncomeLimit, Len(all)}) = Len(all)
    <3>1. IncomeLimit \in Nat
      BY BinanceAssumption
    <3>2. PICK n : n = Min({IncomeLimit, Len(all)}) /\ n \in {IncomeLimit, Len(all)} /\ n <= Len(all)
      BY <1>7, <3>1, MinOfTwo
    <3>3. n = Len(all)
      BY <1>7, <3>1, <3>2
    <3> QED BY <3>2, <3>3
  <2>2. incomes' = SubSeq(all, 1, Len(all))
    BY <1>1, <1>2, <1>4, <2>1 DEF Ask, IncomesSince
  <2>3. PICK T : T = IncomesType
    OBVIOUS
  <2>4. all \in Seq(T)
    BY <1>5, <2>3
  <2>5. SubSeq(all, 1, Len(all)) = all
    BY <2>4
  <2> QED BY <2>2, <2>5
<1>9. incomes' = LeftAfter(g, 0)'
  BY <1>1, <1>6, <1>8 DEF LeftAfter, IncomesBetween
<1>10. ASSUME NEW s \in Pairs PROVE Waits(s, g, 0)'
  <2>1. PlacesOf(s)' = {}
    BY <1>3 DEF PlacesOf
  <2>2. s \notin DOMAIN lastCommission' /\ GetSafe(s)' = NoTrade
    BY <1>3 DEF GetSafe
  <2>3. TradesOf(s)' = TradesOf(s) /\ \A id \in TradesOf(s) : id \in Nat /\ id # 0
    <3>1. \A id \in TradesOf(s) : id \in 1 .. Len(happened)
      BY TradesAre DEF Bounds
    <3> QED BY <1>3, <3>1 DEF TradesOf
  <2>4. \A id \in TradesOf(s)' : ~ id <= 0
    BY <2>3
  <2>5. g \in Nat /\ (since' = 0 => g = 0) /\ (\A id \in TradesOf(s)' : startTime' < id => g < id)
    BY <1>1
  <2> QED BY <2>1, <2>2, <2>4, <2>5 DEF Waits
<1>11. g \in startTime' .. atStart'
  BY <1>1, <1>2, <1>3
<1>12. ReadUpTo(g, 0)'
  BY <1>3, <1>9, <1>10, <1>11 DEF ReadUpTo
<1> QED BY <1>12

LEMMA CommissionReads ==
  ASSUME Bounds, FirstCommission, NEW m, NEW owed, ReadUpTo(m, owed)
  PROVE  \E n, after : ReadUpTo(n, after)'
<1>1. /\ incomes # <<>> /\ Head(incomes).type = "COMMISSION" /\ incomes' = Tail(incomes)
      /\ UNCHANGED <<happened, since, startTime, asking, atStart>>
  BY DEF FirstCommission
<1>0. /\ m \in Nat /\ m \in 0 .. atStart
      /\ incomes = <<>> => owed = 0 /\ m = atStart
      /\ incomes # <<>> /\ owed = 1 =>
            Head(incomes) = Income("REALIZED_PNL", m) /\ Tail(incomes) = LeftAfter(m, 0)
      /\ incomes # <<>> /\ owed = 0 =>
            /\ m + 1 \in 1 .. atStart
            /\ Head(incomes) = Income(IF happened[m + 1][1] = "clear" THEN "INSURANCE_CLEAR"
                                      ELSE "COMMISSION", m + 1)
            /\ Tail(incomes) = LeftAfter(m + 1, Owed(m + 1))
  BY NextIncome
<1>2. owed = 0
  <2> SUFFICES ASSUME owed = 1 PROVE FALSE
    BY DEF ReadUpTo
  <2>1. Head(incomes) = Income("REALIZED_PNL", m)
    BY <1>0, <1>1
  <2> QED BY <1>1, <2>1 DEF Income
<1>3. PICK id, s : id = m + 1 /\ s = happened[id][2]
  OBVIOUS
<1>4. PICK after : after = Owed(id)
  OBVIOUS
<1>5. /\ m \in Nat /\ id \in 1 .. atStart /\ Happenings /\ startTime \in Nat
      /\ atStart \in Nat /\ atStart <= Len(happened) /\ Len(happened) \in Nat
      /\ owed \in {0, 1} /\ owed = 0 /\ m \in startTime .. atStart
  BY <1>0, <1>1, <1>2, <1>3 DEF Bounds, BinanceTypeOK, Happenings, ReadUpTo
<1>6. /\ Head(incomes) = Income(IF happened[id][1] = "clear" THEN "INSURANCE_CLEAR"
                                ELSE "COMMISSION", id)
      /\ Tail(incomes) = LeftAfter(id, after)
  BY <1>0, <1>1, <1>2, <1>3, <1>4
<1>7. /\ happened[id][1] # "clear"
      /\ Head(incomes).symbol = s /\ Head(incomes).id = id
  BY <1>1, <1>3, <1>6 DEF Income
<1>8. id \in TradesOf(s) /\ s \in Pairs /\ id \in 1 .. MaxTrades /\ id \in 1 .. Len(happened)
      /\ happened[id][1] \in {"open", "close"}
  <2>1. id \in 1 .. Len(happened) /\ DOMAIN happened = 1 .. Len(happened)
    BY <1>5 DEF Happenings
  <2> QED BY <1>3, <1>5, <1>7, <2>1, EventIs DEF TradesOf
<1>9. after \in {0, 1} /\ (after = 1 => id # 0 /\ happened[id][1] = "close") /\ id \in startTime .. atStart
  BY <1>4, <1>5, <1>3 DEF Owed
<1>10. incomes' = LeftAfter(id, after)
  BY <1>1, <1>6
<1>11. \A t \in Pairs : (t \in done => WholeOf(t)) /\ (t \notin done => Waits(t, m, owed))
  BY DEF ReadUpTo
<1>12. \A t : t # s => id \notin TradesOf(t)
  BY <1>3 DEF TradesOf
<1>13. /\ \A t \in TradesOf(s) : t \in Int
       /\ GetSafe(s) \in Nat
  <2>1. \A t \in TradesOf(s) : t \in Int
    BY <1>5, TradesAre
  <2> QED BY <2>1 DEF GetSafe, NoTrade, Bounds, BinanceTypeOK
\* The other symbols.
<1>14. ASSUME NEW t \in Pairs, t # s, t \notin done, PlacesOf(t)' = PlacesOf(t),
              GetSafe(t)' = GetSafe(t), t \in DOMAIN lastCommission' <=> t \in DOMAIN lastCommission
       PROVE  Waits(t, id, after)'
  <2>1. Waits(t, m, owed) /\ id \in {m, m + 1} /\ (id # m => id \notin TradesOf(t))
    BY <1>3, <1>11, <1>12, <1>14
  <2> QED BY <1>1, <1>5, <1>9, <1>14, <2>1, WaitsStill
<1>15. CASE s \in done
  <2>1. UNCHANGED <<done, execs, lastCommission>>
    BY <1>7, <1>15 DEF FirstCommission
  <2>2. \A t : PlacesOf(t)' = PlacesOf(t) /\ GetSafe(t)' = GetSafe(t) /\ (WholeOf(t) => WholeOf(t)')
    BY <1>1, <2>1, UntouchedOf DEF GetSafe
  <2>3. \A t \in Pairs : (t \in done' => WholeOf(t)') /\ (t \notin done' => Waits(t, id, after)')
    BY <1>11, <1>14, <1>15, <2>1, <2>2
  <2> QED BY <1>1, <1>9, <1>10, <2>3, NextReads
<1>16. CASE s \notin done /\ (GetSafe(s) # NoTrade \/ since # 0)
  <2>1. PICK from : from = IF since # 0 THEN id ELSE GetSafe(s)
    OBVIOUS
  <2>2. done' = done \union {s} /\ execs' = execs \o FetchExecs(s, from) /\ SetCurrent(s, id)
    BY <1>7, <1>16, <2>1 DEF FirstCommission
  <2>3. Waits(s, m, owed)
    BY <1>8, <1>11, <1>16
  <2>4. /\ from \in TradesOf(s)
        /\ \/ /\ since # 0 /\ startTime < from
              /\ \A t \in TradesOf(s) : startTime < t => from <= t
           \/ /\ since = 0 /\ happened[from][1] = "open"
              /\ \A t \in TradesOf(s) : t < from => happened[t][1] = "close"
    <3>1. CASE since # 0
      <4>1. from = id /\ startTime < id
        BY <1>3, <1>5, <2>1, <3>1
      <4>2. \A t \in TradesOf(s) : startTime < t => m < t
        BY <2>3, <3>1 DEF Waits
      <4>3. \A t \in TradesOf(s) : startTime < t => id <= t
        BY <1>3, <1>5, <1>13, <4>2
      <4> QED BY <1>8, <3>1, <4>1, <4>3
    <3>2. CASE since = 0
      <4>1. from = GetSafe(s) /\ GetSafe(s) # NoTrade
        BY <1>16, <2>1, <3>2
      <4>2. /\ GetSafe(s) \in TradesOf(s) /\ happened[GetSafe(s)][1] = "open"
            /\ \A t \in TradesOf(s) : t < GetSafe(s) => happened[t][1] = "close"
        BY <1>5, <2>3, <3>2, <4>1 DEF Waits
      <4> QED BY <3>2, <4>1, <4>2
    <3> QED BY <3>1, <3>2
  <2>5. Due(s) = {t \in TradesOf(s) : t >= from}
    BY <2>4, DueFrom
  <2>6. PlacesOf(s) = {}
    BY <2>3 DEF Waits
  <2>7. WholeOf(s)'
    BY <1>1, <2>2, <2>4, <2>5, <2>6, WholeFromHere
  <2>8. from \in Nat
    BY <1>5, <2>4, TradesAre
  <2>9. \A t : t # s => PlacesOf(t)' = PlacesOf(t) /\ (WholeOf(t) => WholeOf(t)')
    BY <1>1, <2>2, <2>8, UntouchedOf
  <2>10. \A t : t # s => /\ GetSafe(t)' = GetSafe(t)
                         /\ t \in DOMAIN lastCommission' <=> t \in DOMAIN lastCommission
    <3>1. id \in 0 .. MaxTrades
      BY <1>8
    <3> QED BY <1>8, <2>2, <3>1, CurrentIs
  <2>11. \A t \in Pairs : (t \in done' => WholeOf(t)') /\ (t \notin done' => Waits(t, id, after)')
    BY <1>11, <1>14, <2>2, <2>7, <2>9, <2>10
  <2> QED BY <1>1, <1>9, <1>10, <2>11, NextReads
<1>17. CASE s \notin done /\ GetSafe(s) = NoTrade /\ since = 0
  <2>1. UNCHANGED <<done, execs>> /\ SetCurrent(s, id)
    BY <1>7, <1>17 DEF FirstCommission
  <2>2. \A t : PlacesOf(t)' = PlacesOf(t) /\ (WholeOf(t) => WholeOf(t)')
    BY <1>1, <2>1, UntouchedOf
  <2>3. id \in 0 .. MaxTrades
    BY <1>8
  <2>4. /\ GetSafe(s)' = id
        /\ \A t : t # s => /\ GetSafe(t)' = GetSafe(t)
                           /\ t \in DOMAIN lastCommission' <=> t \in DOMAIN lastCommission
    BY <1>8, <2>1, <2>3, CurrentIs
  <2>5. Waits(s, m, owed)
    BY <1>8, <1>11, <1>17
  <2>6. \A t \in TradesOf(s) : t <= m => happened[t][1] = "close"
    BY <1>17, <2>5 DEF Waits
  <2>7. \A t \in TradesOf(s) : (t < id => happened[t][1] = "close") /\ id <= id /\ (id < t => id < t)
    BY <1>3, <1>5, <1>13, <2>6
  <2>8. TradesOf(s)' = TradesOf(s)
    BY <1>1 DEF TradesOf
  <2>9. happened[id][1] = "open" \/ after = 1
    BY <1>4, <1>8 DEF Owed
  <2>10. id # NoTrade /\ id <= id
    BY <1>5 DEF NoTrade
  <2>11. Waits(s, id, after)'
    <3>1. PlacesOf(s)' = {}
      BY <2>2, <2>5 DEF Waits
    <3> QED BY <1>1, <1>8, <1>17, <2>4, <2>7, <2>8, <2>9, <2>10, <3>1 DEF Waits
  <2>12. \A t \in Pairs : (t \in done' => WholeOf(t)') /\ (t \notin done' => Waits(t, id, after)')
    BY <1>11, <1>14, <1>17, <2>1, <2>2, <2>4, <2>11
  <2> QED BY <1>1, <1>9, <1>10, <2>12, NextReads
<1> QED BY <1>15, <1>16, <1>17

LEMMA ProfitReads ==
  ASSUME Bounds, RealizedPnl, NEW m, NEW owed, ReadUpTo(m, owed)
  PROVE  \E n, after : ReadUpTo(n, after)'
<1>1. /\ incomes # <<>> /\ Head(incomes).type = "REALIZED_PNL" /\ incomes' = Tail(incomes)
      /\ UNCHANGED <<happened, since, startTime, asking, done, execs, atStart>>
  BY DEF RealizedPnl
<1>2. owed = 1
  <2> SUFFICES ASSUME owed = 0 PROVE FALSE
    BY DEF ReadUpTo
  <2>1. Head(incomes) = Income(IF happened[m + 1][1] = "clear" THEN "INSURANCE_CLEAR"
                               ELSE "COMMISSION", m + 1)
    BY <1>1, NextIncome
  <2>2. Head(incomes).type \in {"INSURANCE_CLEAR", "COMMISSION"}
    BY <2>1 DEF Income
  <2> QED BY <1>1, <2>2
<1>3. /\ m \in Nat /\ m \in startTime .. atStart /\ startTime \in Nat /\ m # 0 /\ happened[m][1] = "close"
      /\ Head(incomes) = Income("REALIZED_PNL", m) /\ Tail(incomes) = LeftAfter(m, 0)
      /\ atStart \in Nat /\ atStart <= Len(happened) /\ Len(happened) \in Nat
      /\ Happenings /\ owed \in {0, 1}
  <2>1. /\ m \in Nat /\ Head(incomes) = Income("REALIZED_PNL", m)
        /\ Tail(incomes) = LeftAfter(m, 0)
    BY <1>1, <1>2, NextIncome
  <2>2. m # 0 /\ happened[m][1] = "close"
    BY <1>2 DEF ReadUpTo
  <2>3. /\ startTime \in Nat /\ m \in startTime .. atStart
        /\ atStart \in Nat /\ atStart <= Len(happened) /\ Len(happened) \in Nat
        /\ Happenings /\ owed \in {0, 1}
    BY DEF Bounds, BinanceTypeOK, Happenings, ReadUpTo
  <2> QED BY <2>1, <2>2, <2>3
<1>4. PICK s : s = happened[m][2]
  OBVIOUS
<1>5. Head(incomes).symbol = s /\ Head(incomes).id = m
  BY <1>3, <1>4 DEF Income
<1>6. m \in TradesOf(s) /\ s \in Pairs /\ m \in 1 .. Len(happened) /\ m \in 1 .. MaxTrades
  <2>1. m \in 1 .. Len(happened) /\ DOMAIN happened = 1 .. Len(happened)
    BY <1>3 DEF Happenings
  <2> QED BY <1>3, <1>4, <2>1, EventIs DEF TradesOf
<1>7. \A t : t # s => m \notin TradesOf(t)
  BY <1>4 DEF TradesOf
<1>8. \A t \in Pairs : (t \in done => WholeOf(t)) /\ (t \notin done => Waits(t, m, owed))
  BY DEF ReadUpTo
<1>9. \A t : PlacesOf(t)' = PlacesOf(t) /\ (WholeOf(t) => WholeOf(t)')
  BY <1>1, UntouchedOf
<1>10. ASSUME NEW t \in Pairs, t \notin done, GetSafe(t) = m PROVE t = s /\ since = 0
  <2>1. Waits(t, m, owed) /\ m # NoTrade
    BY <1>3, <1>8, <1>10 DEF NoTrade
  <2>2. since = 0
    <3>1. since # 0 => t \notin DOMAIN lastCommission
      BY <2>1 DEF Waits
    <3>2. t \notin DOMAIN lastCommission => GetSafe(t) = NoTrade
      BY DEF GetSafe
    <3> QED BY <1>10, <2>1, <3>1, <3>2
  <2>3. m \in TradesOf(t)
    BY <1>10, <2>1, <2>2 DEF Waits
  <2> QED BY <1>7, <2>2, <2>3
<1>11. ASSUME NEW t \in Pairs, t \notin done, GetSafe(t) # m, GetSafe(t)' = GetSafe(t),
              t \in DOMAIN lastCommission' <=> t \in DOMAIN lastCommission
       PROVE  Waits(t, m, 0)'
  <2>1. Waits(t, m, owed) /\ m \in {m, m + 1} /\ 0 \in {0, 1}
    BY <1>8, <1>11
  <2> QED BY <1>1, <1>3, <1>9, <1>11, <2>1, WaitsStill
<1>12. incomes' = LeftAfter(m, 0)
  BY <1>1, <1>3
<1>13. CASE s \notin done /\ GetSafe(s) = m
  <2>1. SetCurrent(s, NoTrade)
    BY <1>5, <1>13 DEF RealizedPnl
  <2>2. NoTrade \in 0 .. MaxTrades
    BY BinanceAssumption DEF NoTrade
  <2>3. /\ GetSafe(s)' = NoTrade
        /\ \A t : t # s => /\ GetSafe(t)' = GetSafe(t)
                           /\ t \in DOMAIN lastCommission' <=> t \in DOMAIN lastCommission
    BY <1>6, <2>1, <2>2, CurrentIs
  <2>4. since = 0 /\ Waits(s, m, owed) /\ m # NoTrade
    BY <1>3, <1>6, <1>8, <1>10, <1>13 DEF NoTrade
  <2>5. \A t \in TradesOf(s) : t < m => happened[t][1] = "close"
    BY <1>13, <2>4 DEF Waits
  <2>6. \A t \in TradesOf(s) : t <= m => happened[t][1] = "close"
    <3>1. \A t \in TradesOf(s) : t \in Int
      BY <1>3, TradesAre
    <3> QED BY <1>3, <2>5, <3>1
  <2>7. TradesOf(s)' = TradesOf(s)
    BY <1>1 DEF TradesOf
  <2>8. PlacesOf(s)' = {}
    BY <1>9, <2>4 DEF Waits
  <2>9. Waits(s, m, 0)'
    BY <1>1, <2>3, <2>4, <2>6, <2>7, <2>8 DEF Waits
  <2>10. ASSUME NEW t \in Pairs
         PROVE  (t \in done' => WholeOf(t)') /\ (t \notin done' => Waits(t, m, 0)')
    <3>1. CASE t = s
      BY <1>1, <1>13, <2>9, <3>1
    <3>2. CASE t # s
      BY <1>1, <1>8, <1>9, <1>10, <1>11, <2>3, <3>2
    <3> QED BY <3>1, <3>2
  <2>11. ReadUpTo(m, 0)'
    BY <1>1, <1>3, <1>12, <2>10, NextReads
  <2> QED BY <2>11
<1>14. CASE ~(s \notin done /\ GetSafe(s) = m)
  <2>1. UNCHANGED lastCommission
    BY <1>5, <1>14 DEF RealizedPnl
  <2>2. ASSUME NEW t \in Pairs
        PROVE  (t \in done' => WholeOf(t)') /\ (t \notin done' => Waits(t, m, 0)')
    <3>1. GetSafe(t)' = GetSafe(t) /\ (t \in DOMAIN lastCommission' <=> t \in DOMAIN lastCommission)
      BY <2>1 DEF GetSafe
    <3> QED BY <1>1, <1>8, <1>9, <1>10, <1>11, <1>14, <3>1
  <2>3. ReadUpTo(m, 0)'
    BY <1>1, <1>3, <1>12, <2>2, NextReads
  <2> QED BY <2>3
<1> QED BY <1>13, <1>14

LEMMA ClearReads ==
  ASSUME Bounds, InsuranceClear, NEW m, NEW owed, ReadUpTo(m, owed)
  PROVE  \E n, after : ReadUpTo(n, after)'
<1>1. /\ incomes # <<>> /\ Head(incomes).type = "INSURANCE_CLEAR" /\ incomes' = Tail(incomes)
      /\ execs' = Append(execs, Head(incomes).id)
      /\ UNCHANGED <<happened, since, startTime, asking, done, lastCommission, atStart>>
  BY DEF InsuranceClear
<1>2. owed = 0
  <2> SUFFICES ASSUME owed = 1 PROVE FALSE
    BY DEF ReadUpTo
  <2>1. Head(incomes) = Income("REALIZED_PNL", m)
    BY <1>1, NextIncome
  <2> QED BY <1>1, <2>1 DEF Income
<1>3. PICK id : id = m + 1
  OBVIOUS
<1>4. /\ m \in Nat /\ id \in 1 .. atStart /\ startTime \in Nat /\ m \in startTime .. atStart
      /\ atStart \in Nat /\ atStart <= Len(happened) /\ Len(happened) \in Nat
      /\ Tail(incomes) = LeftAfter(id, Owed(id))
      /\ Head(incomes) = Income(IF happened[id][1] = "clear" THEN "INSURANCE_CLEAR"
                                ELSE "COMMISSION", id)
  <2>1. /\ m \in Nat /\ m + 1 \in 1 .. atStart /\ Tail(incomes) = LeftAfter(m + 1, Owed(m + 1))
        /\ Head(incomes) = Income(IF happened[m + 1][1] = "clear" THEN "INSURANCE_CLEAR"
                                  ELSE "COMMISSION", m + 1)
    BY <1>1, <1>2, NextIncome
  <2>2. /\ startTime \in Nat /\ m \in startTime .. atStart
        /\ atStart \in Nat /\ atStart <= Len(happened) /\ Len(happened) \in Nat
    BY DEF Bounds, BinanceTypeOK, Happenings, ReadUpTo
  <2> QED BY <1>3, <2>1, <2>2
<1>5. happened[id][1] = "clear" /\ Head(incomes).id = id
  BY <1>1, <1>4 DEF Income
<1>6. Owed(id) = 0 /\ id \in startTime .. atStart
  BY <1>3, <1>4, <1>5 DEF Owed
<1>7. \A t : id \notin TradesOf(t)
  BY <1>5 DEF TradesOf
<1>8. \A t : PlacesOf(t)' = PlacesOf(t) /\ (WholeOf(t) => WholeOf(t)')
  BY <1>1, <1>5, <1>7, UntouchedOf
<1>9. \A t : GetSafe(t)' = GetSafe(t) /\ (t \in DOMAIN lastCommission' <=> t \in DOMAIN lastCommission)
  BY <1>1 DEF GetSafe
<1>10. ASSUME NEW t \in Pairs
       PROVE  (t \in done' => WholeOf(t)') /\ (t \notin done' => Waits(t, id, 0)')
  <2>1. (t \in done => WholeOf(t)) /\ (t \notin done => Waits(t, m, owed))
    BY DEF ReadUpTo
  <2>2. id \in {m, m + 1} /\ 0 \in {0, 1} /\ owed \in {0, 1}
    BY <1>2, <1>3
  <2>3. UNCHANGED <<happened, since, startTime>> /\ (id # m => id \notin TradesOf(t))
        /\ owed # 1
    BY <1>1, <1>2, <1>7
  <2> QED BY <2>3, <1>1, <1>2, <1>4, <1>7, <1>8, <1>9, <2>1, <2>2, WaitsStill
<1>11. incomes' = LeftAfter(id, 0)
  BY <1>1, <1>4, <1>6
<1>12. ReadUpTo(id, 0)'
  BY <1>1, <1>6, <1>10, <1>11, NextReads
<1> QED BY <1>12

LEMMA RestReads ==
  ASSUME Bounds, FetchRest, NEW m, NEW owed, ReadUpTo(m, owed)
  PROVE  \E n, after : ReadUpTo(n, after)'
<1>1. incomes = <<>> /\ UNCHANGED <<happened, since, startTime, incomes, asking, lastCommission, atStart>>
  BY DEF FetchRest
<1>2. PICK s \in DOMAIN lastCommission \ done :
        /\ lastCommission[s] # NoTrade /\ done' = done \union {s}
        /\ execs' = execs \o FetchExecs(s, lastCommission[s])
  BY DEF FetchRest
<1>3. PICK from : from = lastCommission[s]
  OBVIOUS
<1>4. /\ m \in Nat /\ owed = 0 /\ m \in startTime .. atStart /\ s \in Pairs /\ incomes = LeftAfter(m, owed)
      /\ Happenings
  BY <1>1, <1>2, NextIncome DEF Bounds, BinanceTypeOK, ReadUpTo
<1>5. \A t \in Pairs : (t \in done => WholeOf(t)) /\ (t \notin done => Waits(t, m, owed))
  BY DEF ReadUpTo
<1>6. Waits(s, m, owed) /\ GetSafe(s) = from /\ from # NoTrade
  BY <1>2, <1>3, <1>4, <1>5 DEF GetSafe
<1>7. since = 0 /\ PlacesOf(s) = {}
  BY <1>2, <1>6 DEF Waits
<1>8. /\ from \in TradesOf(s) /\ happened[from][1] = "open"
      /\ \A t \in TradesOf(s) : t < from => happened[t][1] = "close"
  BY <1>4, <1>6, <1>7 DEF Waits
<1>9. Due(s) = {t \in TradesOf(s) : t >= from}
  BY <1>7, <1>8, DueFrom
<1>10. execs' = execs \o FetchExecs(s, from) /\ from \in Nat
  BY <1>2, <1>3, <1>4, <1>8, TradesAre
<1>11. WholeOf(s)'
  BY <1>1, <1>7, <1>8, <1>9, <1>10, WholeFromHere
<1>12. \A t : t # s => PlacesOf(t)' = PlacesOf(t) /\ (WholeOf(t) => WholeOf(t)')
  BY <1>1, <1>10, UntouchedOf
<1>13. \A t : GetSafe(t)' = GetSafe(t) /\ (t \in DOMAIN lastCommission' <=> t \in DOMAIN lastCommission)
  BY <1>1 DEF GetSafe
<1>14. ASSUME NEW t \in Pairs
       PROVE  (t \in done' => WholeOf(t)') /\ (t \notin done' => Waits(t, m, 0)')
  <2>1. CASE t = s
    BY <1>2, <1>11, <2>1
  <2>2. CASE t # s /\ t \in done
    BY <1>2, <1>5, <1>12, <2>2
  <2>3. CASE t # s /\ t \notin done
    <3>1. Waits(t, m, owed) /\ m \in {m, m + 1} /\ 0 \in {0, 1} /\ owed \in {0, 1}
      BY <1>4, <1>5, <2>3
    <3>2. Waits(t, m, 0)'
      BY <1>1, <1>4, <1>12, <1>13, <2>3, <3>1, WaitsStill
    <3>3. t \notin done'
      BY <1>2, <2>3
    <3> QED BY <3>2, <3>3
  <2> QED BY <2>1, <2>2, <2>3
<1>15. incomes' = LeftAfter(m, 0)
  BY <1>1, <1>4
<1>16. ReadUpTo(m, 0)'
  BY <1>1, <1>4, <1>14, <1>15, NextReads
<1> QED BY <1>16

\* At the end nothing waits.
LEMMA ReturnsWhole ==
  ASSUME Bounds, Return, NEW m, NEW owed, ReadUpTo(m, owed), NEW s \in Pairs
  PROVE  WholeOf(s)'
<1>1. /\ incomes = <<>> /\ DOMAIN lastCommission \subseteq done
      /\ UNCHANGED <<happened, since, startTime, incomes, done, lastCommission, execs, atStart>>
  BY DEF Return
<1>2. owed = 0 /\ m = atStart /\ Happenings
  BY <1>1, NextIncome DEF Bounds
<1>3. WholeOf(s)
  <2>1. CASE s \in done
    BY <2>1 DEF ReadUpTo
  <2>2. CASE s \notin done
    <3>1. Waits(s, m, owed) /\ GetSafe(s) = NoTrade
      BY <1>1, <2>2 DEF ReadUpTo, GetSafe
    <3>2. PlacesOf(s) = {} /\ Got(s) = {}
      BY <3>1 DEF Waits, Got
    <3>3. \A id \in TradesOf(s) : id \in Int
      BY <1>2, TradesAre
    <3>4. ASSUME NEW id \in Due(s) PROVE id > atStart
      <4>1. atStart \in Int
        BY DEF Bounds, BinanceTypeOK
      <4>2. CASE since # 0
        <5>1. id \in TradesOf(s) /\ startTime < id
          <6>1. id \in TradesOf(s) /\ id > startTime
            BY <4>2 DEF Due, Bounds
          <6> QED BY <3>3, <6>1 DEF Bounds, BinanceTypeOK
        <5>2. m < id
          BY <3>1, <4>2, <5>1 DEF Waits
        <5> QED BY <1>2, <3>3, <4>1, <5>1, <5>2
      <4>3. CASE since = 0
        <5>1. id \in TradesOf(s) /\ id \notin Leading(s)
          BY <4>3 DEF Due
        <5>2. \A k \in TradesOf(s) : k <= m => happened[k][1] = "close"
          BY <3>1, <4>3 DEF Waits
        <5> SUFFICES ASSUME id <= atStart PROVE FALSE
          BY <3>3, <4>1, <5>1
        <5>3. \A k \in TradesOf(s) : k <= id => k <= m
          BY <1>2, <3>3, <4>1, <5>1
        <5>4. id \in Leading(s)
          BY <5>1, <5>2, <5>3 DEF Leading
        <5> QED BY <5>1, <5>4
      <4> QED BY <4>2, <4>3
    <3> QED BY <3>2, <3>4 DEF WholeOf
  <2> QED BY <2>1, <2>2
<1>4. PlacesOf(s)' = PlacesOf(s) /\ (WholeOf(s) => WholeOf(s)')
  BY <1>1, UntouchedOf
<1> QED BY <1>3, <1>4

-----------------------------------------------------------------------------
LEMMA BinanceStarts == BinanceInit => BinanceInv
<1> SUFFICES ASSUME BinanceInit PROVE BinanceInv
  OBVIOUS
<1>1. /\ happened = <<>> /\ since = 0 /\ startTime = 0 /\ incomes = <<>> /\ asking = FALSE
      /\ done = {} /\ lastCommission = <<>> /\ execs = <<>> /\ atStart = 0 /\ MaxTrades \in Nat
  BY BinanceAssumption DEF BinanceInit
<1>2. /\ Happenings /\ BinanceTypeOK /\ since <= atStart /\ atStart <= Len(happened)
      /\ startTime = ParseDatetime(since)
  <2>1. Len(happened) = 0 /\ happened \in Seq(Events) /\ execs \in Seq(1 .. MaxTrades)
    BY <1>1, EmptySeq
  <2>2. /\ DOMAIN lastCommission \subseteq Pairs
        /\ \A s \in DOMAIN lastCommission : lastCommission[s] \in 0 .. MaxTrades
    BY <1>1
  <2>3. BinanceTypeOK
    <3>1. 0 \in 0 .. MaxTrades /\ FALSE \in BOOLEAN /\ {} \subseteq Pairs
      BY <1>1
    <3>2. 0 \in 0 .. 0
      OBVIOUS
    <3> QED BY <1>1, <2>1, <2>2, <3>1, <3>2 DEF BinanceTypeOK
  <2>4. Happenings
    BY <1>1, <2>1 DEF Happenings
  <2>5. since <= atStart /\ atStart <= Len(happened)
    BY <1>1, <2>1
  <2>6. ParseDatetime(0) = 0
    <3>1. ParseDatetime(0) \in 0 .. 0
      BY Seconds
    <3> QED BY <3>1
  <2> QED BY <1>1, <2>3, <2>4, <2>5, <2>6
<1>3. incomes \in Seq(IncomesType) /\ \A i \in DOMAIN execs : execs[i] \in 1 .. Len(happened)
  BY <1>1, EmptySeq
<1> QED BY <1>1, <1>2, <1>3 DEF BinanceInv, Bounds, NothingLeftOut, Returned

LEMMA BinanceStep ==
  ASSUME BinanceInv, [BinanceNext]_binanceVars
  PROVE  BinanceInv'
<1>1. CASE UNCHANGED binanceVars
  <2>1. UNCHANGED <<happened, since, startTime, incomes, asking, done, lastCommission, execs, atStart>>
    BY <1>1 DEF binanceVars
  <2>2. Bounds'
    BY <2>1 DEF BinanceInv, Bounds, Happenings, BinanceTypeOK, IncomesType
  <2>3. AllListed' <=> AllListed
    BY <2>1 DEF AllListed, IncomesBetween, IncomesOf, Income
  <2>4. \A s : /\ WholeOf(s)' <=> WholeOf(s)
               /\ PlacesOf(s)' = PlacesOf(s) /\ TradesOf(s)' = TradesOf(s) /\ GetSafe(s)' = GetSafe(s)
    BY <2>1 DEF WholeOf, Due, Leading, Got, PlacesOf, TradesOf, GetSafe
  <2>5. NothingLeftOut'
    BY <2>1, <2>3, <2>4 DEF BinanceInv, NothingLeftOut, Returned
  <2>6. \A m, owed : LeftAfter(m, owed)' = LeftAfter(m, owed)
    BY <2>1, LeftStays DEF BinanceInv
  <2>7. \A m, owed : \A s : Waits(s, m, owed)' <=> Waits(s, m, owed)
    BY <2>1, <2>4 DEF Waits
  <2>8. ASSUME NEW m, NEW owed PROVE ReadUpTo(m, owed)' <=> ReadUpTo(m, owed)
    BY <2>1, <2>4, <2>6, <2>7 DEF ReadUpTo
  <2>9. asking' /\ AllListed' => (\E m, owed : ReadUpTo(m, owed))'
    BY <2>1, <2>3, <2>8 DEF BinanceInv
  <2> QED BY <2>2, <2>5, <2>9 DEF BinanceInv
<1>2. CASE BinanceNext
  <2>1. Bounds /\ Bounds'
    BY <1>2, BoundsStep DEF BinanceInv
  <2>2. asking /\ AllListed => \E m, owed : ReadUpTo(m, owed)
    BY DEF BinanceInv
  <2>3. CASE Traded
    <3>1. AllListed' <=> AllListed
      BY <2>1, <2>3, ListedLater
    <3>2. UNCHANGED <<asking, incomes, execs>>
      BY <2>3 DEF Traded
    <3>3. NothingLeftOut'
      <4> SUFFICES ASSUME Returned', AllListed', NEW s \in Pairs PROVE WholeOf(s)'
        BY DEF NothingLeftOut
      <4>1. WholeOf(s)
        BY <3>1, <3>2 DEF BinanceInv, NothingLeftOut, Returned
      <4> QED BY <2>1, <2>3, <4>1, WholeLater
    <3>4. asking' /\ AllListed' => (\E m, owed : ReadUpTo(m, owed))'
      <4> SUFFICES ASSUME asking, AllListed PROVE \E m, owed : ReadUpTo(m, owed)'
        BY <3>1, <3>2
      <4>1. PICK m, owed : ReadUpTo(m, owed)
        BY <2>2
      <4>2. ReadUpTo(m, owed)'
        BY <2>1, <2>3, <4>1, TradedReads
      <4> QED BY <4>2
    <3> QED BY <2>1, <3>3, <3>4 DEF BinanceInv
  <2>4. CASE Ask
    <3>1. asking' = TRUE
      BY <2>4 DEF Ask
    <3>2. NothingLeftOut'
      BY <3>1 DEF NothingLeftOut, Returned
    <3>3. AllListed' => (\E m, owed : ReadUpTo(m, owed))'
      BY <2>1, <2>4, AskReads
    <3> QED BY <2>1, <3>2, <3>3 DEF BinanceInv
  <2>5. CASE FirstCommission \/ RealizedPnl \/ InsuranceClear \/ FetchRest
    <3>1. asking /\ UNCHANGED <<happened, since, startTime, asking, atStart>>
      BY <2>5 DEF FirstCommission, RealizedPnl, InsuranceClear, FetchRest
    <3>2. AllListed' <=> AllListed
      BY <3>1 DEF AllListed, IncomesBetween, IncomesOf, Income
    <3>3. NothingLeftOut'
      BY <3>1 DEF NothingLeftOut, Returned
    <3>4. AllListed' => (\E m, owed : ReadUpTo(m, owed))'
      <4> SUFFICES ASSUME AllListed PROVE \E n, after : ReadUpTo(n, after)'
        BY <3>2
      <4>1. PICK m, owed : ReadUpTo(m, owed)
        BY <2>2, <3>1
      <4> QED BY <2>1, <2>5, <4>1, CommissionReads, ProfitReads, ClearReads, RestReads
    <3> QED BY <2>1, <3>3, <3>4 DEF BinanceInv
  <2>6. CASE Fails
    <3>1. asking' = FALSE /\ execs' = <<>>
      BY <2>6 DEF Fails
    <3> QED BY <2>1, <3>1 DEF BinanceInv, NothingLeftOut, Returned
  <2>7. CASE Return
    <3>1. asking /\ asking' = FALSE /\ UNCHANGED <<happened, since, startTime, atStart>>
      BY <2>7 DEF Return
    <3>2. AllListed' <=> AllListed
      BY <3>1 DEF AllListed, IncomesBetween, IncomesOf, Income
    <3>3. NothingLeftOut'
      <4> SUFFICES ASSUME AllListed', NEW s \in Pairs PROVE WholeOf(s)'
        BY DEF NothingLeftOut
      <4>1. PICK m, owed : ReadUpTo(m, owed)
        BY <2>2, <3>1, <3>2
      <4> QED BY <2>1, <2>7, <4>1, ReturnsWhole
    <3> QED BY <2>1, <3>1, <3>3 DEF BinanceInv
  <2> QED BY <1>2, <2>3, <2>4, <2>5, <2>6, <2>7 DEF BinanceNext
<1> QED BY <1>1, <1>2

\* BinanceFutures._get_executions leaves out no trade of any symbol that is due, returns
\* none twice and keeps their order, whatever trades come while it asks.
THEOREM IncomesLeaveNothingOut == BinanceSpec => []NothingLeftOut
<1>1. BinanceInit => BinanceInv
  BY BinanceStarts
<1>2. BinanceInv /\ [BinanceNext]_binanceVars => BinanceInv'
  BY BinanceStep
<1>3. BinanceInv => NothingLeftOut
  BY DEF BinanceInv
<1> QED BY <1>1, <1>2, <1>3, PTL DEF BinanceSpec

-----------------------------------------------------------------------------
\* What an exchange reports reaches the worker once and whole: an order of the stream is
\* one execution or none, and the histories that are fetched in several requests have
\* every record that was there at the beginning, once and in order.
THEOREM ReportsWhole == ReportsSpec => []ReportsAreWhole
<1>1. FetchIsComplete /\ NothingLeftOut /\ WholeOrders => ReportsAreWhole
  BY DEF ReportsAreWhole
<1> QED BY <1>1, HistoryIsWhole, IncomesLeaveNothingOut, OrdersAreWhole, PTL DEF ReportsSpec
=============================================================================
