---------------------------- MODULE ExchangeRequests ----------------------------
(***************************************************************************)
(* The requests that the workers of one exchange class send: the bucket    *)
(* that paces them, the cache of public answers, both shared by the whole  *)
(* class, and the mark INVALID of a client whose key the exchange denies.  *)
(* Several requests are in flight at once (gathered calls, several jobs).  *)
(***************************************************************************)
EXTENDS Integers

CONSTANTS
  Slots,      \* requests that may be in flight at once
  KeyOwners,   \* the clients
  Urls,
  Interval, MaxAmount, Weight,   \* create_limit(interval_seconds, max_amount, default_weight)
  UsedWeights,  \* external: what X-MBX-USED-WEIGHT-1M may say, whoever used it
  Expiry,     \* 3600 s
  MaxTime, MaxKey   \* bounds: of the clock, and of the keys a client gets
\* The bucket is counted in units of 1 / MaxAmount, so that one second refills
\* Interval of them: refill_rate_seconds is interval / amount, not its inverse.
ASSUME RequestsAssumption ==
  /\ {Interval, MaxAmount, Weight, Expiry} \subseteq Nat \ {0} /\ UsedWeights \subseteq Nat
  /\ Weight <= MaxAmount
  /\ (Weight * MaxAmount) % Interval = 0

VARIABLES
  exchange,         \* the class, by whose set_weights the bucket goes
  now,
  bucket, lastTs,   \* Limit.amount (in units) and last_ts
  cached,           \* _cache: when the answer kept of each url expires
  call,
  apiKey, state,       \* of each client, as the database has them
  good,             \* external: keys the exchange accepts, <<account, key>>
  overlap,          \* history: two requests of the class were in flight at once
  usedUp,         \* history: Binance told of more weight used than its limit
  denied,           \* history: keys the exchange denied
  replaced              \* history: accounts with a key denied after it was replaced

reqVars == <<exchange, now, bucket, lastTs, cached, call, apiKey, state, good, overlap, usedUp,
             denied, replaced>>

\* Of EXCHANGES, the two of the modelled histories; the others have the default.
Exchanges == {"binance-futures", "bybit-derivatives", "default"}

Full == MaxAmount * MaxAmount
Cost == Weight * MaxAmount
PauseBug == (Weight * Interval) \div MaxAmount
Pause == Cost \div Interval          \* sleep_for_weight
Idle == [phase |-> "idle", account |-> "none", key |-> 0, url |-> "none",
         cache |-> FALSE, until |-> 0]

ReqTypeOK ==
  /\ exchange \in Exchanges
  /\ now \in 0..MaxTime /\ lastTs \in 0..now /\ bucket <= Full
  /\ cached \in [Urls -> 0..MaxTime + Expiry]
  /\ \A s \in Slots : call[s].phase \in {"idle", "sleeping", "sent", "marking"}
  /\ apiKey \in [KeyOwners -> 1..MaxKey] /\ state \in [KeyOwners -> {"OK", "INVALID"}]

ReqInit ==
  /\ exchange \in Exchanges
  /\ now = 0 /\ lastTs = 0 /\ bucket = Full
  /\ cached = [u \in Urls |-> 0]
  /\ call = [s \in Slots |-> Idle]
  /\ apiKey = [a \in KeyOwners |-> 1] /\ state = [a \in KeyOwners |-> "OK"]
  /\ good = {<<a, 1>> : a \in KeyOwners}
  /\ overlap = FALSE /\ usedUp = FALSE /\ denied = {} /\ replaced = {}

Refilled(units) == LET sum == units + (now - lastTs) * Interval
                   IN IF sum > Full THEN Full ELSE sum

-----------------------------------------------------------------------------
(* _request: everything up to the answer.                                  *)

\* validate is true when the amount does not suffice.
Exceeded(units) == units < Cost

\* A signed request is of a worker that may still hold a former key.
Request(s) ==
  /\ call[s] = Idle
  /\ \E a \in KeyOwners, u \in Urls, sign, cache \in BOOLEAN :
     \E k \in IF sign THEN 1..apiKey[a] ELSE {0} :
       /\ sign # cache                 \* only public answers are cached
       /\ ~(cache /\ now < cached[u])
       /\ bucket' = Refilled(bucket) /\ lastTs' = now
       /\ call' = [call EXCEPT ![s] =
            [phase |-> IF Exceeded(Refilled(bucket)) THEN "sleeping" ELSE "sent",
             account |-> a, key |-> k, url |-> u, cache |-> cache,
             until |-> IF Exceeded(Refilled(bucket)) THEN now + Pause ELSE now]]
  /\ overlap' = (overlap \/ \E t \in Slots \ {s} : call[t].phase \in {"sleeping", "sent"})
  /\ UNCHANGED <<exchange, now, cached, apiKey, state, good, denied, replaced, usedUp>>

\* After the pause the amount is refilled, and not looked at again.
WakeUp(s) ==
  /\ call[s].phase = "sleeping" /\ now >= call[s].until
  /\ bucket' = Refilled(bucket) /\ lastTs' = now
  /\ call' = [call EXCEPT ![s].phase = "sent"]
  /\ UNCHANGED <<exchange, now, cached, apiKey, state, good, overlap, denied,
                 replaced, usedUp>>

-----------------------------------------------------------------------------
(* The answer: set_weights, then _process_response and _check_for_error.   *)

Take == bucket' = bucket - Cost /\ UNCHANGED usedUp

\* set_weights: the default takes the weight, Binance's class believes the header of
\* the answer if there is one, and Bybit's takes nothing, so that it never pauses.
SetWeights ==
  \/ exchange = "default" /\ Take
  \/ exchange = "binance-futures" /\ Take
  \/ /\ exchange = "binance-futures"
     /\ \E used \in UsedWeights : /\ bucket' = Full - used * MaxAmount
                                  /\ usedUp' = (usedUp \/ used > MaxAmount)
  \/ exchange = "bybit-derivatives" /\ UNCHANGED <<bucket, usedUp>>

Failed(s) == call' = [call EXCEPT ![s] = Idle]

\* An answer of any status but 200, of an account's key or none, that is raised
\* and reaches the caller as a ResponseError: 429 and 5xx too, whose own
\* handlers come after the one of their base class.
Refuse(s) ==
  /\ call[s].phase = "sent"
  /\ SetWeights /\ Failed(s)
  /\ UNCHANGED <<exchange, now, lastTs, cached, apiKey, state, good, overlap, denied,
                 replaced>>

\* The connection fails: no answer, and the weight is not counted.
LoseAnswer(s) ==
  /\ call[s].phase = "sent"
  /\ Failed(s)
  /\ UNCHANGED <<exchange, now, bucket, lastTs, cached, apiKey, state, good, overlap,
                 denied, replaced, usedUp>>

Succeed(s) ==
  /\ call[s].phase = "sent"
  /\ call[s].key # 0 => <<call[s].account, call[s].key>> \in good
  /\ SetWeights /\ Failed(s)
  /\ cached' = IF call[s].cache
               THEN [cached EXCEPT ![call[s].url] = now + Expiry] ELSE cached
  /\ UNCHANGED <<exchange, now, lastTs, apiKey, state, good, overlap, denied, replaced>>

Deny(s) ==
  /\ call[s].phase = "sent" /\ call[s].key # 0
  /\ <<call[s].account, call[s].key>> \notin good
  /\ SetWeights
  /\ denied' = denied \cup {<<call[s].account, call[s].key>>}
  /\ replaced' = IF call[s].key < apiKey[call[s].account] THEN replaced \cup {call[s].account} ELSE replaced
  \* The status 401 becomes an InvalidClientError inside the handler of
  \* ResponseError, and the client is not marked; a code of the exchange's
  \* own is one at once, and it is.
  /\ \/ call' = [call EXCEPT ![s].phase = "marking"]
     \/ Failed(s)
  /\ UNCHANGED <<exchange, now, lastTs, cached, apiKey, state, good, overlap>>

\* The client is marked, whatever key it has by now.
MarkInvalid(s) ==
  /\ call[s].phase = "marking"
  /\ state' = [state EXCEPT ![call[s].account] = "INVALID"]
  /\ replaced' = IF call[s].key < apiKey[call[s].account] THEN replaced \cup {call[s].account} ELSE replaced
  /\ Failed(s)
  /\ UNCHANGED <<exchange, now, bucket, lastTs, cached, apiKey, good, overlap,
                 usedUp, denied>>

-----------------------------------------------------------------------------
NewKeyBug(a) ==
  /\ apiKey[a] < MaxKey
  /\ apiKey' = [apiKey EXCEPT ![a] = @ + 1]
  /\ good' = good \cup {<<a, apiKey[a] + 1>>}
  /\ UNCHANGED <<exchange, now, bucket, lastTs, cached, call, state, overlap, denied,
                 replaced, usedUp>>

\* The API's update_client: a balance with the new key is asked for first, by
\* the API's own process and for no client id; then key and state are stored.
NewKey(a) ==
  /\ apiKey[a] < MaxKey
  /\ apiKey' = [apiKey EXCEPT ![a] = @ + 1]
  /\ state' = [state EXCEPT ![a] = "OK"]
  /\ good' = good \cup {<<a, apiKey[a] + 1>>}
  /\ UNCHANGED <<exchange, now, bucket, lastTs, cached, call, overlap, denied,
                 replaced, usedUp>>

\* External: the user revokes a key.
Revoke == \E g \in good : good' = good \ {g}
          /\ UNCHANGED <<exchange, now, bucket, lastTs, cached, call, apiKey, state,
                         overlap, denied, replaced, usedUp>>

ReqTick == /\ now < MaxTime
           /\ now' = now + 1
           /\ UNCHANGED <<exchange, bucket, lastTs, cached, call, apiKey, state,
                          good, overlap, denied, replaced, usedUp>>

ReqNext ==
  \/ \E s \in Slots : \/ Request(s) \/ WakeUp(s) \/ Refuse(s) \/ LoseAnswer(s)
                      \/ Succeed(s) \/ Deny(s) \/ MarkInvalid(s)
  \/ \E a \in KeyOwners : NewKey(a)
  \/ Revoke
  \/ ReqTick

ReqFairness == \A s \in Slots : WF_reqVars(MarkInvalid(s))
ReqSpec == ReqInit /\ [][ReqNext]_reqVars /\ ReqFairness

-----------------------------------------------------------------------------
(* What the requests owe.                                                  *)

\* As long as the requests of a class never overlapped, and Binance never told that
\* more than the limit was used (by other processes too), the class has not spent more
\* than its limit allows by its own count; overlapping ones look at the same amount, or
\* pause for the same refill (Exchange._request).  Of Bybit this says nothing: its class
\* counts nothing.
PacedAlone == ~overlap /\ ~usedUp => bucket >= 0

\* A client is INVALID because the key it has now was denied, or because a key
\* that it had replaced by then was: a denial is booked on the client, not on the
\* key, and may overtake the new one (_request, update_client).
InvalidIsDenied ==
  \A a \in KeyOwners : state[a] = "INVALID" => <<a, apiKey[a]>> \in denied \/ a \in replaced

\* Requests in flight at once neither spend the limit of an exchange when they keep
\* apart, nor mark a client whose keys were never denied.
RequestsAreKept == PacedAlone /\ InvalidIsDenied
====
