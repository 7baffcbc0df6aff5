----------------------------------- MODULE Rpc -----------------------------------
(***************************************************************************)
(* Remote calls over redis (lib/lib/db/redis/rpc.py): Client.call pushes a *)
(* request on the list of a queue and blocks on a list of its own for the  *)
(* answer; Server.run takes one request after the other.  A key with an    *)
(* expiry tells the server that the caller still waits.  The server may    *)
(* crash; redis keeps what it has.  Time is a clock of redis.              *)
(***************************************************************************)
EXTENDS Naturals, Sequences

CONSTANTS
  Calls,         \* calls, each with an id of its own (uuid4)
  Known,         \* the calls of methods that the server has
  Timeout,       \* per call, the client's timeout, 0 for none
  ExpireTime,    \* response_expire_time
  MaxClock,      \* bound of the clock
  MaxCrashes     \* bound of crashes of the server

ASSUME RpcAssumption ==
  /\ Known \subseteq Calls
  /\ Timeout \in [Calls -> Nat]
  /\ ExpireTime \in Nat
  /\ MaxClock \in Nat
  /\ MaxCrashes \in Nat

VARIABLES
  clock,
  caller,     \* what each caller does
  mark,       \* when the key prefix:id:tmchk expires, 0 if it is not set
  givesUp,    \* when the caller's blpop returns without an answer
  queue,      \* requests in redis
  answer,     \* answers in redis, each in the list of its request
  expires,    \* when that list expires
  server,     \* what Server.run does, and of which call
  crashes,
  ran         \* history variable: how often the method was started

rpcVars == <<clock, caller, mark, givesUp, queue, answer, expires, server, crashes, ran>>

CallerStates == {"idle", "marked", "waiting", "answered", "error", "timeout"}
ServerStates == {"checking", "passed", "running", "result", "CallError", "BadRequest"}

Listening == <<"listening">>
Serving(phase, c) == <<phase, c>>

RpcTypeOK ==
  /\ clock \in 0 .. MaxClock
  /\ caller \in [Calls -> CallerStates]
  /\ mark \in [Calls -> Nat]
  /\ givesUp \in [Calls -> Nat]
  /\ queue \in Seq(Calls)
  /\ answer \in [Calls -> {"none", "result", "CallError", "BadRequest"}]
  /\ expires \in [Calls -> Nat]
  /\ server \in {Listening} \cup (ServerStates \X Calls)
  /\ crashes \in 0 .. MaxCrashes
  /\ ran \in [Calls -> Nat]

RpcInit ==
  /\ clock = 0
  /\ caller = [c \in Calls |-> "idle"]
  /\ mark = [c \in Calls |-> 0]
  /\ givesUp = [c \in Calls |-> 0]
  /\ queue = <<>>
  /\ answer = [c \in Calls |-> "none"]
  /\ expires = [c \in Calls |-> 0]
  /\ server = Listening
  /\ crashes = 0
  /\ ran = [c \in Calls |-> 0]

-----------------------------------------------------------------------------
(* The caller.                                                             *)

\* Bound: the clock leaves every call that starts the time to come to its end.
MayStart(c) == clock + Timeout[c] <= MaxClock

\* A slip: the key lives as long as an answer does, however impatient the caller.
MarkBug(c) ==
  /\ caller[c] = "idle"
  /\ MayStart(c)
  /\ caller' = [caller EXCEPT ![c] = "marked"]
  /\ mark' = IF Timeout[c] = 0 THEN mark ELSE [mark EXCEPT ![c] = clock + ExpireTime + Timeout[c]]
  /\ UNCHANGED <<clock, givesUp, queue, answer, expires, server, crashes, ran>>

\* Client.call up to rpush: the key that says that the caller waits.
Mark(c) ==
  /\ caller[c] = "idle"
  /\ MayStart(c)
  /\ caller' = [caller EXCEPT ![c] = "marked"]
  /\ mark' = IF Timeout[c] = 0 THEN mark ELSE [mark EXCEPT ![c] = clock + Timeout[c]]
  /\ UNCHANGED <<clock, givesUp, queue, answer, expires, server, crashes, ran>>

\* A slip: blpop is called without the timeout.
PushBug(c) ==
  /\ caller[c] = "marked"
  /\ MayStart(c)
  /\ caller' = [caller EXCEPT ![c] = "waiting"]
  /\ queue' = Append(queue, c)
  /\ givesUp' = [givesUp EXCEPT ![c] = MaxClock + 1]
  /\ UNCHANGED <<clock, mark, answer, expires, server, crashes, ran>>

\* rpush of the request, and blpop with the timeout, which starts later.
Push(c) ==
  /\ caller[c] = "marked"
  /\ MayStart(c)
  /\ caller' = [caller EXCEPT ![c] = "waiting"]
  /\ queue' = Append(queue, c)
  /\ givesUp' = [givesUp EXCEPT ![c] = clock + Timeout[c]]
  /\ UNCHANGED <<clock, mark, answer, expires, server, crashes, ran>>

\* A slip: all callers of a queue wait on one list.
TakeBug(c) ==
  \E other \in Calls :
    /\ caller[c] = "waiting"
    /\ answer[other] # "none"
    /\ caller' = [caller EXCEPT ![c] = IF answer[other] = "result" THEN "answered" ELSE "error"]
    /\ answer' = [answer EXCEPT ![other] = "none"]
    /\ UNCHANGED <<clock, mark, givesUp, queue, expires, server, crashes, ran>>

\* blpop returns the answer, which the list loses.
Take(c) ==
  /\ caller[c] = "waiting"
  /\ answer[c] # "none"
  /\ caller' = [caller EXCEPT ![c] = IF answer[c] = "result" THEN "answered" ELSE "error"]
  /\ answer' = [answer EXCEPT ![c] = "none"]
  /\ UNCHANGED <<clock, mark, givesUp, queue, expires, server, crashes, ran>>

\* blpop returns nothing: TimeoutError.
GiveUp(c) ==
  /\ caller[c] = "waiting"
  /\ Timeout[c] # 0
  /\ clock >= givesUp[c]
  /\ answer[c] = "none"
  /\ caller' = [caller EXCEPT ![c] = "timeout"]
  /\ UNCHANGED <<clock, mark, givesUp, queue, answer, expires, server, crashes, ran>>

-----------------------------------------------------------------------------
(* The server.                                                             *)

\* blpop and parse_request.
Pop ==
  /\ server = Listening
  /\ queue # <<>>
  /\ queue' = Tail(queue)
  /\ LET c == Head(queue) IN
       server' = Serving(CASE c \notin Known      -> "BadRequest"
                           [] Timeout[c] = 0     -> "passed"
                           [] OTHER              -> "checking", c)
  /\ UNCHANGED <<clock, caller, mark, givesUp, answer, expires, crashes, ran>>

\* is_timeout_expired: an expired key means that nobody waits.
Check(c) ==
  /\ server = Serving("checking", c)
  /\ server' = IF clock < mark[c] THEN Serving("passed", c) ELSE Listening
  /\ UNCHANGED <<clock, caller, mark, givesUp, queue, answer, expires, crashes, ran>>

\* call_method: the method starts, and returns or raises.
Start(c) ==
  /\ server = Serving("passed", c)
  /\ server' = Serving("running", c)
  /\ ran' = [ran EXCEPT ![c] = @ + 1]
  /\ UNCHANGED <<clock, caller, mark, givesUp, queue, answer, expires, crashes>>

Return(c) ==
  /\ server = Serving("running", c)
  /\ \E end \in {"result", "CallError"} : server' = Serving(end, c)
  /\ UNCHANGED <<clock, caller, mark, givesUp, queue, answer, expires, crashes, ran>>

\* send_response: the answer, with its expiry.
Respond(c) ==
  \E end \in {"result", "CallError", "BadRequest"} :
    /\ server = Serving(end, c)
    /\ server' = Listening
    /\ answer' = [answer EXCEPT ![c] = end]
    /\ expires' = [expires EXCEPT ![c] = clock + ExpireTime]
    /\ UNCHANGED <<clock, caller, mark, givesUp, queue, crashes, ran>>

\* The bot stops and is started again: what it was doing is gone.
Crash ==
  /\ crashes < MaxCrashes
  /\ crashes' = crashes + 1
  /\ server # Listening
  /\ server' = Listening
  /\ UNCHANGED <<clock, caller, mark, givesUp, queue, answer, expires, ran>>

-----------------------------------------------------------------------------
(* redis: an answer nobody took expires; a blpop that is due returns before *)
(* time goes on.                                                            *)
Tick ==
  /\ clock < MaxClock
  /\ \A c \in Calls : ~(caller[c] = "waiting" /\ Timeout[c] # 0 /\ clock > givesUp[c])
  /\ clock' = clock + 1
  /\ answer' = [c \in Calls |-> IF expires[c] <= clock' THEN "none" ELSE answer[c]]
  /\ UNCHANGED <<caller, mark, givesUp, queue, expires, server, crashes, ran>>

RpcNext ==
  \/ \E c \in Calls : Mark(c) \/ Push(c) \/ Take(c) \/ GiveUp(c)
  \/ \E c \in Calls : Check(c) \/ Start(c) \/ Return(c) \/ Respond(c)
  \/ Pop \/ Crash \/ Tick

\* redis keeps time, and wakes who waits for it.
RpcFairness ==
  /\ WF_rpcVars(Tick)
  /\ \A c \in Calls : WF_rpcVars(Push(c)) /\ WF_rpcVars(Take(c)) /\ WF_rpcVars(GiveUp(c))

RpcSpec == RpcInit /\ [][RpcNext]_rpcVars /\ RpcFairness

-----------------------------------------------------------------------------
(* What a caller knows: an error it is told of and one it is not are alike. *)
Knows(state) ==
  CASE state \in {"idle", "marked"}   -> "none"
    [] state = "waiting"              -> "pending"
    [] state = "answered"             -> "answered"
    [] state \in {"error", "timeout"} -> "failed"

outcome == [c \in Calls |-> Knows(caller[c])]

\* An outcome is what the caller can tell, a run one of the method.
C == INSTANCE Call WITH Calls <- Calls, outcome <- outcome, ran <- ran

\* The promise of a call is kept: the method runs once at most, and a result
\* comes from a run of its own call, whatever expires, crashes or comes late
\* (Client.call, Server.run).
ImplementsCall == C!CallSpec

\* A request that its caller has given up is not let through, however long it was
\* in the queue: the key expires before the caller's blpop does, since it was set
\* before (is_timeout_expired).
ExpiredIsDropped ==
  [][\A c \in Calls :
       (server # server' /\ server' = Serving("passed", c)) => caller[c] # "timeout"]_rpcVars

\* A caller with a timeout comes to know something, whether or not the server
\* is there (Client.call).
EveryCallEnds ==
  \A c \in Calls : Timeout[c] # 0 =>
    (caller[c] = "waiting" ~> caller[c] \in {"answered", "error", "timeout"})

\* Both sides keep to the time a caller has.
TimesAreKept == EveryCallEnds /\ ExpiredIsDropped
=============================================================================
