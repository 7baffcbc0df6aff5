---------------------------- MODULE ServicesProofs ----------------------------
(***************************************************************************)
(* Theorems about the services that wait for somebody: remote calls, the   *)
(* dialogs of the bot, actions, market data; and about all of them, as TLC *)
(* explores them.  Each has its own invariant.                             *)
(***************************************************************************)
EXTENDS MCServices, FiniteSetTheorems, TLAPS

-----------------------------------------------------------------------------
(***************************************************************************)
(* Remote calls keep the promise of a call, for any number of calls, any   *)
(* timeouts and any number of crashes.  What makes it so is that a request *)
(* is in one place: not yet sent, once in the queue, with the server, or   *)
(* gone; and that the method has run only when it is in none of the first  *)
(* two.                                                                    *)
(***************************************************************************)

\* The phases of the server before and after the method has started.
Before == {"checking", "passed", "BadRequest"}
After == {"running", "result", "CallError"}
Unsent == {"idle", "marked"}

Shape ==
  /\ caller \in [Calls -> CallerStates]
  /\ queue \in Seq(Calls)
  /\ answer \in [Calls -> {"none", "result", "CallError", "BadRequest"}]
  /\ server \in {Listening} \cup (ServerStates \X Calls)
  /\ ran \in [Calls -> 0 .. 1]

\* A request is in the queue once, was sent, and has not run.
QueuedFresh ==
  \A i \in 1 .. Len(queue) :
    /\ ran[queue[i]] = 0
    /\ caller[queue[i]] \notin Unsent
    /\ \A j \in 1 .. Len(queue) : queue[i] = queue[j] => i = j

\* What the server is at was sent, and is in the queue no more.
ServedOnce ==
  \A c \in Calls :
    /\ \A phase \in Before : server = <<phase, c>> => ran[c] = 0
    /\ \A phase \in After : server = <<phase, c>> => ran[c] = 1
    /\ \A phase \in ServerStates : server = <<phase, c>> =>
         caller[c] \notin Unsent /\ \A i \in 1 .. Len(queue) : queue[i] # c

\* Nothing runs before it is sent, and a result comes from a run.
ResultsAreRun ==
  \A c \in Calls :
    /\ caller[c] \in Unsent => ran[c] = 0
    /\ answer[c] = "result" => ran[c] = 1

PlaceInv == Shape /\ QueuedFresh /\ ServedOnce /\ ResultsAreRun

-----------------------------------------------------------------------------
LEMMA PlaceInit == RpcInit => PlaceInv
  BY DEF RpcInit, PlaceInv, Shape, QueuedFresh, ServedOnce, ResultsAreRun, Listening,
         CallerStates, ServerStates, Before, After, Unsent

\* The steps that leave queue, server and ran alone keep everything in its place.
LEMMA CallerSteps ==
  ASSUME PlaceInv, NEW c \in Calls, Mark(c) \/ Take(c) \/ GiveUp(c)
  PROVE  PlaceInv'
<1> USE DEF PlaceInv, Shape, CallerStates, Unsent
<1>1. UNCHANGED <<queue, server, ran>>
  BY DEF Mark, Take, GiveUp
<1>2. Shape'
  BY <1>1 DEF Mark, Take, GiveUp
<1>3. \A d \in Calls : caller'[d] \in Unsent <=> caller[d] \in Unsent
  BY DEF Mark, Take, GiveUp
<1>4. \A d \in Calls : answer'[d] = "result" => answer[d] = "result"
  BY DEF Mark, Take, GiveUp
<1>5. QueuedFresh'
  BY <1>1, <1>3 DEF QueuedFresh
<1>6. ServedOnce'
  BY <1>1, <1>3 DEF ServedOnce
<1>7. ResultsAreRun'
  BY <1>1, <1>3, <1>4 DEF ResultsAreRun
<1> QED BY <1>2, <1>5, <1>6, <1>7

LEMMA PushStep ==
  ASSUME PlaceInv, NEW c \in Calls, Push(c)
  PROVE  PlaceInv'
<1> USE DEF PlaceInv, Shape, CallerStates, Unsent
<1>1. /\ caller[c] = "marked" /\ caller' = [caller EXCEPT ![c] = "waiting"]
      /\ queue' = Append(queue, c) /\ UNCHANGED <<server, ran, answer>>
  BY DEF Push
<1>2. Shape'
  BY <1>1
<1>3. \A i \in 1 .. Len(queue) : queue[i] # c /\ queue'[i] = queue[i]
  BY <1>1 DEF QueuedFresh
<1>4. Len(queue') = Len(queue) + 1 /\ queue'[Len(queue) + 1] = c
  BY <1>1
<1>5. ran[c] = 0
  BY <1>1 DEF ResultsAreRun
<1>6. QueuedFresh'
  <2>1. \A i \in 1 .. Len(queue') : i \in 1 .. Len(queue) \/ i = Len(queue) + 1
    BY <1>1, <1>4
  <2>2. \A i \in 1 .. Len(queue') : queue'[i] \in Calls
    BY <1>2
  <2>3. \A i \in 1 .. Len(queue') : ran'[queue'[i]] = 0 /\ caller'[queue'[i]] \notin Unsent
    BY <1>1, <1>3, <1>4, <1>5, <2>1, <2>2 DEF QueuedFresh
  <2>4. \A i, j \in 1 .. Len(queue') : queue'[i] = queue'[j] => i = j
    BY <1>3, <1>4, <2>1 DEF QueuedFresh
  <2> QED BY <2>3, <2>4 DEF QueuedFresh
<1>7. ServedOnce'
  <2>1. \A phase \in ServerStates : server # <<phase, c>>
    BY <1>1 DEF ServedOnce
  <2>2. \A d \in Calls \ {c} : \A i \in 1 .. Len(queue') : queue'[i] = d =>
          \E j \in 1 .. Len(queue) : queue[j] = d
    BY <1>1, <1>3, <1>4
  <2> QED BY <1>1, <2>1, <2>2 DEF ServedOnce, Before, After, ServerStates
<1>8. ResultsAreRun'
  BY <1>1 DEF ResultsAreRun
<1> QED BY <1>2, <1>6, <1>7, <1>8

LEMMA PopStep ==
  ASSUME PlaceInv, Pop
  PROVE  PlaceInv'
<1> USE DEF PlaceInv, Shape
<1> DEFINE h == Head(queue)
<1>1. /\ queue # <<>> /\ queue' = Tail(queue) /\ UNCHANGED <<caller, ran, answer>>
      /\ \/ server' = <<"BadRequest", h>>
         \/ server' = <<"passed", h>>
         \/ server' = <<"checking", h>>
  BY DEF Pop, Serving
<1>2. /\ Len(queue) >= 1 /\ h = queue[1] /\ h \in Calls
      /\ Len(queue') = Len(queue) - 1
      /\ \A i \in 1 .. Len(queue') : queue'[i] = queue[i + 1]
  BY <1>1
<1>3. Shape'
  BY <1>1, <1>2 DEF ServerStates
<1>4. QueuedFresh'
  BY <1>1, <1>2 DEF QueuedFresh
<1>5. \A i \in 1 .. Len(queue') : queue'[i] # h
  BY <1>1, <1>2 DEF QueuedFresh
<1>6. ran[h] = 0 /\ caller[h] \notin Unsent
  BY <1>1, <1>2 DEF QueuedFresh
<1>7. ServedOnce'
  BY <1>1, <1>2, <1>5, <1>6 DEF ServedOnce, Before, After, ServerStates
<1>8. ResultsAreRun'
  BY <1>1 DEF ResultsAreRun
<1> QED BY <1>3, <1>4, <1>7, <1>8

LEMMA ServerSteps ==
  ASSUME PlaceInv, NEW c \in Calls, Check(c) \/ Start(c) \/ Return(c) \/ Respond(c)
  PROVE  PlaceInv'
<1> USE DEF PlaceInv, Shape
<1>1. UNCHANGED <<queue, caller>>
  BY DEF Check, Start, Return, Respond
<1>2. CASE Check(c)
  BY <1>1, <1>2 DEF Check, Serving, Listening, ServerStates, Before, After,
                    QueuedFresh, ServedOnce, ResultsAreRun
<1>3. CASE Start(c)
  <2>1. /\ server = <<"passed", c>> /\ server' = <<"running", c>>
        /\ ran' = [ran EXCEPT ![c] = ran[c] + 1] /\ UNCHANGED answer
    BY <1>3 DEF Start, Serving
  <2>2. ran[c] = 0 /\ caller[c] \notin Unsent /\ \A i \in 1 .. Len(queue) : queue[i] # c
    BY <2>1 DEF ServedOnce, Before, ServerStates
  <2>3. ran' = [ran EXCEPT ![c] = 1]
    BY <2>1, <2>2
  <2>4. Shape'
    BY <1>1, <2>1, <2>3 DEF ServerStates
  <2>5. QueuedFresh'
    BY <1>1, <2>2, <2>3 DEF QueuedFresh
  <2>6. ServedOnce'
    BY <1>1, <2>1, <2>2, <2>3 DEF ServedOnce, Before, After, ServerStates
  <2>7. ResultsAreRun'
    BY <1>1, <2>1, <2>2, <2>3 DEF ResultsAreRun
  <2> QED BY <2>4, <2>5, <2>6, <2>7
<1>4. CASE Return(c)
  BY <1>1, <1>4 DEF Return, Serving, ServerStates, Before, After,
                    QueuedFresh, ServedOnce, ResultsAreRun
<1>5. CASE Respond(c)
  <2>1. PICK end \in {"result", "CallError", "BadRequest"} :
          /\ server = <<end, c>> /\ server' = Listening
          /\ answer' = [answer EXCEPT ![c] = end] /\ UNCHANGED ran
    BY <1>5 DEF Respond, Serving
  <2>2. end = "result" => ran[c] = 1
    BY <2>1 DEF ServedOnce, After
  <2>3. Shape' /\ QueuedFresh'
    BY <1>1, <2>1 DEF QueuedFresh
  <2>4. ServedOnce'
    BY <2>1 DEF ServedOnce, Listening
  <2>5. ResultsAreRun'
    BY <1>1, <2>1, <2>2 DEF ResultsAreRun
  <2> QED BY <2>3, <2>4, <2>5
<1> QED BY <1>2, <1>3, <1>4, <1>5

LEMMA OtherSteps ==
  ASSUME PlaceInv, Crash \/ Tick \/ UNCHANGED rpcVars
  PROVE  PlaceInv'
<1>1. UNCHANGED <<queue, caller, ran>>
  BY DEF Crash, Tick, rpcVars
<1>2. server' \in {server, Listening}
  BY DEF Crash, Tick, rpcVars
<1>3. /\ answer' \in [Calls -> {"none", "result", "CallError", "BadRequest"}]
      /\ \A c \in Calls : answer'[c] \in {answer[c], "none"}
  BY DEF Crash, Tick, rpcVars, PlaceInv, Shape
<1>4. Shape'
  BY <1>1, <1>2, <1>3 DEF PlaceInv, Shape
<1>5. QueuedFresh' /\ ResultsAreRun'
  BY <1>1, <1>3 DEF PlaceInv, QueuedFresh, ResultsAreRun
<1>6. ServedOnce'
  BY <1>1, <1>2 DEF PlaceInv, ServedOnce, Listening
<1> QED BY <1>4, <1>5, <1>6 DEF PlaceInv

LEMMA PlaceStep == PlaceInv /\ [RpcNext]_rpcVars => PlaceInv'
  BY CallerSteps, PushStep, PopStep, ServerSteps, OtherSteps DEF RpcNext

\* Every request is in one place, and the method has run only when it left the queue.
THEOREM PlacesKept == RpcSpec => []PlaceInv
<1>1. PlaceInv /\ [RpcNext]_rpcVars => PlaceInv'
  BY PlaceStep
<1> QED BY PlaceInit, <1>1, PTL DEF RpcSpec

-----------------------------------------------------------------------------
(* The refinement.                                                         *)

\* What a caller knows changes with what the caller does.
LEMMA OutcomeOf ==
  ASSUME PlaceInv, NEW c \in Calls, NEW s \in CallerStates,
         caller' = [caller EXCEPT ![c] = s]
  PROVE  outcome' = [outcome EXCEPT ![c] = Knows(s)]
<1>1. \A d \in Calls : caller'[d] = IF d = c THEN s ELSE caller[d]
  BY DEF PlaceInv, Shape
<1>2. outcome' = [d \in Calls |-> Knows(caller'[d])] /\ outcome = [d \in Calls |-> Knows(caller[d])]
  BY DEF outcome
<1> QED BY <1>1, <1>2

LEMMA KnowsStates ==
  /\ Knows("idle") = "none" /\ Knows("marked") = "none"
  /\ Knows("waiting") = "pending" /\ Knows("answered") = "answered"
  /\ Knows("error") = "failed" /\ Knows("timeout") = "failed"
  BY DEF Knows

\* Every step of callers, server and redis is a step of a call, or none.
LEMMA StepOfCall ==
  ASSUME PlaceInv, [RpcNext]_rpcVars
  PROVE  [C!CallNext]_(C!callVars)
<1> USE DEF C!callVars, C!CallNext, C!Becomes
<1>1. ASSUME NEW c \in Calls, Mark(c) PROVE UNCHANGED <<outcome, ran>>
  <2>1. outcome' = [outcome EXCEPT ![c] = "none"] /\ outcome[c] = "none"
    BY <1>1, OutcomeOf, KnowsStates DEF Mark, outcome, CallerStates
  <2>2. outcome' = outcome
    BY <2>1 DEF outcome
  <2> QED BY <1>1, <2>2 DEF Mark
<1>2. ASSUME NEW c \in Calls, Push(c) PROVE C!Ask(c)
  <2>1. outcome[c] = "none" /\ outcome' = [outcome EXCEPT ![c] = "pending"]
    BY <1>2, OutcomeOf, KnowsStates DEF Push, outcome, CallerStates
  <2> QED BY <1>2, <2>1 DEF Push, C!Ask
<1>3. ASSUME NEW c \in Calls, Take(c) PROVE C!Answer(c) \/ C!Fail(c)
  <2>1. outcome[c] = "pending" /\ UNCHANGED ran
    BY <1>3, KnowsStates DEF Take, outcome
  <2>2. CASE answer[c] = "result"
    <3>1. ran[c] = 1
      BY <2>2 DEF PlaceInv, ResultsAreRun
    <3>2. outcome' = [outcome EXCEPT ![c] = "answered"]
      BY <1>3, <2>2, OutcomeOf, KnowsStates DEF Take, CallerStates
    <3> QED BY <2>1, <3>1, <3>2 DEF C!Answer
  <2>3. CASE answer[c] # "result"
    <3>1. outcome' = [outcome EXCEPT ![c] = "failed"]
      BY <1>3, <2>3, OutcomeOf, KnowsStates DEF Take, CallerStates
    <3> QED BY <2>1, <3>1 DEF C!Fail
  <2> QED BY <2>2, <2>3
<1>4. ASSUME NEW c \in Calls, GiveUp(c) PROVE C!Fail(c)
  <2>1. outcome[c] = "pending" /\ outcome' = [outcome EXCEPT ![c] = "failed"]
    BY <1>4, OutcomeOf, KnowsStates DEF GiveUp, outcome, CallerStates
  <2> QED BY <1>4, <2>1 DEF GiveUp, C!Fail
<1>5. ASSUME NEW c \in Calls, Start(c) PROVE C!RunMethod(c)
  <2>1. server = <<"passed", c>>
    BY <1>5 DEF Start, Serving
  <2>2. ran[c] = 0 /\ caller[c] \notin Unsent
    BY <2>1 DEF PlaceInv, ServedOnce, Before, ServerStates
  <2>3. outcome[c] # "none"
    BY <2>2, KnowsStates DEF outcome, Unsent, PlaceInv, Shape, CallerStates
  <2>4. ran' = [ran EXCEPT ![c] = 1] /\ UNCHANGED caller
    BY <1>5, <2>2 DEF Start, PlaceInv, Shape
  <2>5. UNCHANGED outcome
    BY <2>4 DEF outcome
  <2> QED BY <2>2, <2>3, <2>4, <2>5 DEF C!RunMethod
<1>6. ASSUME NEW c \in Calls, Check(c) \/ Return(c) \/ Respond(c)
      PROVE UNCHANGED <<outcome, ran>>
  <2>1. UNCHANGED <<caller, ran>>
    BY <1>6 DEF Check, Return, Respond
  <2> QED BY <2>1 DEF outcome
<1>7. ASSUME Pop \/ Crash \/ Tick \/ UNCHANGED rpcVars PROVE UNCHANGED <<outcome, ran>>
  <2>1. UNCHANGED <<caller, ran>>
    BY <1>7 DEF Pop, Crash, Tick, rpcVars
  <2> QED BY <2>1 DEF outcome
<1> QED BY <1>1, <1>2, <1>3, <1>4, <1>5, <1>6, <1>7 DEF RpcNext

\* Remote calls implement a call (Client.call, Server.run): the method runs once at
\* most, and a caller has an answer only from a run of its own call.
THEOREM CallsAreKept == RpcSpec => ImplementsCall
<1>1. RpcInit => C!CallInit
  BY KnowsStates DEF RpcInit, C!CallInit, outcome
<1>2. PlaceInv /\ [RpcNext]_rpcVars => [C!CallNext]_(C!callVars)
  BY StepOfCall
<1> QED BY <1>1, <1>2, PlacesKept, PTL DEF RpcSpec, ImplementsCall, C!CallSpec

-----------------------------------------------------------------------------
(* What a caller has given up.                                             *)

\* The key is due before the caller is.
DueInv ==
  /\ clock \in Nat /\ mark \in [Calls -> Nat] /\ givesUp \in [Calls -> Nat]
  /\ caller \in [Calls -> CallerStates]
  /\ \A c \in Calls : Timeout[c] # 0 =>
       /\ caller[c] = "marked" => mark[c] <= clock + Timeout[c]
       /\ caller[c] = "waiting" => mark[c] <= givesUp[c]
  /\ \A c \in Calls : caller[c] = "timeout" => Timeout[c] # 0 /\ mark[c] <= clock

LEMMA DueStep ==
  ASSUME DueInv, [RpcNext]_rpcVars
  PROVE  DueInv'
<1> USE RpcAssumption DEF DueInv, CallerStates
<1>1. ASSUME NEW c \in Calls, Mark(c) PROVE DueInv'
  BY <1>1 DEF Mark
<1>2. ASSUME NEW c \in Calls, Push(c) PROVE DueInv'
  BY <1>2 DEF Push
<1>3. ASSUME NEW c \in Calls, Take(c) PROVE DueInv'
  BY <1>3 DEF Take
<1>4. ASSUME NEW c \in Calls, GiveUp(c) PROVE DueInv'
  BY <1>4 DEF GiveUp
<1>5. ASSUME Tick PROVE DueInv'
  BY <1>5 DEF Tick
<1>6. ASSUME UNCHANGED <<clock, mark, givesUp, caller>> PROVE DueInv'
  BY <1>6
<1>7. ASSUME NEW c \in Calls, Check(c) \/ Start(c) \/ Return(c) \/ Respond(c)
      PROVE UNCHANGED <<clock, mark, givesUp, caller>>
  BY <1>7 DEF Check, Start, Return, Respond
<1>8. ASSUME Pop \/ Crash \/ UNCHANGED rpcVars
      PROVE UNCHANGED <<clock, mark, givesUp, caller>>
  BY <1>8 DEF Pop, Crash, rpcVars
<1> QED BY <1>1, <1>2, <1>3, <1>4, <1>5, <1>6, <1>7, <1>8 DEF RpcNext

\* A request that its caller has given up is not let through (is_timeout_expired),
\* whatever the timeouts are and however long it was in the queue.
THEOREM GivenUpIsDropped == RpcSpec => ExpiredIsDropped
<1>1. RpcInit => DueInv
  BY DEF RpcInit, DueInv, CallerStates
<1>2. DueInv /\ [RpcNext]_rpcVars => DueInv'
  BY DueStep
<1>3. ASSUME PlaceInv, DueInv, [RpcNext]_rpcVars, NEW c \in Calls,
             server # server', server' = Serving("passed", c)
      PROVE  caller[c] # "timeout"
  <2>1. CASE Pop
    BY <1>3, <2>1 DEF Pop, Serving, DueInv, PlaceInv, Shape
  <2>2. ASSUME NEW d \in Calls, Check(d) PROVE caller[c] # "timeout"
    BY <1>3, <2>2 DEF Check, Serving, Listening, DueInv
  <2>3. ASSUME NEW d \in Calls, Start(d) \/ Return(d) \/ Respond(d) PROVE FALSE
    BY <1>3, <2>3 DEF Start, Return, Respond, Serving, Listening
  <2>4. ASSUME NEW d \in Calls, Mark(d) \/ Push(d) \/ Take(d) \/ GiveUp(d) PROVE FALSE
    BY <1>3, <2>4 DEF Mark, Push, Take, GiveUp
  <2>5. ASSUME Crash \/ Tick \/ UNCHANGED rpcVars PROVE FALSE
    BY <1>3, <2>5 DEF Crash, Tick, rpcVars, Serving, Listening
  <2> QED BY <1>3, <2>1, <2>2, <2>3, <2>4, <2>5 DEF RpcNext
<1>4. PlaceInv /\ DueInv /\ [RpcNext]_rpcVars =>
        [\A c \in Calls : (server # server' /\ server' = Serving("passed", c)) =>
                            caller[c] # "timeout"]_rpcVars
  BY <1>3
<1> QED BY <1>1, <1>2, <1>4, PlacesKept, PTL DEF RpcSpec, ExpiredIsDropped

\* What neither invariant speaks of: the clock, the expiry of answers, the crashes.
RestInv == clock \in 0 .. MaxClock /\ expires \in [Calls -> Nat] /\ crashes \in 0 .. MaxCrashes

LEMMA RestStep ==
  ASSUME RestInv, [RpcNext]_rpcVars
  PROVE  RestInv'
<1> USE RpcAssumption DEF RestInv
<1>1. ASSUME NEW c \in Calls, Respond(c) PROVE RestInv'
  BY <1>1 DEF Respond
<1>2. CASE Tick
  BY <1>2 DEF Tick
<1>3. CASE Crash
  BY <1>3 DEF Crash
<1>4. ASSUME NEW c \in Calls, Mark(c) \/ Push(c) \/ Take(c) \/ GiveUp(c) \/ Check(c)
                              \/ Start(c) \/ Return(c)
      PROVE  UNCHANGED <<clock, expires, crashes>>
  BY <1>4 DEF Mark, Push, Take, GiveUp, Check, Start, Return
<1>5. ASSUME Pop \/ UNCHANGED rpcVars PROVE UNCHANGED <<clock, expires, crashes>>
  BY <1>5 DEF Pop, rpcVars
<1> QED BY <1>1, <1>2, <1>3, <1>4, <1>5 DEF RpcNext

CallInv == PlaceInv /\ DueInv /\ RestInv

LEMMA CallInvInit == RpcInit => CallInv
<1>1. RpcInit => DueInv /\ RestInv
  BY RpcAssumption DEF RpcInit, DueInv, RestInv, CallerStates
<1> QED BY <1>1, PlaceInit DEF CallInv

LEMMA CallInvStep ==
  ASSUME CallInv, [RpcNext]_rpcVars
  PROVE  CallInv'
BY PlaceStep, DueStep, RestStep DEF CallInv

LEMMA CallTypes == CallInv => RpcTypeOK
<1> SUFFICES ASSUME CallInv PROVE RpcTypeOK
  OBVIOUS
<1>1. ran \in [Calls -> Nat]
  <2>1. ran \in [Calls -> 0 .. 1] /\ 0 .. 1 \subseteq Nat
    BY DEF CallInv, PlaceInv, Shape
  <2> QED BY <2>1
<1>2. Shape /\ DueInv /\ RestInv
  BY DEF CallInv, PlaceInv
<1> QED BY <1>1, <1>2 DEF Shape, DueInv, RestInv, RpcTypeOK

\* What redis, the callers and the server keep has its type in every state, within the
\* bounds of the clock and of the crashes.
THEOREM CallsTyped == RpcSpec => []RpcTypeOK
<1>1. CallInv /\ [RpcNext]_rpcVars => CallInv'
  BY CallInvStep
<1> QED BY <1>1, CallInvInit, CallTypes, PTL DEF RpcSpec

-----------------------------------------------------------------------------
(***************************************************************************)
(* Theorems about Dialogs: for any number of users, accounts and commands, *)
(* the dialogs of users are kept apart, a question takes one answer, and   *)
(* what is cleared was asked for.                                          *)
(*                                                                         *)
(* What holds them together is whose callbacks the registry has: those     *)
(* under an author's name are of that author's commands, and of commands   *)
(* that have asked and were not answered yet.                              *)
(***************************************************************************)

\* A command that has not asked anything with buttons.
Early == {"unused", "checked", "choosing"}

\* The registry has an author's callbacks under the author's name.
RegistryOwn ==
  /\ \A a \in Authors : onSelect[a] # NoAsk => author[onSelect[a]] = a
  /\ \A a \in Authors, b \in Choices :
       onButton[<<a, b>>] # NoAsk => author[onButton[<<a, b>>]] = a

\* A command whose buttons' callbacks are registered has asked, and has no answer.
RegistryFresh ==
  /\ \A d \in Asks : progress[d] \in Early => answers[d] = 0
  /\ \A k \in Authors \X Choices : onButton[k] # NoAsk =>
       answers[onButton[k]] = 0 /\ progress[onButton[k]] \notin Early

\* Only /clear awaits a confirmation.
AskingClears == \A d \in Asks : progress[d] = "asking" => command[d] = "clear"

DlgInv == /\ DlgTypeOK /\ AuthorsApart /\ OneAnswer
          /\ RegistryOwn /\ RegistryFresh /\ AskingClears

-----------------------------------------------------------------------------
(* One lemma per action.                                                   *)

LEMMA InitDlgInv == DlgInit => DlgInv
<1> SUFFICES ASSUME DlgInit PROVE DlgInv
  OBVIOUS
<1> USE DlgAssumption DEF DlgInit
<1>1. DlgTypeOK
  BY DEF DlgTypeOK
<1>2. AuthorsApart /\ OneAnswer
  BY DEF AuthorsApart, OneAnswer
<1>3. RegistryOwn /\ RegistryFresh /\ AskingClears
  BY DEF RegistryOwn, RegistryFresh, AskingClears, Choices
<1> QED BY <1>1, <1>2, <1>3 DEF DlgInv

\* Clear and OfferEntry put a selection on the screen.
LEMMA SelectionStep ==
  ASSUME DlgInv, NEW d \in Asks, Clear(d) \/ OfferEntry(d)
  PROVE  DlgInv'
<1> USE DlgAssumption DEF Clear, OfferEntry, CreateSelection
<1>1. progress[d] \in Early /\ progress' = [progress EXCEPT ![d] = "choosing"]
  BY DEF Early
<1>2. DlgTypeOK'
  BY DEF DlgInv, DlgTypeOK
<1>3. AuthorsApart' /\ OneAnswer'
  BY DEF DlgInv, AuthorsApart, OneAnswer
<1>4. RegistryOwn'
  BY DEF DlgInv, DlgTypeOK, RegistryOwn
<1>5. RegistryFresh'
  BY <1>1 DEF DlgInv, DlgTypeOK, RegistryFresh, Early
<1>6. AskingClears'
  BY <1>1 DEF DlgInv, DlgTypeOK, AskingClears
<1> QED BY <1>2, <1>3, <1>4, <1>5, <1>6 DEF DlgInv

\* CheckEntry and Expire move a command on, and register nothing.
LEMMA ProgressStep ==
  ASSUME DlgInv, NEW d \in Asks, CheckEntry(d) \/ Expire(d)
  PROVE  DlgInv'
<1> USE DEF CheckEntry, Expire, Caught, Awaited
<1>1. PICK how \in {"checked", "failed", "expired"} :
        progress' = [progress EXCEPT ![d] = how] /\ (how = "checked" => progress[d] \in Early)
  BY DEF Early
<1>2. UNCHANGED <<author, command, picks, menus, buttons, onSelect, onButton, histories,
                  entries, answers, clicks>>
  OBVIOUS
<1> HIDE DEF CheckEntry, Expire
<1>3. DlgTypeOK'
  BY <1>1, <1>2 DEF DlgInv, DlgTypeOK
<1>4. AuthorsApart' /\ OneAnswer' /\ RegistryOwn'
  BY <1>2 DEF DlgInv, AuthorsApart, OneAnswer, RegistryOwn
<1>5. RegistryFresh'
  BY <1>1, <1>2 DEF DlgInv, DlgTypeOK, RegistryFresh, Early
<1>6. AskingClears'
  BY <1>1, <1>2 DEF DlgInv, DlgTypeOK, AskingClears
<1> QED BY <1>3, <1>4, <1>5, <1>6 DEF DlgInv

\* What buttons that are put on the screen leave of the registry.
LEMMA ButtonsStep ==
  ASSUME DlgInv, NEW d \in Asks, progress[d] \in Early, CreateButtons(d),
         NEW next \in {"asking", "offered"}, progress' = [progress EXCEPT ![d] = next],
         UNCHANGED <<author, command, onSelect, answers, clicks>>
  PROVE  RegistryOwn' /\ RegistryFresh' /\ onButton' \in [Authors \X Choices -> Asks \cup {NoAsk}]
<1> USE DEF DlgInv, DlgTypeOK
<1>1. \A k \in Authors \X Choices :
         onButton'[k] = IF k[1] = author[d] THEN d ELSE onButton[k]
  BY DEF CreateButtons
<1>2. onButton' \in [Authors \X Choices -> Asks \cup {NoAsk}]
  BY DEF CreateButtons
<1>3. \A a \in Authors, b \in Choices :
         onButton'[<<a, b>>] = IF a = author[d] THEN d ELSE onButton[<<a, b>>]
  BY <1>1
<1>4. RegistryOwn'
  BY <1>3 DEF RegistryOwn
<1>5. ASSUME NEW k \in Authors \X Choices, onButton'[k] # NoAsk
      PROVE  answers[onButton'[k]] = 0 /\ progress'[onButton'[k]] \notin Early
  <2>1. CASE k[1] = author[d]
    BY <1>1, <2>1 DEF RegistryFresh, Early
  <2>2. CASE k[1] # author[d]
    BY <1>1, <1>5, <2>2 DEF RegistryFresh, Early
  <2> QED BY <2>1, <2>2
<1>6. RegistryFresh'
  BY <1>5 DEF RegistryFresh, Early
<1> QED BY <1>2, <1>4, <1>6

LEMMA DeleteAllStep ==
  ASSUME DlgInv, NEW d \in Asks, DeleteAll(d)
  PROVE  DlgInv'
<1> USE DEF DeleteAll
<1>1. RegistryOwn' /\ RegistryFresh' /\ onButton' \in [Authors \X Choices -> Asks \cup {NoAsk}]
  BY ButtonsStep DEF Early
<1>2. DlgTypeOK'
  BY <1>1 DEF DlgInv, DlgTypeOK, CreateButtons
<1>3. AuthorsApart' /\ OneAnswer'
  BY DEF DlgInv, AuthorsApart, OneAnswer
<1>4. AskingClears'
  BY DEF DlgInv, DlgTypeOK, AskingClears
<1> QED BY <1>1, <1>2, <1>3, <1>4 DEF DlgInv

LEMMA ChooseStep ==
  ASSUME DlgInv, NEW m \in Asks, Choose(m)
  PROVE  DlgInv'
<1> DEFINE d == onSelect[author[m]]
<1> USE DEF DlgInv
<1>1. d \in Asks /\ author[d] = author[m] /\ author[m] \in Authors
  BY DEF Choose, DlgTypeOK, RegistryOwn
<1>2. PICK chosen \in SUBSET AccountsOf(author[m]) \ {{}} :
        \/ /\ progress[d] = "choosing" /\ command[d] = "clear"
           /\ picks' = [picks EXCEPT ![d] = chosen]
           /\ progress' = [progress EXCEPT ![d] = "asking"]
           /\ CreateButtons(d)
           /\ UNCHANGED entries
        \/ /\ progress[d] = "choosing" /\ command[d] = "join"
           /\ \E c \in chosen :
                /\ entries' = entries \cup {c}
                /\ picks' = [picks EXCEPT ![d] = {c}]
           /\ progress' = [progress EXCEPT ![d] = "done"]
           /\ UNCHANGED <<buttons, onButton>>
  BY DEF Choose
<1>3. UNCHANGED <<author, command, menus, onSelect, histories, answers, clicks>>
  BY DEF Choose
<1>4. chosen \subseteq AccountsOf(author[d]) /\ AccountsOf(author[d]) \subseteq Authors \X Numbers
  BY <1>1 DEF AccountsOf
<1> HIDE DEF d
<1>5. CASE /\ progress[d] = "choosing" /\ command[d] = "clear"
           /\ picks' = [picks EXCEPT ![d] = chosen]
           /\ progress' = [progress EXCEPT ![d] = "asking"]
           /\ CreateButtons(d)
           /\ UNCHANGED entries
  <2>1. RegistryOwn' /\ RegistryFresh'
        /\ onButton' \in [Authors \X Choices -> Asks \cup {NoAsk}]
    BY <1>1, <1>3, <1>5, ButtonsStep DEF Early
  <2>2. DlgTypeOK'
    BY <1>1, <1>3, <1>4, <1>5, <2>1 DEF DlgTypeOK, CreateButtons
  <2>3. AuthorsApart' /\ OneAnswer'
    BY <1>1, <1>3, <1>4, <1>5 DEF DlgTypeOK, AuthorsApart, OneAnswer
  <2>4. AskingClears'
    BY <1>1, <1>3, <1>5 DEF DlgTypeOK, AskingClears
  <2> QED BY <2>1, <2>2, <2>3, <2>4
<1>6. CASE /\ progress[d] = "choosing" /\ command[d] = "join"
           /\ \E c \in chosen :
                /\ entries' = entries \cup {c}
                /\ picks' = [picks EXCEPT ![d] = {c}]
           /\ progress' = [progress EXCEPT ![d] = "done"]
           /\ UNCHANGED <<buttons, onButton>>
  <2>1. PICK c \in chosen : entries' = entries \cup {c} /\ picks' = [picks EXCEPT ![d] = {c}]
    BY <1>6
  <2>2. DlgTypeOK'
    BY <1>1, <1>3, <1>4, <1>6, <2>1 DEF DlgTypeOK
  <2>3. AuthorsApart' /\ OneAnswer' /\ RegistryOwn'
    BY <1>1, <1>3, <1>4, <1>6, <2>1 DEF DlgTypeOK, AuthorsApart, OneAnswer, RegistryOwn
  <2>4. RegistryFresh' /\ AskingClears'
    BY <1>1, <1>3, <1>6 DEF DlgTypeOK, RegistryFresh, AskingClears, Early
  <2> QED BY <2>2, <2>3, <2>4
<1> QED BY <1>2, <1>5, <1>6

\* A click answers one question of the author, whose callbacks it takes out.
LEMMA ClickStep ==
  ASSUME DlgInv, NEW m \in Asks, NEW b \in Choices, Click(m, b)
  PROVE  DlgInv'
<1> DEFINE a == author[m]
           d == onButton[<<a, b>>]
<1> USE DEF DlgInv
<1>1. d \in Asks /\ author[d] = a /\ a \in Authors /\ <<a, b>> \in Authors \X Choices
  BY DEF Click, DlgTypeOK, RegistryOwn
<1>2. answers[d] = 0 /\ progress[d] \notin Early
  BY <1>1 DEF Click, RegistryFresh
<1>3. /\ onButton' = [k \in DOMAIN onButton |-> IF k[1] = a THEN NoAsk ELSE onButton[k]]
      /\ buttons' = buttons \ {m}
      /\ answers' = [answers EXCEPT ![d] = IF @ = 2 THEN 2 ELSE @ + 1]
      /\ clicks' = clicks \cup {<<m, d>>}
      /\ Answer(d, b)
      /\ UNCHANGED <<author, command, picks, menus, onSelect, entries>>
  BY DEF Click
<1> HIDE DEF d
<1>4. PICK how \in {"done", "failed", progress[d]} :
        /\ progress' = [progress EXCEPT ![d] = how]
        /\ histories' \subseteq histories
  BY <1>1, <1>3 DEF Answer, Caught, DlgTypeOK
<1> HIDE DEF a
<1>5. answers' = [answers EXCEPT ![d] = 1]
  BY <1>1, <1>2, <1>3 DEF DlgTypeOK
<1>6. \A k \in Authors \X Choices :
        onButton'[k] = IF k[1] = a THEN NoAsk ELSE onButton[k]
  BY <1>3 DEF DlgTypeOK
<1>7. DlgTypeOK'
  BY <1>1, <1>3, <1>4, <1>5 DEF DlgTypeOK
<1>8. AuthorsApart'
  BY <1>1, <1>3 DEF AuthorsApart, DlgTypeOK, a
<1>9. OneAnswer'
  BY <1>1, <1>5 DEF OneAnswer, DlgTypeOK
<1>10. RegistryOwn'
  BY <1>3, <1>6 DEF RegistryOwn
<1>11. ASSUME NEW k \in Authors \X Choices, onButton'[k] # NoAsk
       PROVE  answers'[onButton'[k]] = 0 /\ progress'[onButton'[k]] \notin Early
  <2>1. onButton'[k] = onButton[k] /\ k[1] # a
    BY <1>6, <1>11
  <2>2. onButton[k] # d
    BY <1>1, <1>11, <2>1 DEF RegistryOwn
  <2> QED BY <1>4, <1>5, <1>11, <2>1, <2>2 DEF RegistryFresh, DlgTypeOK
<1>12. RegistryFresh'
  BY <1>1, <1>2, <1>4, <1>5, <1>11 DEF RegistryFresh, DlgTypeOK, Early
<1>13. AskingClears'
  BY <1>1, <1>3, <1>4 DEF AskingClears, DlgTypeOK
<1> QED BY <1>7, <1>8, <1>9, <1>10, <1>12, <1>13

LEMMA DlgInvStep == DlgInv /\ [DlgNext]_dlgVars => DlgInv'
<1> SUFFICES ASSUME DlgInv, [DlgNext]_dlgVars PROVE DlgInv'
  OBVIOUS
<1>1. CASE UNCHANGED dlgVars
  BY <1>1 DEF dlgVars, DlgInv, DlgTypeOK, AuthorsApart, OneAnswer, RegistryOwn,
              RegistryFresh, AskingClears
<1>2. CASE DlgNext
  BY <1>2, SelectionStep, ProgressStep, DeleteAllStep, ChooseStep, ClickStep DEF DlgNext
<1> QED BY <1>1, <1>2

-----------------------------------------------------------------------------
\* What a step deletes of the histories, its author has chosen, and confirmed while
\* the command was waiting for that.
LEMMA ClearedStep ==
  ASSUME DlgInv, [DlgNext]_dlgVars, NEW c \in histories \ histories'
  PROVE  \E d \in Asks : /\ command[d] = "clear" /\ c \in picks[d]
                         /\ progress[d] = "asking" /\ progress'[d] = "done"
<1>1. \E m \in Asks, b \in Choices : Click(m, b)
  BY DEF DlgNext, dlgVars, Clear, CheckEntry, OfferEntry, DeleteAll, Choose, Expire
<1>2. PICK m \in Asks, b \in Choices : Click(m, b)
  BY <1>1
<1> DEFINE d == onButton[<<author[m], b>>]
<1>3. d \in Asks
  BY <1>2 DEF Click, DlgInv, DlgTypeOK
<1>4. Answer(d, b)
  BY <1>2 DEF Click
<1>5. /\ progress[d] = "asking" /\ c \in picks[d]
      /\ progress' = [progress EXCEPT ![d] = "done"]
  BY <1>4 DEF Answer
<1> QED BY <1>3, <1>5 DEF DlgInv, DlgTypeOK, AskingClears

\* The answers, questions and histories of users are not mixed up (bot/utils.py,
\* clear_history), whoever clicks on whatever message, however many users and
\* dialogs there are.
THEOREM DialogsKeptApart == DlgSpec => DialogsApart
<1>1. DlgInv => AuthorsApart /\ OneAnswer
  BY DEF DlgInv
<1>2. DlgInv /\ [DlgNext]_dlgVars =>
        [\A c \in histories \ histories' :
           \E d \in Asks : /\ command[d] = "clear" /\ c \in picks[d]
                           /\ progress[d] = "asking" /\ progress'[d] = "done"]_dlgVars
  BY ClearedStep
<1> QED BY InitDlgInv, DlgInvStep, <1>1, <1>2, PTL DEF DlgSpec, DialogsApart, ClearedWasAsked

\* The registry, the commands and what they delete keep their types, whoever clicks.
THEOREM DialogsTyped == DlgSpec => []DlgTypeOK
<1>1. DlgInv => DlgTypeOK
  BY DEF DlgInv
<1> QED BY InitDlgInv, DlgInvStep, <1>1, PTL DEF DlgSpec

-----------------------------------------------------------------------------
(***************************************************************************)
(* ActionBus: for any actions, topics and executions, and any number of    *)
(* writes and restarts, the service listens to what the users have asked   *)
(* for.  The invariant follows the messages: the last one about an action  *)
(* says what its row is or is about to be, and an action that can be       *)
(* relied on has its topics for itself, so that no other takes its         *)
(* callback away.                                                          *)
(***************************************************************************)

\* The topics an action has or is about to have.
Held(a) == {row[a], flushed[a].topic, known[a]} \ {NoAction}

\* Who can be relied on has its topics for itself.
Apart == \A a \in Actions \ spoilt, b \in Actions : b # a => Held(a) \cap Held(b) = {}

Pending(a) == \E i \in DOMAIN inbox : inbox[i].action = a
Last(a, i) == inbox[i].action = a /\ \A j \in DOMAIN inbox : inbox[j].action = a => j <= i

\* The messages about an action: it is created and deleted, not edited, and one that
\* init has read is not created.
Told(a) == \A i \in DOMAIN inbox : inbox[i].action = a =>
  inbox[i].kind = "delete" \/ (inbox[i].kind = "new" /\ a \notin foreign)

\* The last message says what the row is or is about to be.
LastWord(a) == \A i \in DOMAIN inbox : Last(a, i) =>
  IF inbox[i].kind = "new" THEN flushed[a].kind = "new" \/ (~Busy(a) /\ Exists(a))
                           ELSE flushed[a].kind = "delete" \/ (~Busy(a) /\ ~Exists(a))

\* What is flushed: a row that nobody has known, which is announced, or the end of one.
Written(a) ==
  CASE flushed[a].kind = "new" -> /\ ~Exists(a) /\ known[a] = NoAction /\ Pending(a)
                                  /\ flushed[a].topic # NoAction
    [] flushed[a].kind = "delete" -> Exists(a) /\ flushed[a].topic = NoAction
    [] flushed[a].kind = "update" -> FALSE
    [] OTHER -> TRUE

\* What the service knows is what is there, or was.
Remembers(a) ==
  /\ known[a] # NoAction => row[a] \in {known[a], NoAction}
  /\ a \in foreign => known[a] # NoAction
  /\ a \in Retired => a \in doomed \cup foreign

\* An action has at most its own channel, and not when it has run for the only time;
\* when no message is left it has it if its row is there to stay.
Subscribed(a) ==
  /\ \A t \in Topics : callback[t] = a =>
       known[a] = t /\ a \notin Retired /\ (row[a] = t \/ Pending(a))
  /\ ~Pending(a) =>
       /\ flushed[a].kind = "delete" => \A t \in Topics : callback[t] # a
       /\ ~Busy(a) /\ Exists(a) /\ a \notin Retired => callback[row[a]] = a

Sound(a) == Told(a) /\ LastWord(a) /\ Written(a) /\ Remembers(a) /\ Subscribed(a)

BusInv == BusTypeOK /\ Apart /\ \A a \in Actions \ spoilt : Sound(a)

-----------------------------------------------------------------------------
LEMMA BusConstants ==
  /\ NoAction \notin Actions /\ NoAction \notin Topics
  /\ MaxWrites \in Nat /\ MaxRestarts \in Nat
BY ActionBusAssumption

LEMMA Kinds ==
  ASSUME BusTypeOK, NEW a \in Actions
  PROVE  /\ flushed[a].kind \in {"none", "new", "update", "delete"}
         /\ flushed[a].topic \in Topics \cup {NoAction}
         /\ Busy(a) <=> flushed[a].kind # "none"
         /\ ~Busy(a) => flushed[a].topic = NoAction
         /\ row[a] \in Topics \cup {NoAction} /\ known[a] \in Topics \cup {NoAction}
<1>1. flushed[a] \in {Unchanged} \cup
        [kind : {"new", "update", "delete"}, topic : Topics \cup {NoAction}]
  BY DEF BusTypeOK
<1>2. row[a] \in Topics \cup {NoAction} /\ known[a] \in Topics \cup {NoAction}
  BY DEF BusTypeOK
<1>3. CASE flushed[a] = Unchanged
  BY <1>2, <1>3 DEF Unchanged, Busy
<1>4. CASE flushed[a] \in [kind : {"new", "update", "delete"}, topic : Topics \cup {NoAction}]
  BY <1>2, <1>4 DEF Unchanged, Busy
<1> QED BY <1>1, <1>3, <1>4

-----------------------------------------------------------------------------
(* Types.                                                                  *)

LEMMA BusTypesInit == BusInit => BusTypeOK
<1> SUFFICES ASSUME BusInit PROVE BusTypeOK
  OBVIOUS
<1>1. flushed \in [Actions -> {Unchanged} \cup
                    [kind : {"new", "update", "delete"}, topic : Topics \cup {NoAction}]]
  BY DEF BusInit
<1>2. execution \in [Runs -> {Idle} \cup [stage : Stages, action : Actions]]
  BY DEF BusInit
<1>3. Remote!CallTypeOK
  BY DEF BusInit, Remote!CallInit, Remote!CallTypeOK
<1> QED BY <1>1, <1>2, <1>3, BusConstants DEF BusInit, BusTypeOK

LEMMA WriteTypes ==
  ASSUME BusTypeOK, NEW a \in Actions, NEW kind \in {"new", "update", "delete"},
         NEW topic \in Topics \cup {NoAction}, Write(a, kind, topic),
         spoilt' \subseteq Actions
  PROVE  BusTypeOK'
<1>1. inbox' \in Seq([kind : {"new", "update", "delete"}, action : Actions])
  <2> DEFINE m == [kind |-> kind, action |-> a]
             S == [kind : {"new", "update", "delete"}, action : Actions]
  <2>1. m \in S /\ inbox \in Seq(S) /\ inbox' = Append(inbox, m)
    BY DEF BusTypeOK, Write
  <2> HIDE DEF m, S
  <2>2. inbox' \in Seq(S)
    BY <2>1
  <2> QED BY <2>2 DEF S
<1>2. flushed' \in [Actions -> {Unchanged} \cup
                    [kind : {"new", "update", "delete"}, topic : Topics \cup {NoAction}]]
  BY DEF BusTypeOK, Write
<1>3. writes' \in 0 .. MaxWrites
  BY BusConstants DEF BusTypeOK, Write
<1> QED BY <1>1, <1>2, <1>3
        DEF BusTypeOK, Write, session, Remote!CallTypeOK

LEMMA CommitTypes ==
  ASSUME BusTypeOK, NEW a \in Actions, Commit(a)
  PROVE  BusTypeOK'
<1>1. row' \in [Actions -> Topics \cup {NoAction}]
  BY Kinds DEF BusTypeOK, Commit
<1>2. flushed' \in [Actions -> {Unchanged} \cup
                    [kind : {"new", "update", "delete"}, topic : Topics \cup {NoAction}]]
  BY DEF BusTypeOK, Commit
<1> QED BY <1>1, <1>2
        DEF BusTypeOK, Commit, session, bounds, Remote!CallTypeOK

LEMMA HeadOfInbox ==
  ASSUME BusTypeOK, inbox # <<>>
  PROVE  /\ Head(inbox).action \in Actions /\ Head(inbox).kind \in {"new", "update", "delete"}
         /\ Tail(inbox) \in Seq([kind : {"new", "update", "delete"}, action : Actions])
         /\ inbox[1] = Head(inbox) /\ 1 \in DOMAIN inbox
         /\ \A i \in DOMAIN Tail(inbox) : i + 1 \in DOMAIN inbox /\ Tail(inbox)[i] = inbox[i + 1]
         /\ \A j \in DOMAIN inbox : j = 1 \/ j - 1 \in DOMAIN Tail(inbox)
         /\ \A j \in DOMAIN inbox : j \in Nat /\ j >= 1
<1> DEFINE S == [kind : {"new", "update", "delete"}, action : Actions]
<1>1. inbox \in Seq(S) /\ inbox # <<>>
  BY DEF BusTypeOK
<1>2. \A s \in S : s.action \in Actions /\ s.kind \in {"new", "update", "delete"}
  OBVIOUS
<1> HIDE DEF S
<1>3. /\ Head(inbox) \in S /\ Tail(inbox) \in Seq(S) /\ Len(inbox) \in Nat \ {0}
      /\ DOMAIN inbox = 1 .. Len(inbox) /\ DOMAIN Tail(inbox) = 1 .. Len(inbox) - 1
      /\ inbox[1] = Head(inbox)
      /\ \A i \in 1 .. Len(inbox) - 1 : Tail(inbox)[i] = inbox[i + 1]
  BY <1>1
<1>4. /\ \A i \in DOMAIN Tail(inbox) : i + 1 \in DOMAIN inbox /\ Tail(inbox)[i] = inbox[i + 1]
      /\ \A j \in DOMAIN inbox : j = 1 \/ j - 1 \in DOMAIN Tail(inbox)
      /\ 1 \in DOMAIN inbox /\ \A j \in DOMAIN inbox : j \in Nat /\ j >= 1
  BY <1>3
<1> QED BY <1>2, <1>3, <1>4 DEF S

LEMMA HandleTypes ==
  ASSUME BusTypeOK, Handle
  PROVE  BusTypeOK'
<1> DEFINE a == Head(inbox).action
           kind == Head(inbox).kind
           topic == Visible(a)
<1>1. /\ a \in Actions
      /\ inbox' \in Seq([kind : {"new", "update", "delete"}, action : Actions])
  BY HeadOfInbox DEF Handle
<1>2. topic \in Topics \cup {NoAction}
  BY <1>1, Kinds DEF Visible
<1>3. /\ topic = NoAction => UNCHANGED <<known, callback>>
      /\ topic # NoAction => /\ known' = [known EXCEPT ![a] = topic]
                             /\ Handler(kind, a, topic)
      /\ spoilt' = IF InTime(Head(inbox)) THEN spoilt ELSE spoilt \cup {a}
  BY DEF Handle
<1> HIDE DEF a, kind, topic
<1>4. /\ known' \in [Actions -> Topics \cup {NoAction}]
      /\ callback' \in [Topics -> Actions \cup {NoAction}]
      /\ spoilt' \subseteq Actions
  BY <1>1, <1>2, <1>3 DEF BusTypeOK, Handler, Removes, Adds
<1> QED BY <1>1, <1>4 DEF BusTypeOK, Handle, api, bounds, Remote!CallTypeOK

\* What executions do but for their end.
Proceeds(r) == \/ \E t \in Topics : Trigger(r, t)
            \/ Prepare(r) \/ Raise(r) \/ Bot(r) \/ Called(r)

LEMMA RunFrame ==
  ASSUME NEW r \in Runs, Proceeds(r)
  PROVE  UNCHANGED <<row, flushed, inbox, known, foreign, doomed, callback, writes, restarts,
                     spoilt>>
BY DEF Proceeds, Trigger, Prepare, Raise, Bot, Called, api, session, bounds

LEMMA GoesTypes ==
  ASSUME BusTypeOK, NEW r \in Runs, NEW old \in Stages, At(r, old), NEW stage \in Stages,
         Goes(r, stage)
  PROVE  /\ execution' \in [Runs -> {Idle} \cup [stage : Stages, action : Actions]]
         /\ execution[r].action \in Actions
<1>1. execution[r] \in [stage : Stages, action : Actions]
  BY DEF BusTypeOK, At, Idle, Stages
<1>2. [execution[r] EXCEPT !.stage = stage] \in [stage : Stages, action : Actions]
  BY <1>1
<1> QED BY <1>1, <1>2 DEF BusTypeOK, Goes

LEMMA RetiredFrame ==
  ASSUME UNCHANGED execution
  PROVE  Retired' = Retired
BY DEF Retired

\* Only an execution that comes to its end retires its action, if that runs once.
LEMMA Retiring ==
  ASSUME BusTypeOK, NEW r \in Runs, NEW old \in Stages, At(r, old), old # "done",
         NEW stage \in Stages, Goes(r, stage)
  PROVE  Retired' = IF stage = "done" /\ execution[r].action \in Once
                    THEN Retired \cup {execution[r].action} ELSE Retired
<1> DEFINE a == execution[r].action
<1>1. /\ execution[r] \in [stage : Stages, action : Actions] /\ execution[r].stage = old
      /\ execution'[r] = [execution[r] EXCEPT !.stage = stage]
      /\ \A q \in Runs \ {r} : execution'[q] = execution[q]
  BY DEF BusTypeOK, At, Goes, Idle, Stages
<1>2. execution'[r] = [stage |-> stage, action |-> a]
  BY <1>1
<1>3. \A b : execution[r] # [stage |-> "done", action |-> b]
  BY <1>1
<1>4. \A b : execution'[r] = [stage |-> "done", action |-> b] <=> stage = "done" /\ a = b
  BY <1>2
<1> HIDE DEF a
<1>5. ASSUME NEW b \in Once
      PROVE  b \in Retired' <=> b \in Retired \/ (stage = "done" /\ a = b)
  BY <1>1, <1>3, <1>4 DEF Retired
<1>6. Retired' \subseteq Once /\ Retired \subseteq Once
  BY DEF Retired
<1> QED BY <1>5, <1>6 DEF a

LEMMA RunRetires ==
  ASSUME BusTypeOK, NEW r \in Runs, Proceeds(r)
  PROVE  Retired' = Retired
<1>1. ASSUME NEW t \in Topics, Trigger(r, t) PROVE Retired' = Retired
  <2>1. /\ execution[r].stage # "done" /\ execution'[r].stage # "done"
        /\ \A q \in Runs \ {r} : execution'[q] = execution[q]
    BY <1>1 DEF Trigger, BusTypeOK, Idle
  <2> QED BY <2>1 DEF Retired
<1>2. CASE Prepare(r)
  BY <1>2, Retiring DEF Prepare, Stages
<1>3. CASE Raise(r)
  BY <1>3, Retiring DEF Raise, Stages
<1>4. CASE Bot(r)
  BY <1>4, RetiredFrame DEF Bot
<1>5. CASE Called(r)
  BY <1>5, Retiring DEF Called, Stages
<1> QED BY <1>1, <1>2, <1>3, <1>4, <1>5 DEF Proceeds

LEMMA RunTypes ==
  ASSUME BusTypeOK, NEW r \in Runs, Proceeds(r)
  PROVE  BusTypeOK'
<1>1. execution' \in [Runs -> {Idle} \cup [stage : Stages, action : Actions]]
  <2>1. ASSUME NEW t \in Topics, Trigger(r, t)
        PROVE  execution' \in [Runs -> {Idle} \cup [stage : Stages, action : Actions]]
    <3>1. callback[t] \in Actions
      BY <2>1 DEF Trigger, BusTypeOK
    <3> QED BY <2>1, <3>1 DEF Trigger, BusTypeOK, Stages
  <2>2. CASE Prepare(r)
    BY <2>2, GoesTypes DEF Prepare, Stages
  <2>3. CASE Raise(r)
    BY <2>3, GoesTypes DEF Raise, Stages
  <2>4. CASE Bot(r)
    BY <2>4 DEF Bot, BusTypeOK
  <2>5. CASE Called(r)
    BY <2>5, GoesTypes DEF Called, Stages
  <2> QED BY <2>1, <2>2, <2>3, <2>4, <2>5 DEF Proceeds
<1>2. Remote!CallTypeOK'
  <2>1. \/ UNCHANGED <<reported, sent>> \/ Remote!Ask(r) \/ Remote!RunMethod(r)
        \/ Remote!Answer(r) \/ Remote!Fail(r)
    BY DEF Proceeds, Trigger, Prepare, Raise, Bot, Called
  <2>2. Remote!CallTypeOK
    BY DEF BusTypeOK
  <2> QED BY <2>1, <2>2 DEF Remote!CallTypeOK, Remote!Ask, Remote!RunMethod, Remote!Answer,
                            Remote!Fail, Remote!Becomes
<1> QED BY <1>1, <1>2, RunFrame DEF BusTypeOK

LEMMA FinishTypes ==
  ASSUME BusTypeOK, NEW r \in Runs, Finish(r)
  PROVE  BusTypeOK'
<1>1. /\ execution' \in [Runs -> {Idle} \cup [stage : Stages, action : Actions]]
      /\ execution[r].action \in Actions
  BY GoesTypes DEF Finish, Stages
<1>2. /\ callback' \in [Topics -> Actions \cup {NoAction}]
      /\ doomed' \subseteq Once
  BY <1>1 DEF BusTypeOK, Finish, Removes
<1> QED BY <1>1, <1>2 DEF BusTypeOK, Finish, api, bounds, Remote!CallTypeOK

LEMMA RestartTypes ==
  ASSUME BusTypeOK, Restart
  PROVE  BusTypeOK'
<1>1. execution' \in [Runs -> {Idle} \cup [stage : Stages, action : Actions]]
  <2>1. ASSUME NEW r \in Runs, execution[r] # Idle
        PROVE  [execution[r] EXCEPT !.stage = "stopped"] \in [stage : Stages, action : Actions]
    <3>1. execution[r] \in [stage : Stages, action : Actions]
      BY <2>1 DEF BusTypeOK
    <3> QED BY <3>1 DEF Stages
  <2>2. execution' = [r \in Runs |->
          IF execution[r] = Idle THEN Idle ELSE [execution[r] EXCEPT !.stage = "stopped"]]
    BY DEF Restart
  <2> QED BY <2>1, <2>2
<1>2. restarts' \in 0 .. MaxRestarts
  BY BusConstants DEF Restart, BusTypeOK
<1>3. callback' \in [Topics -> Actions \cup {NoAction}]
  BY DEF Restart
<1> QED BY <1>1, <1>2, <1>3 DEF BusTypeOK, Restart, api, Remote!CallTypeOK, Exists

LEMMA BusTypesStep ==
  ASSUME BusTypeOK, [BusNext]_busVars
  PROVE  BusTypeOK'
<1>1. ASSUME NEW a \in Actions, NEW t \in Topics, Create(a, t) \/ Edit(a, t) PROVE BusTypeOK'
  BY <1>1, WriteTypes DEF Create, Edit, Sharing, BusTypeOK
<1>2. ASSUME NEW a \in Actions, Delete(a) PROVE BusTypeOK'
  BY <1>2, WriteTypes DEF Delete, BusTypeOK
<1>3. ASSUME NEW r \in Runs, Prepare(r) \/ Raise(r) \/ Bot(r) \/ Called(r) PROVE BusTypeOK'
  BY <1>3, RunTypes DEF Proceeds
<1>4. ASSUME NEW r \in Runs, NEW t \in Topics, Trigger(r, t) PROVE BusTypeOK'
  BY <1>4, RunTypes DEF Proceeds
<1>5. CASE UNCHANGED busVars
  BY <1>5 DEF busVars, BusTypeOK, Remote!CallTypeOK
<1> QED BY <1>1, <1>2, <1>3, <1>4, <1>5, CommitTypes, HandleTypes, FinishTypes, RestartTypes
        DEF BusNext

\* Rows, messages, callbacks, executions and the calls they make keep their types,
\* whatever is written, run and restarted (actionservice.py, crudrouter.py).
THEOREM ActionsTyped == BusSpec => []BusTypeOK
BY BusTypesInit, BusTypesStep, PTL DEF BusSpec

-----------------------------------------------------------------------------
(* Subscriptions.                                                          *)

\* What holds of an action is not changed by a step that leaves it alone.
Same(a) ==
  /\ row'[a] = row[a] /\ flushed'[a] = flushed[a] /\ known'[a] = known[a]
  /\ a \in foreign' <=> a \in foreign
  /\ a \in Retired' <=> a \in Retired
  /\ a \in doomed => a \in doomed'
  /\ \A t \in Topics : callback'[t] = a <=> callback[t] = a

\* So do messages about others.
SameNews(a) ==
  /\ Pending(a)' <=> Pending(a)
  /\ \A i \in DOMAIN inbox' : inbox'[i].action = a =>
       \E j \in DOMAIN inbox : inbox[j].action = a /\ inbox[j].kind = inbox'[i].kind
  /\ \A i \in DOMAIN inbox' : Last(a, i)' =>
       \E j \in DOMAIN inbox : Last(a, j) /\ inbox[j].kind = inbox'[i].kind

LEMMA SameSound ==
  ASSUME BusTypeOK, NEW a \in Actions, Sound(a), Same(a), SameNews(a)
  PROVE  Sound(a)'
<1>1. /\ Busy(a)' <=> Busy(a)
      /\ Exists(a)' <=> Exists(a)
  BY DEF Same, Busy, Exists
<1>2. Told(a)'
  BY DEF Sound, Told, Same, SameNews
<1>3. LastWord(a)'
  BY <1>1 DEF Sound, LastWord, Same, SameNews
<1>4. Written(a)'
  BY <1>1 DEF Sound, Written, Same, SameNews
<1>5. Remembers(a)'
  BY DEF Sound, Remembers, Same
<1>6. Subscribed(a)'
  <2>1. Exists(a) => row[a] \in Topics
    BY Kinds DEF Exists
  <2> QED BY <1>1, <2>1 DEF Sound, Subscribed, Same, SameNews
<1> QED BY <1>2, <1>3, <1>4, <1>5, <1>6 DEF Sound

LEMMA QuietNews ==
  ASSUME NEW a, inbox' = inbox
  PROVE  SameNews(a)
BY DEF SameNews, Pending, Last

LEMMA AppendedNews ==
  ASSUME BusTypeOK, NEW m \in [kind : {"new", "update", "delete"}, action : Actions],
         inbox' = Append(inbox, m)
  PROVE  /\ DOMAIN inbox' = DOMAIN inbox \cup {Len(inbox) + 1}
         /\ \A i \in DOMAIN inbox : i \in Nat /\ i < Len(inbox) + 1 /\ inbox'[i] = inbox[i]
         /\ inbox'[Len(inbox) + 1] = m /\ Len(inbox) + 1 \in Nat
<1> DEFINE S == [kind : {"new", "update", "delete"}, action : Actions]
<1>1. inbox \in Seq(S) /\ m \in S
  BY DEF BusTypeOK
<1> HIDE DEF S
<1> QED BY <1>1

LEMMA WrittenNews ==
  ASSUME BusTypeOK, NEW m \in [kind : {"new", "update", "delete"}, action : Actions],
         inbox' = Append(inbox, m), NEW a, a # m.action
  PROVE  SameNews(a)
<1>1. /\ DOMAIN inbox' = DOMAIN inbox \cup {Len(inbox) + 1}
      /\ \A i \in DOMAIN inbox : inbox'[i] = inbox[i]
      /\ inbox'[Len(inbox) + 1].action # a
  BY AppendedNews
<1> QED BY <1>1 DEF SameNews, Pending, Last

LEMMA ReadNews ==
  ASSUME BusTypeOK, inbox # <<>>, inbox' = Tail(inbox), NEW a, a # Head(inbox).action
  PROVE  SameNews(a)
<1>1. /\ \A i \in DOMAIN inbox' : i + 1 \in DOMAIN inbox /\ inbox'[i] = inbox[i + 1]
      /\ \A j \in DOMAIN inbox : j \in Nat /\ j >= 1
      /\ \A j \in DOMAIN inbox : j = 1 \/ j - 1 \in DOMAIN inbox'
      /\ inbox[1].action # a
  BY HeadOfInbox
<1>2. \A i \in DOMAIN inbox' : i \in Nat
  <2>1. DOMAIN inbox' = 1 .. Len(inbox')
    BY HeadOfInbox
  <2>2. Len(inbox') \in Nat
    BY HeadOfInbox
  <2> QED BY <2>1, <2>2
<1>3. Pending(a)' <=> Pending(a)
  <2>1. ASSUME NEW j \in DOMAIN inbox, inbox[j].action = a
        PROVE  j - 1 \in DOMAIN inbox' /\ inbox'[j - 1].action = a
    <3>1. j - 1 \in DOMAIN inbox' /\ j \in Nat
      BY <1>1, <2>1
    <3>2. inbox'[j - 1] = inbox[(j - 1) + 1] /\ (j - 1) + 1 = j
      BY <1>1, <3>1
    <3> QED BY <2>1, <3>1, <3>2
  <2> QED BY <1>1, <2>1 DEF Pending
<1>4. ASSUME NEW i \in DOMAIN inbox', Last(a, i)'
      PROVE  Last(a, i + 1) /\ i + 1 \in DOMAIN inbox /\ inbox[i + 1].kind = inbox'[i].kind
  <2>1. inbox'[i] = inbox[i + 1] /\ i + 1 \in DOMAIN inbox /\ inbox'[i].action = a /\ i \in Nat
    BY <1>1, <1>2, <1>4 DEF Last
  <2>2. ASSUME NEW j \in DOMAIN inbox, inbox[j].action = a
        PROVE  j <= i + 1
    <3>1. j - 1 \in DOMAIN inbox' /\ j \in Nat /\ j - 1 \in Nat
      BY <1>1, <1>2, <2>2
    <3>2. inbox'[j - 1] = inbox[(j - 1) + 1] /\ (j - 1) + 1 = j
      BY <1>1, <3>1
    <3>3. j - 1 <= i
      BY <1>4, <2>2, <3>1, <3>2 DEF Last
    <3> QED BY <2>1, <3>1, <3>3
  <2> QED BY <2>1, <2>2 DEF Last
<1> QED BY <1>1, <1>3, <1>4 DEF SameNews

\* Topics that are given up, or kept, disturb nobody.
LEMMA ApartFrame ==
  ASSUME Apart, spoilt \subseteq spoilt', \A a \in Actions : Held(a)' \subseteq Held(a)
  PROVE  Apart'
BY DEF Apart

\* Whose callbacks a step writes under topics of a's disturbs no other.
LEMMA Elsewhere ==
  ASSUME BusTypeOK, Apart, NEW a \in Actions \ spoilt, NEW b \in Actions, a # b,
         Sound(a), NEW t \in Held(b), NEW x \in {b, NoAction},
         callback' = [callback EXCEPT ![t] = x]
  PROVE  \A s \in Topics : callback'[s] = a <=> callback[s] = a
<1>1. a # NoAction
  BY BusConstants
<1>2. t # known[a]
  BY DEF Apart, Held
<1>3. \A s \in Topics : callback'[s] = IF s = t THEN x ELSE callback[s]
  BY DEF BusTypeOK
<1>4. t \in Topics => callback[t] # a
  BY <1>2 DEF Sound, Subscribed
<1> QED BY <1>1, <1>3, <1>4

-----------------------------------------------------------------------------
(* The operations.                                                         *)

LEMMA BusInitInv == BusInit => BusInv
<1> SUFFICES ASSUME BusInit PROVE BusInv
  OBVIOUS
<1>1. /\ row = [a \in Actions |-> NoAction] /\ flushed = [a \in Actions |-> Unchanged]
      /\ inbox = <<>> /\ known = [a \in Actions |-> NoAction] /\ foreign = {}
      /\ callback = [t \in Topics |-> NoAction]
  BY DEF BusInit
<1>4. Retired = {}
  BY DEF BusInit, Retired, Idle
<1>2. Apart
  BY <1>1 DEF Apart, Held, Unchanged
<1>3. ASSUME NEW a \in Actions PROVE Sound(a)
  <2>1. flushed[a].kind = "none" /\ row[a] = NoAction /\ known[a] = NoAction
    BY <1>1 DEF Unchanged
  <2>2. \A t \in Topics : callback[t] # a
    BY <1>1, BusConstants
  <2> QED BY <1>1, <1>4, <2>1, <2>2 DEF Sound, Told, LastWord, Written, Remembers, Subscribed, Exists
<1> QED BY <1>2, <1>3, BusTypesInit DEF BusInv

LEMMA CreateInv ==
  ASSUME BusInv, NEW a \in Actions, NEW t \in Topics, Create(a, t), BusTypeOK'
  PROVE  BusInv'
<1> DEFINE m == [kind |-> "new", action |-> a]
           others == Sharing(a, t)
<1>1. /\ BusTypeOK /\ Apart /\ ~Exists(a) /\ ~Busy(a) /\ known[a] = NoAction
      /\ a \notin Retired /\ a \notin spoilt
      /\ flushed' = [flushed EXCEPT ![a] = [kind |-> "new", topic |-> t]]
      /\ inbox' = Append(inbox, m)
      /\ spoilt' = spoilt \cup IF others = {} THEN {} ELSE {a} \cup others
      /\ UNCHANGED <<row, known, foreign, doomed, callback, Retired>>
  BY RetiredFrame DEF BusInv, Create, Write, session
<1>2. /\ flushed'[a] = [kind |-> "new", topic |-> t]
      /\ \A b \in Actions \ {a} : flushed'[b] = flushed[b]
  BY <1>1 DEF BusTypeOK
<1>3. t # NoAction /\ Held(a)' \subseteq {t} /\ \A b \in Actions \ {a} : Held(b)' = Held(b)
  BY <1>1, <1>2, BusConstants DEF Held, Exists
<1>4. \A b \in Actions \ {a} : b \notin others => t \notin Held(b)
  BY DEF Sharing, Held
<1>5. Apart'
  <2> SUFFICES ASSUME NEW b \in Actions \ spoilt', NEW c \in Actions, c # b
               PROVE  Held(b)' \cap Held(c)' = {}
    BY DEF Apart
  <2>1. b \notin spoilt /\ (a = b => others = {}) /\ b \notin others
    BY <1>1
  <2>2. CASE b = a
    BY <1>3, <1>4, <2>1, <2>2
  <2>3. CASE c = a
    BY <1>3, <1>4, <2>1, <2>3
  <2>4. CASE b # a /\ c # a
    BY <1>1, <1>3, <2>1, <2>4 DEF Apart
  <2> QED BY <2>2, <2>3, <2>4
<1>6. m \in [kind : {"new", "update", "delete"}, action : Actions] /\ m.action = a /\ m.kind = "new"
  OBVIOUS
<1> HIDE DEF m, others
<1>7. ASSUME NEW b \in Actions \ spoilt', b # a PROVE Sound(b)'
  <2>1. Sound(b) /\ Same(b)
    BY <1>1, <1>2, <1>7 DEF BusInv, Same
  <2>2. SameNews(b)
    BY <1>1, <1>6, <1>7, WrittenNews
  <2> QED BY <1>1, <2>1, <2>2, SameSound
<1>8. Sound(a)'
  <2>1. Sound(a)
    BY <1>1 DEF BusInv
  <2>2. /\ DOMAIN inbox' = DOMAIN inbox \cup {Len(inbox) + 1}
        /\ \A i \in DOMAIN inbox : i \in Nat /\ i < Len(inbox) + 1 /\ inbox'[i] = inbox[i]
        /\ inbox'[Len(inbox) + 1] = m /\ Len(inbox) + 1 \in Nat
    BY <1>1, <1>6, AppendedNews
  <2>3. Pending(a)'
    BY <1>6, <2>2 DEF Pending
  <2>4. a \notin foreign /\ \A s \in Topics : callback[s] # a
    BY <1>1, <2>1, BusConstants DEF Sound, Remembers, Subscribed
  <2>5. Told(a)'
    BY <1>1, <1>6, <2>1, <2>2, <2>4 DEF Sound, Told
  <2>6. \A i \in DOMAIN inbox' : Last(a, i)' => i = Len(inbox) + 1
    BY <1>6, <2>2 DEF Last
  <2>7. LastWord(a)'
    BY <1>2, <1>6, <2>2, <2>6 DEF LastWord
  <2>8. Written(a)'
    BY <1>1, <1>2, <1>3, <2>3 DEF Written, Exists
  <2>9. Remembers(a)' /\ Subscribed(a)'
    BY <1>1, <2>3, <2>4 DEF Remembers, Subscribed
  <2> QED BY <2>5, <2>7, <2>8, <2>9 DEF Sound
<1> QED BY <1>5, <1>7, <1>8 DEF BusInv

LEMMA EditInv ==
  ASSUME BusInv, NEW a \in Actions, NEW t \in Topics, Edit(a, t), BusTypeOK'
  PROVE  BusInv'
<1> DEFINE m == [kind |-> "update", action |-> a]
           others == Sharing(a, t)
<1>1. /\ BusTypeOK /\ Apart /\ ~Busy(a)
      /\ flushed' = [flushed EXCEPT ![a] = [kind |-> "update", topic |-> t]]
      /\ inbox' = Append(inbox, m)
      /\ spoilt' = spoilt \cup {a} \cup others
      /\ UNCHANGED <<row, known, foreign, doomed, callback, Retired>>
  BY RetiredFrame DEF BusInv, Edit, Write, session
<1>2. /\ flushed'[a] = [kind |-> "update", topic |-> t]
      /\ \A b \in Actions \ {a} : flushed'[b] = flushed[b]
  BY <1>1 DEF BusTypeOK
<1>3. /\ Held(a)' \subseteq Held(a) \cup {t}
      /\ \A b \in Actions \ {a} : Held(b)' = Held(b)
  BY <1>1, <1>2 DEF Held
<1>4. t # NoAction /\ \A b \in Actions \ {a} : b \notin others => t \notin Held(b)
  BY BusConstants DEF Sharing, Held
<1>5. Apart'
  <2> SUFFICES ASSUME NEW b \in Actions \ spoilt', NEW c \in Actions, c # b
               PROVE  Held(b)' \cap Held(c)' = {}
    BY DEF Apart
  <2>1. b \notin spoilt /\ a # b /\ b \notin others
    BY <1>1
  <2>2. Held(b) \cap Held(c) = {}
    BY <1>1, <2>1 DEF Apart
  <2> QED BY <1>3, <1>4, <2>1, <2>2
<1>6. m \in [kind : {"new", "update", "delete"}, action : Actions] /\ m.action = a
  OBVIOUS
<1> HIDE DEF m, others
<1>7. ASSUME NEW b \in Actions \ spoilt' PROVE Sound(b)'
  <2>0. b # a /\ b \notin spoilt
    BY <1>1
  <2>1. Sound(b) /\ Same(b)
    BY <1>1, <1>2, <2>0 DEF BusInv, Same
  <2>2. SameNews(b)
    BY <1>1, <1>6, <2>0, WrittenNews
  <2> QED BY <1>1, <2>1, <2>2, SameSound
<1> QED BY <1>5, <1>7 DEF BusInv

LEMMA DeleteInv ==
  ASSUME BusInv, NEW a \in Actions, Delete(a), BusTypeOK'
  PROVE  BusInv'
<1> DEFINE m == [kind |-> "delete", action |-> a]
<1>1. /\ BusTypeOK /\ Apart /\ ~Busy(a) /\ Exists(a)
      /\ flushed' = [flushed EXCEPT ![a] = [kind |-> "delete", topic |-> NoAction]]
      /\ inbox' = Append(inbox, m)
      /\ UNCHANGED <<row, known, foreign, doomed, callback, Retired, spoilt>>
  BY RetiredFrame DEF BusInv, Delete, Write, session
<1>2. /\ flushed'[a] = [kind |-> "delete", topic |-> NoAction]
      /\ \A b \in Actions \ {a} : flushed'[b] = flushed[b]
  BY <1>1 DEF BusTypeOK
<1>3. Apart'
  <2>1. \A b \in Actions : Held(b)' \subseteq Held(b)
    BY <1>1, <1>2 DEF Held
  <2> QED BY <1>1, <2>1, ApartFrame
<1>4. m \in [kind : {"new", "update", "delete"}, action : Actions] /\ m.action = a /\ m.kind = "delete"
  OBVIOUS
<1> HIDE DEF m
<1>5. ASSUME NEW b \in Actions \ spoilt, b # a PROVE Sound(b)'
  <2>1. Sound(b) /\ Same(b)
    BY <1>1, <1>2, <1>5 DEF BusInv, Same
  <2>2. SameNews(b)
    BY <1>1, <1>4, <1>5, WrittenNews
  <2> QED BY <1>1, <2>1, <2>2, SameSound
<1>6. ASSUME a \notin spoilt PROVE Sound(a)'
  <2>1. Sound(a)
    BY <1>6 DEF BusInv
  <2>2. /\ DOMAIN inbox' = DOMAIN inbox \cup {Len(inbox) + 1}
        /\ \A i \in DOMAIN inbox : i \in Nat /\ i < Len(inbox) + 1 /\ inbox'[i] = inbox[i]
        /\ inbox'[Len(inbox) + 1] = m /\ Len(inbox) + 1 \in Nat
    BY <1>1, <1>4, AppendedNews
  <2>3. Pending(a)'
    BY <1>4, <2>2 DEF Pending
  <2>4. Told(a)'
    BY <1>1, <1>4, <2>1, <2>2 DEF Sound, Told
  <2>5. \A i \in DOMAIN inbox' : Last(a, i)' => i = Len(inbox) + 1
    BY <1>4, <2>2 DEF Last
  <2>6. LastWord(a)'
    BY <1>2, <1>4, <2>2, <2>5 DEF LastWord
  <2>7. Written(a)'
    BY <1>1, <1>2 DEF Written, Exists
  <2>8. Remembers(a)' /\ Subscribed(a)'
    BY <1>1, <2>1, <2>3 DEF Sound, Remembers, Subscribed
  <2> QED BY <2>4, <2>6, <2>7, <2>8 DEF Sound
<1> QED BY <1>1, <1>3, <1>5, <1>6 DEF BusInv

LEMMA CommitInv ==
  ASSUME BusInv, NEW a \in Actions, Commit(a), BusTypeOK'
  PROVE  BusInv'
<1>1. /\ BusTypeOK /\ Apart /\ Busy(a)
      /\ row' = [row EXCEPT ![a] = flushed[a].topic]
      /\ flushed' = [flushed EXCEPT ![a] = Unchanged]
      /\ UNCHANGED <<inbox, known, foreign, doomed, callback, Retired, spoilt>>
  BY RetiredFrame DEF BusInv, Commit, session
<1>2. /\ flushed'[a] = Unchanged /\ row'[a] = flushed[a].topic
      /\ \A b \in Actions \ {a} : flushed'[b] = flushed[b] /\ row'[b] = row[b]
      /\ flushed'[a].kind = "none" /\ flushed'[a].topic = NoAction /\ ~Busy(a)'
  BY <1>1 DEF BusTypeOK, Unchanged, Busy
<1>3. Apart'
  <2>1. \A b \in Actions : Held(b)' \subseteq Held(b)
    BY <1>1, <1>2 DEF Held
  <2> QED BY <1>1, <2>1, ApartFrame
<1>4. ASSUME NEW b \in Actions \ spoilt, b # a PROVE Sound(b)'
  <2>1. Sound(b) /\ Same(b)
    BY <1>1, <1>2, <1>4 DEF BusInv, Same
  <2> QED BY <1>1, <2>1, QuietNews, SameSound
<1>5. ASSUME a \notin spoilt PROVE Sound(a)'
  <2>1. Sound(a)
    BY <1>5 DEF BusInv
  <2>2. \/ flushed[a].kind = "new" /\ ~Exists(a) /\ known[a] = NoAction /\ Pending(a)
        \/ flushed[a].kind = "delete" /\ Exists(a) /\ flushed[a].topic = NoAction
    BY <1>1, <2>1, Kinds DEF Sound, Written
  <2>3. Told(a)' /\ Written(a)' /\ (Pending(a)' <=> Pending(a))
    BY <1>1, <1>2, <2>1 DEF Sound, Told, Written, Pending
  <2>4. CASE flushed[a].kind = "new"
    <3>1. Pending(a) /\ known[a] = NoAction /\ \A t \in Topics : callback[t] # a
      BY <2>1, <2>2, <2>4, BusConstants DEF Sound, Subscribed
    <3>2. Exists(a)'
      BY <1>2, <2>1, <2>4 DEF Exists, Sound, Written
    <3>3. LastWord(a)'
      <4> SUFFICES ASSUME NEW i \in DOMAIN inbox, Last(a, i) PROVE inbox[i].kind = "new"
        BY <1>1, <1>2, <3>2 DEF LastWord, Last
      <4> QED BY <2>1, <2>4, <1>1 DEF Sound, LastWord, Last
    <3>4. Remembers(a)' /\ Subscribed(a)'
      BY <1>1, <2>1, <2>3, <3>1 DEF Sound, Remembers, Subscribed
    <3> QED BY <2>3, <3>3, <3>4 DEF Sound
  <2>5. CASE flushed[a].kind = "delete"
    <3>1. ~Exists(a)' /\ row'[a] = NoAction
      BY <1>2, <2>2, <2>5 DEF Exists
    <3>2. LastWord(a)'
      <4> SUFFICES ASSUME NEW i \in DOMAIN inbox, Last(a, i) PROVE inbox[i].kind # "new"
        BY <1>1, <1>2, <3>1 DEF LastWord, Last
      <4> QED BY <2>1, <2>5, <1>1 DEF Sound, LastWord, Last
    <3>3. Remembers(a)' /\ Subscribed(a)'
      BY <1>1, <1>2, <2>1, <2>3, <2>5, <3>1 DEF Sound, Remembers, Subscribed
    <3> QED BY <2>3, <3>2, <3>3 DEF Sound
  <2> QED BY <2>2, <2>4, <2>5
<1> QED BY <1>1, <1>3, <1>4, <1>5 DEF BusInv

LEMMA Shifted ==
  ASSUME BusTypeOK, inbox # <<>>, inbox' = Tail(inbox), NEW a
  PROVE  /\ \A i \in DOMAIN inbox' : i + 1 \in DOMAIN inbox /\ inbox'[i] = inbox[i + 1]
         /\ \A i \in DOMAIN inbox' : Last(a, i)' => Last(a, i + 1)
         /\ ~Pending(a)' /\ Head(inbox).action = a => Last(a, 1)
         /\ 1 \in DOMAIN inbox /\ inbox[1] = Head(inbox)
<1>1. /\ \A i \in DOMAIN inbox' : i + 1 \in DOMAIN inbox /\ inbox'[i] = inbox[i + 1]
      /\ \A j \in DOMAIN inbox : j \in Nat /\ j >= 1
      /\ \A j \in DOMAIN inbox : j = 1 \/ j - 1 \in DOMAIN inbox'
      /\ 1 \in DOMAIN inbox /\ inbox[1] = Head(inbox)
  BY HeadOfInbox
<1>2. \A i \in DOMAIN inbox' : i \in Nat /\ i >= 1
  <2>1. DOMAIN inbox' = 1 .. Len(inbox') /\ Len(inbox') \in Nat
    BY HeadOfInbox
  <2> QED BY <2>1
<1>3. ASSUME NEW j \in DOMAIN inbox, j # 1
      PROVE  j - 1 \in DOMAIN inbox' /\ j - 1 \in Nat /\ inbox'[j - 1] = inbox[j]
  <2>1. j - 1 \in DOMAIN inbox' /\ j \in Nat
    BY <1>1, <1>3
  <2>2. inbox'[j - 1] = inbox[(j - 1) + 1] /\ (j - 1) + 1 = j
    BY <1>1, <2>1
  <2> QED BY <1>2, <2>1, <2>2
<1>4. ASSUME NEW i \in DOMAIN inbox', Last(a, i)' PROVE Last(a, i + 1)
  <2>1. inbox[i + 1].action = a /\ i \in Nat /\ i >= 1
    BY <1>1, <1>2, <1>4 DEF Last
  <2>2. ASSUME NEW j \in DOMAIN inbox, inbox[j].action = a PROVE j <= i + 1
    <3>1. CASE j = 1
      BY <2>1, <3>1
    <3>2. CASE j # 1
      <4>1. j - 1 <= i /\ j \in Nat
        BY <1>1, <1>3, <1>4, <2>2, <3>2 DEF Last
      <4> QED BY <2>1, <4>1
    <3> QED BY <3>1, <3>2
  <2> QED BY <2>1, <2>2 DEF Last
<1>5. ASSUME ~Pending(a)', Head(inbox).action = a PROVE Last(a, 1)
  <2>1. \A j \in DOMAIN inbox : inbox[j].action = a => j = 1
    BY <1>3, <1>5 DEF Pending
  <2> QED BY <1>1, <1>5, <2>1 DEF Last
<1> QED BY <1>1, <1>4, <1>5

\* The message of an action that can be relied on, before and after.
LEMMA HandledOwn ==
  ASSUME BusInv, Handle, NEW a \in Actions \ spoilt', a = Head(inbox).action
  PROVE  Sound(a)'
<1> DEFINE kind == Head(inbox).kind
<1>1. /\ BusTypeOK /\ inbox # <<>> /\ inbox' = Tail(inbox)
      /\ UNCHANGED <<row, flushed, foreign, doomed, Retired>>
      /\ InTime(Head(inbox)) /\ a \notin spoilt /\ Sound(a)
  BY RetiredFrame DEF BusInv, Handle, api
<1>2. kind = "delete" \/ (kind = "new" /\ a \notin foreign /\ ~Busy(a))
  BY <1>1, Shifted DEF Sound, Told, InTime
<1>3. Exists(a) /\ a \notin doomed /\ Visible(a) = row[a] /\ row[a] \in Topics
  BY <1>1, Kinds DEF InTime, Visible, Exists
<1>4. known' = [known EXCEPT ![a] = row[a]] /\ Handler(kind, a, row[a])
  BY <1>3 DEF Handle, Exists
<1>5. known'[a] = row[a] /\ row'[a] = row[a] /\ Exists(a)' /\ (Busy(a)' <=> Busy(a))
  BY <1>1, <1>3, <1>4 DEF BusTypeOK, Exists, Busy
<1>6. flushed[a].kind # "new" /\ \A t \in Topics : callback[t] = a => t = row[a]
  BY <1>1, <1>3, BusConstants DEF Sound, Written, Subscribed, Remembers, Exists
<1> HIDE DEF kind
<1>7. Told(a)'
  BY <1>1, Shifted DEF Sound, Told
<1>8. LastWord(a)'
  <2> SUFFICES ASSUME NEW i \in DOMAIN inbox', Last(a, i)'
               PROVE  IF inbox'[i].kind = "new"
                      THEN flushed[a].kind = "new" \/ (~Busy(a) /\ Exists(a))
                      ELSE flushed[a].kind = "delete" \/ (~Busy(a) /\ ~Exists(a))
    BY <1>1, <1>3, <1>5 DEF LastWord
  <2>1. i + 1 \in DOMAIN inbox /\ inbox'[i] = inbox[i + 1] /\ Last(a, i + 1)
    BY <1>1, Shifted
  <2> QED BY <1>1, <2>1 DEF Sound, LastWord
<1>9. Written(a)' /\ Remembers(a)'
  BY <1>1, <1>3, <1>5, <1>6 DEF Sound, Written, Remembers, Exists
<1>10. Subscribed(a)'
  <2>1. CASE kind = "new"
    <3>1. callback' = [callback EXCEPT ![row[a]] = a]
      BY <1>4, <2>1 DEF Handler, Adds
    <3>2. callback'[row[a]] = a /\ \A t \in Topics : callback'[t] = a => t = row[a]
      BY <1>1, <1>3, <1>6, <3>1 DEF BusTypeOK
    <3>3. a \notin Retired /\ ~Busy(a)
      BY <1>1, <1>2, <1>3, <2>1 DEF Sound, Remembers
    <3>4. flushed[a].kind # "delete"
      BY <1>1, <3>3, Kinds
    <3> QED BY <1>1, <1>5, <3>2, <3>3, <3>4 DEF Subscribed
  <2>2. CASE kind = "delete"
    <3>1. callback' = [callback EXCEPT ![row[a]] = NoAction]
      BY <1>4, <2>2 DEF Handler, Removes
    <3>2. \A t \in Topics : callback'[t] # a
      BY <1>1, <1>6, <3>1, BusConstants DEF BusTypeOK
    <3>3. ~Pending(a)' => Busy(a)
      <4> SUFFICES ASSUME ~Pending(a)' PROVE Busy(a)
        OBVIOUS
      <4>1. Last(a, 1) /\ 1 \in DOMAIN inbox /\ inbox[1].kind # "new"
        BY <1>1, <2>2, Shifted DEF kind
      <4> QED BY <1>1, <1>3, <4>1, Kinds DEF Sound, LastWord
    <3> QED BY <1>5, <3>2, <3>3 DEF Subscribed
  <2> QED BY <1>2, <2>1, <2>2
<1> QED BY <1>7, <1>8, <1>9, <1>10 DEF Sound

LEMMA HandleInv ==
  ASSUME BusInv, Handle, BusTypeOK'
  PROVE  BusInv'
<1> DEFINE a == Head(inbox).action
           topic == Visible(a)
<1>1. /\ BusTypeOK /\ Apart /\ inbox # <<>> /\ inbox' = Tail(inbox)
      /\ UNCHANGED <<row, flushed, foreign, doomed, Retired>>
      /\ a \in Actions /\ spoilt \subseteq spoilt'
  BY HeadOfInbox, RetiredFrame DEF BusInv, Handle, api
<1>2. topic = NoAction \/ (topic = row[a] /\ topic # NoAction)
  BY DEF Visible
<1>3. \/ UNCHANGED <<known, callback>>
      \/ /\ topic # NoAction
         /\ known' = [known EXCEPT ![a] = topic]
         /\ Handler(Head(inbox).kind, a, topic)
  BY DEF Handle
<1> HIDE DEF a, topic
<1>4. \/ known' = known
      \/ /\ known'[a] = row[a]
         /\ \A b \in Actions \ {a} : known'[b] = known[b]
  BY <1>1, <1>2, <1>3 DEF BusTypeOK
<1>5. Apart'
  <2>1. \A b \in Actions : Held(b)' \subseteq Held(b)
    BY <1>1, <1>4 DEF Held
  <2> QED BY <1>1, <2>1, ApartFrame
<1>6. ASSUME NEW b \in Actions \ spoilt', b # a PROVE Sound(b)'
  <2>1. Sound(b) /\ b \notin spoilt
    BY <1>1, <1>6 DEF BusInv
  <2>2. \A s \in Topics : callback'[s] = b <=> callback[s] = b
    <3>1. CASE UNCHANGED callback
      BY <3>1
    <3>2. CASE ~UNCHANGED callback
      <4>1. topic \in Held(a)
        BY <1>2, <1>3, <3>2 DEF Held
      <4>2. PICK x \in {a, NoAction} : callback' = [callback EXCEPT ![topic] = x]
        BY <1>3, <3>2 DEF Handler, Adds, Removes
      <4> QED BY <1>1, <1>6, <2>1, <4>1, <4>2, Elsewhere
    <3> QED BY <3>1, <3>2
  <2>3. Same(b)
    BY <1>1, <1>4, <1>6, <2>2 DEF Same
  <2>4. SameNews(b)
    BY <1>1, <1>6, ReadNews DEF a
  <2> QED BY <1>1, <2>1, <2>3, <2>4, SameSound
<1> QED BY <1>5, <1>6, HandledOwn DEF BusInv, a

LEMMA RunInv ==
  ASSUME BusInv, UNCHANGED <<row, flushed, inbox, known, foreign, doomed, callback, spoilt>>,
         Retired' = Retired, BusTypeOK'
  PROVE  BusInv'
<1>1. Apart'
  BY DEF BusInv, Apart, Held
<1>2. ASSUME NEW a \in Actions \ spoilt PROVE Sound(a)'
  BY <1>2, SameSound, QuietNews DEF BusInv, Same
<1> QED BY <1>1, <1>2 DEF BusInv

LEMMA FinishInv ==
  ASSUME BusInv, NEW r \in Runs, Finish(r), BusTypeOK'
  PROVE  BusInv'
<1>0. PICK a \in Actions : a = execution[r].action
  BY GoesTypes DEF BusInv, Finish, Stages
<1>1. /\ BusTypeOK /\ Apart /\ a \in Actions
      /\ UNCHANGED <<row, flushed, inbox, known, foreign, spoilt>>
  BY DEF BusInv, Finish, api
<1>2. CASE a \notin Once
  <2>1. Retired' = Retired
    BY <1>0, <1>1, <1>2, Retiring DEF Finish, Stages
  <2> QED BY <1>0, <1>1, <1>2, <2>1, RunInv DEF Finish
<1>3. CASE a \in Once
  <2>1. /\ callback' = [callback EXCEPT ![known[a]] = NoAction]
        /\ doomed' = IF a \in foreign THEN doomed ELSE doomed \cup {a}
        /\ Retired' = Retired \cup {a}
    BY <1>0, <1>1, <1>3, Retiring DEF Finish, Removes, Stages
  <2>2. Apart'
    BY <1>1 DEF Apart, Held
  <2>3. ASSUME NEW b \in Actions \ spoilt, b # a PROVE Sound(b)'
    <3>1. Sound(b)
      BY <2>3 DEF BusInv
    <3>2. \A s \in Topics : callback'[s] = b <=> callback[s] = b
      <4>1. CASE known[a] = NoAction
        BY <1>1, <2>1, <4>1, BusConstants DEF BusTypeOK
      <4>2. CASE known[a] # NoAction
        <5>1. known[a] \in Held(a)
          BY <4>2 DEF Held
        <5> QED BY <1>1, <2>1, <2>3, <3>1, <5>1, Elsewhere
      <4> QED BY <4>1, <4>2
    <3>3. Same(b)
      BY <1>1, <2>1, <2>3, <3>2 DEF Same
    <3> QED BY <1>1, <3>1, <3>3, QuietNews, SameSound
  <2>4. ASSUME a \notin spoilt PROVE Sound(a)'
    <3>1. Sound(a)
      BY <1>1, <2>4 DEF BusInv
    <3>2. \A t \in Topics : callback'[t] # a
      BY <1>1, <2>1, <3>1, BusConstants DEF BusTypeOK, Sound, Subscribed
    <3>3. Told(a)' /\ LastWord(a)' /\ Written(a)'
      <4>1. Told(a)' /\ Written(a)'
        BY <1>1, <3>1 DEF Sound, Told, Written, Pending, Exists
      <4>2. LastWord(a)'
        BY <1>1, <3>1 DEF Sound, LastWord, Last, Busy, Exists
      <4> QED BY <4>1, <4>2
    <3>4. Remembers(a)' /\ Subscribed(a)'
      <4>1. Remembers(a)'
        BY <1>1, <2>1, <3>1 DEF Sound, Remembers
      <4>2. (Pending(a)' <=> Pending(a)) /\ (Busy(a)' <=> Busy(a)) /\ (Exists(a)' <=> Exists(a))
        BY <1>1 DEF Pending, Busy, Exists
      <4>3. Subscribed(a)'
        BY <2>1, <3>2, <4>2 DEF Subscribed
      <4> QED BY <4>1, <4>3
    <3> QED BY <3>3, <3>4 DEF Sound
  <2> QED BY <1>1, <2>2, <2>3, <2>4 DEF BusInv
<1> QED BY <1>2, <1>3

LEMMA RestartInv ==
  ASSUME BusInv, Restart, BusTypeOK'
  PROVE  BusInv'
<1>1. /\ BusTypeOK /\ UNCHANGED <<row, flushed>>
      /\ known' = row /\ inbox' = <<>> /\ doomed' = {}
      /\ foreign' = {a \in Actions : Exists(a)}
      /\ spoilt' = {a \in Actions : Busy(a) \/ (Exists(a) /\ Sharing(a, row[a]) # {})}
  BY DEF BusInv, Restart, api
<1>0. Retired' = {}
  <2>1. \A r \in Runs : execution'[r].stage # "done"
    BY <1>1 DEF Restart, BusTypeOK, Idle
  <2> QED BY <2>1 DEF Retired
<1>2. \A t \in Topics : IF \E a \in Actions : row[a] = t
                        THEN callback'[t] # NoAction /\ row[callback'[t]] = t
                        ELSE callback'[t] = NoAction
  BY DEF Restart
<1>3. callback' \in [Topics -> Actions \cup {NoAction}]
  BY DEF BusTypeOK
<1>4. Apart'
  <2> SUFFICES ASSUME NEW a \in Actions \ spoilt', NEW b \in Actions, b # a
               PROVE  Held(a)' \cap Held(b)' = {}
    BY DEF Apart
  <2>1. ~Busy(a) /\ (Exists(a) => Sharing(a, row[a]) = {})
    BY <1>1
  <2>2. Held(a)' \subseteq {row[a]} \ {NoAction} /\ Held(b)' \subseteq {row[b], flushed[b].topic}
    BY <1>1, <2>1, Kinds DEF Held
  <2>3. Exists(a) => row[a] \notin {row[b], flushed[b].topic}
    BY <2>1 DEF Sharing
  <2> QED BY <2>2, <2>3 DEF Exists
<1>5. ASSUME NEW a \in Actions \ spoilt' PROVE Sound(a)'
  <2>1. ~Busy(a) /\ (Exists(a) => Sharing(a, row[a]) = {}) /\ ~Pending(a)'
    BY <1>1, <1>5 DEF Pending
  <2>2. Told(a)' /\ LastWord(a)' /\ Remembers(a)'
    BY <1>0, <1>1 DEF Told, LastWord, Remembers, Exists
  <2>3. flushed[a].kind = "none"
    BY <1>1, <2>1, Kinds
  <2>4. Written(a)'
    BY <1>1, <2>3 DEF Written
  <2>5. \A t \in Topics : callback'[t] = a => row[a] = t
    BY <1>2, BusConstants
  <2>6. Exists(a) => callback'[row[a]] = a
    <3> SUFFICES ASSUME Exists(a) PROVE callback'[row[a]] = a
      OBVIOUS
    <3>1. row[a] \in Topics
      BY <1>1, Kinds DEF Exists
    <3>2. callback'[row[a]] \in Actions /\ row[callback'[row[a]]] = row[a]
      BY <1>2, <1>3, <3>1
    <3> QED BY <2>1, <3>2 DEF Sharing
  <2>7. Subscribed(a)'
    BY <1>0, <1>1, <2>1, <2>3, <2>5, <2>6 DEF Subscribed, Exists
  <2> QED BY <2>2, <2>4, <2>7 DEF Sound
<1> QED BY <1>1, <1>4, <1>5 DEF BusInv

LEMMA BusStep ==
  ASSUME BusInv, [BusNext]_busVars
  PROVE  BusInv'
<1>1. BusTypeOK'
  BY BusTypesStep DEF BusInv
<1>2. ASSUME NEW r \in Runs, Prepare(r) \/ Raise(r) \/ Bot(r) \/ Called(r) PROVE BusInv'
  BY <1>1, <1>2, RunFrame, RunRetires, RunInv DEF Proceeds, BusInv
<1>3. ASSUME NEW r \in Runs, NEW t \in Topics, Trigger(r, t) PROVE BusInv'
  BY <1>1, <1>3, RunFrame, RunRetires, RunInv DEF Proceeds, BusInv
<1>4. CASE UNCHANGED busVars
  BY <1>1, <1>4, RunInv, RetiredFrame DEF busVars
<1> QED BY <1>1, <1>2, <1>3, <1>4, CreateInv, EditInv, DeleteInv, CommitInv, HandleInv, FinishInv,
           RestartInv DEF BusNext

LEMMA SubscribedHolds ==
  ASSUME BusInv
  PROVE  SubscribedAsAsked
<1> SUFFICES ASSUME NEW a \in Actions \ spoilt, Rests(a)
             PROVE  {t \in Topics : callback[t] = a} =
                      IF Exists(a) /\ a \notin Retired THEN {row[a]} ELSE {}
  BY DEF SubscribedAsAsked
<1>1. BusTypeOK /\ Sound(a)
  BY DEF BusInv
<1>2. ~Busy(a) /\ ~Pending(a)
  <2>1. DOMAIN inbox = 1 .. Len(inbox)
    BY <1>1 DEF BusTypeOK
  <2> QED BY <2>1 DEF Rests, Pending
<1>3. \A t \in Topics : callback[t] = a => a \notin Retired /\ row[a] = t
  BY <1>1, <1>2 DEF Sound, Subscribed
<1>4. Exists(a) => row[a] \in Topics
  BY <1>1, Kinds DEF Exists
<1>5. CASE Exists(a) /\ a \notin Retired
  BY <1>1, <1>2, <1>3, <1>4, <1>5 DEF Sound, Subscribed
<1>6. CASE ~(Exists(a) /\ a \notin Retired)
  BY <1>3, <1>6, BusConstants DEF Exists
<1> QED BY <1>5, <1>6

LEMMA StartedOnce ==
  ASSUME BusInv, BusNext
  PROVE  NotStartedAfterwards
<1> SUFFICES ASSUME NEW r \in Runs, execution[r] = Idle, execution'[r] # Idle
             PROVE  execution'[r].action \notin Retired \ spoilt
  <2>1. ASSUME NEW q \in Runs, execution[q].stage = "done", execution[q].action \in Once
        PROVE  execution[q].action \in Retired
    <3>1. execution[q] \in [stage : Stages, action : Actions]
      BY <2>1 DEF BusInv, BusTypeOK, Idle
    <3>2. execution[q] = [stage |-> "done", action |-> execution[q].action]
      BY <2>1, <3>1
    <3> QED BY <2>1, <3>2 DEF Retired
  <2> QED BY <2>1 DEF NotStartedAfterwards
<1>1. BusTypeOK
  BY DEF BusInv
<1>2. ASSUME NEW q \in Runs, NEW t \in Topics, Trigger(q, t)
      PROVE  execution'[r].action \notin Retired \ spoilt
  <2>1. execution'[r].action = callback[t] /\ callback[t] \in Actions
    BY <1>1, <1>2 DEF Trigger, BusTypeOK
  <2> QED BY <2>1 DEF BusInv, Sound, Subscribed
<1>3. ASSUME NEW q \in Runs, NEW old, NEW new, At(q, old), old # "idle", Goes(q, new) PROVE FALSE
  BY <1>1, <1>3 DEF At, Goes, Idle, BusTypeOK
<1>4. ~Restart
  BY DEF Restart
<1>5. ASSUME NEW q \in Runs, Prepare(q) \/ Raise(q) \/ Called(q) \/ Finish(q) PROVE FALSE
  BY <1>3, <1>5 DEF Prepare, Raise, Called, Finish
<1>6. ASSUME NEW q \in Runs, Bot(q) PROVE FALSE
  BY <1>6 DEF Bot
<1>7. ASSUME NEW a \in Actions, Delete(a) \/ Commit(a) PROVE FALSE
  BY <1>7 DEF Delete, Commit, Write
<1>8. ASSUME NEW a \in Actions, NEW t \in Topics, Create(a, t) \/ Edit(a, t) PROVE FALSE
  BY <1>8 DEF Create, Edit, Write
<1>9. ~Handle
  BY DEF Handle
<1> QED BY <1>2, <1>4, <1>5, <1>6, <1>7, <1>8, <1>9 DEF BusNext

\* Every step leaves the service listening to what the users have asked for, and none
\* starts a one-time action after an execution of it has come to its end while the
\* collector runs, for any number of actions, writes, executions and restarts
\* (ActionService.add, remove, execute; init).
THEOREM ActionsKept == BusSpec => ActionsAsAsked
<1>1. BusSpec => []BusInv
  BY BusInitInv, BusStep, PTL DEF BusSpec
<1>2. BusInv /\ BusInv' /\ [BusNext]_busVars => [SubscribedAsAsked' /\ NotStartedAfterwards]_busVars
  <2>1. BusInv' => SubscribedAsAsked'
    BY SubscribedHolds, PTL
  <2> QED BY <2>1, StartedOnce
<1> QED BY <1>1, <1>2, PTL DEF BusSpec, ActionsAsAsked

-----------------------------------------------------------------------------
(***************************************************************************)
(* Theorems about the market data of the workers: the websocket that comes *)
(* and goes, the tickers above it and the refreshes that subscribe; and    *)
(* about all services together, as TLC explores them.                      *)
(*                                                                         *)
(* A websocket is followed by what it has been through: a connection that  *)
(* was the manager's is opened no more, and what was heard of it was heard *)
(* last.  A refresh is followed by what it has left to do.                 *)
(***************************************************************************)

Mail == {Data(f) : f \in Feeds} \cup {Good(r) : r \in Requests} \cup {Bad(r) : r \in Requests}

\* Who is the manager's connection was opened, and is not opened again; what was heard
\* is of such connections, and of the manager's own only if it was heard last.
Heard ==
  /\ ws # 0 => link[ws] \in {"open", "closed"}
  /\ \A i \in DOMAIN heard : /\ link[heard[i]] \in {"open", "closed"}
                             /\ heard[i] = ws => heard[Len(heard)] = ws

SocketInv == WsTypeOK /\ incoming \in [Conns -> Seq(Mail)] /\ Heard

\* What a refresh has been through has its worker among its observers, but for the
\* symbol that waits for the connection.
Observed(w) ==
  refresh[w].phase \in {"next", "connecting", "asking"} =>
    \A s \in refresh[w].target \ refresh[w].todo :
      w \in observers[s] \/ (refresh[w].phase = "connecting" /\ refresh[w].symbol = s)

\* A symbol is asked for with its first message, once somebody observes it.
FirstAsked ==
  \A r \in Requests : asker[r] # "idle" => r[2] = 1 /\ observers[r[1]] # {}

HubInv ==
  /\ HubTypeOK /\ incoming \in [Conns -> Seq(Mail)] /\ FirstAsked /\ WatchedIsObserved
  /\ \A w \in Workers : /\ Observed(w)
                        /\ refresh[w].phase = "connecting" => refresh[w].symbol \in Symbols

-----------------------------------------------------------------------------
(* The websocket, for whatever its owners and senders do.                  *)

\* Every step that a websocket takes, by itself or under a ticker.
WsStep ==
  \/ \E k \in Owners : Connect(k) \/ Reconnect(k) \/ Closed(k) \/ Polled(k) \/ PollTimeout(k)
  \/ \E c \in Conns :
       \/ Opened(c) \/ OpenFails(c) \/ Drop(c) \/ ReadData(c) \/ ReadAnswer(c)
       \/ \E m \in Mail : Arrives(c, m)
  \/ \E r \in Requests : Send(r) \/ RequestTimesOut(r) \/ Answered(r)

LEMMA SocketConstants ==
  /\ MaxConns \in Nat /\ MaxInbox \in Nat /\ MaxInbox >= 1
  /\ \A c \in Conns : c \in Nat /\ c # 0 /\ c \in 0 .. MaxConns
  /\ \A n \in 0 .. MaxConns : n # 0 => n \in Conns
BY WebsocketAssumption DEF Conns

LEMMA SocketInit == WsInit => SocketInv
<1> SUFFICES ASSUME WsInit PROVE SocketInv
  OBVIOUS
<1>1. WsTypeOK
  BY SocketConstants DEF WsInit, WsTypeOK
<1>2. incoming \in [Conns -> Seq(Mail)]
  BY DEF WsInit
<1> QED BY <1>1, <1>2 DEF WsInit, SocketInv, Heard

\* A connection that is opened was not; one that has been opened stays so or closes.
LEMMA LinkInv ==
  ASSUME SocketInv, UNCHANGED <<asker, fut, incoming, heard>>,
         link' \in [Conns -> {"unused", "opening", "open", "closed"}],
         owner' \in [Owners -> {"idle", "closing", "polling", "returned"}],
         \A c \in Conns : link[c] \in {"open", "closed"} => link'[c] \in {"open", "closed"},
         \/ ws' \in {0, ws}
         \/ ws' \in Conns /\ link[ws'] = "opening" /\ link'[ws'] = "open"
  PROVE  SocketInv'
<1>1. /\ WsTypeOK /\ incoming \in [Conns -> Seq(Mail)] /\ Heard
      /\ heard \in Seq(Conns) /\ ws \in 0 .. MaxConns
  BY DEF SocketInv, WsTypeOK
<1>2. WsTypeOK'
  BY <1>1, SocketConstants DEF WsTypeOK
<1>3. \A i \in DOMAIN heard : heard[i] \in Conns
  BY <1>1
<1>4. Heard'
  BY <1>1, <1>3, SocketConstants DEF Heard
<1> QED BY <1>1, <1>2, <1>4 DEF SocketInv

LEMMA StartConnectTypes ==
  ASSUME WsTypeOK, NEW k \in Owners, NEW w, StartConnect(k, w, link)
  PROVE  /\ link' \in [Conns -> {"unused", "opening", "open", "closed"}]
         /\ owner' \in [Owners -> {"idle", "closing", "polling", "returned"}]
         /\ \A c \in Conns : link[c] \in {"open", "closed"} => link'[c] = link[c]
BY DEF StartConnect, WsTypeOK, Fresh

LEMMA OwnerInv ==
  ASSUME SocketInv, NEW k \in Owners,
         Connect(k) \/ Reconnect(k) \/ Closed(k) \/ Polled(k) \/ PollTimeout(k)
  PROVE  SocketInv'
<1>1. WsTypeOK
  BY DEF SocketInv
<1>2. CASE Connect(k)
  BY <1>1, <1>2, StartConnectTypes, LinkInv DEF Connect
<1>3. CASE Reconnect(k)
  BY <1>1, <1>3, LinkInv DEF Reconnect, WsTypeOK
<1>4. CASE Closed(k)
  BY <1>1, <1>4, StartConnectTypes, LinkInv DEF Closed
<1>5. CASE Polled(k)
  BY <1>1, <1>5, LinkInv DEF Polled, WsTypeOK
<1>6. CASE PollTimeout(k)
  BY <1>1, <1>6, LinkInv DEF PollTimeout, WsTypeOK
<1> QED BY <1>2, <1>3, <1>4, <1>5, <1>6

LEMMA ConnInv ==
  ASSUME SocketInv, NEW c \in Conns, Opened(c) \/ OpenFails(c) \/ Drop(c)
  PROVE  SocketInv'
<1>1. WsTypeOK
  BY DEF SocketInv
<1>2. CASE Opened(c)
  BY <1>1, <1>2, LinkInv DEF Opened, WsTypeOK
<1>3. CASE OpenFails(c)
  BY <1>1, <1>3, LinkInv DEF OpenFails, WsTypeOK
<1>4. CASE Drop(c)
  BY <1>1, <1>4, LinkInv DEF Drop, WsTypeOK
<1> QED BY <1>2, <1>3, <1>4

LEMMA AskerInv ==
  ASSUME SocketInv, NEW r \in Requests, Send(r) \/ RequestTimesOut(r) \/ Answered(r)
  PROVE  SocketInv'
<1>1. UNCHANGED <<ws, link, owner, incoming, heard>>
  BY DEF Send, RequestTimesOut, Answered
<1>2. WsTypeOK'
  BY <1>1 DEF SocketInv, WsTypeOK, Send, RequestTimesOut, Answered
<1> QED BY <1>1, <1>2 DEF SocketInv, Heard

LEMMA MailLengths ==
  ASSUME NEW S, NEW s \in Seq(S), NEW m \in S
  PROVE  /\ Len(s) \in Nat
         /\ Append(s, m) \in Seq(S) /\ Len(Append(s, m)) = Len(s) + 1
         /\ s # <<>> => Tail(s) \in Seq(S) /\ Len(Tail(s)) = Len(s) - 1 /\ Head(s) \in S
OBVIOUS

LEMMA ArrivesInv ==
  ASSUME SocketInv, NEW c \in Conns, NEW m \in Mail, Arrives(c, m)
  PROVE  SocketInv'
<1>1. /\ UNCHANGED <<ws, link, owner, asker, fut, heard>>
      /\ incoming' = [incoming EXCEPT ![c] = Append(incoming[c], m)]
      /\ Len(incoming[c]) < MaxInbox
      /\ incoming \in [Conns -> Seq(Mail)] /\ WsTypeOK
  BY DEF SocketInv, Arrives
<1>2. /\ Append(incoming[c], m) \in Seq(Mail) /\ Len(incoming[c]) \in Nat
      /\ Len(Append(incoming[c], m)) = Len(incoming[c]) + 1
  BY <1>1, MailLengths
<1>3. incoming' \in [Conns -> Seq(Mail)]
  BY <1>1, <1>2
<1>4. \A d \in Conns : Len(incoming'[d]) <= MaxInbox
  BY <1>1, <1>2, SocketConstants DEF WsTypeOK
<1>5. WsTypeOK'
  BY <1>1, <1>4 DEF WsTypeOK
<1> QED BY <1>1, <1>3, <1>5 DEF SocketInv, Heard

\* What is heard, and that it is not of a connection another one took the place of.
LEMMA Hearing ==
  ASSUME SocketInv, NEW c \in Conns, link[c] \in {"open", "closed"}, Callback(c), ws' = ws,
         \A d \in Conns : link[d] \in {"open", "closed"} => link'[d] \in {"open", "closed"}
  PROVE  /\ heard' \in Seq(Conns) /\ Heard'
         /\ heard' # heard => \A i \in DOMAIN heard : heard[i] # heard'[Len(heard')]
<1>1. heard \in Seq(Conns) /\ Heard /\ c # 0
  BY SocketConstants DEF SocketInv, WsTypeOK
<1>2. /\ \A i \in DOMAIN heard : heard[i] \in Conns
      /\ Len(heard) \in Nat /\ DOMAIN heard = 1 .. Len(heard)
      /\ heard # <<>> => Len(heard) \in DOMAIN heard
  BY <1>1
<1>3. CASE heard' = heard
  BY <1>1, <1>2, <1>3, SocketConstants DEF Heard, SocketInv, WsTypeOK
<1>4. CASE heard' # heard
  <2>1. /\ ws = c /\ heard' = Append(heard, c)
        /\ heard = <<>> \/ heard[Len(heard)] # c
    BY <1>4 DEF Callback, HandleMessage
  <2>2. /\ heard' \in Seq(Conns) /\ Len(heard') = Len(heard) + 1 /\ heard'[Len(heard')] = c
        /\ DOMAIN heard' = DOMAIN heard \cup {Len(heard')}
        /\ \A i \in DOMAIN heard : heard'[i] = heard[i]
    BY <1>1, <1>2, <2>1
  <2>3. \A i \in DOMAIN heard : heard[i] # c
    BY <1>1, <1>2, <2>1 DEF Heard
  <2>4. Heard'
    BY <1>1, <1>2, <2>1, <2>2 DEF Heard
  <2> QED BY <2>2, <2>3, <2>4
<1> QED BY <1>1, <1>3, <1>4

LEMMA ReadInv ==
  ASSUME SocketInv, NEW c \in Conns, ReadData(c) \/ ReadAnswer(c)
  PROVE  /\ SocketInv'
         /\ heard' # heard => \A i \in DOMAIN heard : heard[i] # heard'[Len(heard')]
<1>1. /\ UNCHANGED <<ws, owner, asker>> /\ link[c] = "open" /\ incoming[c] # <<>>
      /\ WsTypeOK /\ incoming \in [Conns -> Seq(Mail)] /\ Heard
  BY DEF SocketInv, ReadData, ReadAnswer
<1>2. /\ Tail(incoming[c]) \in Seq(Mail) /\ Len(incoming[c]) \in Nat
      /\ Len(Tail(incoming[c])) = Len(incoming[c]) - 1
  <2>1. Head(incoming[c]) \in Mail
    BY <1>1
  <2> QED BY <1>1, <2>1, MailLengths
<1>3. \/ /\ incoming' = [incoming EXCEPT ![c] = Tail(incoming[c])]
         /\ Callback(c) /\ link' = link
      \/ /\ incoming' = [incoming EXCEPT ![c] = <<>>]
         /\ link' = [link EXCEPT ![c] = "closed"] /\ heard' = heard
  BY DEF ReadData, ReadAnswer
<1>4. fut' \in [Requests -> {"none", "pending", "result", "error", "cancelled"}]
  BY <1>1 DEF ReadData, ReadAnswer, WsTypeOK
<1>5. /\ link' \in [Conns -> {"unused", "opening", "open", "closed"}]
      /\ \A d \in Conns : link[d] \in {"open", "closed"} => link'[d] \in {"open", "closed"}
  BY <1>1, <1>3 DEF WsTypeOK
<1>6. incoming' \in [Conns -> Seq(Mail)] /\ \A d \in Conns : Len(incoming'[d]) <= MaxInbox
  <2>1. Len(<<>>) <= MaxInbox /\ <<>> \in Seq(Mail)
    BY SocketConstants
  <2>2. Len(Tail(incoming[c])) <= MaxInbox
    BY <1>1, <1>2, SocketConstants DEF WsTypeOK
  <2>3. PICK s \in Seq(Mail) : incoming' = [incoming EXCEPT ![c] = s] /\ Len(s) <= MaxInbox
    BY <1>2, <1>3, <2>1, <2>2
  <2> QED BY <1>1, <2>3 DEF WsTypeOK
<1>7. CASE Callback(c)
  <2>1. /\ heard' \in Seq(Conns) /\ Heard'
        /\ heard' # heard => \A i \in DOMAIN heard : heard[i] # heard'[Len(heard')]
    BY <1>1, <1>5, <1>7, Hearing
  <2> QED BY <1>1, <1>4, <1>5, <1>6, <2>1 DEF SocketInv, WsTypeOK
<1>8. CASE heard' = heard
  <2>1. \A i \in DOMAIN heard : heard[i] \in Conns
    BY <1>1 DEF WsTypeOK
  <2>2. Heard'
    BY <1>1, <1>5, <1>8, <2>1, SocketConstants DEF Heard, WsTypeOK
  <2> QED BY <1>1, <1>4, <1>5, <1>6, <1>8, <2>2 DEF SocketInv, WsTypeOK
<1> QED BY <1>3, <1>7, <1>8

LEMMA SocketInvStep ==
  ASSUME SocketInv, WsStep \/ UNCHANGED wsVars
  PROVE  /\ SocketInv'
         /\ heard' # heard => \A i \in DOMAIN heard : heard[i] # heard'[Len(heard')]
<1>1. CASE UNCHANGED wsVars
  BY <1>1 DEF wsVars, SocketInv, WsTypeOK, Heard
<1>2. ASSUME NEW k \in Owners,
             Connect(k) \/ Reconnect(k) \/ Closed(k) \/ Polled(k) \/ PollTimeout(k)
      PROVE  SocketInv' /\ heard' = heard
  BY <1>2, OwnerInv DEF Connect, Reconnect, Closed, Polled, PollTimeout
<1>3. ASSUME NEW c \in Conns, Opened(c) \/ OpenFails(c) \/ Drop(c)
      PROVE  SocketInv' /\ heard' = heard
  BY <1>3, ConnInv DEF Opened, OpenFails, Drop
<1>4. ASSUME NEW c \in Conns, NEW m \in Mail, Arrives(c, m)
      PROVE  SocketInv' /\ heard' = heard
  BY <1>4, ArrivesInv DEF Arrives
<1>5. ASSUME NEW r \in Requests, Send(r) \/ RequestTimesOut(r) \/ Answered(r)
      PROVE  SocketInv' /\ heard' = heard
  BY <1>5, AskerInv DEF Send, RequestTimesOut, Answered
<1> QED BY <1>1, <1>2, <1>3, <1>4, <1>5, ReadInv DEF WsStep

LEMMA ByItself ==
  ASSUME [WsNext]_wsVars
  PROVE  WsStep \/ UNCHANGED wsVars
<1>1. ASSUME NEW r \in Requests, Answers(r) PROVE WsStep
  <2>1. PICK c \in Conns, m \in {Good(r), Bad(r)} : Arrives(c, m)
    BY <1>1 DEF Answers
  <2>2. m \in Mail
    BY DEF Mail
  <2> QED BY <2>1, <2>2 DEF WsStep
<1>2. ASSUME NEW c \in Conns, NEW f \in Feeds, Arrives(c, Data(f)) PROVE WsStep
  <2>1. Data(f) \in Mail
    BY DEF Mail
  <2> QED BY <1>2, <2>1 DEF WsStep
<1> QED BY <1>1, <1>2 DEF WsNext, WsStep

\* Nothing of a connection that another one took the place of is handled after
\* something of the new one, for any owners and any number of connections, however
\* connects, reconnects and late openings interleave (WebsocketManager._callback).
THEOREM OldConnectionsSilent == WsSpec => AbandonedIsSilent
<1>1. SocketInv /\ [WsNext]_wsVars => SocketInv'
  BY ByItself, SocketInvStep
<1>2. SocketInv /\ [WsNext]_wsVars =>
        [heard' # heard => \A i \in DOMAIN heard : heard[i] # heard'[Len(heard')]]_wsVars
  BY ByItself, SocketInvStep
<1> QED BY <1>1, <1>2, SocketInit, PTL DEF WsSpec, AbandonedIsSilent

-----------------------------------------------------------------------------
(* The ticker.                                                             *)

LEMMA HubConstants ==
  /\ Requests = Symbols \X {1, 2} /\ Nothing \notin Symbols /\ Symbols = Feeds
  /\ Workers = Owners /\ \A w \in Workers : Traded[w] \subseteq Symbols
BY HubAssumption DEF Symbols, Workers

LEMMA HubTypes ==
  ASSUME HubInv, NEW w \in Workers
  PROVE  /\ refresh[w].phase \in {"rest", "next", "connecting", "asking", "stopped"}
         /\ refresh[w].target \subseteq Symbols /\ refresh[w].todo \subseteq Symbols
         /\ refresh[w].symbol \in Symbols \cup {Nothing}
         /\ refresh[w] = [phase |-> refresh[w].phase, target |-> refresh[w].target,
                          todo |-> refresh[w].todo, symbol |-> refresh[w].symbol]
BY DEF HubInv, HubTypeOK

\* A worker that goes on, and what it says of its refresh.
LEMMA TurnIs ==
  ASSUME HubInv, NEW w \in Workers, NEW phase \in {"next", "connecting", "asking"},
         NEW s \in Symbols, Turn(w, phase, s)
  PROVE  /\ refresh' \in [Workers -> [phase : {"rest", "next", "connecting", "asking", "stopped"},
                              target : SUBSET Symbols, todo : SUBSET Symbols,
                              symbol : Symbols \cup {Nothing}]]
         /\ refresh'[w].phase = phase /\ refresh'[w].symbol = s
         /\ refresh'[w].target = refresh[w].target
         /\ refresh'[w].todo = refresh[w].todo \ {s}
         /\ \A x \in Workers \ {w} : refresh'[x] = refresh[x]
<1>1. refresh \in [Workers -> [phase : {"rest", "next", "connecting", "asking", "stopped"},
                              target : SUBSET Symbols, todo : SUBSET Symbols,
                              symbol : Symbols \cup {Nothing}]]
  BY DEF HubInv, HubTypeOK
<1> DEFINE ref == refresh[w]
<1>a. DOMAIN refresh = Workers
  BY <1>1
<1>b. refresh' = [refresh EXCEPT ![w] = [ref EXCEPT !.phase = phase, !.symbol = s,
                                                    !.todo = ref.todo \ {s}]]
  BY <1>a DEF Turn
<1>c. ref = [phase |-> ref.phase, target |-> ref.target, todo |-> ref.todo,
             symbol |-> ref.symbol]
  BY HubTypes
<1>d. [ref EXCEPT !.phase = phase, !.symbol = s, !.todo = ref.todo \ {s}]
        = [phase |-> phase, target |-> ref.target, todo |-> ref.todo \ {s}, symbol |-> s]
  <2>1. PICK rec, a, b, c, d, td : /\ rec = ref /\ a = ref.phase /\ b = ref.target
                                   /\ c = ref.todo /\ d = ref.symbol /\ td = ref.todo \ {s}
    OBVIOUS
  <2>2. rec = [phase |-> a, target |-> b, todo |-> c, symbol |-> d]
    BY <1>c, <2>1
  <2>3. [rec EXCEPT !.phase = phase, !.symbol = s, !.todo = td]
          = [phase |-> phase, target |-> b, todo |-> td, symbol |-> s]
    <3>1. PICK one : one = [rec EXCEPT !.phase = phase]
      OBVIOUS
    <3>2. PICK two : two = [one EXCEPT !.symbol = s]
      OBVIOUS
    <3>3. PICK three : three = [two EXCEPT !.todo = td]
      OBVIOUS
    <3>4. one = [phase |-> phase, target |-> b, todo |-> c, symbol |-> d]
      BY <3>1, <2>2
    <3>5. two = [phase |-> phase, target |-> b, todo |-> c, symbol |-> s]
      BY <3>2, <3>4
    <3>6. three = [phase |-> phase, target |-> b, todo |-> td, symbol |-> s]
      BY <3>3, <3>5
    <3>7. [rec EXCEPT !.phase = phase, !.symbol = s, !.todo = td]
            = [[[rec EXCEPT !.phase = phase] EXCEPT !.symbol = s] EXCEPT !.todo = td]
      OBVIOUS
    <3> QED BY <3>1, <3>2, <3>3, <3>6, <3>7
  <2> QED BY <2>1, <2>3
<1>2. refresh' = [refresh EXCEPT ![w] = [phase |-> phase, target |-> refresh[w].target,
                                         todo |-> refresh[w].todo \ {s}, symbol |-> s]]
  BY <1>b, <1>d
<1> QED BY <1>1, <1>2, HubTypes

\* Nobody has asked for a symbol that nobody observes: its first message is next.
LEMMA FirstMessage ==
  ASSUME HubInv, NEW s \in Symbols, observers[s] = {}
  PROVE  NextAsk(s) = <<s, 1>> /\ NextAsk(s) \in Requests
<1>1. {r \in Requests : r[1] = s /\ asker[r] # "idle"} = {}
  BY DEF HubInv, FirstAsked
<1>2. HubAsks(s) = 0
  BY <1>1, FS_EmptySet DEF HubAsks
<1> QED BY <1>2, HubConstants DEF NextAsk

LEMMA HubInitInv == HubInit => HubInv
<1> SUFFICES ASSUME HubInit PROVE HubInv
  OBVIOUS
<1>1. WsTypeOK /\ incoming \in [Conns -> Seq(Mail)] /\ asker = [r \in Requests |-> "idle"]
  BY SocketInit DEF HubInit, SocketInv, WsInit
<1>2. refresh \in [Workers -> [phase : {"rest", "next", "connecting", "asking", "stopped"},
                              target : SUBSET Symbols, todo : SUBSET Symbols,
                              symbol : Symbols \cup {Nothing}]]
  BY DEF HubInit, AtRest
<1>3. \A w \in Workers : refresh[w].phase = "rest"
  BY DEF HubInit, AtRest
<1>4. HubTypeOK
  BY <1>1, <1>2 DEF HubInit, HubTypeOK
<1> QED BY <1>1, <1>3, <1>4 DEF HubInit, HubInv, FirstAsked, WatchedIsObserved, Observed

\* A step of the connection alone.
LEMMA ConnectionOnly ==
  ASSUME HubInv, WsTypeOK', incoming' \in [Conns -> Seq(Mail)], UNCHANGED hubVars,
         \A r \in Requests : asker'[r] # "idle" => asker[r] # "idle"
  PROVE  HubInv'
BY DEF HubInv, HubTypeOK, hubVars, FirstAsked, WatchedIsObserved, Observed

\* A step of one worker's refresh, which adds observers at most, and asks for nothing.
LEMMA WorkerOnly ==
  ASSUME HubInv, NEW w \in Workers, WsTypeOK', incoming' \in [Conns -> Seq(Mail)],
         asker' = asker, observers' \in [Symbols -> SUBSET Workers],
         \A s \in Symbols : observers[s] \subseteq observers'[s],
         ticker' \in BOOLEAN, watched' \in [Workers -> SUBSET Symbols],
         refresh' \in [Workers -> [phase : {"rest", "next", "connecting", "asking", "stopped"},
                              target : SUBSET Symbols, todo : SUBSET Symbols,
                              symbol : Symbols \cup {Nothing}]],
         \A x \in Workers \ {w} : refresh'[x] = refresh[x] /\ watched'[x] = watched[x],
         \A s \in watched'[w] : w \in observers'[s],
         Observed(w)', refresh'[w].phase = "connecting" => refresh'[w].symbol \in Symbols
  PROVE  HubInv'
<1>1. HubTypeOK'
  BY DEF HubTypeOK
<1>2. FirstAsked'
  <2>1. \A r \in Requests : r[1] \in Symbols
    BY HubConstants
  <2> QED BY <2>1 DEF HubInv, FirstAsked
<1>3. \A x \in Workers, s \in Symbols : x \in observers[s] => x \in observers'[s]
  OBVIOUS
<1>4. WatchedIsObserved'
  BY <1>3 DEF HubInv, HubTypeOK, WatchedIsObserved
<1>5. ASSUME NEW x \in Workers, x # w
      PROVE  Observed(x)' /\ (refresh'[x].phase = "connecting" => refresh'[x].symbol \in Symbols)
  <2>1. Observed(x) /\ refresh'[x] = refresh[x] /\ refresh[x].target \subseteq Symbols
    BY <1>5, HubTypes DEF HubInv
  <2>2. Observed(x)'
    BY <1>3, <2>1 DEF Observed
  <2> QED BY <1>5, <2>1, <2>2 DEF HubInv
<1> QED BY <1>1, <1>2, <1>4, <1>5 DEF HubInv

LEMMA HubStartRefresh ==
  ASSUME HubInv, NEW w \in Workers, StartRefresh(w)
  PROVE  HubInv'
<1>1. PICK target \in SUBSET Traded[w] :
        refresh' = [refresh EXCEPT ![w] = [AtRest EXCEPT
                      !.phase = "next", !.target = target, !.todo = target \ watched[w]]]
  BY DEF StartRefresh
<1>2. /\ UNCHANGED <<ticker, observers, watched>> /\ HubTypeOK
      /\ asker' = asker /\ WsTypeOK' /\ incoming' \in [Conns -> Seq(Mail)]
  BY DEF HubInv, HubTypeOK, StartRefresh, Unsubscribe, wsVars, WsTypeOK
<1>3. target \subseteq Symbols /\ target \ watched[w] \subseteq Symbols
  BY <1>1, HubConstants
<1> DEFINE rec == [phase |-> "next", target |-> target, todo |-> target \ watched[w],
                   symbol |-> Nothing]
<1>x. [AtRest EXCEPT !.phase = "next", !.target = target, !.todo = target \ watched[w]] = rec
  <2>1. PICK rest, td : rest = AtRest /\ td = target \ watched[w]
    OBVIOUS
  <2>2. rest = [phase |-> "rest", target |-> {}, todo |-> {}, symbol |-> Nothing]
    BY <2>1 DEF AtRest
  <2>3. [rest EXCEPT !.phase = "next", !.target = target, !.todo = td]
          = [phase |-> "next", target |-> target, todo |-> td, symbol |-> Nothing]
    <3>1. PICK one : one = [rest EXCEPT !.phase = "next"]
      OBVIOUS
    <3>2. PICK two : two = [one EXCEPT !.target = target]
      OBVIOUS
    <3>3. PICK three : three = [two EXCEPT !.todo = td]
      OBVIOUS
    <3>4. one = [phase |-> "next", target |-> {}, todo |-> {}, symbol |-> Nothing]
      BY <3>1, <2>2
    <3>5. two = [phase |-> "next", target |-> target, todo |-> {}, symbol |-> Nothing]
      BY <3>2, <3>4
    <3>6. three = [phase |-> "next", target |-> target, todo |-> td, symbol |-> Nothing]
      BY <3>3, <3>5
    <3>7. [rest EXCEPT !.phase = "next", !.target = target, !.todo = td]
            = [[[rest EXCEPT !.phase = "next"] EXCEPT !.target = target] EXCEPT !.todo = td]
      OBVIOUS
    <3> QED BY <3>1, <3>2, <3>3, <3>6, <3>7
  <2> QED BY <2>1, <2>3
<1>4. refresh' = [refresh EXCEPT ![w] = rec]
  BY <1>1, <1>x
<1>5. refresh'[w] = rec /\ \A x \in Workers \ {w} : refresh'[x] = refresh[x]
  BY <1>2, <1>4 DEF HubTypeOK
<1>6. refresh' \in [Workers -> [phase : {"rest", "next", "connecting", "asking", "stopped"},
                              target : SUBSET Symbols, todo : SUBSET Symbols,
                              symbol : Symbols \cup {Nothing}]]
  BY <1>2, <1>3, <1>4 DEF HubTypeOK
<1>7. Observed(w)'
  BY <1>2, <1>5 DEF Observed, HubInv, WatchedIsObserved
<1>8. \A s \in watched'[w] : w \in observers'[s]
  BY <1>2 DEF HubInv, WatchedIsObserved
<1> QED BY <1>2, <1>5, <1>6, <1>7, <1>8, WorkerOnly DEF HubTypeOK

\* The observer that is added, and the message that is sent if it is the first.
LEMMA SubscribeInv ==
  ASSUME HubInv, NEW w \in Workers, NEW s \in Symbols, Subscribe(w, s),
         UNCHANGED <<ticker, watched>>,
         refresh[w].phase = "next" \/ (refresh[w].phase = "connecting" /\ refresh[w].symbol = s)
  PROVE  HubInv'
<1>1. /\ HubTypeOK /\ WsTypeOK /\ incoming \in [Conns -> Seq(Mail)] /\ FirstAsked
      /\ Observed(w) /\ WatchedIsObserved
  BY DEF HubInv, HubTypeOK
<1>2. observers' = [observers EXCEPT ![s] = observers[s] \cup {w}]
  BY DEF Subscribe
<1>3. /\ observers' \in [Symbols -> SUBSET Workers] /\ w \in observers'[s]
      /\ \A x \in Symbols : observers[x] \subseteq observers'[x]
  BY <1>1, <1>2 DEF HubTypeOK
<1>4. PICK phase \in {"next", "asking"} : Turn(w, phase, s)
  BY DEF Subscribe
<1>5. /\ refresh' \in [Workers -> [phase : {"rest", "next", "connecting", "asking", "stopped"},
                              target : SUBSET Symbols, todo : SUBSET Symbols,
                              symbol : Symbols \cup {Nothing}]]
      /\ refresh'[w].phase = phase /\ refresh'[w].target = refresh[w].target
      /\ refresh'[w].todo = refresh[w].todo \ {s}
      /\ \A x \in Workers \ {w} : refresh'[x] = refresh[x]
  BY <1>4, TurnIs
<1>6. Observed(w)'
  <2> SUFFICES ASSUME NEW x \in refresh'[w].target \ refresh'[w].todo PROVE w \in observers'[x]
    BY DEF Observed
  <2>1. x \in Symbols /\ (x = s \/ x \in refresh[w].target \ refresh[w].todo)
    BY <1>5, HubTypes
  <2> QED BY <1>1, <1>3, <2>1 DEF Observed
<1>7. \A x \in watched[w] : x \in Symbols /\ w \in observers'[x]
  BY <1>1, <1>3 DEF WatchedIsObserved, HubTypeOK
<1>8. CASE observers[s] # {}
  <2>1. UNCHANGED wsVars
    BY <1>8 DEF Subscribe
  <2>2. asker' = asker /\ WsTypeOK' /\ incoming' \in [Conns -> Seq(Mail)]
    BY <1>1, <2>1 DEF wsVars, WsTypeOK
  <2> QED BY <1>1, <1>3, <1>5, <1>6, <1>7, <2>2, WorkerOnly DEF HubTypeOK
<1>9. CASE observers[s] = {}
  <2>1. /\ Send(NextAsk(s)) /\ NextAsk(s) = <<s, 1>> /\ <<s, 1>> \in Requests
    BY <1>9, FirstMessage DEF Subscribe
  <2>2. /\ UNCHANGED <<ws, link, owner, incoming, heard>>
        /\ \A r \in Requests \ {<<s, 1>>} : asker'[r] = asker[r]
        /\ WsTypeOK'
    BY <1>1, <2>1 DEF Send, WsTypeOK
  <2>3. FirstAsked'
    <3> SUFFICES ASSUME NEW r \in Requests, asker'[r] # "idle"
                 PROVE  r[2] = 1 /\ observers'[r[1]] # {}
      BY DEF FirstAsked
    <3>1. CASE r = <<s, 1>>
      BY <1>3, <3>1
    <3>2. CASE r # <<s, 1>>
      <4>1. r[2] = 1 /\ observers[r[1]] # {} /\ r[1] \in Symbols
        BY <1>1, <2>2, <3>2, HubConstants DEF FirstAsked
      <4> QED BY <1>3, <4>1
    <3> QED BY <3>1, <3>2
  <2>4. HubTypeOK'
    BY <1>1, <1>3, <1>5, <2>2 DEF HubTypeOK
  <2>5. WatchedIsObserved'
    BY <1>1, <1>3 DEF WatchedIsObserved, HubTypeOK
  <2>6. ASSUME NEW x \in Workers, x # w
        PROVE  Observed(x)' /\ (refresh'[x].phase = "connecting" => refresh'[x].symbol \in Symbols)
    <3>1. Observed(x) /\ refresh'[x] = refresh[x] /\ refresh[x].target \subseteq Symbols
      BY <1>5, <2>6, HubTypes DEF HubInv
    <3>2. Observed(x)'
      BY <1>3, <3>1 DEF Observed
    <3> QED BY <2>6, <3>1, <3>2 DEF HubInv
  <2> QED BY <1>1, <1>5, <1>6, <2>2, <2>3, <2>4, <2>5, <2>6 DEF HubInv
<1> QED BY <1>8, <1>9

LEMMA HubSubscribeNext ==
  ASSUME HubInv, SocketInv, SocketInv', NEW w \in Workers, SubscribeNext(w)
  PROVE  HubInv'
<1>1. PICK s \in refresh[w].todo :
        \/ /\ ~ticker /\ ticker' = TRUE
           /\ Connect(w) /\ Turn(w, "connecting", s)
           /\ UNCHANGED observers
        \/ ticker /\ Subscribe(w, s) /\ UNCHANGED ticker
  BY DEF SubscribeNext
<1>2. s \in Symbols /\ refresh[w].phase = "next" /\ watched' = watched
  BY HubTypes DEF SubscribeNext
<1>3. CASE Subscribe(w, s) /\ UNCHANGED ticker
  BY <1>2, <1>3, SubscribeInv
<1>4. CASE /\ ticker' = TRUE /\ Connect(w) /\ Turn(w, "connecting", s) /\ UNCHANGED observers
  <2>1. /\ refresh' \in [Workers -> [phase : {"rest", "next", "connecting", "asking", "stopped"},
                              target : SUBSET Symbols, todo : SUBSET Symbols,
                              symbol : Symbols \cup {Nothing}]]
        /\ refresh'[w].phase = "connecting" /\ refresh'[w].symbol = s
        /\ refresh'[w].target = refresh[w].target
        /\ refresh'[w].todo = refresh[w].todo \ {s}
        /\ \A x \in Workers \ {w} : refresh'[x] = refresh[x]
    BY <1>2, <1>4, TurnIs
  <2>2. Observed(w)'
    BY <1>2, <1>4, <2>1 DEF HubInv, Observed
  <2>3. asker' = asker /\ WsTypeOK' /\ incoming' \in [Conns -> Seq(Mail)]
    BY <1>4 DEF Connect, SocketInv
  <2>4. \A x \in watched'[w] : w \in observers'[x]
    BY <1>2, <1>4 DEF HubInv, WatchedIsObserved
  <2> QED BY <1>2, <1>4, <2>1, <2>2, <2>3, <2>4, WorkerOnly DEF HubInv, HubTypeOK
<1> QED BY <1>1, <1>3, <1>4

\* The other steps of a refresh, and the end of a worker.
LEMMA HubRest ==
  ASSUME HubInv, NEW w \in Workers,
         SubscribeConnected(w) \/ SubscribeEnds(w) \/ EndRefresh(w) \/ Cleanup(w)
  PROVE  HubInv'
<1>1. CASE SubscribeConnected(w)
  <2>1. refresh[w].symbol \in Symbols /\ refresh[w].phase = "connecting"
    BY <1>1 DEF HubInv, SubscribeConnected
  <2>2. PICK s \in Symbols : s = refresh[w].symbol
    BY <2>1
  <2> QED BY <1>1, <2>1, <2>2, SubscribeInv DEF SubscribeConnected
<1>2. ASSUME SubscribeEnds(w) \/ EndRefresh(w) \/ Cleanup(w)
      PROVE  HubInv'
  <2>1. /\ UNCHANGED <<ticker, observers>> /\ HubTypeOK /\ UNCHANGED wsVars
    BY <1>2 DEF HubInv, SubscribeEnds, EndRefresh, Cleanup, Unsubscribe
  <2>2. asker' = asker /\ WsTypeOK' /\ incoming' \in [Conns -> Seq(Mail)]
    BY <2>1 DEF HubInv, HubTypeOK, wsVars, WsTypeOK
  <2>3. /\ refresh' \in [Workers -> [phase : {"rest", "next", "connecting", "asking", "stopped"},
                              target : SUBSET Symbols, todo : SUBSET Symbols,
                              symbol : Symbols \cup {Nothing}]]
        /\ watched' \in [Workers -> SUBSET Symbols]
        /\ \A x \in Workers \ {w} : refresh'[x] = refresh[x] /\ watched'[x] = watched[x]
    BY <1>2, <2>1, HubTypes DEF HubTypeOK, SubscribeEnds, EndRefresh, Cleanup, AtRest
  <2>4. /\ Observed(w)' /\ refresh'[w].phase # "connecting"
        /\ \A s \in watched'[w] : w \in observers'[s]
    <3>1. CASE SubscribeEnds(w)
      <4>1. /\ refresh'[w] = [refresh[w] EXCEPT !.phase = "next"] /\ watched' = watched
            /\ refresh[w].phase = "asking"
        BY <2>1, <3>1 DEF SubscribeEnds, HubTypeOK
      <4>2. /\ refresh'[w].phase = "next" /\ refresh'[w].target = refresh[w].target
            /\ refresh'[w].todo = refresh[w].todo
        BY <4>1, HubTypes
      <4> QED BY <2>1, <4>1, <4>2 DEF HubInv, Observed, WatchedIsObserved
    <3>2. CASE EndRefresh(w)
      <4>1. /\ refresh'[w] = AtRest /\ watched'[w] = refresh[w].target
            /\ refresh[w].phase = "next" /\ refresh[w].todo = {}
        BY <2>1, <3>2 DEF EndRefresh, HubTypeOK
      <4>2. refresh'[w].phase = "rest"
        BY <4>1 DEF AtRest
      <4> QED BY <2>1, <4>1, <4>2 DEF HubInv, Observed
    <3>3. CASE Cleanup(w)
      <4>1. refresh'[w] = [refresh[w] EXCEPT !.phase = "stopped"] /\ watched' = watched
        BY <2>1, <3>3 DEF Cleanup, HubTypeOK
      <4>2. refresh'[w].phase = "stopped"
        BY <4>1, HubTypes
      <4> QED BY <2>1, <4>1, <4>2 DEF HubInv, Observed, WatchedIsObserved
    <3> QED BY <1>2, <3>1, <3>2, <3>3
  <2> QED BY <2>1, <2>2, <2>3, <2>4, WorkerOnly DEF HubTypeOK
<1> QED BY <1>1, <1>2

\* A ticker's websocket makes the steps of a websocket.
LEMMA UnderTicker ==
  ASSUME HubInv, HubNext
  PROVE  WsStep \/ UNCHANGED wsVars
<1>1. ASSUME NEW w \in Workers, NEW s \in Symbols, Subscribe(w, s)
      PROVE  WsStep \/ UNCHANGED wsVars
  BY <1>1, FirstMessage DEF Subscribe, WsStep
<1>2. ASSUME NEW w \in Workers, WorkerStep(w)
      PROVE  WsStep \/ UNCHANGED wsVars
  <2>1. CASE SubscribeNext(w)
    <3>1. PICK s \in refresh[w].todo : Connect(w) \/ Subscribe(w, s)
      BY <2>1 DEF SubscribeNext
    <3> QED BY <1>1, <3>1, HubTypes, HubConstants DEF WsStep
  <2>2. CASE SubscribeConnected(w)
    <3>1. PICK s \in Symbols : s = refresh[w].symbol
      BY <2>2 DEF SubscribeConnected, HubInv
    <3> QED BY <1>1, <2>2, <3>1 DEF SubscribeConnected
  <2>3. CASE SubscribeEnds(w) \/ EndRefresh(w)
    BY <2>3 DEF SubscribeEnds, EndRefresh
  <2> QED BY <1>2, <2>1, <2>2, <2>3 DEF WorkerStep
<1>3. ASSUME NEW w \in Workers, StartRefresh(w) \/ Cleanup(w)
      PROVE  UNCHANGED wsVars
  BY <1>3 DEF StartRefresh, Cleanup
<1>4. CASE SocketStep
  <2>1. CASE Wakes
    BY <2>1, HubConstants DEF Wakes, WsStep
  <2>2. CASE \E c \in Conns : Opened(c) \/ OpenFails(c) \/ Drop(c) \/ ReadData(c) \/ ReadAnswer(c)
    BY <2>2 DEF WsStep
  <2>3. ASSUME NEW c \in Conns, NEW m \in Mail, Arrives(c, m) PROVE WsStep
    BY <2>3 DEF WsStep
  <2>4. ASSUME NEW r \in Requests, Answers(r) PROVE WsStep
    <3>1. PICK c \in Conns, m \in {Good(r), Bad(r)} : Arrives(c, m)
      BY <2>4 DEF Answers
    <3>2. m \in Mail
      BY DEF Mail
    <3> QED BY <2>3, <3>1, <3>2
  <2>5. ASSUME NEW s \in Symbols, Feed(s) PROVE WsStep
    <3>1. PICK c \in Conns : Arrives(c, Data(s))
      BY <2>5 DEF Feed
    <3>2. Data(s) \in Mail
      BY HubConstants DEF Mail
    <3> QED BY <2>3, <3>1, <3>2
  <2> QED BY <1>4, <2>1, <2>2, <2>4, <2>5 DEF SocketStep
<1> QED BY <1>2, <1>3, <1>4 DEF HubNext

LEMMA HubSocketStep ==
  ASSUME HubInv, SocketInv', SocketStep
  PROVE  HubInv'
<1>1. UNCHANGED hubVars /\ WsTypeOK /\ WsTypeOK' /\ incoming' \in [Conns -> Seq(Mail)]
  BY DEF HubInv, HubTypeOK, SocketInv, SocketStep
<1>2. \A r \in Requests : asker'[r] # "idle" => asker[r] # "idle"
  BY <1>1 DEF SocketStep, Wakes, Polled, PollTimeout, RequestTimesOut, Answered, Opened, OpenFails,
              Drop, ReadData, ReadAnswer, Answers, Feed, Arrives, WsTypeOK
<1> QED BY <1>1, <1>2, ConnectionOnly

LEMMA HubInvStep ==
  ASSUME HubInv, SocketInv, [HubNext]_<<wsVars, hubVars>>
  PROVE  /\ HubInv' /\ SocketInv'
         /\ heard' # heard => \A i \in DOMAIN heard : heard[i] # heard'[Len(heard')]
<1>1. WsStep \/ UNCHANGED wsVars
  BY UnderTicker
<1>2. /\ SocketInv'
      /\ heard' # heard => \A i \in DOMAIN heard : heard[i] # heard'[Len(heard')]
  BY <1>1, SocketInvStep
<1>3. CASE UNCHANGED <<wsVars, hubVars>>
  <2>1. WsTypeOK' /\ incoming' \in [Conns -> Seq(Mail)] /\ asker' = asker
    BY <1>2, <1>3 DEF SocketInv, wsVars
  <2> QED BY <1>2, <1>3, <2>1, ConnectionOnly
<1> QED BY <1>2, <1>3, HubStartRefresh, HubSubscribeNext, HubRest, HubSocketStep
        DEF HubNext, WorkerStep

LEMMA HubInvariance == HubSpec => [](HubInv /\ SocketInv)
<1>1. HubInit => HubInv /\ SocketInv
  BY HubInitInv, SocketInit DEF HubInit
<1> QED BY <1>1, HubInvStep, PTL DEF HubSpec

\* The websocket, the tickers, their observers and the workers' refreshes keep their
\* types, whoever subscribes, connects and waits (DataService, ExchangeTicker).
THEOREM HubTyped == HubSpec => []HubTypeOK
<1>1. HubInv => HubTypeOK
  BY DEF HubInv
<1> QED BY <1>1, HubInvariance, PTL

\* For any workers and symbols: what a worker takes for subscribed has it among its
\* observers, and workers that subscribe to a symbol at the same time have the exchange
\* asked for it once (Worker.refresh, ExchangeTicker.subscribe).
THEOREM TickersKept == HubSpec => []SubscribedOnce
<1>1. ASSUME HubInv PROVE SubscribedOnce
  <2>1. ASSUME NEW s \in Symbols PROVE HubAsks(s) <= 1
    <3> DEFINE A == {r \in Requests : r[1] = s /\ asker[r] # "idle"}
    <3>1. A = {} \/ A = {<<s, 1>>}
      <4>1. \A r \in A : r = <<s, 1>>
        BY <1>1, HubConstants DEF HubInv, FirstAsked
      <4> QED BY <4>1
    <3>2. Cardinality(A) \in {0, 1}
      BY <3>1, FS_EmptySet, FS_Singleton
    <3> QED BY <3>2 DEF HubAsks
  <2> QED BY <1>1, <2>1 DEF HubInv, SubscribedOnce, AskedOnce
<1> QED BY <1>1, HubInvariance, PTL

\* The connection of a ticker is as silent when another one took its place.
THEOREM OldTickersSilent == HubSpec => AbandonedIsSilent
<1>1. HubInv /\ SocketInv /\ [HubNext]_<<wsVars, hubVars>> =>
        [heard' # heard => \A i \in DOMAIN heard : heard[i] # heard'[Len(heard')]]_wsVars
  BY HubInvStep
<1> QED BY <1>1, HubInvariance, PTL DEF HubSpec, AbandonedIsSilent

-----------------------------------------------------------------------------
(***************************************************************************)
(* The services together.  TLC explores them one at a time, each as its    *)
(* own specification has it; while the websocket moves by itself there is  *)
(* no ticker, and nobody watches anything.                                 *)
(***************************************************************************)

NoTicker == HubTypeOK /\ ~ticker /\ WatchedIsObserved

TogetherInv ==
  /\ BusInv /\ CallInv /\ DlgInv /\ SocketInv
  /\ IF part = "socket" THEN NoTicker ELSE HubInv

\* A step is one of the part that is explored, and of no other.
LEMMA OnePartSteps ==
  ASSUME [MCNext]_allVars
  PROVE  /\ [BusNext]_busVars /\ [RpcNext]_rpcVars /\ [DlgNext]_dlgVars /\ UNCHANGED part
         /\ part # "socket" => [HubNext]_<<wsVars, hubVars>>
         /\ part = "socket" => [WsNext]_wsVars /\ UNCHANGED hubVars
<1>1. CASE UNCHANGED allVars
  BY <1>1 DEF allVars
<1>2. CASE MCNext
  BY <1>2 DEF MCNext
<1> QED BY <1>1, <1>2

LEMMA TogetherStep ==
  ASSUME TogetherInv, [MCNext]_allVars
  PROVE  TogetherInv'
<1>1. BusInv' /\ CallInv' /\ DlgInv' /\ part' = part
  BY OnePartSteps, BusStep, CallInvStep, DlgInvStep DEF TogetherInv
<1>2. CASE part # "socket"
  <2>1. HubInv' /\ SocketInv'
    BY <1>2, OnePartSteps, HubInvStep DEF TogetherInv
  <2> QED BY <1>1, <1>2, <2>1 DEF TogetherInv
<1>3. CASE part = "socket"
  <2>1. [WsNext]_wsVars /\ UNCHANGED hubVars
    BY <1>3, OnePartSteps
  <2>2. SocketInv'
    BY <2>1, ByItself, SocketInvStep DEF TogetherInv, SocketInv, wsVars
  <2>3. NoTicker
    BY <1>3 DEF TogetherInv
  <2>4. NoTicker'
    BY <2>1, <2>2, <2>3 DEF NoTicker, HubTypeOK, SocketInv, hubVars, WatchedIsObserved
  <2> QED BY <1>1, <1>3, <2>2, <2>4 DEF TogetherInv
<1> QED BY <1>2, <1>3

LEMMA TogetherInit == MCInit => TogetherInv
<1> SUFFICES ASSUME MCInit PROVE TogetherInv
  OBVIOUS
<1>1. BusInv /\ CallInv /\ DlgInv /\ SocketInv /\ HubInv
  BY BusInitInv, CallInvInit, InitDlgInv, SocketInit, HubInitInv DEF MCInit, HubInit
<1>2. ~ticker
  BY DEF MCInit, HubInit
<1> QED BY <1>1, <1>2 DEF TogetherInv, NoTicker, HubInv

LEMMA Together == MCSpec => []TogetherInv
<1>1. TogetherInv /\ [MCNext]_allVars => TogetherInv'
  BY TogetherStep
<1> QED BY TogetherInit, <1>1, PTL DEF MCSpec

\* The state of actions, calls, tickers and dialogs keeps its types, for any numbers of
\* them, in every behaviour of the run that explores them.
THEOREM ServicesTyped == MCSpec => []TypeOK
<1>1. ASSUME TogetherInv PROVE TypeOK
  <2>1. BusTypeOK /\ RpcTypeOK /\ HubTypeOK /\ DlgTypeOK
    BY <1>1, CallTypes DEF TogetherInv, BusInv, NoTicker, HubInv, DlgInv
  <2> QED BY <2>1 DEF TypeOK
<1> QED BY <1>1, Together, PTL
=============================================================================
