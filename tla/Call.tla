---------------------------------- MODULE Call ----------------------------------
(***************************************************************************)
(* What a remote call promises, whoever carries it: a caller asks, the     *)
(* method runs at most once, an answer is given only after it has run, and *)
(* a caller that is told of a failure, or gives up, learns nothing about   *)
(* whether it ran, or still will.                                          *)
(***************************************************************************)
EXTENDS Naturals

CONSTANT Calls

VARIABLES
  outcome,   \* what the caller of each call knows
  ran        \* how often the method of each call was started

callVars == <<outcome, ran>>

CallInit ==
  /\ outcome = [c \in Calls |-> "none"]
  /\ ran = [c \in Calls |-> 0]

CallTypeOK ==
  /\ outcome \in [Calls -> {"none", "pending", "answered", "failed"}]
  /\ ran \in [Calls -> 0 .. 1]

Becomes(c, from, to) ==
  /\ outcome[c] = from
  /\ outcome' = [outcome EXCEPT ![c] = to]

Ask(c) ==
  /\ Becomes(c, "none", "pending")
  /\ UNCHANGED ran

RunMethod(c) ==
  /\ outcome[c] # "none"
  /\ ran[c] = 0
  /\ ran' = [ran EXCEPT ![c] = 1]
  /\ UNCHANGED outcome

Answer(c) ==
  /\ ran[c] = 1
  /\ Becomes(c, "pending", "answered")
  /\ UNCHANGED ran

Fail(c) ==
  /\ Becomes(c, "pending", "failed")
  /\ UNCHANGED ran

CallNext == \E c \in Calls : Ask(c) \/ RunMethod(c) \/ Answer(c) \/ Fail(c)

CallSpec == CallInit /\ [][CallNext]_callVars
=============================================================================
