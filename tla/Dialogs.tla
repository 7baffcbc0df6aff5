------------------------------ MODULE Dialogs ------------------------------
(***************************************************************************)
(* The dialogs of the Discord bot (bot/utils.py and the cogs): a command   *)
(* sends a message with a selection or with two buttons, leaves a callback *)
(* in a registry of the process, and may wait for the answer.              *)
(*                                                                         *)
(* The callbacks are registered under names made of the author's id alone  *)
(* (yes_button_<id>, no_button_<id>, selection_<id>): a later dialog of    *)
(* the same author replaces those of an earlier one, whose message stays   *)
(* on the screen.                                                          *)
(*                                                                         *)
(* Three commands are modelled: "clear" (delete balance histories: choose  *)
(* accounts, then confirm), "join" (an event, with one account) and        *)
(* "delete" (everything, after a confirmation).  An account is a pair of   *)
(* its owner and a number.                                                 *)
(***************************************************************************)
EXTENDS Naturals, FiniteSets

CONSTANTS Asks,     \* the commands issued in a behaviour
          Authors,  \* the users who issue them
          Numbers,  \* the numbers of each user's accounts
          NoAsk     \* the absence of a callback

\* No callback of the registry (slash.get_component_callback) is None.
ASSUME DlgAssumption == NoAsk \notin Asks

VARIABLES author,    \* author[d]: who issued the command d
          command,   \* command[d]: which command it is
          progress,     \* progress[d]: how far it is
          picks,     \* picks[d]: the accounts that were chosen for it
          menus,     \* the commands whose selection is on the screen
          buttons,   \* the commands whose buttons are on the screen
          onSelect,  \* onSelect[a]: the command whose callback selection_<a> has
          onButton,  \* onButton[a, b]: that of yes_button_<a> and no_button_<a>
          histories,   \* the accounts whose balance history is stored
          entries,   \* the accounts that entered the event
          answers,   \* ghost: how often the buttons' callbacks of d have run
          clicks     \* ghost: the clicks so far, each with the command it reached

dlgVars == <<author, command, progress, picks, menus, buttons, onSelect, onButton,
             histories, entries, answers, clicks>>

Choices == {"yes", "no"}

AccountsOf(a) == {a} \X Numbers

(***************************************************************************)
(* Somebody awaits the future of d.  A future takes one result, and none   *)
(* after wait_for has given up: a callback that sets it then raises.       *)
(***************************************************************************)
Awaited(d) == progress[d] \in {"choosing", "asking"}

\* log_and_catch_errors: an exception ends the command and goes no further.
Caught(d, how) == progress' = [progress EXCEPT ![d] = how]

DlgTypeOK ==
    /\ author \in [Asks -> Authors]
    /\ command \in [Asks -> {"clear", "join", "delete"}]
    /\ progress \in [Asks -> {"unused", "checked", "choosing", "asking", "offered",
                           "done", "failed", "expired"}]
    /\ picks \in [Asks -> SUBSET (Authors \X Numbers)]
    /\ menus \subseteq Asks /\ buttons \subseteq Asks
    /\ onSelect \in [Authors -> Asks \cup {NoAsk}]
    /\ onButton \in [Authors \X Choices -> Asks \cup {NoAsk}]
    /\ histories \subseteq Authors \X Numbers
    /\ entries \subseteq Authors \X Numbers
    /\ answers \in [Asks -> 0..2]
    /\ clicks \subseteq Asks \X Asks

DlgInit ==
    /\ author \in [Asks -> Authors]
    /\ command \in [Asks -> {"clear", "join", "delete"}]
    /\ progress = [d \in Asks |-> "unused"]
    /\ picks = [d \in Asks |-> {}]
    /\ menus = {} /\ buttons = {}
    /\ onSelect = [a \in Authors |-> NoAsk]
    /\ onButton = [k \in Authors \X Choices |-> NoAsk]
    /\ histories = Authors \X Numbers /\ entries = {}
    /\ answers = [d \in Asks |-> 0] /\ clicks = {}

----------------------------------------------------------------------------
(* The two helpers that put a component on the screen. *)

\* create_selection: the callback of the author's selection is replaced.
CreateSelectionBug(d) ==
    /\ onSelect' = [a \in Authors |-> d]
    /\ menus' = menus \cup {d}

CreateSelection(d) ==
    /\ onSelect' = [onSelect EXCEPT ![author[d]] = d]
    /\ menus' = menus \cup {d}

\* create_yes_no_button_row: the callbacks of both buttons are replaced.
CreateButtonsBug(d) ==
    /\ onButton' = [k \in DOMAIN onButton |-> d]
    /\ buttons' = buttons \cup {d}

CreateButtons(d) ==
    /\ onButton' = [k \in DOMAIN onButton |->
                      IF k[1] = author[d] THEN d ELSE onButton[k]]
    /\ buttons' = buttons \cup {d}

----------------------------------------------------------------------------
(* The commands. *)

\* /clear: the accounts of the user are offered, and the command waits.
Clear(d) ==
    /\ progress[d] = "unused" /\ command[d] = "clear"
    /\ CreateSelection(d)
    /\ progress' = [progress EXCEPT ![d] = "choosing"]
    /\ UNCHANGED <<author, command, picks, buttons, onButton, histories, entries,
                   answers, clicks>>

\* /event join: refused when an account of the user is already entered ...
CheckEntry(d) ==
    /\ progress[d] = "unused" /\ command[d] = "join"
    /\ IF entries \cap AccountsOf(author[d]) = {}
       THEN progress' = [progress EXCEPT ![d] = "checked"]
       ELSE Caught(d, "failed")
    /\ UNCHANGED <<author, command, picks, menus, buttons, onSelect, onButton,
                   histories, entries, answers, clicks>>

\* ... and, some queries later, the accounts are offered.
OfferEntry(d) ==
    /\ progress[d] = "checked"
    /\ CreateSelection(d)
    /\ progress' = [progress EXCEPT ![d] = "choosing"]
    /\ UNCHANGED <<author, command, picks, buttons, onButton, histories, entries,
                   answers, clicks>>

\* /delete: the question is asked and nobody waits for the answer.
DeleteAll(d) ==
    /\ progress[d] = "unused" /\ command[d] = "delete"
    /\ CreateButtons(d)
    /\ progress' = [progress EXCEPT ![d] = "offered"]
    /\ UNCHANGED <<author, command, picks, menus, onSelect, histories, entries,
                   answers, clicks>>

(***************************************************************************)
(* The user chooses in the selection of m.  What runs is on_select of the  *)
(* command that registered last, with the values of m: both offer the      *)
(* accounts of the same user.  /clear goes on to ask_for_consent; /event   *)
(* join enters the first account chosen.  When nobody waits any more,      *)
(* set_result raises and nothing happens.                                  *)
(***************************************************************************)
Choose(m) ==
    LET d == onSelect[author[m]] IN
    /\ m \in menus /\ d # NoAsk
    /\ \E chosen \in SUBSET AccountsOf(author[m]) \ {{}} :
         /\ command[m] = "join" => Cardinality(chosen) = 1
         /\ \/ /\ progress[d] = "choosing" /\ command[d] = "clear"
               /\ picks' = [picks EXCEPT ![d] = chosen]
               /\ progress' = [progress EXCEPT ![d] = "asking"]
               /\ CreateButtons(d)
               /\ UNCHANGED entries
            \/ /\ progress[d] = "choosing" /\ command[d] = "join"
               /\ \E c \in chosen :
                    /\ entries' = entries \cup {c}
                    /\ picks' = [picks EXCEPT ![d] = {c}]
               /\ progress' = [progress EXCEPT ![d] = "done"]
               /\ UNCHANGED <<buttons, onButton>>
    /\ UNCHANGED <<author, command, menus, onSelect, histories, answers, clicks>>

(***************************************************************************)
(* What the callbacks of d's buttons do.  Those of ask_for_consent give    *)
(* the answer to the waiting command; confirm_delete fails at the first    *)
(* account, which belongs to the database session of the command's task;   *)
(* there is no callback for its "no".                                      *)
(***************************************************************************)
AnswerBug(d, b) ==
    /\ progress' = [progress EXCEPT ![d] = "done"]
    /\ histories' = IF b = "yes" THEN histories \ picks[d] ELSE histories

Answer(d, b) ==
    \/ /\ progress[d] = "asking"
       /\ progress' = [progress EXCEPT ![d] = "done"]
       /\ histories' = IF b = "yes" THEN histories \ picks[d] ELSE histories
    \/ /\ progress[d] = "offered"
       /\ IF b = "yes" THEN Caught(d, "failed")
                       ELSE progress' = [progress EXCEPT ![d] = "done"]
       /\ UNCHANGED histories
    \/ /\ progress[d] \notin {"asking", "offered"}
       /\ UNCHANGED <<progress, histories>>

(***************************************************************************)
(* A button of m is clicked.  What runs is the callback registered under   *)
(* the author's name: it takes both callbacks out, removes the buttons of  *)
(* the message that was clicked, and passes the answer on.  Without a      *)
(* callback the click is lost.                                             *)
(***************************************************************************)
ClickBug(m, b) ==
    LET a == author[m]  d == onButton[<<a, b>>] IN
    /\ m \in buttons /\ d # NoAsk
    /\ onButton' = [onButton EXCEPT ![<<a, b>>] = NoAsk]
    /\ buttons' = buttons
    /\ answers' = [answers EXCEPT ![d] = IF @ = 2 THEN 2 ELSE @ + 1]
    /\ clicks' = clicks \cup {<<m, d>>}
    /\ Answer(d, b)
    /\ UNCHANGED <<author, command, picks, menus, onSelect, entries>>

Click(m, b) ==
    LET a == author[m]  d == onButton[<<a, b>>] IN
    /\ m \in buttons /\ d # NoAsk
    /\ onButton' = [k \in DOMAIN onButton |->
                      IF k[1] = a THEN NoAsk ELSE onButton[k]]
    /\ buttons' = buttons \ {m}
    /\ answers' = [answers EXCEPT ![d] = IF @ = 2 THEN 2 ELSE @ + 1]
    /\ clicks' = clicks \cup {<<m, d>>}
    /\ Answer(d, b)
    /\ UNCHANGED <<author, command, picks, menus, onSelect, entries>>

\* wait_for(future, 60) gives up; the callbacks and the message stay.
ExpireBug(d) ==
    /\ progress[d] = "choosing"
    /\ Caught(d, "expired")
    /\ UNCHANGED <<author, command, picks, menus, buttons, onSelect, onButton,
                   histories, entries, answers, clicks>>

Expire(d) ==
    /\ Awaited(d)
    /\ Caught(d, "expired")
    /\ UNCHANGED <<author, command, picks, menus, buttons, onSelect, onButton,
                   histories, entries, answers, clicks>>

DlgNext == \E d \in Asks : \/ Clear(d) \/ CheckEntry(d) \/ OfferEntry(d)
                           \/ DeleteAll(d) \/ Choose(d) \/ Expire(d)
                           \/ \E b \in Choices : Click(d, b)

\* The time limit of a command that waits passes; users need not answer.
DlgFairness == \A d \in Asks : WF_dlgVars(Expire(d))

DlgSpec == DlgInit /\ [][DlgNext]_dlgVars /\ DlgFairness

----------------------------------------------------------------------------
(* Properties. *)

(***************************************************************************)
(* The answers that one user's messages collect never reach a question of  *)
(* another user, though all share one registry (the author's id in the     *)
(* names of utils.py:789-790 and 864 is what keeps them apart).            *)
(***************************************************************************)
AuthorsApart ==
    /\ \A c \in clicks : author[c[1]] = author[c[2]]
    /\ \A d \in Asks : picks[d] \subseteq AccountsOf(author[d])

(***************************************************************************)
(* A question takes one answer: whatever is clicked on however many        *)
(* messages, the buttons' callbacks of a command run once, never yes and   *)
(* no, because the first click takes out both (utils.py:805-806).          *)
(***************************************************************************)
OneAnswer == \A d \in Asks : answers[d] <= 1

(***************************************************************************)
(* Balance histories are deleted only by a /clear that still waits for its *)
(* confirmation, and only those chosen in it: neither a late click, nor    *)
(* one that reaches another command, deletes any others.                   *)
(***************************************************************************)
ClearedWasAsked ==
    [][\A c \in histories \ histories' :
         \E d \in Asks : /\ command[d] = "clear" /\ c \in picks[d]
                         /\ progress[d] = "asking" /\ progress'[d] = "done"]_dlgVars

\* Neither users nor answers nor the histories to delete are mixed up.
DialogsApart == []AuthorsApart /\ []OneAnswer /\ ClearedWasAsked

(***************************************************************************)
(* No command waits for ever, though its callbacks may have been replaced  *)
(* by those of another command and can then no longer be reached.          *)
(***************************************************************************)
CommandsEnd == \A d \in Asks : Awaited(d) ~> ~Awaited(d)

(***************************************************************************)
(* The docstring of create_yes_no_button_row (utils.py:774-776) calls the  *)
(* buttons it returns "wired up to the callbacks" passed in.  The code     *)
(* does not keep that: the buttons of an author's earlier message run the  *)
(* callbacks of his later question.                                        *)
(***************************************************************************)
ButtonsAreWired == \A c \in clicks : c[1] = c[2]
=============================================================================
