-------------------------------- MODULE Labels ---------------------------------
(***************************************************************************)
(* Labels, their groups and the trades they are put on: update_trade and   *)
(* the generated routes of labels and groups.  A request is a transaction  *)
(* of the database: it executes its statements, holding the locks they     *)
(* take, and commits later; requests for the same trade overlap.           *)
(*                                                                         *)
(* update_trade reads the labels of the trade as strings and is asked for  *)
(* numbers, so that it inserts every label it is asked for, and fails when *)
(* the trade has one of them.                                              *)
(***************************************************************************)
EXTENDS Naturals, FiniteSets

CONSTANTS Groups, LabelIds, TaggedTrades, TradeRequests, NoUpdate

VARIABLES
    groups,     \* label groups there are
    labels,     \* the group of each label there is
    tagged,     \* trade_association: pairs of a trade and a label
    updates,    \* what each request is about to commit
    readers     \* what requests have read and not yet executed
labelVars == <<groups, labels, tagged, updates, readers>>

LabelInit ==
    /\ groups = {} /\ labels = <<>> /\ tagged = {}
    /\ updates = [r \in TradeRequests |-> NoUpdate]
    /\ readers = [r \in TradeRequests |-> NoUpdate]

Pending == {updates[r] : r \in {q \in TradeRequests : updates[q] # NoUpdate}}
Locked == UNION {u.inserts \union u.deletes : u \in Pending}
TagsOf(ls) == {pair \in tagged : pair[2] \in ls}
LabelsOf(trade) == {l \in LabelIds : <<trade, l>> \in tagged}

-----------------------------------------------------------------------------
CreateGroup(g) ==
    /\ g \notin groups /\ groups' = groups \union {g}
    /\ UNCHANGED <<labels, tagged, updates, readers>>

\* The group is checked by its foreign key.
CreateLabel(l, g) ==
    /\ l \notin DOMAIN labels /\ g \in groups
    /\ labels' = [k \in DOMAIN labels \union {l} |-> IF k = l THEN g ELSE labels[k]]
    /\ UNCHANGED <<groups, tagged, updates, readers>>

MoveLabel(l, g) ==
    /\ l \in DOMAIN labels /\ g \in groups \ {labels[l]}
    /\ labels' = [labels EXCEPT ![l] = g]
    /\ UNCHANGED <<groups, tagged, updates, readers>>

\* Deleting rows waits for those who hold a lock on them, or on what refers to
\* them; what refers to them is deleted along.
DeleteLabels(ls) ==
    /\ \A pair \in Locked : pair[2] \notin ls
    /\ labels' = [l \in DOMAIN labels \ ls |-> labels[l]]
    /\ tagged' = tagged \ TagsOf(ls)

DeleteLabel(l) ==
    /\ l \in DOMAIN labels /\ DeleteLabels({l})
    /\ UNCHANGED <<groups, updates, readers>>

DeleteGroup(g) ==
    /\ g \in groups /\ groups' = groups \ {g}
    /\ DeleteLabels({l \in DOMAIN labels : labels[l] = g})
    /\ UNCHANGED <<updates, readers>>

-----------------------------------------------------------------------------
\* update_trade reads the trade and its labels.
ReadTrade(r, trade, asked, named) ==
    /\ readers[r] = NoUpdate /\ updates[r] = NoUpdate
    /\ readers' = [readers EXCEPT ![r] =
                      [trade |-> trade, asked |-> asked, named |-> named,
                       had |-> LabelsOf(trade)]]
    /\ UNCHANGED <<groups, labels, tagged, updates>>

AddedLabelsBug(query) == query.asked \ query.had

\* label_ids - set(trade.label_ids): numbers without strings.
AddedLabels(query) == query.asked

\* The labels of the trade that are not asked for go, of whatever group, when
\* the named groups have a label: the statement does not relate the two tables.
Removed(query) ==
    IF \E l \in DOMAIN labels : labels[l] \in query.named
    THEN {pair \in tagged : pair[1] = query.trade /\ pair[2] \notin query.asked}
    ELSE {}

Execute(r) ==
    LET inserts == {<<readers[r].trade, l>> : l \in AddedLabels(readers[r])}
        deletes == Removed(readers[r])
    IN  /\ readers[r] # NoUpdate
        /\ (inserts \union deletes) \intersect Locked = {}
        /\ inserts \intersect tagged = {}
        /\ \A pair \in inserts : pair[2] \in DOMAIN labels
        /\ updates' = [updates EXCEPT ![r] =
                          [asked |-> {<<readers[r].trade, l>> : l \in readers[r].asked},
                           inserts |-> inserts, deletes |-> deletes]]
        /\ readers' = [readers EXCEPT ![r] = NoUpdate]
        /\ UNCHANGED <<groups, labels, tagged>>

\* An IntegrityError: a label is there already, or is no more.
FailUpdate(r) ==
    /\ readers[r] # NoUpdate
    /\ \E l \in AddedLabels(readers[r]) :
          \/ <<readers[r].trade, l>> \in tagged
          \/ l \notin DOMAIN labels
    /\ readers' = [readers EXCEPT ![r] = NoUpdate]
    /\ UNCHANGED <<groups, labels, tagged, updates>>

CommitTrade(r) ==
    /\ updates[r] # NoUpdate
    /\ tagged' = (tagged \ updates[r].deletes) \union updates[r].inserts
    /\ updates' = [updates EXCEPT ![r] = NoUpdate]
    /\ UNCHANGED <<groups, labels, readers>>

LabelNext ==
    \/ \E g \in Groups : CreateGroup(g) \/ DeleteGroup(g)
    \/ \E l \in LabelIds : DeleteLabel(l)
    \/ \E l \in LabelIds, g \in Groups : CreateLabel(l, g) \/ MoveLabel(l, g)
    \/ \E r \in TradeRequests :
          \/ \E t \in TaggedTrades, asked \in SUBSET LabelIds, named \in SUBSET Groups :
                ReadTrade(r, t, asked, named)
          \/ Execute(r) \/ FailUpdate(r) \/ CommitTrade(r)

LabelSpec == LabelInit /\ [][LabelNext]_labelVars

-----------------------------------------------------------------------------
\* Two requests about the same trade, or one and the deletion of a label: a
\* request that succeeds leaves the trade with every label it was asked for,
\* whatever was committed since it read the trade.
AskedAreThere ==
    [][\A r \in TradeRequests :
          updates[r] # NoUpdate /\ updates'[r] = NoUpdate => updates[r].asked \subseteq tagged']_labelVars
=============================================================================
