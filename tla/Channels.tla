-------------------------------- MODULE Channels --------------------------------
(***************************************************************************)
(* Who hears of a row (lib/lib/messenger.py).  Tables form a tree; a flush *)
(* publishes a row on the channel made of its id and the ids of its        *)
(* parents, as far as the session knows them, and with a star for the      *)
(* others.  Whoever subscribes gives some of the ids, or none, and redis   *)
(* matches the rest; a star that is published only matches what was left   *)
(* open.                                                                   *)
(***************************************************************************)
EXTENDS Naturals, FiniteSets

CONSTANTS
  TableRows,    \* rows of any table
  TableOf,      \* the table of each row
  ParentRow,    \* the row that each one's foreign key names, NoRow for none
  NoRow,
  Listeners,    \* callbacks, each of one service
  MaxFlushes    \* bound of flushes

\* No table has more than three above it.
Above(r) == IF r = NoRow THEN NoRow ELSE ParentRow[r]

ASSUME ChannelsAssumption ==
  /\ NoRow \notin TableRows
  /\ ParentRow \in [TableRows -> TableRows \cup {NoRow}]
  /\ \A r \in TableRows : Above(Above(Above(Above(r)))) = NoRow
  /\ MaxFlushes \in Nat

\* The namespaces, by their parents.
ParentTable ==
  [client |-> "user", alert |-> "user", event |-> "user", journal |-> "user",
   action |-> "user", authgrant |-> "user", balance |-> "client", trade |-> "client",
   transfer |-> "client", execution |-> "client", pnldata |-> "trade",
   evententry |-> "event", chapter |-> "journal", user |-> "none"]

SpaceNames == DOMAIN ParentTable

VARIABLES
  identity,     \* the rows in the session's identity map
  linked,       \* the rows whose parent is loaded as an attribute
  subscribed,   \* the table and ids each listener gave
  publishing,   \* messages whose task has not run
  flushes,      \* how many messages there were
  heard,        \* the messages each listener was given
  owed,         \* history variable: the messages about what it asked for
  plain         \* history variable: messages of a session that held all parents

chanVars == <<identity, linked, subscribed, publishing, flushes, heard, owed, plain>>

NoChannel == [table |-> "none", ids |-> {}]
Numbers == 1 .. MaxFlushes

ChanTypeOK ==
  /\ identity \subseteq TableRows
  /\ linked \subseteq identity
  /\ subscribed \in [Listeners -> [table : SpaceNames \cup {"none"}, ids : SUBSET TableRows]]
  /\ publishing \subseteq [number : Numbers, row : TableRows, ids : SUBSET TableRows]
  /\ flushes \in 0 .. MaxFlushes
  /\ heard \in [Listeners -> SUBSET Numbers]
  /\ owed \in [Listeners -> SUBSET Numbers]
  /\ plain \subseteq Numbers

ChanInit ==
  /\ identity = {}
  /\ linked = {}
  /\ subscribed = [l \in Listeners |-> NoChannel]
  /\ publishing = {}
  /\ flushes = 0
  /\ heard = [l \in Listeners |-> {}]
  /\ owed = [l \in Listeners |-> {}]
  /\ plain = {}

-----------------------------------------------------------------------------
\* The row, its parent, the parent of that and so on: no table is deeper than four.
Lineage(row) ==
  {row, Above(row), Above(Above(row)), Above(Above(Above(row)))} \ {NoRow}

\* The rows to step up from on the way from a row to the one that names an ancestor.
Below(row, ancestor) ==
  {r \in Lineage(row) : ancestor # ParentRow[r] /\ ancestor \in Lineage(ParentRow[r])}

\* A slip: the parent is only looked for in the attribute.
ReachedBug(row) == row \in linked

\* The parent's instance, as an attribute or from the identity map.
Reached(row) == row \in linked \/ ParentRow[row] \in identity

\* get_ids: the id of a parent is a column of the instance below it, which has to be
\* reached; an event names its owner by another column.
GetIds(row) == {a \in Lineage(row) : \A r \in Below(row, a) : Reached(r)}

\* format, fill and redis: the ids that were asked for are equal, the others match
\* anything.
Matches(channel, row, ids) ==
  channel.table = TableOf[row] /\ channel.ids \subseteq ids

-----------------------------------------------------------------------------
(* The session.                                                            *)

LoadRow(row) ==
  /\ row \notin identity
  /\ identity' = identity \cup {row}
  /\ UNCHANGED <<linked, subscribed, publishing, flushes, heard, owed, plain>>

\* An eager load of the row's parent.
LinkRow(row) ==
  /\ row \in identity \ linked
  /\ ParentRow[row] # NoRow
  /\ linked' = linked \cup {row}
  /\ identity' = identity \cup {ParentRow[row]}
  /\ UNCHANGED <<subscribed, publishing, flushes, heard, owed, plain>>

\* The identity map is weak: it loses what nothing refers to.
ForgetRow(row) ==
  /\ row \in identity
  /\ \A child \in linked : ParentRow[child] # row
  /\ identity' = identity \ {row}
  /\ linked' = linked \ {row}
  /\ UNCHANGED <<subscribed, publishing, flushes, heard, owed, plain>>

\* listen_class: the ids are read in the flush, a task publishes.
FlushRow(row) ==
  /\ row \in identity
  /\ flushes < MaxFlushes
  /\ flushes' = flushes + 1
  /\ publishing' = publishing \cup {[number |-> flushes', row |-> row, ids |-> GetIds(row)]}
  /\ plain' = IF Lineage(row) \subseteq identity THEN plain \cup {flushes'} ELSE plain
  /\ UNCHANGED <<identity, linked, subscribed, heard, owed>>

-----------------------------------------------------------------------------
(* The messenger and redis.                                                *)

\* get_namespace, bulk_sub and sub_channel, with some of the ids of a row.
SubscribeTo(l, row, ids) ==
  /\ subscribed[l] = NoChannel
  /\ ids \subseteq Lineage(row)
  /\ subscribed' = [subscribed EXCEPT ![l] = [table |-> TableOf[row], ids |-> ids]]
  /\ UNCHANGED <<identity, linked, publishing, flushes, heard, owed, plain>>

UnsubscribeFrom(l) ==
  /\ subscribed[l] # NoChannel
  /\ subscribed' = [subscribed EXCEPT ![l] = NoChannel]
  /\ UNCHANGED <<identity, linked, publishing, flushes, heard, owed, plain>>

\* pub_channel: redis gives the message to who is subscribed by then.
PublishRow(m) ==
  LET Adding(to, ids) ==
        [l \in Listeners |-> IF Matches(subscribed[l], m.row, ids)
                             THEN to[l] \cup {m.number} ELSE to[l]]
  IN /\ publishing' = publishing \ {m}
     /\ heard' = Adding(heard, m.ids)
     /\ owed' = Adding(owed, Lineage(m.row))
     /\ UNCHANGED <<identity, linked, subscribed, flushes, plain>>

ChanNext ==
  \/ \E row \in TableRows : LoadRow(row) \/ LinkRow(row) \/ ForgetRow(row) \/ FlushRow(row)
  \/ \E l \in Listeners, row \in TableRows, ids \in SUBSET TableRows : SubscribeTo(l, row, ids)
  \/ \E l \in Listeners : UnsubscribeFrom(l)
  \/ \E m \in publishing : PublishRow(m)

ChanSpec == ChanInit /\ [][ChanNext]_chanVars

-----------------------------------------------------------------------------
\* Nobody is told of a row of somebody else's, and whoever asked for a row hears of
\* each flush of it, whatever ids it gave, if the session held all parents of the
\* row, be they loaded as attributes or not (NameSpace.get_ids, format; a session
\* that does not hold them publishes on a channel that only patterns match).
HeardAsAsked ==
  \A l \in Listeners : heard[l] \subseteq owed[l] /\ owed[l] \cap plain \subseteq heard[l]
=============================================================================
