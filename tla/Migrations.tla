-------------------------------- MODULE Migrations --------------------------------
(***************************************************************************)
(* The database schema: every revision under alembic/versions with its     *)
(* upgrade and its downgrade, the tables of the models (lib/lib/db/models) *)
(* and what runs the revisions: alembic, in one transaction per command    *)
(* (alembic/env.py), and tools/init_db.py, which creates the tables of the *)
(* models and stamps the database with the last revision.                  *)
(*                                                                         *)
(* A schema is a set of objects: tables, columns, columns that may not be  *)
(* null ("required"), named constraints, types, and the type of a column   *)
(* where no cast exists ("typed").  What Postgres calls a constraint that  *)
(* the code leaves unnamed is spelled out.                                 *)
(***************************************************************************)
EXTENDS Naturals, Sequences, SequencesExt

CONSTANT Tables    \* the tables that the model fills with rows

Table(t) == <<"table", t, "">>
Column(t, c) == <<"column", t, c>>
Required(t, c) == <<"required", t, c>>
Constraint(t, n) == <<"constraint", t, n>>
Type(n) == <<"type", "", n>>
Typed(t, c, n) == <<"typed", t \o "." \o c, n>>
Columns(t, cs) == {Column(t, c) : c \in cs}

-----------------------------------------------------------------------------
(* The operations of alembic.  One applies if what it needs is there, what *)
(* it adds is not, and a table that gets a column without a value is empty.*)

Op == [needs |-> {}, adds |-> {}, drops |-> {}, gone |-> {}, empty |-> {}, clears |-> {}]
Needing(objects) == [Op EXCEPT !.needs = objects]

CreateTable(t, cs, ns) ==
  [Op EXCEPT !.adds = {Table(t)} \cup Columns(t, cs) \cup {Constraint(t, n) : n \in ns}]
DropTable(t) == [Needing({Table(t)}) EXCEPT !.gone = {t}]
AddColumn(t, c) == [Needing({Table(t)}) EXCEPT !.adds = {Column(t, c)}]
AddRequired(t, c) == [AddColumn(t, c) EXCEPT !.adds = @ \cup {Required(t, c)}, !.empty = {t}]
DropColumn(t, c) == [Needing({Column(t, c)}) EXCEPT !.drops = {Column(t, c), Required(t, c)}]
RenameColumn(t, a, b) ==
  [Needing({Column(t, a)}) EXCEPT !.adds = {Column(t, b)}, !.drops = {Column(t, a)}]
NotNull(t, c) == [Needing({Column(t, c)}) EXCEPT !.adds = {Required(t, c)}]
Nullable(t, c) == [Needing({Column(t, c)}) EXCEPT !.drops = {Required(t, c)}]
Alter(t, c) == Needing({Column(t, c)})
Recast(t, c, n) == Needing({Column(t, c), Typed(t, c, n)})
AddConstraint(t, n) == [Needing({Table(t)}) EXCEPT !.adds = {Constraint(t, n)}]
AddForeignKey(t, n, to) == [AddConstraint(t, n) EXCEPT !.needs = @ \cup {Table(to)}]
DropConstraint(t, n) == [Needing({Constraint(t, n)}) EXCEPT !.drops = {Constraint(t, n)}]
\* drop_constraint(None, ...) cannot be compiled: no constraint has that name.
DropUnnamed(t) == DropConstraint(t, "None")
CreateType(n) == [Op EXCEPT !.adds = {Type(n)}]
DropType(n) == [Needing({Type(n)}) EXCEPT !.drops = {Type(n)}]
ReplaceType(n) == Needing({Type(n)})
Clear(ts) == [Op EXCEPT !.clears = ts]

-----------------------------------------------------------------------------
(* The revisions, first to last.  The data they move is left out, but not  *)
(* what they delete.                                                       *)

\* The column has the type already, which reflection takes for an interval;
\* Postgres casts neither to the other.
ToEnum == Recast("journal", "chapter_interval", "intervaltype")
ToInterval == Recast("journal", "chapter_interval", "interval")
Synced == {"trade", "balance", "transfer"}

-----------------------------------------------------------------------------
(* The tables of the models that the revisions touch.                      *)

Edited == {"created_at", "last_edited"}
Page == Edited \cup {"id", "parent_id", "doc"}
LabelTable == {"id", "group_id", "name", "color"}
LabelGroupTable == {"id", "name", "user_id"}
ActionTable ==
  Edited \cup {"id", "user_id", "name", "type", "topic", "platform", "message", "delay",
               "trigger_type", "trigger_ids"}
AuthGrantTable == {"id", "name", "user_id", "expires", "wildcards", "data", "token"}
EventGrantTable == {"event_id", "grant_id", "registrations_left"}
JournalGrantTable == {"journal_id", "grant_id"}
ChapterGrantTable == {"chapter_id", "grant_id"}
TradeGrantTable == {"trade_id", "grant_id"}
TemplateGrantTable == {"template_id", "grant_id"}
AmountTable == {"balance_id", "currency", "rate", "realized", "unrealized"}
BalanceTable == {"id", "client_id", "time", "realized", "unrealized"}
\* A slip: a column that a revision drops stays in the model.
ClientTableBug == Edited \cup {"id", "user_id", "api_key", "extra", "rekt_on"}
ClientTable ==
  Edited \cup {"id", "user_id", "oauth_account_id", "api_key", "api_secret", "exchange",
               "subaccount", "extra", "currency", "sandbox", "name", "type", "state",
               "currently_realized_id", "trade_template_id", "last_transfer_sync",
               "last_execution_sync"}
EventTable ==
  {"id", "owner_id", "registration_start", "registration_end", "start", "end",
   "max_registrations", "allow_transfers", "name", "description", "location", "currency",
   "rekt_threshold", "final_summary"}
EventScoreTable == {"entry_id", "time", "rank", "abs_value", "rel_value"}
EventEntryTable ==
  {"id", "user_id", "client_id", "event_id", "init_balance_id", "joined_at", "rekt_on"}
ExecutionTable ==
  {"id", "trade_id", "transfer_id", "symbol", "time", "type", "realized_pnl", "price", "qty",
   "side", "commission", "reduce", "market_type", "settle", "inverse"}
TransferTable == {"id", "client_id", "execution_id", "note", "coin"}
TradeTable ==
  {"id", "client_id", "symbol", "entry", "qty", "open_qty", "transferred_qty", "open_time",
   "close_time", "exit", "realized_pnl", "total_commissions", "settle", "inverse",
   "init_balance_id", "max_pnl_id", "min_pnl_id", "tp", "sl", "order_count",
   "initial_execution_id", "notes"}
\* The columns of SQLAlchemyBaseUserTableUUID are left out.
UserTable == Edited \cup {"id", "subscription", "info", "about_me"}
JournalTable ==
  Edited \cup {"id", "user_id", "title", "chapter_interval", "type", "overview",
               "default_template_id"}
ChapterTable == Page \cup {"journal_id", "template_id", "data"}
TemplateTable == Page \cup {"user_id", "data", "type"}
PresetTable == Edited \cup {"id", "user_id", "name", "type", "attrs"}

Models ==
  [label |-> LabelTable, labelgroup |-> LabelGroupTable, action |-> ActionTable,
   authgrant |-> AuthGrantTable, eventgrant |-> EventGrantTable,
   journalgrant |-> JournalGrantTable, chaptergrant |-> ChapterGrantTable,
   tradegrant |-> TradeGrantTable, templategrant |-> TemplateGrantTable,
   amount |-> AmountTable, balance |-> BalanceTable, client |-> ClientTable,
   event |-> EventTable, eventscore |-> EventScoreTable, evententry |-> EventEntryTable,
   execution |-> ExecutionTable, transfer |-> TransferTable, trade |-> TradeTable,
   user |-> UserTable, journal |-> JournalTable, chapter |-> ChapterTable,
   template |-> TemplateTable, preset |-> PresetTable]

ModelObjects ==
  UNION {{Table(t)} \cup Columns(t, Models[t]) : t \in DOMAIN Models}

\* The keys that keep rows apart.  Client and EventEntry declare theirs in an
\* attribute __tableargs__, which SQLAlchemy does not read.
Keys == {Constraint("client", "client_user_id_exchange_api_key_key"),
         Constraint("evententry", "evententry_user_id_event_id_key"),
         Constraint("execution", "execution_trade_id_transfer_id_key")}
ModelKeys == {Constraint("execution", "execution_trade_id_transfer_id_key")}

\* A query of a model in a revision selects the columns that the model has today.
Query(t) == Needing(Columns(t, Models[t]))
\* The use of a name that is not defined (LabelTmp).
Undefined == Needing({<<"name", "", "LabelTmp">>})

\* The table of a kind of grant.
GrantTable(kind, cs, key) ==
  CreateTable(kind \o "grant", {kind \o "_id", "grant_id"} \cup cs, {key, "authgrant_id_fkey"})
ArchiveColumns == {"event_id", "registrations", "leaderboard", "summary", "history_path"}

Rev_21a8724671d8 ==
  [up   |-> <<CreateTable("labelgroup", {"id", "name", "user_id"}, {"labelgroup_user_id_fkey", "labelgroup_pkey"}),
            Query("user"), AddColumn("label", "group_id"), Undefined, NotNull("label", "group_id"),
            DropConstraint("label", "label_user_id_fkey"),
            AddForeignKey("label", "label_group_id_fkey", "labelgroup"), DropColumn("label", "user_id")>>,
   down |-> <<AddRequired("label", "user_id"), DropUnnamed("label"),
            AddForeignKey("label", "label_user_id_fkey", "user"),
            DropColumn("label", "group_id"), DropTable("labelgroup")>>]
Rev_1f35497b5996 ==
  [up   |-> <<RenameColumn("event", "rekt_treshhold", "rekt_threshold")>>,
   down |-> <<RenameColumn("event", "rekt_threshold", "rekt_treshhold")>>]
Rev_2e2ccd52b7b1 ==
  [up   |-> <<CreateType("actiontrigger"), AddRequired("action", "trigger_type")>>,
   down |-> <<DropColumn("action", "trigger_type"), DropType("actiontrigger")>>]
Rev_d019cbe0748b ==
  [up   |-> <<CreateType("templatetype"), AddColumn("template", "type"), NotNull("template", "type"),
            AddColumn("template", "parent_id"),
            AddForeignKey("template", "template_parent_id_fkey", "template")>>,
   down |-> <<DropUnnamed("template"), DropColumn("template", "parent_id"),
            DropColumn("template", "type"), DropType("templatetype")>>]
Rev_eaf0901c43fd ==
  [up   |-> <<AddColumn("client", "trade_template_id"),
            AddForeignKey("client", "client_trade_template_id_fkey", "template")>>,
   down |-> <<DropUnnamed("client"), DropColumn("client", "trade_template_id")>>]
Rev_0a3782ac454d ==
  [up   |-> <<ToEnum>>,
   down |-> <<ToInterval>>]
Rev_150590cb8130 ==
  [up   |-> <<Clear({"trade"}), NotNull("trade", "init_balance_id")>>,
   down |-> <<Nullable("trade", "init_balance_id")>>]
Rev_5f2bdbbb4b16 ==
  [up   |-> <<CreateTable("evententry", {"client_id", "event_id", "init_balance_id", "rekt_on"}, {"evententry_client_id_fkey",
            "evententry_event_id_fkey", "evententry_init_balance_id_fkey", "evententry_pkey"}),
            NotNull("evententry", "client_id"),
            DropConstraint("eventscore", "eventscore_client_id_event_id_last_rank_update_fkey"),
            DropConstraint("eventscore", "eventscore_init_balance_id_fkey"), DropTable("eventrank"),
            AddRequired("eventscore", "time"), AddColumn("eventscore", "rank"),
            DropColumn("eventscore", "init_balance_id"), DropColumn("eventscore", "rekt_on"),
            DropColumn("eventscore", "last_rank_update")>>,
   down |-> <<ToInterval, AddColumn("eventscore", "last_rank_update"), AddColumn("eventscore", "rekt_on"),
            AddColumn("eventscore", "init_balance_id"),
            AddForeignKey("eventscore", "eventscore_init_balance_id_fkey", "balance"),
            AddForeignKey("eventscore", "eventscore_client_id_event_id_last_rank_update_fkey", "eventrank"),
            DropColumn("eventscore", "rank"), DropColumn("eventscore", "time"),
            CreateTable("eventrank", {"client_id", "event_id", "value", "time"}, {"eventrank_pkey"}), DropTable("evententry")>>]
Rev_c75fd142c203 ==
  [up   |-> <<DropColumn("client", "rekt_on"), AddColumn("event", "final_summary")>>,
   down |-> <<DropColumn("event", "final_summary"), AddColumn("client", "rekt_on")>>]
Rev_439d8fa64429 ==
  [up   |-> <<DropTable("archive")>>,
   down |-> <<CreateTable("archive", ArchiveColumns, {"archive_event_id_fkey", "archive_pkey"})>>]
Rev_e845d16188d5 ==
  [up   |-> <<Clear(Synced), NotNull("transfer", "execution_id"), DropConstraint("transfer", "ix_transfer_time"),
            DropColumn("transfer", "commission"), DropColumn("transfer", "coin"),
            DropColumn("transfer", "time"), DropColumn("transfer", "amount"),
            DropColumn("transfer", "extra_currencies")>>,
   down |-> <<AddColumn("transfer", "extra_currencies"), AddColumn("transfer", "amount"),
            AddColumn("transfer", "time"), AddColumn("transfer", "coin"),
            AddColumn("transfer", "commission"), AddConstraint("transfer", "ix_transfer_time"),
            Nullable("transfer", "execution_id")>>]
Rev_4baacbf738d6 ==
  [up   |-> <<Clear(Synced), AddColumn("execution", "transfer_id"),
            AddConstraint("execution", "execution_trade_id_transfer_id_key"),
            AddForeignKey("execution", "execution_transfer_id_fkey", "transfer")>>,
   down |-> <<DropUnnamed("execution"), DropUnnamed("execution"),
            DropColumn("execution", "transfer_id")>>]
Rev_358424d1dd1c ==
  [up   |-> <<Clear(Synced), AddColumn("transfer", "coin")>>,
   down |-> <<DropColumn("transfer", "coin")>>]
Rev_0b86b2e9d925 ==
  [up   |-> <<Alter("transfer", "id"), AddColumn("user", "info")>>,
   down |-> <<DropColumn("user", "info"), Alter("transfer", "id")>>]
Rev_8c304830d9af ==
  [up   |-> <<Clear({"evententry"}), DropConstraint("evententry", "evententry_client_id_fkey"),
            DropConstraint("eventscore", "eventscore_client_id_fkey"),
            DropConstraint("eventscore", "eventscore_event_id_fkey"),
            DropConstraint("evententry", "evententry_pkey"),
            DropColumn("eventscore", "client_id"), DropColumn("eventscore", "event_id"),
            AddRequired("eventscore", "entry_id"), AddRequired("evententry", "id"),
            AddRequired("evententry", "user_id"),
            AddForeignKey("evententry", "evententry_client_id_fkey", "client"),
            AddForeignKey("evententry", "evententry_user_id_fkey", "user"),
            AddForeignKey("eventscore", "eventscore_entry_id_fkey", "evententry")>>,
   down |-> <<AddRequired("eventscore", "event_id"), AddRequired("eventscore", "client_id"),
            DropUnnamed("eventscore"),
            AddForeignKey("eventscore", "eventscore_event_id_fkey", "event"),
            AddForeignKey("eventscore", "eventscore_client_id_fkey", "client"),
            DropColumn("eventscore", "entry_id"),
            DropConstraint("evententry", "evententry_user_id_fkey"),
            DropConstraint("evententry", "evententry_client_id_fkey"),
            AddForeignKey("evententry", "evententry_client_id_fkey", "client"),
            DropColumn("evententry", "user_id"), DropColumn("evententry", "id")>>]
Rev_f4263b42cb51 ==
  [up   |-> <<Nullable("evententry", "client_id"),
            AddConstraint("evententry", "evententry_user_id_event_id_key")>>,
   down |-> <<DropConstraint("evententry", "evententry_user_id_event_id_key"),
            NotNull("evententry", "client_id")>>]
Rev_a068507680cd ==
  [up   |-> <<>>,
   down |-> <<>>]
Rev_fa3c22038e23 ==
  [up   |-> <<AddColumn("user", "about_me")>>,
   down |-> <<DropColumn("user", "about_me")>>]
Rev_bd3550f6de65 ==
  [up   |-> <<AddConstraint("client", "client_user_id_exchange_api_key_key"), ToEnum>>,
   down |-> <<ToInterval, DropUnnamed("client")>>]
Rev_ef56206a626e ==
  [up   |-> <<CreateTable("authgrant", {"id", "user_id", "expires", "token", "public", "data"}, {"user_id_fkey"}),
            GrantTable("chapter", {}, "event_id_fkey"),
            GrantTable("event", {"registrations_left"}, "event_id_fkey"),
            GrantTable("trade", {}, "trade_id_fkey"), GrantTable("journal", {}, "journal_id_fkey"), ToEnum>>,
   down |-> <<ToInterval, DropTable("journalgrant"), DropTable("tradegrant"),
            DropTable("eventgrant"), DropTable("chaptergrant"), DropTable("authgrant")>>]
Rev_76728ce5b2dc ==
  [up   |-> <<CreateType("granttype"), AddColumn("authgrant", "wildcards")>>,
   down |-> <<DropType("associationtype"), DropColumn("authgrant", "wildcards")>>]
Rev_6953e25d67fe ==
  [up   |-> <<DropConstraint("chaptergrant", "event_id_fkey"),
            AddForeignKey("chaptergrant", "chapter_id_fkey", "chapter"), ToEnum>>,
   down |-> <<ToInterval, DropConstraint("chaptergrant", "chapter_id_fkey"),
            AddForeignKey("chaptergrant", "event_id_fkey", "event")>>]
Rev_a8e101b2ffbf ==
  [up   |-> <<Alter("amount", "currency"), AddColumn("evententry", "joined_at"),
            Query("evententry"), Query("event"), NotNull("evententry", "joined_at")>>,
   down |-> <<DropColumn("evententry", "joined_at"), Alter("amount", "currency")>>]
Rev_a56e49577f73 ==
  [up   |-> <<AddColumn("authgrant", "name"), ToEnum>>,
   down |-> <<ToInterval, DropColumn("authgrant", "name")>>]
Rev_cd3ea0fe29c6 ==
  [up   |-> <<Alter("amount", "currency")>>,
   down |-> <<>>]
Rev_c1cf25c23103 ==
  [up   |-> <<DropColumn("authgrant", "public"), ToEnum>>,
   down |-> <<ToInterval, AddColumn("authgrant", "public")>>]
Rev_d29c21f66a4f ==
  [up   |-> <<AddColumn("amount", "rate"),
            DropConstraint("balance", "balance_transfer_id_fkey"),
            DropColumn("balance", "transfer_id"), ToEnum>>,
   down |-> <<ToInterval, AddColumn("balance", "transfer_id"),
            AddForeignKey("balance", "balance_transfer_id_fkey", "transfer"),
            DropColumn("amount", "rate")>>]
Rev_02020a57ea5c ==
  [up   |-> <<GrantTable("template", {}, "template_id_fkey"), DropColumn("event", "public"), ToEnum>>,
   down |-> <<ToInterval, AddRequired("event", "public"), DropTable("templategrant")>>]
Rev_f6be99aae636 ==
  [up   |-> <<DropColumn("action", "action_type"), ReplaceType("actiontype"),
            AddRequired("action", "type"), AddRequired("action", "platform"),
            Nullable("action", "trigger_ids"),
            DropColumn("action", "extra"), DropColumn("action", "namespace")>>,
   down |-> <<AddRequired("action", "namespace"), AddRequired("action", "action_type"),
            AddRequired("action", "extra"), NotNull("action", "trigger_ids"),
            DropColumn("action", "platform"), DropColumn("action", "type")>>]
Rev_d1f13f442d97 ==
  [up   |-> <<Alter("event", "location")>>,
   down |-> <<>>]
Rev_d114ff70a3af ==
  [up   |-> <<AddColumn("action", "name"), ToEnum>>,
   down |-> <<DropColumn("action", "name")>>]
Rev_eee37086c3b9 ==
  [up   |-> <<Alter("client", "exchange")>>,
   down |-> <<>>]
Rev_5f9dd601983a ==
  [up   |-> <<AddColumn("execution", "reduce"), ToEnum>>,
   down |-> <<ToInterval, DropColumn("execution", "reduce")>>]
Rev_3e73e9ecc90e ==
  [up   |-> <<CreateType("markettype"), AddColumn("execution", "market_type")>>,
   down |-> <<DropColumn("execution", "market_type"), DropType("markettype")>>]
Rev_16c917fc83ca ==
  [up   |-> <<Alter("balance", "unrealized")>>,
   down |-> <<>>]
Rev_0856da4f1911 ==
  [up   |-> <<Query("client"), Clear(Synced)>>,
   down |-> <<>>]
Rev_dd00202a060f ==
  [up   |-> <<AddColumn("chapter", "template_id"),
            AddForeignKey("chapter", "chapter_template_id_fkey", "template"), ToEnum>>,
   down |-> <<ToInterval, DropUnnamed("chapter"), DropColumn("chapter", "template_id")>>]
Rev_02c46315e2b9 ==
  [up   |-> <<CreateTable("preset", {"created_at", "last_edited", "id", "user_id", "name", "type", "attrs"}, {"preset_user_id_fkey", "preset_pkey"}),
            ToEnum>>,
   down |-> <<ToInterval, DropTable("preset")>>]
Rev_1b15262ae438 ==
  [up   |-> <<AddColumn("journal", "created_at"), AddColumn("journal", "last_edited")>>,
   down |-> <<DropColumn("journal", "last_edited"), DropColumn("journal", "created_at")>>]
Rev_f0698bc63edd ==
  [up   |-> <<AddColumn("trade", "close_time"), Query("trade"), Query("execution")>>,
   down |-> <<DropColumn("trade", "close_time")>>]
Rev_f3f00df02862 ==
  [up   |-> <<DropColumn("client", "extra_kwargs"), AddColumn("client", "extra")>>,
   down |-> <<DropColumn("client", "extra"), AddColumn("client", "extra_kwargs")>>]
\* A slip: a revision written against a database that lacks an earlier one.
Rev_f1392b6ac07eBug ==
  [up   |-> <<AddColumn("action", "name"), AddColumn("action", "message")>>,
   down |-> <<DropColumn("action", "message")>>]
Rev_f1392b6ac07e ==
  [up   |-> <<AddColumn("action", "message")>>,
   down |-> <<DropColumn("action", "message")>>]
Rev_c95386a9c812 ==
  [up   |-> <<AddColumn("action", "delay"), ReplaceType("actiontype")>>,
   down |-> <<DropColumn("action", "delay"), ReplaceType("actiontype")>>]

\* Each revision names the one before it.
Revisions ==
  <<Rev_21a8724671d8, Rev_1f35497b5996, Rev_2e2ccd52b7b1, Rev_d019cbe0748b, Rev_eaf0901c43fd,
    Rev_0a3782ac454d, Rev_150590cb8130, Rev_5f2bdbbb4b16, Rev_c75fd142c203, Rev_439d8fa64429,
    Rev_e845d16188d5, Rev_4baacbf738d6, Rev_358424d1dd1c, Rev_0b86b2e9d925, Rev_8c304830d9af,
    Rev_f4263b42cb51, Rev_a068507680cd, Rev_fa3c22038e23, Rev_bd3550f6de65, Rev_ef56206a626e,
    Rev_76728ce5b2dc, Rev_6953e25d67fe, Rev_a8e101b2ffbf, Rev_a56e49577f73, Rev_cd3ea0fe29c6,
    Rev_c1cf25c23103, Rev_d29c21f66a4f, Rev_02020a57ea5c, Rev_f6be99aae636, Rev_d1f13f442d97,
    Rev_d114ff70a3af, Rev_eee37086c3b9, Rev_5f9dd601983a, Rev_3e73e9ecc90e, Rev_16c917fc83ca,
    Rev_0856da4f1911, Rev_dd00202a060f, Rev_02c46315e2b9, Rev_1b15262ae438, Rev_f0698bc63edd,
    Rev_f3f00df02862, Rev_f1392b6ac07e, Rev_c95386a9c812>>

Newest == Len(Revisions)
UpOps(v) == Revisions[v].up
DownOps(v) == Revisions[v].down

Applies(op, db) ==
  /\ op.needs \subseteq db.schema
  /\ op.adds \cap db.schema \subseteq {o \in op.adds : o[1] = "required"}
  /\ op.empty \cap db.rows = {}

Effect(op, db) ==
  [schema |-> {o \in db.schema \ op.drops : o[2] \notin op.gone} \cup op.adds,
   rows |-> db.rows \ (op.clears \cup op.gone)]

\* A revision runs up to its first operation that does not apply.
Do(db, op) == IF db.ok /\ Applies(op, db) THEN Effect(op, db) @@ db ELSE [db EXCEPT !.ok = FALSE]
Perform(ops, schema, filled) == FoldLeft(Do, [schema |-> schema, rows |-> filled, ok |-> TRUE], ops)

\* What an upgrade would leave if every operation applied.
Force(schema, op) == Effect(op, [schema |-> schema, rows |-> {}]).schema

\* The database before the first revision is not in the repository: it has what
\* the models have today and no revision adds, what a revision needs before one
\* adds it, and what a downgrade restores.
Base ==
  LET AllOps == UNION {ToSet(UpOps(v)) : v \in 1 .. Newest}
      Added == UNION {op.adds : op \in AllOps}
      Restored ==
        {Column("transfer", "coin"), Constraint("archive", "archive_event_id_fkey"),
         Constraint("archive", "archive_pkey")}
          \cup Columns("archive", ArchiveColumns)
          \cup {Required("action", c) : c \in {"namespace", "action_type", "extra", "trigger_ids"}}
  IN  ((UNION {op.needs : op \in AllOps} \cup ModelObjects) \ (Added \cup Undefined.needs))
        \cup Restored

Schemas ==
  FoldLeft(LAMBDA ss, r : Append(ss, FoldLeft(Force, ss[Len(ss)], r.up)), <<Base>>, Revisions)
SchemaOf(v) == Schemas[v + 1]

-----------------------------------------------------------------------------
VARIABLES
  version,   \* the number of the revision in alembic_version, 0 before the first
  schema,    \* what is committed
  stocked,      \* the tables that hold rows
  origin,    \* how the database came to be
  txn        \* the command that runs, and what it has done so far

migVars == <<version, schema, stocked, origin, txn>>

NoTxn == [dir |-> "none"]
Running == txn.dir # "none"

MigTypeOK ==
  /\ version \in 0 .. Newest
  /\ stocked \subseteq Tables
  /\ origin \in {"migrated", "new", "created"}
  /\ Running => txn.at \in 0 .. Newest /\ txn.to \in 0 .. Newest /\ txn.from = version

\* A database that some earlier version of the program left, or a new one.
MigInit ==
  /\ txn = NoTxn
  /\ \/ /\ origin = "migrated"
        /\ version \in 0 .. Newest
        /\ schema = SchemaOf(version)
        /\ stocked \in {r \in SUBSET Tables : \A t \in r : Table(t) \in schema}
     \/ origin = "new" /\ version = 0 /\ schema = {} /\ stocked = {}

Begin(dir, to) ==
  /\ ~Running
  /\ txn' = [dir |-> dir, from |-> version, at |-> version, to |-> to,
             schema |-> schema, rows |-> stocked]
  /\ UNCHANGED <<version, schema, stocked, origin>>

\* alembic upgrade head (migrations.Dockerfile).
Upgrade == version < Newest /\ Begin("up", Newest)
\* alembic downgrade, by one revision or all the way.
Downgrade == version > 0 /\ \E to \in {version - 1, 0} : Begin("down", to)

Outcome ==
  Perform(IF txn.dir = "up" THEN UpOps(txn.at + 1) ELSE DownOps(txn.at), txn.schema, txn.rows)

\* The next revision on the way.
Revise ==
  /\ Running /\ txn.at # txn.to
  /\ Outcome.ok
  /\ txn' = [txn EXCEPT !.at = IF txn.dir = "up" THEN @ + 1 ELSE @ - 1,
                        !.schema = Outcome.schema, !.rows = Outcome.rows]
  /\ UNCHANGED <<version, schema, stocked, origin>>

\* run_migrations_online has one transaction for all of them.
Commit ==
  /\ Running /\ txn.at = txn.to
  /\ version' = txn.to /\ schema' = txn.schema /\ stocked' = txn.rows
  /\ txn' = NoTxn
  /\ UNCHANGED origin

\* A slip: a transaction per revision, and one that is not closed by an error.
FailBug ==
  /\ Running /\ txn.at # txn.to
  /\ txn' = NoTxn
  /\ schema' = txn.schema
  /\ UNCHANGED <<version, stocked, origin>>

\* An operation that does not apply, or the end of the process: rolled back.
Fail ==
  /\ Running /\ txn.at # txn.to
  /\ txn' = NoTxn
  /\ UNCHANGED <<version, schema, stocked, origin>>

\* tools/init_db.py: create_all of a database without tables, and the stamp.
InitDb ==
  /\ ~Running /\ origin = "new"
  /\ schema' = ModelObjects \cup ModelKeys
  /\ version' = Newest
  /\ origin' = "created"
  /\ UNCHANGED <<stocked, txn>>

\* The program fills its tables.
Write(t) ==
  /\ ~Running /\ version = Newest /\ t \notin stocked
  /\ stocked' = stocked \cup {t}
  /\ UNCHANGED <<version, schema, origin, txn>>

MigNext ==
  \/ Upgrade \/ Downgrade \/ Revise \/ Commit \/ Fail \/ InitDb
  \/ \E t \in Tables : Write(t)

MigSpec == MigInit /\ [][MigNext]_migVars

-----------------------------------------------------------------------------
(* Properties.                                                             *)

\* Whatever commands ran, failed or were killed, a database that revisions made
\* has exactly the objects of the revision it is stamped with: a command is all
\* or nothing, and each downgrade that can run at all undoes its upgrade.
SchemaIsOfVersion == origin = "migrated" => schema = SchemaOf(version)

\* A migrated database serves today's models: every column they select is there,
\* and every column that may not be null is one they fill.
FitsModels ==
  origin = "migrated" /\ version = Newest =>
    /\ ModelObjects \subseteq schema
    /\ \A o \in schema :
         o[1] = "required" /\ o[2] \in DOMAIN Models => o[3] \in Models[o[2]]

UpgradeStuck == Running /\ txn.dir = "up" /\ txn.at # txn.to /\ ~Outcome.ok

\* The last revision whose upgrade does not apply any more (0856da4f1911).
LastBroken == CHOOSE v \in 1 .. Newest : Revisions[v] = Rev_0856da4f1911

\* From the revision after the last broken one on, an upgrade goes through,
\* whatever rows the database has.
RecentUpgradesApply == UpgradeStuck => txn.from < LastBroken

\* Whatever commands ran, the database is what its stamp says and what today's models
\* need, and can be upgraded from there on.
MigrationsHold == SchemaIsOfVersion /\ FitsModels /\ RecentUpgradesApply

\* What docs/starting.md says of upgrade_db.sh: the migrations can be run, at
\* least where no row is in the way.
MigrationsRun == UpgradeStuck => stocked # {}

\* What tools/init_db.py says of its stamp: the tables of the models are those of
\* the last revision, with their keys.
StampIsHead == version = Newest /\ ~Running => Keys \subseteq schema
====
