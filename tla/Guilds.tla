--------------------------------- MODULE Guilds ---------------------------------
(***************************************************************************)
(* Discord servers and what is registered in them: the bot keeps a row per *)
(* guild (bot/__main__.py), a user names the client it shows in a guild    *)
(* (routers/discord.py), users link and unlink their Discord accounts      *)
(* (usermanager.py, users.py), and the bot's commands show the client that *)
(* is registered (cogs/balance.py, lib/db/utils.py).  Discord itself is    *)
(* external.  Of the bot's handlers, on_guild_join and on_member_join      *)
(* always raise, and on_guild_leave is no event of the library.            *)
(***************************************************************************)
EXTENDS Naturals, FiniteSets

CONSTANTS
  GuildIds,
  GuildNames,
  DiscordIds,     \* Discord accounts
  Holders,        \* users of the API
  Portfolios,     \* clients
  NoOne,         \* no user, no client, no name
  Direct,         \* the place of a command outside of guilds
  MaxRenames      \* bound of renames

ASSUME GuildsAssumption ==
  /\ NoOne \notin Holders \cup Portfolios \cup GuildNames
  /\ Direct \notin GuildIds
  /\ MaxRenames \in Nat

VARIABLES
  title,        \* Discord's name of each guild
  joined,       \* the guilds the bot is in
  renames,      \* how often a guild was renamed
  renamed,      \* the rename events not handled yet
  bot,          \* "down", "reading" in on_ready, or "up"
  loaded,       \* the names on_ready has read
  rowName,        \* the name in each guild's row
  linkedTo,     \* the user each Discord account is linked to
  owner,        \* the user of each client, Nobody once it is deleted
  registered,   \* the client registered by each account in each guild
  patch,        \* what each user's update_guild does
  command,      \* what each account's command does
  touched,      \* history variable: a guild was renamed while on_ready has read
  raced         \* history variable: accounts unlinked while a request used them

guildVars == <<title, joined, renames, renamed, bot, loaded, rowName, linkedTo, owner,
               registered, patch, command, touched, raced>>

discord == <<title, joined, renames>>
botVars == <<renamed, bot, loaded, rowName, touched>>
people == <<linkedTo, owner, raced>>

Names == GuildNames \cup {NoOne}
NoPatch == [stage |-> "none", account |-> NoOne, guild |-> NoOne, client |-> NoOne]
NoCommand == [stage |-> "none", place |-> Direct, client |-> NoOne]

GuildTypeOK ==
  /\ title \in [GuildIds -> GuildNames]
  /\ joined \subseteq GuildIds
  /\ renames \in 0 .. MaxRenames
  /\ renamed \in SUBSET GuildNames
  /\ bot \in {"down", "reading", "up"}
  /\ loaded \in [GuildIds -> Names]
  /\ rowName \in [GuildIds -> Names]
  /\ linkedTo \in [DiscordIds -> Holders \cup {NoOne}]
  /\ owner \in [Portfolios -> Holders \cup {NoOne}]
  /\ registered \in [DiscordIds \X GuildIds -> Portfolios \cup {NoOne}]
  /\ patch \in [Holders -> {NoPatch} \cup [stage : {"asked", "checked"}, account : DiscordIds,
                                           guild : GuildIds, client : Portfolios]]
  /\ command \in [DiscordIds -> [stage : {"none", "found"},
                                 place : GuildIds \cup {Direct},
                                 client : Portfolios \cup {NoOne}]]
  /\ touched \in BOOLEAN
  /\ raced \subseteq DiscordIds

GuildInit ==
  /\ title \in [GuildIds -> GuildNames]
  /\ joined \in SUBSET GuildIds
  /\ renames = 0
  /\ renamed = {}
  /\ bot = "down"
  /\ loaded = [g \in GuildIds |-> NoOne]
  /\ rowName = [g \in GuildIds |-> NoOne]
  /\ linkedTo = [d \in DiscordIds |-> NoOne]
  /\ owner \in [Portfolios -> Holders]
  /\ registered = [dg \in DiscordIds \X GuildIds |-> NoOne]
  /\ patch = [u \in Holders |-> NoPatch]
  /\ command = [d \in DiscordIds |-> NoCommand]
  /\ touched = FALSE
  /\ raced = {}

-----------------------------------------------------------------------------
(* Discord and the bot's guilds.                                           *)

Rename(g, name) ==
  /\ renames < MaxRenames
  /\ name # title[g]
  /\ renames' = renames + 1
  /\ title' = [title EXCEPT ![g] = name]
  /\ renamed' = IF bot = "down" \/ g \notin joined THEN renamed ELSE renamed \cup {name}
  /\ touched' = (touched \/ bot = "reading")
  /\ UNCHANGED <<joined, bot, loaded, rowName, people, registered, patch, command>>

\* on_guild_join raises before it commits, nothing handles a leave.
JoinOrLeave(g) ==
  /\ joined' = (joined \ {g}) \cup ({g} \ joined)
  /\ UNCHANGED <<title, renames, botVars, people, registered, patch, command>>

Connect ==
  /\ bot = "down"
  /\ bot' = "reading"
  /\ loaded' = rowName
  /\ UNCHANGED <<discord, renamed, rowName, touched, people, registered, patch, command>>

\* A slip: only guilds without a row are written.
UpToDateBug(g) == IF g \in joined /\ loaded[g] = NoOne THEN title[g] ELSE rowName[g]

\* on_ready writes what differs from what it has read; its lookup of members by the
\* rows' ids finds nobody, so that it registers nobody.
UpToDate(g) == IF g \in joined /\ loaded[g] # title[g] THEN title[g] ELSE rowName[g]

Ready ==
  /\ bot = "reading"
  /\ bot' = "up"
  /\ rowName' = [g \in GuildIds |-> UpToDate(g)]
  /\ loaded' = [g \in GuildIds |-> NoOne]
  /\ touched' = FALSE
  /\ UNCHANGED <<discord, renamed, people, registered, patch, command>>

\* on_guild_update: an update without a condition.
HandleRename(name) ==
  /\ bot # "down"
  /\ renamed' = renamed \ {name}
  /\ rowName' = [g \in GuildIds |-> IF rowName[g] = NoOne THEN NoOne ELSE name]
  /\ UNCHANGED <<discord, bot, loaded, touched, people, registered, patch, command>>

Stop ==
  /\ bot # "down"
  /\ bot' = "down"
  /\ renamed' = {}
  /\ loaded' = [g \in GuildIds |-> NoOne]
  /\ touched' = FALSE
  /\ command' = [d \in DiscordIds |-> NoCommand]
  /\ UNCHANGED <<discord, rowName, people, registered, patch>>

-----------------------------------------------------------------------------
(* Users: an account belongs to one user, and its registrations are deleted *)
(* with it, as with the client.                                             *)

\* custom_oauth_callback: an account that is known is only updated.
LinkAccount(u, d) ==
  /\ linkedTo[d] = NoOne
  /\ linkedTo' = [linkedTo EXCEPT ![d] = u]
  /\ UNCHANGED <<discord, botVars, owner, registered, patch, command, raced>>

Using(d) == command[d] # NoCommand \/ \E u \in Holders : patch[u].account = d

\* A slip: the foreign key is left to the application.
WithoutAccountBug(d) == registered

\* ondelete CASCADE of guild_association.
WithoutAccount(d) ==
  [dg \in DiscordIds \X GuildIds |-> IF dg[1] = d THEN NoOne ELSE registered[dg]]

WithoutClient(k) ==
  [dg \in DiscordIds \X GuildIds |-> IF registered[dg] = k THEN NoOne ELSE registered[dg]]

\* disconnect_oauth_callback and delete_oauth_account.
UnlinkAccount(d) ==
  /\ linkedTo[d] # NoOne
  /\ linkedTo' = [linkedTo EXCEPT ![d] = NoOne]
  /\ registered' = WithoutAccount(d)
  /\ raced' = IF Using(d) THEN raced \cup {d} ELSE raced
  /\ UNCHANGED <<discord, botVars, owner, patch, command>>

DeletePortfolio(k) ==
  /\ owner[k] # NoOne
  /\ owner' = [owner EXCEPT ![k] = NoOne]
  /\ registered' = WithoutClient(k)
  /\ UNCHANGED <<discord, botVars, linkedTo, raced, patch, command>>

-----------------------------------------------------------------------------
(* update_guild, with a client: without one nothing is changed.            *)

\* Whether the bot answers: it is in the guild.  It sends nothing for a user who is not.
AskGuild(u, d, g, k) ==
  /\ patch[u] = NoPatch
  /\ linkedTo[d] = u
  /\ bot # "down" /\ g \in joined
  /\ patch' = [patch EXCEPT ![u] = [stage |-> "asked", account |-> d, guild |-> g, client |-> k]]
  /\ UNCHANGED <<discord, botVars, people, registered, command>>

\* get_user_client.
CheckPortfolio(u) ==
  /\ patch[u].stage = "asked"
  /\ patch' = [patch EXCEPT ![u] = IF owner[@.client] = u THEN [@ EXCEPT !.stage = "checked"]
                                   ELSE NoPatch]
  /\ UNCHANGED <<discord, botVars, people, registered, command>>

\* The upsert, and the foreign keys of its row.
Upsert(u) ==
  /\ patch[u].stage = "checked"
  /\ LET p == patch[u] IN
       registered' = IF linkedTo[p.account] # NoOne /\ owner[p.client] # NoOne
                        /\ rowName[p.guild] # NoOne
                     THEN [registered EXCEPT ![<<p.account, p.guild>>] = p.client]
                     ELSE registered
  /\ patch' = [patch EXCEPT ![u] = NoPatch]
  /\ UNCHANGED <<discord, botVars, people, command>>

\* The call ends with an error, or the user is no member.
RefusePatch(u) ==
  /\ patch[u] # NoPatch
  /\ patch' = [patch EXCEPT ![u] = NoPatch]
  /\ UNCHANGED <<discord, botVars, people, registered, command>>

-----------------------------------------------------------------------------
(* Commands.                                                               *)

Registrations(d) == {registered[<<d, g>>] : g \in GuildIds} \ {NoOne}
Registering(d) == {g \in GuildIds : registered[<<d, g>>] # NoOne}

\* get_guild_association and get_discord_client: the guild's, or the only one.
GuildClient(d, place) ==
  IF place # Direct THEN {registered[<<d, place>>]} \ {NoOne}
  ELSE IF Cardinality(Registering(d)) = 1 THEN Registrations(d) ELSE {}

Runs(d, place, clients) ==
  /\ bot # "down"
  /\ command[d].stage = "none"
  /\ place \in joined \cup {Direct}
  /\ \E k \in clients :
       command' = [command EXCEPT ![d] = [stage |-> "found", place |-> place, client |-> k]]
  /\ UNCHANGED <<discord, botVars, people, registered, patch>>

\* The guild's client, or all of the user's: gain shows the first that has one.
ClientsShown(d, place) ==
  IF place = Direct THEN Registrations(d) ELSE GuildClient(d, place)

Balance(d, place) == Runs(d, place, ClientsShown(d, place))
Gain(d, place) == Runs(d, place, ClientsShown(d, place))
Daily(d, place) == Runs(d, place, GuildClient(d, place))

\* The data is read after Discord was told to wait, and shown.
Show(d) ==
  /\ command[d] # NoCommand
  /\ command' = [command EXCEPT ![d] = NoCommand]
  /\ UNCHANGED <<discord, botVars, people, registered, patch>>

GuildNext ==
  \/ \E g \in GuildIds : JoinOrLeave(g)
  \/ \E g \in GuildIds, name \in GuildNames : Rename(g, name)
  \/ \E name \in renamed : HandleRename(name)
  \/ Connect \/ Ready \/ Stop
  \/ \E u \in Holders, d \in DiscordIds : LinkAccount(u, d)
  \/ \E d \in DiscordIds : UnlinkAccount(d)
  \/ \E k \in Portfolios : DeletePortfolio(k)
  \/ \E u \in Holders, d \in DiscordIds, g \in GuildIds, k \in Portfolios : AskGuild(u, d, g, k)
  \/ \E u \in Holders : CheckPortfolio(u) \/ Upsert(u) \/ RefusePatch(u)
  \/ \E d \in DiscordIds, place \in GuildIds \cup {Direct} :
       Balance(d, place) \/ Gain(d, place) \/ Daily(d, place)
  \/ \E d \in DiscordIds : Show(d)

GuildSpec == GuildInit /\ [][GuildNext]_guildVars

-----------------------------------------------------------------------------
\* What is registered for an account in a guild, and what a command of the account
\* has found to show, is a client of the user the account is linked to, however
\* accounts change hands and clients are deleted; unless the account was unlinked
\* while a request was under way, which goes by the account and not by its user
\* (update_guild, guildassociation.py, disconnect_oauth_callback).
ShownIsOwn ==
  \A d \in DiscordIds \ raced :
    /\ \A g \in GuildIds : registered[<<d, g>>] # NoOne =>
         linkedTo[d] # NoOne /\ owner[registered[<<d, g>>]] = linkedTo[d]
    /\ command[d] # NoCommand => owner[command[d].client] \in {linkedTo[d], NoOne}

\* Whatever happened while the bot was away, it knows the guilds it is in by their
\* names when it is ready, until one of them is renamed, which names all of them, or
\* until it joins one more (on_ready, on_guild_update).
NamesAreRight ==
  [][Ready /\ ~touched => \A g \in joined : rowName'[g] = title[g]]_guildVars

\* The bot shows to each account what is its own, in guilds that it knows.
GuildsAreRight == []ShownIsOwn /\ NamesAreRight
=============================================================================
