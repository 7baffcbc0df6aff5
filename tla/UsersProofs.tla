----------------------------- MODULE UsersProofs -----------------------------
(***************************************************************************)
(* Theorems about what users see and keep: guilds and accounts, the        *)
(* scoreboards of events, labels and journals, overviews, what listeners   *)
(* of the database hear, the live balance, and the intervals between       *)
(* balances.  Each has its own invariant.                                  *)
(***************************************************************************)
EXTENDS Guilds, Notes, Scoreboard, Overview, Channels, LiveBalance, Intervals,
        SummationProofs, FiniteSetTheorems, TLAPS

-----------------------------------------------------------------------------
(***************************************************************************)
(* The bot shows to an account what is its own and knows its guilds, for   *)
(* any number of guilds, accounts, users and clients, and of renames.      *)
(* OwnInv adds to ShownIsOwn what requests under way know: a request goes  *)
(* by an account that is still its user's, and, once checked, by a client  *)
(* that is the user's or deleted.  ReadInv says that nothing was renamed   *)
(* behind on_ready's back.                                                 *)
(***************************************************************************)

Patches == [stage : {"asked", "checked"}, account : DiscordIds, guild : GuildIds,
            client : Portfolios]
Commands == [stage : {"none", "found"}, place : GuildIds \cup {Direct},
             client : Portfolios \cup {NoOne}]

PeopleTypes ==
  /\ linkedTo \in [DiscordIds -> Holders \cup {NoOne}]
  /\ owner \in [Portfolios -> Holders \cup {NoOne}]
  /\ registered \in [DiscordIds \X GuildIds -> Portfolios \cup {NoOne}]
  /\ patch \in [Holders -> {NoPatch} \cup Patches]
  /\ command \in [DiscordIds -> Commands]
  /\ raced \subseteq DiscordIds

BotTypes ==
  /\ title \in [GuildIds -> GuildNames]
  /\ joined \subseteq GuildIds
  /\ renames \in 0 .. MaxRenames
  /\ renamed \in SUBSET GuildNames
  /\ bot \in {"down", "reading", "up"}
  /\ loaded \in [GuildIds -> Names]
  /\ rowName \in [GuildIds -> Names]
  /\ touched \in BOOLEAN

RegisteredOwn(d) ==
  \A g \in GuildIds : registered[<<d, g>>] # NoOne =>
    linkedTo[d] # NoOne /\ owner[registered[<<d, g>>]] = linkedTo[d]

FoundOwn(d) ==
  command[d] # NoCommand =>
    command[d].client \in Portfolios /\ owner[command[d].client] \in {linkedTo[d], NoOne}

PatchesOwn(d) ==
  \A u \in Holders : patch[u] # NoPatch /\ patch[u].account = d =>
    /\ linkedTo[d] = u
    /\ patch[u].stage = "checked" => owner[patch[u].client] \in {u, NoOne}

OwnInv ==
  /\ PeopleTypes
  /\ \A d \in DiscordIds \ raced : RegisteredOwn(d) /\ FoundOwn(d) /\ PatchesOwn(d)

ReadInv ==
  /\ BotTypes
  /\ bot = "down" => renamed = {} /\ ~touched
  /\ bot = "reading" /\ ~touched => renamed = {} /\ loaded = rowName

\* What the bot, commands, users and requests each leave alone.
peopleVars == <<linkedTo, owner, registered, patch, command, raced>>
nameVars == <<title, joined, renames, renamed, bot, loaded, rowName, touched>>

BotStep ==
  \/ \E g \in GuildIds : JoinOrLeave(g)
  \/ \E g \in GuildIds, name \in GuildNames : Rename(g, name)
  \/ \E name \in renamed : HandleRename(name)
  \/ Connect \/ Ready \/ Stop

CommandStep(d) ==
  \/ \E place \in GuildIds \cup {Direct} :
       Balance(d, place) \/ Gain(d, place) \/ Daily(d, place)
  \/ Show(d)

-----------------------------------------------------------------------------
LEMMA OwnInit == GuildInit => OwnInv
  BY GuildsAssumption
  DEF GuildInit, OwnInv, PeopleTypes, RegisteredOwn, FoundOwn, PatchesOwn, NoPatch,
      NoCommand, Commands

LEMMA LinkStep ==
  ASSUME OwnInv, NEW u \in Holders, NEW d \in DiscordIds, LinkAccount(u, d)
  PROVE  OwnInv'
<1> USE DEF OwnInv, PeopleTypes
<1>1. /\ linkedTo[d] = NoOne /\ linkedTo' = [linkedTo EXCEPT ![d] = u]
      /\ UNCHANGED <<owner, registered, patch, command, raced>>
  BY DEF LinkAccount, botVars, discord
<1>2. PeopleTypes'
  BY <1>1
<1>3. ASSUME NEW e \in DiscordIds \ raced
      PROVE  RegisteredOwn(e)' /\ FoundOwn(e)' /\ PatchesOwn(e)'
  <2>1. RegisteredOwn(e) /\ FoundOwn(e) /\ PatchesOwn(e)
    OBVIOUS
  <2>2. CASE e # d
    BY <1>1, <2>1, <2>2 DEF RegisteredOwn, FoundOwn, PatchesOwn
  <2>3. CASE e = d
    <3>1. RegisteredOwn(e)' /\ FoundOwn(e)'
      BY <1>1, <2>1, <2>3 DEF RegisteredOwn, FoundOwn
    <3>2. PatchesOwn(e)'
      BY <1>1, <2>1, <2>3, GuildsAssumption DEF PatchesOwn
    <3> QED BY <3>1, <3>2
  <2> QED BY <2>2, <2>3
<1> QED BY <1>1, <1>2, <1>3

\* An account that nobody uses leaves nothing behind; any other is raced from now on.
LEMMA UnlinkStep ==
  ASSUME OwnInv, NEW d \in DiscordIds, UnlinkAccount(d)
  PROVE  OwnInv'
<1> USE DEF OwnInv, PeopleTypes
<1>1. /\ linkedTo' = [linkedTo EXCEPT ![d] = NoOne]
      /\ registered' = WithoutAccount(d)
      /\ raced' = IF Using(d) THEN raced \cup {d} ELSE raced
      /\ UNCHANGED <<owner, patch, command>>
  BY DEF UnlinkAccount, botVars, discord
<1>2. \A e \in DiscordIds, g \in GuildIds :
        registered'[<<e, g>>] = IF e = d THEN NoOne ELSE registered[<<e, g>>]
  BY <1>1 DEF WithoutAccount
<1>3. PeopleTypes'
  BY <1>1 DEF WithoutAccount
<1>4. ASSUME NEW e \in DiscordIds \ raced'
      PROVE  RegisteredOwn(e)' /\ FoundOwn(e)' /\ PatchesOwn(e)'
  <2>1. e \notin raced /\ RegisteredOwn(e) /\ FoundOwn(e) /\ PatchesOwn(e)
    BY <1>1
  <2>2. CASE e # d
    <3>1. linkedTo'[e] = linkedTo[e]
      BY <1>1, <2>2
    <3> QED BY <1>1, <1>2, <2>1, <2>2, <3>1 DEF RegisteredOwn, FoundOwn, PatchesOwn
  <2>3. CASE e = d
    <3>1. ~Using(d)
      BY <1>1, <2>3
    <3>2. command[d] = NoCommand /\ \A u \in Holders : patch[u].account # d
      BY <3>1 DEF Using
    <3> QED BY <1>1, <1>2, <2>3, <3>2 DEF RegisteredOwn, FoundOwn, PatchesOwn
  <2> QED BY <2>2, <2>3
<1> QED BY <1>3, <1>4

LEMMA DeleteStep ==
  ASSUME OwnInv, NEW k \in Portfolios, DeletePortfolio(k)
  PROVE  OwnInv'
<1> USE DEF OwnInv, PeopleTypes
<1>1. /\ owner' = [owner EXCEPT ![k] = NoOne]
      /\ registered' = WithoutClient(k)
      /\ UNCHANGED <<linkedTo, raced, patch, command>>
  BY DEF DeletePortfolio, botVars, discord
<1>2. \A e \in DiscordIds, g \in GuildIds :
        registered'[<<e, g>>] = IF registered[<<e, g>>] = k THEN NoOne ELSE registered[<<e, g>>]
  BY <1>1 DEF WithoutClient
<1>3. PeopleTypes'
  BY <1>1 DEF WithoutClient
<1>4. ASSUME NEW e \in DiscordIds \ raced
      PROVE  RegisteredOwn(e)' /\ FoundOwn(e)' /\ PatchesOwn(e)'
  <2>1. RegisteredOwn(e)'
    BY <1>1, <1>2 DEF RegisteredOwn
  <2>2. FoundOwn(e)'
    BY <1>1 DEF FoundOwn
  <2>3. PatchesOwn(e)'
    BY <1>1 DEF PatchesOwn, Patches
  <2> QED BY <2>1, <2>2, <2>3
<1> QED BY <1>1, <1>3, <1>4

-----------------------------------------------------------------------------
LEMMA AskStep ==
  ASSUME OwnInv, NEW u \in Holders, NEW d \in DiscordIds, NEW g \in GuildIds,
         NEW k \in Portfolios, AskGuild(u, d, g, k)
  PROVE  OwnInv'
<1> USE DEF OwnInv, PeopleTypes
<1> DEFINE p == [stage |-> "asked", account |-> d, guild |-> g, client |-> k]
<1>1. /\ linkedTo[d] = u /\ patch' = [patch EXCEPT ![u] = p]
      /\ UNCHANGED <<linkedTo, owner, registered, command, raced>>
  BY DEF AskGuild, botVars, discord, people
<1>2. p \in Patches /\ p.stage # "checked" /\ p.account = d
  BY DEF Patches
<1> HIDE DEF p
<1>3. PeopleTypes'
  BY <1>1, <1>2
<1>4. \A e \in DiscordIds \ raced : RegisteredOwn(e)' /\ FoundOwn(e)'
  BY <1>1 DEF RegisteredOwn, FoundOwn
<1>5. \A e \in DiscordIds \ raced : PatchesOwn(e)'
  BY <1>1, <1>2 DEF PatchesOwn
<1> QED BY <1>1, <1>3, <1>4, <1>5

LEMMA CheckStep ==
  ASSUME OwnInv, NEW u \in Holders, CheckPortfolio(u)
  PROVE  OwnInv'
<1> USE DEF OwnInv, PeopleTypes
<1>1. /\ patch[u].stage = "asked"
      /\ patch' = [patch EXCEPT ![u] = IF owner[patch[u].client] = u
                                       THEN [patch[u] EXCEPT !.stage = "checked"] ELSE NoPatch]
      /\ UNCHANGED <<linkedTo, owner, registered, command, raced>>
  BY DEF CheckPortfolio, botVars, discord, people
<1>2. patch[u] \in Patches /\ patch[u] # NoPatch
  BY <1>1 DEF NoPatch
<1> DEFINE q == [patch[u] EXCEPT !.stage = "checked"]
<1>3. q \in Patches /\ q.account = patch[u].account /\ q.client = patch[u].client
  BY <1>2 DEF Patches
<1>4. patch' = [patch EXCEPT ![u] = IF owner[patch[u].client] = u THEN q ELSE NoPatch]
  BY <1>1
<1> HIDE DEF q
<1>5. PeopleTypes'
  BY <1>1, <1>3, <1>4
<1>6. \A e \in DiscordIds \ raced : RegisteredOwn(e)' /\ FoundOwn(e)'
  BY <1>1 DEF RegisteredOwn, FoundOwn
<1>7. ASSUME NEW e \in DiscordIds \ raced PROVE PatchesOwn(e)'
  <2>1. PatchesOwn(e)
    OBVIOUS
  <2>2. ASSUME NEW v \in Holders, patch'[v] # NoPatch, patch'[v].account = e
        PROVE  /\ linkedTo'[e] = v
               /\ patch'[v].stage = "checked" => owner'[patch'[v].client] \in {v, NoOne}
    <3>1. CASE v # u
      BY <1>1, <1>4, <2>1, <2>2, <3>1 DEF PatchesOwn
    <3>2. CASE v = u
      <4>1. owner[patch[u].client] = u /\ patch'[u] = q
        BY <1>4, <2>2, <3>2
      <4> QED BY <1>1, <1>2, <1>3, <2>1, <2>2, <3>2, <4>1 DEF PatchesOwn
    <3> QED BY <3>1, <3>2
  <2> QED BY <2>2 DEF PatchesOwn
<1> QED BY <1>1, <1>5, <1>6, <1>7

LEMMA UpsertStep ==
  ASSUME OwnInv, NEW u \in Holders, Upsert(u) \/ RefusePatch(u)
  PROVE  OwnInv'
<1> USE DEF OwnInv, PeopleTypes
<1> DEFINE p == patch[u]
<1>1. /\ patch' = [patch EXCEPT ![u] = NoPatch]
      /\ UNCHANGED <<linkedTo, owner, command, raced>>
  BY DEF Upsert, RefusePatch, botVars, discord, people
<1>2. \/ registered' = registered
      \/ /\ p.stage = "checked" /\ linkedTo[p.account] # NoOne /\ owner[p.client] # NoOne
         /\ registered' = [registered EXCEPT ![<<p.account, p.guild>>] = p.client]
  BY DEF Upsert, RefusePatch
<1>3. p.stage = "checked" => p \in Patches /\ p # NoPatch
  BY DEF NoPatch
<1>4. PeopleTypes'
  BY <1>1, <1>2, <1>3 DEF Patches
<1>5. ASSUME NEW e \in DiscordIds \ raced PROVE RegisteredOwn(e)'
  <2>1. RegisteredOwn(e) /\ PatchesOwn(e)
    OBVIOUS
  <2>2. CASE registered' = registered
    BY <1>1, <2>1, <2>2 DEF RegisteredOwn
  <2>3. CASE registered' # registered
    <3>1. /\ p.stage = "checked" /\ linkedTo[p.account] # NoOne /\ owner[p.client] # NoOne
          /\ registered' = [registered EXCEPT ![<<p.account, p.guild>>] = p.client]
          /\ p \in Patches /\ p # NoPatch
      BY <1>2, <1>3, <2>3
    <3>2. p.account \in DiscordIds /\ p.guild \in GuildIds /\ p.client \in Portfolios
      BY <3>1 DEF Patches
    <3>3. p.account = e => owner[p.client] = linkedTo[e]
      BY <2>1, <3>1 DEF PatchesOwn
    <3>4. ASSUME NEW g \in GuildIds
          PROVE registered'[<<e, g>>] = IF p.account = e /\ p.guild = g THEN p.client
                                        ELSE registered[<<e, g>>]
      BY <3>1, <3>2
    <3> QED BY <1>1, <2>1, <3>1, <3>3, <3>4 DEF RegisteredOwn
  <2> QED BY <2>2, <2>3
<1>6. \A e \in DiscordIds \ raced : FoundOwn(e)' /\ PatchesOwn(e)'
  BY <1>1 DEF FoundOwn, PatchesOwn
<1> QED BY <1>1, <1>4, <1>5, <1>6

-----------------------------------------------------------------------------
LEMMA CommandSteps ==
  ASSUME OwnInv, NEW d \in DiscordIds, CommandStep(d)
  PROVE  OwnInv'
<1> USE DEF OwnInv, PeopleTypes
<1>1. UNCHANGED <<linkedTo, owner, registered, patch, raced>>
  BY DEF CommandStep, Balance, Gain, Daily, Runs, Show, discord, botVars, people
<1>2. \/ command' = [command EXCEPT ![d] = NoCommand]
      \/ \E place \in GuildIds \cup {Direct}, g \in GuildIds :
           /\ registered[<<d, g>>] # NoOne
           /\ command' = [command EXCEPT ![d] =
                [stage |-> "found", place |-> place, client |-> registered[<<d, g>>]]]
  <2>1. CASE Show(d)
    BY <2>1 DEF Show
  <2>2. ASSUME NEW place \in GuildIds \cup {Direct},
               Balance(d, place) \/ Gain(d, place) \/ Daily(d, place)
        PROVE  \E g \in GuildIds :
                 /\ registered[<<d, g>>] # NoOne
                 /\ command' = [command EXCEPT ![d] =
                      [stage |-> "found", place |-> place, client |-> registered[<<d, g>>]]]
    <3>1. PICK k \in ClientsShown(d, place) \cup GuildClient(d, place) :
            command' = [command EXCEPT ![d] = [stage |-> "found", place |-> place, client |-> k]]
      BY <2>2 DEF Balance, Gain, Daily, Runs
    <3>2. \E g \in GuildIds : k = registered[<<d, g>>] /\ k # NoOne
      BY <3>1 DEF ClientsShown, GuildClient, Registrations
    <3> QED BY <3>1, <3>2
  <2> QED BY <2>1, <2>2 DEF CommandStep
<1>3. PeopleTypes'
  <2>1. NoCommand \in Commands
    BY DEF Commands, NoCommand
  <2>2. \A place \in GuildIds \cup {Direct}, g \in GuildIds :
          [stage |-> "found", place |-> place, client |-> registered[<<d, g>>]] \in Commands
    BY DEF Commands
  <2>3. command' \in [DiscordIds -> Commands]
    <3>1. command \in [DiscordIds -> Commands]
      OBVIOUS
    <3>2. PICK k \in Commands : command' = [command EXCEPT ![d] = k]
      BY <1>2, <2>1, <2>2
    <3> HIDE DEF OwnInv, PeopleTypes
    <3> QED BY <3>1, <3>2
  <2> QED BY <1>1, <2>3
<1>4. \A e \in DiscordIds \ raced : RegisteredOwn(e)' /\ PatchesOwn(e)'
  BY <1>1 DEF RegisteredOwn, PatchesOwn
<1>5. ASSUME NEW e \in DiscordIds \ raced PROVE FoundOwn(e)'
  <2>1. RegisteredOwn(e) /\ FoundOwn(e)
    OBVIOUS
  <2>2. CASE e # d \/ command'[d] = NoCommand
    BY <1>1, <1>2, <2>1, <2>2 DEF FoundOwn
  <2>3. CASE e = d /\ command'[d] # NoCommand
    <3>1. command' # [command EXCEPT ![d] = NoCommand]
      BY <2>3
    <3>2. PICK place \in GuildIds \cup {Direct}, h \in GuildIds :
            /\ registered[<<d, h>>] # NoOne
            /\ command' = [command EXCEPT ![d] =
                 [stage |-> "found", place |-> place, client |-> registered[<<d, h>>]]]
      BY <1>2, <3>1
    <3>3. PICK g \in GuildIds : /\ registered[<<d, g>>] # NoOne
                                /\ command'[d].client = registered[<<d, g>>]
      BY <3>2
    <3> QED BY <1>1, <2>1, <2>3, <3>3 DEF FoundOwn, RegisteredOwn
  <2> QED BY <2>2, <2>3
<1> QED BY <1>1, <1>3, <1>4, <1>5

LEMMA BotSteps ==
  ASSUME OwnInv, BotStep \/ UNCHANGED guildVars
  PROVE  OwnInv'
<1> USE DEF OwnInv, PeopleTypes
<1>1. /\ UNCHANGED <<linkedTo, owner, registered, patch, raced>>
      /\ command' = command \/ command' = [d \in DiscordIds |-> NoCommand]
  BY DEF BotStep, JoinOrLeave, Rename, HandleRename, Connect, Ready, Stop, discord, botVars,
         people, guildVars
<1>2. PeopleTypes'
  BY <1>1 DEF Commands, NoCommand
<1>3. \A e \in DiscordIds \ raced : RegisteredOwn(e)' /\ PatchesOwn(e)'
  BY <1>1 DEF RegisteredOwn, PatchesOwn
<1>4. \A e \in DiscordIds \ raced : FoundOwn(e)'
  BY <1>1 DEF FoundOwn
<1> QED BY <1>1, <1>2, <1>3, <1>4

LEMMA OwnStep == OwnInv /\ [GuildNext]_guildVars => OwnInv'
  BY LinkStep, UnlinkStep, DeleteStep, AskStep, CheckStep, UpsertStep, CommandSteps, BotSteps
  DEF GuildNext, CommandStep, BotStep

-----------------------------------------------------------------------------
(* The names of the guilds.                                                *)

LEMMA ReadInit == GuildInit => ReadInv
<1> SUFFICES ASSUME GuildInit PROVE ReadInv
  OBVIOUS
<1>1. renames \in 0 .. MaxRenames
  BY GuildsAssumption DEF GuildInit
<1>2. BotTypes
  BY <1>1 DEF GuildInit, BotTypes, Names
<1> QED BY <1>2 DEF GuildInit, ReadInv

LEMMA ReadStep == ReadInv /\ [GuildNext]_guildVars => ReadInv'
<1> SUFFICES ASSUME ReadInv, [GuildNext]_guildVars PROVE ReadInv'
  OBVIOUS
<1> USE DEF ReadInv, BotTypes
<1>1. ASSUME NEW g \in GuildIds, JoinOrLeave(g) PROVE ReadInv'
  BY <1>1 DEF JoinOrLeave, botVars
<1>2. ASSUME NEW g \in GuildIds, NEW name \in GuildNames, Rename(g, name) PROVE ReadInv'
  <2>1. /\ renames < MaxRenames /\ renames' = renames + 1
        /\ title' = [title EXCEPT ![g] = name]
        /\ UNCHANGED <<joined, bot, loaded, rowName>>
    BY <1>2 DEF Rename
  <2>2. renamed' \in SUBSET GuildNames /\ (bot = "down" => renamed' = renamed)
    BY <1>2 DEF Rename
  <2>3. touched' \in BOOLEAN
    BY <1>2, Zenon DEF Rename
  <2>4. (bot = "down" => touched' = touched) /\ (bot = "reading" => touched')
    BY <1>2, Zenon DEF Rename
  <2>5. renames' \in 0 .. MaxRenames
    BY <2>1, GuildsAssumption
  <2>6. BotTypes'
    BY <2>1, <2>2, <2>3, <2>5
  <2> QED BY <2>1, <2>2, <2>4, <2>6
<1>3. ASSUME NEW name \in renamed, HandleRename(name) PROVE ReadInv'
  BY <1>3 DEF HandleRename, discord, Names
<1>4. ASSUME Connect PROVE ReadInv'
  BY <1>4 DEF Connect, discord
<1>5. ASSUME Ready PROVE ReadInv'
  BY <1>5 DEF Ready, UpToDate, discord, Names
<1>6. ASSUME Stop PROVE ReadInv'
  BY <1>6 DEF Stop, discord, Names
<1>7. ASSUME UNCHANGED nameVars PROVE ReadInv'
  BY <1>7 DEF nameVars
<1>8. CASE BotStep
  BY <1>1, <1>2, <1>3, <1>4, <1>5, <1>6, <1>8 DEF BotStep
<1>9. CASE ~BotStep
  <2>1. UNCHANGED nameVars
    BY <1>9 DEF GuildNext, BotStep, nameVars, guildVars, LinkAccount, UnlinkAccount,
                DeletePortfolio, AskGuild, CheckPortfolio, Upsert, RefusePatch, Balance, Gain,
                Daily, Runs, Show, discord, botVars
  <2> QED BY <2>1, <1>7
<1> QED BY <1>8, <1>9

-----------------------------------------------------------------------------
\* Nothing leaves its type, whatever the guilds, the users and the requests do.
THEOREM GuildsTyped == GuildSpec => []GuildTypeOK
<1>1. OwnInv /\ ReadInv => GuildTypeOK
  BY DEF OwnInv, ReadInv, PeopleTypes, BotTypes, GuildTypeOK, Patches, Commands
<1> QED BY OwnInit, OwnStep, ReadInit, ReadStep, <1>1, PTL DEF GuildSpec

\* Accounts are shown what is their own, and the bot knows its guilds when it is ready
\* (update_guild, disconnect_oauth_callback, on_ready), for every number of accounts,
\* guilds, users and clients.
THEOREM BotIsRight == GuildSpec => GuildsAreRight
<1>1. OwnInv => ShownIsOwn
  BY DEF OwnInv, RegisteredOwn, FoundOwn, ShownIsOwn
<1>2. ReadInv /\ [GuildNext]_guildVars =>
        [Ready /\ ~touched => \A g \in joined : rowName'[g] = title[g]]_guildVars
  BY DEF ReadInv, BotTypes, Ready, UpToDate
<1> QED BY OwnInit, OwnStep, ReadInit, ReadStep, <1>1, <1>2, PTL
        DEF GuildSpec, GuildsAreRight, NamesAreRight

-----------------------------------------------------------------------------
(***************************************************************************)
(* Theorem about Scoreboard, for any clients, entries, balances, sessions  *)
(* and time.  ScoreInv adds to what is shown what the sessions know: a row *)
(* that is loaded may be behind the entry, but it is of the same client,   *)
(* and joined when the entry did, and where it has a balance that it is    *)
(* measured from, the entry has one too.  So a session that writes one had *)
(* none, and wrote what it found at that time (FlushedEntry).              *)
(***************************************************************************)

\* What a rank is, by its recursion.
IsRank(r, list, valid, n) ==
  r = [k \in 1 .. n |-> IF k = 1 THEN 1
                        ELSE IF valid[list[k]] < valid[list[k - 1]] THEN k ELSE r[k - 1]]

LEMMA RankExists ==
  ASSUME NEW list, NEW valid, NEW n \in Nat
  PROVE  \E r : IsRank(r, list, valid, n)
<1> DEFINE A == {k \in Nat : ~\E r : IsRank(r, list, valid, k)}
<1>1. ASSUME NEW k \in A PROVE k # 0 /\ k - 1 \in A
  <2>1. k # 0
    <3> SUFFICES ASSUME k = 0 PROVE FALSE
      OBVIOUS
    <3> DEFINE r == [i \in 1 .. 0 |-> 0]
    <3>1. IsRank(r, list, valid, 0)
      BY DEF IsRank
    <3> QED BY <3>1
  <2>2. ASSUME k - 1 \notin A PROVE FALSE
    <3>1. k - 1 \in Nat
      BY <2>1
    <3>2. PICK r : IsRank(r, list, valid, k - 1)
      BY <2>2, <3>1
    <3> DEFINE s == [i \in 1 .. k |->
                       IF i = k THEN IF k = 1 THEN 1
                                     ELSE IF valid[list[k]] < valid[list[k - 1]] THEN k
                                     ELSE r[k - 1]
                       ELSE r[i]]
    <3>3. \A i \in 1 .. k - 1 :
             r[i] = IF i = 1 THEN 1 ELSE IF valid[list[i]] < valid[list[i - 1]] THEN i ELSE r[i - 1]
      BY <3>2 DEF IsRank
    <3>4. \A i \in 1 .. k :
             s[i] = IF i = 1 THEN 1 ELSE IF valid[list[i]] < valid[list[i - 1]] THEN i ELSE s[i - 1]
      BY <2>1, <3>3
    <3>5. IsRank(s, list, valid, k)
      BY <3>4 DEF IsRank
    <3> QED BY <3>5
  <2> QED BY <2>1, <2>2
<1> HIDE DEF A
<1>2. A \in SUBSET Nat
  BY DEF A
<1>3. A = {}
  BY <1>1, <1>2, Descent
<1> QED BY <1>3 DEF A

LEMMA RankIs ==
  ASSUME NEW list, NEW valid, Len(list) \in Nat, NEW n \in 1 .. Len(list)
  PROVE  Ranks(list, valid)[n] =
           IF n = 1 THEN 1
           ELSE IF valid[list[n]] < valid[list[n - 1]] THEN n ELSE Ranks(list, valid)[n - 1]
<1>1. PICK r : IsRank(r, list, valid, Len(list))
  BY RankExists
<1>2. IsRank(Ranks(list, valid), list, valid, Len(list))
  BY <1>1 DEF Ranks, IsRank
<1> QED BY <1>2 DEF IsRank

\* A rank is the first place of those with the same gain.
LEMMA RankIsFirst ==
  ASSUME NEW list, NEW valid, Len(list) \in Nat,
         \A m \in 1 .. Len(list) : valid[list[m]] \in Int,
         \A m, k \in 1 .. Len(list) : m < k => valid[list[m]] >= valid[list[k]],
         NEW n \in 1 .. Len(list)
  PROVE  LET r == Ranks(list, valid)[n]
         IN  /\ r \in 1 .. n
             /\ \A m \in r .. n : valid[list[m]] = valid[list[n]]
             /\ \A m \in 1 .. r - 1 : valid[list[m]] > valid[list[n]]
<1> DEFINE First(r, k) == /\ r \in 1 .. k
                          /\ \A m \in r .. k : valid[list[m]] = valid[list[k]]
                          /\ \A m \in 1 .. r - 1 : valid[list[m]] > valid[list[k]]
           A == {k \in 1 .. Len(list) : ~First(Ranks(list, valid)[k], k)}
<1>1. ASSUME NEW k \in A PROVE k # 0 /\ k - 1 \in A
  <2>1. PICK q, r : q = Ranks(list, valid)[k] /\ r = Ranks(list, valid)[k - 1]
    OBVIOUS
  <2>2. k \in 1 .. Len(list) /\ ~First(q, k)
    BY <2>1
  <2>3. q = IF k = 1 THEN 1 ELSE IF valid[list[k]] < valid[list[k - 1]] THEN k ELSE r
    BY <2>1, <2>2, RankIs
  <2>4. k # 1
    <3> SUFFICES ASSUME k = 1 PROVE FALSE
      OBVIOUS
    <3> QED BY <2>2, <2>3
  <2>5. k - 1 \in 1 .. Len(list) /\ k - 1 < k /\ valid[list[k - 1]] >= valid[list[k]]
    BY <2>2, <2>4
  <2>6. \A m \in 1 .. k - 1 : valid[list[m]] >= valid[list[k - 1]]
    BY <2>2, <2>5
  <2>7. ~ (valid[list[k]] < valid[list[k - 1]])
    <3> SUFFICES ASSUME valid[list[k]] < valid[list[k - 1]] PROVE FALSE
      OBVIOUS
    <3>1. q = k
      BY <2>3, <2>4
    <3>2. \A m \in 1 .. k - 1 : valid[list[m]] > valid[list[k]]
      BY <2>2, <2>5, <2>6
    <3>3. \A m \in k .. k : m = k
      BY <2>2
    <3> QED BY <2>2, <3>1, <3>2, <3>3
  <2>8. q = r /\ valid[list[k]] = valid[list[k - 1]]
    BY <2>2, <2>3, <2>4, <2>5, <2>7
  <2>9. ~First(r, k - 1)
    <3> SUFFICES ASSUME First(r, k - 1) PROVE FALSE
      OBVIOUS
    <3>1. r \in 1 .. k /\ \A m \in 1 .. r - 1 : valid[list[m]] > valid[list[k]]
      BY <2>2, <2>8
    <3>2. \A m \in r .. k : m = k \/ m \in r .. k - 1
      BY <2>2, <3>1
    <3>3. \A m \in r .. k : valid[list[m]] = valid[list[k]]
      BY <2>8, <3>2
    <3> QED BY <2>2, <2>8, <3>1, <3>3
  <2> QED BY <2>1, <2>2, <2>5, <2>9
<1> HIDE DEF A
<1>2. A \in SUBSET Nat
  BY DEF A
<1>3. A = {}
  BY <1>1, <1>2, Descent
<1> QED BY <1>3 DEF A

\* The rank of an entry is one more than the number of those that gained more.
LEMMA RankCounts ==
  ASSUME NEW valid, IsFiniteSet(DOMAIN valid), \A e \in DOMAIN valid : valid[e] \in Int,
         NEW list \in Sorted(valid), NEW e \in DOMAIN valid
  PROVE  Ranks(list, valid)[CHOOSE n \in DOMAIN list : list[n] = e]
           = 1 + Cardinality({f \in DOMAIN valid : valid[f] > valid[e]})
<1> DEFINE D == DOMAIN valid
<1>1. PICK n : n = Cardinality(D)
  OBVIOUS
<1>2. n \in Nat
  BY <1>1, FS_CardinalityType
<1>3. /\ list \in [1 .. n -> D] /\ DOMAIN list = 1 .. n
      /\ \A m, k \in 1 .. n : m < k => list[m] # list[k]
      /\ \A m, k \in 1 .. n : m < k => valid[list[m]] >= valid[list[k]]
  BY <1>1 DEF Sorted
<1>4. Len(list) = n
  <2>1. list \in Seq(D)
    BY <1>2, <1>3
  <2> QED BY <1>2, <1>3, <2>1
<1>5. list \in Injection(1 .. n, D)
  <2>1. ASSUME NEW a \in 1 .. n, NEW b \in 1 .. n, list[a] = list[b] PROVE a = b
    <3>1. a < b \/ b < a \/ a = b
      BY <1>2
    <3> QED BY <1>3, <2>1, <3>1
  <2> QED BY <1>3, <2>1 DEF Injection, IsInjective
<1>6. IsFiniteSet(1 .. n) /\ Cardinality(1 .. n) = n
  BY <1>2, FS_Interval
<1>7. list \in Surjection(1 .. n, D)
  BY <1>1, <1>5, <1>6, FS_Injection
<1>8. PICK i \in 1 .. n : list[i] = e
  BY <1>7 DEF Surjection
<1>9. (CHOOSE k \in DOMAIN list : list[k] = e) = i
  <2>1. \A k \in 1 .. n : list[k] = e => k = i
    BY <1>5, <1>8 DEF Injection, IsInjective
  <2> QED BY <1>3, <1>8, <2>1
<1>10. PICK r : r = Ranks(list, valid)[i]
  OBVIOUS
<1>11. /\ r \in 1 .. i
       /\ \A m \in r .. i : valid[list[m]] = valid[e]
       /\ \A m \in 1 .. r - 1 : valid[list[m]] > valid[e]
  <2>1. \A m \in 1 .. n : valid[list[m]] \in Int
    BY <1>3
  <2>2. LET q == Ranks(list, valid)[i]
        IN  /\ q \in 1 .. i
            /\ \A m \in q .. i : valid[list[m]] = valid[list[i]]
            /\ \A m \in 1 .. q - 1 : valid[list[m]] > valid[list[i]]
    BY <1>2, <1>3, <1>4, <2>1, RankIsFirst
  <2> QED BY <1>8, <1>10, <2>2
<1> DEFINE More == {f \in D : valid[f] > valid[e]}
<1>12. \A m \in 1 .. n : valid[list[m]] > valid[e] => m \in 1 .. r - 1
  <2> SUFFICES ASSUME NEW m \in 1 .. n, m \notin 1 .. r - 1, valid[list[m]] > valid[e]
               PROVE  FALSE
    OBVIOUS
  <2>1. m >= r /\ (m \in r .. i \/ m > i)
    BY <1>2, <1>11
  <2>2. CASE m \in r .. i
    BY <1>3, <1>11, <2>2
  <2>3. CASE m > i
    <3>1. valid[list[i]] >= valid[list[m]]
      BY <1>3, <2>3
    <3> QED BY <1>3, <1>8, <3>1
  <2> QED BY <2>1, <2>2, <2>3
<1>13. Cardinality(More) = r - 1
  <2> DEFINE g == [m \in 1 .. r - 1 |-> list[m]]
  <2>1. r - 1 \in Nat /\ \A m \in 1 .. r - 1 : m \in 1 .. n
    BY <1>2, <1>11
  <2>2. g \in [1 .. r - 1 -> More]
    BY <1>3, <1>11, <2>1
  <2>3. \A a, b \in 1 .. r - 1 : g[a] = g[b] => a = b
    BY <1>5, <2>1 DEF Injection, IsInjective
  <2>4. \A f \in More : \E m \in 1 .. r - 1 : g[m] = f
    <3> SUFFICES ASSUME NEW f \in More PROVE \E m \in 1 .. r - 1 : g[m] = f
      OBVIOUS
    <3>1. PICK m \in 1 .. n : list[m] = f
      BY <1>7 DEF Surjection
    <3> QED BY <1>12, <3>1
  <2>5. g \in Bijection(1 .. r - 1, More)
    BY <2>2, <2>3, <2>4 DEF Bijection, Injection, Surjection, IsInjective
  <2>6. IsFiniteSet(1 .. r - 1) /\ Cardinality(1 .. r - 1) = r - 1
    BY <2>1, FS_Interval
  <2> QED BY <2>5, <2>6, FS_Bijection DEF ExistsBijection
<1>14. PICK c : c = Cardinality(More)
  OBVIOUS
<1>15. r = 1 + c
  BY <1>2, <1>11, <1>13, <1>14
<1> QED BY <1>9, <1>10, <1>14, <1>15, Zenon

-----------------------------------------------------------------------------
\* Numbers have a least one.
LEMMA LeastNumber ==
  ASSUME NEW A \in SUBSET Nat, A # {}
  PROVE  \E x \in A : \A y \in A : x <= y
<1> DEFINE R == OpToRel(<, Nat)
<1>1. IsWellFoundedOn(R, Nat)
  BY NatLessThanWellFounded
<1>2. \E x \in A : \A y \in A : ~ (<<y, x>> \in R)
  <2> HIDE DEF R
  <2> QED BY <1>1, WFMin
<1>3. PICK x \in A : \A y \in A : <<y, x>> \notin R
  BY <1>2
<1>4. ASSUME NEW y \in A PROVE x <= y
  <2>1. ~ (y < x)
    BY <1>3 DEF OpToRel
  <2> QED BY <2>1
<1> QED BY <1>4

\* Balances have a newest and an oldest.
LEMMA NewestIs ==
  ASSUME NEW rs \in SUBSET Balances, rs # {}
  PROVE  NewestOf(rs) \in rs
<1> DEFINE A == {LastTime - r.time : r \in rs}
<1>1. \A r \in rs : r.time \in Nat /\ r.time <= LastTime /\ LastTime - r.time \in Nat
  BY ScoreboardAssumption DEF Balances, Times
<1>2. A \in SUBSET Nat /\ A # {}
  BY <1>1
<1>3. PICK x \in A : \A y \in A : x <= y
  BY <1>2, LeastNumber
<1>4. PICK r \in rs : x = LastTime - r.time
  OBVIOUS
<1>5. ASSUME NEW q \in rs PROVE q.time <= r.time
  <2>1. LastTime - q.time \in A
    OBVIOUS
  <2>2. LastTime - r.time <= LastTime - q.time
    BY <1>3, <1>4, <2>1
  <2> QED BY <1>1, <2>2, ScoreboardAssumption
<1> QED BY <1>5 DEF NewestOf

LEMMA OldestIs ==
  ASSUME NEW rs \in SUBSET Balances, rs # {}
  PROVE  Oldest(rs) \in rs /\ \A q \in rs : q.time >= Oldest(rs).time
<1> DEFINE A == {r.time : r \in rs}
<1>1. \A r \in rs : r.time \in Nat
  BY DEF Balances, Times
<1>2. A \in SUBSET Nat /\ A # {}
  BY <1>1
<1>3. PICK x \in A : \A y \in A : x <= y
  BY <1>2, LeastNumber
<1>4. PICK r \in rs : x = r.time
  OBVIOUS
<1>5. \A q \in rs : q.time >= r.time
  BY <1>1, <1>3, <1>4
<1> QED BY <1>5 DEF Oldest

\* The balance that an entry starts from, of the balances that there are.
StartOf(rs, t) ==
  IF rs \in {None, {}} THEN None
  ELSE IF {r \in rs : r.time < t} # {} THEN NewestOf({r \in rs : r.time < t}) ELSE Oldest(rs)

LEMMA StartIs ==
  ASSUME NEW c, NEW t
  PROVE  BalanceAtTime(c, t) = StartOf(records[c], t)
BY DEF BalanceAtTime, StartOf

LEMMA StartType ==
  ASSUME NEW rs \in (SUBSET Balances) \cup {None}, NEW t
  PROVE  /\ StartOf(rs, t) \in Balances \cup {None}
         /\ StartOf(rs, t) = None <=> rs \in {None, {}}
<1>1. CASE rs \in {None, {}}
  BY <1>1 DEF StartOf
<1>2. CASE rs \notin {None, {}}
  <2> DEFINE before == {r \in rs : r.time < t}
  <2>1. rs \in SUBSET Balances /\ rs # {} /\ before \in SUBSET Balances
    BY <1>2
  <2>2. CASE before # {}
    <3>1. NewestOf(before) \in before
      BY <2>1, <2>2, NewestIs
    <3>2. StartOf(rs, t) = NewestOf(before)
      BY <1>2, <2>2 DEF StartOf
    <3>3. StartOf(rs, t) \in Balances
      BY <2>1, <3>1, <3>2
    <3> QED BY <1>2, <3>3, ScoreboardAssumption
  <2>3. CASE before = {}
    <3>1. Oldest(rs) \in rs
      BY <2>1, OldestIs
    <3>2. StartOf(rs, t) = Oldest(rs)
      BY <1>2, <2>3 DEF StartOf
    <3>3. StartOf(rs, t) \in Balances
      BY <2>1, <3>1, <3>2
    <3> QED BY <1>2, <3>3, ScoreboardAssumption
  <2> QED BY <2>2, <2>3
<1> QED BY <1>1, <1>2

-----------------------------------------------------------------------------
\* An entry that starts from a balance has its client, which is there; without one it
\* is not measured.
EntryOk(here, rec, now) ==
  /\ here \in EntryRows /\ here.joined <= now
  /\ here.client = None => here.init = None
  /\ here.client # None => rec[here.client] # None
  /\ here.init = None => here.rekt = None

\* What a session has loaded of an entry may be behind, but not of something else.
RowOk(row, here, rec) ==
  /\ row \in EntryRows /\ here # None
  /\ row.client = None => row.init = None
  /\ here # Gone => /\ row.joined = here.joined
                    /\ row.client # None => \/ row.client = here.client
                                            \/ here.client = None /\ rec[row.client] = None
                    /\ row.init # None => here.init # None

SessionOk(x, ent, rec) ==
  /\ x = [phase |-> x.phase, rows |-> x.rows, valid |-> x.valid]
  /\ DOMAIN x.rows \subseteq Entries
  /\ \A e \in DOMAIN x.rows : RowOk(x.rows[e], ent[e], rec)
  /\ x.phase = "rated" =>
       /\ DOMAIN x.valid \subseteq DOMAIN x.rows
       /\ \A e \in DOMAIN x.valid : x.valid[e] \in Int /\ x.rows[e].init # None

RecordsOk ==
  /\ clock \in Times
  /\ DOMAIN records = Clients
  /\ \A c \in Clients : records[c] # None =>
       records[c] \in SUBSET Balances /\ \A r \in records[c] : r.time <= clock

EntriesOk ==
  /\ DOMAIN entry = Entries
  /\ \A e \in Entries : Exists(e) => EntryOk(entry[e], records, clock)
  /\ \A e \in scored : e \in Entries /\ Exists(e) /\ entry[e].init # None

SessionsOk ==
  /\ DOMAIN session = Sessions
  /\ \A s \in Sessions : SessionOk(session[s], entry, records)

ScoreInv == RecordsOk /\ EntriesOk /\ SessionsOk /\ RanksAreFair

\* What no step may do to an entry.
Once == \A e \in Entries : Stays(e) =>
          /\ entry[e].rekt # None => entry'[e].rekt # None
          /\ entry[e].init # None => entry'[e].init # None
          /\ entry'[e].init # entry[e].init =>
               entry'[e].init = BalanceAtTime(entry[e].client, entry[e].joined)

LEMMA NoneApart ==
  /\ None \notin Clients /\ None \notin Times /\ None \notin Balances /\ None \notin EntryRows
  /\ Gone \notin EntryRows /\ Gone # None /\ (\A rs \in SUBSET Balances : rs # None)
BY ScoreboardAssumption

LEMMA ScoreStarts == ScoreInit => ScoreInv
<1> SUFFICES ASSUME ScoreInit PROVE ScoreInv
  OBVIOUS
<1>1. RecordsOk
  BY NoneApart, ScoreboardAssumption DEF ScoreInit, RecordsOk, Times
<1>2. EntriesOk
  BY DEF ScoreInit, EntriesOk, Exists
<1>3. SessionsOk
  <2>1. DOMAIN Fresh.rows = {} /\ Fresh.phase = "none"
        /\ Fresh = [phase |-> Fresh.phase, rows |-> Fresh.rows, valid |-> Fresh.valid]
    BY DEF Fresh
  <2>2. SessionOk(Fresh, entry, records)
    BY <2>1 DEF SessionOk
  <2> QED BY <2>2 DEF ScoreInit, SessionsOk
<1>4. RanksAreFair
  BY DEF ScoreInit, RanksAreFair, NoBoard
<1> QED BY <1>1, <1>2, <1>3, <1>4 DEF ScoreInv

\* Nobody's balances and no entry change: only what is said of the sessions is left.
LEMMA EntriesAlone ==
  ASSUME ScoreInv, UNCHANGED <<clock, records, entry, scored>>
  PROVE  RecordsOk' /\ EntriesOk' /\ Once
<1>1. RecordsOk'
  BY DEF ScoreInv, RecordsOk
<1>2. EntriesOk'
  BY DEF ScoreInv, EntriesOk, Exists
<1>3. Once
  BY DEF Once, Stays
<1> QED BY <1>1, <1>2, <1>3

LEMMA BoardAlone ==
  ASSUME RanksAreFair, UNCHANGED board
  PROVE  RanksAreFair'
BY DEF RanksAreFair

LEMMA JoinStep ==
  ASSUME ScoreInv, NEW c \in Clients, Join(c)
  PROVE  ScoreInv' /\ Once
<1>1. PICK e \in Entries : /\ entry[e] = None
                           /\ entry' = [entry EXCEPT ![e] =
                                [client |-> c, joined |-> clock, init |-> None, rekt |-> None]]
  BY DEF Join
<1>2. /\ clock' = clock /\ records' = records /\ scored' = scored /\ session' = session
      /\ board' = board /\ records[c] # None
  BY DEF Join
<1>3. PICK new : new = [client |-> c, joined |-> clock, init |-> None, rekt |-> None]
  OBVIOUS
<1>4. new.client = c /\ new.joined = clock /\ new.init = None /\ new.rekt = None
  BY <1>3
<1>5. clock \in Times
  BY DEF ScoreInv, RecordsOk
<1>6. new \in EntryRows
  BY <1>3, <1>5 DEF EntryRows
<1>7. clock \in Int
  BY <1>5, ScoreboardAssumption DEF Times
<1>8. EntryOk(new, records, clock)
  BY <1>2, <1>4, <1>6, <1>7, NoneApart DEF EntryOk
<1>9. /\ DOMAIN entry' = Entries /\ entry'[e] = new
      /\ \A f \in Entries : f # e => entry'[f] = entry[f]
  BY <1>1, <1>3 DEF ScoreInv, EntriesOk
<1>10. RecordsOk'
  BY <1>2 DEF ScoreInv, RecordsOk
<1>11. EntriesOk'
  <2>1. ASSUME NEW f \in Entries, Exists(f)' PROVE EntryOk(entry'[f], records', clock')
    <3>1. CASE f = e
      BY <1>2, <1>8, <1>9, <3>1
    <3>2. CASE f # e
      BY <1>2, <1>9, <2>1, <3>2 DEF ScoreInv, EntriesOk, Exists
    <3> QED BY <3>1, <3>2
  <2>2. \A f \in scored' : f \in Entries /\ Exists(f)' /\ entry'[f].init # None
    BY <1>1, <1>2, <1>9 DEF ScoreInv, EntriesOk, Exists
  <2> QED BY <1>9, <2>1, <2>2 DEF EntriesOk
<1>12. SessionsOk'
  <2>1. ASSUME NEW s \in Sessions, NEW f \in DOMAIN session[s].rows
        PROVE  RowOk(session[s].rows[f], entry'[f], records)
    <3>1. f \in Entries /\ RowOk(session[s].rows[f], entry[f], records)
      BY <2>1 DEF ScoreInv, SessionsOk, SessionOk
    <3>2. f # e
      BY <1>1, <3>1 DEF RowOk
    <3> QED BY <1>9, <3>1, <3>2
  <2>2. \A s \in Sessions : SessionOk(session[s], entry', records)
    BY <2>1 DEF ScoreInv, SessionsOk, SessionOk
  <2> QED BY <1>2, <2>2 DEF ScoreInv, SessionsOk
<1>13. RanksAreFair'
  BY <1>2, BoardAlone DEF ScoreInv
<1>14. Once
  BY <1>1, <1>9 DEF Once, Stays, Exists
<1> QED BY <1>10, <1>11, <1>12, <1>13, <1>14 DEF ScoreInv

LEMMA LeaveStep ==
  ASSUME ScoreInv, NEW e \in Entries, Leave(e)
  PROVE  ScoreInv' /\ Once
<1>1. /\ clock' = clock /\ records' = records /\ scored' = scored \ {e} /\ session' = session
      /\ board' = board /\ Exists(e)
      /\ entry' = [entry EXCEPT ![e] = Gone]
  BY DEF Leave
<1>2. /\ DOMAIN entry' = Entries /\ entry'[e] = Gone
      /\ \A f \in Entries : f # e => entry'[f] = entry[f]
  BY <1>1 DEF ScoreInv, EntriesOk
<1>3. RecordsOk'
  BY <1>1 DEF ScoreInv, RecordsOk
<1>4. EntriesOk'
  <2>1. ASSUME NEW f \in Entries, Exists(f)' PROVE EntryOk(entry'[f], records', clock')
    <3>1. f # e
      BY <1>2, <2>1 DEF Exists
    <3> QED BY <1>1, <1>2, <2>1, <3>1 DEF ScoreInv, EntriesOk, Exists
  <2>2. \A f \in scored' : f \in Entries /\ Exists(f)' /\ entry'[f].init # None
    BY <1>1, <1>2 DEF ScoreInv, EntriesOk, Exists
  <2> QED BY <1>2, <2>1, <2>2 DEF EntriesOk
<1>5. SessionsOk'
  <2>1. ASSUME NEW s \in Sessions, NEW f \in DOMAIN session[s].rows
        PROVE  RowOk(session[s].rows[f], entry'[f], records)
    <3>1. f \in Entries /\ RowOk(session[s].rows[f], entry[f], records)
      BY <2>1 DEF ScoreInv, SessionsOk, SessionOk
    <3>2. CASE f = e
      BY <1>2, <3>1, <3>2, NoneApart DEF RowOk
    <3>3. CASE f # e
      BY <1>2, <3>1, <3>3
    <3> QED BY <3>2, <3>3
  <2>2. \A s \in Sessions : SessionOk(session[s], entry', records)
    BY <2>1 DEF ScoreInv, SessionsOk, SessionOk
  <2> QED BY <1>1, <2>2 DEF ScoreInv, SessionsOk
<1>6. RanksAreFair'
  BY <1>1, BoardAlone DEF ScoreInv
<1>7. Once
  BY <1>1, <1>2 DEF Once, Stays, Exists
<1> QED BY <1>3, <1>4, <1>5, <1>6, <1>7 DEF ScoreInv

LEMMA DeleteClientStep ==
  ASSUME ScoreInv, NEW c \in Clients, DeleteClient(c)
  PROVE  ScoreInv' /\ Once
<1> DEFINE Mine == {e \in Entries : Exists(e) /\ entry[e].client = c}
           Cascaded == {e \in Mine : entry[e].init # None}
<1>1. /\ clock' = clock /\ records' = [records EXCEPT ![c] = None]
      /\ scored' = scored \ Cascaded /\ session' = session /\ board' = board
      /\ entry' = [e \in Entries |-> IF e \in Cascaded THEN Gone
                                     ELSE IF e \in Mine THEN [entry[e] EXCEPT !.client = None]
                                     ELSE entry[e]]
  BY DEF DeleteClient
<1>2. /\ DOMAIN entry' = Entries
      /\ \A e \in Cascaded : entry'[e] = Gone
      /\ \A e \in Mine \ Cascaded : entry'[e] = [entry[e] EXCEPT !.client = None]
      /\ \A e \in Entries \ Mine : entry'[e] = entry[e]
  BY <1>1
<1>3. /\ DOMAIN records' = Clients /\ records'[c] = None
      /\ \A d \in Clients : d # c => records'[d] = records[d]
  BY <1>1 DEF ScoreInv, RecordsOk
<1>4. RecordsOk'
  BY <1>1, <1>3 DEF ScoreInv, RecordsOk
<1>5. ASSUME NEW e \in Mine \ Cascaded
      PROVE  /\ entry'[e] \in EntryRows /\ entry'[e].client = None /\ entry'[e].init = None
             /\ entry'[e].joined = entry[e].joined /\ entry'[e].rekt = None
             /\ entry[e].init = None /\ entry[e].rekt = None /\ entry[e].joined <= clock
             /\ entry[e].client = c
  <2>1. PICK h : h = entry[e]
    OBVIOUS
  <2>2. h \in EntryRows /\ h.init = None /\ h.rekt = None /\ h.joined <= clock /\ h.client = c
    BY <2>1 DEF ScoreInv, EntriesOk, EntryOk
  <2>3. PICK g : g = [h EXCEPT !.client = None]
    OBVIOUS
  <2>4. None \in Clients \cup {None}
    OBVIOUS
  <2>5. g \in EntryRows
    BY <2>2, <2>3, <2>4, Zenon DEF EntryRows
  <2>6. g.client = None /\ g.init = h.init /\ g.joined = h.joined /\ g.rekt = h.rekt
    BY <2>2, <2>3 DEF EntryRows
  <2>7. entry'[e] = g
    BY <1>2, <2>1, <2>3
  <2> QED BY <2>1, <2>2, <2>5, <2>6, <2>7
<1>6. EntriesOk'
  <2>1. ASSUME NEW f \in Entries, Exists(f)' PROVE EntryOk(entry'[f], records', clock')
    <3>1. f \notin Cascaded
      BY <1>2, <2>1 DEF Exists
    <3>2. CASE f \in Mine
      BY <1>1, <1>5, <3>1, <3>2 DEF EntryOk
    <3>3. CASE f \notin Mine
      <4>1. entry'[f] = entry[f] /\ Exists(f) /\ entry[f].client # c
        BY <1>2, <2>1, <3>3 DEF Exists
      <4>2. EntryOk(entry[f], records, clock)
        BY <4>1 DEF ScoreInv, EntriesOk
      <4>3. entry[f].client # None => records'[entry[f].client] = records[entry[f].client]
        BY <1>3, <4>1, <4>2 DEF EntryOk, EntryRows
      <4> QED BY <1>1, <4>1, <4>2, <4>3 DEF EntryOk
    <3> QED BY <3>2, <3>3
  <2>2. ASSUME NEW f \in scored' PROVE f \in Entries /\ Exists(f)' /\ entry'[f].init # None
    <3>1. f \in Entries /\ Exists(f) /\ entry[f].init # None /\ f \notin Cascaded
      BY <1>1 DEF ScoreInv, EntriesOk
    <3>2. entry'[f] = entry[f]
      BY <1>2, <3>1
    <3> QED BY <3>1, <3>2 DEF Exists
  <2> QED BY <1>2, <2>1, <2>2 DEF EntriesOk
<1>7. SessionsOk'
  <2>1. ASSUME NEW s \in Sessions, NEW f \in DOMAIN session[s].rows
        PROVE  RowOk(session[s].rows[f], entry'[f], records')
    <3>1. PICK row : row = session[s].rows[f]
      OBVIOUS
    <3>2. f \in Entries /\ RowOk(row, entry[f], records)
      BY <2>1, <3>1 DEF ScoreInv, SessionsOk, SessionOk
    <3>3. row.client # None => row.client \in Clients
      BY <3>2 DEF RowOk, EntryRows
    <3>4. CASE f \in Cascaded
      BY <1>2, <3>1, <3>2, <3>4, NoneApart DEF RowOk
    <3>5. CASE f \in Mine \ Cascaded
      <4>1. entry'[f] # None /\ entry[f] # Gone
        BY <1>5, <3>5, NoneApart DEF Exists
      <4>2. row.client # None => records'[row.client] = None
        BY <1>3, <1>5, <3>2, <3>3, <3>5, <4>1, NoneApart DEF RowOk
      <4> QED BY <1>5, <3>1, <3>2, <3>5, <4>1, <4>2 DEF RowOk
    <3>6. CASE f \notin Mine
      <4>1. entry'[f] = entry[f]
        BY <1>2, <3>2, <3>6
      <4>2. row.client # None /\ records[row.client] = None => records'[row.client] = None
        BY <1>3, <3>3
      <4> QED BY <3>1, <3>2, <4>1, <4>2 DEF RowOk
    <3> QED BY <3>4, <3>5, <3>6
  <2>2. \A s \in Sessions : SessionOk(session[s], entry', records')
    BY <2>1 DEF ScoreInv, SessionsOk, SessionOk
  <2> QED BY <1>1, <2>2 DEF ScoreInv, SessionsOk
<1>8. RanksAreFair'
  BY <1>1, BoardAlone DEF ScoreInv
<1>9. Once
  <2> SUFFICES ASSUME NEW e \in Entries, Exists(e), Exists(e)'
               PROVE  /\ entry[e].rekt # None => entry'[e].rekt # None
                      /\ entry'[e].init = entry[e].init
    BY DEF Once, Stays
  <2>1. e \notin Cascaded
    BY <1>2 DEF Exists
  <2>2. CASE e \in Mine
    BY <1>5, <2>1, <2>2
  <2>3. CASE e \notin Mine
    BY <1>2, <2>3
  <2> QED BY <2>2, <2>3
<1> QED BY <1>4, <1>6, <1>7, <1>8, <1>9 DEF ScoreInv

LEMMA StoreStep ==
  ASSUME ScoreInv, NEW c \in Clients, NEW times \in SUBSET (0..clock), Store(c, times)
  PROVE  ScoreInv' /\ Once
<1>1. /\ clock' = clock /\ entry' = entry /\ scored' = scored /\ session' = session
      /\ board' = board /\ records[c] # None
  BY DEF Store
<1>2. PICK x \in [times -> Equities] :
        records' = [records EXCEPT ![c] = @ \cup {[time |-> t, realized |-> x[t]] : t \in times}]
  BY DEF Store
<1>3. PICK more : more = {[time |-> t, realized |-> x[t]] : t \in times}
  OBVIOUS
<1>4. clock \in Times /\ records[c] \in SUBSET Balances
  BY <1>1 DEF ScoreInv, RecordsOk
<1>5. clock \in Int /\ \A t \in times : t \in Times /\ t <= clock
  BY <1>4, ScoreboardAssumption DEF Times
<1>6. more \in SUBSET Balances /\ \A r \in more : r.time <= clock
  BY <1>3, <1>5 DEF Balances
<1>7. /\ DOMAIN records' = Clients /\ records'[c] = records[c] \cup more
      /\ \A d \in Clients : d # c => records'[d] = records[d]
  BY <1>2, <1>3 DEF ScoreInv, RecordsOk
<1>8. records'[c] \in SUBSET Balances /\ records'[c] # None
  BY <1>4, <1>6, <1>7, NoneApart
<1>9. RecordsOk'
  <2>1. ASSUME NEW d \in Clients, records'[d] # None
        PROVE  records'[d] \in SUBSET Balances /\ \A r \in records'[d] : r.time <= clock
    <3>1. CASE d = c
      <4>1. \A r \in records[c] : r.time <= clock
        BY <1>1, <1>4 DEF ScoreInv, RecordsOk
      <4> QED BY <1>6, <1>7, <1>8, <3>1, <4>1
    <3>2. CASE d # c
      BY <1>7, <2>1, <3>2 DEF ScoreInv, RecordsOk
    <3> QED BY <3>1, <3>2
  <2> QED BY <1>1, <1>4, <1>7, <2>1 DEF RecordsOk
<1>10. EntriesOk'
  <2>1. ASSUME NEW f \in Entries, Exists(f) PROVE EntryOk(entry[f], records', clock)
    <3>1. PICK h : h = entry[f]
      OBVIOUS
    <3>2. EntryOk(h, records, clock)
      BY <2>1, <3>1 DEF ScoreInv, EntriesOk
    <3>3. h.client # None => h.client \in Clients
      BY <3>2 DEF EntryOk, EntryRows
    <3>4. h.client # None => records'[h.client] # None
      BY <1>7, <1>8, <3>2, <3>3 DEF EntryOk
    <3> QED BY <3>1, <3>2, <3>4 DEF EntryOk
  <2> QED BY <1>1, <2>1 DEF ScoreInv, EntriesOk, Exists
<1>11. SessionsOk'
  <2>1. ASSUME NEW s \in Sessions, NEW f \in DOMAIN session[s].rows
        PROVE  RowOk(session[s].rows[f], entry[f], records')
    <3>1. PICK row : row = session[s].rows[f]
      OBVIOUS
    <3>2. RowOk(row, entry[f], records)
      BY <3>1 DEF ScoreInv, SessionsOk, SessionOk
    <3>3. row.client # None => row.client \in Clients
      BY <3>2 DEF RowOk, EntryRows
    <3>4. row.client # None /\ records[row.client] = None => records'[row.client] = None
      BY <1>1, <1>7, <3>3
    <3> QED BY <3>1, <3>2, <3>4 DEF RowOk
  <2>2. \A s \in Sessions : SessionOk(session[s], entry, records')
    BY <2>1 DEF ScoreInv, SessionsOk, SessionOk
  <2> QED BY <1>1, <2>2 DEF ScoreInv, SessionsOk
<1>12. RanksAreFair'
  BY <1>1, BoardAlone DEF ScoreInv
<1>13. Once
  BY <1>1 DEF Once, Stays
<1> QED BY <1>9, <1>10, <1>11, <1>12, <1>13 DEF ScoreInv

LEMMA StoreBalanceStep ==
  ASSUME ScoreInv, NEW c \in Clients, StoreBalance(c) \/ StorePast(c)
  PROVE  ScoreInv' /\ Once
<1>1. clock \in Nat
  BY ScoreboardAssumption DEF ScoreInv, RecordsOk, Times
<1>2. {clock} \in SUBSET (0..clock)
  BY <1>1
<1>3. \E times \in SUBSET (0..clock) : Store(c, times)
  BY <1>2 DEF StoreBalance, StorePast
<1> QED BY <1>3, StoreStep

LEMMA TickStep ==
  ASSUME ScoreInv, Tick
  PROVE  ScoreInv' /\ Once
<1>1. /\ clock < LastTime /\ clock' = clock + 1 /\ records' = records /\ entry' = entry
      /\ scored' = scored /\ session' = session /\ board' = board
  BY DEF Tick
<1>2. clock \in Times
  BY DEF ScoreInv, RecordsOk
<1>3. clock' \in Times /\ clock \in Int
  BY <1>1, <1>2, ScoreboardAssumption DEF Times
<1>4. RecordsOk'
  <2>1. ASSUME NEW c \in Clients, records[c] # None, NEW r \in records[c]
        PROVE  r.time <= clock'
    <3>1. r \in Balances /\ r.time <= clock
      BY <2>1 DEF ScoreInv, RecordsOk
    <3>2. r.time \in Int
      BY <3>1, ScoreboardAssumption DEF Balances, Times
    <3> QED BY <1>1, <1>3, <3>1, <3>2
  <2> QED BY <1>1, <1>3, <2>1 DEF ScoreInv, RecordsOk
<1>5. EntriesOk'
  <2>1. ASSUME NEW f \in Entries, Exists(f) PROVE EntryOk(entry[f], records, clock')
    <3>1. EntryOk(entry[f], records, clock)
      BY <2>1 DEF ScoreInv, EntriesOk
    <3>2. entry[f].joined \in Int
      BY <3>1, ScoreboardAssumption DEF EntryOk, EntryRows, Times
    <3>3. entry[f].joined <= clock'
      BY <1>1, <1>3, <3>1, <3>2 DEF EntryOk
    <3> QED BY <3>1, <3>3 DEF EntryOk
  <2> QED BY <1>1, <2>1 DEF ScoreInv, EntriesOk, Exists
<1>6. SessionsOk'
  BY <1>1 DEF ScoreInv, SessionsOk
<1>7. RanksAreFair'
  BY <1>1, BoardAlone DEF ScoreInv
<1>8. Once
  BY <1>1 DEF Once, Stays
<1> QED BY <1>4, <1>5, <1>6, <1>7, <1>8 DEF ScoreInv

\* A session moves on, and the others stay.
LEMMA SessionsStep ==
  ASSUME ScoreInv, NEW s \in Sessions, NEW x, session' = [session EXCEPT ![s] = x],
         entry' = entry, records' = records, SessionOk(x, entry, records)
  PROVE  SessionsOk'
<1>1. DOMAIN session' = Sessions /\ session'[s] = x
      /\ \A u \in Sessions : u # s => session'[u] = session[u]
  BY DEF ScoreInv, SessionsOk
<1>2. \A u \in Sessions : SessionOk(session'[u], entry, records)
  BY <1>1 DEF ScoreInv, SessionsOk
<1> QED BY <1>1, <1>2 DEF SessionsOk

LEMMA FreshOk == SessionOk(Fresh, entry, records)
<1>1. DOMAIN Fresh.rows = {} /\ Fresh.phase = "none"
      /\ Fresh = [phase |-> Fresh.phase, rows |-> Fresh.rows, valid |-> Fresh.valid]
  BY DEF Fresh
<1> QED BY <1>1 DEF SessionOk

\* A session that goes to another phase knows the rows that it knew.
LEMMA PhaseOk ==
  ASSUME NEW x, SessionOk(x, entry, records), NEW p, p # "rated"
  PROVE  SessionOk([x EXCEPT !.phase = p], entry, records)
<1>1. x = [phase |-> x.phase, rows |-> x.rows, valid |-> x.valid]
  BY DEF SessionOk
<1>2. PICK P, R, V : x = [phase |-> P, rows |-> R, valid |-> V]
  BY <1>1
<1>3. PICK y : y = [x EXCEPT !.phase = p]
  OBVIOUS
<1>4. y = [phase |-> p, rows |-> R, valid |-> V]
  BY <1>2, <1>3
<1>5. y.phase = p /\ y.rows = x.rows /\ y.valid = x.valid
  BY <1>2, <1>4
<1>6. y = [phase |-> y.phase, rows |-> y.rows, valid |-> y.valid]
  BY <1>4
<1>7. SessionOk(y, entry, records)
  BY <1>5, <1>6 DEF SessionOk
<1> QED BY <1>3, <1>7

LEMMA DroppedStep ==
  ASSUME ScoreInv, NEW s \in Sessions, NEW flushed \in BOOLEAN, Dropped(s, flushed),
         entry' = entry, records' = records
  PROVE  SessionsOk'
<1>1. SessionOk(session[s], entry, records)
  BY DEF ScoreInv, SessionsOk
<1>2. CASE s # Collector
  <2>1. session' = [session EXCEPT ![s] = Fresh]
    BY <1>2 DEF Dropped
  <2> QED BY <2>1, FreshOk, SessionsStep
<1>3. CASE s = Collector
  <2>1. PICK p : p = IF flushed THEN "broken" ELSE "none"
    OBVIOUS
  <2>2. session' = [session EXCEPT ![s] = [session[s] EXCEPT !.phase = p]]
    BY <1>3, <2>1 DEF Dropped
  <2>3. p # "rated"
    BY <2>1
  <2>4. SessionOk([session[s] EXCEPT !.phase = p], entry, records)
    BY <1>1, <2>3, PhaseOk
  <2> QED BY <2>2, <2>4, SessionsStep
<1> QED BY <1>2, <1>3

LEMMA LoadStep ==
  ASSUME ScoreInv, NEW s \in Sessions, Load(s)
  PROVE  ScoreInv' /\ Once
<1>1. clock' = clock /\ records' = records /\ entry' = entry /\ scored' = scored
      /\ board' = NoBoard
  BY DEF Load
<1>2. RecordsOk' /\ EntriesOk' /\ Once
  BY <1>1, EntriesAlone
<1>3. SessionOk(session[s], entry, records)
  BY DEF ScoreInv, SessionsOk
<1>4. SessionsOk'
  <2>1. CASE session' = [session EXCEPT ![s].phase = "loaded"]
    <3>1. session' = [session EXCEPT ![s] = [session[s] EXCEPT !.phase = "loaded"]]
      BY <2>1
    <3>2. "loaded" # "rated"
      OBVIOUS
    <3>3. SessionOk([session[s] EXCEPT !.phase = "loaded"], entry, records)
      BY <1>3, <3>2, PhaseOk
    <3> QED BY <1>1, <3>1, <3>3, SessionsStep
  <2>2. CASE session' = [session EXCEPT ![s].phase = "loaded",
                                        ![s].rows = [e \in Existing |-> entry[e]]]
    <3>1. PICK R : R = [e \in Existing |-> entry[e]]
      OBVIOUS
    <3>2. PICK x : x = [[session[s] EXCEPT !.phase = "loaded"] EXCEPT !.rows = R]
      OBVIOUS
    <3>3. session' = [session EXCEPT ![s] = x]
      BY <2>2, <3>1, <3>2 DEF ScoreInv, SessionsOk
    <3>4. PICK P, Q, V : session[s] = [phase |-> P, rows |-> Q, valid |-> V]
      BY <1>3 DEF SessionOk
    <3>5. x = [phase |-> "loaded", rows |-> R, valid |-> V]
      <4>1. [session[s] EXCEPT !.phase = "loaded"] = [phase |-> "loaded", rows |-> Q, valid |-> V]
        BY <3>4
      <4> QED BY <3>2, <4>1
    <3>6. x.phase = "loaded" /\ x.rows = R /\ x.valid = V
      BY <3>5
    <3>7. x = [phase |-> x.phase, rows |-> x.rows, valid |-> x.valid]
      BY <3>5
    <3>8. DOMAIN R \subseteq Entries /\ \A e \in DOMAIN R : Exists(e) /\ R[e] = entry[e]
      BY <3>1 DEF Existing
    <3>9. \A e \in DOMAIN R : RowOk(R[e], entry[e], records)
      BY <3>8 DEF RowOk, ScoreInv, EntriesOk, EntryOk, Exists
    <3>10. SessionOk(x, entry, records)
      BY <3>6, <3>7, <3>8, <3>9 DEF SessionOk
    <3> QED BY <1>1, <3>3, <3>10, SessionsStep
  <2> QED BY <2>1, <2>2 DEF Load
<1>5. RanksAreFair'
  BY <1>1 DEF RanksAreFair, NoBoard
<1> QED BY <1>2, <1>4, <1>5 DEF ScoreInv

LEMMA SaveStep ==
  ASSUME ScoreInv, NEW s \in Sessions, Save(s)
  PROVE  ScoreInv' /\ Once
<1>1. clock' = clock /\ records' = records /\ entry' = entry /\ session[s].phase = "rated"
  BY DEF Save
<1>2. PICK x : x = session[s]
  OBVIOUS
<1>3. SessionOk(x, entry, records) /\ x.phase = "rated"
  BY <1>1, <1>2 DEF ScoreInv, SessionsOk
<1>4. PICK valid : valid = x.valid
  OBVIOUS
<1>5. DOMAIN valid \subseteq Entries
      /\ \A e \in DOMAIN valid : e \in DOMAIN x.rows /\ valid[e] \in Int /\ x.rows[e].init # None
  BY <1>3, <1>4 DEF SessionOk
<1>6. RecordsOk'
  BY <1>1 DEF ScoreInv, RecordsOk
<1>7. CASE \E e \in DOMAIN valid : ~Exists(e)
  <2>1. Dropped(s, TRUE) /\ scored' = scored /\ board' = board
    BY <1>2, <1>4, <1>7 DEF Save
  <2>2. RecordsOk' /\ EntriesOk' /\ Once
    BY <1>1, <2>1, EntriesAlone
  <2>3. TRUE \in BOOLEAN
    OBVIOUS
  <2>4. SessionsOk'
    BY <1>1, <2>1, <2>3, DroppedStep
  <2>5. RanksAreFair'
    BY <2>1, BoardAlone DEF ScoreInv
  <2> QED BY <2>2, <2>4, <2>5 DEF ScoreInv
<1>8. CASE ~ \E e \in DOMAIN valid : ~Exists(e)
  <2>1. PICK list \in Sorted(valid) :
          board' = [e \in DOMAIN valid |->
                      [gain |-> valid[e],
                       rank |-> Ranks(list, valid)[CHOOSE n \in DOMAIN list : list[n] = e]]]
    BY <1>2, <1>4, <1>8 DEF Save
  <2>2. /\ scored' = scored \cup DOMAIN valid
        /\ session' = [session EXCEPT ![s] = IF s = Collector
                                             THEN [session[s] EXCEPT !.phase = "none"] ELSE Fresh]
    BY <1>2, <1>4, <1>8 DEF Save
  <2>3. EntriesOk'
    <3>1. ASSUME NEW e \in DOMAIN valid PROVE e \in Entries /\ Exists(e) /\ entry[e].init # None
      <4>1. e \in Entries /\ Exists(e) /\ x.rows[e].init # None
        BY <1>5, <1>8
      <4>2. RowOk(x.rows[e], entry[e], records)
        BY <1>3, <1>5 DEF SessionOk
      <4>3. x.rows[e].init # None => entry[e].init # None
        BY <4>1, <4>2 DEF RowOk, Exists
      <4> QED BY <4>1, <4>3
    <3> QED BY <1>1, <2>2, <3>1 DEF ScoreInv, EntriesOk, Exists
  <2>4. Once
    BY <1>1 DEF Once, Stays
  <2>5. SessionsOk'
    <3>1. CASE s = Collector
      <4>1. session' = [session EXCEPT ![s] = [session[s] EXCEPT !.phase = "none"]]
        BY <2>2, <3>1
      <4>2. "none" # "rated"
        OBVIOUS
      <4>3. SessionOk([session[s] EXCEPT !.phase = "none"], entry, records)
        BY <1>2, <1>3, <4>2, PhaseOk
      <4> QED BY <1>1, <4>1, <4>3, SessionsStep
    <3>2. CASE s # Collector
      <4>1. session' = [session EXCEPT ![s] = Fresh]
        BY <2>2, <3>2
      <4> QED BY <1>1, <4>1, FreshOk, SessionsStep
    <3> QED BY <3>1, <3>2
  <2>6. RanksAreFair'
    <3>1. IsFiniteSet(DOMAIN valid)
      <4>1. IsFiniteSet(Entries)
        BY FS_Interval, ScoreboardAssumption DEF Entries
      <4> QED BY <1>5, <4>1, FS_Subset
    <3>2. \A e \in DOMAIN valid : valid[e] \in Int
      BY <1>5
    <3>3. DOMAIN board' = DOMAIN valid
      BY <2>1
    <3>4. ASSUME NEW e \in DOMAIN valid
          PROVE  board'[e].rank = 1 + Cardinality({f \in DOMAIN valid : valid[f] > valid[e]})
      <4>1. PICK r : r = Ranks(list, valid)[CHOOSE n \in DOMAIN list : list[n] = e]
        OBVIOUS
      <4>2. board'[e] = [gain |-> valid[e],
                         rank |-> Ranks(list, valid)[CHOOSE n \in DOMAIN list : list[n] = e]]
        BY <2>1, Zenon
      <4>3. board'[e].rank = r
        <5>1. board'[e] = [gain |-> valid[e], rank |-> r]
          BY <4>1, <4>2, Zenon
        <5> QED BY <5>1
      <4> QED BY <3>1, <3>2, <4>1, <4>3, RankCounts, SMTT(30)
    <3>5. \A e \in DOMAIN valid : board'[e].gain = valid[e]
      BY <2>1
    <3>6. ASSUME NEW e \in DOMAIN valid
          PROVE  board'[e].rank =
                   1 + Cardinality({f \in DOMAIN board' : board'[f].gain > board'[e].gain})
      <4>1. {f \in DOMAIN board' : board'[f].gain > board'[e].gain}
              = {f \in DOMAIN valid : valid[f] > valid[e]}
        BY <3>3, <3>5
      <4> QED BY <3>4, <4>1
    <3> QED BY <3>3, <3>6 DEF RanksAreFair
  <2> QED BY <1>6, <2>3, <2>4, <2>5, <2>6 DEF ScoreInv
<1> QED BY <1>7, <1>8

\* A gain is a whole number.
LEMMA GainIs ==
  ASSUME RecordsOk, NEW row \in EntryRows, row.client # None, row.init # None,
         GainOf(row) # None
  PROVE  GainOf(row) \in Int
<1>1. row.client \in Clients /\ row.init \in Balances
  BY DEF EntryRows
<1>2. PICK rs : rs = records[row.client]
  OBVIOUS
<1>3. rs \notin {None, {}}
        /\ GainOf(row) = Relative(row.init.realized,
                                  NewestOf(rs).realized - row.init.realized)
  BY <1>2 DEF GainOf, GainSince
<1>4. rs \in SUBSET Balances /\ rs # {}
  BY <1>1, <1>2, <1>3 DEF RecordsOk
<1>5. NewestOf(rs) \in Balances
  BY <1>4, NewestIs
<1>6. NewestOf(rs).realized \in Int /\ row.init.realized \in Nat \ {0}
  BY <1>1, <1>5, ScoreboardAssumption DEF Balances
<1>7. PICK a, b : a = row.init.realized /\ b = NewestOf(rs).realized - row.init.realized
  OBVIOUS
<1>8. a \in Int /\ a > 0 /\ b \in Int
  BY <1>6, <1>7
<1>9. Relative(a, b) = (100 * b) \div a
  BY <1>8 DEF Relative
<1>10. 100 * b \in Int
  BY <1>8
<1>11. (100 * b) \div a \in Int
  BY <1>8, <1>10
<1> QED BY <1>3, <1>7, <1>9, <1>11

\* What a session makes of a row: where it starts when that was not known, and whether
\* it is rekt when it was not.
LEMMA NewRow ==
  ASSUME RecordsOk, NEW row \in EntryRows, row.client = None => row.init = None,
         Initialised(row).init # None
  PROVE  LET new == Judged(Initialised(row))
         IN  /\ new \in EntryRows /\ row.client # None
             /\ new.client = row.client /\ new.joined = row.joined
             /\ new.init # None
             /\ new.init = IF row.init # None THEN row.init
                           ELSE StartOf(records[row.client], row.joined)
             /\ new.rekt # row.rekt => new.rekt # None
<1>1. row.client # None
  BY DEF Initialised
<1>2. PICK mid : mid = Initialised(row)
  OBVIOUS
<1>3. row.client \in Clients /\ records[row.client] \in (SUBSET Balances) \cup {None}
  BY <1>1 DEF EntryRows, RecordsOk
<1>4. PICK b : b = IF row.init # None THEN row.init ELSE StartOf(records[row.client], row.joined)
  OBVIOUS
<1>5. b \in Balances \cup {None}
  BY <1>3, <1>4, StartType DEF EntryRows
<1>6. /\ mid \in EntryRows /\ mid.client = row.client /\ mid.joined = row.joined
      /\ mid.init = b /\ mid.rekt = row.rekt
  <2>1. CASE row.init # None
    <3>1. mid = row
      BY <1>2, <2>1 DEF Initialised
    <3> QED BY <1>4, <2>1, <3>1
  <2>2. CASE row.init = None
    <3>1. b = BalanceAtTime(row.client, row.joined)
      BY <1>4, <2>2, StartIs
    <3>2. mid = [row EXCEPT !.init = b]
      BY <1>1, <1>2, <2>2, <3>1 DEF Initialised
    <3>3. mid \in EntryRows
      BY <1>5, <3>2, Zenon DEF EntryRows
    <3> QED BY <3>2, <3>3 DEF EntryRows
  <2> QED BY <2>1, <2>2
<1>7. PICK new : new = Judged(mid)
  OBVIOUS
<1>8. /\ new \in EntryRows /\ new.client = mid.client /\ new.joined = mid.joined
      /\ new.init = mid.init
      /\ new.rekt # mid.rekt => new.rekt # None
  <2>1. CASE new = mid
    BY <1>6, <2>1
  <2>2. CASE new = [mid EXCEPT !.rekt = clock]
    <3>1. clock \in Times
      BY DEF RecordsOk
    <3>2. clock \in Times \cup {None} /\ clock # None
      BY <3>1, NoneApart
    <3>3. new \in EntryRows
      BY <1>6, <2>2, <3>2, Zenon DEF EntryRows
    <3>4. new.client = mid.client /\ new.joined = mid.joined /\ new.init = mid.init
          /\ new.rekt = clock
      BY <1>6, <2>2 DEF EntryRows
    <3> QED BY <3>2, <3>3, <3>4
  <2> QED BY <1>7, <2>1, <2>2 DEF Judged
<1>9. mid.init # None
  BY <1>2
<1> QED BY <1>1, <1>2, <1>4, <1>6, <1>7, <1>8, <1>9, Zenon

\* An entry that a flush writes: where it starts is what the client's balances give
\* now, or stays, and who was rekt is.
LEMMA FlushedEntry ==
  ASSUME RecordsOk, NEW row, NEW here, RowOk(row, here, records), EntryOk(here, records, clock),
         here # Gone, Initialised(row).init # None
  PROVE  LET new == Judged(Initialised(row))
             next == Flushed(row, new, here)
         IN  /\ EntryOk(next, records, clock)
             /\ RowOk(new, next, records) /\ new.init # None
             /\ next.init # None /\ next.client = here.client /\ next.joined = here.joined
             /\ here.rekt # None => next.rekt # None
             /\ next.init # here.init => next.init = BalanceAtTime(here.client, here.joined)
<1>1. PICK new : new = Judged(Initialised(row))
  OBVIOUS
<1>2. row \in EntryRows /\ (row.client = None => row.init = None)
  BY DEF RowOk
<1>3. /\ new \in EntryRows /\ row.client # None
      /\ new.client = row.client /\ new.joined = row.joined
      /\ new.init # None
      /\ new.init = IF row.init # None THEN row.init
                    ELSE StartOf(records[row.client], row.joined)
      /\ new.rekt # row.rekt => new.rekt # None
  BY <1>1, <1>2, NewRow
<1>4. /\ here \in EntryRows /\ here.joined <= clock
      /\ row.joined = here.joined
      /\ row.client = here.client \/ (here.client = None /\ records[row.client] = None)
      /\ row.init # None => here.init # None
  <2>1. row.client # None
    BY <1>3
  <2>2. here \in EntryRows /\ here.joined <= clock
    BY DEF EntryOk
  <2>3. row.joined = here.joined
    BY DEF RowOk
  <2>4. row.init # None => here.init # None
    BY DEF RowOk
  <2>5. row.client = here.client \/ (here.client = None /\ records[row.client] = None)
    BY <2>1 DEF RowOk
  <2> QED BY <2>2, <2>3, <2>4, <2>5
<1>5. row.client = here.client
  <2> SUFFICES ASSUME here.client = None, records[row.client] = None PROVE FALSE
    BY <1>4
  <2>1. here.init = None
    BY DEF EntryOk
  <2>2. new.init = StartOf(records[row.client], row.joined)
    BY <1>3, <1>4, <2>1
  <2>3. StartOf(records[row.client], row.joined) = None
    BY DEF StartOf
  <2> QED BY <1>3, <2>2, <2>3
<1>6. row.init = None => new.init = StartOf(records[here.client], here.joined)
  BY <1>3, <1>4, <1>5
<1>7. PICK i, k : /\ i = IF row.init # new.init THEN new.init ELSE here.init
                  /\ k = IF row.rekt # new.rekt THEN new.rekt ELSE here.rekt
  OBVIOUS
<1>8. i # None
  <2>1. CASE row.init # new.init
    BY <1>3, <1>7, <2>1
  <2>2. CASE row.init = new.init
    BY <1>3, <1>4, <1>7, <2>2
  <2> QED BY <2>1, <2>2
<1>9. i # here.init => i = BalanceAtTime(here.client, here.joined)
  <2> SUFFICES ASSUME i # here.init PROVE i = BalanceAtTime(here.client, here.joined)
    OBVIOUS
  <2>1. row.init # new.init /\ i = new.init
    BY <1>7
  <2>2. row.init = None
    BY <1>3, <2>1
  <2>3. i = StartOf(records[here.client], here.joined)
    BY <1>6, <2>1, <2>2
  <2> QED BY <2>3, StartIs
<1>10. i \in Balances \cup {None} /\ k \in Times \cup {None}
  BY <1>3, <1>4, <1>7 DEF EntryRows
<1>11. PICK next : next = [here EXCEPT !.init = i, !.rekt = k]
  OBVIOUS
<1>12. Flushed(row, new, here) = next
  BY <1>7, <1>11, Zenon DEF Flushed
<1>13. next \in EntryRows
  BY <1>4, <1>10, <1>11, Zenon DEF EntryRows
<1>14. next.client = here.client /\ next.joined = here.joined /\ next.init = i /\ next.rekt = k
  BY <1>4, <1>11 DEF EntryRows
<1>15. EntryOk(next, records, clock)
  <2>1. next.client # None => records[next.client] # None
    BY <1>14 DEF EntryOk
  <2>2. next.client # None /\ next.init # None
    BY <1>3, <1>5, <1>8, <1>14
  <2> QED BY <1>4, <1>13, <1>14, <2>1, <2>2 DEF EntryOk
<1>16. RowOk(new, next, records)
  BY <1>3, <1>4, <1>5, <1>8, <1>13, <1>14, NoneApart DEF RowOk
<1>17. here.rekt # None => next.rekt # None
  BY <1>3, <1>7, <1>14
<1>18. next.init # here.init => next.init = BalanceAtTime(here.client, here.joined)
  BY <1>9, <1>14
<1> QED BY <1>1, <1>3, <1>8, <1>12, <1>14, <1>15, <1>16, <1>17, <1>18, Zenon

LEMMA RateStep ==
  ASSUME ScoreInv, NEW s \in Sessions, Rate(s)
  PROVE  ScoreInv' /\ Once
<1>1. /\ clock' = clock /\ records' = records /\ scored' = scored /\ board' = board
      /\ session[s].phase = "loaded"
  BY DEF Rate
<1>2. PICK x : x = session[s]
  OBVIOUS
<1>3. PICK rows : rows = x.rows
  OBVIOUS
<1>4. PICK new : new = [e \in DOMAIN rows |-> Judged(Initialised(rows[e]))]
  OBVIOUS
<1>5. PICK changed : changed = {e \in DOMAIN rows : new[e] # rows[e]}
  OBVIOUS
<1>6. PICK known : known = {e \in DOMAIN rows : GainOf(new[e]) # None}
  OBVIOUS
<1>7. SessionOk(x, entry, records)
  BY <1>2 DEF ScoreInv, SessionsOk
<1>8. DOMAIN rows \subseteq Entries /\ \A e \in DOMAIN rows : RowOk(rows[e], entry[e], records)
  BY <1>3, <1>7 DEF SessionOk
<1>9. RecordsOk
  BY DEF ScoreInv
<1>10. RanksAreFair'
  BY <1>1, BoardAlone DEF ScoreInv
<1>11. CASE ~IsActive
  <2>1. /\ session' = [session EXCEPT ![s].phase = "rated", ![s].valid = [e \in {} |-> 0]]
        /\ entry' = entry
    BY <1>11 DEF Rate
  <2>2. PICK none : none = [e \in {} |-> 0]
    OBVIOUS
  <2>3. PICK P, Q, V : x = [phase |-> P, rows |-> Q, valid |-> V]
    BY <1>7 DEF SessionOk
  <2>4. PICK y : y = [phase |-> "rated", rows |-> Q, valid |-> none]
    OBVIOUS
  <2>5. session' = [session EXCEPT ![s] = y]
    <3>1. [x EXCEPT !.phase = "rated"] = [phase |-> "rated", rows |-> Q, valid |-> V]
      BY <2>3
    <3>2. [[x EXCEPT !.phase = "rated"] EXCEPT !.valid = none] = y
      <4>1. PICK z : z = [x EXCEPT !.phase = "rated"]
        OBVIOUS
      <4>2. z = [phase |-> "rated", rows |-> Q, valid |-> V]
        BY <3>1, <4>1
      <4>3. [z EXCEPT !.valid = none] = y
        BY <2>4, <4>2
      <4> QED BY <4>1, <4>3
    <3>3. session' = [session EXCEPT ![s] = [[x EXCEPT !.phase = "rated"] EXCEPT !.valid = none]]
      BY <1>2, <2>1, <2>2 DEF ScoreInv, SessionsOk
    <3> QED BY <3>2, <3>3
  <2>6. y.phase = "rated" /\ y.rows = x.rows /\ y.valid = none /\ DOMAIN none = {}
        /\ y = [phase |-> y.phase, rows |-> y.rows, valid |-> y.valid]
    BY <2>2, <2>3, <2>4
  <2>7. SessionOk(y, entry, records)
    BY <1>7, <2>6 DEF SessionOk
  <2>8. SessionsOk'
    BY <1>1, <2>1, <2>5, <2>7, SessionsStep
  <2>9. RecordsOk' /\ EntriesOk' /\ Once
    BY <1>1, <2>1, EntriesAlone
  <2> QED BY <1>10, <2>8, <2>9 DEF ScoreInv
<1>12. ASSUME entry' = entry, NEW flushed \in BOOLEAN, Dropped(s, flushed)
       PROVE  ScoreInv' /\ Once
  <2>1. SessionsOk'
    BY <1>1, <1>12, DroppedStep
  <2>2. RecordsOk' /\ EntriesOk' /\ Once
    BY <1>1, <1>12, EntriesAlone
  <2> QED BY <1>10, <2>1, <2>2 DEF ScoreInv
<1>13. CASE IsActive /\ CannotRate(rows)
  <2>1. Dropped(s, FALSE) /\ entry' = entry
    BY <1>2, <1>3, <1>13 DEF Rate
  <2>2. FALSE \in BOOLEAN
    OBVIOUS
  <2> QED BY <1>12, <2>1, <2>2
<1>14. CASE IsActive /\ ~CannotRate(rows) /\ \E e \in changed : ~Exists(e)
  <2>1. Dropped(s, TRUE) /\ entry' = entry
    BY <1>2, <1>3, <1>4, <1>5, <1>14 DEF Rate
  <2>2. TRUE \in BOOLEAN
    OBVIOUS
  <2> QED BY <1>12, <2>1, <2>2
<1>15. CASE IsActive /\ ~CannotRate(rows) /\ ~ \E e \in changed : ~Exists(e)
  <2>1. entry' = [e \in Entries |-> IF e \in changed
                                    THEN Flushed(rows[e], new[e], entry[e]) ELSE entry[e]]
    BY <1>2, <1>3, <1>4, <1>5, <1>15 DEF Rate
  <2>2. session' = [session EXCEPT ![s] =
                      [phase |-> "rated", rows |-> new, valid |-> [e \in known |-> GainOf(new[e])]]]
    BY <1>2, <1>3, <1>4, <1>5, <1>6, <1>15 DEF Rate
  <2>3. DOMAIN new = DOMAIN rows /\ \A e \in DOMAIN rows : new[e] = Judged(Initialised(rows[e]))
    BY <1>4
  <2>4. \A e \in DOMAIN rows : Initialised(rows[e]).init # None
    BY <1>15 DEF CannotRate
  <2>5. ASSUME NEW e \in changed
        PROVE  /\ e \in Entries /\ Exists(e)
               /\ EntryOk(entry'[e], records, clock)
               /\ RowOk(new[e], entry'[e], records)
               /\ entry'[e].init # None /\ entry'[e].client = entry[e].client
               /\ entry'[e].joined = entry[e].joined
               /\ entry[e].rekt # None => entry'[e].rekt # None
               /\ entry'[e].init # entry[e].init =>
                    entry'[e].init = BalanceAtTime(entry[e].client, entry[e].joined)
    <3>1. e \in DOMAIN rows /\ e \in Entries /\ Exists(e)
      BY <1>5, <1>8, <1>15
    <3>2. PICK here, row : here = entry[e] /\ row = rows[e]
      OBVIOUS
    <3>3. RowOk(row, here, records) /\ here # Gone /\ Initialised(row).init # None
      BY <1>8, <2>4, <3>1, <3>2 DEF Exists
    <3>4. EntryOk(here, records, clock)
      BY <3>1, <3>2 DEF ScoreInv, EntriesOk
    <3>5. PICK nw : nw = Judged(Initialised(row))
      OBVIOUS
    <3>6. PICK next : next = Flushed(row, nw, here)
      OBVIOUS
    <3>7. /\ EntryOk(next, records, clock)
          /\ RowOk(nw, next, records)
          /\ next.init # None /\ next.client = here.client /\ next.joined = here.joined
          /\ here.rekt # None => next.rekt # None
          /\ next.init # here.init => next.init = BalanceAtTime(here.client, here.joined)
      BY <1>9, <3>3, <3>4, <3>5, <3>6, FlushedEntry
    <3>8. new[e] = nw
      BY <2>3, <3>1, <3>2, <3>5
    <3>9. entry'[e] = next
      BY <2>1, <3>1, <3>2, <3>6, <3>8
    <3> QED BY <3>1, <3>2, <3>7, <3>8, <3>9
  <2>6. DOMAIN entry' = Entries /\ \A e \in Entries : e \notin changed => entry'[e] = entry[e]
    BY <2>1
  <2>7. \A e \in Entries : Exists(e)' <=> Exists(e)
    <3> SUFFICES ASSUME NEW e \in Entries PROVE Exists(e)' <=> Exists(e)
      OBVIOUS
    <3>1. CASE e \in changed
      <4>1. Exists(e) /\ entry'[e] \in EntryRows
        BY <2>5, <3>1 DEF EntryOk
      <4> QED BY <4>1, NoneApart DEF Exists
    <3>2. CASE e \notin changed
      BY <2>6, <3>2 DEF Exists
    <3> QED BY <3>1, <3>2
  <2>8. EntriesOk'
    <3>1. ASSUME NEW e \in Entries, Exists(e) PROVE EntryOk(entry'[e], records, clock)
      <4>1. CASE e \in changed
        BY <2>5, <4>1
      <4>2. CASE e \notin changed
        BY <2>6, <3>1, <4>2 DEF ScoreInv, EntriesOk
      <4> QED BY <4>1, <4>2
    <3>2. ASSUME NEW e \in scored PROVE e \in Entries /\ Exists(e) /\ entry'[e].init # None
      <4>1. e \in Entries /\ Exists(e) /\ entry[e].init # None
        BY DEF ScoreInv, EntriesOk
      <4>2. CASE e \in changed
        BY <2>5, <4>1, <4>2
      <4>3. CASE e \notin changed
        BY <2>6, <4>1, <4>3
      <4> QED BY <4>1, <4>2, <4>3
    <3> QED BY <1>1, <2>6, <2>7, <3>1, <3>2 DEF EntriesOk
  <2>9. Once
    <3> SUFFICES ASSUME NEW e \in Entries, Exists(e), Exists(e)'
                 PROVE  /\ entry[e].rekt # None => entry'[e].rekt # None
                        /\ entry[e].init # None => entry'[e].init # None
                        /\ entry'[e].init # entry[e].init =>
                             entry'[e].init = BalanceAtTime(entry[e].client, entry[e].joined)
      BY DEF Once, Stays
    <3>1. CASE e \in changed
      BY <2>5, <3>1
    <3>2. CASE e \notin changed
      BY <2>6, <3>2
    <3> QED BY <3>1, <3>2
  <2>10. ASSUME NEW u \in Sessions, NEW e \in DOMAIN session[u].rows
         PROVE  RowOk(session[u].rows[e], entry'[e], records)
    <3>1. PICK row : row = session[u].rows[e]
      OBVIOUS
    <3>2. e \in Entries /\ RowOk(row, entry[e], records)
      BY <3>1 DEF ScoreInv, SessionsOk, SessionOk
    <3>3. CASE e \in changed
      <4>1. PICK here, next : here = entry[e] /\ next = entry'[e]
        OBVIOUS
      <4>2. /\ here # Gone /\ next \in EntryRows
            /\ next.client = here.client /\ next.joined = here.joined
            /\ next.init # None
        BY <2>5, <3>3, <4>1 DEF Exists, EntryOk
      <4>3. RowOk(row, next, records)
        BY <3>2, <4>1, <4>2, NoneApart DEF RowOk
      <4> QED BY <3>1, <4>1, <4>3
    <3>4. CASE e \notin changed
      BY <2>6, <3>1, <3>2, <3>4
    <3> QED BY <3>3, <3>4
  <2>11. PICK V : V = [e \in known |-> GainOf(new[e])]
    OBVIOUS
  <2>12. PICK y : y = [phase |-> "rated", rows |-> new, valid |-> V]
    OBVIOUS
  <2>13. SessionOk(y, entry', records)
    <3>1. /\ y.phase = "rated" /\ y.rows = new /\ y.valid = V
          /\ y = [phase |-> y.phase, rows |-> y.rows, valid |-> y.valid]
      BY <2>12
    <3>2. ASSUME NEW e \in DOMAIN new PROVE RowOk(new[e], entry'[e], records) /\ new[e].init # None
      <4>1. PICK row, nw : row = rows[e] /\ nw = new[e]
        OBVIOUS
      <4>2. nw = Judged(Initialised(row)) /\ Initialised(row).init # None
        BY <2>3, <2>4, <4>1
      <4>3. RowOk(row, entry[e], records)
        BY <1>8, <2>3, <4>1
      <4>4. row \in EntryRows /\ (row.client = None => row.init = None)
        BY <4>3 DEF RowOk
      <4>5. nw.init # None
        BY <1>9, <4>2, <4>4, NewRow
      <4>6. CASE e \in changed
        BY <2>5, <4>1, <4>5, <4>6
      <4>7. CASE e \notin changed
        <5>1. nw = row
          BY <1>5, <2>3, <4>1, <4>7
        <5>2. entry'[e] = entry[e]
          BY <1>8, <2>3, <2>6, <4>7
        <5> QED BY <4>1, <4>3, <4>5, <5>1, <5>2
      <4> QED BY <4>6, <4>7
    <3>3. DOMAIN V = known /\ known \subseteq DOMAIN new
      BY <1>6, <2>3, <2>11
    <3>4. ASSUME NEW e \in known PROVE V[e] \in Int
      <4>1. PICK nw : nw = new[e]
        OBVIOUS
      <4>2. V[e] = GainOf(nw) /\ GainOf(nw) # None
        BY <1>6, <2>11, <4>1
      <4>3. RowOk(nw, entry'[e], records) /\ nw.init # None
        BY <3>2, <3>3, <4>1
      <4>4. nw \in EntryRows /\ nw.client # None
        BY <4>3 DEF RowOk
      <4> QED BY <1>9, <4>2, <4>3, <4>4, GainIs
    <3> QED BY <1>8, <2>3, <3>1, <3>2, <3>3, <3>4 DEF SessionOk
  <2>14. SessionsOk'
    <3>1. session' = [session EXCEPT ![s] = y]
      BY <2>2, <2>11, <2>12
    <3>2. /\ DOMAIN session' = Sessions /\ session'[s] = y
          /\ \A u \in Sessions : u # s => session'[u] = session[u]
      BY <3>1 DEF ScoreInv, SessionsOk
    <3>3. \A u \in Sessions : SessionOk(session[u], entry', records)
      BY <2>10 DEF ScoreInv, SessionsOk, SessionOk
    <3>4. \A u \in Sessions : SessionOk(session'[u], entry', records)
      BY <2>13, <3>2, <3>3
    <3> QED BY <1>1, <3>2, <3>4 DEF SessionsOk
  <2>15. RecordsOk'
    BY <1>1, <1>9 DEF RecordsOk
  <2> QED BY <1>10, <2>8, <2>9, <2>14, <2>15 DEF ScoreInv
<1> QED BY <1>11, <1>13, <1>14, <1>15

LEMMA ScoreStep == ScoreInv /\ [ScoreNext]_scoreVars => ScoreInv' /\ (Once \/ UNCHANGED scoreVars)
<1> SUFFICES ASSUME ScoreInv, [ScoreNext]_scoreVars
             PROVE  ScoreInv' /\ (Once \/ UNCHANGED scoreVars)
  OBVIOUS
<1>1. CASE ScoreNext
  BY <1>1, JoinStep, DeleteClientStep, StoreBalanceStep, LeaveStep, LoadStep, RateStep, SaveStep,
     TickStep DEF ScoreNext
<1>2. CASE UNCHANGED scoreVars
  <2>1. /\ clock' = clock /\ records' = records /\ entry' = entry /\ scored' = scored
        /\ session' = session /\ board' = board
    BY <1>2 DEF scoreVars
  <2>2. RecordsOk' /\ EntriesOk'
    BY <2>1, EntriesAlone
  <2>3. SessionsOk'
    BY <2>1 DEF ScoreInv, SessionsOk
  <2>4. RanksAreFair'
    BY <2>1, BoardAlone DEF ScoreInv
  <2> QED BY <1>2, <2>2, <2>3, <2>4 DEF ScoreInv
<1> QED BY <1>1, <1>2

\* An entry that a deleted client leaves behind was never measured, equal gains share a
\* rank, and where an entry starts is never lost, nor replaced by anything but what the
\* client's balances give when it is, for any entries, clients and balances, stored of now
\* or of the past, whatever the sessions that compute the leaderboard had loaded when
\* they wrote (get_leaderboard, save_leaderboard).
THEOREM ScoresShown == ScoreSpec => ScoresAreFair
<1>1. ScoreInit => ScoreInv
  BY ScoreStarts
<1>2. ScoreInv /\ [ScoreNext]_scoreVars => ScoreInv'
  BY ScoreStep
<1>3. ScoreInv /\ [ScoreNext]_scoreVars => [Once]_scoreVars
  BY ScoreStep
<1>4. ScoreInv => OrphansUnscored
  BY DEF ScoreInv, EntriesOk, EntryOk, OrphansUnscored
<1>5. ScoreInv => RanksAreFair
  BY DEF ScoreInv
<1>6. MeasuredFromStart <=> [][Once]_scoreVars
  BY DEF MeasuredFromStart, Once
<1> QED BY <1>1, <1>2, <1>3, <1>4, <1>5, <1>6, PTL DEF ScoreSpec, ScoresAreFair

-----------------------------------------------------------------------------
(***************************************************************************)
(* Theorems about Notes: for any labels, groups and trades, journals,      *)
(* chapters and templates, and any number of requests about labels.  A     *)
(* request commits all that it was asked for (UpdatesOk); chapters refer   *)
(* to what there is, and their dates are those of a period of their        *)
(* journal (JournalInv), whose number is never given again.                *)
(***************************************************************************)

\* A request has read, or is about to commit, and commits all that it was asked for.
UpdatesOk ==
  /\ DOMAIN updates = TradeRequests /\ DOMAIN readers = TradeRequests
  /\ \A r \in TradeRequests : readers[r] = NoUpdate \/ updates[r] = NoUpdate
  /\ \A r \in TradeRequests : updates[r] # NoUpdate => updates[r].asked = updates[r].inserts

\* What a commit owes.
Asked == \A r \in TradeRequests :
           updates[r] # NoUpdate /\ updates'[r] = NoUpdate => updates[r].asked \subseteq tagged'

LEMMA LabelsStep ==
  ASSUME UpdatesOk, LabelNext
  PROVE  UpdatesOk' /\ Asked
<1>1. CASE UNCHANGED <<updates, readers>>
  BY <1>1 DEF UpdatesOk, Asked
<1>2. ASSUME NEW r \in TradeRequests, NEW t, NEW asked, NEW named, ReadTrade(r, t, asked, named)
      PROVE  UpdatesOk' /\ Asked
  BY <1>2 DEF ReadTrade, UpdatesOk, Asked
<1>3. ASSUME NEW r \in TradeRequests, Execute(r) PROVE UpdatesOk' /\ Asked
  <2>1. PICK rows, gone : updates' = [updates EXCEPT ![r] =
                            [asked |-> rows, inserts |-> rows, deletes |-> gone]]
    BY <1>3 DEF Execute, AddedLabels
  <2>2. readers' = [readers EXCEPT ![r] = NoUpdate] /\ readers[r] # NoUpdate
    BY <1>3 DEF Execute
  <2>3. updates'[r].asked = updates'[r].inserts
    BY <2>1 DEF UpdatesOk
  <2>4. \A q \in TradeRequests : q # r => updates'[q] = updates[q] /\ readers'[q] = readers[q]
    BY <2>1, <2>2 DEF UpdatesOk
  <2>5. updates[r] = NoUpdate /\ readers'[r] = NoUpdate
    BY <2>2 DEF UpdatesOk
  <2>6. DOMAIN updates' = TradeRequests /\ DOMAIN readers' = TradeRequests
    BY <2>1, <2>2 DEF UpdatesOk
  <2>7. UpdatesOk'
    BY <2>3, <2>4, <2>5, <2>6 DEF UpdatesOk
  <2>8. Asked
    BY <2>4, <2>5 DEF Asked
  <2> QED BY <2>7, <2>8
<1>4. ASSUME NEW r \in TradeRequests, FailUpdate(r) PROVE UpdatesOk' /\ Asked
  BY <1>4 DEF FailUpdate, UpdatesOk, Asked
<1>5. ASSUME NEW r \in TradeRequests, CommitTrade(r) PROVE UpdatesOk' /\ Asked
  <2>1. /\ updates' = [updates EXCEPT ![r] = NoUpdate] /\ readers' = readers
        /\ updates[r].inserts \subseteq tagged' /\ updates[r] # NoUpdate
    BY <1>5 DEF CommitTrade
  <2>2. updates[r].asked \subseteq tagged'
    BY <2>1 DEF UpdatesOk
  <2>3. UpdatesOk'
    BY <2>1 DEF UpdatesOk
  <2>4. Asked
    BY <2>1, <2>2 DEF UpdatesOk, Asked
  <2> QED BY <2>3, <2>4
<1>6. ASSUME NEW g, CreateGroup(g) PROVE UNCHANGED <<updates, readers>>
  BY <1>6 DEF CreateGroup
<1>7. ASSUME NEW g, DeleteGroup(g) PROVE UNCHANGED <<updates, readers>>
  BY <1>7 DEF DeleteGroup
<1>8. ASSUME NEW l, DeleteLabel(l) PROVE UNCHANGED <<updates, readers>>
  BY <1>8 DEF DeleteLabel
<1>9. ASSUME NEW l, NEW g, CreateLabel(l, g) PROVE UNCHANGED <<updates, readers>>
  BY <1>9 DEF CreateLabel
<1>10. ASSUME NEW l, NEW g, MoveLabel(l, g) PROVE UNCHANGED <<updates, readers>>
  BY <1>10 DEF MoveLabel
<1> QED BY <1>1, <1>2, <1>3, <1>4, <1>5, <1>6, <1>7, <1>8, <1>9, <1>10 DEF LabelNext

\* A request that succeeds leaves the trade with every label it was asked for, for any
\* requests, trades and labels (update_trade).
THEOREM LabelsKept == LabelSpec => AskedAreThere
<1>1. LabelInit => UpdatesOk
  BY DEF LabelInit, UpdatesOk
<1>2. UpdatesOk /\ [LabelNext]_labelVars => UpdatesOk'
  <2>1. ASSUME UpdatesOk, UNCHANGED labelVars PROVE UpdatesOk'
    BY <2>1 DEF UpdatesOk, labelVars
  <2> QED BY <2>1, LabelsStep
<1>3. UpdatesOk /\ [LabelNext]_labelVars => [Asked]_labelVars
  BY LabelsStep
<1>4. AskedAreThere <=> [][Asked]_labelVars
  BY DEF AskedAreThere, Asked
<1> QED BY <1>1, <1>2, <1>3, <1>4, PTL DEF LabelSpec

-----------------------------------------------------------------------------
\* What a deletion reaches: all that is asked for, and with a chapter its children.
LEMMA UnderHas ==
  ASSUME NEW roots, roots \subseteq DOMAIN chapters
  PROVE  roots \subseteq Under(roots)
BY DEF Under

LEMMA UnderClosed ==
  ASSUME NEW roots, NEW c \in DOMAIN chapters, chapters[c].parent \in Under(roots)
  PROVE  c \in Under(roots)
<1> SUFFICES ASSUME NEW S \in SUBSET DOMAIN chapters, roots \subseteq S,
                    \A d \in DOMAIN chapters : chapters[d].parent \in S => d \in S
             PROVE  c \in S
  BY DEF Under
<1>1. chapters[c].parent \in S
  BY DEF Under
<1> QED BY <1>1

\* A chapter is only reached when it is asked for, or its parent is reached.
LEMMA UnderParent ==
  ASSUME NEW roots, roots \subseteq DOMAIN chapters, NEW c \in Under(roots), c \notin roots
  PROVE  chapters[c].parent \in Under(roots)
<1> SUFFICES ASSUME chapters[c].parent \notin Under(roots) PROVE FALSE
  OBVIOUS
<1>1. PICK S : S = Under(roots) \ {c}
  OBVIOUS
<1>2. S \in SUBSET DOMAIN chapters
  BY <1>1 DEF Under
<1>3. roots \subseteq S
  BY <1>1, UnderHas
<1>4. ASSUME NEW d \in DOMAIN chapters, chapters[d].parent \in S PROVE d \in S
  <2>1. d \in Under(roots)
    BY <1>1, <1>4, UnderClosed
  <2>2. d # c
    BY <1>1, <1>4
  <2> QED BY <1>1, <2>1, <2>2
<1>5. c \in S
  BY <1>2, <1>3, <1>4 DEF Under
<1> QED BY <1>1, <1>5

-----------------------------------------------------------------------------
\* The period of a day is that of every day in it, and periods of the same length lie
\* beside each other.
LEMMA PeriodIs ==
  ASSUME NEW kind, NEW day \in Nat
  PROVE  \E length \in Nat \ {0}, n \in Nat :
           /\ length = CASE kind = "week" -> WeekLen [] kind = "month" -> MonthLen [] OTHER -> 1
           /\ Period(kind, day) = [since |-> length * n, to |-> length * n + length - 1,
                                   dated |-> TRUE]
<1>1. PICK length : length = CASE kind = "week" -> WeekLen [] kind = "month" -> MonthLen
                               [] OTHER -> 1
  OBVIOUS
<1>2. length \in Nat \ {0}
  BY <1>1, JournalAssumption
<1>3. PICK n : n = day \div length
  OBVIOUS
<1>4. n \in Nat
  BY <1>2, <1>3
<1>5. Period(kind, day) = [since |-> length * n, to |-> length * n + length - 1, dated |-> TRUE]
  BY <1>1, <1>3, Zenon DEF Period
<1> QED BY <1>1, <1>2, <1>4, <1>5

LEMMA Multiples ==
  ASSUME NEW length \in Nat \ {0}, NEW m \in Nat, NEW n \in Nat, m < n
  PROVE  length * m + length - 1 < length * n
<1>1. PICK d \in Nat : n = m + 1 + d
  <2>1. n - m - 1 \in Nat /\ n = m + 1 + (n - m - 1)
    OBVIOUS
  <2> QED BY <2>1
<1>2. length * n = length * m + length + length * d
  BY <1>1
<1>3. length * d \in Nat /\ length * m \in Nat
  OBVIOUS
<1> QED BY <1>2, <1>3

LEMMA PeriodsApart ==
  ASSUME NEW kind, NEW x \in Nat, NEW y \in Nat
  PROVE  LET a == Period(kind, x)
             b == Period(kind, y)
         IN  a = b \/ a.to < b.since \/ b.to < a.since
<1>1. PICK length \in Nat \ {0}, m \in Nat :
        /\ length = CASE kind = "week" -> WeekLen [] kind = "month" -> MonthLen [] OTHER -> 1
        /\ Period(kind, x) = [since |-> length * m, to |-> length * m + length - 1, dated |-> TRUE]
  BY PeriodIs
<1>2. PICK long \in Nat \ {0}, n \in Nat :
        /\ long = CASE kind = "week" -> WeekLen [] kind = "month" -> MonthLen [] OTHER -> 1
        /\ Period(kind, y) = [since |-> long * n, to |-> long * n + long - 1, dated |-> TRUE]
  BY PeriodIs
<1>3. long = length
  BY <1>1, <1>2
<1>4. PICK a, b : a = Period(kind, x) /\ b = Period(kind, y)
  OBVIOUS
<1>5. /\ a.since = length * m /\ a.to = length * m + length - 1
      /\ b.since = length * n /\ b.to = length * n + length - 1
  BY <1>1, <1>2, <1>3, <1>4
<1>6. CASE m = n
  BY <1>1, <1>2, <1>3, <1>6
<1>7. CASE m < n
  BY <1>4, <1>5, <1>7, Multiples
<1>8. CASE n < m
  BY <1>4, <1>5, <1>8, Multiples
<1> QED BY <1>6, <1>7, <1>8

-----------------------------------------------------------------------------
JournalRow(x) == x = [kind |-> x.kind, default |-> x.default]
ChapterRow(x) == x = [journal |-> x.journal, parent |-> x.parent, template |-> x.template,
                      edited |-> x.edited, dates |-> x.dates]

\* The dates of a row that nobody has edited are of the period that its journal is of.
DatedBy(x, js) == /\ x.dates.dated /\ ~x.edited /\ x.journal \in DOMAIN js
                  => \E day \in Nat : x.dates = Period(js[x.journal].kind, day)

Tables ==
  /\ today \in Nat
  /\ DOMAIN journals \subseteq usedIds
  /\ \A j \in DOMAIN journals : JournalRow(journals[j])
  /\ \A c \in DOMAIN chapters : ChapterRow(chapters[c]) /\ DatedBy(chapters[c], journals)
  /\ request.kind = "create" =>
       /\ ChapterRow(request.row) /\ DatedBy(request.row, journals)
       /\ request.row.journal \in usedIds

JournalInv == Tables /\ NothingDangles

\* What a step may never do to a chapter.
Kept == \A c \in DOMAIN chapters \ DOMAIN chapters' :
          \/ chapters[c].journal \notin DOMAIN journals'
          \/ chapters[c].parent \in DOMAIN chapters \ DOMAIN chapters'
          \/ \A d \in DOMAIN chapters \ DOMAIN chapters' : d \in Under({c})

LEMMA AllKept ==
  ASSUME DOMAIN chapters \subseteq DOMAIN chapters'
  PROVE  Kept
BY DEF Kept

\* Only the request and the day change.
LEMMA TablesStay ==
  ASSUME JournalInv, UNCHANGED <<journals, chapters, templates, usedIds>>, today' \in Nat,
         request'.kind = "create" =>
           /\ ChapterRow(request'.row) /\ DatedBy(request'.row, journals)
           /\ request'.row.journal \in usedIds
  PROVE  JournalInv' /\ Kept
<1>1. Tables'
  BY DEF JournalInv, Tables
<1>2. NothingDangles'
  BY DEF JournalInv, NothingDangles, KeysHold, Maybe
<1>3. Kept
  BY AllKept
<1> QED BY <1>1, <1>2, <1>3 DEF JournalInv

LEMMA NextDayStep ==
  ASSUME JournalInv, NextDay
  PROVE  JournalInv' /\ Kept
<1>1. UNCHANGED <<journals, chapters, templates, usedIds, request>> /\ today' = today + 1
  BY DEF NextDay
<1>2. today' \in Nat
  BY <1>1 DEF JournalInv, Tables
<1>3. request'.kind = "create" =>
        /\ ChapterRow(request'.row) /\ DatedBy(request'.row, journals)
        /\ request'.row.journal \in usedIds
  BY <1>1 DEF JournalInv, Tables
<1> QED BY <1>1, <1>2, <1>3, TablesStay

LEMMA BeginChapterStep ==
  ASSUME JournalInv, BeginChapter
  PROVE  JournalInv' /\ Kept
<1>1. UNCHANGED <<journals, chapters, templates, usedIds, today>>
  BY DEF BeginChapter
<1>2. today \in Nat
  BY DEF JournalInv, Tables
<1>3. PICK j, p, t, dates :
        /\ j \in DOMAIN journals
        /\ request' = [kind |-> "create", parent |-> p,
                       row |-> [journal |-> j, parent |-> p, template |-> t, edited |-> FALSE,
                                dates |-> dates]]
        /\ dates = IF journals[j].kind = "manual" THEN NoDates ELSE Period(journals[j].kind, today)
  BY DEF BeginChapter, QueryJournal
<1>4. PICK row : row = request'.row
  OBVIOUS
<1>5. row = [journal |-> j, parent |-> p, template |-> t, edited |-> FALSE, dates |-> dates]
  BY <1>3, <1>4
<1>6. ChapterRow(row) /\ row.journal = j /\ row.dates = dates
  BY <1>5 DEF ChapterRow
<1>7. DatedBy(row, journals)
  <2>1. CASE journals[j].kind = "manual"
    <3>1. ~ dates.dated
      BY <1>3, <2>1 DEF NoDates
    <3> QED BY <1>6, <3>1 DEF DatedBy
  <2>2. CASE journals[j].kind # "manual"
    <3>1. dates = Period(journals[j].kind, today)
      BY <1>3, <2>2
    <3> QED BY <1>2, <1>6, <3>1 DEF DatedBy
  <2> QED BY <2>1, <2>2
<1>8. row.journal \in usedIds
  BY <1>3, <1>6 DEF JournalInv, Tables
<1> QED BY <1>1, <1>2, <1>4, <1>6, <1>7, <1>8, TablesStay

LEMMA BeginUpdateStep ==
  ASSUME JournalInv, BeginUpdate
  PROVE  JournalInv' /\ Kept
<1>1. UNCHANGED <<journals, chapters, templates, usedIds, today>>
  BY DEF BeginUpdate
<1>2. today' \in Nat
  BY <1>1 DEF JournalInv, Tables
<1>3. request'.kind = "update"
  BY DEF BeginUpdate
<1> QED BY <1>1, <1>2, <1>3, TablesStay

LEMMA RejectedStep ==
  ASSUME JournalInv, Rejected
  PROVE  JournalInv' /\ Kept
<1>1. UNCHANGED <<journals, chapters, templates, usedIds, today>> /\ request' = NoRequest
  BY DEF Rejected
<1>2. today' \in Nat
  BY <1>1 DEF JournalInv, Tables
<1>3. request'.kind # "create"
  BY <1>1 DEF NoRequest
<1> QED BY <1>1, <1>2, <1>3, TablesStay

LEMMA CreateJournalStep ==
  ASSUME JournalInv, CreateJournal
  PROVE  JournalInv' /\ Kept
<1>1. /\ chapters' = chapters /\ templates' = templates /\ request' = request /\ today' = today
  BY DEF CreateJournal
<1>2. PICK j, kind : /\ j \notin usedIds /\ usedIds' = usedIds \union {j}
                     /\ journals' = AddedJournal(journals, j, [kind |-> kind, default |-> Null])
  BY DEF CreateJournal, NextId
<1>3. /\ DOMAIN journals' = DOMAIN journals \union {j} /\ j \notin DOMAIN journals
      /\ journals'[j] = [kind |-> kind, default |-> Null]
      /\ \A i \in DOMAIN journals : journals'[i] = journals[i]
  BY <1>2 DEF AddedJournal, JournalInv, Tables
<1>4. ASSUME NEW x, DatedBy(x, journals), x.journal # j PROVE DatedBy(x, journals')
  BY <1>3, <1>4 DEF DatedBy
<1>5. \A c \in DOMAIN chapters : chapters[c].journal \in DOMAIN journals
  BY DEF JournalInv, NothingDangles, KeysHold
<1>6. \A c \in DOMAIN chapters : ChapterRow(chapters[c]) /\ DatedBy(chapters[c], journals')
  BY <1>3, <1>4, <1>5 DEF JournalInv, Tables
<1>7. request.kind = "create" =>
        /\ ChapterRow(request.row) /\ DatedBy(request.row, journals')
        /\ request.row.journal \in usedIds'
  BY <1>2, <1>4 DEF JournalInv, Tables
<1>8. \A i \in DOMAIN journals' : JournalRow(journals'[i])
  <2>1. JournalRow(journals'[j])
    BY <1>3 DEF JournalRow
  <2> QED BY <1>3, <2>1 DEF JournalInv, Tables
<1>9. DOMAIN journals' \subseteq usedIds' /\ today \in Nat
  BY <1>2, <1>3 DEF JournalInv, Tables
<1>10. Tables'
  BY <1>1, <1>6, <1>7, <1>8, <1>9 DEF Tables
<1>11. NothingDangles'
  <2>1. \A i \in DOMAIN journals' : journals'[i].default \in Maybe(DOMAIN templates)
    BY <1>3 DEF JournalInv, NothingDangles, Maybe
  <2>2. ASSUME NEW c \in DOMAIN chapters PROVE KeysHold(chapters[c])'
    <3>1. KeysHold(chapters[c])
      BY DEF JournalInv, NothingDangles
    <3> QED BY <1>1, <1>3, <3>1 DEF KeysHold, Maybe
  <2> QED BY <1>1, <2>1, <2>2 DEF NothingDangles, Maybe
<1>12. Kept
  BY <1>1, AllKept
<1> QED BY <1>10, <1>11, <1>12 DEF JournalInv

\* The kinds of journals stay, and so do the journals there are: the dates of chapters
\* are those of their journals.
LEMMA SameKinds ==
  ASSUME JournalInv, DOMAIN journals' = DOMAIN journals,
         \A j \in DOMAIN journals : /\ JournalRow(journals'[j])
                                    /\ journals'[j].kind = journals[j].kind,
         usedIds \subseteq usedIds', request' = request, today' = today,
         DOMAIN chapters' = DOMAIN chapters,
         \A c \in DOMAIN chapters : /\ ChapterRow(chapters'[c])
                                    /\ chapters'[c].journal = chapters[c].journal
                                    /\ chapters'[c].edited = chapters[c].edited
                                    /\ chapters'[c].dates = chapters[c].dates
  PROVE  Tables'
<1>1. ASSUME NEW x, DatedBy(x, journals) PROVE DatedBy(x, journals')
  BY <1>1 DEF DatedBy
<1>2. ASSUME NEW c \in DOMAIN chapters
      PROVE  ChapterRow(chapters'[c]) /\ DatedBy(chapters'[c], journals')
  <2>1. DatedBy(chapters[c], journals')
    BY <1>1 DEF JournalInv, Tables
  <2> QED BY <2>1 DEF DatedBy
<1>3. request.kind = "create" =>
        /\ ChapterRow(request.row) /\ DatedBy(request.row, journals')
        /\ request.row.journal \in usedIds'
  BY <1>1 DEF JournalInv, Tables
<1>4. DOMAIN journals' \subseteq usedIds' /\ today \in Nat
  BY DEF JournalInv, Tables
<1> QED BY <1>2, <1>3, <1>4 DEF Tables

LEMMA UpdateJournalStep ==
  ASSUME JournalInv, UpdateJournal
  PROVE  JournalInv' /\ Kept
<1>1. /\ chapters' = chapters /\ templates' = templates /\ request' = request /\ today' = today
      /\ usedIds' = usedIds
  BY DEF UpdateJournal
<1>2. PICK j \in DOMAIN journals, t \in DOMAIN templates :
        journals' = [journals EXCEPT ![j].default = t]
  BY DEF UpdateJournal, QueryJournal
<1>3. PICK K, D : journals[j] = [kind |-> K, default |-> D]
  BY DEF JournalInv, Tables, JournalRow
<1>4. /\ DOMAIN journals' = DOMAIN journals /\ journals'[j] = [kind |-> K, default |-> t]
      /\ \A i \in DOMAIN journals : i # j => journals'[i] = journals[i]
  <2>1. journals' = [journals EXCEPT ![j] = [journals[j] EXCEPT !.default = t]]
    BY <1>2
  <2>2. [journals[j] EXCEPT !.default = t] = [kind |-> K, default |-> t]
    BY <1>3
  <2> QED BY <2>1, <2>2
<1>5. \A i \in DOMAIN journals : JournalRow(journals'[i]) /\ journals'[i].kind = journals[i].kind
  <2>1. JournalRow(journals'[j]) /\ journals'[j].kind = journals[j].kind
    BY <1>3, <1>4 DEF JournalRow
  <2> QED BY <1>4, <2>1 DEF JournalInv, Tables
<1>6. \A c \in DOMAIN chapters : ChapterRow(chapters[c])
  BY DEF JournalInv, Tables
<1>7. Tables'
  BY <1>1, <1>4, <1>5, <1>6, SameKinds
<1>8. NothingDangles'
  <2>1. \A i \in DOMAIN journals' : journals'[i].default \in Maybe(DOMAIN templates)
    BY <1>4 DEF JournalInv, NothingDangles, Maybe
  <2>2. ASSUME NEW c \in DOMAIN chapters PROVE KeysHold(chapters[c])'
    <3>1. KeysHold(chapters[c])
      BY DEF JournalInv, NothingDangles
    <3> QED BY <1>1, <1>4, <3>1 DEF KeysHold, Maybe
  <2> QED BY <1>1, <2>1, <2>2 DEF NothingDangles, Maybe
<1>9. Kept
  BY <1>1, AllKept
<1> QED BY <1>7, <1>8, <1>9 DEF JournalInv

LEMMA CreateTemplateStep ==
  ASSUME JournalInv, CreateTemplate
  PROVE  JournalInv' /\ Kept
<1>1. chapters' = chapters /\ request' = request /\ today' = today
  BY DEF CreateTemplate
<1>2. PICK t \in NextId(TemplateIds), j \in Maybe(DOMAIN journals) :
        /\ templates' = AddedJournal(templates, t, FALSE)
        /\ usedIds' = usedIds \union {t}
        /\ journals' = [i \in DOMAIN journals |->
                           IF i = j THEN [journals[i] EXCEPT !.default = t] ELSE journals[i]]
  BY Zenon DEF CreateTemplate
<1>3. DOMAIN templates' = DOMAIN templates \union {t}
  BY <1>2 DEF AddedJournal
<1>4. DOMAIN journals' = DOMAIN journals
  BY <1>2
<1>5. ASSUME NEW i \in DOMAIN journals
      PROVE  /\ JournalRow(journals'[i]) /\ journals'[i].kind = journals[i].kind
             /\ journals'[i].default \in {t, journals[i].default}
  <2>1. PICK K, D : journals[i] = [kind |-> K, default |-> D]
    BY DEF JournalInv, Tables, JournalRow
  <2>2. CASE i = j
    <3>1. journals'[i] = [journals[i] EXCEPT !.default = t]
      BY <1>2, <2>2
    <3>2. journals'[i] = [kind |-> K, default |-> t]
      BY <2>1, <3>1
    <3> QED BY <2>1, <3>2 DEF JournalRow
  <2>3. CASE i # j
    <3>1. journals'[i] = journals[i]
      BY <1>2, <2>3
    <3> QED BY <2>1, <3>1 DEF JournalRow
  <2> QED BY <2>2, <2>3
<1>6. \A c \in DOMAIN chapters : ChapterRow(chapters[c])
  BY DEF JournalInv, Tables
<1>7. Tables'
  BY <1>1, <1>2, <1>4, <1>5, <1>6, SameKinds
<1>8. NothingDangles'
  <2>1. \A i \in DOMAIN journals' : journals'[i].default \in Maybe(DOMAIN templates')
    BY <1>3, <1>4, <1>5 DEF JournalInv, NothingDangles, Maybe
  <2>2. ASSUME NEW c \in DOMAIN chapters PROVE KeysHold(chapters[c])'
    <3>1. KeysHold(chapters[c])
      BY DEF JournalInv, NothingDangles
    <3> QED BY <1>1, <1>3, <1>4, <3>1 DEF KeysHold, Maybe
  <2> QED BY <1>1, <2>1, <2>2 DEF NothingDangles, Maybe
<1>9. Kept
  BY <1>1, AllKept
<1> QED BY <1>7, <1>8, <1>9 DEF JournalInv

LEMMA UpdateTemplateStep ==
  ASSUME JournalInv, UpdateTemplate
  PROVE  JournalInv' /\ Kept
<1>1. /\ chapters' = chapters /\ journals' = journals /\ request' = request /\ today' = today
      /\ usedIds' = usedIds /\ DOMAIN templates' = DOMAIN templates
  BY DEF UpdateTemplate
<1>2. Tables'
  BY <1>1 DEF JournalInv, Tables
<1>3. NothingDangles'
  <2>1. ASSUME NEW c \in DOMAIN chapters PROVE KeysHold(chapters[c])'
    <3>1. KeysHold(chapters[c])
      BY DEF JournalInv, NothingDangles
    <3> QED BY <1>1, <3>1 DEF KeysHold, Maybe
  <2> QED BY <1>1, <2>1 DEF JournalInv, NothingDangles, Maybe
<1>4. Kept
  BY <1>1, AllKept
<1> QED BY <1>2, <1>3, <1>4 DEF JournalInv

LEMMA DeleteTemplateStep ==
  ASSUME JournalInv, DeleteTemplate
  PROVE  JournalInv' /\ Kept
<1>1. request' = request /\ today' = today /\ usedIds' = usedIds
  BY DEF DeleteTemplate
<1>2. PICK t : /\ templates' = Without(templates, {t})
               /\ journals' = [j \in DOMAIN journals |->
                                 IF journals[j].default = t
                                 THEN [journals[j] EXCEPT !.default = Null] ELSE journals[j]]
               /\ chapters' = [c \in DOMAIN chapters |->
                                 IF chapters[c].template = t
                                 THEN [chapters[c] EXCEPT !.template = Null] ELSE chapters[c]]
  BY DEF DeleteTemplate
<1>3. DOMAIN templates' = DOMAIN templates \ {t}
  BY <1>2 DEF Without
<1>4. DOMAIN journals' = DOMAIN journals /\ DOMAIN chapters' = DOMAIN chapters
  BY <1>2
<1>5. ASSUME NEW i \in DOMAIN journals
      PROVE  /\ JournalRow(journals'[i]) /\ journals'[i].kind = journals[i].kind
             /\ journals'[i].default = IF journals[i].default = t THEN Null ELSE journals[i].default
  <2>1. PICK K, D : journals[i] = [kind |-> K, default |-> D]
    BY DEF JournalInv, Tables, JournalRow
  <2>2. CASE journals[i].default = t
    <3>1. journals'[i] = [journals[i] EXCEPT !.default = Null]
      BY <1>2, <2>2
    <3>2. journals'[i] = [kind |-> K, default |-> Null]
      BY <2>1, <3>1
    <3> QED BY <2>1, <2>2, <3>2 DEF JournalRow
  <2>3. CASE journals[i].default # t
    <3>1. journals'[i] = journals[i]
      BY <1>2, <2>3
    <3> QED BY <2>1, <2>3, <3>1 DEF JournalRow
  <2> QED BY <2>2, <2>3
<1>6. ASSUME NEW c \in DOMAIN chapters
      PROVE  /\ ChapterRow(chapters'[c]) /\ chapters'[c].journal = chapters[c].journal
             /\ chapters'[c].edited = chapters[c].edited /\ chapters'[c].dates = chapters[c].dates
             /\ chapters'[c].parent = chapters[c].parent
             /\ chapters'[c].template = IF chapters[c].template = t THEN Null
                                        ELSE chapters[c].template
  <2>1. PICK J, P, T, E, D : chapters[c] = [journal |-> J, parent |-> P, template |-> T,
                                            edited |-> E, dates |-> D]
    BY DEF JournalInv, Tables, ChapterRow
  <2>2. CASE chapters[c].template = t
    <3>1. chapters'[c] = [chapters[c] EXCEPT !.template = Null]
      BY <1>2, <2>2
    <3>2. chapters'[c] = [journal |-> J, parent |-> P, template |-> Null, edited |-> E, dates |-> D]
      BY <2>1, <3>1
    <3> QED BY <2>1, <2>2, <3>2 DEF ChapterRow
  <2>3. CASE chapters[c].template # t
    <3>1. chapters'[c] = chapters[c]
      BY <1>2, <2>3
    <3> QED BY <2>1, <2>3, <3>1 DEF ChapterRow
  <2> QED BY <2>2, <2>3
<1>7. Tables'
  BY <1>1, <1>4, <1>5, <1>6, SameKinds
<1>8. NothingDangles'
  <2>1. \A i \in DOMAIN journals' : journals'[i].default \in Maybe(DOMAIN templates')
    BY <1>3, <1>4, <1>5 DEF JournalInv, NothingDangles, Maybe
  <2>2. ASSUME NEW c \in DOMAIN chapters
        PROVE  /\ chapters'[c].journal \in DOMAIN journals'
               /\ chapters'[c].parent \in Maybe(DOMAIN chapters')
               /\ chapters'[c].template \in Maybe(DOMAIN templates')
    <3>1. KeysHold(chapters[c])
      BY DEF JournalInv, NothingDangles
    <3> QED BY <1>3, <1>4, <1>6, <3>1 DEF KeysHold, Maybe
  <2>3. \A c \in DOMAIN chapters' : KeysHold(chapters[c])'
    BY <1>4, <2>2 DEF KeysHold, Maybe
  <2> QED BY <2>1, <2>3 DEF NothingDangles, Maybe
<1>9. Kept
  BY <1>4, AllKept
<1> QED BY <1>7, <1>8, <1>9 DEF JournalInv

LEMMA CommitRequestStep ==
  ASSUME JournalInv, CommitRequest
  PROVE  JournalInv' /\ Kept
<1>1. /\ journals' = journals /\ templates' = templates /\ today' = today
      /\ request' = NoRequest /\ request'.kind # "create"
  BY DEF CommitRequest, NoRequest
<1>2. CASE request.kind = "create"
  <2>1. PICK row : row = request.row
    OBVIOUS
  <2>2. KeysHold(row)
    BY <1>2, <2>1 DEF CommitRequest
  <2>3. PICK c : chapters' = AddedJournal(chapters, c, row) /\ usedIds' = usedIds \union {c}
    BY <1>2, <2>1 DEF CommitRequest
  <2>4. ChapterRow(row) /\ DatedBy(row, journals)
    BY <1>2, <2>1 DEF JournalInv, Tables
  <2>5. /\ DOMAIN chapters' = DOMAIN chapters \union {c} /\ chapters'[c] = row
        /\ \A d \in DOMAIN chapters : d # c => chapters'[d] = chapters[d]
    BY <2>3 DEF AddedJournal
  <2>6. Tables'
    BY <1>1, <2>3, <2>4, <2>5 DEF JournalInv, Tables
  <2>7. NothingDangles'
    <3>1. ASSUME NEW d \in DOMAIN chapters'
          PROVE  /\ chapters'[d].journal \in DOMAIN journals
                 /\ chapters'[d].parent \in Maybe(DOMAIN chapters')
                 /\ chapters'[d].template \in Maybe(DOMAIN templates)
      <4>1. CASE d = c
        BY <2>2, <2>5, <4>1 DEF KeysHold, Maybe
      <4>2. CASE d # c
        <5>1. d \in DOMAIN chapters /\ chapters'[d] = chapters[d]
          BY <2>5, <4>2
        <5>2. KeysHold(chapters[d])
          BY <5>1 DEF JournalInv, NothingDangles
        <5> QED BY <2>5, <5>1, <5>2 DEF KeysHold, Maybe
      <4> QED BY <4>1, <4>2
    <3>2. \A d \in DOMAIN chapters' : KeysHold(chapters[d])'
      BY <1>1, <3>1 DEF KeysHold, Maybe
    <3> QED BY <1>1, <3>2 DEF JournalInv, NothingDangles, Maybe
  <2>8. Kept
    BY <2>5, AllKept
  <2> QED BY <2>6, <2>7, <2>8 DEF JournalInv
<1>3. CASE request.kind # "create"
  <2>1. PICK c, p, yes : c = request.chapter /\ p = request.parent /\ yes = TRUE
    OBVIOUS
  <2>2. /\ c \in DOMAIN chapters /\ p \in Maybe(DOMAIN chapters) /\ usedIds' = usedIds
        /\ chapters' = [chapters EXCEPT ![c].parent = p, ![c].edited = yes]
    BY <1>3, <2>1 DEF CommitRequest
  <2>3. PICK J, P, T, E, D : chapters[c] = [journal |-> J, parent |-> P, template |-> T,
                                            edited |-> E, dates |-> D]
    BY <2>2 DEF JournalInv, Tables, ChapterRow
  <2>4. PICK row : row = [journal |-> J, parent |-> p, template |-> T, edited |-> yes, dates |-> D]
    OBVIOUS
  <2>5. /\ DOMAIN chapters' = DOMAIN chapters /\ chapters'[c] = row
        /\ \A d \in DOMAIN chapters : d # c => chapters'[d] = chapters[d]
    <3>1. chapters'[c] = [[chapters[c] EXCEPT !.parent = p] EXCEPT !.edited = yes]
      BY <2>2
    <3>2. PICK mid : mid = [chapters[c] EXCEPT !.parent = p]
      OBVIOUS
    <3>3. mid = [journal |-> J, parent |-> p, template |-> T, edited |-> E, dates |-> D]
      BY <2>3, <3>2
    <3>4. [mid EXCEPT !.edited = yes] = row
      BY <2>4, <3>3
    <3>5. chapters'[c] = row
      BY <3>1, <3>2, <3>4
    <3> QED BY <2>2, <3>5
  <2>6. /\ ChapterRow(row) /\ row.journal = chapters[c].journal /\ row.parent = p
        /\ row.template = chapters[c].template /\ row.edited
    BY <2>1, <2>3, <2>4 DEF ChapterRow
  <2>7. DatedBy(row, journals)
    BY <2>6 DEF DatedBy
  <2>8. Tables'
    <3>1. \A d \in DOMAIN chapters : ChapterRow(chapters'[d]) /\ DatedBy(chapters'[d], journals)
      BY <2>5, <2>6, <2>7 DEF JournalInv, Tables
    <3> QED BY <1>1, <2>2, <2>5, <3>1 DEF JournalInv, Tables
  <2>9. NothingDangles'
    <3>1. ASSUME NEW d \in DOMAIN chapters
          PROVE  /\ chapters'[d].journal \in DOMAIN journals
                 /\ chapters'[d].parent \in Maybe(DOMAIN chapters)
                 /\ chapters'[d].template \in Maybe(DOMAIN templates)
      <4>1. KeysHold(chapters[d])
        BY DEF JournalInv, NothingDangles
      <4>2. CASE d = c
        BY <2>2, <2>5, <2>6, <4>1, <4>2 DEF KeysHold
      <4>3. CASE d # c
        BY <2>5, <4>1, <4>3 DEF KeysHold
      <4> QED BY <4>2, <4>3
    <3>2. \A d \in DOMAIN chapters' : KeysHold(chapters[d])'
      BY <1>1, <2>5, <3>1 DEF KeysHold, Maybe
    <3> QED BY <1>1, <3>2 DEF JournalInv, NothingDangles, Maybe
  <2>10. Kept
    BY <2>5, AllKept
  <2> QED BY <2>8, <2>9, <2>10 DEF JournalInv
<1> QED BY <1>2, <1>3

\* Chapters go with all that is under them, and perhaps their journal.
LEMMA DeletedStep ==
  ASSUME JournalInv, NEW roots \in SUBSET DOMAIN chapters,
         chapters' = Without(chapters, Under(roots)),
         templates' = templates, usedIds' = usedIds, request' = request, today' = today,
         NEW gone, journals' = Without(journals, gone),
         \A c \in DOMAIN chapters : chapters[c].journal \in gone => c \in roots
  PROVE  JournalInv'
<1>1. /\ DOMAIN chapters' = DOMAIN chapters \ Under(roots)
      /\ \A c \in DOMAIN chapters' : chapters'[c] = chapters[c]
  BY DEF Without
<1>2. /\ DOMAIN journals' = DOMAIN journals \ gone
      /\ \A j \in DOMAIN journals' : journals'[j] = journals[j]
  BY DEF Without
<1>3. ASSUME NEW x, DatedBy(x, journals) PROVE DatedBy(x, journals')
  BY <1>2, <1>3 DEF DatedBy
<1>4. Tables'
  <2>1. \A c \in DOMAIN chapters' : ChapterRow(chapters'[c]) /\ DatedBy(chapters'[c], journals')
    BY <1>1, <1>3 DEF JournalInv, Tables
  <2>2. request.kind = "create" =>
          /\ ChapterRow(request.row) /\ DatedBy(request.row, journals')
          /\ request.row.journal \in usedIds
    BY <1>3 DEF JournalInv, Tables
  <2>3. today \in Nat /\ DOMAIN journals' \subseteq usedIds
        /\ \A j \in DOMAIN journals' : JournalRow(journals'[j])
    BY <1>2 DEF JournalInv, Tables
  <2> QED BY <2>1, <2>2, <2>3 DEF Tables
<1>5. NothingDangles'
  <2>1. ASSUME NEW c \in DOMAIN chapters'
        PROVE  /\ chapters'[c].journal \in DOMAIN journals'
               /\ chapters'[c].parent \in Maybe(DOMAIN chapters')
               /\ chapters'[c].template \in Maybe(DOMAIN templates)
    <3>1. c \in DOMAIN chapters /\ c \notin Under(roots) /\ chapters'[c] = chapters[c]
      BY <1>1
    <3>2. KeysHold(chapters[c])
      BY <3>1 DEF JournalInv, NothingDangles
    <3>3. c \notin roots
      BY <3>1, UnderHas
    <3>4. chapters[c].journal \in DOMAIN journals'
      BY <1>2, <3>1, <3>2, <3>3 DEF KeysHold
    <3>5. chapters[c].parent \notin Under(roots)
      BY <3>1, UnderClosed
    <3> QED BY <1>1, <3>1, <3>2, <3>4, <3>5 DEF KeysHold, Maybe
  <2>2. \A c \in DOMAIN chapters' : KeysHold(chapters[c])'
    BY <2>1 DEF KeysHold, Maybe
  <2>3. \A j \in DOMAIN journals' : journals'[j].default \in Maybe(DOMAIN templates)
    BY <1>2 DEF JournalInv, NothingDangles
  <2> QED BY <2>2, <2>3 DEF NothingDangles, Maybe
<1> QED BY <1>4, <1>5 DEF JournalInv

LEMMA DeleteChapterStep ==
  ASSUME JournalInv, DeleteChapter
  PROVE  JournalInv' /\ Kept
<1>1. PICK q \in DOMAIN chapters : chapters' = Without(chapters, Under({q}))
  BY DEF DeleteChapter, QueryChapter
<1>2. /\ journals' = journals /\ templates' = templates /\ usedIds' = usedIds
      /\ request' = request /\ today' = today
  BY DEF DeleteChapter
<1>3. {q} \in SUBSET DOMAIN chapters /\ {q} \subseteq DOMAIN chapters
  OBVIOUS
<1>4. Tables' /\ NothingDangles'
  <2>1. /\ DOMAIN chapters' = DOMAIN chapters \ Under({q})
        /\ \A c \in DOMAIN chapters' : chapters'[c] = chapters[c]
    BY <1>1 DEF Without
  <2>2. Tables'
    BY <1>2, <2>1 DEF JournalInv, Tables
  <2>3. ASSUME NEW c \in DOMAIN chapters'
        PROVE  /\ chapters'[c].journal \in DOMAIN journals
               /\ chapters'[c].parent \in Maybe(DOMAIN chapters')
               /\ chapters'[c].template \in Maybe(DOMAIN templates)
    <3>1. c \in DOMAIN chapters /\ c \notin Under({q}) /\ chapters'[c] = chapters[c]
      BY <2>1
    <3>2. KeysHold(chapters[c])
      BY <3>1 DEF JournalInv, NothingDangles
    <3>3. chapters[c].parent \notin Under({q})
      BY <3>1, UnderClosed
    <3> QED BY <2>1, <3>1, <3>2, <3>3 DEF KeysHold, Maybe
  <2>4. \A c \in DOMAIN chapters' : KeysHold(chapters[c])'
    BY <1>2, <2>3 DEF KeysHold, Maybe
  <2>5. NothingDangles'
    BY <1>2, <2>4 DEF JournalInv, NothingDangles, Maybe
  <2> QED BY <2>2, <2>5
<1>5. DOMAIN chapters \ DOMAIN chapters' \subseteq Under({q})
  BY <1>1 DEF Without
<1>6. Under({q}) \subseteq DOMAIN chapters \ DOMAIN chapters'
  BY <1>1 DEF Without, Under
<1>7. Kept
  <2> SUFFICES ASSUME NEW c \in DOMAIN chapters \ DOMAIN chapters'
               PROVE  \/ chapters[c].parent \in DOMAIN chapters \ DOMAIN chapters'
                      \/ \A d \in DOMAIN chapters \ DOMAIN chapters' : d \in Under({c})
    BY DEF Kept
  <2>1. c \in Under({q})
    BY <1>5
  <2>2. CASE c = q
    BY <1>5, <2>2
  <2>3. CASE c # q
    <3>1. chapters[c].parent \in Under({q})
      BY <1>3, <2>1, <2>3, UnderParent
    <3> QED BY <1>6, <3>1
  <2> QED BY <2>2, <2>3
<1> QED BY <1>4, <1>7 DEF JournalInv

LEMMA DeleteJournalStep ==
  ASSUME JournalInv, DeleteJournal
  PROVE  JournalInv' /\ Kept
<1>1. PICK j \in DOMAIN journals :
        /\ journals' = Without(journals, {j})
        /\ chapters' = Without(chapters, Under({c \in DOMAIN chapters : chapters[c].journal = j}))
  BY DEF DeleteJournal, QueryJournal
<1>2. templates' = templates /\ usedIds' = usedIds /\ request' = request /\ today' = today
  BY DEF DeleteJournal
<1>3. PICK roots : roots = {c \in DOMAIN chapters : chapters[c].journal = j}
  OBVIOUS
<1>4. /\ roots \in SUBSET DOMAIN chapters /\ roots \subseteq DOMAIN chapters
      /\ \A c \in DOMAIN chapters : chapters[c].journal \in {j} => c \in roots
      /\ chapters' = Without(chapters, Under(roots))
  BY <1>1, <1>3
<1>5. JournalInv'
  BY <1>1, <1>2, <1>4, DeletedStep
<1>6. /\ DOMAIN chapters \ DOMAIN chapters' \subseteq Under(roots)
      /\ Under(roots) \subseteq DOMAIN chapters \ DOMAIN chapters'
  BY <1>4 DEF Without, Under
<1>7. Kept
  <2> SUFFICES ASSUME NEW c \in DOMAIN chapters \ DOMAIN chapters'
               PROVE  \/ chapters[c].journal \notin DOMAIN journals'
                      \/ chapters[c].parent \in DOMAIN chapters \ DOMAIN chapters'
    BY DEF Kept
  <2>1. c \in Under(roots)
    BY <1>6
  <2>2. CASE c \in roots
    BY <1>1, <1>3, <2>2 DEF Without
  <2>3. CASE c \notin roots
    <3>1. chapters[c].parent \in Under(roots)
      BY <1>4, <2>1, <2>3, UnderParent
    <3> QED BY <1>6, <3>1
  <2> QED BY <2>2, <2>3
<1> QED BY <1>5, <1>7

LEMMA JournalStep == JournalInv /\ JournalNext => JournalInv' /\ Kept
BY NextDayStep, CreateJournalStep, UpdateJournalStep, DeleteJournalStep, CreateTemplateStep,
   UpdateTemplateStep, DeleteTemplateStep, BeginChapterStep, BeginUpdateStep, CommitRequestStep,
   RejectedStep, DeleteChapterStep DEF JournalNext

LEMMA PeriodsHold == JournalInv => PeriodsAreApart
<1> SUFFICES ASSUME JournalInv, NEW c \in DOMAIN chapters, NEW d \in DOMAIN chapters,
                    chapters[c].journal = chapters[d].journal,
                    chapters[c].dates.dated, chapters[d].dates.dated,
                    ~ chapters[c].edited, ~ chapters[d].edited
             PROVE  \/ chapters[c].dates = chapters[d].dates
                    \/ chapters[c].dates.to < chapters[d].dates.since
                    \/ chapters[d].dates.to < chapters[c].dates.since
  BY DEF PeriodsAreApart
<1>1. PICK kind : kind = journals[chapters[c].journal].kind
  OBVIOUS
<1>2. chapters[c].journal \in DOMAIN journals /\ chapters[d].journal \in DOMAIN journals
  BY DEF JournalInv, NothingDangles, KeysHold
<1>3. PICK x \in Nat : chapters[c].dates = Period(kind, x)
  BY <1>1, <1>2 DEF JournalInv, Tables, DatedBy
<1>4. PICK y \in Nat : chapters[d].dates = Period(kind, y)
  BY <1>1, <1>2 DEF JournalInv, Tables, DatedBy
<1> QED BY <1>3, <1>4, PeriodsApart

\* Nothing that a journal or a chapter refers to is missing, the periods of the chapters
\* of a journal are equal or apart, and a chapter is only lost by a request that deletes
\* it, its journal or its parent, for any journals, chapters and templates and a request
\* that is under way while others delete what it has read.
THEOREM JournalsKept ==
  JournalSpec => []NothingDangles /\ []PeriodsAreApart /\ OnlyAsked
<1>1. JournalInit => JournalInv
  BY DEF JournalInit, JournalInv, Tables, NothingDangles, NoRequest
<1>2. JournalInv /\ [JournalNext]_journalVars => JournalInv'
  <2>1. ASSUME JournalInv, UNCHANGED journalVars PROVE JournalInv'
    <3>1. UNCHANGED <<journals, chapters, templates, usedIds, request, today>>
      BY <2>1 DEF journalVars
    <3>2. today' \in Nat /\ request' = request
      BY <2>1, <3>1 DEF JournalInv, Tables
    <3>3. request'.kind = "create" =>
            /\ ChapterRow(request'.row) /\ DatedBy(request'.row, journals)
            /\ request'.row.journal \in usedIds
      BY <2>1, <3>2 DEF JournalInv, Tables
    <3> QED BY <2>1, <3>1, <3>2, <3>3, TablesStay
  <2> QED BY <2>1, JournalStep
<1>3. JournalInv /\ [JournalNext]_journalVars => [Kept]_chapters
  BY JournalStep DEF journalVars
<1>4. JournalInv => NothingDangles
  BY DEF JournalInv
<1>5. JournalInv => PeriodsAreApart
  BY PeriodsHold
<1>6. OnlyAsked <=> [][Kept]_chapters
  BY DEF OnlyAsked, Kept
<1> QED BY <1>1, <1>2, <1>3, <1>4, <1>5, <1>6, PTL DEF JournalSpec

\* All that a user writes beside the trades is kept as asked, whichever of the two parts
\* the requests are for, and when they come.
THEOREM NotesKept == NotesSpec => NotesAreKept
BY LabelsKept, JournalsKept DEF NotesSpec, NotesAreKept

-----------------------------------------------------------------------------
(***************************************************************************)
(* Theorems about Overview: for any number of clients, requests, queries   *)
(* and executions, a cached overview is stale in no way but those named,   *)
(* a client is counted twice only where no clients were named, and none is *)
(* missing from the set of ids.                                            *)
(***************************************************************************)

Overviews == [query : Queries \cup {Nobody}, version : Nat]

ReaderStates ==
  [phase : {"idle", "reading", "answered"}, query : Queries \cup {Nobody}, all : BOOLEAN,
   asked : SUBSET Accounts, maybe : SUBSET Accounts, hits : SUBSET Accounts,
   computed : SUBSET Accounts, version : [Accounts -> Nat], todo : SUBSET Accounts]

CacheTypes ==
  /\ exists \subseteq Accounts
  /\ commits \in [Accounts -> Nat]
  /\ handling \in [Accounts -> {"none", "added", "invalidated"}]
  /\ overview \in [Accounts -> Overviews]
  /\ reader \in [Readers -> ReaderStates]

\* An overview that is there while the worker has invalidated and not yet committed
\* was written in between.
WrittenBetween ==
  \A a \in Accounts : handling[a] = "invalidated" /\ overview[a] # NoOverview => a \in late

\* A request computes when it has read all that it will read from the cache.
ComputedLast == \A r \in Readers : reader[r].phase = "reading" => reader[r].computed = {}

\* Every client is in the set of ids or about to be, be the set empty or not.
IdsComing == exists \subseteq clientIds \cup adding

CacheInv == CacheTypes /\ WrittenBetween /\ StaleOnlyIfLate
ReadersInv == CacheTypes /\ ComputedLast /\ TwiceOnlyIfAll

-----------------------------------------------------------------------------
LEMMA NoneIsTyped ==
  /\ NoOverview \in Overviews
  /\ NoReader \in ReaderStates
  BY DEF NoOverview, NoReader, Overviews, ReaderStates

LEMMA OvInitInv == OvInit => CacheInv /\ ReadersInv /\ IdsComing
<1> SUFFICES ASSUME OvInit PROVE CacheInv /\ ReadersInv /\ IdsComing
  OBVIOUS
<1>1. CacheTypes
  BY NoneIsTyped DEF OvInit, CacheTypes
<1>2. WrittenBetween /\ StaleOnlyIfLate /\ IdsComing
  BY DEF OvInit, WrittenBetween, StaleOnlyIfLate, IdsComing
<1>3. ComputedLast /\ TwiceOnlyIfAll
  BY DEF OvInit, ComputedLast, TwiceOnlyIfAll, NoReader
<1> QED BY <1>1, <1>2, <1>3 DEF CacheInv, ReadersInv

\* What a client's rows and its worker do: nothing of it touches a request.
LEMMA WorkerTypes ==
  ASSUME CacheTypes, NEW a \in Accounts,
         \/ Insert(a) \/ AddId(a) \/ RemoveAccount(a) \/ AddExecutions(a) \/ Invalidate(a)
         \/ CommitExecutions(a) \/ FailExecutions(a) \/ Synchronize(a) \/ Expire(a) \/ FillIds
  PROVE  CacheTypes' /\ UNCHANGED reader
<1> USE NoneIsTyped DEF CacheTypes
<1>1. CASE Insert(a) \/ AddId(a) \/ FillIds
  BY <1>1 DEF Insert, AddId, FillIds
<1>2. CASE RemoveAccount(a) \/ AddExecutions(a) \/ FailExecutions(a)
  BY <1>2 DEF RemoveAccount, AddExecutions, FailExecutions
<1>3. CASE Invalidate(a) \/ Expire(a)
  BY <1>3 DEF Invalidate, Expire
<1>4. CASE CommitExecutions(a) \/ Synchronize(a)
  BY <1>4 DEF CommitExecutions, Synchronize, Committed
<1> QED BY <1>1, <1>2, <1>3, <1>4

LEMMA WorkerStep ==
  ASSUME CacheInv, NEW a \in Accounts,
         \/ Insert(a) \/ AddId(a) \/ RemoveAccount(a) \/ AddExecutions(a) \/ Invalidate(a)
         \/ CommitExecutions(a) \/ FailExecutions(a) \/ Synchronize(a) \/ Expire(a) \/ FillIds
  PROVE  WrittenBetween' /\ StaleOnlyIfLate'
<1> USE DEF CacheInv, CacheTypes, WrittenBetween, StaleOnlyIfLate
<1>1. CASE Insert(a) \/ AddId(a) \/ FillIds
  BY <1>1 DEF Insert, AddId, FillIds
<1>2. CASE RemoveAccount(a) \/ AddExecutions(a) \/ FailExecutions(a)
  BY <1>2 DEF RemoveAccount, AddExecutions, FailExecutions
<1>3. CASE Invalidate(a)
  BY <1>3 DEF Invalidate
<1>4. CASE CommitExecutions(a)
  BY <1>4 DEF CommitExecutions, Committed
<1>5. CASE Synchronize(a)
  BY <1>5 DEF Synchronize, Committed
<1>6. CASE Expire(a)
  BY <1>6 DEF Expire
<1> QED BY <1>1, <1>2, <1>3, <1>4, <1>5, <1>6

-----------------------------------------------------------------------------
(* What requests do.                                                       *)

LEMMA LookUpStep ==
  ASSUME CacheTypes, NEW r \in Readers, LookUp(r)
  PROVE  /\ CacheTypes'
         /\ ComputedLast /\ TwiceOnlyIfAll => ComputedLast' /\ TwiceOnlyIfAll'
         /\ UNCHANGED <<exists, commits, handling, overview, clientIds, adding, late>>
<1>1. PICK q \in Queries, asked \in SUBSET Accounts, clients \in SUBSET Accounts,
            maybe \in SUBSET Accounts :
        reader' = [reader EXCEPT ![r] =
          [NoReader EXCEPT !.phase = "reading", !.query = q, !.all = (asked = {}),
                           !.asked = clients, !.maybe = maybe]]
  <2>1. PICK q \in Queries, asked \in SUBSET Accounts :
          LET clients == IF asked = {} THEN exists ELSE asked IN
          reader' = [reader EXCEPT ![r] =
            [NoReader EXCEPT !.phase = "reading", !.query = q, !.all = (asked = {}),
                             !.asked = clients,
                             !.maybe = {a \in clients : /\ overview[a] # NoOverview
                                                        /\ Within(q, overview[a].query)}]]
    BY DEF LookUp
  <2> DEFINE clients == IF asked = {} THEN exists ELSE asked
  <2>2. /\ clients \in SUBSET Accounts
        /\ {a \in clients : overview[a] # NoOverview /\ Within(q, overview[a].query)}
             \in SUBSET Accounts
    BY DEF CacheTypes
  <2> QED BY <2>1, <2>2, ZenonT(30)
<1> DEFINE new == [NoReader EXCEPT !.phase = "reading", !.query = q, !.all = (asked = {}),
                                   !.asked = clients, !.maybe = maybe]
<1>2. new \in ReaderStates /\ new.computed = {} /\ new.hits = {}
  BY NoneIsTyped DEF NoReader, ReaderStates
<1>3. reader' = [reader EXCEPT ![r] = new]
  BY <1>1
<1> HIDE DEF new
<1>4. UNCHANGED <<exists, commits, handling, overview, clientIds, adding, late>>
  BY DEF LookUp
<1> QED BY <1>2, <1>3, <1>4 DEF CacheTypes, ComputedLast, TwiceOnlyIfAll

LEMMA ReadOneStep ==
  ASSUME CacheTypes, NEW r \in Readers, NEW a \in Accounts, ReadOne(r, a)
  PROVE  /\ CacheTypes'
         /\ ComputedLast /\ TwiceOnlyIfAll => ComputedLast' /\ TwiceOnlyIfAll'
         /\ UNCHANGED <<exists, commits, handling, overview, clientIds, adding, late>>
<1>1. /\ reader[r] \in ReaderStates /\ reader[r].phase = "reading"
      /\ UNCHANGED <<exists, commits, handling, overview, clientIds, adding, late>>
  BY DEF ReadOne, CacheTypes
<1>2. PICK hits \in SUBSET Accounts, maybe \in SUBSET Accounts :
        reader' = [reader EXCEPT ![r] = [reader[r] EXCEPT !.maybe = maybe, !.hits = hits]]
  BY <1>1 DEF ReadOne, CacheTypes, ReaderStates
<1> DEFINE new == [reader[r] EXCEPT !.maybe = maybe, !.hits = hits]
<1>3. new \in ReaderStates /\ new.computed = reader[r].computed
  BY <1>1 DEF ReaderStates
<1>4. reader' = [reader EXCEPT ![r] = new]
  BY <1>2
<1> HIDE DEF new
<1> QED BY <1>1, <1>3, <1>4 DEF CacheTypes, ComputedLast, TwiceOnlyIfAll

\* Who asked for certain clients is computed those that the cache did not have.
LEMMA AnswerStep ==
  ASSUME CacheTypes, NEW r \in Readers, Answer(r)
  PROVE  /\ CacheTypes'
         /\ ComputedLast /\ TwiceOnlyIfAll => ComputedLast' /\ TwiceOnlyIfAll'
         /\ UNCHANGED <<exists, commits, handling, overview, clientIds, adding, late>>
<1>1. /\ reader[r] \in ReaderStates
      /\ UNCHANGED <<exists, commits, handling, overview, clientIds, adding, late>>
  BY DEF Answer, CacheTypes
<1>2. /\ ToCompute(r) \in SUBSET Accounts
      /\ reader[r].hits \cap ToCompute(r) # {} => reader[r].all
  BY <1>1 DEF ToCompute, CacheTypes, ReaderStates
<1> DEFINE new == [reader[r] EXCEPT !.phase = "answered", !.computed = ToCompute(r),
                                    !.todo = ToCompute(r), !.version = commits]
<1>3. /\ new \in ReaderStates /\ new.phase = "answered" /\ new.computed = ToCompute(r)
      /\ new.hits = reader[r].hits /\ new.all = reader[r].all
  BY <1>1, <1>2 DEF ReaderStates, CacheTypes
<1>4. reader' = [reader EXCEPT ![r] = new]
  BY <1>1 DEF Answer, CacheTypes, ReaderStates
<1> HIDE DEF new
<1> QED BY <1>1, <1>2, <1>3, <1>4 DEF CacheTypes, ComputedLast, TwiceOnlyIfAll

\* What is written was computed then, and is late if it was overtaken.
LEMMA WriteStep ==
  ASSUME CacheTypes, NEW r \in Readers, NEW a \in Accounts, WriteOverview(r, a)
  PROVE  /\ CacheTypes'
         /\ ComputedLast /\ TwiceOnlyIfAll => ComputedLast' /\ TwiceOnlyIfAll'
         /\ WrittenBetween /\ StaleOnlyIfLate => WrittenBetween' /\ StaleOnlyIfLate'
         /\ UNCHANGED <<exists, commits, handling, clientIds, adding>>
<1>1. /\ reader[r] \in ReaderStates
      /\ UNCHANGED <<exists, commits, handling, clientIds, adding>>
  BY DEF WriteOverview, CacheTypes
<1> DEFINE new == [reader[r] EXCEPT !.todo = @ \ {a}]
           written == [query |-> reader[r].query, version |-> reader[r].version[a]]
<1>2. /\ new \in ReaderStates /\ new.phase = reader[r].phase /\ new.hits = reader[r].hits
      /\ new.computed = reader[r].computed /\ new.all = reader[r].all
  BY <1>1 DEF ReaderStates
<1>3. reader' = [reader EXCEPT ![r] = new]
  BY <1>1 DEF WriteOverview, CacheTypes, ReaderStates
<1>4. /\ written \in Overviews /\ written.version = reader[r].version[a]
      /\ reader[r].version[a] \in Nat
  BY <1>1 DEF ReaderStates, Overviews
<1>5. overview' = [overview EXCEPT ![a] = written]
  BY DEF WriteOverview
<1>6. /\ late \subseteq late'
      /\ reader[r].version[a] < commits[a] \/ handling[a] = "invalidated" => a \in late'
  BY DEF WriteOverview
<1> HIDE DEF new, written
<1>7. CacheTypes'
  BY <1>1, <1>2, <1>3, <1>4, <1>5 DEF CacheTypes
<1>8. ComputedLast /\ TwiceOnlyIfAll => ComputedLast' /\ TwiceOnlyIfAll'
  BY <1>2, <1>3 DEF CacheTypes, ComputedLast, TwiceOnlyIfAll
<1>9. WrittenBetween /\ StaleOnlyIfLate => WrittenBetween' /\ StaleOnlyIfLate'
  BY <1>1, <1>4, <1>5, <1>6 DEF CacheTypes, WrittenBetween, StaleOnlyIfLate
<1> QED BY <1>1, <1>7, <1>8, <1>9

LEMMA CloseStep ==
  ASSUME CacheTypes, NEW r \in Readers, Close(r)
  PROVE  /\ CacheTypes'
         /\ ComputedLast /\ TwiceOnlyIfAll => ComputedLast' /\ TwiceOnlyIfAll'
         /\ UNCHANGED <<exists, commits, handling, overview, clientIds, adding, late>>
  BY NoneIsTyped DEF Close, CacheTypes, ComputedLast, TwiceOnlyIfAll, NoReader

-----------------------------------------------------------------------------
LEMMA OvStep ==
  ASSUME CacheInv, ReadersInv, IdsComing, [OvNext]_ovVars
  PROVE  CacheInv' /\ ReadersInv' /\ IdsComing'
<1> USE DEF CacheInv, ReadersInv
<1>1. ASSUME NEW a \in Accounts,
             \/ Insert(a) \/ AddId(a) \/ RemoveAccount(a) \/ AddExecutions(a) \/ Invalidate(a)
             \/ CommitExecutions(a) \/ FailExecutions(a) \/ Synchronize(a) \/ Expire(a) \/ FillIds
      PROVE  CacheInv' /\ ReadersInv' /\ IdsComing'
  <2>1. CacheTypes' /\ UNCHANGED reader /\ WrittenBetween' /\ StaleOnlyIfLate'
    BY <1>1, WorkerTypes, WorkerStep
  <2>2. ComputedLast' /\ TwiceOnlyIfAll'
    BY <2>1 DEF ComputedLast, TwiceOnlyIfAll
  <2>3. IdsComing'
    BY <1>1 DEF IdsComing, Insert, AddId, RemoveAccount, FillIds, AddExecutions, Invalidate,
                CommitExecutions, FailExecutions, Synchronize, Expire
  <2> QED BY <2>1, <2>2, <2>3
<1>2. ASSUME FillIds PROVE CacheInv' /\ ReadersInv' /\ IdsComing'
  BY <1>1, <1>2 DEF FillIds, CacheTypes
<1>3. ASSUME NEW r \in Readers,
             \/ LookUp(r) \/ Answer(r) \/ Close(r)
             \/ \E a \in Accounts : ReadOne(r, a)
      PROVE  CacheInv' /\ ReadersInv' /\ IdsComing'
  <2>1. /\ CacheTypes' /\ ComputedLast' /\ TwiceOnlyIfAll'
        /\ UNCHANGED <<exists, commits, handling, overview, clientIds, adding, late>>
    BY <1>3, LookUpStep, ReadOneStep, AnswerStep, CloseStep
  <2> QED BY <2>1 DEF WrittenBetween, StaleOnlyIfLate, IdsComing
<1>4. ASSUME NEW r \in Readers, NEW a \in Accounts, WriteOverview(r, a)
      PROVE  CacheInv' /\ ReadersInv' /\ IdsComing'
  BY <1>4, WriteStep DEF IdsComing
<1>5. CASE UNCHANGED ovVars
  BY <1>5 DEF ovVars, CacheTypes, WrittenBetween, StaleOnlyIfLate, ComputedLast,
              TwiceOnlyIfAll, IdsComing
<1> QED BY <1>1, <1>2, <1>3, <1>4, <1>5 DEF OvNext

\* Whatever executions, requests, expiries and deletions overlap, an overview is wrong
\* in the ways the late writes and the wide queries of ClientCache make, and in no
\* other (api/utils/client.py, Worker._add_executions, User.get_client_ids).
THEOREM OverviewsHold == OvSpec => []OverviewsAreTrue
<1>1. CacheInv /\ ReadersInv /\ IdsComing => OverviewsAreTrue
  BY DEF CacheInv, ReadersInv, IdsComing, OverviewsAreTrue, ClientsAreKnown
<1> QED BY OvInitInv, OvStep, <1>1, PTL DEF OvSpec

-----------------------------------------------------------------------------
(***************************************************************************)
(* Theorems about Channels: in any tree of tables, whatever the session    *)
(* knows of a row's parents and whichever ids a listener gives, nobody is  *)
(* told of another's row, and who asked for a row hears of it when the     *)
(* session held its parents.                                               *)
(***************************************************************************)

\* Messages are numbered in the order of the flushes.
Numbered ==
  /\ flushes \in Nat
  /\ \A m \in publishing : m.number \in Nat /\ m.number <= flushes /\ m.row \in TableRows
  /\ \A n \in plain : n \in Nat /\ n <= flushes
  /\ \A l \in Listeners : \A n \in owed[l] : n \in Nat /\ n <= flushes

\* A message has ids of its row's lineage only, and all of them if its flush saw the
\* row's parents.
IdsOwn == \A m \in publishing :
  /\ m.ids \subseteq Lineage(m.row)
  /\ m.number \in plain => m.ids = Lineage(m.row)

ChanInv == /\ Numbered /\ IdsOwn
           /\ DOMAIN heard = Listeners /\ DOMAIN owed = Listeners
           /\ identity \subseteq TableRows
           /\ HeardAsAsked

-----------------------------------------------------------------------------
(* Ids of a row.                                                           *)

\* The lineage of a row has, with each, the one above it.
LEMMA LineageUp ==
  ASSUME NEW row \in TableRows, NEW r \in Lineage(row), ParentRow[r] # NoRow
  PROVE  ParentRow[r] \in Lineage(row)
<1>1. r = row \/ r = Above(row) \/ r = Above(Above(row)) \/ r = Above(Above(Above(row)))
  BY DEF Lineage
<1>2. r # NoRow
  BY DEF Lineage
<1>3. Above(r) = ParentRow[r]
  BY <1>2 DEF Above
<1>4. Above(Above(Above(Above(row)))) = NoRow
  BY ChannelsAssumption
<1> HIDE DEF Above
<1> QED BY <1>1, <1>3, <1>4 DEF Lineage

\* A row whose parents the session has is published with all its ids.
LEMMA AllIds ==
  ASSUME NEW row \in TableRows, Lineage(row) \subseteq identity
  PROVE  GetIds(row) = Lineage(row)
<1>1. ASSUME NEW a \in Lineage(row), NEW r \in Below(row, a) PROVE Reached(r)
  <2>1. r \in Lineage(row) /\ a \in Lineage(ParentRow[r])
    BY DEF Below
  <2>2. ParentRow[r] # NoRow
    <3>1. Lineage(NoRow) = {}
      BY DEF Lineage, Above
    <3> QED BY <2>1, <3>1
  <2>3. ParentRow[r] \in identity
    BY <2>1, <2>2, LineageUp
  <2> QED BY <2>3 DEF Reached
<1> QED BY <1>1 DEF GetIds

-----------------------------------------------------------------------------
(* One lemma for what the session and its listeners do, one for each end   *)
(* of a message.                                                           *)

LEMMA ChanInitInv == ChanInit => ChanInv
  BY DEF ChanInit, ChanInv, Numbered, IdsOwn, HeardAsAsked

\* Loading, forgetting and subscribing touch no message.
LEMMA ChanElse ==
  ASSUME ChanInv,
         \/ \E row \in TableRows : LoadRow(row) \/ LinkRow(row) \/ ForgetRow(row)
         \/ \E l \in Listeners, row \in TableRows, ids \in SUBSET TableRows : SubscribeTo(l, row, ids)
         \/ \E l \in Listeners : UnsubscribeFrom(l)
         \/ UNCHANGED chanVars
  PROVE  ChanInv'
<1>1. UNCHANGED <<publishing, flushes, heard, owed, plain>>
  BY DEF LoadRow, LinkRow, ForgetRow, SubscribeTo, UnsubscribeFrom, chanVars
<1>2. identity' \subseteq TableRows
  BY ChannelsAssumption
     DEF ChanInv, LoadRow, LinkRow, ForgetRow, SubscribeTo, UnsubscribeFrom, chanVars
<1> QED BY <1>1, <1>2 DEF ChanInv, Numbered, IdsOwn, HeardAsAsked

LEMMA ChanFlush ==
  ASSUME ChanInv, NEW row \in TableRows, FlushRow(row)
  PROVE  ChanInv'
<1> DEFINE new == [number |-> flushes + 1, row |-> row, ids |-> GetIds(row)]
<1>1. /\ flushes' = flushes + 1 /\ publishing' = publishing \cup {new}
      /\ plain' = IF Lineage(row) \subseteq identity THEN plain \cup {flushes + 1} ELSE plain
      /\ UNCHANGED <<identity, heard, owed>>
  BY DEF FlushRow
<1>2. Numbered'
  BY <1>1 DEF ChanInv, Numbered
<1>3. IdsOwn'
  <2>1. ASSUME NEW m \in publishing
        PROVE  m.ids \subseteq Lineage(m.row) /\ (m.number \in plain' => m.ids = Lineage(m.row))
    BY <1>1 DEF ChanInv, Numbered, IdsOwn
  <2>2. GetIds(row) \subseteq Lineage(row)
    BY DEF GetIds
  <2>3. flushes + 1 \in plain' => GetIds(row) = Lineage(row)
    BY <1>1, AllIds DEF ChanInv, Numbered
  <2> QED BY <1>1, <2>1, <2>2, <2>3 DEF IdsOwn
<1>4. HeardAsAsked'
  <2>1. \A l \in Listeners : owed[l] \cap plain' \subseteq plain
    BY <1>1 DEF ChanInv, Numbered
  <2> QED BY <1>1, <2>1 DEF ChanInv, HeardAsAsked
<1> QED BY <1>1, <1>2, <1>3, <1>4 DEF ChanInv

\* Whom redis gives a message is who asked for it: the channel it asked for has ids of
\* the message, which are ids of the row.
LEMMA ChanPublish ==
  ASSUME ChanInv, NEW m \in publishing, PublishRow(m)
  PROVE  ChanInv'
<1>1. /\ publishing' = publishing \ {m} /\ UNCHANGED <<identity, flushes, plain>>
      /\ heard' = [l \in Listeners |-> IF Matches(subscribed[l], m.row, m.ids)
                                       THEN heard[l] \cup {m.number} ELSE heard[l]]
      /\ owed' = [l \in Listeners |-> IF Matches(subscribed[l], m.row, Lineage(m.row))
                                      THEN owed[l] \cup {m.number} ELSE owed[l]]
  BY DEF PublishRow
<1>2. Numbered' /\ IdsOwn'
  BY <1>1 DEF ChanInv, Numbered, IdsOwn
<1>3. HeardAsAsked'
  <2> SUFFICES ASSUME NEW l \in Listeners
               PROVE  heard'[l] \subseteq owed'[l] /\ owed'[l] \cap plain \subseteq heard'[l]
    BY <1>1 DEF HeardAsAsked
  <2>1. heard[l] \subseteq owed[l] /\ owed[l] \cap plain \subseteq heard[l]
    BY DEF ChanInv, HeardAsAsked
  <2>2. Matches(subscribed[l], m.row, m.ids) => Matches(subscribed[l], m.row, Lineage(m.row))
    BY DEF ChanInv, IdsOwn, Matches
  <2>3. m.number \in plain => m.ids = Lineage(m.row)
    BY DEF ChanInv, IdsOwn
  <2> QED BY <1>1, <2>1, <2>2, <2>3
<1>4. DOMAIN heard' = Listeners /\ DOMAIN owed' = Listeners
  BY <1>1
<1> QED BY <1>1, <1>2, <1>3, <1>4 DEF ChanInv

LEMMA ChanStep == ChanInv /\ [ChanNext]_chanVars => ChanInv'
  BY ChanElse, ChanFlush, ChanPublish DEF ChanNext

\* Nobody is told of a row of somebody else's, and whoever asked for a row hears of it
\* when its parents were in the session, for any tables, rows and listeners and any
\* number of flushes (NameSpace.get_ids, Messenger.listen_class).
THEOREM HeardRight == ChanSpec => []HeardAsAsked
<1>1. ChanInit => ChanInv
  BY ChanInitInv
<1>2. ChanInv /\ [ChanNext]_chanVars => ChanInv'
  BY ChanStep
<1>3. ChanInv => HeardAsAsked
  BY DEF ChanInv
<1> QED BY <1>1, <1>2, <1>3, PTL DEF ChanSpec

-----------------------------------------------------------------------------
(***************************************************************************)
(* Theorem about LiveBalance: for any trades, currencies, pnls and number  *)
(* of tickers, with any updates under way.                                 *)
(***************************************************************************)

\* A trade with its points: the highest and the lowest are two of them, and have been
\* on either side of zero since the first.
LiveTrades ==
  [open : BOOLEAN, realized : Int, live : Int \union {NoLive}, points : Seq(Int), max : Nat,
   min : Nat, latest : Nat, high : Int, low : Int, raced : BOOLEAN]

WellKept(tr) ==
  /\ tr.max \in 1 .. Len(tr.points) /\ tr.min \in 1 .. Len(tr.points) /\ tr.max # tr.min
  /\ tr.latest \in 0 .. Len(tr.points)
  /\ tr.points[tr.max] >= 0 /\ tr.points[tr.min] <= 0
  /\ ~ tr.raced => tr.points[tr.max] = tr.high /\ tr.points[tr.min] = tr.low

KeptTrades == {tr \in LiveTrades : WellKept(tr)}

TradesKept ==
  /\ \A t \in DOMAIN trades : trades[t] \in KeptTrades
  /\ \A t \in DOMAIN stored : stored[t] \in KeptTrades
  /\ doing = "reading" =>
       \A t \in DOMAIN stored : t \in DOMAIN trades =>
          /\ Len(stored[t].points) <= Len(trades[t].points)
          /\ ~ trades[t].raced => trades[t] = stored[t]

QuotesKept ==
  /\ ticks \in Nat /\ shown.n \in Nat /\ shown.n <= ticks
  /\ \A q \in quotes : /\ q.n \in Nat /\ q.n <= ticks
                       /\ ticked /\ q.n = ticks => q.amounts = Amounts(trades)
  /\ ticked /\ shown.n = ticks => shown.amounts = Amounts(trades)

LiveInv == TradesKept /\ QuotesKept

LEMMA FirstKept == FromExecution \in KeptTrades
<1>1. PICK two : two = <<0, 0>>
  OBVIOUS
<1>2. two \in Seq(Int) /\ Len(two) = 2 /\ two[1] = 0 /\ two[2] = 0
  BY <1>1
<1>a. FromExecution =
        [open |-> TRUE, realized |-> 0, live |-> NoLive, points |-> two, max |-> 1, min |-> 2,
         latest |-> 0, high |-> 0, low |-> 0, raced |-> FALSE]
  BY <1>1 DEF FromExecution
<1>3. /\ FromExecution \in LiveTrades /\ FromExecution.points = two
      /\ FromExecution.max = 1 /\ FromExecution.min = 2 /\ FromExecution.latest = 0
      /\ FromExecution.high = 0 /\ FromExecution.low = 0
  <2>1. /\ 0 \in Int /\ 0 \in Nat /\ 1 \in Nat /\ 2 \in Nat /\ TRUE \in BOOLEAN /\ FALSE \in BOOLEAN
        /\ NoLive \in Int \union {NoLive}
    OBVIOUS
  <2>2. FromExecution \in LiveTrades
    BY <1>2, <1>a, <2>1, Zenon DEF LiveTrades
  <2>3. FromExecution.points = two
    BY <1>a, Zenon
  <2>4. /\ FromExecution.max = 1 /\ FromExecution.min = 2 /\ FromExecution.latest = 0
        /\ FromExecution.high = 0 /\ FromExecution.low = 0
    BY <1>a, Zenon
  <2> QED BY <2>2, <2>3, <2>4
<1>4. PICK f : f = FromExecution
  OBVIOUS
<1>5. f.max # f.min /\ f.points[f.max] = 0 /\ f.points[f.min] = 0
      /\ f.max \in 1 .. Len(f.points) /\ f.min \in 1 .. Len(f.points)
      /\ f.latest \in 0 .. Len(f.points)
  BY <1>2, <1>3, <1>4
<1>6. WellKept(f)
  BY <1>3, <1>4, <1>5 DEF WellKept
<1> QED BY <1>3, <1>4, <1>6 DEF KeptTrades

\* UpdatePnl, on whatever path: significant or not, with the point shared or not.
LEMMA UpdateKept ==
  ASSUME NEW tr \in KeptTrades, NEW upnl \in Int, NEW force \in BOOLEAN
  PROVE  /\ UpdatePnl(tr, upnl, force) \in KeptTrades
         /\ Len(tr.points) <= Len(UpdatePnl(tr, upnl, force).points)
         /\ doing = "reading" => UpdatePnl(tr, upnl, force).raced
<1>1. PICK live, next, high, low, overtook :
        /\ live = tr.realized + upnl /\ next = Len(tr.points) + 1
        /\ high = (IF live > tr.high THEN live ELSE tr.high)
        /\ low = (IF live < tr.low THEN live ELSE tr.low)
        /\ overtook = (tr.raced \/ doing = "reading")
  OBVIOUS
<1>2. PICK seen : seen = [tr EXCEPT !.live = upnl, !.high = high, !.low = low, !.raced = overtook]
  OBVIOUS
<1>3. /\ tr \in LiveTrades /\ WellKept(tr)
      /\ tr.realized \in Int /\ tr.points \in Seq(Int) /\ Len(tr.points) \in Nat
      /\ tr.high \in Int /\ tr.low \in Int /\ tr.raced \in BOOLEAN
      /\ tr.max \in Nat /\ tr.min \in Nat /\ tr.latest \in Nat
  BY DEF KeptTrades, LiveTrades
<1>4. /\ live \in Int /\ next \in Nat /\ high \in Int /\ low \in Int /\ overtook \in BOOLEAN
  BY <1>1, <1>3
<1>5. seen \in LiveTrades
  BY <1>2, <1>3, <1>4, Zenon DEF LiveTrades
<1>6. /\ seen.points = tr.points /\ seen.max = tr.max /\ seen.min = tr.min
      /\ seen.latest = tr.latest /\ seen.high = high /\ seen.low = low /\ seen.raced = overtook
  BY <1>2, <1>3 DEF LiveTrades
<1>7. PICK u : u = UpdatePnl(tr, upnl, force)
  OBVIOUS
<1>8. /\ tr.max \in 1 .. Len(tr.points) /\ tr.min \in 1 .. Len(tr.points) /\ tr.max # tr.min
      /\ tr.points[tr.max] \in Int /\ tr.points[tr.min] \in Int
      /\ tr.points[tr.max] >= 0 /\ tr.points[tr.min] <= 0
      /\ ~ tr.raced => tr.points[tr.max] = tr.high /\ tr.points[tr.min] = tr.low
  BY <1>3 DEF WellKept
<1>b. PICK a, b, m, k : a = tr.points[tr.max] /\ b = tr.points[tr.min] /\ m = tr.max /\ k = tr.min
  OBVIOUS
<1>c. /\ a \in Int /\ b \in Int /\ a >= 0 /\ b <= 0 /\ m \in Nat /\ k \in Nat /\ m # k
      /\ m >= 1 /\ m < next /\ k >= 1 /\ k < next
  BY <1>1, <1>3, <1>8, <1>b
<1>d. ~ overtook => high = (IF live > a THEN live ELSE a) /\ low = (IF live < b THEN live ELSE b)
  <2>1. ~ overtook => ~ tr.raced
    BY <1>1, <1>3
  <2>2. ~ tr.raced => a = tr.high /\ b = tr.low
    BY <1>8, <1>b
  <2> QED BY <1>1, <2>1, <2>2
<1>9. CASE force \/ Significant(tr, live)
  <2>1. PICK ps, max, min :
          /\ ps = Append(tr.points, live)
          /\ max = (IF live # 0 /\ live > tr.points[tr.max] THEN next ELSE tr.max)
          /\ min = (IF live # 0 /\ live < tr.points[tr.min] THEN next ELSE tr.min)
    OBVIOUS
  <2>2. u = [seen EXCEPT !.points = ps, !.latest = next, !.max = max, !.min = min]
    BY <1>1, <1>2, <1>6, <1>7, <1>9, <2>1 DEF UpdatePnl
  <2>3. ps \in Seq(Int) /\ Len(ps) = next /\ ps[next] = live
        /\ \A i \in 1 .. Len(tr.points) : ps[i] = tr.points[i]
    BY <1>1, <1>3, <1>4, <2>1
  <2>4. max \in Nat /\ min \in Nat
    BY <1>3, <1>4, <2>1
  <2>5. u \in LiveTrades
    BY <1>4, <1>5, <2>2, <2>3, <2>4, Zenon DEF LiveTrades
  <2>6. /\ u.points = ps /\ u.latest = next /\ u.max = max /\ u.min = min
        /\ u.high = high /\ u.low = low /\ u.raced = overtook
    BY <1>5, <1>6, <2>2 DEF LiveTrades
  <2>7. max \in 1 .. next /\ min \in 1 .. next /\ max # min
    <3>1. /\ max = (IF live # 0 /\ live > a THEN next ELSE m)
          /\ min = (IF live # 0 /\ live < b THEN next ELSE k)
      BY <1>b, <2>1
    <3> QED BY <1>4, <1>c, <3>1
  <2>8. /\ ps[max] = (IF live # 0 /\ live > tr.points[tr.max] THEN live ELSE tr.points[tr.max])
        /\ ps[min] = (IF live # 0 /\ live < tr.points[tr.min] THEN live ELSE tr.points[tr.min])
    BY <1>8, <2>1, <2>3
  <2>9. ps[max] >= 0 /\ ps[min] <= 0
    BY <1>4, <1>8, <2>8
  <2>10. ~ overtook => ps[max] = high /\ ps[min] = low
    <3>1. /\ ps[max] = (IF live # 0 /\ live > a THEN live ELSE a)
          /\ ps[min] = (IF live # 0 /\ live < b THEN live ELSE b)
      BY <1>b, <2>8
    <3> QED BY <1>4, <1>c, <1>d, <3>1
  <2>11. WellKept(u)
    BY <1>4, <2>3, <2>6, <2>7, <2>9, <2>10 DEF WellKept
  <2>12. Len(tr.points) <= Len(u.points)
    BY <1>1, <1>3, <2>3, <2>6
  <2>13. doing = "reading" => u.raced
    BY <1>1, <2>6
  <2> QED BY <1>7, <2>5, <2>11, <2>12, <2>13 DEF KeptTrades
<1>10. CASE ~(force \/ Significant(tr, live))
  <2>1. PICK ps : ps = ReplacePnl(tr, live)
    OBVIOUS
  <2>2. u = [seen EXCEPT !.points = ps]
    BY <1>1, <1>2, <1>6, <1>7, <1>10, <2>1 DEF UpdatePnl
  <2>3. /\ DOMAIN tr.points = 1 .. Len(tr.points)
        /\ ps = [i \in 1 .. Len(tr.points) |->
                   IF \/ i = tr.max /\ live >= tr.points[i]
                      \/ i = tr.min /\ live <= tr.points[i]
                   THEN live ELSE tr.points[i]]
    BY <1>3, <2>1 DEF ReplacePnl
  <2>4. \A i \in 1 .. Len(tr.points) : ps[i] \in Int
    BY <1>3, <1>4, <2>3
  <2>5. ps \in Seq(Int) /\ Len(ps) = Len(tr.points)
    <3>1. PICK n : n = Len(tr.points)
      OBVIOUS
    <3>2. n \in Nat /\ ps = [i \in 1 .. n |-> ps[i]] /\ \A i \in 1 .. n : ps[i] \in Int
      BY <1>3, <2>3, <2>4, <3>1
    <3>3. ps \in [1 .. n -> Int]
      BY <3>2
    <3> QED BY <3>1, <3>2, <3>3
  <2>6. u \in LiveTrades
    BY <1>5, <2>2, <2>5, Zenon DEF LiveTrades
  <2>7. /\ u.points = ps /\ u.latest = tr.latest /\ u.max = tr.max /\ u.min = tr.min
        /\ u.high = high /\ u.low = low /\ u.raced = overtook
    BY <1>5, <1>6, <2>2 DEF LiveTrades
  <2>8. /\ ps[tr.max] = (IF live >= tr.points[tr.max] THEN live ELSE tr.points[tr.max])
        /\ ps[tr.min] = (IF live <= tr.points[tr.min] THEN live ELSE tr.points[tr.min])
    BY <1>8, <2>3
  <2>9. ps[tr.max] >= 0 /\ ps[tr.min] <= 0
    BY <1>4, <1>8, <2>8
  <2>10. ~ overtook => ps[tr.max] = high /\ ps[tr.min] = low
    <3>1. /\ ps[tr.max] = (IF live >= a THEN live ELSE a)
          /\ ps[tr.min] = (IF live <= b THEN live ELSE b)
      BY <1>b, <2>8
    <3> QED BY <1>4, <1>c, <1>d, <3>1
  <2>11. tr.latest \in 0 .. Len(tr.points)
    BY <1>3 DEF WellKept
  <2>12. WellKept(u)
    BY <1>8, <2>5, <2>7, <2>9, <2>10, <2>11 DEF WellKept
  <2>13. Len(tr.points) <= Len(u.points)
    BY <1>3, <2>5, <2>7
  <2>14. doing = "reading" => u.raced
    BY <1>1, <2>7
  <2> QED BY <1>7, <2>6, <2>12, <2>13, <2>14 DEF KeptTrades
<1> QED BY <1>9, <1>10

LEMMA LiveStarts == LiveInit => LiveInv
<1> SUFFICES ASSUME LiveInit PROVE LiveInv
  OBVIOUS
<1>1. DOMAIN trades = {} /\ DOMAIN stored = {} /\ doing = "idle"
  BY DEF LiveInit
<1>2. ticks = 0 /\ shown.n = 0 /\ quotes = {} /\ ~ ticked
  BY DEF LiveInit, NoQuote
<1> QED BY <1>1, <1>2 DEF LiveInv, TradesKept, QuotesKept

\* Whoever leaves trades and money alone leaves what a balance would be now.
LEMMA SameAmounts ==
  trades' = trades /\ cash' = cash => Amounts(trades)' = Amounts(trades)
BY DEF Amounts, Clone, MapThenSumSet, MapThenFoldSet

LEMMA AmountsNow == cash' = cash => Amounts(trades)' = Amounts(trades')
BY DEF Amounts, Clone, MapThenSumSet, MapThenFoldSet

LEMMA UpdateStep ==
  ASSUME LiveInv, NEW t \in DOMAIN trades, NEW upnl \in Levels, Update(t, upnl)
  PROVE  LiveInv'
<1>1. /\ trades' = [trades EXCEPT ![t] = UpdatePnl(@, upnl, FALSE)]
      /\ ticks' = ticks + 1 /\ ticked' = TRUE /\ stored' = stored /\ doing' = doing
      /\ shown' = shown /\ cash' = cash
      /\ quotes' = quotes \union {[n |-> ticks + 1, amounts |-> Amounts(trades')]}
  BY DEF Update
<1>2. upnl \in Int
  BY LiveAssumption
<1>3. UpdatePnl(trades[t], upnl, FALSE) \in KeptTrades
      /\ (doing = "reading" => UpdatePnl(trades[t], upnl, FALSE).raced)
      /\ Len(trades[t].points) <= Len(UpdatePnl(trades[t], upnl, FALSE).points)
  <2>1. PICK tr : tr = trades[t]
    OBVIOUS
  <2>2. tr \in KeptTrades /\ FALSE \in BOOLEAN
    BY <2>1 DEF LiveInv, TradesKept
  <2> QED BY <1>2, <2>1, <2>2, UpdateKept
<1>4. /\ DOMAIN trades' = DOMAIN trades /\ trades'[t] = UpdatePnl(trades[t], upnl, FALSE)
      /\ \A u \in DOMAIN trades : u # t => trades'[u] = trades[u]
  BY <1>1
<1>a. \A u \in DOMAIN trades' : trades'[u] \in KeptTrades
  BY <1>3, <1>4 DEF LiveInv, TradesKept
<1>b. ASSUME doing = "reading", NEW u \in DOMAIN stored, u \in DOMAIN trades
      PROVE  /\ Len(stored[u].points) <= Len(trades'[u].points)
             /\ ~ trades'[u].raced => trades'[u] = stored[u]
  <2>1. Len(stored[u].points) <= Len(trades[u].points) /\ (~ trades[u].raced => trades[u] = stored[u])
    BY <1>b DEF LiveInv, TradesKept
  <2>2. stored[u].points \in Seq(Int) /\ trades[u].points \in Seq(Int)
        /\ trades'[u].points \in Seq(Int)
    BY <1>4, <1>a, <1>b DEF LiveInv, TradesKept, KeptTrades, LiveTrades
  <2>3. PICK i, j, k : i = Len(stored[u].points) /\ j = Len(trades[u].points)
                       /\ k = Len(trades'[u].points)
    OBVIOUS
  <2>4. i \in Nat /\ j \in Nat /\ k \in Nat
    BY <2>2, <2>3
  <2>5. CASE u = t
    <3>1. j <= k
      BY <1>3, <1>4, <2>3, <2>5
    <3>2. i <= j
      BY <2>1, <2>3
    <3>3. trades'[u].raced
      BY <1>3, <1>4, <1>b, <2>5
    <3> QED BY <2>3, <2>4, <3>1, <3>2, <3>3
  <2>6. CASE u # t
    BY <1>4, <1>b, <2>1, <2>6
  <2> QED BY <2>5, <2>6
<1>5. TradesKept'
  BY <1>1, <1>4, <1>a, <1>b DEF LiveInv, TradesKept
<1>6. Amounts(trades)' = Amounts(trades')
  BY <1>1, AmountsNow
<1>7. ticks \in Nat /\ shown.n \in Nat /\ shown.n <= ticks
      /\ \A q \in quotes : q.n \in Nat /\ q.n <= ticks
  BY DEF LiveInv, QuotesKept
<1>8. ticks' \in Nat /\ shown'.n \in Nat /\ shown'.n <= ticks' /\ shown'.n # ticks'
  BY <1>1, <1>7
<1>9. ASSUME NEW q \in quotes'
      PROVE  /\ q.n \in Nat /\ q.n <= ticks'
             /\ q.n = ticks' => q.amounts = Amounts(trades)'
  <2>1. CASE q \in quotes
    BY <1>1, <1>7, <2>1
  <2>2. CASE q = [n |-> ticks + 1, amounts |-> Amounts(trades')]
    <3>1. q.n = ticks + 1 /\ q.amounts = Amounts(trades')
      BY <2>2
    <3> QED BY <1>1, <1>6, <1>7, <3>1
  <2> QED BY <1>1, <2>1, <2>2
<1>10. QuotesKept'
  BY <1>8, <1>9 DEF QuotesKept
<1> QED BY <1>5, <1>10 DEF LiveInv

LEMMA PublishStep ==
  ASSUME LiveInv, NEW q \in quotes, Publish(q)
  PROVE  LiveInv'
<1>1. /\ trades' = trades /\ stored' = stored /\ doing' = doing /\ cash' = cash
      /\ ticks' = ticks /\ ticked' = ticked /\ quotes' = quotes \ {q}
      /\ shown'.n = q.n /\ shown'.amounts = q.amounts
  BY DEF Publish
<1>2. Amounts(trades)' = Amounts(trades)
  BY <1>1, SameAmounts
<1>3. TradesKept'
  BY <1>1 DEF LiveInv, TradesKept
<1>4. PICK a : a = Amounts(trades)
  OBVIOUS
<1>5. /\ ticks \in Nat /\ q.n \in Nat /\ q.n <= ticks /\ (ticked /\ q.n = ticks => q.amounts = a)
      /\ \A p \in quotes : /\ p.n \in Nat /\ p.n <= ticks
                           /\ ticked /\ p.n = ticks => p.amounts = a
  BY <1>4 DEF LiveInv, QuotesKept
<1>6. QuotesKept'
  BY <1>1, <1>2, <1>4, <1>5 DEF QuotesKept
<1> QED BY <1>3, <1>6 DEF LiveInv

LEMMA TickerStep ==
  ASSUME LiveInv, NEW c, TickerComes(c)
  PROVE  LiveInv'
<1>1. /\ trades' = trades /\ stored' = stored /\ doing' = doing /\ cash' = cash
      /\ ticks' = ticks /\ ticked' = ticked /\ quotes' = quotes /\ shown' = shown
  BY DEF TickerComes
<1>2. Amounts(trades)' = Amounts(trades)
  BY <1>1, SameAmounts
<1>3. TradesKept'
  BY <1>1 DEF LiveInv, TradesKept
<1>6. QuotesKept'
  BY <1>1, <1>2 DEF LiveInv, QuotesKept
<1> QED BY <1>3, <1>6 DEF LiveInv

\* Steps after which the balance shown may be out of date.
LEMMA Unticked ==
  ASSUME LiveInv, ~ ticked', ticks' = ticks, shown' = shown, quotes' \subseteq quotes
  PROVE  QuotesKept'
BY DEF LiveInv, QuotesKept

LEMMA ExecutedKept ==
  ASSUME NEW tr \in KeptTrades, NEW gain \in Gains, NEW closes \in BOOLEAN
  PROVE  Executed(tr, gain, closes) \in KeptTrades
<1>1. PICK g : g = tr.realized + gain
  OBVIOUS
<1>2. tr \in LiveTrades /\ WellKept(tr)
  BY DEF KeptTrades
<1>3. g \in Int
  BY <1>1, <1>2, LiveAssumption DEF LiveTrades
<1>4. PICK on : on = [tr EXCEPT !.realized = g]
  OBVIOUS
<1>5. on \in LiveTrades
  BY <1>2, <1>3, <1>4, Zenon DEF LiveTrades
<1>6. /\ on.points = tr.points /\ on.max = tr.max /\ on.min = tr.min
      /\ on.latest = tr.latest /\ on.high = tr.high /\ on.low = tr.low /\ on.raced = tr.raced
  BY <1>2, <1>4 DEF LiveTrades
<1>7. on \in KeptTrades
  BY <1>2, <1>5, <1>6 DEF KeptTrades, WellKept
<1>8. PICK mid : mid = [on EXCEPT !.open = FALSE]
  OBVIOUS
<1>9. mid \in LiveTrades
  BY <1>5, <1>8, Zenon DEF LiveTrades
<1>10. /\ mid.points = on.points /\ mid.max = on.max /\ mid.min = on.min
       /\ mid.latest = on.latest /\ mid.high = on.high /\ mid.low = on.low
       /\ mid.raced = on.raced
  BY <1>5, <1>8 DEF LiveTrades
<1>11. mid \in KeptTrades
  BY <1>7, <1>9, <1>10 DEF KeptTrades, WellKept
<1>12. UpdatePnl(mid, 0, TRUE) \in KeptTrades
  <2>1. 0 \in Int /\ TRUE \in BOOLEAN
    OBVIOUS
  <2> QED BY <1>11, <2>1, UpdateKept
<1>13. CASE closes
  <2>1. Executed(tr, gain, closes) = UpdatePnl(mid, 0, TRUE)
    BY <1>1, <1>4, <1>8, <1>13 DEF Executed
  <2> QED BY <1>12, <2>1
<1>14. CASE ~ closes
  <2>1. Executed(tr, gain, closes) = on
    BY <1>1, <1>4, <1>14 DEF Executed
  <2> QED BY <1>7, <2>1
<1> QED BY <1>13, <1>14

LEMMA AddExecutionStep ==
  ASSUME LiveInv, NEW t, NEW gain \in Gains, NEW closes \in BOOLEAN, AddExecution(t, gain, closes)
  PROVE  LiveInv'
<1>1. /\ stored' = stored /\ doing' = "added" /\ ~ ticked' /\ ticks' = ticks /\ shown' = shown
      /\ quotes' = quotes
  BY DEF AddExecution
<1>2. QuotesKept'
  BY <1>1, Unticked
<1>3. CASE t \notin DOMAIN trades
  <2>1. trades' = trades
    BY <1>3 DEF AddExecution
  <2> QED BY <1>1, <1>2, <2>1 DEF LiveInv, TradesKept
<1>4. CASE t \in DOMAIN trades
  <2>1. PICK tr : tr = trades[t]
    OBVIOUS
  <2>2. tr \in KeptTrades
    BY <1>4, <2>1 DEF LiveInv, TradesKept
  <2>12. Executed(tr, gain, closes) \in KeptTrades
    BY <2>2, ExecutedKept
  <2>13. trades' = [trades EXCEPT ![t] = Executed(trades[t], gain, closes)]
    BY <1>4 DEF AddExecution
  <2>14. \A u \in DOMAIN trades' : trades'[u] \in KeptTrades
    BY <2>1, <2>12, <2>13 DEF LiveInv, TradesKept
  <2>15. TradesKept'
    BY <1>1, <2>14 DEF LiveInv, TradesKept
  <2> QED BY <1>2, <2>15 DEF LiveInv
<1> QED BY <1>3, <1>4

LEMMA CommitStep ==
  ASSUME LiveInv, NEW c, NEW amount, CommitExecution(c, amount)
  PROVE  LiveInv'
<1>1. /\ trades' = trades /\ doing' = "reading" /\ ~ ticked' /\ ticks' = ticks /\ shown' = shown
      /\ quotes' = quotes
      /\ stored' = [t \in {u \in DOMAIN trades : trades[u].open} \union opened |->
                      IF t \in DOMAIN trades THEN trades[t] ELSE FromExecution]
  BY DEF CommitExecution
<1>2. QuotesKept'
  BY <1>1, Unticked
<1>3. \A t \in DOMAIN stored' : stored'[t] = IF t \in DOMAIN trades THEN trades[t] ELSE FromExecution
  BY <1>1
<1>a. \A t \in DOMAIN stored' : stored'[t] \in KeptTrades
  BY <1>3, FirstKept DEF LiveInv, TradesKept
<1>b. \A t \in DOMAIN stored' : t \in DOMAIN trades => stored'[t] = trades[t]
  BY <1>3
<1>c. \A t \in DOMAIN trades : Len(trades[t].points) <= Len(trades[t].points)
  BY DEF LiveInv, TradesKept, KeptTrades, LiveTrades
<1>4. TradesKept'
  BY <1>1, <1>a, <1>b, <1>c DEF LiveInv, TradesKept
<1> QED BY <1>2, <1>4 DEF LiveInv

\* What refresh makes of a trade and its row.
LEMMA ReloadKept ==
  ASSUME NEW tr \in KeptTrades, NEW row \in KeptTrades, ~ tr.raced => tr = row,
         Len(row.points) <= Len(tr.points)
  PROVE  Reload(tr, row) \in KeptTrades
<1>1. /\ tr \in LiveTrades /\ row \in LiveTrades /\ WellKept(tr) /\ WellKept(row)
      /\ tr.points \in Seq(Int) /\ row.points \in Seq(Int) /\ tr.raced \in BOOLEAN
  BY DEF KeptTrades, LiveTrades
<1>2. PICK k, m, a, b : k = row.max /\ m = row.min /\ a = row.points[k] /\ b = row.points[m]
  OBVIOUS
<1>a. /\ k \in 1 .. Len(row.points) /\ m \in 1 .. Len(row.points) /\ k # m
      /\ a >= 0 /\ b <= 0
  BY <1>1, <1>2 DEF WellKept
<1>b. a \in Int /\ b \in Int
  BY <1>1, <1>2, <1>a
<1>c. Len(row.points) \in Nat /\ Len(tr.points) \in Nat
  BY <1>1
<1>3. /\ k \in 1 .. Len(tr.points) /\ m \in 1 .. Len(tr.points) /\ k # m
      /\ a \in Int /\ b \in Int /\ a >= 0 /\ b <= 0 /\ k \in Nat /\ m \in Nat
  BY <1>a, <1>b, <1>c
<1>4. PICK ps : ps = [tr.points EXCEPT ![k] = a, ![m] = b]
  OBVIOUS
<1>5. ps \in Seq(Int) /\ Len(ps) = Len(tr.points) /\ ps[k] = a /\ ps[m] = b
  BY <1>1, <1>3, <1>4
<1>6. PICK u : u = Reload(tr, row)
  OBVIOUS
<1>7. u = [tr EXCEPT !.max = k, !.min = m, !.points = ps]
  BY <1>1, <1>2, <1>4, <1>6 DEF Reload, LiveTrades
<1>8. u \in LiveTrades
  BY <1>1, <1>3, <1>5, <1>7, Zenon DEF LiveTrades
<1>9. /\ u.max = k /\ u.min = m /\ u.points = ps /\ u.raced = tr.raced
      /\ u.latest = tr.latest /\ u.high = tr.high /\ u.low = tr.low
  BY <1>1, <1>7 DEF LiveTrades
<1>10. ~ tr.raced => a = tr.high /\ b = tr.low
  BY <1>1, <1>2 DEF WellKept
<1>11. tr.latest \in 0 .. Len(tr.points)
  BY <1>1 DEF WellKept
<1>12. WellKept(u)
  BY <1>3, <1>5, <1>9, <1>10, <1>11 DEF WellKept
<1> QED BY <1>6, <1>8, <1>12 DEF KeptTrades

LEMMA RefreshStep ==
  ASSUME LiveInv, Refresh
  PROVE  LiveInv'
<1>1. /\ stored' = stored /\ doing = "reading" /\ doing' = "idle" /\ ~ ticked' /\ ticks' = ticks
      /\ shown' = shown /\ quotes' = quotes
      /\ trades' = [t \in DOMAIN stored |->
                      IF t \in DOMAIN trades THEN Reload(trades[t], stored[t]) ELSE stored[t]]
  BY DEF Refresh
<1>2. QuotesKept'
  BY <1>1, Unticked
<1>3. ASSUME NEW t \in DOMAIN stored
      PROVE  trades'[t] \in KeptTrades
  <2>1. PICK tr, row : tr = trades[t] /\ row = stored[t]
    OBVIOUS
  <2>2. row \in KeptTrades
    BY <2>1 DEF LiveInv, TradesKept
  <2>3. CASE t \in DOMAIN trades
    <3>1. tr \in KeptTrades /\ Len(row.points) <= Len(tr.points) /\ (~ tr.raced => tr = row)
      BY <1>1, <2>1, <2>3 DEF LiveInv, TradesKept
    <3>2. trades'[t] = Reload(tr, row)
      BY <1>1, <2>1, <2>3
    <3> QED BY <2>2, <3>1, <3>2, ReloadKept
  <2>4. CASE t \notin DOMAIN trades
    BY <1>1, <2>1, <2>2, <2>4
  <2> QED BY <2>3, <2>4
<1>4. TradesKept'
  BY <1>1, <1>3 DEF LiveInv, TradesKept
<1> QED BY <1>2, <1>4 DEF LiveInv

\* What a restart makes of a row: the two extremes are all the points it has.
LEMMA RestartKept ==
  ASSUME NEW tr \in KeptTrades, NEW u,
         u = [tr EXCEPT !.live = NoLive, !.latest = 0, !.raced = FALSE,
                        !.high = tr.points[tr.max], !.low = tr.points[tr.min],
                        !.points = <<tr.points[tr.max], tr.points[tr.min]>>,
                        !.max = 1, !.min = 2]
  PROVE  u \in KeptTrades
<1>1. tr \in LiveTrades /\ WellKept(tr) /\ tr.points \in Seq(Int)
  BY DEF KeptTrades, LiveTrades
<1>2. PICK a, b, ps : a = tr.points[tr.max] /\ b = tr.points[tr.min] /\ ps = <<a, b>>
  OBVIOUS
<1>3. a \in Int /\ b \in Int /\ a >= 0 /\ b <= 0
  BY <1>1, <1>2 DEF WellKept
<1>4. ps \in Seq(Int) /\ Len(ps) = 2 /\ ps[1] = a /\ ps[2] = b
  BY <1>2, <1>3
<1>5. u = [tr EXCEPT !.live = NoLive, !.latest = 0, !.raced = FALSE, !.high = a, !.low = b,
                     !.points = ps, !.max = 1, !.min = 2]
  BY <1>2
<1>6. /\ 0 \in Nat /\ 1 \in Nat /\ 2 \in Nat /\ FALSE \in BOOLEAN /\ NoLive \in Int \union {NoLive}
  OBVIOUS
<1>7. u \in LiveTrades
  BY <1>1, <1>3, <1>4, <1>5, <1>6, Zenon DEF LiveTrades
<1>8. /\ u.points = ps /\ u.max = 1 /\ u.min = 2 /\ u.latest = 0 /\ u.high = a /\ u.low = b
  BY <1>1, <1>5 DEF LiveTrades
<1>9. WellKept(u)
  BY <1>3, <1>4, <1>8 DEF WellKept
<1> QED BY <1>7, <1>9 DEF KeptTrades

LEMMA RestartStep ==
  ASSUME LiveInv, Restart
  PROVE  LiveInv'
<1>1. /\ stored' = trades' /\ doing' = "idle" /\ ~ ticked' /\ ticks' = ticks
      /\ shown' = shown /\ quotes' = {}
      /\ trades' = [t \in DOMAIN stored |->
                     [stored[t] EXCEPT !.live = NoLive, !.latest = 0, !.raced = FALSE,
                         !.high = stored[t].points[stored[t].max],
                         !.low = stored[t].points[stored[t].min],
                         !.points = <<@[stored[t].max], @[stored[t].min]>>,
                         !.max = 1, !.min = 2]]
  BY DEF Restart
<1>2. QuotesKept'
  BY <1>1, Unticked
<1>3. ASSUME NEW t \in DOMAIN stored
      PROVE  trades'[t] \in KeptTrades
  <2>1. PICK tr, u : tr = stored[t] /\ u = trades'[t]
    OBVIOUS
  <2>2. tr \in KeptTrades
    BY <2>1 DEF LiveInv, TradesKept
  <2>3. u = [tr EXCEPT !.live = NoLive, !.latest = 0, !.raced = FALSE,
                       !.high = tr.points[tr.max], !.low = tr.points[tr.min],
                       !.points = <<tr.points[tr.max], tr.points[tr.min]>>,
                       !.max = 1, !.min = 2]
    BY <1>1, <2>1
  <2>4. u \in KeptTrades
    BY <2>2, <2>3, RestartKept
  <2> QED BY <2>1, <2>4
<1>4. TradesKept'
  BY <1>1, <1>3 DEF TradesKept
<1> QED BY <1>2, <1>4 DEF LiveInv

LEMMA LiveStep == LiveInv /\ [LiveNext]_liveVars => LiveInv'
<1>1. ASSUME LiveInv, LiveNext PROVE LiveInv'
  BY <1>1, UpdateStep, PublishStep, TickerStep, AddExecutionStep, CommitStep, RefreshStep,
     RestartStep DEF LiveNext
<1>2. ASSUME LiveInv, UNCHANGED liveVars PROVE LiveInv'
  <2>1. /\ trades' = trades /\ stored' = stored /\ doing' = doing /\ cash' = cash
        /\ ticks' = ticks /\ ticked' = ticked /\ quotes' = quotes /\ shown' = shown
    BY <1>2 DEF liveVars
  <2>2. Amounts(trades)' = Amounts(trades)
    BY <2>1, SameAmounts
  <2> QED BY <1>2, <2>1, <2>2 DEF LiveInv, TradesKept, QuotesKept
<1> QED BY <1>1, <1>2

\* The extremes of a trade are those of all pnls there were, though points are shared
\* and changed in place, and what is shown is the newest balance when it is marked so.
THEOREM LiveShown == LiveSpec => []LiveIsRight
<1>1. LiveInv => LiveIsRight
  BY DEF LiveInv, TradesKept, KeptTrades, WellKept, QuotesKept, LiveIsRight, ExtremesHold,
         LiveIsCurrent
<1> QED BY <1>1, LiveStarts, LiveStep, PTL DEF LiveSpec

-----------------------------------------------------------------------------
(***************************************************************************)
(* Intervals, days and graph, for any accounts and amounts, any lengths of *)
(* days, weeks and months, and any history.  First what the entries of     *)
(* some times add up to.                                                   *)
(***************************************************************************)
HistoryEntries == [kind : {"earning", "transfer", "balance"}, acct : Accts, amount : Int]
                     \cup [kind : {"nothing"}]

Recorded == history \in Seq(HistoryEntries)

Entered == {t \in DOMAIN history : history[t].kind # "nothing"}

LEMMA DaysGrow ==
  ASSUME NEW t \in Nat, NEW u \in Nat, t <= u
  PROVE  Day(t) \in Nat /\ Day(u) \in Nat /\ Day(t) <= Day(u)
<1>1. DayLen \in Nat \ {0}
  BY IntervalAssumption
<1>2. PICK d \in Nat \ {0} : d = DayLen
  BY <1>1
<1>3. t \div d \in Nat /\ u \div d \in Nat /\ t \div d <= u \div d
  BY SMTT(30)
<1> QED BY <1>2, <1>3 DEF Day

LEMMA AmountsAre ==
  ASSUME Recorded
  PROVE  /\ Len(history) \in Nat /\ DOMAIN history = 1 .. Len(history)
         /\ \A t \in Entered : /\ t \in 1 .. Len(history) /\ history[t].amount \in Int
                               /\ history[t].acct \in Accts
                               /\ history[t].kind \in {"earning", "transfer", "balance"}
         /\ \A a, k : k # "nothing" => \A t \in Of(a, k) :
                         t \in Entered /\ history[t].kind = k /\ history[t].acct = a
<1>1. Len(history) \in Nat /\ DOMAIN history = 1 .. Len(history)
  BY DEF Recorded
<1>2. \A t \in DOMAIN history : history[t] \in HistoryEntries
  BY DEF Recorded
<1> QED BY <1>1, <1>2 DEF Entered, HistoryEntries, Of

LEMMA TotalInt ==
  ASSUME Recorded, NEW S, \A t \in S : t \in Entered
  PROVE  Total(S) \in Int
<1> DEFINE f == [t \in DOMAIN history |-> IF t \in S THEN history[t].amount ELSE 0]
<1>1. \A k \in 1 .. Len(history) : f[k] \in Int
  BY AmountsAre
<1> HIDE DEF f
<1>2. SumOf(f, Len(history)) \in Int
  BY <1>1, AmountsAre, SumOfInt
<1> QED BY <1>2 DEF f, Total

LEMMA TotalJoined ==
  ASSUME Recorded, NEW A, NEW B, \A t \in A : t \in Entered, \A t \in B : t \in Entered,
         \A t \in A : t \notin B
  PROVE  Total(A \cup B) = Total(A) + Total(B)
<1> DEFINE f == [t \in DOMAIN history |-> IF t \in A THEN history[t].amount ELSE 0]
           g == [t \in DOMAIN history |-> IF t \in B THEN history[t].amount ELSE 0]
           h == [t \in DOMAIN history |-> IF t \in A \cup B THEN history[t].amount ELSE 0]
<1>1. \A k \in 1 .. Len(history) : f[k] \in Int /\ g[k] \in Int /\ h[k] = f[k] + g[k]
  <2> SUFFICES ASSUME NEW k \in 1 .. Len(history)
               PROVE  f[k] \in Int /\ g[k] \in Int /\ h[k] = f[k] + g[k]
    OBVIOUS
  <2>1. k \in DOMAIN history
    BY AmountsAre
  <2>2. k \in A \/ k \in B => history[k].amount \in Int
    BY AmountsAre
  <2> QED BY <2>1, <2>2
<1>2. Len(history) \in Nat
  BY AmountsAre
<1> HIDE DEF f, g, h
<1>3. SumOf(h, Len(history)) = SumOf(f, Len(history)) + SumOf(g, Len(history))
  BY <1>1, <1>2, SumOfBoth
<1> QED BY <1>3 DEF f, g, h, Total

LEMMA TotalOfNone == ASSUME Recorded PROVE Total({}) = 0
<1> DEFINE f == [t \in DOMAIN history |-> IF t \in {} THEN history[t].amount ELSE 0]
<1>1. \A k \in 1 .. Len(history) : f[k] = 0
  BY AmountsAre
<1> HIDE DEF f
<1>2. SumOf(f, Len(history)) = 0
  BY <1>1, AmountsAre, SumOfNothing
<1> QED BY <1>2 DEF f, Total

\* One entry.
LEMMA TotalOfOne ==
  ASSUME Recorded, NEW t \in Entered
  PROVE  Total({t}) = history[t].amount
<1> DEFINE f == [u \in DOMAIN history |-> 0]
           g == [u \in DOMAIN history |-> IF u \in {t} THEN history[u].amount ELSE 0]
<1>1. /\ \A k \in 1 .. Len(history) : f[k] = 0 /\ g[k] \in Int /\ (k # t => f[k] = g[k])
      /\ t \in 1 .. Len(history) /\ g[t] = history[t].amount /\ Len(history) \in Nat
  BY AmountsAre
<1> HIDE DEF f, g
<1>2. SumOf(f, Len(history)) = 0
  BY <1>1, SumOfNothing
<1>3. SumOf(g, Len(history)) = SumOf(f, Len(history)) - f[t] + g[t]
  <2>1. \A k \in 1 .. Len(history) : f[k] \in Int /\ g[k] \in Int
    BY <1>1
  <2>2. \A k \in 1 .. Len(history) : k # t => f[k] = g[k]
    BY <1>1
  <2> QED BY <1>1, <2>1, <2>2, SumOfChanged
<1>4. SumOf(g, Len(history)) = history[t].amount
  <2>1. history[t].amount \in Int /\ f[t] = 0
    BY <1>1, AmountsAre
  <2> QED BY <1>1, <1>2, <1>3, <2>1
<1> QED BY <1>4 DEF g, Total

\* What comes later does not change what the earlier ones add up to.
LEMMA TotalStays ==
  ASSUME Recorded, NEW e, history' = Append(history, e), NEW S, \A t \in S : t \in Entered
  PROVE  Total(S)' = Total(S)
<1> DEFINE f == [t \in DOMAIN history |-> IF t \in S THEN history[t].amount ELSE 0]
           g == [t \in DOMAIN history' |-> IF t \in S THEN history'[t].amount ELSE 0]
           n == Len(history)
<1>1. /\ n \in Nat /\ Len(history') = n + 1 /\ DOMAIN history' = 1 .. n + 1
      /\ \A k \in 1 .. n : history'[k] = history[k]
      /\ DOMAIN history = 1 .. n
  BY DEF Recorded
<1>2. (\A k \in 1 .. n : f[k] = g[k]) /\ g[n + 1] = 0
  <2>1. n + 1 \notin S
    BY <1>1, AmountsAre
  <2> QED BY <1>1, <2>1
<1>3. Total(S) = SumOf(f, n) /\ Total(S)' = SumOf(g, n + 1) /\ Total(S) \in Int
  BY <1>1, TotalInt DEF Total
<1>4. SumOf(g, n + 1) = SumOf(f, n) + g[n + 1]
  <2> HIDE DEF f, g
  <2> QED BY <1>1, <1>2, SumOfLonger, SMTT(30)
<1> HIDE DEF f, g, n
<1>5. Total(S) = SumOf(g, n + 1)
  BY <1>2, <1>3, <1>4
<1> QED BY <1>3, <1>5, Zenon

-----------------------------------------------------------------------------
\* A balance is what its account had earned and was transferred before it.
BalanceIs(t) == history[t].amount = Total({u \in Money(history[t].acct) : u < t})

LedgerInv ==
  /\ Recorded
  /\ \A t \in Entered : history[t].kind = "balance" => BalanceIs(t)

LEMMA MoneyIs ==
  ASSUME Recorded
  PROVE  \A a : \A t \in Money(a) :
            /\ t \in Entered /\ history[t].acct = a
            /\ history[t].kind \in {"earning", "transfer"}
BY AmountsAre DEF Money

LEMMA LedgerStarts == IntervalInit => LedgerInv
BY DEF IntervalInit, LedgerInv, Recorded, Entered

LEMMA Happened ==
  ASSUME LedgerInv, NEW e \in HistoryEntries, Happen(e),
         e.kind = "balance" => e.amount = Total(Money(e.acct))
  PROVE  LedgerInv'
<1>1. Recorded
  BY DEF LedgerInv
<1>2. history' = Append(history, e)
  BY DEF Happen
<1>3. Recorded'
  BY <1>1, <1>2 DEF Recorded
<1>4. PICK n \in Nat : n = Len(history)
  BY <1>1, AmountsAre
<1>5. /\ DOMAIN history = 1 .. n /\ DOMAIN history' = 1 .. n + 1
      /\ \A t \in 1 .. n : history'[t] = history[t]
      /\ history'[n + 1] = e
  BY <1>1, <1>2, <1>4 DEF Recorded
<1>6. ASSUME NEW t \in Entered', history'[t].kind = "balance" PROVE BalanceIs(t)'
  <2>1. PICK a : a = history'[t].acct
    OBVIOUS
  <2>2. t \in 1 .. n + 1
    BY <1>5 DEF Entered
  <2>3. PICK S : S = {u \in Money(a) : u < t}
    OBVIOUS
  <2>4. S = {u \in Money(a)' : u < t}
    <3>1. \A u \in 1 .. n : u \in Money(a) <=> u \in Money(a)'
      BY <1>5 DEF Money, Of
    <3>2. \A u \in Money(a) : u \in 1 .. n
      BY <1>5 DEF Money, Of
    <3>3. \A u \in Money(a)' : u \in 1 .. n + 1
      BY <1>5 DEF Money, Of
    <3> QED BY <2>2, <2>3, <3>1, <3>2, <3>3
  <2>5. \A u \in S : u \in Entered
    BY <1>1, <2>3, MoneyIs
  <2>6. Total(S)' = Total(S)
    BY <1>1, <1>2, <2>5, TotalStays
  <2>7. CASE t \in 1 .. n
    <3>1. /\ t \in Entered /\ history[t].kind = "balance" /\ a = history[t].acct
          /\ history'[t].amount = history[t].amount
      BY <1>5, <1>6, <2>1, <2>7 DEF Entered
    <3>2. history[t].amount = Total(S)
      BY <2>3, <3>1 DEF LedgerInv, BalanceIs
    <3> QED BY <2>1, <2>4, <2>6, <3>1, <3>2 DEF BalanceIs
  <2>8. CASE t = n + 1
    <3>1. a = e.acct /\ e.kind = "balance" /\ history'[t].amount = e.amount
      BY <1>5, <1>6, <2>1, <2>8
    <3>2. S = Money(a)
      <4>1. \A u \in Money(a) : u \in 1 .. n
        BY <1>5 DEF Money, Of
      <4> QED BY <2>3, <2>8, <4>1
    <3> QED BY <2>1, <2>4, <2>6, <3>1, <3>2 DEF BalanceIs
  <2> QED BY <2>2, <2>7, <2>8
<1> QED BY <1>3, <1>6 DEF LedgerInv

LEMMA LedgerStep == LedgerInv /\ [IntervalNext]_history => LedgerInv'
<1> SUFFICES ASSUME LedgerInv, [IntervalNext]_history PROVE LedgerInv'
  OBVIOUS
<1>1. Earnings \subseteq Int /\ Moves \subseteq Int
  BY IntervalAssumption
<1>2. CASE Earn
  <2>1. PICK a \in Accts, amount \in Earnings :
            Happen([kind |-> "earning", acct |-> a, amount |-> amount])
    BY <1>2 DEF Earn
  <2>2. PICK e : e = [kind |-> "earning", acct |-> a, amount |-> amount]
    OBVIOUS
  <2>3. e \in HistoryEntries /\ e.kind = "earning"
    BY <1>1, <2>2 DEF HistoryEntries
  <2> QED BY <2>1, <2>2, <2>3, Happened
<1>3. CASE Transferred
  <2>1. PICK a \in Accts, amount \in Moves :
            Happen([kind |-> "transfer", acct |-> a, amount |-> amount])
    BY <1>3 DEF Transferred
  <2>2. PICK e : e = [kind |-> "transfer", acct |-> a, amount |-> amount]
    OBVIOUS
  <2>3. e \in HistoryEntries /\ e.kind = "transfer"
    BY <1>1, <2>2 DEF HistoryEntries
  <2> QED BY <2>1, <2>2, <2>3, Happened
<1>4. CASE Stored
  <2>1. PICK a \in Accts :
            Happen([kind |-> "balance", acct |-> a, amount |-> Total(Money(a))])
    BY <1>4 DEF Stored
  <2>2. PICK e : e = [kind |-> "balance", acct |-> a, amount |-> Total(Money(a))]
    OBVIOUS
  <2>3. Recorded
    BY DEF LedgerInv
  <2>4. \A t \in Money(a) : t \in Entered
    BY <2>3, MoneyIs
  <2>5. Total(Money(a)) \in Int
    BY <2>3, <2>4, TotalInt
  <2>6. e \in HistoryEntries /\ e.acct = a /\ e.amount = Total(Money(a))
    BY <2>2, <2>5 DEF HistoryEntries
  <2> QED BY <2>1, <2>2, <2>6, Happened
<1>5. CASE Passes
  <2>1. PICK e : e = [kind |-> "nothing"]
    OBVIOUS
  <2>2. Happen(e) /\ e \in HistoryEntries /\ e.kind = "nothing"
    BY <1>5, <2>1 DEF Passes, HistoryEntries
  <2> QED BY <2>2, Happened
<1>6. CASE UNCHANGED history
  BY <1>6 DEF LedgerInv, Recorded, Entered, BalanceIs, Total, Money, Of
<1> QED BY <1>2, <1>3, <1>4, <1>5, <1>6 DEF IntervalNext

-----------------------------------------------------------------------------
\* Times in their order.
LEMMA InOrderAre ==
  ASSUME NEW m \in Nat, NEW S, \A u \in S : u \in 1 .. m, NEW p, p = InOrder(S)
  PROVE  /\ p \in Seq(S)
         /\ \A j \in 1 .. Len(p) : \A i \in 1 .. j - 1 : p[i] < p[j]
         /\ \A t \in S : \E k \in 1 .. Len(p) : p[k] = t
<1>1. Cardinality(S) \in Nat /\ \A t : Cardinality(NotNewer(S, t)) \in 0 .. Cardinality(S)
  BY NotNewerFinite
<1>2. PICK c \in Nat : c = Cardinality(S)
  BY <1>1
<1>3. p = [k \in 1 .. c |-> CHOOSE t \in S : Cardinality(NotNewer(S, t)) = k]
  BY <1>2 DEF InOrder, NotNewer
<1>4. \A k \in 1 .. c : p[k] \in S /\ Cardinality(NotNewer(S, p[k])) = k
  <2> SUFFICES ASSUME NEW k \in 1 .. c PROVE p[k] \in S /\ Cardinality(NotNewer(S, p[k])) = k
    OBVIOUS
  <2>1. \E t \in S : Cardinality(NotNewer(S, t)) = k
    BY <1>2, KthOldest
  <2>2. p[k] = CHOOSE t \in S : Cardinality(NotNewer(S, t)) = k
    BY <1>3
  <2> QED BY <2>1, <2>2
<1>5. DOMAIN p = 1 .. c /\ p \in Seq(S) /\ Len(p) = c
  BY <1>3, <1>4
<1>6. \A t \in S, v \in S : /\ t \in Int /\ v \in Int
                            /\ t < v => Cardinality(NotNewer(S, t)) < Cardinality(NotNewer(S, v))
  BY NewerHasMore
<1>7. ASSUME NEW j \in 1 .. c, NEW i \in 1 .. j - 1 PROVE p[i] < p[j]
  <2>1. /\ p[i] \in S /\ Cardinality(NotNewer(S, p[i])) = i
        /\ p[j] \in S /\ Cardinality(NotNewer(S, p[j])) = j
    BY <1>4
  <2> QED BY <1>6, <2>1
<1>8. ASSUME NEW t \in S PROVE \E k \in 1 .. c : p[k] = t
  <2>1. PICK d \in 0 .. c : d = Cardinality(NotNewer(S, t))
    BY <1>1, <1>2
  <2>2. d # 0
    <3>1. t \in NotNewer(S, t)
      BY <1>6 DEF NotNewer
    <3> QED BY <2>1, <3>1, NotNewerFinite, FS_EmptySet
  <2>3. p[d] \in S /\ Cardinality(NotNewer(S, p[d])) = d
    BY <1>4, <2>2
  <2>4. p[d] = t
    BY <1>6, <2>1, <2>3
  <2> QED BY <2>2, <2>4
<1> QED BY <1>5, <1>7, <1>8

\* From one balance of an account to a later one.
LEMMA BalancesDiffer ==
  ASSUME LedgerInv, NEW a, NEW b \in Of(a, "balance"), NEW c \in Of(a, "balance"), b <= c
  PROVE  history[c].amount - history[b].amount
            = EarnedIn(a, b, c) + Total(Between(Of(a, "transfer"), b, c))
<1>1. Recorded
  BY DEF LedgerInv
<1>2. PICK E, T, B, M : /\ E = Between(Of(a, "earning"), b, c)
                        /\ T = Between(Of(a, "transfer"), b, c)
                        /\ B = {u \in Money(a) : u < b}
                        /\ M = {u \in Money(a) : u < c}
  OBVIOUS
<1>3. /\ b \in Entered /\ history[b].kind = "balance" /\ history[b].acct = a
      /\ c \in Entered /\ history[c].kind = "balance" /\ history[c].acct = a
      /\ b \in Nat /\ c \in Nat
  BY <1>1, AmountsAre
<1>4. history[b].amount = Total(B) /\ history[c].amount = Total(M)
  BY <1>2, <1>3 DEF LedgerInv, BalanceIs
<1>5. \A t \in Of(a, "earning") : t \in Entered /\ t \in Nat /\ history[t].kind = "earning"
  BY <1>1, AmountsAre
<1>6. \A t \in Of(a, "transfer") : t \in Entered /\ t \in Nat /\ history[t].kind = "transfer"
  BY <1>1, AmountsAre
<1>7. \A t \in B : t \in Entered /\ t < b /\ t \in Nat
  BY <1>2, <1>5, <1>6 DEF Money
<1>8. /\ \A t \in E : t \in Entered /\ b < t /\ t \in Nat /\ t \notin T /\ t \notin B
      /\ \A t \in T : t \in Entered /\ b < t /\ t \in Nat /\ t \notin B
  BY <1>2, <1>3, <1>5, <1>6 DEF Between
<1>9. M = B \cup (E \cup T)
  <2>1. \A t \in Money(a) : t # b /\ t # c
    BY <1>3, <1>5, <1>6 DEF Money
  <2>2. \A t \in Money(a) : t \in Nat
    BY <1>5, <1>6 DEF Money
  <2>3. \A t \in M : t \in B \cup (E \cup T)
    <3> SUFFICES ASSUME NEW t \in M, t \notin B PROVE t \in E \cup T
      OBVIOUS
    <3>1. t \in Money(a) /\ t < c /\ b < t
      BY <1>2, <1>3, <2>1, <2>2
    <3> QED BY <1>2, <1>3, <2>2, <3>1 DEF Between, Money
  <2>4. \A t \in B \cup (E \cup T) : t \in Money(a)
    BY <1>2 DEF Between, Money
  <2>5. \A t \in B \cup (E \cup T) : t < c
    <3>1. \A t \in E \cup T : t <= c
      BY <1>2 DEF Between
    <3>2. \A t \in B : t < b
      BY <1>2
    <3> QED BY <1>3, <2>1, <2>2, <2>4, <3>1, <3>2
  <2> QED BY <1>2, <2>3, <2>4, <2>5
<1>10. Total(E \cup T) = Total(E) + Total(T)
  BY <1>1, <1>8, TotalJoined
<1>11. Total(B \cup (E \cup T)) = Total(B) + Total(E \cup T)
  <2>1. (\A t \in E \cup T : t \in Entered) /\ \A t \in B : t \notin E \cup T
    BY <1>8
  <2> QED BY <1>1, <1>7, <2>1, TotalJoined
<1>12. Total(B) \in Int /\ Total(E) \in Int /\ Total(T) \in Int
  BY <1>1, <1>7, <1>8, TotalInt
<1>13. Total(E) = EarnedIn(a, b, c) /\ Total(T) = Total(Between(Of(a, "transfer"), b, c))
  BY <1>2 DEF EarnedIn
<1>14. history[c].amount = Total(B) + (Total(E) + Total(T))
  BY <1>4, <1>9, <1>10, <1>11
<1> HIDE DEF Total, EarnedIn
<1>15. history[c].amount - history[b].amount = Total(E) + Total(T)
  BY <1>4, <1>12, <1>14
<1> QED BY <1>13, <1>15

-----------------------------------------------------------------------------
(* The pairs of create_intervals.                                          *)

\* What the k-th pair makes of what the ones before made.
NextPair(was, daily, moved, length, k) ==
  LET prev == daily[k]
      current == daily[k + 1]
      offset == was.offset + Send(moved, IF k = 1 THEN -1 ELSE prev, current)
  IN  IF k = 1 \/ IsSame(current, prev, length)
      THEN [was EXCEPT !.offset = offset]
      ELSE [results |-> Append(was.results, Create(was.recent, prev, offset)),
            recent |-> prev, offset |-> 0]

FirstPair(daily) == [results |-> <<>>, recent |-> daily[1], offset |-> 0]

ArePairs(s, daily, moved, length, n) ==
  s = [k \in 0 .. n |-> IF k = 0 THEN FirstPair(daily)
                        ELSE NextPair(s[k - 1], daily, moved, length, k)]

LEMMA PairsExist ==
  ASSUME NEW daily, NEW moved, NEW length, NEW n \in Nat
  PROVE  \E s : ArePairs(s, daily, moved, length, n)
<1> DEFINE A == {k \in Nat : ~\E s : ArePairs(s, daily, moved, length, k)}
<1>1. ASSUME NEW k \in A PROVE k # 0 /\ k - 1 \in A
  <2>1. k # 0
    <3> SUFFICES ASSUME k = 0 PROVE FALSE
      OBVIOUS
    <3> DEFINE s == [i \in 0 .. 0 |-> FirstPair(daily)]
    <3>1. ArePairs(s, daily, moved, length, 0)
      BY DEF ArePairs
    <3> QED BY <3>1
  <2>2. ASSUME k - 1 \notin A PROVE FALSE
    <3>1. k - 1 \in Nat
      BY <2>1
    <3>2. PICK s : ArePairs(s, daily, moved, length, k - 1)
      BY <2>2, <3>1
    <3> DEFINE t == [i \in 0 .. k |-> IF i = k THEN NextPair(s[k - 1], daily, moved, length, k)
                                      ELSE s[i]]
    <3>3. \A i \in 0 .. k - 1 : s[i] = IF i = 0 THEN FirstPair(daily)
                                       ELSE NextPair(s[i - 1], daily, moved, length, i)
      BY <3>2 DEF ArePairs
    <3>4. \A i \in 0 .. k : t[i] = IF i = 0 THEN FirstPair(daily)
                                   ELSE NextPair(t[i - 1], daily, moved, length, i)
      BY <2>1, <3>3
    <3>5. ArePairs(t, daily, moved, length, k)
      BY <3>4 DEF ArePairs
    <3> QED BY <3>5
  <2> QED BY <2>1, <2>2
<1> HIDE DEF A
<1>2. A \in SUBSET Nat
  BY DEF A
<1>3. A = {}
  BY <1>1, <1>2, Descent
<1> QED BY <1>3 DEF A

LEMMA PairsAre ==
  ASSUME NEW daily, NEW moved, NEW length, NEW n \in Nat, n = Len(daily) - 1
  PROVE  \E s : /\ s = Intervalled(daily, moved, length)
                /\ s[0] = FirstPair(daily)
                /\ \A k \in 1 .. n : s[k] = NextPair(s[k - 1], daily, moved, length, k)
<1>1. PICK s : ArePairs(s, daily, moved, length, n)
  BY PairsExist
<1>2. ArePairs(Intervalled(daily, moved, length), daily, moved, length, n)
  BY <1>1 DEF Intervalled, ArePairs, FirstPair, NextPair
<1> QED BY <1>2 DEF ArePairs

IntervalRecords == [start : Entered, end : Entered, offset : Int, gain : Int]

\* Intervals that follow one another from `first` to `recent`, and whose gains are what
\* the balance grew without `moved`.
Chained(r, first, recent, moved) ==
  /\ r \in Seq(IntervalRecords)
  /\ Len(r) = 0 => recent = first
  /\ Len(r) # 0 => r[1].start = first /\ r[Len(r)].end = recent
  /\ \A i \in 2 .. Len(r) : r[i].start = r[i - 1].end
  /\ SumOf([i \in 1 .. Len(r) |-> r[i].gain], Len(r))
        = history[recent].amount - history[first].amount - moved

LEMMA ChainGrows ==
  ASSUME Recorded, NEW r, NEW first \in Entered, NEW recent \in Entered, NEW p \in Entered,
         NEW moved \in Int, NEW offset \in Int, Chained(r, first, recent, moved)
  PROVE  Chained(Append(r, Create(recent, p, offset)), first, p, moved + offset)
<1>1. PICK i : i = Create(recent, p, offset)
  OBVIOUS
<1>2. PICK n \in Nat : n = Len(r)
  BY DEF Chained
<1>3. PICK q : q = Append(r, i)
  OBVIOUS
<1>4. /\ history[first].amount \in Int /\ history[recent].amount \in Int
      /\ history[p].amount \in Int
  BY AmountsAre
<1>5. /\ i \in IntervalRecords /\ i.start = recent /\ i.end = p
      /\ i.gain = history[p].amount - history[recent].amount - offset
  BY <1>1, <1>4 DEF Create, IntervalRecords
<1>6. r \in Seq(IntervalRecords)
  BY DEF Chained
<1>7. /\ q \in Seq(IntervalRecords) /\ Len(q) = n + 1 /\ q # <<>> /\ q[n + 1] = i
      /\ \A k \in 1 .. n : q[k] = r[k]
  BY <1>2, <1>3, <1>5, <1>6
<1>8. q[1].start = first
  <2>1. CASE n = 0
    <3>1. recent = first
      BY <1>2, <2>1 DEF Chained
    <3> QED BY <1>5, <1>7, <2>1, <3>1
  <2>2. CASE n # 0
    <3>1. r[1].start = first /\ 1 \in 1 .. n
      BY <1>2, <2>2 DEF Chained
    <3> QED BY <1>7, <3>1
  <2> QED BY <2>1, <2>2
<1>9. ASSUME NEW k \in 2 .. n + 1 PROVE q[k].start = q[k - 1].end
  <2>1. CASE k = n + 1
    <3>1. n # 0 /\ n \in 1 .. n
      BY <1>9, <2>1
    <3>2. r[n].end = recent
      BY <1>2, <3>1 DEF Chained
    <3> QED BY <1>5, <1>7, <2>1, <3>1, <3>2
  <2>2. CASE k \in 2 .. n
    <3>1. r[k].start = r[k - 1].end
      BY <1>2, <2>2 DEF Chained
    <3> QED BY <1>7, <2>2, <3>1
  <2> QED BY <1>9, <2>1, <2>2
<1>10. SumOf([k \in 1 .. n + 1 |-> q[k].gain], n + 1)
          = history[p].amount - history[first].amount - (moved + offset)
  <2> DEFINE f == [k \in 1 .. n |-> r[k].gain]
             g == [k \in 1 .. n + 1 |-> q[k].gain]
  <2>1. SumOf(f, n) = history[recent].amount - history[first].amount - moved
    BY <1>2 DEF Chained
  <2>2. (\A k \in 1 .. n : f[k] = g[k]) /\ g[n + 1] = i.gain
    BY <1>7
  <2>3. SumOf(g, n + 1) = SumOf(f, n) + g[n + 1]
    <3> HIDE DEF f, g
    <3> QED BY <2>2, SumOfLonger
  <2> HIDE DEF f
  <2>4. SumOf(g, n + 1) = history[p].amount - history[first].amount - (moved + offset)
    <3> HIDE DEF g
    <3> QED BY <1>4, <1>5, <2>1, <2>2, <2>3
  <2> QED BY <2>4
<1>11. Chained(q, first, p, moved + offset)
  BY <1>5, <1>7, <1>8, <1>9, <1>10 DEF Chained
<1> QED BY <1>1, <1>3, <1>11

LEMMA BetweenJoined ==
  ASSUME Recorded, NEW S, \A t \in S : t \in Entered, NEW from \in Int, NEW mid \in Int,
         NEW to \in Int, from <= mid, mid <= to
  PROVE  /\ Total(Between(S, from, to)) = Total(Between(S, from, mid)) + Total(Between(S, mid, to))
         /\ Total(Between(S, from, mid)) \in Int /\ Total(Between(S, mid, to)) \in Int
<1>1. PICK A, B, C : /\ A = Between(S, from, mid) /\ B = Between(S, mid, to)
                     /\ C = Between(S, from, to)
  OBVIOUS
<1>2. \A t \in S : t \in Entered /\ t \in Int
  BY AmountsAre
<1>3. /\ \A t \in A : t \in Entered /\ t \notin B
      /\ \A t \in B : t \in Entered
      /\ C = A \cup B
  BY <1>1, <1>2 DEF Between
<1>4. Total(A \cup B) = Total(A) + Total(B) /\ Total(A) \in Int /\ Total(B) \in Int
  BY <1>3, TotalJoined, TotalInt
<1> QED BY <1>1, <1>3, <1>4

\* The balances are in their order, and nothing was transferred before the first.
Dated(daily, n, moved) ==
  /\ \A i \in 1 .. n + 1 : daily[i] \in Entered
  /\ \A j \in 1 .. n + 1 : \A i \in 1 .. j - 1 : daily[i] < daily[j]
  /\ \A t \in moved : t \in Entered /\ daily[1] < t

Paired(F, daily, moved, length, n) ==
  /\ F[0] = FirstPair(daily)
  /\ \A k \in 1 .. n : F[k] = NextPair(F[k - 1], daily, moved, length, k)

LEMMA PairsChain ==
  ASSUME Recorded, NEW n \in Nat, NEW daily, NEW moved, Dated(daily, n, moved),
         NEW length, NEW F, Paired(F, daily, moved, length, n)
  PROVE  \A k \in 0 .. n :
            /\ F[k] \in [results : Seq(IntervalRecords), recent : Entered, offset : Int]
            /\ Chained(F[k].results, daily[1], F[k].recent,
                       Total(Between(moved, -1, daily[k + 1])) - F[k].offset)
<1> DEFINE T(k) == Total(Between(moved, -1, daily[k + 1]))
           J(k) == /\ F[k] \in [results : Seq(IntervalRecords), recent : Entered, offset : Int]
                   /\ Chained(F[k].results, daily[1], F[k].recent, T(k) - F[k].offset)
           A == {k \in 0 .. n : ~J(k)}
<1>0. /\ \A i \in 1 .. n + 1 : daily[i] \in Entered
      /\ \A j \in 1 .. n + 1 : \A i \in 1 .. j - 1 : daily[i] < daily[j]
      /\ \A t \in moved : t \in Entered /\ daily[1] < t
      /\ F[0] = FirstPair(daily)
      /\ \A k \in 1 .. n : F[k] = NextPair(F[k - 1], daily, moved, length, k)
  BY DEF Dated, Paired
<1>1. \A i \in 1 .. n + 1 : daily[i] \in Entered /\ daily[i] \in Nat /\ history[daily[i]].amount \in Int
  BY <1>0, AmountsAre
<1>2. \A t \in moved : t \in Entered /\ t \in Nat
  BY <1>0, AmountsAre
<1>3. T(0) = 0
  <2>1. Between(moved, -1, daily[1]) = {}
    <3>1. 1 \in 1 .. n + 1
      OBVIOUS
    <3> QED BY <1>0, <1>1, <1>2, <3>1 DEF Between
  <2>2. T(0) = Total(Between(moved, -1, daily[1]))
    <3>1. 0 + 1 = 1
      OBVIOUS
    <3> QED BY <3>1
  <2> HIDE DEF T
  <2> QED BY <2>1, <2>2, TotalOfNone
<1>4. J(0)
  <2>1. FirstPair(daily) \in [results : Seq(IntervalRecords), recent : Entered, offset : Int]
    BY <1>1 DEF FirstPair
  <2>2. F[0].results = <<>> /\ F[0].recent = daily[1] /\ F[0].offset = 0
    BY <1>0 DEF FirstPair
  <2>3. Chained(<<>>, daily[1], daily[1], 0)
    <3> DEFINE f == [i \in 1 .. Len(<<>>) |-> <<>>[i].gain]
    <3>1. SumOf(f, 0) = 0
      BY SumOfNothing
    <3>2. SumOf([i \in 1 .. Len(<<>>) |-> <<>>[i].gain], Len(<<>>)) = 0
      BY <3>1
    <3>3. history[daily[1]].amount - history[daily[1]].amount - 0 = 0
      BY <1>1
    <3> QED BY <3>2, <3>3 DEF Chained
  <2> QED BY <1>0, <1>3, <2>1, <2>2, <2>3
<1>5. ASSUME NEW k \in A PROVE k # 0 /\ k - 1 \in A
  <2>1. k # 0
    BY <1>4, <1>5
  <2>2. SUFFICES ASSUME J(k - 1) PROVE J(k)
    BY <1>5, <2>1
  <2>3. k \in 1 .. n /\ k - 1 \in 0 .. n /\ (k - 1) + 1 = k
    BY <1>5, <2>1
  <2>4. PICK was : was = F[k - 1]
    OBVIOUS
  <2>5. /\ was \in [results : Seq(IntervalRecords), recent : Entered, offset : Int]
        /\ Chained(was.results, daily[1], was.recent, T(k - 1) - was.offset)
    BY <2>2, <2>4
  <2>6. PICK sent : sent = Send(moved, IF k = 1 THEN -1 ELSE daily[k], daily[k + 1])
    OBVIOUS
  <2>7. T(k) = T(k - 1) + sent /\ sent \in Int /\ T(k - 1) \in Int
    <3>1. daily[k] \in Int /\ daily[k + 1] \in Int /\ daily[k] < daily[k + 1] /\ -1 <= daily[k]
      <4>1. k \in 1 .. n + 1 /\ k + 1 \in 1 .. n + 1 /\ k \in 1 .. (k + 1) - 1
        BY <2>3
      <4>2. daily[k] \in Nat /\ daily[k + 1] \in Nat
        BY <1>1, <4>1
      <4>3. daily[k] < daily[k + 1]
        BY <1>0, <4>1
      <4> QED BY <4>2, <4>3
    <3>0. T(k - 1) = Total(Between(moved, -1, daily[k]))
      BY <2>3
    <3>2. /\ T(k) = T(k - 1) + Total(Between(moved, daily[k], daily[k + 1]))
          /\ T(k - 1) \in Int /\ Total(Between(moved, daily[k], daily[k + 1])) \in Int
      <4>1. PICK x, y \in Int : x = daily[k] /\ y = daily[k + 1] /\ x <= y /\ -1 <= x
        BY <3>1
      <4>2. PICK l \in Int : l = -1
        OBVIOUS
      <4>3. /\ Total(Between(moved, l, y)) = Total(Between(moved, l, x)) + Total(Between(moved, x, y))
            /\ Total(Between(moved, l, x)) \in Int /\ Total(Between(moved, x, y)) \in Int
        <5>1. l <= x
          BY <4>1, <4>2
        <5>2. \A t \in moved : t \in Entered
          BY <1>2
        <5> HIDE DEF T, J, A
        <5> QED BY <4>1, <5>1, <5>2, BetweenJoined
      <4> QED BY <3>0, <4>1, <4>2, <4>3
    <3>3. CASE k = 1
      <4>1. T(k - 1) = 0
        BY <1>3, <3>3
      <4>2. sent = T(k)
        BY <2>6, <3>3 DEF Send
      <4> HIDE DEF T
      <4> QED BY <3>2, <4>1, <4>2
    <3>4. CASE k # 1
      BY <2>6, <3>2, <3>4 DEF Send
    <3> QED BY <3>3, <3>4
  <2>8. PICK t, u \in Int : t = T(k) /\ u = T(k - 1) /\ t = u + sent
    BY <2>7
  <2> HIDE DEF T
  <2>9. F[k] = IF k = 1 \/ IsSame(daily[k + 1], daily[k], length)
               THEN [was EXCEPT !.offset = was.offset + sent]
               ELSE [results |-> Append(was.results, Create(was.recent, daily[k], was.offset + sent)),
                     recent |-> daily[k], offset |-> 0]
    BY <1>0, <2>3, <2>4, <2>6 DEF NextPair
  <2>10. CASE k = 1 \/ IsSame(daily[k + 1], daily[k], length)
    <3>1. F[k] = [was EXCEPT !.offset = was.offset + sent]
      BY <2>9, <2>10
    <3>2. /\ F[k] \in [results : Seq(IntervalRecords), recent : Entered, offset : Int]
          /\ F[k].results = was.results /\ F[k].recent = was.recent
          /\ F[k].offset = was.offset + sent
      <4>1. PICK R, P : was \in [results : R, recent : P, offset : Int]
                        /\ R = Seq(IntervalRecords) /\ P = Entered
        BY <2>5
      <4>2. F[k] = [results |-> was.results, recent |-> was.recent, offset |-> was.offset + sent]
        BY <3>1, <4>1
      <4>3. was.results \in R /\ was.recent \in P /\ was.offset + sent \in Int
        BY <2>7, <4>1
      <4> QED BY <4>1, <4>2, <4>3
    <3>3. t - F[k].offset = u - was.offset
      BY <2>5, <2>7, <2>8, <3>2
    <3> QED BY <2>5, <2>8, <3>2, <3>3
  <2>11. CASE ~(k = 1 \/ IsSame(daily[k + 1], daily[k], length))
    <3>1. F[k] = [results |-> Append(was.results, Create(was.recent, daily[k], was.offset + sent)),
                  recent |-> daily[k], offset |-> 0]
      BY <2>9, <2>11
    <3>2. daily[k] \in Entered /\ daily[1] \in Entered /\ was.recent \in Entered
          /\ was.offset + sent \in Int /\ u - was.offset \in Int
      BY <1>1, <2>3, <2>5, <2>7, <2>8
    <3>3. Chained(Append(was.results, Create(was.recent, daily[k], was.offset + sent)),
                  daily[1], daily[k], (u - was.offset) + (was.offset + sent))
      BY <2>5, <2>8, <3>2, ChainGrows
    <3>4. (u - was.offset) + (was.offset + sent) = t - 0
      BY <2>5, <2>7, <2>8
    <3>5. F[k].results \in Seq(IntervalRecords)
      BY <3>1, <3>3 DEF Chained
    <3> QED BY <2>8, <3>1, <3>2, <3>3, <3>4, <3>5
  <2> QED BY <2>10, <2>11
<1> HIDE DEF A
<1>6. A \in SUBSET Nat
  BY DEF A
<1>7. A = {}
  BY <1>5, <1>6, Descent
<1> QED BY <1>7 DEF A

LEMMA DailyAre ==
  ASSUME Recorded, NEW a, NEW daily, daily = DailyBalance(a)
  PROVE  /\ daily \in Seq(Of(a, "balance")) /\ DOMAIN daily = 1 .. Len(daily) /\ Len(daily) \in Nat
         /\ \A i \in 1 .. Len(daily) : daily[i] \in Of(a, "balance") /\ daily[i] \in Entered
         /\ \A j \in 1 .. Len(daily) : \A i \in 1 .. j - 1 : daily[i] < daily[j]
<1>1. PICK S, B : S = LastOfDays(B) /\ B = Of(a, "balance")
  OBVIOUS
<1>2. \A t \in B : t \in Entered /\ t \in 1 .. Len(history)
  BY <1>1, AmountsAre
<1>3. \A t \in S : t \in B
  BY <1>1 DEF LastOfDays
<1>4. Len(history) \in Nat
  BY AmountsAre
<1>5. daily = InOrder(S)
  BY <1>1 DEF DailyBalance
<1>6. /\ daily \in Seq(S)
      /\ \A j \in 1 .. Len(daily) : \A i \in 1 .. j - 1 : daily[i] < daily[j]
  BY <1>2, <1>3, <1>4, <1>5, InOrderAre
<1>7. \A i \in 1 .. Len(daily) : daily[i] \in S
  BY <1>6
<1>8. DOMAIN daily = 1 .. Len(daily) /\ Len(daily) \in Nat
  BY <1>6
<1>9. \A i \in 1 .. Len(daily) : daily[i] \in B /\ daily[i] \in Entered
  BY <1>2, <1>3, <1>7
<1>10. daily \in Seq(B)
  BY <1>6, <1>8, <1>9
<1> QED BY <1>1, <1>6, <1>8, <1>9, <1>10

\* The intervals of a length are a chain of gains from the first daily balance to the
\* last, and the balances differ by what was earned and transferred in between.
LEMMA GainsHold == LedgerInv => GainsAddUp
<1> SUFFICES ASSUME LedgerInv, NEW a \in Accts, NEW length \in Lengths, NEW daily, NEW all,
                    daily = DailyBalance(a), all = CalcIntervals(a, length), Len(daily) > 1
             PROVE  /\ all[1].start = daily[1] /\ all[Len(all)].end = daily[Len(daily)]
                    /\ \A i \in 2 .. Len(all) : all[i].start = all[i - 1].end
                    /\ SumOf([i \in 1 .. Len(all) |-> all[i].gain], Len(all))
                          = EarnedIn(a, daily[1], daily[Len(daily)])
  BY DEF GainsAddUp
<1>1. Recorded
  BY DEF LedgerInv
<1>2. /\ DOMAIN daily = 1 .. Len(daily) /\ Len(daily) \in Nat
      /\ \A i \in 1 .. Len(daily) : daily[i] \in Of(a, "balance") /\ daily[i] \in Entered
      /\ \A j \in 1 .. Len(daily) : \A i \in 1 .. j - 1 : daily[i] < daily[j]
  BY <1>1, DailyAre
<1>3. PICK n \in Nat : Len(daily) = n + 1 /\ n # 0
  <2>1. Len(daily) - 1 \in Nat /\ Len(daily) - 1 # 0 /\ Len(daily) = (Len(daily) - 1) + 1
    BY <1>2
  <2> QED BY <2>1
<1>4. PICK moved : moved = {t \in Of(a, "transfer") : daily[1] < t /\ t < daily[n + 1]}
  OBVIOUS
<1>5. \A t \in Of(a, "transfer") : t \in Entered /\ t \in Nat /\ history[t].kind = "transfer"
  BY <1>1, AmountsAre
<1>6. \A t \in moved : t \in Entered /\ daily[1] < t /\ t \in Nat
  BY <1>4, <1>5
<1>7. PICK F : /\ F = Intervalled(daily, moved, length)
               /\ F[0] = FirstPair(daily)
               /\ \A k \in 1 .. n : F[k] = NextPair(F[k - 1], daily, moved, length, k)
  <2>1. n = Len(daily) - 1
    BY <1>3
  <2> QED BY <2>1, PairsAre
<1>8. /\ F[n] \in [results : Seq(IntervalRecords), recent : Entered, offset : Int]
      /\ Chained(F[n].results, daily[1], F[n].recent,
                 Total(Between(moved, -1, daily[n + 1])) - F[n].offset)
  <2>1. \A k \in 0 .. n :
            /\ F[k] \in [results : Seq(IntervalRecords), recent : Entered, offset : Int]
            /\ Chained(F[k].results, daily[1], F[k].recent,
                       Total(Between(moved, -1, daily[k + 1])) - F[k].offset)
    <3>1. Dated(daily, n, moved)
      BY <1>2, <1>3, <1>6 DEF Dated
    <3>2. Paired(F, daily, moved, length, n)
      BY <1>7 DEF Paired
    <3> QED BY <1>1, <3>1, <3>2, PairsChain
  <2> QED BY <2>1
<1>9. all = Append(F[n].results, Create(F[n].recent, daily[n + 1], F[n].offset))
  <2>1. daily # <<>> /\ Len(daily) # 1
    BY <1>2, <1>3
  <2>2. moved = {t \in Of(a, "transfer") : daily[1] < t /\ t < daily[Len(daily)]}
    BY <1>3, <1>4
  <2>3. all = CreateIntervals(daily, moved, length)
    BY <2>1, <2>2 DEF CalcIntervals
  <2>4. Len(daily) - 1 = n /\ ~(Len(daily) < 2)
    BY <1>3
  <2> QED BY <1>3, <1>7, <2>3, <2>4 DEF CreateIntervals
<1>10. PICK b, c : b = daily[1] /\ c = daily[n + 1]
  OBVIOUS
<1>11. /\ b \in Of(a, "balance") /\ b \in Entered /\ c \in Of(a, "balance") /\ c \in Entered
       /\ b < c /\ b \in Nat /\ c \in Nat /\ history[c].kind = "balance"
       /\ history[b].amount \in Int /\ history[c].amount \in Int
  <2>1. 1 \in 1 .. n + 1 /\ n + 1 \in 1 .. n + 1 /\ 1 \in 1 .. (n + 1) - 1
    BY <1>3
  <2>2. /\ b \in Of(a, "balance") /\ b \in Entered /\ c \in Of(a, "balance") /\ c \in Entered
        /\ b < c
    BY <1>2, <1>3, <1>10, <2>1
  <2> QED BY <1>1, <2>2, AmountsAre
<1>12. PICK B : B = Between(moved, -1, c)
  OBVIOUS
<1>13. B = Between(Of(a, "transfer"), b, c)
  <2>1. \A t \in Of(a, "transfer") : t # c /\ t \in Nat
    BY <1>5, <1>11
  <2>2. \A t \in B : t \in Of(a, "transfer") /\ b < t /\ t <= c
    BY <1>4, <1>6, <1>10, <1>12 DEF Between
  <2>3. ASSUME NEW t \in Of(a, "transfer"), b < t, t <= c PROVE t \in B
    <3>1. t < c /\ -1 < t
      <4>1. t \in Nat /\ t # c /\ c \in Nat
        BY <1>11, <2>1
      <4> QED BY <2>3, <4>1
    <3> QED BY <1>4, <1>10, <1>12, <2>3, <3>1 DEF Between
  <2>4. \A t : t \in B <=> t \in Between(Of(a, "transfer"), b, c)
    BY <2>2, <2>3 DEF Between
  <2> QED BY <2>4
<1>14. Total(B) \in Int
  <2>1. \A t \in B : t \in Entered
    BY <1>6, <1>12 DEF Between
  <2> QED BY <1>1, <2>1, TotalInt
<1>15. PICK off \in Int : off = F[n].offset
  BY <1>8
<1>16. Chained(all, b, c, Total(B))
  <2>1. PICK m \in Int : m = Total(B)
    BY <1>14
  <2>2. F[n].recent \in Entered /\ Chained(F[n].results, b, F[n].recent, m - off)
    BY <1>8, <1>10, <1>12, <1>15, <2>1
  <2>3. m - off \in Int /\ (m - off) + off = m
    OBVIOUS
  <2>4. Chained(Append(F[n].results, Create(F[n].recent, c, off)), b, c, (m - off) + off)
    BY <1>1, <1>11, <2>2, <2>3, ChainGrows
  <2> QED BY <1>9, <1>10, <1>15, <2>1, <2>3, <2>4
<1>17. history[c].amount - history[b].amount = EarnedIn(a, b, c) + Total(B)
  BY <1>11, <1>13, BalancesDiffer
<1>18. EarnedIn(a, b, c) \in Int
  <2>1. \A t \in Between(Of(a, "earning"), b, c) : t \in Entered
    BY <1>1, AmountsAre DEF Between
  <2> QED BY <1>1, <2>1, TotalInt DEF EarnedIn
<1>19. history[c].amount - history[b].amount - Total(B) = EarnedIn(a, b, c)
  BY <1>11, <1>14, <1>17, <1>18
<1>20. Len(all) # 0
  <2>1. F[n].results \in Seq(IntervalRecords)
    BY <1>8
  <2> QED BY <1>9, <2>1
<1> QED BY <1>3, <1>10, <1>16, <1>19, <1>20 DEF Chained

-----------------------------------------------------------------------------
(* The graph, and the days of all accounts.                                *)

LEMMA GraphHolds == LedgerInv => GraphIsEarnings
<1> SUFFICES ASSUME LedgerInv, NEW a \in Accts, NEW start \in 0 .. Len(history),
                    NEW balances, balances = ClientHistory(a, start),
                    NEW i \in 1 .. Len(balances) - 1
             PROVE  Graph(a, start)[i + 1] - Graph(a, start)[i]
                       = EarnedIn(a, balances[i], balances[i + 1])
  BY DEF GraphIsEarnings
<1>1. Recorded
  BY DEF LedgerInv
<1>2. Len(history) \in Nat
  BY <1>1, AmountsAre
<1>3. PICK S, B : S = Between(B, start, Len(history)) /\ B = Of(a, "balance")
  OBVIOUS
<1>4. \A t \in B : t \in Entered /\ t \in 1 .. Len(history) /\ history[t].amount \in Int
  BY <1>1, <1>3, AmountsAre
<1>5. \A t \in S : t \in B /\ start < t
  BY <1>3 DEF Between
<1>6. balances = InOrder(S)
  BY <1>3 DEF ClientHistory
<1>7. /\ balances \in Seq(S)
      /\ \A j \in 1 .. Len(balances) : \A k \in 1 .. j - 1 : balances[k] < balances[j]
  BY <1>2, <1>4, <1>5, <1>6, InOrderAre
<1>8. /\ 1 \in DOMAIN balances /\ i \in DOMAIN balances /\ i + 1 \in DOMAIN balances
      /\ i + 1 \in 1 .. Len(balances) /\ i \in 1 .. (i + 1) - 1
  BY <1>7
<1>9. PICK b, c, o : b = balances[i] /\ c = balances[i + 1] /\ o = balances[1]
  OBVIOUS
<1>10. /\ b \in S /\ c \in S /\ o \in S /\ b < c
  BY <1>7, <1>8, <1>9
<1>11. /\ b \in Int /\ c \in Int /\ start < b /\ -1 <= b /\ b <= c
       /\ history[b].amount \in Int /\ history[c].amount \in Int /\ history[o].amount \in Int
       /\ b \in Of(a, "balance") /\ c \in Of(a, "balance")
       /\ c <= Len(history)
  BY <1>2, <1>3, <1>4, <1>5, <1>10
<1>12. PICK M, T : M = Between(T, start, Len(history)) /\ T = Of(a, "transfer")
  OBVIOUS
<1>13. \A t \in T : t \in Entered /\ t \in Nat
  BY <1>1, <1>12, AmountsAre
<1>14. \A t \in M : t \in T /\ t \in Entered
  BY <1>12, <1>13 DEF Between
<1>15. /\ Total(Between(M, -1, c)) = Total(Between(M, -1, b)) + Total(Between(M, b, c))
       /\ Total(Between(M, -1, b)) \in Int /\ Total(Between(M, b, c)) \in Int
  <2>1. PICK l \in Int : l = -1
    OBVIOUS
  <2>2. l <= b /\ \A t \in M : t \in Entered
    BY <1>11, <1>14, <2>1
  <2>3. /\ Total(Between(M, l, c)) = Total(Between(M, l, b)) + Total(Between(M, b, c))
        /\ Total(Between(M, l, b)) \in Int /\ Total(Between(M, b, c)) \in Int
    BY <1>1, <1>11, <2>2, BetweenJoined
  <2> QED BY <2>1, <2>3
<1>16. Between(M, b, c) = Between(T, b, c)
  BY <1>2, <1>11, <1>12, <1>13 DEF Between
<1>17. /\ Graph(a, start)[i] = history[b].amount - Total(Between(M, -1, b)) - history[o].amount
       /\ Graph(a, start)[i + 1] = history[c].amount - Total(Between(M, -1, c)) - history[o].amount
  BY <1>8, <1>9, <1>12 DEF Graph, SendAll
<1>18. history[c].amount - history[b].amount = EarnedIn(a, b, c) + Total(Between(T, b, c))
  BY <1>11, <1>12, BalancesDiffer
<1>19. EarnedIn(a, b, c) \in Int
  <2>1. \A t \in Between(Of(a, "earning"), b, c) : t \in Entered
    BY <1>1, AmountsAre DEF Between
  <2> QED BY <1>1, <2>1, TotalInt DEF EarnedIn
<1> HIDE DEF Total, EarnedIn, Graph
<1>20. PICK x, y, z, e \in Int : /\ x = Total(Between(M, -1, b)) /\ y = Total(Between(M, b, c))
                                 /\ z = history[o].amount /\ e = EarnedIn(a, b, c)
  BY <1>11, <1>15, <1>19
<1>21. /\ Graph(a, start)[i] = history[b].amount - x - z
       /\ Graph(a, start)[i + 1] = history[c].amount - (x + y) - z
       /\ history[c].amount - history[b].amount = e + y
  BY <1>15, <1>16, <1>17, <1>18, <1>20
<1>22. Graph(a, start)[i + 1] - Graph(a, start)[i] = e
  <2>1. PICK p, q \in Int : p = history[b].amount /\ q = history[c].amount
    BY <1>11
  <2>2. PICK g, h : g = Graph(a, start)[i] /\ h = Graph(a, start)[i + 1]
    OBVIOUS
  <2>3. q - p = e + y
    BY <1>21, <2>1
  <2>4. g = p - x - z /\ h = q - (x + y) - z
    BY <1>21, <2>1, <2>2
  <2>5. h - g = e
    BY <2>3, <2>4
  <2> QED BY <2>2, <2>5
<1> QED BY <1>9, <1>20, <1>22

\* The latest entries of accounts each add up to what those accounts had.
LEMMA LatestAdd ==
  ASSUME LedgerInv, NEW L, \A l \in L : l \in Entered /\ history[l].kind = "balance",
         \A k, l \in L : history[k].acct = history[l].acct => k = l
  PROVE  Total(L) = Total({t \in Entered : \E l \in L : t \in Money(history[l].acct) /\ t < l})
<1>1. Recorded
  BY DEF LedgerInv
<1>2. PICK n \in Nat : n = Len(history) /\ DOMAIN history = 1 .. n
  BY <1>1, AmountsAre
<1>3. \A t \in Entered : t \in 1 .. n
  BY <1>1, <1>2, AmountsAre
<1> DEFINE P(k) == {l \in L : l <= k}
           H(k) == {t \in Entered : \E l \in P(k) : t \in Money(history[l].acct) /\ t < l}
           A == {k \in 0 .. n : Total(P(k)) # Total(H(k))}
<1>4. ASSUME NEW k \in A PROVE k # 0 /\ k - 1 \in A
  <2>1. k # 0
    <3> SUFFICES ASSUME k = 0 PROVE FALSE
      OBVIOUS
    <3>1. P(0) = {}
      BY <1>3
    <3>2. H(0) = {}
      BY <3>1
    <3> QED BY <3>1, <3>2
  <2>2. SUFFICES ASSUME Total(P(k - 1)) = Total(H(k - 1)) PROVE Total(P(k)) = Total(H(k))
    BY <2>1
  <2>3. k \in 1 .. n
    BY <2>1
  <2>4. CASE k \notin L
    <3>1. P(k) = P(k - 1)
      BY <1>3, <2>3, <2>4
    <3>2. H(k) = H(k - 1)
      BY <3>1
    <3> QED BY <2>2, <3>1, <3>2
  <2>5. CASE k \in L
    <3>1. PICK p, h, m : p = P(k - 1) /\ h = H(k - 1)
                         /\ m = {t \in Money(history[k].acct) : t < k}
      OBVIOUS
    <3>2. P(k) = p \cup {k}
      <4>1. \A t \in L : t <= k <=> (t <= k - 1 \/ t = k)
        <5>1. \A t \in L : t \in 1 .. n
          BY <1>3
        <5> QED BY <2>3, <5>1
      <4>2. k <= k
        BY <2>3
      <4> QED BY <2>5, <3>1, <4>1, <4>2
    <3>3. \A t \in p : t \in L /\ t < k /\ t \in Entered
      BY <1>3, <2>3, <3>1
    <3>4. \A a : \A t \in Money(a) : t \in Entered /\ history[t].acct = a
      BY <1>1, MoneyIs
    <3>5. H(k) = h \cup m
      <4>1. \A t \in H(k) : t \in h \cup m
        BY <3>1, <3>2
      <4>2. \A t \in h : t \in H(k)
        BY <3>1, <3>2
      <4>3. \A t \in m : t \in H(k)
        BY <3>1, <3>2, <3>4
      <4> QED BY <4>1, <4>2, <4>3
    <3>6. \A t \in h : t \notin m
      <4> SUFFICES ASSUME NEW t \in h, t \in m PROVE FALSE
        OBVIOUS
      <4>1. PICK l \in p : t \in Money(history[l].acct)
        BY <3>1
      <4>2. history[l].acct = history[k].acct
        BY <3>1, <3>4, <4>1
      <4>3. l = k
        BY <2>5, <3>3, <4>2
      <4> QED BY <2>3, <3>3, <4>3
    <3> HIDE DEF P, H
    <3>7. Total(p) = Total(h)
      BY <2>2, <3>1
    <3>8. Total(p \cup {k}) = Total(p) + history[k].amount
      <4>1. k \in Entered /\ k \notin p
        BY <2>3, <2>5, <3>3
      <4>2. \A t \in {k} : t \in Entered
        BY <4>1
      <4>3. \A t \in p : t \in Entered /\ t \notin {k}
        BY <3>3, <4>1
      <4>4. Total(p \cup {k}) = Total(p) + Total({k})
        BY <1>1, <4>2, <4>3, TotalJoined
      <4>5. Total({k}) = history[k].amount
        BY <1>1, <4>1, TotalOfOne
      <4> QED BY <4>4, <4>5
    <3>9. history[k].amount = Total(m)
      BY <2>5, <3>1 DEF LedgerInv, BalanceIs
    <3>10. Total(h \cup m) = Total(h) + Total(m)
      <4>1. \A t \in h : t \in Entered
        BY <3>1 DEF H
      <4>2. \A t \in m : t \in Entered
        BY <3>1, <3>4
      <4> QED BY <1>1, <3>6, <4>1, <4>2, TotalJoined
    <3> QED BY <3>2, <3>5, <3>7, <3>8, <3>9, <3>10
  <2> QED BY <2>4, <2>5
<1>5. P(n) = L
  BY <1>3
<1>6. H(n) = {t \in Entered : \E l \in L : t \in Money(history[l].acct) /\ t < l}
  BY <1>5
<1> HIDE DEF A, P, H
<1>7. A \in SUBSET Nat
  BY DEF A
<1>8. A = {}
  BY <1>4, <1>7, Descent
<1>9. Total(P(n)) = Total(H(n))
  BY <1>8 DEF A
<1> QED BY <1>5, <1>6, <1>9

\* The balance of a day is of the latest one of every account, each of which was the
\* last of its own day.
LEMMA DaysHold == LedgerInv => DailyIsTotal
<1> SUFFICES ASSUME LedgerInv, NEW i \in DOMAIN AllDaily(Dailies)
             PROVE  AllDaily(Dailies)[i].amount = Had(Day(AllDaily(Dailies)[i].time))
  BY DEF DailyIsTotal
<1>1. Recorded
  BY DEF LedgerInv
<1>2. PICK n \in Nat : n = Len(history) /\ DOMAIN history = 1 .. n
  BY <1>1, AmountsAre
<1>3. PICK D, S : D = Dailies /\ S = LastOfDays(D)
  OBVIOUS
<1>4. PICK ends : ends = InOrder(S)
  OBVIOUS
<1>5. \A a : \A t \in Of(a, "balance") :
         t \in Entered /\ t \in 1 .. n /\ history[t].kind = "balance" /\ history[t].acct = a
  BY <1>1, <1>2, AmountsAre
<1>6. \A t \in D : /\ t \in Entered /\ t \in 1 .. n /\ history[t].kind = "balance"
                   /\ history[t].acct \in Accts /\ t \in Of(history[t].acct, "balance")
  <2> SUFFICES ASSUME NEW t \in D
               PROVE  /\ t \in Entered /\ t \in 1 .. n /\ history[t].kind = "balance"
                      /\ history[t].acct \in Accts /\ t \in Of(history[t].acct, "balance")
    OBVIOUS
  <2>1. PICK a \in Accts : t \in LastOfDays(Of(a, "balance"))
    BY <1>3 DEF Dailies
  <2>2. t \in Of(a, "balance")
    BY <2>1 DEF LastOfDays
  <2> QED BY <1>5, <2>2
<1>7. \A t \in S : t \in D /\ \A u \in D : Day(u) = Day(t) => u <= t
  BY <1>3 DEF LastOfDays
<1>8. ends \in Seq(S)
  BY <1>4, <1>6, <1>7, InOrderAre
<1>9. PICK U, L, e, d : /\ e = ends[i] /\ d = Day(e)
                        /\ U = {t \in D : Day(t) <= d}
                        /\ L = {t \in U : \A u \in U : history[u].acct = history[t].acct => u <= t}
  OBVIOUS
<1>10. AllDaily(Dailies)[i] = SumIter(L) /\ i \in DOMAIN ends
  BY <1>3, <1>4, <1>9 DEF AllDaily
<1>11. e \in S /\ e \in D /\ e \in 1 .. n
  BY <1>6, <1>7, <1>8, <1>9, <1>10
<1>12. \A t \in U : t \in D /\ t \in 1 .. n /\ Day(t) <= d
  BY <1>6, <1>9
<1>13. \A t \in U : t <= e
  <2> SUFFICES ASSUME NEW t \in U, e < t PROVE FALSE
    BY <1>11, <1>12
  <2>1. Day(e) <= Day(t) /\ Day(e) \in Nat /\ Day(t) \in Nat
    BY <1>11, <1>12, DaysGrow
  <2>2. Day(t) = Day(e)
    BY <1>9, <1>12, <2>1
  <2> QED BY <1>7, <1>11, <1>12, <2>2
<1>14. e \in L
  <2>1. Day(e) \in Nat
    BY <1>11, DaysGrow
  <2> QED BY <1>9, <1>11, <1>13, <2>1
<1>15. \A t \in L : t \in U /\ t <= e
  BY <1>9, <1>13
<1>16. Max(L) = e
  <2>1. \A x \in L : (\A y \in L : y <= x) => x = e
    BY <1>11, <1>12, <1>14, <1>15
  <2> QED BY <1>14, <1>15, <2>1 DEF Max
<1>17. AllDaily(Dailies)[i].amount = Total(L) /\ Day(AllDaily(Dailies)[i].time) = d
  BY <1>9, <1>10, <1>16 DEF SumIter
<1>18. PICK H, G : /\ H = {t \in Entered : \E l \in L : t \in Money(history[l].acct) /\ t < l}
                   /\ G = {t \in DOMAIN history : \E a \in Accts :
                             t \in Money(a) /\ \E b \in Of(a, "balance") : t < b /\ Day(b) <= d}
  OBVIOUS
<1>19. Total(L) = Total(H)
  <2>1. \A l \in L : l \in Entered /\ history[l].kind = "balance"
    BY <1>6, <1>12, <1>15
  <2>2. \A k, l \in L : history[k].acct = history[l].acct => k = l
    BY <1>9, <1>12, <1>15
  <2> QED BY <1>18, <2>1, <2>2, LatestAdd
<1>20. \A t \in H : t \in G
  <2> SUFFICES ASSUME NEW t \in H PROVE t \in G
    OBVIOUS
  <2>1. PICK l \in L : t \in Money(history[l].acct) /\ t < l /\ t \in Entered
    BY <1>18
  <2>2. l \in D /\ Day(l) <= d
    BY <1>12, <1>15
  <2>3. history[l].acct \in Accts /\ l \in Of(history[l].acct, "balance")
    BY <1>6, <2>2
  <2>4. t \in DOMAIN history
    BY <2>1 DEF Entered
  <2> QED BY <1>18, <2>1, <2>2, <2>3, <2>4
<1>21. ASSUME NEW t \in G PROVE t \in H
  <2>1. PICK a \in Accts : t \in Money(a) /\ \E b \in Of(a, "balance") : t < b /\ Day(b) <= d
    BY <1>18
  <2>2. PICK b \in Of(a, "balance") : t < b /\ Day(b) <= d
    BY <2>1
  <2>3. PICK B : B = {u \in Of(a, "balance") : Day(u) <= d}
    OBVIOUS
  <2>4. \A u \in B : u \in Of(a, "balance") /\ Day(u) <= d /\ u \in 1 .. n /\ u \in 0 .. n
    BY <1>5, <2>3
  <2>5. b \in B
    BY <2>2, <2>3
  <2>6. PICK c \in B : \A u \in B : u <= c
    BY <2>4, <2>5, NewestThere
  <2>7. c \in D
    <3>1. \A u \in Of(a, "balance") : Day(u) = Day(c) => u <= c
      BY <2>3, <2>4, <2>6
    <3>2. c \in LastOfDays(Of(a, "balance"))
      BY <2>4, <3>1 DEF LastOfDays
    <3> QED BY <1>3, <3>2 DEF Dailies
  <2>8. c \in L
    <3>1. c \in U /\ history[c].acct = a
      BY <1>5, <1>9, <2>4, <2>7
    <3>2. ASSUME NEW u \in U, history[u].acct = a PROVE u <= c
      <4>1. u \in Of(a, "balance") /\ Day(u) <= d
        BY <1>6, <1>12, <3>2
      <4> QED BY <2>3, <2>6, <4>1
    <3> QED BY <1>9, <3>1, <3>2
  <2>9. t < c
    <3>1. b <= c /\ t \in Nat /\ b \in Nat /\ c \in Nat
      <4>1. t \in Entered
        BY <1>1, <2>1, MoneyIs
      <4> QED BY <1>1, <2>4, <2>5, <2>6, <4>1, AmountsAre
    <3> QED BY <2>2, <3>1
  <2>10. t \in Entered /\ history[c].acct = a
    BY <1>1, <1>5, <2>1, <2>4, MoneyIs
  <2> QED BY <1>18, <2>1, <2>8, <2>9, <2>10
<1>22. H = G
  BY <1>18, <1>20, <1>21
<1>23. Had(d) = Total(G)
  BY <1>18 DEF Had
<1> QED BY <1>17, <1>19, <1>22, <1>23

\* Of any number of accounts, for any amounts and any lengths of days, weeks and months:
\* intervals, the days of all accounts, and the graph tell of what was earned.
THEOREM GainsShown == IntervalSpec => []GainsAreEarnings
<1>1. IntervalInit => LedgerInv
  BY LedgerStarts
<1>2. LedgerInv /\ [IntervalNext]_history => LedgerInv'
  BY LedgerStep
<1>3. LedgerInv => GainsAreEarnings
  BY GainsHold, DaysHold, GraphHolds DEF GainsAreEarnings
<1> QED BY <1>1, <1>2, <1>3, PTL DEF IntervalSpec
=============================================================================
