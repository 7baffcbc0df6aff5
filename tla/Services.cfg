SPECIFICATION MCSpec
CONSTANTS
  c1 = c1
  c2 = c2
  c3 = c3
  Actions = {a1, a2}
  Topics = {t1, t2}
  Once = {a1}
  Webhooks = {a2}
  Runs = {r1, r2}
  NoAction = NoAction
  MaxWrites = 2
  MaxRestarts = 1
  Calls = {c1, c2, c3}
  Known = {c1, c2}
  Timeout <- MCTimeout
  ExpireTime = 1
  MaxClock = 3
  MaxCrashes = 1
  w1 = w1
  w2 = w2
  btc = btc
  eth = eth
  Owners = {w1, w2}
  Feeds = {btc, eth}
  Requests <- MCRequests
  Traded <- MCTraded
  Nothing = Nothing
  Answering = TRUE
  MaxConns = 2
  MaxInbox = 1
  ann = ann
  bob = bob
  Asks = {d1, d2, d3}
  Authors = {ann, bob}
  Numbers = {1}
  NoAsk = NoAsk
INVARIANTS
  TypeOK
  SubscribedOnce
PROPERTIES
  ActionsAsAsked
  ImplementsCall
  TimesAreKept
  AbandonedIsSilent
  RefreshEnds
  DialogsApart
  CommandsEnd
CHECK_DEADLOCK FALSE
