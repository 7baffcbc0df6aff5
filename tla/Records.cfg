SPECIFICATION MCSpec
CONSTANTS
  u1 = u1
  k1 = k1
  t1 = t1
  p1 = p1
  s1 = s1
  o2 = o2
  g1 = g1
  Slots = {s1, s2}
  KeyOwners = {k1}
  Urls = {u}
  Interval = 1
  MaxAmount = 2
  Weight = 1
  UsedWeights = {1, 3}
  Expiry = 2
  MaxTime = 3
  MaxKey = 2
  Coins = {btc, eth}
  PageSize = 1
  MaxRecords = 3
  Pairs = {btc, eth}
  IncomeLimit = 5
  TradeLimit = 2
  Second = 2
  MaxTrades = 4
  Orders = {o1, o2}
  OrderQty = 2
  OrderTypes = {"MARKET", "STOP", "TRAILING_STOP_MARKET"}
  MaxFundings = 1
  Trades = {"t1"}
  Ccys = {"usdt", "btc"}
  UsdLike = {"usdt"}
  SettleOf <- MCSettle
  Price = 3
  Levels <- MCLevels
  Gains <- MCGains
  Threshold = 1
  NoLive = NoLive
  MaxTicks = 3
  MaxExecutions = 2
  Accts = {a, b}
  Earnings = {1}
  Moves <- MCMoves
  DayLen = 2
  WeekDays = 3
  MonthDays = 2
  MaxMoment = 5
  Accounts = {k1, k2}
  Readers = {r1}
  Queries <- MCQueries
  Nobody = Nobody
  MaxVersion = 1
  Clients = {u1, k1}
  Equities = {1, 2}
  Collector = s1
  Sessions = {s1, s2}
  Start = 1
  RegistrationEnd = 1
  End = 2
  RektThreshold = 40
  Gone = Gone
  None = None
  LastTime = 3
  MaxEntries = 2
  JournalIds = {1, 2}
  TemplateIds = {11}
  ChapterIds = {21, 22}
  Null = Null
  WeekLen = 2
  MonthLen = 3
  LastDay = 1
  Groups = {g1, g2}
  LabelIds = {l1, l2}
  TaggedTrades = {t1}
  TradeRequests = {r1, r2}
  NoUpdate = NoUpdate
  TableRows = {u1, k1, t1, p1}
  NoRow = NoRow
  TableOf <- MCTableOf
  ParentRow <- MCParentRow
  Listeners = {l1}
  MaxFlushes = 2
  GuildIds = {g1, g2}
  GuildNames = {"north", "south"}
  DiscordIds = {d1}
  Holders = {"ann", "bob"}
  Portfolios = {k1}
  NoOne = NoOne
  Direct = Direct
  MaxRenames = 1
  Tables = {"action", "eventscore", "trade"}
INVARIANTS
  TypeOK
  RequestsAreKept
  ReportsAreWhole
  LiveIsRight
  GainsAreEarnings
  OverviewsAreTrue
  HeardAsAsked
  MigrationsHold
PROPERTIES
  
  NotesAreKept
  GuildsAreRight
CHECK_DEADLOCK FALSE
