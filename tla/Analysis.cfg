SPECIFICATION Spec
CONSTANTS
  Missing = Missing
  Tickers = {"a", "b"}
  Listings <- MCListings
  WindowEnd = 3
  ChunkDays = 1
  PageSize = 1
  MaxRetries = 2
  MaxRevokes = 1
  Span <- MCSpan
  ProfileWeights <- MCWeights
  Symbols = {"a", "b"}
  Industry <- MCIndustry
  LastDay = 2
  LookBack = 3
  DividendDays = 2
  Lag <- MCLag
  Arrivals <- MCArrivals
  Market0 <- MCMarket0
  MaxHand = 1
  HandSymbols = {{"b"}}
  Nothing = Nothing
  Today = 4
  Prices = {0, 7}
  Splits <- MCSplits
  Years = {1, 2, 3}
  ThisYear = 3
  YearOffset = 1
  Instants = {1, 2}
  Start = 2
  TopN = 1
  EveryDays = 2
  Profile = "mid"
  Markets <- MCMarkets
  Period <- MCPeriod
  BarSeries <- MCBarSeries
  Universes <- MCUniverses
  GroupSets <- MCGroupSets
  AdviceSnaps <- MCSnaps
  Words = {0, 1}
  MaxChars = 5
  Overlap = 2
  Overfetch = 4
  Reliability <- MCReliability
  Searches <- MCSearches
  Stocks = {"s1", "s2", "s3"}
  StockRows <- MCStockRows
  BarsRead = 3
  Reach = 5
  Unit = 10
  RawUniverses <- MCRawUniverses
  Databases <- MCDatabases
  ScoringDays = {2, 3}
  WeightUnit = 60
  Described <- MCDescribed
  Portfolios <- MCPortfolios
  Others <- MCOthers
INVARIANTS CompleteOrError RowsAreHonest ScoringIsSound NothingTooEarly FeaturesMatchScores AlertsKeepUp IndicatorsAreCausal BacktestIsHonest EvidenceIsSound PagesAgree ReportsAreSound
PROPERTY FetchEnds
\* A call, the bounded days and a calculation are over.
CHECK_DEADLOCK FALSE
