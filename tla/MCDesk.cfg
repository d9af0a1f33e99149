SPECIFICATION DeskSpec
CONSTANTS
  None = None
  Variant = {"saree", "lamp"}
  Good <- MCGood
  Parent <- MCParent
  TaxRules <- MCTaxRules
  Bands <- MCBands
  Methods <- MCMethods
  ZoneOf <- MCZoneOf
  Shippable = {"IN", "DE", "SG"}
  OriginState = "Karnataka"
  FreeThreshold = 100000
  FlatDelivery = 4900
  FlatTax = 18
  Coupon = {"SILK20", "POST", "FLAT"}
  Terms <- MCTerms
  Baskets <- MCTwoBaskets
  Destinations <- MCDestinations
  Currency <- MCTwoCurrencies
  BaseCurrency = "INR"
  FirstRate <- MCTwoRates
  LaterRates = {200}
  MaxSettings = 1
  MaxDay = 1
  Stocked = {"SAREE1", "SAREE10"}
  Stock <- MCStock
  AllowBackorder = {}
  FirstThreshold = 1
  Longer <- MCLonger
  Staff = {"s1"}
  Line <- MCLine
  Quantities = {2}
  MaxDeskMoves = 2
  NoFormPage = NoFormPage
  Paper = {"o1", "o2", "t1"}
  SeriesOf <- MCSeriesOf
  Fallback = {"t1"}
  Clerk = {w1, w2}
  MaxFailures = 2
  NoOne = NoOne
  Browser = {b1, b2}
  HasAccount = TRUE
  LifetimeTicks = 2
  HourTicks = 3
  MaxPerHour = 2
  MaxAttempts = 2
  LastTick = 2
  MaxCodes = 2
  Address = {"a1", "a2", "a3"}
  Tab = {t1, t2}
  NoAddress = NoAddress
  Ware = {"w1"}
  Shelves = {0, 1, 3}
  CartLimit = 2
  Visit = {r1, r2}
  MaxPut = 3
  NoVoucher = NoVoucher
  Agent = {"a1", "a2"}
  MaxThread = 3
  Reader = {"c1", "c2"}
  Received = {"c1", "c2"}
  Stars = {5}
  MaxHelpful = 1
  Process = {p1, p2}
  Sku = {"s1", "s2"}
  Option = {"redS", "reds", "blue"}
  Label <- MCLabel
  Stocks <- MCStocks
  MaxLines = 2
  Visitor = {v1}
  Rates = {80, 90}
  Home = "INR"
  Abroad = "USD"
  NoRate = NoRate
  MaxRates = 2
  LastMoment = 1
  Item <- MCItem
  Piece <- MCPiece
  Shelf <- MCTree
  Tag <- MCTag
  Term = {"saree"}
  Hits <- MCHits
  Sale = {"o1", "o2"}
  Buyer = {"ann", "bob", "eve"}
  Employee = {"eve"}
  LinesOf <- MCLinesOf
  CategoryOf <- MCCategoryOf
  Money <- MCMoney
  Method = {"cod", "card"}
  Window = 2
  LastDay = 3
  PerPeriod = 2
  TopCategories = 1
  TopProducts = 2
  TopCustomers = 1
  Bill = {"o1"}
  Shopped = {"cup"}
  Bought <- MCCups
  Shelved <- MCCup
  FormUser = {"clerk"}
  TypedStatuses = {"pending", "processing", "cancelled"}
  MaxForms = 1
  MaxCancelled = 1
  NoOrderPage = NoOrderPage
  Place = {"home", "work"}
  Nation = {"US"}
  Tender = {"INR", "USD"}
  TenderOf <- MCInDollars
  BaseTender = "INR"
  HomeNation = "US"
  Screen = {"w1"}
  Call = {c1, c2}
  UnitLimit = 2
  MaxChanges = 3
  MaxWording = 1
  Nothing = Nothing
 
INVARIANT LogExplainsShelf
INVARIANT DeskKeepsPromises
INVARIANT NumbersWithoutGaps
INVARIANT InvoiceMailedOnce
INVARIANT TicketTellsWhoseTurn
INVARIANT PreviewPredicts
 
INVARIANT SaleSurvivesForms
INVARIANT TrailTellsStatus
INVARIANT OtherLinesEarnNothing
INVARIANT InvoiceKeepsCharge
INVARIANT EveryEntryCounted
INVARIANT DefaultKept
INVARIANT NothingMergedTwice
INVARIANT StaleRateHasCause
INVARIANT NoDeadEnds
INVARIANT RatingTold
 
INVARIANT OrderedOnce
PROPERTY LowStockAnnounced
CHECK_DEADLOCK FALSE
