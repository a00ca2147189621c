SPECIFICATION FairSpec
CONSTANTS
  Accounts = {"a1", "a2"}
  Clients = {"c"}
  Routes = {"p", "q"}
  ClientOf <- OneBrowser
  RoutesOf <- TwoRoutes
  Signed = {"a1"}
  Readers = {1, 2}
  NoAccount = NoAccount
  NoRoute = NoRoute
  Limit = 1
  PerRoute = 1
  DetailGate = 1
  Tabs = 1
  BrowserRoutes = 1
  MaxBatches = 1
  ForSale = {"a2"}
  MayStop = TRUE
INVARIANT FirefoxOwned
INVARIANT PageOnRoute
INVARIANT TabsBounded
PROPERTY BatchEnds
CHECK_DEADLOCK FALSE
