SPECIFICATION FairSpec
CONSTANTS
    a1 = a1
    a2 = a2
    m1 = m1
    c2 = c2
    m3 = m3
    t1 = t1
    Addresses = {a1, a2, m1, c2, m3, t1}
    Embedded <- EmbeddedRoutes
    Files <- ConfigFiles
    Bundles <- SignedBundles
    Requests <- RequestedDCs
    Workers = {1, 2}
    MaxRequested = 3
    MaxRefreshes = 1
INVARIANTS ReportTrue ResultsNotShared RoutesAsConfigured
PROPERTY ReportReturns
CHECK_DEADLOCK FALSE
