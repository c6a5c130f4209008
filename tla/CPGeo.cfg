\* Geolocation lookups of one device that changes its address (on Windows).
CONSTANTS
    cfg1 = cfg1
    tokA = tokA
    tokB = tokB
    tokR = tokR
    h0 = h0
    hA = hA
    hB = hB
    hC = hC
    hR = hR
    n1 = n1
    n2 = n2
    d2 = d2
    d1 = d1
    ip1 = ip1
    ip2 = ip2
    m1 = m1
    Requests = {r1, r2}
    TokenIDs = {cfg1}
    TokIDs = {}
    KeyIDs = {}
    Names = {n1}
    Hashes = {h0}
    BaseTokens <- BaseOne
    Offers = {}
    Dev2IDs = {d2}
    DevIDs = {}
    IPs = {ip1, ip2}
    PublicIPs = {ip1, ip2}
    Metas = {}
    NoID = NoID
    NoMeta = NoMeta
    Headers <- HeadersTwoIPs
    InstanceIDs = {i1}
    NoInstance = NoInstance
    Timers = {w1}
    NoTimer = NoTimer
    Resolver = TRUE
    NoCountry = NoCountry
    NoClient = NoClient
    NoRequest = NoRequest
    NoFile = NoFile
    Windows = TRUE
    DirSyncMayFail = FALSE
    MaxTokens = 3
    MaxRevoked = 1
    MaxDeleted = 2
    MaxClients = 4
    MaxLocationCache = 1
    MaxStamp = 3
    MaxNow = 0
SPECIFICATION Spec
INVARIANTS BusyMatchesLookups
SYMMETRY RequestSymmetry
