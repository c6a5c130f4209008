\* The directory fsync fails and the machine loses power.
CONSTANTS
    cfg1 = cfg1
    tokA = tokA
    tokB = tokB
    tokR = tokR
    h0 = h0
    hA = hA
    hB = hB
    hC = hC
    hR = hR
    n1 = n1
    n2 = n2
    d2 = d2
    d1 = d1
    ip1 = ip1
    ip2 = ip2
    m1 = m1
    Requests = {}
    TokenIDs = {cfg1, tokA}
    TokIDs = {tokA}
    KeyIDs = {tokA}
    Names = {n1}
    Hashes = {h0, hA}
    BaseTokens <- BaseOne
    Offers <- OffersOne
    Dev2IDs = {d2}
    DevIDs = {}
    IPs = {ip1}
    PublicIPs = {}
    Metas = {}
    NoID = NoID
    NoMeta = NoMeta
    Headers = {}
    InstanceIDs = {i1}
    NoInstance = NoInstance
    Timers = {w1}
    NoTimer = NoTimer
    Resolver = FALSE
    NoCountry = NoCountry
    NoClient = NoClient
    NoRequest = NoRequest
    NoFile = NoFile
    Windows = FALSE
    DirSyncMayFail = TRUE
    MaxTokens = 3
    MaxRevoked = 1
    MaxDeleted = 2
    MaxClients = 4
    MaxLocationCache = 1
    MaxStamp = 3
    MaxNow = 0
SPECIFICATION Spec
PROPERTIES DeletionsLast
