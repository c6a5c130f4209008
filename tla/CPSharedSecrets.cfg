\* Secrets that are offered twice, also that of a configured token: what holds nevertheless.
\* The file of two tokens with one secret keeps the relay down (reused_secret): it stops there.
CONSTANTS
    cfg1 = cfg1
    tokA = tokA
    tokB = tokB
    tokR = tokR
    h0 = h0
    hA = hA
    hB = hB
    hC = hC
    hR = hR
    n1 = n1
    n2 = n2
    d2 = d2
    d1 = d1
    ip1 = ip1
    ip2 = ip2
    m1 = m1
    Requests = {r1}
    TokenIDs = {cfg1, tokA, tokB}
    TokIDs = {tokA, tokB}
    KeyIDs = {tokA, tokB}
    Names = {n1}
    Hashes = {h0, hA}
    BaseTokens <- BaseOne
    Offers <- OffersShared
    Dev2IDs = {d2}
    DevIDs = {}
    IPs = {ip1}
    PublicIPs = {}
    Metas = {}
    NoID = NoID
    NoMeta = NoMeta
    Headers <- HeadersOne
    InstanceIDs = {i1}
    NoInstance = NoInstance
    Timers = {w1}
    NoTimer = NoTimer
    Resolver = FALSE
    NoCountry = NoCountry
    NoClient = NoClient
    NoRequest = NoRequest
    NoFile = NoFile
    Windows = FALSE
    DirSyncMayFail = FALSE
    MaxTokens = 3
    MaxRevoked = 1
    MaxDeleted = 3
    MaxClients = 4
    MaxLocationCache = 1
    MaxStamp = 3
    MaxNow = 0
SPECIFICATION Spec
INVARIANTS DeletedStaysDeleted SessionsHaveDevices
PROPERTIES TokensAtomic
CHECK_DEADLOCK FALSE
