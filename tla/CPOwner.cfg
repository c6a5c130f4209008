\* Tokens, tombstones, revocations and their limits across write failures and restarts.
CONSTANTS
    cfg1 = cfg1
    tokA = tokA
    tokB = tokB
    tokR = tokR
    h0 = h0
    hA = hA
    hB = hB
    hC = hC
    hR = hR
    n1 = n1
    n2 = n2
    d2 = d2
    d1 = d1
    ip1 = ip1
    ip2 = ip2
    m1 = m1
    Requests = {r1}
    TokenIDs = {cfg1, tokA, tokB, tokR}
    TokIDs = {tokA, tokB, tokR}
    KeyIDs = {tokA, tokB}
    Names = {n1, n2}
    Hashes = {h0, hA, hB, hC, hR}
    BaseTokens <- BaseOne
    Offers <- OffersDistinct
    Dev2IDs = {d2}
    DevIDs = {}
    IPs = {ip1}
    PublicIPs = {}
    Metas = {}
    NoID = NoID
    NoMeta = NoMeta
    Headers <- HeadersOne
    InstanceIDs = {i1}
    NoInstance = NoInstance
    Timers = {w1, w2}
    NoTimer = NoTimer
    Resolver = FALSE
    NoCountry = NoCountry
    NoClient = NoClient
    NoRequest = NoRequest
    NoFile = NoFile
    Windows = FALSE
    DirSyncMayFail = FALSE
    MaxTokens = 2
    MaxRevoked = 1
    MaxDeleted = 2
    MaxClients = 4
    MaxLocationCache = 1
    MaxStamp = 3
    MaxNow = 0
SPECIFICATION FairSpec
INVARIANTS DiskLoadable OwnerChangesDurable DeletedStaysDeleted CleanMeansDurable
PROPERTIES TokensAtomic RevocationIsForever ShutdownFlushes FlushesEventually
