CONSTANTS
    d1 = d1
    d2 = d2
    DCs = {d1, d2}
    BaseDCs = {d1}
    Requests = {r1, r2}
    Loop = Loop
    Bundles <- BundlesThree
    NoBundle = NoBundle
    Nobody = Nobody
    Never = Never
    Cooldown = 2
    Windows = FALSE
    DirOpens = TRUE
    DirSyncs = FALSE
    MaxNow = 3
SPECIFICATION FairSpec
INVARIANTS TypeOK PublishedOnDisk StartsAgain
PROPERTIES GenerationsOnlyGrow RequestsAnswered
