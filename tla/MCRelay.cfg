SPECIFICATION RelaySpec
CONSTANTS
    Handlers = {h1, h2, h3}
    Tokens = {t1, t2}
    NoReservation = NoReservation
    MaxSessions = 2
    MaxPerToken = 1
    MaxPending = 1
    MaxDeletions = 1
INVARIANTS CountersExact NothingLeaks ConnectionsWithinLimits
PROPERTIES BusyIsTemporary DeletedTokenEnds ShutdownEnds
CHECK_DEADLOCK FALSE
