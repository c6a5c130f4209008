CONSTANTS
    Handlers = {h1, h2, h3, h4}
    Tokens = {t1, t2}
    NoReservation = NoReservation
    MaxSessions = 3
    MaxPerToken = 2
    MaxPending = 2
SPECIFICATION Spec
INVARIANTS TypeOK CountersExact WithinLimits
PROPERTY BusyIsTemporary
