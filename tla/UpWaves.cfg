CONSTANTS
    a1 = a1
    a2 = a2
    a3 = a3
    NoAddress = NoAddress
    Dials = {d1}
    Route <- RouteThree
    RaceWidth = 2
    Lease = 1
    MaxFailures = 2
    MaxNow = 4
SPECIFICATION Spec
INVARIANTS OnlyWinnerStaysOpen GivesUpLast
PROPERTIES HealthyFirst DialsSettle
