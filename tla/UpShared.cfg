CONSTANTS
    a1 = a1
    a2 = a2
    a3 = a3
    NoAddress = NoAddress
    Dials = {d1, d2}
    Route <- RouteTwo
    RaceWidth = 2
    Lease = 2
    MaxFailures = 2
    MaxNow = 2
SPECIFICATION Spec
INVARIANTS TypeOK CooldownBounded
SYMMETRY DialSymmetry
