SPECIFICATION Spec
CONSTANTS
    MaxClients = 1
    MaxChans = 1
    Callers = {u}
    Background = {g1}
    u = u
    g1 = g1
INVARIANTS TypeOK OneKeeper
PROPERTIES SessionReturns IdleSleeps WakesUp ClosedIsLeftAlone
CHECK_DEADLOCK FALSE
