\* The tunnel, the hub and the process, one at a time.
SPECIFICATION Spec
CONSTANTS
    a = a
    b = b
    Togglers = {a, b}
    MaxDaemons = 2
    Sockets = {a, b}
    Kinds = {"wa_status", "toast"}
    Capacity = 2
    MaxEvents = 3
INVARIANTS TypeOK StatusFits LastArrives CleanEnd
PROPERTIES AddressShown DeadSocketsLeave
CHECK_DEADLOCK FALSE
