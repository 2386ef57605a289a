\* The real windows: a login drops a register bucket that is still counting.
SPECIFICATION Spec
CONSTANTS
    login = login  register = register
    Actions = {login, register}
    Limit <- OneOrTwo
    Window <- LoginAndRegister
    Addresses = {i1}
    Accounts = {}
    MaxBuckets = 10
    Lag = 0
    Reqs = {r1}
    MaxTime = 8
CHECK_DEADLOCK FALSE
INVARIANTS LimitKept
