\* Windows close in length, and room for all buckets.
SPECIFICATION Spec
CONSTANTS
    login = login  register = register
    Actions = {login, register}
    Limit <- OneOrTwo
    Window <- LoginAndPair
    Addresses = {i1}
    Accounts = {}
    MaxBuckets = 2
    Lag = 1
    Reqs = {r1, r2}
    MaxTime = 7
CHECK_DEADLOCK FALSE
INVARIANTS TypeOK LimitKept
PROPERTIES DeniedOnlyAtLimit WaitIsRight
