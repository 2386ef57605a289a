\* A failed Commit takes away a file that another upload has referenced by then.
SPECIFICATION Spec
CONSTANTS
    u1 = u1  u2 = u2  v1 = v1  v2 = v2
    small = small  large = large  huge = huge
    Users = {u1, u2}
    Scopes <- OneEach
    Hashes = {small}
    SizeOf <- Sizes
    MaxBlob = 3
    MaxVault = 2
    MaxUser = 3
    Reqs = {r1, r2}
    NoReq = NoReq
    Kinds = {"upload", "download", "push"}
    TempNames = {t1, t2}
    NoTemp = NoTemp
    Events = {"commitfail"}
INVARIANTS ReferencedIsStored
