\* The tables and the files under failures, crashes and deleted users.
SPECIFICATION Spec
CONSTANTS
    u1 = u1  u2 = u2  v1 = v1  v2 = v2
    small = small  large = large  huge = huge
    Users = {u1, u2}
    Scopes <- OneEach
    Hashes = {small}
    SizeOf <- Sizes
    MaxBlob = 3
    MaxVault = 2
    MaxUser = 3
    Reqs = {r1, r2}
    NoReq = NoReq
    Kinds = {"upload", "download", "push"}
    TempNames = {t1, t2, t3}
    NoTemp = NoTemp
    Events = {"fail", "crash", "delete", "retention"}
SYMMETRY Alike
INVARIANTS TypeOK ReferencedIsStored OpsRestorable
PROPERTIES SweptClean ImplementsContentStore
