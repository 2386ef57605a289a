\* One vault of one user: two devices push and pull through two requests.
SPECIFICATION Spec
CONSTANTS
    u1 = u1  u2 = u2  d1 = d1  d2 = d2  d3 = d3  v1 = v1  v2 = v2
    e1 = e1  o1 = o1  o2 = o2  o3 = o3
    Users = {u1}
    Devices = {d1, d2}
    OwnerOf <- OneOwner
    VaultOf <- OneVault
    NoVault = NoVault
    OpIds = {o1, o2, o3}
    Entities = {e1}
    BatchesOf <- EditBatches
    Keys = {NoKey}
    NoKey = NoKey
    Reqs = {r1, r2}
    NoReq = NoReq
    MaxPush = 2
    MaxPullPage = 2
    PageLimits = {0, 1}
    Events = {"crash"}
SYMMETRY ReqSymmetry
INVARIANTS
    TypeOK NoGaps PullIsComplete ConflictsReported TombstoneNamesLastDelete
PROPERTIES ImplementsVaultLog
CHECK_DEADLOCK FALSE
