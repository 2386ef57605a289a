\* Two vaults of one user and a legacy device of another, one idempotency key
\* that all use; devices are revoked and dropped, users deleted, meanwhile.
SPECIFICATION Spec
CONSTANTS
    u1 = u1  u2 = u2  d1 = d1  d2 = d2  d3 = d3  v1 = v1  v2 = v2
    e1 = e1  o1 = o1  o2 = o2  o3 = o3
    Users = {u1, u2}
    Devices = {d1, d2, d3}
    OwnerOf <- Owners
    VaultOf <- OwnVaults
    NoVault = NoVault
    OpIds = {o1, o2, o3}
    Entities = {e1}
    BatchesOf <- TenantBatches
    Keys = {k1}
    NoKey = NoKey
    Reqs = {r1, r2}
    NoReq = NoReq
    MaxPush = 1
    MaxPullPage = 1
    PageLimits = {0}
    Events = {"delete","revoke","drop"}
SYMMETRY ReqSymmetry
INVARIANTS
    ScopeIsolation AcceptedIsStored OneOpPerSequence RevokedNeverServed
CHECK_DEADLOCK FALSE
