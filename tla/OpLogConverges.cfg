\* Devices that keep pulling catch up, also when statements fail.
SPECIFICATION FairSpec
CONSTANTS
    u1 = u1  u2 = u2  d1 = d1  d2 = d2  d3 = d3  v1 = v1  v2 = v2
    e1 = e1  o1 = o1  o2 = o2  o3 = o3
    Users = {u1}
    Devices = {d1, d2}
    OwnerOf <- OneOwner
    VaultOf <- OneVault
    NoVault = NoVault
    OpIds = {o1, o2, o3}
    Entities = {e1}
    BatchesOf <- LiveBatches
    Keys = {NoKey}
    NoKey = NoKey
    Reqs = {r1}
    NoReq = NoReq
    MaxPush = 2
    MaxPullPage = 1
    PageLimits = {0}
    Events = {"fail","revoke","block"}
PROPERTIES
    Converges
CHECK_DEADLOCK FALSE
