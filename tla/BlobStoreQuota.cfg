\* Two vaults of one user share its quota; uploads of all sizes, some failing,
\* for want of a statement, a file or a commit.  Every request ends.
SPECIFICATION FairSpec
CONSTANTS
    u1 = u1  u2 = u2  v1 = v1  v2 = v2
    small = small  large = large  huge = huge
    Users = {u1}
    Scopes <- TwoVaults
    Hashes = {small, large, huge}
    SizeOf <- Sizes
    MaxBlob = 3
    MaxVault = 2
    MaxUser = 3
    Reqs = {r1, r2}
    NoReq = NoReq
    Kinds = {"upload", "download"}
    TempNames = {t1, t2}
    NoTemp = NoTemp
    Events = {"fail", "commitfail"}
INVARIANTS NoResidue QuotaKept
PROPERTIES Answered
