\* Old installations under a server that runs, stops, fails and crashes; a new
\* one that is started in every way and configured through the console.
SPECIFICATION Spec
CONSTANTS
    u1 = u1  u2 = u2  a = a  b = b  c = c  v1 = v1  o1 = o1  o2 = o2  o3 = o3
    s1 = s1  p1 = p1  p2 = p2  root = root  admin = admin  w1 = w1  w2 = w2
    Users = {u1, u2}
    NoUser = NoUser
    Vaults = {v1}
    NoVault = NoVault
    Devices = {a, b, c}
    Disputed = {b}
    OpIds = {o1, o2, o3}
    Secrets = {s1}
    MaxRev = 3
    Databases <- AllDbs
    Events = {"fail", "crash", "misread"}
    Admins = {root, admin}
    Passwords = {p1, p2}
    NoPassword = NoPassword
    BootstrapUser = admin
    Urls = {w1, w2}
    NoUrl = NoUrl
    Sites <- AllSites
INVARIANTS TypeOK OwnLog NoGapsAcrossUpgrade RestartChangesNothing AdminsKept SettingsKept
PROPERTIES StartLosesNothing
