\* One account, two administrators, and all that may happen in few steps.
SPECIFICATION Spec
CONSTANTS
    Users = {u1}
    Passwords = {p1}
    Secrets = {x1, x2, x3}
    Admins = {a1, a2}
    Reqs = {r1, r2}
    Events = {"fail", "crash", "age"}
    None = None
SYMMETRY Alike
CHECK_DEADLOCK FALSE
INVARIANTS TypeOK SessionsEndWithAccess RowsEndWithUser ResetVoidsTokens  PasswordShownOnce
