SPECIFICATION Spec
CONSTANTS
    MaxStarts = 2
    MaxFaults = 1
    u1 = u1
    u2 = u2
    p1 = p1
    p2 = p2
    Users <- MCUsers
    Names = {u1, u2, nobody}
    NoUser = NoUser
    NoPassword = NoPassword
    Passwords = {p1, p2}
    PasswordOf <- MCPasswordOf
    Clients = {c1, c2}
    MaxSessions = 2
CHECK_DEADLOCK FALSE
INVARIANTS
    TypeOK
    LoadedIsRestored
    DigestIsCurrent
PROPERTIES
    RestoredIsLoaded
    RefusedIsWrong
    ServedIsEntitled
    EndedByLogins
