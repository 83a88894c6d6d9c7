SPECIFICATION Spec
CONSTANTS
    w1 = w1
    w2 = w2
    r1 = r1
    r2 = r2
    red = red
    None = None
    Workers = {w1, w2}
    Requests = {r1, r2}
    Teams = {red}
    TeamOf <- MCTeamOf
    Overrun = FALSE
    MaxFaults = 1
INVARIANTS
    OneRequestPerTeam
CHECK_DEADLOCK FALSE
