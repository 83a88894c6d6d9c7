SPECIFICATION Spec
CONSTANTS
    w1 = w1
    w2 = w2
    r1 = r1
    r2 = r2
    red = red
    None = None
    Workers = {w1, w2}
    Requests = {r1, r2}
    Teams = {red}
    TeamOf <- MCTeamOf
    Overrun = TRUE
    MaxFaults = 2
SYMMETRY Symmetry
INVARIANTS
    MarkedTestsExclude
    ScoredOnce
CHECK_DEADLOCK FALSE
