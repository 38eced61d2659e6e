CONSTANTS
    r1 = r1  r2 = r2  v1 = v1  a1 = a1
    NoRs = NoRs
    Real = {r1, r2}
    Virtual = {v1}
    HotPlug = {r2}
    Agents = {a1}
    MaxPlugs = 1
    MaxIds = 5
    MaxDisplays = 2
SPECIFICATION Spec
INVARIANTS NoFault
CHECK_DEADLOCK FALSE
