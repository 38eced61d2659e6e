CONSTANTS
    r1 = r1  r2 = r2
    NoRs = NoRs
    Real = {r1, r2}
    Virtual = {}
    HotPlug = {r2}
    Agents = {}
    MaxPlugs = 2
    MaxIds = 5
    MaxDisplays = 2
    WlTitle = 4
    WlFrame = 1
    WlDivide = 3
    WlMin <- MCMin
    WlMax = 45
    WlSmall = 30
    WlSnaps = {30, 50, 70}
    WlSizes <- MCSizes
    WlRatios = {10, 15}
    WlMains = {"a", "b"}
    WlSubs = {"s"}
    WlParent <- MCParent
    WlAvoid = {"a"}
    WlParentLimit = {"s"}
    WlDecor = {"a"}
    WlCustom <- MCCustom
    WlRects <- MCRects
    WlMoves <- MCMoves
    WlDockAt = {"left"}
    WlThick = {5}
    WlExit <- MCExit
    WlCallsMax = 4
    WtWindows = {"u", "v", "w", "z"}
    WtFixed = {"z"}
    WtCustom <- MCTiled
    WtSizes <- MCSizes
    WtThick = 14
    WtEdge = 2
    WtMid = 1
    WtCallsMax = 5
SPECIFICATION MCFairSpec
PROPERTIES HotPlugSettles
CHECK_DEADLOCK FALSE
