CONSTANTS
    a1 = a1  a2 = a2  d1 = d1  d2 = d2  ph = ph
    NoNode = NoNode
    Apps <- MCApps
    Docks <- MCDocks
    PlaceHolder <- ph
    Supported <- MCSupported
    MaxTasks = 2
SPECIFICATION LiveSpec
INVARIANTS PairConsistent MembersShown NoStrandedSplit
PROPERTIES SidesSpec PairingEnds
