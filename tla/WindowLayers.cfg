CONSTANTS
    dsk = dsk  kg = kg  ime = ime  m1 = m1  s1 = s1  d1 = d1  m2 = m2  m3 = m3
    Null = Null
    Windows <- LayerWindows
    Type <- LayerType
    Caller <- MCCaller
    Process <- MCProcess
    ShowWhenLocked = {m1}
    Focusable = {dsk, kg, m1, s1, d1}
    Floating = {}
    First = dsk
    Mortal = {}
    Launched = {}
    maxAppWindowNumber = 1
SPECIFICATION Spec
INVARIANTS SiblingsSorted ShownWhenLocked
