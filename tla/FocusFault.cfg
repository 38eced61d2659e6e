CONSTANTS
    dsk = dsk  kg = kg  ime = ime  m1 = m1  s1 = s1  d1 = d1  m2 = m2  m3 = m3
    Null = Null
    Windows <- AppWindows
    Type <- AppType
    Caller <- MCCaller
    Process <- MCProcess
    ShowWhenLocked = {m1}
    Focusable = {dsk, kg, m1, s1, m2}
    Floating = {}
    First = dsk
    Mortal = {m1}
    Launched = {m2}
    maxAppWindowNumber = 1
SPECIFICATION Spec
INVARIANT FocusNotFaulty
