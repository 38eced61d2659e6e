CONSTANTS
    dsk = dsk  kg = kg  ime = ime  m1 = m1  s1 = s1  d1 = d1  m2 = m2  m3 = m3
    Null = Null
    Windows <- FloatWindows
    Type <- FloatType
    Caller <- MCCaller
    Process <- MCProcess
    ShowWhenLocked = {}
    Focusable = {dsk, m1, m2, m3}
    Floating = {m1, m2, m3}
    First = dsk
    Mortal = {}
    Launched = {}
    maxAppWindowNumber = 1
SPECIFICATION Spec
INVARIANT AppLimit
