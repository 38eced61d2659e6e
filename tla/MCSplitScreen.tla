---------------------------- MODULE MCSplitScreen ----------------------------
(* An application with every mode, one that can only be split, two divider *)
(* dialogs (the second replaces one that is still closing).                *)
EXTENDS SplitScreen, TLC
CONSTANTS a1, a2, d1, d2, ph

MCApps == {a1, a2}
MCDocks == {d1, d2}
MCSupported == [n \in MCApps \cup MCDocks \cup {ph} |->
                  IF n = a2 THEN SplitModes ELSE Modes]
=============================================================================
