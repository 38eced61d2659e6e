---------------------------- MODULE MCWindowRoot ----------------------------
(* Three instances: applications that come and go (a sub window, a starting  *)
(* window, a process that dies), and the layers of windows around one      *)
(* application (a sub window below it, a dialog above it, the input        *)
(* method), and three floating applications.                               *)
EXTENDS WindowRoot
CONSTANTS dsk, kg, ime, m1, s1, d1, m2, m3

AppWindows   == {dsk, kg, m1, s1, m2}
LayerWindows == {dsk, kg, ime, m1, s1, d1}
FloatWindows == {dsk, m1, m2, m3}
TypeOf(w, sub) == CASE w = dsk -> "DESKTOP" [] w = kg -> "KEYGUARD"
                    [] w = ime -> "INPUT_METHOD_FLOAT" [] w = s1 -> sub
                    [] w = d1 -> "DIALOG" [] OTHER -> "APP_MAIN_WINDOW"
AppType   == [w \in AppWindows |-> TypeOf(w, "APP_SUB_WINDOW")]
LayerType == [w \in LayerWindows |-> TypeOf(w, "MEDIA")]
FloatType == [w \in FloatWindows |-> TypeOf(w, "MEDIA")]
MCCaller  == [w \in Windows |-> IF w \in {s1, d1} THEN m1 ELSE Null]
MCProcess == [w \in Windows |-> IF w = s1 THEN m1 ELSE w]
=============================================================================
