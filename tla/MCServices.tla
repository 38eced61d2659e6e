------------------------------- MODULE MCServices -------------------------------
(* Three parts, of which one is chosen in the beginning: the calls of scripts for one
   window and its managers, with a service that is quiet and lives (MCScripts has one
   that is not), the calls of two applications in the services, and the rotation of
   the default screen.                                                            *)
EXTENDS JsWindow, ServiceCalls, ScreenRotation
VARIABLE part

MCKindOf  == [main |-> "main", sub |-> "sub", float |-> "float", dialog |-> "dialog"]
MCDegrees == {-1, 30, 45, 60, 240}
(* a telephone turned by a quarter, and a tablet *)
MCDevices == {[landscape |-> FALSE, bias |-> 1], [landscape |-> TRUE, bias |-> 0]}

In(p) == part = p
vars == <<part, wcVars, jsVars, scVars, srVars>>
Init == /\ part \in {"scripts", "services", "rotation"}
        /\ WcInit /\ JsInit /\ ScInit /\ SrInit
        /\ wcUsed = {"dialog"} /\ wcSetter = SetSystemBarProperty
        /\ ~In("scripts")  => jsRow = OnMoveTo
        /\ ~In("rotation") => ~srDevice.landscape
Calm == UNCHANGED <<wcInbox, wcDied>>
Next == /\ UNCHANGED part
        /\ \/ In("scripts")  /\ JsNext /\ Calm /\ UNCHANGED <<scVars, srVars>>
           \/ In("services") /\ ScNext /\ UNCHANGED <<wcVars, jsVars, srVars>>
           \/ In("rotation") /\ SrNext /\ UNCHANGED <<wcVars, jsVars, scVars>>
Spec == Init /\ [][Next]_vars /\ JsFair /\ ScFair
=============================================================================
