-------------------------------- MODULE MCClient --------------------------------
(* Four parts an application has a share in, of which one is chosen in the beginning:
   its windows, its lists of listeners, the power of the displays it sets, and a thread
   of it in a call to another process.                                            *)
EXTENDS WindowClient, ListenerRegistry, DisplayPower, IpcChannel
VARIABLE part

MCKindOf == [main |-> "main", sub |-> "sub", float |-> "float", dialog |-> "dialog"]

In(p) == part = p
vars == <<part, wcVars, lrVars, dpVars, ipcVars>>
Init == /\ part \in {"windows", "listeners", "power", "call"} /\ WcInit /\ LrInit /\ DpInit /\ IpcInit
        /\ ~In("windows")   => wcUsed = {"main", "float"} /\ wcOf = "none"
        /\ ~In("listeners") => lrKind = RegisterScreenListenerWithType
Next == /\ UNCHANGED part
        /\ \/ In("windows")   /\ WcNext  /\ UNCHANGED <<lrVars, dpVars, ipcVars>>
           \/ In("listeners") /\ LrNext  /\ UNCHANGED <<wcVars, dpVars, ipcVars>>
           \/ In("power")     /\ DpNext  /\ UNCHANGED <<wcVars, lrVars, ipcVars>>
           \/ In("call")      /\ IpcNext /\ UNCHANGED <<wcVars, lrVars, dpVars>>
Spec == Init /\ [][Next]_vars /\ WcFair
=============================================================================
