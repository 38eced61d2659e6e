-------------------------------- MODULE MCScripts --------------------------------
(* Two promises of hide and destroy for one window, while the service destroys it,
   sends states, dies and is started again.                                     *)
EXTENDS JsWindow

MCKindOf == [main |-> "main", sub |-> "sub", float |-> "float", dialog |-> "dialog"]
vars == <<wcVars, jsVars>>
Init == /\ WcInit /\ JsInit /\ wcOf = "dialog" /\ wcSetter = SetSystemBarProperty
        /\ jsRow = OnHide
Spec == Init /\ [][JsNext]_vars
=============================================================================
