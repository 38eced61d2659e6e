---------------------------- MODULE MinimizeApp ----------------------------
(***************************************************************************)
(* The list of applications the window manager has decided to minimize but *)
(* has not yet told the ability manager about (minimize_app.cpp).          *)
(*                                                                         *)
(* The code keeps a map from a reason to a vector of weak node references; *)
(* handlers add to it while they rearrange windows and execute it when     *)
(* they succeed.  Order and repetitions are abstracted: a list is a set of *)
(* <<node, reason>> pairs.                                                 *)
(***************************************************************************)

Reasons == {"MINIMIZE_BUTTON", "MINIMIZE_ALL", "LAYOUT_TILE",
            "LAYOUT_CASCADE", "MAX_APP_COUNT", "SPLIT_REPLACE", "SPLIT_QUIT",
            "GESTURE_ANIMATION", "OTHER_WINDOW"}

(* The reasons the ability manager is told come from the user.             *)
IsFromUser(reason) ==
    reason \in {"MINIMIZE_ALL", "MINIMIZE_BUTTON", "MAX_APP_COUNT",
                "LAYOUT_TILE", "SPLIT_REPLACE", "SPLIT_QUIT"}

(* Reasons that are not the user's are dropped unless the product lets an  *)
(* application be minimized by another window (isMinimizedByOtherWindow_). *)
AddNeedMinimizeApp(list, nodes, reason, byOther) ==
    IF byOther \/ IsFromUser(reason)
      THEN list \cup {<<n, reason>> : n \in nodes}
      ELSE list

ClearNodesWithReason(list, reason) == {e \in list : e[2] # reason}

(* What ExecuteMinimizeAll and ExecuteMinimizeTargetReason hand over to    *)
(* the ability manager.                                                    *)
NeedMinimizeAppNodes(list) == {e[1] : e \in list}
NodesWithReason(list, reason) == {e[1] : e \in {x \in list : x[2] = reason}}
=============================================================================
