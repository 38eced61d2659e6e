----------------------------- MODULE ScreenIds -----------------------------
(***************************************************************************)
(* The ids of the screens: AbstractScreenController::ScreenIdManager       *)
(* (abstract_screen_controller.cpp).  The display manager gives a screen   *)
(* an id of its own and maps it to the id the render service knows it by.  *)
(*                                                                         *)
(* A method is an operator from a state s to the state it leaves.  The     *)
(* part of s used here:                                                    *)
(*   count     dmsScreenCount_                                             *)
(*   dms2rs    dms2RsScreenIdMap_, a group being mapped to NoRs            *)
(*   rs2dms    rs2DmsScreenIdMap_                                          *)
(***************************************************************************)
EXTENDS Integers, Functions

CONSTANTS Real,     \* the render service's ids of the physical screens
          Virtual,  \* its ids of the virtual screens
          NoRs      \* SCREEN_ID_INVALID as an id of the render service

ASSUME RsIdAssumption == Real \cap Virtual = {} /\ NoRs \notin Real \cup Virtual

RsIds == Real \cup Virtual

NoScreen == -1      \* SCREEN_ID_INVALID

(* The map f with k mapped to v, and without k: insert and erase.          *)
Put(f, k, v)  == [x \in DOMAIN f \cup {k} |-> IF x = k THEN v ELSE f[x]]
Without(f, k) == Restrict(f, DOMAIN f \ {k})

CreateScreenId(s, r) ==
    [s EXCEPT !.count  = @ + 1,
              !.dms2rs = Put(@, s.count, r),
              !.rs2dms = IF r = NoRs THEN @ ELSE Put(@, r, s.count)]

DeleteScreenIdKeepingRs(s, id) == [s EXCEPT !.dms2rs = Without(@, id)]
DeleteScreenId(s, id) ==
    IF id \in DOMAIN s.dms2rs
    THEN [s EXCEPT !.dms2rs = Without(@, id), !.rs2dms = Without(@, s.dms2rs[id])]
    ELSE s

HasRsScreenId(s, r) == r \in DOMAIN s.rs2dms
ToDmsScreenId(s, r) == IF HasRsScreenId(s, r) THEN s.rs2dms[r] ELSE NoScreen
ToRsScreenId(s, id) == IF id \in DOMAIN s.dms2rs THEN s.dms2rs[id] ELSE NoRs
=============================================================================
