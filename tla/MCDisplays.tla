------------------------------ MODULE MCDisplays ------------------------------
(* Three parts, of which one is chosen in the beginning: the displays of the service,
   the layout of the windows of one display, and its tiles. Of the windows that are
   laid out, a scene has some that affect each other.                               *)
EXTENDS MCDisplayService, WindowLayout, WindowTile
VARIABLES part, scene

(* a display of 40 by 60, upright first, and windows of at least 12 by 16; a rectangle
   that is out of it, and places for an edge out of the display and within it       *)
MCSizes  == {[w |-> 40, h |-> 60], [w |-> 60, h |-> 40]}
MCMin    == [w |-> 12, h |-> 16]
MCParent == [s |-> "a"]
MCRects  == {EmptyRect, Rect(-9, 50, 18, 24)}
MCMoves  == {-8, 33, 58}
MCExit   == [start |-> 20, end |-> 80]
MCScenes == {{"divider", "a", "status"}, {"divider", "a", "b"}, {"a", "s", "status", "dock"}, {"recents", "a", "b", "navigation"}}
MCFree   == [maxW |-> 0, maxH |-> 0, minW |-> 0, minH |-> 0, maxR |-> <<1, 0>>, minR |-> <<0, 1>>]
MCCustom == [a |-> [MCFree EXCEPT !.maxW = 30, !.minH = 20, !.maxR = <<1, 1>>], b |-> MCFree, s |-> MCFree]
(* a tile is wide enough for u when there are not two, and high enough for w when the
   display is upright                                                             *)
MCTiled  == [u |-> [MCFree EXCEPT !.minW = 18], v |-> MCFree, w |-> [MCFree EXCEPT !.minH = 28], z |-> MCFree]

(* there is room for the bars and the divider on either side of this display *)
ASSUME MCRoom == WlRoom
(* and for a tile beside the edges *)
ASSUME MCTileRoom == WtRoom

In(p) == part = p
MCInit == /\ part \in {"displays", "layout", "tiles"}
          /\ Init /\ WlInit /\ WtInit
          /\ (~In("displays") => rs.real = Real)
          /\ wlLay.vpr = 10 /\ Vertical(wlLay.size) /\ Vertical(wt.size) /\ (In("tiles") \/ ~wt.byOther)
          /\ IF In("layout") THEN scene \in MCScenes ELSE scene = {}
MCNext == /\ UNCHANGED <<part, scene>>
          /\ \/ In("displays") /\ Next /\ UNCHANGED <<wlVars, wtVars>>
             \/ In("layout")   /\ WlNextOf(scene) /\ UNCHANGED <<vars, wtVars>>
             \/ In("tiles")    /\ WtNext /\ UNCHANGED <<vars, wlVars>>
MCVars == <<part, scene, vars, wlVars, wtVars>>
MCSpec == MCInit /\ [][MCNext]_MCVars
(* the displays alone, whose threads go on *)
MCDisplaysInit == MCInit /\ In("displays")
MCFairSpec == MCDisplaysInit /\ [][MCNext]_MCVars /\ Fairness
=============================================================================
