------------------------------- MODULE WindowTile -------------------------------
(* The tile layout of one display: WindowLayoutPolicyTile, with what the window root
   and MinimizeApp do for it. The newest main windows stand side by side; one that is
   pushed out, or that its tile does not suit, is put on MinimizeApp's list, from
   which it may be taken back. The list is executed at the end of some calls only. *)
EXTENDS LayoutRects, SequencesExt

CONSTANTS WtWindows,   \* main windows
          WtFixed,     \* those that do not support floating
          WtCustom,    \* the limits that they configure
          WtSizes,     \* the sizes the display can have, [w, h]
          WtThick,     \* how thick a bar is
          WtEdge,      \* EDGE_INTERVAL
          WtMid,       \* MID_INTERVAL
          WtCallsMax   \* bound on the calls
WtBars == {"status", "navigation"}
ASSUME WtAssumption ==
  /\ WtFixed \subseteq WtWindows /\ WtSizes \subseteq [w : Nat \ {0}, h : Nat \ {0}]
  /\ "null" \notin WtWindows /\ WtThick \in Nat \ {0} /\ WtEdge \in Nat /\ WtMid \in Nat /\ WtCallsMax \in Nat

VARIABLES wt,        \* see WtInit
          wtCalls
wtVars == <<wt, wtCalls>>

WholeOf(size) == Rect(0, 0, size.w, size.h)

(* ---- the tiles ---- *)

GetMaxTileWinNum(size, limit) ==
  (limit.w - 2 * WtEdge + WtMid) \div ((IF Vertical(size) THEN WlMin.w ELSE WlMin.h) + WtMid)
(* InitTileWindowRects: tile i, from 0, of num *)
Part(n) == (n * 66) \div 100
TileHigh(p) == Lesser(p.limit.h, Part(p.size.h))
TileWide(p, num) == IF num = 1 THEN Lesser(p.limit.w, Part(p.size.w))
                               ELSE (p.limit.w - 2 * WtEdge - WtMid * (num - 1)) \div num
PresetRect(p, num, i) ==
  Rect(p.limit.x + IF num = 1 THEN (p.limit.w - TileWide(p, 1)) \div 2 ELSE WtEdge + i * (TileWide(p, num) + WtMid),
       p.limit.y + (p.limit.h - TileHigh(p)) \div 2, TileWide(p, num), TileHigh(p))
InitTileWindowRects(L) == [L EXCEPT !.preset = [size |-> L.size, limit |-> L.limit, max |-> GetMaxTileWinNum(L.size, L.limit)]]
Suits(L, w, r) == w \notin WtFixed
                  /\ IsRectSatisfiedWithSizeLimits(r, SizeLimits("main", WtCustom[w], WholeOf(L.known), WlScale))

(* ---- the queue ---- *)

AddNeedMinimize(L, w) == [L EXCEPT !.list = Append(@, w)]
(* not the code: who makes room for another is not asked to go *)
PopFrontUntold(L) ==
  [L EXCEPT !.queue = SubSeq(@, NotBelowZero(Len(@) - L.preset.max + 1) + 1, Len(@))]
PopFront(L) ==   \* until there is room for one more
  LET n == NotBelowZero(Len(L.queue) - L.preset.max + 1) IN
  [L EXCEPT !.queue = SubSeq(@, n + 1, Len(@)), !.list = @ \o SubSeq(L.queue, 1, n)]
ForegroundNodeQueuePushBack(L, w) ==
  CASE Contains(L.queue, w) -> L
    [] ~Contains(L.queue, w) /\ w \in WtFixed -> AddNeedMinimize(L, w)
    [] OTHER -> [PopFront(L) EXCEPT !.queue = Append(@, w)]
(* the one put on the list last; it is null when its window has been destroyed *)
GetRecoverdNode(L) == IF L.list = <<>> \/ Last(L.list) = "null" THEN <<>> ELSE <<Last(L.list)>>
PopList(L) == IF L.list = <<>> THEN L ELSE [L EXCEPT !.list = Front(@)]
(* a window that its tile does not suit is to go; when all tiles are taken another comes back *)
Refused(L, w, full) == [AddNeedMinimize(IF full THEN PopList(L) ELSE L, w) EXCEPT !.queue = RemoveFirst(@, w)]
GivenTile(L, w, r) == [L EXCEPT !.req[w] = r, !.full = @ \ {w}, !.kept = @ \ {w}]
(* one window of the queue: s.placed have got a tile, s.back come back. The code takes
   those that are to go out of the queue at the end; nobody looks at it until then. *)
Assign(num, s, w) ==
  LET r == PresetRect(s.L.preset, num, s.placed)
      full == num = s.L.preset.max IN
  IF Suits(s.L, w, r)
  THEN [s EXCEPT !.placed = @ + 1, !.L = GivenTile(@, w, r)]
  ELSE [s EXCEPT !.back = IF full THEN @ \o GetRecoverdNode(s.L) ELSE @,
                 !.L = Refused(@, w, full)]
Requeued(s) == [s.L EXCEPT !.queue = @ \o s.back, !.kept = @ \cup ToSet(s.back)]
Unassigned(L) == [L |-> L, placed |-> 0, back |-> <<>>]
Assigned(L) == LET after[i \in 0..Len(L.queue)] ==
                     IF i = 0 THEN Unassigned(L) ELSE Assign(Len(L.queue), after[i - 1], L.queue[i])
               IN after[Len(L.queue)]
AssignNodePropertyForTileWindows(L) ==
  IF Len(L.queue) \notin 1..L.preset.max THEN L ELSE Requeued(Assigned(L))

(* ---- the layout of all ---- *)

LimitOf(L) ==
  LET LeftBy(b, limit) == IF L.bar[b] = EmptyRect THEN limit ELSE UpdateLimitRect(L.bar[b], limit, WholeOf(L.size)) IN
  LeftBy("navigation", LeftBy("status", WholeOf(L.size)))
(* LayoutWindowTree: the bars, and the limits of each window *)
LayTree(L) == [L EXCEPT !.limit = LimitOf(L), !.known = L.size]
Emptied(L) == [InitTileWindowRects([L EXCEPT !.limit = LimitOf(L)]) EXCEPT !.queue = <<>>]
InitForegroundNodeQueue(L) ==
  LET pushed[i \in 0..Len(L.tree)] ==
        IF i = 0 THEN Emptied(L) ELSE ForegroundNodeQueuePushBack(pushed[i - 1], L.tree[i])
  IN pushed[Len(L.tree)]
LaunchTile(L) == AssignNodePropertyForTileWindows(InitForegroundNodeQueue(L))
UpdateBar(L) ==
  IF L.tile THEN AssignNodePropertyForTileWindows(InitTileWindowRects(LayTree(L))) ELSE LayTree(L)
SwitchLayoutPolicy(L, tile) ==
  IF tile = L.tile THEN L ELSE IF tile THEN LaunchTile([L EXCEPT !.tile = TRUE]) ELSE [L EXCEPT !.tile = FALSE]
ExecuteMinimizeAll(L, others) ==
  [L EXCEPT !.asked = @ \cup ((ToSet(L.list) \cup others) \cap ToSet(L.tree)), !.list = <<>>]

WtInit ==
  /\ \E size \in WtSizes, byOther \in BOOLEAN :
       wt = [tile |-> FALSE, byOther |-> byOther, size |-> size, bar |-> [b \in WtBars |-> EmptyRect], limit |-> WholeOf(size),
             preset |-> [size |-> size, limit |-> WholeOf(size), max |-> 1],   \* presetRectsMap_, maxTileWinNumMap_
             known |-> size,     \* the display by which the limits of the windows were computed last
             tree  |-> <<>>,     \* the main windows that are shown
             queue |-> <<>>,     \* foregroundNodesMap_
             list  |-> <<>>,     \* needMinimizeAppNodes_ of LAYOUT_TILE
             full  |-> {},       \* whose mode is not floating
             req   |-> [w \in WtWindows |-> EmptyRect],
             asked |-> {},       \* history: shown, and told to minimize
             kept  |-> {}]       \* history: taken back, and not given a tile since
  /\ wtCalls = 0
WtCalled == wtCalls < WtCallsMax /\ wtCalls' = wtCalls + 1
WtShown == ToSet(wt.tree)

(* ---- the operations ---- *)

IsTileRectSatisfiedWithSizeLimits(L, w) ==
  LET num == Len(L.queue) IN
  /\ num <= L.preset.max
  /\ Contains(L.queue, w) \/ Suits(L, w, PresetRect(L.preset, IF num = L.preset.max THEN num ELSE num + 1, 0))
(* a window that is shown full screen minimizes those that do not float, where the
   product lets it                                                              *)
MinimizeStructured(L, w, full) == IF full /\ L.byOther THEN L.full \ {w} ELSE {}
ShowMain(w) ==
  /\ w \notin WtShown /\ WtCalled
  /\ wt.tile => w \notin WtFixed /\ IsTileRectSatisfiedWithSizeLimits([wt EXCEPT !.known = wt.size], w)
  /\ \E full \in {(w \in WtFixed), TRUE} :
       LET L == [wt EXCEPT !.tree = Append(@, w), !.full = IF full THEN @ \cup {w} ELSE @ \ {w}] IN
       wt' = ExecuteMinimizeAll(IF wt.tile THEN AssignNodePropertyForTileWindows(ForegroundNodeQueuePushBack(L, w)) ELSE L,
                                MinimizeStructured(wt, w, full))
Gone(list, w) == [i \in DOMAIN list |-> IF list[i] = w THEN "null" ELSE list[i]]
RemoveMain(w) ==   \* hidden, or destroyed
  /\ w \in WtShown /\ WtCalled
  /\ \E destroyed \in BOOLEAN :
       LET L == [wt EXCEPT !.tree = RemoveFirst(@, w), !.asked = @ \ {w},
                           !.list = IF destroyed THEN Gone(@, w) ELSE @] IN
       wt' = IF wt.tile THEN AssignNodePropertyForTileWindows([L EXCEPT !.queue = RemoveFirst(@, w)]) ELSE L
(* Reorder of the cascade asks those to minimize that its rectangles do not suit *)
SwitchTiles ==
  /\ WtCalled
  /\ \/ wt' = ExecuteMinimizeAll(SwitchLayoutPolicy(wt, TRUE), {})
     \/ \E out \in SUBSET WtShown :
          /\ WtFixed \cap WtShown \subseteq out
          /\ wt' = ExecuteMinimizeAll([SwitchLayoutPolicy(wt, FALSE) EXCEPT !.full = @ \cap out], out)
SetMainMode(w) ==
  /\ w \in WtShown \ WtFixed /\ WtCalled
  /\ LET full == w \notin wt.full IN
     wt' = ExecuteMinimizeAll([SwitchLayoutPolicy(wt, FALSE) EXCEPT !.full = IF full THEN @ \cup {w} ELSE @ \ {w}],
                              MinimizeStructured(wt, w, full))
(* a new rectangle, type or flags *)
UpdateMain(w) == w \in WtShown /\ wt.tile /\ WtCalled /\ wt' = SwitchLayoutPolicy(wt, FALSE)
MinimizeAll == WtCalled /\ wt' = ExecuteMinimizeAll(SwitchLayoutPolicy(wt, FALSE), WtShown)

BarRect(b, size) == Rect(0, IF b = "status" THEN 0 ELSE size.h - WtThick, size.w, WtThick)
ShowBar(b) == /\ wt.bar[b] = EmptyRect /\ WtCalled
              /\ wt' = ExecuteMinimizeAll(UpdateBar([wt EXCEPT !.bar[b] = BarRect(b, wt.size)]), {})
HideBar(b) == /\ wt.bar[b] # EmptyRect /\ WtCalled
              /\ wt' = LayTree([wt EXCEPT !.bar[b] = EmptyRect])
(* the bars are put where they belong, on the display as it was, before it turns *)
TurnBar(L, b, size) == IF L.bar[b] = EmptyRect THEN L ELSE UpdateBar([L EXCEPT !.bar[b] = BarRect(b, size)])
Turn(size) ==
  /\ size # wt.size /\ WtCalled
  /\ LET L == [TurnBar(TurnBar(wt, "status", size), "navigation", size) EXCEPT !.size = size] IN
     wt' = LayTree(IF wt.tile THEN LaunchTile(L) ELSE L)

WtNext == \/ \E w \in WtWindows : ShowMain(w) \/ RemoveMain(w) \/ SetMainMode(w) \/ UpdateMain(w)
          \/ \E b \in WtBars : ShowBar(b) \/ HideBar(b)
          \/ \E size \in WtSizes : Turn(size)
          \/ SwitchTiles \/ MinimizeAll
WtSpec == WtInit /\ [][WtNext]_wtVars

(* ---- properties ---- *)

(* The tiles have room: a bar does not cover the display, and one window of the least
   width fits beside the edges.                                                      *)
WtRoom == \A size \in WtSizes : /\ WtThick < size.h
                                /\ 2 * WtEdge + (IF Vertical(size) THEN WlMin.w ELSE WlMin.h) <= size.w
(* While windows are tiled, every one that is shown stands in the queue, or is to be
   minimized: it is on the list, or has been told. And those that have been given a
   tile stand beside each other, also after windows came and went, the display turned
   or a bar took its part; a window that was taken back from the list is not given one. *)
WtPlaced ==
  wt.tile =>
    /\ WtShown \subseteq ToSet(wt.queue) \cup ToSet(wt.list) \cup wt.asked
    /\ \A i, j \in 1..Len(wt.queue) :
         (wt.queue[i] # wt.queue[j] /\ {wt.queue[i], wt.queue[j]} \cap wt.kept = {}) =>
           Apart(wt.req[wt.queue[i]], wt.req[wt.queue[j]])
=============================================================================
