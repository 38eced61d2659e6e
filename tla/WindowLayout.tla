------------------------------ MODULE WindowLayout ------------------------------
(* How the windows of one display are laid out: WindowLayoutPolicy and
   WindowLayoutPolicyCascade, driven by the window service's thread. A bar or the
   divider lays out the whole tree, any other window only itself and its sub windows,
   so what the others were told may be out of date.                                *)
EXTENDS LayoutRects, Sequences, FiniteSets

CONSTANTS WlSizes,         \* the sizes the display can have, [w, h]
          WlRatios,        \* the virtual pixel ratios
          WlMains,         \* main windows
          WlSubs,          \* sub windows, all limited by their parents or none, see WlParentLimit
          WlParent,        \* [WlSubs -> WlMains]
          WlAvoid,         \* the windows with WINDOW_FLAG_NEED_AVOID
          WlParentLimit,   \* the sub windows with WINDOW_FLAG_PARENT_LIMIT
          WlDecor,         \* the main windows whose frame the service adds
          WlCustom,        \* the limits that applications configure, per window
          WlRects,         \* what applications ask for
          WlMoves,         \* where a dragged edge or the divider can be put
          WlDockAt,        \* where the dock can be, of bottom, left and right
          WlThick,         \* how thick a bar or the dock is
          WlExit,          \* exitSplitRatios, in hundredths
          WlCallsMax       \* bound on the calls
Bars    == {"status", "navigation"}
Apps    == WlMains \cup WlSubs
Windows == Apps \cup Bars \cup {"dock", "recents", "divider"}
Modes   == {"fullscreen", "floating", "primary", "secondary"}
None    == EmptyRect
ASSUME WlAssumption ==
  /\ WlSizes \subseteq [w : Nat \ {0}, h : Nat \ {0}] /\ WlRatios \subseteq Nat \ {0}
  /\ WlMains \cap (WlSubs \cup Bars \cup {"dock", "recents", "divider"}) = {}
  /\ WlSubs \cap (Bars \cup {"dock", "recents", "divider"}) = {}
  /\ WlParent \in [WlSubs -> WlMains] /\ WlAvoid \subseteq Apps /\ WlParentLimit \subseteq WlSubs
  /\ WlDecor \subseteq WlMains /\ WlThick \subseteq Nat \ {0} /\ WlMoves \subseteq Int /\ WlCallsMax \in Nat
  /\ WlRects \subseteq [x : Int, y : Int, w : Nat, h : Nat]
  /\ \A s, t \in WlSizes : s = t \/ (s.w # t.w /\ s.h # t.h)

VARIABLES wlLay,       \* what the policy reads and writes, see WlInit
          wlResizes,   \* sizes the divider's dialog is still to be told
          wlBackup,    \* backupDividerWindowRect_
          wlCalls
wlVars == <<wlLay, wlResizes, wlBackup, wlCalls>>

Unlimited == [maxW |-> 100 * WlMax, maxH |-> 100 * WlMax, minW |-> 0, minH |-> 0, maxR |-> <<1, 0>>, minR |-> <<0, 1>>]
KindOf(w) == CASE w \in WlMains -> "main" [] w \in WlSubs -> "sub" [] OTHER -> w
Shown(L, w) == L.node[w].shown /\ (w \in WlSubs => L.node[WlParent[w]].shown)
Display(L) == Rect(0, 0, L.size.w, L.size.h)
Title(L) == Scaled(WlTitle, L.vpr)
DockAt(L) == IF Shown(L, "dock") THEN GetDockWindowShowState(L.node["dock"].rect, Display(L)) ELSE "none"
Dock(L) == L.node["dock"].rect

(* ---- one window ---- *)

GetDisplayRect(L, mode) == CASE mode = "primary" -> L.primary
                             [] mode = "secondary" -> L.secondary
                             [] OTHER -> Display(L)
GetLimitRect(L, mode) == CASE mode = "primary" -> L.primaryLimit
                           [] mode = "secondary" -> L.secondaryLimit
                           [] OTHER -> L.limit
LimitsOf(L, w) == SizeLimits(KindOf(w), IF w \in Apps THEN WlCustom[w] ELSE Unlimited, Display(L), L.vpr)
ComputeDecoratedRequestRect(L, w) ==
  LET n == L.node[w]
      frame == Scaled(WlFrame, L.vpr) IN
  IF w \notin WlDecor \/ n.deco THEN n
  ELSE [n EXCEPT !.req = [@ EXCEPT !.w = @ + frame + frame, !.h = @ + Title(L) + frame], !.deco = TRUE]
(* ApplyWindowRectConstraints for a divider: inside the limits, at a ratio when it was
   let go, and back in the middle when the display has turned meanwhile             *)
Snapped(L, r) == IF ~L.snap THEN r
                 ELSE IF Vertical(L.size) THEN [r EXCEPT !.y = UpdateDockSlicePosition(@, L.points, L.limit)]
                                          ELSE [r EXCEPT !.x = UpdateDockSlicePosition(@, L.points, L.limit)]
Turned(L, r) == IsLandscapeRect(r) # Vertical(L.size)
PutDivider(L, req, r) == [L.node["divider"] EXCEPT !.req = req, !.rect = Clamped("divider", r, LimitsOf(L, "divider"))]
DividerAt(L, r) == PutDivider(L, IF Turned(L, r) THEN L.divider ELSE L.node["divider"].req,
                                 IF Turned(L, r) THEN L.divider ELSE r)
LaidDivider(L) == DividerAt(L, Snapped(L, LimitDividerMoveBounds(L.node["divider"].req, L.limit)))
(* LimitFloatingWindowSize and LimitMainFloatingWindowPosition *)
LimitMainFloatingWindowPosition(L, r, last, lim, b, dragged) ==
  IF dragged THEN FixWindowSizeByRatioIfDragBeyondLimitRegion(LimitWindowPositionWhenDrag(r, last, b), lim, b)
             ELSE LimitWindowPositionWhenInitRectOrMove(r, L.limit, DockAt(L), Dock(L), Title(L))
LimitFloatingWindowSize(kind, n, r, lim, dragged) ==
  KeepFarSide(UpdateFloatingWindowSizeBySizeLimits(kind, n.mode, n.tall, r, lim), r, n.rect, dragged)
LimitFloatingWindow(L, w, n, r, lim, dragged) ==
  IF w \notin WlMains THEN LimitFloatingWindowSize(KindOf(w), n, r, lim, dragged)
  ELSE LimitMainFloatingWindowPosition(L, LimitFloatingWindowSize("main", n, r, lim, dragged), n.rect, lim,
                                       DragBounds(L.limit, DockAt(L), Dock(L), Title(L)), dragged)
(* UpdateLayoutRect of a window other than the divider *)
AreaOf(L, w, mode) == IF w \in WlAvoid THEN GetLimitRect(L, mode) ELSE GetDisplayRect(L, mode)
InParent(L, w, r) == IF w \in WlParentLimit THEN UpdateFloatingLayoutRect(L.node[WlParent[w]].rect, r) ELSE r
LaidNode(L, w, n, dragged) ==
  [n EXCEPT !.rect = IF n.mode = "floating"
                     THEN LimitFloatingWindow(L, w, n, InParent(L, w, n.req), LimitsOf(L, w), dragged)
                     ELSE AreaOf(L, w, n.mode)]
Laid(L, w, dragged) == LaidNode(L, w, ComputeDecoratedRequestRect(L, w), dragged)

(* ---- the tree ---- *)

WithPoints(L) == [L EXCEPT !.points = {GetSplitRatioPoint(p, L.size, L.limit, L.divider) : p \in WlSnaps}]
LimitedTo(L, limit) ==
  WithPoints([L EXCEPT !.limit = limit, !.primaryLimit = Within(limit, @), !.secondaryLimit = Within(limit, @)])
TakeBar(L, w) == IF w \in Bars THEN LimitedTo(L, UpdateLimitRect(L.node[w].rect, L.limit, Display(L))) ELSE L
LayAboveOne(L, w) == IF Shown(L, w) THEN TakeBar([L EXCEPT !.node[w] = Laid(L, w, FALSE)], w) ELSE L
(* LayoutWindowNodesByRootType of the windows above the applications', in their order *)
Above == <<"recents", "dock", "status", "navigation">>
LayAbove(L) == LET after[i \in 0..Len(Above)] == IF i = 0 THEN L ELSE LayAboveOne(after[i - 1], Above[i]) IN
               after[Len(Above)]
InitLimitRects(L) ==
  WithPoints([L EXCEPT !.limit = Display(L), !.primaryLimit = L.primary, !.secondaryLimit = L.secondary])
LaySubs(L, mains) ==
  [L EXCEPT !.node = [w \in Windows |-> IF w \in WlSubs /\ Shown(L, w) /\ WlParent[w] \in mains
                                        THEN Laid(L, w, FALSE) ELSE @[w]]]
LayApps(L) ==
  LaySubs([L EXCEPT !.node = [w \in Windows |-> IF ~Shown(L, w) THEN @[w]
                                                ELSE IF w = "divider" THEN LaidDivider(L)
                                                ELSE IF w \in WlMains THEN Laid(L, w, FALSE) ELSE @[w]]], WlMains)
(* recents that fill the display end the layout before it comes to the applications *)
LayBelowRecents(L) == IF Shown(L, "recents") THEN [L EXCEPT !.skipped = TRUE] ELSE [LayApps(L) EXCEPT !.skipped = FALSE]
LayoutWindowTree(L) == LayBelowRecents(LayAbove(InitLimitRects(L)))
LayoutWindowNode(L, w, dragged) ==
  IF ~Shown(L, w) THEN L ELSE LaySubs([L EXCEPT !.node[w] = Laid(L, w, dragged)], {w})
SetSplitRect(L, div) ==
  [L EXCEPT !.divider = [@ EXCEPT !.w = div.w, !.h = div.h],
            !.primary = PrimaryOf(div, Display(L)), !.secondary = SecondaryOf(div, Display(L))]
SplitAt(L, n) == SetSplitRect([L EXCEPT !.node["divider"] = n], n.rect)
Split(L, w) == L.node[w].mode \in {"primary", "secondary"}
UpdateWindowNode(L, w, dragged) ==
  IF w \in Bars \cup {"divider"} \/ Split(L, w)
  THEN LayoutWindowTree(IF w = "divider" THEN SplitAt(L, LaidDivider(L)) ELSE L)
  ELSE LayoutWindowNode(L, w, dragged)
InitSplitRects(L) == LET div == InitDivider(Display(L), L.vpr) IN SetSplitRect([L EXCEPT !.divider = div], div)
(* InitAllRects *)
InitCascadeRect(L) == [L EXCEPT !.cascade = FirstCascadeRect(Display(L), L.limit)]
Launch(L) == InitCascadeRect(LayAbove(InitLimitRects(InitSplitRects(L))))

Hidden == [shown |-> FALSE, mode |-> "floating", req |-> EmptyRect, rect |-> EmptyRect, deco |-> FALSE, tall |-> FALSE]
WlInit ==
  /\ \E size \in WlSizes, vpr \in WlRatios :
       wlLay = Launch([size |-> size, vpr |-> vpr,
                       node |-> [w \in Windows |-> Hidden],
                       limit |-> EmptyRect,                               \* limitRectMap_
                       primary |-> EmptyRect, secondary |-> EmptyRect,    \* cascadeRectsMap_
                       primaryLimit |-> EmptyRect, secondaryLimit |-> EmptyRect, divider |-> EmptyRect,
                       cascade |-> EmptyRect, points |-> {},
                       snap |-> FALSE,      \* the divider's reason is DRAG_END
                       first |-> TRUE,      \* isFirstAppWindow
                       restore |-> None,    \* restoringDividerWindowRects_
                       skipped |-> FALSE])  \* history: the last layout of the tree stopped at the recents
  /\ wlResizes = <<>> /\ wlBackup = None /\ wlCalls = 0
Called == wlCalls < WlCallsMax /\ wlCalls' = wlCalls + 1

(* ---- the operations ---- *)

(* SetCascadeRect of a window that asks for no place: after the main window on top,
   whose order WindowTree knows                                                   *)
Others(L, w) == {m \in WlMains \ {w} : Shown(L, m)}
CascadeRects(L, w) ==
  IF w \notin Apps \/ L.first \/ Others(L, w) = {} THEN {L.cascade}
  ELSE {StepCascadeRect(IF L.node[m].mode = "floating" THEN L.node[m].rect ELSE L.node[m].req, L.limit, Title(L)) :
          m \in Others(L, w)}
Strip(size, t, at) == CASE at = "top"    -> Rect(0, 0, size.w, t)
                        [] at = "bottom" -> Rect(0, size.h - t, size.w, t)
                        [] at = "left"   -> Rect(0, 0, t, size.h)
                        [] at = "right"  -> Rect(size.w - t, 0, t, size.h)
Edges(w) == CASE w = "status" -> {"top"} [] w = "navigation" -> {"bottom"} [] OTHER -> WlDockAt
Strips(w) == {Strip(s, t, at) : s \in WlSizes, t \in WlThick, at \in Edges(w)}
(* what a window asks for when it is shown; a bar may do so for a size that is over *)
Asks(L, w) == CASE w \in Apps -> WlRects
                [] w \in Bars \cup {"dock"} -> Strips(w)
                [] w = "recents" -> {EmptyRect}
                [] OTHER -> {IF L.restore = None THEN L.divider ELSE L.restore}
ShowModes(w) == CASE w \in WlMains -> Modes
                  [] w = "recents" -> {"fullscreen"}
                  [] OTHER -> {"floating"}
(* the node of a window that is shown; with nothing asked for it has yet to be decorated *)
ShownAs(n, mode, req, empty) == [n EXCEPT !.shown = TRUE, !.mode = mode, !.req = req, !.deco = @ \/ empty]
AddWindowNode(w) ==
  /\ ~wlLay.node[w].shown /\ (w \in WlSubs => wlLay.node[WlParent[w]].shown) /\ Called
  /\ \E mode \in ShowModes(w), r \in Asks(wlLay, w) :
       LET empty == r = EmptyRect IN
       \E req \in IF empty THEN CascadeRects(wlLay, w) ELSE {r} :
         wlLay' = UpdateWindowNode([wlLay EXCEPT !.node[w] = ShownAs(@, mode, req, empty),
                                                 !.first = @ /\ ~(empty /\ w \in Apps),
                                                 !.restore = IF w = "divider" THEN None ELSE @,
                                                 !.snap = @ /\ w # "divider"], w, FALSE)
  /\ UNCHANGED <<wlResizes, wlBackup>>

(* RemoveWindowNode: the divider is placed anew when a bar has gone *)
RemoveWindowNode(w) ==
  LET M == [wlLay EXCEPT !.node[w].shown = FALSE]
      N == IF w \in Bars THEN LayoutWindowTree(M)
           ELSE IF w = "divider" THEN LayoutWindowTree(InitSplitRects(M)) ELSE M IN
  /\ wlLay.node[w].shown /\ Called
  /\ wlLay' = IF w \in Bars /\ Shown(N, "divider") THEN UpdateWindowNode(N, "divider", FALSE) ELSE N
  /\ UNCHANGED <<wlResizes, wlBackup>>

(* ResizeRect, for an application that moves, resizes or drags its window *)
Resized(L, w, r, dragged) ==
  UpdateWindowNode([L EXCEPT !.node[w].req = r, !.snap = @ /\ w # "divider"], w, dragged)
Request(w) ==
  LET n == wlLay.node[w] IN
  /\ Shown(wlLay, w) /\ n.mode = "floating" /\ Called
  /\ \E r \in WlRects : \/ wlLay' = Resized(wlLay, w, Rect(r.x, r.y, n.rect.w, n.rect.h), FALSE)
                        \/ wlLay' = Resized(wlLay, w, Rect(n.rect.x, n.rect.y, r.w, r.h), FALSE)
  /\ UNCHANGED <<wlResizes, wlBackup>>
DragTo(w) ==
  LET n == wlLay.node[w] IN
  /\ Shown(wlLay, w) /\ n.mode = "floating" /\ Called
  /\ \E to \in WlMoves, edge \in {"left", "right", "top", "bottom"} :
       LET r == CASE edge = "left"   -> Rect(to, n.rect.y, Right(n.rect) - to, n.rect.h)
                  [] edge = "right"  -> Rect(n.rect.x, n.rect.y, to - n.rect.x, n.rect.h)
                  [] edge = "top"    -> Rect(n.rect.x, to, n.rect.w, Bottom(n.rect) - to)
                  [] edge = "bottom" -> Rect(n.rect.x, n.rect.y, n.rect.w, to - n.rect.y) IN
       /\ r.w > 0 /\ r.h > 0
       /\ wlLay' = Resized([wlLay EXCEPT !.node[w].tall = edge \in {"top", "bottom"}], w, r, TRUE)
  /\ UNCHANGED <<wlResizes, wlBackup>>
MoveDivider ==
  LET r == wlLay.node["divider"].rect IN
  /\ Shown(wlLay, "divider") /\ Called
  /\ \E to \in WlMoves :
       wlLay' = Resized(wlLay, "divider", IF Vertical(wlLay.size) THEN [r EXCEPT !.y = to] ELSE [r EXCEPT !.x = to], FALSE)
  /\ UNCHANGED <<wlResizes, wlBackup>>
(* ProcessPointUp of the divider; a pair that is to be left is another module's *)
Paired(L) == \A side \in {"primary", "secondary"} : \E m \in WlMains : Shown(L, m) /\ L.node[m].mode = side
InExitSplitModeArea(L) ==
  LET r == L.node["divider"].rect
      at == IF r.w < r.h THEN r.x ELSE r.y IN
  Paired(L) /\ \/ at < GetSplitRatioPoint(WlExit.start, L.size, L.limit, L.divider)
               \/ at > GetSplitRatioPoint(WlExit.end, L.size, L.limit, L.divider)
ReleaseDivider ==
  /\ Shown(wlLay, "divider") /\ ~InExitSplitModeArea(wlLay) /\ Called
  /\ wlLay' = UpdateWindowNode([wlLay EXCEPT !.snap = TRUE, !.node["divider"].req = wlLay.node["divider"].rect],
                               "divider", FALSE)
  /\ UNCHANGED <<wlResizes, wlBackup>>

SetWindowModeOf(w) ==
  /\ Shown(wlLay, w) /\ Called
  /\ \E mode \in Modes \ {wlLay.node[w].mode} :
       wlLay' = UpdateWindowNode([wlLay EXCEPT !.node[w] =
                  [@ EXCEPT !.mode = mode,
                            !.req = IF mode = "fullscreen" /\ wlLay.node[w].mode = "floating"
                                    THEN wlLay.node[w].rect ELSE @]], w, FALSE)
  /\ UNCHANGED <<wlResizes, wlBackup>>

(* ProcessDisplayChange after a rotation or a new size: the bars are put where they
   belong first, then all is laid out, and at last the divider's dialog is told    *)
PutBar(L, w, size) ==
  LET h == L.node[w].rect.h IN
  IF ~Shown(L, w) THEN L ELSE Resized(L, w, Rect(0, IF w = "status" THEN 0 ELSE size.h - h, size.w, h), FALSE)
ProcessSystemBarChange(L, size) == PutBar(PutBar(L, "status", size), "navigation", size)
FloatsOn(L, w) == Shown(L, w) /\ L.node[IF w \in WlSubs THEN WlParent[w] ELSE w].mode = "floating"
IntoDisplay(L) ==
  [L EXCEPT !.node = [w \in Windows |->
     IF w \in Apps /\ FloatsOn(L, w)
     THEN [L.node[w] EXCEPT !.req = LimitWindowToBottomRightCorner(@, Display(L))] ELSE L.node[w]]]
ProcessDisplaySizeChangeOrRotation(size) ==
  /\ size # wlLay.size /\ Called
  /\ wlLay' = LayoutWindowTree(Launch([IntoDisplay(ProcessSystemBarChange(wlLay, size)) EXCEPT !.size = size]))
  /\ wlResizes' = IF Shown(wlLay, "divider")
                  THEN Append(wlResizes, [w |-> wlLay'.divider.w, h |-> wlLay'.divider.h]) ELSE wlResizes
  /\ UNCHANGED wlBackup
(* DividerWindow::Update, and the divider's ResizeRect that comes of it *)
ResizeDivider ==
  LET n == wlLay.node["divider"] IN
  /\ wlResizes # <<>> /\ wlResizes' = Tail(wlResizes)
  /\ wlLay' = IF n.shown THEN Resized(wlLay, "divider", Rect(n.rect.x, n.rect.y, Head(wlResizes).w, Head(wlResizes).h), FALSE)
              ELSE wlLay
  /\ UNCHANGED <<wlBackup, wlCalls>>
SetVirtualPixelRatio(vpr) ==
  /\ vpr # wlLay.vpr /\ Called
  /\ wlLay' = LayoutWindowTree([wlLay EXCEPT !.vpr = vpr])
  /\ UNCHANGED <<wlResizes, wlBackup>>

(* SwitchLayoutPolicy(CASCADE, reorder): one step per window that fits *)
Fitting(L) == {m \in WlMains : Shown(L, m) /\ IsRectSatisfiedWithSizeLimits(L.cascade, LimitsOf(L, m))}
Stepped(L) == LET f[i \in Nat] == IF i = 0 THEN L.cascade ELSE StepCascadeRect(f[i - 1], L.limit, Title(L)) IN f
Reorder ==
  /\ Called
  /\ \E place \in [Fitting(wlLay) -> 0..(Cardinality(Fitting(wlLay)) - 1)] :
       /\ \A m, u \in Fitting(wlLay) : place[m] = place[u] => m = u
       /\ wlLay' = LayoutWindowTree([wlLay EXCEPT !.node =
            [w \in Windows |-> IF w \in Fitting(wlLay)
                               THEN [@[w] EXCEPT !.req = Stepped(wlLay)[place[w]], !.deco = TRUE, !.mode = "floating"]
                               ELSE @[w]]])
  /\ UNCHANGED <<wlResizes, wlBackup>>
(* BackUpAllAppWindows and RestoreAllAppWindows *)
BackUpDivider == /\ Shown(wlLay, "divider") /\ Called /\ wlBackup' = wlLay.node["divider"].rect
                 /\ UNCHANGED <<wlLay, wlResizes>>
RestoreDivider == /\ wlBackup # None /\ Called
                  /\ wlLay' = [wlLay EXCEPT !.restore = wlBackup] /\ wlBackup' = None /\ UNCHANGED wlResizes

(* the calls for some of the windows *)
WlNextOf(ws) ==
  \/ \E w \in ws : AddWindowNode(w) \/ RemoveWindowNode(w)
  \/ \E w \in ws \cap Apps : Request(w) \/ DragTo(w)
  \/ \E w \in ws \cap WlMains : SetWindowModeOf(w)
  \/ "divider" \in ws /\ (MoveDivider \/ ReleaseDivider \/ ResizeDivider \/ BackUpDivider \/ RestoreDivider)
  \/ \E size \in WlSizes : ProcessDisplaySizeChangeOrRotation(size)
  \/ \E vpr \in WlRatios : SetVirtualPixelRatio(vpr)
  \/ Reorder
WlNext == WlNextOf(Windows)
WlSpec == WlInit /\ [][WlNext]_wlVars

(* ---- properties ---- *)

(* The displays have room: with bar no less than any bar and gap no less than the divider
   is thick, each side of a display has place for two bars and the divider, and so has
   what is behind each point the divider snaps to; gap and the least window are smaller
   than the largest. And the displays differ in width, also where a bar cannot get wider
   than the largest window: a bar as wide as the display was asked for for that display. *)
RoomBy(bar, gap) ==
  /\ \A t \in WlThick : t <= bar
  /\ \A vpr \in WlRatios :
       LET most == Scaled(WlMax, vpr) IN
       /\ Scaled(WlDivide, vpr) <= gap /\ gap < most
       /\ \A n \in {WlMin.w, WlMin.h} : 0 < Scaled(n, vpr) /\ Scaled(n, vpr) < most
       /\ \A s, t \in WlSizes : Lesser(most, s.w) = t.w => s = t
  /\ \A s \in WlSizes : \A side \in {s.w, s.h} :
       /\ 2 * gap <= side /\ 2 * bar + gap <= side
       /\ \A p \in WlSnaps : 100 * gap <= (100 - p) * (side - 2 * bar)
WlRoom == \E bar \in WlThick \cup {0}, vpr \in WlRatios : RoomBy(bar, Scaled(WlDivide, vpr))

HalvesOf(L) == {L.primary, L.secondary}
(* The two halves and what is between them make up the display, and neither has less
   than nothing (their sizes are unsigned): wherever the divider was dragged, or put
   back by a snapshot of another orientation, whatever turned meanwhile.            *)
WlHalvesTile ==
  LET L == wlLay
      gap == IF Vertical(L.size) THEN L.divider.h ELSE L.divider.w IN
  /\ \A half \in HalvesOf(L) : half.w >= 0 /\ half.h >= 0 /\ half.x >= 0 /\ half.y >= 0
  /\ IF Vertical(L.size)
     THEN /\ \A half \in HalvesOf(L) : half.x = 0 /\ half.w = L.size.w
          /\ L.primary.y = 0 /\ L.secondary.y = L.primary.h + gap /\ Bottom(L.secondary) = L.size.h
     ELSE /\ \A half \in HalvesOf(L) : half.y = 0 /\ half.h = L.size.h
          /\ L.primary.x = 0 /\ L.secondary.x = L.primary.w + gap /\ Right(L.secondary) = L.size.w

(* the bars that cover a whole edge of the display as it is *)
BarsOn(L) == {b \in Bars : Shown(L, b) /\ L.node[b].rect.w = L.size.w}
GapInside(L) == IF Vertical(L.size) THEN L.limit.y <= L.primary.h /\ L.secondary.y <= Bottom(L.limit)
                                    ELSE L.limit.x <= L.primary.w /\ L.secondary.x <= Right(L.limit)
Held(r, L) == /\ L.limit.y <= r.y /\ r.y + Title(L) <= Bottom(L.limit)
              /\ r.x + Title(L) <= Right(L.limit) /\ L.limit.x < Right(r)
ClearOf(m, L) ==
  LET n == L.node[m] IN
  /\ n.rect.w >= 0 /\ n.rect.h >= 0
  /\ \A b \in BarsOn(L) : Apart(n.rect, L.node[b].rect)
  /\ n.mode = "primary" => Apart(n.rect, L.secondary)
  /\ n.mode = "secondary" => Apart(n.rect, L.primary)
(* A window that avoids the bars and does not float is laid clear of each of them and
   of the other half. *)
WlClear(L) ==
  \A m \in WlMains \cap WlAvoid :
    Shown(L, m) /\ L.node[m].mode # "floating" /\ (Split(L, m) => GapInside(L)) => ClearOf(m, L)
(* The title bar of a main window that floats, by which one takes hold of it, is not
   under a bar nor off the display. *)
WlHeld(L) == \A m \in WlMains : Shown(L, m) /\ L.node[m].mode = "floating" => Held(L.node[m].rect, L)
(* Windows are clear of the bars and of the other half, and floating ones can be taken
   hold of: unless recents ended the layout before it came to the applications.     *)
WlKeepsClear == wlLay.skipped \/ (WlClear(wlLay) /\ WlHeld(wlLay))
(* the part of it that depends on no size being large enough *)
WlFixedClear == wlLay.skipped \/ WlClear(wlLay)
=============================================================================
