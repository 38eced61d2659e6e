------------------------------ MODULE LayoutRects ------------------------------
(* The arithmetic of the layout policies on rectangles and size limits. A rectangle
   has its left top corner, its width and its height; a virtual pixel ratio is in
   tenths. A size that the code's unsigned arithmetic would wrap is negative here. *)
EXTENDS Integers

CONSTANTS WlTitle,   \* WINDOW_TITLE_BAR_HEIGHT
          WlFrame,   \* WINDOW_FRAME_WIDTH
          WlDivide,  \* DIVIDER_WIDTH
          WlMin,     \* MIN_VERTICAL_FLOATING_WIDTH and _HEIGHT
          WlMax,     \* MAX_FLOATING_SIZE
          WlSmall,   \* 600, of a small display
          WlSnaps    \* splitRatios, in hundredths
WlScale == 10
ASSUME WlSizesAssumption ==
  /\ WlTitle \in Nat /\ WlFrame \in Nat /\ WlDivide \in Nat \ {0} /\ WlMax \in Nat /\ WlSmall \in Nat
  /\ WlMin \in [w : Nat \ {0}, h : Nat \ {0}] /\ WlSnaps \subseteq 1..99

Rect(x, y, w, h) == [x |-> x, y |-> y, w |-> w, h |-> h]
EmptyRect == Rect(0, 0, 0, 0)
Right(r)  == r.x + r.w
Bottom(r) == r.y + r.h
Lesser(a, b)  == IF a <= b THEN a ELSE b
Greater(a, b) == IF a <= b THEN b ELSE a
Scaled(size, vpr) == (size * vpr) \div WlScale
Vertical(display) == display.w < display.h
IsLandscapeRect(r) == r.w > r.h
Apart(a, b) == Right(a) <= b.x \/ Right(b) <= a.x \/ Bottom(a) <= b.y \/ Bottom(b) <= a.y

(* a quotient is <<n, d>>, d >= 0; <<1, 0>> is larger than all *)
AtMost(p, q) == p[1] * q[2] <= q[1] * p[2]
Times(n, q) == (n * q[1]) \div q[2]
Over(n, q)  == (n * q[2]) \div q[1]

(* ---- the halves of a split display ---- *)

InitDivider(display, vpr) ==
  LET width == Scaled(WlDivide, vpr) IN
  IF Vertical(display) THEN Rect(0, (display.h - width) \div 2, display.w, width)
                       ELSE Rect((display.w - width) \div 2, 0, width, display.h)
PrimaryOf(div, display) == IF Vertical(display) THEN Rect(display.x, display.y, display.w, div.y)
                                                ELSE Rect(display.x, display.y, div.x, display.h)
SecondaryOf(div, display) ==
  IF Vertical(display) THEN Rect(display.x, Bottom(div), display.w, display.h - Bottom(div))
                       ELSE Rect(Right(div), display.y, display.w - Right(div), display.h)
(* not the code: the size is not reduced by what the corner was moved *)
WithinUnreduced(limit, half) ==
  Rect(Greater(limit.x, half.x), Greater(limit.y, half.y),
       Lesser(Right(limit), Right(half)) - half.x, Lesser(Bottom(limit), Bottom(half)) - half.y)
(* UpdateSplitLimitRect *)
Within(limit, half) ==
  LET x == Greater(limit.x, half.x)
      y == Greater(limit.y, half.y) IN
  Rect(x, y, Lesser(Right(limit), Right(half)) - x, Lesser(Bottom(limit), Bottom(half)) - y)
GetSplitRatioPoint(percent, display, limit, div) ==
  IF Vertical(display) THEN limit.y + ((limit.h - div.h) * percent) \div 100
                       ELSE limit.x + ((limit.w - div.w) * percent) \div 100
(* not the code: the far edge may stand on the limit, whatever the divider's width *)
LimitDividerCorner(r, limit) ==
  IF r.w < r.h THEN [r EXCEPT !.x = Lesser(Right(limit), Greater(limit.x, @))]
               ELSE [r EXCEPT !.y = Lesser(Bottom(limit), Greater(limit.y, @))]
LimitDividerMoveBounds(r, limit) ==
  IF r.w < r.h
  THEN [r EXCEPT !.x = IF @ < limit.x THEN limit.x
                       ELSE IF @ + r.w > Right(limit) THEN Right(limit) - r.w ELSE @]
  ELSE [r EXCEPT !.y = IF @ < limit.y THEN limit.y
                       ELSE IF @ + r.h > Bottom(limit) THEN Bottom(limit) - r.h ELSE @]
Distance(a, b) == IF a > b THEN a - b ELSE b - a
(* the point of points that is nearest to origin, the first of two *)
UpdateDockSlicePosition(origin, points, limit) ==
  LET near == {p \in points : Distance(origin, p) < Greater(limit.w, limit.h)} IN
  IF near = {} THEN origin
  ELSE CHOOSE p \in near : \A q \in near : \/ Distance(origin, p) < Distance(origin, q)
                                           \/ Distance(origin, p) = Distance(origin, q) /\ p <= q

(* ---- what the bars and the dock leave ---- *)

GetAvoidPosType(r, display) == CASE r.w = display.w -> IF r.y = 0 THEN "top" ELSE "bottom"
                                 [] r.w # display.w /\ r.h = display.h -> IF r.x = 0 THEN "left" ELSE "right"
                                 [] OTHER -> "unknown"
NotBelowZero(n) == Greater(0, n)
UpdateLimitRect(bar, limit, display) ==
  LET at == GetAvoidPosType(bar, display)
      x == IF at = "left" THEN Right(bar) ELSE limit.x
      y == IF at = "top" THEN Bottom(bar) ELSE limit.y
      right  == IF at = "right" THEN bar.x ELSE Right(limit)
      bottom == IF at = "bottom" THEN bar.y ELSE Bottom(limit) IN
  Rect(x, y, NotBelowZero(right - x), NotBelowZero(bottom - y))
GetDockWindowShowState(dock, display) ==
  CASE dock.h < dock.w -> IF Bottom(dock) = display.h THEN "bottom" ELSE "none"
    [] OTHER -> IF dock.x = 0 THEN "left" ELSE IF Right(dock) = display.w THEN "right" ELSE "none"

(* ---- the size of a floating window ---- *)

(* GetSystemSizeLimits; the camera's window has limits of its own *)
CameraPercent(display, tablet) == IF display.w <= display.h THEN (IF tablet THEN 12 ELSE 30)
                                                            ELSE (IF tablet THEN 30 ELSE 50)
CameraWidth(display, vpr, small) ==
  (small * CameraPercent(display, small > Scaled(WlSmall, vpr))) \div 100
SystemMinWidth(kind, display, vpr) ==
  IF kind = "camera" THEN CameraWidth(display, vpr, Lesser(display.w, display.h))
  ELSE Scaled(IF IsLandscapeRect(display) THEN WlMin.h ELSE WlMin.w, vpr)
SystemMinHeight(kind, display, vpr) ==
  IF kind = "camera" THEN (CameraWidth(display, vpr, Lesser(display.w, display.h)) * display.h) \div display.w
  ELSE Scaled(IF IsLandscapeRect(display) THEN WlMin.w ELSE WlMin.h, vpr)
GetSystemSizeLimits(kind, display, vpr) ==
  [maxW |-> Scaled(WlMax, vpr), minW |-> SystemMinWidth(kind, display, vpr),
   maxH |-> Scaled(WlMax, vpr), minH |-> SystemMinHeight(kind, display, vpr)]
(* UpdateWindowSizeLimits: what the application configured counts where it is within
   what the system allows; first the sizes, then the ratios, then the sizes that
   these ratios leave.                                                            *)
Allowed(low, n, high, otherwise) == IF low <= n /\ n <= high THEN n ELSE otherwise
AllowedRatio(low, q, high, otherwise) == IF AtMost(low, q) /\ AtMost(q, high) THEN q ELSE otherwise
MaxSizes(sys, c, vpr) ==
  [sys EXCEPT !.maxW = Allowed(sys.minW, Scaled(c.maxW, vpr), @, @), !.maxH = Allowed(sys.minH, Scaled(c.maxH, vpr), @, @)]
MinSizes(lim, c, vpr) ==
  [lim EXCEPT !.minW = Allowed(@, Scaled(c.minW, vpr), lim.maxW, @), !.minH = Allowed(@, Scaled(c.minH, vpr), lim.maxH, @)]
MaxRatio(lim, c) == AllowedRatio(<<lim.minW, lim.maxH>>, c.maxR, <<lim.maxW, lim.minH>>, <<lim.maxW, lim.minH>>)
WithRatios(lim, c, maxR) ==
  [maxW |-> lim.maxW, minW |-> lim.minW, maxH |-> lim.maxH, minH |-> lim.minH, maxR |-> maxR,
   minR |-> AllowedRatio(<<lim.minW, lim.maxH>>, c.minR, maxR, <<lim.minW, lim.maxH>>)]
WidthsByRatio(lim)  == [lim EXCEPT !.maxW = Lesser(Times(lim.maxH, lim.maxR), @), !.minW = Greater(Times(lim.minH, lim.minR), @)]
HeightsByRatio(lim) == [lim EXCEPT !.maxH = Lesser(Over(lim.maxW, lim.minR), @), !.minH = Greater(Over(lim.minW, lim.maxR), @)]
AddRatios(lim, c) == WithRatios(lim, c, MaxRatio(lim, c))
SizeLimits(kind, custom, display, vpr) ==
  HeightsByRatio(WidthsByRatio(AddRatios(
    MinSizes(MaxSizes(GetSystemSizeLimits(kind, display, vpr), custom, vpr), custom, vpr), custom)))
FixedWidth(lim)  == lim.maxW = lim.minW
FixedHeight(lim) == lim.maxH = lim.minH
RatioOf(r) == <<r.w, r.h>>
RatioAllowed(r, lim) == AtMost(lim.minR, RatioOf(r)) /\ AtMost(RatioOf(r), lim.maxR)
NewRatio(r, lim) == IF ~AtMost(lim.minR, RatioOf(r)) THEN lim.minR ELSE lim.maxR
IsRectSatisfiedWithSizeLimits(r, lim) ==
  /\ r.h # 0 /\ RatioAllowed(r, lim)
  /\ lim.minW <= r.w /\ r.w <= lim.maxW /\ lim.minH <= r.h /\ r.h <= lim.maxH

Clamped(kind, r, lim) ==
  LET floor == kind \in {"main", "sub", "camera"} IN
  [r EXCEPT !.w = Lesser(lim.maxW, IF floor THEN Greater(lim.minW, @) ELSE @),
            !.h = Lesser(lim.maxH, IF floor THEN Greater(lim.minH, @) ELSE @)]
(* by its width, unless only its height can be changed or is what is dragged *)
ByRatio(r, lim, tall) ==
  LET ratio == NewRatio(r, lim) IN
  IF ~FixedWidth(lim) /\ (FixedHeight(lim) \/ tall)
  THEN [r EXCEPT !.w = Times(r.h, ratio)] ELSE [r EXCEPT !.h = Over(r.w, ratio)]
InRatio(mainFloat, tall, c, lim) ==
  CASE FixedWidth(lim) /\ FixedHeight(lim) -> [c EXCEPT !.w = lim.maxW, !.h = lim.maxH]
    [] ~(FixedWidth(lim) /\ FixedHeight(lim)) /\ mainFloat /\ ~RatioAllowed(c, lim) -> ByRatio(c, lim, tall)
    [] OTHER -> c
UpdateFloatingWindowSizeBySizeLimits(kind, mode, tall, r, lim) ==
  InRatio(kind = "main" /\ mode = "floating", tall, Clamped(kind, r, lim), lim)
(* what was dragged stays where it was on the other side *)
KeepFarSide(r, before, last, dragged) ==
  [r EXCEPT !.x = IF dragged /\ before.x # last.x THEN Right(before) - r.w ELSE before.x,
            !.y = IF dragged /\ before.y # last.y THEN Bottom(before) - r.h ELSE before.y]
UpdateFloatingLayoutRect(limit, r) ==
  LET w == Lesser(limit.w, r.w)
      h == Lesser(limit.h, r.h) IN
  Rect(Lesser(Right(limit) - w, Greater(limit.x, r.x)), Lesser(Bottom(limit) - h, Greater(limit.y, r.y)), w, h)

(* ---- where a main floating window may be ---- *)

(* the least right edge, and the bounds of the left top corner, while it is dragged *)
DragBounds(limit, dockAt, dock, title) ==
  [right |-> title + IF dockAt = "left" THEN Right(dock) ELSE limit.x,
   x     |-> (IF dockAt = "right" THEN dock.x ELSE Right(limit)) - title,
   top   |-> limit.y,
   y     |-> (IF dockAt = "bottom" THEN dock.y ELSE Bottom(limit)) - title]
LimitWindowPositionWhenDrag(r, last, b) ==
  LET wide == r.w # last.w
      high == r.h # last.h
      w == IF Right(r) < b.right /\ wide THEN b.right - r.x ELSE r.w
      y == Lesser(b.y, Greater(b.top, r.y)) IN
  Rect(Lesser(b.x, r.x), y,
       IF r.x > b.x /\ wide THEN Right(r) - b.x ELSE w,
       IF y # r.y /\ high THEN Bottom(r) - y ELSE r.h)
FixWindowSizeByRatioIfDragBeyondLimitRegion(r, lim, b) ==
  LET ratio == NewRatio(r, lim)
      side  == Right(r) = b.right \/ r.x = b.x
      above == r.y = b.top \/ r.x = b.x
      s == IF side THEN [r EXCEPT !.h = Over(r.w, ratio)] ELSE r IN
  IF \/ FixedWidth(lim) /\ FixedHeight(lim)
     \/ r.h = 0
     \/ RatioAllowed(r, lim)
     \/ side /\ FixedHeight(lim)
  THEN r
  ELSE IF above /\ ~FixedWidth(lim) THEN [s EXCEPT !.w = Times(s.h, ratio)] ELSE s
LimitWindowPositionWhenInitRectOrMove(r, limit, dockAt, dock, title) ==
  LET y1 == Lesser(Bottom(limit) - title, Greater(limit.y, r.y))
      x1 == Greater(limit.x + title - r.w, r.x)
      x2 == IF dockAt = "left" THEN Greater(dock.w + title - r.w, x1) ELSE x1
      x3 == Lesser(Right(limit) - title, x2) IN
  [r EXCEPT !.x = IF dockAt = "right" THEN Lesser(dock.x - title, x3) ELSE x3,
            !.y = IF dockAt = "bottom" THEN Lesser(dock.y - title, y1) ELSE y1]

(* ---- where a new window is put ---- *)

(* InitCascadeRect *)
FirstCascadeRect(display, limit) ==
  LET w == (display.w * 66) \div 100
      h == (display.h * 66) \div 100 IN
  IF w <= limit.w /\ h <= limit.h
  THEN Rect(limit.x + limit.w \div 2 - w \div 2, limit.y + limit.h \div 2 - h \div 2, w, h)
  ELSE Rect(0, 0, w, h)
StepCascadeRect(r, limit, title) ==
  [r EXCEPT !.x = IF @ + title >= limit.x /\ Right(r) + title <= Right(limit) THEN @ + title ELSE limit.x,
            !.y = IF @ + title >= limit.y /\ Bottom(r) + title <= Bottom(limit) THEN @ + title ELSE limit.y]
LimitWindowToBottomRightCorner(r, display) ==
  LET w == Lesser(r.w, display.w)
      h == Lesser(r.h, display.h) IN
  Rect(Lesser(Right(display) - w, Greater(r.x, display.x)), Lesser(Bottom(display) - h, Greater(r.y, display.y)), w, h)
=============================================================================
