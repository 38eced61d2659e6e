----------------------------- MODULE WindowTree -----------------------------
(***************************************************************************)
(* The window tree of one display: three roots, the main and system        *)
(* windows below them, the sub windows and dialogs below their main window *)
(* (window_node_container.cpp, window_zorder_policy.h).                    *)
(*                                                                         *)
(* As in WindowPair, a method is an operator from a state s to the state   *)
(* it leaves.  The part of s the tree operators read and write:            *)
(*   kids, parent    children_ and parent_                                 *)
(*   prio            priority_                                             *)
(*   requested, visible   requestedVisibility_ and currentVisibility_      *)
(*   focus, active   focusedWindow_ and activeWindow_                      *)
(*   locked          isScreenLocked_, true while the keyguard is shown     *)
(* No window of this model is split, so the calls into WindowPair change   *)
(* nothing; there is no divider.                                           *)
(***************************************************************************)
EXTENDS Integers, SequencesExt

CONSTANTS Windows,
          Null,           \* the null pointer, and the id no window has
          Type,           \* Type[w] is the WindowType of w
          Caller,         \* the window parentId or the dialog target token names
          ShowWhenLocked, \* the windows with WINDOW_FLAG_SHOW_WHEN_LOCKED
          Focusable       \* the windows that may have the focus

Roots == {"BELOW", "APP", "ABOVE"}

(* windowPriorityMap_.                                                     *)
PriorityMap ==
    [MEDIA |-> -1, APP_SUB_WINDOW |-> 1, APP_MAIN_WINDOW |-> 0, WALLPAPER |-> 0,
     DESKTOP |-> 1, DIALOG |-> 1, INPUT_METHOD_FLOAT |-> 107, FLOAT |-> 108,
     STATUS_BAR |-> 110, NAVIGATION_BAR |-> 113, KEYGUARD |-> 114]
Types == DOMAIN PriorityMap

IsMainWindow(w)   == Type[w] = "APP_MAIN_WINDOW"
IsSubWindow(w)    == Type[w] \in {"APP_SUB_WINDOW", "MEDIA"}
IsAppWindow(w)    == IsMainWindow(w) \/ IsSubWindow(w)
IsSystemWindow(w) == ~IsAppWindow(w)
HasCaller(w)      == IsSubWindow(w) \/ Type[w] = "DIALOG"

(* The flag can be set only before a window is first shown (AddWindowFlag).*)
ASSUME TreeAssumption ==
    /\ IsFiniteSet(Windows) /\ Null \notin Windows
    /\ Roots \cap (Windows \cup {Null}) = {}
    /\ Type \in [Windows -> Types]
    /\ Caller \in [Windows -> Windows \cup {Null}]
    /\ \A w \in Windows : IF HasCaller(w) THEN Caller[w] # Null /\ IsMainWindow(Caller[w])
                                          ELSE Caller[w] = Null
    /\ ShowWhenLocked \subseteq {w \in Windows : IsMainWindow(w)}
    /\ Focusable \subseteq Windows

FindRoot(w) ==
    IF IsAppWindow(w) \/ Type[w] = "DIALOG" THEN "APP"
    ELSE IF Type[w] \in {"WALLPAPER", "DESKTOP"} THEN "BELOW" ELSE "ABOVE"

-----------------------------------------------------------------------------
(* The members of seq that are in the set, in their order.                 *)
Only(seq, set) ==
    LET kept[n \in 0 .. Len(seq)] ==
          IF n = 0 THEN <<>>
          ELSE IF seq[n] \in set THEN Append(kept[n - 1], seq[n]) ELSE kept[n - 1]
    IN  kept[Len(seq)]

(* The z order, lowest first: the roots in order, and in each the children *)
(* of a window around it by the sign of their priority.                    *)
WithKids(s, w) ==
    LET below == {c \in Windows : s.prio[c] < 0}
    IN  Only(s.kids[w], below) \o <<w>> \o Only(s.kids[w], Windows \ below)

BottomToTop(s) ==
    LET All(r) == FlattenSeq([i \in DOMAIN s.kids[r] |-> WithKids(s, s.kids[r][i])])
    IN  All("BELOW") \o All("APP") \o All("ABOVE")

InTree(s, w) == w \in ToSet(BottomToTop(s))

(* The first after w that is one of the set.                               *)
NextIn(order, w, set) ==
    LET at   == SelectInSeq(order, LAMBDA x : x = w)
        next == SelectInSubSeq(order, at + 1, Len(order), LAMBDA x : x \in set)
    IN  IF at = 0 \/ next = 0 THEN Null ELSE order[next]

NextBelow(s, w, set) == NextIn(Reverse(BottomToTop(s)), w, set)

GetNextFocusableWindow(s, w) ==
    NextBelow(s, w, {x \in Focusable : s.visible[x]})

(* After a system window comes the lowest application window, after an     *)
(* application window the next visible one.                                *)
GetNextActiveWindow(s, w) ==
    IF ~InTree(s, w) THEN Null
    ELSE IF IsAppWindow(w) THEN NextBelow(s, w, {x \in Windows : s.visible[x]})
    ELSE IF s.kids["APP"] # <<>> THEN Head(s.kids["APP"])
    ELSE LET i == SelectInSeq(s.kids["BELOW"], LAMBDA x : Type[x] = "DESKTOP")
         IN  IF i = 0 THEN Null ELSE s.kids["BELOW"][i]

-----------------------------------------------------------------------------
(* Insertion among the children of p, before the first one with a larger   *)
(* priority.                                                               *)
FirstLargerOrEqual(s, p, k) == SelectInSeq(s.kids[p], LAMBDA x : s.prio[x] >= k)
FirstLarger(s, p, k) == SelectInSeq(s.kids[p], LAMBDA x : s.prio[x] > k)

InsertByPriority(s, p, ws, k) ==
    LET kids == s.kids[p]
        cut  == IF FirstLarger(s, p, k) = 0 THEN Len(kids) ELSE FirstLarger(s, p, k) - 1
    IN  [s EXCEPT !.kids[p] = SubSeq(kids, 1, cut) \o ws \o SubSeq(kids, cut + 1, Len(kids))]

Flagged(w) == w \in ShowWhenLocked

(* Move every show-when-locked window over the keyguard, or back.          *)
RehomeKeepingParent(s, ws, p, k) ==
    [s EXCEPT !.prio = [w \in Windows |-> IF w \in ws THEN k ELSE @[w]]]
RehomeKeepingPriority(s, ws, p, k) ==
    [s EXCEPT !.parent = [w \in Windows |-> IF w \in ws THEN p ELSE @[w]]]
Rehome(s, ws, p, k) ==
    [s EXCEPT !.prio   = [w \in Windows |-> IF w \in ws THEN k ELSE @[w]],
              !.parent = [w \in Windows |-> IF w \in ws THEN p ELSE @[w]]]

ReZOrderShowWhenLockedWindows(s, up) ==
    LET src   == IF up THEN "APP" ELSE "ABOVE"
        dst   == IF up THEN "ABOVE" ELSE "APP"
        k     == IF up THEN PriorityMap.KEYGUARD + 1 ELSE PriorityMap.APP_MAIN_WINDOW
        moved == Only(s.kids[src], ShowWhenLocked)
        t     == [s EXCEPT !.kids[src] = Only(@, Windows \ ShowWhenLocked)]
    IN  Rehome(InsertByPriority(t, dst, moved, k), ToSet(moved), dst, k)

NeverRaised(s, w)  == FALSE
AlwaysRaised(s, w) == s.locked
RaisedOverKeyguard(s, w) == Flagged(w) /\ s.locked

(* UpdateWindowTree puts a window that has a parent among its siblings.    *)
(* On a locked screen the input method and the show-when-locked windows    *)
(* are raised over the keyguard.                                           *)
UpdateWindowTree(s, w) ==
    LET raised == RaisedOverKeyguard(s, w)
        k == IF raised THEN PriorityMap.KEYGUARD + 1
             ELSE IF Type[w] = "INPUT_METHOD_FLOAT" /\ s.locked THEN PriorityMap.KEYGUARD + 2
             ELSE PriorityMap[Type[w]]
        t == IF Type[w] = "KEYGUARD" THEN ReZOrderShowWhenLockedWindows(s, TRUE) ELSE s
        u == [t EXCEPT !.prio[w] = k, !.parent[w] = IF raised THEN "ABOVE" ELSE @]
    IN  InsertByPriority(u, u.parent[w], <<w>>, k)

-----------------------------------------------------------------------------
(* Only a window whose caller is among the application windows, or is shown*)
(* over the keyguard, may be added below it.                               *)
Admissible(s, w, p) ==
    p # Null => \/ s.parent[p] = FindRoot(w)
                \/ Flagged(p) /\ s.parent[p] = "ABOVE"

AddWindowNodeOnWindowTree(s, w, p) ==
    LET t == IF p # Null
               THEN [s EXCEPT !.visible[w] = s.visible[p], !.parent[w] = p]
               ELSE [s EXCEPT !.parent[w] = FindRoot(w),
                              !.visible = [x \in Windows |->
                                 IF x = w THEN TRUE
                                 ELSE IF x \in ToSet(s.kids[w]) THEN s.requested[x] ELSE @[x]]]
    IN  UpdateWindowTree([t EXCEPT !.requested[w] = TRUE], w)

(* WindowNodeContainer::RemoveWindowNode.  The window's own children stay  *)
(* its children, with the visibility they had.                             *)
RemoveButNotErase(s, w) ==
    [s EXCEPT !.parent[w] = Null, !.requested[w] = FALSE, !.visible[w] = FALSE,
              !.locked = @ /\ Type[w] # "KEYGUARD"]
RemoveFromContainer(s, w) ==
    LET t == IF s.parent[w] = Null THEN s
             ELSE [s EXCEPT !.kids[s.parent[w]] = RemoveFirst(@, w)]
    IN  [t EXCEPT !.parent[w] = Null, !.requested[w] = FALSE, !.visible[w] = FALSE,
                  !.locked = @ /\ Type[w] # "KEYGUARD"]

-----------------------------------------------------------------------------
IsTopWindow(s, w, root) ==
    /\ s.kids[root] # <<>>
    /\ LET top == Last(s.kids[root])
           sub == s.kids[top]
       IN  w = IF sub # <<>> /\ s.prio[Last(sub)] > 0 THEN Last(sub) ELSE top

RaiseWindowToTop(s, w, p) ==
    IF w \in ToSet(s.kids[p])
      THEN UpdateWindowTree([s EXCEPT !.kids[p] = RemoveFirst(@, w)], w)
      ELSE s

(* A sub window is raised among its siblings, then its main window.  The   *)
(* code follows parent_ of the main window without a check.                *)
RaiseZOrderForAppWindow(s, w, p) ==
    IF IsTopWindow(s, w, "APP") \/ IsTopWindow(s, w, "ABOVE") THEN s
    ELSE IF IsMainWindow(w) THEN RaiseWindowToTop(s, w, s.parent[w])
    ELSE IF HasCaller(w) /\ p # Null
      THEN LET t == RaiseWindowToTop(s, w, p)
           IN  RaiseWindowToTop(t, p, t.parent[p])
    ELSE s

(* The dereference that has no check.                                      *)
RaiseFaults(s, w, p) ==
    /\ ~IsTopWindow(s, w, "APP") /\ ~IsTopWindow(s, w, "ABOVE")
    /\ HasCaller(w) /\ p # Null /\ s.parent[p] = Null
=============================================================================
