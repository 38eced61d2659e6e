---------------------------- MODULE ScreenGroups ----------------------------
(***************************************************************************)
(* What the display manager does with its screens, its groups of screens   *)
(* and its displays while it holds its lock: the private methods of        *)
(* AbstractScreenController, AbstractScreenGroup, and the callbacks of     *)
(* AbstractDisplayController that they call, under the same lock.          *)
(*                                                                         *)
(* The part of the state s used here, besides that of ScreenIds:           *)
(*   screens   dmsScreenMap_ without the groups: the screen's rsId_, its   *)
(*             groupDmsId_ and its rsDisplayNode_                          *)
(*   groups    the AbstractScreenGroup objects: combination_,              *)
(*             mirrorScreenId_, abstractScreenMap_, and whether the group  *)
(*             is in dmsScreenGroupMap_ (and dmsScreenMap_)                *)
(*   displays  abstractDisplayMap_: the screen and the group of a display  *)
(*   nextDisplay  displayCount_                                            *)
(*   defaultRs    defaultRsScreenId_                                       *)
(*   tasks     the queue of controllerHandler_                             *)
(*   fault     a null pointer was dereferenced                             *)
(* Modes, sizes, offsets and rotations are left out, and so are the calls  *)
(* into the window manager a display event ends in.                        *)
(***************************************************************************)
EXTENDS ScreenIds, Sequences, FiniteSetsExt

VARIABLE rs  \* the render service: the physical screens connected, the default one,
             \* and the events it has sent and nobody has received yet

IsVirtual(s, id) == s.screens[id].rs \in Virtual

(* A node shows its own content, or the content of the node of another     *)
(* screen, which may be gone.                                              *)
NoNode   == -1
OwnNode  == -2
DeadNode == -3

Live(s) == {g \in DOMAIN s.groups : s.groups[g].mapped}

(* GetAbstractScreenGroup(screen->groupDmsId_).                            *)
GroupOf(s, id) == IF id \in DOMAIN s.screens /\ s.screens[id].group \in Live(s)
                  THEN s.screens[id].group ELSE NoScreen

CheckScreenInScreenGroup(s, id) ==
    GroupOf(s, id) # NoScreen /\ id \in s.groups[GroupOf(s, id)].kids

GetRSDisplayNode(s, id) == IF id \in DOMAIN s.screens THEN s.screens[id].node ELSE NoNode

PostTask(s, op, x) == [s EXCEPT !.tasks = Append(@, [op |-> op, of |-> x])]

(* insert into dmsScreenMap_ and NotifyScreenConnected.                    *)
InsertScreen(s, id, r) ==
    PostTask([s EXCEPT !.screens =
                 Put(@, id, [rs |-> r, group |-> NoScreen, node |-> NoNode])], "tellConnect", id)

(* A screen of which the render service has no mode any more fails to be   *)
(* filled; the id it was given is used up.                                 *)
InitKeepingId(s, r) ==
    IF r \in rs.real THEN InsertScreen(CreateScreenId(s, r), s.count, r) ELSE CreateScreenId(s, r)
InitAndGetScreen(s, r) ==
    LET created == CreateScreenId(s, r) IN
    IF r \in rs.real THEN InsertScreen(created, s.count, r)
                     ELSE DeleteScreenId(created, s.count)

-----------------------------------------------------------------------------
(* AbstractScreenGroup, and the first screen of a group.                   *)
AttachChild(s, g, id, node) ==
    [s EXCEPT !.groups[g].kids   = @ \cup {id},
              !.screens[id].group = g,
              !.screens[id].node  = node]

AddAsFirstScreen(s, id) ==
    LET g == s.count
        created == CreateScreenId(s, NoRs)
    IN  AttachChild([created EXCEPT !.groups =
            Put(@, g, [mode |-> "MIRROR", mirror |-> id, kids |-> {}, mapped |-> TRUE])],
            g, id, OwnNode)

(* RemoveChild, and the group leaves both maps with its last child.  The   *)
(* nodes that mirror the node that goes have nothing to show.              *)
RemoveKeepingGroup(s, g, id) ==
    [s EXCEPT !.groups[g].kids = @ \ {id}, !.screens[id].node = NoNode,
              !.groups[g].mapped = @ /\ s.groups[g].kids # {id}]
RemoveChildFromGroup(s, g, id) ==
    [s EXCEPT !.groups[g].kids   = @ \ {id},
              !.groups[g].mapped = @ /\ s.groups[g].kids # {id},
              !.screens = [x \in DOMAIN @ |->
                  IF x = id THEN [@[x] EXCEPT !.group = NoScreen, !.node = NoNode]
                  ELSE [s.screens[x] EXCEPT !.node = IF @ = id THEN DeadNode ELSE @]]]

RemoveFromGroup(s, id) ==
    IF GroupOf(s, id) = NoScreen THEN s ELSE RemoveChildFromGroup(s, GroupOf(s, id), id)

-----------------------------------------------------------------------------
(* GetDefaultAbstractScreenId.  A default screen nobody has heard of is    *)
(* connected on the spot: it makes the first group and gets a display, or, *)
(* when there is a group already, it stays out of it, because the screen   *)
(* whose group it should join is the default screen itself.  The id that   *)
(* is returned in that case is invalid, the one-argument                   *)
(* ConvertToDmsScreenId looking up its own result.                         *)
CreateDisplay(s, id) ==
    [s EXCEPT !.displays    = Put(@, s.nextDisplay, [screen |-> id, group |-> s.screens[id].group]),
              !.nextDisplay = @ + 1]

ConnectDefault(s) ==
    LET t == InitAndGetScreen(s, s.defaultRs) IN
    IF s.defaultRs \in rs.real /\ Live(s) = {}
    THEN CreateDisplay(AddAsFirstScreen(t, s.count), s.count)
    ELSE t

AskDefault(s) == [s EXCEPT !.defaultRs = IF @ = NoRs THEN rs.default ELSE @]

DefaultScreen(s) == ToDmsScreenId(s, AskDefault(s).defaultRs)
WithDefault(s) ==
    LET t == AskDefault(s) IN
    IF t.defaultRs = NoRs \/ HasRsScreenId(t, t.defaultRs) THEN t ELSE ConnectDefault(t)

-----------------------------------------------------------------------------
(* GetRSDisplayNodeConfig and AddChild.  A child of a mirror group takes   *)
(* its content from the main screen of the group, or from the default      *)
(* screen when the main one is not in the group.                           *)
NeedsSource(s, g, id) ==
    /\ s.groups[g].mode = "MIRROR"
    /\ s.groups[g].kids # {}
    /\ s.groups[g].mirror # id

ChooseSource(s, g) ==
    IF s.groups[g].mirror \in s.groups[g].kids THEN s
    ELSE [WithDefault(s) EXCEPT !.groups[g].mirror = DefaultScreen(s)]

AddChild(s, g, id) ==
    IF id \in s.groups[g].kids THEN s
    ELSE IF ~NeedsSource(s, g, id) THEN AttachChild(s, g, id, OwnNode)
    ELSE LET t == ChooseSource(s, g) IN
         IF GetRSDisplayNode(t, t.groups[g].mirror) = NoNode THEN t
         ELSE AttachChild(t, g, id, t.groups[g].mirror)

(* AddToGroupLocked: a later screen joins the group of the default screen. *)
JoinedGroup(s) == IF Live(s) = {} THEN s.count ELSE GroupOf(WithDefault(s), DefaultScreen(s))
AddToGroup(s, id) ==
    IF Live(s) = {} THEN AddAsFirstScreen(s, id)
    ELSE LET t == WithDefault(s)
             g == GroupOf(t, DefaultScreen(s))
         IN  IF g = NoScreen THEN t ELSE AddChild(t, g, id)

-----------------------------------------------------------------------------
(* AbstractDisplayController.                                              *)
DisplaysOn(s, id) == {d \in DOMAIN s.displays : s.displays[d].screen = id}

(* A first screen that is not the default one gets no display.             *)
BindAloneScreen(s, id) ==
    IF DefaultScreen(s) = id THEN CreateDisplay(WithDefault(s), id) ELSE WithDefault(s)

AddRealToExpand(s, id) ==
    IF DisplaysOn(s, id) # {} \/ IsVirtual(s, id) THEN s ELSE CreateDisplay(WithDefault(s), id)
AddScreenToExpand(s, id) ==
    IF DisplaysOn(s, id) # {} THEN s
    ELSE IF IsVirtual(s, id) /\ DefaultScreen(s) \notin DOMAIN s.screens THEN WithDefault(s)
    ELSE CreateDisplay(WithDefault(s), id)

OnScreenConnect(s, id) ==
    LET g == GroupOf(s, id) IN
    IF g = NoScreen THEN s
    ELSE IF s.groups[g].kids = {id} THEN BindAloneScreen(s, id)
    ELSE IF s.groups[g].mode = "EXPAND" THEN AddScreenToExpand(s, id)
    ELSE s

(* In a mirror group the display moves to the default screen; nothing      *)
(* destroys it, the screen being still in its group.  The group of the     *)
(* default screen is dereferenced unchecked.                               *)
NormalDisconnect(s, id) ==
    LET t == WithDefault(s)
        d == DefaultScreen(s)
    IN  IF DisplaysOn(t, id) = {} \/ d \notin DOMAIN t.screens THEN t
        ELSE IF GroupOf(t, d) = NoScreen THEN [t EXCEPT !.fault = TRUE]
        ELSE [t EXCEPT !.displays = [x \in DOMAIN @ |->
                 IF x = Min(DisplaysOn(t, id)) THEN [@[x] EXCEPT !.screen = d] ELSE @[x]]]

(* In an expand group the display is destroyed.  The nodes of the screens  *)
(* of all other displays are dereferenced unchecked.                       *)
ExpandKeepingDisplay(s, id) ==
    IF DisplaysOn(s, id) = {} THEN s ELSE WithDefault(s)
ExpandDisconnect(s, id) ==
    IF \E d \in DOMAIN s.displays \ DisplaysOn(s, id) :
           GetRSDisplayNode(s, s.displays[d].screen) = NoNode
    THEN [s EXCEPT !.fault = TRUE]
    ELSE IF DisplaysOn(s, id) = {} THEN s
    ELSE [WithDefault(s) EXCEPT !.displays = Without(@, Max(DisplaysOn(s, id)))]

OnScreenDisconnect(s, id) ==
    IF s.groups[GroupOf(s, id)].mode = "MIRROR" THEN NormalDisconnect(s, id)
    ELSE ExpandDisconnect(s, id)

(* A screen leaves its group: the displays hear of it first.               *)
LeaveGroup(s, id) ==
    RemoveFromGroup(IF CheckScreenInScreenGroup(s, id) THEN OnScreenDisconnect(s, id) ELSE s, id)

-----------------------------------------------------------------------------
ProcessScreenConnected(s, r) ==
    IF HasRsScreenId(s, r) THEN s
    ELSE LET id == s.count
             t  == InitAndGetScreen(s, r)
         IN  IF r \notin rs.real THEN t
             ELSE IF JoinedGroup(t) = NoScreen THEN AddToGroup(t, id)
             ELSE OnScreenConnect(AddToGroup(t, id), id)

(* NotifyScreenDisconnected and the erasure from dmsScreenMap_.            *)
EraseSilently(s, id) == [s EXCEPT !.screens = Without(@, id)]
EraseScreen(s, id) ==
    PostTask([s EXCEPT !.screens = Without(@, id)], "tellDisconnect", id)

(* The screen that goes was the source of a mirror group others are in.    *)
LosesSource(s, id) ==
    LET g == GroupOf(s, id)
        t == LeaveGroup(s, id)
    IN  /\ CheckScreenInScreenGroup(s, id)
        /\ g \in Live(t)
        /\ t.groups[g].mode = "MIRROR"
        /\ t.groups[g].mirror = id
=============================================================================
