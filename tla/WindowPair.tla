----------------------------- MODULE WindowPair -----------------------------
(***************************************************************************)
(* The split-screen pair of one display (window_pair.cpp): which window is *)
(* on the primary side, which on the secondary side, which window is the   *)
(* divider between them, and the status derived from them.                 *)
(*                                                                         *)
(* A method of the class is an operator from a state s to the state it     *)
(* leaves.  s is a record of what the methods read and write:              *)
(*   primary, secondary, divider   the members (NoNode for a null pointer) *)
(*   status                        status_                                 *)
(*   restoring                     isAllSplitAppWindowsRestoring_          *)
(*   mode, lastMode                mode_ and lastMode_ of every window     *)
(*   inner                         the tasks posted to WindowInnerManager  *)
(*   list, asked                   the MinimizeApp list, and the           *)
(*                                 applications already handed over        *)
(***************************************************************************)
EXTENDS Sequences, MinimizeApp

CONSTANTS Apps,         \* main windows of applications
          Docks,        \* divider windows, shown by the UI service
          PlaceHolder,  \* the inner window that holds the free side
          NoNode,       \* the null pointer
          Supported     \* Supported[n]: the modes modeSupportInfo_ of n allows

Nodes == Apps \cup Docks \cup {PlaceHolder}

SplitModes == {"PRIMARY", "SECONDARY"}
Modes      == {"FULLSCREEN", "FLOATING"} \cup SplitModes

(* The divider and the placeholder are created with every mode supported;  *)
(* an application that supports one side supports the other                *)
(* (ConvertSupportModesToSupportInfo).                                     *)
ASSUME PairAssumption ==
    /\ NoNode \notin Nodes
    /\ PlaceHolder \notin Apps \cup Docks
    /\ Apps \cap Docks = {}
    /\ Supported \in [Nodes -> SUBSET Modes]
    /\ \A n \in Nodes : /\ Supported[n] # {}
                        /\ "PRIMARY" \in Supported[n] <=> "SECONDARY" \in Supported[n]
    /\ \A n \in Docks \cup {PlaceHolder} : Supported[n] = Modes

Statuses == {"EMPTY", "SINGLE_PRIMARY", "SINGLE_SECONDARY", "PAIRING", "PAIRED_DONE"}

OtherSide(m) == IF m = "PRIMARY" THEN "SECONDARY" ELSE "PRIMARY"

(* The tasks posted to the inner window thread.                            *)
CreateHolder(m) == [op |-> "CREATE_HOLDER", mode |-> m]
DestroyHolder   == [op |-> "DESTROY_HOLDER", mode |-> "FLOATING"]
CreateDivider   == [op |-> "CREATE_DIVIDER", mode |-> "FLOATING"]
DestroyDivider  == [op |-> "DESTROY_DIVIDER", mode |-> "FLOATING"]
Tasks == {CreateHolder(m) : m \in SplitModes} \cup {DestroyHolder, CreateDivider, DestroyDivider}

PairStates ==
    [primary : Nodes \cup {NoNode}, secondary : Nodes \cup {NoNode},
     divider : Nodes \cup {NoNode}, status : Statuses, restoring : BOOLEAN,
     mode : [Nodes -> Modes], lastMode : [Nodes -> Modes],
     inner : Seq(Tasks), list : SUBSET (Nodes \X Reasons), asked : SUBSET Nodes]

Post(s, task) == [s EXCEPT !.inner = Append(@, task)]

Members(s) == {s.primary, s.secondary, s.divider} \ {NoNode}
Find(s, n) == n \in Members(s)

IsSplitRelated(s, n) == s.mode[n] \in SplitModes \/ n \in Docks

IsPaired(s) ==
    /\ s.primary # NoNode /\ s.secondary # NoNode /\ s.divider # NoNode
    /\ s.mode[s.primary] = "PRIMARY"
    /\ s.mode[s.secondary] = "SECONDARY"

-----------------------------------------------------------------------------
(* WindowProperty: a mode that is not supported is ignored, and the mode   *)
(* to come back to is the last one that was not a split mode.              *)
SetWindowMode(s, n, m) ==
    IF m \notin Supported[n] THEN s
    ELSE [s EXCEPT !.mode[n] = m,
                   !.lastMode[n] = IF s.mode[n] \in SplitModes THEN @ ELSE s.mode[n]]

(* The lowest bit of the support mask.                                     *)
ModeFromSupportInfo(n) ==
    IF "FULLSCREEN" \in Supported[n] THEN "FULLSCREEN"
    ELSE IF "FLOATING" \in Supported[n] THEN "FLOATING" ELSE "PRIMARY"

ResumeLastWindowMode(s, n) ==
    IF s.lastMode[n] \in Supported[n] THEN [s EXCEPT !.mode[n] = s.lastMode[n]]
    ELSE IF ModeFromSupportInfo(n) \in SplitModes THEN s
    ELSE [s EXCEPT !.mode[n] = ModeFromSupportInfo(n)]

-----------------------------------------------------------------------------
(* ExecuteMinimizeAll and ExecuteMinimizeTargetReason.  A window with no   *)
(* ability token (the placeholder) is skipped by the inner thread.         *)
ExecuteMinimizeAll(s) ==
    [s EXCEPT !.asked = @ \cup (NeedMinimizeAppNodes(s.list) \cap Apps), !.list = {}]

MinimizeForQuit(s, n) ==
    LET list == AddNeedMinimizeApp(s.list, {n}, "SPLIT_QUIT", TRUE)
    IN  [s EXCEPT !.asked = @ \cup (NodesWithReason(list, "SPLIT_QUIT") \cap Apps),
                  !.list = ClearNodesWithReason(list, "SPLIT_QUIT")]

(* What Clear does with the window of one side: one that can only be split *)
(* is minimized, any other goes back to its last mode.                     *)
LeaveSplitNotMinimized(s, n) == IF n = NoNode THEN s ELSE ResumeLastWindowMode(s, n)
LeaveSplit(s, n) ==
    IF n = NoNode THEN s
    ELSE IF Supported[n] = SplitModes THEN MinimizeForQuit(s, n)
    ELSE ResumeLastWindowMode(s, n)

Clear(s) ==
    LET t == LeaveSplit(LeaveSplit(s, s.primary), s.secondary)
        u == [t EXCEPT !.primary = NoNode, !.secondary = NoNode,
                       !.divider = NoNode, !.status = "EMPTY"]
    IN  IF s.divider = NoNode THEN u ELSE Post(u, DestroyDivider)

StatusOf(s) ==
    IF s.primary # NoNode /\ s.secondary # NoNode
      THEN IF s.divider # NoNode THEN "PAIRED_DONE" ELSE "PAIRING"
    ELSE IF s.primary # NoNode THEN "SINGLE_PRIMARY"
    ELSE IF s.secondary # NoNode THEN "SINGLE_SECONDARY"
    ELSE "EMPTY"

UpdateStatusNotCleared(s) ==
    LET t == [s EXCEPT !.status = StatusOf(s)]
    IN  IF s.status \notin {"PAIRED_DONE", "PAIRING"} /\ t.status = "PAIRING"
          THEN Post(t, CreateDivider) ELSE t
UpdateStatusDividerOnce(s) ==
    LET t == [s EXCEPT !.status = StatusOf(s)]
        two == {"PAIRED_DONE", "PAIRING"}
    IN  IF s.status = "EMPTY" /\ t.status = "PAIRING" THEN Post(t, CreateDivider)
        ELSE IF s.status \in two /\ t.status \notin two THEN Clear(t) ELSE t
UpdateWindowPairStatus(s) ==
    LET t == [s EXCEPT !.status = StatusOf(s)]
        two == {"PAIRED_DONE", "PAIRING"}
    IN  IF s.status \notin two /\ t.status = "PAIRING" THEN Post(t, CreateDivider)
        ELSE IF s.status \in two /\ t.status \notin two THEN Clear(t)
        ELSE t

(* Both sides ask for the same mode: the one that did not just change      *)
(* moves to the other side.                                                *)
SwitchPositionKeepingModes(s) == [s EXCEPT !.primary = s.secondary, !.secondary = s.primary]
SwitchPosition(s) ==
    LET moved == IF s.mode[s.primary] = "PRIMARY"
                   THEN SetWindowMode(s, s.primary, "SECONDARY")
                   ELSE SetWindowMode(s, s.secondary, "PRIMARY")
    IN  IF s.mode[s.primary] \in SplitModes
          THEN [moved EXCEPT !.primary = s.secondary, !.secondary = s.primary]
          ELSE s

HandlePairedNodesChange(s) ==
    LET Split(n) == IF n # NoNode /\ s.mode[n] \in SplitModes THEN n ELSE NoNode
        t == [s EXCEPT !.primary = Split(s.primary), !.secondary = Split(s.secondary)]
        swapped == [t EXCEPT !.primary = t.secondary, !.secondary = t.primary]
    IN  UpdateWindowPairStatus(
          IF \/ t.secondary = NoNode /\ t.primary # NoNode /\ t.mode[t.primary] = "SECONDARY"
             \/ t.primary = NoNode /\ t.secondary # NoNode /\ t.mode[t.secondary] = "PRIMARY"
            THEN swapped
          ELSE IF /\ t.primary # NoNode /\ t.secondary # NoNode
                  /\ t.mode[t.primary] = t.mode[t.secondary]
            THEN SwitchPosition(t)
          ELSE t)

(* A window that takes the place of an application has it minimized.       *)
Insert(s, n) ==
    LET paired == IF s.mode[n] = "PRIMARY" THEN s.primary
                  ELSE IF s.mode[n] = "SECONDARY" THEN s.secondary
                  ELSE IF n \in Docks THEN s.divider ELSE NoNode
        t == IF s.mode[n] = "PRIMARY" THEN [s EXCEPT !.primary = n]
             ELSE IF s.mode[n] = "SECONDARY" THEN [s EXCEPT !.secondary = n]
             ELSE IF n \in Docks THEN [s EXCEPT !.divider = n] ELSE s
    IN  UpdateWindowPairStatus(
          [t EXCEPT !.list = AddNeedMinimizeApp(@, {paired} \cap Apps, "SPLIT_REPLACE", TRUE)])

SideTaken(s, m) ==
    \/ s.primary # NoNode /\ s.mode[s.primary] = m
    \/ s.secondary # NoNode /\ s.mode[s.secondary] = m

UpdateIfSplitRelated(s, n) ==
    IF ~Find(s, n) /\ ~IsSplitRelated(s, n) THEN s
    ELSE IF n = PlaceHolder /\ SideTaken(s, s.mode[n]) THEN Post(s, DestroyHolder)
    ELSE IF s.status = "EMPTY"
      THEN IF s.restoring THEN Insert(s, n)
           ELSE Post(Insert(s, n), CreateHolder(OtherSide(s.mode[n])))
    ELSE IF Find(s, n) THEN HandlePairedNodesChange(s)
    ELSE Insert(s, n)

(* The window left the tree: out of the pair it takes its last mode back,  *)
(* in the pair it dissolves it.                                            *)
HandleRemoveOfOthers(s, n) ==
    IF s.mode[n] \in SplitModes THEN ResumeLastWindowMode(s, n) ELSE s
HandleRemoveWindow(s, n) ==
    IF Find(s, n) THEN Clear(s)
    ELSE IF s.mode[n] \in SplitModes THEN ResumeLastWindowMode(s, n)
    ELSE s

(* The divider was dropped in an exit area: the smaller side is minimized. *)
ExitSplitMode(s, small) == IF IsPaired(s) THEN MinimizeForQuit(s, small) ELSE s
=============================================================================
