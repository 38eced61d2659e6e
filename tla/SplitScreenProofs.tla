------------------------- MODULE SplitScreenProofs --------------------------
(***************************************************************************)
(* The safety invariants of SplitScreen, for any applications, any number  *)
(* of divider dialogs and any bound on the pending tasks.  First, what     *)
(* every method of WindowPair keeps, for any windows: the status and the   *)
(* sides of the pair stay consistent.  Then each action of SplitScreen is  *)
(* shown to call the methods in states that meet their assumptions.        *)
(***************************************************************************)
EXTENDS SplitScreen, TLAPS

(* Modes are supported, the mode to come back to is never a split one, and *)
(* a divider is never in a split mode.                                     *)
ModesOK(s) ==
    /\ s \in PairStates
    /\ \A n \in Nodes : s.mode[n] \in Supported[n] /\ s.lastMode[n] \notin SplitModes
    /\ \A d \in Docks : s.mode[d] \notin SplitModes

(* The sides are as PairConsistent asks, except for the mode of n, which   *)
(* may just have changed.                                                  *)
PlacesOK(s) ==
    /\ {s.primary, s.secondary} \cap Docks = {}
    /\ s.divider \in Docks \cup {NoNode}
    /\ s.primary = s.secondary => s.primary = NoNode
SidesOKBut(s, n) ==
    /\ PlacesOK(s)
    /\ s.primary \notin {NoNode, n} => s.mode[s.primary] = "PRIMARY"
    /\ s.secondary \notin {NoNode, n} => s.mode[s.secondary] = "SECONDARY"
SidesOK(s) == SidesOKBut(s, NoNode)
PairOK(s) == ModesOK(s) /\ SidesOK(s) /\ s.status = StatusOf(s)

(* The applications that are minimized, or will be when the list is        *)
(* executed; and those in a split mode that nobody takes out of it.        *)
Told(s) == (NeedMinimizeAppNodes(s.list) \cup s.asked) \cap Apps
Stray(s) == {a \in Apps : s.mode[a] \in SplitModes /\ ~Find(s, a) /\ a \notin Told(s)}

(* What the methods guarantee: a consistent pair, no new member, no new    *)
(* stray; and for those that take a window n, that n may join the pair and *)
(* is no stray.                                                            *)
Keeps(s, t) == PairOK(t) /\ Members(t) \subseteq Members(s) /\ Stray(t) \subseteq Stray(s)
KeepsWith(s, t, n) ==
    PairOK(t) /\ Members(t) \subseteq Members(s) \cup {n} /\ Stray(t) \subseteq Stray(s) \ {n}

(* One step of the abstract sides of SplitSides: nothing, both sides given *)
(* up, the two switched, or one of them taken.                             *)
SameSides(s, t) == t.primary = s.primary /\ t.secondary = s.secondary
NoSides(t) == t.primary = NoNode /\ t.secondary = NoNode
SidesStep(s, t) ==
    \/ SameSides(s, t) \/ NoSides(t)
    \/ t.primary = s.secondary /\ t.secondary = s.primary
    \/ t.primary \in Nodes \ (Docks \cup {s.secondary}) /\ t.secondary = s.secondary
    \/ t.secondary \in Nodes \ (Docks \cup {s.primary}) /\ t.primary = s.primary

(* Agreement on all but the modes, the tasks and the restoring flag.       *)
SameMembers(s, t) ==
    /\ t.primary = s.primary /\ t.secondary = s.secondary /\ t.divider = s.divider
    /\ t.status = s.status /\ t.list = s.list /\ t.asked = s.asked

(* Agreement on all but the lists, the tasks and the restoring flag.       *)
SamePair(s, t) ==
    /\ t \in PairStates
    /\ t.primary = s.primary /\ t.secondary = s.secondary /\ t.divider = s.divider
    /\ t.status = s.status /\ t.mode = s.mode /\ t.lastMode = s.lastMode

-----------------------------------------------------------------------------
(* The fallback mode is one the window supports.                           *)
LEMMA FallbackSupported ==
    ASSUME NEW n \in Nodes
    PROVE  ModeFromSupportInfo(n) \in Supported[n] /\ Supported[n] \subseteq Modes
BY PairAssumption DEF ModeFromSupportInfo, Modes, SplitModes

(* SetWindowMode and ResumeLastWindowMode keep ModesOK and touch the mode  *)
(* of one window only.                                                     *)
LEMMA SetWindowModeOK ==
    ASSUME NEW s, ModesOK(s), NEW n \in Nodes \ Docks, NEW m \in Modes
    PROVE  LET t == SetWindowMode(s, n, m)
           IN  /\ ModesOK(t)
               /\ SameMembers(s, t)
               /\ \A x \in Nodes : x # n => t.mode[x] = s.mode[x]
               /\ t.mode[n] = IF m \in Supported[n] THEN m ELSE s.mode[n]
<1> DEFINE t == [s EXCEPT !.mode[n] = m,
                          !.lastMode[n] = IF s.mode[n] \in SplitModes THEN @ ELSE s.mode[n]]
<1>1. CASE m \notin Supported[n]
  BY <1>1 DEF SetWindowMode, SameMembers
<1>2. CASE m \in Supported[n]
  <2>1. s \in PairStates /\ n \in Nodes
    BY DEF ModesOK
  <2>2. t \in PairStates
    BY <2>1 DEF PairStates
  <2>3. SetWindowMode(s, n, m) = t
    BY <1>2 DEF SetWindowMode
  <2>4. t.mode[n] = m /\ \A x \in Nodes : x # n => t.mode[x] = s.mode[x]
    BY <2>1 DEF PairStates
  <2>5. \A x \in Nodes : t.lastMode[x] \notin SplitModes
    BY <2>1 DEF PairStates, ModesOK
  <2>6. SameMembers(s, t)
    BY <2>1 DEF PairStates, SameMembers
  <2>7. ModesOK(t)
    BY <2>2, <2>4, <2>5, <1>2 DEF ModesOK, Nodes
  <2> QED BY <2>3, <2>4, <2>6, <2>7, <1>2
<1> QED BY <1>1, <1>2

LEMMA ResumeLastWindowModeOK ==
    ASSUME NEW s, ModesOK(s), NEW n \in Nodes
    PROVE  LET t == ResumeLastWindowMode(s, n)
           IN  /\ ModesOK(t)
               /\ SameMembers(s, t)
               /\ \A x \in Nodes : x # n => t.mode[x] = s.mode[x]
               /\ Supported[n] # SplitModes => t.mode[n] \notin SplitModes
<1>1. s \in PairStates
  BY DEF ModesOK
<1>2. ASSUME NEW m \in Supported[n], m \notin SplitModes
      PROVE  LET t == [s EXCEPT !.mode[n] = m]
             IN  /\ ModesOK(t) /\ SameMembers(s, t)
                 /\ \A x \in Nodes : x # n => t.mode[x] = s.mode[x]
                 /\ t.mode[n] = m
  BY <1>1, <1>2, FallbackSupported DEF ModesOK, PairStates, Nodes, SameMembers
<1>3. SameMembers(s, s)
  BY DEF SameMembers
<1>4. Supported[n] # SplitModes => ModeFromSupportInfo(n) \notin SplitModes
  BY PairAssumption DEF ModeFromSupportInfo, Modes, SplitModes
<1>5. CASE s.lastMode[n] \in Supported[n]
  BY <1>2, <1>5 DEF ResumeLastWindowMode, ModesOK
<1>6. CASE s.lastMode[n] \notin Supported[n] /\ ModeFromSupportInfo(n) \in SplitModes
  BY <1>3, <1>4, <1>6 DEF ResumeLastWindowMode
<1>7. CASE s.lastMode[n] \notin Supported[n] /\ ModeFromSupportInfo(n) \notin SplitModes
  BY <1>2, <1>7, FallbackSupported DEF ResumeLastWindowMode
<1> QED BY <1>5, <1>6, <1>7

-----------------------------------------------------------------------------
(* What only changes the lists, the tasks or the flag keeps the pair.      *)
LEMMA SamePairOK ==
    ASSUME NEW s, ModesOK(s), NEW t, SamePair(s, t)
    PROVE  /\ ModesOK(t)
           /\ PlacesOK(s) => PlacesOK(t)
           /\ \A n : SidesOKBut(s, n) => SidesOKBut(t, n)
           /\ s.status = StatusOf(s) => t.status = StatusOf(t)
           /\ Members(t) = Members(s)
           /\ Told(s) \subseteq Told(t) => Stray(t) \subseteq Stray(s)
<1>1. ModesOK(t)
  BY DEF ModesOK, SamePair
<1>2. Members(t) = Members(s)
  BY DEF Members, SamePair
<1>3. s.status = StatusOf(s) => t.status = StatusOf(t)
  BY DEF StatusOf, SamePair
<1>4. Told(s) \subseteq Told(t) => Stray(t) \subseteq Stray(s)
  BY <1>2 DEF Stray, Find, SamePair
<1>5. \A n : SidesOKBut(s, n) => SidesOKBut(t, n)
  BY DEF SidesOKBut, PlacesOK, SamePair
<1>6. PlacesOK(s) => PlacesOK(t)
  BY DEF PlacesOK, SamePair
<1> QED BY <1>1, <1>2, <1>3, <1>4, <1>5, <1>6

(* Posting a task, minimizing what is listed, minimizing one window.       *)
LEMMA PostOK ==
    ASSUME NEW s \in PairStates, NEW task \in Tasks
    PROVE  LET t == Post(s, task) IN SamePair(s, t) /\ Told(t) = Told(s) /\ t.list = s.list
<1>1. s.inner \in Seq(Tasks) /\ Append(s.inner, task) \in Seq(Tasks)
  BY DEF PairStates
<1>2. [s EXCEPT !.inner = Append(s.inner, task)] \in PairStates
  BY <1>1 DEF PairStates
<1> QED BY <1>2 DEF Post, SamePair, PairStates, Told

LEMMA ExecuteMinimizeAllOK ==
    ASSUME NEW s \in PairStates
    PROVE  LET t == ExecuteMinimizeAll(s)
           IN  SamePair(s, t) /\ Told(t) = Told(s) /\ t.list = {}
BY DEF ExecuteMinimizeAll, SamePair, PairStates, Told, NeedMinimizeAppNodes, Nodes

LEMMA MinimizeForQuitOK ==
    ASSUME NEW s \in PairStates, NEW n \in Nodes
    PROVE  LET t == MinimizeForQuit(s, n)
           IN  /\ SamePair(s, t) /\ Told(s) \cup ({n} \cap Apps) \subseteq Told(t)
               /\ s.list = {} => t.list = {}
<1> DEFINE list == AddNeedMinimizeApp(s.list, {n}, "SPLIT_QUIT", TRUE)
           t == MinimizeForQuit(s, n)
<1>1. /\ \A e \in list : e \in s.list \/ (e[1] = n /\ e[2] = "SPLIT_QUIT")
      /\ \E e \in list : e[1] = n /\ e[2] = "SPLIT_QUIT"
      /\ s.list \subseteq list
  <2> DEFINE e0 == <<n, "SPLIT_QUIT">>
  <2>1. list = s.list \cup {e0}
    BY DEF AddNeedMinimizeApp
  <2>2. e0[1] = n /\ e0[2] = "SPLIT_QUIT"
    OBVIOUS
  <2> HIDE DEF e0, list
  <2> QED BY <2>1, <2>2
<1>2. /\ t = [s EXCEPT !.asked = t.asked, !.list = t.list]
      /\ t.asked = s.asked \cup (NodesWithReason(list, "SPLIT_QUIT") \cap Apps)
      /\ t.list = {e \in list : e[2] # "SPLIT_QUIT"}
  BY DEF MinimizeForQuit, PairStates, ClearNodesWithReason
<1> HIDE DEF list, t
<1>3. t.list \subseteq Nodes \X Reasons /\ t.asked \subseteq Nodes
  BY <1>1, <1>2 DEF PairStates, Nodes, Reasons
<1>4. SamePair(s, t)
  BY <1>2, <1>3 DEF SamePair, PairStates
<1>5. Told(s) \cup ({n} \cap Apps) \subseteq Told(t)
  <2>1. n \in Apps => n \in t.asked
    BY <1>1, <1>2 DEF NodesWithReason
  <2>2. ASSUME NEW a \in Apps, a \in NeedMinimizeAppNodes(s.list)
        PROVE  a \in NeedMinimizeAppNodes(t.list) \cup t.asked
    <3>1. PICK e \in s.list : e[1] = a
      BY <2>2 DEF NeedMinimizeAppNodes
    <3>2. CASE e[2] = "SPLIT_QUIT"
      BY <3>1, <3>2, <1>1, <1>2 DEF NodesWithReason
    <3>3. CASE e[2] # "SPLIT_QUIT"
      BY <3>1, <3>3, <1>1, <1>2 DEF NeedMinimizeAppNodes
    <3> QED BY <3>2, <3>3
  <2> QED BY <2>1, <2>2, <1>2 DEF Told
<1>6. s.list = {} => t.list = {}
  BY <1>1, <1>2
<1> QED BY <1>4, <1>5, <1>6 DEF t

-----------------------------------------------------------------------------
(* Leaving split screen: afterwards the window has no split mode or is     *)
(* minimized, and no other window's mode changed.                          *)
LEMMA LeaveSplitOK ==
    ASSUME NEW s, ModesOK(s), NEW n \in (Nodes \ Docks) \cup {NoNode}
    PROVE  LET t == LeaveSplit(s, n)
           IN  /\ ModesOK(t)
               /\ t.primary = s.primary /\ t.secondary = s.secondary /\ t.divider = s.divider
               /\ \A x \in Nodes : x # n => t.mode[x] = s.mode[x]
               /\ n \in Apps => t.mode[n] \notin SplitModes \/ n \in Told(t)
               /\ Told(s) \subseteq Told(t)
               /\ s.list = {} => t.list = {}
<1> DEFINE t == LeaveSplit(s, n)
<1>1. CASE n = NoNode
  BY <1>1, PairAssumption DEF LeaveSplit, Nodes
<1>2. CASE n # NoNode /\ Supported[n] = SplitModes
  <2>1. SamePair(s, t) /\ Told(s) \cup ({n} \cap Apps) \subseteq Told(t) /\ (s.list = {} => t.list = {})
    BY <1>2, MinimizeForQuitOK DEF LeaveSplit, ModesOK
  <2> QED BY <2>1, SamePairOK DEF SamePair
<1>3. CASE n # NoNode /\ Supported[n] # SplitModes
  <2>1. /\ ModesOK(t) /\ SameMembers(s, t)
        /\ \A x \in Nodes : x # n => t.mode[x] = s.mode[x]
        /\ t.mode[n] \notin SplitModes
    BY <1>3, ResumeLastWindowModeOK DEF LeaveSplit
  <2> QED BY <2>1 DEF Told, SameMembers
<1> QED BY <1>1, <1>2, <1>3

(* Clear leaves an empty pair and no new stray.                            *)
LEMMA ClearOK ==
    ASSUME NEW s, ModesOK(s), PlacesOK(s)
    PROVE  LET t == Clear(s)
           IN  /\ Keeps(s, t) /\ Members(t) = {} /\ t.status = "EMPTY" /\ NoSides(t)
               /\ s.list = {} => t.list = {}
<1> DEFINE p == LeaveSplit(s, s.primary)
           q == LeaveSplit(p, s.secondary)
           u == [q EXCEPT !.primary = NoNode, !.secondary = NoNode,
                          !.divider = NoNode, !.status = "EMPTY"]
           t == Clear(s)
<1>1. {s.primary, s.secondary} \subseteq (Nodes \ Docks) \cup {NoNode}
  BY DEF ModesOK, PlacesOK, PairStates
<1>2. /\ ModesOK(p) /\ p.secondary = s.secondary
      /\ \A x \in Nodes : x # s.primary => p.mode[x] = s.mode[x]
      /\ s.primary \in Apps => p.mode[s.primary] \notin SplitModes \/ s.primary \in Told(p)
      /\ Told(s) \subseteq Told(p)
      /\ s.list = {} => p.list = {}
  BY <1>1, LeaveSplitOK
<1>3. /\ ModesOK(q)
      /\ \A x \in Nodes : x # s.secondary => q.mode[x] = p.mode[x]
      /\ s.secondary \in Apps => q.mode[s.secondary] \notin SplitModes \/ s.secondary \in Told(q)
      /\ Told(p) \subseteq Told(q)
      /\ p.list = {} => q.list = {}
  BY <1>1, <1>2, LeaveSplitOK
<1> HIDE DEF p, q
<1>4. /\ u \in PairStates /\ u.mode = q.mode /\ u.lastMode = q.lastMode
      /\ u.list = q.list /\ u.asked = q.asked /\ u.status = "EMPTY"
      /\ u.primary = NoNode /\ u.secondary = NoNode /\ u.divider = NoNode
  BY <1>3 DEF ModesOK, PairStates, Statuses
<1> HIDE DEF u
<1>5. ModesOK(u) /\ PairOK(u) /\ Members(u) = {} /\ Told(u) = Told(q)
  BY <1>3, <1>4, PairAssumption
  DEF ModesOK, PairOK, SidesOK, SidesOKBut, PlacesOK, StatusOf, Members, Told, Nodes
<1>6. Stray(u) \subseteq Stray(s)
  <2> SUFFICES ASSUME NEW a \in Apps, a \in Stray(u)
               PROVE  a \in Stray(s)
    BY DEF Stray
  <2>1. a \in Nodes /\ a \notin Told(q) /\ q.mode[a] \in SplitModes
    BY <1>4, <1>5 DEF Stray, Nodes
  <2>2. a # s.secondary /\ a # s.primary
    BY <2>1, <1>2, <1>3
  <2>3. a # s.divider
    BY <2>1, PairAssumption DEF PlacesOK
  <2> QED BY <2>1, <2>2, <2>3, <1>2, <1>3 DEF Stray, Find, Members
<1>7. CASE s.divider = NoNode
  BY <1>2, <1>3, <1>4, <1>5, <1>6, <1>7 DEF Clear, Keeps, NoSides, u, q, p
<1>8. CASE s.divider # NoNode
  <2>1. t = Post(u, DestroyDivider)
    BY <1>8 DEF Clear, u, q, p
  <2>2. SamePair(u, t) /\ Told(t) = Told(u) /\ t.list = u.list
    BY <1>4, <2>1, PostOK DEF Tasks
  <2>3. Keeps(u, t) /\ Members(t) = {}
    BY <2>2, <1>5, SamePairOK DEF Keeps, PairOK, SidesOK
  <2> QED BY <2>2, <2>3, <1>2, <1>3, <1>4, <1>5, <1>6 DEF Keeps, SamePair, NoSides
<1> QED BY <1>7, <1>8

-----------------------------------------------------------------------------
(* Recomputing the status of consistent sides leaves them as they are or   *)
(* gives both up, and does the latter when one of two was lost.            *)
Two == {"PAIRED_DONE", "PAIRING"}
LEMMA UpdateWindowPairStatusOK ==
    ASSUME NEW s, ModesOK(s), SidesOK(s)
    PROVE  LET v == UpdateWindowPairStatus(s)
           IN  /\ Keeps(s, v)
               /\ NoSides(v) \/ (SameSides(s, v) /\ ~(s.status \in Two /\ StatusOf(s) \notin Two))
<1> DEFINE t == [s EXCEPT !.status = StatusOf(s)]
           v == UpdateWindowPairStatus(s)
<1>1. /\ t \in PairStates /\ t.mode = s.mode /\ t.lastMode = s.lastMode
      /\ t.list = s.list /\ t.asked = s.asked /\ t.status = StatusOf(s)
      /\ t.primary = s.primary /\ t.secondary = s.secondary /\ t.divider = s.divider
  <2>1. StatusOf(s) \in Statuses
    BY DEF StatusOf, Statuses
  <2> QED BY <2>1 DEF ModesOK, PairStates
<1>2. \/ v = Post(t, CreateDivider) /\ s.status \notin Two
      \/ v = Clear(t)
      \/ v = t /\ ~(s.status \in Two /\ t.status \notin Two)
  BY DEF UpdateWindowPairStatus, Two
<1> HIDE DEF t, v
<1>3. ModesOK(t) /\ SidesOK(t) /\ PlacesOK(t) /\ Told(t) = Told(s) /\ Members(t) = Members(s)
      /\ StatusOf(t) = StatusOf(s)
  BY <1>1 DEF ModesOK, SidesOK, SidesOKBut, PlacesOK, Told, Members, StatusOf
<1>4. Stray(t) = Stray(s)
  BY <1>1, <1>3 DEF Stray, Find
<1>5. Keeps(s, t)
  BY <1>1, <1>3, <1>4 DEF Keeps, PairOK
<1>6. CASE v = Post(t, CreateDivider) /\ s.status \notin Two
  <2>1. SamePair(t, v) /\ Told(v) = Told(t)
    BY <1>1, <1>6, PostOK DEF Tasks
  <2>2. Keeps(s, v)
    BY <2>1, <1>3, <1>4, <1>5, SamePairOK DEF Keeps, PairOK, SidesOK
  <2> QED BY <2>1, <2>2, <1>1, <1>6 DEF SamePair, SameSides, v
<1>7. CASE v = Clear(t)
  BY <1>3, <1>4, <1>7, ClearOK DEF Keeps, v
<1>8. CASE v = t /\ ~(s.status \in Two /\ t.status \notin Two)
  BY <1>1, <1>5, <1>8 DEF SameSides, v
<1> QED BY <1>2, <1>6, <1>7, <1>8

(* Two windows with the same split mode: after the switch each has the     *)
(* mode of the side it is on, and nobody left the pair.                    *)
LEMMA SwitchPositionOK ==
    ASSUME NEW s, ModesOK(s), PlacesOK(s), s.primary # NoNode, s.secondary # NoNode,
           s.mode[s.primary] = s.mode[s.secondary], s.mode[s.primary] \in SplitModes
    PROVE  LET t == SwitchPosition(s)
           IN  /\ ModesOK(t) /\ SidesOK(t) /\ Members(t) = Members(s) /\ Stray(t) = Stray(s)
               /\ t.primary = s.secondary /\ t.secondary = s.primary /\ t.status = s.status
<1> DEFINE x == IF s.mode[s.primary] = "PRIMARY" THEN s.primary ELSE s.secondary
           m == OtherSide(s.mode[s.primary])
           u == SetWindowMode(s, x, m)
           t == SwitchPosition(s)
<1>1. /\ s.primary \in Nodes \ Docks /\ s.secondary \in Nodes \ Docks
      /\ s.primary # s.secondary /\ x \in Nodes \ Docks /\ m \in SplitModes /\ m \in Modes
  BY DEF ModesOK, PairStates, PlacesOK, OtherSide, SplitModes, Modes
<1>2. m \in Supported[x]
  BY <1>1, PairAssumption DEF ModesOK, OtherSide, SplitModes
<1>3. t = [u EXCEPT !.primary = s.secondary, !.secondary = s.primary]
  BY DEF SwitchPosition, OtherSide, SplitModes
<1> HIDE DEF x, m
<1>4. /\ ModesOK(u) /\ SameMembers(s, u)
      /\ \A y \in Nodes : y # x => u.mode[y] = s.mode[y]
      /\ u.mode[x] = m
  BY <1>1, <1>2, SetWindowModeOK
<1> HIDE DEF u, t
<1>5. /\ t \in PairStates /\ t.primary = s.secondary /\ t.secondary = s.primary
      /\ t.divider = s.divider /\ t.mode = u.mode /\ t.lastMode = u.lastMode
      /\ t.list = s.list /\ t.asked = s.asked /\ t.status = s.status
  BY <1>1, <1>3, <1>4 DEF ModesOK, PairStates, SameMembers
<1>6. ModesOK(t)
  BY <1>4, <1>5 DEF ModesOK
<1>7. t.mode[t.primary] = "PRIMARY" /\ t.mode[t.secondary] = "SECONDARY"
  BY <1>1, <1>4, <1>5 DEF x, m, OtherSide, SplitModes
<1>8. SidesOK(t)
  BY <1>1, <1>5, <1>7 DEF SidesOK, SidesOKBut, PlacesOK
<1>9. Members(t) = Members(s) /\ Told(t) = Told(s)
  BY <1>5 DEF Members, Told
<1>10. Stray(t) = Stray(s)
  <2>1. Find(s, x)
    BY <1>1, PairAssumption DEF Find, Members, x
  <2> QED BY <2>1, <1>4, <1>5, <1>9 DEF Stray, Find, Nodes
<1> QED BY <1>5, <1>6, <1>8, <1>9, <1>10 DEF t

(* A member changed its mode: it leaves, stays, or the sides are switched. *)
LEMMA HandlePairedNodesChangeOK ==
    ASSUME NEW s, ModesOK(s), NEW n \in Nodes, SidesOKBut(s, n)
    PROVE  LET t == HandlePairedNodesChange(s)
           IN  Keeps(s, t) /\ (s.status = StatusOf(s) => SidesStep(s, t))
<1> DEFINE Split(x) == IF x # NoNode /\ s.mode[x] \in SplitModes THEN x ELSE NoNode
           t == [s EXCEPT !.primary = Split(s.primary), !.secondary = Split(s.secondary)]
           w == [t EXCEPT !.primary = t.secondary, !.secondary = t.primary]
           Lone == \/ t.secondary = NoNode /\ t.primary # NoNode /\ t.mode[t.primary] = "SECONDARY"
                   \/ t.primary = NoNode /\ t.secondary # NoNode /\ t.mode[t.secondary] = "PRIMARY"
           Same == /\ t.primary # NoNode /\ t.secondary # NoNode
                   /\ t.mode[t.primary] = t.mode[t.secondary]
           v == IF Lone THEN w ELSE IF Same THEN SwitchPosition(t) ELSE t
<1>1. HandlePairedNodesChange(s) = UpdateWindowPairStatus(v)
  BY DEF HandlePairedNodesChange
<1>2. /\ t \in PairStates /\ t.mode = s.mode /\ t.lastMode = s.lastMode
      /\ t.list = s.list /\ t.asked = s.asked /\ t.divider = s.divider
      /\ t.primary = Split(s.primary) /\ t.secondary = Split(s.secondary) /\ t.status = s.status
  <2>1. Split(s.primary) \in Nodes \cup {NoNode} /\ Split(s.secondary) \in Nodes \cup {NoNode}
    BY DEF ModesOK, PairStates
  <2> HIDE DEF Split
  <2> QED BY <2>1 DEF ModesOK, PairStates
<1>3. /\ w \in PairStates /\ w.mode = t.mode /\ w.lastMode = t.lastMode
      /\ w.list = t.list /\ w.asked = t.asked /\ w.divider = t.divider
      /\ w.primary = t.secondary /\ w.secondary = t.primary /\ w.status = t.status
  <2> HIDE DEF t
  <2> QED BY <1>2 DEF PairStates
<1> HIDE DEF t, w, v
<1>4. ModesOK(t) /\ PlacesOK(t)
  <2>1. ModesOK(t)
    BY <1>2 DEF ModesOK
  <2>2. /\ t.primary # NoNode => t.primary = s.primary
        /\ t.secondary # NoNode => t.secondary = s.secondary
    BY <1>2
  <2>3. PlacesOK(t)
    BY <1>2, <2>2, PairAssumption DEF SidesOKBut, PlacesOK, ModesOK, PairStates, Nodes
  <2> QED BY <2>1, <2>3
<1>5. Members(t) \subseteq Members(s) /\ Told(t) = Told(s)
  BY <1>2 DEF Members, Told
<1>6. Stray(t) \subseteq Stray(s)
  <2> SUFFICES ASSUME NEW a \in Apps, a \in Stray(t)  PROVE a \in Stray(s)
    BY DEF Stray
  <2>1. a # NoNode /\ s.mode[a] \in SplitModes /\ a \notin Members(t) /\ a \notin Told(s)
    BY <1>2, <1>5, PairAssumption DEF Stray, Find, Nodes
  <2>2. a # s.primary /\ a # s.secondary /\ a # s.divider
    BY <2>1, <1>2 DEF Members
  <2> QED BY <2>1, <2>2 DEF Stray, Find, Members
<1>7. /\ t.primary # NoNode => t.primary = s.primary /\ t.mode[t.primary] \in SplitModes
      /\ t.secondary # NoNode => t.secondary = s.secondary /\ t.mode[t.secondary] \in SplitModes
  BY <1>2
<1>8. ModesOK(v) /\ SidesOK(v) /\ Members(v) \subseteq Members(t) /\ Stray(v) \subseteq Stray(t)
  <2>1. CASE Lone
    <3>1. ModesOK(w) /\ PlacesOK(w) /\ Members(w) = Members(t) /\ Told(w) = Told(t)
      BY <1>3, <1>4 DEF ModesOK, PlacesOK, Members, Told
    <3>2. SidesOK(w)
      BY <2>1, <3>1, <1>3 DEF SidesOK, SidesOKBut
    <3>3. Stray(w) \subseteq Stray(t)
      BY <3>1, <1>3 DEF Stray, Find
    <3> QED BY <2>1, <3>1, <3>2, <3>3 DEF v
  <2>2. CASE ~Lone /\ Same
    <3>1. v = SwitchPosition(t)
      BY <2>2 DEF v
    <3> QED BY <2>2, <3>1, <1>4, <1>7, SwitchPositionOK
  <2>3. CASE ~Lone /\ ~Same
    <3>1. SidesOK(t)
      <4>1. t.primary # NoNode /\ t.secondary # NoNode => s.primary # s.secondary
        BY <1>7, <1>4 DEF PlacesOK
      <4>2. t.primary # NoNode => t.mode[t.primary] = "PRIMARY"
        BY <2>3, <4>1, <1>2, <1>7 DEF SidesOKBut, SplitModes
      <4>3. t.secondary # NoNode => t.mode[t.secondary] = "SECONDARY"
        BY <2>3, <4>1, <1>2, <1>7 DEF SidesOKBut, SplitModes
      <4> QED BY <4>2, <4>3, <1>4 DEF SidesOK, SidesOKBut
    <3> QED BY <2>3, <3>1, <1>4 DEF v
  <2> QED BY <2>1, <2>2, <2>3
<1> DEFINE x == UpdateWindowPairStatus(v)
<1>9. /\ Keeps(v, x)
      /\ NoSides(x) \/ (SameSides(v, x) /\ ~(v.status \in Two /\ StatusOf(v) \notin Two))
  BY <1>8, UpdateWindowPairStatusOK
<1> HIDE DEF x
<1>10. ASSUME s.status = StatusOf(s), SameSides(v, x), ~(v.status \in Two /\ StatusOf(v) \notin Two)
       PROVE  SidesStep(s, x)
  <2>1. v.status = s.status /\ (SameSides(t, v) \/ (v.primary = t.secondary /\ v.secondary = t.primary))
    <3>1. CASE ~Lone /\ Same
      BY <3>1, <1>2, <1>4, <1>7, SwitchPositionOK DEF v
    <3>2. CASE Lone \/ ~Same
      BY <3>2, <1>2, <1>3 DEF v, SameSides
    <3> QED BY <3>1, <3>2
  <2>2. CASE s.status \in Two
    <3>1. v.primary # NoNode /\ v.secondary # NoNode
      BY <1>10, <2>1, <2>2 DEF StatusOf, Two
    <3> QED BY <1>7, <1>10, <2>1, <3>1 DEF SidesStep, SameSides
  <2>3. CASE s.status \notin Two
    <3>1. s.primary = NoNode \/ s.secondary = NoNode
      BY <1>10, <2>3 DEF StatusOf, Two
    <3> QED BY <1>2, <1>10, <2>1, <3>1 DEF SidesStep, SameSides, NoSides
  <2> QED BY <2>2, <2>3
<1> QED BY <1>1, <1>5, <1>6, <1>8, <1>9, <1>10 DEF Keeps, SidesStep, x

(* A window that is on no side takes the side of its mode; the application *)
(* it replaces is minimized.                                               *)
LEMMA InsertOK ==
    ASSUME NEW s, ModesOK(s), SidesOK(s), NEW n \in Nodes, n \notin {s.primary, s.secondary}
    PROVE  KeepsWith(s, Insert(s, n), n) /\ SidesStep(s, Insert(s, n))
<1> DEFINE old == IF s.mode[n] = "PRIMARY" THEN s.primary
                  ELSE IF s.mode[n] = "SECONDARY" THEN s.secondary
                  ELSE IF n \in Docks THEN s.divider ELSE NoNode
           u == IF s.mode[n] = "PRIMARY" THEN [s EXCEPT !.primary = n]
                ELSE IF s.mode[n] = "SECONDARY" THEN [s EXCEPT !.secondary = n]
                ELSE IF n \in Docks THEN [s EXCEPT !.divider = n] ELSE s
           list == AddNeedMinimizeApp(s.list, {old} \cap Apps, "SPLIT_REPLACE", TRUE)
           t == [u EXCEPT !.list = list]
<1>1. /\ u \in PairStates /\ u.mode = s.mode /\ u.lastMode = s.lastMode
      /\ u.list = s.list /\ u.asked = s.asked
      /\ u.primary = IF s.mode[n] = "PRIMARY" THEN n ELSE s.primary
      /\ u.secondary = IF s.mode[n] = "SECONDARY" THEN n ELSE s.secondary
      /\ u.divider = IF s.mode[n] \notin SplitModes /\ n \in Docks THEN n ELSE s.divider
  BY DEF ModesOK, PairStates, SplitModes
<1>2. Insert(s, n) = UpdateWindowPairStatus(t)
  <2> HIDE DEF old
  <2>1. Insert(s, n) = UpdateWindowPairStatus(
          [u EXCEPT !.list = AddNeedMinimizeApp(u.list, {old} \cap Apps, "SPLIT_REPLACE", TRUE)])
    BY DEF Insert, old
  <2> HIDE DEF u
  <2> QED BY <2>1, <1>1
<1> HIDE DEF u, old
<1>3. /\ \A e \in list : e \in s.list \/ (e[1] \in {old} \cap Apps /\ e[2] = "SPLIT_REPLACE")
      /\ old \in Apps => \E e \in list : e[1] = old
      /\ s.list \subseteq list
      /\ list \subseteq Nodes \X Reasons
  <2>1. list = s.list \cup {<<x, "SPLIT_REPLACE">> : x \in {old} \cap Apps}
    BY DEF AddNeedMinimizeApp
  <2> HIDE DEF list
  <2>2. \A x \in {old} \cap Apps : <<x, "SPLIT_REPLACE">> \in list
    BY <2>1
  <2>3. \A e \in list : e \in s.list \/ \E x \in {old} \cap Apps : e = <<x, "SPLIT_REPLACE">>
    BY <2>1
  <2>4. old \in Apps => \E e \in list : e[1] = old
    <3>1. <<old, "SPLIT_REPLACE">>[1] = old
      OBVIOUS
    <3> QED BY <2>2, <3>1
  <2>5. \A e \in list : e \in s.list \/ (e[1] \in {old} \cap Apps /\ e[2] = "SPLIT_REPLACE")
    BY <2>3
  <2>6. list \subseteq Nodes \X Reasons
    BY <2>3 DEF ModesOK, PairStates, Nodes, Reasons
  <2> QED BY <2>1, <2>4, <2>5, <2>6
<1> HIDE DEF list
<1>4. /\ t \in PairStates /\ t.mode = s.mode /\ t.lastMode = s.lastMode
      /\ t.list = list /\ t.asked = s.asked
      /\ t.primary = u.primary /\ t.secondary = u.secondary /\ t.divider = u.divider
  BY <1>1, <1>3 DEF PairStates
<1> HIDE DEF t
<1>5. ModesOK(t)
  BY <1>4 DEF ModesOK
<1>6. s.mode[n] \in SplitModes => n \notin Docks
  BY DEF ModesOK
<1>7. SidesOK(t)
  BY <1>1, <1>4, <1>6, PairAssumption DEF SidesOK, SidesOKBut, PlacesOK, SplitModes
<1>8. Members(t) \subseteq Members(s) \cup {n}
  BY <1>1, <1>4 DEF Members
<1>9. Stray(t) \subseteq Stray(s) \ {n}
  <2> SUFFICES ASSUME NEW a \in Apps, a \in Stray(t)  PROVE a \in Stray(s) /\ a # n
    BY DEF Stray
  <2>1. a \in Nodes /\ a # NoNode /\ s.mode[a] \in SplitModes /\ a \notin Members(t) /\ a \notin Told(t)
    BY <1>4, PairAssumption DEF Stray, Find, Nodes
  <2>2. a # n
    BY <2>1, <1>1, <1>4 DEF Members, SplitModes
  <2>3. a # old /\ a \notin Told(s)
    BY <2>1, <1>3, <1>4 DEF Told, NeedMinimizeAppNodes
  <2>4. a \notin Members(s)
    BY <2>1, <2>3, <1>1, <1>4, <1>6, PairAssumption
    DEF Members, old, SidesOK, SidesOKBut, PlacesOK, SplitModes
  <2> QED BY <2>1, <2>2, <2>3, <2>4 DEF Stray, Find
<1> DEFINE x == UpdateWindowPairStatus(t)
<1>10. Keeps(t, x) /\ (NoSides(x) \/ SameSides(t, x))
  BY <1>5, <1>7, UpdateWindowPairStatusOK
<1>11. SidesStep(s, t)
  BY <1>1, <1>4, <1>6 DEF SidesStep, SameSides, SplitModes
<1> HIDE DEF x
<1>12. SidesStep(s, x)
  BY <1>10, <1>11 DEF SidesStep, SameSides, NoSides
<1> QED BY <1>2, <1>8, <1>9, <1>10, <1>12 DEF Keeps, KeepsWith, x

(* WindowPair's main entry, for a window whose mode may just have changed. *)
LEMMA UpdateIfSplitRelatedOK ==
    ASSUME NEW s, ModesOK(s), NEW n \in Nodes, SidesOKBut(s, n), s.status = StatusOf(s),
           n = PlaceHolder => ~Find(s, n)
    PROVE  LET t == UpdateIfSplitRelated(s, n) IN KeepsWith(s, t, n) /\ SidesStep(s, t)
<1> DEFINE t == UpdateIfSplitRelated(s, n)
<1>1. n \notin {s.primary, s.secondary} => SidesOK(s)
  BY DEF SidesOK, SidesOKBut
<1>2. Find(s, n) \/ s.mode[n] \notin SplitModes \/ n \notin Apps => n \notin Stray(s)
  BY DEF Stray
<1>3. n # NoNode /\ (~Find(s, n) => n \notin {s.primary, s.secondary})
  BY PairAssumption DEF Find, Members
<1>4. CASE ~Find(s, n) /\ ~IsSplitRelated(s, n)
  BY <1>1, <1>2, <1>3, <1>4 DEF UpdateIfSplitRelated, IsSplitRelated, KeepsWith, PairOK, SidesStep, SameSides
<1>5. CASE n = PlaceHolder /\ t = Post(s, DestroyHolder)
  <2>1. SamePair(s, t) /\ Told(t) = Told(s)
    BY <1>5, PostOK DEF Tasks, ModesOK
  <2>2. n \notin Stray(s)
    BY <1>5, <1>2, PairAssumption
  <2>3. PairOK(s)
    BY <1>5, <1>1, <1>3 DEF PairOK
  <2>4. SidesStep(s, t)
    BY <2>1 DEF SamePair, SidesStep, SameSides
  <2> QED BY <2>1, <2>2, <2>3, <2>4, SamePairOK DEF KeepsWith, PairOK, SidesOK
<1>6. CASE n \notin {s.primary, s.secondary} /\ t = Insert(s, n)
  BY <1>1, <1>6, InsertOK
<1>7. CASE /\ n \notin {s.primary, s.secondary} /\ s.mode[n] \in SplitModes \cup {"FULLSCREEN", "FLOATING"}
           /\ t = Post(Insert(s, n), CreateHolder(OtherSide(s.mode[n])))
  <2>1. KeepsWith(s, Insert(s, n), n) /\ SidesStep(s, Insert(s, n))
    BY <1>1, <1>7, InsertOK
  <2>2. CreateHolder(OtherSide(s.mode[n])) \in Tasks
    BY DEF OtherSide, Tasks, SplitModes
  <2>3. Insert(s, n) \in PairStates /\ ModesOK(Insert(s, n))
    BY <2>1 DEF KeepsWith, PairOK, ModesOK
  <2> DEFINE u == Insert(s, n)
  <2>4. SamePair(u, t) /\ Told(t) = Told(u)
    BY <1>7, <2>2, <2>3, PostOK
  <2> HIDE DEF u
  <2>5. PairOK(t) /\ Members(t) = Members(u) /\ Stray(t) \subseteq Stray(u)
    BY <2>1, <2>3, <2>4, SamePairOK DEF KeepsWith, PairOK, SidesOK, u
  <2>6. SidesStep(s, t)
    BY <2>1, <2>4 DEF SamePair, SidesStep, SameSides, NoSides, u
  <2> QED BY <2>1, <2>5, <2>6 DEF KeepsWith, u
<1>8. CASE Find(s, n) /\ t = HandlePairedNodesChange(s)
  BY <1>2, <1>8, HandlePairedNodesChangeOK DEF Keeps, KeepsWith
<1>9. s.status = "EMPTY" => n \notin {s.primary, s.secondary}
  BY <1>3 DEF StatusOf
<1>10. s.mode[n] \in SplitModes \cup {"FULLSCREEN", "FLOATING"}
  BY DEF ModesOK, PairStates, Modes
<1>11. \/ ~Find(s, n) /\ ~IsSplitRelated(s, n)
       \/ n = PlaceHolder /\ t = Post(s, DestroyHolder)
       \/ n \notin {s.primary, s.secondary} /\ t = Insert(s, n)
       \/ /\ n \notin {s.primary, s.secondary}
          /\ t = Post(Insert(s, n), CreateHolder(OtherSide(s.mode[n])))
       \/ Find(s, n) /\ t = HandlePairedNodesChange(s)
  BY <1>3, <1>9 DEF UpdateIfSplitRelated
<1> QED BY <1>4, <1>5, <1>6, <1>7, <1>8, <1>10, <1>11

(* A window that leaves the tree is no member any more.                    *)
LEMMA HandleRemoveWindowOK ==
    ASSUME NEW s, PairOK(s), NEW n \in Nodes
    PROVE  LET t == HandleRemoveWindow(s, n)
           IN  /\ PairOK(t) /\ Members(t) \subseteq Members(s) \ {n} /\ Stray(t) \subseteq Stray(s)
               /\ s.list = {} => t.list = {}
               /\ SameSides(s, t) \/ NoSides(t)
<1> DEFINE t == HandleRemoveWindow(s, n)
<1> USE DEF PairOK
<1>1. CASE Find(s, n)
  <2>1. t = Clear(s) /\ PlacesOK(s)
    BY <1>1 DEF HandleRemoveWindow, SidesOK, SidesOKBut
  <2> QED BY <2>1, ClearOK DEF Keeps
<1>2. CASE ~Find(s, n) /\ t = s
  BY <1>2 DEF Find, SameSides
<1>3. CASE ~Find(s, n) /\ s.mode[n] \in SplitModes /\ t = ResumeLastWindowMode(s, n)
  <2>1. /\ ModesOK(t) /\ SameMembers(s, t)
        /\ \A x \in Nodes : x # n => t.mode[x] = s.mode[x]
    BY <1>3, ResumeLastWindowModeOK
  <2> HIDE DEF t
  <2>2. t.status = s.status /\ t.list = s.list /\ SameSides(s, t)
    BY <2>1 DEF SameMembers, SameSides
  <2>3. Members(t) = Members(s) /\ n \notin Members(s) /\ Told(t) = Told(s) /\ StatusOf(t) = StatusOf(s)
    BY <1>3, <2>1 DEF Members, Find, Told, StatusOf, SameMembers
  <2>4. n \notin {s.primary, s.secondary} /\ {s.primary, s.secondary} \subseteq Nodes \cup {NoNode}
    BY <1>3, PairAssumption DEF Find, Members, ModesOK, PairStates
  <2>5. SidesOK(t)
    BY <2>1, <2>4 DEF SidesOK, SidesOKBut, PlacesOK, SameMembers
  <2>6. Stray(t) \subseteq Stray(s)
    BY <1>3, <2>1, <2>3 DEF Stray, Find, Nodes
  <2> QED BY <2>1, <2>2, <2>3, <2>5, <2>6 DEF t
<1>4. t = s \/ (s.mode[n] \in SplitModes /\ t = ResumeLastWindowMode(s, n)) \/ Find(s, n)
  BY DEF HandleRemoveWindow
<1> QED BY <1>1, <1>2, <1>3, <1>4

-----------------------------------------------------------------------------
(* The behaviours of the split screen.                                     *)

(* A consistent pair of windows of the tree, no stray in the tree, nothing *)
(* left to minimize, and a placeholder that is in the tree is the one the  *)
(* inner thread knows.  Neither PairConsistent nor NoStrandedSplit is      *)
(* inductive alone: a handler relies on the list being empty when it       *)
(* starts, on supported modes and on the free placeholder being no member. *)
Good(s, tree, has) ==
    /\ PairOK(s)
    /\ Members(s) \subseteq tree
    /\ Stray(s) \cap tree = {}
    /\ s.list = {}
    /\ PlaceHolder \in tree => has

TypeRest == /\ shown \subseteq Nodes
            /\ holder \in BOOLEAN
            /\ dialog \in [Docks -> {"none", "requested", "shown", "closing"}]
            /\ dialogId \in Docks \cup {NoNode}
            /\ backup \in [Apps -> Modes \cup {NotBackedUp}]
            /\ toRestore \subseteq Apps

IInv == Good(pair, shown, holder) /\ TypeRest

-----------------------------------------------------------------------------
(* What the handlers of the task thread keep.                              *)
LEMMA ModeChangeOK ==
    ASSUME NEW s, PairOK(s), NEW n \in Nodes \ Docks, NEW m \in Modes
    PROVE  LET t == SetWindowMode(s, n, m)
           IN  /\ ModesOK(t) /\ SidesOKBut(t, n) /\ t.status = StatusOf(t)
               /\ Members(t) = Members(s) /\ Stray(t) \subseteq Stray(s) \cup {n}
               /\ SameSides(s, t)
<1> DEFINE t == SetWindowMode(s, n, m)
<1>1. ModesOK(s)
  BY DEF PairOK
<1>2. /\ ModesOK(t) /\ SameMembers(s, t)
      /\ \A x \in Nodes : x # n => t.mode[x] = s.mode[x]
  BY <1>1, SetWindowModeOK
<1> HIDE DEF t
<1>3. Members(t) = Members(s) /\ Told(t) = Told(s) /\ t.status = StatusOf(t)
  BY <1>2 DEF Members, Told, StatusOf, PairOK, SameMembers
<1>4. SidesOKBut(t, n)
  BY <1>1, <1>2 DEF PairOK, SidesOK, SidesOKBut, PlacesOK, ModesOK, PairStates, SameMembers
<1>5. Stray(t) \subseteq Stray(s) \cup {n}
  BY <1>2, <1>3 DEF Stray, Find, Nodes
<1> QED BY <1>2, <1>3, <1>4, <1>5 DEF SameMembers, SameSides, t

LEMMA RequestModeOK ==
    ASSUME NEW s, PairOK(s), NEW n \in Nodes \ Docks, NEW m \in Modes
    PROVE  LET t == RequestMode(s, n, m)
           IN  /\ ModesOK(t) /\ SidesOKBut(t, n) /\ t.status = StatusOf(t)
               /\ Members(t) = Members(s) /\ Stray(t) \subseteq Stray(s) \cup {n}
               /\ SameSides(s, t)
BY ModeChangeOK DEF RequestMode, PairOK, SidesOK, SidesOKBut, SameSides

(* What adds applications to the minimize list changes nothing else.       *)
LEMMA ListedOK ==
    ASSUME NEW s \in PairStates, NEW nodes \in SUBSET Apps, NEW reason \in Reasons
    PROVE  LET t == [s EXCEPT !.list = AddNeedMinimizeApp(s.list, nodes, reason, TRUE)]
           IN  SamePair(s, t) /\ Told(s) \subseteq Told(t)
<1> DEFINE list == AddNeedMinimizeApp(s.list, nodes, reason, TRUE)
           t == [s EXCEPT !.list = list]
<1>1. list = s.list \cup {<<n, reason>> : n \in nodes}
  BY DEF AddNeedMinimizeApp
<1>2. {<<n, reason>> : n \in nodes} \subseteq Nodes \X Reasons
  BY DEF Nodes
<1>3. list \subseteq Nodes \X Reasons /\ s.list \subseteq list
  BY <1>1, <1>2 DEF PairStates
<1> HIDE DEF list
<1>4. SamePair(s, t) /\ t.list = list /\ t.asked = s.asked
  BY <1>3 DEF SamePair, PairStates
<1> HIDE DEF t
<1>5. Told(s) \subseteq Told(t)
  BY <1>3, <1>4 DEF Told, NeedMinimizeAppNodes
<1> QED BY <1>4, <1>5 DEF t, list

LEMMA MinimizeOthersOK ==
    ASSUME NEW s \in PairStates, NEW n, NEW tree
    PROVE  LET t == MinimizeOthers(s, n, tree) IN SamePair(s, t) /\ Told(s) \subseteq Told(t)
<1> DEFINE out == {b \in (tree \cap Apps) \ {n} : s.mode[b] # "FLOATING"}
           t == [s EXCEPT !.list = AddNeedMinimizeApp(s.list, out, "OTHER_WINDOW", TRUE)]
<1>1. MinimizeOthers(s, n, tree) \in {s, t}
  BY DEF MinimizeOthers
<1>2. SamePair(s, t) /\ Told(s) \subseteq Told(t)
  <2>1. out \in SUBSET Apps /\ "OTHER_WINDOW" \in Reasons
    BY DEF Reasons
  <2> HIDE DEF out
  <2> QED BY <2>1, ListedOK
<1>3. SamePair(s, s)
  BY DEF SamePair
<1> QED BY <1>1, <1>2, <1>3

(* Adding a window, or updating the one whose mode was changed: KeepsWith  *)
(* holds whether the others are minimized before or after.                 *)
LEMMA AddWindowNodeOK ==
    ASSUME NEW s, ModesOK(s), NEW n \in Nodes, SidesOKBut(s, n), s.status = StatusOf(s),
           n = PlaceHolder => ~Find(s, n)
    PROVE  LET t == AddWindowNode(s, n)
           IN  KeepsWith(s, t, n) /\ t.list = {} /\ SidesStep(s, t)
<1> DEFINE u == MinimizeOthers(s, n, shown)
           v == UpdateIfSplitRelated(u, n)
           t == ExecuteMinimizeAll(v)
<1>1. SamePair(s, u) /\ Told(s) \subseteq Told(u)
  BY MinimizeOthersOK DEF ModesOK
<1> HIDE DEF u
<1>2. /\ ModesOK(u) /\ SidesOKBut(u, n) /\ u.status = StatusOf(u)
      /\ Members(u) = Members(s) /\ Stray(u) \subseteq Stray(s)
  BY <1>1, SamePairOK
<1>3. KeepsWith(u, v, n) /\ SidesStep(u, v)
  BY <1>2, UpdateIfSplitRelatedOK DEF Find
<1> HIDE DEF v
<1>4. ModesOK(v) /\ v \in PairStates
  BY <1>3 DEF KeepsWith, PairOK, ModesOK
<1>5. SamePair(v, t) /\ Told(t) = Told(v) /\ t.list = {}
  BY <1>4, ExecuteMinimizeAllOK
<1>6. KeepsWith(v, t, n) \/ n \in Stray(v)
  BY <1>3, <1>4, <1>5, SamePairOK DEF KeepsWith, PairOK, SidesOK
<1>7. SidesStep(s, t)
  BY <1>1, <1>3, <1>5 DEF SamePair, SidesStep, SameSides, NoSides
<1> QED BY <1>2, <1>3, <1>5, <1>6, <1>7 DEF KeepsWith, AddWindowNode, u, v

(* How the actions use these: a window leaves the tree.                    *)
LEMMA GoodRemove ==
    ASSUME NEW s, NEW tree, NEW has, Good(s, tree, has), NEW n \in Nodes,
           NEW t, t = HandleRemoveWindow(s, n), NEW next, next = tree \ {n},
           NEW h, (has /\ n # PlaceHolder) => h
    PROVE  Good(t, next, h)
<1>1. /\ PairOK(t) /\ Members(t) \subseteq Members(s) \ {n} /\ Stray(t) \subseteq Stray(s)
      /\ s.list = {} => t.list = {}
  BY HandleRemoveWindowOK DEF Good
<1> QED BY <1>1 DEF Good

(* What changes neither the tree nor the pair.                             *)
LEMMA GoodSame ==
    ASSUME NEW s, NEW tree, NEW has, Good(s, tree, has),
           NEW t, SamePair(s, t), Told(s) \subseteq Told(t), t.list = {}
    PROVE  Good(t, tree, has)
<1>1. ModesOK(s) /\ SidesOK(s) /\ s.status = StatusOf(s)
  BY DEF Good, PairOK
<1>2. /\ ModesOK(t) /\ SidesOK(t) /\ t.status = StatusOf(t)
      /\ Members(t) = Members(s) /\ Stray(t) \subseteq Stray(s)
  BY <1>1, SamePairOK DEF SidesOK
<1> QED BY <1>2 DEF Good, PairOK

(* An application asks for a mode and is then added or updated.            *)
LEMMA GoodRequest ==
    ASSUME NEW s, NEW tree, NEW has, Good(s, tree, has), NEW n \in Apps,
           NEW u, ModesOK(u), SidesOKBut(u, n), u.status = StatusOf(u),
           Members(u) = Members(s), Stray(u) \subseteq Stray(s) \cup {n},
           NEW t, KeepsWith(u, t, n), t.list = {}
    PROVE  Good(t, tree \cup {n}, has)
<1>1. n # PlaceHolder
  BY PairAssumption
<1> QED BY <1>1 DEF Good, KeepsWith

-----------------------------------------------------------------------------
(* The placeholder, taken out of the tree by the inner thread or a touch.  *)
LEMMA RemovePlaceHolderOK ==
    ASSUME IInv, NEW s, Good(s, shown, holder), RemovePlaceHolder(s)
    PROVE  Good(pair', shown', holder') /\ holder' \in BOOLEAN /\ SidesStep(s, pair')
<1>1. PlaceHolder \in Nodes
  BY DEF Nodes
<1>2. CASE holder
  <2>1. pair' = HandleRemoveWindow(s, PlaceHolder)
    BY <1>2 DEF RemovePlaceHolder
  <2>2. SidesStep(s, pair')
    BY <1>1, <2>1, HandleRemoveWindowOK DEF Good, SidesStep
  <2> QED BY <1>1, <1>2, <2>2, GoodRemove DEF RemovePlaceHolder
<1>3. CASE ~holder
  BY <1>3 DEF RemovePlaceHolder, Good, SidesStep, SameSides
<1> QED BY <1>2, <1>3 DEF RemovePlaceHolder

LEMMA CreatePlaceHolderOK ==
    ASSUME IInv, CreatePlaceHolder, Good(Popped, shown, holder)
    PROVE  Good(pair', shown', holder') /\ holder' \in BOOLEAN /\ SidesStep(Popped, pair')
<1> DEFINE m == Head(pair.inner).mode
           s == [Popped EXCEPT !.mode[PlaceHolder] = m, !.lastMode[PlaceHolder] = "FULLSCREEN"]
<1>1. PlaceHolder \in Nodes
  BY DEF Nodes
<1>2. CASE holder
  BY <1>2 DEF CreatePlaceHolder, Good, SidesStep, SameSides
<1>3. CASE ~holder
  <2>1. pair' = AddWindowNode(s, PlaceHolder) /\ shown' = shown \cup {PlaceHolder} /\ holder'
    BY <1>3 DEF CreatePlaceHolder
  <2>2. m \in SplitModes
    <3>1. Head(pair.inner) \in Tasks /\ Head(pair.inner).op = "CREATE_HOLDER"
      BY DEF CreatePlaceHolder, Running, IInv, Good, PairOK, ModesOK, PairStates
    <3> DEFINE h == Head(pair.inner)
    <3> HIDE DEF h
    <3>2. h \in Tasks /\ h.op = "CREATE_HOLDER" => h.mode \in SplitModes
      BY DEF Tasks, CreateHolder, DestroyHolder, CreateDivider, DestroyDivider
    <3> QED BY <3>1, <3>2 DEF h
  <2>3. PlaceHolder \notin Members(Popped) /\ PlaceHolder # NoNode
    BY <1>1, <1>3, PairAssumption DEF Good
  <2> DEFINE q == Popped
  <2> HIDE DEF q
  <2>4. ModesOK(q) /\ SidesOK(q) /\ q.status = StatusOf(q)
    BY DEF Good, PairOK, q
  <2>5. /\ s \in PairStates /\ SameMembers(q, s)
        /\ \A x \in Nodes : x # PlaceHolder => s.mode[x] = q.mode[x] /\ s.lastMode[x] = q.lastMode[x]
        /\ s.mode[PlaceHolder] = m /\ s.lastMode[PlaceHolder] = "FULLSCREEN"
    <3>1. s = [q EXCEPT !.mode[PlaceHolder] = m, !.lastMode[PlaceHolder] = "FULLSCREEN"]
      BY DEF q
    <3>2. m \in Modes /\ "FULLSCREEN" \in Modes
      BY <2>2 DEF SplitModes, Modes
    <3> HIDE DEF m, s
    <3> QED BY <1>1, <2>4, <3>1, <3>2 DEF ModesOK, PairStates, SameMembers
  <2> HIDE DEF m, s
  <2>6. ModesOK(s)
    BY <1>1, <2>2, <2>4, <2>5, PairAssumption DEF ModesOK, Nodes, SplitModes, Modes
  <2>7. Members(s) = Members(q) /\ s.status = StatusOf(s) /\ Told(s) = Told(q)
    BY <2>4, <2>5 DEF Members, StatusOf, Told, SameMembers
  <2>8. SidesOKBut(s, PlaceHolder) /\ ~Find(s, PlaceHolder)
    BY <2>3, <2>4, <2>5, <2>7
    DEF SidesOK, SidesOKBut, PlacesOK, SameMembers, Find, ModesOK, PairStates, q
  <2>9. Stray(s) \subseteq Stray(q)
    BY <2>5, <2>7, PairAssumption DEF Stray, Find, Nodes
  <2>10. KeepsWith(s, pair', PlaceHolder) /\ pair'.list = {} /\ SidesStep(s, pair')
    BY <1>1, <2>1, <2>6, <2>7, <2>8, AddWindowNodeOK
  <2>11. SidesStep(Popped, pair')
    BY <2>5, <2>10 DEF SameMembers, SidesStep, SameSides, NoSides, q
  <2> QED BY <2>1, <2>7, <2>9, <2>10, <2>11 DEF Good, KeepsWith, q
<1> QED BY <1>2, <1>3 DEF CreatePlaceHolder

(* The divider is shown, in the mode the UI service gives it.              *)
LEMMA ShowDialogOK ==
    ASSUME IInv, NEW d \in Docks, ShowDialog(d)
    PROVE  Good(pair', shown', holder') /\ SidesStep(pair, pair')
<1> DEFINE q == pair
           s == [pair EXCEPT !.mode[d] = "FLOATING"]
<1>1. d \in Nodes /\ d # PlaceHolder /\ d \notin Apps /\ Supported[d] = Modes
  BY PairAssumption DEF Nodes
<1>2. pair' = AddWindowNode(s, d) /\ shown' = shown \cup {d} /\ holder' = holder
  BY DEF ShowDialog
<1>3. ModesOK(q) /\ SidesOK(q) /\ q.status = StatusOf(q)
  BY DEF IInv, Good, PairOK
<1> HIDE DEF q
<1>4. /\ s \in PairStates /\ SameMembers(q, s) /\ s.lastMode = q.lastMode
      /\ \A x \in Nodes : x # d => s.mode[x] = q.mode[x]
      /\ s.mode[d] = "FLOATING"
  <2>1. s = [q EXCEPT !.mode[d] = "FLOATING"] /\ "FLOATING" \in Modes
    BY DEF q, Modes
  <2> HIDE DEF s
  <2> QED BY <1>1, <1>3, <2>1 DEF ModesOK, PairStates, SameMembers
<1> HIDE DEF s
<1>5. ModesOK(s)
  BY <1>1, <1>3, <1>4 DEF ModesOK, Nodes, SplitModes, Modes
<1>6. Members(s) = Members(q) /\ s.status = StatusOf(s) /\ Told(s) = Told(q)
  BY <1>3, <1>4 DEF Members, StatusOf, Told, SameMembers
<1>7. SidesOKBut(s, d)
  BY <1>3, <1>4 DEF SidesOK, SidesOKBut, PlacesOK, SameMembers, ModesOK, PairStates
<1>8. Stray(s) \subseteq Stray(q)
  BY <1>1, <1>4, <1>6 DEF Stray, Find, Nodes
<1>9. KeepsWith(s, pair', d) /\ pair'.list = {} /\ SidesStep(s, pair')
  BY <1>1, <1>2, <1>5, <1>6, <1>7, AddWindowNodeOK
<1>10. SidesStep(pair, pair')
  BY <1>4, <1>9 DEF SameMembers, SidesStep, SameSides, NoSides, q
<1> QED BY <1>1, <1>2, <1>6, <1>8, <1>9, <1>10 DEF IInv, Good, KeepsWith, q

(* Hiding every application: what is left of the pair has no application.  *)
LEMMA HideAllOK ==
    ASSUME NEW s, PairOK(s), s.list = {}, NEW apps \in SUBSET Apps
    PROVE  LET t == HideAll(s, apps)
           IN  /\ PairOK(t) /\ Members(t) \subseteq Members(s) \ apps /\ t.list = {}
               /\ SameSides(s, t) \/ NoSides(t)
<1> DEFINE u == IF Members(s) \cap apps # {} THEN Clear(s) ELSE s
           Back(n) == IF n \in apps /\ u.mode[n] \in SplitModes
                        THEN ResumeLastWindowMode(u, n).mode[n] ELSE u.mode[n]
           t == HideAll(s, apps)
<1>1. /\ PairOK(u) /\ Members(u) \subseteq Members(s) \ apps /\ u.list = {}
      /\ SameSides(s, u) \/ NoSides(u)
  BY ClearOK DEF PairOK, SidesOK, SidesOKBut, Keeps, SameSides
<1>2. t = [u EXCEPT !.mode = [n \in Nodes |-> Back(n)], !.asked = u.asked \ apps]
  BY DEF HideAll
<1> HIDE DEF u
<1>3. \A n \in Nodes : /\ Back(n) \in Supported[n] /\ Back(n) \in Modes
                       /\ n \notin apps => Back(n) = u.mode[n]
  <2> TAKE n \in Nodes
  <2>1. ModesOK(u)
    BY <1>1 DEF PairOK
  <2>2. ModesOK(ResumeLastWindowMode(u, n))
    BY <2>1, ResumeLastWindowModeOK
  <2> QED BY <2>1, <2>2 DEF ModesOK, PairStates
<1> DEFINE modes == [n \in Nodes |-> Back(n)]
<1>4. modes \in [Nodes -> Modes] /\ \A n \in Nodes : modes[n] = Back(n)
  BY <1>3
<1> HIDE DEF modes, Back
<1>5. /\ t \in PairStates /\ t.mode = modes /\ t.lastMode = u.lastMode /\ t.status = u.status
      /\ t.primary = u.primary /\ t.secondary = u.secondary /\ t.divider = u.divider
      /\ t.list = u.list
  <2>1. t = [u EXCEPT !.mode = modes, !.asked = u.asked \ apps]
    BY <1>2 DEF modes
  <2> HIDE DEF t
  <2> QED BY <1>1, <1>4, <2>1 DEF PairOK, ModesOK, PairStates
<1> HIDE DEF t
<1>6. ModesOK(t)
  BY <1>1, <1>3, <1>4, <1>5, PairAssumption DEF PairOK, ModesOK, Nodes
<1>7. Members(t) = Members(u) /\ t.status = StatusOf(t)
  BY <1>1, <1>5 DEF Members, StatusOf, PairOK
<1>8. SidesOK(t)
  BY <1>1, <1>3, <1>4, <1>5, <1>7
  DEF PairOK, SidesOK, SidesOKBut, PlacesOK, Members, ModesOK, PairStates
<1> QED BY <1>1, <1>5, <1>6, <1>7, <1>8 DEF PairOK, SameSides, NoSides, t

-----------------------------------------------------------------------------
LEMMA InitOK == Init => IInv
<1> SUFFICES ASSUME Init PROVE IInv
  OBVIOUS
<1> DEFINE s == pair
<1>1. /\ s.primary = NoNode /\ s.secondary = NoNode /\ s.divider = NoNode
      /\ s.status = "EMPTY" /\ s.restoring = FALSE /\ s.inner = <<>>
      /\ s.list = {} /\ s.asked = {}
      /\ s.mode = [n \in Nodes |-> ModeFromSupportInfo(n)]
      /\ s.lastMode = [n \in Nodes |-> "FULLSCREEN"]
  BY DEF Init
<1>2. s \in PairStates
  <2>1. s.mode \in [Nodes -> Modes] /\ s.lastMode \in [Nodes -> Modes]
    BY <1>1, FallbackSupported DEF Modes
  <2>2. s.inner \in Seq(Tasks)
    BY <1>1
  <2> QED BY <1>1, <2>1, <2>2 DEF Init, PairStates, Statuses
<1> HIDE DEF s
<1>3. \A d \in Docks : ModeFromSupportInfo(d) \notin SplitModes
  BY PairAssumption DEF ModeFromSupportInfo, Modes, SplitModes
<1>4. ModesOK(s)
  BY <1>1, <1>2, <1>3, FallbackSupported DEF ModesOK, Nodes, SplitModes
<1>5. PairOK(s)
  BY <1>1, <1>4, PairAssumption DEF PairOK, SidesOK, SidesOKBut, PlacesOK, StatusOf, Nodes
<1>6. Good(s, {}, FALSE) /\ Members(s) = {}
  BY <1>1, <1>5 DEF Good, Members
<1>7. TypeRest
  BY DEF Init, TypeRest, NoBackup
<1> QED BY <1>6, <1>7 DEF IInv, Init, s

(* The rest of the type invariant, action by action.                       *)
LEMMA TypeRestStep == IInv /\ [Next]_vars /\ holder' \in BOOLEAN => TypeRest'
<1> SUFFICES ASSUME IInv, [Next]_vars, holder' \in BOOLEAN PROVE TypeRest'
  OBVIOUS
<1> USE DEF IInv, TypeRest
<1>1. PlaceHolder \in Nodes /\ Apps \subseteq Nodes /\ Docks \subseteq Nodes
  BY DEF Nodes
<1>2. ASSUME NEW a \in Apps, Show(a) \/ Hide(a) \/ SetMode(a) \/ RestoreOne(a) PROVE TypeRest'
  BY <1>1, <1>2 DEF Show, Hide, SetMode, RestoreOne, NoBackup
<1>3. CASE ProcessPointUp \/ SetWindowLayoutMode \/ MinimizeAllAppWindows
  BY <1>3 DEF ProcessPointUp, SetWindowLayoutMode, MinimizeAllAppWindows
<1>4. CASE BackUpAllAppWindows \/ RestoreAllAppWindows
  <2>1. pair.mode \in [Nodes -> Modes]
    BY DEF Good, PairOK, ModesOK, PairStates
  <2>2. \A a \in Apps : pair.mode[a] \in Modes
    BY <1>1, <2>1
  <2> QED BY <1>4, <2>2 DEF BackUpAllAppWindows, RestoreAllAppWindows
<1>5. CASE CreatePlaceHolder \/ DestroyPlaceHolder \/ TouchPlaceHolder
  BY <1>1, <1>5 DEF CreatePlaceHolder, DestroyPlaceHolder, TouchPlaceHolder, RemovePlaceHolder
<1>6. CASE CreateDividerDialog \/ DestroyDividerDialog
  BY <1>6 DEF CreateDividerDialog, DestroyDividerDialog
<1>7. ASSUME NEW d \in Docks, ShowDialog(d) \/ CloseDialog(d) \/ DialogDied(d) PROVE TypeRest'
  BY <1>1, <1>7 DEF ShowDialog, CloseDialog, DialogDied
<1>8. CASE UNCHANGED vars
  BY <1>8 DEF vars
<1> QED BY <1>2, <1>3, <1>4, <1>5, <1>6, <1>7, <1>8 DEF Next, TaskThread, InnerThread, UIService

(* What every step does: Good again, and one step of the abstract sides.   *)
Stepped == /\ Good(pair', shown', holder') /\ holder' \in BOOLEAN
           /\ SidesStep(pair, pair')

LEMMA GoodStep == IInv /\ [Next]_vars => Stepped
<1> SUFFICES ASSUME IInv, [Next]_vars PROVE Stepped
  OBVIOUS
<1>1. /\ Good(pair, shown, holder) /\ PairOK(pair) /\ pair \in PairStates
      /\ Members(pair) \subseteq shown /\ pair.list = {} /\ holder \in BOOLEAN
  BY DEF IInv, Good, TypeRest, PairOK, ModesOK
<1>2. /\ \A a \in Apps : a \in Nodes \ Docks /\ a # PlaceHolder /\ Supported[a] \subseteq Modes
      /\ Docks \subseteq Nodes
  BY PairAssumption, FallbackSupported DEF Nodes
<1>3. ASSUME NEW a \in Apps, Show(a) PROVE Stepped
  <2>1. PICK m \in Supported[a] : pair' = AddWindowNode(RequestMode(pair, a, m), a)
    BY <1>3 DEF Show
  <2> DEFINE u == RequestMode(pair, a, m)
  <2>2. /\ ModesOK(u) /\ SidesOKBut(u, a) /\ u.status = StatusOf(u)
        /\ Members(u) = Members(pair) /\ Stray(u) \subseteq Stray(pair) \cup {a}
        /\ SameSides(pair, u)
    BY <1>1, <1>2, RequestModeOK
  <2> HIDE DEF u
  <2>3. KeepsWith(u, pair', a) /\ pair'.list = {} /\ SidesStep(u, pair')
    BY <1>2, <2>1, <2>2, AddWindowNodeOK DEF u
  <2>4. Good(pair', shown \cup {a}, holder)
    BY <1>1, <2>2, <2>3, GoodRequest
  <2>5. SidesStep(pair, pair')
    BY <2>2, <2>3 DEF SidesStep, SameSides, NoSides
  <2> QED BY <1>1, <1>3, <2>4, <2>5 DEF Show, Stepped
<1>4. ASSUME NEW a \in Apps, Hide(a) PROVE Stepped
  <2> DEFINE u == HandleRemoveWindow(pair, a)
  <2>1. Good(u, shown \ {a}, holder) /\ (SameSides(pair, u) \/ NoSides(u))
    BY <1>1, <1>2, GoodRemove, HandleRemoveWindowOK
  <2>2. pair' = [u EXCEPT !.asked = u.asked \ {a}] /\ shown' = shown \ {a} /\ holder' = holder
    BY <1>4 DEF Hide
  <2> HIDE DEF u
  <2>3. SamePair(u, pair') /\ pair'.list = u.list /\ pair'.asked = u.asked \ {a}
    BY <2>1, <2>2 DEF Good, PairOK, ModesOK, PairStates, SamePair
  <2>4. PairOK(pair') /\ Members(pair') = Members(u)
    BY <2>1, <2>3, SamePairOK DEF Good, PairOK, SidesOK
  <2>5. Stray(pair') \subseteq Stray(u) \cup {a}
    BY <2>3, <2>4 DEF Stray, Find, Told, SamePair
  <2>6. SidesStep(pair, pair')
    BY <2>1, <2>3 DEF SamePair, SidesStep, SameSides, NoSides
  <2> QED BY <1>1, <2>1, <2>2, <2>3, <2>4, <2>5, <2>6 DEF Good, Stepped
<1>5. ASSUME NEW a \in Apps, SetMode(a) PROVE Stepped
  <2>1. PICK m \in Supported[a] :
          pair' = ExecuteMinimizeAll(MinimizeOthers(
                    UpdateIfSplitRelated(SetWindowMode(pair, a, m), a), a, shown))
    BY <1>5 DEF SetMode
  <2> DEFINE u == SetWindowMode(pair, a, m)
             v == UpdateIfSplitRelated(u, a)
             w == MinimizeOthers(v, a, shown)
  <2>2. /\ ModesOK(u) /\ SidesOKBut(u, a) /\ u.status = StatusOf(u)
        /\ Members(u) = Members(pair) /\ Stray(u) \subseteq Stray(pair) \cup {a}
        /\ SameSides(pair, u)
    BY <1>1, <1>2, ModeChangeOK
  <2> HIDE DEF u
  <2>3. KeepsWith(u, v, a) /\ SidesStep(u, v)
    BY <1>2, <2>2, UpdateIfSplitRelatedOK
  <2> HIDE DEF v
  <2>4. PairOK(v) /\ v \in PairStates
    BY <2>3 DEF KeepsWith, PairOK, ModesOK
  <2>5. SamePair(v, w) /\ Told(v) \subseteq Told(w) /\ w \in PairStates
    BY <2>4, MinimizeOthersOK DEF SamePair
  <2> HIDE DEF w
  <2>6. SamePair(w, pair') /\ Told(pair') = Told(w) /\ pair'.list = {}
    BY <2>1, <2>5, ExecuteMinimizeAllOK DEF u, v, w
  <2>7. SamePair(v, pair') /\ Told(v) \subseteq Told(pair')
    BY <2>5, <2>6 DEF SamePair
  <2>8. KeepsWith(u, pair', a)
    BY <2>3, <2>4, <2>7, SamePairOK DEF KeepsWith, PairOK, SidesOK
  <2>9. Good(pair', shown \cup {a}, holder)
    BY <1>1, <2>2, <2>6, <2>8, GoodRequest
  <2>10. SidesStep(pair, pair')
    BY <2>2, <2>3, <2>7 DEF SamePair, SidesStep, SameSides, NoSides
  <2> QED BY <1>1, <1>5, <2>9, <2>10 DEF SetMode, Good, Stepped
<1>6. CASE ProcessPointUp
  <2>1. PICK n \in {pair.primary, pair.secondary} : pair' = ExitSplitMode(pair, n)
    BY <1>6 DEF ProcessPointUp
  <2>2. n \in Nodes /\ pair' = MinimizeForQuit(pair, n)
    BY <1>1, <1>6, <2>1 DEF ProcessPointUp, ExitSplitMode, IsPaired, PairStates
  <2>3. SamePair(pair, pair') /\ Told(pair) \subseteq Told(pair') /\ pair'.list = {}
    BY <1>1, <2>2, MinimizeForQuitOK
  <2>4. SidesStep(pair, pair')
    BY <2>3 DEF SamePair, SidesStep, SameSides
  <2> QED BY <1>1, <1>6, <2>3, <2>4, GoodSame DEF ProcessPointUp, Stepped
<1>7. CASE SetWindowLayoutMode
  <2> DEFINE c == Clear(pair)
  <2>1. Keeps(pair, c) /\ NoSides(c)
    BY <1>1, ClearOK DEF PairOK, SidesOK, SidesOKBut
  <2> HIDE DEF c
  <2>2. PICK out \in SUBSET (shown \cap Apps) :
          pair' = ExecuteMinimizeAll([c EXCEPT !.list =
                    AddNeedMinimizeApp(c.list, out, "LAYOUT_TILE", TRUE)])
    BY <1>7 DEF SetWindowLayoutMode, c
  <2> DEFINE u == [c EXCEPT !.list = AddNeedMinimizeApp(c.list, out, "LAYOUT_TILE", TRUE)]
  <2>3. PairOK(c) /\ c \in PairStates
    BY <2>1 DEF Keeps, PairOK, ModesOK
  <2>4. SamePair(c, u) /\ Told(c) \subseteq Told(u) /\ u \in PairStates
    <3>1. out \in SUBSET Apps /\ "LAYOUT_TILE" \in Reasons
      BY DEF Reasons
    <3>2. SamePair(c, u) /\ Told(c) \subseteq Told(u)
      BY <2>3, <3>1, ListedOK
    <3> QED BY <3>2 DEF SamePair
  <2> HIDE DEF u
  <2>5. SamePair(u, pair') /\ Told(pair') = Told(u) /\ pair'.list = {}
    BY <2>2, <2>4, ExecuteMinimizeAllOK DEF u
  <2>6. SamePair(c, pair') /\ Told(c) \subseteq Told(pair')
    BY <2>4, <2>5 DEF SamePair
  <2>7. Keeps(pair, pair')
    BY <2>1, <2>3, <2>6, SamePairOK DEF Keeps, PairOK, SidesOK
  <2>8. SidesStep(pair, pair')
    BY <2>1, <2>6 DEF SamePair, SidesStep, NoSides
  <2> QED BY <1>1, <1>7, <2>5, <2>7, <2>8 DEF SetWindowLayoutMode, Good, Keeps, Stepped
<1>8. CASE MinimizeAllAppWindows
  <2> DEFINE out == shown \cap Apps
             u == [pair EXCEPT !.list = AddNeedMinimizeApp(pair.list, out, "MINIMIZE_ALL", TRUE)]
  <2>1. pair' = ExecuteMinimizeAll(u)
    BY <1>8 DEF MinimizeAllAppWindows
  <2>2. out \in SUBSET Apps /\ "MINIMIZE_ALL" \in Reasons
    BY DEF Reasons
  <2> HIDE DEF out
  <2>3. SamePair(pair, u) /\ Told(pair) \subseteq Told(u) /\ u \in PairStates
    <3>1. SamePair(pair, u) /\ Told(pair) \subseteq Told(u)
      BY <1>1, <2>2, ListedOK
    <3> QED BY <3>1 DEF SamePair
  <2> HIDE DEF u
  <2>4. SamePair(u, pair') /\ Told(pair') = Told(u) /\ pair'.list = {}
    BY <2>1, <2>3, ExecuteMinimizeAllOK
  <2>5. SamePair(pair, pair') /\ Told(pair) \subseteq Told(pair')
    BY <2>3, <2>4 DEF SamePair
  <2>6. SidesStep(pair, pair')
    BY <2>5 DEF SamePair, SidesStep, SameSides
  <2> QED BY <1>1, <1>8, <2>4, <2>5, <2>6, GoodSame DEF MinimizeAllAppWindows, Stepped
<1>9. CASE BackUpAllAppWindows
  <2> DEFINE apps == shown \cap Apps
  <2>1. /\ pair' = HideAll(pair, apps) /\ shown' = shown \ Apps /\ holder' = holder
    BY <1>9 DEF BackUpAllAppWindows
  <2>2. /\ PairOK(pair') /\ Members(pair') \subseteq Members(pair) \ apps /\ pair'.list = {}
        /\ SidesStep(pair, pair')
    BY <1>1, <2>1, HideAllOK DEF SidesStep
  <2>3. Stray(pair') \cap shown' = {}
    BY <2>1 DEF Stray
  <2> QED BY <1>1, <2>1, <2>2, <2>3 DEF Good, Stepped
<1>10. CASE RestoreAllAppWindows
  <2>1. SamePair(pair, pair') /\ Told(pair) = Told(pair') /\ pair'.list = {}
    BY <1>1, <1>10 DEF RestoreAllAppWindows, SamePair, PairStates, Told
  <2>2. SidesStep(pair, pair')
    BY <2>1 DEF SamePair, SidesStep, SameSides
  <2> QED BY <1>1, <1>10, <2>1, <2>2, GoodSame DEF RestoreAllAppWindows, Stepped
<1>11. ASSUME NEW a \in Apps, RestoreOne(a) PROVE Stepped
  <2> DEFINE u == IF backup[a] \in SplitModes THEN RequestMode(pair, a, backup[a]) ELSE pair
             t == AddWindowNode(u, a)
  <2>1. /\ ModesOK(u) /\ SidesOKBut(u, a) /\ u.status = StatusOf(u)
        /\ Members(u) = Members(pair) /\ Stray(u) \subseteq Stray(pair) \cup {a}
        /\ SameSides(pair, u)
    <3>1. CASE backup[a] \in SplitModes
      BY <1>1, <1>2, <3>1, RequestModeOK DEF SplitModes, Modes
    <3>2. CASE backup[a] \notin SplitModes
      BY <1>1, <3>2 DEF PairOK, SidesOK, SidesOKBut, SameSides
    <3> QED BY <3>1, <3>2
  <2> HIDE DEF u
  <2>2. KeepsWith(u, t, a) /\ t.list = {} /\ SidesStep(u, t)
    BY <1>2, <2>1, AddWindowNodeOK
  <2>3. Good(t, shown \cup {a}, holder)
    BY <1>1, <2>1, <2>2, GoodRequest
  <2>4. pair' = [t EXCEPT !.restoring = t.restoring /\ toRestore' # {}]
        /\ shown' = shown \cup {a} /\ holder' = holder
    BY <1>11 DEF RestoreOne, u
  <2> HIDE DEF t
  <2>5. SamePair(t, pair') /\ Told(t) = Told(pair') /\ pair'.list = {}
    BY <2>3, <2>4 DEF Good, PairOK, ModesOK, PairStates, SamePair, Told
  <2>6. SidesStep(pair, pair')
    BY <2>1, <2>2, <2>5 DEF SamePair, SidesStep, SameSides, NoSides
  <2> QED BY <1>1, <2>3, <2>4, <2>5, <2>6, GoodSame DEF Stepped
<1>12. Popped.primary = pair.primary /\ Popped.secondary = pair.secondary
  BY <1>1 DEF Popped, PairStates
<1>13. ASSUME pair.inner # <<>> PROVE Good(Popped, shown, holder)
  <2>1. Tail(pair.inner) \in Seq(Tasks)
    BY <1>1, <1>13 DEF PairStates
  <2>2. SamePair(pair, Popped) /\ Told(pair) = Told(Popped) /\ Popped.list = {}
    BY <1>1, <2>1 DEF Popped, PairStates, SamePair, Told
  <2> QED BY <1>1, <2>2, GoodSame
<1>14. CASE CreatePlaceHolder
  BY <1>12, <1>13, <1>14, CreatePlaceHolderOK DEF CreatePlaceHolder, Running, Stepped, SidesStep, SameSides
<1>15. CASE DestroyPlaceHolder
  BY <1>12, <1>13, <1>15, RemovePlaceHolderOK
  DEF DestroyPlaceHolder, Running, Stepped, SidesStep, SameSides
<1>16. CASE TouchPlaceHolder
  BY <1>1, <1>16, RemovePlaceHolderOK DEF TouchPlaceHolder, Stepped
<1>17. CASE CreateDividerDialog \/ DestroyDividerDialog
  BY <1>1, <1>12, <1>13, <1>17
  DEF CreateDividerDialog, DestroyDividerDialog, Running, Stepped, SidesStep, SameSides
<1>18. ASSUME NEW d \in Docks, ShowDialog(d) PROVE Stepped
  BY <1>1, <1>18, ShowDialogOK DEF ShowDialog, Stepped
<1>19. ASSUME NEW d \in Docks, CloseDialog(d) \/ DialogDied(d)
       PROVE  Stepped
  <2>1. LET t == HandleRemoveWindow(pair, d) IN SameSides(pair, t) \/ NoSides(t)
    BY <1>1, <1>2, HandleRemoveWindowOK
  <2> QED BY <1>1, <1>2, <1>19, <2>1, GoodRemove DEF CloseDialog, DialogDied, Stepped, SidesStep
<1>20. CASE UNCHANGED vars
  BY <1>1, <1>20 DEF vars, Stepped, SidesStep, SameSides
<1> QED BY <1>3, <1>4, <1>5, <1>6, <1>7, <1>8, <1>9, <1>10, <1>11, <1>14, <1>15, <1>16, <1>17,
           <1>18, <1>19, <1>20 DEF Next, TaskThread, InnerThread, UIService

LEMMA InvHolds == Spec => []IInv
<1>1. IInv /\ [Next]_vars => IInv'
  BY GoodStep, TypeRestStep DEF IInv, Stepped
<1> QED BY <1>1, InitOK, PTL DEF Spec

LEMMA InvImplies == IInv => TypeOK /\ PairConsistent /\ MembersShown /\ NoStrandedSplit
<1> SUFFICES ASSUME IInv PROVE TypeOK /\ PairConsistent /\ MembersShown /\ NoStrandedSplit
  OBVIOUS
<1>1. PairOK(pair) /\ pair \in PairStates /\ Members(pair) \subseteq shown /\ pair.list = {}
      /\ Stray(pair) \cap shown = {}
  BY DEF IInv, Good, PairOK, ModesOK
<1>2. TypeOK
  BY <1>1 DEF IInv, TypeRest, TypeOK
<1>3. PairConsistent
  BY <1>1, PairAssumption
  DEF PairOK, SidesOK, SidesOKBut, PlacesOK, PairConsistent, StatusMatches, SidesMatch, Nodes
<1>4. MembersShown
  BY <1>1 DEF MembersShown
<1>5. NoStrandedSplit
  BY <1>1 DEF NoStrandedSplit, Stray, Told, NeedMinimizeAppNodes
<1> QED BY <1>2, <1>3, <1>4, <1>5

(* Every variable keeps its type, whatever the interleaving of the task    *)
(* thread, the inner window thread and the UI service.                     *)
THEOREM SplitTypeCorrect == Spec => []TypeOK
BY InvHolds, InvImplies, PTL

(* The status of WindowPair is always the one its members define, and the  *)
(* window on a side always has that side's mode.                           *)
THEOREM PairIsConsistent == Spec => []PairConsistent
BY InvHolds, InvImplies, PTL

(* Whoever raises the pair finds all its members in the window tree.       *)
THEOREM MembersAreShown == Spec => []MembersShown
BY InvHolds, InvImplies, PTL

(* No application on screen keeps a split mode outside the pair, unless it *)
(* was told to minimize.                                                   *)
THEOREM NoStrandedSplitHolds == Spec => []NoStrandedSplit
BY InvHolds, InvImplies, PTL

-----------------------------------------------------------------------------
(* The refinement: the sides a window pair stands for, and their steps.    *)
SidesOf(s) == [m \in SplitModes |-> IF m = "PRIMARY" THEN s.primary ELSE s.secondary]

LEMMA SidesInit == Init => Abs!Init
BY DEF Init, Abs!Init, Abs!Nobody, Abs!Sides, SplitModes

LEMMA OppositeIs == Abs!Opposite("PRIMARY") = "SECONDARY" /\ Abs!Opposite("SECONDARY") = "PRIMARY"
BY DEF Abs!Opposite, Abs!Sides

LEMMA SidesNext == IInv /\ [Next]_vars => [Abs!Next]_(SidesOf(pair))
<1> SUFFICES ASSUME IInv, [Next]_vars PROVE [Abs!Next]_(SidesOf(pair))
  OBVIOUS
<1>1. SidesStep(pair, pair')
  BY GoodStep DEF Stepped
<1>2. CASE SameSides(pair, pair')
  BY <1>2 DEF SameSides, SidesOf
<1>3. CASE NoSides(pair')
  <2>1. Abs!Dissolve
    BY <1>3 DEF NoSides, Abs!Dissolve, Abs!Nobody, Abs!Sides, SplitModes
  <2> QED BY <2>1 DEF Abs!Next
<1>4. CASE pair'.primary = pair.secondary /\ pair'.secondary = pair.primary
  <2>1. Abs!Switch
    BY <1>4, OppositeIs DEF Abs!Switch, Abs!Sides, SplitModes
  <2> QED BY <2>1 DEF Abs!Next
<1>5. Nodes \ Docks = Apps \cup {PlaceHolder}
  BY PairAssumption DEF Nodes
<1>6. CASE /\ pair'.primary \in Nodes \ (Docks \cup {pair.secondary})
           /\ pair'.secondary = pair.secondary
  <2>1. PICK w \in Apps \cup {PlaceHolder} : w = pair'.primary
    BY <1>5, <1>6
  <2>2. Abs!Place("PRIMARY", w)
    BY <1>6, <2>1, OppositeIs DEF Abs!Place, Abs!Sides, SplitModes
  <2> QED BY <2>2 DEF Abs!Next, Abs!Sides
<1>7. CASE /\ pair'.secondary \in Nodes \ (Docks \cup {pair.primary})
           /\ pair'.primary = pair.primary
  <2>1. PICK w \in Apps \cup {PlaceHolder} : w = pair'.secondary
    BY <1>5, <1>7
  <2>2. Abs!Place("SECONDARY", w)
    BY <1>7, <2>1, OppositeIs DEF Abs!Place, Abs!Sides, SplitModes
  <2> QED BY <2>2 DEF Abs!Next, Abs!Sides
<1> QED BY <1>1, <1>2, <1>3, <1>4, <1>6, <1>7 DEF SidesStep

(* The pair implements the abstract sides: whatever the threads do, a side *)
(* changes hands, the two are switched, or both are given up together.     *)
THEOREM PairImplementsSides == Spec => SidesSpec
<1>1. IInv /\ [Next]_vars => [Abs!Next]_(SidesOf(pair))
  BY SidesNext
<1> QED BY <1>1, SidesInit, InvHolds, PTL DEF Spec, SidesSpec, Abs!Spec, SidesOf
=============================================================================
