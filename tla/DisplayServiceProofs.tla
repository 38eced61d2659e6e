------------------------- MODULE DisplayServiceProofs -------------------------
(***************************************************************************)
(* For any screens, clients and bounds: the variables of DisplayService    *)
(* are of their types, the two maps of the ids agree with each other and   *)
(* with the screens, the groups agree with the screens about who is in     *)
(* which, a virtual screen belongs to one client, and the clients know the *)
(* screens there are when they have had every notification.                *)
(* If there is a built-in screen, the displays are where they belong, and  *)
(* every group is shown.                                                   *)
(*                                                                         *)
(* A method of the controllers is an operator from a state to a state.     *)
(* Most of them only add to the ids, the screens and the groups (Keeps);   *)
(* what they add keeps the maps in pairs (Paired).  Between the erasure of *)
(* a screen and that of its id, the id is Loose.                           *)
(***************************************************************************)
EXTENDS DisplayService, FiniteSetTheorems, WellFoundedInduction, NaturalsInduction, SequenceTheorems, TLAPS

(* A map with keys in D and values in R. *)
Maps(D, R) == UNION {[E -> R] : E \in SUBSET D}

Modes   == {"MIRROR", "EXPAND"}
Screens == [rs : RsIds, group : Int, node : Int]
Groups  == [mode : Modes, mirror : Int, kids : SUBSET Nat, mapped : BOOLEAN]
Shows   == [screen : Int, group : Int]
Tasks   == [op : {"connected"}, of : Real] \cup [op : {"disconnected"}, of : HotPlug]
             \cup [op : {"tellConnect", "tellDisconnect"}, of : Nat]
States  == [count : Nat, dms2rs : Maps(Nat, RsIds \cup {NoRs}), rs2dms : Maps(RsIds, Nat),
            screens : Maps(Nat, Screens), groups : Maps(Nat, Groups),
            displays : Maps(Nat, Shows), nextDisplay : Nat, defaultRs : Real \cup {NoRs},
            tasks : Seq(Tasks), fault : BOOLEAN, agents : [Agents -> SUBSET Nat]]

(* The two maps are inverse to each other, and a screen has an id in them. *)
Paired(s) ==
    /\ \A r \in DOMAIN s.rs2dms : s.rs2dms[r] \in DOMAIN s.dms2rs /\ s.dms2rs[s.rs2dms[r]] = r
    /\ \A id \in DOMAIN s.dms2rs : s.dms2rs[id] # NoRs =>
         s.dms2rs[id] \in DOMAIN s.rs2dms /\ s.rs2dms[s.dms2rs[id]] = id
    /\ \A id \in DOMAIN s.screens : id \in DOMAIN s.dms2rs /\ s.dms2rs[id] = s.screens[id].rs
Bounded(s) == \A id \in DOMAIN s.dms2rs : id < s.count

(* What a group may mirror: no virtual screen, nor one that is still to    *)
(* come.                                                                   *)
Source(s, id) == id < s.count /\ (id \in DOMAIN s.dms2rs => s.dms2rs[id] \notin Virtual)
Sourced(s)    == \A g \in DOMAIN s.groups : Source(s, s.groups[g].mirror)

Good(s) == s \in States /\ Paired(s) /\ Bounded(s) /\ Sourced(s)

(* The last task of the queue q that tells the clients of the screen id    *)
(* tells them whether it is among the screens D; when no task of q does,   *)
(* the clients, who know the screens K, know.                              *)
Tells          == {"tellConnect", "tellDisconnect"}
IsTell(task, id)  == task.op \in Tells /\ task.of = id
LastTell(q, i, id) == IsTell(q[i], id) /\ \A j \in DOMAIN q : j > i => ~IsTell(q[j], id)
Untold(q, id)     == \A i \in DOMAIN q : ~IsTell(q[i], id)
Hear(q, K, D, id) ==
    \/ Untold(q, id) /\ (id \in K <=> id \in D)
    \/ \E i \in DOMAIN q : LastTell(q, i, id) /\ (q[i].op = "tellConnect" <=> id \in D)
Heeded(s, K) == \A id \in Nat : Hear(s.tasks, K, DOMAIN s.screens, id)
Hears(s, t)  == \A K \in SUBSET Nat : Heeded(s, K) => Heeded(t, K)

(* The ids of no screen. *)
Loose(s) == {id \in DOMAIN s.dms2rs : s.dms2rs[id] # NoRs /\ id \notin DOMAIN s.screens}

(* t is what s became when screens and groups were only added, the screens *)
(* physical ones with new ids.                                             *)
Keeps(s, t) ==
    /\ Good(t) /\ s.count =< t.count /\ t.agents = s.agents /\ Loose(t) \subseteq Loose(s) /\ Hears(s, t)
    /\ DOMAIN s.groups \subseteq DOMAIN t.groups
    /\ \A id \in DOMAIN s.dms2rs : id \in DOMAIN t.dms2rs /\ t.dms2rs[id] = s.dms2rs[id]
    /\ \A id \in DOMAIN s.screens : id \in DOMAIN t.screens /\ t.screens[id].rs = s.screens[id].rs
    /\ \A id \in DOMAIN t.screens \ DOMAIN s.screens : id >= s.count /\ t.screens[id].rs \in Real

(* A group in the maps has children, and all of them are screens that know *)
(* it; a screen with a node is one of the children of a group, and a       *)
(* screen that is out of every group has no node; and there is one group.  *)
Kids(s, g)  == s.groups[g].kids
Peopled(s)  == \A g \in Live(s) :
                 /\ Kids(s, g) # {}
                 /\ \A id \in Kids(s, g) : id \in DOMAIN s.screens /\ s.screens[id].group = g
Housed(s)   == \A id \in DOMAIN s.screens :
                 /\ s.screens[id].node # NoNode <=> s.screens[id].group # NoScreen
                 /\ s.screens[id].group # NoScreen =>
                      s.screens[id].group \in Live(s) /\ id \in Kids(s, s.screens[id].group)
OneGroup(s) == \A g, h \in Live(s) : g = h
Sound(s)    == Peopled(s) /\ Housed(s) /\ OneGroup(s)

(* The children of the groups, but for those of X, stay in them. *)
Stay(s, t, X) == \A g \in Live(s) : \A a \in Kids(s, g) \ X : g \in Live(t) /\ a \in Kids(t, g)

(* t is what s became when screens came, and nobody left a group.         *)
Grows(s, t) == Keeps(s, t) /\ (Sound(s) => Sound(t)) /\ Stay(s, t, {})

(* t is what s became when the screen id left its group.                  *)
Shrinks(s, t, id) ==
    /\ Keeps(s, t) /\ Stay(s, t, {id})
    /\ Sound(s) => Sound(t) /\ (id \in DOMAIN s.screens => t.screens[id].group = NoScreen)

(* The groups have the same children, and the screens that came are in    *)
(* none.                                                                  *)
Alike(s, t) ==
    /\ Live(t) = Live(s) /\ \A g \in Live(s) : Kids(t, g) = Kids(s, g)
    /\ \A id \in DOMAIN s.screens :
         id \in DOMAIN t.screens /\ t.screens[id].group = s.screens[id].group /\ t.screens[id].node = s.screens[id].node
    /\ \A id \in DOMAIN t.screens \ DOMAIN s.screens :
         t.screens[id].group = NoScreen /\ t.screens[id].node = NoNode

(* Only ids, tasks, displays, owners and group objects nothing refers to   *)
(* changed.                                                                *)
Same(s, t) == Alike(s, t) /\ t.screens = s.screens /\ t.defaultRs = s.defaultRs

(* The screen id is a child of the group g now.                           *)
Attached(s, g, id, node, t) ==
    /\ DOMAIN t.groups = DOMAIN s.groups /\ DOMAIN t.screens = DOMAIN s.screens
    /\ Kids(t, g) = Kids(s, g) \cup {id} /\ t.groups[g].mapped = s.groups[g].mapped
    /\ \A x \in DOMAIN s.groups \ {g} : t.groups[x] = s.groups[x]
    /\ id \in DOMAIN s.screens => t.screens[id].group = g /\ t.screens[id].node = node
    /\ \A x \in DOMAIN s.screens \ {id} : t.screens[x] = s.screens[x]
    /\ t.defaultRs = s.defaultRs

LEMMA MapsDef ==
  ASSUME NEW D, NEW R, NEW f
  PROVE  f \in Maps(D, R) <=> f \in [DOMAIN f -> R] /\ DOMAIN f \subseteq D
BY DEF Maps

LEMMA MapsAt ==
  ASSUME NEW D, NEW R, NEW f \in Maps(D, R)
  PROVE  DOMAIN f \subseteq D /\ \A x \in DOMAIN f : f[x] \in R
BY MapsDef

LEMMA EmptyMap == ASSUME NEW D, NEW R PROVE <<>> \in Maps(D, R)
<1>1. <<>> \in [{} -> R]
  OBVIOUS
<1> QED BY <1>1 DEF Maps

(* The least element of a set of natural numbers is one of them. *)
LEMMA MinIn == ASSUME NEW S \in SUBSET Nat, S # {} PROVE Min(S) \in S
<1>1. PICK x \in S : \A y \in S : ~(<<y, x>> \in OpToRel(<, Nat))
  BY NatLessThanWellFounded, WFMin
<1>2. \A y \in S : <<y, x>> \in Nat \X Nat /\ <<y, x>>[1] = y /\ <<y, x>>[2] = x
  BY <1>1
<1>3. \A y \in S : ~(y < x)
  BY <1>1, <1>2, Zenon DEF OpToRel
<1>4. \A y \in S : x =< y
  BY <1>3
<1> QED BY <1>4 DEF Min

-----------------------------------------------------------------------------
(* What Good gives of the fields of a state. *)
LEMMA GoodFields ==
  ASSUME NEW s, Good(s)
  PROVE  /\ s \in States /\ s.count \in Nat /\ s.nextDisplay \in Nat /\ s.defaultRs \in Real \cup {NoRs}
         /\ s.dms2rs \in Maps(Nat, RsIds \cup {NoRs}) /\ DOMAIN s.dms2rs \subseteq Nat
         /\ s.rs2dms \in Maps(RsIds, Nat) /\ DOMAIN s.rs2dms \subseteq RsIds
         /\ \A r \in DOMAIN s.rs2dms : s.rs2dms[r] \in Nat
         /\ s.screens \in Maps(Nat, Screens) /\ DOMAIN s.screens \subseteq Nat
         /\ \A id \in DOMAIN s.screens : s.screens[id] \in Screens /\ id < s.count
         /\ s.groups \in Maps(Nat, Groups) /\ DOMAIN s.groups \subseteq Nat
         /\ \A g \in DOMAIN s.groups : s.groups[g] \in Groups
         /\ s.displays \in Maps(Nat, Shows) /\ s.tasks \in Seq(Tasks)
         /\ s.fault \in BOOLEAN /\ s.agents \in [Agents -> SUBSET Nat]
<1>1. /\ s \in States /\ s.count \in Nat /\ s.nextDisplay \in Nat /\ s.defaultRs \in Real \cup {NoRs}
      /\ s.dms2rs \in Maps(Nat, RsIds \cup {NoRs}) /\ s.rs2dms \in Maps(RsIds, Nat)
      /\ s.screens \in Maps(Nat, Screens) /\ s.groups \in Maps(Nat, Groups)
      /\ s.displays \in Maps(Nat, Shows) /\ s.tasks \in Seq(Tasks)
      /\ s.fault \in BOOLEAN /\ s.agents \in [Agents -> SUBSET Nat]
  BY DEF Good, States
<1>2. /\ DOMAIN s.dms2rs \subseteq Nat /\ DOMAIN s.rs2dms \subseteq RsIds
      /\ \A r \in DOMAIN s.rs2dms : s.rs2dms[r] \in Nat
      /\ DOMAIN s.screens \subseteq Nat /\ \A id \in DOMAIN s.screens : s.screens[id] \in Screens
      /\ DOMAIN s.groups \subseteq Nat /\ \A g \in DOMAIN s.groups : s.groups[g] \in Groups
  BY <1>1, MapsAt
<1>3. \A id \in DOMAIN s.screens : id < s.count
  BY DEF Good, Paired, Bounded
<1> QED BY <1>1, <1>2, <1>3

LEMMA KeepsSelf == ASSUME NEW s, Good(s) PROVE Keeps(s, s)
<1>1. Hears(s, s)
  BY DEF Hears
<1> QED BY <1>1, GoodFields DEF Keeps

LEMMA KeepsThen == ASSUME NEW s, NEW t, NEW u, Good(s), Keeps(s, t), Keeps(t, u) PROVE Keeps(s, u)
<1>1. s.count \in Nat /\ t.count \in Nat /\ u.count \in Nat
  BY GoodFields DEF Keeps
<1>2. \A id \in DOMAIN u.screens \ DOMAIN s.screens : id >= s.count /\ u.screens[id].rs \in Real
  <2> SUFFICES ASSUME NEW id \in DOMAIN u.screens \ DOMAIN s.screens
               PROVE  id >= s.count /\ u.screens[id].rs \in Real
    OBVIOUS
  <2>1. id \in Nat
    BY GoodFields DEF Keeps
  <2>2. CASE id \in DOMAIN t.screens
    BY <2>2 DEF Keeps
  <2>3. CASE id \notin DOMAIN t.screens
    BY <1>1, <2>1, <2>3 DEF Keeps
  <2> QED BY <2>2, <2>3
<1>3. Hears(s, u)
  BY DEF Keeps, Hears
<1> QED BY <1>1, <1>2, <1>3 DEF Keeps

(* The queue of tasks, and the screens that are there, make the clients    *)
(* agree in the end.                                                       *)
LEMMA HearsSame == ASSUME NEW s, NEW t, t.tasks = s.tasks, DOMAIN t.screens = DOMAIN s.screens PROVE Hears(s, t)
BY DEF Hears, Heeded

LEMMA QueueAppend ==
  ASSUME NEW q \in Seq(Tasks), NEW task \in Tasks, NEW p, p = Append(q, task)
  PROVE  /\ p \in Seq(Tasks) /\ DOMAIN p = DOMAIN q \cup {Len(q) + 1} /\ p[Len(q) + 1] = task
         /\ \A i \in DOMAIN q : i \in Nat /\ i < Len(q) + 1 /\ p[i] = q[i]
<1>1. Len(q) \in Nat /\ DOMAIN q = 1..Len(q)
  OBVIOUS
<1>2. p \in Seq(Tasks) /\ Len(p) = Len(q) + 1 /\ DOMAIN p = 1..(Len(q) + 1)
  BY <1>1
<1>3. p[Len(q) + 1] = task /\ \A i \in 1..Len(q) : p[i] = q[i]
  BY <1>1
<1> QED BY <1>1, <1>2, <1>3

LEMMA QueueTail ==
  ASSUME NEW q \in Seq(Tasks), q # <<>>, NEW p, p = Tail(q)
  PROVE  /\ p \in Seq(Tasks) /\ Head(q) = q[1] /\ q[1] \in Tasks /\ DOMAIN q \subseteq Nat
         /\ \A i \in DOMAIN q : i = 1 \/ (i - 1 \in DOMAIN p /\ p[i - 1] = q[i])
         /\ \A i \in DOMAIN p : i \in Nat /\ i + 1 \in DOMAIN q /\ p[i] = q[i + 1]
<1>1. Len(q) \in Nat /\ DOMAIN q = 1..Len(q) /\ Len(q) > 0
  OBVIOUS
<1>2. p \in Seq(Tasks) /\ Len(p) = Len(q) - 1 /\ DOMAIN p = 1..(Len(q) - 1)
  BY <1>1
<1>3. \A i \in 1..(Len(q) - 1) : p[i] = q[i + 1]
  BY <1>1
<1>4. \A i \in DOMAIN q : i = 1 \/ (i - 1 \in DOMAIN p /\ p[i - 1] = q[i])
  <2> SUFFICES ASSUME NEW i \in DOMAIN q, i # 1 PROVE i - 1 \in DOMAIN p /\ p[i - 1] = q[i]
    OBVIOUS
  <2>1. i - 1 \in 1..(Len(q) - 1) /\ (i - 1) + 1 = i
    BY <1>1
  <2> QED BY <1>2, <1>3, <2>1
<1> QED BY <1>1, <1>2, <1>3, <1>4

(* A task that tells nobody anything. *)
LEMMA QuietTask ==
  ASSUME NEW q \in Seq(Tasks), NEW task \in Tasks, task.op \notin Tells, NEW p, p = Append(q, task),
         NEW K, NEW D, NEW id, Hear(q, K, D, id)
  PROVE  Hear(p, K, D, id)
<1>1. /\ DOMAIN p = DOMAIN q \cup {Len(q) + 1} /\ p[Len(q) + 1] = task
      /\ \A i \in DOMAIN q : i \in Nat /\ i < Len(q) + 1 /\ p[i] = q[i]
  BY QueueAppend
<1>2. ~IsTell(p[Len(q) + 1], id)
  BY <1>1 DEF IsTell
<1>3. CASE Untold(q, id) /\ (id \in K <=> id \in D)
  <2>1. Untold(p, id)
    BY <1>1, <1>2, <1>3 DEF Untold
  <2> QED BY <1>3, <2>1 DEF Hear
<1>4. ASSUME NEW i \in DOMAIN q, LastTell(q, i, id), q[i].op = "tellConnect" <=> id \in D PROVE Hear(p, K, D, id)
  <2>1. i \in DOMAIN p /\ p[i] = q[i] /\ LastTell(p, i, id)
    BY <1>1, <1>2, <1>4 DEF LastTell
  <2> QED BY <1>4, <2>1 DEF Hear
<1> QED BY <1>3, <1>4 DEF Hear

(* A screen comes or leaves, and the clients are to be told.              *)
LEMMA ToldTask ==
  ASSUME NEW q \in Seq(Tasks), NEW task \in Tasks, task.op \in Tells, NEW p, p = Append(q, task),
         NEW K, NEW D, NEW id, Hear(q, K, D, id),
         NEW E, id # task.of => (id \in E <=> id \in D), id = task.of => (task.op = "tellConnect" <=> id \in E)
  PROVE  Hear(p, K, E, id)
<1>1. /\ DOMAIN p = DOMAIN q \cup {Len(q) + 1} /\ p[Len(q) + 1] = task /\ Len(q) \in Nat
      /\ \A i \in DOMAIN q : i \in Nat /\ i < Len(q) + 1 /\ p[i] = q[i]
  BY QueueAppend
<1>2. CASE id = task.of
  <2>1. LastTell(p, Len(q) + 1, id)
    BY <1>1, <1>2 DEF LastTell, IsTell
  <2> QED BY <1>1, <1>2, <2>1 DEF Hear
<1>3. CASE id # task.of
  <2>1. ~IsTell(p[Len(q) + 1], id)
    BY <1>1, <1>3 DEF IsTell
  <2>2. CASE Untold(q, id) /\ (id \in K <=> id \in D)
    <3>1. Untold(p, id)
      BY <1>1, <2>1, <2>2 DEF Untold
    <3> QED BY <1>3, <2>2, <3>1 DEF Hear
  <2>3. ASSUME NEW i \in DOMAIN q, LastTell(q, i, id), q[i].op = "tellConnect" <=> id \in D PROVE Hear(p, K, E, id)
    <3>1. i \in DOMAIN p /\ p[i] = q[i] /\ LastTell(p, i, id)
      BY <1>1, <2>1, <2>3 DEF LastTell
    <3> QED BY <1>3, <2>3, <3>1 DEF Hear
  <2> QED BY <2>2, <2>3 DEF Hear
<1> QED BY <1>2, <1>3

(* The first task is done; what it told, the clients know (L).            *)
LEMMA DoneTask ==
  ASSUME NEW q \in Seq(Tasks), q # <<>>, NEW p, p = Tail(q), NEW K, NEW D, NEW id, Hear(q, K, D, id),
         NEW L, id \in L <=> IF IsTell(Head(q), id) THEN Head(q).op = "tellConnect" ELSE id \in K
  PROVE  Hear(p, L, D, id)
<1>1. /\ Head(q) = q[1] /\ DOMAIN q \subseteq Nat
      /\ \A i \in DOMAIN q : i = 1 \/ (i - 1 \in DOMAIN p /\ p[i - 1] = q[i])
      /\ \A i \in DOMAIN p : i \in Nat /\ i + 1 \in DOMAIN q /\ p[i] = q[i + 1]
  BY QueueTail
<1>2. 1 \in DOMAIN q
  OBVIOUS
<1>3. CASE Untold(q, id) /\ (id \in K <=> id \in D)
  <2>1. Untold(p, id) /\ ~IsTell(Head(q), id)
    BY <1>1, <1>2, <1>3 DEF Untold
  <2> QED BY <1>3, <2>1 DEF Hear
<1>4. ASSUME NEW i \in DOMAIN q, LastTell(q, i, id), q[i].op = "tellConnect" <=> id \in D PROVE Hear(p, L, D, id)
  <2>1. CASE i = 1
    <3>1. \A j \in DOMAIN p : ~IsTell(p[j], id)
      <4> SUFFICES ASSUME NEW j \in DOMAIN p PROVE ~IsTell(p[j], id)
        OBVIOUS
      <4>1. j \in Nat /\ j + 1 \in DOMAIN q /\ p[j] = q[j + 1] /\ j >= 1
        BY <1>1, QueueTail
      <4> QED BY <1>4, <2>1, <4>1 DEF LastTell
    <3>2. IsTell(Head(q), id) /\ (id \in L <=> id \in D)
      BY <1>1, <1>4, <2>1 DEF LastTell
    <3> QED BY <3>1, <3>2 DEF Hear, Untold
  <2>2. CASE i # 1
    <3>1. i - 1 \in DOMAIN p /\ p[i - 1] = q[i] /\ i \in Nat
      BY <1>1, <2>2
    <3>2. \A j \in DOMAIN p : j > i - 1 => ~IsTell(p[j], id)
      <4> SUFFICES ASSUME NEW j \in DOMAIN p, j > i - 1 PROVE ~IsTell(p[j], id)
        OBVIOUS
      <4>1. j \in Nat /\ j + 1 \in DOMAIN q /\ p[j] = q[j + 1]
        BY <1>1
      <4>2. j + 1 > i
        BY <3>1, <4>1
      <4> QED BY <1>4, <4>1, <4>2 DEF LastTell
    <3>3. LastTell(p, i - 1, id)
      BY <1>4, <3>1, <3>2 DEF LastTell
    <3> QED BY <1>4, <3>1, <3>3 DEF Hear
  <2> QED BY <2>1, <2>2
<1> QED BY <1>3, <1>4 DEF Hear

(* Where the maps of the ids stay, and the screens with their render       *)
(* service ids, no group object goes and all mirror what they may,         *)
(* everything is kept.                                                     *)
LEMMA KeepsIf ==
  ASSUME NEW s, NEW t \in States, Good(s), t.count = s.count, t.dms2rs = s.dms2rs, t.rs2dms = s.rs2dms,
         t.agents = s.agents, DOMAIN s.groups \subseteq DOMAIN t.groups, DOMAIN t.screens = DOMAIN s.screens,
         \A id \in DOMAIN s.screens : t.screens[id].rs = s.screens[id].rs,
         \A g \in DOMAIN t.groups : Source(s, t.groups[g].mirror), Hears(s, t)
  PROVE  Keeps(s, t)
<1>1. Good(t)
  <2>1. Sourced(t)
    BY DEF Sourced, Source
  <2> QED BY <2>1 DEF Good, Paired, Bounded
<1>2. Loose(t) = Loose(s)
  BY DEF Loose
<1> QED BY <1>1, <1>2, GoodFields DEF Keeps

LEMMA AlikeSound == ASSUME NEW s, NEW t, Alike(s, t) PROVE (Sound(s) => Sound(t)) /\ Stay(s, t, {})
<1>1. Stay(s, t, {})
  BY DEF Alike, Stay
<1>2. ASSUME Sound(s) PROVE Sound(t)
  <2>1. Peopled(t)
    BY <1>2 DEF Alike, Sound, Peopled
  <2>2. Housed(t)
    BY <1>2 DEF Alike, Sound, Housed
  <2>3. OneGroup(t)
    BY <1>2 DEF Alike, Sound, OneGroup
  <2> QED BY <2>1, <2>2, <2>3 DEF Sound
<1> QED BY <1>1, <1>2

LEMMA AlikeSame == ASSUME NEW s, NEW t, t.groups = s.groups, t.screens = s.screens PROVE Alike(s, t)
BY DEF Alike, Live, Kids

LEMMA AlikeGrows == ASSUME NEW s, NEW t, Keeps(s, t), Alike(s, t) PROVE Grows(s, t)
BY AlikeSound DEF Grows

LEMMA GrowsSelf == ASSUME NEW s, Good(s) PROVE Grows(s, s)
BY KeepsSelf, AlikeSame, AlikeGrows

LEMMA GrowsThen == ASSUME NEW s, NEW t, NEW u, Good(s), Grows(s, t), Grows(t, u) PROVE Grows(s, u)
<1>1. Keeps(s, u)
  BY KeepsThen DEF Grows
<1>2. Stay(s, u, {})
  BY DEF Grows, Stay
<1> QED BY <1>1, <1>2 DEF Grows

LEMMA GrowsShrinks ==
  ASSUME NEW s, NEW t, NEW u, Good(s), Grows(s, t), NEW id, Shrinks(t, u, id) PROVE Shrinks(s, u, id)
<1>1. Keeps(s, u)
  BY KeepsThen DEF Grows, Shrinks
<1>2. Stay(s, u, {id})
  BY DEF Grows, Shrinks, Stay
<1>3. id \in DOMAIN s.screens => id \in DOMAIN t.screens
  BY DEF Grows, Keeps
<1> QED BY <1>1, <1>2, <1>3 DEF Grows, Shrinks

LEMMA KeepsAll ==
  ASSUME NEW s, NEW t \in States, Good(s), t.count = s.count, t.dms2rs = s.dms2rs, t.rs2dms = s.rs2dms,
         t.agents = s.agents, t.groups = s.groups, t.screens = s.screens, t.tasks = s.tasks
  PROVE  Grows(s, t)
<1>1. Hears(s, t)
  BY HearsSame
<1>2. \A g \in DOMAIN t.groups : Source(s, t.groups[g].mirror)
  BY DEF Good, Sourced
<1> QED BY <1>1, <1>2, KeepsIf, AlikeSame, AlikeGrows

(* A physical screen may be mirrored.                                      *)
LEMMA RealSource ==
  ASSUME NEW s, Good(s), NEW id \in DOMAIN s.screens, s.screens[id].rs \notin Virtual
  PROVE  Source(s, id)
BY GoodFields DEF Good, Paired, Source

(* A new screen or group of screens gets the next id. *)
LEMMA CreateOK ==
  ASSUME NEW s, Good(s), NEW r \in RsIds \cup {NoRs}, r \notin DOMAIN s.rs2dms, NEW t, t = CreateScreenId(s, r)
  PROVE  /\ Good(t) /\ t.count = s.count + 1 /\ s.count \in DOMAIN t.dms2rs /\ t.dms2rs[s.count] = r
         /\ t.screens = s.screens /\ t.groups = s.groups /\ t.agents = s.agents /\ t.defaultRs = s.defaultRs
         /\ Loose(t) \subseteq Loose(s) \cup {s.count} /\ (r = NoRs => Keeps(s, t)) /\ Hears(s, t)
         /\ \A id \in DOMAIN s.dms2rs : id \in DOMAIN t.dms2rs \ {s.count} /\ t.dms2rs[id] = s.dms2rs[id]
<1>1. s \in States /\ s.count \in Nat /\ s.dms2rs \in Maps(Nat, RsIds \cup {NoRs}) /\ s.rs2dms \in Maps(RsIds, Nat)
  BY GoodFields
<1>2. /\ t.count = s.count + 1 /\ t.dms2rs = Put(s.dms2rs, s.count, r)
      /\ t.rs2dms = IF r = NoRs THEN s.rs2dms ELSE Put(s.rs2dms, r, s.count)
      /\ t.screens = s.screens /\ t.groups = s.groups /\ t.agents = s.agents /\ t.defaultRs = s.defaultRs
      /\ Hears(s, t)
  <2>1. t.tasks = s.tasks /\ t.screens = s.screens
    BY <1>1 DEF CreateScreenId, States
  <2>2. Hears(s, t)
    BY <2>1, HearsSame
  <2> QED BY <1>1, <2>2 DEF CreateScreenId, States
<1>3. /\ t.dms2rs \in Maps(Nat, RsIds \cup {NoRs}) /\ DOMAIN t.dms2rs = DOMAIN s.dms2rs \cup {s.count}
      /\ \A id \in DOMAIN t.dms2rs : t.dms2rs[id] = IF id = s.count THEN r ELSE s.dms2rs[id]
  BY <1>1, <1>2, MapsDef DEF Put
<1>4. r # NoRs => /\ t.rs2dms \in Maps(RsIds, Nat) /\ DOMAIN t.rs2dms = DOMAIN s.rs2dms \cup {r}
                  /\ \A x \in DOMAIN t.rs2dms : t.rs2dms[x] = IF x = r THEN s.count ELSE s.rs2dms[x]
  BY <1>1, <1>2, MapsDef DEF Put
<1>5. t \in States
  <2>1. t = [s EXCEPT !.count = t.count, !.dms2rs = t.dms2rs, !.rs2dms = t.rs2dms]
    BY <1>1 DEF CreateScreenId, States
  <2>2. t.count \in Nat /\ t.dms2rs \in Maps(Nat, RsIds \cup {NoRs}) /\ t.rs2dms \in Maps(RsIds, Nat)
    BY <1>1, <1>2, <1>3, <1>4
  <2> QED BY <1>1, <2>1, <2>2 DEF States
<1>6. Bounded(t) /\ Sourced(t)
  <2>1. Bounded(t)
    BY <1>1, <1>2, <1>3, GoodFields DEF Good, Bounded
  <2>2. ASSUME NEW g \in DOMAIN t.groups PROVE Source(t, t.groups[g].mirror)
    <3>1. PICK m \in Int : m = t.groups[g].mirror
      BY <1>2, <2>2, GoodFields DEF Groups
    <3>2. Source(s, m)
      BY <1>2, <2>2, <3>1 DEF Good, Sourced
    <3> QED BY <1>1, <1>2, <1>3, <3>1, <3>2 DEF Source
  <2> QED BY <2>1, <2>2 DEF Sourced
<1>7. Loose(t) \subseteq Loose(s) \cup {s.count}
  BY <1>2, <1>3 DEF Loose
<1>8. s.count \notin DOMAIN s.dms2rs
  BY <1>1 DEF Good, Bounded
<1>9. \A id \in DOMAIN t.screens : id \in DOMAIN t.dms2rs /\ t.dms2rs[id] = t.screens[id].rs
  BY <1>2, <1>3, <1>8 DEF Good, Paired
<1>10. CASE r = NoRs
  <2>1. Good(t)
    BY <1>2, <1>3, <1>5, <1>6, <1>8, <1>9, <1>10, GoodFields DEF Good, Paired
  <2>2. Loose(t) \subseteq Loose(s)
    BY <1>2, <1>3, <1>10 DEF Loose
  <2>3. Keeps(s, t)
    BY <1>1, <1>2, <1>3, <1>8, <2>1, <2>2 DEF Keeps
  <2> QED BY <1>2, <1>3, <1>7, <1>8, <2>1, <2>3
<1>11. CASE r # NoRs
  <2>1. /\ DOMAIN t.rs2dms = DOMAIN s.rs2dms \cup {r}
        /\ \A x \in DOMAIN t.rs2dms : t.rs2dms[x] = IF x = r THEN s.count ELSE s.rs2dms[x]
    BY <1>4, <1>11
  <2>2. \A x \in DOMAIN t.rs2dms : t.rs2dms[x] \in DOMAIN t.dms2rs /\ t.dms2rs[t.rs2dms[x]] = x
    BY <1>3, <1>8, <2>1 DEF Good, Paired
  <2>3. \A id \in DOMAIN t.dms2rs : t.dms2rs[id] # NoRs =>
          t.dms2rs[id] \in DOMAIN t.rs2dms /\ t.rs2dms[t.dms2rs[id]] = id
    BY <1>3, <1>8, <2>1 DEF Good, Paired
  <2>4. Good(t)
    BY <1>5, <1>6, <1>9, <2>2, <2>3 DEF Good, Paired
  <2> QED BY <1>2, <1>3, <1>7, <1>8, <1>11, <2>4
<1> QED BY <1>10, <1>11

(* An id is given up when its screen is gone. *)
LEMMA DeleteOK ==
  ASSUME NEW s, Good(s), NEW id, id \notin DOMAIN s.screens, NEW t, t = DeleteScreenId(s, id)
  PROVE  /\ Good(t) /\ t.count = s.count /\ t.screens = s.screens /\ t.groups = s.groups
         /\ t.agents = s.agents /\ Loose(t) \subseteq Loose(s) \ {id} /\ Hears(s, t) /\ t.defaultRs = s.defaultRs
         /\ \A x \in DOMAIN s.dms2rs \ {id} : x \in DOMAIN t.dms2rs /\ t.dms2rs[x] = s.dms2rs[x]
<1>1. s \in States /\ s.dms2rs \in Maps(Nat, RsIds \cup {NoRs}) /\ s.rs2dms \in Maps(RsIds, Nat) /\ s.count \in Nat
  BY GoodFields
<1>2. CASE id \notin DOMAIN s.dms2rs
  <2>1. t = s
    BY <1>2 DEF DeleteScreenId
  <2>2. Hears(s, t)
    BY <2>1, HearsSame
  <2> QED BY <1>2, <2>1, <2>2 DEF Loose
<1>3. CASE id \in DOMAIN s.dms2rs
  <2>1. t = [s EXCEPT !.dms2rs = Without(s.dms2rs, id), !.rs2dms = Without(s.rs2dms, s.dms2rs[id])]
    BY <1>3 DEF DeleteScreenId
  <2>2. /\ t.dms2rs = Without(s.dms2rs, id) /\ t.rs2dms = Without(s.rs2dms, s.dms2rs[id])
        /\ t.count = s.count /\ t.screens = s.screens /\ t.groups = s.groups /\ t.agents = s.agents
        /\ t = [s EXCEPT !.dms2rs = t.dms2rs, !.rs2dms = t.rs2dms] /\ t.tasks = s.tasks /\ t.defaultRs = s.defaultRs
    BY <1>1, <2>1 DEF States
  <2>3. /\ t.dms2rs \in Maps(Nat, RsIds \cup {NoRs}) /\ DOMAIN t.dms2rs = DOMAIN s.dms2rs \ {id}
        /\ \A x \in DOMAIN t.dms2rs : t.dms2rs[x] = s.dms2rs[x]
    BY <1>1, <2>2, MapsDef DEF Without, Restrict
  <2>4. /\ t.rs2dms \in Maps(RsIds, Nat) /\ DOMAIN t.rs2dms = DOMAIN s.rs2dms \ {s.dms2rs[id]}
        /\ \A r \in DOMAIN t.rs2dms : t.rs2dms[r] = s.rs2dms[r]
    BY <1>1, <2>2, MapsDef DEF Without, Restrict
  <2>5. t \in States
    BY <1>1, <2>2, <2>3, <2>4 DEF States
  <2>6. /\ \A r \in DOMAIN t.rs2dms : t.rs2dms[r] \in DOMAIN t.dms2rs /\ t.dms2rs[t.rs2dms[r]] = r
        /\ \A x \in DOMAIN t.dms2rs : t.dms2rs[x] # NoRs => t.dms2rs[x] \in DOMAIN t.rs2dms /\ t.rs2dms[t.dms2rs[x]] = x
    BY <1>3, <2>3, <2>4 DEF Good, Paired
  <2>7. \A x \in DOMAIN t.screens : x \in DOMAIN t.dms2rs /\ t.dms2rs[x] = t.screens[x].rs
    BY <2>2, <2>3 DEF Good, Paired
  <2>8. Bounded(t) /\ Loose(t) \subseteq Loose(s) \ {id}
    BY <2>2, <2>3 DEF Good, Bounded, Loose
  <2>9. Good(t)
    <3>1. Sourced(t)
      BY <2>2, <2>3 DEF Good, Sourced, Source
    <3> QED BY <2>5, <2>6, <2>7, <2>8, <3>1 DEF Good, Paired
  <2>10. Hears(s, t)
    BY <2>2, HearsSame
  <2> QED BY <2>2, <2>3, <2>8, <2>9, <2>10
<1> QED BY <1>2, <1>3

LEMMA EraseOK ==
  ASSUME NEW s, Good(s), NEW id \in Nat, NEW t, t = EraseScreen(s, id)
  PROVE  /\ Good(t) /\ t.count = s.count /\ DOMAIN t.screens = DOMAIN s.screens \ {id}
         /\ \A x \in DOMAIN t.screens : t.screens[x] = s.screens[x]
         /\ t.groups = s.groups /\ t.agents = s.agents /\ Loose(t) \subseteq Loose(s) \cup {id} /\ Hears(s, t)
<1>1. s \in States /\ s.screens \in Maps(Nat, Screens) /\ s.tasks \in Seq(Tasks)
  BY GoodFields
<1>2. t = [s EXCEPT !.screens = Without(s.screens, id), !.tasks = Append(s.tasks, [op |-> "tellDisconnect", of |-> id])]
  BY <1>1 DEF EraseScreen, PostTask, States
<1>3. /\ t.screens = Without(s.screens, id) /\ t.tasks = Append(s.tasks, [op |-> "tellDisconnect", of |-> id])
      /\ t.count = s.count /\ t.groups = s.groups /\ t.agents = s.agents /\ t.dms2rs = s.dms2rs /\ t.rs2dms = s.rs2dms
      /\ t = [s EXCEPT !.screens = t.screens, !.tasks = t.tasks]
  BY <1>1, <1>2 DEF States
<1>4. /\ t.screens \in Maps(Nat, Screens) /\ DOMAIN t.screens = DOMAIN s.screens \ {id}
      /\ \A x \in DOMAIN t.screens : t.screens[x] = s.screens[x]
  <2>1. t.screens = Without(s.screens, id) /\ s.screens \in Maps(Nat, Screens)
    BY <1>1, <1>3
  <2> QED BY <2>1, MapsDef DEF Without, Restrict
<1>5. t.tasks \in Seq(Tasks) /\ Hears(s, t)
  <2>1. PICK task : task = [op |-> "tellDisconnect", of |-> id]
    OBVIOUS
  <2>2. task \in Tasks /\ task.op \in Tells /\ task.op # "tellConnect" /\ task.of = id
    BY <2>1 DEF Tasks, Tells
  <2>3. t.tasks = Append(s.tasks, task)
    BY <1>3, <2>1
  <2>4. ASSUME NEW K, NEW x \in Nat, Hear(s.tasks, K, DOMAIN s.screens, x)
        PROVE  Hear(t.tasks, K, DOMAIN t.screens, x)
    BY <1>1, <1>4, <2>2, <2>3, <2>4, ToldTask
  <2> QED BY <1>1, <2>2, <2>3, <2>4, QueueAppend DEF Hears, Heeded
<1>6. t \in States
  BY <1>1, <1>3, <1>4, <1>5 DEF States
<1>7. Paired(t) /\ Bounded(t) /\ Loose(t) \subseteq Loose(s) \cup {id}
  BY <1>3, <1>4 DEF Good, Paired, Bounded, Loose
<1>8. Sourced(t)
  BY <1>3 DEF Good, Sourced, Source
<1> QED BY <1>3, <1>4, <1>5, <1>6, <1>7, <1>8 DEF Good

(* A screen that goes was in no group. *)
LEMMA EraseSound ==
  ASSUME NEW s, Good(s), NEW id \in Nat, s.screens[id].group = NoScreen, NEW t, t = EraseScreen(s, id), Sound(s)
  PROVE  Sound(t)
<1>1. /\ DOMAIN t.screens = DOMAIN s.screens \ {id} /\ t.groups = s.groups
      /\ \A x \in DOMAIN t.screens : t.screens[x] = s.screens[x]
  BY EraseOK
<1>2. Live(t) = Live(s) /\ Live(s) \subseteq Nat /\ \A g \in Live(s) : Kids(t, g) = Kids(s, g)
  BY <1>1, GoodFields DEF Live, Kids
<1>3. NoScreen \notin Live(s)
  BY <1>2 DEF NoScreen
<1>4. Peopled(t)
  BY <1>1, <1>2, <1>3 DEF Sound, Peopled
<1>5. Housed(t) /\ OneGroup(t)
  BY <1>1, <1>2 DEF Sound, Housed, OneGroup
<1> QED BY <1>4, <1>5 DEF Sound

(* A screen with an id of its own is there now. *)
Inserted(s, id, r, t) ==
    /\ Good(t) /\ t.count = s.count /\ DOMAIN t.screens = DOMAIN s.screens \cup {id} /\ t.screens[id].rs = r
    /\ \A x \in DOMAIN s.screens \ {id} : t.screens[x] = s.screens[x]
    /\ t.groups = s.groups /\ t.agents = s.agents /\ t.defaultRs = s.defaultRs /\ Loose(t) \subseteq Loose(s) \ {id}
    /\ t.dms2rs = s.dms2rs /\ Hears(s, t)
    /\ t.screens[id].group = NoScreen /\ t.screens[id].node = NoNode

LEMMA InsertOK ==
  ASSUME NEW s, Good(s), NEW id \in Nat, NEW r \in RsIds, id \in DOMAIN s.dms2rs, s.dms2rs[id] = r,
         NEW t, t = InsertScreen(s, id, r)
  PROVE  Inserted(s, id, r, t)
<1> DEFINE new == [rs |-> r, group |-> NoScreen, node |-> NoNode]
<1>1. s \in States /\ s.screens \in Maps(Nat, Screens) /\ s.tasks \in Seq(Tasks)
  BY GoodFields
<1>2. new \in Screens /\ new.rs = r /\ new.group = NoScreen /\ new.node = NoNode
  BY DEF Screens, NoScreen, NoNode
<1>3. t = [s EXCEPT !.screens = Put(s.screens, id, new), !.tasks = Append(s.tasks, [op |-> "tellConnect", of |-> id])]
  BY <1>1 DEF InsertScreen, PostTask, States
<1>4. /\ t.screens = Put(s.screens, id, new) /\ t.tasks = Append(s.tasks, [op |-> "tellConnect", of |-> id])
      /\ t.count = s.count /\ t.groups = s.groups /\ t.agents = s.agents /\ t.defaultRs = s.defaultRs
      /\ t.dms2rs = s.dms2rs /\ t.rs2dms = s.rs2dms
      /\ t = [s EXCEPT !.screens = t.screens, !.tasks = t.tasks]
  BY <1>1, <1>3 DEF States
<1> HIDE DEF new
<1>5. /\ t.screens \in Maps(Nat, Screens) /\ DOMAIN t.screens = DOMAIN s.screens \cup {id}
      /\ \A x \in DOMAIN t.screens : t.screens[x] = IF x = id THEN new ELSE s.screens[x]
  <2>1. t.screens = Put(s.screens, id, new) /\ s.screens \in Maps(Nat, Screens) /\ new \in Screens
    BY <1>1, <1>2, <1>4
  <2> QED BY <2>1, MapsDef DEF Put
<1>6. t.tasks \in Seq(Tasks) /\ Hears(s, t)
  <2>1. PICK task : task = [op |-> "tellConnect", of |-> id]
    OBVIOUS
  <2>2. task \in Tasks /\ task.op \in Tells /\ task.op = "tellConnect" /\ task.of = id
    BY <2>1 DEF Tasks, Tells
  <2>3. t.tasks = Append(s.tasks, task)
    BY <1>4, <2>1
  <2>4. ASSUME NEW K, NEW x \in Nat, Hear(s.tasks, K, DOMAIN s.screens, x)
        PROVE  Hear(t.tasks, K, DOMAIN t.screens, x)
    <3>1. /\ x # task.of => (x \in DOMAIN t.screens <=> x \in DOMAIN s.screens)
          /\ x = task.of => (task.op = "tellConnect" <=> x \in DOMAIN t.screens)
      BY <1>5, <2>2
    <3> QED BY ONLY <1>1, <2>2, <2>3, <2>4, <3>1, ToldTask
  <2> QED BY <1>1, <2>2, <2>3, <2>4, QueueAppend DEF Hears, Heeded
<1>7. t \in States
  BY <1>1, <1>4, <1>5, <1>6 DEF States
<1>8. Paired(t) /\ Bounded(t) /\ Loose(t) \subseteq Loose(s) \ {id}
  BY <1>2, <1>4, <1>5 DEF Good, Paired, Bounded, Loose
<1>9. Sourced(t)
  BY <1>4 DEF Good, Sourced, Source
<1>10. Good(t)
  BY <1>7, <1>8, <1>9 DEF Good
<1> QED BY <1>2, <1>4, <1>5, <1>6, <1>8, <1>10 DEF Inserted

-----------------------------------------------------------------------------
(* Groups. *)
LEMMA GroupOfOK ==
  ASSUME NEW s, Good(s), NEW id
  PROVE  /\ GroupOf(s, id) \in Int /\ NoScreen \notin DOMAIN s.groups
         /\ GroupOf(s, id) # NoScreen => GroupOf(s, id) \in DOMAIN s.groups /\ id \in DOMAIN s.screens
BY GoodFields DEF GroupOf, Live, NoScreen, Screens

(* Screens and groups are changed, and nothing else is. *)
LEMMA ChangedOK ==
  ASSUME NEW s, Good(s), NEW t, t = [s EXCEPT !.screens = t.screens, !.groups = t.groups],
         t.screens \in Maps(Nat, Screens), t.groups \in Maps(Nat, Groups),
         DOMAIN t.screens = DOMAIN s.screens, \A id \in DOMAIN s.screens : t.screens[id].rs = s.screens[id].rs,
         DOMAIN s.groups \subseteq DOMAIN t.groups, \A g \in DOMAIN t.groups : Source(s, t.groups[g].mirror)
  PROVE  Keeps(s, t) /\ t.count = s.count
<1>1. s \in States
  BY DEF Good
<1>2. t \in States
  BY <1>1 DEF States
<1>3. /\ t.count = s.count /\ t.dms2rs = s.dms2rs /\ t.rs2dms = s.rs2dms /\ t.agents = s.agents
      /\ t.tasks = s.tasks
  BY <1>1 DEF States
<1>4. Hears(s, t)
  BY <1>3, HearsSame
<1> QED BY <1>2, <1>3, <1>4, KeepsIf

LEMMA ScreenLike ==
  ASSUME NEW c \in Screens, NEW g \in Int, NEW node \in Int
  PROVE  /\ [c EXCEPT !.group = g, !.node = node] \in Screens /\ [c EXCEPT !.group = g, !.node = node].rs = c.rs
         /\ [c EXCEPT !.node = node] \in Screens /\ [c EXCEPT !.node = node].rs = c.rs
BY DEF Screens

LEMMA GroupSet ==
  ASSUME NEW f \in Maps(Nat, Groups), NEW g \in DOMAIN f, NEW v \in Groups, NEW h, h = [f EXCEPT ![g] = v]
  PROVE  h \in Maps(Nat, Groups) /\ DOMAIN h = DOMAIN f /\ h[g] = v /\ \A x \in DOMAIN f \ {g} : h[x] = f[x]
<1>1. f \in [DOMAIN f -> Groups] /\ DOMAIN f \subseteq Nat
  BY MapsDef
<1>2. /\ h \in [DOMAIN f -> Groups] /\ DOMAIN h = DOMAIN f /\ h[g] = v
      /\ \A x \in DOMAIN f \ {g} : h[x] = f[x]
  BY <1>1
<1> QED BY <1>1, <1>2, MapsDef

LEMMA AttachOK ==
  ASSUME NEW s, Good(s), NEW g \in DOMAIN s.groups, NEW id \in Nat, NEW node \in Int,
         NEW t, t = AttachChild(s, g, id, node)
  PROVE  Keeps(s, t) /\ t.count = s.count /\ Attached(s, g, id, node, t)
<1>1. /\ s \in States /\ s.screens \in Maps(Nat, Screens) /\ s.groups \in Maps(Nat, Groups) /\ g \in Int
      /\ s.groups[g] \in Groups
  BY GoodFields
<1> DEFINE more == [s.groups[g] EXCEPT !.kids = @ \cup {id}]
<1>2. /\ more \in Groups /\ more.mirror = s.groups[g].mirror /\ more.mapped = s.groups[g].mapped
      /\ more.kids = s.groups[g].kids \cup {id}
  BY <1>1 DEF Groups
<1> DEFINE joined == [s.screens EXCEPT ![id].group = g, ![id].node = node]
<1>3. t = [s EXCEPT !.groups = [s.groups EXCEPT ![g] = more], !.screens = joined]
  BY DEF AttachChild
<1>4. PICK fields : fields = DOMAIN s /\ {"screens", "groups"} \subseteq fields
  BY <1>1 DEF States
<1> HIDE DEF more, joined
<1>5. t.groups = [s.groups EXCEPT ![g] = more]
  BY <1>3, <1>4
<1>6. t.screens = joined /\ t.defaultRs = s.defaultRs
  BY <1>1, <1>3, <1>4 DEF States
<1>7. t.screens = [s.screens EXCEPT ![id].group = g, ![id].node = node]
  BY <1>6 DEF joined
<1>8. t = [s EXCEPT !.screens = t.screens, !.groups = t.groups]
  BY <1>3, <1>6, <1>5
<1>9. /\ t.groups \in Maps(Nat, Groups) /\ DOMAIN t.groups = DOMAIN s.groups
      /\ \A x \in DOMAIN t.groups : Source(s, t.groups[x].mirror)
      /\ t.groups[g] = more /\ \A x \in DOMAIN s.groups \ {g} : t.groups[x] = s.groups[x]
  <2>1. /\ t.groups \in Maps(Nat, Groups) /\ DOMAIN t.groups = DOMAIN s.groups
        /\ t.groups[g] = more /\ \A x \in DOMAIN s.groups \ {g} : t.groups[x] = s.groups[x]
    BY <1>1, <1>2, <1>5, GroupSet
  <2>2. \A x \in DOMAIN s.groups : t.groups[x].mirror = s.groups[x].mirror
    BY <1>2, <2>1
  <2> QED BY <2>1, <2>2 DEF Good, Sourced
<1>10. /\ t.screens \in Maps(Nat, Screens) /\ DOMAIN t.screens = DOMAIN s.screens
       /\ \A x \in DOMAIN s.screens : t.screens[x].rs = s.screens[x].rs
       /\ id \in DOMAIN s.screens => t.screens[id].group = g /\ t.screens[id].node = node
       /\ \A x \in DOMAIN s.screens \ {id} : t.screens[x] = s.screens[x]
  <2>1. s.screens \in [DOMAIN s.screens -> Screens] /\ DOMAIN s.screens \subseteq Nat
    BY <1>1, MapsDef
  <2>2. t.screens = [s.screens EXCEPT ![id] = [@ EXCEPT !.group = g, !.node = node]]
    BY <1>7
  <2>3. PICK v : v = [s.screens[id] EXCEPT !.group = g, !.node = node]
    OBVIOUS
  <2>4. t.screens = [s.screens EXCEPT ![id] = v]
    BY <2>2, <2>3
  <2>5. id \in DOMAIN s.screens => v \in Screens /\ v.rs = s.screens[id].rs /\ v.group = g /\ v.node = node
    <3>1. PICK c : c = s.screens[id]
      OBVIOUS
    <3>2. id \in DOMAIN s.screens => c \in Screens
      BY <2>1, <3>1
    <3>3. v = [c EXCEPT !.group = g, !.node = node] /\ g \in Int
      BY <1>1, <2>3, <3>1
    <3>4. c \in Screens => v \in Screens /\ v.rs = c.rs /\ v.group = g /\ v.node = node
      BY <3>3, ScreenLike DEF Screens
    <3> QED BY <3>1, <3>2, <3>4
  <2>6. /\ t.screens \in [DOMAIN s.screens -> Screens] /\ DOMAIN t.screens = DOMAIN s.screens
        /\ \A x \in DOMAIN s.screens : t.screens[x].rs = s.screens[x].rs
    BY <2>1, <2>4, <2>5
  <2>7. /\ id \in DOMAIN s.screens => t.screens[id] = v
        /\ \A x \in DOMAIN s.screens \ {id} : t.screens[x] = s.screens[x]
    BY <2>1, <2>4
  <2> QED BY <2>1, <2>5, <2>6, <2>7, MapsDef
<1>11. Keeps(s, t) /\ t.count = s.count
  <2>1. /\ t.groups \in Maps(Nat, Groups) /\ DOMAIN t.groups = DOMAIN s.groups
        /\ \A x \in DOMAIN t.groups : Source(s, t.groups[x].mirror)
    BY <1>9
  <2>2. /\ t.screens \in Maps(Nat, Screens) /\ DOMAIN t.screens = DOMAIN s.screens
        /\ \A x \in DOMAIN s.screens : t.screens[x].rs = s.screens[x].rs
    BY <1>10
  <2> QED BY ONLY Good(s), <1>8, <2>1, <2>2, ChangedOK
<1>12. Attached(s, g, id, node, t)
  <2>1. t.groups[g].kids = s.groups[g].kids \cup {id} /\ t.groups[g].mapped = s.groups[g].mapped
    BY <1>2, <1>9
  <2>2. DOMAIN t.groups = DOMAIN s.groups /\ \A x \in DOMAIN s.groups \ {g} : t.groups[x] = s.groups[x]
    BY <1>9
  <2>3. /\ DOMAIN t.screens = DOMAIN s.screens
        /\ id \in DOMAIN s.screens => t.screens[id].group = g /\ t.screens[id].node = node
        /\ \A x \in DOMAIN s.screens \ {id} : t.screens[x] = s.screens[x]
    BY <1>10
  <2> QED BY ONLY <1>6, <2>1, <2>2, <2>3 DEF Attached, Kids
<1> QED BY <1>11, <1>12

(* A screen joins a group that is there, and had been in no other.         *)
LEMMA AttachGrows ==
  ASSUME NEW s, Good(s), NEW g \in Live(s), NEW id \in DOMAIN s.screens, NEW node, node # NoNode,
         NEW t, Keeps(s, t), Attached(s, g, id, node, t)
  PROVE  Grows(s, t)
<1>1. g \in DOMAIN s.groups /\ g # NoScreen
  BY GoodFields DEF Live, NoScreen
<1>2. Live(t) = Live(s) /\ \A h \in Live(s) \ {g} : Kids(t, h) = Kids(s, h)
  BY <1>1 DEF Attached, Live, Kids
<1>3. Kids(t, g) = Kids(s, g) \cup {id}
  BY DEF Attached
<1>4. Stay(s, t, {})
  BY <1>2, <1>3 DEF Stay
<1>5. ASSUME Sound(s) PROVE Sound(t)
  <2>1. \A h \in Live(s) : h = g
    BY <1>5 DEF Sound, OneGroup
  <2>2. Peopled(t)
    BY <1>2, <1>3, <1>5, <2>1 DEF Attached, Sound, Peopled
  <2>3. Housed(t)
    BY <1>1, <1>2, <1>3, <1>5, <2>1 DEF Attached, Sound, Housed
  <2>4. OneGroup(t)
    BY <1>2, <2>1 DEF OneGroup
  <2> QED BY <2>2, <2>3, <2>4 DEF Sound
<1> QED BY <1>4, <1>5 DEF Grows

LEMMA FirstOK ==
  ASSUME NEW s, Good(s), NEW id \in Nat, Source(s, id), NEW t, t = AddAsFirstScreen(s, id)
  PROVE  /\ Keeps(s, t) /\ DOMAIN t.screens = DOMAIN s.screens /\ t.defaultRs = s.defaultRs
         /\ Live(s) = {} /\ id \in DOMAIN s.screens => Grows(s, t)
<1>1. PICK made : made = CreateScreenId(s, NoRs)
  OBVIOUS
<1>2. PICK group : group = [mode |-> "MIRROR", mirror |-> id, kids |-> {}, mapped |-> TRUE]
  OBVIOUS
<1>3. PICK grown : grown = [made EXCEPT !.groups = Put(@, s.count, group)]
  OBVIOUS
<1>4. /\ Good(made) /\ Keeps(s, made) /\ made.screens = s.screens /\ Source(made, id)
      /\ made.groups = s.groups /\ made.defaultRs = s.defaultRs
  <2>1. NoRs \notin Virtual /\ NoRs \in RsIds \cup {NoRs} /\ NoRs \notin DOMAIN s.rs2dms
    BY RsIdAssumption, GoodFields DEF RsIds
  <2>2. /\ Good(made) /\ Keeps(s, made) /\ made.screens = s.screens /\ made.count = s.count + 1
        /\ made.dms2rs[s.count] = NoRs /\ made.groups = s.groups /\ made.defaultRs = s.defaultRs
    BY <1>1, <2>1, CreateOK
  <2>3. made.dms2rs = Put(s.dms2rs, s.count, NoRs) /\ s.count \in Nat
    BY <1>1, GoodFields DEF CreateScreenId, States
  <2>4. id < made.count /\ id # s.count
    BY <2>2, <2>3 DEF Source
  <2> QED BY <2>1, <2>2, <2>3, <2>4 DEF Source, Put
<1>5. group \in Groups /\ group.mirror = id
  BY <1>2 DEF Groups, Modes
<1>6. made \in States /\ made.screens \in Maps(Nat, Screens) /\ made.groups \in Maps(Nat, Groups) /\ s.count \in Nat
  BY <1>4, GoodFields
<1>7. /\ grown.groups = Put(made.groups, s.count, group) /\ grown.screens = made.screens
      /\ grown.defaultRs = made.defaultRs
  BY <1>3, <1>6 DEF States
<1>8. grown = [made EXCEPT !.screens = grown.screens, !.groups = grown.groups]
  BY <1>3, <1>6 DEF States
<1>9. /\ grown.groups \in Maps(Nat, Groups) /\ DOMAIN grown.groups = DOMAIN made.groups \cup {s.count}
      /\ \A x \in DOMAIN grown.groups : Source(made, grown.groups[x].mirror)
      /\ \A x \in DOMAIN grown.groups : grown.groups[x] = IF x = s.count THEN group ELSE made.groups[x]
  <2>1. grown.groups = Put(made.groups, s.count, group)
    BY <1>7
  <2>2. \A x \in DOMAIN grown.groups : Source(made, grown.groups[x].mirror)
    BY <1>4, <1>5, <2>1 DEF Put, Good, Sourced
  <2>3. grown.groups \in Maps(Nat, Groups) /\ DOMAIN grown.groups = DOMAIN made.groups \cup {s.count}
    BY <1>5, <1>6, <2>1, MapsDef DEF Put
  <2>4. \A x \in DOMAIN grown.groups : grown.groups[x] = IF x = s.count THEN group ELSE made.groups[x]
    BY <2>1 DEF Put
  <2> QED BY <2>2, <2>3, <2>4
<1>10. Keeps(made, grown)
  <2>1. /\ grown.groups \in Maps(Nat, Groups) /\ DOMAIN made.groups \subseteq DOMAIN grown.groups
        /\ \A x \in DOMAIN grown.groups : Source(made, grown.groups[x].mirror)
    BY <1>9
  <2> QED BY <1>4, <1>6, <1>7, <1>8, <2>1, ChangedOK
<1>11. t = AttachChild(grown, s.count, id, OwnNode)
  BY <1>1, <1>2, <1>3 DEF AddAsFirstScreen
<1>12. Good(grown) /\ s.count \in DOMAIN grown.groups /\ OwnNode \in Int
  BY <1>9, <1>10 DEF Keeps, OwnNode
<1>13. Keeps(grown, t) /\ Attached(grown, s.count, id, OwnNode, t)
  BY <1>11, <1>12, AttachOK
<1>14. Keeps(s, grown)
  BY <1>4, <1>10, KeepsThen
<1>15. Keeps(s, t) /\ DOMAIN t.screens = DOMAIN s.screens /\ t.defaultRs = s.defaultRs
  <2>1. Keeps(s, t)
    BY <1>13, <1>14, KeepsThen
  <2> QED BY <1>4, <1>7, <1>13, <2>1 DEF Attached
<1>16. ASSUME Live(s) = {}, id \in DOMAIN s.screens PROVE Grows(s, t)
  <2>1. \A x \in DOMAIN t.groups \ {s.count} : ~t.groups[x].mapped
    BY <1>4, <1>9, <1>13, <1>16 DEF Attached, Live
  <2>2. s.count \in DOMAIN t.groups /\ t.groups[s.count].mapped /\ Kids(t, s.count) = {id}
    BY <1>2, <1>9, <1>12, <1>13 DEF Attached, Kids
  <2>3. Live(t) = {s.count}
    BY <2>1, <2>2 DEF Live
  <2>4. t.screens[id].group = s.count /\ t.screens[id].node = OwnNode /\ s.count # NoScreen /\ OwnNode # NoNode
    BY <1>4, <1>6, <1>7, <1>13, <1>16 DEF Attached, NoScreen, OwnNode, NoNode
  <2>5. \A x \in DOMAIN s.screens \ {id} : t.screens[x] = s.screens[x]
    BY <1>4, <1>7, <1>13 DEF Attached
  <2>6. Stay(s, t, {})
    BY <1>16 DEF Stay
  <2>7. ASSUME Sound(s) PROVE Sound(t)
    <3>1. \A x \in DOMAIN s.screens : s.screens[x].group = NoScreen /\ s.screens[x].node = NoNode
      BY <1>16, <2>7 DEF Sound, Housed
    <3>2. Housed(t)
      BY <1>15, <2>2, <2>3, <2>4, <2>5, <3>1 DEF Housed
    <3>3. Peopled(t) /\ OneGroup(t)
      BY <1>15, <1>16, <2>2, <2>3, <2>4 DEF Peopled, OneGroup
    <3> QED BY <3>2, <3>3 DEF Sound
  <2> QED BY <1>15, <2>6, <2>7 DEF Grows
<1> QED BY <1>15, <1>16

LEMMA RemoveChildOK ==
  ASSUME NEW s, Good(s), NEW g \in DOMAIN s.groups, NEW id \in Nat, NEW t, t = RemoveChildFromGroup(s, g, id)
  PROVE  Keeps(s, t) /\ (g = GroupOf(s, id) /\ g # NoScreen => Shrinks(s, t, id))
<1>1. /\ s \in States /\ s.screens \in Maps(Nat, Screens) /\ s.groups \in Maps(Nat, Groups)
      /\ s.groups[g] \in Groups
  BY GoodFields
<1> DEFINE less == [s.groups[g] EXCEPT !.kids = @ \ {id}, !.mapped = @ /\ s.groups[g].kids # {id}]
<1>2. /\ less \in Groups /\ less.mirror = s.groups[g].mirror /\ less.kids = s.groups[g].kids \ {id}
      /\ less.mapped = (s.groups[g].mapped /\ s.groups[g].kids # {id})
  BY <1>1 DEF Groups
<1>3. t.groups = [s.groups EXCEPT ![g] = less]
  BY <1>1 DEF RemoveChildFromGroup, States
<1>4. t = [s EXCEPT !.screens = t.screens, !.groups = t.groups]
  BY <1>1 DEF RemoveChildFromGroup, States
<1> HIDE DEF less
<1>5. /\ t.groups \in Maps(Nat, Groups) /\ DOMAIN t.groups = DOMAIN s.groups
      /\ \A x \in DOMAIN t.groups : Source(s, t.groups[x].mirror)
      /\ t.groups[g] = less /\ \A x \in DOMAIN s.groups \ {g} : t.groups[x] = s.groups[x]
  <2>1. /\ t.groups \in Maps(Nat, Groups) /\ DOMAIN t.groups = DOMAIN s.groups
        /\ t.groups[g] = less /\ \A x \in DOMAIN s.groups \ {g} : t.groups[x] = s.groups[x]
    BY <1>1, <1>2, <1>3, GroupSet
  <2>2. \A x \in DOMAIN s.groups : t.groups[x].mirror = s.groups[x].mirror
    BY <1>2, <2>1
  <2> QED BY <2>1, <2>2 DEF Good, Sourced
<1>6. t.screens = [x \in DOMAIN s.screens |-> t.screens[x]] /\ DOMAIN t.screens = DOMAIN s.screens
  BY <1>1 DEF RemoveChildFromGroup, States
<1>7. ASSUME NEW x \in DOMAIN s.screens
      PROVE  /\ t.screens[x] \in Screens /\ t.screens[x].rs = s.screens[x].rs
             /\ x = id => t.screens[x].group = NoScreen /\ t.screens[x].node = NoNode
             /\ x # id => /\ t.screens[x].group = s.screens[x].group
                          /\ t.screens[x].node = NoNode <=> s.screens[x].node = NoNode
  <2>1. s.screens[x] \in Screens
    BY GoodFields
  <2>2. NoScreen \in Int /\ NoNode \in Int /\ DeadNode \in Int
    BY DEF NoScreen, NoNode, DeadNode
  <2>3. CASE x = id
    <3>1. t.screens[x] = [s.screens[x] EXCEPT !.group = NoScreen, !.node = NoNode]
      BY <1>1, <2>3 DEF RemoveChildFromGroup, States
    <3> QED BY <2>1, <2>2, <2>3, <3>1 DEF Screens
  <2>4. CASE x # id /\ s.screens[x].node = id
    <3>1. t.screens[x] = [s.screens[x] EXCEPT !.node = DeadNode]
      BY <1>1, <2>1, <2>4 DEF RemoveChildFromGroup, States, Screens
    <3>2. s.screens[x].node # NoNode /\ DeadNode # NoNode
      BY <2>4 DEF NoNode, DeadNode
    <3> QED BY <2>1, <2>2, <2>4, <3>1, <3>2 DEF Screens
  <2>5. CASE x # id /\ s.screens[x].node # id
    <3>1. t.screens[x] = s.screens[x]
      BY <1>1, <2>1, <2>5 DEF RemoveChildFromGroup, States, Screens
    <3> QED BY <2>1, <2>5, <3>1
  <2> QED BY <2>3, <2>4, <2>5
<1>8. t.screens \in Maps(Nat, Screens)
  <2>1. DOMAIN s.screens \subseteq Nat
    BY GoodFields
  <2>2. t.screens \in [DOMAIN t.screens -> Screens]
    BY <1>6, <1>7
  <2> QED BY <1>6, <2>1, <2>2, MapsDef
<1>9. Keeps(s, t)
  <2>1. /\ t.groups \in Maps(Nat, Groups) /\ DOMAIN t.groups = DOMAIN s.groups
        /\ \A x \in DOMAIN t.groups : Source(s, t.groups[x].mirror)
    BY <1>5
  <2>2. DOMAIN t.screens = DOMAIN s.screens /\ \A x \in DOMAIN s.screens : t.screens[x].rs = s.screens[x].rs
    BY <1>6, <1>7
  <2> QED BY <1>4, <1>8, <2>1, <2>2, ChangedOK
<1>10. ASSUME g = GroupOf(s, id), g # NoScreen PROVE Shrinks(s, t, id)
  <2>1. g \in Live(s) /\ id \in DOMAIN s.screens /\ s.screens[id].group = g
    BY <1>10 DEF GroupOf
  <2>2. /\ \A x \in DOMAIN s.screens \ {id} :
              /\ t.screens[x].group = s.screens[x].group
              /\ t.screens[x].node = NoNode <=> s.screens[x].node = NoNode
        /\ t.screens[id].group = NoScreen /\ t.screens[id].node = NoNode /\ DOMAIN t.screens = DOMAIN s.screens
    BY <1>6, <1>7, <2>1
  <2>3. /\ \A x \in Live(s) \ {g} : x \in Live(t) /\ Kids(t, x) = Kids(s, x)
        /\ \A x \in Live(t) \ {g} : x \in Live(s)
    BY <1>5 DEF Live, Kids
  <2>4. Kids(t, g) = Kids(s, g) \ {id} /\ (g \in Live(t) <=> Kids(s, g) # {id})
    BY <1>2, <1>5, <2>1 DEF Live, Kids
  <2>5. Stay(s, t, {id})
    BY <2>3, <2>4 DEF Stay
  <2>6. ASSUME Sound(s) PROVE Sound(t)
    <3>1. \A h \in Live(s) : h = g
      BY <2>1, <2>6 DEF Sound, OneGroup
    <3>2. id \in Kids(s, g) /\ \A x \in Kids(s, g) : x \in DOMAIN s.screens /\ s.screens[x].group = g
      BY <1>10, <2>1, <2>6 DEF Sound, Peopled, Housed
    <3>3. Peopled(t)
      BY <2>2, <2>3, <2>4, <3>1, <3>2 DEF Peopled
    <3>4. Housed(t)
      <4>1. ASSUME NEW x \in DOMAIN s.screens \ {id}, s.screens[x].group # NoScreen
            PROVE  g \in Live(t) /\ x \in Kids(t, g) /\ t.screens[x].group = g
        BY <2>2, <2>4, <2>6, <3>1, <4>1 DEF Sound, Housed
      <4> QED BY <2>2, <2>6, <4>1 DEF Sound, Housed
    <3>5. OneGroup(t)
      BY <2>3, <3>1 DEF OneGroup
    <3> QED BY <3>3, <3>4, <3>5 DEF Sound
  <2> QED BY <1>9, <2>2, <2>5, <2>6 DEF Shrinks
<1> QED BY <1>9, <1>10

LEMMA RemoveOK == ASSUME NEW s, Good(s), NEW id, NEW t, t = RemoveFromGroup(s, id) PROVE Shrinks(s, t, id)
<1>1. CASE GroupOf(s, id) = NoScreen
  <2>1. t = s /\ Keeps(s, t) /\ Stay(s, t, {id})
    BY <1>1, KeepsSelf DEF RemoveFromGroup, Stay
  <2>2. Sound(s) /\ id \in DOMAIN s.screens => s.screens[id].group = NoScreen
    BY <1>1 DEF Sound, Housed, GroupOf
  <2> QED BY <2>1, <2>2 DEF Shrinks
<1>2. CASE GroupOf(s, id) # NoScreen
  <2>1. GroupOf(s, id) \in DOMAIN s.groups /\ id \in Nat
    BY <1>2, GroupOfOK, GoodFields
  <2>2. t = RemoveChildFromGroup(s, GroupOf(s, id), id)
    BY <1>2 DEF RemoveFromGroup
  <2> QED BY <1>2, <2>1, <2>2, RemoveChildOK
<1> QED BY <1>1, <1>2

-----------------------------------------------------------------------------
(* The render service, and the default screen. *)
Events == [op : {"connected"}, of : Real] \cup [op : {"disconnected"}, of : HotPlug]
RsOK == /\ rs \in [real : SUBSET Real, default : Real \cup {NoRs}, events : Seq(Events), plugs : Nat]
        /\ rs.default \in rs.real \cup {NoRs}

LEMMA InitAndGetOK ==
  ASSUME NEW s, Good(s), NEW r \in Real, r \notin DOMAIN s.rs2dms, NEW t, t = InitAndGetScreen(s, r)
  PROVE  /\ Grows(s, t) /\ Live(t) = Live(s) /\ t.defaultRs = s.defaultRs
         /\ r \in rs.real => s.count \in DOMAIN t.screens
<1>1. PICK made : made = CreateScreenId(s, r)
  OBVIOUS
<1>2. r \in RsIds /\ s.count \in Nat /\ \A id \in DOMAIN s.screens : id < s.count
  BY GoodFields DEF RsIds
<1>3. /\ Good(made) /\ made.count = s.count + 1 /\ s.count \in DOMAIN made.dms2rs /\ made.dms2rs[s.count] = r
      /\ made.screens = s.screens /\ made.groups = s.groups /\ made.agents = s.agents /\ made.defaultRs = s.defaultRs
      /\ Loose(made) \subseteq Loose(s) \cup {s.count} /\ Hears(s, made)
      /\ \A id \in DOMAIN s.dms2rs : id \in DOMAIN made.dms2rs \ {s.count} /\ made.dms2rs[id] = s.dms2rs[id]
  BY <1>1, <1>2, CreateOK
<1>4. s.count \notin DOMAIN made.screens
  BY <1>2, <1>3
<1>5. CASE r \in rs.real
  <2>1. t = InsertScreen(made, s.count, r)
    BY <1>1, <1>5 DEF InitAndGetScreen
  <2>2. /\ Good(t) /\ t.count = made.count /\ DOMAIN t.screens = DOMAIN made.screens \cup {s.count} /\ t.screens[s.count].rs = r
        /\ \A x \in DOMAIN made.screens \ {s.count} : t.screens[x] = made.screens[x]
        /\ t.groups = made.groups /\ t.agents = made.agents /\ Loose(t) \subseteq Loose(made) \ {s.count}
        /\ t.dms2rs = made.dms2rs /\ Hears(made, t) /\ t.defaultRs = made.defaultRs
        /\ t.screens[s.count].group = NoScreen /\ t.screens[s.count].node = NoNode
    <3>1. /\ Good(made) /\ r \in RsIds /\ s.count \in Nat
          /\ s.count \in DOMAIN made.dms2rs /\ made.dms2rs[s.count] = r
      BY <1>2, <1>3
    <3> QED BY <2>1, <3>1, InsertOK DEF Inserted
  <2>3. Hears(s, t)
    BY <1>3, <2>2 DEF Hears
  <2>4. Keeps(s, t)
    BY <1>2, <1>3, <1>4, <2>2, <2>3 DEF Keeps
  <2>5. Alike(s, t)
    BY <1>3, <1>4, <2>2 DEF Alike, Live, Kids
  <2> QED BY <1>3, <1>5, <2>2, <2>4, <2>5, AlikeGrows DEF Live
<1>6. CASE r \notin rs.real
  <2>1. t = DeleteScreenId(made, s.count)
    BY <1>1, <1>6 DEF InitAndGetScreen
  <2>2. /\ Good(t) /\ t.count = made.count /\ t.screens = made.screens /\ t.groups = made.groups
        /\ t.agents = made.agents /\ t.defaultRs = made.defaultRs /\ Loose(t) \subseteq Loose(made) \ {s.count} /\ Hears(made, t)
        /\ \A x \in DOMAIN made.dms2rs \ {s.count} : x \in DOMAIN t.dms2rs /\ t.dms2rs[x] = made.dms2rs[x]
    BY <1>3, <1>4, <2>1, DeleteOK
  <2>3. Hears(s, t)
    BY <1>3, <2>2 DEF Hears
  <2>4. Keeps(s, t)
    BY <1>2, <1>3, <1>6, <2>2, <2>3 DEF Keeps
  <2>5. Alike(s, t)
    BY <1>3, <2>2, AlikeSame
  <2> QED BY <1>3, <1>6, <2>2, <2>4, <2>5, AlikeGrows DEF Live
<1> QED BY <1>5, <1>6

LEMMA CreateDisplayOK ==
  ASSUME NEW s, Good(s), NEW id \in DOMAIN s.screens, NEW t, t = CreateDisplay(s, id)
  PROVE  Grows(s, t) /\ t.defaultRs = s.defaultRs
<1>1. s \in States /\ s.displays \in Maps(Nat, Shows) /\ s.nextDisplay \in Nat /\ s.screens[id] \in Screens /\ id \in Nat
  BY GoodFields
<1>2. PICK shows : shows = [screen |-> id, group |-> s.screens[id].group]
  OBVIOUS
<1>3. shows \in Shows
  BY <1>1, <1>2 DEF Shows, Screens
<1>4. t.displays = Put(s.displays, s.nextDisplay, shows) /\ t.nextDisplay = s.nextDisplay + 1
  BY <1>1, <1>2 DEF CreateDisplay, States
<1>5. t.displays \in Maps(Nat, Shows)
  <2>1. t.displays = Put(s.displays, s.nextDisplay, shows)
    BY <1>4
  <2> QED BY <1>1, <1>3, <2>1, MapsDef DEF Put
<1>6. t = [s EXCEPT !.displays = t.displays, !.nextDisplay = t.nextDisplay]
  BY <1>1 DEF CreateDisplay, States
<1>7. t.nextDisplay \in Nat
  BY <1>1, <1>4
<1>8. t \in States
  BY <1>1, <1>5, <1>6, <1>7 DEF States
<1>9. /\ t.count = s.count /\ t.dms2rs = s.dms2rs /\ t.rs2dms = s.rs2dms /\ t.agents = s.agents
      /\ t.groups = s.groups /\ t.screens = s.screens /\ t.tasks = s.tasks /\ t.defaultRs = s.defaultRs
  BY <1>1, <1>6 DEF States
<1> QED BY <1>8, <1>9, KeepsAll

LEMMA AskDefaultOK ==
  ASSUME RsOK, NEW s, Good(s), NEW t, t = AskDefault(s)
  PROVE  Grows(s, t) /\ t.rs2dms = s.rs2dms /\ t.defaultRs \in Real \cup {NoRs}
<1>1. s \in States /\ s.defaultRs \in Real \cup {NoRs}
  BY GoodFields
<1>2. t = [s EXCEPT !.defaultRs = t.defaultRs] /\ t.defaultRs = IF s.defaultRs = NoRs THEN rs.default ELSE s.defaultRs
  BY <1>1 DEF AskDefault, States
<1>3. t.defaultRs \in Real \cup {NoRs}
  BY <1>1, <1>2 DEF RsOK
<1>4. t \in States
  BY <1>1, <1>2, <1>3 DEF States
<1>5. /\ t.count = s.count /\ t.dms2rs = s.dms2rs /\ t.rs2dms = s.rs2dms /\ t.agents = s.agents
      /\ t.groups = s.groups /\ t.screens = s.screens /\ t.tasks = s.tasks
  BY <1>1, <1>2 DEF States
<1> QED BY <1>3, <1>4, <1>5, KeepsAll

LEMMA ConnectDefaultOK ==
  ASSUME NEW s, Good(s), s.defaultRs \in Real, s.defaultRs \notin DOMAIN s.rs2dms, NEW t, t = ConnectDefault(s)
  PROVE  Grows(s, t) /\ t.defaultRs = s.defaultRs
<1>1. PICK found : found = InitAndGetScreen(s, s.defaultRs)
  OBVIOUS
<1>2. /\ Grows(s, found) /\ Live(found) = Live(s) /\ found.defaultRs = s.defaultRs
      /\ s.defaultRs \in rs.real => s.count \in DOMAIN found.screens
  BY <1>1, InitAndGetOK
<1>3. Good(found)
  BY <1>2 DEF Grows, Keeps
<1>4. CASE s.defaultRs \in rs.real /\ Live(s) = {}
  <2>1. PICK first : first = AddAsFirstScreen(found, s.count)
    OBVIOUS
  <2>2. s.count \in Nat /\ s.count \in DOMAIN found.screens /\ Source(found, s.count)
    <3>1. found.screens[s.count].rs \notin Virtual
      BY <1>2, <1>4, RsIdAssumption, GoodFields DEF Grows, Keeps
    <3> QED BY <1>2, <1>3, <1>4, <3>1, RealSource, GoodFields
  <2>3. Grows(found, first) /\ DOMAIN first.screens = DOMAIN found.screens /\ first.defaultRs = found.defaultRs
    BY <1>2, <1>3, <1>4, <2>1, <2>2, FirstOK
  <2>4. t = CreateDisplay(first, s.count) /\ Good(first)
    BY <1>1, <1>4, <2>1, <2>3 DEF ConnectDefault, Grows, Keeps
  <2>5. Grows(first, t) /\ t.defaultRs = first.defaultRs
    BY <2>2, <2>3, <2>4, CreateDisplayOK
  <2>6. Grows(s, first)
    BY <1>2, <2>3, GrowsThen
  <2> QED BY <1>2, <2>3, <2>5, <2>6, GrowsThen
<1>5. CASE ~(s.defaultRs \in rs.real /\ Live(s) = {})
  BY <1>1, <1>2, <1>5 DEF ConnectDefault
<1> QED BY <1>4, <1>5

LEMMA WithDefaultOK ==
  ASSUME RsOK, NEW s, Good(s), NEW t, t = WithDefault(s) PROVE Grows(s, t) /\ t.defaultRs = AskDefault(s).defaultRs
<1>1. PICK asked : asked = AskDefault(s)
  OBVIOUS
<1>2. Grows(s, asked) /\ asked.defaultRs \in Real \cup {NoRs}
  BY <1>1, AskDefaultOK
<1>3. Good(asked)
  BY <1>2 DEF Grows, Keeps
<1>4. CASE asked.defaultRs = NoRs \/ HasRsScreenId(asked, asked.defaultRs)
  BY <1>1, <1>2, <1>4 DEF WithDefault
<1>5. CASE ~(asked.defaultRs = NoRs \/ HasRsScreenId(asked, asked.defaultRs))
  <2>1. t = ConnectDefault(asked)
    BY <1>1, <1>5 DEF WithDefault
  <2>2. Grows(asked, t) /\ t.defaultRs = asked.defaultRs
    BY <1>2, <1>3, <1>5, <2>1, ConnectDefaultOK DEF HasRsScreenId
  <2> QED BY <1>1, <1>2, <2>2, GrowsThen
<1> QED BY <1>4, <1>5

LEMMA DefaultScreenType ==
  ASSUME RsOK, NEW s, Good(s)
  PROVE  /\ DefaultScreen(s) \in Int /\ DefaultScreen(s) < s.count
         /\ DefaultScreen(s) # NoScreen =>
              DefaultScreen(s) \in DOMAIN s.dms2rs /\ s.dms2rs[DefaultScreen(s)] = AskDefault(s).defaultRs
         /\ AskDefault(s).defaultRs \in Real \cup {NoRs} /\ AskDefault(s).defaultRs \notin Virtual
<1>1. PICK asked, r : asked = AskDefault(s) /\ r = asked.defaultRs
  OBVIOUS
<1>2. r \in Real \cup {NoRs}
  BY <1>1, AskDefaultOK
<1>3. r \in DOMAIN s.rs2dms => s.rs2dms[r] \in Nat /\ s.rs2dms[r] \in DOMAIN s.dms2rs /\ s.dms2rs[s.rs2dms[r]] = r
  BY GoodFields DEF Good, Paired
<1>4. DefaultScreen(s) = IF r \in DOMAIN s.rs2dms THEN s.rs2dms[r] ELSE -1
  BY <1>1 DEF DefaultScreen, ToDmsScreenId, HasRsScreenId, NoScreen
<1>5. DefaultScreen(s) < s.count
  BY <1>3, <1>4, GoodFields DEF Good, Bounded
<1> QED BY <1>1, <1>2, <1>3, <1>4, <1>5, RsIdAssumption DEF NoScreen

LEMMA DefaultSource == ASSUME RsOK, NEW s, Good(s), NEW t, Keeps(s, t) PROVE Source(t, DefaultScreen(s))
<1>1. PICK d \in Int : d = DefaultScreen(s)
  BY DefaultScreenType
<1>2. d < s.count /\ (d # NoScreen => d \in DOMAIN s.dms2rs /\ s.dms2rs[d] \notin Virtual)
  BY <1>1, DefaultScreenType
<1>3. s.count \in Nat /\ t.count \in Nat /\ s.count =< t.count /\ DOMAIN t.dms2rs \subseteq Nat
  BY GoodFields DEF Grows, Keeps
<1>4. d < t.count
  BY <1>1, <1>2, <1>3
<1>5. d \in DOMAIN t.dms2rs => t.dms2rs[d] \notin Virtual
  BY <1>2, <1>3 DEF Grows, Keeps, NoScreen
<1> QED BY <1>1, <1>4, <1>5 DEF Source

-----------------------------------------------------------------------------
(* A screen joins a group. *)
LEMMA GroupKept ==
  ASSUME NEW s, Good(s), NEW g \in DOMAIN s.groups, NEW v \in Groups, Source(s, v.mirror),
         v.kids = s.groups[g].kids, v.mapped = s.groups[g].mapped, NEW t, t = [s EXCEPT !.groups[g] = v]
  PROVE  Grows(s, t) /\ Live(t) = Live(s)
<1>1. s \in States /\ s.screens \in Maps(Nat, Screens) /\ s.groups \in Maps(Nat, Groups)
  BY GoodFields
<1>2. t.groups = [s.groups EXCEPT ![g] = v] /\ t.screens = s.screens
  BY <1>1 DEF States
<1>3. t = [s EXCEPT !.screens = t.screens, !.groups = t.groups]
  BY <1>1 DEF States
<1>4. /\ t.groups \in Maps(Nat, Groups) /\ DOMAIN t.groups = DOMAIN s.groups
      /\ t.groups[g] = v /\ \A x \in DOMAIN s.groups \ {g} : t.groups[x] = s.groups[x]
  BY <1>1, <1>2, GroupSet
<1>5. \A x \in DOMAIN t.groups : Source(s, t.groups[x].mirror)
  BY <1>4 DEF Good, Sourced
<1>6. Keeps(s, t)
  BY <1>1, <1>2, <1>3, <1>4, <1>5, ChangedOK
<1>7. Alike(s, t)
  BY <1>2, <1>4 DEF Alike, Live, Kids
<1> QED BY <1>6, <1>7, AlikeGrows DEF Alike

LEMMA MirrorKept ==
  ASSUME NEW s, Good(s), NEW g \in DOMAIN s.groups, NEW m \in Int, Source(s, m),
         NEW t, t = [s EXCEPT !.groups[g].mirror = m]
  PROVE  Grows(s, t)
<1>1. s \in States /\ s.groups[g] \in Groups
  BY GoodFields
<1>2. PICK v : v = [s.groups[g] EXCEPT !.mirror = m]
  OBVIOUS
<1>3. v \in Groups /\ v.mirror = m /\ v.kids = s.groups[g].kids /\ v.mapped = s.groups[g].mapped
  BY <1>1, <1>2 DEF Groups
<1>4. t = [s EXCEPT !.groups[g] = v]
  BY <1>1, <1>2 DEF States
<1> QED BY <1>3, <1>4, GroupKept

LEMMA ChooseSourceOK ==
  ASSUME RsOK, NEW s, Good(s), NEW g \in DOMAIN s.groups, NEW t, t = ChooseSource(s, g)
  PROVE  Grows(s, t)
<1>1. CASE s.groups[g].mirror \in s.groups[g].kids
  BY <1>1, GrowsSelf DEF ChooseSource
<1>2. CASE s.groups[g].mirror \notin s.groups[g].kids
  <2>1. PICK u : u = WithDefault(s)
    OBVIOUS
  <2>2. Grows(s, u) /\ Good(u) /\ g \in DOMAIN u.groups
    BY <2>1, WithDefaultOK DEF Grows, Keeps
  <2>3. t = [u EXCEPT !.groups[g].mirror = DefaultScreen(s)] /\ DefaultScreen(s) \in Int
    BY <1>2, <2>1, DefaultScreenType DEF ChooseSource
  <2>4. Source(u, DefaultScreen(s))
    BY <2>2, DefaultSource DEF Grows
  <2>5. Grows(u, t)
    BY <2>2, <2>3, <2>4, MirrorKept
  <2> QED BY <2>2, <2>5, GrowsThen
<1> QED BY <1>1, <1>2

LEMMA AddChildOK ==
  ASSUME RsOK, NEW s, Good(s), NEW g \in DOMAIN s.groups, NEW id \in Nat, NEW t, t = AddChild(s, g, id)
  PROVE  Keeps(s, t) /\ (g \in Live(s) /\ id \in DOMAIN s.screens => Grows(s, t))
<1>1. CASE id \in s.groups[g].kids
  BY <1>1, GrowsSelf DEF AddChild, Grows
<1>2. CASE id \notin s.groups[g].kids /\ ~NeedsSource(s, g, id)
  <2>1. t = AttachChild(s, g, id, OwnNode) /\ OwnNode \in Int /\ OwnNode # NoNode
    BY <1>2 DEF AddChild, OwnNode, NoNode
  <2>2. Keeps(s, t) /\ Attached(s, g, id, OwnNode, t)
    BY <2>1, AttachOK
  <2> QED BY <2>1, <2>2, AttachGrows
<1>3. CASE id \notin s.groups[g].kids /\ NeedsSource(s, g, id)
  <2>1. PICK u : u = ChooseSource(s, g)
    OBVIOUS
  <2>2. Grows(s, u)
    BY <2>1, ChooseSourceOK
  <2>3. Keeps(s, u) /\ Good(u) /\ g \in DOMAIN u.groups
    BY <2>2 DEF Grows, Keeps
  <2>4. PICK node \in Int : node = u.groups[g].mirror
    BY <2>3, GoodFields DEF Groups
  <2>5. t = u \/ (GetRSDisplayNode(u, node) # NoNode /\ t = AttachChild(u, g, id, node))
    BY <1>3, <2>1, <2>4 DEF AddChild
  <2>6. CASE t = u
    BY <2>2, <2>3, <2>6
  <2>7. CASE GetRSDisplayNode(u, node) # NoNode /\ t = AttachChild(u, g, id, node)
    <3>1. Keeps(u, t) /\ Attached(u, g, id, node, t)
      BY <2>3, <2>7, AttachOK
    <3>2. Keeps(s, t)
      BY <2>3, <3>1, KeepsThen
    <3>3. ASSUME g \in Live(s), id \in DOMAIN s.screens PROVE Grows(s, t)
      <4>1. node \in DOMAIN u.screens
        BY <2>7 DEF GetRSDisplayNode
      <4>2. node # NoNode
        BY <2>3, <4>1, GoodFields DEF NoNode
      <4>3. g \in Live(u)
        BY <1>3, <2>2, <3>3 DEF NeedsSource, Grows, Stay, Kids
      <4>4. id \in DOMAIN u.screens
        BY <2>3, <3>3 DEF Keeps
      <4>5. Grows(u, t)
        BY <2>3, <3>1, <4>2, <4>3, <4>4, AttachGrows
      <4> QED BY <2>2, <4>5, GrowsThen
    <3> QED BY <3>2, <3>3
  <2> QED BY <2>5, <2>6, <2>7
<1> QED BY <1>1, <1>2, <1>3

LEMMA AddToGroupOK ==
  ASSUME RsOK, NEW s, Good(s), NEW id \in DOMAIN s.screens, Source(s, id), NEW t, t = AddToGroup(s, id)
  PROVE  Grows(s, t)
<1>1. id \in Nat
  BY GoodFields
<1>2. CASE Live(s) = {}
  BY <1>1, <1>2, FirstOK DEF AddToGroup
<1>3. CASE Live(s) # {}
  <2>1. PICK u, g : u = WithDefault(s) /\ g = GroupOf(u, DefaultScreen(s))
    OBVIOUS
  <2>2. Grows(s, u)
    BY <2>1, WithDefaultOK
  <2>3. Good(u) /\ id \in DOMAIN u.screens
    BY <2>2 DEF Grows, Keeps
  <2>4. t = IF g = NoScreen THEN u ELSE AddChild(u, g, id)
    BY <1>3, <2>1 DEF AddToGroup
  <2>5. CASE g = NoScreen
    BY <2>2, <2>4, <2>5
  <2>6. CASE g # NoScreen
    <3>1. g \in Live(u) /\ g \in DOMAIN u.groups
      BY <2>1, <2>6 DEF GroupOf, Live
    <3>2. Grows(u, t)
      BY <1>1, <2>3, <2>4, <2>6, <3>1, AddChildOK
    <3> QED BY <2>2, <3>2, GrowsThen
  <2> QED BY <2>5, <2>6
<1> QED BY <1>2, <1>3

-----------------------------------------------------------------------------
(* The displays hear of a screen that joined or leaves a group. *)
LEMMA DisplayedOK ==
  ASSUME RsOK, NEW s, Good(s), NEW id \in DOMAIN s.screens, NEW t, t = CreateDisplay(WithDefault(s), id)
  PROVE  Grows(s, t)
<1>1. PICK u : u = WithDefault(s)
  OBVIOUS
<1>2. Grows(s, u)
  BY <1>1, WithDefaultOK
<1>3. Good(u) /\ id \in DOMAIN u.screens
  BY <1>2 DEF Grows, Keeps
<1>4. Grows(u, t)
  BY <1>1, <1>3, CreateDisplayOK
<1> QED BY <1>2, <1>4, GrowsThen

LEMMA OnConnectOK ==
  ASSUME RsOK, NEW s, Good(s), NEW id, NEW t, t = OnScreenConnect(s, id) PROVE Grows(s, t)
<1>1. \/ t = s \/ t = WithDefault(s)
      \/ GroupOf(s, id) # NoScreen /\ t = CreateDisplay(WithDefault(s), id)
  BY DEF OnScreenConnect, BindAloneScreen, AddScreenToExpand
<1>2. CASE t = s
  BY <1>2, GrowsSelf
<1>3. CASE t = WithDefault(s)
  BY <1>3, WithDefaultOK
<1>4. CASE GroupOf(s, id) # NoScreen /\ t = CreateDisplay(WithDefault(s), id)
  BY <1>4, GroupOfOK, DisplayedOK
<1> QED BY <1>1, <1>2, <1>3, <1>4

(* Only the displays change, or the fault. *)
LEMMA ShownOK ==
  ASSUME NEW s, Good(s), NEW t, t = [s EXCEPT !.displays = t.displays, !.fault = t.fault],
         t.displays \in Maps(Nat, Shows), t.fault \in BOOLEAN
  PROVE  Grows(s, t)
<1>1. s \in States
  BY GoodFields
<1>2. t \in States
  BY <1>1 DEF States
<1>3. /\ t.count = s.count /\ t.dms2rs = s.dms2rs /\ t.rs2dms = s.rs2dms /\ t.agents = s.agents
      /\ t.groups = s.groups /\ t.screens = s.screens /\ t.tasks = s.tasks
  BY <1>1 DEF States
<1> QED BY <1>2, <1>3, KeepsAll

LEMMA FaultOK == ASSUME NEW s, Good(s), NEW t, t = [s EXCEPT !.fault = TRUE] PROVE Grows(s, t)
<1>1. s \in States /\ s.displays \in Maps(Nat, Shows)
  BY GoodFields
<1>2. t = [s EXCEPT !.displays = t.displays, !.fault = t.fault] /\ t.displays = s.displays /\ t.fault = TRUE
  BY <1>1 DEF States
<1> QED BY <1>1, <1>2, ShownOK

LEMMA NormalDisconnectOK ==
  ASSUME RsOK, NEW s, Good(s), NEW id, NEW t, t = NormalDisconnect(s, id) PROVE Grows(s, t)
<1>1. PICK u : u = WithDefault(s)
  OBVIOUS
<1>2. PICK d \in Int : d = DefaultScreen(s)
  BY DefaultScreenType
<1>3. Grows(s, u) /\ Good(u)
  BY <1>1, WithDefaultOK DEF Grows, Keeps
<1>4. CASE DisplaysOn(u, id) = {} \/ d \notin DOMAIN u.screens
  BY <1>1, <1>2, <1>3, <1>4 DEF NormalDisconnect
<1>5. CASE ~(DisplaysOn(u, id) = {} \/ d \notin DOMAIN u.screens) /\ GroupOf(u, d) = NoScreen
  <2>1. t = [u EXCEPT !.fault = TRUE]
    BY <1>1, <1>2, <1>5 DEF NormalDisconnect
  <2>2. Grows(u, t)
    BY <1>3, <2>1, FaultOK
  <2> QED BY <1>3, <2>2, GrowsThen
<1>6. CASE ~(DisplaysOn(u, id) = {} \/ d \notin DOMAIN u.screens) /\ GroupOf(u, d) # NoScreen
  <2>1. PICK m : m = Min(DisplaysOn(u, id))
    OBVIOUS
  <2>2. t = [u EXCEPT !.displays = [x \in DOMAIN u.displays |->
              IF x = m THEN [u.displays[x] EXCEPT !.screen = d] ELSE u.displays[x]]]
    BY <1>1, <1>2, <1>6, <2>1 DEF NormalDisconnect
  <2>3. u \in States /\ u.displays \in [DOMAIN u.displays -> Shows] /\ DOMAIN u.displays \subseteq Nat
    BY <1>3, GoodFields, MapsDef
  <2>4. \A c \in Shows : [c EXCEPT !.screen = d] \in Shows
    BY DEF Shows
  <2>5. t.displays = [x \in DOMAIN u.displays |->
              IF x = m THEN [u.displays[x] EXCEPT !.screen = d] ELSE u.displays[x]]
    BY <2>2, <2>3 DEF States
  <2>6. t.displays \in Maps(Nat, Shows)
    BY <2>3, <2>4, <2>5, MapsDef
  <2>7. t = [u EXCEPT !.displays = t.displays, !.fault = t.fault] /\ t.fault \in BOOLEAN
    BY <2>2, <2>3 DEF States
  <2>8. Grows(u, t)
    BY <1>3, <2>6, <2>7, ShownOK
  <2> QED BY <1>3, <2>8, GrowsThen
<1> QED BY <1>4, <1>5, <1>6

LEMMA ExpandDisconnectOK ==
  ASSUME RsOK, NEW s, Good(s), NEW id, NEW t, t = ExpandDisconnect(s, id) PROVE Grows(s, t)
<1>1. PICK u, m : u = WithDefault(s) /\ m = Max(DisplaysOn(s, id))
  OBVIOUS
<1>2. Grows(s, u) /\ Good(u)
  BY <1>1, WithDefaultOK DEF Grows, Keeps
<1>3. t = [s EXCEPT !.fault = TRUE] \/ t = s \/ t = [u EXCEPT !.displays = Without(u.displays, m)]
  BY <1>1 DEF ExpandDisconnect
<1>4. CASE t = [u EXCEPT !.displays = Without(u.displays, m)]
  <2>1. u \in States /\ u.displays \in Maps(Nat, Shows)
    BY <1>2, GoodFields
  <2>2. t.displays = Without(u.displays, m)
    BY <1>4, <2>1 DEF States
  <2>3. t.displays \in Maps(Nat, Shows)
    BY <2>1, <2>2, MapsDef DEF Without, Restrict
  <2>4. t = [u EXCEPT !.displays = t.displays, !.fault = t.fault] /\ t.fault \in BOOLEAN
    BY <1>4, <2>1 DEF States
  <2>5. Grows(u, t)
    BY <1>2, <2>3, <2>4, ShownOK
  <2> QED BY <1>2, <2>5, GrowsThen
<1> QED BY <1>3, <1>4, FaultOK, GrowsSelf

LEMMA LeaveOK ==
  ASSUME RsOK, NEW s, Good(s), NEW id, NEW t, t = LeaveGroup(s, id) PROVE Shrinks(s, t, id)
<1>1. PICK u : u = IF CheckScreenInScreenGroup(s, id) THEN OnScreenDisconnect(s, id) ELSE s
  OBVIOUS
<1>2. u = s \/ u = NormalDisconnect(s, id) \/ u = ExpandDisconnect(s, id)
  BY <1>1 DEF OnScreenDisconnect
<1>3. Grows(s, u)
  BY <1>2, GrowsSelf, NormalDisconnectOK, ExpandDisconnectOK
<1>4. t = RemoveFromGroup(u, id)
  BY <1>1 DEF LeaveGroup
<1>5. Shrinks(u, t, id)
  BY <1>3, <1>4, RemoveOK DEF Grows, Keeps
<1> QED BY <1>3, <1>5, GrowsShrinks

-----------------------------------------------------------------------------
(* Whole handlers. *)
LEMMA ConnectedOK ==
  ASSUME RsOK, NEW s, Good(s), NEW r \in Real, NEW t, t = ProcessScreenConnected(s, r) PROVE Grows(s, t)
<1>1. CASE HasRsScreenId(s, r)
  BY <1>1, GrowsSelf DEF ProcessScreenConnected
<1>2. CASE ~HasRsScreenId(s, r)
  <2>1. PICK u, joined : u = InitAndGetScreen(s, r) /\ joined = AddToGroup(u, s.count)
    OBVIOUS
  <2>2. Grows(s, u) /\ Good(u) /\ (r \in rs.real => s.count \in DOMAIN u.screens)
    BY <1>2, <2>1, InitAndGetOK DEF HasRsScreenId, Grows, Keeps
  <2>3. s.count \in Nat /\ \A id \in DOMAIN s.screens : id < s.count
    BY GoodFields
  <2>4. r \in rs.real => Grows(u, joined) /\ Good(joined)
    <3> SUFFICES ASSUME r \in rs.real PROVE Grows(u, joined) /\ Good(joined)
      OBVIOUS
    <3>1. s.count \in DOMAIN u.screens /\ u.screens[s.count].rs \notin Virtual
      BY <2>2, <2>3, RsIdAssumption DEF Grows, Keeps
    <3>2. Source(u, s.count)
      BY <2>2, <3>1, RealSource
    <3> QED BY <2>1, <2>2, <2>3, <3>2, AddToGroupOK DEF Grows, Keeps
  <2>5. t = u \/ (r \in rs.real /\ t \in {joined, OnScreenConnect(joined, s.count)})
    BY <1>2, <2>1 DEF ProcessScreenConnected
  <2>6. t = u \/ Grows(u, t)
    <3>1. CASE r \in rs.real /\ t = OnScreenConnect(joined, s.count)
      <4>1. Grows(u, joined) /\ Good(joined) /\ t = OnScreenConnect(joined, s.count)
        BY <2>4, <3>1
      <4>2. Grows(joined, t)
        BY <4>1, OnConnectOK
      <4> QED BY <2>2, <4>1, <4>2, GrowsThen
    <3> QED BY <2>4, <2>5, <3>1
  <2> QED BY <2>2, <2>6, GrowsThen
<1> QED BY <1>1, <1>2

LEMMA FindGroupOK ==
  ASSUME RsOK, NEW s, Good(s), NEW main \in DOMAIN s.screens, Source(s, main), NEW t, t = FindMirrorGroup(s, main)
  PROVE  Grows(s, t)
<1>1. CASE GroupOf(s, main) # NoScreen
  <2>1. PICK g \in DOMAIN s.groups : g = GroupOf(s, main)
    BY <1>1, GroupOfOK
  <2>2. t = [s EXCEPT !.groups[g].mirror = main]
    BY <1>1, <2>1 DEF FindMirrorGroup
  <2>3. main \in Int
    BY GoodFields
  <2> QED BY <2>2, <2>3, MirrorKept
<1>2. CASE GroupOf(s, main) = NoScreen
  <2>1. PICK joined, shown : joined = AddToGroup(s, main) /\ shown = OnScreenConnect(joined, main)
    OBVIOUS
  <2>2. t = joined \/ t = [shown EXCEPT !.fault = TRUE]
    BY <1>2, <2>1 DEF FindMirrorGroup
  <2>3. Grows(s, joined) /\ Good(joined)
    BY <2>1, AddToGroupOK DEF Grows, Keeps
  <2>4. Grows(joined, shown) /\ Good(shown)
    BY <2>1, <2>3, OnConnectOK DEF Grows, Keeps
  <2>5. CASE t = [shown EXCEPT !.fault = TRUE]
    <3>1. Grows(s, shown)
      BY <2>3, <2>4, GrowsThen
    <3>2. Grows(shown, t)
      BY <2>4, <2>5, FaultOK
    <3> QED BY <3>1, <3>2, GrowsThen
  <2> QED BY <2>2, <2>3, <2>5
<1> QED BY <1>1, <1>2

LEMMA CollectOK ==
  ASSUME NEW s, Good(s), NEW ids, NEW t, t = Collect(s, ids)
  PROVE  /\ Good(t) /\ t.count = s.count /\ t.screens = s.screens /\ t.agents = s.agents
         /\ Loose(t) = Loose(s) /\ DOMAIN s.groups \cap ids \subseteq DOMAIN t.groups /\ Hears(s, t)
         /\ Alike(s, t) /\ t.defaultRs = s.defaultRs
<1>1. s \in States /\ s.groups \in Maps(Nat, Groups)
  BY GoodFields
<1>2. PICK E : E = {g \in DOMAIN s.groups : s.groups[g].mapped \/ s.groups[g].kids # {} \/ g \in ids}
  OBVIOUS
<1>3. t = [s EXCEPT !.groups = Restrict(s.groups, E)]
  BY <1>2 DEF Collect
<1>4. t.groups = Restrict(s.groups, E) /\ E \subseteq DOMAIN s.groups
  BY <1>1, <1>2, <1>3 DEF States
<1>5. t.groups \in Maps(Nat, Groups) /\ DOMAIN t.groups = E /\ \A g \in E : t.groups[g] = s.groups[g]
  BY <1>1, <1>4, MapsDef DEF Restrict
<1>6. t = [s EXCEPT !.groups = t.groups]
  BY <1>1, <1>3 DEF States
<1>7. t \in States
  BY <1>1, <1>5, <1>6 DEF States
<1>8. /\ t.count = s.count /\ t.dms2rs = s.dms2rs /\ t.rs2dms = s.rs2dms /\ t.agents = s.agents
      /\ t.screens = s.screens /\ t.tasks = s.tasks /\ t.defaultRs = s.defaultRs
  BY <1>1, <1>3 DEF States
<1>9. Sourced(t)
  BY <1>4, <1>5, <1>8 DEF Good, Sourced, Source
<1>10. Good(t) /\ Loose(t) = Loose(s) /\ Hears(s, t)
  BY <1>7, <1>8, <1>9, HearsSame DEF Good, Paired, Bounded, Loose
<1>11. Alike(s, t)
  <2>1. Live(s) \subseteq E
    BY <1>2 DEF Live
  <2> QED BY <1>4, <1>5, <1>8, <2>1 DEF Alike, Live, Kids
<1> QED BY <1>2, <1>5, <1>8, <1>10, <1>11

-----------------------------------------------------------------------------
(* The invariant.  A virtual screen, but for those of X, belongs to one    *)
(* client, which owns nothing else; the group that is being changed, or    *)
(* that a call is about to change, is there; and the id that is loose      *)
(* while a group is changed is the one that is dropped at the end.         *)
AgentsBut(s, X) ==
    /\ \A id \in DOMAIN s.screens \ X : IsVirtual(s, id) => \E a \in Agents : id \in s.agents[a]
    /\ \A a \in Agents : s.agents[a] \subseteq {id \in DOMAIN s.screens \ X : IsVirtual(s, id)}
    /\ \A a, b \in Agents : a # b => s.agents[a] \cap s.agents[b] = {}

Frames == [step : {"leave", "join"}, group : Nat, list : SUBSET Nat, join : SUBSET Nat, filter : BOOLEAN,
           mode : Modes, drop : Int]
FrameOK(w, s) == w \in Frames /\ w.group \in DOMAIN s.groups /\ w.drop < s.count /\ w.drop \notin DOMAIN s.screens
WorkOK(w, s)  == w = Idle \/ w \in [step : {"died"}, agent : Agents] \/ FrameOK(w, s)
DropOf(w)     == IF w.step \in {"leave", "join"} THEN {w.drop} ELSE {}
CallOK(c, s)  == /\ c.step \in {"idle", "mirror", "expand", "change"}
                 /\ c.step # "idle" => c.list \in SUBSET Nat
                 /\ c.step = "change" => c.group \in DOMAIN s.groups /\ c.filter \in BOOLEAN /\ c.mode \in Modes

StateOK(s, w, c) == /\ Good(s) /\ Loose(s) \subseteq DropOf(w) /\ AgentsBut(s, {})
                    /\ WorkOK(w, s) /\ CallOK(c, s)
Agree(s, K) == K \in SUBSET Nat /\ Heeded(s, K)
DsInv == RsOK /\ StateOK(dms, work, call) /\ Agree(dms, known) /\ torn \in BOOLEAN

LEMMA AgentsKept ==
  ASSUME NEW s, NEW t, Good(s), Keeps(s, t), NEW X, X \subseteq DOMAIN s.screens, AgentsBut(s, X)
  PROVE  AgentsBut(t, X)
<1>1. /\ t.agents = s.agents
      /\ \A id \in DOMAIN s.screens : id \in DOMAIN t.screens /\ (IsVirtual(t, id) <=> IsVirtual(s, id))
      /\ \A id \in DOMAIN t.screens \ DOMAIN s.screens : ~IsVirtual(t, id)
  BY RsIdAssumption DEF Keeps, IsVirtual
<1> QED BY <1>1 DEF AgentsBut

LEMMA WorkKept ==
  ASSUME NEW s, NEW t, Good(s), Keeps(s, t), NEW w, WorkOK(w, s) PROVE WorkOK(w, t)
<1>1. s.count \in Nat /\ t.count \in Nat
  BY GoodFields DEF Keeps
<1>2. CASE FrameOK(w, s)
  <2>1. w.drop \in Int /\ w.drop < s.count
    BY <1>2 DEF FrameOK, Frames
  <2>2. w.drop < t.count /\ w.drop \notin DOMAIN t.screens
    BY <1>1, <1>2, <2>1 DEF FrameOK, Keeps
  <2> QED BY <1>2, <2>2 DEF WorkOK, FrameOK, Keeps
<1> QED BY <1>2 DEF WorkOK

LEMMA CallKept == ASSUME NEW s, NEW t, Keeps(s, t), NEW c, CallOK(c, s) PROVE CallOK(c, t)
BY DEF CallOK, Keeps

(* A step that only adds, and does not forget a loose id. *)
LEMMA KeptOK ==
  ASSUME NEW s, NEW w, NEW c, StateOK(s, w, c), NEW t, Keeps(s, t), NEW v, WorkOK(v, s), DropOf(w) \subseteq DropOf(v)
  PROVE  StateOK(t, v, c)
<1>1. Good(s) /\ Good(t) /\ Loose(t) \subseteq Loose(s)
  BY DEF StateOK, Keeps
<1>2. AgentsBut(t, {})
  BY <1>1, AgentsKept DEF StateOK
<1>3. WorkOK(v, t) /\ CallOK(c, t)
  BY <1>1, WorkKept, CallKept DEF StateOK
<1> QED BY <1>1, <1>2, <1>3 DEF StateOK

LEMMA HearsThen == ASSUME NEW s, NEW t, NEW u, Hears(s, t), Hears(t, u) PROVE Hears(s, u)
BY DEF Hears

LEMMA AgreeKept == ASSUME NEW s, NEW t, Hears(s, t), NEW K, Agree(s, K) PROVE Agree(t, K)
BY DEF Hears, Agree

LEMMA IdleDrops == WorkOK(Idle, dms) /\ DropOf(Idle) = {} /\ Idle.step = "idle"
BY DEF WorkOK, DropOf, Idle

(* A screen goes, with its id. *)
LEMMA ScreenGoes ==
  ASSUME NEW s, Good(s), NEW id \in DOMAIN s.screens, AgentsBut(s, {id}), NEW t, t = EraseScreen(s, id)
  PROVE  /\ Good(t) /\ t.count = s.count /\ t.groups = s.groups /\ Loose(t) \subseteq Loose(s) \cup {id}
         /\ id \notin DOMAIN t.screens /\ AgentsBut(t, {}) /\ id \in Nat /\ id < t.count /\ Hears(s, t)
<1>1. id \in Nat /\ id < s.count
  BY GoodFields
<1>2. /\ Good(t) /\ t.count = s.count /\ DOMAIN t.screens = DOMAIN s.screens \ {id}
      /\ \A x \in DOMAIN t.screens : t.screens[x] = s.screens[x]
      /\ t.groups = s.groups /\ t.agents = s.agents /\ Loose(t) \subseteq Loose(s) \cup {id} /\ Hears(s, t)
  BY <1>1, EraseOK
<1>3. AgentsBut(t, {})
  BY <1>2 DEF AgentsBut, IsVirtual
<1> QED BY <1>1, <1>2, <1>3

LEMMA IdGoes ==
  ASSUME NEW s, Good(s), NEW id, Loose(s) \subseteq {id}, id \notin DOMAIN s.screens, AgentsBut(s, {}),
         NEW c, CallOK(c, s), NEW t, t = DeleteScreenId(s, id)
  PROVE  StateOK(t, Idle, c) /\ t.groups = s.groups /\ Hears(s, t) /\ Same(s, t)
<1>1. /\ Good(t) /\ t.screens = s.screens /\ t.groups = s.groups /\ t.agents = s.agents
      /\ Loose(t) \subseteq Loose(s) \ {id} /\ Hears(s, t) /\ t.defaultRs = s.defaultRs
  BY DeleteOK
<1>2. AgentsBut(t, {})
  BY <1>1 DEF AgentsBut, IsVirtual
<1>3. Loose(t) = {} /\ WorkOK(Idle, t) /\ CallOK(c, t)
  BY <1>1 DEF WorkOK, CallOK
<1>4. Same(s, t)
  BY <1>1, AlikeSame DEF Same
<1> QED BY <1>1, <1>2, <1>3, <1>4 DEF StateOK

LEMMA GroupsGo ==
  ASSUME NEW s, NEW c, StateOK(s, Idle, c), NEW t, t = Collect(s, CallGroup(c))
  PROVE  StateOK(t, Idle, c) /\ Hears(s, t) /\ Same(s, t)
<1>1. /\ Good(t) /\ t.screens = s.screens /\ t.agents = s.agents /\ Loose(t) = Loose(s) /\ Hears(s, t)
      /\ Same(s, t) /\ DOMAIN s.groups \cap CallGroup(c) \subseteq DOMAIN t.groups
  BY CollectOK DEF StateOK, Same
<1>2. AgentsBut(t, {})
  BY <1>1 DEF StateOK, AgentsBut, IsVirtual
<1>3. WorkOK(Idle, t) /\ CallOK(c, t)
  BY <1>1 DEF StateOK, WorkOK, CallOK, CallGroup
<1> QED BY <1>1, <1>2, <1>3 DEF StateOK

LEMMA StillGone ==
  ASSUME NEW s, NEW t, Good(s), Keeps(s, t), NEW id \in Int, id < s.count, id \notin DOMAIN s.screens
  PROVE  id < t.count /\ id \notin DOMAIN t.screens
BY GoodFields DEF Keeps

LEMMA SameSound == ASSUME NEW s, NEW t, Same(s, t) PROVE (Sound(s) => Sound(t)) /\ Stay(s, t, {})
BY AlikeSound DEF Same

(* While a group is changed, no call has looked its group up and not yet   *)
(* changed it; the group is in the maps, and a child of it stays.          *)
Framed(s, w, c) ==
    w.step \in {"leave", "join"} =>
        /\ c = Idle /\ w.group \in Live(s) /\ w.join \subseteq DOMAIN s.screens
        /\ w.step = "leave" => \E a \in Kids(s, w.group) : a \notin w.list

(* t is what s became when no physical screen left a group, unless screens *)
(* came or went.                                                           *)
Moved(s, t) ==
    /\ Sound(s) => Sound(t)
    /\ DOMAIN t.screens = DOMAIN s.screens =>
         /\ \A id \in DOMAIN s.screens : t.screens[id].rs = s.screens[id].rs
         /\ \E X \in SUBSET DOMAIN s.screens : Stay(s, t, X) /\ \A id \in X : IsVirtual(s, id)

(* What a disconnection leaves: t is the service and w the work then.      *)
Parted(s, r, t, w) ==
    /\ Sound(s) => Sound(t) /\ Framed(t, w, Idle)
    /\ IF HasRsScreenId(s, r) THEN s.rs2dms[r] \in DOMAIN s.screens \ DOMAIN t.screens ELSE t = s /\ w = Idle

LEMMA SameMoved ==
  ASSUME NEW s, NEW t, Alike(s, t), \A id \in DOMAIN s.screens : t.screens[id].rs = s.screens[id].rs
  PROVE  Moved(s, t)
<1>1. {} \in SUBSET DOMAIN s.screens /\ Stay(s, t, {}) /\ (Sound(s) => Sound(t))
  BY AlikeSound
<1> QED BY <1>1 DEF Moved

(* A screen is disconnected: its group is changed when others mirrored it. *)
LEMMA DisconnectedOK ==
  ASSUME RsOK, NEW s, Good(s), Loose(s) = {}, CallOK(call, s), NEW r \in RsIds, work = Idle,
         AgentsBut(s, IF HasRsScreenId(s, r) THEN {s.rs2dms[r]} ELSE {}),
         ProcessScreenDisconnected(s, r)
  PROVE  StateOK(dms', work', call) /\ Hears(s, dms') /\ Parted(s, r, dms', work')
<1>1. CASE ~HasRsScreenId(s, r)
  <2>1. dms' = s /\ work' = Idle
    BY <1>1 DEF ProcessScreenDisconnected
  <2>2. Hears(s, dms') /\ Parted(s, r, dms', work')
    BY <1>1, <2>1 DEF Hears, Parted, Framed, Idle
  <2> QED BY <1>1, <2>1, <2>2 DEF StateOK, WorkOK
<1>2. CASE HasRsScreenId(s, r)
  <2>1. PICK id : id = s.rs2dms[r]
    OBVIOUS
  <2>2. id \in DOMAIN s.dms2rs /\ s.dms2rs[id] = r /\ r # NoRs
    BY <1>2, <2>1, RsIdAssumption DEF Good, Paired, HasRsScreenId, RsIds
  <2>3. id \in DOMAIN s.screens /\ id \in Nat /\ AgentsBut(s, {id})
    BY <1>2, <2>1, <2>2, GoodFields DEF Loose
  <2>4. PICK gone, left : gone = LeaveGroup(s, id) /\ left = EraseScreen(gone, id)
    OBVIOUS
  <2>5. Keeps(s, gone) /\ Shrinks(s, gone, id)
    BY <2>4, LeaveOK DEF Shrinks
  <2>6. Good(gone) /\ AgentsBut(gone, {id}) /\ id \in DOMAIN gone.screens /\ Loose(gone) = {}
    BY <2>3, <2>5, AgentsKept DEF Keeps
  <2>7. /\ Good(left) /\ left.count = gone.count /\ left.groups = gone.groups /\ Loose(left) \subseteq {id}
        /\ id \notin DOMAIN left.screens /\ AgentsBut(left, {}) /\ id < left.count /\ Hears(s, left)
    <3>1. /\ Good(left) /\ left.count = gone.count /\ left.groups = gone.groups /\ Loose(left) \subseteq {id}
          /\ id \notin DOMAIN left.screens /\ AgentsBut(left, {}) /\ id < left.count /\ Hears(gone, left)
      BY <2>4, <2>6, ScreenGoes
    <3>2. Hears(s, left)
      BY <2>5, <3>1 DEF Keeps, Hears
    <3> QED BY <3>1, <3>2
  <2>8. CallOK(call, gone) /\ CallOK(call, left)
    <3>1. CallOK(call, gone)
      BY <2>5, CallKept
    <3> QED BY <2>7, <3>1 DEF CallOK
  <2>11. Sound(s) => Sound(left)
    BY <2>3, <2>4, <2>5, <2>6, EraseSound DEF Shrinks
  <2>12. ASSUME NEW t, NEW w, w = Idle, Sound(left) => Sound(t), id \notin DOMAIN t.screens PROVE Parted(s, r, t, w)
    BY <1>2, <2>1, <2>3, <2>11, <2>12 DEF Parted, Framed, Idle
  <2>9. CASE ~LosesSource(s, id)
    <3>1. PICK cut : cut = DeleteScreenId(left, id)
      OBVIOUS
    <3>2. dms' = Collect(cut, CallGroup(call)) /\ work' = Idle
      BY <1>2, <2>1, <2>3, <2>4, <2>9, <3>1 DEF ProcessScreenDisconnected
    <3>3. StateOK(cut, Idle, call) /\ Hears(left, cut) /\ Same(left, cut)
      BY <2>7, <2>8, <3>1, IdGoes
    <3>4. PICK t : t = dms'
      OBVIOUS
    <3>5. StateOK(t, Idle, call) /\ Hears(cut, t) /\ Same(cut, t)
      BY <3>2, <3>3, <3>4, GroupsGo
    <3>6. Hears(s, t)
      BY <2>7, <3>3, <3>5, HearsThen
    <3>7. (Sound(left) => Sound(t)) /\ id \notin DOMAIN t.screens
      BY <2>7, <3>3, <3>5, SameSound DEF Same
    <3>8. Parted(s, r, t, Idle)
      BY <2>12, <3>7
    <3> QED BY <3>2, <3>4, <3>5, <3>6, <3>8
  <2>10. CASE LosesSource(s, id)
    <3>1. PICK t, main, g : t = WithDefault(left) /\ main = DefaultScreen(left) /\ g = GroupOf(s, id)
      OBVIOUS
    <3>2. Keeps(left, t) /\ Grows(left, t)
      BY <2>7, <3>1, WithDefaultOK DEF Grows
    <3>3. Good(t) /\ Loose(t) \subseteq {id} /\ AgentsBut(t, {}) /\ CallOK(call, t) /\ Hears(s, t)
      <4>1. Hears(s, t)
        BY <2>7, <3>2, HearsThen DEF Keeps
      <4> QED BY <2>7, <2>8, <3>2, <4>1, AgentsKept, CallKept DEF Keeps
    <3>4. id \notin DOMAIN t.screens /\ id < t.count
      BY <2>3, <2>7, <3>2, StillGone
    <3>5. CASE ~IsRealScreen(t, main)
      <4>1. dms' = DeleteScreenId(t, id) /\ work' = Idle
        BY <1>2, <2>1, <2>3, <2>4, <2>10, <3>1, <3>5 DEF ProcessScreenDisconnected
      <4>2. PICK u : u = dms'
        OBVIOUS
      <4>3. StateOK(u, Idle, call) /\ Hears(t, u) /\ Same(t, u)
        BY <3>3, <3>4, <4>1, <4>2, IdGoes
      <4>4. Hears(s, u)
        BY <3>3, <4>3, HearsThen
      <4>5. (Sound(left) => Sound(u)) /\ id \notin DOMAIN u.screens
        BY <3>2, <3>4, <4>3, SameSound DEF Grows, Same
      <4>6. Parted(s, r, u, Idle)
        BY <2>12, <4>5
      <4> QED BY <4>1, <4>2, <4>3, <4>4, <4>6
    <3>6. CASE IsRealScreen(t, main)
      <4>1. main \in Nat
        BY <3>3, <3>6, GoodFields DEF IsRealScreen
      <4>2. PICK u : u = FindMirrorGroup(t, main)
        OBVIOUS
      <4>3. Grows(t, u)
        <5>1. Source(t, main)
          BY <3>3, <3>6, RealSource DEF IsRealScreen, IsVirtual
        <5>2. main \in DOMAIN t.screens
          BY <3>6 DEF IsRealScreen
        <5> QED BY <3>3, <4>2, <5>1, <5>2, FindGroupOK
      <4>4. Good(u) /\ Loose(u) \subseteq {id} /\ AgentsBut(u, {}) /\ CallOK(call, u) /\ Hears(s, u)
        <5>1. Hears(s, u)
          BY <3>3, <4>3, HearsThen DEF Grows, Keeps
        <5> QED BY <3>3, <4>3, <5>1, AgentsKept, CallKept DEF Grows, Keeps
      <4>5. id \notin DOMAIN u.screens /\ id < u.count
        BY <2>3, <3>3, <3>4, <4>3, StillGone DEF Grows
      <4>6. CASE GroupOf(t, main) = NoScreen
        <5>1. dms' = DeleteScreenId(u, id) /\ work' = Idle
          BY <1>2, <2>1, <2>3, <2>4, <2>10, <3>1, <3>6, <4>2, <4>6 DEF ProcessScreenDisconnected
        <5>2. PICK v : v = dms'
          OBVIOUS
        <5>3. StateOK(v, Idle, call) /\ Hears(u, v) /\ Same(u, v)
          BY <4>4, <4>5, <5>1, <5>2, IdGoes
        <5>4. Hears(s, v)
          BY <4>4, <5>3, HearsThen
        <5>5. (Sound(left) => Sound(v)) /\ id \notin DOMAIN v.screens
          BY <3>2, <4>3, <4>5, <5>3, SameSound DEF Grows, Same
        <5>6. Parted(s, r, v, Idle)
          BY <2>12, <5>5
        <5> QED BY <5>1, <5>2, <5>3, <5>4, <5>6
      <4>7. CASE GroupOf(t, main) # NoScreen
        <5>1. PICK h, list, filter : h = GroupOf(t, main) /\ list = t.groups[g].kids \ {main} /\ filter = IsMirrorOf(t, main)
          OBVIOUS
        <5>2. dms' = u /\ work' = ChangeFrame(h, list, filter, "MIRROR", id)
          BY <1>2, <2>1, <2>3, <2>4, <2>10, <3>1, <3>6, <4>2, <4>7, <5>1 DEF ProcessScreenDisconnected
        <5>3. h \in DOMAIN t.groups /\ h \in Nat /\ h \in DOMAIN u.groups
          BY <3>3, <4>3, <4>7, <5>1, GroupOfOK, GoodFields DEF Grows, Keeps
        <5>4. g \in DOMAIN gone.groups
          BY <2>4, <2>10, <3>1 DEF LosesSource, Live
        <5>5. g \in DOMAIN t.groups
          BY <2>7, <3>2, <5>4 DEF Keeps
        <5>6. list \in SUBSET Nat
          BY <3>3, <5>1, <5>5, GoodFields DEF Groups
        <5>7. filter \in BOOLEAN
          BY <5>1 DEF IsMirrorOf
        <5>8. /\ work' \in Frames /\ work'.group = h /\ work'.drop = id /\ work'.step = "leave"
              /\ work'.list = list /\ work'.join = {}
          BY <2>3, <5>2, <5>3, <5>6, <5>7 DEF ChangeFrame, Frames, Modes
        <5>9. FrameOK(work', dms') /\ DropOf(work') = {id}
          BY <4>5, <5>2, <5>3, <5>8 DEF FrameOK, DropOf
        <5>10. ASSUME Sound(s) PROVE Sound(u) /\ h \in Live(u) /\ main \in Kids(u, h)
          <6>1. Sound(t) /\ Sound(u)
            BY <2>11, <3>2, <4>3, <5>10 DEF Grows
          <6>2. main \in DOMAIN t.screens /\ h = t.screens[main].group /\ h # NoScreen /\ h \in Live(t)
            BY <3>6, <4>7, <5>1 DEF IsRealScreen, GroupOf
          <6>3. main \in Kids(t, h)
            BY <6>1, <6>2 DEF Sound, Housed
          <6> QED BY <4>3, <6>1, <6>2, <6>3 DEF Grows, Stay
        <5>11. main \notin list
          BY <5>1
        <5>12. Parted(s, r, dms', work')
          <6>1. Sound(s) => Sound(dms') /\ Framed(dms', work', Idle)
            BY <5>2, <5>8, <5>10, <5>11 DEF Framed
          <6> QED BY <1>2, <2>1, <2>3, <4>5, <5>2, <5>8, <6>1 DEF Parted
        <5> QED BY <4>4, <5>2, <5>9, <5>12 DEF StateOK, WorkOK
      <4> QED BY <4>6, <4>7
    <3> QED BY <3>5, <3>6
  <2> QED BY <2>9, <2>10
<1> QED BY <1>1, <1>2

-----------------------------------------------------------------------------
(* The steps of the render service, and of the queue of tasks. *)
LEMMA QueueKept ==
  ASSUME NEW s, Good(s), NEW t, t = [s EXCEPT !.tasks = t.tasks, !.defaultRs = t.defaultRs],
         t.tasks \in Seq(Tasks), t.defaultRs \in Real \cup {NoRs},
         \A K, id : Hear(s.tasks, K, DOMAIN s.screens, id) => Hear(t.tasks, K, DOMAIN s.screens, id)
  PROVE  Keeps(s, t)
<1>1. s \in States
  BY GoodFields
<1>2. t \in States
  BY <1>1 DEF States
<1>3. /\ t.count = s.count /\ t.dms2rs = s.dms2rs /\ t.rs2dms = s.rs2dms /\ t.agents = s.agents
      /\ t.groups = s.groups /\ t.screens = s.screens
  BY <1>1 DEF States
<1>4. Hears(s, t)
  BY <1>3 DEF Hears, Heeded
<1>5. \A g \in DOMAIN t.groups : Source(s, t.groups[g].mirror)
  BY <1>3 DEF Good, Sourced
<1> QED BY <1>2, <1>3, <1>4, <1>5, KeepsIf

LEMMA InvKeeps ==
  ASSUME DsInv, RsOK', Keeps(dms, dms'), WorkOK(work', dms), DropOf(work) \subseteq DropOf(work'), CallOK(call', dms),
         torn' \in BOOLEAN, UNCHANGED known
  PROVE  DsInv'
<1>1. StateOK(dms, work, call')
  BY DEF DsInv, StateOK
<1>2. StateOK(dms', work', call')
  BY <1>1, KeptOK
<1>3. PICK t : t = dms'
  OBVIOUS
<1>4. Agree(t, known)
  BY <1>3, AgreeKept DEF DsInv, Keeps
<1> QED BY <1>2, <1>3, <1>4 DEF DsInv

LEMMA InvHeard ==
  ASSUME DsInv, RsOK', StateOK(dms', work', call'), Hears(dms, dms'), UNCHANGED known, torn' \in BOOLEAN PROVE DsInv'
<1>1. PICK t : t = dms'
  OBVIOUS
<1>2. Agree(t, known)
  BY <1>1, AgreeKept DEF DsInv
<1> QED BY <1>1, <1>2 DEF DsInv

LEMMA InvSame ==
  ASSUME DsInv, UNCHANGED <<rs, work, known>>, Keeps(dms, dms'), CallOK(call', dms), Remember PROVE DsInv'
<1>1. RsOK' /\ torn' \in BOOLEAN
  BY DEF DsInv, RsOK, Remember
<1>2. WorkOK(work', dms) /\ DropOf(work) \subseteq DropOf(work')
  BY DEF DsInv, StateOK
<1> QED BY <1>1, <1>2, InvKeeps

LEMMA InvGood == ASSUME DsInv PROVE /\ RsOK /\ Good(dms) /\ WorkOK(work, dms) /\ CallOK(call, dms) /\ torn \in BOOLEAN
                                    /\ AgentsBut(dms, {}) /\ Loose(dms) \subseteq DropOf(work) /\ Agree(dms, known)
BY DEF DsInv, StateOK

LEMMA RsSet ==
  ASSUME RsOK, NEW real \in SUBSET Real, NEW d \in Real \cup {NoRs}, d \in real \cup {NoRs},
         NEW events \in Seq(Events), NEW plugs \in Nat,
         rs' = [rs EXCEPT !.real = real, !.default = d, !.events = events, !.plugs = plugs]
  PROVE  RsOK'
<1>1. rs' \in [real : SUBSET Real, default : Real \cup {NoRs}, events : Seq(Events), plugs : Nat]
  BY DEF RsOK
<1>2. rs'.default = d /\ rs'.real = real
  BY DEF RsOK
<1> QED BY <1>1, <1>2 DEF RsOK

LEMMA RsSteps == ASSUME DsInv, NEW r \in Real, Plug(r) \/ Unplug(r) PROVE DsInv'
<1>1. UNCHANGED <<dms, work, call, known, torn>>
  BY DEF Plug, Unplug
<1>2. RsOK'
  <2>1. RsEvent("connected", r) \in Events /\ (r \in HotPlug => RsEvent("disconnected", r) \in Events)
    BY DEF RsEvent, Events
  <2>2. /\ rs.real \subseteq Real /\ rs.default \in rs.real \cup {NoRs} /\ rs.events \in Seq(Events) /\ rs.plugs \in Nat
        /\ rs \in [real : SUBSET Real, default : Real \cup {NoRs}, events : Seq(Events), plugs : Nat]
    BY DEF DsInv, RsOK
  <2>3. CASE Plug(r)
    <3>1. PICK real, d, events, plugs :
            /\ real = rs.real \cup {r} /\ events = Append(rs.events, RsEvent("connected", r))
            /\ d = IF rs.default = NoRs THEN r ELSE rs.default
            /\ plugs = rs.plugs + 1
      OBVIOUS
    <3>2. rs' = [rs EXCEPT !.real = real, !.default = d, !.events = events, !.plugs = plugs]
      BY <2>2, <2>3, <3>1 DEF Plug
    <3>3. real \subseteq Real /\ d \in real \cup {NoRs} /\ d \in Real \cup {NoRs}
      BY <2>2, <3>1
    <3>4. events \in Seq(Events) /\ plugs \in Nat
      BY <2>1, <2>2, <3>1
    <3> QED BY <3>2, <3>3, <3>4, InvGood, RsSet
  <2>4. CASE Unplug(r)
    <3>1. PICK d \in IF rs.default # r THEN {rs.default} ELSE IF rs.real = {r} THEN {NoRs} ELSE rs.real \ {r} :
             rs' = [rs EXCEPT !.real = @ \ {r}, !.default = d,
                              !.events = Append(@, RsEvent("disconnected", r)), !.plugs = @ + 1]
      BY <2>4 DEF Unplug
    <3>2. d \in (rs.real \ {r}) \cup {NoRs}
      BY <2>2, <3>1
    <3>3. PICK real, events, plugs :
            real = rs.real \ {r} /\ events = Append(rs.events, RsEvent("disconnected", r)) /\ plugs = rs.plugs + 1
      OBVIOUS
    <3>4. rs' = [rs EXCEPT !.real = real, !.default = d, !.events = events, !.plugs = plugs]
      BY <3>1, <3>3
    <3>5. real \subseteq Real /\ d \in real \cup {NoRs} /\ d \in Real \cup {NoRs}
      BY <2>2, <3>2, <3>3
    <3>6. events \in Seq(Events) /\ plugs \in Nat
      <4>1. RsEvent("disconnected", r) \in Events
        BY <2>1, <2>4 DEF Unplug
      <4> QED BY <2>2, <3>3, <4>1
    <3> QED BY <3>4, <3>5, <3>6, InvGood, RsSet
  <2> QED BY <2>3, <2>4
<1>3. Keeps(dms, dms')
  BY <1>1, InvGood, KeepsSelf
<1> QED BY <1>1, <1>2, <1>3, InvGood, InvKeeps

LEMMA EventStep == ASSUME DsInv, OnRsScreenConnectionChange PROVE DsInv'
<1>1. UNCHANGED <<work, call, known>> /\ Remember /\ rs.events # <<>> /\ rs' = [rs EXCEPT !.events = Tail(@)]
  BY DEF OnRsScreenConnectionChange
<1>2. rs.events \in Seq(Events) /\ rs \in [real : SUBSET Real, default : Real \cup {NoRs}, events : Seq(Events), plugs : Nat]
  BY InvGood DEF RsOK
<1>3. RsOK'
  <2>1. Tail(rs.events) \in Seq(Events)
    BY <1>1, <1>2
  <2> QED BY <1>1, <1>2, <2>1, InvGood DEF RsOK
<1>4. PICK e \in Events : e = Head(rs.events)
  BY <1>1, <1>2
<1>5. PICK task : task = [op |-> e.op, of |-> e.of]
  OBVIOUS
<1>6. task \in Tasks /\ task.op \notin Tells
  BY <1>4, <1>5 DEF Events, Tasks, Tells
<1>7. dms \in States /\ dms.tasks \in Seq(Tasks) /\ dms.defaultRs \in Real \cup {NoRs}
  BY InvGood, GoodFields
<1>8. dms' = PostTask(ForgetDefault(dms, e), e.op, e.of)
  BY <1>4 DEF OnRsScreenConnectionChange
<1>9. /\ dms'.tasks = Append(dms.tasks, task)
      /\ dms'.defaultRs = NoRs \/ dms'.defaultRs = dms.defaultRs
      /\ dms' = [dms EXCEPT !.tasks = dms'.tasks, !.defaultRs = dms'.defaultRs]
  BY <1>5, <1>7, <1>8 DEF PostTask, ForgetDefault, States
<1>10. Keeps(dms, dms')
  <2>1. dms'.tasks \in Seq(Tasks) /\ dms'.defaultRs \in Real \cup {NoRs}
    BY <1>6, <1>7, <1>9
  <2>2. PICK t : t = dms'
    OBVIOUS
  <2>3. ASSUME NEW K, NEW id, Hear(dms.tasks, K, DOMAIN dms.screens, id)
        PROVE  Hear(t.tasks, K, DOMAIN dms.screens, id)
    BY <1>6, <1>7, <1>9, <2>2, <2>3, QuietTask
  <2> QED BY <1>9, <2>1, <2>2, <2>3, InvGood, QueueKept
<1>11. torn' \in BOOLEAN
  BY <1>1, InvGood DEF Remember
<1> QED BY <1>1, <1>3, <1>10, <1>11, InvGood, InvKeeps

LEMMA PopOK ==
  ASSUME DsInv, dms.tasks # <<>>
  PROVE  /\ Head(dms.tasks) \in Tasks /\ (Head(dms.tasks).op \notin Tells => Keeps(dms, PopTask))
         /\ PopTask.screens = dms.screens /\ PopTask.groups = dms.groups /\ PopTask.agents = dms.agents
         /\ PopTask.rs2dms = dms.rs2dms
<1>1. dms \in States /\ dms.tasks \in Seq(Tasks) /\ dms.defaultRs \in Real \cup {NoRs}
  BY InvGood, GoodFields
<1>2. PICK t : t = PopTask
  OBVIOUS
<1>3. t = [dms EXCEPT !.tasks = t.tasks, !.defaultRs = t.defaultRs] /\ t.tasks = Tail(dms.tasks) /\ t.defaultRs = dms.defaultRs
  BY <1>1, <1>2 DEF PopTask, States
<1>4. t.tasks \in Seq(Tasks)
  BY <1>1, <1>3
<1>5. ASSUME Head(dms.tasks).op \notin Tells PROVE Keeps(dms, t)
  <2>1. ASSUME NEW K, NEW id, Hear(dms.tasks, K, DOMAIN dms.screens, id)
        PROVE  Hear(t.tasks, K, DOMAIN dms.screens, id)
    <3>1. ~IsTell(Head(dms.tasks), id)
      BY <1>5 DEF IsTell
    <3> QED BY <1>1, <1>3, <2>1, <3>1, DoneTask
  <2> QED BY <1>1, <1>3, <1>4, <2>1, InvGood, QueueKept
<1>6. t.screens = dms.screens /\ t.groups = dms.groups /\ t.agents = dms.agents /\ t.rs2dms = dms.rs2dms
  BY <1>1, <1>2 DEF PopTask, States
<1> QED BY <1>1, <1>2, <1>5, <1>6

(* The clients are told of a screen. *)
LEMMA NotifyStep == ASSUME DsInv, NotifyTask PROVE DsInv'
<1>1. PICK task, t : task = Head(dms.tasks) /\ t = PopTask
  OBVIOUS
<1>2. /\ dms.tasks # <<>> /\ task.op \in Tells /\ dms' = t /\ Remember /\ UNCHANGED <<rs, work, call>>
      /\ known' = IF task.op = "tellConnect" THEN known \cup {task.of} ELSE known \ {task.of}
  BY <1>1 DEF NotifyTask, Tells
<1>3. dms \in States /\ dms.tasks \in Seq(Tasks) /\ Head(dms.tasks) = dms.tasks[1] /\ dms.tasks[1] \in Tasks
      /\ Tail(dms.tasks) \in Seq(Tasks)
  BY <1>2, InvGood, GoodFields, QueueTail
<1>4. t.tasks = Tail(dms.tasks) /\ t = [dms EXCEPT !.tasks = t.tasks]
  BY <1>1, <1>3 DEF PopTask, States
<1>5. t \in States
  BY <1>3, <1>4 DEF States
<1>6. /\ t.count = dms.count /\ t.dms2rs = dms.dms2rs /\ t.rs2dms = dms.rs2dms /\ t.agents = dms.agents
      /\ t.groups = dms.groups /\ t.screens = dms.screens
  BY <1>3, <1>4 DEF States
<1>7. StateOK(t, work, call)
  <2>1. Good(t) /\ Loose(t) = Loose(dms)
    BY <1>5, <1>6, InvGood DEF Good, Paired, Bounded, Sourced, Source, Loose
  <2>2. AgentsBut(t, {}) /\ WorkOK(work, t) /\ CallOK(call, t)
    BY <1>6, InvGood DEF AgentsBut, IsVirtual, WorkOK, FrameOK, CallOK
  <2> QED BY <2>1, <2>2, InvGood DEF StateOK
<1>8. Agree(t, known')
  <2>1. known \in SUBSET Nat /\ \A id \in Nat : Hear(dms.tasks, known, DOMAIN dms.screens, id)
    BY InvGood DEF Agree, Heeded
  <2>2. task.of \in Nat
    BY <1>1, <1>2, <1>3 DEF Tasks, Tells
  <2>3. ASSUME NEW id \in Nat PROVE Hear(t.tasks, known', DOMAIN t.screens, id)
    <3>1. id \in known' <=> IF IsTell(Head(dms.tasks), id) THEN Head(dms.tasks).op = "tellConnect" ELSE id \in known
      BY <1>1, <1>2 DEF IsTell
    <3>2. PICK q, L : q = dms.tasks /\ L = known'
      OBVIOUS
    <3>3. /\ q \in Seq(Tasks) /\ q # <<>> /\ t.tasks = Tail(q) /\ Hear(q, known, DOMAIN t.screens, id)
          /\ id \in L <=> IF IsTell(Head(q), id) THEN Head(q).op = "tellConnect" ELSE id \in known
      BY <1>2, <1>3, <1>4, <1>6, <2>1, <3>1, <3>2
    <3>4. Hear(t.tasks, L, DOMAIN t.screens, id)
      BY <3>3, DoneTask
    <3> QED BY <3>2, <3>4
  <2> QED BY <1>2, <2>1, <2>2, <2>3 DEF Agree, Heeded
<1>9. RsOK' /\ torn' \in BOOLEAN
  BY <1>2, InvGood DEF RsOK, Remember
<1> QED BY <1>2, <1>7, <1>8, <1>9 DEF DsInv

(* A screen was unplugged. *)
LEMMA PartStep ==
  ASSUME DsInv, ScreenDisconnectedTask
  PROVE  DsInv' /\ Parted(PopTask, Head(dms.tasks).of, dms', work')
<1>1. PICK s, r : s = PopTask /\ r = Head(dms.tasks).of
  OBVIOUS
<1>2. /\ dms.tasks # <<>> /\ Head(dms.tasks).op = "disconnected" /\ ProcessScreenDisconnected(s, r)
      /\ Remember /\ UNCHANGED <<rs, call, known>> /\ work = Idle
  BY <1>1 DEF ScreenDisconnectedTask, Free
<1>3. Keeps(dms, s) /\ Good(s) /\ r \in Real /\ r \in RsIds
  BY <1>1, <1>2, PopOK, ServiceAssumption DEF Keeps, Tasks, RsIds, Tells
<1>4. Loose(s) = {} /\ CallOK(call, s) /\ AgentsBut(s, {})
  BY <1>2, <1>3, IdleDrops, InvGood, CallKept, AgentsKept DEF Keeps
<1>5. AgentsBut(s, IF HasRsScreenId(s, r) THEN {s.rs2dms[r]} ELSE {})
  <2>1. CASE HasRsScreenId(s, r)
    <3>1. PICK id : id = s.rs2dms[r]
      OBVIOUS
    <3>2. id \in DOMAIN s.dms2rs /\ s.dms2rs[id] = r
      BY <2>1, <3>1, <1>3 DEF Good, Paired, HasRsScreenId
    <3>3. id \in DOMAIN s.screens => ~IsVirtual(s, id)
      BY <1>3, <3>2, RsIdAssumption DEF Good, Paired, IsVirtual
    <3>4. AgentsBut(s, {id})
      BY <1>4, <3>3 DEF AgentsBut
    <3> QED BY <2>1, <3>1, <3>4
  <2> QED BY <1>4, <2>1
<1>6. StateOK(dms', work', call) /\ Hears(s, dms') /\ Parted(s, r, dms', work')
  BY <1>2, <1>3, <1>4, <1>5, DisconnectedOK, InvGood
<1>7. RsOK' /\ torn' \in BOOLEAN
  BY <1>2, InvGood DEF RsOK, Remember
<1>8. PICK t : t = dms'
  OBVIOUS
<1>9. Hears(dms, t)
  BY <1>3, <1>6, <1>8, HearsThen DEF Keeps
<1>10. DsInv'
  BY <1>2, <1>6, <1>7, <1>8, <1>9, InvHeard
<1> QED BY <1>1, <1>6, <1>10

LEMMA TaskSteps == ASSUME DsInv, HandlerThread PROVE DsInv'
<1>1. CASE ScreenConnectedTask
  <2>1. PICK s, r : s = PopTask /\ r = Head(dms.tasks).of
    OBVIOUS
  <2>2. /\ dms.tasks # <<>> /\ Head(dms.tasks).op = "connected" /\ dms' = ProcessScreenConnected(s, r)
        /\ Remember /\ UNCHANGED <<rs, work, call, known>>
    BY <1>1, <2>1 DEF ScreenConnectedTask
  <2>3. Keeps(dms, s) /\ Good(s) /\ r \in Real
    BY <2>1, <2>2, PopOK DEF Keeps, Tasks, Tells
  <2>4. PICK t : t = dms'
    OBVIOUS
  <2>5. Keeps(s, t)
    BY <2>2, <2>3, <2>4, ConnectedOK, InvGood DEF Grows
  <2>6. Keeps(dms, dms')
    BY <2>3, <2>4, <2>5, KeepsThen, InvGood
  <2> QED BY <2>2, <2>6, InvSame, InvGood
<1>2. CASE ScreenDisconnectedTask
  BY <1>2, PartStep
<1>3. CASE NotifyTask
  BY <1>3, NotifyStep
<1> QED BY <1>1, <1>2, <1>3 DEF HandlerThread

-----------------------------------------------------------------------------
(* The steps of the thread that holds the lock. *)
LEMMA InFrame ==
  ASSUME DsInv, work.step \in {"leave", "join"}
  PROVE  FrameOK(work, dms) /\ DropOf(work) = {work.drop}
BY InvGood DEF WorkOK, Idle, DropOf

LEMMA LeaveStep == ASSUME DsInv, ChangeLeave PROVE DsInv'
<1>1. PICK id, stays : /\ id = Min(work.list) /\ stays = (id \notin DOMAIN dms.screens \/ Filtered(id))
  OBVIOUS
<1>2. /\ work.step = "leave" /\ dms' = (IF stays THEN dms ELSE LeaveGroup(dms, id))
      /\ work' = [work EXCEPT !.list = @ \ {id}, !.join = IF stays THEN @ ELSE @ \cup {id}]
      /\ Remember /\ UNCHANGED <<rs, call, known>>
  BY <1>1 DEF ChangeLeave
<1>3. FrameOK(work, dms) /\ DropOf(work) = {work.drop}
  BY <1>2, InFrame
<1>4. PICK join : join = IF stays THEN work.join ELSE work.join \cup {id}
  OBVIOUS
<1>5. join \in SUBSET Nat
  BY <1>1, <1>3, <1>4, InvGood, GoodFields DEF FrameOK, Frames
<1>6. work' = [work EXCEPT !.list = @ \ {id}, !.join = join]
  BY <1>2, <1>4
<1>7. work' \in Frames /\ work'.group = work.group /\ work'.drop = work.drop /\ work'.step = "leave"
  <2>1. PICK list : list = work.list \ {id}
    OBVIOUS
  <2>2. work' = [work EXCEPT !.list = list, !.join = join] /\ work \in Frames /\ work.step = "leave"
    BY <1>2, <1>3, <1>6, <2>1 DEF FrameOK
  <2>3. list \in SUBSET Nat
    BY <2>1, <2>2 DEF Frames
  <2> QED BY <1>5, <2>2, <2>3 DEF Frames
<1>8. WorkOK(work', dms) /\ DropOf(work) \subseteq DropOf(work')
  BY <1>3, <1>7 DEF WorkOK, FrameOK, DropOf
<1>9. PICK t : t = dms'
  OBVIOUS
<1>10. Keeps(dms, t)
  BY <1>2, <1>9, LeaveOK, KeepsSelf, InvGood DEF Shrinks
<1>11. RsOK' /\ torn' \in BOOLEAN /\ CallOK(call', dms)
  BY <1>2, InvGood DEF RsOK, Remember
<1> QED BY <1>2, <1>8, <1>9, <1>10, <1>11, InvKeeps

LEMMA CombinationStep == ASSUME DsInv, ChangeCombination PROVE DsInv'
<1>1. /\ work.step = "leave" /\ dms' = [dms EXCEPT !.groups[work.group].mode = work.mode]
      /\ work' = [work EXCEPT !.step = "join"] /\ Remember /\ UNCHANGED <<rs, call, known>>
  BY DEF ChangeCombination
<1>2. FrameOK(work, dms) /\ DropOf(work) = {work.drop}
  BY <1>1, InFrame
<1>3. PICK g \in DOMAIN dms.groups, mode \in Modes : g = work.group /\ mode = work.mode
  BY <1>2 DEF FrameOK, Frames
<1>4. dms \in States /\ dms.groups[g] \in Groups
  BY InvGood, GoodFields
<1>5. PICK v : v = [dms.groups[g] EXCEPT !.mode = mode]
  OBVIOUS
<1>6. v \in Groups /\ Source(dms, v.mirror) /\ v.kids = dms.groups[g].kids /\ v.mapped = dms.groups[g].mapped
  <2>1. /\ v \in Groups /\ v.mirror = dms.groups[g].mirror
        /\ v.kids = dms.groups[g].kids /\ v.mapped = dms.groups[g].mapped
    BY <1>4, <1>5 DEF Groups
  <2> QED BY <2>1, InvGood DEF Good, Sourced
<1>7. PICK t : t = dms'
  OBVIOUS
<1>8. t = [dms EXCEPT !.groups[g] = v]
  BY <1>1, <1>3, <1>4, <1>5, <1>7 DEF States
<1>9. Keeps(dms, t)
  BY <1>6, <1>8, InvGood, GroupKept DEF Grows
<1>10. work' \in Frames /\ work'.group = work.group /\ work'.drop = work.drop /\ work'.step = "join"
  BY <1>1, <1>2 DEF FrameOK, Frames
<1>11. WorkOK(work', dms) /\ DropOf(work) \subseteq DropOf(work')
  BY <1>2, <1>10 DEF WorkOK, FrameOK, DropOf
<1>12. RsOK' /\ torn' \in BOOLEAN /\ CallOK(call', dms)
  BY <1>1, InvGood DEF RsOK, Remember
<1> QED BY <1>1, <1>7, <1>9, <1>11, <1>12, InvKeeps

LEMMA JoinStep == ASSUME DsInv, ChangeJoin PROVE DsInv'
<1>1. PICK id, g : id = Min(work.join) /\ g = work.group
  OBVIOUS
<1>2. /\ work.step = "join" /\ work.join # {} /\ dms' = OnScreenConnect(AddChild(dms, g, id), id)
      /\ work' = [work EXCEPT !.join = @ \ {id}] /\ Remember /\ UNCHANGED <<rs, call, known>>
  BY <1>1 DEF ChangeJoin
<1>3. FrameOK(work, dms) /\ DropOf(work) = {work.drop}
  BY <1>2, InFrame
<1>4. id \in Nat /\ g \in DOMAIN dms.groups
  <2>1. work.join \in SUBSET Nat
    BY <1>3 DEF FrameOK, Frames
  <2> QED BY <1>1, <1>2, <1>3, <2>1, MinIn DEF FrameOK
<1>5. PICK u, t : u = AddChild(dms, g, id) /\ t = dms'
  OBVIOUS
<1>6. Keeps(dms, u)
  BY <1>4, <1>5, AddChildOK, InvGood
<1>7. Good(u) /\ t = OnScreenConnect(u, id)
  BY <1>2, <1>5, <1>6 DEF Keeps
<1>8. Keeps(u, t)
  BY <1>7, OnConnectOK, InvGood DEF Grows
<1>9. Keeps(dms, t)
  BY <1>6, <1>8, KeepsThen, InvGood
<1>10. work' \in Frames /\ work'.group = work.group /\ work'.drop = work.drop /\ work'.step = "join"
  BY <1>2, <1>3 DEF FrameOK, Frames
<1>11. WorkOK(work', dms) /\ DropOf(work) \subseteq DropOf(work')
  BY <1>3, <1>10 DEF WorkOK, FrameOK, DropOf
<1>12. RsOK' /\ torn' \in BOOLEAN /\ CallOK(call', dms)
  BY <1>2, InvGood DEF RsOK, Remember
<1> QED BY <1>2, <1>5, <1>9, <1>11, <1>12, InvKeeps

LEMMA DoneStep == ASSUME DsInv, ChangeDone PROVE DsInv'
<1>1. PICK cut, t : cut = DeleteScreenId(dms, work.drop) /\ t = dms'
  OBVIOUS
<1>2. /\ work.step = "join" /\ t = Collect(cut, CallGroup(call)) /\ work' = Idle
      /\ Remember /\ UNCHANGED <<rs, call, known>>
  BY <1>1 DEF ChangeDone
<1>3. work.drop \notin DOMAIN dms.screens /\ DropOf(work) = {work.drop}
  BY <1>2, InFrame DEF FrameOK
<1>4. StateOK(cut, Idle, call) /\ Hears(dms, cut)
  BY <1>1, <1>3, IdGoes, InvGood
<1>5. StateOK(t, Idle, call) /\ Hears(cut, t)
  BY <1>2, <1>4, GroupsGo
<1>6. RsOK' /\ torn' \in BOOLEAN
  BY <1>2, InvGood DEF RsOK, Remember
<1>7. Hears(dms, t)
  BY <1>4, <1>5, HearsThen
<1> QED BY <1>1, <1>2, <1>5, <1>6, <1>7, InvHeard

(* A client forgets a screen of its own. *)
LEMMA ForgetOK ==
  ASSUME NEW s, Good(s), AgentsBut(s, {}), NEW a \in Agents, NEW id \in s.agents[a], NEW t, t = Forget(s, id)
  PROVE  /\ Good(t) /\ id \in DOMAIN t.screens /\ AgentsBut(t, {id}) /\ Loose(t) = Loose(s) /\ Hears(s, t)
         /\ t.groups = s.groups /\ t.screens = s.screens /\ t.dms2rs = s.dms2rs /\ t.rs2dms = s.rs2dms
<1>1. s \in States /\ s.agents \in [Agents -> SUBSET Nat]
  BY GoodFields
<1>2. t.agents = [b \in Agents |-> s.agents[b] \ {id}] /\ t = [s EXCEPT !.agents = t.agents]
  BY <1>1 DEF Forget, States
<1>3. t.agents \in [Agents -> SUBSET Nat]
  BY <1>1, <1>2
<1>4. t \in States
  BY <1>1, <1>2, <1>3 DEF States
<1>5. /\ t.count = s.count /\ t.dms2rs = s.dms2rs /\ t.rs2dms = s.rs2dms
      /\ t.groups = s.groups /\ t.screens = s.screens /\ t.tasks = s.tasks
  BY <1>1, <1>2 DEF States
<1>6. Good(t) /\ Loose(t) = Loose(s) /\ Hears(s, t)
  BY <1>4, <1>5, HearsSame DEF Good, Paired, Bounded, Sourced, Source, Loose
<1>7. AgentsBut(t, {id}) /\ id \in DOMAIN t.screens
  BY <1>2, <1>5 DEF AgentsBut, IsVirtual
<1> QED BY <1>5, <1>6, <1>7

LEMMA OneDied == ASSUME DsInv, DiedNext PROVE DsInv' /\ Moved(dms, dms')
<1>1. /\ work.step = "died" /\ dms.agents[work.agent] # {} /\ Remember /\ UNCHANGED <<rs, work, call, known>>
  BY DEF DiedNext
<1>2. work \in [step : {"died"}, agent : Agents]
  BY <1>1, InvGood DEF WorkOK, Idle, FrameOK, Frames
<1>3. PICK a \in Agents : a = work.agent
  BY <1>2
<1>4. dms.agents[a] \in SUBSET Nat
  BY InvGood, GoodFields
<1>5. PICK id \in dms.agents[a] : id = Min(dms.agents[work.agent])
  BY <1>1, <1>3, <1>4, MinIn
<1>6. PICK s, gone, left, cut, t :
        /\ s = Forget(dms, id) /\ gone = LeaveGroup(s, id) /\ left = EraseScreen(gone, id)
        /\ cut = DeleteScreenId(left, id) /\ t = dms'
  OBVIOUS
<1>7. t = Collect(cut, CallGroup(call))
  BY <1>5, <1>6 DEF DiedNext
<1>8. DropOf(work) = {} /\ Loose(dms) = {}
  BY <1>1, InvGood DEF DropOf
<1>9. /\ Good(s) /\ id \in DOMAIN s.screens /\ AgentsBut(s, {id}) /\ Loose(s) = {} /\ s.groups = dms.groups
      /\ s.screens = dms.screens
      /\ Hears(dms, s)
  BY <1>6, <1>8, ForgetOK, InvGood
<1>10. CallOK(call, s)
  BY <1>9, InvGood DEF CallOK
<1>11. Keeps(s, gone)
  BY <1>6, <1>9, LeaveOK, InvGood DEF Shrinks
<1>12. /\ Good(gone) /\ AgentsBut(gone, {id}) /\ id \in DOMAIN gone.screens /\ Loose(gone) = {} /\ CallOK(call, gone)
       /\ Hears(s, gone)
  BY <1>9, <1>10, <1>11, AgentsKept, CallKept DEF Keeps
<1>13. /\ Good(left) /\ left.groups = gone.groups /\ Loose(left) \subseteq {id}
       /\ id \notin DOMAIN left.screens /\ AgentsBut(left, {}) /\ Hears(gone, left)
  BY <1>6, <1>12, ScreenGoes
<1>14. CallOK(call, left)
  BY <1>12, <1>13 DEF CallOK
<1>15. StateOK(cut, Idle, call) /\ Hears(left, cut)
  BY <1>6, <1>13, <1>14, IdGoes
<1>16. StateOK(t, Idle, call) /\ Hears(cut, t)
  BY <1>7, <1>15, GroupsGo
<1>17. StateOK(t, work, call)
  BY <1>2, <1>8, <1>16, IdleDrops DEF StateOK, WorkOK
<1>18. RsOK' /\ torn' \in BOOLEAN
  BY <1>1, InvGood DEF RsOK, Remember
<1>19. Hears(dms, t)
  BY <1>9, <1>12, <1>13, <1>15, <1>16 DEF Hears
<1>20. Moved(dms, t)
  <2>1. Shrinks(s, gone, id)
    BY <1>6, <1>9, LeaveOK, InvGood
  <2>2. Sound(s) => Sound(left)
    BY <1>6, <1>9, <1>12, <2>1, GoodFields, EraseSound DEF Shrinks
  <2>3. Same(left, cut) /\ Same(cut, t)
    BY <1>6, <1>7, <1>13, <1>14, <1>15, IdGoes, GroupsGo
  <2>4. Sound(dms) => Sound(s)
    BY <1>9, AlikeSame, AlikeSound
  <2>5. id \notin DOMAIN t.screens /\ id \in DOMAIN dms.screens
    BY <1>9, <1>13, <2>3 DEF Same
  <2> QED BY <2>2, <2>3, <2>4, <2>5, SameSound DEF Moved
<1>21. DsInv'
  BY <1>1, <1>6, <1>17, <1>18, <1>19, InvHeard
<1> QED BY <1>6, <1>20, <1>21

LEMMA DiedSteps == ASSUME DsInv, DiedNext \/ DiedDone PROVE DsInv'
<1>1. CASE DiedNext
  BY <1>1, OneDied
<1>2. CASE DiedDone
  <2>1. work.step = "died" /\ work' = Idle /\ UNCHANGED <<rs, dms, call, known, torn>>
    BY <1>2 DEF DiedDone
  <2>2. DropOf(work) = {} /\ WorkOK(work', dms)
    BY <2>1 DEF DropOf, WorkOK
  <2>3. Keeps(dms, dms') /\ RsOK' /\ torn' \in BOOLEAN /\ CallOK(call', dms)
    BY <2>1, InvGood, KeepsSelf DEF RsOK
  <2> QED BY <2>1, <2>2, <2>3, InvKeeps
<1> QED BY <1>1, <1>2

-----------------------------------------------------------------------------
(* The binder threads. *)
LEMMA IdleGood ==
  ASSUME DsInv, work = Idle
  PROVE  DropOf(work) = {} /\ Loose(dms) = {} /\ WorkOK(work, dms) /\ StateOK(dms, Idle, call)
BY IdleDrops DEF DsInv, StateOK

LEMMA CreateStep ==
  ASSUME DsInv, NEW a \in Agents, CreateVirtualScreen(a)
  PROVE  DsInv' /\ (Sound(dms) => Sound(dms')) /\ DOMAIN dms'.screens # DOMAIN dms.screens
<1>1. work = Idle /\ Remember /\ UNCHANGED <<rs, work, call, known>>
  BY DEF CreateVirtualScreen, Free
<1>2. PICK r \in Virtual \ DOMAIN dms.rs2dms :
        dms' = [InsertScreen(WithDefault(CreateScreenId(dms, r)), dms.count, r) EXCEPT !.agents[a] = @ \cup {dms.count}]
  BY DEF CreateVirtualScreen
<1>3. PICK id, made, asked, new, t :
        /\ id = dms.count /\ made = CreateScreenId(dms, r) /\ asked = WithDefault(made)
        /\ new = InsertScreen(asked, id, r) /\ t = dms'
  OBVIOUS
<1>4. r \in RsIds /\ r \in Virtual /\ r \notin Real /\ id \in Nat /\ \A x \in DOMAIN dms.screens : x < id
  BY <1>3, InvGood, GoodFields, RsIdAssumption DEF RsIds
<1>5. /\ Good(made) /\ made.count = id + 1 /\ id \in DOMAIN made.dms2rs /\ made.dms2rs[id] = r
      /\ made.screens = dms.screens /\ made.groups = dms.groups /\ made.agents = dms.agents
      /\ Loose(made) \subseteq {id} /\ Hears(dms, made)
  BY <1>1, <1>3, <1>4, CreateOK, IdleGood, InvGood
<1>6. AgentsBut(made, {}) /\ CallOK(call, made) /\ id \notin DOMAIN made.screens /\ id < made.count
  BY <1>4, <1>5, InvGood DEF AgentsBut, IsVirtual, CallOK
<1>7. Keeps(made, asked)
  BY <1>3, <1>5, WithDefaultOK, InvGood DEF Grows
<1>8. Good(asked) /\ Loose(asked) \subseteq {id} /\ AgentsBut(asked, {}) /\ CallOK(call, asked) /\ Hears(made, asked)
  BY <1>5, <1>6, <1>7, AgentsKept, CallKept DEF Keeps
<1>9. id \notin DOMAIN asked.screens
  BY <1>4, <1>5, <1>6, <1>7, StillGone
<1>10. id \in DOMAIN asked.dms2rs /\ asked.dms2rs[id] = r
  BY <1>4, <1>5, <1>7 DEF Keeps
<1>11. /\ Good(new) /\ DOMAIN new.screens = DOMAIN asked.screens \cup {id} /\ new.screens[id].rs = r
       /\ \A x \in DOMAIN asked.screens \ {id} : new.screens[x] = asked.screens[x]
       /\ new.groups = asked.groups /\ new.agents = asked.agents /\ Loose(new) \subseteq Loose(asked) \ {id}
       /\ Hears(asked, new)
  <2>1. Good(asked) /\ id \in Nat /\ r \in RsIds /\ id \in DOMAIN asked.dms2rs /\ asked.dms2rs[id] = r
    BY <1>4, <1>8, <1>10
  <2>2. new = InsertScreen(asked, id, r)
    BY <1>3
  <2>3. Inserted(asked, id, r, new)
    BY ONLY <2>1, <2>2, InsertOK
  <2> QED BY <2>3 DEF Inserted
<1>12. new \in States /\ new.agents \in [Agents -> SUBSET Nat]
  BY <1>11, GoodFields
<1>13. t = [new EXCEPT !.agents[a] = @ \cup {id}]
  BY <1>2, <1>3
<1>14. t.agents = [new.agents EXCEPT ![a] = @ \cup {id}] /\ t = [new EXCEPT !.agents = t.agents]
  BY <1>12, <1>13 DEF States
<1>15. t.agents \in [Agents -> SUBSET Nat]
  BY <1>4, <1>12, <1>14
<1>16. t \in States
  BY <1>12, <1>14, <1>15 DEF States
<1>17. /\ t.count = new.count /\ t.dms2rs = new.dms2rs /\ t.rs2dms = new.rs2dms
       /\ t.groups = new.groups /\ t.screens = new.screens /\ t.tasks = new.tasks
  BY <1>12, <1>14 DEF States
<1>18. Good(t) /\ Loose(t) = {}
  BY <1>8, <1>11, <1>16, <1>17 DEF Good, Paired, Bounded, Sourced, Source, Loose
<1>19. AgentsBut(t, {})
  <2>1. \A x \in DOMAIN t.screens : IsVirtual(t, x) <=> (x = id \/ (x \in DOMAIN asked.screens /\ IsVirtual(asked, x)))
    BY <1>4, <1>9, <1>11, <1>17 DEF IsVirtual
  <2>2. \A b \in Agents : asked.agents[b] \subseteq {x \in DOMAIN asked.screens : IsVirtual(asked, x)}
    BY <1>8 DEF AgentsBut
  <2>3. \A b \in Agents : t.agents[b] = IF b = a THEN asked.agents[a] \cup {id} ELSE asked.agents[b]
    BY <1>11, <1>12, <1>14
  <2>4. \A x \in DOMAIN t.screens : IsVirtual(t, x) => \E b \in Agents : x \in t.agents[b]
    BY <1>8, <1>11, <1>17, <2>1, <2>3 DEF AgentsBut
  <2>5. \A b \in Agents : t.agents[b] \subseteq {x \in DOMAIN t.screens : IsVirtual(t, x)}
    BY <1>11, <1>17, <2>1, <2>2, <2>3
  <2>6. \A b, c \in Agents : b # c => t.agents[b] \cap t.agents[c] = {}
    BY <1>8, <1>9, <2>2, <2>3 DEF AgentsBut
  <2> QED BY <2>4, <2>5, <2>6 DEF AgentsBut
<1>20. WorkOK(work, t) /\ CallOK(call, t)
  BY <1>1, <1>8, <1>11, <1>17 DEF WorkOK, CallOK
<1>21. StateOK(t, work, call)
  BY <1>18, <1>19, <1>20 DEF StateOK
<1>22. RsOK' /\ torn' \in BOOLEAN
  BY <1>1, InvGood DEF RsOK, Remember
<1>23. Hears(dms, t)
  <2>1. Hears(new, t)
    BY <1>17, HearsSame
  <2> QED BY <1>5, <1>8, <1>11, <2>1 DEF Hears
<1>24. Sound(dms) => Sound(t)
  <2>1. Alike(dms, made)
    BY <1>5, AlikeSame
  <2>2. Grows(made, asked)
    BY <1>3, <1>5, WithDefaultOK, InvGood
  <2>3. Inserted(asked, id, r, new)
    BY <1>3, <1>4, <1>8, <1>10, InsertOK
  <2>4. Alike(asked, new)
    BY <1>9, <2>3 DEF Inserted, Alike, Live, Kids
  <2>5. Alike(new, t)
    BY <1>17, AlikeSame
  <2> QED BY <2>1, <2>2, <2>4, <2>5, AlikeSound DEF Grows
<1>25. id \in DOMAIN t.screens /\ id \notin DOMAIN dms.screens
  BY <1>4, <1>11, <1>17
<1> QED BY <1>1, <1>3, <1>21, <1>22, <1>23, <1>24, <1>25, InvHeard

LEMMA DestroyStep ==
  ASSUME DsInv, NEW a \in Agents, DestroyVirtualScreen(a)
  PROVE  DsInv' /\ \E s, r : Moved(dms, s) /\ s.screens = dms.screens /\ Parted(s, r, dms', work')
<1>1. work = Idle /\ Remember /\ UNCHANGED <<rs, call, known>>
  BY DEF DestroyVirtualScreen, Free
<1>2. PICK id \in dms.agents[a] : DestroyScreen(dms, id)
  BY DEF DestroyVirtualScreen
<1>3. PICK s, r : s = Forget(dms, id) /\ r = ToRsScreenId(s, id)
  OBVIOUS
<1>4. /\ Good(s) /\ id \in DOMAIN s.screens /\ AgentsBut(s, {id}) /\ Loose(s) = {}
      /\ s.groups = dms.groups /\ s.screens = dms.screens /\ Hears(dms, s)
  BY <1>1, <1>3, ForgetOK, IdleGood, InvGood
<1>5. ProcessScreenDisconnected(s, r)
  BY <1>2, <1>3, <1>4 DEF DestroyScreen
<1>6. r \in RsIds /\ HasRsScreenId(s, r) /\ s.rs2dms[r] = id
  <2>1. id \in DOMAIN s.dms2rs /\ s.dms2rs[id] = s.screens[id].rs /\ s.screens[id].rs \in RsIds
    BY <1>4, GoodFields DEF Good, Paired, Screens
  <2>2. r = s.dms2rs[id] /\ r # NoRs
    BY <1>3, <2>1, RsIdAssumption DEF ToRsScreenId, RsIds
  <2> QED BY <1>4, <2>1, <2>2 DEF Good, Paired, HasRsScreenId
<1>7. CallOK(call, s)
  BY <1>4, InvGood DEF CallOK
<1>8. StateOK(dms', work', call) /\ Hears(s, dms') /\ Parted(s, r, dms', work')
  BY <1>1, <1>4, <1>5, <1>6, <1>7, DisconnectedOK, InvGood
<1>9. RsOK' /\ torn' \in BOOLEAN
  BY <1>1, InvGood DEF RsOK, Remember
<1>10. PICK t : t = dms'
  OBVIOUS
<1>11. Hears(dms, t)
  BY <1>4, <1>8, <1>10, HearsThen
<1>12. Moved(dms, s)
  BY <1>4, AlikeSame, SameMoved
<1>13. DsInv'
  BY <1>1, <1>8, <1>9, <1>10, <1>11, InvHeard
<1> QED BY <1>4, <1>8, <1>12, <1>13

LEMMA DiedStep == ASSUME DsInv, NEW a \in Agents, OnRemoteDied(a) PROVE DsInv'
<1>1. work = Idle /\ work' = [step |-> "died", agent |-> a] /\ UNCHANGED <<rs, dms, call, known, torn>>
  BY DEF OnRemoteDied, Free
<1>2. WorkOK(work', dms) /\ DropOf(work) \subseteq DropOf(work')
  BY <1>1, IdleGood DEF WorkOK
<1>3. Keeps(dms, dms') /\ RsOK' /\ torn' \in BOOLEAN /\ CallOK(call', dms)
  BY <1>1, InvGood, KeepsSelf DEF RsOK
<1> QED BY <1>1, <1>2, <1>3, InvKeeps

LEMMA RemoveStep == ASSUME DsInv, NEW id, RemoveVirtualScreenFromGroup(id) PROVE DsInv'
<1>1. PICK left, t : left = LeaveGroup(dms, id) /\ t = dms'
  OBVIOUS
<1>2. work = Idle /\ t = Collect(left, CallGroup(call)) /\ Remember /\ UNCHANGED <<rs, work, call, known>>
  BY <1>1 DEF RemoveVirtualScreenFromGroup, Free
<1>3. Keeps(dms, left)
  BY <1>1, LeaveOK, InvGood DEF Shrinks
<1>4. StateOK(left, Idle, call)
  BY <1>2, <1>3, IdleGood, KeptOK
<1>5. StateOK(t, Idle, call) /\ Hears(left, t)
  BY <1>2, <1>4, GroupsGo
<1>6. RsOK' /\ torn' \in BOOLEAN
  BY <1>2, InvGood DEF RsOK, Remember
<1>7. Hears(dms, t)
  BY <1>3, <1>5, HearsThen DEF Keeps
<1> QED BY <1>1, <1>2, <1>5, <1>6, <1>7, InvHeard

LEMMA DefaultStep == ASSUME DsInv, GetDefaultDisplayInfo PROVE DsInv'
<1>1. dms' = WithDefault(dms) /\ Remember /\ UNCHANGED <<rs, work, call, known>>
  BY DEF GetDefaultDisplayInfo
<1>2. PICK t : t = dms'
  OBVIOUS
<1>3. Keeps(dms, t)
  BY <1>1, <1>2, WithDefaultOK, InvGood DEF Grows
<1> QED BY <1>1, <1>2, <1>3, InvSame, InvGood

LEMMA AllScreensType == ASSUME DsInv, NEW ids PROVE AllScreens(ids) \in SUBSET Nat
<1>1. DOMAIN dms.screens \subseteq Nat
  BY InvGood, GoodFields
<1> QED BY <1>1 DEF AllScreens

LEMMA MakeMirrorStep == ASSUME DsInv, NEW main, NEW ids, MakeMirror(main, ids) PROVE DsInv'
<1>1. PICK list : list = AllScreens(ids) \ {main}
  OBVIOUS
<1>2. /\ call' = [step |-> "mirror", main |-> main, list |-> list]
      /\ UNCHANGED <<rs, dms, work, known, torn>>
  BY <1>1 DEF MakeMirror
<1>3. list \in SUBSET Nat
  BY <1>1, AllScreensType
<1>4. CallOK(call', dms)
  BY <1>2, <1>3 DEF CallOK
<1>5. Keeps(dms, dms') /\ RsOK' /\ torn' \in BOOLEAN /\ WorkOK(work', dms) /\ DropOf(work) \subseteq DropOf(work')
  BY <1>2, InvGood, KeepsSelf DEF RsOK
<1> QED BY <1>2, <1>4, <1>5, InvKeeps

LEMMA MakeExpandStep == ASSUME DsInv, NEW ids, MakeExpand(ids) PROVE DsInv'
<1>1. PICK list, t : list = AllScreens(ids) \ {DefaultScreen(dms)} /\ t = dms'
  OBVIOUS
<1>2. /\ t = WithDefault(dms) /\ call' = [step |-> "expand", list |-> list] /\ Remember
      /\ UNCHANGED <<rs, work, known>>
  BY <1>1 DEF MakeExpand
<1>3. list \in SUBSET Nat
  BY <1>1, AllScreensType
<1>4. CallOK(call', dms)
  BY <1>2, <1>3 DEF CallOK
<1>5. Keeps(dms, t)
  BY <1>2, WithDefaultOK, InvGood DEF Grows
<1> QED BY <1>1, <1>2, <1>4, <1>5, InvSame

-----------------------------------------------------------------------------
(* Inside MakeMirror and MakeExpand. *)
LEMMA MirrorStep == ASSUME DsInv, MirrorGroup PROVE DsInv'
<1>1. PICK main, t : main = call.main /\ t = dms'
  OBVIOUS
<1>2. call.step = "mirror" /\ Remember /\ UNCHANGED <<rs, work, known>>
  BY DEF MirrorGroup
<1>3. call.list \in SUBSET Nat
  BY <1>2, InvGood DEF CallOK
<1>4. CASE ~IsRealScreen(dms, main)
  <2>1. call' = Idle /\ t = dms
    BY <1>1, <1>4 DEF MirrorGroup
  <2>2. CallOK(call', dms)
    BY <2>1 DEF CallOK, Idle
  <2> QED BY <1>1, <1>2, <2>1, <2>2, InvSame, InvGood, KeepsSelf
<1>5. CASE IsRealScreen(dms, main)
  <2>1. main \in Nat
    BY <1>5, InvGood, GoodFields DEF IsRealScreen
  <2>2. t = FindMirrorGroup(dms, main)
    BY <1>1, <1>5 DEF MirrorGroup
  <2>3. Keeps(dms, t)
    <3>1. Source(dms, main)
      BY <1>5, InvGood, RealSource DEF IsRealScreen, IsVirtual
    <3>2. main \in DOMAIN dms.screens
      BY <1>5 DEF IsRealScreen
    <3> QED BY <2>2, <3>1, <3>2, FindGroupOK, InvGood DEF Grows
  <2>4. PICK g, filter : g = GroupOf(dms, main) /\ filter = IsMirrorOf(dms, main)
    OBVIOUS
  <2>5. call' = IF g = NoScreen THEN Idle
                ELSE [step |-> "change", group |-> g, list |-> call.list, filter |-> filter, mode |-> "MIRROR"]
    BY <1>1, <1>5, <2>4 DEF MirrorGroup
  <2>6. g # NoScreen => g \in DOMAIN dms.groups
    BY <2>4, GroupOfOK, InvGood
  <2>7. filter \in BOOLEAN
    BY <2>4 DEF IsMirrorOf
  <2>8. CallOK(call', dms)
    <3>1. CASE g = NoScreen
      BY <2>5, <3>1 DEF CallOK, Idle
    <3>2. CASE g # NoScreen
      BY <1>3, <2>5, <2>6, <2>7, <3>2 DEF CallOK, Modes
    <3> QED BY <3>1, <3>2
  <2> QED BY <1>1, <1>2, <2>3, <2>8, InvSame
<1> QED BY <1>4, <1>5

LEMMA ExpandStep == ASSUME DsInv, ExpandGroup PROVE DsInv'
<1>1. PICK t, g, filter : /\ t = dms' /\ g = GroupOf(t, DefaultScreen(dms)) /\ filter = (t.groups[g].mode = "EXPAND")
  OBVIOUS
<1>2. /\ call.step = "expand" /\ t = WithDefault(dms) /\ Remember /\ UNCHANGED <<rs, work, known>>
      /\ call' = IF g = NoScreen THEN Idle
                 ELSE [step |-> "change", group |-> g, list |-> call.list, filter |-> filter, mode |-> "EXPAND"]
  BY <1>1 DEF ExpandGroup
<1>3. Keeps(dms, t)
  BY <1>2, WithDefaultOK, InvGood DEF Grows
<1>4. g # NoScreen => g \in DOMAIN t.groups
  BY <1>1, <1>3, GroupOfOK DEF Keeps
<1>5. call.list \in SUBSET Nat /\ filter \in BOOLEAN
  BY <1>1, <1>2, InvGood DEF CallOK
<1>6. CallOK(call', t)
  <2>1. CASE g = NoScreen
    BY <1>2, <2>1 DEF CallOK, Idle
  <2>2. CASE g # NoScreen
    BY <1>2, <1>4, <1>5, <2>2 DEF CallOK, Modes
  <2> QED BY <2>1, <2>2
<1>7. StateOK(t, work, call)
  BY <1>3, KeptOK DEF DsInv, StateOK
<1>8. StateOK(t, work, call')
  BY <1>6, <1>7 DEF StateOK
<1>9. RsOK' /\ torn' \in BOOLEAN
  BY <1>2, InvGood DEF RsOK, Remember
<1> QED BY <1>1, <1>2, <1>3, <1>8, <1>9, InvHeard DEF Keeps

LEMMA ChangeStep == ASSUME DsInv, ChangeScreenGroup PROVE DsInv'
<1>1. /\ work = Idle /\ call.step = "change" /\ call' = Idle /\ UNCHANGED <<rs, dms, known, torn>>
      /\ work' = ChangeFrame(call.group, call.list, call.filter, call.mode, NoScreen)
  BY DEF ChangeScreenGroup, Free
<1>2. PICK g, list, filter, mode : g = call.group /\ list = call.list /\ filter = call.filter /\ mode = call.mode
  OBVIOUS
<1>3. g \in DOMAIN dms.groups /\ g \in Nat /\ list \in SUBSET Nat /\ filter \in BOOLEAN /\ mode \in Modes
  BY <1>1, <1>2, InvGood, GoodFields DEF CallOK
<1>4. /\ work' \in Frames /\ work'.group = g /\ work'.drop = -1
  BY <1>1, <1>2, <1>3 DEF ChangeFrame, Frames, NoScreen
<1>5. -1 < dms.count /\ -1 \notin DOMAIN dms.screens
  BY InvGood, GoodFields
<1>6. WorkOK(work', dms)
  BY <1>3, <1>4, <1>5 DEF WorkOK, FrameOK
<1>7. CallOK(call', dms)
  BY <1>1 DEF CallOK, Idle
<1>8. Keeps(dms, dms') /\ RsOK' /\ torn' \in BOOLEAN /\ DropOf(work) \subseteq DropOf(work')
  BY <1>1, InvGood, IdleGood, KeepsSelf DEF RsOK
<1> QED BY <1>1, <1>6, <1>7, <1>8, InvKeeps

-----------------------------------------------------------------------------
LEMMA DsInit == Init => DsInv
<1> SUFFICES ASSUME Init PROVE DsInv
  OBVIOUS
<1>1. PICK real \in {S \in SUBSET Real : BuiltIn \subseteq S /\ S # {}} :
        \E e \in [1..Cardinality(real) -> real] :
          /\ \A r \in real : \E i \in DOMAIN e : e[i] = r
          /\ BuiltIn # {} => e[1] \in BuiltIn
          /\ rs = [real |-> real, default |-> e[1], plugs |-> 0,
                   events |-> [i \in DOMAIN e |-> RsEvent("connected", e[i])]]
  BY DEF Init
<1>2. PICK e \in [1..Cardinality(real) -> real] :
        /\ \A r \in real : \E i \in DOMAIN e : e[i] = r
        /\ rs = [real |-> real, default |-> e[1], plugs |-> 0,
                 events |-> [i \in DOMAIN e |-> RsEvent("connected", e[i])]]
  BY <1>1
<1>3. PICK n \in Nat : n = Cardinality(real)
  BY ServiceAssumption, <1>1, FS_Subset, FS_CardinalityType
<1>4. RsOK
  <2>1. PICK r \in real : TRUE
    BY <1>1
  <2>2. PICK at \in 1..n : e[at] = r
    BY <1>2, <1>3
  <2>3. 1 \in 1..n
    BY <2>2
  <2>4. e[1] \in real
    BY <1>2, <1>3, <2>3
  <2>5. PICK events : events = [i \in 1..n |-> RsEvent("connected", e[i])]
    OBVIOUS
  <2>6. \A i \in 1..n : RsEvent("connected", e[i]) \in Events
    BY <1>1, <1>2, <1>3 DEF RsEvent, Events
  <2>7. events \in [1..n -> Events]
    BY <2>5, <2>6
  <2>8. events \in Seq(Events)
    BY <2>7
  <2>9. rs = [real |-> real, default |-> e[1], plugs |-> 0, events |-> events]
    BY <1>2, <1>3, <2>5
  <2> QED BY <1>1, <2>4, <2>8, <2>9 DEF RsOK
<1>5. dms = [count |-> 0, dms2rs |-> <<>>, rs2dms |-> <<>>, screens |-> <<>>,
             groups |-> <<>>, displays |-> <<>>, nextDisplay |-> 0, defaultRs |-> NoRs,
             tasks |-> <<>>, fault |-> FALSE, agents |-> [a \in Agents |-> {}]]
  BY DEF Init
<1>6. /\ <<>> \in Maps(Nat, RsIds \cup {NoRs}) /\ <<>> \in Maps(RsIds, Nat) /\ <<>> \in Maps(Nat, Screens)
      /\ <<>> \in Maps(Nat, Groups) /\ <<>> \in Maps(Nat, Shows) /\ <<>> \in Seq(Tasks) /\ DOMAIN <<>> = {}
  BY EmptyMap
<1>7. dms \in States
  BY <1>5, <1>6 DEF States
<1>8. DOMAIN dms.dms2rs = {} /\ DOMAIN dms.rs2dms = {} /\ DOMAIN dms.screens = {} /\ \A a \in Agents : dms.agents[a] = {}
  BY <1>5, <1>6
<1>9. Good(dms) /\ Loose(dms) = {} /\ AgentsBut(dms, {})
  <2>1. DOMAIN dms.groups = {}
    BY <1>5, <1>6
  <2> QED BY <1>7, <1>8, <2>1 DEF Good, Paired, Bounded, Sourced, Loose, AgentsBut
<1>10. work = Idle /\ call = Idle /\ torn = FALSE /\ Agree(dms, known)
  <2>1. known = {} /\ dms.tasks = <<>> /\ DOMAIN dms.tasks = {}
    BY <1>5, <1>6 DEF Init
  <2>2. Agree(dms, known)
    BY <1>8, <2>1 DEF Agree, Heeded, Hear, Untold
  <2> QED BY <2>2 DEF Init
<1>11. WorkOK(work, dms) /\ CallOK(call, dms)
  BY <1>10 DEF WorkOK, CallOK, Idle
<1> QED BY <1>4, <1>9, <1>10, <1>11 DEF DsInv, StateOK

LEMMA DsStep == DsInv /\ [Next]_vars => DsInv'
<1> SUFFICES ASSUME DsInv, [Next]_vars PROVE DsInv'
  OBVIOUS
<1>1. ASSUME NEW r \in Real, Plug(r) \/ Unplug(r) PROVE DsInv'
  BY <1>1, RsSteps
<1>2. CASE OnRsScreenConnectionChange
  BY <1>2, EventStep
<1>3. CASE HandlerThread
  BY <1>3, TaskSteps
<1>4. CASE BinderThreads
  <2>1. ASSUME NEW a \in Agents, CreateVirtualScreen(a) \/ DestroyVirtualScreen(a) \/ OnRemoteDied(a) PROVE DsInv'
    BY <2>1, CreateStep, DestroyStep, DiedStep
  <2>2. ASSUME NEW id \in DOMAIN dms.screens, RemoveVirtualScreenFromGroup(id) PROVE DsInv'
    BY <2>2, RemoveStep
  <2>3. ASSUME NEW main \in known, NEW ids \in SUBSET known, MakeMirror(main, ids) PROVE DsInv'
    BY <2>3, MakeMirrorStep
  <2>4. ASSUME NEW ids \in SUBSET known, MakeExpand(ids) PROVE DsInv'
    BY <2>4, MakeExpandStep
  <2> QED BY <1>4, <2>1, <2>2, <2>3, <2>4, DefaultStep DEF BinderThreads
<1>5. CASE LockHolder
  BY <1>5, LeaveStep, CombinationStep, JoinStep, DoneStep, DiedSteps DEF LockHolder
<1>6. CASE InCall
  BY <1>6, MirrorStep, ExpandStep, ChangeStep DEF InCall
<1>7. CASE UNCHANGED vars
  BY <1>7 DEF vars, DsInv, RsOK
<1> QED BY <1>1, <1>2, <1>3, <1>4, <1>5, <1>6, <1>7 DEF Next

-----------------------------------------------------------------------------
(* The groups.  A call that has made its list, or found its group, relies  *)
(* on the screens that are there and on the default one: the main screen   *)
(* of a mirror is not on the list, nor is the default screen, and a        *)
(* physical child of the group stays when the list leaves.                 *)
Called(s, c) ==
    /\ c.step = "mirror" => c.main \notin c.list
    /\ c.step = "expand" => \A id \in c.list \cap DOMAIN s.screens : s.screens[id].rs # s.defaultRs
    /\ c.step = "change" => c.group \in Live(s) /\ \E a \in Kids(s, c.group) : a \notin c.list /\ ~IsVirtual(s, a)
GrpInv == ~torn /\ ~dms.fault => Sound(dms) /\ Framed(dms, work, call) /\ Called(dms, call)

LEMMA GrowsMoved == ASSUME NEW s, NEW t, Grows(s, t) PROVE Moved(s, t)
<1>1. {} \in SUBSET DOMAIN s.screens /\ Stay(s, t, {})
  BY DEF Grows
<1> QED BY <1>1 DEF Moved, Grows, Keeps

LEMMA CalledKept ==
  ASSUME NEW s, NEW t, NEW c, Sound(s), Called(s, c), Moved(s, t), DOMAIN t.screens = DOMAIN s.screens,
         t.defaultRs = s.defaultRs
  PROVE  Called(t, c)
<1>1. PICK X \in SUBSET DOMAIN s.screens : Stay(s, t, X) /\ \A id \in X : IsVirtual(s, id)
  BY DEF Moved
<1>2. \A id \in DOMAIN s.screens : t.screens[id].rs = s.screens[id].rs
  BY DEF Moved
<1>3. ASSUME c.step = "change"
      PROVE  c.group \in Live(t) /\ \E a \in Kids(t, c.group) : a \notin c.list /\ ~IsVirtual(t, a)
  <2>1. PICK a \in Kids(s, c.group) : a \notin c.list /\ ~IsVirtual(s, a)
    BY <1>3 DEF Called
  <2>2. c.group \in Live(s) /\ a \in DOMAIN s.screens
    BY <1>3 DEF Called, Sound, Peopled
  <2>3. c.group \in Live(t) /\ a \in Kids(t, c.group)
    BY <1>1, <2>1, <2>2 DEF Stay
  <2>4. ~IsVirtual(t, a)
    BY <1>2, <2>1, <2>2 DEF IsVirtual
  <2> QED BY <2>1, <2>3, <2>4
<1> QED BY <1>2, <1>3 DEF Called

(* A step that changes no group, outside of the calls. *)
LEMMA MovedStep ==
  ASSUME GrpInv, Remember, UNCHANGED call, ~dms.fault, Moved(dms, dms'), work'.step \notin {"leave", "join"}
  PROVE  GrpInv'
<1> SUFFICES ASSUME ~torn', ~dms'.fault PROVE Sound(dms') /\ Framed(dms', work', call') /\ Called(dms', call')
  BY DEF GrpInv
<1>1. ~torn /\ Sound(dms) /\ Called(dms, call)
  BY DEF Remember, GrpInv
<1>2. PICK t : t = dms'
  OBVIOUS
<1>3. Sound(t) /\ Framed(t, work', call')
  BY <1>1, <1>2 DEF Moved, Framed
<1>4. Called(t, call)
  <2>1. CASE call = Idle
    BY <2>1 DEF Called, Idle
  <2>2. CASE call # Idle
    <3>1. DOMAIN t.screens = DOMAIN dms.screens /\ t.defaultRs = dms.defaultRs
      BY <1>2, <2>2 DEF Remember
    <3> QED BY <1>1, <1>2, <3>1, CalledKept
  <2> QED BY <2>1, <2>2
<1> QED BY <1>2, <1>3, <1>4

(* A step of the thread that changes a group. *)
LEMMA FrameStep ==
  ASSUME GrpInv, torn' = FALSE => torn = FALSE, UNCHANGED call, ~dms.fault, work.step \in {"leave", "join"}, torn \in BOOLEAN,
         Sound(dms) /\ Framed(dms, work, Idle) => Sound(dms') /\ Framed(dms', work', Idle)
  PROVE  GrpInv'
<1> SUFFICES ASSUME ~torn', ~dms'.fault PROVE Sound(dms') /\ Framed(dms', work', call') /\ Called(dms', call')
  BY DEF GrpInv
<1>1. ~torn /\ Sound(dms) /\ Framed(dms, work, call)
  BY DEF GrpInv
<1>2. call = Idle
  BY <1>1 DEF Framed
<1> QED BY <1>1, <1>2 DEF Called, Idle

LEMMA PartedStep ==
  ASSUME GrpInv, Remember, UNCHANGED call, ~dms.fault, NEW s, Moved(dms, s), s.screens = dms.screens,
         NEW r, Parted(s, r, dms', work')
  PROVE  GrpInv'
<1>1. PICK t : t = dms'
  OBVIOUS
<1>2. CASE HasRsScreenId(s, r)
  <2> SUFFICES ASSUME ~torn', ~dms'.fault PROVE Sound(dms') /\ Framed(dms', work', call') /\ Called(dms', call')
    BY DEF GrpInv
  <2>1. ~torn /\ Sound(dms)
    BY DEF Remember, GrpInv
  <2>2. Sound(t) /\ Framed(t, work', Idle)
    BY <1>1, <2>1 DEF Parted, Moved
  <2>3. DOMAIN t.screens # DOMAIN dms.screens
    BY <1>1, <1>2 DEF Parted
  <2>4. call = Idle
    BY <1>1, <2>3 DEF Remember
  <2> QED BY <1>1, <2>2, <2>4 DEF Called, Idle
<1>3. CASE ~HasRsScreenId(s, r)
  <2>1. t = s /\ work' = Idle /\ Idle.step = "idle"
    BY <1>1, <1>3 DEF Parted, Idle
  <2> QED BY <1>1, <2>1, MovedStep
<1> QED BY <1>2, <1>3

LEMMA EventGroups == ASSUME DsInv, GrpInv, OnRsScreenConnectionChange PROVE GrpInv'
<1>1. /\ UNCHANGED <<work, call>> /\ Remember /\ ~dms.fault
      /\ dms' = PostTask(ForgetDefault(dms, Head(rs.events)), Head(rs.events).op, Head(rs.events).of)
  BY DEF OnRsScreenConnectionChange
<1>2. PICK t : t = dms'
  OBVIOUS
<1>3. t.screens = dms.screens /\ t.groups = dms.groups
  BY <1>1, <1>2, InvGood, GoodFields DEF PostTask, ForgetDefault, States
<1>4. Alike(dms, t)
  BY <1>3, AlikeSame
<1>5. Moved(dms, t)
  BY <1>3, <1>4, SameMoved
<1>6. CASE work.step \in {"leave", "join"}
  <2>1. Sound(dms) /\ Framed(dms, work, Idle) => Sound(t) /\ Framed(t, work, Idle)
    BY <1>3, <1>4, AlikeSound DEF Framed, Live, Kids
  <2>2. torn' = FALSE => torn = FALSE
    BY <1>1, InvGood DEF Remember
  <2> QED BY <1>1, <1>2, <1>6, <2>1, <2>2, InvGood, FrameStep
<1>7. CASE work.step \notin {"leave", "join"}
  BY <1>1, <1>2, <1>5, <1>7, MovedStep
<1> QED BY <1>6, <1>7

LEMMA PopMoved == ASSUME DsInv, dms.tasks # <<>> PROVE Alike(dms, PopTask) /\ PopTask.screens = dms.screens
<1>1. PICK t : t = PopTask
  OBVIOUS
<1>2. t.screens = dms.screens /\ t.groups = dms.groups
  BY <1>1, PopOK
<1> QED BY <1>1, <1>2, AlikeSame

LEMMA TaskGroups == ASSUME DsInv, GrpInv, HandlerThread PROVE GrpInv'
<1>1. work = Idle /\ ~dms.fault /\ dms.tasks # <<>> /\ Remember /\ UNCHANGED call /\ Idle.step = "idle"
  BY DEF HandlerThread, ScreenConnectedTask, ScreenDisconnectedTask, NotifyTask, Free, Idle
<1>2. PICK s, r, t : s = PopTask /\ r = Head(dms.tasks).of /\ t = dms'
  OBVIOUS
<1>3. Alike(dms, s) /\ s.screens = dms.screens /\ s.rs2dms = dms.rs2dms /\ (Sound(dms) => Sound(s)) /\ Head(dms.tasks) \in Tasks
  BY <1>1, <1>2, PopMoved, PopOK, AlikeSound
<1>4. CASE ScreenConnectedTask
  <2>1. t = ProcessScreenConnected(s, r) /\ Head(dms.tasks).op = "connected" /\ work' = work
    BY <1>2, <1>4 DEF ScreenConnectedTask
  <2>2. Keeps(dms, s) /\ Good(s) /\ r \in Real
    BY <1>1, <1>2, <1>3, <2>1, PopOK DEF Keeps, Tasks, Tells
  <2>3. Grows(s, t)
    BY <2>1, <2>2, ConnectedOK, InvGood
  <2>4. Grows(dms, s)
    BY <1>3, <2>2, AlikeGrows
  <2>5. Grows(dms, t)
    BY <2>3, <2>4, GrowsThen, InvGood
  <2> QED BY <1>1, <1>2, <2>1, <2>5, GrowsMoved, MovedStep
<1>5. CASE ScreenDisconnectedTask
  <2>1. ProcessScreenDisconnected(s, r) /\ Head(dms.tasks).op = "disconnected"
    BY <1>2, <1>5 DEF ScreenDisconnectedTask
  <2>2. Parted(s, r, t, work')
    BY <1>2, <1>5, PartStep
  <2>3. Moved(dms, s)
    BY <1>3, SameMoved
  <2> QED BY <1>1, <1>2, <1>3, <2>2, <2>3, PartedStep
<1>6. CASE NotifyTask
  <2>1. t = s /\ work' = work
    BY <1>2, <1>6 DEF NotifyTask
  <2>2. Moved(dms, t)
    BY <1>3, <2>1, SameMoved
  <2> QED BY <1>1, <1>2, <2>1, <2>2, MovedStep
<1> QED BY <1>4, <1>5, <1>6 DEF HandlerThread

LEMMA LeaveGroups == ASSUME DsInv, GrpInv, ChangeLeave PROVE GrpInv'
<1>1. PICK id, stays, t : /\ id = Min(work.list) /\ stays = (id \notin DOMAIN dms.screens \/ Filtered(id)) /\ t = dms'
  OBVIOUS
<1>2. /\ work.step = "leave" /\ work.list # {} /\ ~dms.fault /\ t = (IF stays THEN dms ELSE LeaveGroup(dms, id))
      /\ work' = [work EXCEPT !.list = @ \ {id}, !.join = IF stays THEN @ ELSE @ \cup {id}]
      /\ Remember /\ UNCHANGED call
  BY <1>1 DEF ChangeLeave
<1>3. work \in Frames
  BY <1>2, InFrame DEF FrameOK
<1>4. PICK join : join = IF stays THEN work.join ELSE work.join \cup {id}
  OBVIOUS
<1>5. work' = [work EXCEPT !.list = @ \ {id}, !.join = join]
  BY <1>2, <1>4
<1>6. work'.step = "leave" /\ work'.group = work.group /\ work'.list = work.list \ {id} /\ work'.join = join
  BY <1>2, <1>3, <1>5 DEF Frames
<1>7. id \in work.list
  <2>1. work.list \in SUBSET Nat
    BY <1>3 DEF Frames
  <2> QED BY <1>1, <1>2, <2>1, MinIn
<1>8. ASSUME Sound(dms), Framed(dms, work, Idle) PROVE Sound(t) /\ Framed(t, work', Idle)
  <2>1. PICK a \in Kids(dms, work.group) : a \notin work.list
    BY <1>2, <1>8 DEF Framed
  <2>2. work.group \in Live(dms) /\ work.join \subseteq DOMAIN dms.screens
    BY <1>2, <1>8 DEF Framed
  <2>3. CASE stays
    BY <1>2, <1>4, <1>6, <1>8, <2>1, <2>2, <2>3 DEF Framed
  <2>4. CASE ~stays
    <3>1. Shrinks(dms, t, id)
      BY <1>2, <2>4, LeaveOK, InvGood
    <3>2. work.group \in Live(t) /\ a \in Kids(t, work.group)
      BY <1>7, <2>1, <2>2, <3>1 DEF Shrinks, Stay
    <3>3. DOMAIN dms.screens \subseteq DOMAIN t.screens /\ id \in DOMAIN dms.screens
      BY <1>1, <2>4, <3>1 DEF Shrinks, Keeps
    <3>4. join \subseteq DOMAIN t.screens
      BY <1>4, <2>2, <2>4, <3>3
    <3>5. Sound(t)
      BY <1>8, <3>1 DEF Shrinks
    <3> QED BY <1>6, <2>1, <3>2, <3>4, <3>5 DEF Framed
  <2> QED BY <2>3, <2>4
<1>9. (torn' = FALSE => torn = FALSE) /\ torn \in BOOLEAN
  BY <1>2, InvGood DEF Remember
<1> QED BY <1>1, <1>2, <1>8, <1>9, FrameStep

LEMMA CombinationGroups == ASSUME DsInv, GrpInv, ChangeCombination PROVE GrpInv'
<1>1. /\ work.step = "leave" /\ dms' = [dms EXCEPT !.groups[work.group].mode = work.mode] /\ ~dms.fault
      /\ work' = [work EXCEPT !.step = "join"] /\ Remember /\ UNCHANGED call
  BY DEF ChangeCombination
<1>2. work \in Frames
  BY <1>1, InFrame DEF FrameOK
<1>3. work'.step = "join" /\ work'.group = work.group /\ work'.join = work.join
  BY <1>1, <1>2 DEF Frames
<1>4. PICK t : t = dms'
  OBVIOUS
<1>5. Alike(dms, t)
  <2>1. dms \in States /\ \A g \in DOMAIN dms.groups : dms.groups[g] \in Groups
    BY InvGood, GoodFields
  <2>2. t.screens = dms.screens /\ t.groups = [dms.groups EXCEPT ![work.group].mode = work.mode]
    BY <1>1, <1>4, <2>1 DEF States
  <2>3. /\ DOMAIN t.groups = DOMAIN dms.groups
        /\ \A g \in DOMAIN dms.groups : t.groups[g].kids = dms.groups[g].kids /\ t.groups[g].mapped = dms.groups[g].mapped
    BY <2>1, <2>2 DEF Groups
  <2> QED BY <2>2, <2>3 DEF Alike, Live, Kids
<1>6. ASSUME Sound(dms), Framed(dms, work, Idle) PROVE Sound(t) /\ Framed(t, work', Idle)
  BY <1>1, <1>3, <1>5, <1>6, AlikeSound DEF Framed, Alike
<1>7. (torn' = FALSE => torn = FALSE) /\ torn \in BOOLEAN
  BY <1>1, InvGood DEF Remember
<1> QED BY <1>1, <1>4, <1>6, <1>7, FrameStep

LEMMA JoinGroups == ASSUME DsInv, GrpInv, ChangeJoin PROVE GrpInv'
<1>1. PICK id, g, u, t : id = Min(work.join) /\ g = work.group /\ u = AddChild(dms, g, id) /\ t = dms'
  OBVIOUS
<1>2. /\ work.step = "join" /\ work.join # {} /\ ~dms.fault /\ t = OnScreenConnect(u, id)
      /\ work' = [work EXCEPT !.join = @ \ {id}] /\ Remember /\ UNCHANGED call
  BY <1>1 DEF ChangeJoin
<1>3. work \in Frames /\ g \in DOMAIN dms.groups
  BY <1>1, <1>2, InFrame DEF FrameOK
<1>4. work'.step = "join" /\ work'.group = g /\ work'.join = work.join \ {id}
  BY <1>1, <1>2, <1>3 DEF Frames
<1>5. id \in work.join /\ id \in Nat
  <2>1. work.join \in SUBSET Nat
    BY <1>3 DEF Frames
  <2> QED BY <1>1, <1>2, <2>1, MinIn
<1>6. ASSUME Sound(dms), Framed(dms, work, Idle) PROVE Sound(t) /\ Framed(t, work', Idle)
  <2>1. g \in Live(dms) /\ work.join \subseteq DOMAIN dms.screens
    BY <1>1, <1>2, <1>6 DEF Framed
  <2>2. Grows(dms, u)
    BY <1>1, <1>3, <1>5, <2>1, AddChildOK, InvGood
  <2>3. Good(u)
    BY <2>2 DEF Grows, Keeps
  <2>4. Grows(u, t)
    BY <1>2, <2>3, OnConnectOK, InvGood
  <2>5. Grows(dms, t)
    BY <2>2, <2>4, GrowsThen, InvGood
  <2>6. PICK a : a \in Kids(dms, g)
    BY <1>6, <2>1 DEF Sound, Peopled
  <2>7. g \in Live(t)
    BY <2>1, <2>5, <2>6 DEF Grows, Stay
  <2>8. DOMAIN dms.screens \subseteq DOMAIN t.screens
    BY <2>5 DEF Grows, Keeps
  <2> QED BY <1>4, <1>6, <2>1, <2>5, <2>7, <2>8 DEF Grows, Framed
<1>7. (torn' = FALSE => torn = FALSE) /\ torn \in BOOLEAN
  BY <1>2, InvGood DEF Remember
<1> QED BY <1>1, <1>2, <1>6, <1>7, FrameStep

LEMMA DoneGroups == ASSUME DsInv, GrpInv, ChangeDone PROVE GrpInv'
<1>1. PICK cut, t : cut = DeleteScreenId(dms, work.drop) /\ t = dms'
  OBVIOUS
<1>2. /\ work.step = "join" /\ t = Collect(cut, CallGroup(call)) /\ work' = Idle /\ ~dms.fault
      /\ Remember /\ UNCHANGED call /\ Idle.step = "idle"
  BY <1>1 DEF ChangeDone, Idle
<1>3. work.drop \notin DOMAIN dms.screens /\ DropOf(work) = {work.drop}
  BY <1>2, InFrame DEF FrameOK
<1>4. StateOK(cut, Idle, call) /\ Same(dms, cut)
  BY <1>1, <1>3, IdGoes, InvGood
<1>5. Same(cut, t)
  BY <1>2, <1>4, GroupsGo
<1>6. Sound(dms) => Sound(t) /\ Framed(t, work', Idle)
  BY <1>2, <1>4, <1>5, SameSound DEF Framed
<1>7. (torn' = FALSE => torn = FALSE) /\ torn \in BOOLEAN
  BY <1>2, InvGood DEF Remember
<1> QED BY <1>1, <1>2, <1>6, <1>7, FrameStep

LEMMA BinderGroups == ASSUME DsInv, GrpInv, BinderThreads PROVE GrpInv'
<1>1. ASSUME NEW a \in Agents, CreateVirtualScreen(a) PROVE GrpInv'
  <2>1. work = Idle /\ work' = work /\ ~dms.fault /\ Remember /\ UNCHANGED call /\ Idle.step = "idle"
    BY <1>1 DEF CreateVirtualScreen, Free, Idle
  <2>2. PICK t : t = dms'
    OBVIOUS
  <2>3. Moved(dms, t)
    BY <1>1, <2>2, CreateStep DEF Moved
  <2> QED BY <2>1, <2>2, <2>3, MovedStep
<1>2. ASSUME NEW a \in Agents, DestroyVirtualScreen(a) PROVE GrpInv'
  <2>1. ~dms.fault /\ Remember /\ UNCHANGED call
    BY <1>2 DEF DestroyVirtualScreen, Free
  <2>2. PICK s, r : Moved(dms, s) /\ s.screens = dms.screens /\ Parted(s, r, dms', work')
    BY <1>2, DestroyStep
  <2> QED BY <2>1, <2>2, PartedStep
<1>3. ASSUME NEW a \in Agents, OnRemoteDied(a) PROVE GrpInv'
  <2>1. work'.step = "died" /\ UNCHANGED <<dms, call, torn>>
    BY <1>3 DEF OnRemoteDied
  <2>2. ~torn /\ ~dms.fault => Sound(dms) /\ Called(dms, call)
    BY DEF GrpInv
  <2>3. Framed(dms, work', call)
    BY <2>1 DEF Framed
  <2> QED BY <2>1, <2>2, <2>3 DEF GrpInv
<1>4. ASSUME NEW id \in DOMAIN dms.screens, RemoveVirtualScreenFromGroup(id) PROVE GrpInv'
  <2>1. PICK left, t : left = LeaveGroup(dms, id) /\ t = dms'
    OBVIOUS
  <2>2. /\ work = Idle /\ work' = work /\ ~dms.fault /\ Remember /\ UNCHANGED call /\ Idle.step = "idle"
        /\ t = Collect(left, CallGroup(call)) /\ IsVirtual(dms, id)
    BY <1>4, <2>1 DEF RemoveVirtualScreenFromGroup, Free, Idle
  <2>3. Shrinks(dms, left, id)
    BY <2>1, LeaveOK, InvGood
  <2>4. Good(left)
    BY <2>3 DEF Shrinks, Keeps
  <2>5. Alike(left, t) /\ t.screens = left.screens
    BY <2>2, <2>4, CollectOK
  <2>6. (Sound(dms) => Sound(t)) /\ Stay(dms, t, {id})
    BY <2>3, <2>5, AlikeSound DEF Shrinks, Alike, Stay
  <2>7. \A x \in DOMAIN dms.screens : t.screens[x].rs = dms.screens[x].rs
    BY <2>3, <2>5 DEF Shrinks, Keeps
  <2>8. {id} \in SUBSET DOMAIN dms.screens /\ \A x \in {id} : IsVirtual(dms, x)
    BY <1>4, <2>2
  <2>9. Moved(dms, t)
    BY <2>6, <2>7, <2>8 DEF Moved
  <2> QED BY <2>1, <2>2, <2>9, MovedStep
<1>5. ASSUME GetDefaultDisplayInfo PROVE GrpInv'
  <2>1. /\ work = Idle /\ work' = work /\ ~dms.fault /\ Remember /\ UNCHANGED call /\ Idle.step = "idle"
        /\ dms' = WithDefault(dms)
    BY <1>5 DEF GetDefaultDisplayInfo, Free, Idle
  <2>2. PICK t : t = dms'
    OBVIOUS
  <2>3. Moved(dms, t)
    BY <2>1, <2>2, WithDefaultOK, GrowsMoved, InvGood
  <2> QED BY <2>1, <2>2, <2>3, MovedStep
<1>6. ASSUME NEW main, NEW ids, MakeMirror(main, ids) PROVE GrpInv'
  <2>1. PICK list : list = AllScreens(ids) \ {main}
    OBVIOUS
  <2>2. work = Idle /\ UNCHANGED <<dms, work, torn>> /\ call' = [step |-> "mirror", main |-> main, list |-> list]
    BY <1>6, <2>1 DEF MakeMirror, Free
  <2>3. Called(dms, call') /\ Framed(dms, work, call')
    BY <2>1, <2>2 DEF Called, Framed, Idle
  <2> QED BY <2>2, <2>3 DEF GrpInv
<1>7. ASSUME NEW ids, MakeExpand(ids) PROVE GrpInv'
  <2>1. PICK list, t, d : list = AllScreens(ids) \ {d} /\ t = dms' /\ d = DefaultScreen(dms)
    OBVIOUS
  <2>2. /\ work = Idle /\ work' = work /\ call = Idle /\ ~dms.fault /\ t = WithDefault(dms)
        /\ call' = [step |-> "expand", list |-> list] /\ Remember
    BY <1>7, <2>1 DEF MakeExpand, Free
  <2>3. Grows(dms, t) /\ t.defaultRs = AskDefault(dms).defaultRs
    BY <2>2, WithDefaultOK, InvGood
  <2>4. ASSUME NEW id \in list PROVE t.screens[id].rs # t.defaultRs
    <3>1. id \in DOMAIN dms.screens /\ id # d
      BY <2>1 DEF AllScreens
    <3>2. PICK r : r = dms.screens[id].rs
      OBVIOUS
    <3>3. t.screens[id].rs = r
      BY <2>3, <3>1, <3>2 DEF Grows, Keeps
    <3>4. r \in RsIds /\ r # NoRs /\ id \in DOMAIN dms.dms2rs /\ dms.dms2rs[id] = r
      BY <3>1, <3>2, InvGood, GoodFields, RsIdAssumption DEF Good, Paired, Screens, RsIds
    <3>5. r \in DOMAIN dms.rs2dms /\ dms.rs2dms[r] = id
      BY <3>4, InvGood DEF Good, Paired
    <3>6. r # AskDefault(dms).defaultRs
      BY <2>1, <3>1, <3>5 DEF DefaultScreen, ToDmsScreenId, HasRsScreenId
    <3> QED BY <2>3, <3>3, <3>6
  <2>5. Called(t, call')
    BY <2>2, <2>4 DEF Called
  <2>6. Framed(t, work', call')
    BY <2>2 DEF Framed, Idle
  <2>7. ~torn' => ~torn
    BY <2>2 DEF Remember
  <2>8. ~torn /\ ~dms.fault => Sound(t)
    BY <2>3 DEF GrpInv, Grows
  <2> QED BY <2>1, <2>2, <2>5, <2>6, <2>7, <2>8 DEF GrpInv
<1> QED BY <1>1, <1>2, <1>3, <1>4, <1>5, <1>6, <1>7 DEF BinderThreads

LEMMA CallGroups == ASSUME DsInv, GrpInv, InCall PROVE GrpInv'
<1>1. CASE MirrorGroup
  <2>1. PICK main, t, g : main = call.main /\ t = dms' /\ g = GroupOf(dms, main)
    OBVIOUS
  <2>2. work = Idle /\ work' = work /\ ~dms.fault /\ Remember /\ call.step = "mirror" /\ Idle.step = "idle"
    BY <1>1 DEF MirrorGroup, Free, Idle
  <2>3. Framed(t, work', call')
    BY <2>2 DEF Framed
  <2>4. ~torn' => ~torn
    BY <2>2 DEF Remember
  <2>5. CASE ~IsRealScreen(dms, main)
    <3>1. call' = Idle /\ t = dms
      BY <1>1, <2>1, <2>5 DEF MirrorGroup
    <3>2. Called(t, call')
      BY <3>1 DEF Called, Idle
    <3> QED BY <2>1, <2>3, <2>4, <3>1, <3>2 DEF GrpInv
  <2>6. CASE IsRealScreen(dms, main)
    <3>1. main \in DOMAIN dms.screens /\ Source(dms, main) /\ ~IsVirtual(dms, main)
      BY <2>6, RealSource, InvGood DEF IsRealScreen, IsVirtual
    <3>2. t = FindMirrorGroup(dms, main)
      BY <1>1, <2>1, <2>6 DEF MirrorGroup
    <3>3. Grows(dms, t)
      BY <3>1, <3>2, FindGroupOK, InvGood
    <3>4. CASE g = NoScreen
      <4>1. call' = Idle
        BY <1>1, <2>1, <2>6, <3>4 DEF MirrorGroup
      <4>2. Called(t, call')
        BY <4>1 DEF Called, Idle
      <4> QED BY <2>1, <2>2, <2>3, <2>4, <3>3, <4>2 DEF GrpInv, Grows
    <3>5. CASE g # NoScreen
      <4>1. call'.step = "change" /\ call'.group = g /\ call'.list = call.list
        BY <1>1, <2>1, <2>6, <3>5 DEF MirrorGroup
      <4>2. ASSUME Sound(dms), Called(dms, call) PROVE Called(t, call')
        <5>1. main \notin call.list
          BY <2>1, <2>2, <4>2 DEF Called
        <5>2. g \in Live(dms) /\ main \in Kids(dms, g)
          BY <2>1, <3>5, <4>2 DEF GroupOf, Sound, Housed
        <5>3. g \in Live(t) /\ main \in Kids(t, g) /\ ~IsVirtual(t, main)
          BY <3>1, <3>3, <5>2 DEF Grows, Stay, Keeps, IsVirtual
        <5> QED BY <4>1, <5>1, <5>3 DEF Called
      <4> QED BY <2>1, <2>2, <2>3, <2>4, <3>3, <4>2 DEF GrpInv, Grows
    <3> QED BY <3>4, <3>5
  <2> QED BY <2>5, <2>6
<1>2. CASE ExpandGroup
  <2>1. PICK d, t, g : d = DefaultScreen(dms) /\ t = dms' /\ g = GroupOf(t, d)
    OBVIOUS
  <2>2. /\ work = Idle /\ work' = work /\ ~dms.fault /\ Remember /\ call.step = "expand" /\ Idle.step = "idle"
        /\ t = WithDefault(dms) /\ call # Idle
    BY <1>2, <2>1 DEF ExpandGroup, Free, Idle
  <2>3. Framed(t, work', call')
    BY <2>2 DEF Framed
  <2>4. Grows(dms, t) /\ t.defaultRs = AskDefault(dms).defaultRs
    BY <2>2, WithDefaultOK, InvGood
  <2>5. ~torn' => ~torn /\ t.defaultRs = dms.defaultRs
    BY <2>1, <2>2 DEF Remember
  <2>6. CASE g = NoScreen
    <3>1. call' = Idle
      BY <1>2, <2>1, <2>6 DEF ExpandGroup
    <3>2. Called(t, call')
      BY <3>1 DEF Called, Idle
    <3> QED BY <2>1, <2>2, <2>3, <2>4, <2>5, <3>2 DEF GrpInv, Grows
  <2>7. CASE g # NoScreen
    <3>1. call'.step = "change" /\ call'.group = g /\ call'.list = call.list
      BY <1>2, <2>1, <2>7 DEF ExpandGroup
    <3>2. d \in DOMAIN t.screens /\ t.screens[d].group = g /\ g \in Live(t)
      BY <2>1, <2>7 DEF GroupOf
    <3>3. d \in Nat /\ d < dms.count /\ d # NoScreen
      BY <2>1, <2>4, <3>2, DefaultScreenType, InvGood, GoodFields DEF Grows, Keeps, NoScreen
    <3>4. d \in DOMAIN dms.screens
      BY <2>4, <3>2, <3>3, InvGood, GoodFields DEF Grows, Keeps
    <3>5. dms.screens[d].rs = AskDefault(dms).defaultRs /\ dms.screens[d].rs \notin Virtual
      BY <2>1, <3>3, <3>4, DefaultScreenType, InvGood DEF Good, Paired
    <3>6. ~IsVirtual(t, d)
      BY <2>4, <3>4, <3>5 DEF Grows, Keeps, IsVirtual
    <3>7. ASSUME Sound(dms), Called(dms, call), ~torn' PROVE Called(t, call')
      <4>1. d \notin call.list
        BY <2>2, <2>4, <2>5, <3>4, <3>5, <3>7 DEF Called
      <4>2. d \in Kids(t, g)
        BY <2>4, <2>7, <3>2, <3>7 DEF Grows, Sound, Housed
      <4> QED BY <3>1, <3>2, <3>6, <4>1, <4>2 DEF Called
    <3> QED BY <2>1, <2>2, <2>3, <2>4, <2>5, <3>7 DEF GrpInv, Grows
  <2> QED BY <2>6, <2>7
<1>3. CASE ChangeScreenGroup
  <2>1. /\ call.step = "change" /\ call' = Idle /\ UNCHANGED <<dms, torn>>
        /\ work' = ChangeFrame(call.group, call.list, call.filter, call.mode, NoScreen)
    BY <1>3 DEF ChangeScreenGroup
  <2>2. work'.group = call.group /\ work'.list = call.list /\ work'.join = {} /\ work'.step = "leave"
    BY <2>1 DEF ChangeFrame
  <2>3. Called(dms, call) => Framed(dms, work', call')
    BY <2>1, <2>2 DEF Called, Framed
  <2>4. Called(dms, call')
    BY <2>1 DEF Called, Idle
  <2> QED BY <2>1, <2>3, <2>4 DEF GrpInv
<1> QED BY <1>1, <1>2, <1>3 DEF InCall

LEMMA GrpInit == Init => GrpInv
<1> SUFFICES ASSUME Init PROVE Sound(dms) /\ Framed(dms, work, call) /\ Called(dms, call)
  BY DEF GrpInv
<1>1. dms.screens = <<>> /\ dms.groups = <<>> /\ work = Idle /\ call = Idle
  BY DEF Init
<1>2. DOMAIN dms.screens = {} /\ DOMAIN dms.groups = {}
  BY <1>1
<1>3. Sound(dms)
  BY <1>2 DEF Sound, Peopled, Housed, OneGroup, Live
<1> QED BY <1>1, <1>3 DEF Framed, Called, Idle

LEMMA GrpStep == DsInv /\ GrpInv /\ [Next]_vars => GrpInv'
<1> SUFFICES ASSUME DsInv, GrpInv, [Next]_vars PROVE GrpInv'
  OBVIOUS
<1>1. CASE UNCHANGED <<dms, work, call, torn>>
  BY <1>1 DEF GrpInv
<1>2. ASSUME NEW r \in Real, Plug(r) \/ Unplug(r) PROVE GrpInv'
  BY <1>1, <1>2 DEF Plug, Unplug
<1>3. CASE LockHolder
  <2>1. CASE DiedNext
    <3>1. work.step = "died" /\ work' = work /\ ~dms.fault /\ Remember /\ UNCHANGED call
      BY <2>1 DEF DiedNext
    <3> QED BY <2>1, <3>1, OneDied, MovedStep
  <2>2. CASE DiedDone
    <3>1. work'.step = "idle" /\ UNCHANGED <<dms, call, torn>>
      BY <2>2 DEF DiedDone, Idle
    <3>2. Framed(dms, work', call')
      BY <3>1 DEF Framed
    <3> QED BY <3>1, <3>2 DEF GrpInv
  <2> QED BY <1>3, <2>1, <2>2, LeaveGroups, CombinationGroups, JoinGroups, DoneGroups DEF LockHolder
<1> QED BY <1>1, <1>2, <1>3, EventGroups, TaskGroups, BinderGroups, CallGroups DEF Next, vars

LEMMA DsInvariant == Spec => [](DsInv /\ GrpInv)
<1> QED BY DsInit, DsStep, GrpInit, GrpStep, PTL DEF Spec

(* Every variable is of its type: AbstractScreenController and             *)
(* AbstractDisplayController never keep a screen, a group or a display     *)
(* with a field that no code wrote.                                        *)
THEOREM ServiceTyped == Spec => []TypeOK
<1>1. DsInv => TypeOK
  <2> SUFFICES ASSUME DsInv PROVE TypeOK
    OBVIOUS
  <2>1. /\ rs.real \subseteq Real /\ rs.default \in rs.real \cup {NoRs} /\ torn \in BOOLEAN /\ Good(dms)
    BY InvGood DEF RsOK
  <2>2. \A d \in DOMAIN dms.displays : dms.displays[d] \in Shows
    BY <2>1, GoodFields, MapsAt
  <2>3. \A g \in DOMAIN dms.groups :
          dms.groups[g] \in [mode : {"MIRROR", "EXPAND"}, mirror : Ids, kids : SUBSET Ids, mapped : BOOLEAN]
    <3>1. \A g \in DOMAIN dms.groups : dms.groups[g] \in Groups
      BY <2>1, GoodFields
    <3> QED BY <3>1 DEF Groups, Modes, Ids
  <2> QED BY <2>1, <2>2, <2>3, GoodFields DEF TypeOK, Screens, Shows, Ids, Node
<1> QED BY <1>1, DsInvariant, PTL

(* The maps of ScreenIdManager are inverse to each other and agree with    *)
(* the screens, whatever order screens are plugged in, created, destroyed  *)
(* and moved between groups in.                                            *)
THEOREM ScreenIdsSound == Spec => []IdsSound
<1>1. DsInv => IdsSound
  <2> SUFFICES ASSUME DsInv PROVE IdsSound
    OBVIOUS
  <2>1. Paired(dms) /\ Loose(dms) \subseteq Dropping
    BY InvGood DEF Good, DropOf, Dropping
  <2> QED BY <2>1 DEF IdsSound, Paired, Loose
<1> QED BY <1>1, DsInvariant, PTL

(* Once they have had every notification, the clients know exactly the     *)
(* screens there are: NotifyScreenConnected and NotifyScreenDisconnected   *)
(* are posted in the order the screens come and leave in, and none is      *)
(* left out.                                                               *)
THEOREM ScreensHeeded == Spec => []ClientsAgree
<1>1. DsInv => ClientsAgree
  <2> SUFFICES ASSUME DsInv, \A i \in DOMAIN dms.tasks : dms.tasks[i].op \notin Tells PROVE known = DOMAIN dms.screens
    BY DEF ClientsAgree, Tells
  <2>1. known \in SUBSET Nat /\ DOMAIN dms.screens \subseteq Nat
    BY InvGood, GoodFields DEF Agree
  <2>2. ASSUME NEW id \in Nat PROVE id \in known <=> id \in DOMAIN dms.screens
    <3>1. Hear(dms.tasks, known, DOMAIN dms.screens, id)
      BY InvGood DEF Agree, Heeded
    <3>2. \A i \in DOMAIN dms.tasks : ~LastTell(dms.tasks, i, id)
      BY DEF LastTell, IsTell
    <3> QED BY <3>1, <3>2 DEF Hear
  <2> QED BY <2>1, <2>2
<1> QED BY <1>1, DsInvariant, PTL

(* The groups and the screens agree about who is in which, and every group *)
(* has a child, whenever no group is being changed: ChangeScreenGroup,     *)
(* ProcessScreenDisconnected and RemoveVirtualScreenFromGroup leave neither*)
(* an empty group behind nor a screen that believes to be in one.  And no  *)
(* group ever mirrors a virtual screen.                                    *)
THEOREM GroupsAgree == Spec => []GroupsSound
<1>1. DsInv /\ GrpInv => GroupsSound
  <2> SUFFICES ASSUME DsInv, GrpInv PROVE GroupsSound
    OBVIOUS
  <2>1. ASSUME NEW g \in DOMAIN dms.groups, NEW id \in DOMAIN dms.screens, dms.groups[g].mirror = id
        PROVE  ~IsVirtual(dms, id)
    BY <2>1, InvGood DEF Good, Sourced, Source, Paired, IsVirtual
  <2>2. ASSUME Settled
        PROVE  /\ \A g \in Live(dms) :
                     /\ dms.groups[g].kids # {}
                     /\ \A id \in dms.groups[g].kids : id \in DOMAIN dms.screens /\ dms.screens[id].group = g
               /\ \A id \in DOMAIN dms.screens :
                     /\ (dms.screens[id].node # NoNode) = (dms.screens[id].group # NoScreen)
                     /\ dms.screens[id].group # NoScreen => CheckScreenInScreenGroup(dms, id)
    <3>1. Sound(dms)
      BY <2>2 DEF Settled, GrpInv
    <3>2. \A g \in Live(dms) : g # NoScreen
      BY InvGood, GoodFields DEF Live, NoScreen
    <3> QED BY <3>1, <3>2 DEF Sound, Peopled, Housed, Kids, CheckScreenInScreenGroup, GroupOf
  <2> QED BY <2>1, <2>2 DEF GroupsSound
<1> QED BY <1>1, DsInvariant, PTL

(* A virtual screen belongs to exactly one client, and every screen a      *)
(* client owns is there: screenAgentMap_ neither loses a screen nor keeps  *)
(* one that is gone.                                                       *)
THEOREM VirtualScreensOwned == Spec => []AgentsSound
<1>1. DsInv => AgentsSound
  BY InvGood DEF AgentsSound, AgentsBut
<1> QED BY <1>1, DsInvariant, PTL

-----------------------------------------------------------------------------
(* The default screen of the render service, which nobody can unplug, has  *)
(* an id, Home, and is what the service takes the default screen to be.    *)
Met(s)   == HasRsScreenId(s, rs.default)
Home(s)  == s.rs2dms[rs.default]
Based(s) == Met(s) /\ s.defaultRs \in {NoRs, rs.default} /\ Home(s) \in DOMAIN s.screens
BaseRs   == rs.default \in rs.real \cap BuiltIn

(* Where the displays are: each is of the one group g and on a child of    *)
(* it, or on Home, which is a child unless it is one of the screens J that *)
(* are about to join; and only on Home is there more than one.  What they  *)
(* show: a child that shows its own content has a display, a physical      *)
(* child of an expanded group too, and a mirrored group has one.           *)
Has(s, id) == \E d \in DOMAIN s.displays : s.displays[d].screen = id
Show(s, g, J) ==
    /\ Live(s) = {g} /\ Home(s) \in Kids(s, g) \cup J
    /\ \A d \in DOMAIN s.displays :
         /\ d < s.nextDisplay /\ s.displays[d].group = g
         /\ s.displays[d].screen \in Kids(s, g) \cup {Home(s)}
    /\ \A d, e \in DOMAIN s.displays :
         d # e /\ s.displays[d].screen = s.displays[e].screen => s.displays[d].screen = Home(s)
    /\ \A id \in Kids(s, g) :
         s.screens[id].node = OwnNode \/ (s.groups[g].mode = "EXPAND" /\ ~IsVirtual(s, id)) => Has(s, id)
    /\ s.groups[g].mode = "MIRROR" => \E id \in Kids(s, g) \cup (J \cap {Home(s)}) : ~IsVirtual(s, id) /\ Has(s, id)

(* t shows what s shows. *)
Seen(s, t) ==
    /\ Live(t) = Live(s) /\ t.displays = s.displays /\ t.nextDisplay = s.nextDisplay /\ Home(t) = Home(s)
    /\ \A g \in Live(s) : t.groups[g] = s.groups[g]
    /\ \A id \in DOMAIN s.screens :
         (\E g \in Live(s) : id \in Kids(s, g)) \/ id = Home(s) => t.screens[id] = s.screens[id]

LEMMA SeenShow ==
  ASSUME NEW s, NEW t, Seen(s, t), Sound(s), Home(s) \in DOMAIN s.screens, NEW g, NEW J, Show(s, g, J)
  PROVE  Show(t, g, J)
<1>1. g \in Live(s) /\ Live(t) = {g} /\ Kids(t, g) = Kids(s, g) /\ t.groups[g].mode = s.groups[g].mode
  BY DEF Seen, Show, Kids
<1>2. \A id \in Kids(s, g) \cup {Home(s)} : t.screens[id] = s.screens[id]
  BY <1>1 DEF Seen, Sound, Peopled
<1>3. \A id : Has(t, id) <=> Has(s, id)
  BY DEF Seen, Has
<1> QED BY <1>1, <1>2, <1>3 DEF Seen, Show, IsVirtual

LEMMA SeenThen == ASSUME NEW s, NEW t, NEW u, Seen(s, t), Seen(t, u), Sound(s), Sound(t), DOMAIN s.screens \subseteq DOMAIN t.screens PROVE Seen(s, u)
<1>1. \A g \in Live(s) : u.groups[g] = s.groups[g] /\ Kids(t, g) = Kids(s, g)
  BY DEF Seen, Kids
<1>2. \A id \in DOMAIN s.screens : (\E g \in Live(s) : id \in Kids(s, g)) \/ id = Home(s) => u.screens[id] = s.screens[id]
  BY <1>1 DEF Seen
<1> QED BY <1>1, <1>2 DEF Seen

LEMMA HomeOK ==
  ASSUME RsOK, BaseRs, NEW s, Good(s), Based(s)
  PROVE  /\ Home(s) \in Nat /\ Home(s) \in DOMAIN s.screens /\ s.screens[Home(s)].rs = rs.default
         /\ ~IsVirtual(s, Home(s)) /\ rs.default # NoRs /\ rs.default \in Real /\ Home(s) # NoScreen
         /\ \A x \in DOMAIN s.screens : s.screens[x].rs = rs.default => x = Home(s)
<1>1. rs.default \in Real /\ rs.default # NoRs /\ rs.default \notin Virtual
  BY RsIdAssumption DEF BaseRs, BuiltIn
<1>2. Home(s) \in DOMAIN s.dms2rs /\ s.dms2rs[Home(s)] = rs.default /\ Home(s) \in Nat
  BY GoodFields DEF Based, Met, HasRsScreenId, Good, Paired, Home
<1>3. s.screens[Home(s)].rs = rs.default
  BY <1>2 DEF Based, Good, Paired
<1>4. \A x \in DOMAIN s.screens : s.screens[x].rs = rs.default => x = Home(s)
  BY <1>1 DEF Good, Paired, Home
<1> QED BY <1>1, <1>2, <1>3, <1>4 DEF Based, IsVirtual, NoScreen

(* To ask for the default screen changes nothing else then. *)
Twin(s, t) ==
    /\ t.groups = s.groups /\ t.screens = s.screens /\ t.displays = s.displays /\ t.nextDisplay = s.nextDisplay
    /\ t.rs2dms = s.rs2dms /\ t.fault = s.fault /\ Based(t) /\ Good(t)

LEMMA TwinSeen == ASSUME NEW s, NEW t, Twin(s, t) PROVE Seen(s, t)
BY DEF Twin, Seen, Live, Kids, Home

LEMMA Asked ==
  ASSUME RsOK, BaseRs, NEW s, Good(s), Based(s)
  PROVE  DefaultScreen(s) = Home(s) /\ Twin(s, WithDefault(s))
<1>1. PICK t : t = AskDefault(s)
  OBVIOUS
<1>2. s \in States
  BY GoodFields
<1>3. t.defaultRs = rs.default /\ t.rs2dms = s.rs2dms /\ Good(t)
  BY <1>1, <1>2, AskDefaultOK DEF AskDefault, Based, States, Grows, Keeps
<1>4. /\ t.groups = s.groups /\ t.screens = s.screens /\ t.displays = s.displays /\ t.nextDisplay = s.nextDisplay
      /\ t.fault = s.fault
  BY <1>1, <1>2 DEF AskDefault, States
<1>5. HasRsScreenId(s, rs.default) /\ HasRsScreenId(t, rs.default)
  BY <1>3 DEF Based, Met, HasRsScreenId
<1>6. WithDefault(s) = t
  BY <1>1, <1>3, <1>5 DEF WithDefault
<1>7. DefaultScreen(s) = Home(s)
  BY <1>1, <1>3, <1>5 DEF DefaultScreen, ToDmsScreenId, Home
<1>8. Twin(s, t)
  BY <1>3, <1>4, <1>5 DEF Twin, Based, Met, Home
<1> QED BY <1>6, <1>7, <1>8

-----------------------------------------------------------------------------
LEMMA MaxIn ==
  ASSUME NEW S \in SUBSET Nat, S # {}, NEW n \in Nat, \A x \in S : x < n PROVE Max(S) \in S
<1> DEFINE T == {n - x : x \in S}
<1>1. T \in SUBSET Nat /\ T # {}
  <2>1. \A x \in S : n - x \in Nat
    OBVIOUS
  <2>2. PICK x : x \in S
    OBVIOUS
  <2>3. n - x \in T
    BY <2>2
  <2> QED BY <2>1, <2>3
<1>2. PICK y \in T : \A z \in T : ~(<<z, y>> \in OpToRel(<, Nat))
  BY <1>1, NatLessThanWellFounded, WFMin
<1>3. \A z \in T : <<z, y>> \in Nat \X Nat /\ <<z, y>>[1] = z /\ <<z, y>>[2] = y
  BY <1>1, <1>2
<1>4. \A z \in T : ~(z < y)
  BY <1>2, <1>3, Zenon DEF OpToRel
<1>5. PICK x \in S : y = n - x
  BY <1>2
<1>6. ASSUME NEW z \in S PROVE x >= z
  <2>1. n - z \in T
    OBVIOUS
  <2>2. ~(n - z < n - x)
    BY <1>4, <1>5, <2>1
  <2>3. x \in Nat /\ z \in Nat
    OBVIOUS
  <2> HIDE DEF T
  <2> QED BY <2>2, <2>3
<1> QED BY <1>6 DEF Max

(* The displays have heard that the screen id of the group g leaves.       *)
Heard(s, g, id, t) ==
    /\ t.groups = s.groups /\ t.screens = s.screens /\ t.nextDisplay = s.nextDisplay /\ Based(t) /\ Good(t)
    /\ Home(t) = Home(s)
    /\ \A d \in DOMAIN t.displays :
         /\ d \in DOMAIN s.displays /\ t.displays[d].group = s.displays[d].group
         /\ \/ t.displays[d].screen = s.displays[d].screen
            \/ s.displays[d].screen = id /\ t.displays[d].screen = Home(s)
    /\ id # Home(s) => ~Has(t, id)
    /\ \A x : x # id /\ Has(s, x) => Has(t, x)
    /\ s.groups[g].mode = "MIRROR" /\ Has(s, id) => Has(t, Home(s))

LEMMA NormalShow ==
  ASSUME RsOK, BaseRs, NEW s, Good(s), Based(s), NEW g, NEW J, Show(s, g, J),
         NEW id, NEW t, t = NormalDisconnect(s, id), ~t.fault
  PROVE  Heard(s, g, id, t)
<1>1. PICK u, d : u = WithDefault(s) /\ d = DefaultScreen(s)
  OBVIOUS
<1>2. d = Home(s) /\ Twin(s, u)
  BY <1>1, Asked
<1>3. Good(u) /\ u \in States /\ Based(u) /\ Home(u) = Home(s) /\ u.displays = s.displays
  BY <1>2, GoodFields DEF Twin, Home
<1>4. DisplaysOn(u, id) = DisplaysOn(s, id) /\ (Has(s, id) <=> DisplaysOn(s, id) # {})
  BY <1>3 DEF DisplaysOn, Has
<1>5. d \in DOMAIN u.screens
  BY <1>2, <1>3 DEF Based
<1>6. CASE ~Has(s, id)
  <2>1. t = u
    BY <1>1, <1>4, <1>6 DEF NormalDisconnect
  <2> QED BY <1>2, <1>3, <1>6, <2>1 DEF Heard, Twin, Has
<1>7. CASE Has(s, id)
  <2>1. PICK m : m = Min(DisplaysOn(s, id))
    OBVIOUS
  <2>2. DOMAIN s.displays \subseteq Nat /\ s.displays \in [DOMAIN s.displays -> Shows]
    BY GoodFields, MapsDef
  <2>3. m \in DOMAIN s.displays /\ s.displays[m].screen = id
    <3>1. DisplaysOn(s, id) \in SUBSET Nat
      BY <2>2 DEF DisplaysOn
    <3> QED BY <1>4, <1>7, <2>1, <3>1, MinIn DEF DisplaysOn
  <2>4. t = [u EXCEPT !.displays = [x \in DOMAIN s.displays |->
              IF x = m THEN [s.displays[x] EXCEPT !.screen = d] ELSE s.displays[x]]]
    <3>1. t # [u EXCEPT !.fault = TRUE]
      BY <1>3 DEF States
    <3> QED BY <1>1, <1>3, <1>4, <1>5, <1>7, <2>1, <3>1 DEF NormalDisconnect
  <2>5. /\ DOMAIN t.displays = DOMAIN s.displays
        /\ \A x \in DOMAIN s.displays : t.displays[x] = IF x = m THEN [s.displays[x] EXCEPT !.screen = d] ELSE s.displays[x]
        /\ t.groups = u.groups /\ t.screens = u.screens /\ t.nextDisplay = u.nextDisplay /\ t.rs2dms = u.rs2dms
        /\ t.defaultRs = u.defaultRs
    BY <1>3, <2>4 DEF States
  <2>6. \A x \in DOMAIN s.displays : /\ t.displays[x].group = s.displays[x].group
                                     /\ t.displays[x].screen = IF x = m THEN Home(s) ELSE s.displays[x].screen
    BY <1>2, <2>2, <2>5 DEF Shows
  <2>7. Good(t)
    BY NormalDisconnectOK DEF Grows, Keeps
  <2>8. id # Home(s) => ~Has(t, id)
    BY <2>3, <2>5, <2>6 DEF Has, Show
  <2>9. \A x : x # id /\ Has(s, x) => Has(t, x)
    BY <2>3, <2>5, <2>6 DEF Has
  <2>10. Has(t, Home(s))
    BY <2>3, <2>5, <2>6 DEF Has
  <2>11. Based(t) /\ Home(t) = Home(s) /\ t.groups = s.groups /\ t.screens = s.screens /\ t.nextDisplay = s.nextDisplay
    BY <1>2, <1>3, <2>5 DEF Twin, Based, Met, HasRsScreenId, Home
  <2> QED BY <2>3, <2>5, <2>6, <2>7, <2>8, <2>9, <2>10, <2>11 DEF Heard
<1> QED BY <1>6, <1>7

LEMMA ExpandShow ==
  ASSUME RsOK, BaseRs, NEW s, Good(s), Based(s), NEW g, NEW J, Show(s, g, J), s.groups[g].mode # "MIRROR",
         NEW id, NEW t, t = ExpandDisconnect(s, id), ~t.fault
  PROVE  Heard(s, g, id, t)
<1>1. PICK u : u = WithDefault(s)
  OBVIOUS
<1>2. Twin(s, u)
  BY <1>1, Asked
<1>3. Good(u) /\ u \in States /\ Based(u) /\ Home(u) = Home(s) /\ u.displays = s.displays /\ s \in States
  BY <1>2, GoodFields DEF Twin, Home
<1>4. Has(s, id) <=> DisplaysOn(s, id) # {}
  BY DEF DisplaysOn, Has
<1>5. t # [s EXCEPT !.fault = TRUE]
  BY <1>3 DEF States
<1>6. CASE ~Has(s, id)
  <2>1. t = s
    BY <1>4, <1>5, <1>6 DEF ExpandDisconnect
  <2> QED BY <1>6, <2>1 DEF Heard, Has
<1>7. CASE Has(s, id)
  <2>1. PICK m : m = Max(DisplaysOn(s, id))
    OBVIOUS
  <2>2. DOMAIN s.displays \subseteq Nat /\ s.nextDisplay \in Nat
    BY GoodFields, MapsDef
  <2>3. m \in DOMAIN s.displays /\ s.displays[m].screen = id
    <3>1. DisplaysOn(s, id) \in SUBSET Nat /\ \A x \in DisplaysOn(s, id) : x < s.nextDisplay
      BY <2>2 DEF DisplaysOn, Show
    <3> QED BY <1>4, <1>7, <2>1, <2>2, <3>1, MaxIn DEF DisplaysOn
  <2>4. t = [u EXCEPT !.displays = Without(s.displays, m)]
    BY <1>1, <1>3, <1>4, <1>5, <1>7, <2>1 DEF ExpandDisconnect
  <2>5. /\ t.displays = Without(s.displays, m)
        /\ t.groups = u.groups /\ t.screens = u.screens /\ t.nextDisplay = u.nextDisplay /\ t.rs2dms = u.rs2dms
        /\ t.defaultRs = u.defaultRs
    BY <1>3, <2>4 DEF States
  <2>6. DOMAIN t.displays = DOMAIN s.displays \ {m} /\ \A x \in DOMAIN t.displays : t.displays[x] = s.displays[x]
    BY <2>5 DEF Without, Restrict
  <2>7. Good(t)
    BY ExpandDisconnectOK DEF Grows, Keeps
  <2>8. id # Home(s) => ~Has(t, id)
    BY <2>3, <2>6 DEF Has, Show
  <2>9. \A x : x # id /\ Has(s, x) => Has(t, x)
    BY <2>3, <2>6 DEF Has
  <2>11. Based(t) /\ Home(t) = Home(s) /\ t.groups = s.groups /\ t.screens = s.screens /\ t.nextDisplay = s.nextDisplay
    BY <1>2, <1>3, <2>5 DEF Twin, Based, Met, HasRsScreenId, Home
  <2> QED BY <2>6, <2>7, <2>8, <2>9, <2>11 DEF Heard
<1> QED BY <1>6, <1>7

(* Show depends on J only by whether Home is one of them.                  *)
LEMMA ShowJoin ==
  ASSUME NEW s, NEW g, NEW J, NEW K, Show(s, g, J), Home(s) \in J => Home(s) \in K
  PROVE  Show(s, g, K)
BY DEF Show

(* A screen leaves the group, another one stays.                           *)
Leaves(s, g, id, t) ==
    /\ Based(t) /\ Home(t) = Home(s) /\ Kids(t, g) = Kids(s, g) \ {id}
    /\ t.groups[g].mode = s.groups[g].mode /\ t.groups[g].mirror = s.groups[g].mirror
    /\ DOMAIN t.screens = DOMAIN s.screens /\ \A x \in DOMAIN s.screens : t.screens[x].rs = s.screens[x].rs

(* What the removal of a child changes.                                    *)
LEMMA RemovedShape ==
  ASSUME NEW s, Good(s), NEW g \in DOMAIN s.groups, NEW id, NEW t, t = RemoveChildFromGroup(s, g, id)
  PROVE  /\ t.displays = s.displays /\ t.nextDisplay = s.nextDisplay /\ t.rs2dms = s.rs2dms /\ t.defaultRs = s.defaultRs
         /\ t.fault = s.fault /\ DOMAIN t.screens = DOMAIN s.screens /\ DOMAIN t.groups = DOMAIN s.groups
         /\ Kids(t, g) = Kids(s, g) \ {id} /\ t.groups[g].mode = s.groups[g].mode
         /\ t.groups[g].mirror = s.groups[g].mirror
         /\ t.groups[g].mapped = (s.groups[g].mapped /\ Kids(s, g) # {id})
         /\ \A x \in DOMAIN s.groups \ {g} : t.groups[x] = s.groups[x]
         /\ \A x \in DOMAIN s.screens :
              /\ t.screens[x].rs = s.screens[x].rs
              /\ x # id /\ t.screens[x].node = OwnNode => s.screens[x].node = OwnNode
<1>1. /\ s \in States /\ s.screens \in Maps(Nat, Screens) /\ s.groups \in Maps(Nat, Groups)
      /\ s.groups[g] \in Groups
  BY GoodFields
<1> DEFINE less == [s.groups[g] EXCEPT !.kids = @ \ {id}, !.mapped = @ /\ s.groups[g].kids # {id}]
<1>2. /\ less \in Groups /\ less.mirror = s.groups[g].mirror /\ less.kids = s.groups[g].kids \ {id}
      /\ less.mapped = (s.groups[g].mapped /\ s.groups[g].kids # {id}) /\ less.mode = s.groups[g].mode
  BY <1>1 DEF Groups
<1>3. t.groups = [s.groups EXCEPT ![g] = less]
  BY <1>1 DEF RemoveChildFromGroup, States
<1>4. /\ t.displays = s.displays /\ t.nextDisplay = s.nextDisplay /\ t.rs2dms = s.rs2dms /\ t.defaultRs = s.defaultRs
      /\ t.fault = s.fault /\ DOMAIN t.screens = DOMAIN s.screens
  BY <1>1 DEF RemoveChildFromGroup, States
<1> HIDE DEF less
<1>5. DOMAIN t.groups = DOMAIN s.groups /\ t.groups[g] = less /\ \A x \in DOMAIN s.groups \ {g} : t.groups[x] = s.groups[x]
  BY <1>1, <1>2, <1>3, GroupSet
<1>6. ASSUME NEW x \in DOMAIN s.screens
      PROVE  /\ t.screens[x].rs = s.screens[x].rs
             /\ x # id /\ t.screens[x].node = OwnNode => s.screens[x].node = OwnNode
  <2>1. s.screens[x] \in Screens
    BY GoodFields
  <2>2. CASE x = id
    <3>1. t.screens[x] = [s.screens[x] EXCEPT !.group = NoScreen, !.node = NoNode]
      BY <1>1, <2>2 DEF RemoveChildFromGroup, States
    <3> QED BY <2>1, <2>2, <3>1 DEF Screens
  <2>3. CASE x # id /\ s.screens[x].node = id
    <3>1. t.screens[x] = [s.screens[x] EXCEPT !.node = DeadNode]
      BY <1>1, <2>1, <2>3 DEF RemoveChildFromGroup, States, Screens
    <3> QED BY <2>1, <2>3, <3>1 DEF Screens, DeadNode, OwnNode
  <2>4. CASE x # id /\ s.screens[x].node # id
    <3>1. t.screens[x] = s.screens[x]
      BY <1>1, <2>1, <2>4 DEF RemoveChildFromGroup, States, Screens
    <3> QED BY <3>1
  <2> QED BY <2>2, <2>3, <2>4
<1> QED BY <1>2, <1>4, <1>5, <1>6 DEF Kids

LEMMA LeaveShow ==
  ASSUME RsOK, BaseRs, NEW s, Good(s), Based(s), Sound(s), NEW g, NEW J, Show(s, g, J),
         NEW id, NEW a \in Kids(s, g), a # id, NEW t, t = LeaveGroup(s, id), ~t.fault
  PROVE  Leaves(s, g, id, t) /\ Show(t, g, J \cup {id}) /\ (id \notin Kids(s, g) => t = s)
<1>1. g \in Live(s) /\ Live(s) = {g} /\ g \in DOMAIN s.groups /\ g # NoScreen
  BY GoodFields DEF Show, Live, NoScreen
<1>2. CASE id \notin Kids(s, g)
  <2>1. GroupOf(s, id) = NoScreen
    BY <1>1, <1>2 DEF GroupOf, Sound, Housed
  <2>2. t = s
    BY <2>1 DEF LeaveGroup, RemoveFromGroup, CheckScreenInScreenGroup
  <2>3. Show(s, g, J \cup {id})
    BY ShowJoin
  <2> QED BY <1>2, <2>2, <2>3 DEF Leaves, Kids
<1>3. CASE id \in Kids(s, g)
  <2>1. id \in DOMAIN s.screens /\ GroupOf(s, id) = g /\ CheckScreenInScreenGroup(s, id) /\ id \in Nat
    BY <1>1, <1>3, GoodFields DEF GroupOf, Sound, Peopled, CheckScreenInScreenGroup, Kids
  <2>2. PICK u : u = OnScreenDisconnect(s, id)
    OBVIOUS
  <2>3. t = RemoveFromGroup(u, id)
    BY <2>1, <2>2 DEF LeaveGroup
  <2>4. u = NormalDisconnect(s, id) \/ u = ExpandDisconnect(s, id)
    BY <2>2 DEF OnScreenDisconnect
  <2>5. Good(u)
    BY <2>4, NormalDisconnectOK, ExpandDisconnectOK DEF Grows, Keeps
  <2>6. u \in States /\ u.groups \in Maps(Nat, Groups)
    BY <2>5, GoodFields
  <2>7. t.fault = u.fault
    BY <2>3, <2>6 DEF RemoveFromGroup, RemoveChildFromGroup, States
  <2>8. Heard(s, g, id, u)
    <3>1. CASE s.groups[g].mode = "MIRROR"
      BY <2>1, <2>2, <2>7, <3>1, NormalShow DEF OnScreenDisconnect
    <3>2. CASE s.groups[g].mode # "MIRROR"
      BY <2>1, <2>2, <2>7, <3>2, ExpandShow DEF OnScreenDisconnect
    <3> QED BY <3>1, <3>2
  <2>9. GroupOf(u, id) = g
    BY <2>1, <2>8 DEF Heard, GroupOf, Live
  <2>10. t = RemoveChildFromGroup(u, g, id)
    BY <1>1, <2>3, <2>9 DEF RemoveFromGroup
  <2>12. s.groups[g] \in Groups /\ u.groups = s.groups /\ u.screens = s.screens
    BY <1>1, <2>8, GoodFields DEF Heard
  <2>11. /\ t.displays = u.displays /\ t.nextDisplay = u.nextDisplay /\ t.rs2dms = u.rs2dms /\ t.defaultRs = u.defaultRs
         /\ DOMAIN t.screens = DOMAIN u.screens
    BY <1>1, <2>5, <2>10, <2>12, RemovedShape
  <2>13. /\ DOMAIN t.groups = DOMAIN s.groups /\ Kids(t, g) = Kids(s, g) \ {id}
         /\ t.groups[g].mode = s.groups[g].mode /\ t.groups[g].mirror = s.groups[g].mirror
         /\ t.groups[g].mapped
         /\ \A x \in DOMAIN s.groups \ {g} : t.groups[x] = s.groups[x]
    <3>1. s.groups[g].mapped /\ Kids(s, g) # {id} /\ Kids(u, g) = Kids(s, g)
      BY <1>1, <2>12 DEF Live, Kids
    <3>2. g \in DOMAIN u.groups
      BY <1>1, <2>12
    <3>3. /\ DOMAIN t.groups = DOMAIN u.groups /\ Kids(t, g) = Kids(u, g) \ {id}
          /\ t.groups[g].mode = u.groups[g].mode /\ t.groups[g].mirror = u.groups[g].mirror
          /\ t.groups[g].mapped = (u.groups[g].mapped /\ Kids(u, g) # {id})
          /\ \A x \in DOMAIN u.groups \ {g} : t.groups[x] = u.groups[x]
      BY <2>5, <2>10, <3>2, RemovedShape
    <3>4. t.groups[g].mapped
      BY <2>12, <3>1, <3>3
    <3> QED BY <2>12, <3>1, <3>3, <3>4
  <2>14. Live(t) = {g}
    BY <1>1, <2>13 DEF Live
  <2>15. /\ DOMAIN t.screens = DOMAIN s.screens
         /\ \A x \in DOMAIN s.screens :
              /\ t.screens[x].rs = s.screens[x].rs
              /\ x # id /\ t.screens[x].node = OwnNode => s.screens[x].node = OwnNode
    BY <1>1, <2>5, <2>10, <2>12, RemovedShape
  <2>16. Based(t) /\ Home(t) = Home(s)
    BY <2>8, <2>11, <2>15 DEF Heard, Based, Met, Home, HasRsScreenId
  <2>17. \A x : Has(t, x) <=> Has(u, x)
    BY <2>11 DEF Has
  <2>18. ASSUME NEW d \in DOMAIN t.displays
         PROVE  /\ d < t.nextDisplay /\ t.displays[d].group = g
                /\ t.displays[d].screen \in Kids(t, g) \cup {Home(t)}
    <3>1. /\ d \in DOMAIN s.displays /\ t.displays[d].group = g /\ d < t.nextDisplay
          /\ t.displays[d].screen \in {s.displays[d].screen, Home(s)}
      <4>1. d \in DOMAIN u.displays /\ t.displays[d] = u.displays[d] /\ t.nextDisplay = s.nextDisplay
        BY <2>8, <2>11 DEF Heard
      <4>2. d \in DOMAIN s.displays /\ t.displays[d].group = s.displays[d].group
        BY <2>8, <4>1 DEF Heard
      <4>3. t.displays[d].screen \in {s.displays[d].screen, Home(s)}
        BY <2>8, <4>1 DEF Heard
      <4> QED BY <4>1, <4>2, <4>3 DEF Show
    <3>2. s.displays[d].screen \in Kids(s, g) \cup {Home(s)}
      BY <3>1 DEF Show
    <3>3. t.displays[d].screen # id \/ id = Home(s)
      BY <2>8, <2>17 DEF Heard, Has
    <3> QED BY <2>13, <2>16, <3>1, <3>2, <3>3
  <2>19. ASSUME NEW d \in DOMAIN t.displays, NEW e \in DOMAIN t.displays, d # e,
                t.displays[d].screen = t.displays[e].screen
         PROVE  t.displays[d].screen = Home(t)
    <3>1. /\ d \in DOMAIN s.displays /\ e \in DOMAIN s.displays /\ Home(t) = Home(s)
          /\ t.displays[d].screen \in {s.displays[d].screen, Home(s)}
          /\ t.displays[e].screen \in {s.displays[e].screen, Home(s)}
      BY <2>8, <2>11, <2>16 DEF Heard
    <3>2. s.displays[d].screen = s.displays[e].screen => s.displays[d].screen = Home(s)
      BY <2>19, <3>1 DEF Show
    <3> QED BY <2>19, <3>1, <3>2
  <2>20. ASSUME NEW x \in Kids(t, g), t.screens[x].node = OwnNode \/ (t.groups[g].mode = "EXPAND" /\ ~IsVirtual(t, x))
         PROVE  Has(t, x)
    <3>1. x \in Kids(s, g) /\ x # id /\ x \in DOMAIN s.screens
      BY <1>1, <2>13 DEF Sound, Peopled
    <3>2. Has(s, x)
      BY <2>13, <2>15, <2>20, <3>1 DEF Show, IsVirtual
    <3> QED BY <2>8, <2>17, <3>1, <3>2 DEF Heard
  <2>21. ASSUME t.groups[g].mode = "MIRROR"
         PROVE  \E x \in Kids(t, g) \cup ((J \cup {id}) \cap {Home(t)}) : ~IsVirtual(t, x) /\ Has(t, x)
    <3>1. PICK x \in Kids(s, g) \cup (J \cap {Home(s)}) : ~IsVirtual(s, x) /\ Has(s, x)
      BY <2>13, <2>21 DEF Show
    <3>2. x \in DOMAIN s.screens
      BY <1>1, HomeOK DEF Sound, Peopled
    <3>3. ~IsVirtual(t, x) /\ ~IsVirtual(t, Home(t)) /\ Home(t) = Home(s)
      BY <2>15, <2>16, <3>1, <3>2, HomeOK DEF IsVirtual
    <3>4. CASE x # id
      BY <2>8, <2>13, <2>17, <3>1, <3>3, <3>4 DEF Heard
    <3>5. CASE x = id
      <4>1. Has(t, Home(t))
        BY <2>8, <2>13, <2>17, <2>21, <3>1, <3>3, <3>5 DEF Heard
      <4>2. Home(s) \in Kids(s, g) \cup J
        BY DEF Show
      <4> QED BY <2>13, <3>3, <4>1, <4>2
    <3> QED BY <3>4, <3>5
  <2>22. Home(t) \in Kids(t, g) \cup (J \cup {id})
    BY <2>13, <2>16 DEF Show
  <2>23. Show(t, g, J \cup {id})
    BY <2>14, <2>18, <2>19, <2>20, <2>21, <2>22 DEF Show
  <2> QED BY <1>3, <2>13, <2>15, <2>16, <2>23 DEF Leaves
<1> QED BY <1>2, <1>3

-----------------------------------------------------------------------------
(* A screen joins the group.                                               *)
LEMMA AttachShape ==
  ASSUME NEW s, Good(s), NEW g \in DOMAIN s.groups, NEW id \in Nat, NEW node \in Int,
         NEW t, t = AttachChild(s, g, id, node)
  PROVE  /\ t.displays = s.displays /\ t.nextDisplay = s.nextDisplay /\ t.rs2dms = s.rs2dms
         /\ t.groups[g].mode = s.groups[g].mode /\ t.groups[g].mirror = s.groups[g].mirror
<1>1. s \in States /\ s.groups \in Maps(Nat, Groups) /\ s.groups[g] \in Groups
  BY GoodFields
<1> DEFINE more == [s.groups[g] EXCEPT !.kids = @ \cup {id}]
<1>2. more \in Groups /\ more.mirror = s.groups[g].mirror /\ more.mode = s.groups[g].mode
  BY <1>1 DEF Groups
<1>3. t.groups = [s.groups EXCEPT ![g] = more]
  BY <1>1 DEF AttachChild, States
<1>4. t.displays = s.displays /\ t.nextDisplay = s.nextDisplay /\ t.rs2dms = s.rs2dms
  BY <1>1 DEF AttachChild, States
<1> HIDE DEF more
<1>5. t.groups[g] = more
  BY <1>1, <1>2, <1>3, GroupSet
<1> QED BY <1>2, <1>4, <1>5

(* u is s with the screen id in the group g.                               *)
Added(s, g, id, u) ==
    /\ Based(u) /\ Good(u) /\ Sound(u) /\ Home(u) = Home(s)
    /\ u.displays = s.displays /\ u.nextDisplay = s.nextDisplay
    /\ Live(u) = Live(s) /\ Kids(u, g) = Kids(s, g) \cup {id} /\ u.groups[g].mode = s.groups[g].mode
    /\ s.groups[g].mirror \in Kids(s, g) => u.groups[g].mirror = s.groups[g].mirror
    /\ DOMAIN u.screens = DOMAIN s.screens /\ \A x \in DOMAIN s.screens : u.screens[x].rs = s.screens[x].rs
    /\ \A x \in DOMAIN s.screens \ {id} : u.screens[x] = s.screens[x]
    /\ s.groups[g].mode = "MIRROR" /\ u.screens[id].node = OwnNode => Has(u, id)

LEMMA AttachAdds ==
  ASSUME RsOK, BaseRs, NEW s, Good(s), Based(s), Sound(s), NEW g \in Live(s), NEW id \in DOMAIN s.screens,
         NEW node \in Int, node # NoNode, s.groups[g].mode = "MIRROR" => node # OwnNode,
         NEW u, u = AttachChild(s, g, id, node)
  PROVE  Added(s, g, id, u) /\ u.groups[g].mirror = s.groups[g].mirror
<1>1. g \in DOMAIN s.groups /\ id \in Nat
  BY GoodFields DEF Live
<1>2. /\ u.displays = s.displays /\ u.nextDisplay = s.nextDisplay /\ u.rs2dms = s.rs2dms
      /\ u.groups[g].mode = s.groups[g].mode /\ u.groups[g].mirror = s.groups[g].mirror
  BY <1>1, AttachShape
<1>3. Keeps(s, u) /\ Attached(s, g, id, node, u)
  BY <1>1, AttachOK
<1>4. Grows(s, u)
  BY <1>3, AttachGrows
<1>5. Live(u) = Live(s)
  BY <1>1, <1>3 DEF Attached, Live
<1>6. Based(u) /\ Home(u) = Home(s)
  BY <1>2, <1>3 DEF Attached, Based, Met, Home, HasRsScreenId
<1>7. Good(u) /\ Sound(u) /\ \A x \in DOMAIN s.screens : u.screens[x].rs = s.screens[x].rs
  BY <1>4 DEF Grows, Keeps
<1> QED BY <1>2, <1>3, <1>5, <1>6, <1>7 DEF Added, Attached

LEMMA MirrorShape ==
  ASSUME NEW s, Good(s), NEW g \in DOMAIN s.groups, NEW m \in Int, NEW t, t = [s EXCEPT !.groups[g].mirror = m]
  PROVE  /\ t.displays = s.displays /\ t.nextDisplay = s.nextDisplay /\ t.rs2dms = s.rs2dms /\ t.defaultRs = s.defaultRs
         /\ t.screens = s.screens /\ t.fault = s.fault /\ Live(t) = Live(s) /\ Kids(t, g) = Kids(s, g)
         /\ t.groups[g].mode = s.groups[g].mode /\ t.groups[g].mirror = m
<1>1. s \in States /\ s.groups \in Maps(Nat, Groups) /\ s.groups[g] \in Groups
  BY GoodFields
<1> DEFINE v == [s.groups[g] EXCEPT !.mirror = m]
<1>2. v \in Groups /\ v.mirror = m /\ v.mode = s.groups[g].mode /\ v.kids = s.groups[g].kids /\ v.mapped = s.groups[g].mapped
  BY <1>1 DEF Groups
<1>3. t = [s EXCEPT !.groups = [s.groups EXCEPT ![g] = v]]
  BY <1>1 DEF States
<1>4. t.groups = [s.groups EXCEPT ![g] = v]
  BY <1>1, <1>3 DEF States
<1>5. /\ t.displays = s.displays /\ t.nextDisplay = s.nextDisplay /\ t.rs2dms = s.rs2dms /\ t.defaultRs = s.defaultRs
      /\ t.screens = s.screens /\ t.fault = s.fault
  BY <1>1, <1>3 DEF States
<1> HIDE DEF v
<1>6. DOMAIN t.groups = DOMAIN s.groups /\ t.groups[g] = v /\ \A x \in DOMAIN s.groups \ {g} : t.groups[x] = s.groups[x]
  BY <1>1, <1>2, <1>4, GroupSet
<1>7. \A x \in DOMAIN s.groups : t.groups[x].mapped = s.groups[x].mapped
  BY <1>2, <1>6
<1> QED BY <1>2, <1>5, <1>6, <1>7 DEF Live, Kids

LEMMA AddChildShow ==
  ASSUME RsOK, BaseRs, NEW s, Good(s), Based(s), Sound(s), NEW g, NEW J, Show(s, g, J),
         NEW id \in DOMAIN s.screens, NEW a \in Kids(s, g), a # id,
         s.groups[g].mode = "MIRROR" =>
            s.groups[g].mirror # id /\ (s.groups[g].mirror \in Kids(s, g) \/ Home(s) \in Kids(s, g)),
         NEW u, u = AddChild(s, g, id)
  PROVE  Added(s, g, id, u)
<1>1. g \in Live(s) /\ Live(s) = {g} /\ g \in DOMAIN s.groups /\ g # NoScreen
  BY GoodFields DEF Show, Live, NoScreen
<1>2. CASE id \in Kids(s, g)
  <2>1. u = s
    BY <1>2 DEF AddChild, Kids
  <2>2. u.screens[id].node = OwnNode => Has(u, id)
    BY <1>2, <2>1 DEF Show
  <2> QED BY <1>2, <2>1, <2>2 DEF Added
<1>3. CASE id \notin Kids(s, g) /\ ~NeedsSource(s, g, id)
  <2>1. u = AttachChild(s, g, id, OwnNode)
    BY <1>3 DEF AddChild, Kids
  <2>2. s.groups[g].mode # "MIRROR"
    BY <1>3 DEF NeedsSource, Kids
  <2>3. OwnNode \in Int /\ OwnNode # NoNode
    BY DEF OwnNode, NoNode
  <2> QED BY <1>1, <2>1, <2>2, <2>3, AttachAdds
<1>4. CASE id \notin Kids(s, g) /\ NeedsSource(s, g, id)
  <2>1. PICK v : v = ChooseSource(s, g)
    OBVIOUS
  <2>2. s.groups[g].mode = "MIRROR"
    BY <1>4 DEF NeedsSource
  <2>3. /\ Good(v) /\ Sound(v) /\ Based(v) /\ Home(v) = Home(s) /\ Live(v) = {g} /\ v.screens = s.screens
        /\ v.displays = s.displays /\ v.nextDisplay = s.nextDisplay
        /\ Kids(v, g) = Kids(s, g) /\ v.groups[g].mode = s.groups[g].mode
        /\ v.groups[g].mirror \in Kids(s, g)
        /\ s.groups[g].mirror \in Kids(s, g) => v.groups[g].mirror = s.groups[g].mirror
    <3>1. CASE s.groups[g].mirror \in Kids(s, g)
      <4>1. v = s
        BY <2>1, <3>1 DEF ChooseSource, Kids
      <4> QED BY <1>1, <3>1, <4>1
    <3>2. CASE s.groups[g].mirror \notin Kids(s, g)
      <4>1. PICK w : w = WithDefault(s)
        OBVIOUS
      <4>2. Twin(s, w) /\ DefaultScreen(s) = Home(s)
        BY <4>1, Asked
      <4>3. Home(s) \in Int /\ g \in DOMAIN w.groups /\ Good(w)
        BY <1>1, <4>2, HomeOK DEF Twin
      <4>4. v = [w EXCEPT !.groups[g].mirror = Home(s)]
        BY <2>1, <3>2, <4>1, <4>2 DEF ChooseSource, Kids
      <4>5. /\ v.displays = w.displays /\ v.nextDisplay = w.nextDisplay /\ v.rs2dms = w.rs2dms
            /\ v.defaultRs = w.defaultRs /\ v.screens = w.screens /\ Live(v) = Live(w) /\ Kids(v, g) = Kids(w, g)
            /\ v.groups[g].mode = w.groups[g].mode /\ v.groups[g].mirror = Home(s)
        BY <4>3, <4>4, MirrorShape
      <4>6. Grows(s, v)
        BY <1>1, <2>1, ChooseSourceOK
      <4>7. Good(v) /\ Sound(v)
        BY <4>6 DEF Grows, Keeps
      <4>8. Live(w) = {g} /\ Kids(w, g) = Kids(s, g)
        BY <1>1, <4>2 DEF Twin, Live, Kids
      <4>9. Based(v) /\ Home(v) = Home(s)
        BY <4>2, <4>5 DEF Twin, Based, Met, Home, HasRsScreenId
      <4> QED BY <2>2, <3>2, <4>2, <4>5, <4>7, <4>8, <4>9 DEF Twin
    <3> QED BY <3>1, <3>2
  <2>4. PICK m : m = v.groups[g].mirror
    OBVIOUS
  <2>5. m \in DOMAIN s.screens /\ s.screens[m].group = g
    BY <1>1, <2>3, <2>4 DEF Sound, Peopled
  <2>6. m \in Nat /\ m # NoNode /\ m # OwnNode /\ m \in Int
    BY <2>5, GoodFields DEF NoNode, OwnNode
  <2>7. GetRSDisplayNode(v, m) # NoNode
    BY <1>1, <2>3, <2>5 DEF GetRSDisplayNode, Sound, Housed
  <2>8. u = AttachChild(v, g, id, m)
    BY <1>4, <2>1, <2>4, <2>7 DEF AddChild, Kids
  <2>9. Added(v, g, id, u) /\ u.groups[g].mirror = m
    <3>1. g \in Live(v) /\ id \in DOMAIN v.screens
      BY <2>3
    <3> QED BY <2>3, <2>6, <2>8, <2>4, <3>1, AttachAdds
  <2> QED BY <1>1, <2>3, <2>4, <2>9 DEF Added
<1> QED BY <1>2, <1>3, <1>4

LEMMA CreateShape ==
  ASSUME NEW s, Good(s), NEW id \in DOMAIN s.screens, NEW t, t = CreateDisplay(s, id)
  PROVE  /\ t.groups = s.groups /\ t.screens = s.screens /\ t.rs2dms = s.rs2dms /\ t.defaultRs = s.defaultRs
         /\ t.fault = s.fault /\ t.nextDisplay = s.nextDisplay + 1
         /\ DOMAIN t.displays = DOMAIN s.displays \cup {s.nextDisplay}
         /\ t.displays[s.nextDisplay].screen = id /\ t.displays[s.nextDisplay].group = s.screens[id].group
         /\ \A d \in DOMAIN s.displays \ {s.nextDisplay} : t.displays[d] = s.displays[d]
<1>1. s \in States
  BY GoodFields
<1>2. t.displays = Put(s.displays, s.nextDisplay, [screen |-> id, group |-> s.screens[id].group])
  BY <1>1 DEF CreateDisplay, States
<1>3. /\ t.groups = s.groups /\ t.screens = s.screens /\ t.rs2dms = s.rs2dms /\ t.defaultRs = s.defaultRs
      /\ t.fault = s.fault /\ t.nextDisplay = s.nextDisplay + 1
  BY <1>1 DEF CreateDisplay, States
<1> QED BY <1>2, <1>3 DEF Put

(* The displays have heard of the screen id that came into the group g.    *)
LEMMA OnConnectShow ==
  ASSUME RsOK, BaseRs, NEW s, Good(s), Based(s), Sound(s), NEW g, NEW id \in Kids(s, g), NEW a \in Kids(s, g), a # id,
         Live(s) = {g}, NEW t, t = OnScreenConnect(s, id), \A d \in DOMAIN s.displays : d < s.nextDisplay
  PROVE  /\ Based(t) /\ Good(t) /\ Home(t) = Home(s) /\ t.groups = s.groups /\ t.screens = s.screens
         /\ \/ t.displays = s.displays /\ t.nextDisplay = s.nextDisplay
               /\ (s.groups[g].mode = "EXPAND" => Has(s, id))
            \/ /\ s.groups[g].mode = "EXPAND" /\ ~Has(s, id)
               /\ t.nextDisplay = s.nextDisplay + 1 /\ DOMAIN t.displays = DOMAIN s.displays \cup {s.nextDisplay}
               /\ t.displays[s.nextDisplay].screen = id /\ t.displays[s.nextDisplay].group = g
               /\ \A d \in DOMAIN s.displays : t.displays[d] = s.displays[d]
<1>1. g \in Live(s) /\ g # NoScreen /\ id \in DOMAIN s.screens /\ s.screens[id].group = g
  BY GoodFields DEF Live, NoScreen, Sound, Peopled
<1>2. GroupOf(s, id) = g /\ s.groups[g].kids # {id}
  BY <1>1 DEF GroupOf, Kids
<1>3. t = IF s.groups[g].mode = "EXPAND" THEN AddScreenToExpand(s, id) ELSE s
  BY <1>1, <1>2 DEF OnScreenConnect
<1>4. Has(s, id) <=> DisplaysOn(s, id) # {}
  BY DEF Has, DisplaysOn
<1>5. CASE s.groups[g].mode # "EXPAND" \/ Has(s, id)
  <2>1. t = s
    BY <1>3, <1>4, <1>5 DEF AddScreenToExpand
  <2> QED BY <1>5, <2>1
<1>6. CASE s.groups[g].mode = "EXPAND" /\ ~Has(s, id)
  <2>1. PICK u : u = WithDefault(s)
    OBVIOUS
  <2>2. DefaultScreen(s) \in DOMAIN s.screens /\ Twin(s, u)
    BY <2>1, Asked, HomeOK
  <2>3. t = CreateDisplay(u, id)
    BY <1>3, <1>4, <1>6, <2>1, <2>2 DEF AddScreenToExpand
  <2>4. Good(u) /\ id \in DOMAIN u.screens /\ u.screens[id].group = g
    BY <1>1, <2>2 DEF Twin
  <2>5. /\ t.groups = u.groups /\ t.screens = u.screens /\ t.rs2dms = u.rs2dms /\ t.defaultRs = u.defaultRs
        /\ t.fault = u.fault /\ t.nextDisplay = u.nextDisplay + 1
        /\ DOMAIN t.displays = DOMAIN u.displays \cup {u.nextDisplay}
        /\ t.displays[u.nextDisplay].screen = id /\ t.displays[u.nextDisplay].group = u.screens[id].group
        /\ \A d \in DOMAIN u.displays \ {u.nextDisplay} : t.displays[d] = u.displays[d]
    BY <2>3, <2>4, CreateShape
  <2>6. s.nextDisplay \notin DOMAIN s.displays
    BY GoodFields
  <2>7. Good(t)
    BY <2>3, <2>4, CreateDisplayOK DEF Grows, Keeps
  <2>8. Based(t) /\ Home(t) = Home(s)
    BY <2>2, <2>5 DEF Twin, Based, Met, Home, HasRsScreenId
  <2> QED BY <1>6, <2>2, <2>4, <2>5, <2>6, <2>7, <2>8 DEF Twin
<1> QED BY <1>5, <1>6

Joins(s, g, id, t) ==
    /\ Based(t) /\ Home(t) = Home(s) /\ Kids(t, g) = Kids(s, g) \cup {id}
    /\ t.groups[g].mode = s.groups[g].mode
    /\ s.groups[g].mirror \in Kids(s, g) => t.groups[g].mirror = s.groups[g].mirror
    /\ DOMAIN t.screens = DOMAIN s.screens

LEMMA JoinShow ==
  ASSUME RsOK, BaseRs, NEW s, Good(s), Based(s), Sound(s), NEW g, NEW J, Show(s, g, J),
         NEW id \in DOMAIN s.screens, NEW a \in Kids(s, g), a # id,
         s.groups[g].mode = "MIRROR" =>
            s.groups[g].mirror # id /\ (s.groups[g].mirror \in Kids(s, g) \/ Home(s) \in Kids(s, g)),
         NEW t, t = OnScreenConnect(AddChild(s, g, id), id)
  PROVE  Joins(s, g, id, t) /\ Show(t, g, J \ {id})
<1>1. PICK u : u = AddChild(s, g, id)
  OBVIOUS
<1>2. Added(s, g, id, u)
  BY <1>1, AddChildShow
<1>3. Live(s) = {g} /\ g \in DOMAIN s.groups /\ s.groups[g] \in Groups /\ id \in Nat
  BY GoodFields DEF Show, Live
<1>4. id \in Kids(u, g) /\ a \in Kids(u, g) /\ Live(u) = {g} /\ \A d \in DOMAIN u.displays : d < u.nextDisplay
  BY <1>2, <1>3 DEF Added, Show
<1>5. t = OnScreenConnect(u, id)
  BY <1>1
<1>6. /\ Based(t) /\ Good(t) /\ Home(t) = Home(u) /\ t.groups = u.groups /\ t.screens = u.screens
      /\ \/ t.displays = u.displays /\ t.nextDisplay = u.nextDisplay
            /\ (u.groups[g].mode = "EXPAND" => Has(u, id))
         \/ /\ u.groups[g].mode = "EXPAND" /\ ~Has(u, id)
            /\ t.nextDisplay = u.nextDisplay + 1 /\ DOMAIN t.displays = DOMAIN u.displays \cup {u.nextDisplay}
            /\ t.displays[u.nextDisplay].screen = id /\ t.displays[u.nextDisplay].group = g
            /\ \A d \in DOMAIN u.displays : t.displays[d] = u.displays[d]
  BY <1>2, <1>4, <1>5, OnConnectShow DEF Added
<1>7. Joins(s, g, id, t)
  BY <1>2, <1>6 DEF Added, Joins, Kids
<1>8. Kids(t, g) = Kids(s, g) \cup {id} /\ Live(t) = {g} /\ t.groups[g].mode = s.groups[g].mode /\ Home(t) = Home(s)
  BY <1>2, <1>4, <1>6 DEF Added, Kids, Live
<1>9. \A x : Has(s, x) => Has(t, x)
  BY <1>2, <1>6 DEF Added, Has
<1>10. t.groups[g].mode = "EXPAND" => Has(t, id)
  BY <1>2, <1>6 DEF Added, Has
<1>11. ASSUME NEW d \in DOMAIN t.displays
       PROVE  /\ d < t.nextDisplay /\ t.displays[d].group = g
              /\ t.displays[d].screen \in Kids(t, g) \cup {Home(t)}
  <2>1. CASE d \in DOMAIN s.displays /\ t.displays[d] = s.displays[d]
    <3>1. d < s.nextDisplay /\ s.displays[d].group = g /\ s.displays[d].screen \in Kids(s, g) \cup {Home(s)}
      BY <2>1 DEF Show
    <3>2. d \in Nat /\ s.nextDisplay \in Nat /\ (t.nextDisplay = s.nextDisplay \/ t.nextDisplay = s.nextDisplay + 1)
      BY <1>2, <1>6, <2>1, GoodFields, MapsDef DEF Added
    <3> QED BY <1>8, <2>1, <3>1, <3>2
  <2>2. CASE d = s.nextDisplay /\ t.displays[d].screen = id /\ t.displays[d].group = g /\ t.nextDisplay = s.nextDisplay + 1
    BY <1>8, <2>2, GoodFields
  <2> QED BY <1>2, <1>6, <2>1, <2>2 DEF Added
<1>12. ASSUME NEW d \in DOMAIN t.displays, NEW e \in DOMAIN t.displays, d # e, t.displays[d].screen = t.displays[e].screen
       PROVE  t.displays[d].screen = Home(t)
  <2>1. CASE d \in DOMAIN s.displays /\ t.displays[d] = s.displays[d] /\ e \in DOMAIN s.displays /\ t.displays[e] = s.displays[e]
    BY <1>8, <1>12, <2>1 DEF Show
  <2>2. CASE ~Has(s, id) /\ \E x \in {d, e} : t.displays[x].screen = id /\ \A y \in {d, e} \ {x} : y \in DOMAIN s.displays /\ t.displays[y] = s.displays[y]
    BY <1>12, <2>2 DEF Has
  <2> QED BY <1>2, <1>6, <1>12, <2>1, <2>2 DEF Added, Has
<1>13. ASSUME NEW x \in Kids(t, g), t.screens[x].node = OwnNode \/ (t.groups[g].mode = "EXPAND" /\ ~IsVirtual(t, x))
       PROVE  Has(t, x)
  <2>1. CASE x = id
    <3>1. CASE t.groups[g].mode = "EXPAND"
      BY <1>10, <2>1, <3>1
    <3>2. CASE t.groups[g].mode # "EXPAND"
      <4>1. s.groups[g].mode = "MIRROR" /\ u.screens[id].node = OwnNode
        BY <1>3, <1>6, <1>8, <1>13, <2>1, <3>2 DEF Groups, Modes
      <4>2. Has(s, id)
        BY <1>2, <4>1 DEF Added, Has
      <4> QED BY <1>9, <2>1, <4>2
    <3> QED BY <3>1, <3>2
  <2>2. CASE x # id
    <3>1. x \in Kids(s, g) /\ x \in DOMAIN s.screens
      BY <1>3, <1>8, <2>2 DEF Sound, Peopled
    <3>2. t.screens[x] = s.screens[x]
      BY <1>2, <1>6, <2>2, <3>1 DEF Added
    <3>3. Has(s, x)
      BY <1>8, <1>13, <3>1, <3>2 DEF Show, IsVirtual
    <3> QED BY <1>9, <3>3
  <2> QED BY <2>1, <2>2
<1>14. ASSUME t.groups[g].mode = "MIRROR"
       PROVE  \E x \in Kids(t, g) \cup ((J \ {id}) \cap {Home(t)}) : ~IsVirtual(t, x) /\ Has(t, x)
  <2>1. PICK x \in Kids(s, g) \cup (J \cap {Home(s)}) : ~IsVirtual(s, x) /\ Has(s, x)
    BY <1>8, <1>14 DEF Show
  <2>2. x \in DOMAIN s.screens
    BY <1>3, HomeOK DEF Sound, Peopled
  <2>3. ~IsVirtual(t, x)
    BY <1>2, <1>6, <2>1, <2>2 DEF Added, IsVirtual
  <2> QED BY <1>8, <1>9, <2>1, <2>3
<1>15. Home(t) \in Kids(t, g) \cup (J \ {id})
  BY <1>8 DEF Show
<1>16. Show(t, g, J \ {id})
  BY <1>8, <1>11, <1>12, <1>13, <1>14, <1>15 DEF Show
<1> QED BY <1>7, <1>16

-----------------------------------------------------------------------------
(* What does not touch the group.                                          *)
Watched(s, t) == Seen(s, t) /\ Based(t) /\ t.fault = s.fault

LEMMA WatchedShow ==
  ASSUME NEW s, NEW t, Watched(s, t), Sound(s), Based(s), NEW g, NEW J, Show(s, g, J)
  PROVE  Show(t, g, J) /\ Based(t) /\ t.fault = s.fault /\ Kids(t, g) = Kids(s, g) /\ t.groups[g] = s.groups[g] /\ Home(t) = Home(s)
<1>1. g \in Live(s)
  BY DEF Show
<1> QED BY <1>1, SeenShow DEF Watched, Based, Seen, Kids

LEMMA HomeOther ==
  ASSUME RsOK, BaseRs, NEW s, Good(s), Based(s), NEW id \in DOMAIN s.dms2rs, id # Home(s) PROVE s.dms2rs[id] # rs.default
<1>1. rs.default # NoRs
  BY HomeOK
<1> QED BY <1>1 DEF Good, Paired, Home

LEMMA EraseWatched ==
  ASSUME RsOK, BaseRs, NEW s, Good(s), Based(s), NEW id \in Nat, id # Home(s), \A g \in Live(s) : id \notin Kids(s, g),
         NEW t, t = EraseScreen(s, id)
  PROVE  Watched(s, t)
<1>1. s \in States
  BY GoodFields
<1>2. /\ t.screens = Without(s.screens, id) /\ t.groups = s.groups /\ t.displays = s.displays
      /\ t.nextDisplay = s.nextDisplay /\ t.rs2dms = s.rs2dms /\ t.defaultRs = s.defaultRs /\ t.fault = s.fault
  BY <1>1 DEF EraseScreen, PostTask, States
<1>3. DOMAIN t.screens = DOMAIN s.screens \ {id} /\ \A x \in DOMAIN t.screens : t.screens[x] = s.screens[x]
  BY EraseOK
<1> QED BY <1>2, <1>3 DEF Watched, Seen, Live, Kids, Based, Met, Home, HasRsScreenId

LEMMA DeleteWatched ==
  ASSUME RsOK, BaseRs, NEW s, Good(s), Based(s), NEW id, id \notin DOMAIN s.screens, NEW t, t = DeleteScreenId(s, id)
  PROVE  Watched(s, t) /\ t.screens = s.screens
<1>1. s \in States
  BY GoodFields
<1>2. CASE id \notin DOMAIN s.dms2rs
  BY <1>2 DEF DeleteScreenId, Watched, Seen, Live, Kids, Based, Met, Home, HasRsScreenId
<1>3. CASE id \in DOMAIN s.dms2rs
  <2>1. /\ t.rs2dms = Without(s.rs2dms, s.dms2rs[id]) /\ t.groups = s.groups /\ t.displays = s.displays /\ t.screens = s.screens
        /\ t.nextDisplay = s.nextDisplay /\ t.defaultRs = s.defaultRs /\ t.fault = s.fault
    BY <1>1, <1>3 DEF DeleteScreenId, States
  <2>2. s.dms2rs[id] # rs.default
    BY <1>3, HomeOther DEF Based
  <2>3. Met(t) /\ Home(t) = Home(s)
    BY <2>1, <2>2 DEF Based, Met, HasRsScreenId, Home, Without, Restrict
  <2> QED BY <2>1, <2>3 DEF Watched, Seen, Live, Kids, Based
<1> QED BY <1>2, <1>3

LEMMA CollectWatched ==
  ASSUME NEW s, Good(s), Based(s), NEW ids, NEW t, t = Collect(s, ids)
  PROVE  Watched(s, t) /\ t.screens = s.screens
<1>1. s \in States
  BY GoodFields
<1>2. PICK E : E = {g \in DOMAIN s.groups : s.groups[g].mapped \/ s.groups[g].kids # {} \/ g \in ids}
  OBVIOUS
<1>3. t.groups = Restrict(s.groups, E)
  BY <1>1, <1>2 DEF Collect, States
<1>4. /\ t.screens = s.screens /\ t.displays = s.displays /\ t.rs2dms = s.rs2dms
      /\ t.nextDisplay = s.nextDisplay /\ t.defaultRs = s.defaultRs /\ t.fault = s.fault
  BY <1>1, <1>2 DEF Collect, States
<1>5. DOMAIN t.groups = E /\ \A g \in E : t.groups[g] = s.groups[g]
  BY <1>2, <1>3 DEF Restrict
<1>6. Live(t) = Live(s) /\ \A g \in Live(s) : t.groups[g] = s.groups[g]
  BY <1>2, <1>5 DEF Live
<1> QED BY <1>4, <1>6 DEF Watched, Seen, Kids, Based, Met, Home, HasRsScreenId

(* A screen comes, in no group.                                            *)
LEMMA IdShape ==
  ASSUME NEW s, Good(s), NEW r \in RsIds, NEW t, t = CreateScreenId(s, r)
  PROVE  /\ t.groups = s.groups /\ t.screens = s.screens /\ t.displays = s.displays /\ t.nextDisplay = s.nextDisplay
         /\ t.defaultRs = s.defaultRs /\ t.fault = s.fault /\ DOMAIN t.rs2dms = DOMAIN s.rs2dms \cup {r}
         /\ t.rs2dms[r] = s.count /\ \A x \in DOMAIN s.rs2dms \ {r} : t.rs2dms[x] = s.rs2dms[x]
<1>1. s \in States /\ r # NoRs
  BY GoodFields, RsIdAssumption DEF RsIds
<1>2. t.rs2dms = Put(s.rs2dms, r, s.count)
  BY <1>1 DEF CreateScreenId, States
<1>3. /\ t.groups = s.groups /\ t.screens = s.screens /\ t.displays = s.displays /\ t.nextDisplay = s.nextDisplay
      /\ t.defaultRs = s.defaultRs /\ t.fault = s.fault
  BY <1>1 DEF CreateScreenId, States
<1> QED BY <1>2, <1>3 DEF Put

LEMMA InsertShape ==
  ASSUME NEW s, Good(s), NEW id, NEW r \in RsIds, NEW t, t = InsertScreen(s, id, r)
  PROVE  /\ t.groups = s.groups /\ t.displays = s.displays /\ t.nextDisplay = s.nextDisplay
         /\ t.defaultRs = s.defaultRs /\ t.fault = s.fault /\ t.rs2dms = s.rs2dms
<1>1. s \in States
  BY GoodFields
<1> QED BY <1>1 DEF InsertScreen, PostTask, States

LEMMA NewScreen ==
  ASSUME RsOK, NEW s, Good(s), NEW r \in RsIds, r \notin DOMAIN s.rs2dms, NEW t, t = InsertScreen(CreateScreenId(s, r), s.count, r)
  PROVE  /\ Good(t) /\ s.count \in Nat /\ s.count \notin DOMAIN s.screens
         /\ t.groups = s.groups /\ t.displays = s.displays /\ t.nextDisplay = s.nextDisplay
         /\ t.defaultRs = s.defaultRs /\ t.fault = s.fault /\ DOMAIN t.rs2dms = DOMAIN s.rs2dms \cup {r}
         /\ t.rs2dms[r] = s.count /\ \A x \in DOMAIN s.rs2dms : t.rs2dms[x] = s.rs2dms[x]
         /\ DOMAIN t.screens = DOMAIN s.screens \cup {s.count} /\ t.screens[s.count].rs = r
         /\ \A x \in DOMAIN s.screens : t.screens[x] = s.screens[x]
         /\ t.screens[s.count].group = NoScreen /\ t.screens[s.count].node = NoNode
<1>1. PICK c : c = CreateScreenId(s, r)
  OBVIOUS
<1>2. s.count \in Nat /\ s.count \notin DOMAIN s.screens
  BY GoodFields
<1>3. Good(c) /\ s.count \in DOMAIN c.dms2rs /\ c.dms2rs[s.count] = r /\ c.screens = s.screens
  BY <1>1, CreateOK
<1>4. /\ c.groups = s.groups /\ c.displays = s.displays /\ c.nextDisplay = s.nextDisplay
      /\ c.defaultRs = s.defaultRs /\ c.fault = s.fault /\ DOMAIN c.rs2dms = DOMAIN s.rs2dms \cup {r}
      /\ c.rs2dms[r] = s.count /\ \A x \in DOMAIN s.rs2dms \ {r} : c.rs2dms[x] = s.rs2dms[x]
  BY <1>1, IdShape
<1>5. Inserted(c, s.count, r, t)
  BY <1>1, <1>2, <1>3, InsertOK
<1>6. /\ t.groups = c.groups /\ t.displays = c.displays /\ t.nextDisplay = c.nextDisplay
      /\ t.defaultRs = c.defaultRs /\ t.fault = c.fault /\ t.rs2dms = c.rs2dms
  BY <1>1, <1>3, InsertShape
<1> QED BY <1>2, <1>3, <1>4, <1>5, <1>6 DEF Inserted

LEMMA NewWatched ==
  ASSUME RsOK, BaseRs, NEW s, Good(s), Based(s), NEW r \in RsIds, r \notin DOMAIN s.rs2dms,
         NEW t, t = InsertScreen(CreateScreenId(s, r), s.count, r)
  PROVE  Watched(s, t) /\ Good(t)
<1>1. /\ Good(t) /\ t.groups = s.groups /\ t.displays = s.displays /\ t.nextDisplay = s.nextDisplay
      /\ t.defaultRs = s.defaultRs /\ t.fault = s.fault /\ DOMAIN t.rs2dms = DOMAIN s.rs2dms \cup {r}
      /\ \A x \in DOMAIN s.rs2dms : t.rs2dms[x] = s.rs2dms[x]
      /\ DOMAIN t.screens = DOMAIN s.screens \cup {s.count} /\ \A x \in DOMAIN s.screens : t.screens[x] = s.screens[x]
  BY NewScreen
<1> QED BY <1>1 DEF Watched, Seen, Live, Kids, Based, Met, Home, HasRsScreenId

LEMMA DefaultWatched ==
  ASSUME RsOK, BaseRs, NEW s, Good(s), Based(s), NEW t, t = WithDefault(s)
  PROVE  Watched(s, t) /\ Good(t) /\ t.screens = s.screens /\ t.groups = s.groups /\ Twin(s, t)
BY Asked, TwinSeen DEF Twin, Watched

LEMMA HomeGroup ==
  ASSUME RsOK, BaseRs, NEW s, Good(s), Based(s), Sound(s), NEW g, NEW J, Show(s, g, J), Home(s) \notin J
  PROVE  Home(s) \in Kids(s, g) /\ GroupOf(s, Home(s)) = g /\ g # NoScreen /\ g \in Live(s) /\ g \in DOMAIN s.groups
<1>1. Home(s) \in Kids(s, g) /\ g \in Live(s)
  BY DEF Show
<1>2. s.screens[Home(s)].group = g /\ Home(s) \in DOMAIN s.screens
  BY <1>1 DEF Sound, Peopled
<1>3. g # NoScreen /\ g \in DOMAIN s.groups
  BY <1>1, GoodFields DEF Live, NoScreen
<1> QED BY <1>1, <1>2, <1>3 DEF GroupOf

(* The groups, when the screens are the ones that were there: no physical  *)
(* child left, and nothing came.                                           *)
Steady(s, t, g) ==
    /\ Home(t) = Home(s) /\ t.groups[g].mode = s.groups[g].mode /\ t.groups[g].mirror = s.groups[g].mirror
    /\ Kids(t, g) \subseteq Kids(s, g) /\ \A id \in Kids(s, g) \ Kids(t, g) : IsVirtual(s, id)
    /\ \A id \in DOMAIN t.screens : id \in DOMAIN s.screens /\ t.screens[id].rs = s.screens[id].rs
Calm(s, t, g) == DOMAIN t.screens = DOMAIN s.screens => Steady(s, t, g)

LEMMA ConnectedShow ==
  ASSUME RsOK, BaseRs, NEW s, Good(s), Based(s), Sound(s), NEW g, Show(s, g, {}), NEW r \in Real,
         NEW t, t = ProcessScreenConnected(s, r)
  PROVE  Based(t) /\ Show(t, g, {}) /\ Calm(s, t, g)
<1>1. CASE HasRsScreenId(s, r)
  <2>1. t = s
    BY <1>1 DEF ProcessScreenConnected
  <2> QED BY <2>1 DEF Calm, Steady
<1>2. CASE ~HasRsScreenId(s, r) /\ r \notin rs.real
  <2>1. PICK c : c = CreateScreenId(s, r)
    OBVIOUS
  <2>2. t = DeleteScreenId(c, s.count)
    BY <1>2, <2>1 DEF ProcessScreenConnected, InitAndGetScreen
  <2>3. r \in RsIds /\ r \notin DOMAIN s.rs2dms
    BY <1>2 DEF RsIds, HasRsScreenId
  <2>4. Good(c) /\ s.count \notin DOMAIN c.screens
    BY <2>1, <2>3, CreateOK, GoodFields
  <2>5. Watched(s, c) /\ c.screens = s.screens
    <3>1. /\ c.groups = s.groups /\ c.screens = s.screens /\ c.displays = s.displays /\ c.nextDisplay = s.nextDisplay
          /\ c.defaultRs = s.defaultRs /\ c.fault = s.fault /\ DOMAIN c.rs2dms = DOMAIN s.rs2dms \cup {r}
          /\ \A x \in DOMAIN s.rs2dms \ {r} : c.rs2dms[x] = s.rs2dms[x]
      BY <2>1, <2>3, IdShape
    <3> QED BY <2>3, <3>1 DEF Watched, Seen, Live, Kids, Based, Met, Home, HasRsScreenId
  <2>6. Based(c)
    BY <2>5 DEF Watched
  <2>7. Watched(c, t) /\ t.screens = c.screens
    BY <2>2, <2>4, <2>6, DeleteWatched
  <2>8. Sound(c) /\ Show(c, g, {}) /\ Kids(c, g) = Kids(s, g) /\ c.groups[g] = s.groups[g] /\ Home(c) = Home(s)
    <3>1. Sound(c)
      <4>1. c.groups = s.groups
        BY <2>1, <2>3, IdShape
      <4>2. Alike(s, c)
        BY <2>5, <4>1, AlikeSame
      <4> QED BY <4>2, AlikeSound
    <3> QED BY <2>5, <3>1, WatchedShow
  <2>9. Based(t) /\ Show(t, g, {}) /\ Kids(t, g) = Kids(c, g) /\ t.groups[g] = c.groups[g] /\ Home(t) = Home(c)
    BY <2>6, <2>7, <2>8, WatchedShow
  <2> QED BY <2>5, <2>7, <2>8, <2>9 DEF Calm, Steady
<1>3. CASE ~HasRsScreenId(s, r) /\ r \in rs.real
  <2>1. PICK id, n : id = s.count /\ n = InitAndGetScreen(s, r)
    OBVIOUS
  <2>2. r \in RsIds /\ r \notin DOMAIN s.rs2dms
    BY <1>3 DEF RsIds, HasRsScreenId
  <2>3. n = InsertScreen(CreateScreenId(s, r), s.count, r)
    BY <1>3, <2>1 DEF InitAndGetScreen
  <2>4. /\ Watched(s, n) /\ Good(n) /\ id \in Nat /\ id \notin DOMAIN s.screens /\ n.groups = s.groups
        /\ DOMAIN n.screens = DOMAIN s.screens \cup {id}
    BY <2>1, <2>2, <2>3, NewWatched, NewScreen
  <2>5. Sound(n) /\ Based(n)
    <3>1. Grows(s, n)
      BY <2>1, <2>2, InitAndGetOK
    <3> QED BY <2>4, <3>1 DEF Grows, Watched
  <2>6. Show(n, g, {}) /\ Kids(n, g) = Kids(s, g) /\ n.groups[g] = s.groups[g] /\ Home(n) = Home(s)
    BY <2>4, WatchedShow
  <2>7. PICK u : u = WithDefault(n)
    OBVIOUS
  <2>8. Watched(n, u) /\ Good(u) /\ u.screens = n.screens /\ u.groups = n.groups /\ Twin(n, u) /\ DefaultScreen(n) = Home(n)
    BY <2>4, <2>5, <2>7, DefaultWatched, Asked
  <2>9. Sound(u) /\ Show(u, g, {}) /\ Based(u) /\ Kids(u, g) = Kids(n, g) /\ u.groups[g] = n.groups[g] /\ Home(u) = Home(n)
    <3>1. Sound(u)
      <4>1. Alike(n, u)
        BY <2>8, AlikeSame
      <4> QED BY <2>5, <4>1, AlikeSound
    <3> QED BY <2>5, <2>6, <2>8, <3>1, WatchedShow
  <2>10. Home(u) \in Kids(u, g) /\ GroupOf(u, Home(u)) = g /\ g # NoScreen /\ g \in Live(u) /\ g \in DOMAIN u.groups
    BY <2>8, <2>9, HomeGroup
  <2>11. Live(n) # {} /\ Home(n) = Home(u)
    BY <2>8, <2>9, <2>10 DEF Live
  <2>12. JoinedGroup(n) = g
    BY <2>7, <2>8, <2>10, <2>11 DEF JoinedGroup
  <2>13. AddToGroup(n, id) = AddChild(u, g, id)
    BY <2>7, <2>8, <2>10, <2>11 DEF AddToGroup
  <2>14. t = OnScreenConnect(AddChild(u, g, id), id)
    BY <1>3, <2>1, <2>10, <2>12, <2>13 DEF ProcessScreenConnected
  <2>15. u.groups[g].mirror # id /\ Home(u) # id /\ id \in DOMAIN u.screens
    <3>1. g \in DOMAIN s.groups
      BY <2>4, <2>8, <2>10
    <3>2. s.groups[g].mirror < s.count /\ s.groups[g].mirror \in Int
      BY <3>1, GoodFields DEF Good, Sourced, Source, Groups
    <3>3. Home(u) \in DOMAIN s.screens
      BY <2>6, <2>9 DEF Based
    <3> QED BY <2>1, <2>4, <2>8, <3>2, <3>3
  <2>16. Joins(u, g, id, t) /\ Show(t, g, {} \ {id})
    BY <2>8, <2>9, <2>10, <2>14, <2>15, JoinShow
  <2>17. DOMAIN t.screens # DOMAIN s.screens
    BY <2>4, <2>8, <2>16 DEF Joins
  <2> QED BY <2>16, <2>17 DEF Joins, Calm
<1> QED BY <1>1, <1>2, <1>3

-----------------------------------------------------------------------------
(* The service has not heard of the default screen yet: nothing is there.  *)
Empty(s) == /\ ~Met(s) /\ DOMAIN s.screens = {} /\ DOMAIN s.groups = {} /\ DOMAIN s.displays = {}
            /\ s.defaultRs \in {NoRs, rs.default}

(* The default screen alone in its group, without a display.               *)
Alone(s, g, id) ==
    /\ Based(s) /\ Good(s) /\ Home(s) = id /\ Live(s) = {g} /\ Kids(s, g) = {id} /\ g # NoScreen
    /\ s.screens[id].group = g /\ DOMAIN s.displays = {}

LEMMA FirstShape ==
  ASSUME NEW s, Good(s), NEW id \in DOMAIN s.screens, Live(s) = {}, NEW t, t = AddAsFirstScreen(s, id)
  PROVE  /\ t.displays = s.displays /\ t.nextDisplay = s.nextDisplay /\ t.rs2dms = s.rs2dms
         /\ Live(t) = {s.count} /\ Kids(t, s.count) = {id} /\ t.screens[id].group = s.count
         /\ t.groups[s.count].mode = "MIRROR"
<1>1. PICK made : made = CreateScreenId(s, NoRs)
  OBVIOUS
<1>2. PICK group : group = [mode |-> "MIRROR", mirror |-> id, kids |-> {}, mapped |-> TRUE]
  OBVIOUS
<1>3. PICK grown : grown = [made EXCEPT !.groups = Put(@, s.count, group)]
  OBVIOUS
<1>4. s \in States /\ id \in Nat /\ s.count \in Nat /\ s.groups \in Maps(Nat, Groups) /\ s.screens \in Maps(Nat, Screens)
  BY GoodFields
<1>5. /\ made.displays = s.displays /\ made.nextDisplay = s.nextDisplay /\ made.rs2dms = s.rs2dms
      /\ made.groups = s.groups /\ made.screens = s.screens /\ made.count = s.count + 1
      /\ made = [s EXCEPT !.count = made.count, !.dms2rs = made.dms2rs, !.rs2dms = made.rs2dms]
  BY <1>1, <1>4 DEF CreateScreenId, States
<1>6. /\ grown.displays = s.displays /\ grown.nextDisplay = s.nextDisplay /\ grown.rs2dms = s.rs2dms
      /\ grown.groups = Put(s.groups, s.count, group) /\ grown.screens = s.screens
  BY <1>3, <1>4, <1>5 DEF States
<1>7. t = AttachChild(grown, s.count, id, OwnNode)
  BY <1>1, <1>2, <1>3 DEF AddAsFirstScreen
<1>8. s.count \in DOMAIN grown.groups /\ grown.groups[s.count] = group /\ s.screens \in [DOMAIN s.screens -> Screens]
  BY <1>4, <1>6, MapsDef DEF Put
<1>9. /\ t.groups = [grown.groups EXCEPT ![s.count].kids = @ \cup {id}]
      /\ t.screens = [s.screens EXCEPT ![id].group = s.count, ![id].node = OwnNode]
      /\ t.displays = s.displays /\ t.nextDisplay = s.nextDisplay /\ t.rs2dms = s.rs2dms
  <2>1. grown = [s EXCEPT !.count = made.count, !.dms2rs = made.dms2rs, !.rs2dms = made.rs2dms, !.groups = grown.groups]
    BY <1>3, <1>4, <1>5 DEF States
  <2> QED BY <1>4, <1>6, <1>7, <2>1 DEF AttachChild, States
<1>10. t.groups[s.count] = [group EXCEPT !.kids = @ \cup {id}] /\ DOMAIN t.groups = DOMAIN s.groups \cup {s.count}
       /\ \A g \in DOMAIN s.groups \ {s.count} : t.groups[g] = s.groups[g]
  BY <1>6, <1>8, <1>9 DEF Put
<1>11. t.groups[s.count].mapped /\ t.groups[s.count].kids = {id} /\ t.groups[s.count].mode = "MIRROR"
  BY <1>2, <1>10
<1>12. Live(t) = {s.count}
  BY <1>10, <1>11 DEF Live
<1>13. t.screens[id].group = s.count
  BY <1>8, <1>9 DEF Screens
<1> QED BY <1>9, <1>11, <1>12, <1>13 DEF Kids

LEMMA FirstAlone ==
  ASSUME RsOK, BaseRs, NEW s, Good(s), Empty(s),
         NEW n, n = InitAndGetScreen(s, rs.default), NEW t, t = AddAsFirstScreen(n, s.count)
  PROVE  Alone(t, n.count, s.count) /\ Live(n) = {} /\ n.count # NoScreen
<1>1. rs.default \in RsIds /\ rs.default \in Real /\ rs.default \in rs.real /\ rs.default \notin DOMAIN s.rs2dms
  BY DEF BaseRs, BuiltIn, RsIds, Empty, Met, HasRsScreenId
<1>2. n = InsertScreen(CreateScreenId(s, rs.default), s.count, rs.default)
  BY <1>1 DEF InitAndGetScreen
<1>3. /\ Good(n) /\ s.count \in Nat /\ n.groups = s.groups /\ n.displays = s.displays /\ n.defaultRs = s.defaultRs
      /\ rs.default \in DOMAIN n.rs2dms /\ n.rs2dms[rs.default] = s.count
      /\ DOMAIN n.screens = {s.count} /\ n.screens[s.count].rs = rs.default
  BY <1>1, <1>2, NewScreen DEF Empty
<1>4. Live(n) = {}
  BY <1>3 DEF Live, Empty
<1>5. /\ t.displays = n.displays /\ t.rs2dms = n.rs2dms
      /\ Live(t) = {n.count} /\ Kids(t, n.count) = {s.count} /\ t.screens[s.count].group = n.count
  BY <1>3, <1>4, FirstShape
<1>6. Good(t) /\ DOMAIN t.screens = DOMAIN n.screens /\ t.defaultRs = n.defaultRs
  <2>1. Source(n, s.count)
    BY <1>1, <1>3, RsIdAssumption, GoodFields DEF Good, Paired, Source
  <2> QED BY <1>3, <2>1, FirstOK DEF Keeps
<1>7. n.count # NoScreen
  BY <1>3, GoodFields DEF NoScreen
<1>8. Based(t) /\ Home(t) = s.count
  BY <1>3, <1>5, <1>6 DEF Based, Met, HasRsScreenId, Home, Empty
<1> QED BY <1>3, <1>4, <1>5, <1>6, <1>7, <1>8 DEF Alone, Empty

LEMMA AloneTwin == ASSUME NEW s, NEW g, NEW id, Alone(s, g, id), NEW t, Twin(s, t) PROVE Alone(t, g, id)
BY DEF Alone, Twin, Home, Live, Kids

LEMMA AloneShow ==
  ASSUME RsOK, BaseRs, NEW s, NEW g, NEW id, Alone(s, g, id), NEW t, t = CreateDisplay(s, id)
  PROVE  Based(t) /\ Good(t) /\ Show(t, g, {})
<1>1. Good(s) /\ id \in DOMAIN s.screens /\ ~IsVirtual(s, id) /\ s.nextDisplay \in Nat
  BY HomeOK, GoodFields DEF Alone
<1>2. /\ t.groups = s.groups /\ t.screens = s.screens /\ t.rs2dms = s.rs2dms /\ t.defaultRs = s.defaultRs
      /\ t.nextDisplay = s.nextDisplay + 1
      /\ DOMAIN t.displays = DOMAIN s.displays \cup {s.nextDisplay}
      /\ t.displays[s.nextDisplay].screen = id /\ t.displays[s.nextDisplay].group = s.screens[id].group
  BY <1>1, CreateShape
<1>3. Good(t)
  BY <1>1, CreateDisplayOK DEF Grows, Keeps
<1>4. Live(t) = {g} /\ Kids(t, g) = {id} /\ Home(t) = id /\ Based(t) /\ ~IsVirtual(t, id)
  BY <1>1, <1>2 DEF Alone, Live, Kids, Based, Met, Home, HasRsScreenId, IsVirtual
<1>5. DOMAIN t.displays = {s.nextDisplay} /\ t.displays[s.nextDisplay].screen = id /\ t.displays[s.nextDisplay].group = g
      /\ s.nextDisplay < t.nextDisplay
  BY <1>1, <1>2 DEF Alone
<1>6. Has(t, id)
  BY <1>5 DEF Has
<1> QED BY <1>3, <1>4, <1>5, <1>6 DEF Show

LEMMA FirstConnected ==
  ASSUME RsOK, BaseRs, NEW s, Good(s), Empty(s), NEW t, t = ProcessScreenConnected(s, rs.default)
  PROVE  Based(t) /\ \E g : Show(t, g, {})
<1>1. PICK id, n, u : id = s.count /\ n = InitAndGetScreen(s, rs.default) /\ u = AddAsFirstScreen(n, id)
  OBVIOUS
<1>2. Alone(u, n.count, id) /\ Live(n) = {} /\ n.count # NoScreen
  BY <1>1, FirstAlone
<1>3. t = OnScreenConnect(u, id)
  <2>1. JoinedGroup(n) # NoScreen /\ AddToGroup(n, id) = u
    BY <1>1, <1>2 DEF JoinedGroup, AddToGroup
  <2>2. ~HasRsScreenId(s, rs.default) /\ rs.default \in rs.real
    BY DEF Empty, Met, BaseRs
  <2> QED BY <1>1, <2>1, <2>2 DEF ProcessScreenConnected
<1>4. Based(u) /\ Good(u) /\ Home(u) = id
  BY <1>2 DEF Alone
<1>5. PICK w : w = WithDefault(u)
  OBVIOUS
<1>6. DefaultScreen(u) = id /\ Twin(u, w)
  BY <1>4, <1>5, Asked
<1>7. GroupOf(u, id) = n.count /\ u.groups[n.count].kids = {id}
  BY <1>2, <1>4 DEF Alone, GroupOf, Based, Kids
<1>8. t = CreateDisplay(w, id)
  BY <1>2, <1>3, <1>5, <1>6, <1>7 DEF OnScreenConnect, BindAloneScreen
<1>9. Alone(w, n.count, id)
  BY <1>2, <1>6, AloneTwin
<1> QED BY <1>8, <1>9, AloneShow

LEMMA FirstAsked ==
  ASSUME RsOK, BaseRs, NEW s, Good(s), Empty(s), NEW t, t = WithDefault(s)
  PROVE  Based(t) /\ Good(t) /\ \E g : Show(t, g, {})
<1>1. PICK a : a = AskDefault(s)
  OBVIOUS
<1>2. s \in States /\ rs.default # NoRs
  BY GoodFields, RsIdAssumption DEF BaseRs, BuiltIn
<1>3. a.defaultRs = rs.default /\ a.screens = s.screens /\ a.groups = s.groups /\ a.displays = s.displays /\ a.rs2dms = s.rs2dms
  BY <1>1, <1>2 DEF AskDefault, States, Empty
<1>4. Good(a)
  BY <1>1, AskDefaultOK DEF Grows, Keeps
<1>5. Empty(a)
  BY <1>3 DEF Empty, Met, HasRsScreenId
<1>6. PICK n, u : n = InitAndGetScreen(a, rs.default) /\ u = AddAsFirstScreen(n, a.count)
  OBVIOUS
<1>7. t = CreateDisplay(u, a.count)
  <2>1. t = ConnectDefault(a)
    BY <1>1, <1>2, <1>3, <1>5 DEF WithDefault, Empty, Met
  <2>2. Live(a) = {} /\ rs.default \in rs.real
    BY <1>5 DEF Empty, Live, BaseRs
  <2> QED BY <1>3, <1>6, <2>1, <2>2 DEF ConnectDefault
<1>8. Alone(u, n.count, a.count)
  BY <1>4, <1>5, <1>6, FirstAlone
<1> QED BY <1>7, <1>8, AloneShow

(* Nothing is dereferenced in vain while Home is in the group.             *)
LEMMA LeaveSafe ==
  ASSUME RsOK, BaseRs, NEW s, Good(s), Based(s), Sound(s), NEW g, Show(s, g, {}), ~s.fault,
         NEW id, NEW t, t = LeaveGroup(s, id)
  PROVE  ~t.fault
<1>1. Home(s) \in Kids(s, g) /\ GroupOf(s, Home(s)) = g /\ g # NoScreen /\ g \in Live(s)
  BY HomeGroup
<1>2. PICK u : u = WithDefault(s)
  OBVIOUS
<1>3. DefaultScreen(s) = Home(s) /\ Twin(s, u) /\ Home(s) \in DOMAIN s.screens
  BY <1>2, Asked DEF Based
<1>4. u \in States /\ s \in States /\ ~u.fault
  BY <1>3, GoodFields DEF Twin
<1>5. GroupOf(u, Home(s)) = g
  BY <1>1, <1>3 DEF Twin, GroupOf, Live
<1>6. ~NormalDisconnect(s, id).fault
  BY <1>1, <1>2, <1>3, <1>4, <1>5 DEF NormalDisconnect, States
<1>7. ~ExpandDisconnect(s, id).fault
  <2>1. ASSUME NEW d \in DOMAIN s.displays PROVE GetRSDisplayNode(s, s.displays[d].screen) # NoNode
    <3>1. s.displays[d].screen \in Kids(s, g)
      BY <1>1 DEF Show
    <3> QED BY <1>1, <3>1 DEF GetRSDisplayNode, Sound, Peopled, Housed
  <2> QED BY <1>2, <1>4, <2>1 DEF ExpandDisconnect, States
<1>8. PICK v : v = IF CheckScreenInScreenGroup(s, id) THEN OnScreenDisconnect(s, id) ELSE s
  OBVIOUS
<1>9. ~v.fault /\ Good(v)
  <2>1. v = s \/ v = NormalDisconnect(s, id) \/ v = ExpandDisconnect(s, id)
    BY <1>8 DEF OnScreenDisconnect
  <2> QED BY <1>6, <1>7, <2>1, NormalDisconnectOK, ExpandDisconnectOK DEF Grows, Keeps
<1>10. t = RemoveFromGroup(v, id)
  BY <1>8 DEF LeaveGroup
<1> QED BY <1>9, <1>10, GoodFields DEF RemoveFromGroup, RemoveChildFromGroup, States

-----------------------------------------------------------------------------
(* A call that has found its group knows which screens leave it: the       *)
(* source of a mirrored group stays in it, and so does the default screen  *)
(* in an expanded one.  Screens that are filtered out show already what    *)
(* the others are going to, and every physical screen of a mirrored group  *)
(* that becomes an expanded one leaves it first.                           *)
Aimed(s, g, c, J) ==
    /\ c.mode = "MIRROR" => s.groups[g].mirror \in Kids(s, g) \ (c.list \cup J)
    /\ c.mode = "EXPAND" => Home(s) \notin c.list \cup J
Leaving(s, g, c) ==
    /\ c.filter => s.groups[g].mode = c.mode
    /\ c.mode = "EXPAND" /\ s.groups[g].mode = "MIRROR" =>
         \A id \in Kids(s, g) : IsVirtual(s, id) \/ id = Home(s) \/ id \in c.list
Changes(w) == w.step \in {"leave", "join"}
Joined(w)  == IF Changes(w) THEN w.join ELSE {}
AimsWork(s, g, w) ==
    /\ Changes(w) => Aimed(s, g, w, w.join)
    /\ w.step = "leave" => Leaving(s, g, w)
    /\ w.step = "join" => s.groups[g].mode = w.mode
AimsCall(s, g, c) ==
    /\ c.step = "change" => Aimed(s, g, c, {}) /\ Leaving(s, g, c)
    /\ c.step = "expand" => /\ Home(s) \notin c.list
                            /\ \A id \in DOMAIN s.screens : IsVirtual(s, id) \/ id = Home(s) \/ id \in c.list

LEMMA SetMirror ==
  ASSUME RsOK, BaseRs, NEW s, Good(s), Based(s), NEW g, NEW J, Show(s, g, J), NEW m \in Int,
         NEW t, t = [s EXCEPT !.groups[g].mirror = m]
  PROVE  /\ Based(t) /\ Show(t, g, J) /\ t.fault = s.fault /\ Home(t) = Home(s) /\ t.screens = s.screens
         /\ Kids(t, g) = Kids(s, g) /\ t.groups[g].mode = s.groups[g].mode /\ t.groups[g].mirror = m
<1>1. g \in DOMAIN s.groups /\ g \in Live(s)
  BY DEF Show, Live
<1>2. /\ t.displays = s.displays /\ t.nextDisplay = s.nextDisplay /\ t.rs2dms = s.rs2dms /\ t.defaultRs = s.defaultRs
      /\ t.screens = s.screens /\ t.fault = s.fault /\ Live(t) = Live(s) /\ Kids(t, g) = Kids(s, g)
      /\ t.groups[g].mode = s.groups[g].mode /\ t.groups[g].mirror = m
  BY <1>1, MirrorShape
<1>3. Based(t) /\ Home(t) = Home(s)
  BY <1>2 DEF Based, Met, Home, HasRsScreenId
<1>4. Show(t, g, J)
  BY <1>2, <1>3 DEF Show, Has, IsVirtual
<1> QED BY <1>2, <1>3, <1>4

(* The screen id, not the default one, leaves the group and is erased.     *)
LEMMA GoneShow ==
  ASSUME RsOK, BaseRs, NEW s, Good(s), Based(s), Sound(s), NEW g, Show(s, g, {}), ~s.fault,
         NEW id \in DOMAIN s.screens, id # Home(s), NEW gone, gone = LeaveGroup(s, id), NEW left, left = EraseScreen(gone, id)
  PROVE  /\ Based(left) /\ Good(left) /\ Sound(left) /\ Show(left, g, {}) /\ Home(left) = Home(s)
         /\ id \notin DOMAIN left.screens
<1>1. id \in Nat
  BY GoodFields
<1>2. Shrinks(s, gone, id) /\ Good(gone) /\ Sound(gone) /\ gone.screens[id].group = NoScreen
  <2>1. Shrinks(s, gone, id)
    BY LeaveOK
  <2> QED BY <2>1 DEF Shrinks, Keeps
<1>3. Home(s) \in Kids(s, g)
  BY HomeGroup
<1>4. Leaves(s, g, id, gone) /\ Show(gone, g, {} \cup {id})
  BY <1>3, LeaveSafe, LeaveShow
<1>5. Show(gone, g, {}) /\ Based(gone) /\ Home(gone) = Home(s) /\ Kids(gone, g) = Kids(s, g) \ {id}
  BY <1>4, ShowJoin DEF Leaves
<1>6. \A h \in Live(gone) : id \notin Kids(gone, h)
  BY <1>5 DEF Show
<1>7. Watched(gone, left)
  BY <1>1, <1>2, <1>5, <1>6, EraseWatched
<1>8. Good(left) /\ Sound(left) /\ id \notin DOMAIN left.screens
  BY <1>1, <1>2, EraseOK, EraseSound
<1> QED BY <1>2, <1>5, <1>7, <1>8, WatchedShow

LEMMA CutShow ==
  ASSUME RsOK, BaseRs, NEW s, Good(s), Based(s), Sound(s), NEW g, Show(s, g, {}), NEW id, id \notin DOMAIN s.screens, NEW ids,
         NEW t, t = Collect(DeleteScreenId(s, id), ids)
  PROVE  Show(t, g, {}) /\ Based(t) /\ t.screens = s.screens
<1>1. PICK cut : cut = DeleteScreenId(s, id)
  OBVIOUS
<1>2. Good(cut) /\ Sound(cut)
  <2>1. Good(cut) /\ cut.groups = s.groups /\ cut.screens = s.screens
    BY <1>1, DeleteOK
  <2> QED BY <2>1, AlikeSame, AlikeSound
<1>3. Watched(s, cut) /\ cut.screens = s.screens
  BY <1>1, DeleteWatched
<1>4. Show(cut, g, {}) /\ Based(cut)
  BY <1>3, WatchedShow
<1>5. Watched(cut, t) /\ t.screens = cut.screens
  BY <1>1, <1>2, <1>4, CollectWatched
<1> QED BY <1>2, <1>3, <1>4, <1>5, WatchedShow

LEMMA DisconnectedShow ==
  ASSUME RsOK, BaseRs, NEW s, Good(s), Based(s), Sound(s), NEW g, Show(s, g, {}), Loose(s) = {},
         NEW r \in RsIds, r # rs.default, work = Idle, ProcessScreenDisconnected(s, r), ~s.fault,
         NEW t, t = dms', NEW w, w = work'
  PROVE  Based(t) /\ Show(t, g, Joined(w)) /\ AimsWork(t, g, w) /\ (DOMAIN t.screens = DOMAIN s.screens => t = s)
<1>0. ~Changes(Idle) /\ Joined(Idle) = {} /\ \A x : AimsWork(x, g, Idle)
  BY DEF Idle, Changes, Joined, AimsWork
<1>1. CASE ~HasRsScreenId(s, r)
  <2>1. t = s /\ w = Idle
    BY <1>1 DEF ProcessScreenDisconnected
  <2> QED BY <1>0, <2>1
<1>2. CASE HasRsScreenId(s, r)
  <2>1. PICK id : id = s.rs2dms[r]
    OBVIOUS
  <2>2. id \in DOMAIN s.dms2rs /\ s.dms2rs[id] = r /\ r # NoRs /\ id # Home(s)
    <3>1. id \in DOMAIN s.dms2rs /\ s.dms2rs[id] = r /\ r # NoRs
      BY <1>2, <2>1, RsIdAssumption DEF Good, Paired, HasRsScreenId, RsIds
    <3>2. s.dms2rs[Home(s)] = rs.default
      BY DEF Good, Paired, Based, Met, Home, HasRsScreenId
    <3> QED BY <3>1, <3>2
  <2>3. id \in DOMAIN s.screens /\ id \in Nat
    BY <2>2, GoodFields DEF Loose
  <2>4. PICK gone, left : gone = LeaveGroup(s, id) /\ left = EraseScreen(gone, id)
    OBVIOUS
  <2>6. Home(s) \in Kids(s, g) /\ g # NoScreen /\ g \in Live(s)
    BY HomeGroup
  <2>7. /\ Based(left) /\ Good(left) /\ Sound(left) /\ Show(left, g, {}) /\ Home(left) = Home(s)
        /\ id \notin DOMAIN left.screens
    BY <2>2, <2>3, <2>4, GoneShow
  <2>10. CASE ~LosesSource(s, id)
    <3>1. t = Collect(DeleteScreenId(left, id), CallGroup(call)) /\ w = Idle
      BY <1>2, <2>1, <2>3, <2>4, <2>10 DEF ProcessScreenDisconnected
    <3>2. Show(t, g, {}) /\ Based(t) /\ t.screens = left.screens
      BY <2>7, <3>1, CutShow
    <3> QED BY <1>0, <1>2, <2>3, <2>7, <3>1, <3>2
  <2>11. CASE LosesSource(s, id)
    <3>1. PICK u, main : u = WithDefault(left) /\ main = DefaultScreen(left)
      OBVIOUS
    <3>2. Watched(left, u) /\ Good(u) /\ u.screens = left.screens /\ u.groups = left.groups /\ main = Home(left)
      BY <2>7, <3>1, DefaultWatched, Asked
    <3>3. Show(u, g, {}) /\ Based(u) /\ Kids(u, g) = Kids(left, g) /\ Home(u) = main
      BY <2>7, <3>2, WatchedShow
    <3>4. Sound(u)
      BY <2>7, <3>2, AlikeSame, AlikeSound
    <3>5. main \in Kids(u, g) /\ GroupOf(u, main) = g /\ g \in DOMAIN u.groups
      BY <3>2, <3>3, <3>4, HomeGroup
    <3>6. IsRealScreen(u, main) /\ main \in Int
      BY <3>2, <3>3, HomeOK DEF IsRealScreen
    <3>7. GroupOf(s, id) = g
      BY <2>6, <2>11 DEF LosesSource, CheckScreenInScreenGroup, GroupOf, Sound, OneGroup
    <3>8. FindMirrorGroup(u, main) = [u EXCEPT !.groups[g].mirror = main]
      BY <2>6, <3>5 DEF FindMirrorGroup
    <3>9. PICK filter : filter = IsMirrorOf(u, main)
      OBVIOUS
    <3>10. t = FindMirrorGroup(u, main) /\ w = ChangeFrame(g, Kids(u, g) \ {main}, filter, "MIRROR", id)
      BY <1>2, <2>1, <2>3, <2>4, <2>6, <2>11, <3>1, <3>5, <3>6, <3>7, <3>9 DEF ProcessScreenDisconnected, Kids
    <3>11. /\ Based(t) /\ Show(t, g, {}) /\ Kids(t, g) = Kids(u, g) /\ t.screens = u.screens
           /\ t.groups[g].mode = u.groups[g].mode /\ t.groups[g].mirror = main
      BY <3>2, <3>3, <3>6, <3>8, <3>10, SetMirror
    <3>12. /\ w.step = "leave" /\ w.list = Kids(u, g) \ {main} /\ w.join = {} /\ w.mode = "MIRROR"
           /\ (w.filter <=> filter)
      BY <3>10 DEF ChangeFrame
    <3>13. filter => u.groups[g].mode = "MIRROR"
      BY <3>5, <3>9 DEF IsMirrorOf
    <3>14. AimsWork(t, g, w) /\ Joined(w) = {}
      BY <3>5, <3>11, <3>12, <3>13 DEF AimsWork, Aimed, Leaving, Changes, Joined
    <3> QED BY <2>3, <2>7, <3>2, <3>11, <3>14
  <2> QED BY <2>10, <2>11
<1> QED BY <1>1, <1>2

(* Only the tasks and the owners change.                                   *)
Quiet(s, t) ==
    /\ t.groups = s.groups /\ t.screens = s.screens /\ t.displays = s.displays /\ t.nextDisplay = s.nextDisplay
    /\ t.rs2dms = s.rs2dms /\ t.defaultRs = s.defaultRs /\ t.fault = s.fault

LEMMA QuietShow ==
  ASSUME NEW s, NEW t, Quiet(s, t)
  PROVE  /\ (Based(s) => Based(t)) /\ Home(t) = Home(s) /\ (Empty(s) => Empty(t)) /\ (Sound(s) => Sound(t))
         /\ \A g, J : Show(s, g, J) => Show(t, g, J) /\ Kids(t, g) = Kids(s, g) /\ t.groups[g] = s.groups[g]
         /\ \A g : Steady(s, t, g)
BY DEF Quiet, Based, Met, Home, HasRsScreenId, Empty, Sound, Peopled, Housed, OneGroup, Live, Kids, Show, Has, IsVirtual, Steady

LEMMA InsertWatched ==
  ASSUME RsOK, NEW s, Good(s), Based(s), Sound(s), NEW id \in Nat, id \notin DOMAIN s.screens, NEW r \in RsIds,
         NEW t, t = InsertScreen(s, id, r)
  PROVE  Watched(s, t)
<1>1. /\ t.groups = s.groups /\ t.displays = s.displays /\ t.nextDisplay = s.nextDisplay
      /\ t.defaultRs = s.defaultRs /\ t.fault = s.fault /\ t.rs2dms = s.rs2dms
  BY InsertShape
<1>2. DOMAIN t.screens = DOMAIN s.screens \cup {id} /\ \A x \in DOMAIN s.screens : t.screens[x] = s.screens[x]
  <2>1. t.screens = Put(s.screens, id, [rs |-> r, group |-> NoScreen, node |-> NoNode])
    BY GoodFields DEF InsertScreen, PostTask, States
  <2> QED BY <2>1 DEF Put
<1> QED BY <1>1, <1>2 DEF Watched, Seen, Live, Kids, Based, Met, Home, HasRsScreenId

LEMMA AimsKept ==
  ASSUME NEW s, NEW t, NEW g, Good(s), Sound(s), Sound(t), Live(s) = {g}, Live(t) = {g}, Steady(s, t, g)
  PROVE  /\ \A c : AimsCall(s, g, c) => AimsCall(t, g, c)
         /\ \A w : AimsWork(s, g, w) => AimsWork(t, g, w)
<1>1. /\ \A id \in Kids(t, g) : id \in DOMAIN t.screens
      /\ \A id \in Kids(s, g) : id \in DOMAIN s.screens
      /\ g \in DOMAIN s.groups
  BY DEF Sound, Peopled, Live
<1>2. \A id \in DOMAIN t.screens : IsVirtual(t, id) <=> IsVirtual(s, id)
  BY DEF Steady, IsVirtual
<1>3. s.groups[g].mirror \in Kids(s, g) => s.groups[g].mirror \in Kids(t, g)
  <2>1. s.groups[g].mirror \in DOMAIN s.screens => ~IsVirtual(s, s.groups[g].mirror)
    BY <1>1 DEF Good, Sourced, Source, Paired, IsVirtual
  <2> QED BY <1>1, <2>1 DEF Steady
<1>4. \A c, J : Aimed(s, g, c, J) => Aimed(t, g, c, J)
  BY <1>3 DEF Aimed, Steady
<1>5. \A c : Leaving(s, g, c) => Leaving(t, g, c)
  BY <1>1, <1>2 DEF Leaving, Steady
<1> QED BY <1>2, <1>4, <1>5 DEF AimsCall, AimsWork, Steady

-----------------------------------------------------------------------------
(* The invariant: before the service has heard of the default screen it    *)
(* has nothing to show, and its connection is the next thing it handles;   *)
(* from then on the displays are where Show says, and the work and the     *)
(* call know which screens they may move.                                  *)
FirstTask == [op |-> "connected", of |-> rs.default]
Lone(s, w, c) ==
    /\ Empty(s) /\ w = Idle /\ c = Idle
    /\ IF s.tasks = <<>> THEN rs.events # <<>> /\ Head(rs.events) = FirstTask ELSE Head(s.tasks) = FirstTask
Shown(s, w, c) ==
    Based(s) /\ \E g : Show(s, g, Joined(w)) /\ AimsWork(s, g, w) /\ AimsCall(s, g, c)
ShowInv ==
    /\ BaseRs
    /\ ~torn /\ ~dms.fault => (Lone(dms, work, call) /\ known = {}) \/ Shown(dms, work, call)

LEMMA ShownNext ==
  ASSUME rs'.default = rs.default, NEW t, t = dms', NEW w, w = work', NEW c, c = call', Shown(t, w, c)
  PROVE  Shown(dms, work, call)'
BY DEF Shown, Show, Based, Met, Home, HasRsScreenId, Has, IsVirtual, AimsWork, AimsCall, Aimed, Leaving

LEMMA ShowNext ==
  ASSUME BaseRs, UNCHANGED rs, NEW t, t = dms', NEW w, w = work', NEW c, c = call',
         ~torn' /\ ~t.fault => Shown(t, w, c)
  PROVE  ShowInv'
<1>1. BaseRs'
  BY DEF BaseRs
<1>2. ASSUME ~torn', ~t.fault PROVE Shown(dms, work, call)'
  BY <1>2, ShownNext
<1> QED BY <1>1, <1>2 DEF ShowInv

(* What holds in a state in which nothing was torn. *)
LEMMA ShowHere ==
  ASSUME DsInv, GrpInv, ShowInv, ~torn, ~dms.fault
  PROVE  /\ RsOK /\ BaseRs /\ Good(dms) /\ Sound(dms) /\ Framed(dms, work, call) /\ Called(dms, call)
         /\ (Lone(dms, work, call) /\ known = {}) \/ Shown(dms, work, call)
BY InvGood DEF GrpInv, ShowInv

LEMMA IdleAims == ~Changes(Idle) /\ Joined(Idle) = {} /\ \A s, g : AimsWork(s, g, Idle) /\ AimsCall(s, g, Idle)
BY DEF Idle, Changes, Joined, AimsWork, AimsCall

(* A step outside of the calls, of a group that is not being changed.      *)
LEMMA ShowStep ==
  ASSUME DsInv, GrpInv, ShowInv, GrpInv', Remember, UNCHANGED <<rs, call>>, ~dms.fault, ~torn, ~dms'.fault, ~torn',
         NEW g, Show(dms, g, {}), AimsCall(dms, g, call),
         NEW t, t = dms', NEW w, w = work', Based(t), Show(t, g, Joined(w)), AimsWork(t, g, w), Calm(dms, t, g)
  PROVE  ShowInv'
<1>1. Good(dms) /\ Sound(dms) /\ BaseRs /\ Sound(t) /\ Live(dms) = {g} /\ Live(t) = {g}
  <2>1. Sound(t)
    BY DEF GrpInv
  <2> QED BY <2>1, ShowHere DEF Show
<1>2. AimsCall(t, g, call)
  <2>1. CASE call = Idle
    BY <2>1, IdleAims
  <2>2. CASE call # Idle
    <3>1. Steady(dms, t, g)
      BY <2>2 DEF Remember, Calm
    <3> QED BY <1>1, <3>1, AimsKept
  <2> QED BY <2>1, <2>2
<1>3. Shown(t, w, call)
  BY <1>2 DEF Shown
<1> QED BY <1>1, <1>3, ShowNext

LEMMA IdleShown ==
  ASSUME Shown(dms, work, call), work = Idle \/ work.step \notin {"leave", "join"}
  PROVE  Based(dms) /\ \E g : Show(dms, g, {}) /\ AimsCall(dms, g, call)
<1>1. Joined(work) = {}
  BY IdleAims DEF Joined, Changes
<1> QED BY <1>1 DEF Shown

(* The render service, and its events.                                     *)
LEMMA RsShow == ASSUME DsInv, ShowInv, NEW r \in Real, Plug(r) \/ Unplug(r) PROVE ShowInv'
<1>1. /\ UNCHANGED <<dms, work, call, known, torn>> /\ rs.events \in Seq(Events) /\ RsOK
      /\ rs \in [real : SUBSET Real, default : Real \cup {NoRs}, events : Seq(Events), plugs : Nat]
  BY InvGood DEF Plug, Unplug, RsOK
<1>2. rs.default \in rs.real /\ rs.default \in BuiltIn /\ rs.default # NoRs
  BY RsIdAssumption DEF ShowInv, BaseRs, BuiltIn
<1>3. PICK op : op \in {"connected", "disconnected"} /\ rs'.events = Append(rs.events, RsEvent(op, r)) /\ rs'.default = rs.default
        /\ rs.default \in rs'.real
  <2>1. CASE Plug(r)
    BY <1>1, <1>2, <2>1 DEF Plug
  <2>2. CASE Unplug(r)
    <3>1. r # rs.default
      BY <1>2, <2>2 DEF Unplug, BuiltIn
    <3> QED BY <1>1, <1>2, <2>2, <3>1 DEF Unplug
  <2> QED BY <2>1, <2>2
<1>4. BaseRs'
  BY <1>2, <1>3 DEF BaseRs, BuiltIn
<1>5. rs.events # <<>> => rs'.events # <<>> /\ Head(rs'.events) = Head(rs.events)
  BY <1>1, <1>3
<1>6. Lone(dms, work, call) => Lone(dms, work, call)'
  BY <1>1, <1>3, <1>5 DEF Lone, Empty, FirstTask, Met, HasRsScreenId
<1>7. Shown(dms, work, call) => Shown(dms, work, call)'
  BY <1>1, <1>3 DEF Shown, Show, Based, Met, Home, HasRsScreenId, Has, IsVirtual, AimsWork, AimsCall, Aimed, Leaving
<1> QED BY <1>1, <1>4, <1>6, <1>7 DEF ShowInv

LEMMA EventShow == ASSUME DsInv, GrpInv, ShowInv, OnRsScreenConnectionChange PROVE ShowInv'
<1>1. PICK e : e = Head(rs.events)
  OBVIOUS
<1>2. /\ rs.events # <<>> /\ ~dms.fault /\ dms' = PostTask(ForgetDefault(dms, e), e.op, e.of)
      /\ rs' = [rs EXCEPT !.events = Tail(@)] /\ Remember /\ UNCHANGED <<work, call, known>>
  BY <1>1 DEF OnRsScreenConnectionChange
<1>3. /\ rs.default \in BuiltIn /\ rs.default \in Real /\ rs.default # NoRs /\ rs.events \in Seq(Events)
      /\ rs \in [real : SUBSET Real, default : Real \cup {NoRs}, events : Seq(Events), plugs : Nat]
  BY InvGood, RsIdAssumption DEF ShowInv, BaseRs, BuiltIn, RsOK
<1>4. rs'.default = rs.default /\ rs'.real = rs.real /\ BaseRs'
  BY <1>2, <1>3 DEF ShowInv, BaseRs, BuiltIn
<1>5. e \in Events
  BY <1>1, <1>2, <1>3
<1> SUFFICES ASSUME ~torn', ~dms'.fault PROVE (Lone(dms, work, call)' /\ known' = {}) \/ Shown(dms, work, call)'
  BY <1>4 DEF ShowInv
<1>6. ~torn
  BY <1>2 DEF Remember
<1>7. PICK t : t = dms'
  OBVIOUS
<1>8. dms \in States /\ dms.tasks \in Seq(Tasks) /\ (dms.defaultRs \in {NoRs, rs.default})
  BY <1>2, <1>6, ShowHere, GoodFields DEF Lone, Empty, Shown, Based
<1>9. Quiet(dms, t) /\ t.tasks = Append(dms.tasks, [op |-> e.op, of |-> e.of])
  <2>1. e.op = "disconnected" => e.of # rs.default /\ e.of # NoRs
    BY <1>3, <1>5, RsIdAssumption, ServiceAssumption DEF Events, BuiltIn
  <2>2. ForgetDefault(dms, e) = dms
    <3>1. (IF e.op = "disconnected" /\ dms.defaultRs = e.of THEN NoRs ELSE dms.defaultRs) = dms.defaultRs
      BY <1>8, <2>1
    <3> QED BY <1>8, <3>1 DEF ForgetDefault, States
  <2> QED BY <1>2, <1>7, <1>8, <2>2 DEF PostTask, States, Quiet
<1>10. CASE Lone(dms, work, call) /\ known = {}
  <2>1. Empty(t)
    BY <1>9, <1>10, QuietShow DEF Lone
  <2>2. t.tasks # <<>> /\ Head(t.tasks) = FirstTask
    <3>1. CASE dms.tasks = <<>>
      <4>1. e = FirstTask /\ t.tasks = <<[op |-> e.op, of |-> e.of]>>
        BY <1>1, <1>9, <1>10, <3>1 DEF Lone
      <4> QED BY <4>1 DEF FirstTask
    <3>2. CASE dms.tasks # <<>>
      <4>1. Head(dms.tasks) = FirstTask
        BY <1>10, <3>2 DEF Lone
      <4> QED BY <1>8, <1>9, <3>2, <4>1
    <3> QED BY <3>1, <3>2
  <2>3. Lone(dms, work, call)'
    BY <1>2, <1>4, <1>7, <1>10, <2>1, <2>2 DEF Lone, Empty, Met, HasRsScreenId, FirstTask
  <2> QED BY <1>2, <1>10, <2>3
<1>11. CASE Shown(dms, work, call)
  <2>1. PICK g : Show(dms, g, Joined(work)) /\ AimsWork(dms, g, work) /\ AimsCall(dms, g, call)
    BY <1>11 DEF Shown
  <2>2. Show(t, g, Joined(work)) /\ Based(t) /\ Steady(dms, t, g) /\ Sound(t) /\ Good(dms) /\ Sound(dms)
    BY <1>2, <1>6, <1>9, <1>11, <2>1, QuietShow, ShowHere DEF Shown
  <2>3. AimsWork(t, g, work) /\ AimsCall(t, g, call)
    BY <2>1, <2>2, AimsKept DEF Show
  <2>4. Shown(t, work, call)
    BY <2>2, <2>3 DEF Shown
  <2>5. PICK w, c : w = work' /\ c = call'
    OBVIOUS
  <2>6. Shown(dms, work, call)'
    BY <1>2, <1>4, <1>7, <2>4, <2>5, ShownNext
  <2> QED BY <2>6
<1> QED BY <1>2, <1>6, <1>10, <1>11, ShowHere

LEMMA LoneNext ==
  ASSUME BaseRs, UNCHANGED rs, NEW t, t = dms', Based(t), NEW g, Show(t, g, {}), work' = Idle, call' = Idle
  PROVE  ShowInv'
<1>1. PICK w : w = Idle
  OBVIOUS
<1>2. Shown(t, w, w)
  BY <1>1, IdleAims DEF Shown
<1>3. w = work' /\ w = call'
  BY <1>1
<1> QED BY <1>2, <1>3, ShowNext

LEMMA TornNext ==
  ASSUME ShowInv, UNCHANGED rs, torn' \/ dms'.fault PROVE ShowInv'
BY DEF ShowInv, BaseRs

(* The handler thread.                                                     *)
LEMMA PopQuiet ==
  ASSUME DsInv, dms.tasks # <<>>
  PROVE  Quiet(dms, PopTask) /\ PopTask.dms2rs = dms.dms2rs
BY InvGood, GoodFields DEF PopTask, States, Quiet

LEMMA TaskShow == ASSUME DsInv, GrpInv, ShowInv, GrpInv', HandlerThread PROVE ShowInv'
<1>1. /\ work = Idle /\ ~dms.fault /\ dms.tasks # <<>> /\ Remember /\ UNCHANGED <<rs, call>> /\ Idle.step = "idle"
  BY DEF HandlerThread, ScreenConnectedTask, ScreenDisconnectedTask, NotifyTask, Free, Idle
<1> SUFFICES ASSUME ~torn', ~dms'.fault PROVE ShowInv'
  BY <1>1, TornNext
<1>2. PICK s, r, t, w : s = PopTask /\ r = Head(dms.tasks).of /\ t = dms' /\ w = work'
  OBVIOUS
<1>3. /\ Quiet(dms, s) /\ ~torn /\ BaseRs /\ RsOK /\ Head(dms.tasks) \in Tasks /\ Sound(s) /\ s.dms2rs = dms.dms2rs
      /\ (Head(dms.tasks).op \notin Tells => Good(s))
  BY <1>1, <1>2, PopOK, PopQuiet, ShowHere, QuietShow DEF Remember, ShowInv, DsInv, Keeps
<1>4. CASE Lone(dms, work, call) /\ known = {}
  <2>1. Head(dms.tasks) = FirstTask /\ call = Idle /\ Empty(s)
    BY <1>1, <1>3, <1>4, QuietShow DEF Lone
  <2>2. r = rs.default /\ Head(dms.tasks).op = "connected"
    BY <1>2, <2>1 DEF FirstTask
  <2>3. t = ProcessScreenConnected(s, r) /\ work' = work
    BY <1>2, <2>2 DEF HandlerThread, ScreenConnectedTask, ScreenDisconnectedTask, NotifyTask
  <2>4. Good(s)
    BY <1>3, <2>2 DEF Tells
  <2>5. Based(t) /\ \E g : Show(t, g, {})
    BY <1>3, <2>1, <2>2, <2>3, <2>4, FirstConnected
  <2> QED BY <1>1, <1>2, <1>3, <2>1, <2>3, <2>5, LoneNext
<1>5. CASE Shown(dms, work, call)
  <2>1. PICK g : Show(dms, g, {}) /\ AimsCall(dms, g, call) /\ Based(dms)
    BY <1>1, <1>5, IdleShown
  <2>2. Based(s) /\ Show(s, g, {}) /\ Steady(dms, s, g)
    BY <1>3, <2>1, QuietShow
  <2>3. CASE ScreenConnectedTask
    <3>1. t = ProcessScreenConnected(s, r) /\ Head(dms.tasks).op = "connected" /\ w = Idle
      BY <1>1, <1>2, <2>3 DEF ScreenConnectedTask
    <3>2. Good(s) /\ r \in Real
      BY <1>2, <1>3, <3>1 DEF Tasks, Tells
    <3>3. Based(t) /\ Show(t, g, {}) /\ Calm(s, t, g)
      BY <1>3, <2>2, <3>1, <3>2, ConnectedShow
    <3>4. Calm(dms, t, g)
      BY <1>3, <2>2, <3>3 DEF Calm, Steady, Quiet, Kids, IsVirtual
    <3> QED BY <1>1, <1>2, <1>3, <2>1, <3>1, <3>3, <3>4, IdleAims, ShowStep
  <2>4. CASE ScreenDisconnectedTask
    <3>1. ProcessScreenDisconnected(s, r) /\ Head(dms.tasks).op = "disconnected"
      BY <1>2, <2>4 DEF ScreenDisconnectedTask
    <3>2. Good(s) /\ r \in HotPlug
      BY <1>2, <1>3, <3>1 DEF Tasks, Tells
    <3>3. r \in RsIds /\ r # rs.default
      BY <1>3, <3>2, ServiceAssumption DEF BaseRs, BuiltIn, RsIds
    <3>4. Loose(s) = {} /\ ~s.fault
      BY <1>1, <1>3, IdleGood DEF Loose, Quiet
    <3>5. Based(t) /\ Show(t, g, Joined(w)) /\ AimsWork(t, g, w) /\ (DOMAIN t.screens = DOMAIN s.screens => t = s)
      BY <1>1, <1>2, <1>3, <2>2, <3>1, <3>2, <3>3, <3>4, DisconnectedShow
    <3>6. Calm(dms, t, g)
      BY <1>3, <2>2, <3>5 DEF Calm, Quiet
    <3> QED BY <1>1, <1>2, <1>3, <2>1, <3>5, <3>6, ShowStep
  <2>5. CASE NotifyTask
    <3>1. t = s /\ w = Idle
      BY <1>1, <1>2, <2>5 DEF NotifyTask
    <3>2. Calm(dms, t, g)
      BY <2>2, <3>1 DEF Calm
    <3> QED BY <1>1, <1>2, <1>3, <2>1, <2>2, <3>1, <3>2, IdleAims, ShowStep
  <2> QED BY <2>3, <2>4, <2>5 DEF HandlerThread
<1> QED BY <1>1, <1>3, <1>4, <1>5, ShowHere

(* The clients and their screens.                                          *)
LEMMA CreateShow == ASSUME DsInv, GrpInv, ShowInv, GrpInv', NEW a \in Agents, CreateVirtualScreen(a) PROVE ShowInv'
<1>1. work = Idle /\ ~dms.fault /\ Remember /\ UNCHANGED <<rs, work, call, known>>
  BY DEF CreateVirtualScreen, Free
<1> SUFFICES ASSUME ~torn', ~dms'.fault PROVE ShowInv'
  BY <1>1, TornNext
<1>2. PICK r \in Virtual \ DOMAIN dms.rs2dms :
        dms' = [InsertScreen(WithDefault(CreateScreenId(dms, r)), dms.count, r) EXCEPT !.agents[a] = @ \cup {dms.count}]
  BY DEF CreateVirtualScreen
<1>3. PICK id, made, asked, new, t :
        /\ id = dms.count /\ made = CreateScreenId(dms, r) /\ asked = WithDefault(made)
        /\ new = InsertScreen(asked, id, r) /\ t = dms'
  OBVIOUS
<1>4. /\ ~torn /\ Good(dms) /\ Sound(dms) /\ RsOK /\ BaseRs /\ r \in RsIds /\ r # rs.default
      /\ id \in Nat /\ id \notin DOMAIN dms.screens
  <2>1. ~torn
    BY <1>1 DEF Remember
  <2>2. Good(dms) /\ Sound(dms) /\ RsOK /\ BaseRs
    BY <1>1, <2>1, ShowHere
  <2>3. r \in RsIds /\ r # rs.default
    BY <1>2, <2>2, RsIdAssumption DEF BaseRs, BuiltIn, RsIds
  <2>4. id \in Nat /\ id \notin DOMAIN dms.screens
    BY <1>3, <2>2, GoodFields
  <2> QED BY <2>1, <2>2, <2>3, <2>4
<1>5. /\ made.groups = dms.groups /\ made.screens = dms.screens /\ made.displays = dms.displays /\ made.nextDisplay = dms.nextDisplay
      /\ made.defaultRs = dms.defaultRs /\ made.fault = dms.fault /\ DOMAIN made.rs2dms = DOMAIN dms.rs2dms \cup {r}
      /\ \A x \in DOMAIN dms.rs2dms : made.rs2dms[x] = dms.rs2dms[x]
  BY <1>2, <1>3, <1>4, IdShape
<1>6. Good(made) /\ made.count = id + 1 /\ Sound(made)
  <2>1. Good(made) /\ made.count = id + 1
    BY <1>2, <1>3, <1>4, CreateOK
  <2> QED BY <1>4, <1>5, <2>1, AlikeSame, AlikeSound
<1>7. Good(asked) /\ Sound(asked) /\ id \notin DOMAIN asked.screens
  <2>1. Grows(made, asked)
    BY <1>3, <1>4, <1>6, WithDefaultOK
  <2>2. \A x \in DOMAIN asked.screens \ DOMAIN made.screens : x >= made.count
    BY <2>1 DEF Grows, Keeps
  <2> QED BY <1>4, <1>5, <1>6, <2>1, <2>2 DEF Grows, Keeps
<1>8. Quiet(new, t)
  <2>2. asked \in States
    BY <1>7, GoodFields
  <2> QED BY <1>2, <1>3, <2>2 DEF Quiet, InsertScreen, PostTask, States
<1>9. ASSUME Based(asked), NEW g, Show(asked, g, {}) PROVE Based(t) /\ Show(t, g, {})
  <2>1. Watched(asked, new)
    BY <1>3, <1>4, <1>7, <1>9, InsertWatched
  <2>2. Based(new) /\ Show(new, g, {})
    BY <1>7, <1>9, <2>1, WatchedShow
  <2> QED BY <1>8, <2>2, QuietShow
<1>10. DOMAIN t.screens # DOMAIN dms.screens
  BY <1>3, CreateStep
<1>11. CASE Lone(dms, work, call) /\ known = {}
  <2>1. Empty(made)
    BY <1>4, <1>5, <1>11 DEF Lone, Empty, Met, HasRsScreenId
  <2>2. Based(asked) /\ \E g : Show(asked, g, {})
    BY <1>3, <1>4, <1>6, <2>1, FirstAsked
  <2> QED BY <1>1, <1>3, <1>4, <1>9, <1>11, <2>2, LoneNext DEF Lone
<1>12. CASE Shown(dms, work, call)
  <2>1. PICK g : Show(dms, g, {}) /\ AimsCall(dms, g, call) /\ Based(dms)
    BY <1>1, <1>12, IdleShown
  <2>2. Watched(dms, made)
    BY <1>4, <1>5, <2>1 DEF Watched, Seen, Live, Kids, Based, Met, Home, HasRsScreenId
  <2>3. Based(made) /\ Show(made, g, {})
    BY <1>4, <2>1, <2>2, WatchedShow
  <2>4. Watched(made, asked)
    BY <1>3, <1>4, <1>6, <2>3, DefaultWatched
  <2>5. Based(asked) /\ Show(asked, g, {})
    BY <1>6, <2>3, <2>4, WatchedShow
  <2>6. Based(t) /\ Show(t, g, {}) /\ Calm(dms, t, g)
    BY <1>9, <1>10, <2>5 DEF Calm
  <2>7. PICK w : w = work'
    OBVIOUS
  <2> QED BY <1>1, <1>3, <1>4, <2>1, <2>6, <2>7, IdleAims, ShowStep
<1> QED BY <1>1, <1>4, <1>11, <1>12, ShowHere

(* A client forgets a screen of its own, which is not the default one.     *)
LEMMA ForgetShow ==
  ASSUME RsOK, BaseRs, Good(dms), AgentsBut(dms, {}), Sound(dms), Loose(dms) = {}, NEW a \in Agents, NEW id \in dms.agents[a],
         NEW s, s = Forget(dms, id)
  PROVE  /\ Good(s) /\ Sound(s) /\ Quiet(dms, s) /\ Loose(s) = {} /\ id \in DOMAIN s.screens /\ s.screens = dms.screens
         /\ s.dms2rs[id] \in Virtual /\ id \in DOMAIN s.dms2rs /\ (Based(s) => id # Home(s))
<1>1. /\ Good(s) /\ id \in DOMAIN s.screens /\ Loose(s) = {} /\ s.screens = dms.screens
      /\ s.dms2rs = dms.dms2rs /\ s.rs2dms = dms.rs2dms /\ s.groups = dms.groups
  BY ForgetOK
<1>2. Quiet(dms, s)
  BY GoodFields DEF Forget, States, Quiet
<1>3. Sound(s)
  BY <1>2, QuietShow
<1>4. IsVirtual(s, id)
  BY <1>1 DEF AgentsBut, IsVirtual
<1>5. id \in DOMAIN s.dms2rs /\ s.dms2rs[id] \in Virtual
  BY <1>1, <1>4 DEF Good, Paired, IsVirtual
<1>6. Based(s) => id # Home(s)
  BY <1>1, <1>4, HomeOK
<1> QED BY <1>1, <1>2, <1>3, <1>5, <1>6

LEMMA LoneOwns == ASSUME AgentsBut(dms, {}), Lone(dms, work, call), NEW a \in Agents PROVE dms.agents[a] = {}
BY DEF AgentsBut, Lone, Empty

LEMMA DestroyShow == ASSUME DsInv, GrpInv, ShowInv, GrpInv', NEW a \in Agents, DestroyVirtualScreen(a) PROVE ShowInv'
<1>1. work = Idle /\ ~dms.fault /\ Remember /\ UNCHANGED <<rs, call, known>>
  BY DEF DestroyVirtualScreen, Free
<1> SUFFICES ASSUME ~torn', ~dms'.fault PROVE ShowInv'
  BY <1>1, TornNext
<1>2. PICK id \in dms.agents[a] : DestroyScreen(dms, id)
  BY DEF DestroyVirtualScreen
<1>3. ~torn
  BY <1>1 DEF Remember
<1>4. /\ RsOK /\ BaseRs /\ Good(dms) /\ Sound(dms) /\ AgentsBut(dms, {}) /\ Loose(dms) = {}
      /\ ((Lone(dms, work, call) /\ known = {}) \/ Shown(dms, work, call))
  BY <1>1, <1>3, ShowHere, InvGood, IdleGood
<1>5. Shown(dms, work, call)
  BY <1>2, <1>4, LoneOwns
<1>6. PICK g : Show(dms, g, {}) /\ AimsCall(dms, g, call) /\ Based(dms)
  BY <1>1, <1>5, IdleShown
<1>7. PICK s, r, t, w : s = Forget(dms, id) /\ r = ToRsScreenId(s, id) /\ t = dms' /\ w = work'
  OBVIOUS
<1>8. /\ Good(s) /\ Sound(s) /\ Quiet(dms, s) /\ Loose(s) = {} /\ id \in DOMAIN s.screens /\ s.screens = dms.screens
      /\ s.dms2rs[id] \in Virtual /\ id \in DOMAIN s.dms2rs
  BY <1>4, <1>7, ForgetShow
<1>9. ProcessScreenDisconnected(s, r)
  BY <1>2, <1>7, <1>8 DEF DestroyScreen, Quiet
<1>10. r \in RsIds /\ r # rs.default
  BY <1>4, <1>7, <1>8, RsIdAssumption DEF ToRsScreenId, RsIds, BaseRs, BuiltIn
<1>11. Based(s) /\ Show(s, g, {}) /\ ~s.fault
  BY <1>1, <1>6, <1>8, QuietShow DEF Quiet
<1>12. Based(t) /\ Show(t, g, Joined(w)) /\ AimsWork(t, g, w) /\ (DOMAIN t.screens = DOMAIN s.screens => t = s)
  BY <1>1, <1>4, <1>7, <1>8, <1>9, <1>10, <1>11, DisconnectedShow
<1>13. Calm(dms, t, g)
  BY <1>8, <1>12, QuietShow DEF Calm
<1> QED BY <1>1, <1>3, <1>6, <1>7, <1>12, <1>13, ShowStep

LEMMA DiedAims == ASSUME NEW w, w.step = "died" PROVE Joined(w) = {} /\ \A s, g : AimsWork(s, g, w)
BY DEF Joined, Changes, AimsWork

LEMMA DieShow == ASSUME DsInv, GrpInv, ShowInv, NEW a \in Agents, OnRemoteDied(a) PROVE ShowInv'
<1>1. /\ work = Idle /\ work' = [step |-> "died", agent |-> a] /\ dms.agents[a] # {} /\ ~dms.fault
      /\ UNCHANGED <<rs, dms, call, known, torn>>
  BY DEF OnRemoteDied, Free
<1> SUFFICES ASSUME ~torn' PROVE ShowInv'
  BY <1>1, TornNext
<1>2. /\ BaseRs /\ AgentsBut(dms, {})
      /\ ((Lone(dms, work, call) /\ known = {}) \/ Shown(dms, work, call))
  BY <1>1, ShowHere, InvGood
<1>3. Shown(dms, work, call)
  BY <1>1, <1>2, LoneOwns
<1>4. PICK g : Show(dms, g, {}) /\ AimsCall(dms, g, call) /\ Based(dms)
  BY <1>1, <1>3, IdleShown
<1>5. PICK w, t : w = work' /\ t = dms'
  OBVIOUS
<1>6. Shown(t, w, call)
  BY <1>1, <1>4, <1>5, DiedAims DEF Shown
<1> QED BY <1>1, <1>2, <1>5, <1>6, ShowNext

LEMMA DiedDoneShow == ASSUME DsInv, GrpInv, ShowInv, DiedDone PROVE ShowInv'
<1>1. work.step = "died" /\ ~dms.fault /\ work' = Idle /\ UNCHANGED <<rs, dms, call, known, torn>> /\ Idle.step = "idle"
  BY DEF DiedDone, Idle
<1> SUFFICES ASSUME ~torn' PROVE ShowInv'
  BY <1>1, TornNext
<1>2. BaseRs /\ ((Lone(dms, work, call) /\ known = {}) \/ Shown(dms, work, call))
  BY <1>1, ShowHere
<1>3. PICK g : Show(dms, g, {}) /\ AimsCall(dms, g, call) /\ Based(dms)
  BY <1>1, <1>2, IdleShown DEF Lone
<1>4. PICK w, t : w = work' /\ t = dms'
  OBVIOUS
<1>5. Shown(t, w, call)
  BY <1>1, <1>3, <1>4, IdleAims DEF Shown
<1> QED BY <1>1, <1>2, <1>4, <1>5, ShowNext

LEMMA DiedNextShow == ASSUME DsInv, GrpInv, ShowInv, GrpInv', DiedNext PROVE ShowInv'
<1>1. /\ work.step = "died" /\ dms.agents[work.agent] # {} /\ ~dms.fault /\ Remember /\ UNCHANGED <<rs, work, call, known>>
      /\ Idle.step = "idle"
  BY DEF DiedNext, Idle
<1> SUFFICES ASSUME ~torn', ~dms'.fault PROVE ShowInv'
  BY <1>1, TornNext
<1>2. ~torn
  BY <1>1 DEF Remember
<1>3. /\ RsOK /\ BaseRs /\ Good(dms) /\ Sound(dms) /\ AgentsBut(dms, {}) /\ Loose(dms) = {}
      /\ ((Lone(dms, work, call) /\ known = {}) \/ Shown(dms, work, call))
  BY <1>1, <1>2, ShowHere, InvGood DEF DropOf
<1>4. PICK g : Show(dms, g, {}) /\ AimsCall(dms, g, call) /\ Based(dms)
  BY <1>1, <1>3, IdleShown DEF Lone
<1>5. work \in [step : {"died"}, agent : Agents]
  BY <1>1, InvGood DEF WorkOK, FrameOK, Frames
<1>6. PICK a \in Agents : a = work.agent
  BY <1>5
<1>7. PICK id \in dms.agents[a] : id = Min(dms.agents[work.agent])
  BY <1>1, <1>3, <1>6, MinIn, GoodFields
<1>8. PICK s, gone, left, t :
        /\ s = Forget(dms, id) /\ gone = LeaveGroup(s, id) /\ left = EraseScreen(gone, id) /\ t = dms'
  OBVIOUS
<1>9. t = Collect(DeleteScreenId(left, id), CallGroup(call))
  BY <1>7, <1>8 DEF DiedNext
<1>10. /\ Good(s) /\ Sound(s) /\ Quiet(dms, s) /\ id \in DOMAIN s.screens /\ s.screens = dms.screens /\ (Based(s) => id # Home(s))
  BY <1>3, <1>8, ForgetShow
<1>11. Based(s) /\ Show(s, g, {}) /\ ~s.fault
  BY <1>1, <1>4, <1>10, QuietShow DEF Quiet
<1>12. Based(left) /\ Good(left) /\ Sound(left) /\ Show(left, g, {}) /\ id \notin DOMAIN left.screens
  BY <1>3, <1>8, <1>10, <1>11, GoneShow
<1>13. Show(t, g, {}) /\ Based(t) /\ t.screens = left.screens
  BY <1>3, <1>9, <1>12, CutShow
<1>14. Calm(dms, t, g)
  BY <1>10, <1>12, <1>13 DEF Calm
<1>15. PICK w : w = work'
  OBVIOUS
<1>16. Joined(w) = {} /\ AimsWork(t, g, w)
  BY <1>1, <1>15, DiedAims
<1> QED BY <1>1, <1>2, <1>4, <1>8, <1>13, <1>14, <1>15, <1>16, ShowStep

LEMMA RemoveShow ==
  ASSUME DsInv, GrpInv, ShowInv, GrpInv', NEW id \in DOMAIN dms.screens, RemoveVirtualScreenFromGroup(id) PROVE ShowInv'
<1>1. /\ work = Idle /\ ~dms.fault /\ Remember /\ UNCHANGED <<rs, work, call, known>> /\ IsVirtual(dms, id)
  BY DEF RemoveVirtualScreenFromGroup, Free
<1> SUFFICES ASSUME ~torn', ~dms'.fault PROVE ShowInv'
  BY <1>1, TornNext
<1>2. ~torn
  BY <1>1 DEF Remember
<1>3. /\ RsOK /\ BaseRs /\ Good(dms) /\ Sound(dms)
      /\ ((Lone(dms, work, call) /\ known = {}) \/ Shown(dms, work, call))
  BY <1>1, <1>2, ShowHere
<1>4. PICK g : Show(dms, g, {}) /\ AimsCall(dms, g, call) /\ Based(dms)
  BY <1>1, <1>3, IdleShown DEF Lone, Empty
<1>5. PICK left, t, w : left = LeaveGroup(dms, id) /\ t = dms' /\ w = work'
  OBVIOUS
<1>6. t = Collect(left, CallGroup(call))
  BY <1>5 DEF RemoveVirtualScreenFromGroup
<1>7. Home(dms) \in Kids(dms, g) /\ id # Home(dms) /\ g \in Live(dms)
  BY <1>1, <1>3, <1>4, HomeGroup, HomeOK
<1>8. ~left.fault
  BY <1>1, <1>3, <1>4, <1>5, LeaveSafe
<1>9. PICK a : a = Home(dms)
  OBVIOUS
<1>10. Leaves(dms, g, id, left) /\ Show(left, g, {id})
  <2>1. Leaves(dms, g, id, left) /\ Show(left, g, {} \cup {id})
    BY <1>3, <1>4, <1>5, <1>7, <1>8, <1>9, LeaveShow
  <2> QED BY <2>1
<1>11. Good(left) /\ Sound(left) /\ Based(left) /\ Home(left) = Home(dms)
  <2>1. Shrinks(dms, left, id)
    BY <1>3, <1>5, LeaveOK
  <2> QED BY <1>3, <1>10, <2>1 DEF Shrinks, Keeps, Leaves
<1>12. Show(left, g, {})
  BY <1>7, <1>10, <1>11, ShowJoin
<1>13. Watched(left, t) /\ t.screens = left.screens
  BY <1>6, <1>11, CollectWatched
<1>14. Show(t, g, {}) /\ Based(t) /\ Kids(t, g) = Kids(left, g) /\ t.groups[g] = left.groups[g] /\ Home(t) = Home(left)
  BY <1>11, <1>12, <1>13, WatchedShow
<1>15. Calm(dms, t, g)
  BY <1>1, <1>10, <1>13, <1>14 DEF Calm, Steady, Leaves
<1> QED BY <1>1, <1>2, <1>4, <1>5, <1>14, <1>15, IdleAims, ShowStep

LEMMA DefaultShow == ASSUME DsInv, GrpInv, ShowInv, GrpInv', GetDefaultDisplayInfo PROVE ShowInv'
<1>1. work = Idle /\ ~dms.fault /\ dms' = WithDefault(dms) /\ Remember /\ UNCHANGED <<rs, work, call, known>>
  BY DEF GetDefaultDisplayInfo, Free
<1> SUFFICES ASSUME ~torn', ~dms'.fault PROVE ShowInv'
  BY <1>1, TornNext
<1>2. ~torn
  BY <1>1 DEF Remember
<1>3. /\ RsOK /\ BaseRs /\ Good(dms) /\ Sound(dms)
      /\ ((Lone(dms, work, call) /\ known = {}) \/ Shown(dms, work, call))
  BY <1>1, <1>2, ShowHere
<1>4. PICK t, w : t = dms' /\ w = work'
  OBVIOUS
<1>5. CASE Lone(dms, work, call)
  <2>1. Empty(dms) /\ call = Idle
    BY <1>5 DEF Lone
  <2>2. Based(t) /\ \E g : Show(t, g, {})
    BY <1>1, <1>3, <1>4, <2>1, FirstAsked
  <2> QED BY <1>1, <1>3, <1>4, <2>1, <2>2, LoneNext
<1>6. CASE Shown(dms, work, call)
  <2>1. PICK g : Show(dms, g, {}) /\ AimsCall(dms, g, call) /\ Based(dms)
    BY <1>1, <1>6, IdleShown
  <2>2. Watched(dms, t) /\ t.screens = dms.screens
    BY <1>1, <1>3, <1>4, <2>1, DefaultWatched
  <2>3. Show(t, g, {}) /\ Based(t) /\ Kids(t, g) = Kids(dms, g) /\ t.groups[g] = dms.groups[g] /\ Home(t) = Home(dms)
    BY <1>3, <2>1, <2>2, WatchedShow
  <2>4. Calm(dms, t, g)
    BY <2>2, <2>3 DEF Calm, Steady
  <2> QED BY <1>1, <1>2, <1>4, <2>1, <2>3, <2>4, IdleAims, ShowStep
<1> QED BY <1>3, <1>5, <1>6

(* The list of a call is made.                                             *)
LEMMA MakeMirrorShow ==
  ASSUME DsInv, GrpInv, ShowInv, NEW main \in known, NEW ids, MakeMirror(main, ids) PROVE ShowInv'
<1>1. work = Idle /\ ~dms.fault /\ UNCHANGED <<rs, dms, work, known, torn>>
  BY DEF MakeMirror, Free
<1> SUFFICES ASSUME ~torn' PROVE ShowInv'
  BY <1>1, TornNext
<1>2. PICK list : call' = [step |-> "mirror", main |-> main, list |-> list]
  BY DEF MakeMirror
<1>3. BaseRs /\ ((Lone(dms, work, call) /\ known = {}) \/ Shown(dms, work, call))
  BY <1>1, ShowHere
<1>4. PICK g : Show(dms, g, {}) /\ Based(dms)
  BY <1>1, <1>3, IdleShown
<1>5. PICK c, t, w : c = call' /\ t = dms' /\ w = work'
  OBVIOUS
<1>6. AimsCall(t, g, c)
  BY <1>2, <1>5 DEF AimsCall
<1>7. Shown(t, w, c)
  BY <1>1, <1>4, <1>5, <1>6, IdleAims DEF Shown
<1> QED BY <1>1, <1>3, <1>5, <1>7, ShowNext

LEMMA MakeExpandShow ==
  ASSUME DsInv, GrpInv, ShowInv, NEW ids \in SUBSET known, MakeExpand(ids) PROVE ShowInv'
<1>1. PICK list : /\ list = AllScreens(ids) \ {DefaultScreen(dms)} /\ list # {} /\ call' = [step |-> "expand", list |-> list]
  BY DEF MakeExpand
<1>2. work = Idle /\ ~dms.fault /\ dms' = WithDefault(dms) /\ Remember /\ UNCHANGED <<rs, work, known>>
  BY DEF MakeExpand, Free
<1> SUFFICES ASSUME ~torn', ~dms'.fault PROVE ShowInv'
  BY <1>2, TornNext
<1>3. ~torn
  BY <1>2 DEF Remember
<1>4. /\ RsOK /\ BaseRs /\ Good(dms) /\ Sound(dms)
      /\ ((Lone(dms, work, call) /\ known = {}) \/ Shown(dms, work, call))
  BY <1>2, <1>3, ShowHere
<1>5. known # {}
  BY <1>1 DEF AllScreens
<1>6. PICK g : Show(dms, g, {}) /\ Based(dms)
  BY <1>2, <1>4, <1>5, IdleShown
<1>7. PICK c, t, w : c = call' /\ t = dms' /\ w = work'
  OBVIOUS
<1>8. Watched(dms, t) /\ t.screens = dms.screens
  BY <1>2, <1>4, <1>6, <1>7, DefaultWatched
<1>9. Show(t, g, {}) /\ Based(t) /\ Home(t) = Home(dms) /\ DefaultScreen(dms) = Home(dms)
  BY <1>4, <1>6, <1>8, WatchedShow, Asked
<1>10. \A id \in DOMAIN t.screens : IsVirtual(t, id) \/ id = Home(t) \/ id \in list
  BY <1>1, <1>8, <1>9 DEF AllScreens, IsVirtual
<1>11. AimsCall(t, g, c)
  BY <1>1, <1>7, <1>9, <1>10 DEF AimsCall
<1>12. Shown(t, w, c)
  BY <1>2, <1>7, <1>9, <1>11, IdleAims DEF Shown
<1> QED BY <1>2, <1>4, <1>7, <1>12, ShowNext

(* A group is being changed.                                               *)
LEMMA FrameShown ==
  ASSUME DsInv, GrpInv, ShowInv, ~torn, ~dms.fault, work.step \in {"leave", "join"}
  PROVE  /\ RsOK /\ BaseRs /\ Good(dms) /\ Sound(dms) /\ Framed(dms, work, call) /\ call = Idle /\ Based(dms)
         /\ work \in Frames /\ Changes(work) /\ Joined(work) = work.join
         /\ Show(dms, work.group, work.join) /\ AimsWork(dms, work.group, work) /\ Live(dms) = {work.group}
         /\ work.group \in DOMAIN dms.groups /\ work.join \subseteq DOMAIN dms.screens
<1>1. /\ RsOK /\ BaseRs /\ Good(dms) /\ Sound(dms) /\ Framed(dms, work, call)
      /\ ((Lone(dms, work, call) /\ known = {}) \/ Shown(dms, work, call))
  BY ShowHere
<1>2. Shown(dms, work, call)
  BY <1>1 DEF Lone, Idle
<1>3. work \in Frames /\ Changes(work) /\ Joined(work) = work.join
  BY InFrame DEF FrameOK, Changes, Joined
<1>4. call = Idle /\ work.group \in Live(dms) /\ work.join \subseteq DOMAIN dms.screens
  BY <1>1 DEF Framed
<1>5. PICK g : Show(dms, g, work.join) /\ AimsWork(dms, g, work)
  BY <1>2, <1>3 DEF Shown
<1>6. g = work.group
  BY <1>4, <1>5 DEF Show
<1> QED BY <1>1, <1>2, <1>3, <1>4, <1>5, <1>6 DEF Shown, Show, Live

LEMMA FrameNext ==
  ASSUME BaseRs, UNCHANGED rs, call' = Idle, NEW t, t = dms', NEW w, w = work', NEW g,
         Based(t), Show(t, g, w.join), Changes(w), AimsWork(t, g, w)
  PROVE  ShowInv'
<1>1. PICK c : c = Idle
  OBVIOUS
<1>2. Joined(w) = w.join
  BY DEF Joined
<1>3. Shown(t, w, c)
  BY <1>1, <1>2, IdleAims DEF Shown
<1>4. c = call'
  BY <1>1
<1> QED BY <1>3, <1>4, ShowNext

LEMMA ChangeLeaveShow == ASSUME DsInv, GrpInv, ShowInv, ChangeLeave PROVE ShowInv'
<1>1. PICK id, stays, t, w, g :
        /\ id = Min(work.list) /\ stays = (id \notin DOMAIN dms.screens \/ Filtered(id)) /\ t = dms' /\ w = work' /\ g = work.group
  OBVIOUS
<1>2. /\ work.step = "leave" /\ work.list # {} /\ ~dms.fault /\ t = (IF stays THEN dms ELSE LeaveGroup(dms, id))
      /\ w = [work EXCEPT !.list = @ \ {id}, !.join = IF stays THEN @ ELSE @ \cup {id}]
      /\ Remember /\ UNCHANGED <<rs, call>>
  BY <1>1 DEF ChangeLeave
<1> SUFFICES ASSUME ~torn', ~dms'.fault PROVE ShowInv'
  BY <1>2, TornNext
<1>3. ~torn
  BY <1>2 DEF Remember
<1>4. /\ RsOK /\ BaseRs /\ Good(dms) /\ Sound(dms) /\ Framed(dms, work, call) /\ call = Idle /\ Based(dms)
      /\ work \in Frames /\ Changes(work)
      /\ Show(dms, g, work.join) /\ AimsWork(dms, g, work) /\ Live(dms) = {g}
  BY <1>1, <1>2, <1>3, FrameShown
<1>5. PICK join : join = IF stays THEN work.join ELSE work.join \cup {id}
  OBVIOUS
<1>6. w = [work EXCEPT !.list = @ \ {id}, !.join = join]
  BY <1>2, <1>5
<1>7. /\ w.step = "leave" /\ w.list = work.list \ {id} /\ w.join = join /\ w.mode = work.mode
      /\ w.filter = work.filter
  BY <1>2, <1>4, <1>6 DEF Frames
<1>8. id \in work.list
  <2>1. work.list \in SUBSET Nat
    BY <1>4 DEF Frames
  <2> QED BY <1>1, <1>2, <2>1, MinIn
<1>9. Aimed(dms, g, work, work.join) /\ Leaving(dms, g, work)
  BY <1>2, <1>4 DEF AimsWork
<1>10. Based(t) /\ Show(t, g, join) /\ AimsWork(t, g, w)
  <2>1. CASE stays
    <3>1. t = dms /\ join = work.join
      BY <1>2, <1>5, <2>1
    <3>2. Aimed(t, g, w, w.join)
      BY <1>7, <1>8, <1>9, <3>1 DEF Aimed
    <3>3. ASSUME w.mode = "EXPAND", t.groups[g].mode = "MIRROR", NEW x \in Kids(t, g)
          PROVE  IsVirtual(t, x) \/ x = Home(t) \/ x \in w.list
      <4>1. ~work.filter
        BY <1>7, <1>9, <3>1, <3>3 DEF Leaving
      <4>2. id \notin DOMAIN dms.screens
        BY <1>1, <2>1, <4>1 DEF Filtered
      <4>3. x \in DOMAIN dms.screens
        BY <1>4, <3>1, <3>3 DEF Sound, Peopled
      <4> QED BY <1>7, <1>9, <3>1, <3>3, <4>2, <4>3 DEF Leaving
    <3>4. Leaving(t, g, w)
      BY <1>7, <1>9, <3>1, <3>3 DEF Leaving
    <3> QED BY <1>4, <1>7, <3>1, <3>2, <3>4 DEF AimsWork, Changes
  <2>2. CASE ~stays
    <3>1. t = LeaveGroup(dms, id) /\ join = work.join \cup {id}
      BY <1>2, <1>5, <2>2
    <3>2. PICK a \in Kids(dms, g) : a # id
      BY <1>1, <1>2, <1>4, <1>8 DEF Framed
    <3>3. Leaves(dms, g, id, t) /\ Show(t, g, join)
      BY <1>1, <1>4, <3>1, <3>2, LeaveShow
    <3>4. Aimed(t, g, w, w.join)
      BY <1>7, <1>8, <1>9, <3>1, <3>3 DEF Aimed, Leaves
    <3>5. ASSUME w.mode = "EXPAND", t.groups[g].mode = "MIRROR", NEW x \in Kids(t, g)
          PROVE  IsVirtual(t, x) \/ x = Home(t) \/ x \in w.list
      <4>1. x \in Kids(dms, g) /\ x # id /\ x \in DOMAIN dms.screens /\ dms.groups[g].mode = "MIRROR"
        BY <1>4, <3>3, <3>5 DEF Sound, Peopled, Leaves
      <4>2. IsVirtual(dms, x) \/ x = Home(dms) \/ x \in work.list
        BY <1>7, <1>9, <3>5, <4>1 DEF Leaving
      <4> QED BY <1>7, <3>3, <4>1, <4>2 DEF Leaves, IsVirtual
    <3>6. Leaving(t, g, w)
      BY <1>7, <1>9, <3>3, <3>5 DEF Leaving, Leaves
    <3> QED BY <1>7, <3>3, <3>4, <3>6 DEF AimsWork, Changes, Leaves
  <2> QED BY <2>1, <2>2
<1>11. Changes(w) /\ w.join = join
  BY <1>7 DEF Changes
<1> QED BY <1>1, <1>2, <1>4, <1>10, <1>11, FrameNext

LEMMA ChangeCombinationShow == ASSUME DsInv, GrpInv, ShowInv, ChangeCombination PROVE ShowInv'
<1>1. PICK t, w, g, J : t = dms' /\ w = work' /\ g = work.group /\ J = work.join
  OBVIOUS
<1>2. /\ work.step = "leave" /\ work.list = {} /\ ~dms.fault /\ t = [dms EXCEPT !.groups[g].mode = work.mode]
      /\ w = [work EXCEPT !.step = "join"] /\ Remember /\ UNCHANGED <<rs, call>>
  BY <1>1 DEF ChangeCombination
<1> SUFFICES ASSUME ~torn' PROVE ShowInv'
  BY <1>2, TornNext
<1>3. ~torn
  BY <1>2 DEF Remember
<1>4. /\ RsOK /\ BaseRs /\ Good(dms) /\ Sound(dms) /\ call = Idle /\ Based(dms)
      /\ work \in Frames /\ Show(dms, g, J) /\ AimsWork(dms, g, work) /\ Live(dms) = {g} /\ g \in DOMAIN dms.groups
  BY <1>1, <1>2, <1>3, FrameShown
<1>5. /\ w.step = "join" /\ w.list = {} /\ w.join = J /\ w.mode = work.mode /\ work.mode \in Modes
  BY <1>1, <1>2, <1>4 DEF Frames
<1>6. Aimed(dms, g, work, J) /\ Leaving(dms, g, work)
  BY <1>1, <1>2, <1>4 DEF AimsWork, Changes
<1>7. /\ t.screens = dms.screens /\ t.displays = dms.displays /\ t.nextDisplay = dms.nextDisplay /\ t.rs2dms = dms.rs2dms
      /\ t.defaultRs = dms.defaultRs /\ Live(t) = Live(dms) /\ Kids(t, g) = Kids(dms, g)
      /\ t.groups[g].mirror = dms.groups[g].mirror /\ t.groups[g].mode = work.mode
  <2>1. dms \in States /\ \A x \in DOMAIN dms.groups : dms.groups[x] \in Groups
    BY <1>4, GoodFields
  <2>2. /\ t.screens = dms.screens /\ t.displays = dms.displays /\ t.nextDisplay = dms.nextDisplay /\ t.rs2dms = dms.rs2dms
        /\ t.defaultRs = dms.defaultRs /\ t.groups = [dms.groups EXCEPT ![g].mode = work.mode]
    BY <1>2, <2>1 DEF States
  <2>3. /\ DOMAIN t.groups = DOMAIN dms.groups /\ t.groups[g].mode = work.mode
        /\ \A x \in DOMAIN dms.groups : t.groups[x].kids = dms.groups[x].kids /\ t.groups[x].mapped = dms.groups[x].mapped
                                       /\ t.groups[x].mirror = dms.groups[x].mirror
    BY <1>4, <2>1, <2>2 DEF Groups
  <2> QED BY <1>4, <2>2, <2>3 DEF Live, Kids
<1>8. Home(t) = Home(dms) /\ Based(t) /\ \A x : (Has(t, x) <=> Has(dms, x)) /\ (IsVirtual(t, x) <=> IsVirtual(dms, x))
  BY <1>4, <1>7 DEF Home, Based, Met, HasRsScreenId, Has, IsVirtual
<1>9. dms.groups[g].mode \in Modes
  BY <1>4, GoodFields DEF Groups
<1>10. ASSUME work.mode = "EXPAND", NEW x \in Kids(dms, g), ~IsVirtual(dms, x) PROVE Has(dms, x)
  <2>1. CASE dms.groups[g].mode = "EXPAND"
    BY <1>4, <1>10, <2>1 DEF Show
  <2>2. CASE dms.groups[g].mode = "MIRROR"
    <3>1. \A y \in Kids(dms, g) : IsVirtual(dms, y) \/ y = Home(dms)
      BY <1>2, <1>6, <1>10, <2>2 DEF Leaving
    <3>2. PICK y \in Kids(dms, g) \cup (J \cap {Home(dms)}) : ~IsVirtual(dms, y) /\ Has(dms, y)
      BY <1>4, <2>2 DEF Show
    <3> QED BY <1>10, <3>1, <3>2
  <2> QED BY <1>9, <2>1, <2>2 DEF Modes
<1>11. ASSUME work.mode = "MIRROR"
       PROVE  \E x \in Kids(dms, g) \cup (J \cap {Home(dms)}) : ~IsVirtual(dms, x) /\ Has(dms, x)
  <2>1. CASE dms.groups[g].mode = "MIRROR"
    BY <1>4, <2>1 DEF Show
  <2>2. CASE dms.groups[g].mode = "EXPAND"
    <3>1. PICK m \in Kids(dms, g) : m = dms.groups[g].mirror
      BY <1>6, <1>11 DEF Aimed
    <3>2. m \in DOMAIN dms.screens
      BY <1>4, <3>1 DEF Sound, Peopled
    <3>3. ~IsVirtual(dms, m)
      BY <1>4, <3>1, <3>2 DEF Good, Sourced, Source, Paired, IsVirtual
    <3> QED BY <1>4, <2>2, <3>1, <3>3 DEF Show
  <2> QED BY <1>9, <2>1, <2>2 DEF Modes
<1>12. ASSUME NEW x \in Kids(t, g), t.screens[x].node = OwnNode \/ (t.groups[g].mode = "EXPAND" /\ ~IsVirtual(t, x)) PROVE Has(t, x)
  BY <1>4, <1>7, <1>8, <1>10, <1>12 DEF Show
<1>13. Show(t, g, J)
  <2>1. /\ Live(t) = {g} /\ Home(t) \in Kids(t, g) \cup J
        /\ \A d \in DOMAIN t.displays : d < t.nextDisplay /\ t.displays[d].group = g
                                         /\ t.displays[d].screen \in Kids(t, g) \cup {Home(t)}
        /\ \A d, e \in DOMAIN t.displays :
             d # e /\ t.displays[d].screen = t.displays[e].screen => t.displays[d].screen = Home(t)
    BY <1>4, <1>7, <1>8 DEF Show
  <2>2. t.groups[g].mode = "MIRROR" => \E id \in Kids(t, g) \cup (J \cap {Home(t)}) : ~IsVirtual(t, id) /\ Has(t, id)
    BY <1>7, <1>8, <1>11
  <2> QED BY <1>12, <2>1, <2>2 DEF Show
<1>14. AimsWork(t, g, w) /\ Changes(w)
  BY <1>2, <1>5, <1>6, <1>7, <1>8 DEF AimsWork, Aimed, Changes
<1> QED BY <1>1, <1>2, <1>4, <1>5, <1>8, <1>13, <1>14, FrameNext

LEMMA ChangeJoinShow == ASSUME DsInv, GrpInv, ShowInv, ChangeJoin PROVE ShowInv'
<1>1. PICK id, t, w, g, J : id = Min(work.join) /\ t = dms' /\ w = work' /\ g = work.group /\ J = work.join
  OBVIOUS
<1>2. /\ work.step = "join" /\ J # {} /\ ~dms.fault /\ t = OnScreenConnect(AddChild(dms, g, id), id)
      /\ w = [work EXCEPT !.join = @ \ {id}] /\ Remember /\ UNCHANGED <<rs, call>>
  BY <1>1 DEF ChangeJoin
<1> SUFFICES ASSUME ~torn' PROVE ShowInv'
  BY <1>2, TornNext
<1>3. ~torn
  BY <1>2 DEF Remember
<1>4. /\ RsOK /\ BaseRs /\ Good(dms) /\ Sound(dms) /\ call = Idle /\ Based(dms) /\ work \in Frames /\ Changes(work)
      /\ Show(dms, g, J) /\ AimsWork(dms, g, work) /\ J \subseteq DOMAIN dms.screens /\ g \in DOMAIN dms.groups
  BY <1>1, <1>2, <1>3, FrameShown
<1>5. /\ w.step = "join" /\ w.list = work.list /\ w.join = J \ {id} /\ w.mode = work.mode
  BY <1>1, <1>2, <1>4 DEF Frames
<1>6. id \in J
  <2>1. J \in SUBSET Nat
    BY <1>1, <1>4 DEF Frames
  <2> QED BY <1>1, <1>2, <2>1, MinIn
<1>7. Aimed(dms, g, work, J) /\ dms.groups[g].mode = work.mode /\ dms.groups[g].mode \in Modes
  BY <1>1, <1>2, <1>4, GoodFields DEF AimsWork, Groups
<1>8. dms.groups[g].mode = "MIRROR" => dms.groups[g].mirror # id /\ dms.groups[g].mirror \in Kids(dms, g)
  BY <1>6, <1>7 DEF Aimed
<1>9. dms.groups[g].mode = "EXPAND" => Home(dms) # id /\ Home(dms) \in Kids(dms, g)
  <2>1. SUFFICES ASSUME dms.groups[g].mode = "EXPAND" PROVE Home(dms) # id /\ Home(dms) \in Kids(dms, g)
    OBVIOUS
  <2>2. Home(dms) \notin J
    BY <1>7, <2>1 DEF Aimed
  <2> QED BY <1>4, <1>6, <2>2, HomeGroup
<1>10. PICK a \in Kids(dms, g) : a # id
  BY <1>7, <1>8, <1>9 DEF Modes
<1>11. Joins(dms, g, id, t) /\ Show(t, g, J \ {id})
  BY <1>2, <1>4, <1>6, <1>8, <1>10, JoinShow
<1>12. Aimed(t, g, w, w.join) /\ t.groups[g].mode = w.mode
  BY <1>5, <1>6, <1>7, <1>8, <1>11 DEF Aimed, Joins
<1>13. AimsWork(t, g, w) /\ Changes(w)
  BY <1>5, <1>12 DEF AimsWork, Changes
<1> QED BY <1>1, <1>2, <1>4, <1>5, <1>11, <1>13, FrameNext DEF Joins

LEMMA ChangeDoneShow == ASSUME DsInv, GrpInv, ShowInv, ChangeDone PROVE ShowInv'
<1>1. /\ work.step = "join" /\ work.join = {} /\ dms' = Collect(DeleteScreenId(dms, work.drop), CallGroup(call)) /\ work' = Idle
      /\ ~dms.fault /\ Remember /\ UNCHANGED <<rs, call>>
  BY DEF ChangeDone
<1> SUFFICES ASSUME ~torn' PROVE ShowInv'
  BY <1>1, TornNext
<1>2. ~torn
  BY <1>1 DEF Remember
<1>3. /\ RsOK /\ BaseRs /\ Good(dms) /\ Sound(dms) /\ call = Idle /\ Based(dms) /\ Show(dms, work.group, {})
  BY <1>1, <1>2, FrameShown
<1>4. work.drop \notin DOMAIN dms.screens
  BY <1>1, InFrame DEF FrameOK
<1>5. PICK t, id, g, ids : t = dms' /\ id = work.drop /\ g = work.group /\ ids = CallGroup(call)
  OBVIOUS
<1>6. Show(t, g, {}) /\ Based(t)
  BY <1>1, <1>3, <1>4, <1>5, CutShow
<1> QED BY <1>1, <1>3, <1>5, <1>6, LoneNext

(* Inside MakeMirror and MakeExpand.                                       *)
LEMMA CallShown ==
  ASSUME DsInv, GrpInv, ShowInv, ~torn, ~dms.fault, work = Idle, call # Idle
  PROVE  /\ RsOK /\ BaseRs /\ Good(dms) /\ Sound(dms) /\ Called(dms, call) /\ Based(dms)
         /\ \E g : Show(dms, g, {}) /\ AimsCall(dms, g, call)
BY ShowHere, IdleShown DEF Lone

LEMMA MirrorShow == ASSUME DsInv, GrpInv, ShowInv, MirrorGroup PROVE ShowInv'
<1>1. /\ work = Idle /\ ~dms.fault /\ call.step = "mirror" /\ call # Idle /\ Remember /\ UNCHANGED <<rs, work, known>>
  BY DEF MirrorGroup, Free, Idle
<1> SUFFICES ASSUME ~torn', ~dms'.fault PROVE ShowInv'
  BY <1>1, TornNext
<1>2. ~torn
  BY <1>1 DEF Remember
<1>3. /\ RsOK /\ BaseRs /\ Good(dms) /\ Sound(dms) /\ Called(dms, call) /\ Based(dms)
  BY <1>1, <1>2, CallShown
<1>4. PICK g : Show(dms, g, {}) /\ AimsCall(dms, g, call)
  BY <1>1, <1>2, CallShown
<1>5. PICK main, t, w, c : main = call.main /\ t = dms' /\ w = work' /\ c = call'
  OBVIOUS
<1>6. CASE ~IsRealScreen(dms, main)
  <2>1. t = dms /\ call' = Idle
    BY <1>5, <1>6 DEF MirrorGroup
  <2> QED BY <1>1, <1>3, <1>4, <1>5, <2>1, LoneNext
<1>7. CASE IsRealScreen(dms, main)
  <2>1. t = FindMirrorGroup(dms, main)
    BY <1>5, <1>7 DEF MirrorGroup
  <2>2. Live(dms) = {g} /\ g # NoScreen /\ GroupOf(dms, Home(dms)) = g
    <3>1. g # NoScreen /\ GroupOf(dms, Home(dms)) = g
      BY <1>3, <1>4, HomeGroup
    <3> QED BY <1>4, <3>1 DEF Show
  <2>3. GroupOf(dms, main) # NoScreen
    <3>1. ASSUME GroupOf(dms, main) = NoScreen PROVE FALSE
      <4>1. PICK u : u = WithDefault(dms)
        OBVIOUS
      <4>2. u.groups = dms.groups /\ u.screens = dms.screens /\ DefaultScreen(dms) = Home(dms)
        BY <1>3, <4>1, DefaultWatched, Asked
      <4>3. GroupOf(u, Home(dms)) = g
        BY <2>2, <4>2 DEF GroupOf, Live
      <4>4. JoinedGroup(dms) # NoScreen
        BY <2>2, <4>1, <4>2, <4>3 DEF JoinedGroup
      <4>5. PICK v : v = OnScreenConnect(AddToGroup(dms, main), main)
        OBVIOUS
      <4>6. t = [v EXCEPT !.fault = TRUE]
        BY <2>1, <3>1, <4>4, <4>5 DEF FindMirrorGroup
      <4>7. Good(v)
        <5>1. main \in DOMAIN dms.screens /\ Source(dms, main)
          BY <1>3, <1>7, RealSource DEF IsRealScreen, IsVirtual
        <5>2. PICK x : x = AddToGroup(dms, main)
          OBVIOUS
        <5>3. Good(x)
          BY <1>3, <5>1, <5>2, AddToGroupOK DEF Grows, Keeps
        <5> QED BY <1>3, <4>5, <5>2, <5>3, OnConnectOK DEF Grows, Keeps
      <4>8. t.fault
        BY <4>6, <4>7, GoodFields DEF States
      <4> QED BY <1>5, <4>8
    <3> QED BY <3>1
  <2>4. GroupOf(dms, main) = g /\ main \in DOMAIN dms.screens /\ dms.screens[main].group = g
    BY <2>2, <2>3 DEF GroupOf
  <2>5. main \in Kids(dms, g) /\ main \in Int
    BY <1>3, <2>2, <2>4, GoodFields DEF Sound, Housed
  <2>6. t = [dms EXCEPT !.groups[g].mirror = main]
    BY <2>1, <2>3, <2>4 DEF FindMirrorGroup
  <2>7. /\ Based(t) /\ Show(t, g, {}) /\ Kids(t, g) = Kids(dms, g) /\ t.groups[g].mode = dms.groups[g].mode
        /\ t.groups[g].mirror = main
    BY <1>3, <1>4, <2>5, <2>6, SetMirror
  <2>8. PICK filter : filter = IsMirrorOf(dms, main)
    OBVIOUS
  <2>9. c = [step |-> "change", group |-> g, list |-> call.list, filter |-> filter, mode |-> "MIRROR"]
    BY <1>5, <1>7, <2>2, <2>4, <2>8 DEF MirrorGroup
  <2>10. c.step = "change" /\ c.list = call.list /\ (c.filter <=> filter) /\ c.mode = "MIRROR"
    BY <2>9
  <2>11. main \notin call.list
    BY <1>1, <1>3, <1>5 DEF Called
  <2>12. filter => dms.groups[g].mode = "MIRROR"
    BY <2>4, <2>8 DEF IsMirrorOf
  <2>13. AimsCall(t, g, c)
    BY <2>5, <2>7, <2>10, <2>11, <2>12 DEF AimsCall, Aimed, Leaving
  <2>14. Shown(t, w, c)
    BY <1>1, <1>5, <2>7, <2>13, IdleAims DEF Shown
  <2> QED BY <1>1, <1>3, <1>5, <2>14, ShowNext
<1> QED BY <1>6, <1>7

LEMMA ExpandGroupShow == ASSUME DsInv, GrpInv, ShowInv, ExpandGroup PROVE ShowInv'
<1>1. /\ work = Idle /\ ~dms.fault /\ call.step = "expand" /\ call # Idle /\ Remember /\ UNCHANGED <<rs, work, known>>
      /\ dms' = WithDefault(dms)
  BY DEF ExpandGroup, Free, Idle
<1> SUFFICES ASSUME ~torn' PROVE ShowInv'
  BY <1>1, TornNext
<1>2. ~torn
  BY <1>1 DEF Remember
<1>3. /\ RsOK /\ BaseRs /\ Good(dms) /\ Sound(dms) /\ Based(dms)
  BY <1>1, <1>2, CallShown
<1>4. PICK g : Show(dms, g, {}) /\ AimsCall(dms, g, call)
  BY <1>1, <1>2, CallShown
<1>5. PICK t, w, c : t = dms' /\ w = work' /\ c = call'
  OBVIOUS
<1>6. Watched(dms, t) /\ t.screens = dms.screens /\ t.groups = dms.groups /\ DefaultScreen(dms) = Home(dms)
  BY <1>1, <1>3, <1>5, DefaultWatched, Asked
<1>7. Show(t, g, {}) /\ Based(t) /\ Kids(t, g) = Kids(dms, g) /\ t.groups[g] = dms.groups[g] /\ Home(t) = Home(dms)
  BY <1>3, <1>4, <1>6, WatchedShow
<1>8. GroupOf(t, Home(dms)) = g /\ g # NoScreen
  <2>1. GroupOf(dms, Home(dms)) = g /\ g # NoScreen
    BY <1>3, <1>4, HomeGroup
  <2> QED BY <1>6, <2>1 DEF GroupOf, Live
<1>9. PICK filter : filter = (t.groups[g].mode = "EXPAND")
  OBVIOUS
<1>10. c = [step |-> "change", group |-> g, list |-> call.list, filter |-> filter, mode |-> "EXPAND"]
  BY <1>5, <1>6, <1>8, <1>9 DEF ExpandGroup
<1>11. c.step = "change" /\ c.list = call.list /\ (c.filter <=> filter) /\ c.mode = "EXPAND"
  BY <1>10
<1>12. Home(dms) \notin call.list /\ \A id \in DOMAIN dms.screens : IsVirtual(dms, id) \/ id = Home(dms) \/ id \in call.list
  BY <1>1, <1>4 DEF AimsCall
<1>13. \A id \in Kids(t, g) : IsVirtual(t, id) \/ id = Home(t) \/ id \in c.list
  <2>1. \A id \in Kids(t, g) : id \in DOMAIN dms.screens
    BY <1>3, <1>4, <1>7 DEF Show, Sound, Peopled
  <2> QED BY <1>6, <1>7, <1>11, <1>12, <2>1 DEF IsVirtual
<1>14. AimsCall(t, g, c)
  BY <1>7, <1>9, <1>11, <1>12, <1>13 DEF AimsCall, Aimed, Leaving
<1>15. Shown(t, w, c)
  BY <1>1, <1>5, <1>7, <1>14, IdleAims DEF Shown
<1> QED BY <1>1, <1>3, <1>5, <1>15, ShowNext

LEMMA ChangeCallShow == ASSUME DsInv, GrpInv, ShowInv, ChangeScreenGroup PROVE ShowInv'
<1>1. /\ work = Idle /\ ~dms.fault /\ call.step = "change" /\ call # Idle /\ call' = Idle /\ UNCHANGED <<rs, dms, known, torn>>
      /\ work' = ChangeFrame(call.group, call.list, call.filter, call.mode, NoScreen)
  BY DEF ChangeScreenGroup, Free, Idle
<1> SUFFICES ASSUME ~torn' PROVE ShowInv'
  BY <1>1, TornNext
<1>2. BaseRs /\ Based(dms)
  BY <1>1, CallShown
<1>3. PICK g : Show(dms, g, {}) /\ AimsCall(dms, g, call)
  BY <1>1, CallShown
<1>4. PICK t, w : t = dms' /\ w = work'
  OBVIOUS
<1>5. w.step = "leave" /\ w.list = call.list /\ w.join = {} /\ w.mode = call.mode /\ w.filter = call.filter
  BY <1>1, <1>4 DEF ChangeFrame
<1>6. Aimed(t, g, w, w.join) /\ Leaving(t, g, w)
  BY <1>1, <1>3, <1>4, <1>5 DEF AimsCall, Aimed, Leaving
<1>7. AimsWork(t, g, w) /\ Changes(w)
  BY <1>5, <1>6 DEF AimsWork, Changes
<1> QED BY <1>1, <1>2, <1>3, <1>4, <1>5, <1>7, FrameNext

(* The clients.                                                            *)
LEMMA BinderShow == ASSUME DsInv, GrpInv, ShowInv, GrpInv', BinderThreads PROVE ShowInv'
<1>1. ASSUME NEW a \in Agents, CreateVirtualScreen(a) \/ DestroyVirtualScreen(a) \/ OnRemoteDied(a) PROVE ShowInv'
  BY <1>1, CreateShow, DestroyShow, DieShow
<1>2. ASSUME NEW id \in DOMAIN dms.screens, RemoveVirtualScreenFromGroup(id) PROVE ShowInv'
  BY <1>2, RemoveShow
<1>3. ASSUME NEW main \in known, NEW ids \in SUBSET known, MakeMirror(main, ids) PROVE ShowInv'
  BY <1>3, MakeMirrorShow
<1>4. ASSUME NEW ids \in SUBSET known, MakeExpand(ids) PROVE ShowInv'
  BY <1>4, MakeExpandShow
<1> QED BY <1>1, <1>2, <1>3, <1>4, DefaultShow DEF BinderThreads

LEMMA ShowInit == ASSUME BuiltIn # {}, Init PROVE ShowInv
<1>1. PICK real \in {S \in SUBSET Real : BuiltIn \subseteq S /\ S # {}} :
        \E e \in [1..Cardinality(real) -> real] :
          /\ \A r \in real : \E i \in DOMAIN e : e[i] = r
          /\ BuiltIn # {} => e[1] \in BuiltIn
          /\ rs = [real |-> real, default |-> e[1], plugs |-> 0,
                   events |-> [i \in DOMAIN e |-> RsEvent("connected", e[i])]]
  BY DEF Init
<1>2. PICK e \in [1..Cardinality(real) -> real] :
        /\ \A r \in real : \E i \in DOMAIN e : e[i] = r
        /\ BuiltIn # {} => e[1] \in BuiltIn
        /\ rs = [real |-> real, default |-> e[1], plugs |-> 0,
                 events |-> [i \in DOMAIN e |-> RsEvent("connected", e[i])]]
  BY <1>1
<1>3. PICK n \in Nat : n = Cardinality(real)
  BY ServiceAssumption, <1>1, FS_Subset, FS_CardinalityType
<1>4. 1 \in 1..n
  <2>1. PICK r \in real : TRUE
    BY <1>1
  <2>2. PICK at \in 1..n : e[at] = r
    BY <1>2, <1>3, <2>1
  <2> QED BY <2>2
<1>5. PICK first, events : first = e[1] /\ events = [i \in 1..n |-> RsEvent("connected", e[i])]
  OBVIOUS
<1>6. rs = [real |-> real, default |-> first, plugs |-> 0, events |-> events] /\ first \in BuiltIn /\ first \in real
  BY <1>2, <1>3, <1>4, <1>5
<1>7. events \in Seq({RsEvent("connected", e[i]) : i \in 1..n}) /\ Len(events) = n /\ events[1] = RsEvent("connected", first)
  BY <1>4, <1>5
<1>8. events # <<>> /\ Head(events) = [op |-> "connected", of |-> first]
  BY <1>4, <1>7 DEF RsEvent
<1>9. BaseRs /\ rs.events # <<>> /\ Head(rs.events) = FirstTask
  BY <1>6, <1>8 DEF BaseRs, FirstTask
<1>10. /\ DOMAIN dms.screens = {} /\ DOMAIN dms.groups = {} /\ DOMAIN dms.displays = {} /\ DOMAIN dms.rs2dms = {}
       /\ dms.defaultRs = NoRs /\ dms.tasks = <<>> /\ work = Idle /\ call = Idle /\ known = {}
  BY DEF Init
<1>11. Lone(dms, work, call)
  BY <1>9, <1>10 DEF Lone, Empty, Met, HasRsScreenId
<1> QED BY <1>9, <1>10, <1>11 DEF ShowInv

LEMMA ShowStill == ASSUME ShowInv, UNCHANGED vars PROVE ShowInv'
<1>1. PICK t, w, c : t = dms' /\ w = work' /\ c = call'
  OBVIOUS
<1>2. t = dms /\ w = work /\ c = call /\ UNCHANGED <<rs, dms, work, call, known, torn>>
  BY <1>1 DEF vars
<1>3. BaseRs'
  BY <1>2 DEF ShowInv, BaseRs
<1>4. Lone(dms, work, call) => Lone(dms, work, call)'
  BY <1>2 DEF Lone, Empty, FirstTask, Met, HasRsScreenId
<1>5. Shown(dms, work, call) => Shown(dms, work, call)'
  BY <1>1, <1>2, ShownNext
<1> QED BY <1>2, <1>3, <1>4, <1>5 DEF ShowInv

LEMMA ShowNextStep == DsInv /\ GrpInv /\ ShowInv /\ [Next]_vars => ShowInv'
<1> SUFFICES ASSUME DsInv, GrpInv, ShowInv, [Next]_vars PROVE ShowInv'
  OBVIOUS
<1>1. GrpInv'
  BY GrpStep
<1>2. ASSUME NEW r \in Real, Plug(r) \/ Unplug(r) PROVE ShowInv'
  BY <1>2, RsShow
<1>3. CASE LockHolder
  BY <1>1, <1>3, ChangeLeaveShow, ChangeCombinationShow, ChangeJoinShow, ChangeDoneShow, DiedNextShow, DiedDoneShow DEF LockHolder
<1>4. CASE InCall
  BY <1>4, MirrorShow, ExpandGroupShow, ChangeCallShow DEF InCall
<1> QED BY <1>1, <1>2, <1>3, <1>4, EventShow, TaskShow, BinderShow, ShowStill DEF Next

LEMMA ShowInvariant == BuiltIn # {} => (Spec => [](DsInv /\ GrpInv /\ ShowInv))
<1> SUFFICES ASSUME BuiltIn # {} PROVE Spec => [](DsInv /\ GrpInv /\ ShowInv)
  OBVIOUS
<1>1. Init => ShowInv
  BY ShowInit
<1> QED BY <1>1, DsInit, DsStep, GrpInit, GrpStep, ShowNextStep, PTL DEF Spec

(* What there is to show when no group is being changed.                   *)
LEMMA SettledShow ==
  ASSUME DsInv, GrpInv, ShowInv, Settled
  PROVE  /\ Good(dms) /\ Sound(dms)
         /\ \/ DOMAIN dms.displays = {} /\ DOMAIN dms.groups = {}
            \/ /\ RsOK /\ BaseRs /\ Based(dms) /\ \E g : Show(dms, g, {})
<1>1. work = Idle /\ ~torn /\ ~dms.fault
  BY DEF Settled
<1>2. Good(dms) /\ Sound(dms) /\ RsOK /\ BaseRs /\ ((Lone(dms, work, call) /\ known = {}) \/ Shown(dms, work, call))
  BY <1>1, ShowHere
<1> QED BY <1>1, <1>2, IdleShown DEF Lone, Empty

(* A display is never left on a screen of another group than its own, nor  *)
(* on one that is in no group, whatever screens come, leave and move: the  *)
(* display moves to the default screen, or is destroyed, before the screen *)
(* it is on leaves the group.  The device has a built-in screen.           *)
THEOREM DisplaysInTheirGroup == BuiltIn # {} => (Spec => []DisplaysPlaced)
<1> SUFFICES ASSUME BuiltIn # {} PROVE Spec => []DisplaysPlaced
  OBVIOUS
<1>1. DsInv /\ GrpInv /\ ShowInv => DisplaysPlaced
  <2> SUFFICES ASSUME DsInv, GrpInv, ShowInv, Settled, NEW d \in DOMAIN dms.displays
               PROVE  dms.displays[d].group # NoScreen /\ GroupOf(dms, dms.displays[d].screen) = dms.displays[d].group
    BY DEF DisplaysPlaced
  <2>1. Good(dms) /\ Sound(dms) /\ RsOK /\ BaseRs /\ Based(dms)
    BY SettledShow
  <2>2. PICK g : Show(dms, g, {})
    BY SettledShow
  <2>3. Home(dms) \in Kids(dms, g) /\ g # NoScreen /\ g \in Live(dms)
    BY <2>1, <2>2, HomeGroup
  <2>4. dms.displays[d].group = g /\ dms.displays[d].screen \in Kids(dms, g)
    BY <2>2, <2>3 DEF Show
  <2> QED BY <2>1, <2>3, <2>4 DEF Sound, Peopled, GroupOf
<1>2. BuiltIn # {} => (Spec => [](DsInv /\ GrpInv /\ ShowInv))
  BY ShowInvariant
<1> QED BY <1>1, <1>2, PTL

(* Every group has a display, and so has every screen that shows its own   *)
(* content: AddScreenToGroup and ChangeScreenGroup tell the displays of    *)
(* every screen that comes in, and a mirrored group keeps the display of   *)
(* the screen that leaves it.  The device has a built-in screen.           *)
THEOREM GroupsHaveDisplays == BuiltIn # {} => (Spec => []GroupsShown)
<1> SUFFICES ASSUME BuiltIn # {} PROVE Spec => []GroupsShown
  OBVIOUS
<1>1. DsInv /\ GrpInv /\ ShowInv => GroupsShown
  <2> SUFFICES ASSUME DsInv, GrpInv, ShowInv, Settled, NEW g \in Live(dms)
               PROVE  /\ \E id \in dms.groups[g].kids : DisplaysOn(dms, id) # {}
                      /\ \A id \in dms.groups[g].kids : dms.screens[id].node = OwnNode => DisplaysOn(dms, id) # {}
    BY DEF GroupsShown
  <2>1. Good(dms) /\ RsOK /\ BaseRs /\ Based(dms) /\ Sound(dms)
    BY SettledShow DEF Live
  <2>2. PICK h : Show(dms, h, {})
    BY SettledShow DEF Live
  <2>3. h = g
    BY <2>2 DEF Show
  <2>4. \A id : Has(dms, id) => DisplaysOn(dms, id) # {}
    BY DEF Has, DisplaysOn
  <2>5. dms.groups[g].mode \in Modes
    BY <2>1, GoodFields DEF Live, Groups
  <2>6. Home(dms) \in Kids(dms, g) /\ ~IsVirtual(dms, Home(dms))
    BY <2>1, <2>2, <2>3, HomeGroup, HomeOK
  <2>7. \E id \in Kids(dms, g) : Has(dms, id)
    <3>1. CASE dms.groups[g].mode = "MIRROR"
      BY <2>2, <2>3, <2>6, <3>1 DEF Show
    <3>2. CASE dms.groups[g].mode = "EXPAND"
      BY <2>2, <2>3, <2>6, <3>2 DEF Show
    <3> QED BY <2>5, <3>1, <3>2 DEF Modes
  <2>8. \A id \in Kids(dms, g) : dms.screens[id].node = OwnNode => Has(dms, id)
    BY <2>2, <2>3 DEF Show
  <2> QED BY <2>4, <2>7, <2>8 DEF Kids
<1>2. BuiltIn # {} => (Spec => [](DsInv /\ GrpInv /\ ShowInv))
  BY ShowInvariant
<1> QED BY <1>1, <1>2, PTL
=============================================================================
