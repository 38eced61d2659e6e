-------------------------- MODULE WindowRootProofs --------------------------
(***************************************************************************)
(* The safety invariants of WindowRoot, for any windows, callers, processes*)
(* and requests.  In order: induction over the naturals said of sets, and  *)
(* what the recursive functions on sequences give; the lists of children   *)
(* and the z order; each operator of WindowTree and WindowRoot on the      *)
(* state s (what it promises is a predicate of the state before and after, *)
(* such as Removed, Raised, Added); the handlers; the actions; the results.*)
(*                                                                         *)
(* The tree is kept by Good: a handler that takes a window out of its list *)
(* is in TreeOK(s, {w}) until it puts it back.  Locks says where the       *)
(* windows are that show when locked, Active that the active window is in  *)
(* the tree, as the desktop is; Keeps is what nearly every handler keeps.  *)
(***************************************************************************)
EXTENDS WindowRoot, FiniteSetTheorems, WellFoundedInduction, NaturalsInduction, SequenceTheorems, TLAPS
-----------------------------------------------------------------------------
(* The least element of a set of natural numbers. *)
LEMMA MinOK ==
  ASSUME NEW S \in SUBSET Nat, S # {}
  PROVE  Min(S) \in S /\ \A y \in S : Min(S) <= y
<1>1. PICK x \in S : \A y \in S : ~(<<y, x>> \in OpToRel(<, Nat))
  BY NatLessThanWellFounded, WFMin
<1>2. \A y \in S : <<y, x>> \in Nat \X Nat /\ <<y, x>>[1] = y /\ <<y, x>>[2] = x
  BY <1>1
<1>3. \A y \in S : ~(y < x)
  BY <1>1, <1>2, Zenon DEF OpToRel
<1>4. \A y \in S : x <= y
  BY <1>3
<1> QED BY <1>4 DEF Min

(* Induction, said of sets. *)
LEMMA UpTo ==
  ASSUME NEW N \in Nat, NEW T, 0 \in T, \A n \in 0 .. N : n \in T /\ n < N => n + 1 \in T
  PROVE  0 .. N \subseteq T
<1> SUFFICES ASSUME (0 .. N) \ T # {} PROVE FALSE
  OBVIOUS
<1> DEFINE x == Min((0 .. N) \ T)
<1>1. x \in (0 .. N) \ T /\ \A y \in (0 .. N) \ T : x <= y
  BY MinOK
<1> HIDE DEF x
<1>2. x # 0 /\ x - 1 \in 0 .. N /\ x - 1 < N
  BY <1>1
<1>3. x - 1 \in T
  BY <1>1, <1>2
<1>4. (x - 1) + 1 \in T
  BY <1>2, <1>3
<1> QED BY <1>1, <1>2, <1>4

(* f goes from x0 in N steps, and stays in X. *)
StaysIn(X, N, step) == \A n \in 1 .. N, x \in X : step[<<n, x>>] \in X
Follows(f, X, x0, N, step) == f \in [0 .. N -> X] /\ f[0] = x0 /\ \A n \in 1 .. N : f[n] = step[<<n, f[n - 1]>>]

(* A function that gives each value from the one before is there. *)
LEMMA Recursion ==
  ASSUME NEW X, NEW x0 \in X, NEW N \in Nat, NEW step, StaysIn(X, N, step)
  PROVE  \E f : Follows(f, X, x0, N, step)
<1> USE DEF StaysIn
<1> DEFINE Good(n, f) == Follows(f, X, x0, n, step)
           T == {n \in 0 .. N : \E f : Good(n, f)}
<1>1. 0 \in T
  <2>1. Good(0, [i \in 0 .. 0 |-> x0])
    BY DEF Follows
  <2>2. 0 \in 0 .. N
    OBVIOUS
  <2> HIDE DEF Good
  <2> QED BY <2>1, <2>2
<1>2. ASSUME NEW n \in 0 .. N, n \in T, n < N
      PROVE  n + 1 \in T
  <2>1. PICK f : Good(n, f)
    BY <1>2
  <2> DEFINE g == [i \in 0 .. n + 1 |-> IF i = n + 1 THEN step[<<n + 1, f[n]>>] ELSE f[i]]
  <2>2. f[n] \in X /\ n + 1 \in 1 .. N
    BY <1>2, <2>1 DEF Follows
  <2>3. step[<<n + 1, f[n]>>] \in X
    BY <2>2
  <2>4. g \in [0 .. n + 1 -> X]
    BY <2>1, <2>3 DEF Follows
  <2>5. \A i \in 1 .. n + 1 : g[i] = step[<<i, g[i - 1]>>]
    <3> SUFFICES ASSUME NEW i \in 1 .. n + 1 PROVE g[i] = step[<<i, g[i - 1]>>]
      OBVIOUS
    <3>1. i - 1 \in 0 .. n + 1 /\ i - 1 # n + 1
      OBVIOUS
    <3>2. g[i - 1] = f[i - 1]
      BY <3>1
    <3>3. CASE i = n + 1
      <4>1. g[i] = step[<<n + 1, f[n]>>] /\ i - 1 = n
        BY <3>3
      <4> QED BY <4>1, <3>2, <3>3
    <3>4. CASE i # n + 1
      <4>1. g[i] = f[i] /\ i \in 1 .. n
        BY <3>4
      <4> QED BY <4>1, <3>2, <2>1 DEF Follows
    <3> QED BY <3>3, <3>4
  <2>6. g[0] = x0
    BY <2>1 DEF Follows
  <2>7. Good(n + 1, g)
    BY <2>4, <2>5, <2>6 DEF Follows
  <2>8. n + 1 \in 0 .. N
    BY <1>2
  <2> HIDE DEF Good, g
  <2> QED BY <2>7, <2>8
<1>3. N \in T
  <2> HIDE DEF T
  <2>1. 0 .. N \subseteq T
    BY <1>1, <1>2, UpTo
  <2> QED BY <2>1
<1>4. PICK f : Good(N, f)
  <2> HIDE DEF Good
  <2> QED BY <1>3
<1> QED BY <1>4

-----------------------------------------------------------------------------
(* The order of r is that of q. *)
InOrderOf(r, q) ==
    \A a, b \in DOMAIN r : a < b =>
      \E c, d \in DOMAIN q : c < d /\ r[a] = q[c] /\ r[b] = q[d]

LEMMA StaysInjective ==
  ASSUME NEW S, NEW q \in Seq(S), NEW r \in Seq(S), IsInjective(q), InOrderOf(r, q)
  PROVE  IsInjective(r)
<1> SUFFICES ASSUME NEW a \in DOMAIN r, NEW b \in DOMAIN r, r[a] = r[b], a # b PROVE FALSE
  BY DEF IsInjective
<1>1. a \in Nat /\ b \in Nat
  BY LenProperties
<1>2. CASE a < b
  BY <1>2, LenProperties DEF InOrderOf, IsInjective
<1>3. CASE b < a
  BY <1>3, LenProperties DEF InOrderOf, IsInjective
<1> QED BY <1>1, <1>2, <1>3

(* r is what is kept of the first n of q. *)
KeptOf(r, S, q, K, n) ==
    /\ r \in Seq(S) /\ ToSet(r) = {q[i] : i \in 1 .. n} \cap K
    /\ \A a, b \in DOMAIN r : a < b => \E c, d \in 1 .. n : c < d /\ r[a] = q[c] /\ r[b] = q[d]

LEMMA OnlyStep ==
  ASSUME NEW S, NEW q \in Seq(S), NEW K, NEW n \in 1 .. Len(q), NEW r, KeptOf(r, S, q, K, n - 1),
         NEW t, t = IF q[n] \in K THEN Append(r, q[n]) ELSE r
  PROVE  KeptOf(t, S, q, K, n)
<1> USE DEF KeptOf
<1>1. q[n] \in S /\ 1 .. n - 1 \subseteq 1 .. n /\ n \in Nat
  BY LenProperties
<1>2. {q[i] : i \in 1 .. n} = {q[i] : i \in 1 .. n - 1} \cup {q[n]}
  <2>1. 1 .. n = (1 .. n - 1) \cup {n}
    BY <1>1
  <2> QED BY <2>1
<1>3. CASE q[n] \in K
  <2>1. /\ t \in Seq(S) /\ Len(t) = Len(r) + 1 /\ t[Len(r) + 1] = q[n]
        /\ \A i \in 1 .. Len(r) : t[i] = r[i]
    BY <1>1, <1>3, AppendProperties
  <2>2. /\ DOMAIN t = (DOMAIN r) \cup {Len(r) + 1} /\ DOMAIN r = 1 .. Len(r) /\ Len(r) \in Nat
        /\ DOMAIN t = 1 .. Len(r) + 1
    BY <2>1, LenProperties
  <2>3. ToSet(t) = ToSet(r) \cup {q[n]}
    BY <2>1, <2>2 DEF ToSet
  <2>4. ToSet(t) = {q[i] : i \in 1 .. n} \cap K
    BY <1>2, <1>3, <2>3
  <2>5. ASSUME NEW a \in DOMAIN t, NEW b \in DOMAIN t, a < b
        PROVE  \E c, d \in 1 .. n : c < d /\ t[a] = q[c] /\ t[b] = q[d]
    <3>1. a \in DOMAIN r /\ t[a] = r[a]
      BY <2>1, <2>2, <2>5
    <3>2. CASE b \in DOMAIN r
      <4>1. t[b] = r[b]
        BY <2>1, <2>2, <3>2
      <4>2. PICK c \in 1 .. n - 1, d \in 1 .. n - 1 : c < d /\ r[a] = q[c] /\ r[b] = q[d]
        BY <2>5, <3>1, <3>2
      <4> QED BY <1>1, <3>1, <4>1, <4>2
    <3>3. CASE b = Len(r) + 1
      <4>1. r[a] \in ToSet(r)
        BY <3>1 DEF ToSet
      <4>2. PICK c \in 1 .. n - 1 : r[a] = q[c]
        BY <4>1
      <4>3. c < n /\ c \in 1 .. n /\ n \in 1 .. n /\ t[b] = q[n]
        BY <1>1, <2>1, <3>3
      <4> QED BY <3>1, <4>2, <4>3
    <3> QED BY <2>2, <3>2, <3>3
  <2> QED BY <2>1, <2>4, <2>5
<1>4. CASE q[n] \notin K
  <2>1. t = r
    BY <1>4
  <2>2. ToSet(t) = {q[i] : i \in 1 .. n} \cap K
    BY <1>2, <1>4, <2>1
  <2>3. \A c \in 1 .. n - 1 : c \in 1 .. n
    BY <1>1
  <2>4. \A a, b \in DOMAIN t : a < b => \E c, d \in 1 .. n : c < d /\ t[a] = q[c] /\ t[b] = q[d]
    BY <2>1, <2>3, SMTT(30)
  <2> QED BY <2>1, <2>2, <2>4
<1> QED BY <1>3, <1>4

LEMMA OnlyOK ==
  ASSUME NEW S, NEW q \in Seq(S), NEW K, NEW r, r = Only(q, K)
  PROVE  r \in Seq(S) /\ ToSet(r) = ToSet(q) \cap K /\ InOrderOf(r, q) /\ (IsInjective(q) => IsInjective(r))
<1> DEFINE N == Len(q)
           step == [p \in (1 .. N) \X Seq(S) |-> IF q[p[1]] \in K THEN Append(p[2], q[p[1]]) ELSE p[2]]
           Kept(g) == g = [n \in 0 .. N |-> IF n = 0 THEN <<>>
                                            ELSE IF q[n] \in K THEN Append(g[n - 1], q[n]) ELSE g[n - 1]]
           f == CHOOSE g : Kept(g)
<1>1. N \in Nat /\ DOMAIN q = 1 .. N /\ \A n \in 1 .. N : q[n] \in S
  BY LenProperties
<1>2. \A n \in 1 .. N, x \in Seq(S) : step[<<n, x>>] = IF q[n] \in K THEN Append(x, q[n]) ELSE x
  OBVIOUS
<1>3. \A n \in 1 .. N, x \in Seq(S) : step[<<n, x>>] \in Seq(S)
  BY <1>1, <1>2, AppendProperties
<1>4. \E g : Kept(g)
  <2>1. <<>> \in Seq(S)
    BY EmptySeq
  <2> HIDE DEF step
  <2>2. PICK g \in [0 .. N -> Seq(S)] : g[0] = <<>> /\ \A n \in 1 .. N : g[n] = step[<<n, g[n - 1]>>]
    <3> DEFINE X == Seq(S)
    <3>1. <<>> \in X /\ N \in Nat /\ StaysIn(X, N, step)
      BY <1>1, <1>3, <2>1 DEF StaysIn
    <3> HIDE DEF N, X
    <3>2. \E g : Follows(g, X, <<>>, N, step)
      BY <3>1, Recursion
    <3> QED BY <3>2 DEF X, Follows
  <2>3. \A n \in 1 .. N : g[n - 1] \in Seq(S)
    BY <1>1, <2>2, SMTT(30)
  <2>4. \A n \in 1 .. N : g[n] = IF q[n] \in K THEN Append(g[n - 1], q[n]) ELSE g[n - 1]
    BY <1>2, <2>2, <2>3
  <2>5. \A n \in 0 .. N : n = 0 \/ n \in 1 .. N
    BY <1>1
  <2>6. Kept(g)
    BY <2>2, <2>4, <2>5
  <2> QED BY <2>6
<1>5. Kept(f)
  <2> HIDE DEF Kept
  <2> QED BY <1>4
<1>6. r = f[N]
  BY DEF Only
<1> DEFINE T == {n \in 0 .. N : KeptOf(f[n], S, q, K, n)}
<1>7. /\ f[0] = <<>>
      /\ \A n \in 1 .. N : f[n] = IF q[n] \in K THEN Append(f[n - 1], q[n]) ELSE f[n - 1]
  <2>1. \A n \in 0 .. N : f[n] = IF n = 0 THEN <<>>
                                 ELSE IF q[n] \in K THEN Append(f[n - 1], q[n]) ELSE f[n - 1]
    <3> HIDE DEF f
    <3> QED BY <1>5
  <2>2. 0 \in 0 .. N /\ \A n \in 1 .. N : n \in 0 .. N /\ n # 0
    BY <1>1
  <2> HIDE DEF f
  <2> QED BY <2>1, <2>2
<1> HIDE DEF f, Kept, step
<1>8. 0 \in T
  <2>1. f[0] \in Seq(S) /\ DOMAIN f[0] = {} /\ 1 .. 0 = {}
    BY <1>7, EmptySeq
  <2> QED BY <1>1, <2>1 DEF ToSet, KeptOf
<1>9. ASSUME NEW n \in 0 .. N, n \in T, n < N
      PROVE  n + 1 \in T
  <2>1. n + 1 \in 1 .. N /\ (n + 1) - 1 = n /\ n + 1 \in 0 .. N
    BY <1>1, <1>9
  <2>2. f[n + 1] = IF q[n + 1] \in K THEN Append(f[n], q[n + 1]) ELSE f[n]
    BY <1>7, <2>1
  <2>3. KeptOf(f[n], S, q, K, (n + 1) - 1)
    BY <1>9, <2>1
  <2>4. KeptOf(f[n + 1], S, q, K, n + 1)
    BY <2>1, <2>2, <2>3, OnlyStep
  <2> QED BY <2>1, <2>4
<1>10. N \in T
  <2> HIDE DEF T
  <2>1. 0 .. N \subseteq T
    BY <1>1, <1>8, <1>9, UpTo
  <2> QED BY <1>1, <2>1
<1>11. /\ r \in Seq(S) /\ ToSet(r) = {q[i] : i \in 1 .. N} \cap K
       /\ \A a, b \in DOMAIN r : a < b => \E c, d \in 1 .. N : c < d /\ r[a] = q[c] /\ r[b] = q[d]
  BY <1>6, <1>10 DEF KeptOf
<1>12. ToSet(q) = {q[i] : i \in 1 .. N}
  BY <1>1 DEF ToSet
<1>13. InOrderOf(r, q)
  BY <1>1, <1>11 DEF InOrderOf
<1> QED BY <1>11, <1>12, <1>13, StaysInjective

(* A window is taken out of the children. *)
LEMMA RemoveOK ==
  ASSUME NEW S, NEW q \in Seq(S), IsInjective(q), NEW w, NEW r, r = RemoveFirst(q, w)
  PROVE  r \in Seq(S) /\ ToSet(r) = ToSet(q) \ {w} /\ InOrderOf(r, q) /\ IsInjective(r)
<1>1. Len(q) \in Nat /\ DOMAIN q = 1 .. Len(q) /\ \A i \in 1 .. Len(q) : q[i] \in S
  BY LenProperties
<1>2. CASE ~ \E i \in 1 .. Len(q) : q[i] = w
  <2>1. r = q
    BY <1>2 DEF RemoveFirst
  <2> QED BY <1>1, <1>2, <2>1 DEF ToSet, InOrderOf
<1>3. CASE \E i \in 1 .. Len(q) : q[i] = w
  <2> DEFINE I == {i \in 1 .. Len(q) : q[i] = w}
             m == Min(I)
  <2>1. m \in 1 .. Len(q) /\ q[m] = w
    <3>1. I \in SUBSET Nat /\ I # {}
      BY <1>1, <1>3
    <3> HIDE DEF I
    <3>2. m \in I
      BY <3>1, MinOK
    <3> QED BY <3>2 DEF I
  <2>2. r = SubSeq(q, 1, m - 1) \o SubSeq(q, m + 1, Len(q))
    BY <1>3 DEF RemoveFirst, RemoveAt, SelectInSeq
  <2> HIDE DEF m
  <2>3. /\ SubSeq(q, 1, m - 1) \in Seq(S) /\ Len(SubSeq(q, 1, m - 1)) = m - 1
        /\ \A i \in 1 .. m - 1 : SubSeq(q, 1, m - 1)[i] = q[i]
    BY <1>1, <2>1, SubSeqProperties
  <2>4. /\ SubSeq(q, m + 1, Len(q)) \in Seq(S) /\ Len(SubSeq(q, m + 1, Len(q))) = Len(q) - m
        /\ \A i \in 1 .. Len(q) - m : SubSeq(q, m + 1, Len(q))[i] = q[m + i]
    <3>1. \A i \in m + 1 .. Len(q) : q[i] \in S
      BY <1>1, <2>1
    <3>2. m + 1 \in Int /\ Len(q) \in Int
      BY <1>1, <2>1
    <3>3. /\ SubSeq(q, m + 1, Len(q)) \in Seq(S)
          /\ Len(SubSeq(q, m + 1, Len(q))) = IF m + 1 <= Len(q) THEN Len(q) - (m + 1) + 1 ELSE 0
          /\ \A i \in 1 .. Len(q) - (m + 1) + 1 : SubSeq(q, m + 1, Len(q))[i] = q[m + 1 + i - 1]
      BY <3>1, <3>2, SubSeqProperties
    <3>4. m \in Nat /\ Len(q) \in Nat /\ m <= Len(q)
      BY <1>1, <2>1
    <3>5. Len(q) - (m + 1) + 1 = Len(q) - m /\ (~ (m + 1 <= Len(q)) => Len(q) - m = 0)
      BY <3>4
    <3>6. \A i \in 1 .. Len(q) - m : m + 1 + i - 1 = m + i
      BY <3>4
    <3> HIDE DEF m
    <3> QED BY <3>3, <3>5, <3>6
  <2>5. r \in Seq(S) /\ Len(r) = Len(q) - 1 /\ \A i \in 1 .. Len(q) - 1 : r[i] = IF i < m THEN q[i] ELSE q[i + 1]
    <3> DEFINE a == SubSeq(q, 1, m - 1)
               b == SubSeq(q, m + 1, Len(q))
    <3>0. a \in Seq(S) /\ b \in Seq(S) /\ r = a \o b
      BY <2>2, <2>3, <2>4
    <3> HIDE DEF a, b
    <3>1. r \in Seq(S) /\ Len(r) = Len(a) + Len(b)
          /\ \A i \in 1 .. Len(a) + Len(b) : r[i] = IF i <= Len(a) THEN a[i] ELSE b[i - Len(a)]
      <4>1. /\ a \o b \in Seq(S) /\ Len(a \o b) = Len(a) + Len(b)
            /\ \A i \in 1 .. Len(a) + Len(b) : (a \o b)[i] = IF i <= Len(a) THEN a[i] ELSE b[i - Len(a)]
        BY <3>0, ConcatProperties
      <4> QED BY <3>0, <4>1
    <3>2. \A i \in 1 .. Len(q) - 1 : ~ (i < m) => b[i - (m - 1)] = q[i + 1]
      <4> SUFFICES ASSUME NEW i \in 1 .. Len(q) - 1, ~ (i < m) PROVE b[i - (m - 1)] = q[i + 1]
        OBVIOUS
      <4>1. i - (m - 1) \in 1 .. Len(q) - m /\ m + (i - (m - 1)) = i + 1
        BY <1>1, <2>1
      <4> QED BY <4>1, <2>4 DEF b
    <3>3. Len(a) = m - 1 /\ Len(b) = Len(q) - m /\ \A i \in 1 .. m - 1 : a[i] = q[i]
      BY <2>3, <2>4 DEF a, b
    <3>4. (m - 1) + (Len(q) - m) = Len(q) - 1
      BY <1>1, <2>1
    <3>5. ASSUME NEW i \in 1 .. Len(q) - 1 PROVE r[i] = IF i < m THEN q[i] ELSE q[i + 1]
      <4>1. r[i] = IF i <= m - 1 THEN a[i] ELSE b[i - (m - 1)]
        BY <3>1, <3>3, <3>4
      <4>2. i < m => i \in 1 .. m - 1
        BY <2>1
      <4>3. i < m <=> i <= m - 1
        BY <2>1
      <4> QED BY <3>2, <3>3, <4>1, <4>2, <4>3
    <3> QED BY <3>1, <3>3, <3>4, <3>5
  <2>6. DOMAIN r = 1 .. Len(q) - 1
    BY <2>5, LenProperties
  <2>7. InOrderOf(r, q)
    <3> SUFFICES ASSUME NEW a \in 1 .. Len(q) - 1, NEW b \in 1 .. Len(q) - 1, a < b
                 PROVE  \E c, d \in DOMAIN q : c < d /\ r[a] = q[c] /\ r[b] = q[d]
      BY <2>6 DEF InOrderOf
    <3>1. /\ (IF a < m THEN a ELSE a + 1) \in 1 .. Len(q) /\ (IF b < m THEN b ELSE b + 1) \in 1 .. Len(q)
          /\ (IF a < m THEN a ELSE a + 1) < (IF b < m THEN b ELSE b + 1)
      BY <1>1, <2>1
    <3>2. r[a] = q[IF a < m THEN a ELSE a + 1] /\ r[b] = q[IF b < m THEN b ELSE b + 1]
      BY <2>5
    <3> QED BY <1>1, <3>1, <3>2
  <2>8. ToSet(r) = ToSet(q) \ {w}
    <3>1. ASSUME NEW x \in ToSet(r) PROVE x \in ToSet(q) \ {w}
      <4>1. PICK i \in 1 .. Len(q) - 1 : r[i] = x
        BY <2>6 DEF ToSet
      <4>2. (IF i < m THEN i ELSE i + 1) \in 1 .. Len(q) /\ (IF i < m THEN i ELSE i + 1) # m
        BY <1>1, <2>1
      <4>3. x = q[IF i < m THEN i ELSE i + 1]
        BY <2>5, <4>1
      <4> QED BY <1>1, <2>1, <4>2, <4>3 DEF ToSet, IsInjective
    <3>2. ASSUME NEW x \in ToSet(q), x # w PROVE x \in ToSet(r)
      <4>1. PICK i \in 1 .. Len(q) : q[i] = x
        BY <1>1 DEF ToSet
      <4>2. i # m
        BY <2>1, <3>2, <4>1
      <4>3. (IF i < m THEN i ELSE i - 1) \in 1 .. Len(q) - 1 /\ r[IF i < m THEN i ELSE i - 1] = q[i]
        BY <1>1, <2>1, <2>5, <4>2
      <4> QED BY <2>6, <4>1, <4>3 DEF ToSet
    <3> QED BY <3>1, <3>2
  <2> QED BY <2>5, <2>7, <2>8, StaysInjective
<1> QED BY <1>2, <1>3

(* v is put behind the first cut of q. *)
Splice(q, v, cut) == SubSeq(q, 1, cut) \o v \o SubSeq(q, cut + 1, Len(q))
Spliced(r, S, q, v, cut) ==
    /\ r \in Seq(S) /\ Len(r) = Len(q) + Len(v) /\ DOMAIN r = 1 .. Len(q) + Len(v)
    /\ \A i \in 1 .. Len(q) + Len(v) :
         r[i] = IF i <= cut THEN q[i] ELSE IF i <= cut + Len(v) THEN v[i - cut] ELSE q[i - Len(v)]

LEMMA SpliceAt ==
  ASSUME NEW S, NEW q \in Seq(S), NEW v \in Seq(S), NEW cut \in 0 .. Len(q), NEW r, r = Splice(q, v, cut)
  PROVE  Spliced(r, S, q, v, cut)
<1>1. Len(q) \in Nat /\ Len(v) \in Nat /\ \A i \in 1 .. Len(q) : q[i] \in S
  BY LenProperties
<1> DEFINE a == SubSeq(q, 1, cut)
           b == SubSeq(q, cut + 1, Len(q))
           ab == a \o v
<1>2. a \in Seq(S) /\ Len(a) = cut /\ \A i \in 1 .. cut : a[i] = q[i]
  BY <1>1, SubSeqProperties
<1>3. b \in Seq(S) /\ Len(b) = Len(q) - cut /\ \A i \in 1 .. Len(q) - cut : b[i] = q[cut + i]
  <2>1. cut + 1 \in Int /\ Len(q) \in Int /\ \A i \in cut + 1 .. Len(q) : q[i] \in S
    BY <1>1
  <2>2. /\ b \in Seq(S) /\ Len(b) = IF cut + 1 <= Len(q) THEN Len(q) - (cut + 1) + 1 ELSE 0
        /\ \A i \in 1 .. Len(q) - (cut + 1) + 1 : b[i] = q[cut + 1 + i - 1]
    BY <2>1, SubSeqProperties
  <2> QED BY <1>1, <2>2
<1> HIDE DEF a, b
<1>4. ab \in Seq(S) /\ Len(ab) = cut + Len(v) /\ \A i \in 1 .. cut + Len(v) : ab[i] = IF i <= cut THEN q[i] ELSE v[i - cut]
  <2>1. /\ ab \in Seq(S) /\ Len(ab) = Len(a) + Len(v)
        /\ \A i \in 1 .. Len(a) + Len(v) : ab[i] = IF i <= Len(a) THEN a[i] ELSE v[i - Len(a)]
    BY <1>2, ConcatProperties
  <2> HIDE DEF ab
  <2> QED BY <1>1, <1>2, <2>1
<1>5. r = ab \o b
  BY DEF Splice, a, b
<1> HIDE DEF ab
<1>6. /\ r \in Seq(S) /\ Len(r) = Len(ab) + Len(b)
      /\ \A i \in 1 .. Len(ab) + Len(b) : r[i] = IF i <= Len(ab) THEN ab[i] ELSE b[i - Len(ab)]
  <2>1. /\ ab \o b \in Seq(S) /\ Len(ab \o b) = Len(ab) + Len(b)
        /\ \A i \in 1 .. Len(ab) + Len(b) : (ab \o b)[i] = IF i <= Len(ab) THEN ab[i] ELSE b[i - Len(ab)]
    BY <1>3, <1>4, ConcatProperties
  <2> QED BY <1>5, <2>1
<1>7. Len(r) = Len(q) + Len(v) /\ DOMAIN r = 1 .. Len(q) + Len(v)
  BY <1>1, <1>3, <1>4, <1>6, LenProperties
<1>8. ASSUME NEW i \in 1 .. Len(q) + Len(v)
      PROVE  r[i] = IF i <= cut THEN q[i] ELSE IF i <= cut + Len(v) THEN v[i - cut] ELSE q[i - Len(v)]
  <2>0. r[i] = IF i <= cut + Len(v) THEN ab[i] ELSE b[i - (cut + Len(v))]
    <3>1. Len(ab) = cut + Len(v) /\ (cut + Len(v)) + (Len(q) - cut) = Len(q) + Len(v)
      BY <1>1, <1>4
    <3> QED BY <1>3, <1>6, <3>1
  <2>1. CASE i <= cut + Len(v)
    <3>1. i \in 1 .. cut + Len(v)
      BY <1>1, <2>1
    <3>2. r[i] = IF i <= cut THEN q[i] ELSE v[i - cut]
      BY <1>4, <2>0, <2>1, <3>1
    <3> QED BY <2>1, <3>2
  <2>2. CASE ~ (i <= cut + Len(v))
    <3>1. i - (cut + Len(v)) \in 1 .. Len(q) - cut /\ cut + (i - (cut + Len(v))) = i - Len(v)
      BY <1>1, <2>2
    <3>2. r[i] = b[i - (cut + Len(v))]
      BY <2>0, <2>2
    <3>3. ~ (i <= cut)
      BY <1>1, <2>2
    <3>4. r[i] = q[i - Len(v)]
      BY <1>3, <3>1, <3>2
    <3> QED BY <2>2, <3>3, <3>4
  <2> QED BY <2>1, <2>2
<1> QED BY <1>6, <1>7, <1>8 DEF Spliced

LEMMA SpliceOK ==
  ASSUME NEW S, NEW q \in Seq(S), NEW v \in Seq(S), NEW cut \in 0 .. Len(q), NEW r, r = Splice(q, v, cut)
  PROVE  /\ r \in Seq(S) /\ ToSet(r) = ToSet(q) \cup ToSet(v)
         /\ IsInjective(q) /\ IsInjective(v) /\ ToSet(q) \cap ToSet(v) = {} => IsInjective(r)
<1>1. /\ Len(q) \in Nat /\ Len(v) \in Nat /\ DOMAIN q = 1 .. Len(q) /\ DOMAIN v = 1 .. Len(v)
  BY LenProperties
<1>2. /\ r \in Seq(S) /\ Len(r) = Len(q) + Len(v) /\ DOMAIN r = 1 .. Len(q) + Len(v)
      /\ \A i \in 1 .. Len(q) + Len(v) :
              r[i] = IF i <= cut THEN q[i] ELSE IF i <= cut + Len(v) THEN v[i - cut] ELSE q[i - Len(v)]
  <2>1. Spliced(r, S, q, v, cut)
    BY SpliceAt
  <2> QED BY <2>1 DEF Spliced
<1>3. ASSUME NEW x \in ToSet(r) PROVE x \in ToSet(q) \cup ToSet(v)
  <2>1. PICK i \in 1 .. Len(q) + Len(v) : r[i] = x
    BY <1>2 DEF ToSet
  <2>2. CASE i <= cut
    BY <1>1, <1>2, <2>1, <2>2, SMTT(30) DEF ToSet
  <2>3. CASE ~ (i <= cut) /\ i <= cut + Len(v)
    <3>1. i - cut \in 1 .. Len(v) /\ x = v[i - cut]
      BY <1>1, <1>2, <2>1, <2>3
    <3> QED BY <1>1, <3>1 DEF ToSet
  <2>4. CASE ~ (i <= cut) /\ ~ (i <= cut + Len(v))
    <3>1. i - Len(v) \in 1 .. Len(q) /\ x = q[i - Len(v)]
      BY <1>1, <1>2, <2>1, <2>4
    <3> QED BY <1>1, <3>1 DEF ToSet
  <2> QED BY <2>2, <2>3, <2>4
<1>4. ASSUME NEW x \in ToSet(q) PROVE x \in ToSet(r)
  <2>1. PICK i \in 1 .. Len(q) : q[i] = x
    BY <1>1 DEF ToSet
  <2>2. (IF i <= cut THEN i ELSE i + Len(v)) \in 1 .. Len(q) + Len(v)
        /\ r[IF i <= cut THEN i ELSE i + Len(v)] = q[i]
    <3>1. CASE i <= cut
      <4>1. i \in 1 .. Len(q) + Len(v)
        BY <1>1
      <4> QED BY <1>2, <3>1, <4>1
    <3>2. CASE ~ (i <= cut)
      <4>1. i + Len(v) \in 1 .. Len(q) + Len(v) /\ ~ (i + Len(v) <= cut) /\ ~ (i + Len(v) <= cut + Len(v))
            /\ (i + Len(v)) - Len(v) = i
        BY <1>1, <3>2
      <4> QED BY <1>2, <3>2, <4>1
    <3> QED BY <3>1, <3>2
  <2> QED BY <1>2, <2>1, <2>2 DEF ToSet
<1>5. ASSUME NEW x \in ToSet(v) PROVE x \in ToSet(r)
  <2>1. PICK i \in 1 .. Len(v) : v[i] = x
    BY <1>1 DEF ToSet
  <2>2. i + cut \in 1 .. Len(q) + Len(v) /\ ~ (i + cut <= cut) /\ i + cut <= cut + Len(v) /\ (i + cut) - cut = i
    BY <1>1
  <2>3. r[i + cut] = v[i]
    BY <1>2, <2>2
  <2> QED BY <1>2, <2>1, <2>2, <2>3 DEF ToSet
<1>6. ASSUME IsInjective(q), IsInjective(v), ToSet(q) \cap ToSet(v) = {},
             NEW a \in DOMAIN r, NEW b \in DOMAIN r, r[a] = r[b]
      PROVE  a = b
  <2> DEFINE inV(i) == ~ (i <= cut) /\ i <= cut + Len(v)
             at(i) == IF i <= cut THEN i ELSE i - Len(v)
  <2>1. \A i \in DOMAIN r : inV(i) => i - cut \in 1 .. Len(v) /\ r[i] = v[i - cut] /\ r[i] \in ToSet(v)
    BY <1>1, <1>2 DEF ToSet
  <2>2. \A i \in DOMAIN r : ~ inV(i) => at(i) \in 1 .. Len(q) /\ r[i] = q[at(i)] /\ r[i] \in ToSet(q)
    <3> SUFFICES ASSUME NEW i \in DOMAIN r, ~ inV(i)
                 PROVE  at(i) \in 1 .. Len(q) /\ r[i] = q[at(i)] /\ r[i] \in ToSet(q)
      OBVIOUS
    <3>1. at(i) \in 1 .. Len(q) /\ r[i] = q[at(i)]
      BY <1>1, <1>2
    <3> QED BY <1>1, <3>1 DEF ToSet
  <2>3. CASE inV(a) /\ inV(b)
    <3>1. a - cut = b - cut
      BY <1>1, <1>6, <2>1, <2>3 DEF IsInjective
    <3> QED BY <1>2, <3>1
  <2>4. CASE ~ inV(a) /\ ~ inV(b)
    <3>1. at(a) = at(b)
      <4> HIDE DEF at, inV
      <4> QED BY <1>1, <1>6, <2>2, <2>4 DEF IsInjective
    <3> QED BY <1>1, <1>2, <2>4, <3>1
  <2>5. CASE inV(a) /\ ~ inV(b)
    BY <1>6, <2>1, <2>2, <2>5
  <2>6. CASE ~ inV(a) /\ inV(b)
    BY <1>6, <2>1, <2>2, <2>6
  <2> QED BY <2>3, <2>4, <2>5, <2>6
<1> QED BY <1>2, <1>3, <1>4, <1>5, <1>6 DEF IsInjective

-----------------------------------------------------------------------------
(* The states of the handlers. *)
Nodes  == Roots \cup Windows
Ranks  == -1 .. 116
States == [kids : [Nodes -> Seq(Windows)], parent : [Windows -> Nodes \cup {Null}], prio : [Windows -> Ranks],
           requested : [Windows -> BOOLEAN], visible : [Windows -> BOOLEAN],
           focus : Windows \cup {Null}, active : Windows \cup {Null}, locked : BOOLEAN,
           alive : SUBSET Windows, token : SUBSET Windows, starting : SUBSET Windows,
           list : SUBSET (Windows \X Reasons), asked : SUBSET Windows]

Sorted(q, prio) == \A i, j \in DOMAIN q : i < j => prio[q[i]] <= prio[q[j]]

(* The lists of children and the parents agree, but for the windows out of *)
(* their list in the middle of a handler; the lists are in order.          *)
Linked(s, out) == \A p \in Nodes : /\ IsInjective(s.kids[p])
                                   /\ ToSet(s.kids[p]) = {w \in Windows : s.parent[w] = p} \ out
Ordered(s) == \A p \in Nodes : Sorted(s.kids[p], s.prio)

(* A window with a parent is below its caller or in its root, or over the  *)
(* keyguard, and has a priority of its type or one of the locked screen.   *)
Placed(s) == \A w \in Windows :
    /\ s.parent[w] \in Windows => HasCaller(w) /\ s.parent[w] = Caller[w]
    /\ s.parent[w] \in Roots => s.parent[w] = FindRoot(w) \/ (Flagged(w) /\ s.parent[w] = "ABOVE")
RankOK(w, k) == \/ k = PriorityMap[Type[w]]
                \/ Flagged(w) /\ k = 115
                \/ Type[w] = "INPUT_METHOD_FLOAT" /\ k = 116
Ranked(s, out) == \A w \in Windows \ out : s.parent[w] # Null => RankOK(w, s.prio[w])

TreeOK(s, out) == s \in States /\ Linked(s, out) /\ Ordered(s) /\ Placed(s) /\ Ranked(s, out)

(* t differs from s in the tree only. *)
SameRest(s, t) ==
    /\ t.requested = s.requested /\ t.visible = s.visible /\ t.focus = s.focus /\ t.active = s.active
    /\ t.locked = s.locked /\ t.alive = s.alive /\ t.token = s.token /\ t.starting = s.starting
    /\ t.list = s.list /\ t.asked = s.asked

LEMMA Fields ==
  ASSUME NEW s \in States
  PROVE  /\ s.kids \in [Nodes -> Seq(Windows)] /\ s.parent \in [Windows -> Nodes \cup {Null}]
         /\ s.prio \in [Windows -> Ranks] /\ s.requested \in [Windows -> BOOLEAN]
         /\ s.visible \in [Windows -> BOOLEAN] /\ s.focus \in Windows \cup {Null}
         /\ s.active \in Windows \cup {Null} /\ s.locked \in BOOLEAN /\ s.alive \subseteq Windows
         /\ s.token \subseteq Windows /\ s.starting \subseteq Windows
         /\ s.list \subseteq Windows \X Reasons /\ s.asked \subseteq Windows
BY DEF States

(* What a change of the tree leaves alone. *)
Changed(s, kids, parent, prio, t) ==
    t \in States /\ t.kids = kids /\ t.parent = parent /\ t.prio = prio /\ SameRest(s, t)
SetTree(s, kids, parent, prio) == [s EXCEPT !.kids = kids, !.parent = parent, !.prio = prio]

LEMMA TreeChange ==
  ASSUME NEW s \in States, NEW kids \in [Nodes -> Seq(Windows)], NEW parent \in [Windows -> Nodes \cup {Null}],
         NEW prio \in [Windows -> Ranks],
         NEW t, t = SetTree(s, kids, parent, prio)
  PROVE  Changed(s, kids, parent, prio, t)
BY DEF Changed, SetTree, States, SameRest

SetKids(s, p, q) == [s EXCEPT !.kids[p] = q]

LEMMA KidsChange ==
  ASSUME NEW s \in States, NEW p \in Nodes, NEW q \in Seq(Windows), NEW t, t = SetKids(s, p, q)
  PROVE  /\ t \in States /\ t.kids = [s.kids EXCEPT ![p] = q] /\ t.parent = s.parent /\ t.prio = s.prio
         /\ SameRest(s, t)
<1>1. s.kids \in [Nodes -> Seq(Windows)]
  BY DEF States
<1>2. [s.kids EXCEPT ![p] = q] \in [Nodes -> Seq(Windows)]
  BY <1>1
<1>3. t = [s EXCEPT !.kids = [s.kids EXCEPT ![p] = q]]
  BY DEF SetKids
<1> QED BY <1>2, <1>3 DEF States, SameRest

LEMMA PriorityOK ==
  /\ \A x \in Types : PriorityMap[x] \in -1 .. 114 /\ (PriorityMap[x] = 114 => x = "KEYGUARD")
  /\ PriorityMap.KEYGUARD = 114 /\ PriorityMap["KEYGUARD"] = 114 /\ PriorityMap.APP_MAIN_WINDOW = 0
  /\ PriorityMap["APP_MAIN_WINDOW"] = 0
BY DEF Types, PriorityMap

(* The windows ws are put among the children of p, all with the priority k. *)
Inserted(s, p, ws, k, t) ==
    /\ t \in States /\ t.parent = s.parent /\ t.prio = s.prio /\ SameRest(s, t)
    /\ \A q \in Nodes \ {p} : t.kids[q] = s.kids[q]
    /\ ToSet(t.kids[p]) = ToSet(s.kids[p]) \cup ToSet(ws)
    /\ IsInjective(s.kids[p]) /\ IsInjective(ws) /\ ToSet(s.kids[p]) \cap ToSet(ws) = {} => IsInjective(t.kids[p])
    /\ \A prio : /\ \A x \in ToSet(s.kids[p]) : prio[x] = s.prio[x]
                 /\ \A x \in ToSet(ws) : prio[x] = k
                 => Sorted(t.kids[p], prio)

LEMMA InsertOK ==
  ASSUME NEW s \in States, NEW p \in Nodes, Sorted(s.kids[p], s.prio), NEW ws \in Seq(Windows), NEW k \in Ranks,
         NEW t, t = InsertByPriority(s, p, ws, k)
  PROVE  Inserted(s, p, ws, k, t)
<1> DEFINE q == s.kids[p]
           I == {i \in 1 .. Len(q) : s.prio[q[i]] > k}
           cut == IF FirstLarger(s, p, k) = 0 THEN Len(q) ELSE FirstLarger(s, p, k) - 1
           r == Splice(q, ws, cut)
<1>1. /\ q \in Seq(Windows) /\ Len(q) \in Nat /\ DOMAIN q = 1 .. Len(q)
      /\ \A i \in 1 .. Len(q) : q[i] \in Windows /\ s.prio[q[i]] \in Int
      /\ Len(ws) \in Nat /\ DOMAIN ws = 1 .. Len(ws) /\ k \in Int
  <2>1. q \in Seq(Windows)
    BY DEF States
  <2>2. Len(q) \in Nat /\ DOMAIN q = 1 .. Len(q) /\ (\A i \in 1 .. Len(q) : q[i] \in Windows)
        /\ Len(ws) \in Nat /\ DOMAIN ws = 1 .. Len(ws)
    BY <2>1, LenProperties
  <2>3. k \in Int /\ \A x \in Windows : s.prio[x] \in Int
    <3>1. \A x \in Ranks : x \in Int
      BY DEF Ranks
    <3>2. \A x \in Windows : s.prio[x] \in Ranks
      BY DEF States
    <3> QED BY <3>1, <3>2
  <2> HIDE DEF q
  <2> QED BY <2>1, <2>2, <2>3
<1>2. /\ cut \in 0 .. Len(q) /\ (\A i \in 1 .. cut : s.prio[q[i]] <= k)
      /\ \A i \in 1 .. Len(q) : i > cut => s.prio[q[i]] > k
  <2>1. FirstLarger(s, p, k) = IF I # {} THEN Min(I) ELSE 0
    BY DEF FirstLarger, SelectInSeq
  <2>2. I \in SUBSET Nat
    BY <1>1
  <2>3. CASE I = {}
    <3>1. cut = Len(q)
      BY <2>1, <2>3
    <3>2. \A i \in 1 .. Len(q) : ~ (s.prio[q[i]] > k)
      BY <2>3
    <3> HIDE DEF cut, q, I
    <3> QED BY <1>1, <3>1, <3>2
  <2>4. CASE I # {}
    <3> DEFINE m == Min(I)
    <3>1. m \in I /\ \A i \in I : m <= i
      <4> HIDE DEF I
      <4> QED BY <2>2, <2>4, MinOK
    <3> HIDE DEF m
    <3>2. cut = m - 1
      <4>1. m # 0
        BY <3>1
      <4>2. FirstLarger(s, p, k) = m
        <5> HIDE DEF I
        <5> QED BY <2>1, <2>4 DEF m
      <4> QED BY <4>1, <4>2
    <3> HIDE DEF cut
    <3>3. \A i \in 1 .. cut : i \in 1 .. Len(q) /\ i \notin I
      <4>1. m \in 1 .. Len(q)
        BY <3>1
      <4> HIDE DEF I, q
      <4>2. \A i \in 1 .. cut : i \in 1 .. Len(q) /\ ~ (m <= i)
        BY <1>1, <3>2, <4>1
      <4> QED BY <3>1, <4>2
    <3>4. \A i \in 1 .. cut : s.prio[q[i]] <= k
      <4>1. \A i \in 1 .. cut : ~ (s.prio[q[i]] > k)
        BY <3>3
      <4> HIDE DEF q, I, cut
      <4> QED BY <1>1, <3>3, <4>1
    <3>5. ASSUME NEW i \in 1 .. Len(q), i > cut PROVE s.prio[q[i]] > k
      <4>1. m \in DOMAIN q /\ i \in DOMAIN q /\ s.prio[q[m]] > k /\ (m = i \/ m < i)
        BY <1>1, <3>1, <3>2, <3>5
      <4>2. s.prio[q[m]] <= s.prio[q[i]]
        <5>1. m < i => s.prio[q[m]] <= s.prio[q[i]]
          BY <4>1 DEF Sorted
        <5> HIDE DEF q
        <5> QED BY <1>1, <4>1, <5>1
      <4> HIDE DEF q
      <4> QED BY <1>1, <4>1, <4>2
    <3>6. cut \in 0 .. Len(q)
      BY <1>1, <3>1, <3>2
    <3> QED BY <3>4, <3>5, <3>6
  <2> QED BY <2>3, <2>4
<1>3. t = SetKids(s, p, r)
  BY DEF InsertByPriority, Splice, SetKids
<1> HIDE DEF cut
<1>4. /\ r \in Seq(Windows) /\ ToSet(r) = ToSet(q) \cup ToSet(ws)
      /\ IsInjective(q) /\ IsInjective(ws) /\ ToSet(q) \cap ToSet(ws) = {} => IsInjective(r)
  <2> HIDE DEF q
  <2> QED BY <1>1, <1>2, SpliceOK
<1>5. Spliced(r, Windows, q, ws, cut)
  <2> HIDE DEF q
  <2> QED BY <1>1, <1>2, SpliceAt
<1> HIDE DEF r
<1>6. t \in States /\ t.kids = [s.kids EXCEPT ![p] = r] /\ t.parent = s.parent /\ t.prio = s.prio /\ SameRest(s, t)
  BY <1>3, <1>4, KidsChange
<1>7. t.kids[p] = r /\ \A x \in Nodes \ {p} : t.kids[x] = s.kids[x]
  BY <1>6 DEF States
<1>8. ASSUME NEW prio, \A x \in ToSet(q) : prio[x] = s.prio[x], \A x \in ToSet(ws) : prio[x] = k
      PROVE  Sorted(r, prio)
  <2> DEFINE n == Len(ws)
  <2>1. \A i \in DOMAIN q : prio[q[i]] = s.prio[q[i]]
    BY <1>8 DEF ToSet
  <2>2. \A i \in DOMAIN ws : prio[ws[i]] = k
    BY <1>8 DEF ToSet
  <2>3. Sorted(q, s.prio)
    OBVIOUS
  <2> HIDE DEF q
  <2> SUFFICES ASSUME NEW i \in DOMAIN r, NEW j \in DOMAIN r, i < j PROVE prio[r[i]] <= prio[r[j]]
    BY DEF Sorted
  <2>4. /\ i \in 1 .. Len(q) + n /\ j \in 1 .. Len(q) + n
        /\ r[i] = IF i <= cut THEN q[i] ELSE IF i <= cut + n THEN ws[i - cut] ELSE q[i - n]
        /\ r[j] = IF j <= cut THEN q[j] ELSE IF j <= cut + n THEN ws[j - cut] ELSE q[j - n]
    BY <1>5 DEF Spliced
  <2> HIDE DEF n
  <2>5. cut \in Nat /\ n \in Nat /\ Len(q) \in Nat /\ cut <= Len(q) /\ k \in Int /\ n = Len(ws)
    BY <1>1, <1>2 DEF n
  <2>6. \A x \in 1 .. Len(q) : prio[q[x]] \in Int /\ (x <= cut => prio[q[x]] <= k) /\ (x > cut => prio[q[x]] > k)
    BY <1>1, <1>2, <2>1, <2>5
  <2>7. CASE j <= cut
    <3>1. i \in DOMAIN q /\ j \in DOMAIN q /\ r[i] = q[i] /\ r[j] = q[j]
      BY <1>1, <2>4, <2>5, <2>7
    <3> QED BY <2>1, <2>3, <3>1 DEF Sorted
  <2>8. CASE ~ (j <= cut) /\ j <= cut + n
    <3>1. j - cut \in DOMAIN ws /\ r[j] = ws[j - cut]
      BY <1>1, <2>4, <2>5, <2>8
    <3>2. prio[r[j]] = k
      BY <2>2, <3>1
    <3>3. CASE i <= cut
      <4>1. i \in 1 .. Len(q) /\ r[i] = q[i]
        BY <2>4, <2>5, <3>3
      <4>2. prio[r[i]] <= k
        BY <2>6, <3>3, <4>1
      <4> QED BY <3>2, <4>2
    <3>4. CASE ~ (i <= cut)
      <4>1. i - cut \in DOMAIN ws /\ r[i] = ws[i - cut]
        BY <1>1, <2>4, <2>5, <2>8, <3>4
      <4>2. prio[r[i]] = k
        BY <2>2, <4>1
      <4> QED BY <2>5, <3>2, <4>2
    <3> QED BY <3>3, <3>4
  <2>9. CASE ~ (j <= cut) /\ ~ (j <= cut + n)
    <3>1. j - n \in 1 .. Len(q) /\ j - n > cut /\ r[j] = q[j - n]
      BY <2>4, <2>5, <2>9
    <3>2. prio[r[j]] > k /\ prio[r[j]] \in Int
      BY <2>6, <3>1
    <3>3. CASE i <= cut
      <4>1. i \in 1 .. Len(q) /\ r[i] = q[i]
        BY <2>4, <2>5, <3>3
      <4>2. prio[r[i]] <= k /\ prio[r[i]] \in Int
        BY <2>6, <3>3, <4>1
      <4> QED BY <2>5, <3>2, <4>2
    <3>4. CASE ~ (i <= cut) /\ i <= cut + n
      <4>1. i - cut \in DOMAIN ws /\ r[i] = ws[i - cut]
        BY <1>1, <2>4, <2>5, <3>4
      <4>2. prio[r[i]] = k
        BY <2>2, <4>1
      <4> QED BY <2>5, <3>2, <4>2
    <3>5. CASE ~ (i <= cut) /\ ~ (i <= cut + n)
      <4>1. i - n \in DOMAIN q /\ j - n \in DOMAIN q /\ i - n < j - n /\ r[i] = q[i - n]
        BY <1>1, <2>4, <2>5, <2>9, <3>5
      <4>2. s.prio[q[i - n]] <= s.prio[q[j - n]]
        BY <2>3, <4>1 DEF Sorted
      <4> QED BY <2>1, <3>1, <4>1, <4>2
    <3> QED BY <3>3, <3>4, <3>5
  <2> QED BY <2>7, <2>8, <2>9
<1> QED BY <1>4, <1>6, <1>7, <1>8 DEF Inserted

-----------------------------------------------------------------------------
(* A list that keeps an order is sorted as the other one. *)
LEMMA SortedStays ==
  ASSUME NEW q, NEW r, InOrderOf(r, q), NEW prio, Sorted(q, prio)
  PROVE  Sorted(r, prio)
BY DEF InOrderOf, Sorted

LEMMA SortedSame ==
  ASSUME NEW q, NEW prio, NEW prio2, \A x \in ToSet(q) : prio2[x] = prio[x], Sorted(q, prio)
  PROVE  Sorted(q, prio2)
BY DEF ToSet, Sorted

LEMMA RootFacts ==
  /\ Roots = {"BELOW", "APP", "ABOVE"} /\ Null \notin Nodes /\ "APP" \in Nodes /\ "ABOVE" \in Nodes /\ "BELOW" \in Nodes
  /\ Roots \cap Windows = {} /\ Roots \subseteq Nodes /\ Windows \subseteq Nodes
BY TreeAssumption DEF Roots, Nodes

LEMMA FlaggedFacts ==
  ASSUME NEW w \in ShowWhenLocked
  PROVE  w \in Windows /\ IsMainWindow(w) /\ Flagged(w) /\ ~ HasCaller(w) /\ FindRoot(w) = "APP" /\ Type[w] = "APP_MAIN_WINDOW"
BY TreeAssumption DEF Flagged, IsMainWindow, HasCaller, IsSubWindow, FindRoot, IsAppWindow

LEMMA TypeFacts ==
  ASSUME NEW w \in Windows
  PROVE  /\ Type[w] \in Types /\ PriorityMap[Type[w]] \in -1 .. 114 /\ FindRoot(w) \in Roots
         /\ (HasCaller(w) => Caller[w] \in Windows /\ IsMainWindow(Caller[w]))
         /\ (IsMainWindow(w) => ~ HasCaller(w))
<1>1. Type[w] \in Types
  BY TreeAssumption
<1>2. PriorityMap[Type[w]] \in -1 .. 114
  BY <1>1, PriorityOK
<1>3. HasCaller(w) => Caller[w] \in Windows /\ IsMainWindow(Caller[w])
  BY TreeAssumption
<1>4. IsMainWindow(w) => ~ HasCaller(w)
  BY DEF IsMainWindow, HasCaller, IsSubWindow
<1>5. FindRoot(w) \in Roots
  BY DEF FindRoot, Roots
<1> QED BY <1>1, <1>2, <1>3, <1>4, <1>5

(* A window is taken out of its parent's list. *)
LEMMA TakeOut ==
  ASSUME NEW s, TreeOK(s, {}), NEW w \in Windows, s.parent[w] # Null,
         NEW t, t = SetKids(s, s.parent[w], RemoveFirst(s.kids[s.parent[w]], w))
  PROVE  TreeOK(t, {w}) /\ t.parent = s.parent /\ t.prio = s.prio /\ SameRest(s, t)
<1> DEFINE p == s.parent[w]
           q == s.kids[p]
           r == RemoveFirst(q, w)
<1>1. s \in States /\ p \in Nodes /\ q \in Seq(Windows)
  BY DEF TreeOK, States
<1>2. IsInjective(q) /\ Sorted(q, s.prio)
  BY <1>1 DEF TreeOK, Linked, Ordered
<1>3. t = SetKids(s, p, r)
  OBVIOUS
<1>4. r \in Seq(Windows) /\ ToSet(r) = ToSet(q) \ {w} /\ InOrderOf(r, q) /\ IsInjective(r)
  <2> HIDE DEF q
  <2> QED BY <1>1, <1>2, RemoveOK
<1> HIDE DEF r
<1>5. t \in States /\ t.kids = [s.kids EXCEPT ![p] = r] /\ t.parent = s.parent /\ t.prio = s.prio /\ SameRest(s, t)
  <2> HIDE DEF p
  <2> QED BY <1>1, <1>3, <1>4, KidsChange
<1>6. t.kids[p] = r /\ \A x \in Nodes \ {p} : t.kids[x] = s.kids[x]
  BY <1>1, <1>5 DEF States
<1>7. Linked(t, {w})
  <2> SUFFICES ASSUME NEW x \in Nodes
               PROVE  /\ IsInjective(t.kids[x])
                      /\ ToSet(t.kids[x]) = {v \in Windows : t.parent[v] = x} \ {w}
    BY DEF Linked
  <2>1. IsInjective(s.kids[x]) /\ ToSet(s.kids[x]) = {v \in Windows : s.parent[v] = x}
    BY DEF TreeOK, Linked
  <2>2. CASE x = p
    BY <1>4, <1>5, <1>6, <2>1, <2>2
  <2>3. CASE x # p
    BY <1>5, <1>6, <2>1, <2>3
  <2> QED BY <2>2, <2>3
<1>8. Ordered(t)
  <2> SUFFICES ASSUME NEW x \in Nodes PROVE Sorted(t.kids[x], t.prio)
    BY DEF Ordered
  <2>1. Sorted(s.kids[x], s.prio)
    BY DEF TreeOK, Ordered
  <2>2. Sorted(r, s.prio)
    BY <1>2, <1>4, SortedStays
  <2> QED BY <1>5, <1>6, <2>1, <2>2
<1>9. Placed(t) /\ Ranked(t, {w})
  BY <1>5 DEF TreeOK, Placed, Ranked
<1> QED BY <1>5, <1>7, <1>8, <1>9 DEF TreeOK

Lifted(s, src) == {x \in ShowWhenLocked : s.parent[x] = src}

ReZOrdered(s, up, src, dst, t) ==
    /\ SameRest(s, t)
    /\ \A x \in Windows : t.parent[x] = IF x \in Lifted(s, src) THEN dst ELSE s.parent[x]
    /\ \A x \in Windows : t.prio[x] = IF x \in Lifted(s, src) THEN (IF up THEN 115 ELSE 0) ELSE s.prio[x]

(* The show-when-locked windows go over the keyguard, or back. *)
LEMMA ReZOrderOK ==
  ASSUME NEW s, NEW out, TreeOK(s, out), out \cap ShowWhenLocked = {}, NEW up \in BOOLEAN,
         NEW t, t = ReZOrderShowWhenLockedWindows(s, up),
         NEW src, src = IF up THEN "APP" ELSE "ABOVE", NEW dst, dst = IF up THEN "ABOVE" ELSE "APP"
  PROVE  TreeOK(t, out) /\ ReZOrdered(s, up, src, dst, t)
<1> DEFINE k == IF up THEN 115 ELSE 0
           q == s.kids[src]
           moved == Only(q, ShowWhenLocked)
           rest == Only(q, Windows \ ShowWhenLocked)
           u == SetKids(s, src, rest)
           v == InsertByPriority(u, dst, moved, k)
           M == Lifted(s, src)
<1>1. s \in States /\ src \in Nodes /\ dst \in Nodes /\ src # dst /\ src \in Roots /\ dst \in Roots /\ k \in Ranks
  BY RootFacts DEF TreeOK, Ranks
<1>2. q \in Seq(Windows) /\ IsInjective(q) /\ Sorted(q, s.prio)
  BY <1>1 DEF TreeOK, States, Linked, Ordered
<1>3. ToSet(q) = {x \in Windows : s.parent[x] = src} \ out
  BY <1>1 DEF TreeOK, Linked
<1>4. moved \in Seq(Windows) /\ ToSet(moved) = ToSet(q) \cap ShowWhenLocked /\ IsInjective(moved)
  <2> HIDE DEF q
  <2> QED BY <1>2, OnlyOK
<1>5. rest \in Seq(Windows) /\ ToSet(rest) = ToSet(q) \cap (Windows \ ShowWhenLocked) /\ IsInjective(rest) /\ InOrderOf(rest, q)
  <2> HIDE DEF q
  <2> QED BY <1>2, OnlyOK
<1>6. ToSet(moved) = M /\ M \subseteq Windows
  <2>1. ShowWhenLocked \subseteq Windows
    BY FlaggedFacts
  <2> HIDE DEF moved, q
  <2> QED BY <1>3, <1>4, <2>1 DEF Lifted
<1>7. t = Rehome(v, ToSet(moved), dst, k)
  BY PriorityOK DEF ReZOrderShowWhenLockedWindows, SetKids
<1> HIDE DEF moved, rest
<1>8. u \in States /\ u.kids = [s.kids EXCEPT ![src] = rest] /\ u.parent = s.parent /\ u.prio = s.prio /\ SameRest(s, u)
  BY <1>1, <1>5, KidsChange
<1>9. u.kids[src] = rest /\ u.kids[dst] = s.kids[dst] /\ \A x \in Nodes \ {src} : u.kids[x] = s.kids[x]
  BY <1>1, <1>8 DEF States
<1> HIDE DEF u, k
<1>10. /\ IsInjective(s.kids[dst]) /\ Sorted(s.kids[dst], s.prio)
       /\ ToSet(s.kids[dst]) = {x \in Windows : s.parent[x] = dst} \ out
  BY <1>1 DEF TreeOK, Linked, Ordered
<1>11. Sorted(u.kids[dst], u.prio)
  BY <1>8, <1>9, <1>10
<1>12. Inserted(u, dst, moved, k, v)
  <2>1. v = InsertByPriority(u, dst, moved, k)
    OBVIOUS
  <2> HIDE DEF v
  <2> QED BY <1>1, <1>4, <1>8, <1>11, <2>1, InsertOK
<1> HIDE DEF v
<1> USE DEF Inserted
<1> DEFINE parent == [x \in Windows |-> IF x \in M THEN dst ELSE s.parent[x]]
           prio == [x \in Windows |-> IF x \in M THEN k ELSE s.prio[x]]
<1>13. t = [v EXCEPT !.prio = prio, !.parent = parent]
  <2>1. t = [v EXCEPT !.prio = [w \in Windows |-> IF w \in M THEN k ELSE v.prio[w]],
                      !.parent = [w \in Windows |-> IF w \in M THEN dst ELSE v.parent[w]]]
    BY <1>6, <1>7 DEF Rehome
  <2>2. v.prio = s.prio /\ v.parent = s.parent
    BY <1>8, <1>12
  <2> QED BY <2>1, <2>2
<1>14. parent \in [Windows -> Nodes \cup {Null}] /\ prio \in [Windows -> Ranks]
  BY <1>1 DEF States
<1> HIDE DEF parent, prio, M
<1>15. t \in States /\ t.kids = v.kids /\ t.parent = parent /\ t.prio = prio /\ SameRest(v, t)
  <2>1. t = SetTree(v, v.kids, parent, prio)
    BY <1>12, <1>13 DEF States, SetTree
  <2>2. v.kids \in [Nodes -> Seq(Windows)]
    BY <1>12 DEF States
  <2>3. v \in States
    BY <1>12
  <2>4. Changed(v, v.kids, parent, prio, t)
    BY ONLY <1>14, <2>1, <2>2, <2>3, TreeChange
  <2> QED BY <2>4 DEF Changed
<1>16. SameRest(s, t)
  BY <1>8, <1>12, <1>15 DEF SameRest
<1>17. /\ \A x \in Windows : t.parent[x] = IF x \in M THEN dst ELSE s.parent[x]
       /\ \A x \in Windows : t.prio[x] = IF x \in M THEN k ELSE s.prio[x]
  BY <1>15 DEF parent, prio
<1>18. \A x \in M : s.parent[x] = src /\ x \notin out /\ x \in ShowWhenLocked /\ x \in Windows
  BY <1>6 DEF M, Lifted
<1>19. /\ t.kids[src] = rest
       /\ \A x \in Nodes \ {src, dst} : t.kids[x] = s.kids[x]
       /\ t.kids[dst] = v.kids[dst] /\ ToSet(t.kids[dst]) = ToSet(s.kids[dst]) \cup M /\ IsInjective(t.kids[dst])
  <2>1. ToSet(s.kids[dst]) \cap M = {}
    BY <1>1, <1>10, <1>18
  <2> QED BY <1>1, <1>4, <1>6, <1>9, <1>10, <1>12, <1>15, <2>1
<1>20. Linked(t, out)
  <2> SUFFICES ASSUME NEW x \in Nodes
               PROVE  IsInjective(t.kids[x]) /\ ToSet(t.kids[x]) = {w \in Windows : t.parent[w] = x} \ out
    BY DEF Linked
  <2>1. IsInjective(s.kids[x]) /\ ToSet(s.kids[x]) = {w \in Windows : s.parent[w] = x} \ out
    BY DEF TreeOK, Linked
  <2>2. CASE x = src
    <3>1. {w \in Windows : t.parent[w] = src} = {w \in Windows : s.parent[w] = src} \ M
      BY <1>1, <1>17, <1>18
    <3>2. ToSet(rest) = ({w \in Windows : s.parent[w] = src} \ out) \ M
      BY <1>3, <1>5, <1>18 DEF M, Lifted
    <3> QED BY <1>5, <1>19, <2>2, <3>1, <3>2
  <2>3. CASE x = dst
    <3>1. {w \in Windows : t.parent[w] = dst} = {w \in Windows : s.parent[w] = dst} \cup M
      BY <1>1, <1>17, <1>18
    <3>2. ({w \in Windows : s.parent[w] = dst} \cup M) \ out = ({w \in Windows : s.parent[w] = dst} \ out) \cup M
      BY <1>18
    <3> QED BY <1>10, <1>19, <2>3, <3>1, <3>2
  <2>4. CASE x # src /\ x # dst
    <3>1. {w \in Windows : t.parent[w] = x} = {w \in Windows : s.parent[w] = x}
      BY <1>17, <1>18, <2>4
    <3> QED BY <1>19, <2>1, <2>4, <3>1
  <2> QED BY <2>2, <2>3, <2>4
<1>21. Ordered(t)
  <2> SUFFICES ASSUME NEW x \in Nodes PROVE Sorted(t.kids[x], t.prio)
    BY DEF Ordered
  <2>1. Sorted(s.kids[x], s.prio) /\ ToSet(s.kids[x]) = {w \in Windows : s.parent[w] = x} \ out
    BY DEF TreeOK, Ordered, Linked
  <2>2. CASE x = src
    <3>1. Sorted(rest, s.prio)
      BY <1>2, <1>5, SortedStays
    <3>2. \A w \in ToSet(rest) : t.prio[w] = s.prio[w]
      BY <1>5, <1>17, <1>18
    <3> QED BY <1>19, <2>2, <3>1, <3>2, SortedSame
  <2>3. CASE x = dst
    <3>1. \A w \in ToSet(u.kids[dst]) : t.prio[w] = u.prio[w]
      BY <1>1, <1>8, <1>9, <1>10, <1>17, <1>18
    <3>2. \A w \in ToSet(moved) : t.prio[w] = k
      BY <1>6, <1>17, <1>18
    <3> QED BY <1>12, <1>19, <2>3, <3>1, <3>2
  <2>4. CASE x # src /\ x # dst
    <3>1. \A w \in ToSet(s.kids[x]) : t.prio[w] = s.prio[w]
      BY <1>17, <1>18, <2>1, <2>4
    <3> QED BY <1>19, <2>1, <2>4, <3>1, SortedSame
  <2> QED BY <2>2, <2>3, <2>4
<1>22. Placed(t)
  <2> SUFFICES ASSUME NEW w \in Windows
               PROVE  /\ t.parent[w] \in Windows => HasCaller(w) /\ t.parent[w] = Caller[w]
                      /\ t.parent[w] \in Roots => t.parent[w] = FindRoot(w) \/ (Flagged(w) /\ t.parent[w] = "ABOVE")
    BY DEF Placed
  <2>1. CASE w \in M
    <3>1. t.parent[w] = dst /\ Flagged(w) /\ FindRoot(w) = "APP" /\ dst \notin Windows /\ dst \in {"APP", "ABOVE"}
      BY <1>1, <1>17, <1>18, <2>1, FlaggedFacts, RootFacts
    <3>2. CASE dst = "APP"
      <4>1. t.parent[w] = FindRoot(w)
        BY <3>1, <3>2
      <4> QED BY <3>1, <4>1
    <3>3. CASE dst = "ABOVE"
      BY <3>1, <3>3
    <3> QED BY <3>1, <3>2, <3>3
  <2>2. CASE w \notin M
    <3>1. t.parent[w] = s.parent[w]
      BY <1>17, <2>2
    <3> QED BY <3>1 DEF TreeOK, Placed
  <2> QED BY <2>1, <2>2
<1>23. Ranked(t, out)
  <2> SUFFICES ASSUME NEW w \in Windows \ out, t.parent[w] # Null PROVE RankOK(w, t.prio[w])
    BY DEF Ranked
  <2>1. CASE w \in M
    <3>1. Flagged(w) /\ Type[w] = "APP_MAIN_WINDOW" /\ t.prio[w] = k
      BY <1>17, <1>18, <2>1, FlaggedFacts
    <3> QED BY <3>1, PriorityOK DEF RankOK, k
  <2>2. CASE w \notin M
    <3>1. t.parent[w] = s.parent[w] /\ t.prio[w] = s.prio[w]
      BY <1>17, <2>2
    <3> QED BY <3>1 DEF TreeOK, Ranked
  <2> QED BY <2>1, <2>2
<1> QED BY <1>15, <1>16, <1>17, <1>20, <1>21, <1>22, <1>23 DEF TreeOK, M, k, ReZOrdered

-----------------------------------------------------------------------------
Rank(s, w) == IF RaisedOverKeyguard(s, w) THEN 115
              ELSE IF Type[w] = "INPUT_METHOD_FLOAT" /\ s.locked THEN 116
              ELSE PriorityMap[Type[w]]
Goes(s, w, x) == Type[w] = "KEYGUARD" /\ x \in Lifted(s, "APP")

(* t is s with w put among the children of its parent. *)
Updated(s, w, t) ==
    /\ TreeOK(t, {}) /\ SameRest(s, t)
    /\ \A x \in Windows \ {w} : /\ t.parent[x] = IF Goes(s, w, x) THEN "ABOVE" ELSE s.parent[x]
                                /\ t.prio[x] = IF Goes(s, w, x) THEN 115 ELSE s.prio[x]
    /\ t.parent[w] = IF RaisedOverKeyguard(s, w) THEN "ABOVE" ELSE s.parent[w]
    /\ t.prio[w] = Rank(s, w)

LEMMA RankIsOK ==
  ASSUME NEW s, NEW w \in Windows
  PROVE  Rank(s, w) \in Ranks /\ RankOK(w, Rank(s, w))
<1>1. PriorityMap[Type[w]] \in Ranks /\ 115 \in Ranks /\ 116 \in Ranks
  BY TypeFacts DEF Ranks
<1> QED BY <1>1 DEF Rank, RankOK, RaisedOverKeyguard

(* A window that is out of its list changes its parent and priority. *)
LEMMA Reparent ==
  ASSUME NEW s, NEW w \in Windows, TreeOK(s, {w}), NEW p \in Nodes, NEW k \in Ranks,
         (p \in Windows => HasCaller(w) /\ p = Caller[w]),
         (p \in Roots => p = FindRoot(w) \/ (Flagged(w) /\ p = "ABOVE")),
         NEW t, t = SetTree(s, s.kids, [s.parent EXCEPT ![w] = p], [s.prio EXCEPT ![w] = k])
  PROVE  TreeOK(t, {w}) /\ Changed(s, s.kids, [s.parent EXCEPT ![w] = p], [s.prio EXCEPT ![w] = k], t)
<1> DEFINE parent == [s.parent EXCEPT ![w] = p]
           prio == [s.prio EXCEPT ![w] = k]
<1>1. s \in States /\ s.kids \in [Nodes -> Seq(Windows)] /\ s.parent \in [Windows -> Nodes \cup {Null}]
      /\ s.prio \in [Windows -> Ranks]
  BY DEF TreeOK, States
<1>2. parent \in [Windows -> Nodes \cup {Null}] /\ prio \in [Windows -> Ranks]
  BY <1>1
<1>3. /\ parent[w] = p /\ prio[w] = k
      /\ \A x \in Windows : x # w => parent[x] = s.parent[x] /\ prio[x] = s.prio[x]
  BY <1>1
<1> HIDE DEF parent, prio
<1>4. Changed(s, s.kids, parent, prio, t)
  <2>1. t = SetTree(s, s.kids, parent, prio)
    BY DEF parent, prio
  <2> QED BY ONLY <1>1, <1>2, <2>1, TreeChange
<1>5. t \in States /\ t.kids = s.kids /\ t.parent = parent /\ t.prio = prio
  BY <1>4 DEF Changed
<1>6. \A x \in Nodes : w \notin ToSet(s.kids[x])
  BY DEF TreeOK, Linked
<1>7. Linked(t, {w})
  <2> SUFFICES ASSUME NEW x \in Nodes
               PROVE  IsInjective(t.kids[x]) /\ ToSet(t.kids[x]) = {v \in Windows : t.parent[v] = x} \ {w}
    BY DEF Linked
  <2>1. IsInjective(s.kids[x]) /\ ToSet(s.kids[x]) = {v \in Windows : s.parent[v] = x} \ {w}
    BY DEF TreeOK, Linked
  <2>2. {v \in Windows : t.parent[v] = x} \ {w} = {v \in Windows : s.parent[v] = x} \ {w}
    BY <1>3, <1>5
  <2> QED BY <1>5, <2>1, <2>2
<1>8. Ordered(t)
  <2> SUFFICES ASSUME NEW x \in Nodes PROVE Sorted(t.kids[x], t.prio)
    BY DEF Ordered
  <2>1. Sorted(s.kids[x], s.prio) /\ ToSet(s.kids[x]) = {v \in Windows : s.parent[v] = x} \ {w}
    BY DEF TreeOK, Ordered, Linked
  <2>2. \A v \in ToSet(s.kids[x]) : t.prio[v] = s.prio[v]
    BY <1>3, <1>5, <2>1
  <2> QED BY <1>5, <2>1, <2>2, SortedSame
<1>9. Placed(t)
  <2> SUFFICES ASSUME NEW v \in Windows
               PROVE  /\ t.parent[v] \in Windows => HasCaller(v) /\ t.parent[v] = Caller[v]
                      /\ t.parent[v] \in Roots => t.parent[v] = FindRoot(v) \/ (Flagged(v) /\ t.parent[v] = "ABOVE")
    BY DEF Placed
  <2>1. CASE v = w
    BY <1>3, <1>5, <2>1
  <2>2. CASE v # w
    <3>1. t.parent[v] = s.parent[v]
      BY <1>3, <1>5, <2>2
    <3> QED BY <3>1 DEF TreeOK, Placed
  <2> QED BY <2>1, <2>2
<1>10. Ranked(t, {w})
  BY <1>3, <1>5 DEF TreeOK, Ranked
<1> QED BY <1>4, <1>5, <1>7, <1>8, <1>9, <1>10 DEF TreeOK, parent, prio

(* A window out of its list is put into that of its parent. *)
LEMMA PutIn ==
  ASSUME NEW s, NEW w \in Windows, TreeOK(s, {w}), s.parent[w] # Null, RankOK(w, s.prio[w]),
         NEW t, t = InsertByPriority(s, s.parent[w], <<w>>, s.prio[w])
  PROVE  TreeOK(t, {}) /\ t.parent = s.parent /\ t.prio = s.prio /\ SameRest(s, t)
<1> DEFINE p == s.parent[w]
           k == s.prio[w]
           one == <<w>>
<1>1. s \in States /\ p \in Nodes /\ k \in Ranks
  BY DEF TreeOK, States
<1>2. one \in Seq(Windows) /\ ToSet(one) = {w} /\ IsInjective(one)
  <2>1. one \in Seq(Windows) /\ DOMAIN one = {1} /\ one[1] = w
    OBVIOUS
  <2> HIDE DEF one
  <2> QED BY <2>1 DEF ToSet, IsInjective
<1>3. IsInjective(s.kids[p]) /\ Sorted(s.kids[p], s.prio) /\ ToSet(s.kids[p]) = {v \in Windows : s.parent[v] = p} \ {w}
  BY <1>1 DEF TreeOK, Linked, Ordered
<1>4. Inserted(s, p, one, k, t)
  <2>1. t = InsertByPriority(s, p, one, k)
    OBVIOUS
  <2> HIDE DEF p, k, one
  <2> QED BY ONLY <1>1, <1>2, <1>3, <2>1, InsertOK
<1> HIDE DEF one
<1>5. /\ t \in States /\ t.parent = s.parent /\ t.prio = s.prio /\ SameRest(s, t)
      /\ \A q \in Nodes \ {p} : t.kids[q] = s.kids[q]
      /\ ToSet(t.kids[p]) = ToSet(s.kids[p]) \cup {w}
  BY <1>2, <1>4 DEF Inserted
<1>6. IsInjective(t.kids[p])
  <2>1. ToSet(s.kids[p]) \cap ToSet(one) = {}
    BY <1>2, <1>3
  <2> QED BY <1>2, <1>3, <1>4, <2>1 DEF Inserted
<1>7. Sorted(t.kids[p], t.prio)
  <2>1. /\ \A x \in ToSet(s.kids[p]) : t.prio[x] = s.prio[x]
        /\ \A x \in ToSet(one) : t.prio[x] = k
    BY <1>2, <1>5
  <2> HIDE DEF k, p
  <2> QED BY <1>4, <2>1 DEF Inserted
<1>8. Linked(t, {})
  <2> SUFFICES ASSUME NEW x \in Nodes
               PROVE  IsInjective(t.kids[x]) /\ ToSet(t.kids[x]) = {v \in Windows : t.parent[v] = x} \ {}
    BY DEF Linked
  <2>1. IsInjective(s.kids[x]) /\ ToSet(s.kids[x]) = {v \in Windows : s.parent[v] = x} \ {w}
    BY DEF TreeOK, Linked
  <2>2. CASE x = p
    BY <1>3, <1>5, <1>6, <2>2
  <2>3. CASE x # p
    BY <1>5, <2>1, <2>3
  <2> QED BY <2>2, <2>3
<1>9. Ordered(t)
  <2> SUFFICES ASSUME NEW x \in Nodes PROVE Sorted(t.kids[x], t.prio)
    BY DEF Ordered
  <2>1. Sorted(s.kids[x], s.prio)
    BY DEF TreeOK, Ordered
  <2> QED BY <1>5, <1>7, <2>1
<1>10. Placed(t) /\ Ranked(t, {})
  BY <1>5 DEF TreeOK, Placed, Ranked
<1> QED BY <1>5, <1>8, <1>9, <1>10 DEF TreeOK

LEMMA UpdateOK ==
  ASSUME NEW s, NEW w \in Windows, TreeOK(s, {w}), s.parent[w] # Null, NEW t, t = UpdateWindowTree(s, w)
  PROVE  Updated(s, w, t)
<1> DEFINE raised == RaisedOverKeyguard(s, w)
           k == Rank(s, w)
           a == IF Type[w] = "KEYGUARD" THEN ReZOrderShowWhenLockedWindows(s, TRUE) ELSE s
           p == IF raised THEN "ABOVE" ELSE a.parent[w]
           u == SetTree(a, a.kids, [a.parent EXCEPT ![w] = p], [a.prio EXCEPT ![w] = k])
<1>1. s \in States /\ s.parent[w] \in Nodes
  BY DEF TreeOK, States
<1>2. /\ TreeOK(a, {w}) /\ SameRest(s, a)
      /\ \A x \in Windows : /\ a.parent[x] = IF Goes(s, w, x) THEN "ABOVE" ELSE s.parent[x]
                            /\ a.prio[x] = IF Goes(s, w, x) THEN 115 ELSE s.prio[x]
  <2>1. CASE Type[w] = "KEYGUARD"
    <3>1. w \notin ShowWhenLocked
      BY <2>1, FlaggedFacts
    <3>2. a = ReZOrderShowWhenLockedWindows(s, TRUE) /\ {w} \cap ShowWhenLocked = {}
      BY <2>1, <3>1
    <3> HIDE DEF a
    <3>3. /\ TreeOK(a, {w}) /\ SameRest(s, a)
          /\ \A x \in Windows : a.parent[x] = IF x \in Lifted(s, "APP") THEN "ABOVE" ELSE s.parent[x]
          /\ \A x \in Windows : a.prio[x] = IF x \in Lifted(s, "APP") THEN (IF TRUE THEN 115 ELSE 0) ELSE s.prio[x]
      <4>1. TreeOK(a, {w}) /\ ReZOrdered(s, TRUE, "APP", "ABOVE", a)
        BY <3>2, ReZOrderOK
      <4> QED BY <4>1 DEF ReZOrdered
    <3> QED BY <2>1, <3>3 DEF Goes
  <2>2. CASE Type[w] # "KEYGUARD"
    BY <2>2 DEF Goes, SameRest
  <2> QED BY <2>1, <2>2
<1>3. ~ Goes(s, w, w)
  BY FlaggedFacts DEF Goes, Lifted
<1>4. t = InsertByPriority(u, p, <<w>>, k)
  <2>1. t = InsertByPriority([a EXCEPT !.prio[w] = k, !.parent[w] = p], [a EXCEPT !.prio[w] = k, !.parent[w] = p].parent[w], <<w>>, k)
    BY PriorityOK DEF UpdateWindowTree, Rank
  <2> HIDE DEF k, p
  <2>2. a \in States
    BY <1>2 DEF TreeOK
  <2> HIDE DEF a
  <2>3. [a EXCEPT !.prio[w] = k, !.parent[w] = p] = u
    BY <2>2 DEF SetTree, States
  <2>4. u.parent[w] = p
    BY <2>2 DEF SetTree, States
  <2> HIDE DEF u
  <2> QED BY <2>1, <2>3, <2>4
<1>5. k \in Ranks /\ RankOK(w, k)
  BY RankIsOK
<1>6. /\ p \in Nodes /\ (p \in Windows => HasCaller(w) /\ p = Caller[w])
      /\ (p \in Roots => p = FindRoot(w) \/ (Flagged(w) /\ p = "ABOVE"))
  <2>1. CASE raised
    BY <2>1, RootFacts DEF RaisedOverKeyguard
  <2>2. CASE ~ raised
    <3>1. p = s.parent[w]
      BY <1>2, <1>3, <2>2
    <3> HIDE DEF p
    <3> QED BY <1>1, <3>1 DEF TreeOK, Placed
  <2> QED BY <2>1, <2>2
<1>7. TreeOK(u, {w}) /\ Changed(a, a.kids, [a.parent EXCEPT ![w] = p], [a.prio EXCEPT ![w] = k], u)
  <2>1. TreeOK(a, {w})
    BY <1>2
  <2> HIDE DEF a, p, k, raised
  <2>2. u = SetTree(a, a.kids, [a.parent EXCEPT ![w] = p], [a.prio EXCEPT ![w] = k])
    OBVIOUS
  <2> HIDE DEF u
  <2> QED BY ONLY <1>5, <1>6, <2>1, <2>2, w \in Windows, Reparent
<1>8. a.parent \in [Windows -> Nodes \cup {Null}] /\ a.prio \in [Windows -> Ranks]
  BY <1>2 DEF TreeOK, States
<1>9. p = IF RaisedOverKeyguard(s, w) THEN "ABOVE" ELSE s.parent[w]
  BY <1>2, <1>3
<1> HIDE DEF a, u, p, k
<1>10. /\ u.parent[w] = p /\ u.prio[w] = k /\ SameRest(a, u)
       /\ \A x \in Windows \ {w} : u.parent[x] = a.parent[x] /\ u.prio[x] = a.prio[x]
  BY <1>7, <1>8 DEF Changed
<1>11. TreeOK(t, {}) /\ t.parent = u.parent /\ t.prio = u.prio /\ SameRest(u, t)
  <2>1. t = InsertByPriority(u, u.parent[w], <<w>>, u.prio[w]) /\ u.parent[w] # Null
    BY <1>4, <1>6, <1>10, RootFacts
  <2> QED BY <1>5, <1>7, <1>10, <2>1, PutIn
<1>12. SameRest(s, t)
  BY <1>2, <1>10, <1>11 DEF SameRest
<1> QED BY <1>2, <1>9, <1>10, <1>11, <1>12 DEF Updated, k

-----------------------------------------------------------------------------
(* The z order.  x comes before y in f. *)
InOrder(f, x, y) == \E k, l \in DOMAIN f : k < l /\ f[k] = x /\ f[l] = y

LEMMA InjectiveMeans ==
  ASSUME NEW S, NEW f \in Seq(S)
  PROVE  IsInjective(f) <=> \A x \in S : ~ InOrder(f, x, x)
<1>1. DOMAIN f = 1 .. Len(f) /\ Len(f) \in Nat /\ \A i \in DOMAIN f : f[i] \in S
  BY LenProperties
<1>2. ASSUME IsInjective(f), NEW x \in S PROVE ~ InOrder(f, x, x)
  BY <1>1, <1>2 DEF InOrder, IsInjective
<1>3. ASSUME \A x \in S : ~ InOrder(f, x, x) PROVE IsInjective(f)
  <2> SUFFICES ASSUME NEW a \in DOMAIN f, NEW b \in DOMAIN f, f[a] = f[b], a # b PROVE FALSE
    BY DEF IsInjective
  <2>1. a < b \/ b < a
    BY <1>1
  <2> QED BY <1>1, <1>3, <2>1 DEF InOrder
<1> QED BY <1>2, <1>3

LEMMA OrderStays ==
  ASSUME NEW q, NEW r, InOrderOf(r, q), NEW x, NEW y, InOrder(r, x, y)
  PROVE  InOrder(q, x, y)
BY DEF InOrderOf, InOrder

(* What comes before what in two lists one behind the other. *)
Joined(S, q, v, r) ==
    /\ r \in Seq(S) /\ ToSet(r) = ToSet(q) \cup ToSet(v)
    /\ \A x, y \in S : InOrder(r, x, y) =>
         InOrder(q, x, y) \/ InOrder(v, x, y) \/ (x \in ToSet(q) /\ y \in ToSet(v))

LEMMA JoinOK ==
  ASSUME NEW S, NEW q \in Seq(S), NEW v \in Seq(S), NEW r, r = q \o v
  PROVE  Joined(S, q, v, r)
<1>1. /\ DOMAIN q = 1 .. Len(q) /\ DOMAIN v = 1 .. Len(v) /\ Len(q) \in Nat /\ Len(v) \in Nat
  BY LenProperties
<1>2. /\ r \in Seq(S) /\ Len(r) = Len(q) + Len(v)
      /\ \A i \in 1 .. Len(q) + Len(v) : r[i] = IF i <= Len(q) THEN q[i] ELSE v[i - Len(q)]
  <2>1. /\ q \o v \in Seq(S) /\ Len(q \o v) = Len(q) + Len(v)
        /\ \A i \in 1 .. Len(q) + Len(v) : (q \o v)[i] = IF i <= Len(q) THEN q[i] ELSE v[i - Len(q)]
    BY ConcatProperties
  <2> QED BY <2>1
<1>3. DOMAIN r = 1 .. Len(q) + Len(v)
  BY <1>2, LenProperties
<1>4. \A i \in DOMAIN r : \/ i \in DOMAIN q /\ r[i] = q[i]
                          \/ i > Len(q) /\ i - Len(q) \in DOMAIN v /\ r[i] = v[i - Len(q)]
  BY <1>1, <1>2, <1>3
<1>5. \A i \in DOMAIN q : i \in DOMAIN r /\ r[i] = q[i]
  BY <1>1, <1>2, <1>3
<1>6. \A i \in DOMAIN v : i + Len(q) \in DOMAIN r /\ r[i + Len(q)] = v[i]
  <2> SUFFICES ASSUME NEW i \in DOMAIN v PROVE i + Len(q) \in DOMAIN r /\ r[i + Len(q)] = v[i]
    OBVIOUS
  <2>1. i + Len(q) \in 1 .. Len(q) + Len(v) /\ ~ (i + Len(q) <= Len(q)) /\ (i + Len(q)) - Len(q) = i
    BY <1>1
  <2> QED BY <1>2, <1>3, <2>1
<1>7. ToSet(r) = ToSet(q) \cup ToSet(v)
  <2>1. \A x \in ToSet(r) : x \in ToSet(q) \cup ToSet(v)
    BY <1>4 DEF ToSet
  <2>2. \A x \in ToSet(q) : x \in ToSet(r)
    BY <1>5 DEF ToSet
  <2>3. \A x \in ToSet(v) : x \in ToSet(r)
    BY <1>6 DEF ToSet
  <2> QED BY <2>1, <2>2, <2>3
<1>8. ASSUME NEW x \in S, NEW y \in S, InOrder(r, x, y)
      PROVE  InOrder(q, x, y) \/ InOrder(v, x, y) \/ (x \in ToSet(q) /\ y \in ToSet(v))
  <2>1. PICK k \in DOMAIN r, l \in DOMAIN r : k < l /\ r[k] = x /\ r[l] = y
    BY <1>8 DEF InOrder
  <2>2. k \in Nat /\ l \in Nat
    BY <1>3
  <2>3. CASE k \in DOMAIN q /\ r[k] = q[k]
    <3>1. CASE l \in DOMAIN q /\ r[l] = q[l]
      BY <2>1, <2>3, <3>1 DEF InOrder
    <3>2. CASE l > Len(q) /\ l - Len(q) \in DOMAIN v /\ r[l] = v[l - Len(q)]
      BY <2>1, <2>3, <3>2 DEF ToSet
    <3> QED BY <1>4, <3>1, <3>2
  <2>4. CASE k > Len(q) /\ k - Len(q) \in DOMAIN v /\ r[k] = v[k - Len(q)]
    <3>1. l > Len(q)
      BY <1>1, <2>1, <2>2, <2>4
    <3>2. l \notin DOMAIN q
      BY <1>1, <2>2, <3>1
    <3>3. l - Len(q) \in DOMAIN v /\ r[l] = v[l - Len(q)]
      BY <1>4, <3>2
    <3>4. k - Len(q) < l - Len(q)
      BY <1>1, <2>1, <2>2
    <3> QED BY <2>1, <2>4, <3>3, <3>4 DEF InOrder
  <2> QED BY <1>4, <2>3, <2>4
<1> QED BY <1>2, <1>7, <1>8 DEF Joined

(* The first n of a list of lists, one behind the other. *)
FlatOf(f, S, qs, n) ==
    /\ f \in Seq(S) /\ ToSet(f) = {x \in S : \E i \in 1 .. n : x \in ToSet(qs[i])}
    /\ \A x, y \in S : InOrder(f, x, y) =>
         \/ \E i \in 1 .. n : InOrder(qs[i], x, y)
         \/ \E i, j \in 1 .. n : i < j /\ x \in ToSet(qs[i]) /\ y \in ToSet(qs[j])

LEMMA ElementsOf ==
  ASSUME NEW S, NEW q \in Seq(S)
  PROVE  ToSet(q) \subseteq S
BY LenProperties DEF ToSet

LEMMA FlatStep ==
  ASSUME NEW S, NEW qs \in Seq(Seq(S)), NEW n \in 1 .. Len(qs), NEW f, FlatOf(f, S, qs, n - 1),
         NEW g, g = f \o qs[n]
  PROVE  FlatOf(g, S, qs, n)
<1>1. Len(qs) \in Nat /\ n \in Nat /\ qs[n] \in Seq(S) /\ f \in Seq(S)
  BY LenProperties DEF FlatOf
<1>2. Joined(S, f, qs[n], g)
  <2> DEFINE v == qs[n]
  <2>1. v \in Seq(S) /\ g = f \o v
    BY <1>1
  <2> HIDE DEF v
  <2>2. Joined(S, f, v, g)
    BY <1>1, <2>1, JoinOK
  <2> QED BY <2>2 DEF v
<1>3. \A i : i \in 1 .. n <=> i \in 1 .. n - 1 \/ i = n
  BY <1>1
<1>4. ToSet(qs[n]) \subseteq S
  BY <1>1, ElementsOf
<1>5. ToSet(g) = {x \in S : \E i \in 1 .. n : x \in ToSet(qs[i])}
  BY <1>2, <1>3, <1>4 DEF Joined, FlatOf
<1>6. ASSUME NEW x \in S, NEW y \in S, InOrder(g, x, y)
      PROVE  \/ \E i \in 1 .. n : InOrder(qs[i], x, y)
             \/ \E i, j \in 1 .. n : i < j /\ x \in ToSet(qs[i]) /\ y \in ToSet(qs[j])
  <2>1. CASE InOrder(f, x, y)
    BY <1>3, <2>1 DEF FlatOf
  <2>2. CASE InOrder(qs[n], x, y)
    BY <1>3, <2>2
  <2>3. CASE x \in ToSet(f) /\ y \in ToSet(qs[n])
    <3>1. PICK i \in 1 .. n - 1 : x \in ToSet(qs[i])
      BY <2>3 DEF FlatOf
    <3>2. i < n /\ i \in 1 .. n /\ n \in 1 .. n
      BY <1>1
    <3> QED BY <2>3, <3>1, <3>2
  <2> QED BY <1>2, <1>6, <2>1, <2>2, <2>3 DEF Joined
<1> QED BY <1>2, <1>5, <1>6 DEF Joined, FlatOf

LEMMA FlattenOK ==
  ASSUME NEW S, NEW qs \in Seq(Seq(S)), NEW r, r = FlattenSeq(qs)
  PROVE  FlatOf(r, S, qs, Len(qs))
<1> DEFINE N == Len(qs)
           step == [p \in (1 .. N) \X Seq(S) |-> p[2] \o qs[p[1]]]
           Joins(g) == g = [n \in 1 .. N |-> IF n = 1 THEN qs[n] ELSE g[n - 1] \o qs[n]]
           f == CHOOSE g : Joins(g)
<1>1. N \in Nat /\ \A n \in 1 .. N : qs[n] \in Seq(S)
  BY LenProperties
<1>0. FlatOf(<<>>, S, qs, 0)
  <2>1. <<>> \in Seq(S) /\ DOMAIN <<>> = {} /\ 1 .. 0 = {}
    BY EmptySeq
  <2> QED BY <2>1 DEF FlatOf, ToSet, InOrder
<1>2. CASE N = 0
  <2>1. qs = <<>>
    BY <1>2, EmptySeq
  <2>2. r = <<>>
    BY <1>2, <2>1 DEF FlattenSeq
  <2> QED BY <1>0, <1>2, <2>2
<1>3. CASE N # 0
  <2>1. \A n \in 1 .. N, x \in Seq(S) : step[<<n, x>>] = x \o qs[n]
    OBVIOUS
  <2>2. StaysIn(Seq(S), N, step)
    <3>1. \A n \in 1 .. N, x \in Seq(S) : x \o qs[n] \in Seq(S)
      BY <1>1, ConcatProperties
    <3> HIDE DEF step
    <3> QED BY <2>1, <3>1 DEF StaysIn
  <2>3. \E g : Joins(g)
    <3>1. <<>> \in Seq(S)
      BY EmptySeq
    <3> HIDE DEF step, N
    <3>2. PICK h : Follows(h, Seq(S), <<>>, N, step)
      <4> DEFINE X == Seq(S)
      <4>1. <<>> \in X /\ N \in Nat /\ StaysIn(X, N, step)
        BY <1>1, <2>2, <3>1
      <4> HIDE DEF X
      <4>2. \E g : Follows(g, X, <<>>, N, step)
        BY <4>1, Recursion
      <4> QED BY <4>2 DEF X
    <3> DEFINE g == [n \in 1 .. N |-> h[n]]
    <3>3. \A n \in 1 .. N : h[n - 1] \in Seq(S) /\ h[n] = h[n - 1] \o qs[n]
      <4>1. \A n \in 1 .. N : n - 1 \in 0 .. N
        BY <1>1
      <4> QED BY <2>1, <3>2, <4>1 DEF Follows
    <3>4. h[0] = <<>>
      BY <3>2 DEF Follows
    <3>5. \A n \in 1 .. N : g[n] = IF n = 1 THEN qs[n] ELSE g[n - 1] \o qs[n]
      <4> SUFFICES ASSUME NEW n \in 1 .. N PROVE g[n] = IF n = 1 THEN qs[n] ELSE g[n - 1] \o qs[n]
        OBVIOUS
      <4>1. CASE n = 1
        <5>1. h[1] = <<>> \o qs[1]
          <6>1. 1 \in 1 .. N /\ 1 - 1 = 0
            BY <4>1
          <6> QED BY <3>3, <3>4, <6>1
        <5>2. <<>> \o qs[1] = qs[1]
          BY <1>1, <4>1, ConcatEmptySeq
        <5> QED BY <4>1, <5>1, <5>2
      <4>2. CASE n # 1
        <5>1. n - 1 \in 1 .. N
          BY <1>1, <4>2
        <5> QED BY <3>3, <4>2, <5>1
      <4> QED BY <4>1, <4>2
    <3>6. Joins(g)
      <4> HIDE DEF g
      <4>1. g = [n \in 1 .. N |-> g[n]]
        BY DEF g
      <4> QED BY <3>5, <4>1
    <3> QED BY <3>6
  <2>4. Joins(f)
    <3> HIDE DEF Joins
    <3> QED BY <2>3
  <2>5. r = f[N]
    <3>1. Len(qs) # 0
      BY <1>3
    <3> QED BY <3>1 DEF FlattenSeq
  <2> HIDE DEF f
  <2>6. \A n \in 1 .. N : f[n] = IF n = 1 THEN qs[n] ELSE f[n - 1] \o qs[n]
    BY <2>4
  <2> HIDE DEF Joins, step
  <2> DEFINE T == {n \in 0 .. N : n = 0 \/ FlatOf(f[n], S, qs, n)}
  <2>7. 0 \in T
    BY <1>1
  <2>8. ASSUME NEW n \in 0 .. N, n \in T, n < N PROVE n + 1 \in T
    <3> DEFINE m == n + 1
               u == IF n = 0 THEN <<>> ELSE f[n]
               v == f[m]
    <3>1. m \in 1 .. Len(qs) /\ m - 1 = n /\ m \in 0 .. N /\ m # 0 /\ (n = 0 <=> m = 1)
      BY <1>1, <2>8
    <3>2. FlatOf(u, S, qs, m - 1)
      BY <1>0, <2>8, <3>1
    <3>3. v = u \o qs[m]
      <4>1. CASE n = 0
        <5>1. <<>> \o qs[m] = qs[m]
          BY <1>1, <3>1, ConcatEmptySeq
        <5> QED BY <2>6, <3>1, <4>1, <5>1
      <4>2. CASE n # 0
        BY <2>6, <3>1, <4>2
      <4> QED BY <4>1, <4>2
    <3> HIDE DEF m, u, v
    <3>4. FlatOf(v, S, qs, m)
      BY <3>1, <3>2, <3>3, FlatStep
    <3> QED BY <3>1, <3>4 DEF m, v
  <2>9. N \in T
    <3> HIDE DEF T
    <3>1. 0 .. N \subseteq T
      BY <1>1, <2>7, <2>8, UpTo
    <3> QED BY <1>1, <3>1
  <2> QED BY <1>3, <2>5, <2>9
<1> QED BY <1>2, <1>3

-----------------------------------------------------------------------------
(* The window of a root that x belongs to, and whether x is in the tree. *)
Top(s, x) == IF s.parent[x] \in Windows THEN s.parent[x] ELSE x
InT(s, x) == s.parent[Top(s, x)] \in Roots

LEMMA TopOK ==
  ASSUME NEW s, TreeOK(s, {}), NEW x \in Windows
  PROVE  /\ Top(s, x) \in Windows /\ s.parent[x] \in Nodes \cup {Null}
         /\ s.parent[Top(s, x)] \notin Windows
         /\ (x # Top(s, x) => HasCaller(x) /\ Caller[x] = Top(s, x) /\ IsMainWindow(Top(s, x)) /\ s.parent[x] = Top(s, x))
         /\ (x = Top(s, x) => s.parent[x] \notin Windows)
<1>1. s.parent \in [Windows -> Nodes \cup {Null}]
  BY DEF TreeOK, States
<1>2. ASSUME s.parent[x] \in Windows
      PROVE  HasCaller(x) /\ s.parent[x] = Caller[x] /\ IsMainWindow(s.parent[x]) /\ s.parent[s.parent[x]] \notin Windows
  <2>1. HasCaller(x) /\ s.parent[x] = Caller[x] /\ IsMainWindow(Caller[x])
    BY <1>2, TypeFacts DEF TreeOK, Placed
  <2>2. ~ HasCaller(s.parent[x])
    BY <1>2, <2>1, TypeFacts
  <2> QED BY <1>2, <2>1, <2>2 DEF TreeOK, Placed
<1>3. s.parent[x] # x
  BY <1>2, TypeFacts
<1> QED BY <1>1, <1>2, <1>3 DEF Top

(* x before y in the list around the window m of a root. *)
Around(s, m, x, y) ==
    \/ x \in ToSet(s.kids[m]) /\ s.prio[x] < 0 /\ (y = m \/ (y \in ToSet(s.kids[m]) /\ ~ (s.prio[y] < 0)))
    \/ x = m /\ y \in ToSet(s.kids[m]) /\ ~ (s.prio[y] < 0)
    \/ InOrder(s.kids[m], x, y)

GroupOf(s, m, r) ==
    /\ r \in Seq(Windows) /\ ToSet(r) = ToSet(s.kids[m]) \cup {m}
    /\ \A x, y \in Windows : InOrder(r, x, y) => Around(s, m, x, y)

LEMMA WithKidsOK ==
  ASSUME NEW s, TreeOK(s, {}), NEW m \in Windows, NEW r, r = WithKids(s, m)
  PROVE  GroupOf(s, m, r)
<1> DEFINE q == s.kids[m]
           N == {c \in Windows : s.prio[c] < 0}
           a == Only(q, N)
           b == Only(q, Windows \ N)
           one == <<m>>
           c == a \o one
<1>1. q \in Seq(Windows)
  BY DEF TreeOK, States, Nodes
<1>2. r = c \o b
  BY DEF WithKids
<1>3. ToSet(q) \subseteq Windows
  BY <1>1, ElementsOf
<1> HIDE DEF q
<1>4. a \in Seq(Windows) /\ ToSet(a) = ToSet(q) \cap N /\ InOrderOf(a, q)
  <2> HIDE DEF N
  <2> QED BY <1>1, OnlyOK
<1>5. b \in Seq(Windows) /\ ToSet(b) = ToSet(q) \cap (Windows \ N) /\ InOrderOf(b, q)
  <2> HIDE DEF N
  <2> QED BY <1>1, OnlyOK
<1>6. one \in Seq(Windows) /\ ToSet(one) = {m} /\ \A x, y \in Windows : ~ InOrder(one, x, y)
  <2>1. one \in Seq(Windows) /\ DOMAIN one = {1} /\ one[1] = m
    OBVIOUS
  <2> HIDE DEF one
  <2> QED BY <2>1 DEF ToSet, InOrder
<1> HIDE DEF a, b, one
<1>7. Joined(Windows, a, one, c)
  <2> HIDE DEF c
  <2>1. c = a \o one
    BY DEF c
  <2> QED BY <1>4, <1>6, <2>1, JoinOK
<1>8. c \in Seq(Windows)
  BY <1>7 DEF Joined
<1> HIDE DEF c
<1>9. Joined(Windows, c, b, r)
  BY <1>2, <1>5, <1>8, JoinOK
<1>10. ToSet(r) = ToSet(q) \cup {m} /\ r \in Seq(Windows)
  BY <1>3, <1>4, <1>5, <1>6, <1>7, <1>9 DEF Joined
<1>11. ASSUME NEW x \in Windows, NEW y \in Windows, InOrder(r, x, y) PROVE Around(s, m, x, y)
  <2>1. CASE InOrder(a, x, y)
    BY <1>4, <2>1, OrderStays DEF Around, q
  <2>2. CASE InOrder(b, x, y)
    BY <1>5, <2>2, OrderStays DEF Around, q
  <2>3. CASE x \in ToSet(a) /\ y \in ToSet(one)
    BY <1>4, <1>6, <2>3 DEF Around, q
  <2>4. CASE x \in ToSet(c) /\ y \in ToSet(b)
    <3>1. y \in ToSet(q) /\ ~ (s.prio[y] < 0)
      BY <1>5, <2>4
    <3>2. (x \in ToSet(q) /\ s.prio[x] < 0) \/ x = m
      BY <1>4, <1>6, <1>7, <2>4 DEF Joined
    <3> QED BY <3>1, <3>2 DEF Around, q
  <2> QED BY <1>7, <1>9, <1>11, <2>1, <2>2, <2>3, <2>4, <1>6 DEF Joined
<1> QED BY <1>10, <1>11 DEF GroupOf, q

(* The part of the z order below the root p. *)
LayerOf(s, p, r) ==
    /\ r \in Seq(Windows) /\ ToSet(r) = {x \in Windows : s.parent[Top(s, x)] = p}
    /\ \A x, y \in Windows : InOrder(r, x, y) =>
         \/ Top(s, x) = Top(s, y) /\ Around(s, Top(s, x), x, y)
         \/ InOrder(s.kids[p], Top(s, x), Top(s, y))

LEMMA GroupTop ==
  ASSUME NEW s, TreeOK(s, {}), NEW m \in Windows, s.parent[m] \in Roots, NEW x \in Windows
  PROVE  x \in ToSet(s.kids[m]) \cup {m} <=> Top(s, x) = m
<1>1. ToSet(s.kids[m]) = {w \in Windows : s.parent[w] = m}
  BY DEF TreeOK, Linked, Nodes
<1>2. s.parent[m] \notin Windows
  BY RootFacts
<1> QED BY <1>1, <1>2, TopOK DEF Top

LEMMA LayerOK ==
  ASSUME NEW s, TreeOK(s, {}), NEW p \in Roots,
         NEW r, r = FlattenSeq([i \in DOMAIN s.kids[p] |-> WithKids(s, s.kids[p][i])])
  PROVE  LayerOf(s, p, r)
<1> DEFINE q == s.kids[p]
           N == Len(q)
           qs == [i \in DOMAIN q |-> WithKids(s, q[i])]
<1>1. q \in Seq(Windows)
  BY RootFacts DEF TreeOK, States
<1>2. N \in Nat /\ DOMAIN q = 1 .. N /\ \A i \in 1 .. N : q[i] \in Windows
  BY <1>1, LenProperties
<1>3. ToSet(q) = {w \in Windows : s.parent[w] = p}
  BY RootFacts DEF TreeOK, Linked
<1>4. \A i \in 1 .. N : s.parent[q[i]] = p
  BY <1>2, <1>3 DEF ToSet
<1> HIDE DEF q
<1>5. \A i \in 1 .. N : GroupOf(s, q[i], qs[i])
  BY <1>2, WithKidsOK
<1>6. qs \in Seq(Seq(Windows)) /\ Len(qs) = N
  <2>1. DOMAIN qs = 1 .. N
    BY <1>2
  <2>2. \A i \in 1 .. N : qs[i] \in Seq(Windows)
    BY <1>5 DEF GroupOf
  <2>3. qs = [i \in 1 .. N |-> qs[i]]
    BY <1>2
  <2> HIDE DEF qs
  <2> QED BY <1>2, <2>1, <2>2, <2>3, SMT
<1>7. r = FlattenSeq(qs)
  BY DEF q
<1> HIDE DEF qs
<1>8. FlatOf(r, Windows, qs, N)
  BY <1>6, <1>7, FlattenOK
<1> HIDE DEF N
<1>9. \A i \in 1 .. N, x \in Windows : x \in ToSet(qs[i]) <=> Top(s, x) = q[i]
  <2> SUFFICES ASSUME NEW i \in 1 .. N, NEW x \in Windows PROVE x \in ToSet(qs[i]) <=> Top(s, x) = q[i]
    OBVIOUS
  <2>1. q[i] \in Windows /\ s.parent[q[i]] \in Roots
    BY <1>2, <1>4
  <2>2. ToSet(qs[i]) = ToSet(s.kids[q[i]]) \cup {q[i]}
    BY <1>5 DEF GroupOf
  <2> QED BY <2>1, <2>2, GroupTop
<1>10. \A w \in Windows : s.parent[w] = p <=> \E i \in 1 .. N : q[i] = w
  BY <1>2, <1>3 DEF ToSet
<1>11. ToSet(r) = {x \in Windows : s.parent[Top(s, x)] = p}
  <2>1. ToSet(r) = {x \in Windows : \E i \in 1 .. N : x \in ToSet(qs[i])}
    BY <1>8 DEF FlatOf
  <2>2. \A x \in Windows : (\E i \in 1 .. N : x \in ToSet(qs[i])) <=> s.parent[Top(s, x)] = p
    BY <1>9, <1>10, TopOK
  <2> QED BY <2>1, <2>2
<1>12. ASSUME NEW x \in Windows, NEW y \in Windows, InOrder(r, x, y)
       PROVE  \/ Top(s, x) = Top(s, y) /\ Around(s, Top(s, x), x, y)
              \/ InOrder(s.kids[p], Top(s, x), Top(s, y))
  <2>1. CASE \E i \in 1 .. N : InOrder(qs[i], x, y)
    <3>1. PICK i \in 1 .. N : InOrder(qs[i], x, y)
      BY <2>1
    <3>2. x \in ToSet(qs[i]) /\ y \in ToSet(qs[i])
      BY <3>1 DEF InOrder, ToSet
    <3>3. Top(s, x) = q[i] /\ Top(s, y) = q[i]
      BY <1>9, <3>2
    <3> QED BY <1>5, <3>1, <3>3 DEF GroupOf
  <2>2. CASE \E i, j \in 1 .. N : i < j /\ x \in ToSet(qs[i]) /\ y \in ToSet(qs[j])
    <3>1. PICK i \in 1 .. N, j \in 1 .. N : i < j /\ x \in ToSet(qs[i]) /\ y \in ToSet(qs[j])
      BY <2>2
    <3>2. Top(s, x) = q[i] /\ Top(s, y) = q[j]
      BY <1>9, <3>1
    <3>3. InOrder(q, Top(s, x), Top(s, y))
      BY <1>2, <3>1, <3>2 DEF InOrder
    <3> QED BY <3>3 DEF q
  <2> QED BY <1>8, <1>12, <2>1, <2>2 DEF FlatOf
<1>13. r \in Seq(Windows)
  BY <1>8 DEF FlatOf
<1> QED BY <1>11, <1>12, <1>13 DEF LayerOf

(* The z order is that of the roots, then that below a root, then that     *)
(* around a window of a root. *)
Lower(p, q) == \/ p = "BELOW" /\ q \in {"APP", "ABOVE"}
               \/ p = "APP" /\ q = "ABOVE"

ZOrder(s, r) ==
    /\ r \in Seq(Windows) /\ ToSet(r) = {x \in Windows : InT(s, x)}
    /\ \A x, y \in Windows : InOrder(r, x, y) =>
         \/ Lower(s.parent[Top(s, x)], s.parent[Top(s, y)])
         \/ s.parent[Top(s, x)] = s.parent[Top(s, y)] /\
              \/ Top(s, x) = Top(s, y) /\ Around(s, Top(s, x), x, y)
              \/ InOrder(s.kids[s.parent[Top(s, x)]], Top(s, x), Top(s, y))

LEMMA ZOrderOK ==
  ASSUME NEW s, TreeOK(s, {}), NEW r, r = BottomToTop(s)
  PROVE  ZOrder(s, r)
<1> DEFINE All(p) == FlattenSeq([i \in DOMAIN s.kids[p] |-> WithKids(s, s.kids[p][i])])
           a == All("BELOW")
           b == All("APP")
           c == All("ABOVE")
           ab == a \o b
<1>1. LayerOf(s, "BELOW", a) /\ LayerOf(s, "APP", b) /\ LayerOf(s, "ABOVE", c)
  BY LayerOK DEF Roots
<1>2. r = ab \o c
  BY DEF BottomToTop
<1> HIDE DEF a, b, c
<1>3. a \in Seq(Windows) /\ b \in Seq(Windows) /\ c \in Seq(Windows)
  BY <1>1 DEF LayerOf
<1>4. Joined(Windows, a, b, ab)
  <2> HIDE DEF ab
  <2>1. ab = a \o b
    BY DEF ab
  <2> QED BY <1>3, <2>1, JoinOK
<1> HIDE DEF ab
<1>5. Joined(Windows, ab, c, r)
  <2>1. ab \in Seq(Windows)
    BY <1>4 DEF Joined
  <2> QED BY <1>2, <1>3, <2>1, JoinOK
<1>6. r \in Seq(Windows) /\ ToSet(r) = {x \in Windows : InT(s, x)}
  <2>1. ToSet(r) = ToSet(a) \cup ToSet(b) \cup ToSet(c) /\ r \in Seq(Windows)
    BY <1>4, <1>5 DEF Joined
  <2> QED BY <1>1, <2>1 DEF LayerOf, InT, Roots
<1>7. ASSUME NEW x \in Windows, NEW y \in Windows, InOrder(r, x, y)
      PROVE  \/ Lower(s.parent[Top(s, x)], s.parent[Top(s, y)])
             \/ s.parent[Top(s, x)] = s.parent[Top(s, y)] /\
                  \/ Top(s, x) = Top(s, y) /\ Around(s, Top(s, x), x, y)
                  \/ InOrder(s.kids[s.parent[Top(s, x)]], Top(s, x), Top(s, y))
  <2>1. ASSUME NEW p \in Roots, NEW q, LayerOf(s, p, q), InOrder(q, x, y)
        PROVE  s.parent[Top(s, x)] = s.parent[Top(s, y)] /\
                  \/ Top(s, x) = Top(s, y) /\ Around(s, Top(s, x), x, y)
                  \/ InOrder(s.kids[s.parent[Top(s, x)]], Top(s, x), Top(s, y))
    <3>1. x \in ToSet(q) /\ y \in ToSet(q)
      BY <2>1 DEF InOrder, ToSet
    <3>2. s.parent[Top(s, x)] = p /\ s.parent[Top(s, y)] = p
      BY <2>1, <3>1 DEF LayerOf
    <3> QED BY <2>1, <3>2 DEF LayerOf
  <2>2. CASE InOrder(a, x, y) \/ InOrder(b, x, y) \/ InOrder(c, x, y)
    BY <1>1, <2>1, <2>2 DEF Roots
  <2>3. CASE x \in ToSet(a) /\ y \in ToSet(b)
    <3>1. s.parent[Top(s, x)] = "BELOW" /\ s.parent[Top(s, y)] = "APP"
      BY <1>1, <2>3 DEF LayerOf
    <3> QED BY <3>1 DEF Lower
  <2>4. CASE x \in ToSet(ab) /\ y \in ToSet(c)
    BY <1>1, <1>4, <2>4 DEF LayerOf, Lower, Joined
  <2> QED BY <1>4, <1>5, <1>7, <2>2, <2>3, <2>4 DEF Joined
<1> QED BY <1>6, <1>7 DEF ZOrder

-----------------------------------------------------------------------------
(* The search for the window that comes next. *)
LEMMA FirstIndex ==
  ASSUME NEW I, \A i \in I : i \in Nat /\ i > 0, NEW m, m = IF I # {} THEN Min(I) ELSE 0
  PROVE  /\ m \in Nat /\ (m = 0 <=> I = {})
         /\ (m # 0 => m \in I /\ \A i \in I : m <= i)
<1>1. CASE I = {}
  BY <1>1
<1>2. CASE I # {}
  <2>1. I \in SUBSET Nat
    OBVIOUS
  <2>2. Min(I) \in I /\ \A i \in I : Min(I) <= i
    BY <1>2, <2>1, MinOK
  <2>3. m = Min(I)
    BY <1>2
  <2> QED BY <1>2, <2>2, <2>3
<1> QED BY <1>1, <1>2

Found(s, w, set, r) ==
    /\ r # Null => r \in Windows /\ r \in set /\ InOrder(BottomToTop(s), r, w)
    /\ (\E x \in Windows : x \in set /\ InOrder(BottomToTop(s), x, w)) => r # Null

LEMMA NextBelowOK ==
  ASSUME NEW s, TreeOK(s, {}), NEW w, NEW set, NEW r, r = NextBelow(s, w, set)
  PROVE  Found(s, w, set, r)
<1> DEFINE B == BottomToTop(s)
           n == Len(B)
           order == Reverse(B)
           I == {i \in 1 .. Len(order) : order[i] = w}
           at == IF I # {} THEN Min(I) ELSE 0
           J == {i \in at + 1 .. Len(order) : order[i] \in set}
           next == IF J # {} THEN Min(J) ELSE 0
<1>1. r = IF at = 0 \/ next = 0 THEN Null ELSE order[next]
  BY DEF NextBelow, NextIn, SelectInSeq, SelectInSubSeq
<1>2. B \in Seq(Windows)
  BY ZOrderOK DEF ZOrder
<1> HIDE DEF B
<1>3. n \in Nat /\ DOMAIN B = 1 .. n /\ \A i \in 1 .. n : B[i] \in Windows
  BY <1>2, LenProperties
<1>4. Len(order) = n /\ \A i \in 1 .. n : order[i] = B[n - i + 1]
  <2>1. order = [i \in 1 .. n |-> B[(n - i) + 1]]
    BY DEF Reverse
  <2>2. \A i \in 1 .. n : (n - i) + 1 \in 1 .. n
    BY <1>3
  <2> DEFINE e == [i \in 1 .. n |-> B[(n - i) + 1]]
  <2>3. \A i \in 1 .. n : e[i] = B[(n - i) + 1]
    OBVIOUS
  <2>4. e \in Seq(Windows) /\ DOMAIN e = 1 .. n
    BY <1>3, <2>2, <2>3
  <2>5. Len(e) = n
    <3> HIDE DEF e
    <3> QED BY <1>3, <2>4, LenProperties
  <2> QED BY <1>3, <2>1, <2>3, <2>5
<1> HIDE DEF order, n
<1>5. /\ at \in Nat /\ (at = 0 <=> I = {})
      /\ (at # 0 => at \in I /\ \A i \in I : at <= i)
  <2>1. \A i \in I : i \in Nat /\ i > 0
    BY <1>3, <1>4
  <2> DEFINE a == at
  <2>2. a = IF I # {} THEN Min(I) ELSE 0
    OBVIOUS
  <2> HIDE DEF a, I
  <2>3. /\ a \in Nat /\ (a = 0 <=> I = {})
        /\ (a # 0 => a \in I /\ \A i \in I : a <= i)
    BY <2>1, <2>2, FirstIndex
  <2> QED BY <2>3 DEF a
<1> HIDE DEF at
<1>6. /\ next \in Nat /\ (next = 0 <=> J = {})
      /\ (next # 0 => next \in J /\ \A i \in J : next <= i)
  <2>1. \A i \in J : i \in Nat /\ i > 0
    BY <1>3, <1>4, <1>5
  <2> DEFINE a == next
  <2>2. a = IF J # {} THEN Min(J) ELSE 0
    OBVIOUS
  <2> HIDE DEF a, J
  <2>3. /\ a \in Nat /\ (a = 0 <=> J = {})
        /\ (a # 0 => a \in J /\ \A i \in J : a <= i)
    BY <2>1, <2>2, FirstIndex
  <2> QED BY <2>3 DEF a
<1> HIDE DEF next
<1>7. \A i \in J : i \in 1 .. n /\ order[i] = B[n - i + 1] /\ n - i + 1 \in 1 .. n /\ order[i] \in Windows
  <2>1. \A i \in J : i \in 1 .. n
    BY <1>3, <1>4, <1>5
  <2> HIDE DEF J
  <2>2. \A i \in 1 .. n : n - i + 1 \in 1 .. n
    BY <1>3
  <2> QED BY <1>3, <1>4, <2>1, <2>2
<1>8. ASSUME at # 0, next # 0
      PROVE  order[next] \in Windows /\ order[next] \in set /\ InOrder(B, order[next], w)
  <2>1. at \in 1 .. n /\ order[at] = w /\ next \in J /\ next \in at + 1 .. n /\ order[next] \in set
    BY <1>4, <1>5, <1>6, <1>8
  <2>2. n - at + 1 \in 1 .. n /\ w = B[n - at + 1]
    <3>1. n - at + 1 \in 1 .. n
      BY <1>3, <2>1
    <3> QED BY <1>4, <2>1, <3>1
  <2>3. n - next + 1 < n - at + 1
    BY <1>3, <2>1
  <2>4. n - next + 1 \in 1 .. n /\ order[next] = B[n - next + 1] /\ order[next] \in Windows
    BY <1>7, <2>1
  <2>5. InOrder(B, order[next], w)
    BY <1>3, <2>2, <2>3, <2>4 DEF InOrder
  <2> QED BY <2>1, <2>4, <2>5
<1>9. ASSUME NEW x \in Windows, x \in set, InOrder(B, x, w)
      PROVE  at # 0 /\ next # 0
  <2>1. PICK k \in 1 .. n, l \in 1 .. n : k < l /\ B[k] = x /\ B[l] = w
    BY <1>3, <1>9 DEF InOrder
  <2>2. n - l + 1 \in 1 .. n /\ n - (n - l + 1) + 1 = l /\ n - k + 1 \in 1 .. n /\ n - (n - k + 1) + 1 = k
    BY <1>3
  <2>3. order[n - l + 1] = w /\ order[n - k + 1] = x
    BY <1>4, <2>1, <2>2
  <2>4. n - l + 1 \in I
    BY <1>4, <2>2, <2>3
  <2>5. at # 0 /\ at <= n - l + 1
    BY <1>5, <2>4
  <2>6. n - k + 1 \in at + 1 .. n
    BY <1>3, <1>5, <2>1, <2>2, <2>5
  <2>7. n - k + 1 \in J
    BY <1>4, <1>9, <2>3, <2>6
  <2> HIDE DEF J
  <2> QED BY <1>6, <2>5, <2>7
<1>10. order[next] # Null \/ at = 0 \/ next = 0
  <2>1. Null \notin Windows
    BY TreeAssumption
  <2> QED BY <1>8, <2>1
<1> QED BY <1>1, <1>8, <1>9, <1>10 DEF Found, B

-----------------------------------------------------------------------------
(* Taking a window away. *)
SameButFocus(s, t) ==
    /\ t.kids = s.kids /\ t.parent = s.parent /\ t.prio = s.prio /\ t.requested = s.requested /\ t.visible = s.visible
    /\ t.locked = s.locked /\ t.alive = s.alive /\ t.token = s.token /\ t.starting = s.starting
    /\ t.list = s.list /\ t.asked = s.asked

LEMMA SameTree ==
  ASSUME NEW s, NEW out, TreeOK(s, out), NEW t \in States,
         t.kids = s.kids, t.parent = s.parent, t.prio = s.prio
  PROVE  TreeOK(t, out)
BY DEF TreeOK, Linked, Ordered, Placed, Ranked

LEMMA NextActiveType ==
  ASSUME NEW s, TreeOK(s, {}), NEW w, NEW r, r = GetNextActiveWindow(s, w)
  PROVE  r \in Windows \cup {Null}
<1> DEFINE q == s.kids["APP"]
           b == s.kids["BELOW"]
           i == SelectInSeq(b, LAMBDA x : Type[x] = "DESKTOP")
           v == NextBelow(s, w, {x \in Windows : s.visible[x]})
<1>1. v \in Windows \cup {Null}
  <2> DEFINE set == {x \in Windows : s.visible[x]}
  <2>1. v = NextBelow(s, w, set)
    OBVIOUS
  <2> HIDE DEF v, set
  <2> QED BY <2>1, NextBelowOK DEF Found
<1>2. q \in Seq(Windows) /\ b \in Seq(Windows)
  BY RootFacts DEF TreeOK, States
<1>3. r = IF ~ InTree(s, w) THEN Null ELSE IF IsAppWindow(w) THEN v
          ELSE IF q # <<>> THEN Head(q) ELSE IF i = 0 THEN Null ELSE b[i]
  BY DEF GetNextActiveWindow
<1>4. q # <<>> => Head(q) \in Windows
  <2> HIDE DEF q
  <2> QED BY <1>2
<1>5. i # 0 => b[i] \in Windows
  <2> DEFINE I == {j \in 1 .. Len(b) : Type[b[j]] = "DESKTOP"}
  <2>1. i = IF I # {} THEN Min(I) ELSE 0
    BY DEF SelectInSeq
  <2> HIDE DEF i, b
  <2>2. I \in SUBSET Nat /\ Len(b) \in Nat
    BY <1>2, LenProperties
  <2>3. i # 0 => i \in I
    <3> HIDE DEF I
    <3> QED BY <2>1, <2>2, MinOK
  <2>4. I \subseteq 1 .. Len(b)
    OBVIOUS
  <2> HIDE DEF I
  <2> QED BY <1>2, <2>3, <2>4, LenProperties
<1> HIDE DEF q, b, i, v
<1> QED BY <1>1, <1>3, <1>4, <1>5

NextActiveOf(s, w) == GetNextActiveWindow(s, SearchFrom(s, w))

PassedOn(s, w, t) ==
    /\ t \in States /\ SameButFocus(s, t)
    /\ t.active = IF Loses(s, w, s.active) /\ NextActiveOf(s, w) # Null THEN NextActiveOf(s, w) ELSE s.active

(* The two searches look at the tree alone. *)
LEMMA SearchSame ==
  ASSUME NEW s, NEW t, SameButFocus(s, t), NEW w
  PROVE  NextActiveOf(t, w) = NextActiveOf(s, w) /\ Loses(t, w, s.active) = Loses(s, w, s.active)
<1>1. SearchFrom(t, w) = SearchFrom(s, w) /\ BottomToTop(t) = BottomToTop(s)
  BY DEF SameButFocus, SearchFrom, BottomToTop, WithKids
<1>2. GetNextActiveWindow(t, SearchFrom(s, w)) = GetNextActiveWindow(s, SearchFrom(s, w))
  BY <1>1 DEF SameButFocus, GetNextActiveWindow, InTree, NextBelow
<1> QED BY <1>1, <1>2 DEF NextActiveOf, Loses, SameButFocus

LEMMA PassOnOK ==
  ASSUME NEW s, TreeOK(s, {}), NEW w \in Windows, NEW t, t = PassOn(s, w)
  PROVE  PassedOn(s, w, t)
<1> DEFINE f == GetNextFocusableWindow(s, SearchFrom(s, w))
           u == UpdateFocusWindowWithWindowRemoved(s, w)
           a == NextActiveOf(s, w)
<1>1. s \in States
  BY DEF TreeOK
<1>2. f \in Windows \cup {Null}
  <2> DEFINE set == {x \in Focusable : s.visible[x]}
             v == SearchFrom(s, w)
  <2>1. f = NextBelow(s, v, set)
    BY DEF GetNextFocusableWindow
  <2> HIDE DEF f, set, v
  <2> QED BY <2>1, NextBelowOK DEF Found
<1>3. u = IF Loses(s, w, s.focus) /\ f # Null THEN [s EXCEPT !.focus = f] ELSE s
  BY DEF UpdateFocusWindowWithWindowRemoved
<1> HIDE DEF f, u
<1>4. u \in States /\ SameButFocus(s, u) /\ u.active = s.active
  BY <1>1, <1>2, <1>3 DEF States, SameButFocus
<1>5. TreeOK(u, {})
  BY <1>4, SameTree DEF SameButFocus
<1>6. NextActiveOf(u, w) = a /\ Loses(u, w, s.active) = Loses(s, w, s.active)
  BY <1>4, SearchSame
<1>7. a \in Windows \cup {Null}
  BY NextActiveType DEF NextActiveOf
<1>8. t = IF Loses(s, w, s.active) /\ a # Null THEN [u EXCEPT !.active = a] ELSE u
  <2>1. t = UpdateActiveWindowWithWindowRemoved(u, w)
    BY DEF PassOn, u
  <2> HIDE DEF a
  <2> QED BY <1>4, <1>6, <2>1 DEF UpdateActiveWindowWithWindowRemoved, NextActiveOf
<1> HIDE DEF a
<1>9. t \in States /\ SameButFocus(u, t) /\ t.active = IF Loses(s, w, s.active) /\ a # Null THEN a ELSE u.active
  BY <1>4, <1>7, <1>8, ZenonT(30) DEF States, SameButFocus
<1>10. SameButFocus(s, t)
  BY <1>4, <1>9 DEF SameButFocus
<1> QED BY <1>4, <1>9, <1>10 DEF PassedOn, a

(* RemoveFromContainer: the window has no parent and is not seen. *)
Cleared(s, w, t) ==
    /\ t \in States /\ t.kids = s.kids /\ t.prio = s.prio /\ t.focus = s.focus /\ t.active = s.active
    /\ t.locked = (s.locked /\ Type[w] # "KEYGUARD") /\ t.alive = s.alive /\ t.token = s.token
    /\ t.starting = s.starting /\ t.list = s.list /\ t.asked = s.asked
    /\ \A x \in Windows : /\ t.parent[x] = IF x = w THEN Null ELSE s.parent[x]
                          /\ t.requested[x] = (s.requested[x] /\ x # w)
                          /\ t.visible[x] = (s.visible[x] /\ x # w)
ClearOut(s, w) == [s EXCEPT !.parent[w] = Null, !.requested[w] = FALSE, !.visible[w] = FALSE,
                            !.locked = @ /\ Type[w] # "KEYGUARD"]

LEMMA ClearOutOK ==
  ASSUME NEW s \in States, NEW w \in Windows, NEW t, t = ClearOut(s, w)
  PROVE  Cleared(s, w, t)
<1> DEFINE parent == [s.parent EXCEPT ![w] = Null]
           requested == [s.requested EXCEPT ![w] = FALSE]
           visible == [s.visible EXCEPT ![w] = FALSE]
           locked == s.locked /\ Type[w] # "KEYGUARD"
<1>1. /\ s.parent \in [Windows -> Nodes \cup {Null}] /\ s.requested \in [Windows -> BOOLEAN]
      /\ s.visible \in [Windows -> BOOLEAN] /\ s.locked \in BOOLEAN
  BY DEF States
<1>2. /\ parent \in [Windows -> Nodes \cup {Null}] /\ requested \in [Windows -> BOOLEAN]
      /\ visible \in [Windows -> BOOLEAN] /\ locked \in BOOLEAN
      /\ \A x \in Windows : /\ parent[x] = IF x = w THEN Null ELSE s.parent[x]
                            /\ requested[x] = (s.requested[x] /\ x # w)
                            /\ visible[x] = (s.visible[x] /\ x # w)
  BY <1>1
<1>3. t = [s EXCEPT !.parent = parent, !.requested = requested, !.visible = visible, !.locked = locked]
  BY DEF ClearOut
<1> HIDE DEF parent, requested, visible
<1>4. /\ t \in States /\ t.kids = s.kids /\ t.prio = s.prio /\ t.focus = s.focus /\ t.active = s.active
      /\ t.locked = locked /\ t.alive = s.alive /\ t.token = s.token /\ t.parent = parent
      /\ t.requested = requested /\ t.visible = visible
      /\ t.starting = s.starting /\ t.list = s.list /\ t.asked = s.asked
  <2> HIDE DEF locked
  <2> QED BY <1>2, <1>3 DEF States
<1> QED BY <1>2, <1>4 DEF Cleared

(* But for the tree itself, the same. *)
Removed(s, w, t) ==
    /\ TreeOK(t, {}) /\ t.prio = s.prio /\ t.focus = s.focus /\ t.active = s.active
    /\ t.locked = (s.locked /\ Type[w] # "KEYGUARD") /\ t.alive = s.alive /\ t.token = s.token
    /\ t.starting = s.starting /\ t.list = s.list /\ t.asked = s.asked
    /\ \A x \in Windows : /\ t.parent[x] = IF x = w THEN Null ELSE s.parent[x]
                          /\ t.requested[x] = (s.requested[x] /\ x # w)
                          /\ t.visible[x] = (s.visible[x] /\ x # w)

LEMMA RemoveFromOK ==
  ASSUME NEW s, TreeOK(s, {}), NEW w \in Windows, NEW t, t = RemoveFromContainer(s, w)
  PROVE  Removed(s, w, t)
<1> DEFINE u == IF s.parent[w] = Null THEN s ELSE SetKids(s, s.parent[w], RemoveFirst(s.kids[s.parent[w]], w))
<1>1. t = ClearOut(u, w)
  BY DEF RemoveFromContainer, ClearOut, SetKids
<1>2. TreeOK(u, {w}) /\ u.parent = s.parent /\ u.prio = s.prio /\ SameRest(s, u)
  <2>1. CASE s.parent[w] # Null
    <3>1. u = SetKids(s, s.parent[w], RemoveFirst(s.kids[s.parent[w]], w))
      BY <2>1
    <3> HIDE DEF u
    <3> QED BY <2>1, <3>1, TakeOut
  <2>2. CASE s.parent[w] = Null
    <3>1. u = s
      BY <2>2
    <3>2. Linked(s, {w})
      BY <2>2, RootFacts DEF TreeOK, Linked
    <3> QED BY <3>1, <3>2 DEF TreeOK, Ranked, SameRest
  <2> QED BY <2>1, <2>2
<1> HIDE DEF u
<1>3. Cleared(u, w, t)
  BY <1>1, <1>2, ClearOutOK DEF TreeOK
<1>4. t \in States /\ t.kids = u.kids /\ t.prio = u.prio
  BY <1>3 DEF Cleared
<1>5. \A x \in Windows : t.parent[x] = IF x = w THEN Null ELSE u.parent[x]
  BY <1>3 DEF Cleared
<1>6. Linked(t, {})
  <2> SUFFICES ASSUME NEW p \in Nodes
               PROVE  IsInjective(t.kids[p]) /\ ToSet(t.kids[p]) = {x \in Windows : t.parent[x] = p} \ {}
    BY DEF Linked
  <2>1. IsInjective(u.kids[p]) /\ ToSet(u.kids[p]) = {x \in Windows : u.parent[x] = p} \ {w}
    BY <1>2 DEF TreeOK, Linked
  <2>2. {x \in Windows : t.parent[x] = p} = {x \in Windows : u.parent[x] = p} \ {w}
    BY <1>5, RootFacts
  <2> QED BY <1>4, <2>1, <2>2
<1>7. Ordered(t)
  BY <1>2, <1>4 DEF TreeOK, Ordered
<1>8. Placed(t) /\ Ranked(t, {})
  <2>1. Placed(u) /\ Ranked(u, {w})
    BY <1>2 DEF TreeOK
  <2> QED BY <1>4, <1>5, <2>1, RootFacts DEF Placed, Ranked
<1> QED BY <1>2, <1>3, <1>4, <1>6, <1>7, <1>8 DEF Removed, Cleared, TreeOK, SameRest

-----------------------------------------------------------------------------
(* A window of the tree is seen and alive, and so is its caller; a visible *)
(* window is alive, and in the tree if it has no caller; what the server   *)
(* counts is alive. *)
Seen(s) == \A x \in Windows : s.parent[x] # Null => s.requested[x] /\ s.visible[x]
Living(s) == \A x \in Windows :
    s.parent[x] # Null => x \in s.alive /\ (s.parent[x] \in Windows => s.parent[x] \in s.alive)
Shown(s) == \A x \in Windows : s.visible[x] => x \in s.alive /\ (HasCaller(x) \/ s.parent[x] # Null)
Counted(s) == s.token \subseteq s.alive /\ s.starting \subseteq s.alive /\ s.starting \subseteq Launched
Good(s) == TreeOK(s, {}) /\ Seen(s) /\ Living(s) /\ Shown(s) /\ Counted(s)

(* The windows that go with w. *)
Gone(s, w, onlySelf) == {x \in Windows : x = w \/ (~ onlySelf /\ s.parent[x] = w)}

Destroyed(s, w, onlySelf, t) ==
    /\ Good(t) /\ t.prio = s.prio /\ t.locked = (s.locked /\ Type[w] # "KEYGUARD")
    /\ t.alive = s.alive \ Gone(s, w, onlySelf) /\ t.token = s.token \ Gone(s, w, onlySelf)
    /\ t.starting = s.starting \ Gone(s, w, onlySelf)
    /\ t.active = IF Loses(s, w, s.active) /\ NextActiveOf(s, w) # Null THEN NextActiveOf(s, w) ELSE s.active
    /\ \A x \in Windows : /\ t.parent[x] = IF x = w \/ s.parent[x] = w THEN Null ELSE s.parent[x]
                          /\ t.visible[x] = (s.visible[x] /\ x \notin Gone(s, w, onlySelf))

(* The children are let go. *)
LetGo(s, w, kids) == [s EXCEPT !.kids[w] = <<>>, !.parent = [x \in Windows |-> IF x \in kids THEN Null ELSE @[x]]]

LEMMA LetGoOK ==
  ASSUME NEW s, TreeOK(s, {}), NEW w \in Windows, NEW t, NEW kids, t = LetGo(s, w, kids),
         kids = {x \in Windows : s.parent[x] = w}
  PROVE  /\ TreeOK(t, {}) /\ t.prio = s.prio /\ SameRest(s, t)
         /\ \A x \in Windows : t.parent[x] = IF s.parent[x] = w THEN Null ELSE s.parent[x]
<1> DEFINE lists == [s.kids EXCEPT ![w] = <<>>]
           parent == [x \in Windows |-> IF x \in kids THEN Null ELSE s.parent[x]]
<1>1. s \in States /\ s.kids \in [Nodes -> Seq(Windows)] /\ s.parent \in [Windows -> Nodes \cup {Null}] /\ w \in Nodes
      /\ s.prio \in [Windows -> Ranks]
  BY RootFacts DEF TreeOK, States
<1>2. <<>> \in Seq(Windows) /\ DOMAIN <<>> = {} /\ ToSet(<<>>) = {} /\ IsInjective(<<>>)
  <2>1. <<>> \in Seq(Windows) /\ DOMAIN <<>> = {}
    BY EmptySeq
  <2> QED BY <2>1 DEF ToSet, IsInjective
<1>3. lists \in [Nodes -> Seq(Windows)] /\ parent \in [Windows -> Nodes \cup {Null}]
  BY <1>1, <1>2
<1>4. lists[w] = <<>> /\ (\A p \in Nodes : p # w => lists[p] = s.kids[p])
      /\ \A x \in Windows : parent[x] = IF s.parent[x] = w THEN Null ELSE s.parent[x]
  BY <1>1
<1>5. t = SetTree(s, lists, parent, s.prio)
  <2>1. t = [s EXCEPT !.kids = lists, !.parent = parent]
    BY <1>1 DEF LetGo
  <2> HIDE DEF lists, parent
  <2> QED BY <1>1, <2>1 DEF SetTree, States
<1> HIDE DEF lists, parent
<1>6. t \in States /\ t.kids = lists /\ t.parent = parent /\ t.prio = s.prio /\ SameRest(s, t)
  <2>1. Changed(s, lists, parent, s.prio, t)
    BY <1>1, <1>3, <1>5, TreeChange
  <2> QED BY <2>1 DEF Changed
<1>7. Linked(t, {})
  <2> SUFFICES ASSUME NEW p \in Nodes
               PROVE  IsInjective(t.kids[p]) /\ ToSet(t.kids[p]) = {x \in Windows : t.parent[x] = p} \ {}
    BY DEF Linked
  <2>1. IsInjective(s.kids[p]) /\ ToSet(s.kids[p]) = {x \in Windows : s.parent[x] = p}
    BY DEF TreeOK, Linked
  <2>2. CASE p = w
    <3>0. \A x \in Windows : t.parent[x] # w
      <4>1. w # Null
        BY RootFacts
      <4> QED BY <1>4, <1>6, <4>1
    <3>1. {x \in Windows : t.parent[x] = p} \ {} = {}
      BY <2>2, <3>0
    <3> QED BY <1>2, <1>4, <1>6, <2>2, <3>1
  <2>3. CASE p # w
    <3>1. {x \in Windows : t.parent[x] = p} = {x \in Windows : s.parent[x] = p}
      BY <1>4, <1>6, <2>3, RootFacts
    <3> QED BY <1>4, <1>6, <2>1, <2>3, <3>1
  <2> QED BY <2>2, <2>3
<1>8. Ordered(t)
  <2> SUFFICES ASSUME NEW p \in Nodes PROVE Sorted(t.kids[p], t.prio)
    BY DEF Ordered
  <2>1. Sorted(s.kids[p], s.prio)
    BY DEF TreeOK, Ordered
  <2>2. Sorted(<<>>, s.prio)
    BY <1>2 DEF Sorted
  <2> QED BY <1>4, <1>6, <2>1, <2>2
<1>9. Placed(t) /\ Ranked(t, {})
  <2>1. Placed(s) /\ Ranked(s, {})
    BY DEF TreeOK
  <2> QED BY <1>4, <1>6, <2>1, RootFacts DEF Placed, Ranked
<1> QED BY <1>4, <1>6, <1>7, <1>8, <1>9 DEF TreeOK

Dropped(s, ws, t) ==
    /\ t \in States /\ t.kids = s.kids /\ t.parent = s.parent /\ t.prio = s.prio /\ t.focus = s.focus
    /\ t.active = s.active /\ t.locked = s.locked /\ t.list = s.list /\ t.asked = s.asked
    /\ t.alive = s.alive \ ws /\ t.token = s.token \ ws /\ t.starting = s.starting \ ws
    /\ \A x \in Windows : t.visible[x] = (s.visible[x] /\ x \notin ws) /\ t.requested[x] = (s.requested[x] /\ x \notin ws)

LEMMA InnerOK ==
  ASSUME NEW s \in States, NEW ws, NEW t, t = DestroyWindowInner(s, ws)
  PROVE  Dropped(s, ws, t)
<1> DEFINE requested == [x \in Windows |-> s.requested[x] /\ x \notin ws]
           visible == [x \in Windows |-> s.visible[x] /\ x \notin ws]
           alive == s.alive \ ws
           token == s.token \ ws
           starting == s.starting \ ws
<1>1. /\ requested \in [Windows -> BOOLEAN] /\ visible \in [Windows -> BOOLEAN]
      /\ alive \in SUBSET Windows /\ token \in SUBSET Windows /\ starting \in SUBSET Windows
  BY DEF States
<1>2. t = [s EXCEPT !.alive = alive, !.token = token, !.starting = starting,
                    !.requested = requested, !.visible = visible]
  BY DEF DestroyWindowInner
<1>3. \A x \in Windows : visible[x] = (s.visible[x] /\ x \notin ws) /\ requested[x] = (s.requested[x] /\ x \notin ws)
  OBVIOUS
<1> HIDE DEF requested, visible, alive, token, starting
<1>4. /\ t \in States /\ t.kids = s.kids /\ t.parent = s.parent /\ t.prio = s.prio /\ t.focus = s.focus
      /\ t.active = s.active /\ t.locked = s.locked /\ t.list = s.list /\ t.asked = s.asked
      /\ t.alive = alive /\ t.token = token /\ t.starting = starting /\ t.visible = visible /\ t.requested = requested
  BY <1>1, <1>2, ZenonT(30) DEF States
<1> QED BY <1>3, <1>4 DEF Dropped, alive, token, starting

LEMMA DestroyOK ==
  ASSUME NEW s, Good(s), NEW w \in s.alive, NEW onlySelf \in BOOLEAN, NEW t, t = DestroyWindow(s, w, onlySelf)
  PROVE  Destroyed(s, w, onlySelf, t)
<1> DEFINE kids == ToSet(s.kids[w])
           a == PassOn(s, w)
           b == RemoveFromContainer(a, w)
           c == LetGo(b, w, kids)
           ws == IF onlySelf THEN {w} ELSE {w} \cup kids
<1>1. TreeOK(s, {}) /\ s \in States /\ w \in Windows /\ w \in Nodes
  BY RootFacts DEF Good, TreeOK, States
<1>2. kids = {x \in Windows : s.parent[x] = w}
  BY <1>1 DEF TreeOK, Linked
<1>3. t = DestroyWindowInner(c, ws)
  BY DEF DestroyWindow, LetGo
<1>4. ws = Gone(s, w, onlySelf)
  BY <1>1, <1>2 DEF Gone
<1> HIDE DEF kids, a, b, c, ws
<1>5. PassedOn(s, w, a)
  BY <1>1, PassOnOK DEF a
<1>6. TreeOK(a, {}) /\ SameButFocus(s, a) /\ a \in States
  BY <1>1, <1>5, SameTree DEF PassedOn, SameButFocus
<1>7. Removed(a, w, b)
  BY <1>1, <1>6, RemoveFromOK DEF b
<1>8. s.parent[w] # w
  <2>1. s.parent[w] \in Windows => s.parent[w] = Caller[w] /\ HasCaller(w)
    BY <1>1 DEF TreeOK, Placed
  <2> QED BY <1>1, <2>1, TypeFacts
<1>9. kids = {x \in Windows : b.parent[x] = w}
  BY <1>1, <1>2, <1>6, <1>7, <1>8, RootFacts DEF Removed, SameButFocus
<1>10. /\ TreeOK(c, {}) /\ c.prio = b.prio /\ SameRest(b, c)
       /\ \A x \in Windows : c.parent[x] = IF b.parent[x] = w THEN Null ELSE b.parent[x]
  <2>1. TreeOK(b, {}) /\ c = LetGo(b, w, kids)
    BY <1>7 DEF Removed, c
  <2> QED BY <1>1, <1>9, <2>1, LetGoOK
<1>11. Dropped(c, ws, t)
  BY <1>3, <1>10, InnerOK DEF TreeOK
<1>12. /\ t.prio = s.prio /\ t.locked = (s.locked /\ Type[w] # "KEYGUARD")
       /\ t.alive = s.alive \ ws /\ t.token = s.token \ ws /\ t.starting = s.starting \ ws /\ t.active = a.active
       /\ \A x \in Windows : /\ t.parent[x] = IF x = w \/ s.parent[x] = w THEN Null ELSE s.parent[x]
                             /\ t.visible[x] = (s.visible[x] /\ x # w /\ x \notin ws)
                             /\ t.requested[x] = (s.requested[x] /\ x # w /\ x \notin ws)
  <2>1. \A x \in Windows : t.parent[x] = IF x = w \/ s.parent[x] = w THEN Null ELSE s.parent[x]
    BY <1>1, <1>6, <1>7, <1>8, <1>10, <1>11, RootFacts DEF SameButFocus, Removed, Dropped
  <2>2. \A x \in Windows : /\ t.visible[x] = (s.visible[x] /\ x # w /\ x \notin ws)
                           /\ t.requested[x] = (s.requested[x] /\ x # w /\ x \notin ws)
    BY <1>6, <1>7, <1>10, <1>11, Zenon DEF SameButFocus, Removed, SameRest, Dropped
  <2>3. /\ t.prio = s.prio /\ t.locked = (s.locked /\ Type[w] # "KEYGUARD")
        /\ t.alive = s.alive \ ws /\ t.token = s.token \ ws /\ t.starting = s.starting \ ws /\ t.active = a.active
    BY <1>6, <1>7, <1>10, <1>11 DEF SameButFocus, Removed, SameRest, Dropped
  <2> QED BY <2>1, <2>2, <2>3
<1>13. w \in ws
  BY DEF ws
<1>14. \A x \in Windows : t.visible[x] = (s.visible[x] /\ x \notin ws) /\ t.requested[x] = (s.requested[x] /\ x \notin ws)
  BY <1>12, <1>13, Zenon
<1>15. TreeOK(t, {})
  <2>1. t \in States /\ t.kids = c.kids /\ t.parent = c.parent /\ t.prio = c.prio
    BY <1>11 DEF Dropped
  <2> QED BY <1>10, <2>1, SameTree
<1>16. \A x \in Windows : x \in ws => x = w \/ s.parent[x] = w
  BY <1>2 DEF ws
<1>17. Seen(t)
  BY <1>12, <1>14, <1>16 DEF Good, Seen
<1>18. Living(t)
  <2> SUFFICES ASSUME NEW x \in Windows, t.parent[x] # Null
               PROVE  x \in t.alive /\ (t.parent[x] \in Windows => t.parent[x] \in t.alive)
    BY DEF Living
  <2>1. x # w /\ s.parent[x] # w /\ t.parent[x] = s.parent[x]
    BY <1>12
  <2>2. x \in s.alive /\ (s.parent[x] \in Windows => s.parent[x] \in s.alive)
    BY <2>1 DEF Good, Living
  <2>3. ASSUME s.parent[x] \in Windows PROVE s.parent[x] \notin ws
    <3>1. HasCaller(x) /\ s.parent[x] = Caller[x] /\ IsMainWindow(Caller[x])
      BY <1>1, <2>3, TypeFacts DEF TreeOK, Placed
    <3>2. s.parent[s.parent[x]] \notin Windows
      BY <1>1, <2>3, <3>1, TypeFacts DEF TreeOK, Placed
    <3> QED BY <1>1, <1>16, <2>1, <2>3, <3>2
  <2> QED BY <1>12, <1>16, <2>1, <2>2, <2>3
<1>19. Shown(t)
  <2> SUFFICES ASSUME NEW x \in Windows, t.visible[x]
               PROVE  x \in t.alive /\ (HasCaller(x) \/ t.parent[x] # Null)
    BY DEF Shown
  <2>1. s.visible[x] /\ x \notin ws
    BY <1>14
  <2>2. x \in s.alive /\ (HasCaller(x) \/ s.parent[x] # Null)
    BY <2>1 DEF Good, Shown
  <2>3. ~ HasCaller(x) => s.parent[x] # w
    BY <1>1 DEF TreeOK, Placed
  <2> QED BY <1>12, <1>13, <2>1, <2>2, <2>3
<1>20. Counted(t)
  BY <1>12 DEF Good, Counted
<1>21. t.active = IF Loses(s, w, s.active) /\ NextActiveOf(s, w) # Null THEN NextActiveOf(s, w) ELSE s.active
  BY <1>5, <1>12 DEF PassedOn
<1>22. Good(t)
  BY <1>15, <1>17, <1>18, <1>19, <1>20 DEF Good
<1> QED BY <1>4, <1>12, <1>14, <1>21, <1>22 DEF Destroyed

-----------------------------------------------------------------------------
(* The window that becomes active when another one goes.  Where there are  *)
(* no dialogs, the desktop is the only one and its process does not die,   *)
(* there always is one. *)
Plain == /\ \A x \in Windows : Type[x] # "DIALOG"
         /\ \A x \in Windows : Type[x] = "DESKTOP" => x = First
         /\ Process[First] \notin Mortal

Active(s) == s.parent[First] = "BELOW" /\ s.active \in Windows /\ InT(s, s.active)

Heir(s, w, r) == r \in Windows /\ InT(s, r) /\ r # w /\ Top(s, r) # w

LEMMA EitherOrder ==
  ASSUME NEW S, NEW f \in Seq(S), NEW x \in ToSet(f), NEW y \in ToSet(f), x # y
  PROVE  InOrder(f, x, y) \/ InOrder(f, y, x)
<1>1. DOMAIN f = 1 .. Len(f) /\ Len(f) \in Nat
  BY LenProperties
<1>2. PICK k \in 1 .. Len(f), l \in 1 .. Len(f) : f[k] = x /\ f[l] = y
  BY <1>1 DEF ToSet
<1>3. k < l \/ l < k
  BY <1>1, <1>2
<1> QED BY <1>1, <1>2, <1>3 DEF InOrder

(* No window is twice in the z order. *)
LEMMA ZOrderStrict ==
  ASSUME NEW s, TreeOK(s, {}), NEW x \in Windows
  PROVE  ~ InOrder(BottomToTop(s), x, x)
<1> DEFINE m == Top(s, x)
           p == s.parent[m]
<1>1. ZOrder(s, BottomToTop(s))
  BY ZOrderOK
<1> SUFFICES ASSUME InOrder(BottomToTop(s), x, x) PROVE FALSE
  OBVIOUS
<1>2. m \in Windows /\ p \in Roots
  <2>1. x \in ToSet(BottomToTop(s))
    BY DEF InOrder, ToSet
  <2> QED BY <1>1, <2>1, TopOK DEF ZOrder, InT
<1>3. Around(s, m, x, x) \/ InOrder(s.kids[p], m, m)
  BY <1>1 DEF ZOrder, Lower
<1>4. s.parent[m] # m
  BY <1>2, RootFacts
<1> HIDE DEF m, p
<1>5. \A q \in Nodes, y \in Windows : ~ InOrder(s.kids[q], y, y)
  <2> SUFFICES ASSUME NEW q \in Nodes, NEW y \in Windows PROVE ~ InOrder(s.kids[q], y, y)
    OBVIOUS
  <2> DEFINE k == s.kids[q]
  <2>1. k \in Seq(Windows) /\ IsInjective(k)
    BY DEF TreeOK, Linked, States
  <2> HIDE DEF k
  <2>2. ~ InOrder(k, y, y)
    BY <2>1, InjectiveMeans
  <2> QED BY <2>2 DEF k
<1>6. m \notin ToSet(s.kids[m])
  BY <1>2, <1>4, RootFacts DEF TreeOK, Linked
<1> QED BY <1>2, <1>3, <1>5, <1>6, RootFacts DEF Around

LEMMA FirstFacts ==
  /\ First \in Windows /\ ~ IsAppWindow(First) /\ ~ IsMainWindow(First) /\ ~ HasCaller(First) /\ FindRoot(First) = "BELOW"
  /\ Type[First] = "DESKTOP" /\ "BELOW" \in Roots /\ "BELOW" \notin Windows
BY RootAssumption, RootFacts DEF IsAppWindow, IsMainWindow, IsSubWindow, HasCaller, FindRoot

LEMMA NextAppActive ==
  ASSUME Plain, NEW s, Good(s), Active(s), NEW w \in Windows, IsAppWindow(w), InT(s, w)
  PROVE  Heir(s, w, NextActiveOf(s, w))
<1> DEFINE B == BottomToTop(s)
           v == SearchFrom(s, w)
           set == {x \in Windows : s.visible[x]}
           r == NextBelow(s, v, set)
           q == s.kids[w]
<1>1. TreeOK(s, {}) /\ s \in States
  BY DEF Good, TreeOK
<1>2. ZOrder(s, B)
  BY <1>1, ZOrderOK
<1>3. /\ q \in Seq(Windows) /\ IsInjective(q) /\ ToSet(q) = {x \in Windows : s.parent[x] = w} /\ Sorted(q, s.prio)
      /\ Len(q) \in Nat /\ DOMAIN q = 1 .. Len(q) /\ \A i \in DOMAIN q : q[i] \in ToSet(q)
  <2>1. q \in Seq(Windows) /\ IsInjective(q) /\ ToSet(q) = {x \in Windows : s.parent[x] = w} /\ Sorted(q, s.prio)
    BY <1>1, RootFacts DEF TreeOK, Linked, Ordered, States
  <2> HIDE DEF q
  <2>2. \A i \in DOMAIN q : q[i] \in ToSet(q)
    BY DEF ToSet
  <2> QED BY <2>1, <2>2, LenProperties
<1>4. \/ v = w /\ ~ (IsMainWindow(w) /\ q # <<>> /\ s.prio[Head(q)] < 0)
      \/ v = Head(q) /\ IsMainWindow(w) /\ q # <<>> /\ s.prio[Head(q)] < 0
  BY DEF SearchFrom
<1> HIDE DEF q
<1>5. q # <<>> => 1 \in DOMAIN q /\ Head(q) = q[1]
  BY <1>3, HeadTailProperties, EmptySeq
<1>6. v \in Windows /\ (v # w => s.parent[v] = w /\ v = q[1] /\ s.prio[v] < 0 /\ q # <<>> /\ IsMainWindow(w))
  <2>1. ToSet(q) \subseteq Windows
    BY <1>3
  <2> QED BY <1>3, <1>4, <1>5, <2>1
<1> HIDE DEF v
<1>7. \A x \in Windows : s.parent[x] = w => Top(s, x) = w
  BY DEF Top
<1>8. s.parent[Top(s, w)] \in Roots
  BY DEF InT
<1>9. IsMainWindow(w) => Top(s, w) = w
  BY <1>1, TopOK, TypeFacts
<1>10. Top(s, v) = Top(s, w) /\ InT(s, v)
  <2>1. CASE v = w
    BY <1>8, <2>1 DEF InT
  <2>2. CASE v # w
    BY <1>6, <1>7, <1>8, <1>9, <2>2 DEF InT
  <2> QED BY <2>1, <2>2
<1>11. IsAppWindow(v)
  <2>1. CASE v # w
    <3>1. HasCaller(v)
      BY <1>1, <1>6, <2>1 DEF TreeOK, Placed
    <3> QED BY <1>6, <3>1 DEF HasCaller, IsAppWindow, Plain
  <2> QED BY <2>1
<1>12. s.parent[Top(s, v)] \in {"APP", "ABOVE"}
  <2> DEFINE m == Top(s, v)
  <2>1. m \in Windows /\ s.parent[m] \in Roots
    BY <1>1, <1>6, <1>10, TopOK DEF InT
  <2>2. IsAppWindow(m)
    BY <1>1, <1>6, <1>11, TopOK DEF IsAppWindow
  <2> HIDE DEF m
  <2>3. FindRoot(m) = "APP"
    BY <2>2 DEF FindRoot
  <2>4. s.parent[m] = FindRoot(m) \/ s.parent[m] = "ABOVE"
    BY <1>1, <2>1 DEF TreeOK, Placed
  <2> QED BY <2>3, <2>4 DEF m
<1>13. Top(s, First) = First /\ InT(s, First) /\ s.parent[Top(s, First)] = "BELOW"
  BY FirstFacts DEF Active, Top, InT
<1>14. InOrder(B, First, v)
  <2>1. First \in ToSet(B) /\ v \in ToSet(B) /\ First # v /\ B \in Seq(Windows)
    BY <1>2, <1>6, <1>10, <1>11, <1>13, FirstFacts DEF ZOrder
  <2>2. ~ InOrder(B, v, First)
    <3> SUFFICES ASSUME InOrder(B, v, First) PROVE FALSE
      OBVIOUS
    <3> HIDE DEF B
    <3>1. \/ Lower(s.parent[Top(s, v)], s.parent[Top(s, First)])
          \/ s.parent[Top(s, v)] = s.parent[Top(s, First)]
      BY <1>2, <1>6, FirstFacts DEF ZOrder
    <3> QED BY <1>12, <1>13, <3>1 DEF Lower
  <2> HIDE DEF B
  <2> QED BY <2>1, <2>2, EitherOrder
<1>15. Found(s, v, set, r)
  <2> HIDE DEF set
  <2> QED BY <1>1, NextBelowOK
<1>16. r \in Windows /\ InOrder(B, r, v)
  <2>1. First \in set
    BY FirstFacts, RootFacts DEF Good, Seen, Active
  <2> HIDE DEF set, r
  <2> QED BY <1>14, <1>15, <2>1, FirstFacts DEF Found, B
<1>17. InTree(s, v)
  BY <1>2, <1>6, <1>10 DEF InTree, ZOrder, B
<1>18. NextActiveOf(s, w) = r
  BY <1>11, <1>17 DEF NextActiveOf, GetNextActiveWindow, v
<1> HIDE DEF r, B
<1>19. InT(s, r)
  <2>1. r \in ToSet(B)
    BY <1>16 DEF InOrder, ToSet
  <2> QED BY <1>2, <2>1 DEF ZOrder
<1>20. Top(s, r) # w
  <2> SUFFICES ASSUME Top(s, r) = w PROVE FALSE
    OBVIOUS
  <2>1. s.parent[w] \in Roots /\ s.parent[w] \notin Windows /\ Top(s, w) = w
    BY <1>19, RootFacts DEF InT, Top
  <2>2. \/ Lower(s.parent[Top(s, r)], s.parent[Top(s, v)])
        \/ Around(s, Top(s, r), r, v)
        \/ InOrder(s.kids[s.parent[Top(s, r)]], Top(s, r), Top(s, v))
    BY <1>2, <1>6, <1>16 DEF ZOrder
  <2>3. ~ Lower(s.parent[Top(s, r)], s.parent[Top(s, v)])
    BY <1>10, <2>1 DEF Lower
  <2>4. ~ InOrder(s.kids[s.parent[Top(s, r)]], Top(s, r), Top(s, v))
    <3> DEFINE k == s.kids[s.parent[w]]
    <3>1. k \in Seq(Windows) /\ IsInjective(k)
      BY <1>1, <2>1, RootFacts DEF TreeOK, Linked, States
    <3> HIDE DEF k
    <3>2. ~ InOrder(k, w, w)
      BY <3>1, InjectiveMeans
    <3> QED BY <1>10, <2>1, <3>2 DEF k
  <2>5. Around(s, w, r, v)
    BY <2>2, <2>3, <2>4
  <2>6. w \notin ToSet(q)
    BY <1>3, <2>1
  <2>7. \A x, y : InOrder(q, x, y) => x \in ToSet(q) /\ y \in ToSet(q)
    BY DEF InOrder, ToSet
  <2>8. CASE v = w
    <3>1. r \in ToSet(q) /\ s.prio[r] < 0
      BY <2>5, <2>6, <2>7, <2>8 DEF Around, q
    <3>2. PICK i \in 1 .. Len(q) : q[i] = r
      BY <1>3, <3>1 DEF ToSet
    <3>3. q # <<>> /\ 1 \in DOMAIN q /\ Head(q) = q[1]
      <4>1. 1 \in DOMAIN q
        BY <1>3
      <4>2. q # <<>>
        BY <4>1, EmptySeq
      <4> QED BY <1>5, <4>2
    <3>4. s.prio[q[1]] <= s.prio[q[i]]
      <4>1. \A x \in Windows : s.prio[x] \in Int
        <5>1. \A k \in Ranks : k \in Int
          BY DEF Ranks
        <5> QED BY <1>1, <5>1 DEF States
      <4>2. q[1] \in Windows
        BY <1>3, <3>3
      <4>3. CASE i = 1
        BY <4>1, <4>2, <4>3
      <4>4. CASE 1 < i
        BY <1>3, <3>3, <4>4 DEF Sorted
      <4> QED BY <4>3, <4>4
    <3>5. IsMainWindow(w)
      <4>1. HasCaller(r) /\ s.parent[r] = Caller[r] /\ s.parent[r] = w
        BY <1>1, <1>3, <3>1 DEF TreeOK, Placed
      <4> QED BY <1>16, <4>1, TypeFacts
    <3>6. s.prio[q[1]] < 0
      <4>1. s.prio[q[1]] \in Int /\ s.prio[r] \in Int
        <5>1. \A k \in Ranks : k \in Int
          BY DEF Ranks
        <5>2. q[1] \in Windows
          BY <1>3, <3>3
        <5> QED BY <1>1, <1>16, <5>1, <5>2 DEF States
      <4> QED BY <3>1, <3>2, <3>4, <4>1
    <3>7. ~ (IsMainWindow(w) /\ q # <<>> /\ s.prio[Head(q)] < 0)
      BY <1>4, <1>3, <2>6, <2>8, <3>3
    <3> QED BY <3>3, <3>5, <3>6, <3>7
  <2>9. CASE v # w
    <3>1. s.prio[v] < 0 /\ v = q[1] /\ q # <<>> /\ v \in ToSet(q)
      BY <1>3, <1>5, <1>6, <2>9
    <3>2. InOrder(q, r, v)
      BY <2>5, <2>9, <3>1 DEF Around, q
    <3>3. PICK k \in DOMAIN q, l \in DOMAIN q : k < l /\ q[l] = q[1]
      BY <3>1, <3>2 DEF InOrder
    <3>4. l = 1
      BY <1>3, <1>5, <3>1, <3>3 DEF IsInjective
    <3> QED BY <1>3, <3>3, <3>4
  <2> QED BY <2>8, <2>9
<1>21. r # w
  <2>1. CASE v = w
    BY <1>1, <1>16, <2>1, ZOrderStrict DEF B
  <2>2. CASE v # w
    <3>1. Top(s, w) = w
      BY <1>6, <1>9, <2>2
    <3> QED BY <1>20, <3>1
  <2> QED BY <2>1, <2>2
<1> QED BY <1>16, <1>18, <1>19, <1>20, <1>21 DEF Heir

LEMMA NextSystemActive ==
  ASSUME Plain, NEW s, Good(s), Active(s), NEW w \in Windows, ~ IsAppWindow(w), InT(s, w), w # First
  PROVE  Heir(s, w, NextActiveOf(s, w))
<1> DEFINE q == s.kids["APP"]
           b == s.kids["BELOW"]
           I == {j \in 1 .. Len(b) : Type[b[j]] = "DESKTOP"}
           i == SelectInSeq(b, LAMBDA x : Type[x] = "DESKTOP")
           r == IF q # <<>> THEN Head(q) ELSE IF i = 0 THEN Null ELSE b[i]
<1>1. TreeOK(s, {})
  BY DEF Good
<1>2. /\ q \in Seq(Windows) /\ b \in Seq(Windows) /\ ToSet(q) = {x \in Windows : s.parent[x] = "APP"}
      /\ ToSet(b) = {x \in Windows : s.parent[x] = "BELOW"}
  BY <1>1, RootFacts DEF TreeOK, Linked, States
<1>3. SearchFrom(s, w) = w
  BY DEF SearchFrom, IsAppWindow
<1>4. InTree(s, w)
  <2>1. ZOrder(s, BottomToTop(s))
    BY <1>1, ZOrderOK
  <2> QED BY <2>1 DEF InTree, ZOrder
<1>5. NextActiveOf(s, w) = r
  BY <1>3, <1>4 DEF NextActiveOf, GetNextActiveWindow
<1>6. s.parent[w] # "APP"
  <2>1. FindRoot(w) # "APP" /\ ~ HasCaller(w) /\ ~ Flagged(w)
    BY FlaggedFacts DEF FindRoot, IsAppWindow, HasCaller, Plain, Flagged
  <2> QED BY <1>1, <2>1, RootFacts DEF TreeOK, Placed
<1>7. i = IF I # {} THEN Min(I) ELSE 0
  BY DEF SelectInSeq
<1> HIDE DEF q, b, i
<1>8. CASE q # <<>>
  <2>1. Head(q) \in ToSet(q)
    <3>1. 1 \in DOMAIN q /\ Head(q) = q[1]
      BY <1>2, <1>8, LenProperties, EmptySeq, HeadTailProperties
    <3> QED BY <3>1 DEF ToSet
  <2>2. Head(q) \in Windows /\ s.parent[Head(q)] = "APP" /\ "APP" \in Roots /\ "APP" \notin Windows
    BY <1>2, <2>1, RootFacts
  <2>3. r = Head(q)
    BY <1>8
  <2> HIDE DEF r
  <2> QED BY <1>5, <1>6, <2>2, <2>3 DEF Heir, InT, Top
<1>9. CASE q = <<>>
  <2>1. Len(b) \in Nat /\ DOMAIN b = 1 .. Len(b)
    BY <1>2, LenProperties
  <2>2. First \in ToSet(b)
    BY <1>2, FirstFacts DEF Active
  <2>3. PICK j \in 1 .. Len(b) : b[j] = First
    BY <2>1, <2>2 DEF ToSet
  <2>4. I \in SUBSET Nat /\ I # {}
    BY <2>1, <2>3, FirstFacts
  <2>5. Min(I) \in I
    <3> HIDE DEF I
    <3> QED BY <2>4, MinOK
  <2>6. i \in 1 .. Len(b) /\ Type[b[i]] = "DESKTOP"
    BY <1>7, <2>4, <2>5
  <2>7. b[i] \in Windows
    BY <1>2, <2>6, LenProperties
  <2>8. b[i] = First
    BY <2>6, <2>7 DEF Plain
  <2>9. r = First
    BY <1>9, <2>6, <2>8
  <2> HIDE DEF r
  <2> QED BY <1>5, <2>9, FirstFacts DEF Heir, InT, Top, Active
<1> QED BY <1>8, <1>9

(* The active window stays in the tree when another one is passed on.      *)
LEMMA HeirOK ==
  ASSUME Plain, NEW s, Good(s), Active(s), NEW w \in Windows, w # First,
         NEW a, a = IF Loses(s, w, s.active) /\ NextActiveOf(s, w) # Null THEN NextActiveOf(s, w) ELSE s.active
  PROVE  Heir(s, w, a)
<1> DEFINE r == NextActiveOf(s, w)
<1>1. TreeOK(s, {})
  BY DEF Good
<1>2. ToSet(s.kids[w]) = {x \in Windows : s.parent[x] = w}
  BY <1>1, RootFacts DEF TreeOK, Linked
<1>3. CASE Loses(s, w, s.active)
  <2>1. InT(s, w)
    <3>1. CASE s.active = w
      BY <3>1 DEF Active
    <3>2. CASE s.parent[s.active] = w
      <4>1. Top(s, s.active) = w
        BY <3>2 DEF Top
      <4>2. s.parent[w] \in Roots
        BY <4>1 DEF Active, InT
      <4> QED BY <4>2, RootFacts DEF InT, Top
    <3> QED BY <1>2, <1>3, <3>1, <3>2 DEF Loses
  <2>2. Heir(s, w, r)
    <3> HIDE DEF r
    <3>1. CASE IsAppWindow(w)
      BY <2>1, <3>1, NextAppActive DEF r
    <3>2. CASE ~ IsAppWindow(w)
      BY <2>1, <3>2, NextSystemActive DEF r
    <3> QED BY <3>1, <3>2
  <2>3. r # Null
    BY <2>2, TreeAssumption DEF Heir
  <2> QED BY <1>3, <2>2, <2>3
<1>4. CASE ~ Loses(s, w, s.active)
  <2>1. a = s.active /\ a # w /\ a \in Windows
    BY <1>4 DEF Loses, Active
  <2>2. s.parent[a] # w
    <3> SUFFICES ASSUME s.parent[a] = w PROVE FALSE
      OBVIOUS
    <3>1. IsMainWindow(w)
      BY <1>1, <2>1, TypeFacts DEF TreeOK, Placed
    <3> QED BY <1>2, <1>4, <2>1, <3>1 DEF Loses
  <2>3. Top(s, a) # w
    BY <2>1, <2>2 DEF Top
  <2> QED BY <1>4, <2>1, <2>3 DEF Heir, Active
<1> QED BY <1>3, <1>4

LEMMA DestroyKeepsActive ==
  ASSUME Plain, NEW s, Good(s), Active(s), NEW w \in s.alive, w # First, NEW onlySelf, NEW t, Destroyed(s, w, onlySelf, t)
  PROVE  Active(t)
<1>1. w \in Windows
  BY DEF Good, TreeOK, States
<1>2. Heir(s, w, t.active)
  BY <1>1, HeirOK DEF Destroyed
<1>3. \A x \in Windows : t.parent[x] = IF x = w \/ s.parent[x] = w THEN Null ELSE s.parent[x]
  BY DEF Destroyed
<1>4. t.parent[First] = "BELOW"
  BY <1>1, <1>3, FirstFacts DEF Active
<1>5. InT(t, t.active)
  <2> DEFINE a == t.active
             m == Top(s, a)
  <2>1. a \in Windows /\ s.parent[m] \in Roots /\ m # w /\ m \in Windows
    BY <1>2, TopOK DEF Heir, InT, Good
  <2>2. a # w /\ s.parent[a] # w
    <3>1. s.parent[a] # w
      BY <1>1, <2>1 DEF Top
    <3> QED BY <1>2, <3>1 DEF Heir
  <2>3. t.parent[a] = s.parent[a]
    BY <1>3, <2>1, <2>2
  <2>4. Top(t, a) = m
    BY <2>3 DEF Top
  <2>5. t.parent[m] = s.parent[m]
    <3>1. s.parent[m] \notin Windows
      BY <2>1, RootFacts
    <3> QED BY <1>1, <1>3, <2>1, <3>1
  <2> QED BY <2>1, <2>4, <2>5 DEF InT
<1> QED BY <1>2, <1>4, <1>5 DEF Active, Heir

-----------------------------------------------------------------------------
(* The starting windows that no client took over are destroyed.            *)
Leaked(s, t) ==
    /\ t \in States /\ Good(t) /\ t.locked = s.locked /\ t.prio = s.prio /\ t.alive \subseteq s.alive
    /\ (Plain /\ Active(s) => Active(t))
    /\ \A x \in Windows :
         /\ t.parent[x] = s.parent[x] \/ t.parent[x] = Null
         /\ t.visible[x] => /\ s.visible[x] /\ t.parent[x] = s.parent[x]
                            /\ s.parent[x] \in Windows => t.parent[s.parent[x]] = s.parent[s.parent[x]]

LEMMA LaunchedFacts ==
  ASSUME NEW x \in Launched
  PROVE  x \in Windows /\ IsMainWindow(x) /\ Type[x] = "APP_MAIN_WINDOW" /\ x # First /\ ~ HasCaller(x)
BY RootAssumption, TypeFacts DEF IsMainWindow

LEMMA LeakStep ==
  ASSUME NEW s, NEW t, Leaked(s, t), NEW d \in Launched, NEW u, u = DestroyWindow(t, d, FALSE)
  PROVE  Leaked(s, u)
<1>1. CASE d \notin t.alive
  BY <1>1 DEF DestroyWindow
<1>2. CASE d \in t.alive
  <2>1. Destroyed(t, d, FALSE, u)
    BY <1>2, DestroyOK DEF Leaked
  <2>2. d \in Windows /\ Type[d] # "KEYGUARD" /\ d # First
    BY LaunchedFacts
  <2>3. u \in States /\ Good(u) /\ u.locked = s.locked /\ u.prio = s.prio /\ u.alive \subseteq s.alive
    <3>1. t.locked \in BOOLEAN
      BY DEF Leaked, States
    <3> QED BY <2>1, <2>2, <3>1 DEF Destroyed, Leaked, Good, TreeOK
  <2>4. Plain /\ Active(s) => Active(u)
    BY <1>2, <2>1, <2>2, DestroyKeepsActive DEF Leaked
  <2>5. ASSUME NEW x \in Windows
        PROVE  /\ u.parent[x] = s.parent[x] \/ u.parent[x] = Null
               /\ u.visible[x] => /\ s.visible[x] /\ u.parent[x] = s.parent[x]
                                  /\ s.parent[x] \in Windows => u.parent[s.parent[x]] = s.parent[s.parent[x]]
    <3>1. u.parent[x] = s.parent[x] \/ u.parent[x] = Null
      <4>1. t.parent[x] = s.parent[x] \/ t.parent[x] = Null
        BY DEF Leaked
      <4>2. u.parent[x] = IF x = d \/ t.parent[x] = d THEN Null ELSE t.parent[x]
        BY <2>1 DEF Destroyed
      <4> QED BY <4>1, <4>2
    <3>2. ASSUME u.visible[x]
          PROVE  /\ s.visible[x] /\ u.parent[x] = s.parent[x]
                 /\ s.parent[x] \in Windows => u.parent[s.parent[x]] = s.parent[s.parent[x]]
      <4>1. t.visible[x] /\ x # d /\ t.parent[x] # d
        BY <2>1, <3>2 DEF Destroyed, Gone
      <4>2. s.visible[x] /\ t.parent[x] = s.parent[x] /\ u.parent[x] = s.parent[x]
        BY <2>1, <4>1 DEF Leaked, Destroyed
      <4>3. ASSUME s.parent[x] \in Windows
            PROVE  u.parent[s.parent[x]] = s.parent[s.parent[x]]
        <5> DEFINE p == s.parent[x]
        <5>1. p \in Windows /\ t.parent[x] = p /\ p # d
          BY <4>1, <4>2, <4>3
        <5>2. t.parent[p] = s.parent[p]
          BY <4>1, <4>3 DEF Leaked
        <5>3. t.parent[p] \notin Windows
          <6>1. TreeOK(t, {})
            BY DEF Leaked, Good
          <6>2. Top(t, x) = p
            BY <5>1 DEF Top
          <6> QED BY <6>1, <6>2, TopOK
        <5> QED BY <2>1, <2>2, <5>1, <5>2, <5>3 DEF Destroyed
      <4> QED BY <4>2, <4>3
    <3> QED BY <3>1, <3>2
  <2> QED BY <2>3, <2>4, <2>5 DEF Leaked
<1> QED BY <1>1, <1>2

LEMMA SetToSeqOK ==
  ASSUME NEW S, IsFiniteSet(S), NEW q, q = SetToSeq(S)
  PROVE  q \in Seq(S)
<1> DEFINE n == Cardinality(S)
           Is(f) == f \in [1 .. n -> S] /\ IsInjective(f)
<1>1. n \in Nat /\ ExistsBijection(1 .. n, S)
  BY FS_CardinalityType
<1>2. \E f : Is(f)
  <2>1. PICK f \in Bijection(1 .. n, S) : TRUE
    BY <1>1 DEF ExistsBijection
  <2> HIDE DEF n
  <2>2. Is(f)
    BY <2>1 DEF Bijection, Injection, IsInjective
  <2> QED BY <2>2
<1>3. q = CHOOSE f \in [1 .. n -> S] : IsInjective(f)
  BY DEF SetToSeq
<1>4. q \in [1 .. n -> S]
  <2> HIDE DEF n
  <2> QED BY <1>2, <1>3
<1> QED BY <1>1, <1>4

LEMMA LeakOK ==
  ASSUME NEW s, Good(s), NEW t, t = DestroyLeakStartingWindow(s)
  PROVE  Leaked(s, t)
<1> DEFINE ids == SetToSeq(s.starting \ s.token)
           N == Len(ids)
           X == {u \in States : Leaked(s, u)}
           step == [p \in (1 .. N) \X X |-> DestroyWindow(p[2], ids[p[1]], FALSE)]
           Runs2(g) == g = [n \in 0 .. N |-> IF n = 0 THEN s ELSE DestroyWindow(g[n - 1], ids[n], FALSE)]
           f == CHOOSE g : Runs2(g)
<1>1. s \in States /\ s.starting \subseteq Launched
  BY DEF Good, TreeOK, Counted
<1>2. ids \in Seq(Launched)
  <2> DEFINE S == s.starting \ s.token
  <2>1. IsFiniteSet(S)
    <3>1. S \subseteq Windows /\ IsFiniteSet(Windows)
      BY <1>1, TreeAssumption DEF States
    <3> HIDE DEF S
    <3> QED BY <3>1, FS_Subset
  <2>2. S \subseteq Launched
    BY <1>1
  <2>3. ids = SetToSeq(S)
    OBVIOUS
  <2> HIDE DEF S, ids
  <2>4. ids \in Seq(S)
    BY <2>1, <2>3, SetToSeqOK
  <2> QED BY <2>2, <2>4
<1> HIDE DEF ids
<1>3. N \in Nat /\ \A n \in 1 .. N : ids[n] \in Launched
  BY <1>2, LenProperties
<1>4. s \in X
  <2>1. Leaked(s, s)
    BY <1>1 DEF Leaked
  <2> QED BY <1>1, <2>1
<1>5. \A n \in 1 .. N, x \in X : step[<<n, x>>] = DestroyWindow(x, ids[n], FALSE)
  OBVIOUS
<1>6. StaysIn(X, N, step)
  <2>1. ASSUME NEW n \in 1 .. N, NEW x \in X PROVE DestroyWindow(x, ids[n], FALSE) \in X
    <3>1. Leaked(s, DestroyWindow(x, ids[n], FALSE))
      BY <1>3, LeakStep
    <3> QED BY <3>1 DEF Leaked
  <2> HIDE DEF step, X
  <2> QED BY <1>5, <2>1 DEF StaysIn
<1> HIDE DEF N
<1>7. \E g : Runs2(g)
  <2> HIDE DEF step, X
  <2>1. PICK g : Follows(g, X, s, N, step)
    BY <1>3, <1>4, <1>6, Recursion
  <2>2. g \in [0 .. N -> X] /\ g[0] = s /\ \A n \in 1 .. N : g[n] = step[<<n, g[n - 1]>>]
    BY <2>1 DEF Follows
  <2>3. \A n \in 1 .. N : g[n] = DestroyWindow(g[n - 1], ids[n], FALSE)
    <3>1. \A n \in 1 .. N : n - 1 \in 0 .. N
      BY <1>3
    <3> QED BY <1>5, <2>2, <3>1
  <2>4. \A n \in 0 .. N : g[n] = IF n = 0 THEN s ELSE DestroyWindow(g[n - 1], ids[n], FALSE)
    <3>1. \A n \in 0 .. N : n # 0 => n \in 1 .. N
      BY <1>3
    <3> QED BY <2>2, <2>3, <3>1
  <2>5. g = [n \in 0 .. N |-> g[n]]
    BY <2>2
  <2>6. Runs2(g)
    BY <2>4, <2>5
  <2> QED BY <2>6
<1>8. Runs2(f)
  <2> HIDE DEF Runs2
  <2> QED BY <1>7
<1>9. t = f[N]
  BY DEF DestroyLeakStartingWindow, N, ids
<1> HIDE DEF f
<1>10. \A n \in 0 .. N : f[n] = IF n = 0 THEN s ELSE DestroyWindow(f[n - 1], ids[n], FALSE)
  BY <1>8
<1> HIDE DEF Runs2
<1> DEFINE T == {n \in 0 .. N : f[n] \in X}
<1>11. 0 \in T
  <2> HIDE DEF X
  <2>1. 0 \in 0 .. N
    BY <1>3
  <2>2. f[0] = s
    BY <1>10, <2>1
  <2> QED BY <1>4, <2>1, <2>2
<1>12. ASSUME NEW n \in 0 .. N, n \in T, n < N PROVE n + 1 \in T
  <2>1. n + 1 \in 1 .. N /\ n + 1 \in 0 .. N /\ n + 1 # 0 /\ (n + 1) - 1 = n
    BY <1>3, <1>12
  <2>2. f[n + 1] = DestroyWindow(f[n], ids[n + 1], FALSE)
    BY <1>10, <2>1
  <2>3. f[n] \in X
    BY <1>12
  <2>4. f[n + 1] = step[<<n + 1, f[n]>>]
    BY <1>5, <2>1, <2>2, <2>3
  <2> HIDE DEF X, step
  <2>5. f[n + 1] \in X
    BY <1>6, <2>1, <2>3, <2>4 DEF StaysIn
  <2> QED BY <2>1, <2>5
<1>13. N \in T
  <2> HIDE DEF T
  <2>1. 0 .. N \subseteq T
    BY <1>3, <1>11, <1>12, UpTo
  <2> QED BY <1>3, <2>1
<1> QED BY <1>9, <1>13

-----------------------------------------------------------------------------
(* Raising a window that is no keyguard: on a locked screen what shows when *)
(* locked may go over the keyguard, all else keeps its parent. *)
Raised(s, t) ==
    /\ TreeOK(t, {}) /\ SameRest(s, t)
    /\ \A x \in Windows :
         \/ t.parent[x] = s.parent[x] /\ (t.prio[x] = s.prio[x] \/ ~ (Flagged(x) /\ s.locked))
         \/ Flagged(x) /\ s.locked /\ s.parent[x] \in Roots /\ t.parent[x] = "ABOVE" /\ t.prio[x] = 115

LEMMA RaisedNot ==
  ASSUME NEW s, TreeOK(s, {})
  PROVE  Raised(s, s)
BY DEF Raised, SameRest

LEMMA RaisedTwice ==
  ASSUME NEW s, NEW t, NEW u, Raised(s, t), Raised(t, u)
  PROVE  Raised(s, u)
<1>1. TreeOK(u, {}) /\ SameRest(s, u) /\ t.locked = s.locked
  BY DEF Raised, SameRest
<1>2. ASSUME NEW x \in Windows
      PROVE  \/ u.parent[x] = s.parent[x] /\ (u.prio[x] = s.prio[x] \/ ~ (Flagged(x) /\ s.locked))
             \/ Flagged(x) /\ s.locked /\ s.parent[x] \in Roots /\ u.parent[x] = "ABOVE" /\ u.prio[x] = 115
  <2>1. \/ t.parent[x] = s.parent[x] /\ (t.prio[x] = s.prio[x] \/ ~ (Flagged(x) /\ s.locked))
        \/ Flagged(x) /\ s.locked /\ s.parent[x] \in Roots /\ t.parent[x] = "ABOVE" /\ t.prio[x] = 115
    BY DEF Raised
  <2>2. \/ u.parent[x] = t.parent[x] /\ (u.prio[x] = t.prio[x] \/ ~ (Flagged(x) /\ s.locked))
        \/ Flagged(x) /\ s.locked /\ t.parent[x] \in Roots /\ u.parent[x] = "ABOVE" /\ u.prio[x] = 115
    BY <1>1 DEF Raised
  <2>3. "ABOVE" \in Roots
    BY DEF Roots
  <2> QED BY <2>1, <2>2, <2>3
<1> QED BY <1>1, <1>2 DEF Raised

LEMMA RaiseToTopOK ==
  ASSUME NEW s, TreeOK(s, {}), NEW w \in Windows, Type[w] # "KEYGUARD", NEW p \in Nodes,
         NEW t, t = RaiseWindowToTop(s, w, p)
  PROVE  Raised(s, t)
<1>1. CASE w \notin ToSet(s.kids[p])
  <2>1. t = s
    BY <1>1 DEF RaiseWindowToTop
  <2> QED BY <2>1, RaisedNot
<1>2. CASE w \in ToSet(s.kids[p])
  <2> DEFINE u == SetKids(s, s.parent[w], RemoveFirst(s.kids[s.parent[w]], w))
  <2>1. s.parent[w] = p /\ s.parent[w] # Null
    BY <1>2, RootFacts DEF TreeOK, Linked
  <2>2. t = UpdateWindowTree(u, w)
    BY <1>2, <2>1 DEF RaiseWindowToTop, SetKids
  <2>3. TreeOK(u, {w}) /\ u.parent = s.parent /\ u.prio = s.prio /\ SameRest(s, u)
    <3> DEFINE v == u
    <3>1. v = SetKids(s, s.parent[w], RemoveFirst(s.kids[s.parent[w]], w))
      OBVIOUS
    <3> HIDE DEF v
    <3>2. TreeOK(v, {w}) /\ v.parent = s.parent /\ v.prio = s.prio /\ SameRest(s, v)
      BY <2>1, <3>1, TakeOut
    <3> QED BY <3>2 DEF v
  <2> HIDE DEF u
  <2>4. Updated(u, w, t)
    BY <2>1, <2>2, <2>3, UpdateOK
  <2>5. TreeOK(t, {}) /\ SameRest(s, t) /\ u.locked = s.locked
    BY <2>3, <2>4 DEF Updated, SameRest
  <2>6. \A x \in Windows \ {w} : t.parent[x] = s.parent[x] /\ t.prio[x] = s.prio[x]
    BY <2>3, <2>4 DEF Updated, Goes
  <2>7. \/ t.parent[w] = s.parent[w] /\ (t.prio[w] = s.prio[w] \/ ~ (Flagged(w) /\ s.locked))
        \/ Flagged(w) /\ s.locked /\ s.parent[w] \in Roots /\ t.parent[w] = "ABOVE" /\ t.prio[w] = 115
    <3>1. CASE Flagged(w) /\ s.locked
      <4>1. s.parent[w] \in Roots
        <5>1. ~ HasCaller(w)
          BY <3>1, FlaggedFacts DEF Flagged
        <5>2. s.parent[w] \notin Windows
          BY <5>1 DEF TreeOK, Placed
        <5> QED BY <2>1, <5>2 DEF Nodes
      <4>2. t.parent[w] = "ABOVE" /\ t.prio[w] = 115
        BY <2>4, <2>5, <3>1 DEF Updated, RaisedOverKeyguard, Rank
      <4> QED BY <3>1, <4>1, <4>2
    <3>2. CASE ~ (Flagged(w) /\ s.locked)
      <4>1. t.parent[w] = u.parent[w]
        BY <2>4, <2>5, <3>2 DEF Updated, RaisedOverKeyguard
      <4> QED BY <2>3, <3>2, <4>1
    <3> QED BY <3>1, <3>2
  <2> QED BY <2>5, <2>6, <2>7 DEF Raised
<1> QED BY <1>1, <1>2

LEMMA RaiseZOrderOK ==
  ASSUME NEW s, TreeOK(s, {}), NEW w \in Windows, IsMainWindow(w) => s.parent[w] # Null,
         NEW p, p # Null => p \in Windows /\ IsMainWindow(p), ~ RaiseFaults(s, w, p),
         NEW t, t = RaiseZOrderForAppWindow(s, w, p)
  PROVE  Raised(s, t)
<1>1. CASE IsTopWindow(s, w, "APP") \/ IsTopWindow(s, w, "ABOVE")
  <2>1. t = s
    BY <1>1 DEF RaiseZOrderForAppWindow
  <2> QED BY <2>1, RaisedNot
<1>2. CASE ~ (IsTopWindow(s, w, "APP") \/ IsTopWindow(s, w, "ABOVE"))
  <2>1. \A x \in Windows : s.parent[x] # Null => s.parent[x] \in Nodes
    BY DEF TreeOK, States
  <2>2. CASE IsMainWindow(w)
    <3>1. t = RaiseWindowToTop(s, w, s.parent[w])
      BY <1>2, <2>2 DEF RaiseZOrderForAppWindow
    <3> DEFINE q == s.parent[w]
    <3>2. q \in Nodes
      BY <2>1, <2>2
    <3>3. Type[w] # "KEYGUARD" /\ t = RaiseWindowToTop(s, w, q)
      BY <2>2, <3>1 DEF IsMainWindow
    <3> HIDE DEF q
    <3> QED BY <3>2, <3>3, RaiseToTopOK
  <2>3. CASE ~ IsMainWindow(w) /\ HasCaller(w) /\ p # Null
    <3> DEFINE u == RaiseWindowToTop(s, w, p)
               q == u.parent[p]
    <3>1. t = RaiseWindowToTop(u, p, q)
      BY <1>2, <2>3 DEF RaiseZOrderForAppWindow
    <3>2. p \in Nodes /\ p \in Windows /\ IsMainWindow(p) /\ s.parent[p] # Null
      BY <1>2, <2>3, RootFacts DEF RaiseFaults
    <3>3. Type[w] # "KEYGUARD" /\ Type[p] # "KEYGUARD"
      BY <2>3, <3>2 DEF HasCaller, IsSubWindow, IsMainWindow
    <3> HIDE DEF u
    <3>4. Raised(s, u)
      <4>1. u = RaiseWindowToTop(s, w, p)
        BY DEF u
      <4> QED BY <3>2, <3>3, <4>1, RaiseToTopOK
    <3>5. q \in Nodes
      <4>1. q = s.parent[p] \/ q = "ABOVE"
        BY <3>2, <3>4 DEF Raised
      <4> QED BY <2>1, <3>2, <4>1, RootFacts
    <3> HIDE DEF q
    <3>6. Raised(u, t)
      <4>1. TreeOK(u, {})
        BY <3>4 DEF Raised
      <4> QED BY <3>1, <3>2, <3>3, <3>5, <4>1, RaiseToTopOK
    <3> QED BY <3>4, <3>6, RaisedTwice
  <2>4. CASE ~ IsMainWindow(w) /\ ~ (HasCaller(w) /\ p # Null)
    <3>1. t = s
      BY <1>2, <2>4 DEF RaiseZOrderForAppWindow
    <3> QED BY <3>1, RaisedNot
  <2> QED BY <2>2, <2>3, <2>4
<1> QED BY <1>1, <1>2

(* A window that is somewhere stays there.                                 *)
Moved(s, t) ==
    /\ SameRest(s, t)
    /\ \A x \in Windows :
         \/ t.parent[x] = s.parent[x]
         \/ Flagged(x) /\ s.parent[x] \in Roots /\ t.parent[x] \in Roots

LEMMA RaisedMoves ==
  ASSUME NEW s, NEW t, Raised(s, t)
  PROVE  Moved(s, t)
BY DEF Raised, Moved, Roots

LEMMA MovedIsGood ==
  ASSUME NEW s, NEW t, Good(s), Moved(s, t), TreeOK(t, {})
  PROVE  Good(t)
<1>1. \A x \in Windows : \/ t.parent[x] = s.parent[x]
                         \/ t.parent[x] \in Roots /\ s.parent[x] \in Roots
  BY DEF Moved
<1>2. \A x \in Windows : t.parent[x] # Null <=> s.parent[x] # Null
  BY <1>1, RootFacts
<1>3. \A x \in Windows : t.parent[x] \in Windows => s.parent[x] = t.parent[x]
  BY <1>1, RootFacts
<1>4. t.requested = s.requested /\ t.visible = s.visible /\ t.alive = s.alive /\ t.token = s.token /\ t.starting = s.starting
  BY DEF Moved, SameRest
<1> QED BY <1>2, <1>3, <1>4 DEF Good, Seen, Living, Shown, Counted

LEMMA MovedInT ==
  ASSUME NEW s, NEW t, Moved(s, t), TreeOK(s, {}), NEW x \in Windows
  PROVE  Top(t, x) = Top(s, x) /\ (InT(s, x) <=> InT(t, x))
<1>1. \A y \in Windows : \/ t.parent[y] = s.parent[y]
                         \/ t.parent[y] \in Roots /\ s.parent[y] \in Roots
  BY DEF Moved
<1>2. Top(t, x) = Top(s, x)
  BY <1>1, RootFacts DEF Top
<1>3. Top(s, x) \in Windows
  BY TopOK
<1> QED BY <1>1, <1>2, <1>3 DEF InT

LEMMA MovedIsActive ==
  ASSUME NEW s, NEW t, Moved(s, t), TreeOK(s, {}), Active(s)
  PROVE  Active(t)
<1>1. ~ Flagged(First)
  BY FirstFacts, FlaggedFacts DEF Flagged
<1>2. t.parent[First] = "BELOW"
  BY <1>1, FirstFacts DEF Moved, Active
<1>3. t.active = s.active
  BY DEF Moved, SameRest
<1> QED BY <1>2, <1>3, MovedInT DEF Active

-----------------------------------------------------------------------------
(* What is noted to be minimized changes nothing else. *)
Alike(s, t) ==
    /\ t \in States /\ t.kids = s.kids /\ t.parent = s.parent /\ t.prio = s.prio /\ t.requested = s.requested
    /\ t.visible = s.visible /\ t.focus = s.focus /\ t.active = s.active /\ t.locked = s.locked
    /\ t.alive = s.alive /\ t.token = s.token /\ t.starting = s.starting

LEMMA AlikeNot ==
  ASSUME NEW s \in States
  PROVE  Alike(s, s)
BY DEF Alike

LEMMA AlikeTwice ==
  ASSUME NEW s, NEW t, NEW u, Alike(s, t), Alike(t, u)
  PROVE  Alike(s, u)
BY DEF Alike

LEMMA AlikeIsGood ==
  ASSUME NEW s, NEW t, Good(s), Alike(s, t)
  PROVE  Good(t)
<1>1. TreeOK(t, {})
  BY SameTree DEF Alike, Good
<1> QED BY <1>1 DEF Alike, Good, Seen, Living, Shown, Counted

LEMMA ListChange ==
  ASSUME NEW s \in States, NEW list \in SUBSET (Windows \X Reasons), NEW asked \in SUBSET Windows,
         NEW t, t = [s EXCEPT !.list = list, !.asked = asked]
  PROVE  Alike(s, t) /\ t.list = list /\ t.asked = asked
BY DEF States, Alike

LEMMA ListOnly ==
  ASSUME NEW s \in States, NEW list \in SUBSET (Windows \X Reasons), NEW t, t = [s EXCEPT !.list = list]
  PROVE  Alike(s, t)
BY DEF States, Alike

LEMMA AskedOnly ==
  ASSUME NEW s \in States, NEW asked \in SUBSET Windows, NEW t, t = [s EXCEPT !.asked = asked]
  PROVE  Alike(s, t)
BY DEF States, Alike

LEMMA MinimizeOK ==
  ASSUME NEW s \in States, NEW ws \in SUBSET Windows, NEW reason \in Reasons, NEW t, t = Minimize(s, ws, reason)
  PROVE  Alike(s, t)
<1> DEFINE list == AddNeedMinimizeApp(s.list, ws, reason, TRUE)
<1>1. list \in SUBSET (Windows \X Reasons)
  BY DEF AddNeedMinimizeApp, States
<1>2. t = [s EXCEPT !.list = list]
  BY DEF Minimize
<1> HIDE DEF list
<1> QED BY <1>1, <1>2, ListOnly

LEMMA ExecuteOK ==
  ASSUME NEW s \in States, NEW t, t = ExecuteMinimizeAll(s)
  PROVE  Alike(s, t)
<1> DEFINE asked == s.asked \cup NeedMinimizeAppNodes(s.list)
<1>1. asked \in SUBSET Windows
  BY DEF NeedMinimizeAppNodes, States
<1>2. t = [s EXCEPT !.list = {}, !.asked = asked]
  BY DEF ExecuteMinimizeAll, States
<1> HIDE DEF asked
<1> QED BY <1>1, <1>2, ListChange

LEMMA ClearOK ==
  ASSUME NEW s \in States, NEW reason, NEW t, t = [s EXCEPT !.list = ClearNodesWithReason(@, reason)]
  PROVE  Alike(s, t)
<1> DEFINE list == ClearNodesWithReason(s.list, reason)
<1>1. list \in SUBSET (Windows \X Reasons)
  BY DEF ClearNodesWithReason, States
<1>2. t = [s EXCEPT !.list = list]
  OBVIOUS
<1> HIDE DEF list
<1> QED BY <1>1, <1>2, ListOnly

LEMMA StructuredOK ==
  ASSUME NEW s \in States, NEW w, NEW t, t = MinimizeStructuredAppWindowsExceptSelf(s, w)
  PROVE  Alike(s, t)
<1> DEFINE ws == {x \in ToSet(s.kids["APP"]) \ ({w} \cup Floating) : IsMainWindow(x)}
<1>1. ws \in SUBSET Windows
  <2>1. s.kids["APP"] \in Seq(Windows)
    BY RootFacts DEF States
  <2> QED BY <2>1, ElementsOf
<1>2. t = s \/ t = Minimize(s, ws, "OTHER_WINDOW")
  BY DEF MinimizeStructuredAppWindowsExceptSelf
<1> HIDE DEF ws
<1>3. "OTHER_WINDOW" \in Reasons
  BY DEF Reasons
<1> QED BY <1>1, <1>2, <1>3, MinimizeOK, AlikeNot

LEMMA LimitOK ==
  ASSUME NEW s \in States, NEW w, NEW t, t = LimitAppWindows(s, w)
  PROVE  Alike(s, t)
<1> DEFINE q == s.kids["APP"] \o s.kids["ABOVE"]
           mains == Only(q, {x \in Windows : IsMainWindow(x)})
           ws == {Head(mains)}
<1>1. q \in Seq(Windows)
  BY RootFacts DEF States
<1> HIDE DEF q
<1>2. mains \in Seq(Windows)
  <2> DEFINE K == {x \in Windows : IsMainWindow(x)}
             r == mains
  <2>1. r = Only(q, K)
    OBVIOUS
  <2> HIDE DEF K, r
  <2>2. r \in Seq(Windows)
    BY <1>1, <2>1, OnlyOK
  <2> QED BY <2>2 DEF r
<1>3. t = s \/ (mains # <<>> /\ t = Minimize(s, ws, "MAX_APP_COUNT"))
  BY DEF LimitAppWindows, MinimizeOldestAppWindow, q
<1> HIDE DEF mains
<1>4. mains # <<>> => ws \in SUBSET Windows
  BY <1>2
<1> HIDE DEF ws
<1>5. "MAX_APP_COUNT" \in Reasons
  BY DEF Reasons
<1> QED BY <1>3, <1>4, <1>5, MinimizeOK, AlikeNot

-----------------------------------------------------------------------------
(* Adding a window that is not in the tree. *)
Added(s, w, p, t) ==
    /\ TreeOK(t, {}) /\ t.focus = s.focus /\ t.active = s.active /\ t.locked = s.locked /\ t.alive = s.alive
    /\ t.token = s.token /\ t.starting = s.starting /\ t.list = s.list /\ t.asked = s.asked
    /\ \A x \in Windows : /\ t.requested[x] = (s.requested[x] \/ x = w)
                          /\ t.visible[x] = (s.visible[x] \/ x = w)
    /\ \A x \in Windows \ {w} : /\ t.parent[x] = IF Goes(s, w, x) THEN "ABOVE" ELSE s.parent[x]
                                /\ t.prio[x] = IF Goes(s, w, x) THEN 115 ELSE s.prio[x]
    /\ t.parent[w] = IF RaisedOverKeyguard(s, w) THEN "ABOVE" ELSE IF p # Null THEN p ELSE FindRoot(w)
    /\ t.prio[w] = Rank(s, w)

SetSight(s, parent, visible, requested) ==
    [s EXCEPT !.parent = parent, !.visible = visible, !.requested = requested]

LEMMA AddOnTree ==
  ASSUME NEW s, Good(s), NEW w \in Windows, s.parent[w] = Null,
         NEW p, p # Null => p \in Windows /\ HasCaller(w) /\ p = Caller[w] /\ s.parent[p] # Null,
         NEW t, t = AddWindowNodeOnWindowTree(s, w, p)
  PROVE  Added(s, w, p, t)
<1> DEFINE parent == [s.parent EXCEPT ![w] = IF p # Null THEN p ELSE FindRoot(w)]
           visible == [x \in Windows |-> s.visible[x] \/ x = w]
           requested == [s.requested EXCEPT ![w] = TRUE]
           u == SetSight(s, parent, visible, requested)
<1>1. /\ TreeOK(s, {}) /\ s \in States /\ s.parent \in [Windows -> Nodes \cup {Null}]
      /\ s.visible \in [Windows -> BOOLEAN] /\ s.requested \in [Windows -> BOOLEAN]
  BY DEF Good, TreeOK, States
<1>2. FindRoot(w) \in Roots /\ w \in Nodes /\ p \in Windows \cup {Null}
  BY TypeFacts, RootFacts
<1>3. /\ parent \in [Windows -> Nodes \cup {Null}] /\ visible \in [Windows -> BOOLEAN] /\ requested \in [Windows -> BOOLEAN]
      /\ \A x \in Windows \ {w} : parent[x] = s.parent[x]
      /\ parent[w] = IF p # Null THEN p ELSE FindRoot(w)
      /\ \A x \in Windows : requested[x] = (s.requested[x] \/ x = w)
  BY <1>1, <1>2, RootFacts
<1>4. t = UpdateWindowTree(u, w)
  <2>1. CASE p # Null
    <3>1. s.visible[p] = TRUE
      BY <1>1, <2>1 DEF Good, Seen
    <3>2. visible = [s.visible EXCEPT ![w] = s.visible[p]]
      BY <1>1, <3>1
    <3>3. u = [[s EXCEPT !.visible[w] = s.visible[p], !.parent[w] = p] EXCEPT !.requested[w] = TRUE]
      <4>1. parent = [s.parent EXCEPT ![w] = p]
        BY <2>1
      <4> HIDE DEF parent, visible
      <4> QED BY <1>1, <3>2, <4>1 DEF SetSight, States
    <3> HIDE DEF u
    <3> QED BY <2>1, <3>3 DEF AddWindowNodeOnWindowTree
  <2>2. CASE p = Null
    <3> DEFINE seen == [x \in Windows |-> IF x = w THEN TRUE ELSE IF x \in ToSet(s.kids[w]) THEN s.requested[x] ELSE s.visible[x]]
    <3>1. ToSet(s.kids[w]) = {x \in Windows : s.parent[x] = w}
      BY <1>1, <1>2 DEF TreeOK, Linked
    <3>2. \A x \in Windows : s.parent[x] = w => s.requested[x] = TRUE /\ s.visible[x] = TRUE
      <4>1. w # Null
        BY TreeAssumption
      <4> QED BY <1>1, <4>1 DEF Good, Seen
    <3>3. \A x \in Windows : seen[x] = visible[x]
      BY <1>1, <3>1, <3>2
    <3>4. visible = seen
      BY <3>3
    <3>5. u = [[s EXCEPT !.parent[w] = FindRoot(w), !.visible = seen] EXCEPT !.requested[w] = TRUE]
      <4>1. parent = [s.parent EXCEPT ![w] = FindRoot(w)]
        BY <2>2
      <4> HIDE DEF parent, visible, seen
      <4> QED BY <1>1, <3>4, <4>1 DEF SetSight, States
    <3> HIDE DEF u
    <3> QED BY <2>2, <3>5 DEF AddWindowNodeOnWindowTree
  <2> QED BY <2>1, <2>2
<1>5. \A x \in Windows : visible[x] = (s.visible[x] \/ x = w)
  OBVIOUS
<1> HIDE DEF parent, visible, requested
<1>6. /\ u \in States /\ u.kids = s.kids /\ u.parent = parent /\ u.prio = s.prio /\ u.visible = visible /\ u.requested = requested
      /\ u.focus = s.focus /\ u.active = s.active /\ u.locked = s.locked /\ u.alive = s.alive
      /\ u.token = s.token /\ u.starting = s.starting /\ u.list = s.list /\ u.asked = s.asked
  BY <1>1, <1>3 DEF SetSight, States
<1> HIDE DEF u
<1>7. TreeOK(u, {w}) /\ u.parent[w] # Null
  <2>1. Linked(u, {w})
    <3> SUFFICES ASSUME NEW x \in Nodes
                 PROVE  IsInjective(u.kids[x]) /\ ToSet(u.kids[x]) = {v \in Windows : u.parent[v] = x} \ {w}
      BY DEF Linked
    <3>1. IsInjective(s.kids[x]) /\ ToSet(s.kids[x]) = {v \in Windows : s.parent[v] = x}
      BY <1>1 DEF TreeOK, Linked
    <3>2. x # Null
      BY RootFacts
    <3>3. {v \in Windows : u.parent[v] = x} \ {w} = {v \in Windows : s.parent[v] = x}
      BY <1>3, <1>6, <3>2
    <3> QED BY <1>6, <3>1, <3>3
  <2>2. Ordered(u)
    BY <1>1, <1>6 DEF TreeOK, Ordered
  <2>3. Placed(u)
    <3> SUFFICES ASSUME NEW v \in Windows
                 PROVE  /\ u.parent[v] \in Windows => HasCaller(v) /\ u.parent[v] = Caller[v]
                        /\ u.parent[v] \in Roots => u.parent[v] = FindRoot(v) \/ (Flagged(v) /\ u.parent[v] = "ABOVE")
      BY DEF Placed
    <3>1. CASE v = w
      BY <1>2, <1>3, <1>6, <3>1, RootFacts
    <3>2. CASE v # w
      BY <1>1, <1>3, <1>6, <3>2 DEF TreeOK, Placed
    <3> QED BY <3>1, <3>2
  <2>4. Ranked(u, {w})
    BY <1>1, <1>3, <1>6 DEF TreeOK, Ranked
  <2>5. u.parent[w] # Null
    BY <1>2, <1>3, <1>6, RootFacts
  <2> QED BY <1>6, <2>1, <2>2, <2>3, <2>4, <2>5 DEF TreeOK
<1>8. Updated(u, w, t)
  BY <1>4, <1>7, UpdateOK
<1>9. /\ t.requested = u.requested /\ t.visible = u.visible /\ t.focus = s.focus /\ t.active = s.active /\ t.locked = s.locked
      /\ t.alive = s.alive /\ t.token = s.token /\ t.starting = s.starting /\ t.list = s.list /\ t.asked = s.asked
      /\ TreeOK(t, {})
  BY <1>6, <1>8 DEF Updated, SameRest
<1>10. \A x \in Windows \ {w} : Goes(u, w, x) <=> Goes(s, w, x)
  BY <1>3, <1>6 DEF Goes, Lifted
<1>11. \A x \in Windows \ {w} : /\ t.parent[x] = IF Goes(s, w, x) THEN "ABOVE" ELSE s.parent[x]
                                /\ t.prio[x] = IF Goes(s, w, x) THEN 115 ELSE s.prio[x]
  BY <1>3, <1>6, <1>8, <1>10 DEF Updated
<1>12. /\ t.parent[w] = IF RaisedOverKeyguard(s, w) THEN "ABOVE" ELSE IF p # Null THEN p ELSE FindRoot(w)
       /\ t.prio[w] = Rank(s, w)
  BY <1>3, <1>6, <1>8 DEF Updated, RaisedOverKeyguard, Rank
<1>13. \A x \in Windows : /\ t.requested[x] = (s.requested[x] \/ x = w)
                          /\ t.visible[x] = (s.visible[x] \/ x = w)
  BY <1>3, <1>5, <1>6, <1>9
<1> QED BY <1>9, <1>11, <1>12, <1>13 DEF Added

-----------------------------------------------------------------------------
(* On a locked screen what shows when locked is over the keyguard; on an   *)
(* unlocked one it is not, as long as a keyguard may come. *)
Over(s) == \A x \in ShowWhenLocked : s.parent[x] # Null => s.parent[x] = "ABOVE" /\ s.prio[x] = 115
Under(s) == \A x \in ShowWhenLocked : s.parent[x] # "ABOVE"
Locks(s, usable) == (s.locked => Over(s)) /\ (~ s.locked /\ usable => Under(s))

(* The sub windows that are seen without a parent. *)
Loose(s) == {x \in s.alive : IsSubWindow(x) /\ s.visible[x] /\ s.parent[x] = Null}

(* What most handlers keep. *)
Keeps(s, t, usable) ==
    /\ Good(t) /\ Loose(t) \subseteq Loose(s)
    /\ Plain /\ Active(s) => Active(t)
    /\ Locks(s, usable) => Locks(t, usable)

LEMMA KeepsTwice ==
  ASSUME NEW s, NEW t, NEW u, NEW usable, Keeps(s, t, usable), Keeps(t, u, usable)
  PROVE  Keeps(s, u, usable)
BY DEF Keeps

LEMMA AlikeKeeps ==
  ASSUME NEW s, NEW t, NEW usable, Good(s), Alike(s, t)
  PROVE  Keeps(s, t, usable)
<1>1. Good(t)
  BY AlikeIsGood
<1>2. Active(s) => Active(t)
  BY DEF Alike, Active, InT, Top
<1> QED BY <1>1, <1>2 DEF Alike, Keeps, Loose, Locks, Over, Under

LEMMA RaisedKeeps ==
  ASSUME NEW s, NEW t, NEW usable, Good(s), Raised(s, t)
  PROVE  Keeps(s, t, usable) /\ Moved(s, t)
<1>1. Moved(s, t) /\ TreeOK(t, {}) /\ TreeOK(s, {})
  BY RaisedMoves DEF Raised, Good
<1>2. Good(t) /\ (Active(s) => Active(t))
  BY <1>1, MovedIsGood, MovedIsActive
<1>3. t.locked = s.locked /\ t.alive = s.alive /\ t.visible = s.visible
  BY DEF Raised, SameRest
<1>4. \A x \in Windows : t.parent[x] = Null => s.parent[x] = Null
  BY RootFacts DEF Raised
<1>5. Loose(t) \subseteq Loose(s)
  <2>1. s.alive \subseteq Windows
    BY <1>1 DEF TreeOK, States
  <2> QED BY <1>3, <1>4, <2>1 DEF Loose
<1>6. ASSUME Locks(s, usable) PROVE Locks(t, usable)
  <2> SUFFICES ASSUME NEW x \in ShowWhenLocked
               PROVE  /\ s.locked => (t.parent[x] # Null => t.parent[x] = "ABOVE" /\ t.prio[x] = 115)
                      /\ ~ s.locked /\ usable => t.parent[x] # "ABOVE"
    BY <1>3 DEF Locks, Over, Under
  <2>1. x \in Windows /\ Flagged(x)
    BY FlaggedFacts
  <2>2. /\ s.locked => (s.parent[x] # Null => s.parent[x] = "ABOVE" /\ s.prio[x] = 115)
        /\ ~ s.locked /\ usable => s.parent[x] # "ABOVE"
    BY <1>6 DEF Locks, Over, Under
  <2>3. \/ t.parent[x] = s.parent[x] /\ (t.prio[x] = s.prio[x] \/ ~ s.locked)
        \/ s.locked /\ s.parent[x] \in Roots /\ t.parent[x] = "ABOVE" /\ t.prio[x] = 115
    BY <2>1 DEF Raised
  <2> QED BY <2>2, <2>3
<1> QED BY <1>1, <1>2, <1>3, <1>5, <1>6 DEF Keeps

LEMMA LeakKeeps ==
  ASSUME NEW s, NEW t, NEW usable, Good(s), Leaked(s, t)
  PROVE  Keeps(s, t, usable)
<1>1. /\ Good(t) /\ t.locked = s.locked /\ t.prio = s.prio /\ t.alive \subseteq s.alive
      /\ (Plain /\ Active(s) => Active(t))
  BY DEF Leaked
<1>2. \A x \in Windows : t.parent[x] = s.parent[x] \/ t.parent[x] = Null
  BY DEF Leaked
<1>3. \A x \in Windows : t.visible[x] => s.visible[x] /\ t.parent[x] = s.parent[x]
  BY DEF Leaked
<1>4. Loose(t) \subseteq Loose(s)
  <2>1. t.alive \subseteq Windows
    BY <1>1 DEF Good, TreeOK, States
  <2> QED BY <1>1, <1>3, <2>1 DEF Loose
<1>5. Locks(s, usable) => Locks(t, usable)
  <2>1. \A x \in ShowWhenLocked : t.parent[x] = s.parent[x] \/ t.parent[x] = Null
    BY <1>2, FlaggedFacts
  <2>2. Null # "ABOVE"
    BY RootFacts
  <2> QED BY <1>1, <2>1, <2>2 DEF Locks, Over, Under
<1> QED BY <1>1, <1>4, <1>5 DEF Keeps

(* Adding a window keeps the rest. *)
LEMMA AddedIsGood ==
  ASSUME NEW s, Good(s), NEW w \in s.alive, s.parent[w] = Null, NEW p,
         p # Null => p \in Windows /\ HasCaller(w) /\ p = Caller[w] /\ s.parent[p] # Null,
         NEW t, Added(s, w, p, t)
  PROVE  Good(t) /\ (Active(s) => Active(t)) /\ t.parent[w] # Null /\ Loose(t) \subseteq Loose(s)
<1>1. TreeOK(s, {}) /\ TreeOK(t, {}) /\ s.alive \subseteq Windows /\ w \in Windows
  BY DEF Added, Good, TreeOK, States
<1>2. \A x \in Windows \ {w} : \/ t.parent[x] = s.parent[x]
                               \/ s.parent[x] = "APP" /\ t.parent[x] = "ABOVE"
  BY DEF Added, Goes, Lifted
<1>3. \A x \in Windows \ {w} : (t.parent[x] # Null <=> s.parent[x] # Null) /\ (t.parent[x] \in Windows => s.parent[x] = t.parent[x])
  BY <1>2, RootFacts
<1>4. t.parent[w] # Null /\ (t.parent[w] \in Windows => p # Null /\ t.parent[w] = p)
  BY <1>1, TypeFacts, RootFacts DEF Added
<1>5. Seen(t)
  BY <1>3 DEF Added, Good, Seen
<1>6. Living(t)
  <2> SUFFICES ASSUME NEW x \in Windows, t.parent[x] # Null
               PROVE  x \in t.alive /\ (t.parent[x] \in Windows => t.parent[x] \in t.alive)
    BY DEF Living
  <2>1. t.alive = s.alive
    BY DEF Added
  <2>2. CASE x = w
    BY <1>4, <2>1, <2>2 DEF Good, Living
  <2>3. CASE x # w
    BY <1>3, <2>1, <2>3 DEF Good, Living
  <2> QED BY <2>2, <2>3
<1>7. Shown(t)
  BY <1>3, <1>4 DEF Added, Good, Shown
<1>8. Counted(t)
  BY DEF Added, Good, Counted
<1>9. Loose(t) \subseteq Loose(s)
  BY <1>1, <1>3, <1>4 DEF Added, Loose
<1>10. ASSUME Active(s) PROVE Active(t)
  <2>1. w # First
    <3>1. "BELOW" # Null
      BY RootFacts
    <3> QED BY <1>10, <3>1 DEF Active
  <2>2. t.parent[First] = "BELOW"
    BY <1>2, <1>10, <2>1, FirstFacts DEF Active
  <2>3. InT(t, t.active)
    <3> DEFINE a == s.active
    <3>1. t.active = a /\ a \in Windows /\ InT(s, a)
      BY <1>10 DEF Added, Active
    <3>2. Top(s, a) \in Windows
      BY <1>1, <3>1, TopOK
    <3>3. a # w /\ Top(s, a) # w
      <4>1. Null \notin Windows /\ Null \notin Roots
        BY RootFacts DEF Nodes
      <4> QED BY <3>1, <4>1 DEF InT, Top
    <3>4. Top(t, a) = Top(s, a)
      BY <1>2, <3>1, <3>3, RootFacts DEF Top
    <3>5. t.parent[Top(s, a)] \in Roots
      BY <1>2, <3>1, <3>2, <3>3, RootFacts DEF InT
    <3> QED BY <3>1, <3>4, <3>5 DEF InT
  <2> QED BY <1>10, <2>2, <2>3 DEF Active, Added
<1> QED BY <1>1, <1>4, <1>5, <1>6, <1>7, <1>8, <1>9, <1>10 DEF Good

(* AddToContainer but for the screen that locks when a keyguard comes. *)
SetLocked(s, w) == [s EXCEPT !.locked = @ \/ Type[w] = "KEYGUARD"]

LockedSet(s, w, t) ==
    /\ t \in States /\ t.kids = s.kids /\ t.parent = s.parent /\ t.prio = s.prio /\ t.requested = s.requested
    /\ t.visible = s.visible /\ t.focus = s.focus /\ t.active = s.active /\ t.locked = (s.locked \/ Type[w] = "KEYGUARD")
    /\ t.alive = s.alive /\ t.token = s.token /\ t.starting = s.starting /\ t.list = s.list /\ t.asked = s.asked

LEMMA SetLockedOK ==
  ASSUME NEW s \in States, NEW w, NEW t, t = SetLocked(s, w)
  PROVE  LockedSet(s, w, t)
<1> DEFINE locked == s.locked \/ Type[w] = "KEYGUARD"
<1>1. t = [s EXCEPT !.locked = locked] /\ locked \in BOOLEAN
  BY DEF SetLocked
<1> HIDE DEF locked
<1>2. /\ t \in States /\ t.kids = s.kids /\ t.parent = s.parent /\ t.prio = s.prio /\ t.requested = s.requested
      /\ t.visible = s.visible /\ t.focus = s.focus /\ t.active = s.active /\ t.locked = locked
      /\ t.alive = s.alive /\ t.token = s.token /\ t.starting = s.starting /\ t.list = s.list /\ t.asked = s.asked
  BY <1>1 DEF States
<1> QED BY <1>2 DEF LockedSet, locked

LEMMA LockedIsGood ==
  ASSUME NEW s, Good(s), NEW w, NEW t, LockedSet(s, w, t)
  PROVE  Good(t) /\ Loose(t) = Loose(s) /\ (Active(s) => Active(t))
<1>1. TreeOK(t, {})
  BY SameTree DEF LockedSet, Good
<1>2. Active(s) => Active(t)
  BY DEF LockedSet, Active, InT, Top
<1> QED BY <1>1, <1>2 DEF LockedSet, Good, Seen, Living, Shown, Counted, Loose

LEMMA AddedLocks ==
  ASSUME NEW s, TreeOK(s, {}), NEW w \in Windows, NEW p, p # Null => HasCaller(w),
         NEW a, Added(s, w, p, a), NEW usable \in BOOLEAN, Type[w] = "KEYGUARD" => usable, Locks(s, usable)
  PROVE  /\ s.locked \/ Type[w] = "KEYGUARD" => Over(a)
         /\ ~ (s.locked \/ Type[w] = "KEYGUARD") /\ usable => Under(a)
<1> SUFFICES ASSUME NEW x \in ShowWhenLocked
             PROVE  /\ s.locked \/ Type[w] = "KEYGUARD" => (a.parent[x] # Null => a.parent[x] = "ABOVE" /\ a.prio[x] = 115)
                    /\ ~ (s.locked \/ Type[w] = "KEYGUARD") /\ usable => a.parent[x] # "ABOVE"
  BY DEF Over, Under
<1>0. s.locked \in BOOLEAN
  BY DEF TreeOK, States
<1>1. x \in Windows /\ Flagged(x) /\ ~ HasCaller(x) /\ FindRoot(x) = "APP" /\ Type[x] = "APP_MAIN_WINDOW"
  BY FlaggedFacts
<1>2. /\ s.locked => (s.parent[x] # Null => s.parent[x] = "ABOVE" /\ s.prio[x] = 115)
      /\ ~ s.locked /\ usable => s.parent[x] # "ABOVE"
  BY DEF Locks, Over, Under
<1>3. CASE x = w
  <2>1. p = Null /\ s.locked \in BOOLEAN
    BY <1>0, <1>1, <1>3
  <2>2. s.locked => a.parent[x] = "ABOVE" /\ a.prio[x] = 115
    BY <1>1, <1>3 DEF Added, RaisedOverKeyguard, Rank
  <2>3. ~ s.locked => a.parent[x] = "APP"
    BY <1>1, <1>3, <2>1 DEF Added, RaisedOverKeyguard
  <2> QED BY <1>1, <1>3, <2>1, <2>2, <2>3
<1>4. CASE x # w /\ Type[w] = "KEYGUARD"
  <2>1. /\ a.parent[x] = IF s.parent[x] = "APP" THEN "ABOVE" ELSE s.parent[x]
        /\ a.prio[x] = IF s.parent[x] = "APP" THEN 115 ELSE s.prio[x]
    BY <1>1, <1>4 DEF Added, Goes, Lifted
  <2>2. s.parent[x] \in {"APP", "ABOVE", Null}
    BY <1>1 DEF TreeOK, Placed, States, Nodes
  <2> QED BY <1>0, <1>2, <1>4, <2>1, <2>2
<1>5. CASE x # w /\ Type[w] # "KEYGUARD"
  <2>1. a.parent[x] = s.parent[x] /\ a.prio[x] = s.prio[x]
    BY <1>1, <1>5 DEF Added, Goes
  <2> QED BY <1>2, <1>5, <2>1
<1> QED BY <1>3, <1>4, <1>5

AddedTo(s, w, p, t, usable) ==
    /\ Keeps(s, t, usable) /\ t.alive = s.alive
    /\ w \notin s.starting /\ p # Null => t.parent[w] = p /\ t.parent[p] # Null

LEMMA AddToOK ==
  ASSUME NEW s, Good(s), NEW w \in s.alive, w \notin s.starting => s.parent[w] = Null, NEW p,
         p # Null => p \in Windows /\ HasCaller(w) /\ p = Caller[w] /\ s.parent[p] # Null,
         NEW usable \in BOOLEAN, Type[w] = "KEYGUARD" => usable,
         NEW t, t = AddToContainer(s, w, p)
  PROVE  AddedTo(s, w, p, t, usable)
<1>1. TreeOK(s, {}) /\ s \in States /\ w \in Windows /\ s.starting \subseteq Launched /\ s.locked \in BOOLEAN
  BY DEF Good, TreeOK, States, Counted
<1>2. CASE w \notin s.starting
  <2> DEFINE a == AddWindowNodeOnWindowTree(s, w, p)
  <2>1. t = SetLocked(a, w)
    BY <1>2 DEF AddToContainer, SetLocked
  <2>2. Added(s, w, p, a)
    BY <1>1, <1>2, AddOnTree
  <2> HIDE DEF a
  <2>3. Good(a) /\ (Active(s) => Active(a)) /\ a.parent[w] # Null /\ Loose(a) \subseteq Loose(s) /\ a.alive = s.alive
    BY <1>2, <2>2, AddedIsGood DEF Added
  <2>4. LockedSet(a, w, t)
    BY <2>1, <2>3, SetLockedOK DEF Good, TreeOK
  <2>5. Good(t) /\ Loose(t) = Loose(a) /\ (Active(a) => Active(t)) /\ t.alive = s.alive
    BY <2>3, <2>4, LockedIsGood DEF LockedSet
  <2>6. Locks(s, usable) => Locks(t, usable)
    <3>1. t.locked = (s.locked \/ Type[w] = "KEYGUARD") /\ t.parent = a.parent /\ t.prio = a.prio
      BY <2>2, <2>4 DEF LockedSet, Added
    <3> QED BY <1>1, <2>2, <3>1, AddedLocks DEF Locks, Over, Under
  <2>7. p # Null => t.parent[w] = p /\ t.parent[p] # Null
    <3> SUFFICES ASSUME p # Null PROVE t.parent[w] = p /\ t.parent[p] # Null
      OBVIOUS
    <3>1. ~ Flagged(w)
      BY FlaggedFacts DEF Flagged
    <3>2. a.parent[w] = p
      BY <2>2, <3>1 DEF Added, RaisedOverKeyguard
    <3>3. p # w
      BY <1>1, TypeFacts
    <3>4. a.parent[p] = s.parent[p] \/ a.parent[p] = "ABOVE"
      BY <2>2, <3>3 DEF Added
    <3> QED BY <2>4, <3>2, <3>4, RootFacts DEF LockedSet
  <2> QED BY <1>2, <2>3, <2>5, <2>6, <2>7 DEF AddedTo, Keeps
<1>3. CASE w \in s.starting
  <2> DEFINE a == [s EXCEPT !.starting = @ \ {w}]
             b == IF Flagged(w) /\ s.locked THEN ReZOrderShowWhenLockedWindows(a, TRUE) ELSE a
  <2>1. t = SetLocked(b, w)
    BY <1>3 DEF AddToContainer, SetLocked
  <2>2. Type[w] # "KEYGUARD"
    BY <1>1, <1>3, LaunchedFacts
  <2>3. /\ a \in States /\ a.kids = s.kids /\ a.parent = s.parent /\ a.prio = s.prio /\ a.requested = s.requested
        /\ a.visible = s.visible /\ a.focus = s.focus /\ a.active = s.active /\ a.locked = s.locked
        /\ a.alive = s.alive /\ a.token = s.token /\ a.starting = s.starting \ {w}
    BY <1>1 DEF States
  <2> HIDE DEF a
  <2>4. TreeOK(a, {})
    BY <1>1, <2>3, SameTree
  <2>5. Good(a) /\ Loose(a) = Loose(s) /\ (Active(s) => Active(a)) /\ (Locks(s, usable) => Locks(a, usable))
    BY <2>3, <2>4 DEF Good, Seen, Living, Shown, Counted, Loose, Active, InT, Top, Locks, Over, Under
  <2>6. Keeps(a, b, usable) /\ b.alive = a.alive
    <3>1. CASE ~ (Flagged(w) /\ s.locked)
      BY <2>5, <3>1 DEF Keeps
    <3>2. CASE Flagged(w) /\ s.locked
      <4>1. b = ReZOrderShowWhenLockedWindows(a, TRUE)
        BY <3>2
      <4> HIDE DEF b
      <4>2. TreeOK(b, {}) /\ ReZOrdered(a, TRUE, "APP", "ABOVE", b)
        BY <2>4, <4>1, ReZOrderOK
      <4>3. Raised(a, b)
        <5>1. ASSUME NEW x \in Windows
              PROVE  \/ b.parent[x] = a.parent[x] /\ (b.prio[x] = a.prio[x] \/ ~ (Flagged(x) /\ a.locked))
                     \/ Flagged(x) /\ a.locked /\ a.parent[x] \in Roots /\ b.parent[x] = "ABOVE" /\ b.prio[x] = 115
          <6>1. CASE x \in Lifted(a, "APP")
            BY <2>3, <3>2, <4>2, <6>1 DEF ReZOrdered, Lifted, Flagged, Roots
          <6>2. CASE x \notin Lifted(a, "APP")
            BY <4>2, <6>2 DEF ReZOrdered
          <6> QED BY <6>1, <6>2
        <5> QED BY <4>2, <5>1 DEF Raised, ReZOrdered
      <4> QED BY <2>5, <4>2, <4>3, RaisedKeeps DEF ReZOrdered, SameRest
    <3> QED BY <3>1, <3>2
  <2>7. b \in States
    BY <2>6 DEF Keeps, Good, TreeOK
  <2> HIDE DEF b
  <2>8. LockedSet(b, w, t)
    BY <2>1, <2>7, SetLockedOK
  <2>9. Good(b) /\ b.locked \in BOOLEAN
    BY <2>6, <2>7 DEF Keeps, States
  <2>10. Good(t) /\ Loose(t) = Loose(b) /\ (Active(b) => Active(t)) /\ (t.locked <=> b.locked)
         /\ t.parent = b.parent /\ t.prio = b.prio /\ t.alive = b.alive
    BY <2>2, <2>8, <2>9, LockedIsGood DEF LockedSet
  <2>11. Keeps(b, t, usable)
    BY <2>10 DEF Keeps, Locks, Over, Under
  <2>12. Keeps(s, a, usable)
    BY <2>3, <2>5 DEF Keeps
  <2>13. Keeps(s, t, usable)
    BY <2>6, <2>11, <2>12, KeepsTwice
  <2> QED BY <1>3, <2>3, <2>6, <2>10, <2>13 DEF AddedTo
<1> QED BY <1>2, <1>3

-----------------------------------------------------------------------------
(* The handlers. *)
LEMMA KeepsNot ==
  ASSUME NEW s, NEW usable, Good(s)
  PROVE  Keeps(s, s, usable)
BY DEF Keeps

FocusSet(s, f, a) == [s EXCEPT !.focus = f, !.active = a]

LEMMA FocusKeeps ==
  ASSUME NEW s, NEW usable, Good(s), NEW f \in Windows \cup {Null}, NEW a \in Windows, Plain => InT(s, a),
         NEW t, t = FocusSet(s, f, a)
  PROVE  Keeps(s, t, usable)
<1>1. s \in States
  BY DEF Good, TreeOK
<1>2. t \in States /\ SameButFocus(s, t) /\ t.active = a
  BY <1>1 DEF FocusSet, States, SameButFocus
<1>3. TreeOK(t, {})
  BY <1>2, SameTree DEF Good, SameButFocus
<1>4. Good(t)
  BY <1>2, <1>3 DEF SameButFocus, Good, Seen, Living, Shown, Counted
<1>5. Plain /\ Active(s) => Active(t)
  BY <1>2 DEF SameButFocus, Active, InT, Top
<1> QED BY <1>2, <1>4, <1>5 DEF SameButFocus, Keeps, Loose, Locks, Over, Under

FocusOnly(s, f) == [s EXCEPT !.focus = f]

LEMMA FocusOnlyKeeps ==
  ASSUME NEW s, NEW usable, Good(s), NEW f \in Windows, NEW t, t = FocusOnly(s, f)
  PROVE  Keeps(s, t, usable)
<1>1. s \in States
  BY DEF Good, TreeOK
<1>2. t \in States /\ SameButFocus(s, t) /\ t.active = s.active
  BY <1>1 DEF FocusOnly, States, SameButFocus
<1>3. TreeOK(t, {})
  BY <1>2, SameTree DEF Good, SameButFocus
<1>4. Good(t)
  BY <1>2, <1>3 DEF SameButFocus, Good, Seen, Living, Shown, Counted
<1>5. Active(s) => Active(t)
  BY <1>2 DEF SameButFocus, Active, InT, Top
<1> QED BY <1>2, <1>4, <1>5 DEF SameButFocus, Keeps, Loose, Locks, Over, Under

Wanted(s, w) == [s EXCEPT !.requested[w] = TRUE]

LEMMA WantedKeeps ==
  ASSUME NEW s, NEW usable, Good(s), NEW w \in Windows, NEW t, t = Wanted(s, w)
  PROVE  Keeps(s, t, usable)
<1> DEFINE requested == [s.requested EXCEPT ![w] = TRUE]
<1>1. s \in States /\ s.requested \in [Windows -> BOOLEAN]
  BY DEF Good, TreeOK, States
<1>2. requested \in [Windows -> BOOLEAN] /\ \A x \in Windows : s.requested[x] => requested[x]
  BY <1>1
<1>3. t = [s EXCEPT !.requested = requested]
  BY DEF Wanted
<1> HIDE DEF requested
<1>4. /\ t \in States /\ t.kids = s.kids /\ t.parent = s.parent /\ t.prio = s.prio /\ t.requested = requested
      /\ t.visible = s.visible /\ t.focus = s.focus /\ t.active = s.active /\ t.locked = s.locked
      /\ t.alive = s.alive /\ t.token = s.token /\ t.starting = s.starting
  BY <1>1, <1>2, <1>3 DEF States
<1>5. TreeOK(t, {})
  BY <1>4, SameTree DEF Good
<1>6. Good(t)
  BY <1>2, <1>4, <1>5 DEF Good, Seen, Living, Shown, Counted
<1>7. Active(s) => Active(t)
  BY <1>4 DEF Active, InT, Top
<1> QED BY <1>4, <1>6, <1>7 DEF Keeps, Loose, Locks, Over, Under

LEMMA InRoot ==
  ASSUME NEW s, Good(s), NEW w \in Windows, ~ HasCaller(w), s.parent[w] # Null
  PROVE  s.parent[w] \in Roots /\ InT(s, w)
<1>1. s.parent[w] \in Nodes /\ s.parent[w] \notin Windows
  BY DEF Good, TreeOK, Placed, States
<1> QED BY <1>1 DEF Nodes, InT, Top

LEMMA CallerFacts ==
  ASSUME NEW s, Good(s), NEW w \in Windows, NEW p, p = CallerNode(s, w)
  PROVE  /\ p # Null => p \in Windows /\ p \in s.alive /\ HasCaller(w) /\ p = Caller[w] /\ IsMainWindow(p)
         /\ ~ HasCaller(w) => p = Null
<1>1. s.alive \subseteq Windows
  BY DEF Good, TreeOK, States
<1> QED BY <1>1, TypeFacts DEF CallerNode

LEMMA PostProcessOK ==
  ASSUME NEW s, NEW usable, Good(s), NEW w \in Windows, NEW p,
         IsSubWindow(w) => p \in Windows /\ IsMainWindow(p) /\ s.parent[p] # Null,
         Plain => InT(s, w),
         NEW t, t = PostProcessAddWindowNode(s, w, p)
  PROVE  Keeps(s, t, usable)
<1> DEFINE a == IF IsSubWindow(w) THEN RaiseZOrderForAppWindow(s, p, Null) ELSE s
           f == IF w \in Focusable THEN w ELSE a.focus
<1>1. t = FocusSet(a, f, w)
  BY DEF PostProcessAddWindowNode, FocusSet
<1>2. TreeOK(s, {})
  BY DEF Good
<1>3. Raised(s, a)
  <2>1. CASE IsSubWindow(w)
    <3>1. a = RaiseZOrderForAppWindow(s, p, Null)
      BY <2>1
    <3>2. ~ RaiseFaults(s, p, Null)
      BY DEF RaiseFaults
    <3> DEFINE n == Null
    <3>3. a = RaiseZOrderForAppWindow(s, p, n) /\ ~ RaiseFaults(s, p, n) /\ (n # Null => n \in Windows /\ IsMainWindow(n))
      BY <3>1, <3>2
    <3> HIDE DEF a, n
    <3> QED BY <1>2, <2>1, <3>3, RaiseZOrderOK
  <2>2. CASE ~ IsSubWindow(w)
    BY <1>2, <2>2, RaisedNot
  <2> QED BY <2>1, <2>2
<1> HIDE DEF a
<1>4. Keeps(s, a, usable) /\ Moved(s, a)
  BY <1>3, RaisedKeeps
<1>5. Good(a) /\ (Plain => InT(a, w))
  BY <1>2, <1>4, MovedInT DEF Keeps
<1>6. f \in Windows \cup {Null}
  BY <1>5 DEF Good, TreeOK, States
<1> HIDE DEF f
<1>7. Keeps(a, t, usable)
  BY <1>1, <1>5, <1>6, FocusKeeps
<1> QED BY <1>4, <1>7, KeepsTwice

LEMMA AddWindowNodeOK ==
  ASSUME NEW s, Good(s), NEW w \in s.alive, NEW usable \in BOOLEAN, Type[w] = "KEYGUARD" => usable,
         NEW r, r = AddWindowNode(s, w)
  PROVE  Keeps(s, r.state, usable) /\ r.ok \in BOOLEAN
<1> DEFINE p == CallerNode(s, w)
           m == MinimizeStructuredAppWindowsExceptSelf(s, w)
           a == LimitAppWindows(m, w)
           refused == w \notin s.starting /\ ~ Admissible(a, w, p)
           b == IF refused THEN Wanted(a, w) ELSE AddToContainer(a, w, p)
           c == IF IsAppWindow(w) THEN DestroyLeakStartingWindow(b) ELSE b
           failed == refused \/ ~ c.visible[w] \/ (IsSubWindow(w) /\ p = Null)
           bad == [c EXCEPT !.list = ClearNodesWithReason(@, "OTHER_WINDOW")]
           d == PostProcessAddWindowNode(c, w, p)
           e == ExecuteMinimizeAll(d)
<1>1. \/ r.state = s /\ r.ok = FALSE
      \/ ~ (s.visible[w] /\ w \notin s.starting) /\ failed /\ r.state = bad /\ r.ok = FALSE
      \/ ~ (s.visible[w] /\ w \notin s.starting) /\ ~ failed /\ r.state = e /\ r.ok = TRUE
  <2>1. r = IF s.visible[w] /\ w \notin s.starting THEN [state |-> s, ok |-> FALSE]
            ELSE IF failed THEN [state |-> bad, ok |-> FALSE]
            ELSE [state |-> e, ok |-> TRUE]
    BY DEF AddWindowNode, AnswerAdded, Answer, Wanted
  <2> HIDE DEF failed, bad, e
  <2> QED BY <2>1
<1>2. s \in States /\ w \in Windows /\ s.starting \subseteq Launched
  BY DEF Good, TreeOK, States, Counted
<1> HIDE DEF p, m, a, b, c, d
<1>3. Alike(s, a)
  <2>1. Alike(s, m)
    BY <1>2, StructuredOK DEF m
  <2>2. Alike(m, a)
    BY <2>1, LimitOK DEF a, Alike
  <2> QED BY <2>1, <2>2, AlikeTwice
<1>4. Good(a) /\ Keeps(s, a, usable) /\ w \in a.alive /\ a.starting = s.starting
  BY <1>3, AlikeIsGood, AlikeKeeps DEF Alike
<1>5. /\ p # Null => p \in Windows /\ HasCaller(w) /\ p = Caller[w] /\ IsMainWindow(p)
      /\ ~ HasCaller(w) => p = Null
  BY <1>2, CallerFacts DEF p
<1>6. CASE ~ (s.visible[w] /\ w \notin s.starting)
  <2>1. Keeps(a, b, usable) /\ (~ refused /\ w \notin a.starting /\ p # Null => b.parent[w] = p /\ b.parent[p] # Null)
    <3>1. CASE refused
      <4>1. b = Wanted(a, w)
        BY <3>1 DEF b
      <4> QED BY <1>2, <1>4, <3>1, <4>1, WantedKeeps
    <3>2. CASE ~ refused
      <4>1. b = AddToContainer(a, w, p)
        BY <3>2 DEF b
      <4>2. w \notin a.starting => a.parent[w] = Null
        <5>1. w \notin s.starting => s.parent[w] = Null
          BY <1>2, <1>6 DEF Good, Seen
        <5> QED BY <1>3, <5>1 DEF Alike
      <4>3. p # Null => p \in Windows /\ HasCaller(w) /\ p = Caller[w] /\ a.parent[p] # Null
        <5>1. w \in s.starting => p = Null
          BY <1>2, <1>5, LaunchedFacts
        <5>2. w \notin s.starting /\ p # Null => a.parent[p] \in Roots
          BY <1>2, <3>2, TypeFacts, RootFacts DEF Admissible, Roots
        <5> QED BY <1>5, <5>1, <5>2, RootFacts
      <4> HIDE DEF refused
      <4>4. AddedTo(a, w, p, b, usable)
        BY <1>4, <4>1, <4>2, <4>3, AddToOK
      <4> QED BY <4>4 DEF AddedTo
    <3> QED BY <3>1, <3>2
  <2>2. Good(b)
    BY <2>1 DEF Keeps
  <2>3. Keeps(b, c, usable) /\ (IsAppWindow(w) => Leaked(b, c))
    <3>1. CASE IsAppWindow(w)
      <4>1. c = DestroyLeakStartingWindow(b)
        BY <3>1 DEF c
      <4>2. Leaked(b, c)
        BY <2>2, <4>1, LeakOK
      <4> QED BY <2>2, <4>2, LeakKeeps
    <3>2. CASE ~ IsAppWindow(w)
      <4>1. c = b
        BY <3>2 DEF c
      <4> QED BY <2>2, <3>2, <4>1, KeepsNot
    <3> QED BY <3>1, <3>2
  <2>4. Good(c) /\ c \in States /\ Keeps(s, c, usable)
    <3>1. Good(c)
      BY <2>3 DEF Keeps
    <3>2. Keeps(s, b, usable)
      BY <1>4, <2>1, KeepsTwice
    <3>3. Keeps(s, c, usable)
      BY <2>3, <3>2, KeepsTwice
    <3> QED BY <3>1, <3>3 DEF Good, TreeOK
  <2>5. Keeps(s, bad, usable)
    <3> DEFINE u == bad
    <3>1. u = [c EXCEPT !.list = ClearNodesWithReason(@, "OTHER_WINDOW")]
      OBVIOUS
    <3> HIDE DEF u
    <3>2. Alike(c, u)
      <4> DEFINE o == "OTHER_WINDOW"
      <4>1. u = [c EXCEPT !.list = ClearNodesWithReason(@, o)]
        BY <3>1
      <4> HIDE DEF o
      <4> QED BY <2>4, <4>1, ClearOK
    <3>3. Keeps(c, u, usable)
      BY <2>4, <3>2, AlikeKeeps
    <3>4. Keeps(s, u, usable)
      BY <2>4, <3>3, KeepsTwice
    <3> QED BY <3>4 DEF u
  <2>6. ASSUME ~ failed PROVE Keeps(s, e, usable)
    <3>1. ~ refused /\ c.visible[w] /\ (IsSubWindow(w) => p # Null)
      BY <2>6
    <3>2. IsSubWindow(w) => p \in Windows /\ IsMainWindow(p) /\ c.parent[p] # Null /\ c.parent[w] = p
      <4> SUFFICES ASSUME IsSubWindow(w) PROVE p \in Windows /\ IsMainWindow(p) /\ c.parent[p] # Null /\ c.parent[w] = p
        OBVIOUS
      <4>1. HasCaller(w) /\ IsAppWindow(w)
        BY DEF HasCaller, IsAppWindow
      <4>2. w \notin s.starting
        BY <1>2, <4>1, LaunchedFacts
      <4>3. b.parent[w] = p /\ b.parent[p] # Null /\ p \in Windows /\ IsMainWindow(p)
        BY <1>4, <1>5, <2>1, <3>1, <4>2
      <4>4. c.parent[w] = b.parent[w] /\ (b.parent[w] \in Windows => c.parent[b.parent[w]] = b.parent[b.parent[w]])
        BY <1>2, <2>3, <3>1, <4>1 DEF Leaked
      <4> QED BY <4>3, <4>4
    <3>3. Plain => InT(c, w)
      <4>1. CASE ~ HasCaller(w)
        <5>1. c.parent[w] # Null
          BY <1>2, <2>4, <3>1, <4>1 DEF Good, Shown
        <5> QED BY <1>2, <2>4, <4>1, <5>1, InRoot
      <4>2. CASE IsSubWindow(w)
        <5>1. ~ HasCaller(p)
          BY <3>2, <4>2, TypeFacts
        <5>2. c.parent[p] \in Roots
          BY <2>4, <3>2, <4>2, <5>1, InRoot
        <5> QED BY <3>2, <4>2, <5>2 DEF InT, Top
      <4>3. CASE Type[w] = "DIALOG"
        BY <1>2, <4>3 DEF Plain
      <4> QED BY <4>1, <4>2, <4>3 DEF HasCaller
    <3>4. Keeps(c, d, usable)
      BY <1>2, <2>4, <3>2, <3>3, PostProcessOK DEF d
    <3>5. Good(d) /\ d \in States
      BY <3>4 DEF Keeps, Good, TreeOK
    <3> DEFINE u == e
    <3>6. u = ExecuteMinimizeAll(d)
      OBVIOUS
    <3> HIDE DEF u
    <3>7. Alike(d, u)
      BY <3>5, <3>6, ExecuteOK
    <3>8. Keeps(d, u, usable)
      BY <3>5, <3>7, AlikeKeeps
    <3>9. Keeps(s, d, usable)
      BY <2>4, <3>4, KeepsTwice
    <3>10. Keeps(s, u, usable)
      BY <3>8, <3>9, KeepsTwice
    <3> QED BY <3>10 DEF u
  <2> HIDE DEF failed, bad, e
  <2>7. Keeps(s, s, usable)
    BY KeepsNot
  <2> QED BY <1>1, <2>5, <2>6, <2>7
<1>7. CASE s.visible[w] /\ w \notin s.starting
  <2>1. Keeps(s, s, usable)
    BY KeepsNot
  <2> HIDE DEF failed, bad, e
  <2> QED BY <1>1, <1>7, <2>1
<1> QED BY <1>6, <1>7

-----------------------------------------------------------------------------
(* The handlers that take windows away, and the one that raises them. *)
TakenAway(s, w, onlySelf, t, usable, still) ==
    /\ Good(t)
    /\ \A x \in Loose(t) : x \in Loose(s) \/ (onlySelf /\ IsSubWindow(x) /\ s.parent[x] = w)
    /\ Plain /\ Active(s) /\ w # First => Active(t)
    /\ Locks(s, usable) => Locks(t, still)

LEMMA DestroyKeeps ==
  ASSUME NEW s, Good(s), NEW w \in s.alive, NEW onlySelf \in BOOLEAN, NEW t, t = DestroyWindow(s, w, onlySelf),
         NEW usable \in BOOLEAN, NEW still \in BOOLEAN, still => usable /\ Type[w] # "KEYGUARD"
  PROVE  TakenAway(s, w, onlySelf, t, usable, still)
<1>1. Destroyed(s, w, onlySelf, t)
  BY DestroyOK
<1>2. s.alive \subseteq Windows /\ s.locked \in BOOLEAN /\ w \in Windows
  BY DEF Good, TreeOK, States
<1>3. \A x \in Loose(t) : x \in Loose(s) \/ (onlySelf /\ IsSubWindow(x) /\ s.parent[x] = w)
  <2> SUFFICES ASSUME NEW x \in Loose(t), s.parent[x] # Null
               PROVE  onlySelf /\ s.parent[x] = w
    <3>1. \A x \in Loose(t) : x \in s.alive /\ s.visible[x] /\ IsSubWindow(x)
      BY <1>1, <1>2 DEF Loose, Destroyed
    <3> QED BY <3>1 DEF Loose
  <2>1. x \in Windows /\ x \in t.alive /\ t.parent[x] = Null
    BY <1>1, <1>2 DEF Loose, Destroyed
  <2>2. x \notin Gone(s, w, onlySelf) /\ (x = w \/ s.parent[x] = w)
    BY <1>1, <2>1 DEF Destroyed
  <2> QED BY <2>1, <2>2 DEF Gone
<1>4. Plain /\ Active(s) /\ w # First => Active(t)
  BY <1>1, DestroyKeepsActive
<1>5. ASSUME Locks(s, usable) PROVE Locks(t, still)
  <2> SUFFICES ASSUME NEW x \in ShowWhenLocked
               PROVE  /\ t.locked => (t.parent[x] # Null => t.parent[x] = "ABOVE" /\ t.prio[x] = 115)
                      /\ ~ t.locked /\ still => t.parent[x] # "ABOVE"
    BY DEF Locks, Over, Under
  <2>1. x \in Windows /\ Null # "ABOVE"
    BY FlaggedFacts, RootFacts
  <2>2. /\ s.locked => (s.parent[x] # Null => s.parent[x] = "ABOVE" /\ s.prio[x] = 115)
        /\ ~ s.locked /\ usable => s.parent[x] # "ABOVE"
    BY <1>5 DEF Locks, Over, Under
  <2>3. t.prio = s.prio /\ t.locked = (s.locked /\ Type[w] # "KEYGUARD")
        /\ (t.parent[x] = s.parent[x] \/ t.parent[x] = Null)
    BY <1>1, <2>1 DEF Destroyed
  <2> QED BY <2>1, <2>2, <2>3
<1> QED BY <1>1, <1>3, <1>4, <1>5 DEF TakenAway, Destroyed

LEMMA AskedKeeps ==
  ASSUME NEW s, NEW w, NEW onlySelf, NEW t, NEW usable, NEW still, TakenAway(s, w, onlySelf, t, usable, still),
         NEW u, u = [t EXCEPT !.asked = @ \ {w}]
  PROVE  TakenAway(s, w, onlySelf, u, usable, still)
<1>1. t \in States /\ Good(t)
  BY DEF TakenAway, Good, TreeOK
<1> DEFINE asked == t.asked \ {w}
<1>2. asked \in SUBSET Windows /\ u = [t EXCEPT !.asked = asked]
  BY <1>1 DEF States
<1> HIDE DEF asked
<1>3. Alike(t, u)
  BY <1>1, <1>2, AskedOnly
<1>4. Keeps(t, u, still)
  BY <1>1, <1>3, AlikeKeeps
<1> QED BY <1>4 DEF TakenAway, Keeps

(* Hiding a window. *)
LEMMA DropOK ==
  ASSUME NEW s, Good(s), NEW w \in s.alive, NEW t, t = DropShowWhenLockedWindowIfNeeded(s, w)
  PROVE  /\ Good(t) /\ t.locked = s.locked /\ Moved(s, t)
         /\ (Type[w] = "KEYGUARD" => Under(t)) /\ (Type[w] # "KEYGUARD" => t = s)
<1>1. TreeOK(s, {})
  BY DEF Good
<1>2. CASE Type[w] # "KEYGUARD"
  <2>1. t = s
    BY <1>2 DEF DropShowWhenLockedWindowIfNeeded
  <2> QED BY <1>1, <1>2, <2>1, RaisedNot, RaisedMoves
<1>3. CASE Type[w] = "KEYGUARD"
  <2>1. t = ReZOrderShowWhenLockedWindows(s, FALSE)
    BY <1>3 DEF DropShowWhenLockedWindowIfNeeded
  <2>2. TreeOK(t, {}) /\ ReZOrdered(s, FALSE, "ABOVE", "APP", t)
    BY <1>1, <2>1, ReZOrderOK
  <2>3. Moved(s, t)
    <3>1. ASSUME NEW x \in Windows
          PROVE  t.parent[x] = s.parent[x] \/ (Flagged(x) /\ s.parent[x] \in Roots /\ t.parent[x] \in Roots)
      <4>1. CASE x \in Lifted(s, "ABOVE")
        BY <2>2, <4>1, RootFacts DEF ReZOrdered, Lifted, Flagged
      <4>2. CASE x \notin Lifted(s, "ABOVE")
        BY <2>2, <4>2 DEF ReZOrdered
      <4> QED BY <4>1, <4>2
    <3> QED BY <2>2, <3>1 DEF Moved, ReZOrdered
  <2>4. Under(t)
    <3> SUFFICES ASSUME NEW x \in ShowWhenLocked PROVE t.parent[x] # "ABOVE"
      BY DEF Under
    <3>1. x \in Windows
      BY FlaggedFacts
    <3> QED BY <2>2, <3>1 DEF ReZOrdered, Lifted
  <2> QED BY <1>3, <2>2, <2>3, <2>4, MovedIsGood DEF Moved, SameRest
<1> QED BY <1>2, <1>3

LEMMA RemoveKeeps ==
  ASSUME NEW s, Good(s), NEW w \in s.alive, NEW t, t = RemoveWindowNode(s, w), NEW usable \in BOOLEAN
  PROVE  TakenAway(s, w, FALSE, t, usable, usable)
<1> DEFINE d == DropShowWhenLockedWindowIfNeeded(s, w)
           e == PassOn(d, w)
<1>1. t = RemoveFromContainer(e, w)
  BY DEF RemoveWindowNode
<1>2. /\ Good(d) /\ d.locked = s.locked /\ Moved(s, d)
      /\ (Type[w] = "KEYGUARD" => Under(d)) /\ (Type[w] # "KEYGUARD" => d = s)
  BY DropOK
<1> HIDE DEF d
<1>3. TreeOK(s, {}) /\ TreeOK(d, {}) /\ w \in Windows /\ s.alive \subseteq Windows /\ s.locked \in BOOLEAN
  BY <1>2 DEF Good, TreeOK, States
<1>4. PassedOn(d, w, e)
  BY <1>3, PassOnOK
<1> HIDE DEF e
<1>5. TreeOK(e, {})
  BY <1>3, <1>4, SameTree DEF PassedOn, SameButFocus
<1>6. Removed(e, w, t)
  BY <1>1, <1>3, <1>5, RemoveFromOK
<1>7. /\ TreeOK(t, {}) /\ t.alive = d.alive /\ t.token = d.token /\ t.starting = d.starting /\ t.active = e.active
      /\ t.prio = d.prio /\ t.locked = (s.locked /\ Type[w] # "KEYGUARD")
      /\ \A x \in Windows : /\ t.parent[x] = IF x = w THEN Null ELSE d.parent[x]
                            /\ t.requested[x] = (d.requested[x] /\ x # w)
                            /\ t.visible[x] = (d.visible[x] /\ x # w)
  BY <1>2, <1>4, <1>6 DEF Removed, PassedOn, SameButFocus
<1>8. Good(t)
  <2>1. Seen(t) /\ Counted(t)
    BY <1>2, <1>7, RootFacts DEF Good, Seen, Counted
  <2>2. Living(t)
    BY <1>2, <1>7, RootFacts DEF Good, Living
  <2>3. Shown(t)
    BY <1>2, <1>7 DEF Good, Shown
  <2> QED BY <1>7, <2>1, <2>2, <2>3 DEF Good
<1>9. Loose(t) \subseteq Loose(s)
  <2> SUFFICES ASSUME NEW x \in Loose(t) PROVE x \in Loose(s)
    OBVIOUS
  <2>1. x \in Windows /\ x # w /\ IsSubWindow(x) /\ d.visible[x] /\ d.parent[x] = Null /\ x \in d.alive
    BY <1>3, <1>7, RootFacts DEF Loose, TreeOK, States
  <2>2. s.parent[x] = Null
    BY <1>2, <2>1, RootFacts DEF Moved
  <2> QED BY <1>2, <2>1, <2>2 DEF Loose, Moved, SameRest
<1>10. ASSUME Plain, Active(s), w # First PROVE Active(t)
  <2>1. Active(d)
    BY <1>2, <1>3, <1>10, MovedIsActive
  <2> DEFINE a == e.active
  <2>2. a = IF Loses(d, w, d.active) /\ NextActiveOf(d, w) # Null THEN NextActiveOf(d, w) ELSE d.active
    BY <1>4 DEF PassedOn
  <2> HIDE DEF a
  <2>3. Heir(d, w, a)
    BY <1>2, <1>3, <1>10, <2>1, <2>2, HeirOK
  <2>4. Top(d, a) \in Windows /\ a \in Windows /\ a # w /\ Top(d, a) # w
    BY <1>3, <2>3, TopOK DEF Heir
  <2>5. Top(t, a) = Top(d, a)
    BY <1>7, <2>4 DEF Top
  <2>6. InT(t, a)
    BY <1>7, <2>3, <2>4, <2>5 DEF InT, Heir
  <2>7. t.parent[First] = "BELOW" /\ t.active = a
    BY <1>7, <1>10, <2>1, FirstFacts DEF Active, a
  <2> QED BY <2>4, <2>6, <2>7 DEF Active
<1>11. ASSUME Locks(s, usable) PROVE Locks(t, usable)
  <2> SUFFICES ASSUME NEW x \in ShowWhenLocked
               PROVE  /\ t.locked => (t.parent[x] # Null => t.parent[x] = "ABOVE" /\ t.prio[x] = 115)
                      /\ ~ t.locked /\ usable => t.parent[x] # "ABOVE"
    BY DEF Locks, Over, Under
  <2>1. x \in Windows /\ Null # "ABOVE"
    BY FlaggedFacts, RootFacts
  <2>2. /\ s.locked => (s.parent[x] # Null => s.parent[x] = "ABOVE" /\ s.prio[x] = 115)
        /\ ~ s.locked /\ usable => s.parent[x] # "ABOVE"
    BY <1>11 DEF Locks, Over, Under
  <2>3. t.parent[x] = d.parent[x] \/ t.parent[x] = Null
    BY <1>7, <2>1
  <2>4. CASE Type[w] = "KEYGUARD"
    BY <1>2, <1>7, <2>1, <2>3, <2>4 DEF Under
  <2>5. CASE Type[w] # "KEYGUARD"
    <3>1. t.prio = s.prio /\ (t.locked <=> s.locked) /\ (t.parent[x] = s.parent[x] \/ t.parent[x] = Null)
      BY <1>2, <1>3, <1>7, <2>3, <2>5
    <3> QED BY <2>1, <2>2, <3>1
  <2> QED BY <2>4, <2>5
<1> QED BY <1>8, <1>9, <1>10, <1>11 DEF TakenAway

(* A touch. *)
LEMMA TopIsIn ==
  ASSUME NEW s, TreeOK(s, {}), NEW w \in Windows, NEW r \in Roots, IsTopWindow(s, w, r)
  PROVE  InT(s, w)
<1> DEFINE q == s.kids[r]
           m == Last(q)
           z == s.kids[m]
<1>1. r \in Nodes /\ q \in Seq(Windows) /\ q # <<>>
  BY RootFacts DEF TreeOK, States, IsTopWindow
<1>2. m \in Windows /\ m \in ToSet(q)
  <2> HIDE DEF q
  <2> QED BY <1>1 DEF Last, ToSet
<1>3. s.parent[m] = r
  BY <1>1, <1>2 DEF TreeOK, Linked
<1>4. z \in Seq(Windows) /\ ToSet(z) = {x \in Windows : s.parent[x] = m}
  <2> HIDE DEF m
  <2> QED BY <1>2, RootFacts DEF TreeOK, States, Linked
<1>5. w = m \/ (z # <<>> /\ w = Last(z))
  BY DEF IsTopWindow
<1>6. z # <<>> => Last(z) \in ToSet(z)
  <2> HIDE DEF z
  <2> QED BY <1>4 DEF Last, ToSet
<1>7. w = m \/ s.parent[w] = m
  BY <1>4, <1>5, <1>6
<1> HIDE DEF m
<1> QED BY <1>2, <1>3, <1>7, RootFacts DEF InT, Top

LEMMA TouchKeeps ==
  ASSUME NEW s, Good(s), NEW w \in s.alive, s.visible[w], NEW p, p = CallerNode(s, w), ~ RaiseFaults(s, w, p),
         Plain => w \notin Loose(s), NEW usable \in BOOLEAN,
         NEW t, t = RaiseZOrderForAppWindow(s, w, p), NEW f \in Windows \cup {Null}, NEW u, u = FocusSet(t, f, w)
  PROVE  Keeps(s, u, usable)
<1>1. TreeOK(s, {}) /\ w \in Windows
  BY DEF Good, TreeOK, States
<1>2. p # Null => p \in Windows /\ IsMainWindow(p) /\ HasCaller(w) /\ p = Caller[w]
  BY <1>1, CallerFacts
<1>3. ~ HasCaller(w) => s.parent[w] # Null
  BY <1>1 DEF Good, Shown
<1>4. IsMainWindow(w) => s.parent[w] # Null
  BY <1>1, <1>3, TypeFacts
<1>5. Raised(s, t)
  BY <1>1, <1>2, <1>4, RaiseZOrderOK
<1>6. Keeps(s, t, usable) /\ Moved(s, t)
  BY <1>5, RaisedKeeps
<1>7. Plain => InT(s, w)
  <2> SUFFICES ASSUME Plain PROVE InT(s, w)
    OBVIOUS
  <2>1. CASE ~ HasCaller(w)
    BY <1>1, <1>3, <2>1, InRoot
  <2>2. CASE HasCaller(w)
    <3>1. IsSubWindow(w)
      BY <1>1, <2>2 DEF HasCaller, Plain
    <3>2. s.parent[w] # Null
      BY <3>1 DEF Loose
    <3>3. s.parent[w] \in Nodes
      BY <1>1, <3>2 DEF TreeOK, States
    <3>4. CASE s.parent[w] \in Roots
      BY <3>4, RootFacts DEF InT, Top
    <3>5. CASE s.parent[w] \in Windows
      <4>1. s.parent[w] = Caller[w] /\ s.parent[w] \in s.alive
        BY <1>1, <3>2, <3>5 DEF Good, TreeOK, Placed, Living
      <4>2. p = s.parent[w] /\ p # Null
        BY <2>2, <3>2, <4>1 DEF CallerNode
      <4>3. CASE IsTopWindow(s, w, "APP") \/ IsTopWindow(s, w, "ABOVE")
        BY <1>1, <4>3, TopIsIn DEF Roots
      <4>4. CASE s.parent[p] # Null
        <5>1. ~ HasCaller(p)
          BY <1>2, <4>2, TypeFacts
        <5>2. s.parent[p] \in Roots
          BY <1>2, <4>2, <4>4, <5>1, InRoot
        <5> QED BY <3>5, <4>2, <5>2 DEF InT, Top
      <4> QED BY <2>2, <4>2, <4>3, <4>4 DEF RaiseFaults
    <3> QED BY <3>3, <3>4, <3>5 DEF Nodes
  <2> QED BY <2>1, <2>2
<1>8. Good(t) /\ (Plain => InT(t, w))
  BY <1>1, <1>6, <1>7, MovedInT DEF Keeps
<1>9. Keeps(t, u, usable)
  BY <1>1, <1>8, FocusKeeps
<1> QED BY <1>6, <1>9, KeepsTwice

-----------------------------------------------------------------------------
(* The handlers by which windows come. *)
LEMMA CreateKeeps ==
  ASSUME NEW s, Good(s), NEW w \in Windows, w \notin s.alive \/ w \in s.starting,
         NEW t, t = [s EXCEPT !.alive = @ \cup {w}, !.token = @ \cup {w}], NEW usable
  PROVE  Keeps(s, t, usable)
<1>1. s \in States /\ s.token \subseteq s.alive /\ s.starting \subseteq s.alive /\ s.starting \subseteq Launched
  BY DEF Good, TreeOK, Counted
<1>2. /\ t \in States /\ t.kids = s.kids /\ t.parent = s.parent /\ t.prio = s.prio /\ t.requested = s.requested
      /\ t.visible = s.visible /\ t.active = s.active /\ t.locked = s.locked
      /\ t.alive = s.alive \cup {w} /\ t.token = s.token \cup {w} /\ t.starting = s.starting
  BY <1>1 DEF States
<1>3. TreeOK(t, {})
  BY <1>2, SameTree DEF Good
<1>4. Good(t)
  BY <1>1, <1>2, <1>3 DEF Good, Seen, Living, Shown, Counted
<1>5. Loose(t) \subseteq Loose(s)
  <2>1. w \in Loose(t) => w \in s.alive
    BY <1>2 DEF Loose, Good, Shown
  <2> QED BY <1>2, <2>1 DEF Loose
<1>6. Active(s) => Active(t)
  BY <1>2 DEF Active, InT, Top
<1> QED BY <1>2, <1>4, <1>5, <1>6 DEF Keeps, Locks, Over, Under

Taken(s, w) == [s EXCEPT !.alive = @ \cup {w}, !.starting = @ \cup {w}]

LEMMA TakenFields ==
  ASSUME NEW s \in States, NEW w \in Windows, NEW t, t = Taken(s, w)
  PROVE  /\ t \in States /\ t.kids = s.kids /\ t.parent = s.parent /\ t.prio = s.prio /\ t.requested = s.requested
         /\ t.visible = s.visible /\ t.focus = s.focus /\ t.active = s.active /\ t.locked = s.locked
         /\ t.alive = s.alive \cup {w} /\ t.token = s.token /\ t.starting = s.starting \cup {w}
         /\ t.list = s.list /\ t.asked = s.asked
BY DEF Taken, States

LEMMA TakenOK ==
  ASSUME NEW s, Good(s), NEW w \in Launched, s.parent[w] = Null, NEW t, t = Taken(s, w), NEW usable
  PROVE  /\ Good(t) /\ Keeps(s, t, usable) /\ t.parent = s.parent /\ t.prio = s.prio /\ t.requested = s.requested
         /\ t.visible = s.visible /\ t.focus = s.focus /\ t.active = s.active /\ t.locked = s.locked
         /\ t.alive = s.alive \cup {w} /\ t.token = s.token /\ t.starting = s.starting \cup {w}
         /\ t.list = s.list /\ t.asked = s.asked
<1>1. s \in States /\ w \in Windows /\ ~ IsSubWindow(w) /\ s.token \subseteq s.alive
      /\ s.starting \subseteq s.alive /\ s.starting \subseteq Launched
  BY LaunchedFacts DEF Good, TreeOK, Counted, HasCaller
<1>2. /\ t \in States /\ t.kids = s.kids /\ t.parent = s.parent /\ t.prio = s.prio /\ t.requested = s.requested
      /\ t.visible = s.visible /\ t.focus = s.focus /\ t.active = s.active /\ t.locked = s.locked
      /\ t.alive = s.alive \cup {w} /\ t.token = s.token /\ t.starting = s.starting \cup {w}
      /\ t.list = s.list /\ t.asked = s.asked
  BY <1>1, TakenFields
<1>3. TreeOK(t, {})
  BY <1>2, SameTree DEF Good
<1>4. Good(t)
  BY <1>1, <1>2, <1>3 DEF Good, Seen, Living, Shown, Counted
<1>5. Loose(t) \subseteq Loose(s)
  BY <1>1, <1>2 DEF Loose
<1>6. Active(s) => Active(t)
  BY <1>2 DEF Active, InT, Top
<1> QED BY <1>2, <1>4, <1>5, <1>6 DEF Keeps, Locks, Over, Under

LEMMA StartKeeps ==
  ASSUME NEW s, Good(s), NEW w \in Launched, ~ s.visible[w],
         NEW t, t = Taken(AddWindowNodeOnWindowTree(s, w, Null), w), NEW usable \in BOOLEAN
  PROVE  Keeps(s, t, usable)
<1> DEFINE a == AddWindowNodeOnWindowTree(s, w, Null)
           b == Taken(s, w)
           p == Null
<1>1. TreeOK(s, {}) /\ w \in Windows /\ Type[w] # "KEYGUARD" /\ s.parent[w] = Null /\ s.locked \in BOOLEAN
  BY LaunchedFacts DEF Good, Seen, TreeOK, States
<1>2. Added(s, w, p, a)
  <2>1. p # Null => p \in Windows /\ HasCaller(w) /\ p = Caller[w] /\ s.parent[p] # Null
    OBVIOUS
  <2>2. a = AddWindowNodeOnWindowTree(s, w, p)
    OBVIOUS
  <2> HIDE DEF p, a
  <2> QED BY <1>1, <2>1, <2>2, AddOnTree
<1>3. /\ Good(b) /\ Keeps(s, b, usable) /\ b.parent = s.parent /\ b.prio = s.prio /\ b.requested = s.requested
      /\ b.visible = s.visible /\ b.focus = s.focus /\ b.active = s.active /\ b.locked = s.locked
      /\ b.alive = s.alive \cup {w} /\ b.token = s.token /\ b.starting = s.starting \cup {w}
      /\ b.list = s.list /\ b.asked = s.asked
  <2> HIDE DEF b
  <2> QED BY <1>1, TakenOK DEF b
<1>4. t = Taken(a, w)
  OBVIOUS
<1> HIDE DEF a, b
<1>5. a \in States /\ TreeOK(a, {})
  BY <1>2 DEF Added, TreeOK
<1>6. /\ t \in States /\ t.kids = a.kids /\ t.parent = a.parent /\ t.prio = a.prio /\ t.requested = a.requested
      /\ t.visible = a.visible /\ t.focus = a.focus /\ t.active = a.active /\ t.locked = a.locked
      /\ t.alive = a.alive \cup {w} /\ t.token = a.token /\ t.starting = a.starting \cup {w}
      /\ t.list = a.list /\ t.asked = a.asked
  BY <1>1, <1>4, <1>5, TakenFields
<1>7. TreeOK(t, {})
  BY <1>5, <1>6, SameTree
<1>8. Added(b, w, p, t)
  <2>1. Rank(b, w) = Rank(s, w) /\ RaisedOverKeyguard(b, w) = RaisedOverKeyguard(s, w)
        /\ \A x : Goes(b, w, x) = Goes(s, w, x)
    BY <1>3 DEF Rank, RaisedOverKeyguard, Goes, Lifted
  <2> HIDE DEF p
  <2> QED BY <1>2, <1>3, <1>6, <1>7, <2>1 DEF Added
<1>9. Good(t) /\ (Active(b) => Active(t)) /\ Loose(t) \subseteq Loose(b)
  <2>1. w \in b.alive /\ b.parent[w] = Null
    BY <1>1, <1>3
  <2>2. p # Null => p \in Windows /\ HasCaller(w) /\ p = Caller[w] /\ b.parent[p] # Null
    OBVIOUS
  <2> HIDE DEF p
  <2> QED BY <1>3, <1>8, <2>1, <2>2, AddedIsGood
<1>10. ASSUME Locks(b, usable) PROVE Locks(t, usable)
  <2>1. p # Null => HasCaller(w)
    OBVIOUS
  <2> HIDE DEF p
  <2>2. /\ b.locked \/ Type[w] = "KEYGUARD" => Over(t)
        /\ ~ (b.locked \/ Type[w] = "KEYGUARD") /\ usable => Under(t)
    <3>1. TreeOK(b, {})
      BY <1>3 DEF Good
    <3> QED BY <1>1, <1>8, <1>10, <2>1, <3>1, AddedLocks
  <2>3. t.locked = b.locked
    BY <1>8 DEF Added
  <2> QED BY <1>1, <2>2, <2>3 DEF Locks
<1>11. Keeps(b, t, usable)
  BY <1>9, <1>10 DEF Keeps
<1> QED BY <1>3, <1>11, KeepsTwice

LEMMA StartingOK ==
  ASSUME NEW s, Good(s), NEW w \in Launched, NEW usable \in BOOLEAN,
         NEW m, m = MinimizeStructuredAppWindowsExceptSelf(s, w),
         NEW t, t = IF s.visible[w] THEN [m EXCEPT !.list = ClearNodesWithReason(@, "OTHER_WINDOW")]
                    ELSE [AddWindowNodeOnWindowTree(m, w, Null) EXCEPT !.alive = @ \cup {w}, !.starting = @ \cup {w}]
  PROVE  Keeps(s, t, usable)
<1>1. s \in States
  BY DEF Good, TreeOK
<1>2. Alike(s, m)
  BY <1>1, StructuredOK
<1>3. Good(m) /\ Keeps(s, m, usable) /\ m.visible = s.visible /\ m \in States
  BY <1>2, AlikeIsGood, AlikeKeeps DEF Alike
<1>4. CASE s.visible[w]
  <2> DEFINE o == "OTHER_WINDOW"
  <2>1. t = [m EXCEPT !.list = ClearNodesWithReason(@, o)]
    BY <1>4
  <2> HIDE DEF o
  <2>2. Alike(m, t)
    BY <1>3, <2>1, ClearOK
  <2>3. Keeps(m, t, usable)
    BY <1>3, <2>2, AlikeKeeps
  <2> QED BY <1>3, <2>3, KeepsTwice
<1>5. CASE ~ s.visible[w]
  <2>1. t = Taken(AddWindowNodeOnWindowTree(m, w, Null), w)
    BY <1>5 DEF Taken
  <2>2. Keeps(m, t, usable)
    BY <1>3, <1>5, <2>1, StartKeeps
  <2> QED BY <1>3, <2>2, KeepsTwice
<1> QED BY <1>4, <1>5

-----------------------------------------------------------------------------
(* The inductive invariant.  A keyguard that is destroyed leaves the        *)
(* windows over it where they are (KeyguardDrop), so that what an unlocked  *)
(* screen has there is known only while the keyguard may come back.  A sub  *)
(* window that is visible without a parent belongs to a process that died.  *)
Usable == \E k \in Windows : Type[k] = "KEYGUARD" /\ client[k] # "DESTROYED"
OneKeyguard == \A j, k \in Windows : Type[j] = "KEYGUARD" /\ Type[k] = "KEYGUARD" => j = k

ClientsOK == client \in [Windows -> ClientStates] /\ dead \subseteq Mortal
LockedOK == OneKeyguard => Locks(root, Usable)
ActiveOK == Plain => Active(root) /\ \A x \in Loose(root) : ~ Runs(x)
RootInv == Good(root) /\ ClientsOK /\ LockedOK /\ ActiveOK

LEMMA LocksLess ==
  ASSUME NEW s, NEW usable \in BOOLEAN, NEW still \in BOOLEAN, Locks(s, usable), still => usable
  PROVE  Locks(s, still)
BY DEF Locks

LEMMA KeepsStep ==
  ASSUME RootInv, Keeps(root, root', Usable), client' \in [Windows -> ClientStates], dead' \subseteq Mortal,
         dead \subseteq dead', Usable' => Usable
  PROVE  RootInv'
<1>1. Good(root')
  BY DEF Keeps
<1>2. LockedOK'
  <2> SUFFICES ASSUME OneKeyguard PROVE Locks(root', Usable')
    BY DEF LockedOK, OneKeyguard
  <2>1. Locks(root', Usable)
    BY DEF RootInv, LockedOK, Keeps
  <2>2. Usable \in BOOLEAN /\ Usable' \in BOOLEAN
    BY DEF Usable
  <2> QED BY <2>1, <2>2, LocksLess
<1>3. ActiveOK'
  <2> SUFFICES ASSUME Plain PROVE Active(root') /\ \A x \in Loose(root') : ~ Runs(x)'
    BY DEF ActiveOK, Plain
  <2> QED BY DEF RootInv, ActiveOK, Keeps, Runs
<1> QED BY <1>1, <1>2, <1>3 DEF RootInv, ClientsOK

LEMMA TakenStep ==
  ASSUME RootInv, NEW w \in Windows, NEW onlySelf \in BOOLEAN, NEW still \in BOOLEAN,
         TakenAway(root, w, onlySelf, root', Usable, still), OneKeyguard /\ Usable' => still,
         Plain => w # First, onlySelf => ~ Runs(w), client' \in [Windows -> ClientStates], dead' = dead
  PROVE  RootInv'
<1>1. Good(root')
  BY DEF TakenAway
<1>2. LockedOK'
  <2> SUFFICES ASSUME OneKeyguard PROVE Locks(root', Usable')
    BY DEF LockedOK, OneKeyguard
  <2>1. Locks(root', still)
    BY DEF RootInv, LockedOK, TakenAway
  <2>2. Usable' \in BOOLEAN
    BY DEF Usable
  <2> QED BY <2>1, <2>2, LocksLess
<1>3. ActiveOK'
  <2> SUFFICES ASSUME Plain PROVE Active(root') /\ \A x \in Loose(root') : ~ Runs(x)'
    BY DEF ActiveOK, Plain
  <2>1. Active(root')
    BY DEF RootInv, ActiveOK, TakenAway
  <2>2. ASSUME NEW x \in Loose(root') PROVE ~ Runs(x)
    <3>1. CASE x \in Loose(root)
      BY <3>1 DEF RootInv, ActiveOK
    <3>2. CASE onlySelf /\ IsSubWindow(x) /\ root.parent[x] = w
      <4>1. x \in Windows
        BY <1>1 DEF Loose, Good, TreeOK, States
      <4>2. Caller[x] = w
        BY <3>2, <4>1 DEF RootInv, Good, TreeOK, Placed
      <4>3. Process[x] = Process[w]
        BY <3>2, <4>1, <4>2, RootAssumption
      <4> QED BY <3>2, <4>3 DEF Runs
    <3> QED BY <3>1, <3>2 DEF TakenAway
  <2> QED BY <2>1, <2>2 DEF Runs
<1> QED BY <1>1, <1>2, <1>3 DEF RootInv, ClientsOK

LEMMA InitOK ==
  ASSUME Init
  PROVE  RootInv
<1> DEFINE b == "BELOW"
<1>0. First \in Windows /\ First \in Focusable /\ Type[First] = "DESKTOP" /\ FindRoot(First) = b /\ ~ HasCaller(First)
  BY FirstFacts, RootAssumption
<1>1. b \in Nodes /\ b \notin Windows /\ b # Null /\ Null \notin Nodes /\ b \in Roots /\ b # "ABOVE" /\ Nodes = Roots \cup Windows
  BY RootFacts DEF Nodes
<1> DEFINE one == <<First>>
<1>2. one \in Seq(Windows) /\ ToSet(one) = {First} /\ IsInjective(one) /\ DOMAIN one = {1} /\ one[1] = First
  <2>1. one \in Seq(Windows) /\ DOMAIN one = {1} /\ one[1] = First
    BY <1>0
  <2> HIDE DEF one
  <2> QED BY <2>1 DEF ToSet, IsInjective
<1> DEFINE none == <<>>
<1>3. none \in Seq(Windows) /\ ToSet(none) = {} /\ IsInjective(none) /\ DOMAIN none = {}
  <2>1. none \in Seq(Windows) /\ DOMAIN none = {}
    OBVIOUS
  <2> HIDE DEF none
  <2> QED BY <2>1 DEF ToSet, IsInjective
<1>4. /\ root.kids = [p \in Nodes |-> IF p = b THEN one ELSE none]
      /\ root.parent = [w \in Windows |-> IF w = First THEN b ELSE Null]
      /\ root.prio = [w \in Windows |-> IF w = First THEN 1 ELSE 0]
      /\ root.requested = [w \in Windows |-> w = First] /\ root.visible = [w \in Windows |-> w = First]
      /\ root.focus = First /\ root.active = First /\ root.locked = FALSE
      /\ root.alive = {First} /\ root.token = {First} /\ root.starting = {} /\ root.list = {} /\ root.asked = {}
  BY <1>1 DEF Init, PriorityMap
<1> HIDE DEF one, none, b
<1>5. root \in States
  <2>1. 0 \in Ranks /\ 1 \in Ranks
    BY DEF Ranks
  <2>2. root.kids \in [Nodes -> Seq(Windows)] /\ root.parent \in [Windows -> Nodes \cup {Null}]
        /\ root.prio \in [Windows -> Ranks] /\ root.requested \in [Windows -> BOOLEAN] /\ root.visible \in [Windows -> BOOLEAN]
    BY <1>1, <1>2, <1>3, <1>4, <2>1
  <2>3. root = [kids |-> root.kids, parent |-> root.parent, prio |-> root.prio, requested |-> root.requested,
                visible |-> root.visible, focus |-> root.focus, active |-> root.active, locked |-> root.locked,
                alive |-> root.alive, token |-> root.token, starting |-> root.starting,
                list |-> root.list, asked |-> root.asked]
    BY DEF Init
  <2>4. root.focus \in Windows \cup {Null} /\ root.active \in Windows \cup {Null} /\ root.locked \in BOOLEAN /\ root.alive \subseteq Windows
        /\ root.token \subseteq Windows /\ root.starting \subseteq Windows
        /\ root.list \in SUBSET (Windows \X Reasons) /\ root.asked \subseteq Windows
    BY <1>0, <1>4
  <2> QED BY <2>2, <2>3, <2>4 DEF States
<1>6. Linked(root, {})
  <2> SUFFICES ASSUME NEW p \in Nodes
               PROVE  IsInjective(root.kids[p]) /\ ToSet(root.kids[p]) = {w \in Windows : root.parent[w] = p}
    BY DEF Linked
  <2>1. root.kids[p] = IF p = b THEN one ELSE none
    BY <1>4
  <2> QED BY <1>0, <1>1, <1>2, <1>3, <1>4, <2>1
<1>7. Ordered(root)
  <2> SUFFICES ASSUME NEW p \in Nodes PROVE Sorted(root.kids[p], root.prio)
    BY DEF Ordered
  <2>1. root.kids[p] = one \/ root.kids[p] = none
    BY <1>4
  <2> QED BY <1>2, <1>3, <2>1 DEF Sorted
<1>8. Placed(root) /\ Ranked(root, {})
  <2>1. RankOK(First, 1)
    BY <1>0 DEF RankOK, PriorityMap
  <2>2. \A w \in Windows : root.parent[w] = (IF w = First THEN b ELSE Null) /\ (root.prio[w] = IF w = First THEN 1 ELSE 0)
    BY <1>4
  <2> QED BY <1>0, <1>1, <2>1, <2>2 DEF Placed, Ranked
<1>9. Good(root)
  <2>1. \A w \in Windows : /\ root.parent[w] = (IF w = First THEN b ELSE Null)
                           /\ (root.visible[w] <=> w = First) /\ (root.requested[w] <=> w = First)
    BY <1>4
  <2>2. TreeOK(root, {})
    BY <1>5, <1>6, <1>7, <1>8 DEF TreeOK
  <2>3. Seen(root) /\ Living(root)
    BY <1>1, <1>4, <2>1 DEF Seen, Living
  <2>4. Shown(root) /\ Counted(root)
    BY <1>1, <1>4, <2>1 DEF Shown, Counted
  <2> QED BY <2>2, <2>3, <2>4 DEF Good
<1>10. ClientsOK
  BY DEF Init, ClientsOK, ClientStates
<1>11. LockedOK
  <2>1. \A x \in ShowWhenLocked : root.parent[x] # "ABOVE"
    BY <1>1, <1>4, FlaggedFacts, RootFacts
  <2> QED BY <1>4, <2>1 DEF LockedOK, Locks, Over, Under
<1>12. ActiveOK
  <2>1. \A x \in Loose(root) : x = First /\ IsSubWindow(x)
    BY <1>4 DEF Loose
  <2>2. Loose(root) = {}
    BY <1>0, <2>1 DEF HasCaller
  <2> QED BY <1>0, <1>1, <1>4, <2>2 DEF ActiveOK, Active, InT, Top, b
<1> QED BY <1>9, <1>10, <1>11, <1>12 DEF RootInv

-----------------------------------------------------------------------------
(* Every action keeps the invariant. *)
LEMMA UsableLess ==
  ASSUME \A k \in Windows : client[k] = "DESTROYED" => client'[k] = "DESTROYED"
  PROVE  Usable' => Usable
BY DEF Usable

LEMMA ForgetOK ==
  ASSUME NEW c \in [Windows -> ClientStates], NEW d, d = Forget(c)
  PROVE  d \in [Windows -> ClientStates] /\ \A k \in Windows : c[k] = "DESTROYED" => d[k] = "DESTROYED"
BY DEF Forget, ClientStates

LEMMA Basics ==
  ASSUME RootInv
  PROVE  /\ Good(root) /\ client \in [Windows -> ClientStates] /\ dead \subseteq Mortal /\ Usable \in BOOLEAN
         /\ root.alive \subseteq Windows /\ root.token \subseteq root.alive
         /\ root.starting \subseteq root.alive /\ root.starting \subseteq Launched
BY DEF RootInv, ClientsOK, Good, Counted, TreeOK, States, Usable

LEMMA CreateStep ==
  ASSUME RootInv, NEW w \in Windows, CreateWindow(w)
  PROVE  RootInv'
<1>1. Keeps(root, root', Usable)
  BY Basics, CreateKeeps DEF CreateWindow
<1>2. client' = [client EXCEPT ![w] = "CREATED"] /\ client[w] = "NONE" /\ dead' = dead
  BY DEF CreateWindow
<1>3. client' \in [Windows -> ClientStates]
  BY <1>2, Basics DEF ClientStates
<1>4. Usable' => Usable
  BY <1>2, Basics, UsableLess
<1> QED BY <1>1, <1>2, <1>3, <1>4, Basics, KeepsStep

LEMMA ShowStep ==
  ASSUME RootInv, NEW w \in Windows, Show(w)
  PROVE  RootInv'
<1> DEFINE r == AddWindowNode(root, w)
           c == IF r.ok THEN [client EXCEPT ![w] = "SHOWN"] ELSE client
<1>1. /\ w \in root.alive /\ client[w] \in {"CREATED", "HIDDEN"} /\ dead' = dead
      /\ root' = r.state /\ client' = Forget(c)
  BY DEF Show
<1>2. Type[w] = "KEYGUARD" => Usable
  BY <1>1 DEF Usable
<1> HIDE DEF r
<1>3. Keeps(root, r.state, Usable)
  BY <1>1, <1>2, Basics, AddWindowNodeOK DEF r
<1>4. c \in [Windows -> ClientStates] /\ \A k \in Windows : client[k] = "DESTROYED" => c[k] = "DESTROYED"
  BY <1>1, Basics DEF ClientStates
<1> HIDE DEF c
<1>5. client' \in [Windows -> ClientStates] /\ (Usable' => Usable)
  BY <1>1, <1>4, ForgetOK, UsableLess
<1> QED BY <1>1, <1>3, <1>5, Basics, KeepsStep

LEMMA TouchStep ==
  ASSUME RootInv, NEW w \in Windows, ProcessPointDown(w)
  PROVE  RootInv'
<1> DEFINE p == CallerNode(root, w)
           t == RaiseZOrderForAppWindow(root, w, p)
           f == IF w \in Focusable THEN w ELSE t.focus
<1>1. /\ Runs(w) /\ w \in root.alive /\ root.visible[w] /\ ~ RaiseFaults(root, w, p)
      /\ root' = FocusSet(t, f, w) /\ client' = client /\ dead' = dead
  BY DEF ProcessPointDown, FocusSet
<1>2. Plain => w \notin Loose(root)
  BY <1>1 DEF RootInv, ActiveOK
<1>3. f \in Windows \cup {Null}
  <2>1. TreeOK(root, {}) /\ Good(root)
    BY DEF RootInv, Good
  <2> HIDE DEF p
  <2>2. p # Null => p \in Windows /\ IsMainWindow(p)
    BY <2>1, CallerFacts DEF p
  <2>3. IsMainWindow(w) => root.parent[w] # Null
    BY <1>1, <2>1, TypeFacts DEF Good, Shown
  <2> HIDE DEF t
  <2>4. Raised(root, t)
    BY <1>1, <2>1, <2>2, <2>3, RaiseZOrderOK DEF t
  <2> QED BY <2>4 DEF Raised, TreeOK, States
<1> HIDE DEF p, t, f
<1>4. Keeps(root, root', Usable)
  BY <1>1, <1>2, <1>3, Basics, TouchKeeps DEF p, t
<1> QED BY <1>1, <1>4, Basics, KeepsStep DEF Usable

LEMMA FocusStep ==
  ASSUME RootInv, NEW w \in Windows, RequestFocus(w)
  PROVE  RootInv'
<1>1. root' = FocusOnly(root, w) /\ client' = client /\ dead' = dead
  BY DEF RequestFocus, FocusOnly
<1>2. Keeps(root, root', Usable)
  BY <1>1, Basics, FocusOnlyKeeps
<1> QED BY <1>1, <1>2, Basics, KeepsStep DEF Usable

LEMMA HideStep ==
  ASSUME RootInv, NEW w \in Windows, Hide(w)
  PROVE  RootInv'
<1> DEFINE t == RemoveWindowNode(root, w)
<1>1. /\ w # First /\ w \in root.alive /\ root' = [t EXCEPT !.asked = @ \ {w}]
      /\ client' = [client EXCEPT ![w] = "HIDDEN"] /\ client[w] = "SHOWN" /\ dead' = dead
  BY DEF Hide
<1> HIDE DEF t
<1>2. TakenAway(root, w, FALSE, t, Usable, Usable)
  BY <1>1, Basics, RemoveKeeps DEF t
<1>3. TakenAway(root, w, FALSE, root', Usable, Usable)
  BY <1>1, <1>2, AskedKeeps
<1>4. client' \in [Windows -> ClientStates] /\ (Usable' => Usable)
  BY <1>1, Basics, UsableLess DEF ClientStates
<1> QED BY <1>1, <1>3, <1>4, Basics, TakenStep

(* A keyguard that is destroyed was the only one. *)
LEMMA NotUsable ==
  ASSUME NEW w \in Windows, \A k \in Windows : client[k] = "DESTROYED" => client'[k] = "DESTROYED",
         client'[w] = "DESTROYED"
  PROVE  OneKeyguard /\ Usable' => Usable /\ Type[w] # "KEYGUARD"
BY DEF OneKeyguard, Usable

LEMMA DestroyStep ==
  ASSUME RootInv, NEW w \in Windows, Destroy(w), w \in root.alive
  PROVE  RootInv'
<1> DEFINE t == DestroyWindow(root, w, FALSE)
           still == OneKeyguard /\ Usable'
<1>1. /\ w # First /\ root' = [t EXCEPT !.asked = @ \ {w}] /\ dead' = dead
      /\ client' = [x \in Windows |->
                      IF x = w \/ (client[x] # "NONE" /\ Caller[x] = w /\ Process[x] = Process[w])
                        THEN "DESTROYED" ELSE client[x]]
  BY DEF Destroy
<1>2. client' \in [Windows -> ClientStates] /\ client'[w] = "DESTROYED"
      /\ \A k \in Windows : client[k] = "DESTROYED" => client'[k] = "DESTROYED"
  BY <1>1, Basics DEF ClientStates
<1> HIDE DEF t
<1>3. still \in BOOLEAN /\ (still => Usable /\ Type[w] # "KEYGUARD") /\ (OneKeyguard /\ Usable' => still)
  BY <1>2, NotUsable DEF Usable, OneKeyguard
<1> HIDE DEF still
<1>4. TakenAway(root, w, FALSE, t, Usable, still)
  BY <1>3, Basics, DestroyKeeps DEF t
<1>5. TakenAway(root, w, FALSE, root', Usable, still)
  BY <1>1, <1>4, AskedKeeps
<1> QED BY <1>1, <1>2, <1>3, <1>5, TakenStep

LEMMA DestroyNothing ==
  ASSUME RootInv, NEW w \in Windows, Destroy(w), w \notin root.alive
  PROVE  RootInv'
<1> DEFINE asked == root.asked \ {w}
<1>1. /\ root' = [root EXCEPT !.asked = asked] /\ dead' = dead
      /\ client' = [x \in Windows |->
                      IF x = w \/ (client[x] # "NONE" /\ Caller[x] = w /\ Process[x] = Process[w])
                        THEN "DESTROYED" ELSE client[x]]
  BY DEF Destroy, DestroyWindow
<1>2. root \in States /\ asked \in SUBSET Windows
  BY Basics DEF Good, TreeOK, States
<1> HIDE DEF asked
<1>3. Alike(root, root')
  BY <1>1, <1>2, AskedOnly
<1>4. Keeps(root, root', Usable)
  BY <1>3, Basics, AlikeKeeps
<1>5. client' \in [Windows -> ClientStates] /\ (Usable' => Usable)
  BY <1>1, Basics, UsableLess DEF ClientStates
<1> QED BY <1>1, <1>4, <1>5, Basics, KeepsStep

LEMMA DiedStep ==
  ASSUME RootInv, NEW w \in Windows, OnRemoteDied(w)
  PROVE  RootInv'
<1> DEFINE t == DestroyWindow(root, w, TRUE)
           still == OneKeyguard /\ Usable'
<1>1. /\ ~ Runs(w) /\ w \in root.token /\ root' = [t EXCEPT !.asked = @ \ {w}] /\ dead' = dead
      /\ client' = [client EXCEPT ![w] = "DESTROYED"]
  BY DEF OnRemoteDied
<1>2. client' \in [Windows -> ClientStates] /\ client'[w] = "DESTROYED"
      /\ \A k \in Windows : client[k] = "DESTROYED" => client'[k] = "DESTROYED"
  BY <1>1, Basics DEF ClientStates
<1>3. w \in root.alive /\ (Plain => w # First)
  BY <1>1, Basics DEF Plain, Runs
<1> HIDE DEF t
<1>4. still \in BOOLEAN /\ (still => Usable /\ Type[w] # "KEYGUARD") /\ (OneKeyguard /\ Usable' => still)
  BY <1>2, NotUsable DEF Usable, OneKeyguard
<1> HIDE DEF still
<1>5. TakenAway(root, w, TRUE, t, Usable, still)
  BY <1>3, <1>4, Basics, DestroyKeeps DEF t
<1>6. TakenAway(root, w, TRUE, root', Usable, still)
  BY <1>1, <1>5, AskedKeeps
<1> QED BY <1>1, <1>2, <1>3, <1>4, <1>6, TakenStep

LEMMA StartingStep ==
  ASSUME RootInv, NEW w \in Windows, StartingWindow(w)
  PROVE  RootInv'
<1> DEFINE m == MinimizeStructuredAppWindowsExceptSelf(root, w)
<1>1. /\ w \in Launched /\ client' = client /\ dead' = dead
      /\ root' = IF root.visible[w] THEN [m EXCEPT !.list = ClearNodesWithReason(@, "OTHER_WINDOW")]
                 ELSE [AddWindowNodeOnWindowTree(m, w, Null) EXCEPT !.alive = @ \cup {w}, !.starting = @ \cup {w}]
  BY DEF StartingWindow
<1> HIDE DEF m
<1>2. Keeps(root, root', Usable)
  BY <1>1, Basics, StartingOK DEF m
<1> QED BY <1>1, <1>2, Basics, KeepsStep DEF Usable

LEMMA CancelStep ==
  ASSUME RootInv, NEW w \in Windows, CancelStartingWindow(w)
  PROVE  RootInv'
<1>1. /\ w \in root.starting /\ root' = DestroyWindow(root, w, FALSE) /\ client' = Forget(client) /\ dead' = dead
  BY DEF CancelStartingWindow
<1>2. client' \in [Windows -> ClientStates] /\ (Usable' => Usable)
  BY <1>1, Basics, ForgetOK, UsableLess
<1>3. w \in root.alive /\ w # First /\ Type[w] # "KEYGUARD"
  BY <1>1, Basics, LaunchedFacts
<1>4. TakenAway(root, w, FALSE, root', Usable, Usable)
  BY <1>1, <1>3, Basics, DestroyKeeps
<1> QED BY <1>1, <1>2, <1>3, <1>4, Basics, TakenStep

LEMMA MinimizeStep ==
  ASSUME RootInv, MinimizeAllAppWindows
  PROVE  RootInv'
<1> DEFINE ws == {w \in ToSet(root.kids["APP"]) : IsMainWindow(w)}
           o == "MINIMIZE_ALL"
           m == Minimize(root, ws, o)
<1>1. root' = ExecuteMinimizeAll(m) /\ client' = client /\ dead' = dead
  BY DEF MinimizeAllAppWindows
<1>2. root \in States /\ ws \in SUBSET Windows /\ o \in Reasons
  <2>1. root \in States /\ ToSet(root.kids["APP"]) \subseteq Windows
    BY Basics, RootFacts DEF Good, TreeOK, Linked
  <2> QED BY <2>1 DEF Reasons
<1> HIDE DEF ws, o
<1>3. Alike(root, m)
  <2> HIDE DEF m
  <2> QED BY <1>2, MinimizeOK DEF m
<1> HIDE DEF m
<1>4. m \in States
  BY <1>3 DEF Alike
<1>5. Alike(root, root')
  BY <1>1, <1>3, <1>4, ExecuteOK, AlikeTwice
<1>6. Keeps(root, root', Usable)
  BY <1>5, Basics, AlikeKeeps
<1> QED BY <1>1, <1>6, Basics, KeepsStep DEF Usable

LEMMA ProcessStep ==
  ASSUME RootInv, NEW p \in Mortal, ProcessDies(p)
  PROVE  RootInv'
<1>1. root' = root /\ client' = client /\ dead' = dead \cup {p}
  BY DEF ProcessDies
<1>2. Keeps(root, root', Usable)
  BY <1>1, Basics, KeepsNot
<1> QED BY <1>1, <1>2, Basics, KeepsStep DEF Usable

LEMMA NextOK ==
  ASSUME RootInv, [Next]_vars
  PROVE  RootInv'
<1>1. CASE UNCHANGED vars
  <2>1. root' = root /\ client' = client /\ dead' = dead
    BY <1>1 DEF vars
  <2>2. Keeps(root, root', Usable)
    BY <2>1, Basics, KeepsNot
  <2> QED BY <2>1, <2>2, Basics, KeepsStep DEF Usable
<1>2. ASSUME NEW w \in Windows, CreateWindow(w) PROVE RootInv'
  BY <1>2, CreateStep
<1>3. ASSUME NEW w \in Windows, Show(w) PROVE RootInv'
  BY <1>3, ShowStep
<1>4. ASSUME NEW w \in Windows, ProcessPointDown(w) PROVE RootInv'
  BY <1>4, TouchStep
<1>5. ASSUME NEW w \in Windows, RequestFocus(w) PROVE RootInv'
  BY <1>5, FocusStep
<1>6. ASSUME NEW w \in Windows, Hide(w) PROVE RootInv'
  BY <1>6, HideStep
<1>7. ASSUME NEW w \in Windows, Destroy(w) PROVE RootInv'
  BY <1>7, DestroyStep, DestroyNothing
<1>8. ASSUME NEW w \in Windows, OnRemoteDied(w) PROVE RootInv'
  BY <1>8, DiedStep
<1>9. ASSUME NEW w \in Windows, StartingWindow(w) PROVE RootInv'
  BY <1>9, StartingStep
<1>10. ASSUME NEW w \in Windows, CancelStartingWindow(w) PROVE RootInv'
  BY <1>10, CancelStep
<1>11. ASSUME MinimizeAllAppWindows PROVE RootInv'
  BY <1>11, MinimizeStep
<1>12. ASSUME NEW p \in Mortal, ProcessDies(p) PROVE RootInv'
  BY <1>12, ProcessStep
<1> QED BY <1>1, <1>2, <1>3, <1>4, <1>5, <1>6, <1>7, <1>8, <1>9, <1>10, <1>11, <1>12 DEF Next

-----------------------------------------------------------------------------
(* The results. *)
LEMMA SpecKeeps == Spec => []RootInv
<1>1. Init => RootInv
  BY InitOK
<1>2. RootInv /\ [Next]_vars => RootInv'
  BY NextOK
<1> QED BY <1>1, <1>2, PTL DEF Spec

(* What the window manager keeps has its type: the tree, the priorities    *)
(* between that of a media sub window and that of what is raised over the  *)
(* keyguard, and a token or a starting window only for a window that is in *)
(* windowNodeMap_, whatever is shown, hidden, destroyed or dies.           *)
THEOREM TypesHold == Spec => []TypeOK
<1>1. RootInv => TypeOK
  <2> SUFFICES ASSUME RootInv PROVE TypeOK
    OBVIOUS
  <2>1. root \in States /\ Nodes = Roots \cup Windows /\ root.token \subseteq root.alive /\ root.starting \subseteq root.alive
    BY Basics DEF Good, TreeOK, Nodes
  <2>2. dead \subseteq Processes
    BY Basics, RootAssumption DEF Processes
  <2>3. Ranks = -1 .. PriorityMap.KEYGUARD + 2
    BY DEF Ranks, PriorityMap
  <2>4. /\ root.kids \in [Nodes -> Seq(Windows)] /\ root.parent \in [Windows -> Nodes \cup {Null}]
        /\ root.prio \in [Windows -> Ranks] /\ root.requested \in [Windows -> BOOLEAN]
        /\ root.visible \in [Windows -> BOOLEAN] /\ root.focus \in Windows \cup {Null}
        /\ root.active \in Windows \cup {Null} /\ root.locked \in BOOLEAN /\ root.alive \subseteq Windows
        /\ root.list \subseteq Windows \X Reasons /\ root.asked \subseteq Windows
    BY <2>1, Fields
  <2>5. {root.focus, root.active} \subseteq Windows \cup {Null}
    BY <2>4
  <2> QED BY <2>1, <2>2, <2>3, <2>4, <2>5, Basics DEF TypeOK
<1> QED BY <1>1, SpecKeeps, PTL

(* children_ and parent_ agree after every handler of WindowRoot and       *)
(* WindowNodeContainer: a window is among the children of its parent once  *)
(* and nowhere else.                                                       *)
THEOREM TreeStaysSound == Spec => []TreeSound
<1>1. RootInv => TreeSound
  BY Basics DEF Good, TreeOK, Linked, TreeSound, Nodes
<1> QED BY <1>1, SpecKeeps, PTL

(* The children of a node are ordered by priority_ after every handler:    *)
(* UpdateWindowTree's insertion, and the moves at the lock screen, which   *)
(* change priorities, never leave them out of order.                       *)
THEOREM SiblingsStaySorted == Spec => []SiblingsSorted
<1>1. RootInv => SiblingsSorted
  BY Basics DEF Good, TreeOK, Ordered, Sorted, SiblingsSorted, Nodes
<1> QED BY <1>1, SpecKeeps, PTL

LEMMA Drawn ==
  ASSUME RootInv
  PROVE  ZOrder(root, BottomToTop(root)) /\ TreeOK(root, {})
<1>1. TreeOK(root, {})
  BY Basics DEF Good
<1> QED BY <1>1, ZOrderOK

(* What the traversals of the tree find exists: it is in windowNodeMap_    *)
(* and both its visibilities are set, whatever was destroyed and whoever   *)
(* died before.                                                            *)
THEOREM NoGhostIsDrawn == Spec => []NoGhost
<1>1. RootInv => NoGhost
  <2> SUFFICES ASSUME RootInv, NEW w \in ToSet(BottomToTop(root))
               PROVE  w \in root.alive /\ root.requested[w] /\ root.visible[w]
    BY DEF NoGhost
  <2>1. w \in Windows /\ InT(root, w)
    BY Drawn DEF ZOrder
  <2>2. root.parent[w] # Null
    BY <2>1, RootFacts DEF InT, Top
  <2> QED BY <2>1, <2>2, Basics DEF Good, Seen, Living
<1> QED BY <1>1, SpecKeeps, PTL

(* Where a window without a caller stands. *)
LEMMA OwnTop ==
  ASSUME RootInv, NEW k \in Windows, ~ HasCaller(k), InT(root, k)
  PROVE  Top(root, k) = k /\ root.parent[k] \in Roots
<1>1. Top(root, k) = k
  BY Drawn, TopOK
<1> QED BY <1>1 DEF InT

LEMMA KeyguardPlace ==
  ASSUME RootInv, NEW k \in Windows, Type[k] = "KEYGUARD", InT(root, k)
  PROVE  Top(root, k) = k /\ root.parent[k] = "ABOVE" /\ root.prio[k] = 114 /\ root.kids[k] \in Seq(Windows)
         /\ ToSet(root.kids[k]) = {}
<1>1. ~ HasCaller(k) /\ FindRoot(k) = "ABOVE" /\ ~ Flagged(k) /\ ~ IsMainWindow(k)
  BY FlaggedFacts DEF HasCaller, IsSubWindow, FindRoot, IsAppWindow, IsMainWindow, Flagged
<1>2. Top(root, k) = k /\ root.parent[k] \in Roots
  BY <1>1, OwnTop
<1>3. root.parent[k] = "ABOVE"
  BY <1>1, <1>2, Drawn DEF TreeOK, Placed
<1>4. RankOK(k, root.prio[k])
  BY <1>2, Drawn, RootFacts DEF TreeOK, Ranked
<1>5. root.prio[k] = 114
  BY <1>1, <1>4 DEF RankOK, PriorityMap
<1>6. \A x \in Windows : root.parent[x] # k
  BY <1>1, Drawn, TypeFacts DEF TreeOK, Placed
<1>7. k \in Nodes /\ root.kids[k] \in Seq(Windows) /\ ToSet(root.kids[k]) = {x \in Windows : root.parent[x] = k}
  BY Drawn, RootFacts DEF TreeOK, Linked, States
<1> QED BY <1>2, <1>3, <1>5, <1>6, <1>7

LEMMA Outranks ==
  ASSUME RootInv, NEW x \in Windows, NEW y \in Windows, InOrder(root.kids["ABOVE"], x, y)
  PROVE  root.prio[x] <= root.prio[y] /\ root.parent[x] = "ABOVE" /\ root.parent[y] = "ABOVE"
<1>1. Sorted(root.kids["ABOVE"], root.prio) /\ ToSet(root.kids["ABOVE"]) = {w \in Windows : root.parent[w] = "ABOVE"}
  BY Drawn, RootFacts DEF TreeOK, Ordered, Linked
<1> QED BY <1>1 DEF InOrder, Sorted, ToSet

LEMMA BothDrawn ==
  ASSUME RootInv, NEW x \in Windows, NEW y \in Windows, InOrder(BottomToTop(root), x, y)
  PROVE  InT(root, x) /\ InT(root, y)
<1>1. x \in ToSet(BottomToTop(root)) /\ y \in ToSet(BottomToTop(root))
  BY DEF InOrder, ToSet
<1> QED BY <1>1, Drawn DEF ZOrder

(* A locked screen stays covered for any windows, requests and deaths: what *)
(* AddWindowNode, RaiseZOrderForAppWindow and the re-ordering leave above   *)
(* the keyguard shows when locked, belongs to such a window, or is the      *)
(* input method.                                                            *)
THEOREM KeyguardStaysOnTop == Spec => []KeyguardCovers
<1>1. RootInv => KeyguardCovers
  <2> SUFFICES ASSUME RootInv, NEW w \in Windows, NEW k \in Windows, Type[k] = "KEYGUARD", Above(root, w, k)
               PROVE  \/ Flagged(w) \/ Type[w] \in {"INPUT_METHOD_FLOAT", "KEYGUARD"}
                      \/ HasCaller(w) /\ Flagged(Caller[w])
    BY DEF KeyguardCovers
  <2> DEFINE m == Top(root, w)
  <2>1. InOrder(BottomToTop(root), k, w)
    BY DEF Above, InOrder
  <2>2. InT(root, w) /\ InT(root, k)
    BY <2>1, BothDrawn
  <2>3. Top(root, k) = k /\ root.parent[k] = "ABOVE" /\ root.prio[k] = 114 /\ ToSet(root.kids[k]) = {}
    BY <2>2, KeyguardPlace
  <2>4. \/ k = m /\ Around(root, k, k, w)
        \/ InOrder(root.kids["ABOVE"], k, m)
    <3>1. ~ Lower("ABOVE", root.parent[m])
      BY DEF Lower
    <3> QED BY <2>1, <2>3, <3>1, Drawn DEF ZOrder
  <2>5. ~ Around(root, k, k, w)
    <3>1. \A x : x \notin ToSet(root.kids[k])
      BY <2>3
    <3>2. ~ InOrder(root.kids[k], k, w)
      BY <3>1 DEF InOrder, ToSet
    <3> QED BY <3>1, <3>2 DEF Around
  <2>6. m \in Windows /\ (w # m => HasCaller(w) /\ Caller[w] = m /\ IsMainWindow(m))
    BY Drawn, TopOK
  <2>7. root.prio[m] >= 114 /\ root.parent[m] = "ABOVE"
    <3> HIDE DEF m
    <3>1. root.prio[k] <= root.prio[m] /\ root.parent[m] = "ABOVE"
      BY <2>4, <2>5, <2>6, Outranks
    <3>2. root.prio[m] \in Int
      <4>1. root.prio \in [Windows -> Ranks]
        BY Drawn, Fields DEF TreeOK
      <4> QED BY <2>6, <4>1 DEF Ranks
    <3> QED BY <2>3, <3>1, <3>2
  <2> HIDE DEF m
  <2>8. RankOK(m, root.prio[m])
    BY <2>6, <2>7, Drawn, RootFacts DEF TreeOK, Ranked
  <2>9. Flagged(m) \/ Type[m] = "INPUT_METHOD_FLOAT" \/ Type[m] = "KEYGUARD"
    <3>1. PriorityMap[Type[m]] >= 114 => Type[m] = "KEYGUARD"
      BY <2>6, TypeFacts DEF Types, PriorityMap
    <3> QED BY <2>7, <2>8, <3>1 DEF RankOK
  <2>10. CASE w = m
    BY <2>9, <2>10
  <2>11. CASE w # m
    BY <2>6, <2>9, <2>11 DEF IsMainWindow
  <2> QED BY <2>10, <2>11
<1> QED BY <1>1, SpecKeeps, PTL

(* With at most one keyguard, no window that shows when locked is left      *)
(* below it, whether it was shown before the keyguard came, arrives while   *)
(* the screen is locked, or takes over a starting window.                   *)
THEOREM ShownOverKeyguard ==
  ASSUME OneKeyguard
  PROVE  Spec => []ShownWhenLocked
<1>1. RootInv => ShownWhenLocked
  <2> SUFFICES ASSUME RootInv, NEW w \in ShowWhenLocked, NEW k \in Windows, root.locked, Type[k] = "KEYGUARD",
                      Above(root, k, w)
               PROVE  FALSE
    BY DEF ShownWhenLocked
  <2>1. w \in Windows /\ ~ HasCaller(w) /\ Type[w] = "APP_MAIN_WINDOW"
    BY FlaggedFacts
  <2>2. InOrder(BottomToTop(root), w, k)
    BY DEF Above, InOrder
  <2>3. InT(root, w) /\ InT(root, k)
    BY <2>1, <2>2, BothDrawn
  <2>4. Top(root, k) = k /\ root.parent[k] = "ABOVE" /\ root.prio[k] = 114
    BY <2>3, KeyguardPlace
  <2>5. Top(root, w) = w /\ root.parent[w] \in Roots
    BY <2>1, <2>3, OwnTop
  <2>6. root.parent[w] = "ABOVE" /\ root.prio[w] = 115
    <3>1. Over(root)
      BY DEF RootInv, LockedOK, Locks
    <3> QED BY <2>5, <3>1, RootFacts DEF Over
  <2>7. InOrder(root.kids["ABOVE"], w, k)
    <3>1. ~ Lower("ABOVE", "ABOVE") /\ w # k
      BY <2>1 DEF Lower
    <3> QED BY <2>1, <2>2, <2>4, <2>5, <2>6, <3>1, Drawn DEF ZOrder
  <2>8. root.prio[w] <= root.prio[k]
    BY <2>1, <2>7, Outranks
  <2> QED BY <2>4, <2>6, <2>8
<1> QED BY <1>1, SpecKeeps, PTL

(* Where the desktop is one window whose process does not die, and no       *)
(* dialog is shown, the active window is one that is there: the search for  *)
(* the next one, which starts below a hidden or destroyed window, always    *)
(* ends at a visible window, at last at the desktop.                        *)
THEOREM ActiveStaysVisible ==
  ASSUME Plain
  PROVE  Spec => []ActiveVisible
<1>1. RootInv => ActiveVisible
  <2> SUFFICES ASSUME RootInv PROVE ActiveVisible
    OBVIOUS
  <2>1. root.active \in Windows /\ InT(root, root.active)
    BY DEF RootInv, ActiveOK, Active
  <2>2. root.parent[root.active] # Null
    BY <2>1, RootFacts DEF InT, Top
  <2> QED BY <2>1, <2>2, Basics DEF Good, Seen, Living, ActiveVisible
<1> QED BY <1>1, SpecKeeps, PTL
=============================================================================
