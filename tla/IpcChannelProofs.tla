-------------------------- MODULE IpcChannelProofs --------------------------
(***************************************************************************)
(* What is read is what was written, for every message between the         *)
(* processes and for any bound on the posts that wait.                     *)
(*                                                                         *)
(* In order: induction over the naturals said of sets; what Present keeps  *)
(* of a list of fields and what ReadParcel does with it; Aligned, when a   *)
(* list of fields that is read fits the one that was written, and that a   *)
(* reader of aligned fields gets right values; each message of each        *)
(* interface, whose proxy and stub are aligned; the states of a call.      *)
(***************************************************************************)
EXTENDS IpcChannel, WellFoundedInduction, NaturalsInduction, SequenceTheorems, TLAPS
-----------------------------------------------------------------------------
(* A set of natural numbers has a least element. *)
LEMMA Least ==
  ASSUME NEW A \in SUBSET Nat, A # {}
  PROVE  \E x \in A : \A y \in A : x <= y
<1>1. PICK x \in A : \A y \in A : ~(<<y, x>> \in OpToRel(<, Nat))
  BY NatLessThanWellFounded, WFMin
<1>2. \A y \in A : <<y, x>> \in Nat \X Nat /\ <<y, x>>[1] = y /\ <<y, x>>[2] = x
  BY <1>1
<1>3. \A y \in A : ~(y < x)
  BY <1>1, <1>2, Zenon DEF OpToRel
<1> QED BY <1>3

(* Induction, said of sets. *)
LEMMA UpTo ==
  ASSUME NEW N \in Nat, NEW T, 0 \in T, \A n \in 0 .. N : n \in T /\ n < N => n + 1 \in T
  PROVE  0 .. N \subseteq T
<1> SUFFICES ASSUME (0 .. N) \ T # {} PROVE FALSE
  OBVIOUS
<1> DEFINE A == (0 .. N) \ T
<1>1. PICK x \in A : \A y \in A : x <= y
  <2>1. A \in SUBSET Nat /\ A # {}
    OBVIOUS
  <2> HIDE DEF A
  <2> QED BY <2>1, Least
<1>2. x # 0 /\ x - 1 \in 0 .. N /\ x - 1 < N
  BY <1>1
<1>3. x - 1 \in T
  BY <1>1, <1>2
<1>4. (x - 1) + 1 \in T
  BY <1>2, <1>3
<1> QED BY <1>1, <1>2, <1>4

(* f goes from x0 in N steps, and stays in X. *)
StaysIn(X, N, step) == \A n \in 1 .. N, x \in X : step[<<n, x>>] \in X
Goes(f, X, x0, N, step) == f \in [0 .. N -> X] /\ f[0] = x0 /\ \A n \in 1 .. N : f[n] = step[<<n, f[n - 1]>>]

(* A function that gives each value from the one before is there. *)
LEMMA Recursion ==
  ASSUME NEW X, NEW x0 \in X, NEW N \in Nat, NEW step, StaysIn(X, N, step)
  PROVE  \E f : Goes(f, X, x0, N, step)
<1> DEFINE Good(n, f) == Goes(f, X, x0, n, step)
           T == {n \in 0 .. N : \E f : Good(n, f)}
<1>1. 0 \in T
  <2>1. Good(0, [i \in 0 .. 0 |-> x0])
    BY DEF Goes
  <2>2. 0 \in 0 .. N
    OBVIOUS
  <2> HIDE DEF Good
  <2> QED BY <2>1, <2>2
<1>2. ASSUME NEW n \in 0 .. N, n \in T, n < N
      PROVE  n + 1 \in T
  <2>1. PICK f : Good(n, f)
    BY <1>2
  <2> DEFINE g == [i \in 0 .. n + 1 |-> IF i = n + 1 THEN step[<<n + 1, f[n]>>] ELSE f[i]]
  <2>2. f[n] \in X /\ n + 1 \in 1 .. N
    BY <1>2, <2>1 DEF Goes
  <2>3. step[<<n + 1, f[n]>>] \in X
    BY <2>2 DEF StaysIn
  <2>4. g \in [0 .. n + 1 -> X]
    BY <2>1, <2>3 DEF Goes
  <2>5. \A i \in 1 .. n + 1 : g[i] = step[<<i, g[i - 1]>>]
    <3> SUFFICES ASSUME NEW i \in 1 .. n + 1 PROVE g[i] = step[<<i, g[i - 1]>>]
      OBVIOUS
    <3>1. g[i - 1] = f[i - 1]
      OBVIOUS
    <3>2. CASE i = n + 1
      <4>1. g[i] = step[<<n + 1, f[n]>>] /\ i - 1 = n
        BY <3>2
      <4> QED BY <4>1, <3>1, <3>2
    <3>3. CASE i # n + 1
      <4>1. g[i] = f[i] /\ i \in 1 .. n
        BY <3>3
      <4> QED BY <4>1, <3>1, <2>1 DEF Goes
    <3> QED BY <3>2, <3>3
  <2>6. g[0] = x0
    BY <2>1 DEF Goes
  <2>7. Good(n + 1, g)
    BY <2>4, <2>5, <2>6 DEF Goes
  <2>8. n + 1 \in 0 .. N
    BY <1>2
  <2> HIDE DEF Good, g
  <2> QED BY <2>7, <2>8
<1>3. N \in T
  <2> HIDE DEF T
  <2>1. 0 .. N \subseteq T
    BY <1>1, <1>2, UpTo
  <2> QED BY <2>1
<1>4. PICK f : Good(N, f)
  <2> HIDE DEF Good
  <2> QED BY <1>3
<1> QED BY <1>4

-----------------------------------------------------------------------------
(* k gathers, field by field, those that are there. *)
Gathers(k, F, fields, given, ok) ==
    /\ k \in [0 .. Len(fields) -> Seq(F)]
    /\ k[0] = <<>>
    /\ \A i \in 1 .. Len(fields) :
         k[i] = IF There(fields[i], given, ok) THEN Append(k[i - 1], fields[i]) ELSE k[i - 1]

(* Present is the end of such a gathering. *)
LEMMA PresentOK ==
  ASSUME NEW F, NEW fields \in Seq(F), NEW given, NEW ok
  PROVE  \E k : Gathers(k, F, fields, given, ok) /\ Present(fields, given, ok) = k[Len(fields)]
<1> DEFINE N == Len(fields)
           step == [z \in (1 .. N) \X Seq(F) |->
                      IF There(fields[z[1]], given, ok) THEN Append(z[2], fields[z[1]]) ELSE z[2]]
           Kept(k) == k = [i \in 0 .. Len(fields) |->
                             IF i = 0 THEN <<>>
                             ELSE IF There(fields[i], given, ok) THEN Append(k[i - 1], fields[i]) ELSE k[i - 1]]
<1>1. N \in Nat
  OBVIOUS
<1>2. \A n \in 1 .. N, q \in Seq(F) :
        step[<<n, q>>] = IF There(fields[n], given, ok) THEN Append(q, fields[n]) ELSE q
  OBVIOUS
<1>3. StaysIn(Seq(F), N, step)
  <2> SUFFICES ASSUME NEW n \in 1 .. N, NEW q \in Seq(F) PROVE step[<<n, q>>] \in Seq(F)
    BY DEF StaysIn
  <2>1. fields[n] \in F
    OBVIOUS
  <2>2. Append(q, fields[n]) \in Seq(F)
    BY <2>1
  <2> HIDE DEF step
  <2> QED BY <1>2, <2>2
<1>4. <<>> \in Seq(F)
  OBVIOUS
<1>5. PICK f : Goes(f, Seq(F), <<>>, N, step)
  <2> HIDE DEF N, step
  <2> QED BY <1>1, <1>3, <1>4, Recursion
<1>6. \A i \in 1 .. N : f[i] = IF There(fields[i], given, ok) THEN Append(f[i - 1], fields[i]) ELSE f[i - 1]
  <2> HIDE DEF step
  <2> SUFFICES ASSUME NEW i \in 1 .. N
               PROVE  f[i] = IF There(fields[i], given, ok) THEN Append(f[i - 1], fields[i]) ELSE f[i - 1]
    OBVIOUS
  <2>1. i - 1 \in 0 .. N
    OBVIOUS
  <2>2. f[i - 1] \in Seq(F) /\ f[i] = step[<<i, f[i - 1]>>]
    <3> HIDE DEF N
    <3> QED BY <2>1, <1>5 DEF Goes
  <2> QED BY <1>2, <2>2
<1>7. Kept(f)
  <2>1. f = [i \in 0 .. N |-> f[i]] /\ f[0] = <<>>
    BY <1>5 DEF Goes
  <2>2. \A i \in 0 .. N :
          f[i] = IF i = 0 THEN <<>>
                 ELSE IF There(fields[i], given, ok) THEN Append(f[i - 1], fields[i]) ELSE f[i - 1]
    <3> HIDE DEF step, N
    <3>1. \A i \in 0 .. N : i = 0 \/ i \in 1 .. N
      BY <1>1
    <3> QED BY <1>6, <2>1, <3>1, Zenon
  <2> HIDE DEF step
  <2> QED BY <2>1, <2>2
<1>8. Kept(CHOOSE k : Kept(k))
  <2> HIDE DEF Kept
  <2> QED BY <1>7, Zenon
<1>9. PICK k : k = (CHOOSE x : Kept(x))
  OBVIOUS
<1>10. Kept(k)
  BY <1>8, <1>9
<1>11. Present(fields, given, ok) = k[Len(fields)]
  BY <1>9 DEF Present
<1>12. k[0] = <<>>
  BY <1>10
<1>13. \A i \in 1 .. N : k[i] = IF There(fields[i], given, ok) THEN Append(k[i - 1], fields[i]) ELSE k[i - 1]
  <2> SUFFICES ASSUME NEW i \in 1 .. N
               PROVE  k[i] = IF There(fields[i], given, ok) THEN Append(k[i - 1], fields[i]) ELSE k[i - 1]
    OBVIOUS
  <2>1. i \in 0 .. Len(fields) /\ i # 0
    OBVIOUS
  <2>2. \A j \in 0 .. Len(fields) :
          k[j] = IF j = 0 THEN <<>>
                 ELSE IF There(fields[j], given, ok) THEN Append(k[j - 1], fields[j]) ELSE k[j - 1]
    BY <1>10, Zenon
  <2> HIDE DEF Kept
  <2> QED BY <2>1, <2>2, Zenon
<1> DEFINE T == {i \in 0 .. N : k[i] \in Seq(F)}
<1>14. 0 \in T
  <2>1. 0 \in 0 .. N
    BY <1>1
  <2> HIDE DEF Kept, N
  <2> QED BY <2>1, <1>4, <1>12
<1>15. ASSUME NEW n \in 0 .. N, n \in T, n < N PROVE n + 1 \in T
  <2>1. n + 1 \in 1 .. N /\ n + 1 \in 0 .. N /\ (n + 1) - 1 = n
    BY <1>15
  <2>2. fields[n + 1] \in F /\ k[n] \in Seq(F)
    BY <1>15, <2>1
  <2>3. k[n + 1] = IF There(fields[n + 1], given, ok) THEN Append(k[n], fields[n + 1]) ELSE k[n]
    <3> HIDE DEF Kept
    <3> QED BY <1>13, <2>1
  <2>4. k[n + 1] \in Seq(F)
    BY <2>2, <2>3
  <2> QED BY <2>1, <2>4
<1>16. 0 .. N \subseteq T
  <2> HIDE DEF T
  <2> QED BY <1>1, <1>14, <1>15, UpTo
<1>17. k \in [0 .. N -> Seq(F)]
  <2>1. k = [i \in 0 .. N |-> k[i]]
    BY <1>10
  <2>2. \A i \in 0 .. N : k[i] \in Seq(F)
    BY <1>16
  <2> HIDE DEF Kept
  <2> QED BY <2>1, <2>2
<1> QED
  <2> HIDE DEF Kept
  <2> QED BY <1>11, <1>12, <1>13, <1>17 DEF Gathers

(* What is gathered first stays in front. *)
LEMMA GatheredFirst ==
  ASSUME NEW F, NEW fields \in Seq(F), NEW given, NEW ok, NEW k, Gathers(k, F, fields, given, ok),
         NEW i \in 0 .. Len(fields)
  PROVE  LET all == k[Len(fields)] IN Len(k[i]) <= Len(all) /\ \A j \in 1 .. Len(k[i]) : all[j] = k[i][j]
<1> DEFINE N == Len(fields)
           First(n) == Len(k[i]) <= Len(k[n]) /\ \A j \in 1 .. Len(k[i]) : k[n][j] = k[i][j]
           T == {n \in 0 .. N : i <= n => First(n)}
<1>1. N \in Nat /\ \A n \in 0 .. N : k[n] \in Seq(F) /\ Len(k[n]) \in Nat
  BY DEF Gathers
<1>2. \A n \in 0 .. N : n = i => First(n)
  BY <1>1
<1>3. 0 \in T
  BY <1>1, <1>2
<1>4. ASSUME NEW n \in 0 .. N, n \in T, n < N PROVE n + 1 \in T
  <2>1. n + 1 \in 1 .. N /\ n + 1 \in 0 .. N /\ (n + 1) - 1 = n
    BY <1>4
  <2>2. fields[n + 1] \in F
    BY <2>1
  <2>3. k[n + 1] = IF There(fields[n + 1], given, ok) THEN Append(k[n], fields[n + 1]) ELSE k[n]
    BY <2>1 DEF Gathers
  <2>4. CASE i <= n
    <3>1. First(n)
      BY <1>4, <2>4
    <3>2. Len(k[n + 1]) >= Len(k[n]) /\ \A j \in 1 .. Len(k[n]) : k[n + 1][j] = k[n][j]
      BY <1>1, <2>2, <2>3
    <3> QED BY <3>1, <3>2, <2>1, <1>1
  <2>5. CASE ~(i <= n)
    <3>1. i <= n + 1 => First(n + 1)
      BY <1>2, <2>1, <2>5
    <3> QED BY <3>1, <2>1
  <2> QED BY <2>4, <2>5
<1>5. N \in T
  <2> HIDE DEF T
  <2>1. 0 .. N \subseteq T
    BY <1>1, <1>3, <1>4, UpTo
  <2> QED BY <1>1, <2>1
<1> QED BY <1>5

(* What reading a field does to what was read. *)
FieldRead(parcel, x, f) ==
  LET here == x.at <= Len(parcel) /\ parcel[x.at].kind = f.kind
      after == ReadField(parcel, x, f)
  IN  /\ here => after = [at |-> x.at + 1, got |-> Append(x.got, <<f.name, parcel[x.at].name>>)]
      /\ ~here /\ f.kind = "object" => after = [at |-> x.at, got |-> Append(x.got, <<f.name, "null">>)]
      /\ ~here /\ f.kind # "object" => after = [at |-> x.at + 1, got |-> Append(x.got, <<f.name, "garbage">>)]

LEMMA ReadFieldOK ==
  ASSUME NEW Y, NEW x \in [at : Nat \ {0}, got : Seq(Y)], NEW parcel, NEW f
  PROVE  FieldRead(parcel, x, f)
<1> DEFINE here == x.at <= Len(parcel) /\ parcel[x.at].kind = f.kind
<1>1. here => ReadField(parcel, x, f) = [at |-> x.at + 1, got |-> Append(x.got, <<f.name, parcel[x.at].name>>)]
  BY Zenon DEF ReadField
<1>2. ~here /\ f.kind # "object"
        => ReadField(parcel, x, f) = [at |-> x.at + 1, got |-> Append(x.got, <<f.name, "garbage">>)]
  BY Zenon DEF ReadField
<1>3. ~here /\ f.kind = "object"
        => ReadField(parcel, x, f) = [x EXCEPT !.got = Append(x.got, <<f.name, "null">>)]
  BY Zenon DEF ReadField
<1>4. \A y : [x EXCEPT !.got = y] = [at |-> x.at, got |-> y]
  OBVIOUS
<1> QED BY <1>1, <1>2, <1>3, <1>4, Zenon DEF FieldRead

(* r reads the parcel, field by field. *)
Got(parcel, fields) ==
    {fields[i].name : i \in 1 .. Len(fields)}
      \X ({"null", "garbage"} \cup {parcel[j].name : j \in 1 .. Len(parcel)})
Reading(r, parcel, fields) ==
    /\ r \in [0 .. Len(fields) -> [at : Nat \ {0}, got : Seq(Got(parcel, fields))]]
    /\ r[0] = [at |-> 1, got |-> <<>>]
    /\ \A i \in 1 .. Len(fields) : r[i] = ReadField(parcel, r[i - 1], fields[i])

(* ReadParcel is the end of such a reading. *)
LEMMA ReadOK ==
  ASSUME NEW F, NEW fields \in Seq(F), NEW parcel \in Seq(F)
  PROVE  \E r : Reading(r, parcel, fields) /\ ReadParcel(parcel, fields) = r[Len(fields)].got
<1> DEFINE N == Len(fields)
           X == [at : Nat \ {0}, got : Seq(Got(parcel, fields))]
           x0 == [at |-> 1, got |-> <<>>]
           step == [z \in (1 .. N) \X X |-> ReadField(parcel, z[2], fields[z[1]])]
           Read(r) == r = [i \in 0 .. Len(fields) |->
                             IF i = 0 THEN [at |-> 1, got |-> <<>>]
                             ELSE ReadField(parcel, r[i - 1], fields[i])]
<1>1. N \in Nat /\ x0 \in X
  OBVIOUS
<1>2. \A n \in 1 .. N, x \in X : step[<<n, x>>] = ReadField(parcel, x, fields[n])
  <2> HIDE DEF X
  <2> QED OBVIOUS
<1>3. \A n \in 1 .. N, x \in X : ReadField(parcel, x, fields[n]) \in X
  <2> SUFFICES ASSUME NEW n \in 1 .. N, NEW x \in X PROVE ReadField(parcel, x, fields[n]) \in X
    OBVIOUS
  <2> DEFINE f == fields[n]
  <2>1. x.at \in Nat \ {0} /\ x.got \in Seq(Got(parcel, fields))
    OBVIOUS
  <2>2. x.at <= Len(parcel) => x.at \in 1 .. Len(parcel)
    BY <2>1
  <2>3. f.name \in {fields[i].name : i \in 1 .. Len(fields)}
    OBVIOUS
  <2>4. /\ <<f.name, "null">> \in Got(parcel, fields)
        /\ <<f.name, "garbage">> \in Got(parcel, fields)
        /\ \A j \in 1 .. Len(parcel) : <<f.name, parcel[j].name>> \in Got(parcel, fields)
    BY <2>3 DEF Got
  <2>5. \A y \in Got(parcel, fields) :
          /\ [at |-> x.at, got |-> Append(x.got, y)] \in X
          /\ [at |-> x.at + 1, got |-> Append(x.got, y)] \in X
    BY <2>1
  <2>6. FieldRead(parcel, x, f)
    <3> HIDE DEF f
    <3> QED BY ReadFieldOK
  <2> HIDE DEF X, f
  <2>7. ReadField(parcel, x, f) \in X
    BY <2>2, <2>4, <2>5, <2>6 DEF FieldRead
  <2> QED BY <2>7 DEF f
<1>4. StaysIn(X, N, step)
  <2> HIDE DEF X, step
  <2> QED BY <1>2, <1>3 DEF StaysIn
<1>5. PICK g : Goes(g, X, x0, N, step)
  <2> HIDE DEF N, X, x0, step
  <2> QED BY <1>1, <1>4, Recursion
<1>6. \A i \in 1 .. N : g[i - 1] \in X /\ g[i] = ReadField(parcel, g[i - 1], fields[i])
  <2> SUFFICES ASSUME NEW i \in 1 .. N PROVE g[i - 1] \in X /\ g[i] = ReadField(parcel, g[i - 1], fields[i])
    OBVIOUS
  <2>1. i - 1 \in 0 .. N
    OBVIOUS
  <2> HIDE DEF N, X, step
  <2> QED BY <2>1, <1>2, <1>5 DEF Goes
<1>7. Read(g)
  <2>1. g = [i \in 0 .. N |-> g[i]] /\ g[0] = x0
    <3> HIDE DEF N, X, x0, step
    <3> QED BY <1>5 DEF Goes
  <2>2. \A i \in 0 .. N : g[i] = IF i = 0 THEN x0 ELSE ReadField(parcel, g[i - 1], fields[i])
    <3> SUFFICES ASSUME NEW i \in 0 .. N
                 PROVE  g[i] = IF i = 0 THEN x0 ELSE ReadField(parcel, g[i - 1], fields[i])
      OBVIOUS
    <3>1. i # 0 => i \in 1 .. N
      OBVIOUS
    <3> HIDE DEF step, X, x0, N
    <3> QED BY <1>6, <2>1, <3>1, Zenon
  <2> HIDE DEF step, X
  <2> QED BY <2>1, <2>2
<1>8. Read(CHOOSE r : Read(r))
  <2> HIDE DEF Read
  <2> QED BY <1>7, Zenon
<1>9. PICK r : r = (CHOOSE x : Read(x))
  OBVIOUS
<1>10. Read(r)
  BY <1>8, <1>9
<1>11. ReadParcel(parcel, fields) = r[N].got
  BY <1>9 DEF ReadParcel
<1>12. \A j \in 0 .. N : r[j] = IF j = 0 THEN x0 ELSE ReadField(parcel, r[j - 1], fields[j])
  BY <1>10, Zenon
<1>13. r = [i \in 0 .. N |-> r[i]]
  BY <1>10
<1> HIDE DEF Read
<1>14. r[0] = x0
  BY <1>1, <1>12
<1>15. \A i \in 1 .. N : r[i] = ReadField(parcel, r[i - 1], fields[i])
  <2> SUFFICES ASSUME NEW i \in 1 .. N PROVE r[i] = ReadField(parcel, r[i - 1], fields[i])
    OBVIOUS
  <2>1. i \in 0 .. N /\ i # 0
    OBVIOUS
  <2> QED BY <2>1, <1>12, Zenon
<1> DEFINE T == {i \in 0 .. N : r[i] \in X}
<1>16. 0 \in T
  <2> HIDE DEF N, X, x0
  <2> QED BY <1>1, <1>14
<1>17. ASSUME NEW n \in 0 .. N, n \in T, n < N PROVE n + 1 \in T
  <2>1. n + 1 \in 1 .. N /\ n + 1 \in 0 .. N /\ (n + 1) - 1 = n
    BY <1>17
  <2> HIDE DEF N, X
  <2> QED BY <2>1, <1>3, <1>15, <1>17
<1>18. 0 .. N \subseteq T
  <2> HIDE DEF T, N
  <2> QED BY <1>1, <1>16, <1>17, UpTo
<1>19. r \in [0 .. N -> X]
  <2> HIDE DEF N, X
  <2> QED BY <1>13, <1>18
<1> QED BY <1>11, <1>14, <1>15, <1>19 DEF Reading

-----------------------------------------------------------------------------
(* r, the fields that are read, fits w, the fields that are written: the same
   fields in the same order. Three differences do no harm: an object that may be
   left out, when what follows it is there and is no object; and, at the end of r,
   fields that are read only when the method succeeded and always written.     *)
Items(q) == {q[i] : i \in 1 .. Len(q)}
IsList(q) == q \in Seq(Items(q))
Aligned(w, r) ==
    /\ IsList(w) /\ IsList(r) /\ Len(w) = Len(r)
    /\ \A i \in 1 .. Len(r) :
         /\ w[i].kind = r[i].kind /\ w[i].name = r[i].name
         /\ \/ w[i].when = r[i].when
            \/ /\ w[i].when = "given" /\ r[i].when = "always" /\ r[i].kind = "object"
               /\ i < Len(r) => w[i + 1].when = "always" /\ w[i + 1].kind # "object"
            \/ /\ w[i].when = "always" /\ \A j \in i .. Len(r) : r[j].when = "ok"

LEMMA SameAligned == ASSUME NEW w, IsList(w) PROVE Aligned(w, w)
BY DEF Aligned

(* Who reads fields that fit those written gets the right values. *)
LEMMA AlignedRead ==
  ASSUME NEW w, NEW r, Aligned(w, r), NEW given, NEW ok
  PROVE  RightValues(ReadParcel(Present(w, given, ok), Present(r, given, ok)), given)
<1> DEFINE N == Len(w)
           F == Items(w) \cup Items(r)
<1>1. /\ w \in Seq(F) /\ r \in Seq(F) /\ N \in Nat /\ Len(w) = N /\ Len(r) = N
      /\ \A i \in 1 .. N : w[i] \in F /\ r[i] \in F
  <2>1. w \in Seq(Items(w)) /\ r \in Seq(Items(r)) /\ Len(r) = N
    BY DEF Aligned, IsList
  <2>2. w \in Seq(F) /\ r \in Seq(F)
    <3> HIDE DEF N
    <3>1. \A A, B : \A q \in Seq(A) : A \subseteq B => q \in Seq(B)
      OBVIOUS
    <3> QED BY <2>1, <3>1
  <2> HIDE DEF F
  <2> QED BY <2>1, <2>2
<1> HIDE DEF N, F
<1>2. PICK kw : Gathers(kw, F, w, given, ok) /\ Present(w, given, ok) = kw[N]
  BY <1>1, PresentOK
<1>3. PICK kr : Gathers(kr, F, r, given, ok) /\ Present(r, given, ok) = kr[N]
  BY <1>1, PresentOK
<1> DEFINE Q == kw[N]
           R == kr[N]
           M == Len(R)
<1>4. /\ \A i \in 0 .. N : kw[i] \in Seq(F) /\ kr[i] \in Seq(F)
      /\ \A i \in 0 .. N : Len(kw[i]) \in Nat /\ Len(kr[i]) \in Nat
      /\ kw[0] = <<>> /\ kr[0] = <<>>
      /\ Q \in Seq(F) /\ R \in Seq(F) /\ Len(Q) \in Nat /\ M \in Nat
  <2>1. kw \in [0 .. N -> Seq(F)] /\ kr \in [0 .. N -> Seq(F)] /\ kw[0] = <<>> /\ kr[0] = <<>>
    BY <1>1, <1>2, <1>3 DEF Gathers
  <2>2. N \in 0 .. N
    BY <1>1
  <2>3. \A i \in 0 .. N : kw[i] \in Seq(F) /\ kr[i] \in Seq(F)
    BY <2>1
  <2>4. \A q \in Seq(F) : Len(q) \in Nat
    OBVIOUS
  <2> QED BY <2>1, <2>2, <2>3, <2>4
<1>5. \A i \in 0 .. N : Len(kw[i]) <= Len(Q) /\ \A j \in 1 .. Len(kw[i]) : Q[j] = kw[i][j]
  BY <1>1, <1>2, GatheredFirst
<1>6. \A i \in 0 .. N : Len(kr[i]) <= M /\ \A j \in 1 .. Len(kr[i]) : R[j] = kr[i][j]
  BY <1>1, <1>3, GatheredFirst
<1>7. PICK rd : Reading(rd, Q, R) /\ ReadParcel(Q, R) = rd[M].got
  BY <1>4, ReadOK
<1> HIDE DEF Q, R, M
<1>8. \A i \in 1 .. N :
        /\ There(w[i], given, ok) => Len(kw[i]) = Len(kw[i - 1]) + 1 /\ Q[Len(kw[i])] = w[i]
        /\ ~There(w[i], given, ok) => kw[i] = kw[i - 1]
  <2> SUFFICES ASSUME NEW i \in 1 .. N
               PROVE  /\ There(w[i], given, ok) => Len(kw[i]) = Len(kw[i - 1]) + 1 /\ Q[Len(kw[i])] = w[i]
                      /\ ~There(w[i], given, ok) => kw[i] = kw[i - 1]
    OBVIOUS
  <2>1. i \in 0 .. N /\ i - 1 \in 0 .. N
    BY <1>1
  <2>2. kw[i] = IF There(w[i], given, ok) THEN Append(kw[i - 1], w[i]) ELSE kw[i - 1]
    BY <1>1, <1>2 DEF Gathers
  <2>3. ASSUME There(w[i], given, ok) PROVE Len(kw[i]) = Len(kw[i - 1]) + 1 /\ Q[Len(kw[i])] = w[i]
    <3>1. kw[i] = Append(kw[i - 1], w[i]) /\ kw[i - 1] \in Seq(F) /\ w[i] \in F
      BY <1>1, <1>4, <2>1, <2>2, <2>3
    <3>2. Len(kw[i]) = Len(kw[i - 1]) + 1 /\ kw[i][Len(kw[i - 1]) + 1] = w[i]
      BY <3>1
    <3>3. Len(kw[i]) \in 1 .. Len(kw[i])
      BY <1>4, <2>1, <3>2
    <3>4. Q[Len(kw[i])] = kw[i][Len(kw[i])]
      BY <1>5, <2>1, <3>3
    <3> QED BY <3>2, <3>4
  <2> QED BY <2>2, <2>3
<1>9. \A i \in 1 .. N :
        /\ There(r[i], given, ok) => Len(kr[i]) = Len(kr[i - 1]) + 1 /\ R[Len(kr[i])] = r[i]
        /\ ~There(r[i], given, ok) => kr[i] = kr[i - 1]
  <2> SUFFICES ASSUME NEW i \in 1 .. N
               PROVE  /\ There(r[i], given, ok) => Len(kr[i]) = Len(kr[i - 1]) + 1 /\ R[Len(kr[i])] = r[i]
                      /\ ~There(r[i], given, ok) => kr[i] = kr[i - 1]
    OBVIOUS
  <2>1. i \in 0 .. N /\ i - 1 \in 0 .. N
    BY <1>1
  <2>2. kr[i] = IF There(r[i], given, ok) THEN Append(kr[i - 1], r[i]) ELSE kr[i - 1]
    BY <1>1, <1>3 DEF Gathers
  <2>3. ASSUME There(r[i], given, ok) PROVE Len(kr[i]) = Len(kr[i - 1]) + 1 /\ R[Len(kr[i])] = r[i]
    <3>1. kr[i] = Append(kr[i - 1], r[i]) /\ kr[i - 1] \in Seq(F) /\ r[i] \in F
      BY <1>1, <1>4, <2>1, <2>2, <2>3
    <3>2. Len(kr[i]) = Len(kr[i - 1]) + 1 /\ kr[i][Len(kr[i - 1]) + 1] = r[i]
      BY <3>1
    <3>3. Len(kr[i]) \in 1 .. Len(kr[i])
      BY <1>4, <2>1, <3>2
    <3>4. R[Len(kr[i])] = kr[i][Len(kr[i])]
      BY <1>6, <2>1, <3>3
    <3> QED BY <3>2, <3>4
  <2> QED BY <2>2, <2>3
<1> DEFINE Y == Got(Q, R)
           Right(got) == RightValues(got, given)
<1>10. /\ \A m \in 0 .. M : rd[m] \in [at : Nat \ {0}, got : Seq(Y)]
       /\ rd[0] = [at |-> 1, got |-> <<>>]
       /\ \A m \in 1 .. M : rd[m] = ReadField(Q, rd[m - 1], R[m])
  BY <1>7 DEF Reading, M
<1>11. \A got \in Seq(Y) : \A n, v :
         Right(got) /\ (v = n \/ (v = "null" /\ n \notin given)) => Right(Append(got, <<n, v>>))
  <2> SUFFICES ASSUME NEW got \in Seq(Y), NEW n, NEW v, Right(got), v = n \/ (v = "null" /\ n \notin given),
                      NEW i \in 1 .. Len(Append(got, <<n, v>>))
               PROVE  LET g == Append(got, <<n, v>>) IN g[i][2] = g[i][1] \/ (g[i][2] = "null" /\ g[i][1] \notin given)
    BY DEF RightValues
  <2>1. CASE i \in 1 .. Len(got)
    <3>1. Append(got, <<n, v>>)[i] = got[i]
      BY <2>1
    <3> QED BY <2>1, <3>1 DEF RightValues
  <2>2. CASE i = Len(got) + 1
    <3>1. Append(got, <<n, v>>)[i] = <<n, v>>
      BY <2>2
    <3> QED BY <3>1
  <2>3. Len(got) \in Nat /\ Len(Append(got, <<n, v>>)) = Len(got) + 1
    OBVIOUS
  <2> QED BY <2>1, <2>2, <2>3
(* after the first i fields, those there have been read from those written *)
<1> DEFINE Over(i) == \A j \in i + 1 .. N : ~There(r[j], given, ok)
           Read(i) == /\ Right(rd[Len(kr[i])].got)
                      /\ rd[Len(kr[i])].at = Len(kw[i]) + 1 \/ Over(i)
           T == {i \in 0 .. N : Read(i)}
<1>12. 0 \in T
  <2>1. Len(kr[0]) = 0 /\ Len(kw[0]) = 0 /\ Right(<<>>)
    BY <1>4 DEF RightValues
  <2>2. rd[0].at = 1 /\ rd[0].got = <<>>
    BY <1>10
  <2> HIDE DEF Right
  <2> QED BY <1>1, <2>1, <2>2
<1>13. ASSUME NEW n \in 0 .. N, n \in T, n < N PROVE n + 1 \in T
  <2> DEFINE i == n + 1
             m == Len(kr[n])
             wt == There(w[i], given, ok)
             rt == There(r[i], given, ok)
  <2>1. i \in 1 .. N /\ i \in 0 .. N /\ i - 1 = n
    BY <1>1, <1>13
  <2>2. Read(n)
    BY <1>13
  <2>3. m \in 0 .. M /\ rd[m] \in [at : Nat \ {0}, got : Seq(Y)] /\ rd[m].got \in Seq(Y)
    BY <1>4, <1>6, <1>10
  <2> HIDE DEF i, Right
  <2>4. SUFFICES Read(i)
    BY <2>1 DEF i
  <2>5. CASE ~rt
    <3>1. kr[i] = kr[n]
      BY <1>9, <2>1, <2>5
    <3>2. Over(n) => Over(i)
      BY <1>1, <2>1
    <3>3. wt => Over(i)
      <4> SUFFICES ASSUME wt PROVE Over(i)
        OBVIOUS
      <4>1. \A j \in i .. N : r[j].when = "ok"
        BY <1>1, <2>1, <2>5 DEF Aligned, There
      <4>2. ~ok
        BY <4>1, <1>1, <2>1, <2>5 DEF There
      <4> QED BY <4>1, <4>2, <1>1, <2>1 DEF There
    <3>4. ~wt => Len(kw[i]) = Len(kw[n])
      BY <1>8, <2>1
    <3> QED BY <2>2, <3>1, <3>2, <3>3, <3>4
  <2>6. CASE rt
    <3>1. Len(kr[i]) = m + 1 /\ R[m + 1] = r[i] /\ m + 1 \in 1 .. M
      <4>1. Len(kr[i]) = m + 1 /\ R[m + 1] = r[i]
        BY <1>9, <2>1, <2>6
      <4>2. Len(kr[i]) <= M /\ m \in Nat /\ M \in Nat
        BY <1>4, <1>6, <2>1
      <4> HIDE DEF m
      <4> QED BY <4>1, <4>2
    <3>2. ~Over(n)
      BY <1>1, <2>1, <2>6
    <3>3. rd[m].at = Len(kw[n]) + 1
      BY <2>2, <3>2
    <3>4. rd[m + 1] = ReadField(Q, rd[m], r[i])
      <4> HIDE DEF m
      <4>1. (m + 1) - 1 = m
        BY <2>3
      <4>2. rd[m + 1] = ReadField(Q, rd[(m + 1) - 1], R[m + 1])
        BY <1>10, <3>1
      <4> QED BY <3>1, <4>1, <4>2, Zenon
    <3>5. FieldRead(Q, rd[m], r[i])
      <4> HIDE DEF m, Y
      <4>1. rd[m] \in [at : Nat \ {0}, got : Seq(Y)]
        BY <2>3
      <4> QED BY <4>1, ReadFieldOK
    <3> HIDE DEF m
    <3>6. CASE wt
      <4>1. Len(kw[i]) = Len(kw[n]) + 1 /\ Q[Len(kw[n]) + 1] = w[i] /\ Len(kw[n]) + 1 <= Len(Q)
        BY <1>4, <1>5, <1>8, <2>1, <3>6
      <4>2. w[i].kind = r[i].kind /\ w[i].name = r[i].name
        BY <1>1, <2>1 DEF Aligned
      <4>3. rd[m + 1] = [at |-> rd[m].at + 1, got |-> Append(rd[m].got, <<r[i].name, w[i].name>>)]
        BY <3>3, <3>4, <3>5, <4>1, <4>2 DEF FieldRead
      <4>4. rd[m + 1].got = Append(rd[m].got, <<r[i].name, w[i].name>>) /\ rd[m + 1].at = rd[m].at + 1
        BY <4>3
      <4>5. Right(rd[m].got)
        BY <2>2 DEF m
      <4>6. Right(rd[m + 1].got)
        BY <1>11, <2>3, <4>2, <4>4, <4>5
      <4> QED BY <3>1, <3>3, <4>1, <4>4, <4>6
    <3>7. CASE ~wt
      <4>1. /\ r[i].kind = "object" /\ w[i].when = "given" /\ w[i].name = r[i].name
            /\ i < N => w[i + 1].when = "always" /\ w[i + 1].kind # "object"
        BY <1>1, <2>1, <2>6, <3>7 DEF Aligned, There
      <4>2. r[i].name \notin given
        BY <4>1, <3>7 DEF There
      <4>3. kw[i] = kw[n]
        BY <1>8, <2>1, <3>7
      <4>4. Len(kw[n]) + 1 <= Len(Q) => Q[Len(kw[n]) + 1].kind # "object"
        <5>1. CASE i = N
          BY <1>4, <4>3, <5>1, <2>1 DEF Q
        <5>2. CASE i < N
          <6>1. i + 1 \in 1 .. N /\ (i + 1) - 1 = i
            BY <1>1, <2>1, <5>2
          <6>2. There(w[i + 1], given, ok)
            BY <4>1, <5>2 DEF There
          <6>3. Len(kw[i + 1]) = Len(kw[i]) + 1 /\ Q[Len(kw[i + 1])] = w[i + 1]
            BY <1>8, <6>1, <6>2
          <6> QED BY <4>1, <4>3, <5>2, <6>3
        <5> QED BY <1>1, <2>1, <5>1, <5>2
      <4>5. rd[m + 1] = [at |-> rd[m].at, got |-> Append(rd[m].got, <<r[i].name, "null">>)]
        BY <3>3, <3>4, <3>5, <4>1, <4>4 DEF FieldRead
      <4>6. rd[m + 1].got = Append(rd[m].got, <<r[i].name, "null">>) /\ rd[m + 1].at = rd[m].at
        BY <4>5
      <4>7. Right(rd[m].got)
        BY <2>2 DEF m
      <4>8. Right(rd[m + 1].got)
        BY <1>11, <2>3, <4>2, <4>6, <4>7
      <4> QED BY <3>1, <3>3, <4>3, <4>6, <4>8
    <3> QED BY <3>6, <3>7
  <2> QED BY <2>5, <2>6
<1>14. N \in T
  <2> HIDE DEF T
  <2>1. 0 .. N \subseteq T
    BY <1>1, <1>12, <1>13, UpTo
  <2> QED BY <1>1, <2>1
<1>15. Right(rd[M].got)
  <2>1. Len(kr[N]) = M
    BY DEF M, R
  <2> HIDE DEF Right, Over
  <2> QED BY <1>14, <2>1
<1> QED BY <1>2, <1>3, <1>7, <1>15 DEF Q, R

-----------------------------------------------------------------------------
(* Sequences of fields. *)
LEMMA WordsOK == ASSUME NEW names, IsList(names) PROVE IsList(Words(names)) /\ Len(Words(names)) = Len(names)
<1>1. Len(names) \in Nat
  BY DEF IsList
<1>2. Len(Words(names)) = Len(names)
  BY <1>1 DEF Words
<1> QED BY <1>1, <1>2 DEF IsList, Items, Words

LEMMA Lists ==
  /\ IsList(<<>>)
  /\ \A a1 : IsList(<<a1>>)
  /\ \A a1, a2 : IsList(<<a1, a2>>)
  /\ \A a1, a2, a3 : IsList(<<a1, a2, a3>>)
  /\ \A a1, a2, a3, a4 : IsList(<<a1, a2, a3, a4>>)
  /\ \A a1, a2, a3, a4, a5 : IsList(<<a1, a2, a3, a4, a5>>)
  /\ \A a1, a2, a3, a4, a5, a6 : IsList(<<a1, a2, a3, a4, a5, a6>>)
  /\ \A a1, a2, a3, a4, a5, a6, a7 : IsList(<<a1, a2, a3, a4, a5, a6, a7>>)
BY DEF IsList, Items

LEMMA LongLists ==
  /\ \A a1, a2, a3, a4, a5, a6, a7, a8, a9, a10 :
       IsList(<<a1, a2, a3, a4, a5, a6, a7, a8, a9, a10>>)
  /\ \A a1, a2, a3, a4, a5, a6, a7, a8, a9, a10, a11, a12 :
       IsList(<<a1, a2, a3, a4, a5, a6, a7, a8, a9, a10, a11, a12>>)
  /\ \A a1, a2, a3, a4, a5, a6, a7, a8, a9, a10, a11, a12, a13, a14, a15, a16 :
       IsList(<<a1, a2, a3, a4, a5, a6, a7, a8, a9, a10, a11, a12, a13, a14, a15, a16>>)
BY DEF IsList, Items

LEMMA ListOK == ASSUME NEW F, NEW q \in Seq(F) PROVE IsList(q)
<1>1. \A i \in 1 .. Len(q) : q[i] \in Items(q)
  BY DEF Items
<1>2. Len(q) \in Nat
  OBVIOUS
<1> QED BY <1>1, <1>2 DEF IsList

LEMMA JoinOK == ASSUME NEW a, NEW b, IsList(a), IsList(b) PROVE IsList(a \o b)
<1> DEFINE F == Items(a) \cup Items(b)
<1>1. a \in Seq(Items(a)) /\ b \in Seq(Items(b))
  BY DEF IsList
<1>2. a \in Seq(F) /\ b \in Seq(F)
  <2>1. \A A, B : \A q \in Seq(A) : A \subseteq B => q \in Seq(B)
    OBVIOUS
  <2> QED BY <1>1, <2>1
<1>3. a \o b \in Seq(F)
  <2> HIDE DEF F
  <2> QED BY <1>2, ConcatProperties
<1> QED BY <1>3, ListOK

(* The case c of the stub does what the proxy p asks for. SETBOUNDS swaps two
   arguments.                                                                  *)
Answers(p, c) ==
    /\ c.method = p.method
    /\ c.code # "SETBOUNDS" => Aligned(p.args, c.args)
    /\ Aligned(c.results, p.results)
Pair(p, c, code) == p.code = code /\ c.code = code /\ Answers(p, c)

LEMMA CallParts ==
  ASSUME NEW method, NEW code, NEW args, NEW results
  PROVE  /\ \A p \in {Call(method, code, args, results), [Call(method, code, args, results) EXCEPT !.waits = FALSE]} :
              p.method = method /\ p.code = code /\ p.args = args /\ p.results = results
         /\ \A p \in {Tell(method, code, args), Post(method, code, args)} :
              p.method = method /\ p.code = code /\ p.args = args /\ p.results = <<>>
BY DEF Call, Tell, Post

LEMMA CaseParts ==
  ASSUME NEW method, NEW code, NEW args, NEW results, NEW c, c = Case(code, args, method, results)
  PROVE  c.method = method /\ c.code = code /\ c.args = args /\ c.results = results
BY DEF Case

LEMMA CallFits ==
  ASSUME NEW method, NEW code, NEW args, NEW results, NEW read, NEW replied,
         Aligned(args, read), Aligned(replied, results)
  PROVE  /\ Pair(Call(method, code, args, results), Case(code, read, method, replied), code)
         /\ Pair([Call(method, code, args, results) EXCEPT !.waits = FALSE], Case(code, read, method, replied), code)
         /\ Pair(Tell(method, code, args), Case(code, read, method, <<>>), code)
         /\ Pair(Post(method, code, args), Case(code, read, method, <<>>), code)
<1>1. Aligned(<<>>, <<>>)
  BY Lists, SameAligned
<1>2. \A r : LET c == Case(code, read, method, r)
             IN  c.method = method /\ c.code = code /\ c.args = read /\ c.results = r
  BY CaseParts
<1>3. /\ \A p \in {Call(method, code, args, results), [Call(method, code, args, results) EXCEPT !.waits = FALSE]} :
           p.method = method /\ p.code = code /\ p.args = args /\ p.results = results
      /\ \A p \in {Tell(method, code, args), Post(method, code, args)} :
           p.method = method /\ p.code = code /\ p.args = args /\ p.results = <<>>
  BY CallParts
<1> QED BY <1>1, <1>2, <1>3 DEF Pair, Answers

(* A case with the fields of its proxy, in their order. *)
LEMMA CallAnswered ==
  ASSUME NEW method, NEW code, NEW args, NEW results, IsList(args), IsList(results)
  PROVE  /\ Pair(Call(method, code, args, results), Case(code, args, method, results), code)
         /\ Pair([Call(method, code, args, results) EXCEPT !.waits = FALSE], Case(code, args, method, results), code)
         /\ Pair(Tell(method, code, args), Case(code, args, method, <<>>), code)
         /\ Pair(Post(method, code, args), Case(code, args, method, <<>>), code)
BY SameAligned, CallFits

(* The token of a focus change is left out when it is null, and read all the same. *)
LEMMA FocusAnswered == Pair(ProxyUpdateFocusChangeInfo, StubUpdateFocusChangeInfo, "UPDATE_FOCUS")
<1> DEFINE w == <<P("info"), Opt(O("abilityToken")), W("focused")>>
           r == <<P("info"), O("abilityToken"), W("focused")>>
<1>1. Aligned(w, r)
  <2>1. IsList(w) /\ IsList(r) /\ Len(w) = 3 /\ Len(r) = 3
    BY DEF IsList, Items
  <2>2. \A i \in 1 .. 3 : w[i].kind = r[i].kind /\ w[i].name = r[i].name
    BY DEF P, Opt, O, W, Field
  <2>3. /\ w[1].when = r[1].when /\ w[3].when = r[3].when /\ w[2].when = "given" /\ r[2].when = "always"
        /\ r[2].kind = "object" /\ w[3].when = "always" /\ w[3].kind # "object"
    BY DEF P, Opt, O, W, Field
  <2>4. 1 .. 3 = {1, 2, 3} /\ 2 + 1 = 3
    OBVIOUS
  <2> HIDE DEF w, r
  <2> QED BY <2>4,  <2>1, <2>2, <2>3 DEF Aligned
<1>2. Aligned(<<>>, <<>>)
  BY Lists, SameAligned
<1> QED BY <1>1, <1>2, CallFits DEF ProxyUpdateFocusChangeInfo, StubUpdateFocusChangeInfo

(* So are the token of a dialog's target and the agent of a virtual screen, the
   last field of their messages.                                               *)
LEMMA DialogTargetAnswered == Pair(ProxyBindDialogTarget, StubBindDialogTarget, "BIND_DIALOG_TARGET")
<1> DEFINE w == <<W("windowId"), Opt(O("targetToken"))>>
           r == <<W("windowId"), O("targetToken")>>
<1>1. Aligned(w, r)
  <2>1. IsList(w) /\ IsList(r) /\ Len(w) = 2 /\ Len(r) = 2
    BY DEF IsList, Items
  <2>2. \A i \in 1 .. 2 : w[i].kind = r[i].kind /\ w[i].name = r[i].name
    BY DEF Opt, O, W, Field
  <2>3. /\ w[1].when = r[1].when /\ w[2].when = "given" /\ r[2].when = "always" /\ r[2].kind = "object"
    BY DEF Opt, O, W, Field
  <2> HIDE DEF w, r
  <2> QED BY <2>1, <2>2, <2>3 DEF Aligned
<1>2. Aligned(<<W("ret")>>, <<W("ret")>>)
  BY Lists, SameAligned
<1> QED BY <1>1, <1>2, CallFits DEF ProxyBindDialogTarget, StubBindDialogTarget

LEMMA VirtualScreenAnswered == Pair(ProxyCreateVirtualScreen, StubCreateVirtualScreen, "CREATE_VIRTUAL_SCREEN")
<1> DEFINE w == <<S("name"), W("width"), W("height"), W("density"), W("flags"), W("isForShot"),
                  W("isSurfaceValid"), Opt(O("surface")), Opt(O("agent"))>>
           r == <<S("name"), W("width"), W("height"), W("density"), W("flags"), W("isForShot"),
                  W("isSurfaceValid"), Opt(O("surface")), O("agent")>>
<1>1. Aligned(w, r)
  <2>1. IsList(w) /\ IsList(r) /\ Len(w) = 9 /\ Len(r) = 9
    BY DEF IsList, Items
  <2>2. \A i \in 1 .. 8 : w[i] = r[i]
    OBVIOUS
  <2>3. /\ w[9].kind = r[9].kind /\ w[9].name = r[9].name
        /\ w[9].when = "given" /\ r[9].when = "always" /\ r[9].kind = "object"
    BY DEF Opt, O, Field
  <2> HIDE DEF w, r
  <2> QED BY <2>1, <2>2, <2>3 DEF Aligned
<1>2. Aligned(<<D("screenId")>>, <<D("screenId")>>)
  BY Lists, SameAligned
<1> QED BY <1>1, <1>2, CallFits DEF ProxyCreateVirtualScreen, StubCreateVirtualScreen

(* The hot zones are written whether or not the method succeeded, and read only when it did. *)
LEMMA HotZonesAnswered ==
  Pair(ProxyGetModeChangeHotZones, StubGetModeChangeHotZones, "GET_FULLSCREEN_AND_SPLIT_HOT_ZONE")
<1> DEFINE w == <<W("ret")>> \o [i \in 1 .. 12 |-> W(HotZoneFields[i])]
           r == <<W("ret")>> \o [i \in 1 .. 12 |-> IfOk(W(HotZoneFields[i]))]
<1>1. Aligned(w, r)
  <2>1. IsList(<<W("ret")>>)
    BY DEF IsList, Items
  <2>2. /\ IsList([i \in 1 .. 12 |-> W(HotZoneFields[i])])
        /\ IsList([i \in 1 .. 12 |-> IfOk(W(HotZoneFields[i]))])
    BY DEF IsList, Items
  <2>3. IsList(w) /\ IsList(r)
    BY <2>1, <2>2, JoinOK
  <2>4. Len(w) = 13 /\ Len(r) = 13 /\ w[1] = W("ret") /\ r[1] = W("ret")
    OBVIOUS
  <2>5. \A i \in 2 .. 13 : w[i] = W(HotZoneFields[i - 1]) /\ r[i] = IfOk(W(HotZoneFields[i - 1]))
    OBVIOUS
  <2>6. \A f : LET g == W(f) IN /\ g.kind = IfOk(g).kind /\ g.name = IfOk(g).name
                                /\ g.when = "always" /\ IfOk(g).when = "ok"
    BY DEF IfOk, W, Field
  <2> HIDE DEF w, r
  <2> QED BY <2>3, <2>4, <2>5, <2>6 DEF Aligned
<1>2. Aligned(<<D("displayId")>>, <<D("displayId")>>)
  BY Lists, SameAligned
<1> QED BY <1>1, <1>2, CallFits DEF ProxyGetModeChangeHotZones, StubGetModeChangeHotZones

(* SetBounds of an extension reads the width where the height was written. *)
LEMMA SetBoundsAnswered == Pair(ProxySetBounds, StubSetBounds, "SETBOUNDS")
<1>1. Aligned(<<>>, <<>>)
  BY Lists, SameAligned
<1> QED BY <1>1, CallParts, CaseParts DEF Pair, Answers, ProxySetBounds, StubSetBounds

-----------------------------------------------------------------------------
(* Each message of an interface has its case, and only one. *)
EachAnswered(iface) ==
    \A p \in ProxiesOf[iface] : \E c \in StubsOf[iface] :
      c.code = p.code /\ \A d \in StubsOf[iface] : d.code = p.code => Answers(p, d)

LEMMA WindowManagerAnswered == EachAnswered("IWindowManager")
<1>1. Pair(ProxyCreateWindow, StubCreateWindow, "CREATE_WINDOW")
  BY Lists, CallAnswered DEF ProxyCreateWindow, StubCreateWindow
<1>2. Pair(ProxyAddWindow, StubAddWindow, "ADD_WINDOW")
  BY Lists, CallAnswered DEF ProxyAddWindow, StubAddWindow
<1>3. Pair(ProxyRemoveWindow, StubRemoveWindow, "REMOVE_WINDOW")
  BY Lists, CallAnswered DEF ProxyRemoveWindow, StubRemoveWindow
<1>4. Pair(ProxyDestroyWindow, StubDestroyWindow, "DESTROY_WINDOW")
  BY Lists, CallAnswered DEF ProxyDestroyWindow, StubDestroyWindow
<1>5. Pair(ProxyRequestFocus, StubRequestFocus, "REQUEST_FOCUS")
  BY Lists, CallAnswered DEF ProxyRequestFocus, StubRequestFocus
<1>6. Pair(ProxyGetAvoidAreaByType, StubGetAvoidAreaByType, "GET_AVOID_AREA")
  BY Lists, CallAnswered DEF ProxyGetAvoidAreaByType, StubGetAvoidAreaByType
<1>7. Pair(ProxyRegisterWindowManagerAgent, StubRegisterWindowManagerAgent, "REGISTER_WINDOW_MANAGER_AGENT")
  BY Lists, CallAnswered DEF ProxyRegisterWindowManagerAgent, StubRegisterWindowManagerAgent
<1>8. Pair(ProxyUnregisterWindowManagerAgent, StubUnregisterWindowManagerAgent, "UNREGISTER_WINDOW_MANAGER_AGENT")
  BY Lists, CallAnswered DEF ProxyUnregisterWindowManagerAgent, StubUnregisterWindowManagerAgent
<1>9. Pair(ProxySetWindowAnimationController, StubSetWindowAnimationController, "ANIMATION_SET_CONTROLLER")
  BY Lists, CallAnswered DEF ProxySetWindowAnimationController, StubSetWindowAnimationController
<1>10. Pair(ProxyNotifyServerReadyToMoveOrDrag, StubNotifyServerReadyToMoveOrDrag, "NOTIFY_READY_MOVE_OR_DRAG")
  BY Lists, CallAnswered DEF ProxyNotifyServerReadyToMoveOrDrag, StubNotifyServerReadyToMoveOrDrag
<1>11. Pair(ProxyProcessPointDown, StubProcessPointDown, "PROCESS_POINT_DOWN")
  BY Lists, CallAnswered DEF ProxyProcessPointDown, StubProcessPointDown
<1>12. Pair(ProxyProcessPointUp, StubProcessPointUp, "PROCESS_POINT_UP")
  BY Lists, CallAnswered DEF ProxyProcessPointUp, StubProcessPointUp
<1>13. Pair(ProxyMinimizeAllAppWindows, StubMinimizeAllAppWindows, "MINIMIZE_ALL_APP_WINDOWS")
  BY Lists, CallAnswered DEF ProxyMinimizeAllAppWindows, StubMinimizeAllAppWindows
<1>14. Pair(ProxyToggleShownState, StubToggleShownState, "TOGGLE_SHOWN_STATE_FOR_ALL_APP_WINDOWS")
  BY Lists, CallAnswered DEF ProxyToggleShownState, StubToggleShownState
<1>15. Pair(ProxySetWindowLayoutMode, StubSetWindowLayoutMode, "UPDATE_LAYOUT_MODE")
  BY Lists, CallAnswered DEF ProxySetWindowLayoutMode, StubSetWindowLayoutMode
<1>16. Pair(ProxyUpdateProperty, StubUpdateProperty, "UPDATE_PROPERTY")
  BY Lists, CallAnswered DEF ProxyUpdateProperty, StubUpdateProperty
<1>17. Pair(ProxyGetTopWindowId, StubGetTopWindowId, "GET_TOP_WINDOW_ID")
  BY Lists, CallAnswered DEF ProxyGetTopWindowId, StubGetTopWindowId
<1>18. Pair(ProxyGetAccessibilityWindowInfo, StubGetAccessibilityWindowInfo, "GET_ACCESSIBILITY_WINDOW_INFO_ID")
  BY Lists, CallAnswered DEF ProxyGetAccessibilityWindowInfo, StubGetAccessibilityWindowInfo
<1>19. Pair(ProxyGetSystemConfig, StubGetSystemConfig, "GET_SYSTEM_CONFIG")
  BY Lists, CallAnswered DEF ProxyGetSystemConfig, StubGetSystemConfig
<1>20. Pair(ProxyNotifyWindowTransition, StubNotifyWindowTransition, "NOTIFY_WINDOW_TRANSITION")
  BY Lists, CallAnswered DEF ProxyNotifyWindowTransition, StubNotifyWindowTransition
<1>21. Pair(ProxyGetModeChangeHotZones, StubGetModeChangeHotZones, "GET_FULLSCREEN_AND_SPLIT_HOT_ZONE")
  BY HotZonesAnswered
<1>22. Pair(ProxyMinimizeWindowsByLauncher, StubMinimizeWindowsByLauncher, "GET_ANIMATION_CALLBACK")
  BY Lists, CallAnswered DEF ProxyMinimizeWindowsByLauncher, StubMinimizeWindowsByLauncher
<1>23. Pair(ProxyUpdateAvoidAreaListener, StubUpdateAvoidAreaListener, "UPDATE_AVOIDAREA_LISTENER")
  BY Lists, CallAnswered DEF ProxyUpdateAvoidAreaListener, StubUpdateAvoidAreaListener
<1>24. Pair(ProxyUpdateRsTree, StubUpdateRsTree, "UPDATE_RS_TREE")
  BY Lists, CallAnswered DEF ProxyUpdateRsTree, StubUpdateRsTree
<1>25. Pair(ProxyBindDialogTarget, StubBindDialogTarget, "BIND_DIALOG_TARGET")
  BY DialogTargetAnswered
<1>26. /\ ProxiesOf["IWindowManager"] =
           {ProxyCreateWindow, ProxyAddWindow, ProxyRemoveWindow, ProxyDestroyWindow, ProxyRequestFocus,
            ProxyGetAvoidAreaByType, ProxyRegisterWindowManagerAgent, ProxyUnregisterWindowManagerAgent,
            ProxySetWindowAnimationController, ProxyNotifyServerReadyToMoveOrDrag, ProxyProcessPointDown,
            ProxyProcessPointUp, ProxyMinimizeAllAppWindows, ProxyToggleShownState, ProxySetWindowLayoutMode,
            ProxyUpdateProperty, ProxyGetTopWindowId, ProxyGetAccessibilityWindowInfo, ProxyGetSystemConfig,
            ProxyNotifyWindowTransition, ProxyGetModeChangeHotZones, ProxyMinimizeWindowsByLauncher,
            ProxyUpdateAvoidAreaListener, ProxyUpdateRsTree, ProxyBindDialogTarget}
      /\ StubsOf["IWindowManager"] =
           {StubCreateWindow, StubAddWindow, StubRemoveWindow, StubDestroyWindow, StubRequestFocus,
            StubGetAvoidAreaByType, StubRegisterWindowManagerAgent, StubUnregisterWindowManagerAgent,
            StubNotifyServerReadyToMoveOrDrag, StubProcessPointDown, StubProcessPointUp, StubGetTopWindowId,
            StubMinimizeAllAppWindows, StubToggleShownState, StubSetWindowLayoutMode, StubUpdateProperty,
            StubGetAccessibilityWindowInfo, StubSetWindowAnimationController, StubGetSystemConfig,
            StubNotifyWindowTransition, StubGetModeChangeHotZones, StubMinimizeWindowsByLauncher,
            StubUpdateAvoidAreaListener, StubUpdateRsTree, StubBindDialogTarget}
  BY DEF ProxiesOf, StubsOf
<1>27. \A p \in ProxiesOf["IWindowManager"] : \E c \in StubsOf["IWindowManager"] : c.code = p.code /\ Answers(p, c)
  BY <1>1, <1>2, <1>3, <1>4, <1>5, <1>6, <1>7, <1>8, <1>9, <1>10, <1>11, <1>12, <1>13, <1>14, <1>15, <1>16,
     <1>17, <1>18, <1>19, <1>20, <1>21, <1>22, <1>23, <1>24, <1>25, <1>26, SMTT(90) DEF Pair
<1>28. \A c, d \in StubsOf["IWindowManager"] : c.code = d.code => c = d
  BY <1>1, <1>2, <1>3, <1>4, <1>5, <1>6, <1>7, <1>8, <1>9, <1>10, <1>11, <1>12, <1>13, <1>14, <1>15, <1>16,
     <1>17, <1>18, <1>19, <1>20, <1>21, <1>22, <1>23, <1>24, <1>25, <1>26, SMTT(90) DEF Pair
<1> QED
  <2> SUFFICES ASSUME NEW p \in ProxiesOf["IWindowManager"]
               PROVE  \E c \in StubsOf["IWindowManager"] :
                        c.code = p.code /\ \A d \in StubsOf["IWindowManager"] : d.code = p.code => Answers(p, d)
    BY DEF EachAnswered
  <2>1. PICK c \in StubsOf["IWindowManager"] : c.code = p.code /\ Answers(p, c)
    BY <1>27
  <2> QED BY <2>1, <1>28

LEMMA WindowAnswered == EachAnswered("IWindow")
<1>1. Pair(ProxyUpdateWindowRect, StubUpdateWindowRect, "UPDATE_WINDOW_RECT")
  BY Lists, CallAnswered DEF ProxyUpdateWindowRect, StubUpdateWindowRect
<1>2. Pair(ProxyUpdateWindowMode, StubUpdateWindowMode, "UPDATE_WINDOW_MODE")
  BY Lists, CallAnswered DEF ProxyUpdateWindowMode, StubUpdateWindowMode
<1>3. Pair(ProxyUpdateWindowModeSupportInfo, StubUpdateWindowModeSupportInfo, "UPDATE_MODE_SUPPORT_INFO")
  BY Lists, CallAnswered DEF ProxyUpdateWindowModeSupportInfo, StubUpdateWindowModeSupportInfo
<1>4. Pair(ProxyUpdateFocusStatus, StubUpdateFocusStatus, "UPDATE_FOCUS_STATUS")
  BY Lists, CallAnswered DEF ProxyUpdateFocusStatus, StubUpdateFocusStatus
<1>5. Pair(ProxyUpdateAvoidArea, StubUpdateAvoidArea, "UPDATE_AVOID_AREA")
  BY Lists, CallAnswered DEF ProxyUpdateAvoidArea, StubUpdateAvoidArea
<1>6. Pair(ProxyUpdateWindowState, StubUpdateWindowState, "UPDATE_WINDOW_STATE")
  BY Lists, CallAnswered DEF ProxyUpdateWindowState, StubUpdateWindowState
<1>7. Pair(ProxyUpdateWindowDragInfo, StubUpdateWindowDragInfo, "UPDATE_DRAG_EVENT")
  BY Lists, CallAnswered DEF ProxyUpdateWindowDragInfo, StubUpdateWindowDragInfo
<1>8. Pair(ProxyUpdateDisplayId, StubUpdateDisplayId, "UPDATE_DISPLAY_ID")
  BY Lists, CallAnswered DEF ProxyUpdateDisplayId, StubUpdateDisplayId
<1>9. Pair(ProxyUpdateOccupiedAreaChangeInfo, StubUpdateOccupiedAreaChangeInfo, "UPDATE_OCCUPIED_AREA")
  BY Lists, CallAnswered DEF ProxyUpdateOccupiedAreaChangeInfo, StubUpdateOccupiedAreaChangeInfo
<1>10. Pair(ProxyUpdateActiveStatus, StubUpdateActiveStatus, "UPDATE_ACTIVE_STATUS")
  BY Lists, CallAnswered DEF ProxyUpdateActiveStatus, StubUpdateActiveStatus
<1>11. Pair(ProxyGetWindowProperty, StubGetWindowProperty, "GET_WINDOW_PROPERTY")
  BY Lists, CallAnswered DEF ProxyGetWindowProperty, StubGetWindowProperty
<1>12. Pair(ProxyNotifyTouchOutside, StubNotifyTouchOutside, "NOTIFY_OUTSIDE_PRESSED")
  BY Lists, CallAnswered DEF ProxyNotifyTouchOutside, StubNotifyTouchOutside
<1>13. Pair(ProxyNotifyScreenshot, StubNotifyScreenshot, "NOTIFY_SCREEN_SHOT")
  BY Lists, CallAnswered DEF ProxyNotifyScreenshot, StubNotifyScreenshot
<1>14. Pair(ProxyDumpInfo, StubDumpInfo, "DUMP_INFO")
  BY Lists, CallAnswered DEF ProxyDumpInfo, StubDumpInfo
<1>15. Pair(ProxyNotifyDestroy, StubNotifyDestroy, "NOTIFY_DESTROY")
  BY Lists, CallAnswered DEF ProxyNotifyDestroy, StubNotifyDestroy
<1>16. Pair(ProxyNotifyWindowClientPointUp, StubNotifyWindowClientPointUp, "NOTIFY_CLIENT_POINT_UP")
  BY Lists, CallAnswered DEF ProxyNotifyWindowClientPointUp, StubNotifyWindowClientPointUp
<1>17. /\ ProxiesOf["IWindow"] =
           {ProxyUpdateWindowRect, ProxyUpdateWindowMode, ProxyUpdateWindowModeSupportInfo,
            ProxyUpdateFocusStatus, ProxyUpdateAvoidArea, ProxyUpdateWindowState, ProxyUpdateWindowDragInfo,
            ProxyUpdateDisplayId, ProxyUpdateOccupiedAreaChangeInfo, ProxyUpdateActiveStatus,
            ProxyGetWindowProperty, ProxyNotifyTouchOutside, ProxyNotifyScreenshot, ProxyDumpInfo,
            ProxyNotifyDestroy, ProxyNotifyWindowClientPointUp}
      /\ StubsOf["IWindow"] =
           {StubUpdateWindowRect, StubUpdateWindowMode, StubUpdateWindowModeSupportInfo,
            StubUpdateFocusStatus, StubUpdateAvoidArea, StubUpdateWindowState, StubUpdateWindowDragInfo,
            StubUpdateDisplayId, StubUpdateOccupiedAreaChangeInfo, StubUpdateActiveStatus,
            StubGetWindowProperty, StubNotifyTouchOutside, StubNotifyScreenshot, StubNotifyDestroy,
            StubDumpInfo, StubNotifyWindowClientPointUp}
  BY DEF ProxiesOf, StubsOf
<1>18. \A p \in ProxiesOf["IWindow"] : \E c \in StubsOf["IWindow"] : c.code = p.code /\ Answers(p, c)
  BY <1>1, <1>2, <1>3, <1>4, <1>5, <1>6, <1>7, <1>8, <1>9, <1>10, <1>11, <1>12, <1>13, <1>14, <1>15, <1>16,
     <1>17 DEF Pair
<1>19. \A c, d \in StubsOf["IWindow"] : c.code = d.code => c = d
  BY <1>1, <1>2, <1>3, <1>4, <1>5, <1>6, <1>7, <1>8, <1>9, <1>10, <1>11, <1>12, <1>13, <1>14, <1>15, <1>16,
     <1>17 DEF Pair
<1> QED
  <2> SUFFICES ASSUME NEW p \in ProxiesOf["IWindow"]
               PROVE  \E c \in StubsOf["IWindow"] :
                        c.code = p.code /\ \A d \in StubsOf["IWindow"] : d.code = p.code => Answers(p, d)
    BY DEF EachAnswered
  <2>1. PICK c \in StubsOf["IWindow"] : c.code = p.code /\ Answers(p, c)
    BY <1>18
  <2> QED BY <2>1, <1>19

LEMMA WindowAgentAnswered == EachAnswered("IWindowManagerAgent")
<1>1. Pair(ProxyUpdateFocusChangeInfo, StubUpdateFocusChangeInfo, "UPDATE_FOCUS")
  BY FocusAnswered
<1>2. Pair(ProxyUpdateSystemBarRegionTints, StubUpdateSystemBarRegionTints, "UPDATE_SYSTEM_BAR_PROPS")
  BY Lists, CallAnswered DEF ProxyUpdateSystemBarRegionTints, StubUpdateSystemBarRegionTints
<1>3. Pair(ProxyNotifyAccessibilityWindowInfo, StubNotifyAccessibilityWindowInfo, "UPDATE_WINDOW_STATUS")
  BY Lists, CallAnswered DEF ProxyNotifyAccessibilityWindowInfo, StubNotifyAccessibilityWindowInfo
<1>4. Pair(ProxyUpdateWindowVisibilityInfo, StubUpdateWindowVisibilityInfo, "UPDATE_WINDOW_VISIBILITY")
  BY Lists, CallAnswered DEF ProxyUpdateWindowVisibilityInfo, StubUpdateWindowVisibilityInfo
<1>5. Pair(ProxyUpdateCameraFloatWindowStatus, StubUpdateCameraFloatWindowStatus, "UPDATE_CAMERA_FLOAT")
  BY Lists, CallAnswered DEF ProxyUpdateCameraFloatWindowStatus, StubUpdateCameraFloatWindowStatus
<1>6. /\ ProxiesOf["IWindowManagerAgent"] =
           {ProxyUpdateFocusChangeInfo, ProxyUpdateSystemBarRegionTints, ProxyNotifyAccessibilityWindowInfo,
            ProxyUpdateWindowVisibilityInfo, ProxyUpdateCameraFloatWindowStatus}
      /\ StubsOf["IWindowManagerAgent"] =
           {StubUpdateFocusChangeInfo, StubUpdateSystemBarRegionTints, StubNotifyAccessibilityWindowInfo,
            StubUpdateWindowVisibilityInfo, StubUpdateCameraFloatWindowStatus}
  BY DEF ProxiesOf, StubsOf
<1>7. \A p \in ProxiesOf["IWindowManagerAgent"] : \E c \in StubsOf["IWindowManagerAgent"] : c.code = p.code /\ Answers(p, c)
  BY <1>1, <1>2, <1>3, <1>4, <1>5, <1>6 DEF Pair
<1>8. \A c, d \in StubsOf["IWindowManagerAgent"] : c.code = d.code => c = d
  BY <1>1, <1>2, <1>3, <1>4, <1>5, <1>6 DEF Pair
<1> QED
  <2> SUFFICES ASSUME NEW p \in ProxiesOf["IWindowManagerAgent"]
               PROVE  \E c \in StubsOf["IWindowManagerAgent"] :
                        c.code = p.code /\ \A d \in StubsOf["IWindowManagerAgent"] : d.code = p.code => Answers(p, d)
    BY DEF EachAnswered
  <2>1. PICK c \in StubsOf["IWindowManagerAgent"] : c.code = p.code /\ Answers(p, c)
    BY <1>7
  <2> QED BY <2>1, <1>8

LEMMA ExtensionAnswered == EachAnswered("IWindowExtension")
<1>1. Pair(ProxySetBounds, StubSetBounds, "SETBOUNDS")
  BY SetBoundsAnswered
<1>2. Pair(ProxyHideExtension, StubHideExtension, "HIDE_WINDOW")
  BY Lists, CallAnswered DEF ProxyHideExtension, StubHideExtension
<1>3. Pair(ProxyShowExtension, StubShowExtension, "SHOW_WINDOW")
  BY Lists, CallAnswered DEF ProxyShowExtension, StubShowExtension
<1>4. Pair(ProxyGetExtensionWindow, StubGetExtensionWindow, "CONNECT_TO_EXTENSION")
  BY Lists, CallAnswered DEF ProxyGetExtensionWindow, StubGetExtensionWindow
<1>5. StubRequestFocusExtension.code = "REQUESTFOCUS"
  BY DEF StubRequestFocusExtension, Case
<1>6. /\ ProxiesOf["IWindowExtension"] =
           {ProxySetBounds, ProxyHideExtension, ProxyShowExtension, ProxyGetExtensionWindow}
      /\ StubsOf["IWindowExtension"] =
           {StubSetBounds, StubHideExtension, StubShowExtension, StubRequestFocusExtension,
            StubGetExtensionWindow}
  BY DEF ProxiesOf, StubsOf
<1>7. \A p \in ProxiesOf["IWindowExtension"] : \E c \in StubsOf["IWindowExtension"] : c.code = p.code /\ Answers(p, c)
  BY <1>1, <1>2, <1>3, <1>4, <1>5, <1>6 DEF Pair
<1>8. \A c, d \in StubsOf["IWindowExtension"] : c.code = d.code => c = d
  BY <1>1, <1>2, <1>3, <1>4, <1>5, <1>6 DEF Pair
<1> QED
  <2> SUFFICES ASSUME NEW p \in ProxiesOf["IWindowExtension"]
               PROVE  \E c \in StubsOf["IWindowExtension"] :
                        c.code = p.code /\ \A d \in StubsOf["IWindowExtension"] : d.code = p.code => Answers(p, d)
    BY DEF EachAnswered
  <2>1. PICK c \in StubsOf["IWindowExtension"] : c.code = p.code /\ Answers(p, c)
    BY <1>7
  <2> QED BY <2>1, <1>8

LEMMA ExtensionClientAnswered == EachAnswered("IWindowExtensionClient")
<1>1. Pair(ProxyOnWindowReady, StubOnWindowReady, "ON_WINDOW_READY")
  BY Lists, CallAnswered DEF ProxyOnWindowReady, StubOnWindowReady
<1>2. Pair(ProxyOnBackPress, StubOnBackPress, "ON_BACK_PRESS")
  BY Lists, CallAnswered DEF ProxyOnBackPress, StubOnBackPress
<1>3. Pair(ProxyOnKeyEvent, StubOnKeyEvent, "ON_KEY_EVENT")
  BY Lists, CallAnswered DEF ProxyOnKeyEvent, StubOnKeyEvent
<1>4. Pair(ProxyOnPointerEvent, StubOnPointerEvent, "ON_POINTER_EVENT")
  BY Lists, CallAnswered DEF ProxyOnPointerEvent, StubOnPointerEvent
<1>5. /\ ProxiesOf["IWindowExtensionClient"] =
           {ProxyOnWindowReady, ProxyOnBackPress, ProxyOnKeyEvent, ProxyOnPointerEvent}
      /\ StubsOf["IWindowExtensionClient"] =
           {StubOnWindowReady, StubOnBackPress, StubOnKeyEvent, StubOnPointerEvent}
  BY DEF ProxiesOf, StubsOf
<1>6. \A p \in ProxiesOf["IWindowExtensionClient"] : \E c \in StubsOf["IWindowExtensionClient"] : c.code = p.code /\ Answers(p, c)
  BY <1>1, <1>2, <1>3, <1>4, <1>5 DEF Pair
<1>7. \A c, d \in StubsOf["IWindowExtensionClient"] : c.code = d.code => c = d
  BY <1>1, <1>2, <1>3, <1>4, <1>5 DEF Pair
<1> QED
  <2> SUFFICES ASSUME NEW p \in ProxiesOf["IWindowExtensionClient"]
               PROVE  \E c \in StubsOf["IWindowExtensionClient"] :
                        c.code = p.code /\ \A d \in StubsOf["IWindowExtensionClient"] : d.code = p.code => Answers(p, d)
    BY DEF EachAnswered
  <2>1. PICK c \in StubsOf["IWindowExtensionClient"] : c.code = p.code /\ Answers(p, c)
    BY <1>6
  <2> QED BY <2>1, <1>7

LEMMA DisplayManagerAnswered == EachAnswered("IDisplayManager")
<1>1. Pair(ProxyGetDefaultDisplayInfo, StubGetDefaultDisplayInfo, "GET_DEFAULT_DISPLAY_INFO")
  BY Lists, CallAnswered DEF ProxyGetDefaultDisplayInfo, StubGetDefaultDisplayInfo
<1>2. Pair(ProxyGetDisplayInfoById, StubGetDisplayInfoById, "GET_DISPLAY_BY_ID")
  BY Lists, CallAnswered DEF ProxyGetDisplayInfoById, StubGetDisplayInfoById
<1>3. Pair(ProxyGetDisplayInfoByScreen, StubGetDisplayInfoByScreen, "GET_DISPLAY_BY_SCREEN")
  BY Lists, CallAnswered DEF ProxyGetDisplayInfoByScreen, StubGetDisplayInfoByScreen
<1>4. Pair(ProxyCreateVirtualScreen, StubCreateVirtualScreen, "CREATE_VIRTUAL_SCREEN")
  BY VirtualScreenAnswered
<1>5. Pair(ProxyDestroyVirtualScreen, StubDestroyVirtualScreen, "DESTROY_VIRTUAL_SCREEN")
  BY Lists, CallAnswered DEF ProxyDestroyVirtualScreen, StubDestroyVirtualScreen
<1>6. Pair(ProxySetVirtualScreenSurface, StubSetVirtualScreenSurface, "SET_VIRTUAL_SCREEN_SURFACE")
  BY Lists, CallAnswered DEF ProxySetVirtualScreenSurface, StubSetVirtualScreenSurface
<1>7. Pair(ProxySetOrientation, StubSetOrientation, "SET_ORIENTATION")
  BY Lists, CallAnswered DEF ProxySetOrientation, StubSetOrientation
<1>8. Pair(ProxyGetDisplaySnapshot, StubGetDisplaySnapshot, "GET_DISPLAY_SNAPSHOT")
  BY Lists, CallAnswered DEF ProxyGetDisplaySnapshot, StubGetDisplaySnapshot
<1>9. Pair(ProxyGetScreenSupportedColorGamuts, StubGetScreenSupportedColorGamuts, "SCREEN_GET_SUPPORTED_COLOR_GAMUTS")
  BY Lists, CallAnswered DEF ProxyGetScreenSupportedColorGamuts, StubGetScreenSupportedColorGamuts
<1>10. Pair(ProxyGetScreenColorGamut, StubGetScreenColorGamut, "SCREEN_GET_COLOR_GAMUT")
  BY Lists, CallAnswered DEF ProxyGetScreenColorGamut, StubGetScreenColorGamut
<1>11. Pair(ProxySetScreenColorGamut, StubSetScreenColorGamut, "SCREEN_SET_COLOR_GAMUT")
  BY Lists, CallAnswered DEF ProxySetScreenColorGamut, StubSetScreenColorGamut
<1>12. Pair(ProxyGetScreenGamutMap, StubGetScreenGamutMap, "SCREEN_GET_GAMUT_MAP")
  BY Lists, CallAnswered DEF ProxyGetScreenGamutMap, StubGetScreenGamutMap
<1>13. Pair(ProxySetScreenGamutMap, StubSetScreenGamutMap, "SCREEN_SET_GAMUT_MAP")
  BY Lists, CallAnswered DEF ProxySetScreenGamutMap, StubSetScreenGamutMap
<1>14. Pair(ProxySetScreenColorTransform, StubSetScreenColorTransform, "SCREEN_SET_COLOR_TRANSFORM")
  BY Lists, CallAnswered DEF ProxySetScreenColorTransform, StubSetScreenColorTransform
<1>15. Pair(ProxyRegisterDisplayManagerAgent, StubRegisterDisplayManagerAgent, "REGISTER_DISPLAY_MANAGER_AGENT")
  BY Lists, CallAnswered DEF ProxyRegisterDisplayManagerAgent, StubRegisterDisplayManagerAgent
<1>16. Pair(ProxyUnregisterDisplayManagerAgent, StubUnregisterDisplayManagerAgent, "UNREGISTER_DISPLAY_MANAGER_AGENT")
  BY Lists, CallAnswered DEF ProxyUnregisterDisplayManagerAgent, StubUnregisterDisplayManagerAgent
<1>17. Pair(ProxyWakeUpBegin, StubWakeUpBegin, "WAKE_UP_BEGIN")
  BY Lists, CallAnswered DEF ProxyWakeUpBegin, StubWakeUpBegin
<1>18. Pair(ProxyWakeUpEnd, StubWakeUpEnd, "WAKE_UP_END")
  BY Lists, CallAnswered DEF ProxyWakeUpEnd, StubWakeUpEnd
<1>19. Pair(ProxySuspendBegin, StubSuspendBegin, "SUSPEND_BEGIN")
  BY Lists, CallAnswered DEF ProxySuspendBegin, StubSuspendBegin
<1>20. Pair(ProxySuspendEnd, StubSuspendEnd, "SUSPEND_END")
  BY Lists, CallAnswered DEF ProxySuspendEnd, StubSuspendEnd
<1>21. Pair(ProxySetScreenPowerForAll, StubSetScreenPowerForAll, "SET_SCREEN_POWER_FOR_ALL")
  BY Lists, CallAnswered DEF ProxySetScreenPowerForAll, StubSetScreenPowerForAll
<1>22. Pair(ProxyGetScreenPower, StubGetScreenPower, "GET_SCREEN_POWER")
  BY Lists, CallAnswered DEF ProxyGetScreenPower, StubGetScreenPower
<1>23. Pair(ProxySetDisplayState, StubSetDisplayState, "SET_DISPLAY_STATE")
  BY Lists, CallAnswered DEF ProxySetDisplayState, StubSetDisplayState
<1>24. Pair(ProxyGetDisplayState, StubGetDisplayState, "GET_DISPLAY_STATE")
  BY Lists, CallAnswered DEF ProxyGetDisplayState, StubGetDisplayState
<1>25. Pair(ProxyGetAllDisplayIds, StubGetAllDisplayIds, "GET_ALL_DISPLAYIDS")
  BY Lists, CallAnswered DEF ProxyGetAllDisplayIds, StubGetAllDisplayIds
<1>26. Pair(ProxyGetCutoutInfo, StubGetCutoutInfo, "GET_CUTOUT_INFO")
  BY Lists, CallAnswered DEF ProxyGetCutoutInfo, StubGetCutoutInfo
<1>27. Pair(ProxyHasPrivateWindow, StubHasPrivateWindow, "HAS_PRIVATE_WINDOW")
  BY Lists, CallAnswered DEF ProxyHasPrivateWindow, StubHasPrivateWindow
<1>28. Pair(ProxyNotifyDisplayEvent, StubNotifyDisplayEvent, "NOTIFY_DISPLAY_EVENT")
  BY Lists, CallAnswered DEF ProxyNotifyDisplayEvent, StubNotifyDisplayEvent
<1>29. Pair(ProxySetFreeze, StubSetFreeze, "SET_FREEZE_EVENT")
  BY Lists, CallAnswered DEF ProxySetFreeze, StubSetFreeze
<1>30. Pair(ProxyMakeMirror, StubMakeMirror, "SCREEN_MAKE_MIRROR")
  BY Lists, CallAnswered DEF ProxyMakeMirror, StubMakeMirror
<1>31. Pair(ProxyGetScreenInfoById, StubGetScreenInfoById, "GET_SCREEN_INFO_BY_ID")
  BY Lists, CallAnswered DEF ProxyGetScreenInfoById, StubGetScreenInfoById
<1>32. Pair(ProxyGetScreenGroupInfoById, StubGetScreenGroupInfoById, "GET_SCREEN_GROUP_INFO_BY_ID")
  BY Lists, CallAnswered DEF ProxyGetScreenGroupInfoById, StubGetScreenGroupInfoById
<1>33. Pair(ProxyGetAllScreenInfos, StubGetAllScreenInfos, "GET_ALL_SCREEN_INFOS")
  BY Lists, CallAnswered DEF ProxyGetAllScreenInfos, StubGetAllScreenInfos
<1>34. Pair(ProxyMakeExpand, StubMakeExpand, "SCREEN_MAKE_EXPAND")
  BY Lists, CallAnswered DEF ProxyMakeExpand, StubMakeExpand
<1>35. Pair(ProxyRemoveVirtualScreenFromGroup, StubRemoveVirtualScreenFromGroup, "REMOVE_VIRTUAL_SCREEN_FROM_SCREEN_GROUP")
  BY Lists, CallAnswered DEF ProxyRemoveVirtualScreenFromGroup, StubRemoveVirtualScreenFromGroup
<1>36. Pair(ProxySetScreenActiveMode, StubSetScreenActiveMode, "SET_SCREEN_ACTIVE_MODE")
  BY Lists, CallAnswered DEF ProxySetScreenActiveMode, StubSetScreenActiveMode
<1>37. Pair(ProxySetVirtualPixelRatio, StubSetVirtualPixelRatio, "SET_VIRTUAL_PIXEL_RATIO")
  BY Lists, CallAnswered DEF ProxySetVirtualPixelRatio, StubSetVirtualPixelRatio
<1>38. Pair(ProxyIsScreenRotationLocked, StubIsScreenRotationLocked, "IS_SCREEN_ROTATION_LOCKED")
  BY Lists, CallAnswered DEF ProxyIsScreenRotationLocked, StubIsScreenRotationLocked
<1>39. Pair(ProxySetScreenRotationLocked, StubSetScreenRotationLocked, "SET_SCREEN_ROTATION_LOCKED")
  BY Lists, CallAnswered DEF ProxySetScreenRotationLocked, StubSetScreenRotationLocked
<1>40. /\ ProxiesOf["IDisplayManager"] =
           {ProxyGetDefaultDisplayInfo, ProxyGetDisplayInfoById, ProxyGetDisplayInfoByScreen,
            ProxyCreateVirtualScreen, ProxyDestroyVirtualScreen, ProxySetVirtualScreenSurface,
            ProxySetOrientation, ProxyGetDisplaySnapshot, ProxyGetScreenSupportedColorGamuts,
            ProxyGetScreenColorGamut, ProxySetScreenColorGamut, ProxyGetScreenGamutMap,
            ProxySetScreenGamutMap, ProxySetScreenColorTransform, ProxyRegisterDisplayManagerAgent,
            ProxyUnregisterDisplayManagerAgent, ProxyWakeUpBegin, ProxyWakeUpEnd, ProxySuspendBegin,
            ProxySuspendEnd, ProxySetScreenPowerForAll, ProxyGetScreenPower, ProxySetDisplayState,
            ProxyGetDisplayState, ProxyGetAllDisplayIds, ProxyGetCutoutInfo, ProxyHasPrivateWindow,
            ProxyNotifyDisplayEvent, ProxySetFreeze, ProxyMakeMirror, ProxyGetScreenInfoById,
            ProxyGetScreenGroupInfoById, ProxyGetAllScreenInfos, ProxyMakeExpand,
            ProxyRemoveVirtualScreenFromGroup, ProxySetScreenActiveMode, ProxySetVirtualPixelRatio,
            ProxyIsScreenRotationLocked, ProxySetScreenRotationLocked}
      /\ StubsOf["IDisplayManager"] =
           {StubGetDefaultDisplayInfo, StubGetDisplayInfoById, StubGetDisplayInfoByScreen,
            StubCreateVirtualScreen, StubDestroyVirtualScreen, StubSetVirtualScreenSurface,
            StubSetOrientation, StubGetDisplaySnapshot, StubRegisterDisplayManagerAgent,
            StubUnregisterDisplayManagerAgent, StubWakeUpBegin, StubWakeUpEnd, StubSuspendBegin,
            StubSuspendEnd, StubSetScreenPowerForAll, StubGetScreenPower, StubSetDisplayState,
            StubGetDisplayState, StubNotifyDisplayEvent, StubSetFreeze, StubMakeMirror, StubGetScreenInfoById,
            StubGetScreenGroupInfoById, StubGetAllScreenInfos, StubGetAllDisplayIds, StubMakeExpand,
            StubRemoveVirtualScreenFromGroup, StubSetScreenActiveMode, StubSetVirtualPixelRatio,
            StubGetScreenSupportedColorGamuts, StubGetScreenColorGamut, StubSetScreenColorGamut,
            StubGetScreenGamutMap, StubSetScreenGamutMap, StubSetScreenColorTransform,
            StubIsScreenRotationLocked, StubSetScreenRotationLocked, StubHasPrivateWindow, StubGetCutoutInfo}
  BY DEF ProxiesOf, StubsOf
<1>41. \A p \in ProxiesOf["IDisplayManager"] : \E c \in StubsOf["IDisplayManager"] : c.code = p.code /\ Answers(p, c)
  BY <1>1, <1>2, <1>3, <1>4, <1>5, <1>6, <1>7, <1>8, <1>9, <1>10, <1>11, <1>12, <1>13, <1>14, <1>15, <1>16,
     <1>17, <1>18, <1>19, <1>20, <1>21, <1>22, <1>23, <1>24, <1>25, <1>26, <1>27, <1>28, <1>29, <1>30, <1>31,
     <1>32, <1>33, <1>34, <1>35, <1>36, <1>37, <1>38, <1>39, <1>40, SMTT(90) DEF Pair
<1>42. \A c, d \in StubsOf["IDisplayManager"] : c.code = d.code => c = d
  BY <1>1, <1>2, <1>3, <1>4, <1>5, <1>6, <1>7, <1>8, <1>9, <1>10, <1>11, <1>12, <1>13, <1>14, <1>15, <1>16,
     <1>17, <1>18, <1>19, <1>20, <1>21, <1>22, <1>23, <1>24, <1>25, <1>26, <1>27, <1>28, <1>29, <1>30, <1>31,
     <1>32, <1>33, <1>34, <1>35, <1>36, <1>37, <1>38, <1>39, <1>40, SMTT(90) DEF Pair
<1> QED
  <2> SUFFICES ASSUME NEW p \in ProxiesOf["IDisplayManager"]
               PROVE  \E c \in StubsOf["IDisplayManager"] :
                        c.code = p.code /\ \A d \in StubsOf["IDisplayManager"] : d.code = p.code => Answers(p, d)
    BY DEF EachAnswered
  <2>1. PICK c \in StubsOf["IDisplayManager"] : c.code = p.code /\ Answers(p, c)
    BY <1>41
  <2> QED BY <2>1, <1>42

LEMMA DisplayAgentAnswered == EachAnswered("IDisplayManagerAgent")
<1>1. Pair(ProxyNotifyDisplayPowerEvent, StubNotifyDisplayPowerEvent, "NOTIFY_DISPLAY_POWER_EVENT")
  BY Lists, CallAnswered DEF ProxyNotifyDisplayPowerEvent, StubNotifyDisplayPowerEvent
<1>2. Pair(ProxyNotifyDisplayStateChanged, StubNotifyDisplayStateChanged, "NOTIFY_DISPLAY_STATE_CHANGED")
  BY Lists, CallAnswered DEF ProxyNotifyDisplayStateChanged, StubNotifyDisplayStateChanged
<1>3. Pair(ProxyOnScreenConnect, StubOnScreenConnect, "ON_SCREEN_CONNECT")
  BY Lists, CallAnswered DEF ProxyOnScreenConnect, StubOnScreenConnect
<1>4. Pair(ProxyOnScreenDisconnect, StubOnScreenDisconnect, "ON_SCREEN_DISCONNECT")
  BY Lists, CallAnswered DEF ProxyOnScreenDisconnect, StubOnScreenDisconnect
<1>5. Pair(ProxyOnScreenChange, StubOnScreenChange, "ON_SCREEN_CHANGED")
  BY Lists, CallAnswered DEF ProxyOnScreenChange, StubOnScreenChange
<1>6. Pair(ProxyOnScreenGroupChange, StubOnScreenGroupChange, "ON_SCREENGROUP_CHANGED")
  BY Lists, CallAnswered DEF ProxyOnScreenGroupChange, StubOnScreenGroupChange
<1>7. Pair(ProxyOnDisplayCreate, StubOnDisplayCreate, "ON_DISPLAY_CONNECT")
  BY Lists, CallAnswered DEF ProxyOnDisplayCreate, StubOnDisplayCreate
<1>8. Pair(ProxyOnDisplayDestroy, StubOnDisplayDestroy, "ON_DISPLAY_DISCONNECT")
  BY Lists, CallAnswered DEF ProxyOnDisplayDestroy, StubOnDisplayDestroy
<1>9. Pair(ProxyOnDisplayChange, StubOnDisplayChange, "ON_DISPLAY_CHANGED")
  BY Lists, CallAnswered DEF ProxyOnDisplayChange, StubOnDisplayChange
<1>10. /\ ProxiesOf["IDisplayManagerAgent"] =
           {ProxyNotifyDisplayPowerEvent, ProxyNotifyDisplayStateChanged, ProxyOnScreenConnect,
            ProxyOnScreenDisconnect, ProxyOnScreenChange, ProxyOnScreenGroupChange, ProxyOnDisplayCreate,
            ProxyOnDisplayDestroy, ProxyOnDisplayChange}
      /\ StubsOf["IDisplayManagerAgent"] =
           {StubNotifyDisplayPowerEvent, StubNotifyDisplayStateChanged, StubOnScreenConnect,
            StubOnScreenDisconnect, StubOnScreenChange, StubOnScreenGroupChange, StubOnDisplayCreate,
            StubOnDisplayDestroy, StubOnDisplayChange}
  BY DEF ProxiesOf, StubsOf
<1>11. \A p \in ProxiesOf["IDisplayManagerAgent"] : \E c \in StubsOf["IDisplayManagerAgent"] : c.code = p.code /\ Answers(p, c)
  BY <1>1, <1>2, <1>3, <1>4, <1>5, <1>6, <1>7, <1>8, <1>9, <1>10 DEF Pair
<1>12. \A c, d \in StubsOf["IDisplayManagerAgent"] : c.code = d.code => c = d
  BY <1>1, <1>2, <1>3, <1>4, <1>5, <1>6, <1>7, <1>8, <1>9, <1>10 DEF Pair
<1> QED
  <2> SUFFICES ASSUME NEW p \in ProxiesOf["IDisplayManagerAgent"]
               PROVE  \E c \in StubsOf["IDisplayManagerAgent"] :
                        c.code = p.code /\ \A d \in StubsOf["IDisplayManagerAgent"] : d.code = p.code => Answers(p, d)
    BY DEF EachAnswered
  <2>1. PICK c \in StubsOf["IDisplayManagerAgent"] : c.code = p.code /\ Answers(p, c)
    BY <1>11
  <2> QED BY <2>1, <1>12

(* The fields a class writes are those it reads. *)
LEMMA ClassAnswered ==
  ASSUME NEW class, NEW fields, IsList(fields)
  PROVE  Pair(Writes(class, fields), Reads(class, fields), class)
BY Lists, CallAnswered DEF Writes, Reads

LEMMA ParcelablesAnswered == EachAnswered("Parcelable")
<1>1. Pair(WriteWindowVisibilityInfo, ReadWindowVisibilityInfo, "WindowVisibilityInfo")
  BY Lists, LongLists, WordsOK, JoinOK, ClassAnswered
     DEF WriteWindowVisibilityInfo, ReadWindowVisibilityInfo, RectOf
<1>2. Pair(WriteWindowInfo, ReadWindowInfo, "WindowInfo")
  BY Lists, LongLists, WordsOK, JoinOK, ClassAnswered
     DEF WriteWindowInfo, ReadWindowInfo, RectOf
<1>3. Pair(WriteAccessibilityWindowInfo, ReadAccessibilityWindowInfo, "AccessibilityWindowInfo")
  BY Lists, LongLists, WordsOK, JoinOK, ClassAnswered
     DEF WriteAccessibilityWindowInfo, ReadAccessibilityWindowInfo, RectOf
<1>4. Pair(WriteFocusChangeInfo, ReadFocusChangeInfo, "FocusChangeInfo")
  BY Lists, LongLists, WordsOK, JoinOK, ClassAnswered
     DEF WriteFocusChangeInfo, ReadFocusChangeInfo, RectOf
<1>5. Pair(WriteOccupiedAreaChangeInfo, ReadOccupiedAreaChangeInfo, "OccupiedAreaChangeInfo")
  BY Lists, LongLists, WordsOK, JoinOK, ClassAnswered
     DEF WriteOccupiedAreaChangeInfo, ReadOccupiedAreaChangeInfo, RectOf
<1>6. Pair(WriteDisplayInfo, ReadDisplayInfo, "DisplayInfo")
  BY Lists, LongLists, WordsOK, JoinOK, ClassAnswered
     DEF WriteDisplayInfo, ReadDisplayInfo, RectOf
<1>7. Pair(WriteScreenInfo, ReadScreenInfo, "ScreenInfo")
  BY Lists, LongLists, WordsOK, JoinOK, ClassAnswered
     DEF WriteScreenInfo, ReadScreenInfo, RectOf
<1>8. Pair(WriteScreenGroupInfo, ReadScreenGroupInfo, "ScreenGroupInfo")
  <2>1. IsList(WriteScreenInfo.args) /\ ReadScreenInfo.args = WriteScreenInfo.args
    BY Lists, WordsOK, JoinOK, CallParts, CaseParts DEF WriteScreenInfo, ReadScreenInfo, Writes, Reads
  <2> QED BY <2>1, Lists, JoinOK, ClassAnswered DEF WriteScreenGroupInfo, ReadScreenGroupInfo
<1>9. Pair(WriteCutoutInfo, ReadCutoutInfo, "CutoutInfo")
  BY Lists, LongLists, WordsOK, JoinOK, ClassAnswered
     DEF WriteCutoutInfo, ReadCutoutInfo, RectOf, BoundingRectFields, ReadWaterfallDisplayAreaRects, ReadBoundingRectsVector
<1>10. Pair(WriteWindowTransitionInfo, ReadWindowTransitionInfo, "WindowTransitionInfo")
  BY Lists, LongLists, WordsOK, JoinOK, ClassAnswered
     DEF WriteWindowTransitionInfo, ReadWindowTransitionInfo, RectOf
<1>11. Pair(WriteSystemConfig, ReadSystemConfig, "SystemConfig")
  BY Lists, LongLists, WordsOK, JoinOK, ClassAnswered
     DEF WriteSystemConfig, ReadSystemConfig, RectOf
<1>12. Pair(WriteMoveDragProperty, ReadMoveDragProperty, "MoveDragProperty")
  BY Lists, LongLists, WordsOK, JoinOK, ClassAnswered
     DEF WriteMoveDragProperty, ReadMoveDragProperty, RectOf
<1>13. Pair(WriteAvoidArea, ReadAvoidArea, "AvoidArea")
  BY Lists, LongLists, WordsOK, JoinOK, ClassAnswered
     DEF WriteAvoidArea, ReadAvoidArea, RectOf
<1>14. Pair(WriteWindowProperty, ReadWindowProperty, "WindowProperty")
  BY Lists, LongLists, WordsOK, JoinOK, ClassAnswered
     DEF WriteWindowProperty, ReadWindowProperty, RectOf,
         MapMarshalling, MapUnmarshalling, MarshallingTouchHotAreas, UnmarshallingTouchHotAreas,
         MarshallingTransform, UnmarshallingTransform, MarshallingWindowSizeLimits, UnmarshallingWindowSizeLimits
<1> DEFINE Actions == DOMAIN WriteByAction
           Sent(a) == Words(<<"windowId">>) \o WriteByAction[a]
<1>15. Actions = {"ACTION_UPDATE_RECT", "ACTION_UPDATE_MODE", "ACTION_UPDATE_FLAGS",
                 "ACTION_UPDATE_OTHER_PROPS", "ACTION_UPDATE_FOCUSABLE", "ACTION_UPDATE_TOUCHABLE",
                 "ACTION_UPDATE_CALLING_WINDOW", "ACTION_UPDATE_ORIENTATION", "ACTION_UPDATE_TURN_SCREEN_ON",
                 "ACTION_UPDATE_KEEP_SCREEN_ON", "ACTION_UPDATE_SET_BRIGHTNESS",
                 "ACTION_UPDATE_MODE_SUPPORT_INFO", "ACTION_UPDATE_TOUCH_HOT_AREA",
                 "ACTION_UPDATE_TRANSFORM_PROPERTY", "ACTION_UPDATE_ANIMATION_FLAG",
                 "ACTION_UPDATE_PRIVACY_MODE"}
  BY DEF WriteByAction
<1>16. WriteByAction = ReadByAction
  BY DEF WriteByAction, ReadByAction, MapMarshalling, MapUnmarshalling, MarshallingTouchHotAreas,
         UnmarshallingTouchHotAreas, MarshallingTransform, UnmarshallingTransform
<1>17. \A a \in Actions : IsList(WriteByAction[a])
  <2>1. /\ IsList(WriteByAction["ACTION_UPDATE_RECT"])
        /\ IsList(WriteByAction["ACTION_UPDATE_MODE"])
        /\ IsList(WriteByAction["ACTION_UPDATE_FLAGS"])
        /\ IsList(WriteByAction["ACTION_UPDATE_OTHER_PROPS"])
        /\ IsList(WriteByAction["ACTION_UPDATE_FOCUSABLE"])
        /\ IsList(WriteByAction["ACTION_UPDATE_TOUCHABLE"])
        /\ IsList(WriteByAction["ACTION_UPDATE_CALLING_WINDOW"])
        /\ IsList(WriteByAction["ACTION_UPDATE_ORIENTATION"])
        /\ IsList(WriteByAction["ACTION_UPDATE_TURN_SCREEN_ON"])
        /\ IsList(WriteByAction["ACTION_UPDATE_KEEP_SCREEN_ON"])
        /\ IsList(WriteByAction["ACTION_UPDATE_SET_BRIGHTNESS"])
        /\ IsList(WriteByAction["ACTION_UPDATE_MODE_SUPPORT_INFO"])
        /\ IsList(WriteByAction["ACTION_UPDATE_TOUCH_HOT_AREA"])
        /\ IsList(WriteByAction["ACTION_UPDATE_TRANSFORM_PROPERTY"])
        /\ IsList(WriteByAction["ACTION_UPDATE_ANIMATION_FLAG"])
        /\ IsList(WriteByAction["ACTION_UPDATE_PRIVACY_MODE"])
    BY Lists, LongLists, WordsOK, JoinOK
       DEF WriteByAction, RectOf, MapMarshalling, MarshallingTouchHotAreas, MarshallingTransform
  <2> QED BY <2>1, <1>15
<1>18. \A a \in Actions : Pair(Writes(a, Sent(a)), Reads(a, Sent(a)), a)
  <2> SUFFICES ASSUME NEW a \in Actions PROVE Pair(Writes(a, Sent(a)), Reads(a, Sent(a)), a)
    OBVIOUS
  <2>1. IsList(Words(<<"windowId">>)) /\ IsList(WriteByAction[a])
    BY <1>17, Lists, WordsOK
  <2>2. IsList(Sent(a))
    BY <2>1, JoinOK
  <2> HIDE DEF Sent
  <2> QED BY <2>2, ClassAnswered
<1>19. /\ WriteOfAction = {Writes(a, Sent(a)) : a \in Actions}
       /\ ReadOfAction = {Reads(a, Sent(a)) : a \in Actions}
  BY <1>16 DEF WriteOfAction, ReadOfAction
<1>20. /\ ProxiesOf["Parcelable"] =
           {WriteWindowVisibilityInfo, WriteWindowInfo, WriteAccessibilityWindowInfo, WriteFocusChangeInfo,
            WriteOccupiedAreaChangeInfo, WriteDisplayInfo, WriteScreenInfo, WriteScreenGroupInfo,
            WriteCutoutInfo, WriteWindowTransitionInfo, WriteSystemConfig, WriteMoveDragProperty,
            WriteAvoidArea, WriteWindowProperty} \cup WriteOfAction
      /\ StubsOf["Parcelable"] =
           {ReadWindowVisibilityInfo, ReadWindowInfo, ReadAccessibilityWindowInfo, ReadFocusChangeInfo,
            ReadOccupiedAreaChangeInfo, ReadDisplayInfo, ReadScreenInfo, ReadScreenGroupInfo, ReadCutoutInfo,
            ReadWindowTransitionInfo, ReadSystemConfig, ReadMoveDragProperty, ReadAvoidArea,
            ReadWindowProperty} \cup ReadOfAction
  BY DEF ProxiesOf, StubsOf
<1> HIDE DEF Actions, Sent
<1>21. \A p \in ProxiesOf["Parcelable"] : \E c \in StubsOf["Parcelable"] : c.code = p.code /\ Answers(p, c)
  BY <1>1, <1>2, <1>3, <1>4, <1>5, <1>6, <1>7, <1>8, <1>9, <1>10, <1>11, <1>12, <1>13, <1>14,
     <1>18, <1>19, <1>20, SMTT(60) DEF Pair
<1>22. \A c, d \in StubsOf["Parcelable"] : c.code = d.code => c = d
  BY <1>1, <1>2, <1>3, <1>4, <1>5, <1>6, <1>7, <1>8, <1>9, <1>10, <1>11, <1>12, <1>13, <1>14,
     <1>15, <1>18, <1>19, <1>20, SMTT(60) DEF Pair
<1> QED
  <2> SUFFICES ASSUME NEW p \in ProxiesOf["Parcelable"]
               PROVE  \E c \in StubsOf["Parcelable"] :
                        c.code = p.code /\ \A d \in StubsOf["Parcelable"] : d.code = p.code => Answers(p, d)
    BY DEF EachAnswered
  <2>1. PICK c \in StubsOf["Parcelable"] : c.code = p.code /\ Answers(p, c)
    BY <1>21
  <2> QED BY <2>1, <1>22

-----------------------------------------------------------------------------
(* A call of some proxy, and what its stub makes of it. *)
IsCall(call) == call.iface \in DOMAIN ProxiesOf /\ call.proxy \in ProxiesOf[call.iface]
RunOK(run) == \/ run.iface = "none" \/ run.code = "SETBOUNDS"
              \/ run.method = run.want /\ RightValues(run.got, run.given)

LEMMA AllAnswered == ASSUME NEW iface \in DOMAIN ProxiesOf PROVE EachAnswered(iface)
<1>1. DOMAIN ProxiesOf = {"IWindowManager", "IWindow", "IWindowManagerAgent", "IWindowExtension",
                          "IWindowExtensionClient", "IDisplayManager", "IDisplayManagerAgent", "Parcelable"}
  BY DEF ProxiesOf
<1> QED
  BY <1>1, WindowManagerAnswered, WindowAnswered, WindowAgentAnswered, ExtensionAnswered,
     ExtensionClientAnswered, DisplayManagerAnswered, DisplayAgentAnswered, ParcelablesAnswered

LEMMA CaseAnswers ==
  ASSUME NEW call, IsCall(call)
  PROVE  IpcCaseOf(call).code = call.proxy.code /\ Answers(call.proxy, IpcCaseOf(call))
<1>1. PICK c \in StubsOf[call.iface] :
        c.code = call.proxy.code /\ \A d \in StubsOf[call.iface] : d.code = call.proxy.code => Answers(call.proxy, d)
  BY AllAnswered DEF IsCall, EachAnswered
<1>2. IpcCaseOf(call) \in StubsOf[call.iface] /\ IpcCaseOf(call).code = call.proxy.code
  BY <1>1, Zenon DEF IpcCaseOf
<1> QED BY <1>1, <1>2

(* The case of a call runs the method meant, with the values written. *)
LEMMA RunsRight == ASSUME NEW call, IsCall(call) PROVE RunOK(IpcRun(call))
<1> DEFINE c == IpcCaseOf(call)
           got == ReadParcel(Present(call.proxy.args, call.given, TRUE), Present(c.args, call.given, TRUE))
<1>1. /\ c.method = call.proxy.method
      /\ c.code # "SETBOUNDS" => Aligned(call.proxy.args, c.args)
  BY CaseAnswers DEF Answers
<1>2. c.code # "SETBOUNDS" => RightValues(got, call.given)
  <2> HIDE DEF c
  <2> QED BY <1>1, AlignedRead
<1>3. LET r == IpcRun(call)
      IN  r.code = c.code /\ r.want = call.proxy.method /\ r.method = c.method /\ r.got = got /\ r.given = call.given
  BY DEF IpcRun
<1> HIDE DEF c, got
<1> QED BY <1>1, <1>2, <1>3 DEF RunOK

LEMMA AppendList == ASSUME NEW q, NEW x, IsList(q) PROVE IsList(Append(q, x))
<1> DEFINE F == Items(q) \cup {x}
<1>1. q \in Seq(Items(q))
  BY DEF IsList
<1>2. q \in Seq(F)
  <2>1. \A A, B : \A z \in Seq(A) : A \subseteq B => z \in Seq(B)
    OBVIOUS
  <2> QED BY <1>1, <2>1
<1>3. Append(q, x) \in Seq(F)
  BY <1>2
<1> QED BY <1>3, ListOK

-----------------------------------------------------------------------------
(* The states of a call: when its method has been run, and what is in the reply. *)
IpcPosts == IsList(ipcPosted) /\ \A i \in 1 .. Len(ipcPosted) : IsCall(ipcPosted[i])
IpcStages ==
    /\ ipcPc \in {"idle", "writing", "sent", "replied", "back"}
    /\ ipcPc # "idle" => IsCall(ipcCall)
    /\ ipcPc \in {"idle", "writing", "sent"} => ipcRuns = 0
    /\ ipcPc = "replied" =>
         /\ ipcRuns = 1 /\ ipcResult.how \in {"ok", "refused"}
         /\ ipcReply = Present(IpcCaseOf(ipcCall).results, ipcCall.given, ipcResult.how = "ok")
    /\ ipcPc = "back" =>
         /\ ipcRuns \in {0, 1}
         /\ ipcResult.how \in {"ok", "refused"} /\ ipcCall.proxy.waits
              => ipcRuns = 1 /\ RightValues(ipcResult.got, ipcCall.given)
IpcInv == IpcPosts /\ IpcStages /\ RunOK(ipcRan)

LEMMA IpcInvAgrees == IpcInv => IpcAgrees
BY DEF IpcInv, IpcStages, RunOK, IpcAgrees, IpcArgsAgree, IpcResultsAgree

LEMMA IpcInvInit == IpcInit => IpcInv
<1>1. IsList(<<>>) /\ Len(<<>>) = 0
  BY Lists
<1> QED BY <1>1 DEF IpcInit, IpcInv, IpcPosts, IpcStages, RunOK, IpcNoRun

LEMMA IpcInvNext == IpcInv /\ [IpcNext]_ipcVars => IpcInv'
<1> SUFFICES ASSUME IpcInv, [IpcNext]_ipcVars PROVE IpcInv'
  OBVIOUS
<1>1. CASE IpcBegin
  <2>1. IsCall(ipcCall')
    BY <1>1 DEF IpcBegin, IsCall
  <2>2. IpcStages'
    BY <1>1, <2>1 DEF IpcBegin, IpcInv, IpcStages
  <2> QED BY <1>1, <2>2 DEF IpcBegin, IpcInv, IpcPosts
<1>2. CASE IpcWriteFails
  BY <1>2 DEF IpcWriteFails, IpcEnds, IpcInv, IpcPosts, IpcStages
<1>3. CASE IpcSend
  <2>1. IpcPosts'
    <3>1. CASE UNCHANGED ipcPosted
      BY <3>1 DEF IpcInv, IpcPosts
    <3>2. CASE ipcPosted' = Append(ipcPosted, ipcCall) /\ ipcPc = "writing"
      <4>1. IsCall(ipcCall) /\ IsList(ipcPosted) /\ \A i \in 1 .. Len(ipcPosted) : IsCall(ipcPosted[i])
        BY <3>2 DEF IpcInv, IpcPosts, IpcStages
      <4>2. IsList(ipcPosted')
        BY <3>2, <4>1, AppendList
      <4>3. \A i \in 1 .. Len(ipcPosted') : IsCall(ipcPosted'[i])
        <5>1. ipcPosted \in Seq(Items(ipcPosted))
          BY <4>1 DEF IsList
        <5>2. /\ Len(ipcPosted') = Len(ipcPosted) + 1 /\ Len(ipcPosted) \in Nat
              /\ \A i \in 1 .. Len(ipcPosted') :
                   ipcPosted'[i] = IF i = Len(ipcPosted) + 1 THEN ipcCall ELSE ipcPosted[i]
          BY <3>2, <5>1
        <5> QED BY <4>1, <5>2
      <4> QED BY <4>2, <4>3 DEF IpcPosts
    <3> QED BY <1>3, <3>1, <3>2 DEF IpcSend
  <2>2. IpcStages'
    BY <1>3 DEF IpcSend, IpcEnds, IpcInv, IpcStages
  <2> QED BY <1>3, <2>1, <2>2 DEF IpcSend, IpcInv
<1>4. CASE IpcDispatch
  <2>1. IsCall(ipcCall) /\ ipcRuns = 0
    BY <1>4 DEF IpcDispatch, IpcInv, IpcStages
  <2>2. RunOK(ipcRan')
    BY <1>4, <2>1, RunsRight DEF IpcDispatch
  <2>3. IpcStages'
    <3>1. PICK ok \in BOOLEAN : /\ ipcReply' = Present(IpcCaseOf(ipcCall).results, ipcCall.given, ok)
                                /\ ipcResult' = [how |-> IF ok THEN "ok" ELSE "refused", got |-> <<>>]
      BY <1>4 DEF IpcDispatch
    <3>2. ipcResult'.how \in {"ok", "refused"} /\ (ipcResult'.how = "ok") = ok
      BY <3>1
    <3>3. ipcReply' = Present(IpcCaseOf(ipcCall).results, ipcCall.given, ipcResult'.how = "ok")
      BY <3>1, <3>2
    <3>4. ipcCall' = ipcCall /\ ipcRuns' = 1 /\ ipcPc' = "replied"
      BY <1>4, <2>1 DEF IpcDispatch
    <3>5. IpcCaseOf(ipcCall)' = IpcCaseOf(ipcCall)
      BY <3>4 DEF IpcCaseOf
    <3> QED BY <2>1, <3>2, <3>3, <3>4, <3>5 DEF IpcStages, IsCall
  <2> QED BY <1>4, <2>2, <2>3 DEF IpcDispatch, IpcInv, IpcPosts
<1>5. CASE IpcReturn
  <2> DEFINE ok == ipcResult.how = "ok"
  <2>1. /\ IsCall(ipcCall) /\ ipcRuns = 1 /\ ipcResult.how \in {"ok", "refused"}
        /\ ipcReply = Present(IpcCaseOf(ipcCall).results, ipcCall.given, ok)
    BY <1>5 DEF IpcReturn, IpcInv, IpcStages
  <2>2. Aligned(IpcCaseOf(ipcCall).results, ipcCall.proxy.results)
    BY <2>1, CaseAnswers DEF Answers
  <2>3. RightValues(ReadParcel(ipcReply, Present(ipcCall.proxy.results, ipcCall.given, ok)), ipcCall.given)
    <3> HIDE DEF ok
    <3> QED BY <2>1, <2>2, AlignedRead
  <2>4. IpcStages'
    BY <1>5, <2>1, <2>3 DEF IpcReturn, IpcEnds, IpcStages, IsCall
  <2> QED BY <1>5, <2>4 DEF IpcReturn, IpcInv, IpcPosts
<1>6. CASE IpcDone
  BY <1>6 DEF IpcDone, IpcInv, IpcPosts, IpcStages, RunOK, IpcNoRun
<1>7. CASE IpcRunPosted
  <2>1. ipcPosted \in Seq(Items(ipcPosted)) /\ ipcPosted # <<>> /\ \A i \in 1 .. Len(ipcPosted) : IsCall(ipcPosted[i])
    BY <1>7 DEF IpcRunPosted, IpcInv, IpcPosts, IsList
  <2>2. IsCall(Head(ipcPosted))
    BY <2>1
  <2>3. RunOK(ipcRan')
    BY <1>7, <2>2, RunsRight DEF IpcRunPosted
  <2>4. IpcPosts'
    <3>1. /\ Tail(ipcPosted) \in Seq(Items(ipcPosted)) /\ Len(Tail(ipcPosted)) = Len(ipcPosted) - 1
          /\ \A i \in 1 .. Len(ipcPosted) - 1 : Tail(ipcPosted)[i] = ipcPosted[i + 1]
      BY <2>1
    <3>2. Len(ipcPosted) \in Nat
      BY <2>1
    <3>3. IsList(Tail(ipcPosted))
      BY <3>1, ListOK
    <3>4. \A i \in 1 .. Len(Tail(ipcPosted)) : IsCall(Tail(ipcPosted)[i])
      BY <2>1, <3>1, <3>2
    <3>5. ipcPosted' = Tail(ipcPosted)
      BY <1>7 DEF IpcRunPosted
    <3> QED BY <3>3, <3>4, <3>5 DEF IpcPosts
  <2> QED BY <1>7, <2>3, <2>4 DEF IpcRunPosted, IpcInv, IpcStages
<1>8. CASE IpcPeerDies
  <2>1. IpcPosts'
    <3>1. ipcPosted' = <<>> /\ IsList(<<>>) /\ Len(<<>>) = 0
      BY <1>8, Lists DEF IpcPeerDies
    <3> QED BY <3>1 DEF IpcPosts
  <2>2. IpcStages'
    BY <1>8 DEF IpcPeerDies, IpcEnds, IpcInv, IpcStages
  <2> QED BY <1>8, <2>1, <2>2 DEF IpcPeerDies, IpcInv
<1>9. CASE IpcPeerRestarts
  BY <1>9 DEF IpcPeerRestarts, IpcInv, IpcPosts, IpcStages
<1>10. CASE UNCHANGED ipcVars
  BY <1>10 DEF ipcVars, IpcInv, IpcPosts, IpcStages
<1> QED
  BY <1>1, <1>2, <1>3, <1>4, <1>5, <1>6, <1>7, <1>8, <1>9, <1>10 DEF IpcNext

(* Every message that is read reaches the method its caller meant with the values
   written for it, a caller that waited gets the outputs of a method run once, and
   no call is run twice, for any number of posts that wait and however often the
   other process dies.                                                         *)
THEOREM MessagesAgree == IpcSpec => []IpcAgrees
<1>1. IpcInit => IpcInv
  BY IpcInvInit
<1>2. IpcInv /\ [IpcNext]_ipcVars => IpcInv'
  BY IpcInvNext
<1>3. IpcInv => IpcAgrees
  BY IpcInvAgrees
<1> QED BY <1>1, <1>2, <1>3, PTL DEF IpcSpec
=============================================================================
