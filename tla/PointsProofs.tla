------------------------------ MODULE PointsProofs ------------------------------
(***************************************************************************)
(* The points on their way to the outputs.  The transforms, for any        *)
(* buffers of points: those that work point by point (PointTransforms,     *)
(* with Filtering), the windows of time (Aggregation) and the parts of the *)
(* consumers (Attribution).  Then what is told of the points, for any      *)
(* points and attributes: the requests of the services (RemoteOutputs),    *)
(* the messages of the relay (RelayFormat) and the lines of the CSV file   *)
(* (CsvOutput).                                                            *)
(***************************************************************************)
EXTENDS Aggregation, Attribution, PointTransforms, CsvOutput, RemoteOutputs, RelayFormat,
        Integers, FiniteSetTheorems, SequenceTheorems, TLAPS

-------------------------------------------------------------------------------
(* Numbers, and recursive definitions.                                       *)

\* A set of numbers has a smallest element.
LEMMA SmallestElement ==
    ASSUME NEW T, T \subseteq Nat, T # {}
    PROVE  \E x \in T : \A y \in T : x =< y
  <1> DEFINE I == {1..n : n \in T}
  <1>1. IsWellFoundedOn(StrictSubsetOrdering(Nat), FiniteSubsetsOf(Nat))
    BY FS_StrictSubsetOrderingWellFounded
  <1>2. I \subseteq FiniteSubsetsOf(Nat) /\ I # {}
    <2>1. ASSUME NEW n \in T PROVE IsFiniteSet(1..n) /\ 1..n \in SUBSET Nat
      BY FS_Interval
    <2> QED BY <2>1 DEF FiniteSubsetsOf
  <1> HIDE DEF I
  <1>3. PICK i \in I : \A j \in I : ~(<<j, i>> \in StrictSubsetOrdering(Nat))
    BY <1>1, <1>2, WFMin
  <1>4. PICK x \in T : i = 1..x
    BY <1>3 DEF I
  <1>5. ASSUME NEW y \in T, y < x PROVE FALSE
    <2>1. 1..y \in I BY DEF I
    <2>2. x \in 1..x /\ x \notin 1..y  BY <1>5, <1>4
    <2>3. 1..y \subseteq 1..x /\ 1..y # 1..x BY <1>5, <2>2
    <2>4. 1..y \in SUBSET Nat /\ 1..x \in SUBSET Nat OBVIOUS
    <2>5. <<1..y, 1..x>> \in StrictSubsetOrdering(Nat)
      BY <2>3, <2>4 DEF StrictSubsetOrdering
    <2> QED BY <2>1, <2>5, <1>3, <1>4
  <1> QED BY <1>5

\* Division with remainder by a positive number.
LEMMA DivMod == ASSUME NEW u \in Nat \ {0}, NEW n \in Nat
   PROVE  n \div u \in Nat /\ n % u \in 0..(u - 1) /\ n = u * (n \div u) + (n % u)
  OBVIOUS

\* A multiple of u strictly above -u and at most u is 0 or u.
LEMMA Multiples ==
    ASSUME NEW u \in Nat \ {0}, NEW d \in Int, u * d > - u, u * d <= u
    PROVE  d = 0 \/ d = 1
  <1>1. CASE d >= 2
    <2>1. u * d >= u * 2 BY <1>1
    <2> QED BY <2>1
  <1>2. CASE d <= -1
    <2>1. u * d <= u * (-1) BY <1>2
    <2> QED BY <2>1
  <1> QED BY <1>1, <1>2

\* What is true of 0, and of a number when it is of the one before, is true up to a bound.
LEMMA UpTo ==
    ASSUME NEW L \in Nat, NEW T, 0 \in T, \A n \in 1..L : n - 1 \in T => n \in T
    PROVE  \A n \in 0..L : n \in T
  <1> DEFINE B == {n \in 0..L : n \notin T}
  <1> SUFFICES ASSUME B # {} PROVE FALSE
    OBVIOUS
  <1>1. PICK m \in B : \A n \in B : m =< n
    <2>1. B \subseteq Nat
      OBVIOUS
    <2> HIDE DEF B
    <2> QED BY <2>1, SmallestElement
  <1>2. m \in 1..L /\ m \notin T
    OBVIOUS
  <1>3. m - 1 \notin B
    BY <1>1, <1>2
  <1> QED BY <1>2, <1>3

\* The function g on 0..L is defined from x, its value at 0, and from F, that gives its value
\* at a number from its value at the number before.
Follows(g, L, x, F) == \A n \in 0..L : g[n] = IF n = 0 THEN x ELSE F[<<g[n - 1], n>>]

\* A function that is defined from its value at the number before exists.
LEMMA Recursion ==
    ASSUME NEW L \in Nat, NEW X, NEW x \in X, NEW F \in [X \X (1..L) -> X]
    PROVE  \E g \in [0..L -> X] : Follows(g, L, x, F)
  <1> DEFINE Is(g, l) == /\ g \in [0..l -> X]
                         /\ \A n \in 0..l : g[n] = IF n = 0 THEN x ELSE F[<<g[n - 1], n>>]
             T == {l \in 0..L : \E g : Is(g, l)}
  <1>1. 0 \in T
    <2> DEFINE g0 == [n \in 0..0 |-> x]
    <2>1. Is(g0, 0)
      OBVIOUS
    <2> HIDE DEF Is
    <2>2. 0 \in 0..L
      OBVIOUS
    <2> QED BY <2>1, <2>2
  <1>2. ASSUME NEW l \in 1..L, l - 1 \in T PROVE l \in T
    <2>1. PICK g : Is(g, l - 1)
      BY <1>2
    <2> DEFINE h == [n \in 0..l |-> IF n = l THEN F[<<g[l - 1], l>>] ELSE g[n]]
    <2>2. g[l - 1] \in X
      BY <2>1
    <2>3. F[<<g[l - 1], l>>] \in X
      BY <2>2
    <2>4. \A n \in 0..l : n # l => n \in 0..(l - 1) /\ h[n] = g[n]
      OBVIOUS
    <2>5. h \in [0..l -> X]
      BY <2>1, <2>3, <2>4
    <2>6. ASSUME NEW n \in 0..l PROVE h[n] = IF n = 0 THEN x ELSE F[<<h[n - 1], n>>]
      <3>1. CASE n = l
        <4>1. h[l - 1] = g[l - 1] /\ l # 0
          BY <2>4
        <4> QED BY <3>1, <4>1
      <3>2. CASE n # l
        <4>1. n # 0 => h[n - 1] = g[n - 1]
          BY <3>2
        <4> QED BY <2>1, <2>4, <3>2, <4>1
      <3> QED BY <3>1, <3>2
    <2>7. Is(h, l)
      BY <2>5, <2>6
    <2> HIDE DEF Is
    <2>8. l \in 0..L
      OBVIOUS
    <2> QED BY <2>7, <2>8
  <1> HIDE DEF Is, T
  <1>3. L \in T
    BY <1>1, <1>2, UpTo
  <1> QED BY <1>3 DEF T, Is, Follows

-------------------------------------------------------------------------------
(* Sequences without some of their elements.                                 *)

\* only is what Only computes at each place of s.
OnlyUpTo(s, S, only) ==
    only = [i \in 0..Len(s) |->
              IF i = 0 THEN <<>>
              ELSE IF s[i] \in S THEN Append(only[i - 1], s[i]) ELSE only[i - 1]]

\* g is made of sequences, each from the one before, up to the value of Only.
Places(E, s, S, g) ==
    /\ g \in [0..Len(s) -> Seq(E)] /\ g[0] = <<>> /\ Only(s, S) = g[Len(s)]
    /\ \A i \in 1..Len(s) : g[i] = IF s[i] \in S THEN Append(g[i - 1], s[i]) ELSE g[i - 1]

\* The recursive equation of Only has a solution, made of sequences.
LEMMA OnlyIs == ASSUME NEW E, NEW s \in Seq(E), NEW S PROVE \E g : Places(E, s, S, g)
  <1> DEFINE L == Len(s)
             F == [p \in Seq(E) \X (1..L) |->
                     IF s[p[2]] \in S THEN Append(p[1], s[p[2]]) ELSE p[1]]
             only == CHOOSE only : OnlyUpTo(s, S, only)
  <1>1. L \in Nat /\ <<>> \in Seq(E) /\ F \in [Seq(E) \X (1..L) -> Seq(E)]
    OBVIOUS
  <1>2. ASSUME NEW f \in [0..L -> Seq(E)], NEW i \in 1..L
        PROVE  F[<<f[i - 1], i>>] = IF s[i] \in S THEN Append(f[i - 1], s[i]) ELSE f[i - 1]
    <2>0. i - 1 \in 0..L
      BY <1>1
    <2>1. <<f[i - 1], i>> \in Seq(E) \X (1..L)
      BY <2>0
    <2> QED BY <2>1
  <1> HIDE DEF F
  <1>3. PICK f \in [0..L -> Seq(E)] : Follows(f, L, <<>>, F)
    BY <1>1, Recursion
  <1>4. \A i \in 0..L : f[i] = IF i = 0 THEN <<>>
              ELSE IF s[i] \in S THEN Append(f[i - 1], s[i]) ELSE f[i - 1]
    <2> TAKE i \in 0..L
    <2>1. i # 0 => i \in 1..L
      BY <1>1
    <2> QED BY <1>2, <1>3, <2>1 DEF Follows
  <1>5. OnlyUpTo(s, S, f)
    BY <1>3, <1>4 DEF OnlyUpTo
  <1>6. OnlyUpTo(s, S, only)
    BY <1>5
  <1>7. Only(s, S) = only[L]
    BY DEF Only, OnlyUpTo
  <1> HIDE DEF only
  <1>8. /\ only = [i \in 0..L |-> only[i]]
        /\ \A i \in 0..L : only[i] = IF i = 0 THEN <<>>
              ELSE IF s[i] \in S THEN Append(only[i - 1], s[i]) ELSE only[i - 1]
    BY Zenon, <1>6 DEF OnlyUpTo
  <1> HIDE DEF L
  <1> DEFINE T == {i \in 0..L : only[i] \in Seq(E)}
  <1>9. 0 \in T
    <2>1. 0 \in 0..L
      BY <1>1
    <2>2. only[0] = <<>>
      BY <1>8, <2>1
    <2> QED BY <1>1, <2>1, <2>2
  <1>10. ASSUME NEW i \in 1..L, i - 1 \in T PROVE i \in T
    <2>1. i \in 0..L /\ i # 0 /\ only[i - 1] \in Seq(E) /\ s[i] \in E
      BY <1>1, <1>10 DEF L
    <2>2. only[i] = IF s[i] \in S THEN Append(only[i - 1], s[i]) ELSE only[i - 1]
      BY <2>1, <1>8
    <2>3. only[i] \in Seq(E)
      BY <2>1, <2>2
    <2> QED BY <2>1, <2>3
  <1>11. \A i \in 0..L : only[i] \in Seq(E)
    <2> HIDE DEF T
    <2>1. \A i \in 0..L : i \in T
      BY <1>1, <1>9, <1>10, UpTo
    <2> QED BY <2>1 DEF T
  <1>12. only \in [0..L -> Seq(E)]
    BY <1>8, <1>11
  <1>13. \A i \in 1..L : i \in 0..L /\ i # 0
    BY <1>1
  <1>14. 0 \in 0..L
    BY <1>1
  <1>15. \A i \in 1..L : only[i] = IF s[i] \in S THEN Append(only[i - 1], s[i]) ELSE only[i - 1]
    BY <1>8, <1>13
  <1>16. only[0] = <<>>
    BY <1>8, <1>14
  <1>17. Places(E, s, S, only)
    BY <1>7, <1>12, <1>15, <1>16 DEF L, Places
  <1> QED BY <1>17

\* Only of one more element.
LEMMA OnlyAppend ==
    ASSUME NEW E, NEW s \in Seq(E), NEW x \in E, NEW S
    PROVE  Only(Append(s, x), S) = IF x \in S THEN Append(Only(s, S), x) ELSE Only(s, S)
  <1> DEFINE L == Len(s)
             t == Append(s, x)
  <1>1. /\ L \in Nat /\ t \in Seq(E) /\ Len(t) = L + 1 /\ t[L + 1] = x
        /\ \A i \in 1..L : t[i] = s[i]
    OBVIOUS
  <1> HIDE DEF t
  <1>2. PICK g : Places(E, s, S, g)
    BY OnlyIs
  <1>3. PICK h : Places(E, t, S, h)
    <2>1. t \in Seq(E)
      BY <1>1
    <2> QED BY <2>1, OnlyIs
  <1> DEFINE T == {i \in 0..L : g[i] = h[i]}
  <1>4. 0 \in T
    BY <1>1, <1>2, <1>3 DEF Places
  <1>5. ASSUME NEW i \in 1..L, i - 1 \in T PROVE i \in T
    <2>1. i \in 1..Len(t) /\ t[i] = s[i] /\ g[i - 1] = h[i - 1] /\ i \in 0..L
      BY <1>1, <1>5
    <2> QED BY <1>2, <1>3, <2>1 DEF Places
  <1> HIDE DEF T
  <1>6. \A i \in 0..L : i \in T
    BY <1>1, <1>4, <1>5, UpTo
  <1>7. g[L] = h[L]
    <2>1. L \in 0..L
      BY <1>1
    <2> QED BY <1>6, <2>1 DEF T
  <1>8. L + 1 \in 1..Len(t) /\ (L + 1) - 1 = L
    BY <1>1
  <1>9. h[L + 1] = IF x \in S THEN Append(h[L], x) ELSE h[L]
    BY <1>1, <1>3, <1>8 DEF Places
  <1> QED BY <1>1, <1>2, <1>3, <1>7, <1>9 DEF t, Places

\* What a sequence holds, without its order.
LEMMA RangeAppend ==
    ASSUME NEW E, NEW s \in Seq(E), NEW x \in E
    PROVE  /\ Append(s, x) \in Seq(E)
           /\ Range(Append(s, x)) = Range(s) \union {x}
           /\ IsInjective(s) /\ x \notin Range(s) => IsInjective(Append(s, x))
  <1> DEFINE n == Len(s)
             t == Append(s, x)
  <1>1. /\ n \in Nat /\ DOMAIN s = 1..n /\ DOMAIN t = 1..(n + 1) /\ t \in Seq(E)
        /\ t[n + 1] = x /\ \A i \in 1..n : t[i] = s[i]
    OBVIOUS
  <1> HIDE DEF n, t
  <1>2. /\ \A i \in 1..(n + 1) : i \in 1..n \/ i = n + 1
        /\ \A i \in 1..n : i \in 1..(n + 1)
        /\ n + 1 \in 1..(n + 1)
    BY <1>1
  <1>3. Range(t) = Range(s) \union {x}
    BY <1>1, <1>2 DEF Range
  <1>4. ASSUME IsInjective(s), x \notin Range(s) PROVE IsInjective(t)
    <2>1. \A i \in 1..n : s[i] # x
      BY <1>1, <1>4 DEF Range
    <2> QED BY <1>1, <1>2, <1>4, <2>1 DEF IsInjective
  <1> QED BY <1>1, <1>3, <1>4 DEF t

LEMMA RangeConcat ==
    ASSUME NEW E, NEW s \in Seq(E), NEW t \in Seq(E)
    PROVE  /\ s \o t \in Seq(E)
           /\ Range(s \o t) = Range(s) \union Range(t)
           /\ IsInjective(s) /\ IsInjective(t) /\ Range(s) \cap Range(t) = {}
                => IsInjective(s \o t)
  <1> DEFINE m == Len(s)
             n == Len(t)
             u == s \o t
  <1>1. /\ m \in Nat /\ n \in Nat /\ DOMAIN s = 1..m /\ DOMAIN t = 1..n
        /\ u \in Seq(E) /\ DOMAIN u = 1..(m + n)
        /\ \A i \in 1..m : u[i] = s[i]
        /\ \A i \in (m + 1)..(m + n) : u[i] = t[i - m]
    OBVIOUS
  <1> HIDE DEF m, n, u
  <1>2. /\ \A i \in 1..(m + n) : i \in 1..m \/ (i \in (m + 1)..(m + n) /\ i - m \in 1..n)
        /\ \A i \in 1..m : i \in 1..(m + n)
        /\ \A i \in 1..n : m + i \in (m + 1)..(m + n) /\ (m + i) - m = i /\ m + i \in 1..(m + n)
    BY <1>1
  <1>3. Range(u) = Range(s) \union Range(t)
    <2>1. ASSUME NEW i \in 1..(m + n) PROVE u[i] \in Range(s) \union Range(t)
      BY <1>1, <1>2 DEF Range
    <2>2. ASSUME NEW i \in 1..m PROVE s[i] \in Range(u)
      BY <1>1, <1>2 DEF Range
    <2>3. ASSUME NEW i \in 1..n PROVE t[i] \in Range(u)
      <3>1. u[m + i] = t[i] /\ m + i \in DOMAIN u
        BY <1>1, <1>2
      <3> QED BY <3>1 DEF Range
    <2> QED BY <1>1, <2>1, <2>2, <2>3 DEF Range
  <1>4. ASSUME IsInjective(s), IsInjective(t), Range(s) \cap Range(t) = {} PROVE IsInjective(u)
    <2> SUFFICES ASSUME NEW i \in 1..(m + n), NEW j \in 1..(m + n), u[i] = u[j] PROVE i = j
      BY <1>1 DEF IsInjective
    <2>1. CASE i \in 1..m /\ j \in 1..m
      BY <1>1, <1>4, <2>1 DEF IsInjective
    <2>2. CASE i - m \in 1..n /\ j - m \in 1..n
      <3>1. t[i - m] = t[j - m]
        BY <1>1, <2>2
      <3>2. i - m = j - m
        BY <1>1, <1>4, <2>2, <3>1 DEF IsInjective
      <3> QED BY <1>1, <3>2
    <2>3. ASSUME NEW a \in 1..m, NEW b \in 1..n PROVE s[a] # t[b]
      BY <1>1, <1>4 DEF Range
    <2>4. CASE i \in 1..m /\ j \in (m + 1)..(m + n) /\ j - m \in 1..n
      <3>1. u[i] = s[i] /\ u[j] = t[j - m]
        BY <1>1, <2>4
      <3> QED BY <2>3, <2>4, <3>1
    <2>5. CASE j \in 1..m /\ i \in (m + 1)..(m + n) /\ i - m \in 1..n
      <3>1. u[j] = s[j] /\ u[i] = t[i - m]
        BY <1>1, <2>5
      <3> QED BY <2>3, <2>5, <3>1
    <2> QED BY <1>2, <2>1, <2>2, <2>4, <2>5
  <1> QED BY <1>1, <1>3, <1>4 DEF u

\* Only keeps the elements of the set, each as often as it was there.
LEMMA OnlyRange ==
    ASSUME NEW E, NEW s \in Seq(E), NEW S
    PROVE  /\ Only(s, S) \in Seq(E)
           /\ Range(Only(s, S)) = Range(s) \cap S
           /\ IsInjective(s) => IsInjective(Only(s, S))
  <1> DEFINE L == Len(s)
  <1>1. L \in Nat /\ DOMAIN s = 1..L /\ \A i \in 1..L : s[i] \in E
    OBVIOUS
  <1>20. PICK g : Places(E, s, S, g)
    BY OnlyIs
  <1>2. /\ g \in [0..L -> Seq(E)] /\ g[0] = <<>> /\ Only(s, S) = g[L]
        /\ \A i \in 1..L : g[i] = IF s[i] \in S THEN Append(g[i - 1], s[i]) ELSE g[i - 1]
    BY <1>20 DEF Places
  <1> HIDE DEF L
  <1> DEFINE Upto(i) == {s[j] : j \in 1..i}
             T == {i \in 0..L : /\ Range(g[i]) = Upto(i) \cap S
                                /\ IsInjective(s) => IsInjective(g[i])}
  <1>3. 0 \in T
    <2>1. Range(<<>>) = {} /\ IsInjective(<<>>)
      BY DEF Range, IsInjective
    <2>2. 1..0 = {} /\ 0 \in 0..L
      BY <1>1
    <2> QED BY <1>2, <2>1, <2>2
  <1>4. ASSUME NEW i \in 1..L, i - 1 \in T PROVE i \in T
    <2>1. /\ i - 1 \in 0..L /\ i \in 0..L /\ g[i - 1] \in Seq(E) /\ s[i] \in E
          /\ 1..i = (1..(i - 1)) \union {i}
      BY <1>1, <1>2
    <2>2. Upto(i) = Upto(i - 1) \union {s[i]}
      BY <2>1
    <2>3. /\ Range(g[i - 1]) = Upto(i - 1) \cap S
          /\ IsInjective(s) => IsInjective(g[i - 1])
      BY <1>4
    <2>4. CASE s[i] \in S
      <3>1. Range(g[i]) = Upto(i) \cap S
        BY <1>2, <2>1, <2>2, <2>3, <2>4, RangeAppend
      <3>2. ASSUME IsInjective(s) PROVE IsInjective(g[i])
        <4>1. \A j \in 1..(i - 1) : j \in 1..L /\ j # i
          BY <1>1
        <4>2. s[i] \notin Upto(i - 1)
          BY <1>1, <3>2, <4>1 DEF IsInjective
        <4> QED BY <1>2, <2>1, <2>3, <2>4, <3>2, <4>2, RangeAppend
      <3> QED BY <2>1, <3>1, <3>2
    <2>5. CASE s[i] \notin S
      <3>1. g[i] = g[i - 1]
        BY <1>2, <2>5
      <3> QED BY <2>1, <2>2, <2>3, <2>5, <3>1
    <2> QED BY <2>4, <2>5
  <1>5. Upto(L) = Range(s)
    BY <1>1 DEF Range
  <1>6. L \in 0..L
    BY <1>1
  <1> HIDE DEF T
  <1>7. L \in T
    BY <1>1, <1>3, <1>4, <1>6, UpTo
  <1>8. g[L] \in Seq(E)
    BY <1>2, <1>6
  <1> QED BY <1>2, <1>5, <1>7, <1>8 DEF T, L

-------------------------------------------------------------------------------
(* Transforms that work point by point.                                      *)

SourcePoint == [metric : PointMetrics, source : Nat \X Nat]
BufferPoint == [metric : AllPointMetrics, source : Nat \X Nat]
SetupOK(setup) ==
    /\ setup.order \in PointOrders
    /\ setup.second \in BOOLEAN

\* A buffer that has come: its points are of different origins.
GoodBuffer(setup, in) ==
    /\ in.flags \subseteq Range(setup.order)
    /\ in.points \in Seq(SourcePoint)
    /\ \A i, j \in DOMAIN in.points : in.points[i].source = in.points[j].source => i = j

\* A buffer holds at a place what it is to hold, once.
HoldsDue(setup, held, in, place) ==
    /\ held \in Seq(BufferPoint)
    /\ Range(held) = DuePoints(setup, in, place)
    /\ IsInjective(held)

\* The orders of transforms are injective sequences.
LEMMA OrderOfPoints ==
    ASSUME NEW setup, SetupOK(setup)
    PROVE  /\ setup.order \in Seq({"filter", "carbon", "tdp"}) /\ Len(setup.order) \in Nat
           /\ DOMAIN setup.order = 1..Len(setup.order)
           /\ \A i, j \in DOMAIN setup.order : setup.order[i] = setup.order[j] => i = j
  BY PointAssumption DEF SetupOK

\* An enabled transform has one place, another one none.
LEMMA PlaceIs ==
    ASSUME NEW setup, SetupOK(setup), NEW in, GoodBuffer(setup, in), NEW t
    PROVE  /\ PlaceOf(setup, in, t) \in 0..Len(setup.order)
           /\ \A n \in DOMAIN setup.order : PlaceOf(setup, in, t) = n <=> t = setup.order[n] /\ t \in in.flags
  <1> DEFINE L == Len(setup.order)
             I == {i \in 1..L : setup.order[i] = t}
  <1>1. /\ L \in Nat /\ DOMAIN setup.order = 1..L
        /\ \A i, j \in 1..L : setup.order[i] = setup.order[j] => i = j
    BY OrderOfPoints
  <1>2. SelectInSeq(setup.order, LAMBDA u : u = t) = IF I # {} THEN Min(I) ELSE 0
    BY DEF SelectInSeq
  <1> HIDE DEF L
  <1>3. CASE t \notin in.flags
    <2>1. PlaceOf(setup, in, t) = 0
      BY <1>3 DEF PlaceOf
    <2> QED BY <1>1, <1>3, <2>1 DEF L
  <1>4. CASE t \in in.flags
    <2>1. PICK i \in 1..L : setup.order[i] = t
      BY <1>1, <1>4 DEF GoodBuffer, Range
    <2>2. I = {i}
      BY <1>1, <2>1
    <2>3. Min({i}) = i
      BY <1>1 DEF Min
    <2>4. PlaceOf(setup, in, t) = i
      BY <1>2, <1>4, <2>2, <2>3 DEF PlaceOf
    <2>5. \A n \in 1..L : i = n <=> t = setup.order[n]
      BY <1>1, <2>1
    <2> QED BY <1>1, <1>4, <2>1, <2>4, <2>5 DEF L
  <1> QED BY <1>3, <1>4

LEMMA EstimationIs ==
    ASSUME NEW setup, SetupOK(setup), NEW in, GoodBuffer(setup, in)
    PROVE  /\ EstimationPlace(setup, in) \in 0..Len(setup.order)
           /\ \A n \in DOMAIN setup.order :
                 EstimationPlace(setup, in) = n
                   <=> "tdp" = setup.order[n] /\ "tdp" \in in.flags /\ setup.second
  <1>1. Len(setup.order) \in Nat /\ DOMAIN setup.order = 1..Len(setup.order)
    BY OrderOfPoints
  <1> QED BY <1>1, PlaceIs DEF EstimationPlace

\* What is due changes at the place of an enabled transform only.
LEMMA DueAtDisabled ==
    ASSUME NEW setup, SetupOK(setup), NEW in, GoodBuffer(setup, in),
           NEW n \in DOMAIN setup.order, setup.order[n] \notin in.flags,
           NEW p, NEW m
    PROVE  IsDue(setup, in, n + 1, p, m) <=> IsDue(setup, in, n, p, m)
  <1> DEFINE f == PlaceOf(setup, in, "filter")
             c == PlaceOf(setup, in, "carbon")
             e == EstimationPlace(setup, in)
  <1>1. n \in Nat /\ f \in Nat /\ c \in Nat /\ e \in Nat
    BY OrderOfPoints, PlaceIs, EstimationIs
  <1>2. f # n /\ c # n /\ e # n
    BY PlaceIs, EstimationIs
  <1> HIDE DEF f, c, e
  <1>3. (f < n + 1 <=> f < n) /\ (c < n + 1 <=> c < n) /\ (e < n + 1 <=> e < n)
    BY <1>1, <1>2
  <1> QED BY <1>3 DEF IsDue, Passes, f, c, e

LEMMA DueAtFilter ==
    ASSUME NEW setup, SetupOK(setup), NEW in, GoodBuffer(setup, in),
           NEW n \in DOMAIN setup.order,
           setup.order[n] = "filter", "filter" \in in.flags, NEW p, NEW m
    PROVE  IsDue(setup, in, n + 1, p, m) <=> IsDue(setup, in, n, p, m) /\ m \in setup.keep
  <1> DEFINE f == PlaceOf(setup, in, "filter")
             c == PlaceOf(setup, in, "carbon")
             e == EstimationPlace(setup, in)
  <1>1. n \in Nat \ {0} /\ f = n /\ c \in Nat /\ e \in Nat
    BY OrderOfPoints, PlaceIs, EstimationIs
  <1>2. c # n /\ e # n
    BY PlaceIs, EstimationIs
  <1> HIDE DEF f, c, e
  <1>3. /\ c < n + 1 <=> c < n
        /\ e < n + 1 <=> e < n
        /\ ~(f < n) /\ f < n + 1 /\ f > 0
    BY <1>1, <1>2
  <1> QED BY <1>1, <1>3 DEF IsDue, Passes, f, c, e

LEMMA DueAtCarbon ==
    ASSUME NEW setup, SetupOK(setup), NEW in, GoodBuffer(setup, in),
           NEW n \in DOMAIN setup.order,
           setup.order[n] = "carbon", "carbon" \in in.flags, NEW p, p.metric \in PointMetrics, NEW m
    PROVE  /\ ~IsDue(setup, in, n, p, "carbon")
           /\ IsDue(setup, in, n + 1, p, m)
                <=> IsDue(setup, in, n, p, m) \/ (m = "carbon" /\ \E k \in Joules : IsDue(setup, in, n, p, k))
  <1> DEFINE f == PlaceOf(setup, in, "filter")
             c == PlaceOf(setup, in, "carbon")
             e == EstimationPlace(setup, in)
  <1>1. n \in Nat \ {0} /\ c = n /\ f \in Nat /\ e \in Nat
    BY OrderOfPoints, PlaceIs, EstimationIs
  <1>2. f # n /\ e # n
    BY PlaceIs, EstimationIs
  <1> HIDE DEF f, c, e
  <1>3. /\ f < n + 1 <=> f < n
        /\ e < n + 1 <=> e < n
        /\ ~(c < n) /\ c < n + 1 /\ c # 0
        /\ ~(f > n /\ f < n + 1)
    BY <1>1, <1>2
  <1>4. p.metric # "estimate" /\ p.metric # "carbon"
    BY PointAssumption
  <1>5. /\ ~IsDue(setup, in, n, p, "carbon")
        /\ IsDue(setup, in, n, p, "energy") <=> p.metric = "energy" /\ Passes(setup, in, "energy", 0, n)
        /\ IsDue(setup, in, n, p, "estimate") <=>
              p.metric = "cpu" /\ e # 0 /\ e < n /\ Passes(setup, in, "cpu", 0, e) /\ Passes(setup, in, "estimate", e, n)
    BY <1>1, <1>3, <1>4 DEF IsDue, c, e
  <1>6. \A k, from : Passes(setup, in, k, from, n + 1) <=> Passes(setup, in, k, from, n)
    BY <1>3 DEF Passes, f
  <1>7. Passes(setup, in, "carbon", n, n + 1)
    BY <1>3 DEF Passes, f
  <1>8. IsDue(setup, in, n + 1, p, m) <=> IsDue(setup, in, n, p, m) \/ (m = "carbon" /\ \E k \in Joules : IsDue(setup, in, n, p, k))
    <2>1. CASE m # "carbon"
      BY <1>3, <1>6, <2>1 DEF IsDue, c, e
    <2>2. CASE m = "carbon"
      BY <1>1, <1>3, <1>4, <1>5, <1>6, <1>7, <2>2 DEF IsDue, c, e, Joules
    <2> QED BY <2>1, <2>2
  <1> QED BY <1>5, <1>8

LEMMA DueAtEstimation ==
    ASSUME NEW setup, SetupOK(setup), NEW in, GoodBuffer(setup, in),
           NEW n \in DOMAIN setup.order,
           setup.order[n] = "tdp", "tdp" \in in.flags, NEW p, p.metric \in PointMetrics, NEW m
    PROVE  /\ ~IsDue(setup, in, n, p, "estimate")
           /\ IsDue(setup, in, n + 1, p, m)
                <=> \/ IsDue(setup, in, n, p, m)
                    \/ m = "estimate" /\ setup.second /\ IsDue(setup, in, n, p, "cpu")
  <1> DEFINE f == PlaceOf(setup, in, "filter")
             c == PlaceOf(setup, in, "carbon")
             e == EstimationPlace(setup, in)
  <1>1. n \in Nat \ {0} /\ c \in Nat /\ f \in Nat /\ e \in Nat
    BY OrderOfPoints, PlaceIs, EstimationIs
  <1>2. f # n /\ c # n /\ (setup.second <=> e = n) /\ (~setup.second => e = 0)
    BY PlaceIs, EstimationIs DEF EstimationPlace
  <1> HIDE DEF f, c, e
  <1>3. /\ f < n + 1 <=> f < n
        /\ c < n + 1 <=> c < n
        /\ ~(e # 0 /\ e < n)
        /\ (e # 0 /\ e < n + 1) <=> setup.second
        /\ ~(f > n /\ f < n + 1)
    BY <1>1, <1>2
  <1>4. p.metric # "estimate" /\ p.metric # "carbon"
    BY PointAssumption
  <1>5. /\ ~IsDue(setup, in, n, p, "estimate")
        /\ IsDue(setup, in, n, p, "cpu") <=> p.metric = "cpu" /\ Passes(setup, in, "cpu", 0, n)
    BY <1>1, <1>3, <1>4 DEF IsDue, c, e
  <1>6. \A k, from : Passes(setup, in, k, from, n + 1) <=> Passes(setup, in, k, from, n)
    BY <1>3 DEF Passes, f
  <1>7. Passes(setup, in, "estimate", n, n + 1)
    BY <1>3 DEF Passes, f
  <1>8. IsDue(setup, in, n + 1, p, m)
          <=> IsDue(setup, in, n, p, m) \/ (m = "estimate" /\ setup.second /\ IsDue(setup, in, n, p, "cpu"))
    <2>1. CASE m # "estimate"
      BY <1>3, <1>6, <2>1 DEF IsDue, c, e
    <2>2. CASE m = "estimate"
      BY <1>1, <1>2, <1>3, <1>4, <1>5, <1>6, <1>7, <2>2 DEF IsDue, c, e
    <2> QED BY <2>1, <2>2
  <1> QED BY <1>5, <1>8

\* The points due come from those of the buffer.
LEMMA DueMember ==
    ASSUME NEW setup, NEW in, NEW place, NEW q
    PROVE  q \in DuePoints(setup, in, place) <=>
             \E p \in Range(in.points) :
                /\ q = Derive(q.metric, p) /\ q.metric \in AllPointMetrics
                /\ IsDue(setup, in, place, p, q.metric)
  BY DEF DuePoints, Derive

\* The points of a buffer that has come.
LEMMA OriginsOf ==
    ASSUME NEW setup, SetupOK(setup), NEW in, GoodBuffer(setup, in)
    PROVE  /\ \A p \in Range(in.points) : p \in SourcePoint /\ p.metric \in PointMetrics
           /\ \A p, q \in Range(in.points) : p.source = q.source => p = q
  <1>1. DOMAIN in.points = 1..Len(in.points) /\ \A i \in DOMAIN in.points : in.points[i] \in SourcePoint
    BY DEF GoodBuffer
  <1>2. \A p \in Range(in.points) : \E i \in DOMAIN in.points : p = in.points[i]
    BY DEF Range
  <1>3. \A p \in Range(in.points) : p \in SourcePoint /\ p.metric \in PointMetrics
    BY <1>1, <1>2 DEF SourcePoint
  <1>4. \A p, q \in Range(in.points) : p.source = q.source => p = q
    BY <1>2 DEF GoodBuffer
  <1> QED BY <1>3, <1>4

\* Two points due with the same origin are made from the same point.
LEMMA SameOrigin ==
    ASSUME NEW setup, SetupOK(setup), NEW in, GoodBuffer(setup, in), NEW place,
           NEW q \in DuePoints(setup, in, place), NEW r \in DuePoints(setup, in, place), q.source = r.source
    PROVE  \E p \in Range(in.points) :
              /\ p.metric \in PointMetrics
              /\ IsDue(setup, in, place, p, q.metric) /\ IsDue(setup, in, place, p, r.metric)
              /\ q = Derive(q.metric, p) /\ r = Derive(r.metric, p)
  <1>1. PICK p \in Range(in.points) : q = Derive(q.metric, p) /\ IsDue(setup, in, place, p, q.metric)
    BY DueMember
  <1>2. PICK o \in Range(in.points) : r = Derive(r.metric, o) /\ IsDue(setup, in, place, o, r.metric)
    BY DueMember
  <1>3. p.source = q.source /\ o.source = r.source
    BY <1>1, <1>2 DEF Derive
  <1>4. p = o /\ p.metric \in PointMetrics
    BY <1>3, OriginsOf
  <1> QED BY <1>1, <1>2, <1>4

\* The points made from those of some metrics.
LEMMA DerivedPoints ==
    ASSUME NEW b \in Seq(BufferPoint), NEW M, NEW m \in AllPointMetrics, NEW sub, NEW d,
           sub = OfMetrics(b, M), d = [i \in DOMAIN sub |-> Derive(m, sub[i])]
    PROVE  /\ d \in Seq(BufferPoint)
           /\ Range(d) = {Derive(m, q) : q \in {q \in Range(b) : q.metric \in M}}
           /\ IsInjective(b) /\ (\A q, r \in Range(b) :
                   q.metric \in M /\ r.metric \in M /\ q.source = r.source => q = r)
                => IsInjective(d)
  <1>1. /\ sub \in Seq(BufferPoint)
        /\ Range(sub) = {q \in Range(b) : q.metric \in M}
        /\ IsInjective(b) => IsInjective(sub)
    BY OnlyRange DEF OfMetrics
  <1>2. DOMAIN sub = 1..Len(sub) /\ Len(sub) \in Nat /\ \A i \in DOMAIN sub : sub[i] \in BufferPoint
    BY <1>1
  <1>3. \A i \in DOMAIN sub : Derive(m, sub[i]) \in BufferPoint
    BY <1>2 DEF Derive, BufferPoint
  <1>4. d \in Seq(BufferPoint)
    BY <1>2, <1>3
  <1>5. Range(d) = {Derive(m, q) : q \in Range(sub)}
    BY DEF Range
  <1>6. ASSUME IsInjective(b), \A q, r \in Range(b) :
                   q.metric \in M /\ r.metric \in M /\ q.source = r.source => q = r
        PROVE  IsInjective(d)
    <2> SUFFICES ASSUME NEW i \in DOMAIN sub, NEW j \in DOMAIN sub, d[i] = d[j] PROVE i = j
      BY DEF IsInjective
    <2>1. sub[i].source = sub[j].source
      BY DEF Derive
    <2>2. sub[i] \in Range(sub) /\ sub[j] \in Range(sub)
      BY DEF Range
    <2>3. sub[i] = sub[j]
      BY <1>1, <1>6, <2>1, <2>2
    <2> QED BY <1>1, <1>6, <2>3 DEF IsInjective
  <1> QED BY <1>1, <1>4, <1>5, <1>6

LEMMA DisabledHolds ==
    ASSUME NEW setup, SetupOK(setup), NEW in, GoodBuffer(setup, in),
           NEW n \in DOMAIN setup.order, NEW b, HoldsDue(setup, b, in, n),
           setup.order[n] \notin in.flags
    PROVE  HoldsDue(setup, b, in, n + 1)
  <1>1. \A q : q \in DuePoints(setup, in, n + 1) <=> q \in DuePoints(setup, in, n)
    BY DueMember, DueAtDisabled
  <1> QED BY <1>1 DEF HoldsDue

LEMMA FilterHolds ==
    ASSUME NEW setup, SetupOK(setup), NEW in, GoodBuffer(setup, in),
           NEW n \in DOMAIN setup.order, NEW b, HoldsDue(setup, b, in, n),
           setup.order[n] = "filter", "filter" \in in.flags
    PROVE  HoldsDue(setup, OfMetrics(b, setup.keep), in, n + 1)
  <1>1. /\ OfMetrics(b, setup.keep) \in Seq(BufferPoint) /\ IsInjective(OfMetrics(b, setup.keep))
        /\ Range(OfMetrics(b, setup.keep)) = {q \in Range(b) : q.metric \in setup.keep}
    BY OnlyRange DEF HoldsDue, OfMetrics
  <1>2. \A q : q \in DuePoints(setup, in, n + 1) <=> q \in DuePoints(setup, in, n) /\ q.metric \in setup.keep
    BY DueMember, DueAtFilter
  <1> QED BY <1>1, <1>2 DEF HoldsDue

LEMMA CarbonHolds ==
    ASSUME NEW setup, SetupOK(setup), NEW in, GoodBuffer(setup, in),
           NEW n \in DOMAIN setup.order, NEW b, HoldsDue(setup, b, in, n),
           setup.order[n] = "carbon", "carbon" \in in.flags
    PROVE  HoldsDue(setup, WithCarbon(b), in, n + 1)
  <1> DEFINE sub == OfMetrics(b, Joules)
             d == [i \in DOMAIN sub |-> Derive("carbon", sub[i])]
             D == DuePoints(setup, in, n)
  <1>1. /\ b \in Seq(BufferPoint) /\ Range(b) = D /\ IsInjective(b)
        /\ "carbon" \in AllPointMetrics
    BY DEF HoldsDue, AllPointMetrics
  <1>2. ASSUME NEW q \in D, NEW r \in D, q.metric \in Joules, r.metric \in Joules, q.source = r.source
        PROVE  q = r
    <2>1. PICK p \in Range(in.points) :
              /\ p.metric \in PointMetrics
              /\ IsDue(setup, in, n, p, q.metric) /\ IsDue(setup, in, n, p, r.metric)
              /\ q = Derive(q.metric, p) /\ r = Derive(r.metric, p)
      BY <1>2, SameOrigin
    <2>2. q.metric = r.metric
      BY <1>2, <2>1, PointAssumption DEF IsDue, Joules
    <2> QED BY <2>1, <2>2
  <1>3. /\ d \in Seq(BufferPoint) /\ IsInjective(d)
        /\ Range(d) = {Derive("carbon", q) : q \in {q \in D : q.metric \in Joules}}
    BY <1>1, <1>2, DerivedPoints
  <1>4. \A q \in D : q.metric # "carbon"
    BY DueMember, DueAtCarbon, OriginsOf
  <1>5. Range(b) \cap Range(d) = {}
    BY <1>1, <1>3, <1>4 DEF Derive
  <1>6. WithCarbon(b) = b \o d
    BY DEF WithCarbon
  <1> HIDE DEF d, D
  <1>7. /\ WithCarbon(b) \in Seq(BufferPoint) /\ IsInjective(WithCarbon(b))
        /\ Range(WithCarbon(b)) = Range(b) \union Range(d)
    BY <1>1, <1>3, <1>5, <1>6, RangeConcat
  <1>8. ASSUME NEW q, q \in DuePoints(setup, in, n + 1) PROVE q \in D \union Range(d)
    <2>1. PICK p \in Range(in.points) :
                /\ q = Derive(q.metric, p) /\ q.metric \in AllPointMetrics
                /\ IsDue(setup, in, n + 1, p, q.metric)
      BY <1>8, DueMember
    <2>2. p.metric \in PointMetrics
      BY OriginsOf
    <2>3. CASE IsDue(setup, in, n, p, q.metric)
      BY <2>1, <2>3, DueMember DEF D
    <2>4. CASE q.metric = "carbon" /\ \E k \in Joules : IsDue(setup, in, n, p, k)
      <3>1. PICK k \in Joules : IsDue(setup, in, n, p, k)
        BY <2>4
      <3>2. k \in AllPointMetrics
        BY <2>2, <3>1 DEF Joules, AllPointMetrics, IsDue
      <3>3. Derive(k, p) \in D /\ Derive(k, p).metric = k /\ Derive("carbon", Derive(k, p)) = q
        BY <2>1, <2>4, <3>1, <3>2, DueMember DEF Derive, D
      <3> QED BY <1>3, <3>3
    <2> QED BY <2>1, <2>2, <2>3, <2>4, DueAtCarbon
  <1>9. ASSUME NEW q, q \in D \union Range(d) PROVE q \in DuePoints(setup, in, n + 1)
    <2>1. CASE q \in D
      BY <2>1, DueMember, DueAtCarbon, OriginsOf DEF D
    <2>2. CASE q \in Range(d)
      <3>1. PICK r \in D : r.metric \in Joules /\ q = Derive("carbon", r)
        BY <1>3, <2>2
      <3>2. PICK p \in Range(in.points) : r = Derive(r.metric, p) /\ IsDue(setup, in, n, p, r.metric)
        BY <3>1, DueMember DEF D
      <3>3. q = Derive("carbon", p) /\ q.metric = "carbon"
        BY <3>1, <3>2 DEF Derive
      <3>4. IsDue(setup, in, n + 1, p, "carbon")
        BY <3>1, <3>2, DueAtCarbon, OriginsOf
      <3>5. /\ q = Derive(q.metric, p) /\ q.metric \in AllPointMetrics
            /\ IsDue(setup, in, n + 1, p, q.metric)
        BY <1>1, <3>3, <3>4
      <3> QED BY <3>5, DueMember
    <2> QED BY <1>9, <2>1, <2>2
  <1>10. DuePoints(setup, in, n + 1) = D \union Range(d)
    BY <1>8, <1>9
  <1> QED BY <1>1, <1>7, <1>10 DEF HoldsDue

LEMMA EstimatesHold ==
    ASSUME NEW setup, SetupOK(setup), NEW in, GoodBuffer(setup, in),
           NEW n \in DOMAIN setup.order, NEW b, HoldsDue(setup, b, in, n),
           setup.order[n] = "tdp", "tdp" \in in.flags
    PROVE  HoldsDue(setup, IF setup.second THEN WithEstimates(b) ELSE b, in, n + 1)
  <1> DEFINE sub == OfMetrics(b, {"cpu"})
             d == [i \in DOMAIN sub |-> Derive("estimate", sub[i])]
             D == DuePoints(setup, in, n)
  <1>1. /\ b \in Seq(BufferPoint) /\ Range(b) = D /\ IsInjective(b)
        /\ "estimate" \in AllPointMetrics
    BY DEF HoldsDue, AllPointMetrics
  <1>2. ASSUME NEW q \in D, NEW r \in D, q.metric \in {"cpu"}, r.metric \in {"cpu"}, q.source = r.source
        PROVE  q = r
    <2>1. PICK p \in Range(in.points) : q = Derive(q.metric, p) /\ r = Derive(r.metric, p)
      BY <1>2, SameOrigin
    <2> QED BY <1>2, <2>1
  <1>3. /\ d \in Seq(BufferPoint) /\ IsInjective(d)
        /\ Range(d) = {Derive("estimate", q) : q \in {q \in D : q.metric \in {"cpu"}}}
    BY <1>1, <1>2, DerivedPoints
  <1>4. \A q \in D : q.metric # "estimate"
    BY DueMember, DueAtEstimation, OriginsOf
  <1>5. Range(b) \cap Range(d) = {}
    BY <1>1, <1>3, <1>4 DEF Derive
  <1>6. WithEstimates(b) = b \o d
    BY DEF WithEstimates
  <1> HIDE DEF d, D
  <1>7. /\ WithEstimates(b) \in Seq(BufferPoint) /\ IsInjective(WithEstimates(b))
        /\ Range(WithEstimates(b)) = Range(b) \union Range(d)
    BY <1>1, <1>3, <1>5, <1>6, RangeConcat
  <1>8. ASSUME NEW q, q \in DuePoints(setup, in, n + 1)
        PROVE  q \in IF setup.second THEN D \union Range(d) ELSE D
    <2>1. PICK p \in Range(in.points) :
                /\ q = Derive(q.metric, p) /\ q.metric \in AllPointMetrics
                /\ IsDue(setup, in, n + 1, p, q.metric)
      BY <1>8, DueMember
    <2>2. p.metric \in PointMetrics
      BY OriginsOf
    <2>3. CASE IsDue(setup, in, n, p, q.metric)
      BY <2>1, <2>3, DueMember DEF D
    <2>4. CASE q.metric = "estimate" /\ setup.second /\ IsDue(setup, in, n, p, "cpu")
      <3>1. "cpu" \in AllPointMetrics
        BY <2>2, <2>4 DEF AllPointMetrics, IsDue
      <3>2. Derive("cpu", p) \in D /\ Derive("cpu", p).metric = "cpu"
            /\ Derive("estimate", Derive("cpu", p)) = q
        BY <2>1, <2>4, <3>1, DueMember DEF Derive, D
      <3> QED BY <1>3, <2>4, <3>2
    <2> QED BY <2>1, <2>2, <2>3, <2>4, DueAtEstimation
  <1>9. ASSUME NEW q, q \in IF setup.second THEN D \union Range(d) ELSE D
        PROVE  q \in DuePoints(setup, in, n + 1)
    <2>1. CASE q \in D
      BY <2>1, DueMember, DueAtEstimation, OriginsOf DEF D
    <2>2. CASE setup.second /\ q \in Range(d)
      <3>1. PICK r \in D : r.metric = "cpu" /\ q = Derive("estimate", r)
        BY <1>3, <2>2
      <3>2. PICK p \in Range(in.points) : r = Derive(r.metric, p) /\ IsDue(setup, in, n, p, r.metric)
        BY <3>1, DueMember DEF D
      <3>3. q = Derive("estimate", p) /\ q.metric = "estimate"
        BY <3>1, <3>2 DEF Derive
      <3>4. IsDue(setup, in, n + 1, p, "estimate")
        BY <2>2, <3>1, <3>2, DueAtEstimation, OriginsOf
      <3>5. /\ q = Derive(q.metric, p) /\ q.metric \in AllPointMetrics
            /\ IsDue(setup, in, n + 1, p, q.metric)
        BY <1>1, <3>3, <3>4
      <3> QED BY <3>5, DueMember
    <2> QED BY <1>9, <2>1, <2>2
  <1>10. DuePoints(setup, in, n + 1) = IF setup.second THEN D \union Range(d) ELSE D
    BY <1>8, <1>9
  <1> QED BY <1>1, <1>7, <1>10 DEF HoldsDue, SetupOK

\* The buffer in progress holds what is due at the place reached; those that were sent, what is
\* due at the last place.
PointTask == [buffer : Seq(BufferPoint), flags : SUBSET Range(pointSetup.order),
              next : Nat, factor : BOOLEAN]
PointBatch == [points : Seq(SourcePoint), flags : SUBSET Range(pointSetup.order)]

PointTyped ==
    /\ SetupOK(pointSetup)
    /\ pointFlags \subseteq Range(pointSetup.order)
    /\ pointTask \in PointTask
    /\ pointIn \in Seq(PointBatch) /\ pointOut \in Seq(Seq(BufferPoint))

PointInv ==
    /\ PointTyped
    /\ pointTask.next =< Len(pointSetup.order) + 1
    /\ pointTask.factor => pointSetup.second
    /\ Len(pointIn) = IF pointTask.next = 0 THEN Len(pointOut) ELSE Len(pointOut) + 1
    /\ \A i \in DOMAIN pointIn : GoodBuffer(pointSetup, pointIn[i])
    /\ \A i \in DOMAIN pointOut :
          HoldsDue(pointSetup, pointOut[i], pointIn[i], Len(pointSetup.order) + 1)
    /\ pointTask.next # 0 =>
          /\ pointTask.flags = pointIn[Len(pointIn)].flags
          /\ HoldsDue(pointSetup, pointTask.buffer, pointIn[Len(pointIn)], pointTask.next)

LEMMA PointInitOK == PointTransformsInit => PointInv
  <1> SUFFICES ASSUME PointTransformsInit PROVE PointInv
    OBVIOUS
  <1>1. SetupOK(pointSetup)
    BY DEF PointTransformsInit, SetupOK
  <1>2. PointTyped
    BY <1>1 DEF PointTransformsInit, PointTyped, PointTask
  <1>3. /\ pointTask.next = 0 /\ pointTask.factor = FALSE /\ pointIn = <<>> /\ pointOut = <<>>
    BY DEF PointTransformsInit
  <1>4. Len(pointSetup.order) \in Nat
    BY <1>1, OrderOfPoints
  <1> QED BY <1>2, <1>3, <1>4 DEF PointInv

\* A buffer that comes holds what is due at the first place.
LEMMA ComesDue ==
    ASSUME NEW setup, SetupOK(setup), NEW in, GoodBuffer(setup, in)
    PROVE  HoldsDue(setup, in.points, in, 1)
  <1>1. ASSUME NEW p \in Range(in.points), NEW m PROVE IsDue(setup, in, 1, p, m) <=> m = p.metric
    <2>1. PlaceOf(setup, in, "filter") \in Nat /\ PlaceOf(setup, in, "carbon") \in Nat
          /\ EstimationPlace(setup, in) \in Nat
      BY OrderOfPoints, PlaceIs, EstimationIs
    <2> QED BY <2>1 DEF IsDue, Passes
  <1>2. ASSUME NEW p \in Range(in.points)
        PROVE  p = Derive(p.metric, p) /\ p.metric \in AllPointMetrics /\ p \in BufferPoint
    <2>1. p \in SourcePoint
      BY OriginsOf
    <2> QED BY <2>1 DEF SourcePoint, BufferPoint, Derive, AllPointMetrics
  <1>3. DuePoints(setup, in, 1) = Range(in.points)
    <2>1. ASSUME NEW q \in DuePoints(setup, in, 1) PROVE q \in Range(in.points)
      <3>1. PICK p \in Range(in.points) : q = Derive(q.metric, p) /\ IsDue(setup, in, 1, p, q.metric)
        BY DueMember
      <3>2. q.metric = p.metric /\ p = Derive(p.metric, p)
        BY <1>1, <1>2, <3>1
      <3> QED BY <3>1, <3>2
    <2>2. ASSUME NEW p \in Range(in.points) PROVE p \in DuePoints(setup, in, 1)
      <3>1. p = Derive(p.metric, p) /\ p.metric \in AllPointMetrics /\ IsDue(setup, in, 1, p, p.metric)
        BY <1>1, <1>2
      <3> QED BY <3>1, DueMember
    <2> QED BY <2>1, <2>2
  <1>4. in.points \in Seq(BufferPoint)
    <2>1. in.points \in Seq(SourcePoint) /\ SourcePoint \subseteq BufferPoint
      BY DEF GoodBuffer, SourcePoint, BufferPoint, AllPointMetrics
    <2> QED BY <2>1
  <1>5. IsInjective(in.points)
    BY DEF GoodBuffer, IsInjective
  <1> QED BY <1>3, <1>4, <1>5 DEF HoldsDue

LEMMA TakeBufferOK ==
    ASSUME PointInv, NEW n \in Nat, NEW metrics \in [1..n -> PointMetrics], TakeBuffer(metrics)
    PROVE  PointInv'
  <1> DEFINE k == Len(pointIn)
             points == [i \in DOMAIN metrics |-> [metric |-> metrics[i], source |-> <<k + 1, i>>]]
             in == [points |-> points, flags |-> pointFlags]
  <1>1. /\ PointTyped /\ pointTask.next = 0
        /\ pointTask' = [pointTask EXCEPT !.buffer = points, !.flags = pointFlags, !.next = 1]
        /\ pointIn' = Append(pointIn, in)
        /\ UNCHANGED <<pointSetup, pointFlags, pointOut>>
    BY DEF TakeBuffer, PointInv
  <1>2. k \in Nat /\ DOMAIN metrics = 1..n /\ Len(pointOut) = k
    BY <1>1 DEF PointInv, PointTyped
  <1>3. /\ DOMAIN points = 1..n
        /\ \A i \in 1..n : points[i] = [metric |-> metrics[i], source |-> <<k + 1, i>>]
    BY <1>2
  <1> HIDE DEF points
  <1>4. \A i \in 1..n : points[i] \in SourcePoint
    BY <1>2, <1>3 DEF SourcePoint
  <1>5. points \in Seq(SourcePoint)
    <2>1. points = [i \in 1..n |-> points[i]]
      BY <1>2 DEF points
    <2> QED BY <1>4, <2>1
  <1>6. \A i, j \in DOMAIN points : points[i].source = points[j].source => i = j
    BY <1>3
  <1>7. GoodBuffer(pointSetup, in)
    BY <1>1, <1>5, <1>6 DEF GoodBuffer, PointTyped
  <1>8. HoldsDue(pointSetup, points, in, 1)
    BY <1>1, <1>7, ComesDue DEF PointTyped
  <1>9. points \in Seq(BufferPoint)
    BY <1>8 DEF HoldsDue
  <1>10. in \in PointBatch
    BY <1>1, <1>5 DEF PointBatch, PointTyped
  <1> HIDE DEF in, k
  <1>11. /\ pointIn' \in Seq(PointBatch) /\ Len(pointIn') = k + 1 /\ pointIn'[k + 1] = in
         /\ DOMAIN pointIn' = 1..(k + 1) /\ DOMAIN pointOut = 1..k
         /\ \A i \in 1..k : pointIn'[i] = pointIn[i] /\ i \in DOMAIN pointIn
    BY <1>1, <1>2, <1>10 DEF PointTyped, k
  <1>12. /\ pointTask' \in PointTask /\ pointTask'.buffer = points /\ pointTask'.next = 1
         /\ pointTask'.flags = pointFlags /\ pointTask'.factor = pointTask.factor
    BY <1>1, <1>9 DEF PointTyped, PointTask
  <1>13. PointTyped'
    BY <1>1, <1>11, <1>12 DEF PointTyped, PointTask, PointBatch
  <1>14. Len(pointSetup.order) \in Nat
    BY <1>1, OrderOfPoints DEF PointTyped
  <1>15. \A i \in DOMAIN pointIn' : GoodBuffer(pointSetup, pointIn'[i])
    <2>1. \A i \in 1..(k + 1) : i \in 1..k \/ i = k + 1
      BY <1>2 DEF k
    <2> QED BY <1>7, <1>11, <2>1 DEF PointInv
  <1>16. in.flags = pointFlags
    BY DEF in
  <1> QED BY <1>1, <1>2, <1>8, <1>11, <1>12, <1>13, <1>14, <1>15, <1>16 DEF PointInv

LEMMA RunTransformOK == ASSUME PointInv, RunTransform PROVE PointInv'
  <1> DEFINE n == pointTask.next
             t == pointSetup.order[n]
             b == pointTask.buffer
             in == pointIn[Len(pointIn)]
             known == pointTask.factor \/ pointSetup.second
             result == CASE t = "filter" -> Filtered(b)
                         [] t = "carbon" -> WithCarbon(b)
                         [] OTHER -> IF known THEN WithEstimates(b) ELSE b
             next == IF IsEnabled(t) THEN result ELSE b
  <1>1. /\ PointTyped /\ n \in DOMAIN pointSetup.order
        /\ pointTask' = [pointTask EXCEPT !.next = @ + 1, !.buffer = next,
                            !.factor = IF IsEnabled(t) /\ t = "tdp" THEN known ELSE @]
        /\ UNCHANGED <<pointSetup, pointFlags, pointIn, pointOut>>
    BY DEF RunTransform, PointInv
  <1>2. /\ SetupOK(pointSetup) /\ Len(pointSetup.order) \in Nat
        /\ DOMAIN pointSetup.order = 1..Len(pointSetup.order)
        /\ t \in {"filter", "carbon", "tdp"}
    BY <1>1, OrderOfPoints DEF PointTyped
  <1>3. n \in Nat \ {0} /\ n =< Len(pointSetup.order) /\ n + 1 # 0
    BY <1>1, <1>2
  <1>4. Len(pointIn) \in DOMAIN pointIn
    BY <1>1, <1>3 DEF PointInv, PointTyped
  <1>5. GoodBuffer(pointSetup, in) /\ HoldsDue(pointSetup, b, in, n) /\ pointTask.flags = in.flags
    BY <1>3, <1>4 DEF PointInv
  <1>6. IsEnabled(t) <=> t \in in.flags
    BY <1>5 DEF IsEnabled
  <1>7. known = pointSetup.second
    BY <1>1 DEF PointInv, PointTyped, PointTask, SetupOK
  <1>8. HoldsDue(pointSetup, next, in, n + 1)
    <2> HIDE DEF in, n, b
    <2>1. CASE t \notin in.flags
      BY <1>1, <1>2, <1>5, <1>6, <2>1, DisabledHolds
    <2>2. CASE t \in in.flags /\ t = "filter"
      BY <1>1, <1>2, <1>5, <1>6, <2>2, FilterHolds DEF Filtered
    <2>3. CASE t \in in.flags /\ t = "carbon"
      BY <1>1, <1>2, <1>5, <1>6, <2>3, CarbonHolds
    <2>4. CASE t \in in.flags /\ t = "tdp"
      BY <1>1, <1>2, <1>5, <1>6, <1>7, <2>4, EstimatesHold
    <2> QED BY <1>2, <2>1, <2>2, <2>3, <2>4
  <1>9. next \in Seq(BufferPoint)
    BY <1>8 DEF HoldsDue
  <1> HIDE DEF next, known
  <1>10. /\ pointTask' \in PointTask /\ pointTask'.buffer = next /\ pointTask'.next = n + 1
         /\ pointTask'.flags = pointTask.flags
         /\ pointTask'.factor => pointTask.factor \/ known
    <2> DEFINE factor == IF IsEnabled(t) /\ t = "tdp" THEN known ELSE pointTask.factor
    <2>1. pointTask \in PointTask /\ known \in BOOLEAN
      BY <1>1, <1>2, <1>7 DEF PointTyped, SetupOK
    <2>2. factor \in BOOLEAN /\ (factor => pointTask.factor \/ known)
      BY <2>1 DEF PointTask
    <2>3. pointTask' = [pointTask EXCEPT !.next = n + 1, !.buffer = next, !.factor = factor]
      BY <1>1
    <2> HIDE DEF factor, known, next
    <2>4. /\ DOMAIN pointTask = {"buffer", "flags", "next", "factor"}
          /\ pointTask = [x \in DOMAIN pointTask |-> pointTask[x]]
      BY <2>1 DEF PointTask
    <2> HIDE DEF n
    <2>5. pointTask' = [buffer |-> next, flags |-> pointTask.flags, next |-> n + 1, factor |-> factor]
      BY <2>3, <2>4
    <2>6. pointTask.flags \in SUBSET Range(pointSetup.order)
      BY <2>1 DEF PointTask
    <2> QED BY <1>3, <1>9, <2>2, <2>5, <2>6 DEF PointTask
  <1>11. PointTyped'
    BY <1>1, <1>10 DEF PointTyped, PointTask, PointBatch
  <1> HIDE DEF n
  <1> QED BY <1>1, <1>2, <1>3, <1>5, <1>7, <1>8, <1>10, <1>11 DEF PointInv

LEMMA SendBufferOK == ASSUME PointInv, SendBuffer PROVE PointInv'
  <1> DEFINE k == Len(pointOut)
             L == Len(pointSetup.order) + 1
             b == pointTask.buffer
  <1>1. /\ PointTyped /\ pointTask.next = L
        /\ pointOut' = Append(pointOut, b)
        /\ pointTask' = [pointTask EXCEPT !.next = 0, !.buffer = <<>>]
        /\ UNCHANGED <<pointSetup, pointFlags, pointIn>>
    BY DEF SendBuffer, PointInv
  <1>2. L \in Nat \ {0}
    BY <1>1, OrderOfPoints DEF PointTyped
  <1>3. k \in Nat /\ Len(pointIn) = k + 1 /\ b \in Seq(BufferPoint)
    BY <1>1, <1>2 DEF PointInv, PointTyped, PointTask
  <1>4. HoldsDue(pointSetup, b, pointIn[k + 1], L)
    BY <1>1, <1>2, <1>3 DEF PointInv
  <1> HIDE DEF b
  <1>5. /\ pointOut' \in Seq(Seq(BufferPoint)) /\ Len(pointOut') = k + 1
        /\ DOMAIN pointOut' = 1..(k + 1) /\ pointOut'[k + 1] = b
        /\ \A i \in 1..k : pointOut'[i] = pointOut[i] /\ i \in DOMAIN pointOut
    BY <1>1, <1>3 DEF PointTyped
  <1>6. /\ pointTask' \in PointTask /\ pointTask'.next = 0 /\ pointTask'.factor = pointTask.factor
    <2>1. <<>> \in Seq(BufferPoint)
      OBVIOUS
    <2> QED BY <1>1, <2>1 DEF PointTyped, PointTask
  <1>7. PointTyped'
    BY <1>1, <1>5, <1>6 DEF PointTyped, PointTask, PointBatch
  <1>8. \A i \in DOMAIN pointOut' : HoldsDue(pointSetup, pointOut'[i], pointIn[i], L)
    <2>1. \A i \in 1..(k + 1) : i \in 1..k \/ i = k + 1
      BY <1>3
    <2> QED BY <1>4, <1>5, <2>1 DEF PointInv
  <1> HIDE DEF k
  <1> QED BY <1>1, <1>2, <1>3, <1>5, <1>6, <1>7, <1>8 DEF PointInv

LEMMA PointTransformsInvariant == PointTransformsSpec => []PointInv
  <1>1. PointInv /\ [PointTransformsNext]_pointVars => PointInv'
    <2> SUFFICES ASSUME PointInv, [PointTransformsNext]_pointVars PROVE PointInv'
      OBVIOUS
    <2>1. ASSUME NEW metrics \in UNION {[1..n -> PointMetrics] : n \in 0..MaxPointsIn},
                 TakeBuffer(metrics)
          PROVE  PointInv'
      <3>1. PICK n \in 0..MaxPointsIn : metrics \in [1..n -> PointMetrics]
        OBVIOUS
      <3>2. n \in Nat
        OBVIOUS
      <3> QED BY <2>1, <3>1, <3>2, TakeBufferOK
    <2>2. CASE RunTransform
      BY <2>2, RunTransformOK
    <2>3. CASE SendBuffer
      BY <2>3, SendBufferOK
    <2>4. CASE \E t \in {"filter", "carbon", "tdp"} : ToggleTransform(t)
      <3>1. PICK t : ToggleTransform(t)
        BY <2>4
      <3>2. /\ pointFlags' \subseteq Range(pointSetup.order)
            /\ UNCHANGED <<pointSetup, pointTask, pointIn, pointOut>>
        BY <3>1 DEF ToggleTransform, PointInv, PointTyped
      <3> QED BY <3>2 DEF PointInv, PointTyped, PointTask, PointBatch
    <2>5. CASE UNCHANGED pointVars
      BY <2>5 DEF pointVars, PointInv, PointTyped, PointTask, PointBatch
    <2> QED BY <2>1, <2>2, <2>3, <2>4, <2>5 DEF PointTransformsNext
  <1> QED BY <1>1, PointInitOK, PTL DEF PointTransformsSpec

\* The elements of an injective sequence are as many as it is long.
LEMMA InjectiveLength ==
    ASSUME NEW E, NEW s \in Seq(E), IsInjective(s)
    PROVE  Len(s) = Cardinality(Range(s))
  <1>1. Len(s) \in Nat /\ DOMAIN s = 1..Len(s)
    OBVIOUS
  <1>2. IsFiniteSet(1..Len(s)) /\ Cardinality(1..Len(s)) = Len(s)
    BY <1>1, FS_Interval
  <1>3. s \in Bijection(1..Len(s), Range(s))
    BY <1>1 DEF IsInjective, Range, Bijection, Injection, Surjection
  <1>4. ExistsBijection(1..Len(s), Range(s))
    BY <1>3 DEF ExistsBijection
  <1> QED BY <1>2, <1>4, FS_Bijection

\* Every buffer sent holds what the transforms enabled when it came make of it, for any orders,
\* buffers and changes of the flags.
THEOREM BuffersStayConsistent == PointTransformsSpec => []BuffersAreConsistent
  <1>1. PointInv => BuffersAreConsistent
    BY InjectiveLength DEF PointInv, HoldsDue, BuffersAreConsistent
  <1> QED BY <1>1, PointTransformsInvariant, PTL

-------------------------------------------------------------------------------
(* Parts of sequences.                                                       *)

\* What Append gives.
LEMMA AppendIs ==
    ASSUME NEW E, NEW s \in Seq(E), NEW x \in E
    PROVE  /\ Append(s, x) \in Seq(E) /\ Len(s) \in Nat /\ Len(Append(s, x)) = Len(s) + 1
           /\ Append(s, x)[Len(s) + 1] = x /\ \A k \in 1..Len(s) : Append(s, x)[k] = s[k]
  OBVIOUS

\* What follows the first c elements of a sequence.
LEMMA RestOf ==
    ASSUME NEW E, NEW s \in Seq(E), NEW c \in 0..Len(s)
    PROVE  LET rest == SubSeq(s, c + 1, Len(s))
           IN /\ rest \in Seq(E) /\ Len(rest) = Len(s) - c
              /\ \A j \in 1..(Len(s) - c) : rest[j] = s[c + j]
  <1> DEFINE n == Len(s)
             rest == SubSeq(s, c + 1, Len(s))
  <1>1. n \in Nat /\ c \in 0..n /\ \A i \in 1..n : s[i] \in E
    OBVIOUS
  <1>2. rest = SubSeq(s, c + 1, n)
    OBVIOUS
  <1> HIDE DEF n, rest
  <1>3. /\ c + 1 \in Int /\ n \in Int /\ \A i \in (c + 1)..n : s[i] \in E
        /\ n - (c + 1) + 1 = n - c /\ (c + 1 =< n \/ n - c = 0)
    BY <1>1
  <1>4. /\ rest \in Seq(E) /\ Len(rest) = IF c + 1 =< n THEN n - (c + 1) + 1 ELSE 0
        /\ \A j \in 1..(n - (c + 1) + 1) : rest[j] = s[(c + 1) + j - 1]
    BY <1>2, <1>3, SubSeqProperties
  <1>5. Len(rest) = n - c
    BY <1>1, <1>3, <1>4
  <1>6. \A j \in 1..(n - c) : rest[j] = s[c + j]
    <2> TAKE j \in 1..(n - c)
    <2>1. j \in 1..(n - (c + 1) + 1) /\ (c + 1) + j - 1 = c + j
      BY <1>1
    <2> QED BY <1>4, <2>1
  <1> QED BY <1>4, <1>5, <1>6 DEF n, rest

\* A part of the end of a sequence.
LEMMA SubOfEnd ==
    ASSUME NEW E, NEW s \in Seq(E), NEW c \in 0..Len(s), NEW i \in 1..(Len(s) - c + 1), NEW j \in 0..(Len(s) - c)
    PROVE  SubSeq(SubSeq(s, c + 1, Len(s)), i, j) = SubSeq(s, c + i, c + j)
  <1> DEFINE L == Len(s)
             e == SubSeq(s, c + 1, L)
  <1>1. L \in Nat /\ e \in Seq(E) /\ Len(e) = L - c /\ \A k \in 1..(L - c) : e[k] = s[c + k]
    BY RestOf
  <1> HIDE DEF e
  <1>2. /\ DOMAIN SubSeq(e, i, j) = 1..(IF j >= i THEN j - i + 1 ELSE 0)
        /\ \A k \in 1..(j - i + 1) : SubSeq(e, i, j)[k] = e[i + k - 1]
        /\ SubSeq(e, i, j) \in Seq(E)
    BY <1>1
  <1>3. /\ DOMAIN SubSeq(s, c + i, c + j) = 1..(IF j >= i THEN j - i + 1 ELSE 0)
        /\ \A k \in 1..(j - i + 1) : SubSeq(s, c + i, c + j)[k] = s[c + i + k - 1]
        /\ SubSeq(s, c + i, c + j) \in Seq(E)
    BY <1>1
  <1>4. \A k \in 1..(j - i + 1) : SubSeq(e, i, j)[k] = SubSeq(s, c + i, c + j)[k]
    <2> TAKE k \in 1..(j - i + 1)
    <2>1. i + k - 1 \in 1..(L - c) /\ c + (i + k - 1) = c + i + k - 1
      BY <1>1
    <2> QED BY <1>1, <1>2, <1>3, <2>1
  <1>5. DOMAIN SubSeq(e, i, j) = DOMAIN SubSeq(s, c + i, c + j)
    BY <1>2, <1>3
  <1>6. \A k \in DOMAIN SubSeq(e, i, j) : SubSeq(e, i, j)[k] = SubSeq(s, c + i, c + j)[k]
    <2> TAKE k \in DOMAIN SubSeq(e, i, j)
    <2>1. k \in 1..(j - i + 1)
      BY <1>1, <1>2
    <2> QED BY <1>4, <2>1
  <1>7. SubSeq(e, i, j) = SubSeq(s, c + i, c + j)
    <2> DEFINE x == SubSeq(e, i, j)
               y == SubSeq(s, c + i, c + j)
    <2>1. x \in Seq(E) /\ y \in Seq(E) /\ DOMAIN x = DOMAIN y /\ \A k \in DOMAIN x : x[k] = y[k]
      BY <1>2, <1>3, <1>5, <1>6
    <2> HIDE DEF x, y
    <2>2. x = y
      BY <2>1
    <2> QED BY <2>2 DEF x, y
  <1> QED BY <1>7 DEF e

\* The end of a sequence that gets longer.
LEMMA EndOfConcat ==
    ASSUME NEW E, NEW s \in Seq(E), NEW t \in Seq(E), NEW c \in 0..Len(s)
    PROVE  SubSeq(s, c + 1, Len(s)) \o t = SubSeq(s \o t, c + 1, Len(s \o t))
  <1> DEFINE L == Len(s)
             K == Len(t)
             r == s \o t
             x == SubSeq(s, c + 1, L)
             y == SubSeq(r, c + 1, Len(r))
  <1>1. /\ L \in Nat /\ K \in Nat /\ r \in Seq(E) /\ Len(r) = L + K
        /\ \A k \in 1..(L + K) : r[k] = IF k =< L THEN s[k] ELSE t[k - L]
    OBVIOUS
  <1>2. x \in Seq(E) /\ Len(x) = L - c /\ \A k \in 1..(L - c) : x[k] = s[c + k]
    OBVIOUS
  <1> HIDE DEF r, L, K, x
  <1>3. y \in Seq(E) /\ Len(y) = L + K - c /\ \A k \in 1..(L + K - c) : y[k] = r[c + k]
    BY <1>1 DEF L
  <1>4. x \o t \in Seq(E) /\ Len(x \o t) = L + K - c
        /\ \A k \in 1..(L + K - c) : (x \o t)[k] = IF k =< L - c THEN x[k] ELSE t[k - (L - c)]
    <2>1. /\ x \o t \in Seq(E) /\ Len(x \o t) = Len(x) + Len(t)
          /\ \A k \in 1..(Len(x) + Len(t)) : (x \o t)[k] = IF k =< Len(x) THEN x[k] ELSE t[k - Len(x)]
      BY <1>2, ConcatProperties
    <2>2. Len(x) + Len(t) = L + K - c /\ Len(x) = L - c
      BY <1>1, <1>2 DEF K, L
    <2> QED BY <2>1, <2>2
  <1> HIDE DEF y
  <1>5. ASSUME NEW k \in 1..(L + K - c) PROVE (x \o t)[k] = y[k]
    <2>1. c \in 0..L /\ c + k \in 1..(L + K)
      BY <1>1 DEF L
    <2>2. CASE k =< L - c
      <3>1. c + k =< L /\ k \in 1..(L - c)
        BY <1>1, <2>1, <2>2
      <3> QED BY <1>1, <1>2, <1>3, <1>4, <2>1, <2>2, <3>1
    <2>3. CASE k > L - c
      <3>1. ~(c + k =< L) /\ ~(k =< L - c) /\ (c + k) - L = k - (L - c)
        BY <1>1, <2>1, <2>3
      <3>2. y[k] = t[(c + k) - L]
        BY <1>1, <1>3, <2>1, <3>1
      <3>3. (x \o t)[k] = t[k - (L - c)]
        BY <1>4, <3>1
      <3> QED BY <3>1, <3>2, <3>3
    <2>4. k =< L - c \/ k > L - c
      BY <1>1, <2>1
    <2> QED BY <2>2, <2>3, <2>4
  <1>6. x \o t = y
    <2> DEFINE z == x \o t
    <2>1. z \in Seq(E) /\ y \in Seq(E) /\ Len(z) = Len(y) /\ \A k \in 1..Len(z) : z[k] = y[k]
      BY <1>3, <1>4, <1>5
    <2> HIDE DEF z
    <2>2. z = y
      BY <2>1
    <2> QED BY <2>2 DEF z
  <1> QED BY <1>6 DEF L, r, x, y

-------------------------------------------------------------------------------
(* Aggregation: windows of time.                                             *)

\* The start of a window is the multiple of the interval from which a time is less than one
\* interval away.
LEMMA WindowIs ==
    ASSUME NEW t \in Nat
    PROVE  /\ WindowOf(t) \in Nat /\ WindowOf(t) = WindowStart(t)
           /\ WindowOf(t) =< t /\ t - WindowOf(t) < AggInterval
           /\ t \div AggInterval \in Nat /\ WindowOf(t) = AggInterval * (t \div AggInterval)
  <1> DEFINE q == t \div AggInterval
             m == t % AggInterval
  <1>1. AggInterval \in Nat \ {0}
    BY AggIntervalAssumption
  <1>2. q \in Nat /\ m \in 0..(AggInterval - 1) /\ t = AggInterval * q + m
    BY <1>1, DivMod
  <1>3. WindowOf(t) = q * AggInterval /\ WindowStart(t) = t - m
    BY DEF WindowOf, WindowStart
  <1> HIDE DEF q, m
  <1>4. q * AggInterval = AggInterval * q /\ AggInterval * q \in Nat
    BY <1>1, <1>2
  <1>5. WindowOf(t) \in Nat /\ WindowOf(t) = WindowStart(t) /\ WindowOf(t) =< t
        /\ t - WindowOf(t) < AggInterval
    BY <1>1, <1>2, <1>3, <1>4
  <1> QED BY <1>2, <1>3, <1>4, <1>5 DEF q

\* A later time is in the same window if it is less than an interval after its start, and in a
\* later one otherwise.
LEMMA WindowsInOrder ==
    ASSUME NEW t \in Nat, NEW u \in Nat, t =< u
    PROVE  /\ u - WindowOf(t) < AggInterval => WindowOf(u) = WindowOf(t)
           /\ u - WindowOf(t) >= AggInterval => WindowOf(u) > WindowOf(t)
  <1> DEFINE q == t \div AggInterval
             p == u \div AggInterval
             I == AggInterval
  <1>1. /\ I \in Nat \ {0} /\ q \in Nat /\ p \in Nat
        /\ WindowOf(t) = I * q /\ I * q =< t /\ t - I * q < I
        /\ WindowOf(u) = I * p /\ I * p =< u /\ u - I * p < I
    BY WindowIs, AggIntervalAssumption
  <1> HIDE DEF q, p, I
  <1>2. I * (p - q) = I * p - I * q /\ p - q \in Int /\ I * p \in Nat /\ I * q \in Nat
    BY <1>1
  <1>3. I * (p - q) > - I
    BY <1>1, <1>2
  <1>4. ASSUME u - WindowOf(t) < I PROVE WindowOf(u) = WindowOf(t)
    <2>1. I * (p - q) <= I
      BY <1>1, <1>2, <1>4
    <2>2. p - q = 0 \/ p - q = 1
      BY <1>1, <1>2, <1>3, <2>1, Multiples
    <2>3. CASE p - q = 1
      <3>1. I * (p - q) = I
        BY <1>1, <2>3
      <3> QED BY <1>1, <1>2, <1>4, <3>1
    <2>4. CASE p - q = 0
      <3>1. p = q
        BY <1>1, <2>4
      <3> QED BY <1>1, <3>1
    <2> QED BY <2>2, <2>3, <2>4
  <1>5. ASSUME u - WindowOf(t) >= I PROVE WindowOf(u) > WindowOf(t)
    BY <1>1, <1>2, <1>5
  <1> QED BY <1>4, <1>5 DEF I

LEMMA WindowsGrow ==
    ASSUME NEW t \in Nat, NEW u \in Nat, t =< u
    PROVE  WindowOf(t) =< WindowOf(u)
  <1>1. WindowOf(t) \in Nat /\ WindowOf(u) \in Nat /\ AggInterval \in Nat
    BY WindowIs, AggIntervalAssumption
  <1> QED BY <1>1, WindowsInOrder

InOrder(points) == \A i, j \in DOMAIN points : i =< j => points[i].t =< points[j].t

\* Points each of which is not older than the one before are in order.
LEMMA OrderedByPairs ==
    ASSUME NEW points \in Seq(AggPoint),
           \A i \in 2..Len(points) : points[i - 1].t =< points[i].t
    PROVE  InOrder(points)
  <1> DEFINE n == Len(points)
  <1>1. n \in Nat /\ DOMAIN points = 1..n /\ \A i \in 1..n : points[i].t \in Nat
    <2>1. \A i \in 1..n : points[i] \in AggPoint
      OBVIOUS
    <2> QED BY <2>1 DEF AggPoint
  <1> SUFFICES ASSUME NEW i \in 1..n PROVE \A j \in 1..n : i =< j => points[i].t =< points[j].t
    BY <1>1 DEF InOrder
  <1> DEFINE T == {k \in 0..(n - i) : points[i].t =< points[i + k].t}
  <1>2. 0 \in T
    BY <1>1
  <1>3. ASSUME NEW k \in 1..(n - i), k - 1 \in T PROVE k \in T
    <2>1. /\ i + k \in 2..n /\ (i + k) - 1 = i + (k - 1) /\ i + (k - 1) \in 1..n /\ i + k \in 1..n
          /\ k \in 0..(n - i)
      BY <1>1
    <2>2. points[i + (k - 1)].t =< points[i + k].t
      BY <2>1
    <2>3. points[i].t =< points[i + (k - 1)].t
      BY <1>3
    <2> QED BY <1>1, <2>1, <2>2, <2>3
  <1>4. \A k \in 0..(n - i) : k \in T
    <2>1. n - i \in Nat
      BY <1>1
    <2> HIDE DEF T, n
    <2> QED BY <1>2, <1>3, <2>1, UpTo
  <1>5. ASSUME NEW j \in 1..n, i =< j PROVE points[i].t =< points[j].t
    <2>1. j - i \in 0..(n - i) /\ i + (j - i) = j
      BY <1>1, <1>5
    <2> QED BY <1>4, <2>1
  <1> QED BY <1>5

\* A filter that the elements from one place to another pass, and no other one.
LEMMA OnlyBetween ==
    ASSUME NEW E, NEW s \in Seq(E), NEW S, NEW a \in 0..Len(s), NEW b \in 0..Len(s), a =< b,
           \A i \in 1..Len(s) : s[i] \in S <=> i \in (a + 1)..b
    PROVE  Only(s, S) = SubSeq(s, a + 1, b)
  <1> DEFINE L == Len(s)
  <1>1. L \in Nat /\ DOMAIN s = 1..L /\ \A i \in 1..L : s[i] \in E
    OBVIOUS
  <1>20. PICK g : Places(E, s, S, g)
    BY OnlyIs
  <1>2. /\ g \in [0..L -> Seq(E)] /\ g[0] = <<>> /\ Only(s, S) = g[L]
        /\ \A i \in 1..L : g[i] = IF s[i] \in S THEN Append(g[i - 1], s[i]) ELSE g[i - 1]
    BY <1>20 DEF Places
  <1>3. /\ a \in Nat /\ b \in Nat /\ b =< L /\ a =< b
        /\ \A i \in 1..L : s[i] \in S <=> i \in (a + 1)..b
    OBVIOUS
  <1> HIDE DEF L
  <1> DEFINE Upto(i) == IF i =< a THEN <<>> ELSE IF i =< b THEN SubSeq(s, a + 1, i) ELSE SubSeq(s, a + 1, b)
             T == {i \in 0..L : g[i] = Upto(i)}
  <1>4. 0 \in T
    BY <1>1, <1>2, <1>3
  <1>5. ASSUME NEW i \in 1..L, i - 1 \in T PROVE i \in T
    <2>1. /\ i - 1 \in 0..L /\ i \in 0..L /\ g[i - 1] \in Seq(E) /\ s[i] \in E
          /\ g[i - 1] = Upto(i - 1)
      <3>1. i - 1 \in 0..L /\ i \in 0..L
        BY <1>1
      <3>2. g[i - 1] \in Seq(E)
        BY <1>2, <3>1
      <3>3. s[i] \in E
        BY <1>1
      <3>4. g[i - 1] = Upto(i - 1)
        <4> HIDE DEF Upto
        <4> QED BY <1>5
      <3> QED BY <3>1, <3>2, <3>3, <3>4
    <2>2. CASE i =< a
      <3>1. s[i] \notin S
        BY <1>1, <1>3, <2>2
      <3> QED BY <1>1, <1>2, <1>3, <2>1, <2>2, <3>1
    <2>3. CASE i > a /\ i =< b
      <3>1. s[i] \in S
        BY <1>1, <1>3, <2>3
      <3>2. g[i] = Append(g[i - 1], s[i])
        BY <1>2, <3>1
      <3>3. g[i - 1] = SubSeq(s, a + 1, i - 1)
        <4>1. CASE i = a + 1
          <5>1. SubSeq(s, a + 1, i - 1) = <<>>
            BY <1>3, <4>1
          <5> QED BY <1>3, <2>1, <4>1, <5>1
        <4>2. CASE i # a + 1
          <5>1. Upto(i - 1) = SubSeq(s, a + 1, i - 1)
            <6>1. ~(i - 1 =< a) /\ i - 1 =< b
              BY <1>1, <1>3, <2>3, <4>2
            <6> QED BY <6>1
          <5> QED BY <2>1, <5>1
        <4> QED BY <4>1, <4>2
      <3>4. Append(SubSeq(s, a + 1, i - 1), s[i]) = SubSeq(s, a + 1, i)
        BY <1>1, <1>3, <2>3 DEF L
      <3>5. Upto(i) = SubSeq(s, a + 1, i)
        <4>1. ~(i =< a)
          BY <1>1, <1>3, <2>3
        <4> QED BY <2>3, <4>1
      <3>6. g[i] = Upto(i)
        BY <3>2, <3>3, <3>4, <3>5
      <3> QED BY <2>1, <3>6
    <2>4. CASE i > b
      <3>1. s[i] \notin S
        BY <1>1, <1>3, <2>4
      <3>2. g[i] = g[i - 1]
        BY <1>2, <3>1
      <3>3. Upto(i - 1) = SubSeq(s, a + 1, b)
        <4>1. CASE a = b
          BY <1>1, <1>3, <2>4, <4>1
        <4>2. CASE a < b
          BY <1>1, <1>3, <2>4, <4>2
        <4> QED BY <1>3, <4>1, <4>2
      <3>4. Upto(i) = SubSeq(s, a + 1, b)
        BY <1>1, <1>3, <2>4
      <3>5. g[i] = Upto(i)
        <4> HIDE DEF Upto
        <4> QED BY <2>1, <3>2, <3>3, <3>4
      <3> QED BY <2>1, <3>5
    <2> QED BY <1>1, <1>3, <2>2, <2>3, <2>4
  <1> HIDE DEF T
  <1>6. L \in 0..L
    BY <1>1
  <1>7. L \in T
    BY <1>1, <1>4, <1>5, <1>6, UpTo
  <1>8. Upto(L) = SubSeq(s, a + 1, b)
    <2>1. CASE L > a
      BY <1>1, <1>3, <2>1
    <2>2. CASE L = a
      <3>1. b = a
        BY <1>1, <1>3, <2>2
      <3>2. SubSeq(s, a + 1, b) = <<>>
        BY <1>3, <3>1
      <3> QED BY <2>2, <3>2
    <2> QED BY <1>1, <1>3, <2>1, <2>2
  <1> QED BY <1>2, <1>7, <1>8 DEF T

-------------------------------------------------------------------------------
(* Aggregation: the loop over the buffer.                                    *)

\* Points made of windows, with what Aggregate gives.
AggWindow(f) == [t : Nat, v : {Aggregate(f, s) : s \in Seq(AggPoint)}]

\* The results of a turn.
AggResult(f) == [windows : Seq(AggWindow(f)), left : Seq(AggPoint)]

LEMMA PointTimes ==
    ASSUME NEW points \in Seq(AggPoint)
    PROVE  /\ Len(points) \in Nat /\ DOMAIN points = 1..Len(points)
           /\ \A i \in 1..Len(points) : points[i] \in AggPoint /\ points[i].t \in Nat
  <1>1. \A i \in 1..Len(points) : points[i] \in AggPoint
    OBVIOUS
  <1> QED BY <1>1 DEF AggPoint

\* The first point is in the window and the last one is not: the window ends between them.
LEMMA WindowLengthIs ==
    ASSUME NEW points \in Seq(AggPoint), WindowIsOver(points),
           NEW start, start = WindowStart(Head(points).t)
    PROVE  /\ start = WindowOf(points[1].t) /\ start \in Nat
           /\ WindowLength(points, start) \in 1..(Len(points) - 1)
           /\ \A i \in 1..WindowLength(points, start) : points[i].t - start < AggInterval
           /\ points[WindowLength(points, start) + 1].t - start >= AggInterval
  <1> DEFINE L == Len(points)
             Outside(j) == points[j].t - start >= AggInterval
             J == {j \in 1..L : Outside(j)}
             j0 == CHOOSE j \in DOMAIN points :
                      /\ points[j].t - start >= AggInterval
                      /\ \A i \in 1..(j - 1) : points[i].t - start < AggInterval
  <1>1. /\ L \in Nat /\ L >= 1 /\ DOMAIN points = 1..L /\ \A i \in 1..L : points[i].t \in Nat
        /\ Head(points) = points[1] /\ Last(points) = points[L]
    <2>1. points # <<>>
      BY DEF WindowIsOver
    <2> QED BY <2>1, PointTimes DEF Last
  <1>2. /\ start = WindowOf(points[1].t) /\ start \in Nat /\ points[1].t - start < AggInterval
        /\ AggInterval \in Nat
    <2>1. points[1].t \in Nat
      <3> HIDE DEF L
      <3> QED BY <1>1
    <2>2. start = WindowStart(points[1].t)
      BY <1>1
    <2> QED BY <2>1, <2>2, WindowIs, AggIntervalAssumption
  <1>3. points[L].t - start >= AggInterval
    BY <1>1 DEF WindowIsOver, ContainsEnough
  <1>4. WindowLength(points, start) = j0 - 1
    BY DEF WindowLength
  <1> HIDE DEF L
  <1>5. L \in J
    BY <1>1, <1>3
  <1>6. PICK m \in J : \A j \in J : m =< j
    <2>1. J \subseteq Nat /\ J # {}
      BY <1>1, <1>5
    <2> HIDE DEF J
    <2> QED BY <2>1, SmallestElement
  <1>7. /\ m \in DOMAIN points /\ points[m].t - start >= AggInterval
        /\ \A i \in 1..(m - 1) : points[i].t - start < AggInterval
    <2>1. m \in 1..L /\ points[m].t - start >= AggInterval
      OBVIOUS
    <2>2. ASSUME NEW i \in 1..(m - 1) PROVE points[i].t - start < AggInterval
      <3>1. i \in 1..L /\ i < m /\ i \notin J
        BY <1>1, <1>6, <2>1
      <3> QED BY <1>1, <1>2, <3>1
    <2> QED BY <1>1, <2>1, <2>2
  <1>8. /\ j0 \in DOMAIN points /\ points[j0].t - start >= AggInterval
        /\ \A i \in 1..(j0 - 1) : points[i].t - start < AggInterval
    BY Zenon, <1>7
  <1> HIDE DEF j0
  <1>9. j0 # 1
    BY <1>1, <1>2, <1>8
  <1> QED BY <1>1, <1>2, <1>4, <1>8, <1>9 DEF L

\* A turn gives results of the same type.
LEMMA NextWindowTyped ==
    ASSUME NEW f, NEW r \in AggResult(f), WindowIsOver(r.left)
    PROVE  NextWindow(f, r) \in AggResult(f)
  <1> DEFINE start == WindowStart(Head(r.left).t)
             n == WindowLength(r.left, start)
             front == SubSeq(r.left, 1, n)
             w == [t |-> start, v |-> Aggregate(f, front)]
             back == SubSeq(r.left, n + 1, Len(r.left))
  <1>1. r.left \in Seq(AggPoint) /\ r.windows \in Seq(AggWindow(f))
    BY DEF AggResult
  <1>2. start \in Nat /\ n \in 1..(Len(r.left) - 1)
    BY <1>1, WindowLengthIs
  <1>3. NextWindow(f, r) = [windows |-> Append(r.windows, w), left |-> back]
    BY DEF NextWindow
  <1>4. front \in Seq(AggPoint) /\ back \in Seq(AggPoint)
    <2> HIDE DEF n
    <2> QED BY <1>1, <1>2
  <1> HIDE DEF start, n, front, back
  <1>5. w \in AggWindow(f)
    BY <1>2, <1>4 DEF AggWindow
  <1> HIDE DEF w
  <1>6. Append(r.windows, w) \in Seq(AggWindow(f))
    BY <1>1, <1>5
  <1> QED BY <1>3, <1>4, <1>6 DEF AggResult

\* g is made of the results of the turns, up to what Bounced gives.
Turns(f, points, g) ==
    /\ g \in [0..Len(points) -> AggResult(f)] /\ g[0] = [windows |-> <<>>, left |-> points]
    /\ Bounced(f, points) = g[Len(points)]
    /\ \A i \in 1..Len(points) :
          g[i] = IF WindowIsOver(g[i - 1].left) THEN NextWindow(f, g[i - 1]) ELSE g[i - 1]

\* turns is what Bounced computes at each turn.
BouncedUpTo(f, points, turns) ==
    turns = [i \in 0..Len(points) |->
               IF i = 0 THEN [windows |-> <<>>, left |-> points]
               ELSE IF WindowIsOver(turns[i - 1].left) THEN NextWindow(f, turns[i - 1])
               ELSE turns[i - 1]]

\* The recursive equation of Bounced has a solution, made of results.
LEMMA BouncedIs == ASSUME NEW f, NEW points \in Seq(AggPoint) PROVE \E g : Turns(f, points, g)
  <1> DEFINE L == Len(points)
             X == AggResult(f)
             x == [windows |-> <<>>, left |-> points]
             Turn(r) == IF WindowIsOver(r.left) THEN NextWindow(f, r) ELSE r
             F == [p \in X \X (1..L) |-> Turn(p[1])]
             turns == CHOOSE turns : BouncedUpTo(f, points, turns)
  <1>1. L \in Nat /\ x \in X
    <2>1. <<>> \in Seq(AggWindow(f))
      OBVIOUS
    <2> QED BY <2>1 DEF AggResult
  <1>2. \A r \in X : Turn(r) \in X
    BY NextWindowTyped
  <1> HIDE DEF X, Turn
  <1>3. F \in [X \X (1..L) -> X]
    BY <1>2
  <1>4. ASSUME NEW h \in [0..L -> X], NEW i \in 1..L PROVE F[<<h[i - 1], i>>] = Turn(h[i - 1])
    <2>1. i - 1 \in 0..L
      BY <1>1
    <2>2. <<h[i - 1], i>> \in X \X (1..L)
      BY <2>1
    <2> QED BY <2>2
  <1> HIDE DEF F, x
  <1>5. PICK h \in [0..L -> X] : Follows(h, L, x, F)
    BY <1>1, <1>3, Recursion
  <1>6. \A i \in 0..L : h[i] = IF i = 0 THEN x ELSE Turn(h[i - 1])
    <2> TAKE i \in 0..L
    <2>1. i # 0 => i \in 1..L
      BY <1>1
    <2> QED BY <1>4, <1>5, <2>1 DEF Follows
  <1>7. BouncedUpTo(f, points, h)
    BY <1>5, <1>6 DEF BouncedUpTo, x, Turn
  <1>8. BouncedUpTo(f, points, turns)
    BY <1>7
  <1>9. Bounced(f, points) = turns[L]
    BY DEF Bounced, BouncedUpTo
  <1> HIDE DEF turns
  <1>10. /\ turns = [i \in 0..L |-> turns[i]]
         /\ \A i \in 0..L : turns[i] = IF i = 0 THEN x ELSE Turn(turns[i - 1])
    BY Zenon, <1>8 DEF BouncedUpTo, x, Turn
  <1> HIDE DEF L
  <1> DEFINE T == {i \in 0..L : turns[i] \in X}
  <1>11. 0 \in T
    <2>1. 0 \in 0..L
      BY <1>1
    <2> QED BY <1>1, <1>10, <2>1
  <1>12. ASSUME NEW i \in 1..L, i - 1 \in T PROVE i \in T
    <2>1. i \in 0..L /\ i # 0
      BY <1>1
    <2>2. turns[i] = Turn(turns[i - 1])
      BY <1>10, <2>1
    <2> QED BY <1>2, <1>12, <2>1, <2>2
  <1>13. \A i \in 0..L : turns[i] \in X
    <2> HIDE DEF T
    <2>1. \A i \in 0..L : i \in T
      BY <1>1, <1>11, <1>12, UpTo
    <2> QED BY <2>1 DEF T
  <1>14. turns \in [0..L -> X]
    BY <1>10, <1>13
  <1>15. turns[0] = x
    <2>1. 0 \in 0..L
      BY <1>1
    <2> QED BY <1>10, <2>1
  <1>16. \A i \in 1..L : turns[i] = Turn(turns[i - 1])
    <2> TAKE i \in 1..L
    <2>1. i \in 0..L /\ i # 0
      BY <1>1
    <2> QED BY <1>10, <2>1
  <1>17. Turns(f, points, turns)
    BY <1>9, <1>14, <1>15, <1>16 DEF Turns, L, X, x, Turn
  <1> QED BY <1>17

-------------------------------------------------------------------------------
(* Aggregation: the points that have made a window, and those that are left. *)

\* The points of P from one place to another are those of a window, and make w.
MadeOf(f, P, w, a, b) ==
    /\ a < b /\ w.v = Aggregate(f, SubSeq(P, a + 1, b))
    /\ \A i \in 1..Len(P) : WindowOf(P[i].t) = w.t <=> i \in (a + 1)..b

IsWhole(f, P, c, w) == \E a, b \in 0..c : MadeOf(f, P, w, a, b)

\* The first c points of P have made the windows W, and the others are left.
Split(f, P, c, W, left) ==
    /\ c \in 0..Len(P) /\ (P # <<>> => c < Len(P))
    /\ W \in Seq(AggWindow(f)) /\ left = SubSeq(P, c + 1, Len(P))
    /\ \A i \in 1..c, j \in (c + 1)..Len(P) : WindowOf(P[i].t) < WindowOf(P[j].t)
    /\ \A k \in 1..Len(W) : IsWhole(f, P, c, W[k])
    /\ \A i \in 1..c : \E k \in 1..Len(W) : W[k].t = WindowOf(P[i].t)
    /\ \A k, l \in 1..Len(W) : k < l => W[k].t < W[l].t

\* The start of a window is that of its last point.
LEMMA WholeStart ==
    ASSUME NEW f, NEW P \in Seq(AggPoint), NEW c \in 0..Len(P), NEW w, IsWhole(f, P, c, w)
    PROVE  \E i \in 1..c : WindowOf(P[i].t) = w.t
  <1>1. PICK a \in 0..c, b \in 0..c : MadeOf(f, P, w, a, b)
    BY DEF IsWhole
  <1>2. b \in 1..c /\ b \in 1..Len(P) /\ b \in (a + 1)..b
    BY <1>1, PointTimes DEF MadeOf
  <1> QED BY <1>1, <1>2 DEF MadeOf

\* A turn of the loop goes past the points of a window.
LEMMA SplitNext ==
    ASSUME NEW f, NEW P \in Seq(AggPoint), InOrder(P), NEW c, NEW W, NEW left, Split(f, P, c, W, left),
           WindowIsOver(left),
           NEW start, start = WindowStart(Head(left).t), NEW n, n = WindowLength(left, start),
           NEW w, w = [t |-> start, v |-> Aggregate(f, SubSeq(left, 1, n))]
    PROVE  /\ Split(f, P, c + n, Append(W, w), SubSeq(left, n + 1, Len(left)))
           /\ n \in 1..(Len(left) - 1)
  <1> DEFINE L == Len(P)
             V == Append(W, w)
             I == AggInterval
  <1>1. /\ L \in Nat /\ DOMAIN P = 1..L /\ c \in 0..L /\ I \in Nat \ {0}
        /\ \A i \in 1..L : P[i] \in AggPoint /\ P[i].t \in Nat
        /\ \A i, j \in 1..L : i =< j => P[i].t =< P[j].t
    BY PointTimes, AggIntervalAssumption DEF Split, InOrder
  <1>2. W \in Seq(AggWindow(f)) /\ left = SubSeq(P, c + 1, L) /\ left \in Seq(AggPoint)
    BY <1>1 DEF Split
  <1>3. /\ Len(left) = L - c /\ \A i \in 1..(L - c) : left[i] = P[c + i]
    <2>1. c \in 0..Len(P) /\ left = SubSeq(P, c + 1, Len(P))
      BY <1>1, <1>2
    <2> QED BY <2>1, RestOf
  <1>4. /\ start = WindowOf(left[1].t) /\ start \in Nat /\ n \in 1..(Len(left) - 1)
        /\ \A i \in 1..n : left[i].t - start < I
        /\ left[n + 1].t - start >= I
    BY <1>2, WindowLengthIs
  <1> HIDE DEF L, I
  <1>5. n \in 1..(L - c - 1) /\ c + n \in 1..(L - 1) /\ c + 1 \in 1..L /\ c + n + 1 \in 1..L
    <2>1. L \in Nat /\ c \in 0..L /\ Len(left) = L - c /\ n \in 1..(Len(left) - 1)
      BY <1>1, <1>3, <1>4
    <2>2. n \in 1..(L - c - 1)
      BY <2>1
    <2> QED BY <2>1, <2>2
  <1>6. left[1] = P[c + 1] /\ left[n + 1] = P[c + n + 1] /\ start = WindowOf(P[c + 1].t)
    <2>1. 1 \in 1..(L - c) /\ n + 1 \in 1..(L - c) /\ c + (n + 1) = c + n + 1
      BY <1>1, <1>5
    <2> QED BY <1>3, <1>4, <2>1
  <1>7. ASSUME NEW i \in (c + 1)..(c + n) PROVE WindowOf(P[i].t) = start
    <2>1. i - c \in 1..n /\ i - c \in 1..(L - c) /\ c + (i - c) = i /\ i \in 1..L /\ c + 1 =< i
      BY <1>1, <1>5
    <2>2. P[i].t - start < I
      BY <1>3, <1>4, <2>1
    <2>3. P[c + 1].t =< P[i].t /\ P[c + 1].t \in Nat /\ P[i].t \in Nat
      BY <1>1, <1>5, <2>1
    <2> QED BY <1>6, <2>2, <2>3, WindowsInOrder DEF I
  <1>8. ASSUME NEW i \in (c + n + 1)..L PROVE WindowOf(P[i].t) > start
    <2>1. i \in 1..L /\ c + n + 1 =< i /\ c + 1 =< i
      BY <1>1, <1>5
    <2>2. /\ P[c + n + 1].t =< P[i].t /\ P[c + 1].t =< P[i].t
          /\ P[c + n + 1].t \in Nat /\ P[i].t \in Nat /\ P[c + 1].t \in Nat
      BY <1>1, <1>5, <2>1
    <2>3. P[i].t - start >= I
      <3>1. P[c + n + 1].t - start >= I /\ start \in Nat /\ I \in Nat
        BY <1>1, <1>4, <1>6
      <3> QED BY <2>2, <3>1
    <2> QED BY <1>6, <2>2, <2>3, WindowsInOrder DEF I
  <1>9. ASSUME NEW i \in 1..c PROVE WindowOf(P[i].t) < start
    <2>1. c + 1 \in (c + 1)..L
      BY <1>1, <1>5
    <2> QED BY <1>6, <2>1 DEF Split, L
  <1>10. \A i \in 1..L : WindowOf(P[i].t) \in Nat
    BY <1>1, WindowIs
  <1>11. SubSeq(left, 1, n) = SubSeq(P, c + 1, c + n) /\ SubSeq(P, c + 1, c + n) \in Seq(AggPoint)
    <2>1. 1 \in 1..(L - c + 1) /\ n \in 0..(L - c)
      BY <1>1, <1>5
    <2>2. SubSeq(left, 1, n) = SubSeq(P, c + 1, c + n)
      BY <1>1, <1>2, <2>1, SubOfEnd DEF L
    <2>3. SubSeq(P, c + 1, c + n) \in Seq(AggPoint)
      BY <1>1, <1>5 DEF L
    <2> QED BY <2>2, <2>3
  <1>12. SubSeq(left, n + 1, Len(left)) = SubSeq(P, c + n + 1, L)
    <2>1. n + 1 \in 1..(L - c + 1) /\ L - c \in 0..(L - c) /\ c + (L - c) = L /\ c + (n + 1) = c + n + 1
      BY <1>1, <1>5
    <2>2. SubSeq(left, n + 1, L - c) = SubSeq(P, c + (n + 1), c + (L - c))
      BY <1>1, <1>2, <2>1, SubOfEnd DEF L
    <2> QED BY <1>3, <2>1, <2>2
  <1>13. w \in AggWindow(f) /\ w.t = start
    BY <1>4, <1>11 DEF AggWindow
  <1>14. /\ V \in Seq(AggWindow(f)) /\ Len(W) \in Nat /\ Len(V) = Len(W) + 1
         /\ V[Len(V)] = w /\ \A k \in 1..Len(W) : V[k] = W[k]
    <2>1. /\ V \in Seq(AggWindow(f)) /\ Len(W) \in Nat /\ Len(V) = Len(W) + 1
          /\ V[Len(W) + 1] = w /\ \A k \in 1..Len(W) : V[k] = W[k]
      <3> HIDE DEF V
      <3>1. V = Append(W, w)
        BY DEF V
      <3>2. W \in Seq(AggWindow(f)) /\ w \in AggWindow(f)
        BY <1>2, <1>13
      <3> QED BY <3>1, <3>2, AppendIs
    <2> HIDE DEF V
    <2> QED BY <2>1
  <1> HIDE DEF V
  <1>15. MadeOf(f, P, w, c, c + n)
    <2>1. c < c + n /\ w.v = Aggregate(f, SubSeq(P, c + 1, c + n))
      <3>1. w.v = Aggregate(f, SubSeq(left, 1, n))
        OBVIOUS
      <3>2. c < c + n
        BY <1>1, <1>5
      <3>3. SubSeq(left, 1, n) = SubSeq(P, c + 1, c + n)
        BY <1>11
      <3> QED BY Zenon, <3>1, <3>2, <3>3
    <2>2. ASSUME NEW i \in 1..L PROVE WindowOf(P[i].t) = w.t <=> i \in (c + 1)..(c + n)
      <3>1. i \in 1..c \/ i \in (c + 1)..(c + n) \/ i \in (c + n + 1)..L
        BY <1>1, <1>5
      <3>2. WindowOf(P[i].t) \in Nat /\ start \in Nat
        BY <1>4, <1>10
      <3>3. CASE i \in 1..c
        BY <1>1, <1>5, <1>9, <1>13, <3>2, <3>3
      <3>4. CASE i \in (c + 1)..(c + n)
        BY <1>7, <1>13, <3>4
      <3>5. CASE i \in (c + n + 1)..L
        BY <1>1, <1>5, <1>8, <1>13, <3>2, <3>5
      <3> QED BY <3>1, <3>3, <3>4, <3>5
    <2> QED BY <2>1, <2>2 DEF MadeOf, L
  <1>16. ASSUME NEW k \in 1..Len(V) PROVE IsWhole(f, P, c + n, V[k])
    <2>1. CASE k \in 1..Len(W)
      <3>1. IsWhole(f, P, c, V[k])
        BY <1>14, <2>1 DEF Split
      <3>2. 0..c \subseteq 0..(c + n)
        BY <1>1, <1>5
      <3> QED BY <3>1, <3>2 DEF IsWhole
    <2>2. CASE k = Len(V)
      <3>1. c \in 0..(c + n) /\ c + n \in 0..(c + n)
        BY <1>1, <1>5
      <3> QED BY <1>14, <1>15, <2>2, <3>1 DEF IsWhole
    <2> QED BY <1>14, <2>1, <2>2
  <1>17. ASSUME NEW i \in 1..(c + n) PROVE \E k \in 1..Len(V) : V[k].t = WindowOf(P[i].t)
    <2>1. CASE i \in 1..c
      <3>1. PICK k \in 1..Len(W) : W[k].t = WindowOf(P[i].t)
        BY <2>1 DEF Split
      <3>2. k \in 1..Len(V) /\ V[k] = W[k]
        BY <1>14, <3>1
      <3> QED BY <3>1, <3>2
    <2>2. CASE i \in (c + 1)..(c + n)
      <3>1. Len(V) \in 1..Len(V)
        BY <1>14
      <3> QED BY <1>7, <1>13, <1>14, <2>2, <3>1
    <2> QED BY <1>1, <1>5, <2>1, <2>2
  <1>18. ASSUME NEW k \in 1..Len(V), NEW l \in 1..Len(V), k < l PROVE V[k].t < V[l].t
    <2>1. k \in 1..Len(W)
      BY <1>14, <1>18
    <2>2. CASE l \in 1..Len(W)
      BY <1>14, <1>18, <2>1, <2>2 DEF Split
    <2>3. CASE l = Len(V)
      <3>1. IsWhole(f, P, c, W[k])
        BY <2>1 DEF Split
      <3>2. PICK i \in 1..c : WindowOf(P[i].t) = W[k].t
        BY <1>1, <3>1, WholeStart DEF L
      <3>3. WindowOf(P[i].t) < start
        BY <1>9, <3>2
      <3> QED BY <1>13, <1>14, <2>1, <2>3, <3>2, <3>3
    <2> QED BY <1>14, <2>2, <2>3
  <1>19. ASSUME NEW i \in 1..(c + n), NEW j \in (c + n + 1)..L PROVE WindowOf(P[i].t) < WindowOf(P[j].t)
    <2>1. WindowOf(P[j].t) > start /\ start \in Nat
      BY <1>4, <1>8
    <2>2. WindowOf(P[i].t) = start \/ WindowOf(P[i].t) < start
      <3>1. i \in 1..c \/ i \in (c + 1)..(c + n)
        BY <1>1, <1>5
      <3> QED BY <1>7, <1>9, <3>1
    <2>3. i \in 1..L /\ j \in 1..L
      BY <1>1, <1>5
    <2> QED BY <1>10, <2>1, <2>2, <2>3
  <1>20. c + n \in 0..L /\ c + n < L
    BY <1>1, <1>5
  <1>21. Split(f, P, c + n, V, SubSeq(left, n + 1, Len(left)))
    BY <1>12, <1>14, <1>16, <1>17, <1>18, <1>19, <1>20 DEF Split, L
  <1> QED BY <1>4, <1>21 DEF V

\* Two sequences that are equal from a place to another.
LEMMA SameBetween ==
    ASSUME NEW E, NEW r \in Seq(E), NEW s \in Seq(E), NEW a \in Nat, NEW b \in Nat, a < b,
           b =< Len(r), b =< Len(s), \A i \in (a + 1)..b : r[i] = s[i]
    PROVE  SubSeq(r, a + 1, b) = SubSeq(s, a + 1, b)
  <1> DEFINE n == b - a
  <1>1. \A i \in 1..n : i + a \in (a + 1)..b
    OBVIOUS
  <1>2. SubSeq(r, a + 1, b) = [i \in 1..n |-> r[i + a]]
    OBVIOUS
  <1>3. SubSeq(s, a + 1, b) = [i \in 1..n |-> s[i + a]]
    OBVIOUS
  <1>4. \A i \in 1..n : r[i + a] = s[i + a]
    BY <1>1
  <1> HIDE DEF n
  <1> QED BY <1>2, <1>3, <1>4

\* More points, not older than the others, are left.
LEMMA SplitExtends ==
    ASSUME NEW f, NEW P \in Seq(AggPoint), NEW Q \in Seq(AggPoint), InOrder(P \o Q),
           NEW c, NEW W, NEW left, Split(f, P, c, W, left)
    PROVE  Split(f, P \o Q, c, W, left \o Q)
  <1> DEFINE L == Len(P)
             R == P \o Q
             M == Len(R)
  <1>1. /\ L \in Nat /\ Len(Q) \in Nat /\ M = L + Len(Q) /\ R \in Seq(AggPoint) /\ c \in 0..L
        /\ \A i \in 1..L : R[i] = P[i]
    BY DEF Split
  <1>2. /\ DOMAIN R = 1..M /\ \A i \in 1..M : R[i].t \in Nat /\ WindowOf(R[i].t) \in Nat
    BY <1>1, PointTimes, WindowIs
  <1>3. \A i, j \in 1..M : i =< j => WindowOf(R[i].t) =< WindowOf(R[j].t)
    <2>1. \A i, j \in 1..M : i =< j => R[i].t =< R[j].t
      BY <1>2 DEF InOrder
    <2> HIDE DEF R, M
    <2> QED BY <1>2, <2>1, WindowsGrow
  <1>4. left \o Q = SubSeq(R, c + 1, M)
    <2>1. left = SubSeq(P, c + 1, L)
      BY DEF Split
    <2> QED BY <1>1, <2>1, EndOfConcat
  <1> HIDE DEF R, M, L
  <1>5. c \in 0..M /\ (R # <<>> => c < M)
    <2>1. CASE P = <<>>
      <3>1. L = 0 /\ c = 0
        BY <1>1, <2>1 DEF L
      <3>2. R # <<>> => M > 0
        BY <1>1 DEF M
      <3> QED BY <1>1, <3>1, <3>2
    <2>2. CASE P # <<>>
      <3>1. c < L
        BY <2>2 DEF Split, L
      <3> QED BY <1>1, <3>1
    <2> QED BY <2>1, <2>2
  <1>6. ASSUME NEW i \in 1..c, NEW j \in (c + 1)..M PROVE WindowOf(R[i].t) < WindowOf(R[j].t)
    <2>1. c < L
      <3>1. P # <<>>
        BY <1>1 DEF L
      <3> QED BY <3>1 DEF Split, L
    <2>2. c + 1 \in (c + 1)..L /\ c + 1 \in 1..M /\ i \in 1..M /\ j \in 1..M /\ c + 1 =< j /\ i \in 1..L /\ c + 1 \in 1..L
      BY <1>1, <2>1
    <2>3. WindowOf(P[i].t) < WindowOf(P[c + 1].t)
      BY <2>2 DEF Split, L
    <2> QED BY <1>1, <1>2, <1>3, <2>2, <2>3
  <1>7. ASSUME NEW k \in 1..Len(W) PROVE IsWhole(f, R, c, W[k])
    <2>1. PICK a \in 0..c, b \in 0..c : MadeOf(f, P, W[k], a, b)
      BY DEF Split, IsWhole
    <2>2. a < b /\ b \in 1..c /\ b =< L /\ a \in Nat /\ b \in Nat /\ b \in 1..L
      BY <1>1, <2>1 DEF MadeOf
    <2>3. SubSeq(R, a + 1, b) = SubSeq(P, a + 1, b)
      <3>1. \A i \in (a + 1)..b : R[i] = P[i]
        <4> TAKE i \in (a + 1)..b
        <4>1. i \in 1..L
          BY <1>1, <2>2
        <4> QED BY <1>1, <4>1
      <3>2. b =< Len(R) /\ b =< Len(P) /\ R \in Seq(AggPoint)
        BY <1>1, <2>2 DEF L, M
      <3> QED BY <2>2, <3>1, <3>2, SameBetween
    <2>4. ASSUME NEW i \in 1..M PROVE WindowOf(R[i].t) = W[k].t <=> i \in (a + 1)..b
      <3>1. CASE i \in 1..L
        BY <1>1, <2>1, <3>1 DEF MadeOf, L
      <3>2. CASE i \notin 1..L
        <4>1. i \in (c + 1)..M /\ i \notin (a + 1)..b
          BY <1>1, <2>2, <3>2
        <4>2. WindowOf(R[b].t) < WindowOf(R[i].t)
          BY <1>6, <2>2, <4>1
        <4>3. WindowOf(R[b].t) = W[k].t
          <5>1. b \in (a + 1)..b
            BY <2>2
          <5> QED BY <1>1, <2>1, <2>2, <5>1 DEF MadeOf, L
        <4>4. b \in 1..M
          BY <1>1, <2>2
        <4> QED BY <1>2, <4>1, <4>2, <4>3, <4>4
      <3> QED BY <3>1, <3>2
    <2>5. MadeOf(f, R, W[k], a, b)
      BY <2>1, <2>2, <2>3, <2>4 DEF MadeOf, M
    <2> QED BY <2>5 DEF IsWhole
  <1>8. ASSUME NEW i \in 1..c PROVE \E k \in 1..Len(W) : W[k].t = WindowOf(R[i].t)
    <2>1. i \in 1..L
      BY <1>1
    <2> QED BY <1>1, <2>1 DEF Split
  <1>9. W \in Seq(AggWindow(f)) /\ \A k, l \in 1..Len(W) : k < l => W[k].t < W[l].t
    BY DEF Split
  <1> QED BY <1>4, <1>5, <1>6, <1>7, <1>8, <1>9 DEF Split, R, M

\* The loop goes on until no window is over.
LEMMA BouncedSplits ==
    ASSUME NEW f, NEW P \in Seq(AggPoint), InOrder(P), NEW c, NEW W, NEW left, Split(f, P, c, W, left)
    PROVE  /\ Bounced(f, left) \in AggResult(f) /\ ~WindowIsOver(Bounced(f, left).left)
           /\ \E d : Split(f, P, d, W \o Bounced(f, left).windows, Bounced(f, left).left)
  <1> DEFINE L == Len(left)
  <1>1. left \in Seq(AggPoint) /\ W \in Seq(AggWindow(f)) /\ L \in Nat
    <2>1. c \in 0..Len(P) /\ left = SubSeq(P, c + 1, Len(P))
      BY DEF Split
    <2> QED BY <2>1 DEF Split
  <1>20. PICK g : Turns(f, left, g)
    BY <1>1, BouncedIs
  <1>2. /\ \A i \in 0..L : g[i] \in AggResult(f)
        /\ g[0] = [windows |-> <<>>, left |-> left] /\ Bounced(f, left) = g[L]
        /\ \A i \in 1..L : g[i] = IF WindowIsOver(g[i - 1].left) THEN NextWindow(f, g[i - 1]) ELSE g[i - 1]
    BY <1>20 DEF Turns
  <1> HIDE DEF L
  <1> DEFINE Turned(i) == /\ \E d : Split(f, P, d, W \o g[i].windows, g[i].left)
                          /\ WindowIsOver(g[i].left) => Len(g[i].left) =< L - i
             T == {i \in 0..L : Turned(i)}
  <1>3. 0 \in T
    <2>1. W \o <<>> = W
      BY <1>1
    <2>2. g[0].windows = <<>> /\ g[0].left = left
      BY <1>2
    <2>3. Len(g[0].left) =< L - 0
      BY <1>1, <2>2 DEF L
    <2>4. Split(f, P, c, W \o g[0].windows, g[0].left)
      BY <2>1, <2>2
    <2>5. 0 \in 0..L
      BY <1>1
    <2> QED BY <2>3, <2>4, <2>5
  <1>4. ASSUME NEW i \in 1..L, i - 1 \in T PROVE i \in T
    <2> DEFINE r == g[i - 1]
    <2>1. /\ i - 1 \in 0..L /\ i \in 0..L /\ r \in AggResult(f)
          /\ r.windows \in Seq(AggWindow(f)) /\ r.left \in Seq(AggPoint) /\ Len(r.left) \in Nat
      BY <1>1, <1>2 DEF AggResult
    <2>2. PICK d : Split(f, P, d, W \o r.windows, r.left)
      BY <1>4
    <2>3. CASE ~WindowIsOver(r.left)
      <3>1. g[i] = r
        BY <1>2, <2>3
      <3> QED BY <2>1, <2>2, <2>3, <3>1
    <2>4. CASE WindowIsOver(r.left)
      <3>1. Len(r.left) =< L - (i - 1)
        BY <1>4, <2>4
      <3> HIDE DEF r
      <3> DEFINE start == WindowStart(Head(r.left).t)
                 n == WindowLength(r.left, start)
                 w == [t |-> start, v |-> Aggregate(f, SubSeq(r.left, 1, n))]
                 back == SubSeq(r.left, n + 1, Len(r.left))
      <3>2. g[i] = [windows |-> Append(r.windows, w), left |-> back]
        BY <1>2, <2>4 DEF NextWindow, r
      <3>3. Split(f, P, d + n, Append(W \o r.windows, w), back) /\ n \in 1..(Len(r.left) - 1)
        BY <2>2, <2>4, SplitNext
      <3>4. w \in AggWindow(f)
        <4>1. start \in Nat
          BY <2>1, <2>4, WindowLengthIs
        <4>2. SubSeq(r.left, 1, n) \in Seq(AggPoint)
          <5> HIDE DEF n
          <5> QED BY <2>1, <3>3
        <4> HIDE DEF start, n
        <4> QED BY <4>1, <4>2 DEF AggWindow
      <3>5. Len(back) = Len(r.left) - n
        <4> HIDE DEF n
        <4> QED BY <2>1, <3>3
      <3> HIDE DEF w, back, n
      <3>6. Append(W \o r.windows, w) = W \o Append(r.windows, w)
        <4>1. W \in Seq(AggWindow(f)) /\ r.windows \in Seq(AggWindow(f)) /\ w \in AggWindow(f)
          BY <1>1, <2>1, <3>4
        <4>2. PICK E : E = AggWindow(f)
          OBVIOUS
        <4>3. W \o r.windows \in Seq(E) /\ r.windows \in Seq(E) /\ W \in Seq(E) /\ <<w>> \in Seq(E)
          BY <4>1, <4>2
        <4>4. \A u \in Seq(E) : Append(u, w) = u \o <<w>>
          OBVIOUS
        <4>5. \A s, t, u \in Seq(E) : (s \o t) \o u = s \o (t \o u)
          BY ConcatAssociative
        <4>6. Append(W \o r.windows, w) = (W \o r.windows) \o <<w>> /\ Append(r.windows, w) = r.windows \o <<w>>
          BY <4>3, <4>4
        <4>7. (W \o r.windows) \o <<w>> = W \o (r.windows \o <<w>>)
          BY Zenon, <4>3, <4>5
        <4> QED BY <4>6, <4>7
      <3>7. g[i].windows = Append(r.windows, w) /\ g[i].left = back
        BY <3>2
      <3>8. Split(f, P, d + n, W \o g[i].windows, g[i].left)
        BY <3>3, <3>6, <3>7
      <3>9. Len(back) =< L - i
        BY <1>1, <2>1, <3>1, <3>3, <3>5
      <3> QED BY <2>1, <3>7, <3>8, <3>9
    <2> QED BY <2>3, <2>4
  <1> HIDE DEF T
  <1>5. L \in T
    <2>1. L \in 0..L
      BY <1>1
    <2> QED BY <1>1, <1>3, <1>4, <2>1, UpTo
  <1>6. Turned(L) /\ g[L] \in AggResult(f)
    <2>1. L \in 0..L
      BY <1>1
    <2> QED BY <1>2, <1>5, <2>1 DEF T
  <1>7. ~WindowIsOver(g[L].left)
    <2> SUFFICES ASSUME WindowIsOver(g[L].left) PROVE FALSE
      OBVIOUS
    <2>1. g[L].left \in Seq(AggPoint) /\ Len(g[L].left) =< L - L
      BY <1>6 DEF AggResult
    <2>2. g[L].left = <<>>
      BY <1>1, <2>1
    <2> QED BY <2>2 DEF WindowIsOver
  <1> QED BY <1>2, <1>6, <1>7

\* The points of the current buffer that are aggregated, and those that are left.
Joining(k) == IF k \in aggTable THEN aggBatch[k] ELSE <<>>
Passed(k) == IF k \in aggTable THEN <<>> ELSE aggBatch[k]

\* What is left of some points by these windows, none of which is over.
IsLeft(f, points, windows, kept) ==
    ~WindowIsOver(kept) /\ \E c : Split(f, points, c, windows, kept)

\* What is known of a key: its buffer ends with the points of the current buffer.
AggKeyInv(k) ==
    LET r == aggReceived[k] IN
    /\ InOrder(r.after \o Joining(k))
    /\ \E kept : IsLeft(aggFunction, r.after, aggOut[k].windows, kept) /\ aggBuffer[k] = kept \o Joining(k)
    /\ aggOut[k].through = r.before
    /\ k \notin aggTable => r.after = <<>>
    /\ ~aggLock.read => aggBatch[k] = <<>>

AggTypeOK ==
    /\ aggLock = [read |-> aggLock.read, waiting |-> aggLock.waiting]
    /\ aggBuffer \in [AggKeys -> Seq(AggPoint)] /\ aggBatch \in [AggKeys -> Seq(AggPoint)]
    /\ aggReceived \in [AggKeys -> [before : Seq(AggPoint), after : Seq(AggPoint)]]
    /\ aggOut \in [AggKeys -> [windows : Seq(AggWindow(aggFunction)), through : Seq(AggPoint)]]

AggInv == AggTypeOK /\ \A k \in AggKeys : AggKeyInv(k)

LEMMA AggInitOK == AggregationInit => AggInv
  <1> SUFFICES ASSUME AggregationInit PROVE AggInv
    OBVIOUS
  <1> DEFINE none == <<>>
  <1>1. none \in Seq(AggPoint) /\ none \in Seq(AggWindow(aggFunction)) /\ Len(none) = 0 /\ DOMAIN none = {}
        /\ SubSeq(none, 0 + 1, Len(none)) = none /\ none \o none = none
    OBVIOUS
  <1>2. AggTypeOK
    BY <1>1 DEF AggregationInit, AggTypeOK
  <1>3. ASSUME NEW k \in AggKeys PROVE AggKeyInv(k)
    <2>1. /\ aggReceived[k].after = none /\ aggReceived[k].before = none /\ aggBuffer[k] = none
          /\ aggOut[k].windows = none /\ aggOut[k].through = none /\ aggBatch[k] = none /\ Joining(k) = none
      BY DEF AggregationInit, Joining
    <2>2. InOrder(none) /\ ~WindowIsOver(none)
      BY <1>1 DEF InOrder, WindowIsOver
    <2>6. none = <<>>
      OBVIOUS
    <2> HIDE DEF none
    <2>3. Split(aggFunction, none, 0, none, none)
      <3>1. 1..0 = {} /\ 0..0 = {0}
        OBVIOUS
      <3>2. none # <<>> => FALSE
        BY DEF none
      <3> QED BY <1>1, <3>1, <3>2 DEF Split
    <2>4. IsLeft(aggFunction, aggReceived[k].after, aggOut[k].windows, none) /\ aggBuffer[k] = none \o Joining(k)
      BY <1>1, <2>1, <2>2, <2>3 DEF IsLeft
    <2>5. InOrder(aggReceived[k].after \o Joining(k)) /\ aggOut[k].through = aggReceived[k].before
      BY <1>1, <2>1, <2>2
    <2> QED BY <2>1, <2>4, <2>5, <2>6 DEF AggKeyInv
  <1> QED BY <1>2, <1>3 DEF AggInv

\* The points after the first ones of a sequence in order are in order.
LEMMA EndInOrder ==
    ASSUME NEW P \in Seq(AggPoint), NEW Q \in Seq(AggPoint),
           \A i \in 2..Len(P \o Q) : (P \o Q)[i - 1].t =< (P \o Q)[i].t
    PROVE  InOrder(Q)
  <1> DEFINE R == P \o Q
  <1>1. /\ Len(P) \in Nat /\ Len(Q) \in Nat /\ Len(R) = Len(P) + Len(Q)
        /\ \A i \in 1..Len(Q) : R[Len(P) + i] = Q[i]
    OBVIOUS
  <1>2. ASSUME NEW i \in 2..Len(Q) PROVE Q[i - 1].t =< Q[i].t
    <2>1. /\ Len(P) + i \in 2..Len(R) /\ (Len(P) + i) - 1 = Len(P) + (i - 1)
          /\ i \in 1..Len(Q) /\ i - 1 \in 1..Len(Q)
      BY <1>1
    <2>2. R[(Len(P) + i) - 1].t =< R[Len(P) + i].t
      BY <2>1
    <2> HIDE DEF R
    <2> QED BY <1>1, <2>1, <2>2
  <1> QED BY <1>2, OrderedByPairs

\* So are those before them.
LEMMA StartInOrder ==
    ASSUME NEW P \in Seq(AggPoint), NEW Q \in Seq(AggPoint), InOrder(P \o Q)
    PROVE  InOrder(P)
  <1>1. DOMAIN P \subseteq DOMAIN (P \o Q) /\ \A i \in DOMAIN P : (P \o Q)[i] = P[i]
    OBVIOUS
  <1> QED BY <1>1 DEF InOrder

LEMMA StoreBatchOK ==
    ASSUME AggInv, NEW batch \in AggBatches, StoreBatch(batch)
    PROVE  AggInv'
  <1> DEFINE added(k) == IF k \in aggTable THEN batch[k] ELSE <<>>
             P(k) == aggReceived[k].after
  <1>1. /\ UNCHANGED <<aggFunction, aggTable, aggReceived, aggOut>> /\ aggBatch' = batch /\ ~aggLock.read
        /\ aggLock' = [aggLock EXCEPT !.read = TRUE]
        /\ aggBuffer' = [k \in AggKeys |-> aggBuffer[k] \o added(k)]
    BY DEF StoreBatch
  <1>2. /\ aggLock = [read |-> aggLock.read, waiting |-> aggLock.waiting]
        /\ \A k \in AggKeys : AggKeyInv(k)
        /\ \A k \in AggKeys : /\ aggReceived[k].before \in Seq(AggPoint) /\ P(k) \in Seq(AggPoint)
                              /\ aggBuffer[k] \in Seq(AggPoint)
    BY DEF AggInv, AggTypeOK
  <1>3. aggLock'.read = TRUE /\ aggLock' = [read |-> aggLock'.read, waiting |-> aggLock'.waiting]
    <2>1. aggLock' = [read |-> TRUE, waiting |-> aggLock.waiting]
      BY <1>1, <1>2
    <2> QED BY <2>1
  <1>4. ASSUME NEW k \in AggKeys
        PROVE  /\ batch[k] \in Seq(AggPoint) /\ added(k) \in Seq(AggPoint) /\ InOrder(P(k) \o batch[k])
    <2>1. /\ batch[k] \in UNION {[1..n -> AggPoint] : n \in 0..2}
          /\ LET all == aggReceived[k].before \o P(k) \o batch[k]
             IN \A i \in 2..Len(all) : all[i - 1].t =< all[i].t
      BY DEF AggBatches
    <2>2. batch[k] \in Seq(AggPoint)
      <3>1. PICK n \in 0..2 : batch[k] \in [1..n -> AggPoint]
        BY <2>1
      <3> QED BY <3>1
    <2>3. added(k) \in Seq(AggPoint)
      BY <2>2
    <2>4. (aggReceived[k].before \o P(k)) \o batch[k] = aggReceived[k].before \o (P(k) \o batch[k])
      <3>1. aggReceived[k].before \in Seq(AggPoint) /\ P(k) \in Seq(AggPoint)
        BY <1>2
      <3> HIDE DEF P
      <3>2. \A s, t, u \in Seq(AggPoint) : (s \o t) \o u = s \o (t \o u)
        BY ConcatAssociative
      <3> QED BY Zenon, <2>2, <3>1, <3>2
    <2>5. P(k) \o batch[k] \in Seq(AggPoint)
      BY <1>2, <2>2
    <2> QED BY <1>2, <2>1, <2>2, <2>3, <2>4, <2>5, EndInOrder
  <1>5. ASSUME NEW k \in AggKeys PROVE Joining(k)' = added(k) /\ Joining(k) = <<>>
    <2>1. aggBatch[k] = <<>>
      BY <1>1, <1>2 DEF AggKeyInv
    <2> QED BY <1>1, <2>1 DEF Joining
  <1> HIDE DEF added
  <1>6. AggTypeOK'
    <2>1. aggBuffer' \in [AggKeys -> Seq(AggPoint)]
      <3>1. \A k \in AggKeys : aggBuffer[k] \o added(k) \in Seq(AggPoint)
        BY <1>2, <1>4, ConcatProperties
      <3> QED BY <1>1, <3>1
    <2>2. aggBatch' \in [AggKeys -> Seq(AggPoint)]
      <3>1. batch \in [AggKeys -> UNION {[1..n -> AggPoint] : n \in 0..2}]
        BY DEF AggBatches
      <3>2. \A k \in AggKeys : batch[k] \in Seq(AggPoint)
        BY <1>4
      <3> QED BY <1>1, <3>1, <3>2
    <2> QED BY <1>1, <1>3, <2>1, <2>2 DEF AggInv, AggTypeOK
  <1>7. ASSUME NEW k \in AggKeys PROVE AggKeyInv(k)'
    <2>1. PICK kept : IsLeft(aggFunction, P(k), aggOut[k].windows, kept) /\ aggBuffer[k] = kept \o Joining(k)
      BY <1>2 DEF AggKeyInv
    <2>2. aggBuffer[k] = kept
      <3>1. kept \in Seq(AggPoint)
        BY <1>2, <2>1 DEF IsLeft, Split
      <3> QED BY <1>5, <2>1, <3>1
    <2>3. aggBuffer'[k] = kept \o added(k)
      BY <1>1, <2>2
    <2>4. InOrder(P(k) \o added(k))
      <3>1. InOrder(P(k) \o Joining(k)) /\ P(k) \o <<>> = P(k)
        BY <1>2 DEF AggKeyInv
      <3>2. InOrder(P(k))
        BY <1>5, <3>1
      <3> QED BY <1>4, <3>1, <3>2 DEF added
    <2>5. IsLeft(aggFunction', aggReceived'[k].after, aggOut'[k].windows, kept)
      BY <1>1, <2>1
    <2>6. InOrder(aggReceived'[k].after \o Joining(k)') /\ aggBuffer'[k] = kept \o Joining(k)'
      BY <1>1, <1>5, <2>3, <2>4
    <2>7. /\ aggOut'[k].through = aggReceived'[k].before
          /\ k \notin aggTable' => aggReceived'[k].after = <<>>
          /\ ~aggLock'.read => aggBatch'[k] = <<>>
      BY <1>1, <1>2, <1>3 DEF AggKeyInv
    <2> QED BY <2>5, <2>6, <2>7 DEF AggKeyInv
  <1> QED BY <1>6, <1>7 DEF AggInv

LEMMA BounceBufferOK == ASSUME AggInv, BounceBuffer PROVE AggInv'
  <1> DEFINE f == aggFunction
             bounced(k) == Bounced(f, aggBuffer[k])
             P(k) == aggReceived[k].after
  <1>1. /\ UNCHANGED <<aggFunction, aggTable>> /\ aggBatch' = [k \in AggKeys |-> <<>>]
        /\ aggLock' = [aggLock EXCEPT !.read = FALSE]
        /\ aggReceived' = [k \in AggKeys |-> [before |-> aggReceived[k].before \o Passed(k),
                                              after |-> P(k) \o Joining(k)]]
        /\ aggBuffer' = [k \in AggKeys |-> bounced(k).left]
        /\ aggOut' = [k \in AggKeys |-> [windows |-> aggOut[k].windows \o bounced(k).windows,
                                         through |-> aggOut[k].through \o Passed(k)]]
    BY DEF BounceBuffer, Joining, Passed
  <1>2. /\ aggLock = [read |-> aggLock.read, waiting |-> aggLock.waiting]
        /\ \A k \in AggKeys : AggKeyInv(k)
        /\ \A k \in AggKeys : /\ aggReceived[k].before \in Seq(AggPoint) /\ P(k) \in Seq(AggPoint)
                              /\ aggOut[k].windows \in Seq(AggWindow(f)) /\ aggOut[k].through \in Seq(AggPoint)
                              /\ aggBatch[k] \in Seq(AggPoint)
    BY DEF AggInv, AggTypeOK
  <1>3. aggLock' = [read |-> aggLock'.read, waiting |-> aggLock'.waiting]
    <2>1. aggLock' = [read |-> FALSE, waiting |-> aggLock.waiting]
      BY <1>1, <1>2
    <2> QED BY <2>1
  <1>4. ASSUME NEW k \in AggKeys
        PROVE  Joining(k) \in Seq(AggPoint) /\ Passed(k) \in Seq(AggPoint) /\ Joining(k)' = <<>>
    BY <1>1, <1>2 DEF Joining, Passed
  <1>5. ASSUME NEW k \in AggKeys
        PROVE  /\ bounced(k) \in AggResult(f)
               /\ InOrder(P(k) \o Joining(k))
               /\ IsLeft(f, P(k) \o Joining(k), aggOut[k].windows \o bounced(k).windows, bounced(k).left)
    <2>1. PICK kept : IsLeft(f, P(k), aggOut[k].windows, kept) /\ aggBuffer[k] = kept \o Joining(k)
      BY <1>2 DEF AggKeyInv
    <2>2. InOrder(P(k) \o Joining(k))
      BY <1>2 DEF AggKeyInv
    <2>3. PICK c : Split(f, P(k), c, aggOut[k].windows, kept)
      BY <2>1 DEF IsLeft
    <2>4. Split(f, P(k) \o Joining(k), c, aggOut[k].windows, kept \o Joining(k))
      BY <1>2, <1>4, <2>2, <2>3, SplitExtends
    <2>5. P(k) \o Joining(k) \in Seq(AggPoint)
      BY <1>2, <1>4
    <2>6. Split(f, P(k) \o Joining(k), c, aggOut[k].windows, aggBuffer[k])
      BY <2>1, <2>4
    <2> QED BY <2>2, <2>5, <2>6, BouncedSplits DEF IsLeft
  <1> HIDE DEF bounced
  <1>6. ASSUME NEW k \in AggKeys
        PROVE  /\ bounced(k).left \in Seq(AggPoint) /\ bounced(k).windows \in Seq(AggWindow(f))
               /\ aggReceived[k].before \o Passed(k) \in Seq(AggPoint) /\ P(k) \o Joining(k) \in Seq(AggPoint)
               /\ aggOut[k].windows \o bounced(k).windows \in Seq(AggWindow(f))
               /\ aggOut[k].through \o Passed(k) \in Seq(AggPoint)
    <2>1. bounced(k).left \in Seq(AggPoint) /\ bounced(k).windows \in Seq(AggWindow(f))
      BY <1>5 DEF AggResult
    <2> QED BY <1>2, <1>4, <2>1, ConcatProperties
  <1>7. AggTypeOK'
    <2>1. aggBuffer' \in [AggKeys -> Seq(AggPoint)] /\ aggBatch' \in [AggKeys -> Seq(AggPoint)]
      BY <1>1, <1>6
    <2>2. aggReceived' \in [AggKeys -> [before : Seq(AggPoint), after : Seq(AggPoint)]]
      BY <1>1, <1>6
    <2>3. aggOut' \in [AggKeys -> [windows : Seq(AggWindow(f)), through : Seq(AggPoint)]]
      BY <1>1, <1>6
    <2> QED BY <1>1, <1>3, <2>1, <2>2, <2>3 DEF AggTypeOK
  <1>8. ASSUME NEW k \in AggKeys PROVE AggKeyInv(k)'
    <2> DEFINE before == aggReceived[k].before \o Passed(k)
               after == P(k) \o Joining(k)
               windows == aggOut[k].windows \o bounced(k).windows
               through == aggOut[k].through \o Passed(k)
               kept == bounced(k).left
    <2>1. /\ aggReceived'[k] = [before |-> before, after |-> after]
          /\ aggOut'[k] = [windows |-> windows, through |-> through]
          /\ aggBuffer'[k] = kept /\ aggBatch'[k] = <<>>
      BY <1>1
    <2>2. aggOut[k].through = aggReceived[k].before
      BY <1>2 DEF AggKeyInv
    <2>3. before = through
      BY <2>2
    <2>4. k \notin aggTable => after = <<>>
      BY <1>2 DEF AggKeyInv, Joining
    <2>5. kept \o Joining(k)' = kept /\ after \o Joining(k)' = after
      <3>1. kept \in Seq(AggPoint) /\ after \in Seq(AggPoint) /\ Joining(k)' = <<>>
        BY <1>4, <1>6
      <3> HIDE DEF kept, after
      <3>2. kept \o <<>> = kept /\ after \o <<>> = after
        BY <3>1
      <3> QED BY <3>1, <3>2
    <2>6. InOrder(after) /\ IsLeft(f, after, windows, kept)
      BY <1>5
    <2> HIDE DEF before, after, windows, through, kept
    <2>7. /\ aggReceived'[k].before = before /\ aggReceived'[k].after = after
          /\ aggOut'[k].windows = windows /\ aggOut'[k].through = through
      BY <2>1
    <2>8. IsLeft(aggFunction', aggReceived'[k].after, aggOut'[k].windows, kept)
          /\ aggBuffer'[k] = kept \o Joining(k)'
      BY <1>1, <2>1, <2>5, <2>6, <2>7
    <2>9. InOrder(aggReceived'[k].after \o Joining(k)')
      BY <2>5, <2>6, <2>7
    <2> QED BY <1>1, <2>1, <2>3, <2>4, <2>7, <2>8, <2>9 DEF AggKeyInv
  <1> QED BY <1>7, <1>8 DEF AggInv

LEMMA TableStepOK == ASSUME AggInv, FillTable \/ \E k \in AggKeys : AskToWrite(k) PROVE AggInv'
  <1>1. /\ UNCHANGED <<aggFunction, aggBuffer, aggBatch, aggReceived, aggOut>>
        /\ aggTable \subseteq aggTable' /\ (aggTable' = aggTable \/ ~aggLock.read)
        /\ \E w : aggLock' = [aggLock EXCEPT !.waiting = w]
    BY DEF FillTable, AskToWrite, IsFree
  <1>2. aggLock'.read = aggLock.read /\ aggLock' = [read |-> aggLock'.read, waiting |-> aggLock'.waiting]
    <2>1. PICK w : aggLock' = [aggLock EXCEPT !.waiting = w]
      BY <1>1
    <2>2. aggLock = [read |-> aggLock.read, waiting |-> aggLock.waiting]
      BY DEF AggInv, AggTypeOK
    <2>3. aggLock' = [read |-> aggLock.read, waiting |-> w]
      BY <2>1, <2>2
    <2> QED BY <2>3
  <1>3. AggTypeOK'
    BY <1>1, <1>2 DEF AggInv, AggTypeOK
  <1>4. ASSUME NEW k \in AggKeys PROVE AggKeyInv(k)'
    <2>1. AggKeyInv(k)
      BY DEF AggInv
    <2>2. Joining(k)' = Joining(k)
      BY <1>1, <2>1 DEF Joining, AggKeyInv
    <2> QED BY <1>1, <1>2, <2>1, <2>2 DEF AggKeyInv
  <1> QED BY <1>3, <1>4 DEF AggInv

LEMMA AggregationInvariant == AggregationSpec => []AggInv
  <1>1. AggInv /\ [AggregationNext]_aggVars => AggInv'
    <2> SUFFICES ASSUME AggInv, [AggregationNext]_aggVars PROVE AggInv'
      OBVIOUS
    <2>1. CASE AggregationNext
      BY <2>1, StoreBatchOK, BounceBufferOK, TableStepOK DEF AggregationNext
    <2>2. CASE UNCHANGED aggVars
      BY <2>2 DEF aggVars, AggInv, AggTypeOK, AggKeyInv, Joining
    <2> QED BY <2>1, <2>2
  <1> QED BY AggInitOK, <1>1, PTL DEF AggregationSpec

\* What WindowsAreWhole says of the points of a key and of its windows.
WholeWindows(f, P, W) ==
    LET starts == {WindowOf(p.t) : p \in Range(P)} IN
    /\ {w.t : w \in Range(W)} = {t \in starts : \E u \in starts : u > t}
    /\ \A i, j \in DOMAIN W : i < j => W[i].t < W[j].t
    /\ \A w \in Range(W) : w.v = Aggregate(f, WindowPoints(P, w.t))

LEMMA WindowsFromSplit ==
    ASSUME NEW f, NEW P \in Seq(AggPoint), InOrder(P), NEW c, NEW W, NEW left, Split(f, P, c, W, left),
           ~WindowIsOver(left)
    PROVE  WholeWindows(f, P, W)
  <1> DEFINE starts == {WindowOf(p.t) : p \in Range(P)}
             L == Len(P)
             At(i) == WindowOf(P[i].t)
  <1>1. /\ L \in Nat /\ DOMAIN P = 1..L /\ c \in 0..L /\ W \in Seq(AggWindow(f))
        /\ \A i \in 1..L : P[i].t \in Nat /\ At(i) \in Nat
        /\ left = SubSeq(P, c + 1, L)
    BY PointTimes, WindowIs DEF Split
  <1>2. /\ DOMAIN W = 1..Len(W) /\ Len(W) \in Nat /\ Range(W) = {W[k] : k \in 1..Len(W)}
        /\ Range(P) = {P[i] : i \in 1..L}
    BY <1>1 DEF Range
  <1>3. starts = {At(i) : i \in 1..L}
    BY <1>2
  <1> HIDE DEF starts
  <1>4. \A i, j \in 1..L : i =< j => At(i) =< At(j)
    <2>1. \A i, j \in 1..L : i =< j => P[i].t =< P[j].t
      BY <1>1 DEF InOrder
    <2> QED BY <1>1, <2>1, WindowsGrow
  <1>5. \A i \in 1..c, j \in (c + 1)..L : At(i) < At(j)
    BY DEF Split
  <1>6. ASSUME NEW i \in (c + 1)..L PROVE At(i) = At(L)
    <2>1. left \in Seq(AggPoint) /\ Len(left) = L - c /\ L - c >= 1
          /\ left[1] = P[c + 1] /\ left[L - c] = P[L] /\ left # <<>>
      <3>1. /\ left \in Seq(AggPoint) /\ Len(left) = L - c
            /\ \A j \in 1..(L - c) : left[j] = P[c + j]
        BY <1>1, RestOf
      <3>2. 1 \in 1..(L - c) /\ L - c \in 1..(L - c) /\ c + (L - c) = L /\ L - c >= 1
        BY <1>1
      <3> HIDE DEF L
      <3> QED BY <3>1, <3>2
    <2>2. Head(left) = P[c + 1] /\ Last(left) = P[L]
      BY <2>1 DEF Last
    <2>3. ~(P[L].t - WindowStart(P[c + 1].t) >= AggInterval)
      BY <2>1, <2>2 DEF WindowIsOver, ContainsEnough
    <2>4. c + 1 \in 1..L /\ L \in 1..L /\ i \in 1..L /\ c + 1 =< i /\ i =< L /\ c + 1 =< L
      BY <1>1
    <2>5. P[c + 1].t =< P[L].t
      BY <1>1, <2>4 DEF InOrder
    <2> HIDE DEF L
    <2>6. WindowOf(P[L].t) = WindowOf(P[c + 1].t)
      <3>1. P[L].t \in Nat /\ P[c + 1].t \in Nat /\ AggInterval \in Nat
        BY <1>1, <2>4, AggIntervalAssumption
      <3>2. WindowStart(P[c + 1].t) = WindowOf(P[c + 1].t) /\ WindowOf(P[c + 1].t) \in Nat
        BY <3>1, WindowIs
      <3>3. P[L].t - WindowOf(P[c + 1].t) < AggInterval
        BY <2>3, <3>1, <3>2
      <3> QED BY <2>5, <3>1, <3>3, WindowsInOrder
    <2>7. At(c + 1) =< At(i) /\ At(i) =< At(L) /\ At(i) \in Nat /\ At(L) \in Nat
      BY <1>1, <1>4, <2>4
    <2> QED BY <2>6, <2>7
  <1> HIDE DEF L, At
  <1>7. ASSUME NEW k \in 1..Len(W) PROVE \E i \in 1..c : At(i) = W[k].t
    <2>1. IsWhole(f, P, c, W[k])
      BY DEF Split
    <2>2. c \in 0..Len(P)
      BY <1>1 DEF L
    <2> QED BY <2>1, <2>2, WholeStart DEF At
  <1>8. \A i \in 1..c : \E k \in 1..Len(W) : W[k].t = At(i)
    BY DEF Split, At
  <1>9. \A i \in 1..c : c + 1 \in (c + 1)..L /\ c + 1 \in 1..L /\ i \in 1..L
    <2> TAKE i \in 1..c
    <2>1. P # <<>>
      BY <1>1 DEF L
    <2>2. c < L
      BY <2>1 DEF Split, L
    <2> QED BY <1>1, <2>2
  <1>10. ASSUME NEW w \in Range(W) PROVE w.t \in starts /\ \E u \in starts : u > w.t
    <2>1. PICK k \in 1..Len(W) : w = W[k]
      BY <1>2
    <2>2. PICK i \in 1..c : At(i) = w.t
      BY <1>7, <2>1
    <2>3. At(i) < At(c + 1) /\ At(i) \in Nat /\ At(c + 1) \in Nat /\ At(i) \in starts /\ At(c + 1) \in starts
      BY <1>1, <1>3, <1>5, <1>9
    <2> QED BY <2>2, <2>3
  <1>11. ASSUME NEW t \in starts, NEW u \in starts, u > t PROVE \E w \in Range(W) : w.t = t
    <2>1. PICK i \in 1..L : t = At(i)
      BY <1>3
    <2>2. PICK j \in 1..L : u = At(j)
      BY <1>3
    <2>3. i \in 1..c
      <3> SUFFICES ASSUME i \notin 1..c PROVE FALSE
        OBVIOUS
      <3>1. i \in (c + 1)..L /\ L \in 1..L /\ j =< L
        BY <1>1
      <3>2. At(i) = At(L) /\ At(j) =< At(L) /\ At(j) \in Nat /\ At(L) \in Nat
        BY <1>1, <1>4, <1>6, <3>1
      <3> QED BY <1>11, <2>1, <2>2, <3>2
    <2>4. PICK k \in 1..Len(W) : W[k].t = At(i)
      BY <1>8, <2>3
    <2> QED BY <1>2, <2>1, <2>4
  <1>12. {w.t : w \in Range(W)} = {t \in starts : \E u \in starts : u > t}
    BY <1>10, <1>11
  <1>13. ASSUME NEW w \in Range(W) PROVE w.v = Aggregate(f, WindowPoints(P, w.t))
    <2>1. PICK k \in 1..Len(W) : w = W[k]
      BY <1>2
    <2>2. PICK a \in 0..c, b \in 0..c : MadeOf(f, P, w, a, b)
      BY <2>1 DEF Split, IsWhole
    <2>3. a \in 0..L /\ b \in 0..L /\ a =< b
      BY <1>1, <2>2 DEF MadeOf
    <2> DEFINE S == {p \in Range(P) : WindowOf(p.t) = w.t}
    <2>4. \A i \in 1..L : P[i] \in S <=> i \in (a + 1)..b
      <3>1. \A i \in 1..L : P[i] \in Range(P)
        BY <1>2
      <3> QED BY <2>2, <3>1 DEF MadeOf, L
    <2>5. Only(P, S) = SubSeq(P, a + 1, b)
      <3> HIDE DEF S
      <3> QED BY <2>3, <2>4, OnlyBetween DEF L
    <2> QED BY <2>2, <2>5 DEF MadeOf, WindowPoints
  <1>14. \A i, j \in DOMAIN W : i < j => W[i].t < W[j].t
    BY <1>2 DEF Split
  <1> QED BY <1>12, <1>13, <1>14 DEF WholeWindows, starts

\* Aggregation gives one point for each window that is over, in order, made of all the points of
\* the window, and leaves the points that come before the metrics are in the table as they are,
\* for any interval, number of keys and batches.
THEOREM WindowsStayWhole == AggregationSpec => []WindowsAreWhole
  <1>1. AggInv => WindowsAreWhole
    <2> SUFFICES ASSUME AggInv, NEW k \in AggKeys
                 PROVE  LET points == aggReceived[k].after
                            starts == {WindowOf(p.t) : p \in Range(points)}
                            windows == aggOut[k].windows
                        IN /\ {w.t : w \in Range(windows)} = {t \in starts : \E u \in starts : u > t}
                           /\ \A i, j \in DOMAIN windows : i < j => windows[i].t < windows[j].t
                           /\ \A w \in Range(windows) : w.v = Aggregate(aggFunction, WindowPoints(points, w.t))
                           /\ aggOut[k].through = aggReceived[k].before
      BY DEF WindowsAreWhole
    <2>1. AggKeyInv(k) /\ aggReceived[k].after \in Seq(AggPoint) /\ Joining(k) \in Seq(AggPoint)
      BY DEF AggInv, AggTypeOK, Joining
    <2>2. PICK c, kept : /\ Split(aggFunction, aggReceived[k].after, c, aggOut[k].windows, kept)
                         /\ ~WindowIsOver(kept)
      BY <2>1 DEF AggKeyInv, IsLeft
    <2>3. InOrder(aggReceived[k].after) /\ aggOut[k].through = aggReceived[k].before
      <3>1. InOrder(aggReceived[k].after \o Joining(k)) /\ aggOut[k].through = aggReceived[k].before
        BY <2>1 DEF AggKeyInv
      <3> QED BY <2>1, <3>1, StartInOrder
    <2>4. WholeWindows(aggFunction, aggReceived[k].after, aggOut[k].windows)
      BY <2>1, <2>2, <2>3, WindowsFromSplit
    <2> QED BY <2>3, <2>4 DEF WholeWindows
  <1> QED BY <1>1, AggregationInvariant, PTL

-------------------------------------------------------------------------------
(* Attribution: series of points.                                            *)

\* The largest of some numbers.
LEMMA LargestIs ==
    ASSUME NEW n \in Nat, NEW T, T \subseteq 0..n, T # {}
    PROVE  Max(T) \in T /\ \A x \in T : x =< Max(T)
  <1> DEFINE U == {n - x : x \in T}
  <1>1. U \subseteq Nat /\ U # {}
    <2>1. \A x \in T : n - x \in Nat
      OBVIOUS
    <2> QED BY <2>1
  <1>2. PICK u \in U : \A v \in U : u =< v
    <2> HIDE DEF U
    <2> QED BY <1>1, SmallestElement
  <1>3. PICK x \in T : u = n - x
    OBVIOUS
  <1>4. \A y \in T : x >= y
    <2> SUFFICES ASSUME NEW y \in T PROVE x >= y
      OBVIOUS
    <2>1. n - y \in U
      OBVIOUS
    <2>2. n - x =< n - y
      BY <1>2, <1>3, <2>1
    <2>3. x \in 0..n /\ y \in 0..n
      BY <1>3
    <2> HIDE DEF U
    <2> QED BY <2>2, <2>3
  <1> HIDE DEF U
  <1>5. \E z \in T : \A y \in T : z >= y
    BY <1>4
  <1>6. Max(T) \in T /\ \A y \in T : Max(T) >= y
    BY <1>5 DEF Max
  <1> QED BY <1>6

\* The smallest.
LEMMA SmallestIs ==
    ASSUME NEW T, T \subseteq Nat, T # {}
    PROVE  Min(T) \in T /\ \A x \in T : Min(T) =< x
  <1>1. \E x \in T : \A y \in T : x =< y
    BY SmallestElement
  <1> QED BY <1>1 DEF Min

\* The larger of two numbers.
LEMMA LargerIs ==
    ASSUME NEW a \in Int, NEW b \in Int
    PROVE  Max({a, b}) \in {a, b} /\ a =< Max({a, b}) /\ b =< Max({a, b})
  <1>1. \E x \in {a, b} : \A y \in {a, b} : x >= y
    <2>1. a >= b \/ b >= a
      OBVIOUS
    <2> QED BY <2>1
  <1>2. Max({a, b}) \in {a, b} /\ \A y \in {a, b} : Max({a, b}) >= y
    BY <1>1 DEF Max
  <1> QED BY <1>2

\* The points of a around t are the nearest ones of the series.
Nearest(points, t, a) ==
    /\ a # Missing
    /\ a[1] \in points /\ a[2] \in points /\ a[1] =< t /\ t =< a[2]
    /\ \A p \in points : (p =< t => p =< a[1]) /\ (p >= t => p >= a[2])

\* A place from which a search at t or later misses no point before t.
StartsRight(points, start, t) == start = 0 \/ (start \in points /\ start =< t)

\* What find_points_around gives from such a place.
LEMMA AroundIs ==
    ASSUME NEW n \in Nat, NEW points \in SUBSET (1..n), NEW t \in 1..n, NEW start,
           StartsRight(points, start, t)
    PROVE  LET around == FindAround(points, start, t) IN
           /\ around = Missing \/ Nearest(points, t, around)
           /\ (\E p \in points : p =< t) /\ (\E p \in points : p >= t) => around # Missing
  <1> DEFINE before == {p \in points : start =< p /\ p < t}
             notBefore == {p \in points : start =< p /\ p >= t}
             around == FindAround(points, start, t)
  <1>1. start \in Nat /\ start =< t /\ \A p \in points : p \in Nat /\ p =< n
    <2>1. ASSUME NEW p \in points PROVE p \in Nat /\ p =< n
      <3>1. p \in 1..n
        OBVIOUS
      <3> QED BY <3>1
    <2>2. t \in Nat /\ 0 =< t
      OBVIOUS
    <2>3. start = 0 \/ (start \in points /\ start =< t)
      BY Zenon DEF StartsRight
    <2>4. CASE start = 0
      BY <2>1, <2>2, <2>4
    <2>5. CASE start \in points /\ start =< t
      BY <2>1, <2>5
    <2> QED BY <2>3, <2>4, <2>5
  <1>2. before \subseteq 0..n /\ notBefore \subseteq Nat
    <2>1. \A p \in points : p \in 0..n /\ p \in Nat
      BY <1>1
    <2> QED BY <2>1
  <1>3. \A p \in points : p >= t => p \in notBefore
    BY <1>1
  <1>4. \A p \in points : p < t => p \in before \/ (p < start /\ start \in points)
    BY <1>1 DEF StartsRight
  <1>5. start \in points => start \in before \/ start \in notBefore
    BY <1>1
  <1>6. around = IF notBefore = {} THEN Missing
                 ELSE IF t \in notBefore THEN <<t, t>>
                 ELSE IF before = {} THEN Missing ELSE <<Max(before), Min(notBefore)>>
    BY DEF FindAround
  <1> HIDE DEF around
  <1>7. CASE notBefore = {}
    <2>1. ~\E p \in points : p >= t
      BY <1>3, <1>7
    <2>2. around = Missing
      BY <1>6, <1>7
    <2> QED BY <2>1, <2>2 DEF around
  <1>8. CASE notBefore # {} /\ t \in notBefore
    <2>1. around = <<t, t>> /\ t \in points
      BY <1>6, <1>8
    <2>2. around # Missing /\ around[1] = t /\ around[2] = t
      BY <2>1 DEF Missing
    <2>3. Nearest(points, t, around)
      BY <1>1, <2>1, <2>2 DEF Nearest
    <2> QED BY <2>2, <2>3 DEF around
  <1>9. CASE notBefore # {} /\ t \notin notBefore /\ before = {}
    <2>1. \A p \in points : ~(p =< t)
      <3> TAKE p \in points
      <3>1. p # t
        BY <1>1, <1>3, <1>9
      <3>2. ~(p < t)
        <4> SUFFICES ASSUME p < t PROVE FALSE
          OBVIOUS
        <4>1. p < start /\ start \in points
          BY <1>4, <1>9
        <4>2. start \in notBefore
          BY <1>5, <1>9, <4>1
        <4>3. start = t
          BY <1>1, <4>2
        <4> QED BY <1>9, <4>2, <4>3
      <3> QED BY <1>1, <3>1, <3>2
    <2>2. around = Missing
      BY <1>6, <1>9
    <2> QED BY <2>1, <2>2 DEF around
  <1>10. CASE notBefore # {} /\ t \notin notBefore /\ before # {}
    <2>1. around = <<Max(before), Min(notBefore)>>
      BY <1>6, <1>10
    <2>2. Max(before) \in before /\ \A x \in before : x =< Max(before)
      <3> HIDE DEF before, notBefore
      <3> QED BY <1>2, <1>10, LargestIs
    <2>3. Min(notBefore) \in notBefore /\ \A x \in notBefore : Min(notBefore) =< x
      <3> HIDE DEF before, notBefore
      <3> QED BY <1>2, <1>10, SmallestIs
    <2> DEFINE a == Max(before)
               b == Min(notBefore)
    <2>4. around # Missing /\ around[1] = a /\ around[2] = b
      BY <2>1 DEF Missing
    <2>5. a \in points /\ a < t /\ start =< a /\ b \in points /\ b >= t
      BY <2>2, <2>3
    <2> HIDE DEF a, b
    <2>6. ASSUME NEW p \in points, p =< t PROVE p =< a
      <3>1. p # t
        BY <1>1, <1>3, <1>10
      <3>2. p < t
        BY <1>1, <2>6, <3>1
      <3>3. p \in before \/ p < start
        BY <1>4, <3>2
      <3>4. p \in before => p =< a
        BY <2>2 DEF a
      <3> QED BY <1>1, <2>5, <3>3, <3>4
    <2>7. ASSUME NEW p \in points, p >= t PROVE p >= b
      <3>1. p \in notBefore
        BY <1>3, <2>7
      <3>2. b =< p
        BY <2>3, <3>1 DEF b
      <3> QED BY <1>1, <2>5, <3>2
    <2>8. Nearest(points, t, around)
      BY <1>1, <2>4, <2>5, <2>6, <2>7 DEF Nearest
    <2> QED BY <2>4, <2>8 DEF around
  <1> QED BY <1>7, <1>8, <1>9, <1>10 DEF around

\* search is what InterpolateAt computes, up to the timestamp n.
SearchUpTo(points, times, n, search) ==
    search = [t \in 0..n |->
                IF t = 0 THEN [start |-> 0, around |-> Missing]
                ELSE IF t \in times THEN SearchNext(points, search[t - 1], t) ELSE search[t - 1]]

\* The recursive equation of the search has a solution.
LEMMA SearchIs ==
    ASSUME NEW n \in Nat, NEW points \in SUBSET (1..n), NEW times \in SUBSET (1..n)
    PROVE  LET l == Max(times \union {0})
               search == CHOOSE search : SearchUpTo(points, times, l, search)
           IN /\ l \in 0..n /\ \A t \in times : t =< l
              /\ \A t \in 0..l : search[t] =
                    IF t = 0 THEN [start |-> 0, around |-> Missing]
                    ELSE IF t \in times THEN SearchNext(points, search[t - 1], t) ELSE search[t - 1]
              /\ \A t \in times : InterpolateAt(points, times)[t] = search[t].around
  <1> DEFINE l == Max(times \union {0})
             A == {Missing} \union ((1..n) \X (1..n))
             X == [start : 0..n, around : A]
             x == [start |-> 0, around |-> Missing]
             Turn(r, t) == IF t \in times THEN SearchNext(points, r, t) ELSE r
             F == [p \in X \X (1..l) |-> Turn(p[1], p[2])]
             search == CHOOSE search : SearchUpTo(points, times, l, search)
  <1>1. l \in 0..n /\ \A t \in times : t =< l
    <2> DEFINE T == times \union {0}
    <2>1. T \subseteq 0..n /\ T # {}
      OBVIOUS
    <2>2. Max(T) \in T /\ \A t \in T : t =< Max(T)
      <3> HIDE DEF T
      <3> QED BY <2>1, LargestIs
    <2> QED BY <2>1, <2>2
  <1> HIDE DEF l
  <1>2. x \in X
    OBVIOUS
  <1>3. ASSUME NEW r \in X, NEW t \in 1..l PROVE Turn(r, t) \in X
    <2>1. CASE t \notin times
      BY <2>1
    <2>2. CASE t \in times
      <3> DEFINE around == FindAround(points, r.start, t)
      <3>1. around \in A
        <4> DEFINE before == {p \in points : r.start =< p /\ p < t}
                   notBefore == {p \in points : r.start =< p /\ p >= t}
        <4>1. before \subseteq 0..n /\ before \subseteq 1..n /\ notBefore \subseteq 1..n /\ notBefore \subseteq Nat
          <5>1. before \subseteq points /\ notBefore \subseteq points /\ points \subseteq 1..n
            OBVIOUS
          <5>2. 1..n \subseteq 0..n /\ 1..n \subseteq Nat
            OBVIOUS
          <5> HIDE DEF before, notBefore
          <5> QED BY <5>1, <5>2
        <4>2. before # {} => Max(before) \in before
          <5> HIDE DEF before
          <5> QED BY <4>1, LargestIs
        <4>3. notBefore # {} => Min(notBefore) \in notBefore
          <5> HIDE DEF notBefore
          <5> QED BY <4>1, SmallestIs
        <4>4. around = IF notBefore = {} THEN Missing
                       ELSE IF t \in notBefore THEN <<t, t>>
                       ELSE IF before = {} THEN Missing ELSE <<Max(before), Min(notBefore)>>
          BY DEF FindAround
        <4> HIDE DEF before, notBefore, around
        <4>5. t \in 1..n
          BY <1>1
        <4> QED BY <4>1, <4>2, <4>3, <4>4, <4>5
      <3>2. SearchNext(points, r, t) =
              [start |-> IF around = Missing THEN r.start ELSE around[1], around |-> around]
        BY DEF SearchNext, NextStart
      <3> HIDE DEF around
      <3>3. around # Missing => around[1] \in 0..n
        BY <1>1, <3>1
      <3>4. r.start \in 0..n
        OBVIOUS
      <3>5. (IF around = Missing THEN r.start ELSE around[1]) \in 0..n
        BY <3>3, <3>4
      <3>6. SearchNext(points, r, t) \in X
        <4> HIDE DEF A
        <4> QED BY <3>1, <3>2, <3>5
      <3> QED BY <2>2, <3>6
    <2> QED BY <2>1, <2>2
  <1> HIDE DEF X, Turn
  <1>4. F \in [X \X (1..l) -> X]
    BY <1>3
  <1>5. ASSUME NEW h \in [0..l -> X], NEW i \in 1..l PROVE F[<<h[i - 1], i>>] = Turn(h[i - 1], i)
    <2>1. i - 1 \in 0..l
      BY <1>1
    <2>2. <<h[i - 1], i>> \in X \X (1..l)
      BY <2>1
    <2> QED BY <2>2
  <1> HIDE DEF F, x
  <1>6. PICK h \in [0..l -> X] : Follows(h, l, x, F)
    <2>1. l \in Nat
      BY <1>1
    <2> QED BY <1>2, <1>4, <2>1, Recursion
  <1>7. \A t \in 0..l : h[t] = IF t = 0 THEN x ELSE Turn(h[t - 1], t)
    <2> TAKE t \in 0..l
    <2>1. t # 0 => t \in 1..l
      BY <1>1
    <2> QED BY <1>5, <1>6, <2>1 DEF Follows
  <1>8. SearchUpTo(points, times, l, h)
    BY <1>6, <1>7 DEF SearchUpTo, x, Turn
  <1>9. SearchUpTo(points, times, l, search)
    BY <1>8
  <1>10. InterpolateAt(points, times) = [t \in times |-> search[t].around]
    BY DEF InterpolateAt, SearchUpTo, l
  <1> HIDE DEF search
  <1>11. \A t \in 0..l : search[t] =
            IF t = 0 THEN [start |-> 0, around |-> Missing]
            ELSE IF t \in times THEN SearchNext(points, search[t - 1], t) ELSE search[t - 1]
    BY Zenon, <1>9 DEF SearchUpTo
  <1>12. \A t \in times : InterpolateAt(points, times)[t] = search[t].around
    BY <1>10
  <1> QED BY <1>1, <1>11, <1>12 DEF l, search

\* At a timestamp for which the series has points on both sides, the interpolation takes the
\* nearest ones, whatever the timestamps before it.
LEMMA InterpolatesNearest ==
    ASSUME NEW n \in Nat, NEW points \in SUBSET (1..n), NEW times \in SUBSET (1..n),
           NEW time \in times, \E p \in points : p =< time, \E p \in points : p >= time
    PROVE  Nearest(points, time, InterpolateAt(points, times)[time])
  <1> DEFINE l == Max(times \union {0})
             search == CHOOSE search : SearchUpTo(points, times, l, search)
  <1>1. /\ l \in 0..n /\ \A t \in times : t =< l
        /\ \A t \in 0..l : search[t] =
              IF t = 0 THEN [start |-> 0, around |-> Missing]
              ELSE IF t \in times THEN SearchNext(points, search[t - 1], t) ELSE search[t - 1]
        /\ \A t \in times : InterpolateAt(points, times)[t] = search[t].around
    BY SearchIs
  <1> HIDE DEF l, search
  <1> DEFINE T == {t \in 0..l : StartsRight(points, search[t].start, t)}
  <1>2. 0 \in T
    <2>1. 0 \in 0..l
      BY <1>1
    <2>2. search[0] = [start |-> 0, around |-> Missing]
      BY <1>1, <2>1
    <2> QED BY <2>1, <2>2 DEF StartsRight
  <1>3. ASSUME NEW t \in 1..l, StartsRight(points, search[t - 1].start, t - 1)
        PROVE  /\ StartsRight(points, search[t].start, t)
               /\ t \in times =>
                    /\ search[t].around = FindAround(points, search[t - 1].start, t)
                    /\ StartsRight(points, search[t - 1].start, t)
    <2> DEFINE start == search[t - 1].start
               around == FindAround(points, start, t)
    <2>1. t \in 0..l /\ t # 0 /\ t \in 1..n /\ \A p \in points : p \in Nat
      BY <1>1
    <2>2. StartsRight(points, start, t)
      <3> HIDE DEF start
      <3>1. start = 0 \/ (start \in points /\ start =< t - 1)
        BY <1>3 DEF StartsRight, start
      <3>2. start \in points => start \in Nat
        BY <2>1
      <3>3. start \in points => start =< t
        BY <2>1, <3>1, <3>2
      <3> QED BY <3>1, <3>3 DEF StartsRight
    <2>3. CASE t \notin times
      <3>1. search[t] = search[t - 1]
        BY <1>1, <2>1, <2>3
      <3> QED BY <2>2, <2>3, <3>1
    <2>4. CASE t \in times
      <3>1. search[t] = SearchNext(points, search[t - 1], t)
        BY <1>1, <2>1, <2>4
      <3>2. /\ search[t].around = around
            /\ search[t].start = IF around = Missing THEN start ELSE around[1]
        BY <3>1 DEF SearchNext, NextStart
      <3>3. around = Missing \/ Nearest(points, t, around)
        BY <2>1, <2>2, AroundIs
      <3>4. around # Missing => StartsRight(points, around[1], t)
        BY <3>3 DEF Nearest, StartsRight
      <3> QED BY <2>2, <3>2, <3>4
    <2> QED BY <2>3, <2>4
  <1>4. \A t \in 0..l : t \in T
    <2>1. ASSUME NEW t \in 1..l, t - 1 \in T PROVE t \in T
      <3>1. t \in 0..l
        BY <1>1
      <3> QED BY <1>3, <2>1, <3>1
    <2>2. l \in Nat
      BY <1>1
    <2> HIDE DEF T
    <2> QED BY <1>2, <2>1, <2>2, UpTo
  <1>5. time \in 1..l /\ time - 1 \in 0..l /\ time \in 1..n
    BY <1>1
  <1>6. StartsRight(points, search[time - 1].start, time - 1)
    BY <1>4, <1>5
  <1>7. /\ search[time].around = FindAround(points, search[time - 1].start, time)
        /\ StartsRight(points, search[time - 1].start, time)
    BY <1>3, <1>5, <1>6
  <1>8. search[time].around # Missing /\ Nearest(points, time, search[time].around)
    <2> DEFINE start == search[time - 1].start
               around == FindAround(points, start, time)
    <2>1. around = Missing \/ Nearest(points, time, around)
      BY <1>5, <1>7, AroundIs
    <2>2. around # Missing
      BY <1>5, <1>7, AroundIs
    <2> QED BY <1>7, <2>1, <2>2
  <1> QED BY <1>1, <1>8

-------------------------------------------------------------------------------
(* Attribution: one turn of the loop over the consumers.                     *)

AttrTimes == 1..attrSetup.max
SeriesSeen == [attrSetup.metrics -> SUBSET AttrTimes]

\* The points kept of a series are its last ones.
AreLast(kept, points) ==
    /\ kept # {} /\ kept \subseteq points
    /\ \A p \in points, q \in kept : p >= q => p \in kept

\* What is known of a consumer c: k is its record, out what has been attributed, and series the
\* points seen.  Those before its last timestamp have gone, and each series has reached it.
RecordOK(c, k, series, outs) ==
    /\ k.last \in 0..attrSetup.max
    /\ DOMAIN k.data \subseteq attrSetup.metrics
    /\ \A m \in DOMAIN k.data : AreLast(k.data[m], series[m]) /\ \A p \in k.data[m] : p >= k.last
    /\ k.last > 0 =>
         /\ IsAttributed(outs, <<c, k.last>>)
         /\ \A m \in attrSetup.metrics : \E p \in series[m] : p >= k.last

\* What c has been given is before its points, or not after its last timestamp.
GivenBefore(c, k, outs) ==
    \A o \in outs : o.consumer = c =>
        o.t =< k.last \/ \A m \in DOMAIN k.data : \A p \in k.data[m] : p > o.t

\* The timestamps of a turn, those before the first evaluation that fails, what is attributed
\* and what is left.
TurnTimes(k, general) == Synchronised(general, {t \in general : IsNew(k, t)}, Range(k.data))
TurnGood(k, times) == {t \in times : \A u \in times : u =< t => Evaluates(k, u)}
TurnPoint(c, k, times, t) ==
    [consumer |-> c, t |-> t, from |-> [m \in DOMAIN k.data |-> InterpolateAt(k.data[m], times)[t]]]
TurnOut(c, k, times) == {TurnPoint(c, k, times, t) : t \in TurnGood(k, times)}
TurnLast(k, times) == IF times = {} THEN k.last ELSE Max(times)
TurnUseless(k, times, expired) ==
    IF times = {} THEN expired ELSE Max({TurnLast(k, times), expired})
TurnRecord(k, times, expired) ==
    [last |-> TurnLast(k, times), data |-> KeptSeries(k.data, TurnUseless(k, times, expired))]

LEMMA TurnIs ==
    ASSUME NEW r, NEW c, NEW general, NEW expired
    PROVE  LET k == r.consumers[c]
               times == TurnTimes(k, general)
           IN AttributeTo(r, c, general, expired) =
                IF r.failed THEN r
                ELSE [out |-> r.out \union TurnOut(c, k, times), failed |-> TurnGood(k, times) # times,
                      consumers |-> IF TurnGood(k, times) # times THEN r.consumers
                                    ELSE [r.consumers EXCEPT ![c] = TurnRecord(k, times, expired)]]
  <1> DEFINE k == r.consumers[c]
             times == TurnTimes(k, general)
             good == TurnGood(k, times)
             outs == TurnOut(c, k, times)
  <1>1. \A t \in good : TurnPoint(c, k, times, t) =
           [consumer |-> c, t |-> t,
            from |-> [m \in DOMAIN k.data |->
                        [n \in DOMAIN k.data |-> InterpolateAt(k.data[n], times)][m][t]]]
    BY DEF TurnPoint
  <1>2. outs = {[consumer |-> c, t |-> t,
                from |-> [m \in DOMAIN k.data |->
                            [n \in DOMAIN k.data |-> InterpolateAt(k.data[n], times)][m][t]]] : t \in good}
    <2> HIDE DEF k, times, good
    <2> QED BY <1>1 DEF TurnOut, good
  <1> HIDE DEF outs
  <1>3. AttributeTo(r, c, general, expired) =
          IF r.failed THEN r
          ELSE [out |-> r.out \union outs, failed |-> good # times,
                consumers |-> IF good # times THEN r.consumers
                              ELSE [r.consumers EXCEPT ![c] = TurnRecord(k, times, expired)]]
    BY <1>2, Zenon DEF AttributeTo, TurnTimes, TurnGood, TurnRecord, TurnLast, TurnUseless
  <1> QED BY <1>3 DEF outs

\* The timestamps of a turn are those, after the last one, around which each series has points.
LEMMA TurnTimesAre ==
    ASSUME NEW n \in Nat, NEW general \in SUBSET (1..n), NEW k, k.last \in 0..n,
           \A m \in DOMAIN k.data : k.data[m] \subseteq 1..n /\ k.data[m] # {}
    PROVE  \A t : t \in TurnTimes(k, general) <=>
              /\ t \in general /\ t > k.last
              /\ \A m \in DOMAIN k.data : (\E p \in k.data[m] : p =< t) /\ (\E p \in k.data[m] : p >= t)
  <1> SUFFICES ASSUME NEW t \in general
               PROVE  t \in TurnTimes(k, general) <=>
                        /\ t > k.last
                        /\ \A m \in DOMAIN k.data : (\E p \in k.data[m] : p =< t) /\ (\E p \in k.data[m] : p >= t)
    BY Zenon DEF TurnTimes, Synchronised
  <1> DEFINE all == {general} \union Range(k.data)
             inf == {Min(s) : s \in all}
             sup == {Max(s) : s \in all}
  <1>1. \A s \in all : s \subseteq 1..n /\ s # {}
    BY DEF Range
  <1>2. ASSUME NEW s \in all
        PROVE  /\ Min(s) \in s /\ \A p \in s : Min(s) =< p
               /\ Max(s) \in s /\ \A p \in s : p =< Max(s)
               /\ Min(s) \in 0..n /\ Max(s) \in 0..n /\ s \subseteq 0..n
    <2>1. s \subseteq 1..n /\ s # {} /\ s \subseteq Nat /\ s \subseteq 0..n
      <3>1. s \subseteq 1..n /\ s # {}
        BY <1>1
      <3>2. 1..n \subseteq Nat /\ 1..n \subseteq 0..n
        OBVIOUS
      <3> QED BY <3>1, <3>2
    <2>2. Min(s) \in s /\ \A p \in s : Min(s) =< p
      BY <2>1, SmallestIs
    <2>3. Max(s) \in s /\ \A p \in s : p =< Max(s)
      BY <2>1, LargestIs
    <2> QED BY <2>1, <2>2, <2>3
  <1>3. general \in all /\ \A m \in DOMAIN k.data : k.data[m] \in all
    BY DEF Range
  <1>4. \A s \in all : s = general \/ \E m \in DOMAIN k.data : s = k.data[m]
    BY DEF Range
  <1> HIDE DEF all
  <1>5. inf \subseteq 0..n /\ inf # {} /\ sup \subseteq 0..n /\ sup # {} /\ sup \subseteq Nat
    <2>1. inf \subseteq 0..n /\ sup \subseteq 0..n
      BY <1>2
    <2>2. 0..n \subseteq Nat
      OBVIOUS
    <2> QED BY <1>3, <2>1, <2>2
  <1>6. Max(inf) \in inf /\ \A x \in inf : x =< Max(inf)
    <2> HIDE DEF inf
    <2> QED BY <1>5, LargestIs
  <1>7. Min(sup) \in sup /\ \A x \in sup : Min(sup) =< x
    <2> HIDE DEF sup
    <2> QED BY <1>5, SmallestIs
  <1>8. t \in TurnTimes(k, general) <=> t > k.last /\ Max(inf) =< t /\ t =< Min(sup)
    BY DEF TurnTimes, Synchronised, IsNew, all
  <1>9. t \in 1..n /\ \A x \in 0..n : x \in Int
    <2>1. t \in 1..n
      OBVIOUS
    <2>2. 0..n \subseteq Int
      <3> HIDE DEF inf, sup
      <3> QED OBVIOUS
    <2> QED BY <2>1, <2>2
  <1>10. Max(inf) =< t <=> \A m \in DOMAIN k.data : \E p \in k.data[m] : p =< t
    <2>1. ASSUME Max(inf) =< t, NEW m \in DOMAIN k.data PROVE \E p \in k.data[m] : p =< t
      <3> DEFINE s == k.data[m]
      <3>1. s \in all
        BY <1>3
      <3> HIDE DEF s
      <3>2. Min(s) \in s /\ Min(s) \in 0..n /\ Min(s) \in inf
        BY <1>2, <3>1
      <3>3. Min(s) =< Max(inf) /\ Max(inf) \in 0..n
        BY <1>5, <1>6, <3>2
      <3> HIDE DEF inf
      <3>4. Min(s) =< t
        BY <1>9, <2>1, <3>2, <3>3
      <3> QED BY <3>2, <3>4 DEF s
    <2>2. ASSUME \A m \in DOMAIN k.data : \E p \in k.data[m] : p =< t PROVE Max(inf) =< t
      <3>1. PICK s \in all : Max(inf) = Min(s)
        BY <1>6
      <3>2. \E p \in s : p =< t
        BY <1>4, <1>9, <2>2, <3>1
      <3> HIDE DEF inf
      <3>3. PICK p \in s : p =< t
        BY <3>2
      <3>4. p \in 0..n /\ Min(s) =< p /\ Min(s) \in 0..n
        BY <1>2
      <3> QED BY <1>9, <3>1, <3>3, <3>4
    <2> QED BY <2>1, <2>2
  <1>11. t =< Min(sup) <=> \A m \in DOMAIN k.data : \E p \in k.data[m] : p >= t
    <2>1. ASSUME t =< Min(sup), NEW m \in DOMAIN k.data PROVE \E p \in k.data[m] : p >= t
      <3> DEFINE s == k.data[m]
      <3>1. s \in all
        BY <1>3
      <3> HIDE DEF s
      <3>2. Max(s) \in s /\ Max(s) \in 0..n /\ Max(s) \in sup
        BY <1>2, <3>1
      <3>3. Min(sup) =< Max(s) /\ Min(sup) \in 0..n
        BY <1>5, <1>7, <3>2
      <3> HIDE DEF sup
      <3>4. Max(s) >= t
        BY <1>9, <2>1, <3>2, <3>3
      <3> QED BY <3>2, <3>4 DEF s
    <2>2. ASSUME \A m \in DOMAIN k.data : \E p \in k.data[m] : p >= t PROVE t =< Min(sup)
      <3>1. PICK s \in all : Min(sup) = Max(s)
        BY <1>7
      <3>2. \E p \in s : p >= t
        BY <1>4, <1>9, <2>2, <3>1
      <3> HIDE DEF sup
      <3>3. PICK p \in s : p >= t
        BY <3>2
      <3>4. p \in 0..n /\ p =< Max(s) /\ Max(s) \in 0..n
        BY <1>2
      <3> QED BY <1>9, <3>1, <3>3, <3>4
    <2> QED BY <2>1, <2>2
  <1> HIDE DEF inf, sup
  <1> QED BY <1>8, <1>10, <1>11

\* The nearest points of the last ones of a series are the nearest of all.
LEMMA NearestOfAll ==
    ASSUME NEW n \in Nat, NEW points \in SUBSET (1..n), NEW kept, AreLast(kept, points),
           NEW t \in 1..n, NEW a, Nearest(kept, t, a)
    PROVE  Nearest(points, t, a)
  <1>1. \A p \in points : p \in Nat
    OBVIOUS
  <1>2. /\ a # Missing /\ a[1] \in kept /\ a[2] \in kept /\ a[1] =< t /\ t =< a[2]
        /\ \A p \in kept : (p =< t => p =< a[1]) /\ (p >= t => p >= a[2])
    BY DEF Nearest
  <1>3. kept \subseteq points /\ \A p \in points, q \in kept : p >= q => p \in kept
    BY DEF AreLast
  <1>4. t \in Nat /\ a[1] \in Nat /\ a[2] \in Nat /\ a[1] \in points /\ a[2] \in points
    <2>1. a[1] \in points /\ a[2] \in points
      BY <1>2, <1>3, Zenon
    <2>2. a[1] \in Nat /\ a[2] \in Nat
      BY <1>1, <2>1
    <2>3. t \in Nat
      OBVIOUS
    <2> QED BY <2>1, <2>2, <2>3
  <1>5. ASSUME NEW p \in points PROVE (p =< t => p =< a[1]) /\ (p >= t => p >= a[2])
    <2>1. CASE p \in kept
      BY <1>2, <2>1
    <2>2. CASE p \notin kept
      <3>1. ~(p >= a[1])
        BY <1>2, <1>3, <2>2
      <3>2. p < a[1] /\ p \in Nat
        BY <1>1, <1>4, <3>1
      <3> QED BY <1>2, <1>4, <3>2
    <2> QED BY <2>1, <2>2
  <1> QED BY <1>2, <1>4, <1>5 DEF Nearest

\* The state in which a turn starts.
TurnStarts(c, k, general, series, outs, expired) ==
    /\ attrSetup.max \in Nat /\ general \in SUBSET AttrTimes /\ series \in SeriesSeen
    /\ RecordOK(c, k, series, outs) /\ attrSetup.metrics # {} /\ expired \in Int

\* The points that are kept are some of those seen.
LEMMA KeptAreSeen ==
    ASSUME NEW c, NEW k, NEW general, NEW series, NEW outs, NEW expired,
           TurnStarts(c, k, general, series, outs, expired)
    PROVE  /\ attrSetup.max \in Nat /\ general \subseteq 1..attrSetup.max /\ expired \in Int
           /\ DOMAIN k.data \subseteq attrSetup.metrics /\ attrSetup.metrics # {}
           /\ k.last \in 0..attrSetup.max
           /\ \A m \in attrSetup.metrics : series[m] \in SUBSET (1..attrSetup.max)
           /\ \A m \in DOMAIN k.data :
                 /\ k.data[m] \subseteq 1..attrSetup.max /\ k.data[m] # {}
                 /\ AreLast(k.data[m], series[m])
  BY DEF TurnStarts, RecordOK, AreLast, AttrTimes, SeriesSeen

\* The timestamps of a turn, its last one and the one before which the points go.
LEMMA TurnTimesFacts ==
    ASSUME NEW c, NEW k, NEW general, NEW series, NEW outs, NEW expired,
           TurnStarts(c, k, general, series, outs, expired)
    PROVE  LET times == TurnTimes(k, general)
               l == TurnLast(k, times)
               u == TurnUseless(k, times, expired)
           IN /\ \A t : t \in times <=>
                    /\ t \in general /\ t > k.last
                    /\ \A m \in DOMAIN k.data :
                          (\E p \in k.data[m] : p =< t) /\ (\E p \in k.data[m] : p >= t)
              /\ times \subseteq 1..attrSetup.max
              /\ times = {} => l = k.last /\ u = expired
              /\ times # {} => /\ l \in times /\ l > k.last /\ (\A t \in times : t =< l)
                               /\ l =< u /\ (u = l \/ u = expired)
              /\ l \in 0..attrSetup.max /\ l >= k.last /\ u \in Int
  <1> DEFINE n == attrSetup.max
             times == TurnTimes(k, general)
             l == TurnLast(k, times)
             u == TurnUseless(k, times, expired)
  <1>1. /\ n \in Nat /\ general \in SUBSET (1..n) /\ expired \in Int /\ k.last \in 0..n
        /\ \A m \in DOMAIN k.data : k.data[m] \subseteq 1..n /\ k.data[m] # {}
    BY KeptAreSeen
  <1> HIDE DEF n
  <1>2. \A t : t \in times <=>
           /\ t \in general /\ t > k.last
           /\ \A m \in DOMAIN k.data : (\E p \in k.data[m] : p =< t) /\ (\E p \in k.data[m] : p >= t)
    BY <1>1, TurnTimesAre
  <1>3. times \subseteq 1..n /\ times \subseteq 0..n
    <2>1. times \subseteq general
      BY <1>2
    <2>2. 1..n \subseteq 0..n
      OBVIOUS
    <2> QED BY <1>1, <2>1, <2>2
  <1> HIDE DEF times
  <1>4. CASE times = {}
    <2>1. l = k.last /\ u = expired
      BY <1>4 DEF TurnLast, TurnUseless
    <2>2. l >= k.last /\ u \in Int
      BY <1>1, <2>1
    <2> QED BY <1>1, <1>2, <1>3, <1>4, <2>1, <2>2 DEF n, times
  <1>5. CASE times # {}
    <2>1. l = Max(times) /\ u = Max({l, expired})
      BY <1>5 DEF TurnLast, TurnUseless
    <2>2. Max(times) \in times /\ \A t \in times : t =< Max(times)
      BY <1>1, <1>3, <1>5, LargestIs
    <2> HIDE DEF l, u
    <2>6. l \in times /\ (\A t \in times : t =< l)
      BY <2>1, <2>2
    <2>3. l \in times /\ (\A t \in times : t =< l) /\ l > k.last /\ l \in 0..n /\ l \in Int
      BY <1>1, <1>2, <1>3, <2>6
    <2>4. u \in {l, expired} /\ l =< u
      BY <1>1, <2>1, <2>3, LargerIs
    <2>5. l >= k.last /\ u \in Int
      BY <1>1, <2>3, <2>4
    <2> QED BY <1>2, <1>3, <1>5, <2>3, <2>4, <2>5 DEF n, times, l, u
  <1> QED BY <1>4, <1>5

\* What a turn leaves of the points.
LEMMA TurnDataIs ==
    ASSUME NEW k, NEW times, NEW expired
    PROVE  LET u == TurnUseless(k, times, expired)
               left == TurnRecord(k, times, expired)
           IN /\ left.last = TurnLast(k, times)
              /\ DOMAIN left.data = {m \in DOMAIN k.data : \E p \in k.data[m] : p >= u}
              /\ \A m \in DOMAIN left.data : left.data[m] = {p \in k.data[m] : p >= u}
  BY DEF TurnRecord, KeptSeries, RemoveBefore

\* What a turn attributes comes from the nearest points seen.
LEMMA TurnOutIs ==
    ASSUME NEW c, NEW k, NEW general, NEW series, NEW outs, NEW expired,
           TurnStarts(c, k, general, series, outs, expired)
    PROVE  LET times == TurnTimes(k, general)
           IN /\ \A o \in TurnOut(c, k, times) :
                    /\ o.consumer = c /\ o.t \in times /\ o.t \in 1..attrSetup.max
                    /\ DOMAIN o.from = attrSetup.metrics /\ DOMAIN k.data = attrSetup.metrics
                    /\ \A m \in attrSetup.metrics : Nearest(series[m], o.t, o.from[m])
              /\ TurnGood(k, times) = times =>
                    \A t \in times : IsAttributed(TurnOut(c, k, times), <<c, t>>)
  <1> DEFINE n == attrSetup.max
             times == TurnTimes(k, general)
             good == TurnGood(k, times)
  <1>1. /\ n \in Nat /\ \A m \in attrSetup.metrics : series[m] \in SUBSET (1..n)
        /\ \A m \in DOMAIN k.data : k.data[m] \subseteq 1..n /\ AreLast(k.data[m], series[m])
    BY KeptAreSeen
  <1>2. /\ times \subseteq 1..n
        /\ \A t \in times, m \in DOMAIN k.data : (\E p \in k.data[m] : p =< t) /\ (\E p \in k.data[m] : p >= t)
    BY TurnTimesFacts
  <1> HIDE DEF times, n
  <1>3. ASSUME NEW t \in good, NEW o, o = TurnPoint(c, k, times, t)
        PROVE  /\ o.consumer = c /\ o.t = t /\ t \in times /\ t \in 1..n
               /\ DOMAIN o.from = attrSetup.metrics /\ DOMAIN k.data = attrSetup.metrics
               /\ \A m \in attrSetup.metrics : Nearest(series[m], t, o.from[m])
    <2>1. t \in times /\ Evaluates(k, t)
      <3>1. t \in times /\ \A u \in times : u =< t => Evaluates(k, u)
        BY DEF TurnGood
      <3>2. t =< t
        <4>1. t \in 1..n
          BY <1>2, <3>1
        <4>2. t \in Int
          BY <4>1
        <4> QED BY <4>2
      <3> QED BY <3>1, <3>2
    <2>2. DOMAIN k.data = attrSetup.metrics
      BY <2>1 DEF Evaluates
    <2>3. /\ o.consumer = c /\ o.t = t /\ DOMAIN o.from = DOMAIN k.data
          /\ \A m \in DOMAIN k.data : o.from[m] = InterpolateAt(k.data[m], times)[t]
      BY <1>3 DEF TurnPoint
    <2>4. ASSUME NEW m \in attrSetup.metrics PROVE Nearest(series[m], t, o.from[m])
      <3> DEFINE kept == k.data[m]
      <3>1. /\ kept \in SUBSET (1..n) /\ AreLast(kept, series[m]) /\ series[m] \in SUBSET (1..n)
            /\ (\E p \in kept : p =< t) /\ (\E p \in kept : p >= t)
            /\ o.from[m] = InterpolateAt(kept, times)[t]
        BY <1>1, <1>2, <2>1, <2>2, <2>3
      <3> HIDE DEF kept
      <3>2. Nearest(kept, t, o.from[m])
        BY <1>1, <1>2, <2>1, <3>1, InterpolatesNearest
      <3> QED BY <1>1, <1>2, <2>1, <3>1, <3>2, NearestOfAll
    <2> QED BY <1>2, <2>1, <2>2, <2>3, <2>4
  <1>4. \A o \in TurnOut(c, k, times) : \E t \in good : o = TurnPoint(c, k, times, t)
    BY DEF TurnOut
  <1>5. ASSUME good = times, NEW t \in times PROVE IsAttributed(TurnOut(c, k, times), <<c, t>>)
    <2>1. TurnPoint(c, k, times, t) \in TurnOut(c, k, times)
      BY <1>5 DEF TurnOut
    <2>2. TurnPoint(c, k, times, t).consumer = c /\ TurnPoint(c, k, times, t).t = t
      BY DEF TurnPoint
    <2> QED BY <2>1, <2>2 DEF IsAttributed
  <1> HIDE DEF good
  <1>6. \A o \in TurnOut(c, k, times) :
           /\ o.consumer = c /\ o.t \in times /\ o.t \in 1..n
           /\ DOMAIN o.from = attrSetup.metrics /\ DOMAIN k.data = attrSetup.metrics
           /\ \A m \in attrSetup.metrics : Nearest(series[m], o.t, o.from[m])
    <2> TAKE o \in TurnOut(c, k, times)
    <2>1. PICK t \in good : o = TurnPoint(c, k, times, t)
      BY <1>4
    <2> QED BY <1>3, <2>1
  <1> QED BY <1>5, <1>6 DEF times, n, good

\* A turn that does not fail keeps what is known of its consumer.
LEMMA TurnRecordOK ==
    ASSUME NEW c, NEW k, NEW general, NEW series, NEW outs, NEW expired,
           TurnStarts(c, k, general, series, outs, expired),
           TurnGood(k, TurnTimes(k, general)) = TurnTimes(k, general)
    PROVE  LET times == TurnTimes(k, general)
               left == TurnRecord(k, times, expired)
           IN /\ RecordOK(c, left, series, outs \union TurnOut(c, k, times))
              /\ left.last >= k.last /\ (left.last = k.last \/ left.last \in general)
  <1> DEFINE n == attrSetup.max
             times == TurnTimes(k, general)
             left == TurnRecord(k, times, expired)
             l == TurnLast(k, times)
             u == TurnUseless(k, times, expired)
             given == TurnOut(c, k, times)
  <1>1. /\ n \in Nat /\ k.last \in 0..n /\ DOMAIN k.data \subseteq attrSetup.metrics
        /\ \A m \in attrSetup.metrics : series[m] \in SUBSET (1..n)
        /\ \A m \in DOMAIN k.data : k.data[m] \subseteq 1..n /\ AreLast(k.data[m], series[m])
    BY KeptAreSeen
  <1>2. /\ \A t : t \in times <=>
              /\ t \in general /\ t > k.last
              /\ \A m \in DOMAIN k.data :
                    (\E p \in k.data[m] : p =< t) /\ (\E p \in k.data[m] : p >= t)
        /\ times = {} => l = k.last /\ u = expired
        /\ times # {} => l \in times /\ l =< u
        /\ l \in 0..n /\ l >= k.last /\ u \in Int
    BY TurnTimesFacts
  <1>3. /\ left.last = l
        /\ DOMAIN left.data = {m \in DOMAIN k.data : \E p \in k.data[m] : p >= u}
        /\ \A m \in DOMAIN left.data : left.data[m] = {p \in k.data[m] : p >= u}
    BY TurnDataIs
  <1>4. /\ \A m \in DOMAIN k.data : \A p \in k.data[m] : p >= k.last
        /\ k.last > 0 => /\ IsAttributed(outs, <<c, k.last>>)
                         /\ \A m \in attrSetup.metrics : \E p \in series[m] : p >= k.last
    BY DEF TurnStarts, RecordOK
  <1>5. times = TurnGood(k, times)
    OBVIOUS
  <1>6. \A t \in times : IsAttributed(given, <<c, t>>)
    BY TurnOutIs
  <1> HIDE DEF n, times, left, l, u, given
  <1>7. ASSUME NEW m \in DOMAIN left.data
        PROVE  AreLast(left.data[m], series[m]) /\ \A p \in left.data[m] : p >= left.last
    <2> DEFINE kept == k.data[m]
               remains == left.data[m]
    <2>1. m \in DOMAIN k.data /\ remains = {p \in kept : p >= u} /\ \E p \in kept : p >= u
      BY <1>3
    <2>2. kept \subseteq 1..n /\ AreLast(kept, series[m]) /\ \A p \in kept : p >= k.last
      BY <1>1, <1>4, <2>1
    <2> HIDE DEF kept, remains
    <2>3. \A p \in kept : p \in Int
      BY <1>1, <2>2
    <2>4. \A p \in series[m] : p \in Int
      <3>1. m \in attrSetup.metrics
        BY <1>1, <2>1
      <3> QED BY <1>1, <3>1
    <2>5. ASSUME NEW p \in series[m], NEW q \in remains, p >= q PROVE p \in remains
      <3>1. q \in kept /\ q >= u
        BY <2>1
      <3>2. p \in kept
        BY <2>2, <2>5, <3>1 DEF AreLast
      <3>3. p >= u
        BY <1>2, <2>3, <2>4, <2>5, <3>1
      <3> QED BY <2>1, <3>2, <3>3
    <2>6. AreLast(remains, series[m])
      BY <2>1, <2>2, <2>5 DEF AreLast
    <2>7. ASSUME NEW p \in remains PROVE p >= l
      <3>1. p \in kept /\ p >= u /\ p \in Int
        BY <2>1, <2>3
      <3>2. CASE times = {}
        BY <1>2, <2>2, <3>1, <3>2
      <3>3. CASE times # {}
        BY <1>1, <1>2, <3>1, <3>3
      <3> QED BY <3>2, <3>3
    <2> QED BY <1>3, <2>6, <2>7 DEF remains
  <1>8. ASSUME l > 0
        PROVE  /\ IsAttributed(outs \union given, <<c, l>>)
               /\ \A m \in attrSetup.metrics : \E p \in series[m] : p >= l
    <2>1. CASE times = {}
      BY <1>2, <1>4, <1>8, <2>1 DEF IsAttributed
    <2>2. CASE times # {}
      <3>1. l \in times /\ Evaluates(k, l)
        <4>1. l \in times /\ l \in TurnGood(k, times) /\ l =< l
          BY <1>1, <1>2, <1>5, <2>2
        <4> QED BY <4>1 DEF TurnGood
      <3>2. DOMAIN k.data = attrSetup.metrics
        BY <3>1 DEF Evaluates
      <3>3. ASSUME NEW m \in attrSetup.metrics PROVE \E p \in series[m] : p >= l
        <4>1. k.data[m] \subseteq series[m] /\ \E p \in k.data[m] : p >= l
          BY <1>1, <1>2, <3>1, <3>2 DEF AreLast
        <4> QED BY <4>1
      <3> QED BY <1>6, <3>1, <3>3 DEF IsAttributed
    <2> QED BY <2>1, <2>2
  <1>9. DOMAIN left.data \subseteq attrSetup.metrics
    BY <1>1, <1>3
  <1>10. RecordOK(c, left, series, outs \union given)
    BY <1>2, <1>3, <1>7, <1>8, <1>9 DEF RecordOK, n
  <1>11. left.last >= k.last /\ (left.last = k.last \/ left.last \in general)
    BY <1>2, <1>3
  <1> QED BY <1>10, <1>11 DEF times, left, given

\* What a turn attributes has not been attributed before; and if it does not fail, nothing of
\* it will be again.
LEMMA TurnGivesOnce ==
    ASSUME NEW c, NEW k, NEW general, NEW series, NEW outs, NEW expired,
           TurnStarts(c, k, general, series, outs, expired), GivenBefore(c, k, outs),
           \A o \in outs : o.t \in Nat
    PROVE  LET times == TurnTimes(k, general)
               given == TurnOut(c, k, times)
           IN /\ \A o \in outs, p \in given : ~(o.consumer = p.consumer /\ o.t = p.t)
              /\ GivenBefore(c, TurnRecord(k, times, expired), outs \union given)
  <1> DEFINE n == attrSetup.max
             times == TurnTimes(k, general)
             left == TurnRecord(k, times, expired)
             l == TurnLast(k, times)
             u == TurnUseless(k, times, expired)
             given == TurnOut(c, k, times)
  <1>1. /\ n \in Nat /\ k.last \in 0..n /\ attrSetup.metrics # {}
        /\ \A m \in DOMAIN k.data : k.data[m] \subseteq 1..n
    BY KeptAreSeen
  <1>2. /\ \A t \in times : t > k.last /\ \A m \in DOMAIN k.data : \E p \in k.data[m] : p =< t
        /\ times \subseteq 1..n
        /\ times # {} => \A t \in times : t =< l
        /\ l \in 0..n /\ l >= k.last
    BY TurnTimesFacts
  <1>3. /\ left.last = l
        /\ \A m \in DOMAIN left.data : m \in DOMAIN k.data /\ left.data[m] \subseteq k.data[m]
    BY TurnDataIs
  <1>4. \A o \in given : o.consumer = c /\ o.t \in times /\ DOMAIN k.data = attrSetup.metrics
    BY TurnOutIs
  <1> HIDE DEF n, times, left, l, given
  <1>5. ASSUME NEW o \in outs, NEW p \in given, o.consumer = p.consumer, o.t = p.t PROVE FALSE
    <2>1. o.consumer = c /\ o.t \in times /\ o.t \in 1..n
      BY <1>2, <1>4, <1>5
    <2>2. ~(o.t =< k.last)
      BY <1>1, <1>2, <2>1
    <2>3. \A m \in DOMAIN k.data : \A q \in k.data[m] : q > o.t
      BY <2>1, <2>2 DEF GivenBefore
    <2>4. PICK m \in DOMAIN k.data : TRUE
      BY <1>1, <1>4
    <2>5. PICK q \in k.data[m] : q =< o.t
      BY <1>2, <2>1
    <2>6. q \in Int /\ o.t \in Int /\ q > o.t
      BY <1>1, <2>1, <2>3
    <2> QED BY <2>5, <2>6
  <1>6. ASSUME NEW o \in outs \union given, o.consumer = c
        PROVE  o.t =< l \/ \A m \in DOMAIN left.data : \A p \in left.data[m] : p > o.t
    <2>1. CASE o \in given
      BY <1>2, <1>4, <2>1
    <2>2. CASE o \in outs
      <3>1. o.t =< k.last \/ \A m \in DOMAIN k.data : \A p \in k.data[m] : p > o.t
        BY <1>6, <2>2 DEF GivenBefore
      <3>2. o.t =< k.last => o.t =< l
        BY <1>1, <1>2, <2>2
      <3>3. (\A m \in DOMAIN k.data : \A p \in k.data[m] : p > o.t) =>
              \A m \in DOMAIN left.data : \A p \in left.data[m] : p > o.t
        BY <1>3
      <3> QED BY <3>1, <3>2, <3>3
    <2> QED BY <2>1, <2>2
  <1>7. GivenBefore(c, left, outs \union given)
    BY <1>3, <1>6 DEF GivenBefore
  <1> QED BY <1>5, <1>7 DEF times, left, given

\* The consumer with the record k can be given its part of the timestamp t later.
StillWaits(k, general, t) ==
    /\ t \in general /\ IsNew(k, t) /\ DOMAIN k.data = attrSetup.metrics
    /\ \A m \in attrSetup.metrics : \E p \in k.data[m] : p =< t

\* A turn that does not fail does not forget a timestamp.
LEMMA TurnKeeps ==
    ASSUME NEW c, NEW k, NEW general, NEW seen, NEW outs, NEW t,
           TurnStarts(c, k, general, seen[c], outs, Max(general) - attrSetup.retention),
           TurnGood(k, TurnTimes(k, general)) = TurnTimes(k, general), StillWaits(k, general, t)
    PROVE  LET times == TurnTimes(k, general)
               given == TurnOut(c, k, times)
               left == TurnRecord(k, times, Max(general) - attrSetup.retention)
           IN \/ IsAttributed(given, <<c, t>>)
              \/ StillWaits(left, general, t)
              \/ LostByAge(seen, general, <<c, t>>)
              \/ Overtaken(given, seen, <<c, t>>)
  <1> DEFINE n == attrSetup.max
             expired == Max(general) - attrSetup.retention
             series == seen[c]
             times == TurnTimes(k, general)
             given == TurnOut(c, k, times)
             left == TurnRecord(k, times, expired)
             l == TurnLast(k, times)
             u == TurnUseless(k, times, expired)
  <1>1. /\ n \in Nat /\ general \subseteq 1..n /\ expired \in Int
        /\ k.last \in 0..n /\ DOMAIN k.data \subseteq attrSetup.metrics
        /\ \A m \in attrSetup.metrics : series[m] \in SUBSET (1..n)
        /\ \A m \in DOMAIN k.data : k.data[m] \subseteq 1..n /\ AreLast(k.data[m], series[m])
    BY KeptAreSeen
  <1>2. /\ \A x : x \in times <=>
              /\ x \in general /\ x > k.last
              /\ \A m \in DOMAIN k.data :
                    (\E p \in k.data[m] : p =< x) /\ (\E p \in k.data[m] : p >= x)
        /\ times \subseteq 1..n
        /\ times = {} => l = k.last /\ u = expired
        /\ times # {} => l \in times /\ (u = l \/ u = expired)
        /\ l \in 0..n /\ u \in Int
    BY TurnTimesFacts
  <1>3. /\ left.last = l
        /\ DOMAIN left.data = {m \in DOMAIN k.data : \E p \in k.data[m] : p >= u}
        /\ \A m \in DOMAIN left.data : left.data[m] = {p \in k.data[m] : p >= u}
    BY TurnDataIs
  <1>4. \A x \in times : IsAttributed(given, <<c, x>>)
    BY TurnOutIs
  <1>5. /\ t \in general /\ t > k.last /\ DOMAIN k.data = attrSetup.metrics
        /\ \A m \in attrSetup.metrics : \E p \in k.data[m] : p =< t
    BY DEF StillWaits, IsNew
  <1> HIDE DEF n, expired, series, times, given, left, l, u
  <1>6. CASE t \in times
    <2>1. IsAttributed(given, <<c, t>>)
      BY <1>4, <1>6
    <2> QED BY <2>1 DEF given, times
  <1>7. CASE t \notin times
    <2>1. PICK m0 \in attrSetup.metrics : \A p \in k.data[m0] : ~(p >= t)
      BY <1>2, <1>5, <1>7
    <2>2. t \in 1..n /\ t \in Int /\ \A m \in attrSetup.metrics :
              /\ \A p \in k.data[m] : p \in Int
              /\ \A p \in series[m] : p \in Int
              /\ k.data[m] # {} /\ k.data[m] \subseteq series[m]
              /\ \A p \in series[m], q \in k.data[m] : p >= q => p \in k.data[m]
      BY <1>1, <1>5 DEF AreLast
    <2>3. \A p \in series[m0] : p < t
      <3> TAKE p \in series[m0]
      <3>1. PICK q \in k.data[m0] : TRUE
        BY <2>2
      <3>2. q \in Int /\ p \in Int /\ q < t
        BY <2>1, <2>2
      <3>3. CASE p \in k.data[m0]
        BY <2>1, <2>2, <3>2, <3>3
      <3>4. CASE p \notin k.data[m0]
        <4>1. ~(p >= q)
          BY <2>2, <3>4
        <4> QED BY <2>2, <3>2, <4>1
      <3> QED BY <3>3, <3>4
    <2>4. l < t
      <3>1. CASE times = {}
        BY <1>2, <1>5, <3>1
      <3>2. CASE times # {}
        <4>1. PICK p \in k.data[m0] : p >= l
          BY <1>2, <1>5, <3>2
        <4>2. p \in Int /\ ~(p >= t) /\ l \in Int
          BY <1>1, <1>2, <2>1, <2>2
        <4> QED BY <2>2, <4>1, <4>2
      <3> QED BY <3>1, <3>2
    <2>5. CASE \A m \in attrSetup.metrics : \E p \in k.data[m] : p >= u /\ p =< t
      <3>1. DOMAIN left.data = attrSetup.metrics
        BY <1>3, <1>5, <2>5
      <3>2. \A m \in attrSetup.metrics : \E p \in left.data[m] : p =< t
        BY <1>3, <2>5, <3>1
      <3>3. IsNew(left, t)
        BY <1>2, <1>3, <2>2, <2>4 DEF IsNew
      <3> QED BY <1>5, <3>1, <3>2, <3>3 DEF StillWaits, left, times, expired
    <2>6. CASE ~\A m \in attrSetup.metrics : \E p \in k.data[m] : p >= u /\ p =< t
      <3>1. PICK m1 \in attrSetup.metrics : \A p \in k.data[m1] : ~(p >= u /\ p =< t)
        BY <2>6
      <3>2. PICK q \in k.data[m1] : q =< t
        BY <1>5
      <3>3. q \in Int /\ q < u /\ q \in series[m1]
        BY <1>2, <2>2, <3>1, <3>2
      <3>4. \A p \in series[m1] : p =< t => p < u
        <4> TAKE p \in series[m1]
        <4>1. p \in Int
          BY <2>2
        <4>2. p \in k.data[m1] => (p =< t => p < u)
          BY <1>2, <3>1, <4>1
        <4>3. p \notin k.data[m1] => p < q
          <5>1. p \notin k.data[m1] => ~(p >= q)
            BY <2>2
          <5> QED BY <3>3, <4>1, <5>1
        <4> QED BY <1>2, <3>3, <4>1, <4>2, <4>3
      <3>5. CASE u = expired
        <4> DEFINE Q == {p \in series[m1] : p =< t}
        <4>1. Q \subseteq 0..n /\ Q # {}
          <5>1. series[m1] \subseteq 0..n
            BY <1>1
          <5> QED BY <3>2, <3>3, <5>1
        <4>2. Max(Q) \in Q
          <5> HIDE DEF Q
          <5> QED BY <1>1, <4>1, LargestIs
        <4>3. Max(Q) < expired
          BY <3>4, <3>5, <4>2
        <4>4. ExpiredIn(seen, general, <<c, t>>)
          BY <4>3 DEF ExpiredIn, expired, series
        <4>5. LostByAge(seen, general, <<c, t>>)
          BY <2>3, <4>4 DEF LostByAge, series
        <4> QED BY <4>5
      <3>6. CASE u = l /\ times # {}
        <4>1. PICK o \in given : o.consumer = c /\ o.t = l
          BY <1>2, <1>4, <3>6 DEF IsAttributed
        <4>2. \A p \in series[m1] : p =< t => p < o.t
          BY <3>4, <3>6, <4>1
        <4>3. Overtaken(given, seen, <<c, t>>)
          BY <2>4, <4>1, <4>2 DEF Overtaken, series
        <4> QED BY <4>3 DEF given, times
      <3> QED BY <1>2, <3>5, <3>6
    <2> QED BY <2>5, <2>6
  <1> QED BY <1>6, <1>7 DEF given, left, times, expired

-------------------------------------------------------------------------------
(* Attribution: what is known of the state.                                  *)

OutIsNearest(o, seen) ==
    /\ o.consumer \in attrSetup.consumers /\ o.t \in AttrTimes
    /\ DOMAIN o.from = attrSetup.metrics
    /\ \A m \in attrSetup.metrics : Nearest(seen[o.consumer][m], o.t, o.from[m])

\* The reference has reached the last timestamp of a consumer.
IsReached(k, general) == k.last > 0 => \E g \in general : g >= k.last

AttrKnown(consumers, general, seen, outs) ==
    /\ general \subseteq AttrTimes
    /\ seen \in [attrSetup.consumers -> SeriesSeen]
    /\ DOMAIN consumers \subseteq attrSetup.consumers
    /\ \A c \in DOMAIN consumers :
          RecordOK(c, consumers[c], seen[c], outs) /\ IsReached(consumers[c], general)
    /\ \A o \in outs : OutIsNearest(o, seen)

AllGivenBefore(consumers, outs) == \A c \in DOMAIN consumers : GivenBefore(c, consumers[c], outs)

\* A pair that is not lost yet; LostByAge is for good, and comes next.
IsKept(w, consumers, general, seen, outs) ==
    IsAttributed(outs, w) \/ CanWait(consumers, general, w) \/ Overtaken(outs, seen, w)

AttrPairs == attrSetup.consumers \X AttrTimes

\* The invariant, for given values of the variables.
AttrIs(consumers, general, seen, outs, owed, tell) ==
    /\ AttrKnown(consumers, general, seen, outs)
    /\ tell.twice => tell.failed
    /\ tell.failed \/ AllGivenBefore(consumers, outs)
    /\ owed # {} => attrSetup.metrics # {} /\ general # {}
    /\ owed \subseteq AttrPairs
    /\ \A w \in owed : IsKept(w, consumers, general, seen, outs) \/ LostByAge(seen, general, w)

AttributionInv ==
    /\ attrSetup \in AttributionSetups
    /\ AttrIs(attrConsumers, attrGeneral, attrSeen, attrOut, attrOwed, attrTold)

-------------------------------------------------------------------------------
(* Attribution: the points of a batch.                                       *)

SeenWith(batch) ==
    [c \in attrSetup.consumers |-> [m \in attrSetup.metrics |-> attrSeen[c][m] \union batch[c][m]]]

OwedWith(start, general) ==
    {w \in attrOwed : ~Expired(w)} \union
    {w \in (DOMAIN start) \X general :
        /\ DOMAIN start[w[1]].data = attrSetup.metrics
        /\ \A m \in attrSetup.metrics : \E p \in start[w[1]].data[m] : p =< w[2]}

\* The points of a batch come after those of their series.
LEMMA BatchIsNew ==
    ASSUME NEW batch \in AttributionBatches, NEW c \in attrSetup.consumers, NEW m \in attrSetup.metrics
    PROVE  batch[c][m] \subseteq AttrTimes /\ \A t \in batch[c][m], s \in attrSeen[c][m] : s < t
  <1>1. batch[c][m] \in After(attrSeen[c][m])
    BY DEF AttributionBatches
  <1> HIDE DEF After
  <1> QED BY <1>1 DEF After, AttrTimes

HadBy(c) == IF c \in DOMAIN attrConsumers THEN attrConsumers[c].data ELSE Nobody

\* What extend makes of the records.
LEMMA ExtendedIs ==
    ASSUME NEW batch
    PROVE  LET start == Extended(batch)
           IN /\ DOMAIN start = {c \in attrSetup.consumers :
                    DOMAIN HadBy(c) \union {m \in attrSetup.metrics : batch[c][m] # {}} # {}}
              /\ \A c \in DOMAIN start :
                    /\ start[c].last = IF c \in DOMAIN attrConsumers THEN attrConsumers[c].last
                                       ELSE NeverAttributed
                    /\ DOMAIN start[c].data =
                         DOMAIN HadBy(c) \union {m \in attrSetup.metrics : batch[c][m] # {}}
                    /\ \A m \in DOMAIN start[c].data :
                          start[c].data[m] =
                            (IF m \in DOMAIN HadBy(c) THEN HadBy(c)[m] ELSE {}) \union batch[c][m]
  BY Zenon DEF Extended, HadBy

\* The record of a consumer with the points of a batch.
LEMMA ExtendedRecord ==
    ASSUME attrSetup.max \in Nat, AttrKnown(attrConsumers, attrGeneral, attrSeen, attrOut),
           NEW batch \in AttributionBatches, NEW c \in DOMAIN Extended(batch)
    PROVE  LET k == Extended(batch)[c]
               series == SeenWith(batch)[c]
           IN /\ series \in SeriesSeen /\ \A m \in attrSetup.metrics : attrSeen[c][m] \subseteq series[m]
              /\ RecordOK(c, k, series, attrOut) /\ DOMAIN k.data # {}
              /\ c \in attrSetup.consumers
              /\ c \in DOMAIN attrConsumers => /\ k.last = attrConsumers[c].last
                                               /\ GivenBefore(c, attrConsumers[c], attrOut) => GivenBefore(c, k, attrOut)
                                               /\ \A m \in DOMAIN attrConsumers[c].data :
                                                     m \in DOMAIN k.data /\ attrConsumers[c].data[m] \subseteq k.data[m]
              /\ c \notin DOMAIN attrConsumers => k.last = 0 /\ GivenBefore(c, k, attrOut)
  <1> DEFINE n == attrSetup.max
             k == Extended(batch)[c]
             was == attrConsumers[c]
             series == SeenWith(batch)[c]
  <1>1. /\ c \in attrSetup.consumers
        /\ k.last = IF c \in DOMAIN attrConsumers THEN was.last ELSE 0
        /\ DOMAIN k.data = DOMAIN HadBy(c) \union {m \in attrSetup.metrics : batch[c][m] # {}}
        /\ DOMAIN k.data # {}
        /\ \A m \in DOMAIN k.data :
              k.data[m] = (IF m \in DOMAIN HadBy(c) THEN HadBy(c)[m] ELSE {}) \union batch[c][m]
    <2> DEFINE start == Extended(batch)
               got == {m \in attrSetup.metrics : batch[c][m] # {}}
    <2>1. /\ DOMAIN start = {x \in attrSetup.consumers :
                DOMAIN HadBy(x) \union {m \in attrSetup.metrics : batch[x][m] # {}} # {}}
          /\ start[c].last = IF c \in DOMAIN attrConsumers THEN attrConsumers[c].last
                             ELSE NeverAttributed
          /\ DOMAIN start[c].data = DOMAIN HadBy(c) \union got
          /\ \A m \in DOMAIN start[c].data :
                start[c].data[m] = (IF m \in DOMAIN HadBy(c) THEN HadBy(c)[m] ELSE {}) \union batch[c][m]
      BY ExtendedIs, Zenon
    <2>2. c \in attrSetup.consumers /\ DOMAIN HadBy(c) \union got # {}
      <3> HIDE DEF start
      <3>1. c \in DOMAIN start
        BY DEF start
      <3> QED BY <2>1, <3>1
    <2> QED BY <2>1, <2>2, Zenon DEF NeverAttributed
  <1>2. attrSeen[c] \in SeriesSeen
    BY <1>1 DEF AttrKnown
  <1>3. \A m \in attrSetup.metrics :
           /\ series[m] = attrSeen[c][m] \union batch[c][m]
           /\ attrSeen[c][m] \subseteq 1..n /\ batch[c][m] \subseteq 1..n
           /\ \A t \in batch[c][m], s \in attrSeen[c][m] : s < t
    BY <1>1, <1>2, BatchIsNew DEF SeenWith, SeriesSeen, AttrTimes
  <1>4. series \in SeriesSeen
    BY <1>1, <1>3 DEF SeenWith, SeriesSeen, AttrTimes
  <1>5. \A x \in 1..n : x \in Int
    OBVIOUS
  <1>6. \A o \in attrOut : o.consumer = c =>
           /\ o.t \in 1..n
           /\ \A m \in attrSetup.metrics : \E s \in attrSeen[c][m] : o.t =< s
    <2> TAKE o \in attrOut
    <2> HAVE o.consumer = c
    <2>1. o.t \in 1..n /\ \A m \in attrSetup.metrics : Nearest(attrSeen[c][m], o.t, o.from[m])
      BY DEF AttrKnown, OutIsNearest, AttrTimes
    <2>2. \A m \in attrSetup.metrics : o.from[m][2] \in attrSeen[c][m] /\ o.t =< o.from[m][2]
      BY <2>1 DEF Nearest
    <2> QED BY <2>1, <2>2
  <1>7. \A o \in attrOut : o.consumer = c =>
           \A m \in attrSetup.metrics : \A p \in batch[c][m] : p > o.t
    <2> SUFFICES ASSUME NEW o \in attrOut, o.consumer = c, NEW m \in attrSetup.metrics,
                        NEW p \in batch[c][m]
                 PROVE  p > o.t
      OBVIOUS
    <2>1. PICK s \in attrSeen[c][m] : o.t =< s
      BY <1>6
    <2>2. s < p /\ s \in Int /\ p \in Int /\ o.t \in Int
      BY <1>3, <1>5, <1>6
    <2> QED BY <2>1, <2>2
  <1> HIDE DEF n, k, was, series
  <1>8. CASE c \notin DOMAIN attrConsumers
    <2>1. /\ k.last = 0 /\ DOMAIN k.data \subseteq attrSetup.metrics
          /\ \A m \in DOMAIN k.data : k.data[m] = batch[c][m] /\ k.data[m] # {}
      <3>1. DOMAIN HadBy(c) = {}
        BY <1>8 DEF HadBy, Nobody
      <3> QED BY <1>1, <1>8, <3>1
    <2>2. \A m \in DOMAIN k.data : AreLast(k.data[m], series[m]) /\ \A p \in k.data[m] : p >= k.last
      <3> TAKE m \in DOMAIN k.data
      <3>1. m \in attrSetup.metrics /\ k.data[m] = batch[c][m] /\ k.data[m] # {} /\ k.last = 0
        BY <2>1
      <3>2. \A p \in batch[c][m] : p \in Int /\ p >= 0
        BY <1>3, <3>1
      <3>3. ASSUME NEW p \in series[m], NEW q \in batch[c][m], p >= q PROVE p \in batch[c][m]
        <4>1. p \in attrSeen[c][m] => p < q /\ p \in Int
          BY <1>3, <1>5, <3>1
        <4> QED BY <1>3, <3>1, <3>2, <3>3, <4>1
      <3> QED BY <1>3, <3>1, <3>2, <3>3 DEF AreLast
    <2>3. RecordOK(c, k, series, attrOut)
      BY <2>1, <2>2 DEF RecordOK
    <2>4. GivenBefore(c, k, attrOut)
      BY <1>7, <2>1 DEF GivenBefore
    <2> QED BY <1>1, <1>3, <1>4, <1>8, <2>1, <2>3, <2>4 DEF k, series
  <1>9. CASE c \in DOMAIN attrConsumers
    <2>1. RecordOK(c, was, attrSeen[c], attrOut)
      BY <1>9 DEF AttrKnown, was
    <2>2. HadBy(c) = was.data /\ k.last = was.last
      BY <1>1, <1>9 DEF HadBy, was
    <2>3. /\ was.last \in 0..n /\ DOMAIN was.data \subseteq attrSetup.metrics
          /\ \A m \in DOMAIN was.data : AreLast(was.data[m], attrSeen[c][m]) /\ \A p \in was.data[m] : p >= was.last
          /\ was.last > 0 => /\ IsAttributed(attrOut, <<c, was.last>>)
                             /\ \A m \in attrSetup.metrics : \E p \in attrSeen[c][m] : p >= was.last
      BY <2>1 DEF RecordOK, n
    <2>4. /\ DOMAIN k.data = DOMAIN was.data \union {m \in attrSetup.metrics : batch[c][m] # {}}
          /\ \A m \in DOMAIN k.data :
              /\ m \in attrSetup.metrics
              /\ k.data[m] = (IF m \in DOMAIN was.data THEN was.data[m] ELSE {}) \union batch[c][m]
      BY <1>1, <2>2, <2>3
    <2>5. ASSUME NEW m \in attrSetup.metrics, NEW p \in batch[c][m] PROVE p >= was.last
      <3>1. p \in Int /\ p > 0 /\ was.last \in Int
        BY <1>3, <2>3
      <3>2. CASE was.last > 0
        <4>1. PICK s \in attrSeen[c][m] : s >= was.last
          BY <2>3, <3>2
        <4>2. s < p /\ s \in Int
          BY <1>3, <1>5
        <4> QED BY <3>1, <4>1, <4>2
      <3> QED BY <2>3, <3>1, <3>2
    <2>6. ASSUME NEW m \in DOMAIN k.data
          PROVE  AreLast(k.data[m], series[m]) /\ \A p \in k.data[m] : p >= k.last
      <3> DEFINE had == was.data[m]
                 kept == k.data[m]
                 old == attrSeen[c][m]
                 new == batch[c][m]
      <3>1. /\ m \in attrSetup.metrics /\ series[m] = old \union new
            /\ \A t \in new, s \in old : s < t /\ s \in Int /\ t \in Int
            /\ \A s \in old : s \in Int
            /\ \A t \in new : t \in Int
        <4>1. m \in attrSetup.metrics
          BY <2>4
        <4> QED BY <1>3, <1>5, <4>1
      <3>2. CASE m \in DOMAIN was.data
        <4>1. kept = had \union new /\ AreLast(had, old) /\ \A p \in had : p >= was.last
          BY <2>3, <2>4, <3>2
        <4> HIDE DEF had, kept, old, new
        <4>2. kept # {} /\ kept \subseteq series[m]
          BY <3>1, <4>1 DEF AreLast
        <4>3. ASSUME NEW p \in series[m], NEW q \in kept, p >= q PROVE p \in kept
          <5>1. CASE p \in new
            BY <4>1, <5>1
          <5>2. CASE p \in old /\ q \in new
            <6>1. p < q /\ p \in Int /\ q \in Int
              BY <3>1, <5>2
            <6> QED BY <4>3, <6>1
          <5>3. CASE p \in old /\ q \in had
            BY <4>1, <4>3, <5>3 DEF AreLast
          <5> QED BY <3>1, <4>1, <5>1, <5>2, <5>3
        <4>4. AreLast(kept, series[m])
          BY <4>2, <4>3 DEF AreLast
        <4>5. \A p \in kept : p >= k.last
          BY <2>2, <2>5, <3>1, <4>1 DEF new
        <4> QED BY <4>4, <4>5 DEF kept
      <3>3. CASE m \notin DOMAIN was.data
        <4>1. kept = new /\ new # {}
          BY <2>4, <3>3
        <4> HIDE DEF had, kept, old, new
        <4>3. ASSUME NEW p \in series[m], NEW q \in kept, p >= q PROVE p \in kept
          <5>1. CASE p \in old
            <6>1. p < q /\ p \in Int /\ q \in Int
              BY <3>1, <4>1, <5>1
            <6> QED BY <4>3, <6>1
          <5> QED BY <3>1, <4>1, <5>1
        <4>4. AreLast(kept, series[m])
          BY <3>1, <4>1, <4>3 DEF AreLast
        <4>5. \A p \in kept : p >= k.last
          BY <2>2, <2>5, <3>1, <4>1 DEF new
        <4> QED BY <4>4, <4>5 DEF kept
      <3> QED BY <3>2, <3>3
    <2>7. RecordOK(c, k, series, attrOut)
      <3>1. DOMAIN k.data \subseteq attrSetup.metrics
        BY <2>4
      <3>2. k.last > 0 => /\ IsAttributed(attrOut, <<c, k.last>>)
                          /\ \A m \in attrSetup.metrics : \E p \in series[m] : p >= k.last
        BY <1>3, <2>2, <2>3
      <3> QED BY <2>2, <2>3, <2>6, <3>1, <3>2 DEF RecordOK, n
    <2>8. ASSUME GivenBefore(c, was, attrOut) PROVE GivenBefore(c, k, attrOut)
      <3> SUFFICES ASSUME NEW o \in attrOut, o.consumer = c, ~(o.t =< k.last),
                          NEW m \in DOMAIN k.data, NEW p \in k.data[m]
                   PROVE  p > o.t
        BY DEF GivenBefore
      <3>1. \A x \in DOMAIN was.data : \A q \in was.data[x] : q > o.t
        BY <2>2, <2>8 DEF GivenBefore
      <3>2. p \in batch[c][m] \/ (m \in DOMAIN was.data /\ p \in was.data[m])
        BY <2>4
      <3> QED BY <1>7, <2>4, <3>1, <3>2
    <2>9. \A m \in DOMAIN was.data : m \in DOMAIN k.data /\ was.data[m] \subseteq k.data[m]
      BY <2>4
    <2> QED BY <1>1, <1>3, <1>4, <1>9, <2>2, <2>7, <2>8, <2>9 DEF k, series, was
  <1> QED BY <1>8, <1>9

\* What is attributed stays so, and what follows from it.
LEMMA MoreIsAttributed ==
    ASSUME NEW outs, NEW more
    PROVE  /\ \A w : IsAttributed(outs, w) => IsAttributed(outs \union more, w)
           /\ \A w, seen : Overtaken(outs, seen, w) => Overtaken(outs \union more, seen, w)
           /\ \A c, k, series : RecordOK(c, k, series, outs) => RecordOK(c, k, series, outs \union more)
  <1>1. \A w : IsAttributed(outs, w) => IsAttributed(outs \union more, w)
    BY DEF IsAttributed
  <1>2. \A w, seen : Overtaken(outs, seen, w) => Overtaken(outs \union more, seen, w)
    BY Zenon DEF Overtaken
  <1>3. \A c, k, series : RecordOK(c, k, series, outs) => RecordOK(c, k, series, outs \union more)
    BY <1>1, Zenon DEF RecordOK
  <1> QED BY <1>1, <1>2, <1>3

\* The constants of the setup.
LEMMA AttrSetupIs ==
    ASSUME attrSetup \in AttributionSetups
    PROVE  attrSetup.max \in Nat /\ attrSetup.retention \in Nat /\ IsFiniteSet(attrSetup.consumers)
  BY AttributionAssumption

\* Points that come after those seen keep the nearest ones of a timestamp, and do not fill a gap.
LEMMA NewPointsAreLater ==
    ASSUME attrSetup.max \in Nat, AttrKnown(attrConsumers, attrGeneral, attrSeen, attrOut),
           NEW batch \in AttributionBatches, NEW o \in attrOut
    PROVE  OutIsNearest(o, SeenWith(batch))
  <1> DEFINE n == attrSetup.max
             c == o.consumer
             seen == SeenWith(batch)
  <1>1. /\ c \in attrSetup.consumers /\ o.t \in 1..n /\ DOMAIN o.from = attrSetup.metrics
        /\ \A m \in attrSetup.metrics : Nearest(attrSeen[c][m], o.t, o.from[m])
    BY DEF AttrKnown, OutIsNearest, AttrTimes
  <1>2. attrSeen[c] \in SeriesSeen
    BY <1>1 DEF AttrKnown
  <1>3. ASSUME NEW m \in attrSetup.metrics PROVE Nearest(seen[c][m], o.t, o.from[m])
    <2> DEFINE old == attrSeen[c][m]
               new == batch[c][m]
               a == o.from[m]
    <2>1. old \subseteq 1..n /\ new \subseteq 1..n /\ \A t \in new, s \in old : s < t
      BY <1>1, <1>2, BatchIsNew DEF SeriesSeen, AttrTimes
    <2>2. seen[c][m] = old \union new
      BY <1>1 DEF SeenWith
    <2>3. /\ a # Missing /\ a[1] \in old /\ a[2] \in old /\ a[1] =< o.t /\ o.t =< a[2]
          /\ \A p \in old : (p =< o.t => p =< a[1]) /\ (p >= o.t => p >= a[2])
      BY <1>1 DEF Nearest
    <2> HIDE DEF old, new, a, n
    <2>4. \A x \in 1..n : x \in Int
      OBVIOUS
    <2>5. o.t \in Int /\ a[2] \in Int /\ a[2] \in old
      BY <1>1, <2>1, <2>3, <2>4
    <2>6. \A p \in new : p \in Int /\ a[2] < p
      BY <2>1, <2>4, <2>5
    <2>7. \A p \in new : ~(p =< o.t) /\ p >= a[2]
      BY <2>3, <2>5, <2>6
    <2>8. \A p \in old \union new : (p =< o.t => p =< a[1]) /\ (p >= o.t => p >= a[2])
      BY <2>3, <2>7
    <2> QED BY <2>2, <2>3, <2>8 DEF Nearest, a
  <1> QED BY <1>1, <1>3 DEF OutIsNearest, AttrTimes

LEMMA GapsStay ==
    ASSUME attrSetup.max \in Nat, AttrKnown(attrConsumers, attrGeneral, attrSeen, attrOut),
           NEW batch \in AttributionBatches, NEW w \in AttrPairs, Overtaken(attrOut, attrSeen, w)
    PROVE  Overtaken(attrOut, SeenWith(batch), w)
  <1> DEFINE n == attrSetup.max
  <1>1. PICK o \in attrOut, m \in attrSetup.metrics :
            o.consumer = w[1] /\ o.t < w[2] /\ \A p \in attrSeen[w[1]][m] : p =< w[2] => p < o.t
    BY DEF Overtaken
  <1>2. /\ w[1] \in attrSetup.consumers /\ w[2] \in 1..n /\ o.t \in 1..n
        /\ Nearest(attrSeen[w[1]][m], o.t, o.from[m])
    BY <1>1 DEF AttrKnown, OutIsNearest, AttrTimes, AttrPairs
  <1> DEFINE old == attrSeen[w[1]][m]
             new == batch[w[1]][m]
             a == o.from[m][2]
  <1>3. attrSeen[w[1]] \in SeriesSeen
    BY <1>2 DEF AttrKnown
  <1>4. old \subseteq 1..n /\ new \subseteq 1..n /\ \A t \in new, s \in old : s < t
    BY <1>2, <1>3, BatchIsNew DEF SeriesSeen, AttrTimes
  <1>5. SeenWith(batch)[w[1]][m] = old \union new
    BY <1>2 DEF SeenWith
  <1>6. a \in old /\ o.t =< a
    BY <1>2 DEF Nearest
  <1> HIDE DEF old, new, a, n
  <1>7. \A x \in 1..n : x \in Int
    OBVIOUS
  <1>8. o.t \in Int /\ w[2] \in Int /\ a \in Int
    BY <1>2, <1>4, <1>6, <1>7
  <1>9. ~(a =< w[2])
    <2>1. a =< w[2] => a < o.t
      BY <1>1, <1>6 DEF old
    <2> QED BY <1>6, <1>8, <2>1
  <1>10. \A p \in new : p \in Int /\ a < p
    BY <1>4, <1>6, <1>7
  <1>11. \A p \in new : ~(p =< w[2])
    BY <1>8, <1>9, <1>10
  <1>12. \A p \in old \union new : p =< w[2] => p < o.t
    BY <1>1, <1>11 DEF old
  <1> QED BY <1>1, <1>5, <1>12, Zenon DEF Overtaken

\* The state before the loop, in which the points of the batch have come.
LEMMA ExtendedKeeps ==
    ASSUME AttributionInv, NEW batch \in AttributionBatches, NEW reference \in After(attrGeneral)
    PROVE  LET general == attrGeneral \union reference
               start == Extended(batch)
               seen == SeenWith(batch)
               owed == OwedWith(start, general)
           IN /\ AttrKnown(start, general, seen, attrOut)
              /\ attrTold.failed \/ AllGivenBefore(start, attrOut)
              /\ DOMAIN start # {} => attrSetup.metrics # {}
              /\ owed # {} => attrSetup.metrics # {} /\ general # {}
              /\ owed \subseteq AttrPairs
              /\ \A w \in owed : IsKept(w, start, general, seen, attrOut)
  <1> DEFINE n == attrSetup.max
             general == attrGeneral \union reference
             start == Extended(batch)
             seen == SeenWith(batch)
             owed == OwedWith(start, general)
  <1>1. /\ n \in Nat /\ AttrKnown(attrConsumers, attrGeneral, attrSeen, attrOut)
        /\ attrTold.failed \/ AllGivenBefore(attrConsumers, attrOut)
        /\ attrOwed # {} => attrSetup.metrics # {} /\ attrGeneral # {}
        /\ attrOwed \subseteq AttrPairs
        /\ \A w \in attrOwed : \/ IsKept(w, attrConsumers, attrGeneral, attrSeen, attrOut)
                               \/ LostByAge(attrSeen, attrGeneral, w)
    BY AttrSetupIs DEF AttributionInv, AttrIs
  <1>2. ASSUME NEW c \in DOMAIN start
        PROVE  /\ seen[c] \in SeriesSeen /\ RecordOK(c, start[c], seen[c], attrOut)
               /\ DOMAIN start[c].data # {} /\ c \in attrSetup.consumers
               /\ c \in DOMAIN attrConsumers =>
                    /\ start[c].last = attrConsumers[c].last
                    /\ GivenBefore(c, attrConsumers[c], attrOut) => GivenBefore(c, start[c], attrOut)
                    /\ \A m \in DOMAIN attrConsumers[c].data :
                          m \in DOMAIN start[c].data /\ attrConsumers[c].data[m] \subseteq start[c].data[m]
               /\ c \notin DOMAIN attrConsumers => start[c].last = 0 /\ GivenBefore(c, start[c], attrOut)
    BY <1>1, <1>2, ExtendedRecord
  <1>3. general \subseteq AttrTimes
    <2>1. attrGeneral \subseteq AttrTimes
      BY <1>1 DEF AttrKnown
    <2>2. reference \subseteq AttrTimes
      BY DEF After, AttrTimes
    <2> QED BY <2>1, <2>2
  <1>4. seen \in [attrSetup.consumers -> SeriesSeen]
    <2>1. ASSUME NEW c \in attrSetup.consumers PROVE seen[c] \in SeriesSeen
      <3>1. attrSeen[c] \in SeriesSeen
        BY <1>1 DEF AttrKnown
      <3>2. \A m \in attrSetup.metrics : batch[c][m] \subseteq AttrTimes
        BY BatchIsNew
      <3> QED BY <3>1, <3>2 DEF SeenWith, SeriesSeen
    <2> QED BY <2>1 DEF SeenWith
  <1>5. \A o \in attrOut : OutIsNearest(o, seen)
    BY <1>1, NewPointsAreLater
  <1>6. DOMAIN start = {c \in attrSetup.consumers :
            DOMAIN HadBy(c) \union {m \in attrSetup.metrics : batch[c][m] # {}} # {}}
    BY ExtendedIs, Zenon
  <1>7. \A w \in attrOwed : ~Expired(w) => IsKept(w, attrConsumers, attrGeneral, attrSeen, attrOut)
    BY <1>1, Zenon DEF LostByAge, Expired
  <1> DEFINE fresh == {w \in (DOMAIN start) \X general :
                         /\ DOMAIN start[w[1]].data = attrSetup.metrics
                         /\ \A m \in attrSetup.metrics : \E p \in start[w[1]].data[m] : p =< w[2]}
             left == {w \in attrOwed : ~Expired(w)}
  <1>8. owed = left \union fresh
    BY Zenon DEF OwedWith
  <1> HIDE DEF n, general, start, seen, owed
  <1>9. ASSUME NEW c \in DOMAIN start PROVE IsReached(start[c], general)
    <2>1. CASE c \in DOMAIN attrConsumers
      <3>1. IsReached(attrConsumers[c], attrGeneral) /\ start[c].last = attrConsumers[c].last
        BY <1>1, <1>2, <2>1 DEF AttrKnown
      <3> QED BY <3>1 DEF IsReached, general
    <2>2. CASE c \notin DOMAIN attrConsumers
      <3>1. start[c].last = 0
        BY <1>2, <2>2
      <3> QED BY <3>1 DEF IsReached
    <2> QED BY <2>1, <2>2
  <1>10. AttrKnown(start, general, seen, attrOut)
    BY <1>2, <1>3, <1>4, <1>5, <1>9 DEF AttrKnown
  <1>11. attrTold.failed \/ AllGivenBefore(start, attrOut)
    BY <1>1, <1>2, Zenon DEF AllGivenBefore
  <1>12. DOMAIN start # {} => attrSetup.metrics # {}
    <2> SUFFICES ASSUME NEW c \in DOMAIN start PROVE attrSetup.metrics # {}
      OBVIOUS
    <2>1. DOMAIN start[c].data # {} /\ DOMAIN start[c].data \subseteq attrSetup.metrics
      BY <1>2 DEF RecordOK
    <2> QED BY <2>1
  <1>13. \A w \in fresh : /\ w \in AttrPairs /\ w[1] \in DOMAIN start /\ w[2] \in general /\ w = <<w[1], w[2]>>
                          /\ DOMAIN start[w[1]].data = attrSetup.metrics
                          /\ \A m \in attrSetup.metrics : \E p \in start[w[1]].data[m] : p =< w[2]
    BY <1>2, <1>3 DEF AttrPairs
  <1>14. ASSUME NEW w \in fresh PROVE IsKept(w, start, general, seen, attrOut)
    <2> DEFINE c == w[1]
               k == start[c]
    <2>1. /\ c \in DOMAIN start /\ w[2] \in general /\ w = <<c, w[2]>>
          /\ DOMAIN k.data = attrSetup.metrics
          /\ \A m \in attrSetup.metrics : \E p \in k.data[m] : p =< w[2]
      BY <1>13
    <2>2. RecordOK(c, k, seen[c], attrOut) /\ attrSetup.metrics # {} /\ seen[c] \in SeriesSeen
      BY <1>2, <1>12, <2>1
    <2> HIDE DEF c, k
    <2>3. /\ k.last \in 0..n /\ w[2] \in 1..n
          /\ \A m \in attrSetup.metrics : \A p \in k.data[m] : p >= k.last /\ p \in 1..n
          /\ k.last > 0 => IsAttributed(attrOut, <<c, k.last>>)
      BY <1>3, <2>1, <2>2 DEF RecordOK, AreLast, SeriesSeen, AttrTimes, n
    <2>4. PICK m \in attrSetup.metrics : TRUE
      BY <2>2
    <2>5. PICK p \in k.data[m] : p =< w[2]
      BY <2>1
    <2>6. k.last =< w[2] /\ k.last \in Int /\ w[2] \in Int
      BY <1>1, <2>3, <2>5
    <2>7. CASE k.last = w[2]
      <3>1. IsAttributed(attrOut, <<c, w[2]>>)
        BY <2>3, <2>7
      <3> QED BY <2>1, <3>1 DEF IsKept
    <2>8. CASE k.last # w[2]
      <3>1. IsNew(k, w[2])
        BY <2>6, <2>8 DEF IsNew
      <3>2. CanWait(start, general, w)
        BY <2>1, <3>1 DEF CanWait, k, c
      <3> QED BY <3>2 DEF IsKept
    <2> QED BY <2>7, <2>8
  <1>15. ASSUME NEW w \in left PROVE IsKept(w, start, general, seen, attrOut)
    <2>1. IsKept(w, attrConsumers, attrGeneral, attrSeen, attrOut) /\ w \in AttrPairs /\ attrSetup.metrics # {}
      BY <1>1, <1>7
    <2>2. CASE IsAttributed(attrOut, w)
      BY <2>2 DEF IsKept
    <2>3. CASE Overtaken(attrOut, attrSeen, w)
      <3>1. Overtaken(attrOut, seen, w)
        BY <1>1, <2>1, <2>3, GapsStay DEF n, seen
      <3> QED BY <3>1 DEF IsKept
    <2>4. CASE CanWait(attrConsumers, attrGeneral, w)
      <3> DEFINE c == w[1]
                 was == attrConsumers[c]
      <3>1. /\ w[2] \in attrGeneral /\ c \in DOMAIN attrConsumers /\ IsNew(was, w[2])
            /\ DOMAIN was.data = attrSetup.metrics
            /\ \A m \in attrSetup.metrics : \E p \in was.data[m] : p =< w[2]
        BY <2>4 DEF CanWait
      <3>2. c \in DOMAIN start
        <4>1. HadBy(c) = was.data /\ c \in attrSetup.consumers
          BY <1>1, <3>1 DEF HadBy, AttrKnown
        <4> QED BY <1>6, <2>1, <3>1, <4>1
      <3>3. /\ start[c].last = was.last
            /\ DOMAIN start[c].data \subseteq attrSetup.metrics
            /\ \A m \in attrSetup.metrics : m \in DOMAIN start[c].data /\ was.data[m] \subseteq start[c].data[m]
        BY <1>2, <3>1, <3>2 DEF RecordOK
      <3> HIDE DEF c, was
      <3>4. DOMAIN start[c].data = attrSetup.metrics /\ \A m \in attrSetup.metrics : \E p \in start[c].data[m] : p =< w[2]
        BY <3>1, <3>3
      <3>5. CanWait(start, general, w)
        BY <3>1, <3>2, <3>3, <3>4 DEF CanWait, IsNew, general, c
      <3> QED BY <3>5 DEF IsKept
    <2> QED BY <2>1, <2>2, <2>3, <2>4 DEF IsKept
  <1>16. owed # {} => attrSetup.metrics # {} /\ general # {}
    <2>1. fresh # {} => attrSetup.metrics # {} /\ general # {}
      BY <1>12, <1>13
    <2>2. left # {} => attrSetup.metrics # {} /\ general # {}
      BY <1>1 DEF general
    <2> QED BY <1>8, <2>1, <2>2
  <1>17. owed \subseteq AttrPairs /\ \A w \in owed : IsKept(w, start, general, seen, attrOut)
    <2>1. \A w \in left : w \in AttrPairs
      BY <1>1
    <2> HIDE DEF left, fresh
    <2> QED BY <1>8, <1>13, <1>14, <1>15, <2>1
  <1> QED BY <1>10, <1>11, <1>12, <1>16, <1>17 DEF general, start, seen, owed

-------------------------------------------------------------------------------
(* Attribution: the loop, and the steps.                                     *)

\* What is known of the state r of the loop, out being all that has been attributed before.
LoopIs(r, general, seen, outs, owed, erred) ==
    /\ AttrKnown(r.consumers, general, seen, outs \union r.out)
    /\ erred \/ \A o \in outs, p \in r.out : ~(o.consumer = p.consumer /\ o.t = p.t)
    /\ erred \/ r.failed \/ AllGivenBefore(r.consumers, outs \union r.out)
    /\ \A w \in owed : \/ IsKept(w, r.consumers, general, seen, outs \union r.out)
                       \/ LostByAge(seen, general, w)

\* A turn keeps it.
LEMMA TurnKeepsAll ==
    ASSUME NEW r, NEW general, NEW seen, NEW outs, NEW owed, NEW erred, NEW c \in DOMAIN r.consumers,
           attrSetup.max \in Nat, attrSetup.retention \in Nat, attrSetup.metrics # {},
           general # {}, owed \subseteq AttrPairs, LoopIs(r, general, seen, outs, owed, erred)
    PROVE  LET next == AttributeTo(r, c, general, Max(general) - attrSetup.retention)
           IN LoopIs(next, general, seen, outs, owed, erred) /\ DOMAIN next.consumers = DOMAIN r.consumers
  <1> DEFINE n == attrSetup.max
             expired == Max(general) - attrSetup.retention
             k == r.consumers[c]
             times == TurnTimes(k, general)
             good == TurnGood(k, times)
             given == TurnOut(c, k, times)
             left == TurnRecord(k, times, expired)
             had == outs \union r.out
             next == AttributeTo(r, c, general, expired)
  <1>1. next = IF r.failed THEN r
               ELSE [out |-> r.out \union given, failed |-> good # times,
                     consumers |-> IF good # times THEN r.consumers ELSE [r.consumers EXCEPT ![c] = left]]
    BY TurnIs, Zenon
  <1> HIDE DEF next
  <1>2. AttrKnown(r.consumers, general, seen, had)
    BY DEF LoopIs
  <1>3. general \subseteq 1..n /\ general \subseteq 0..n /\ Max(general) \in general
    <2>1. general \subseteq 1..n
      BY <1>2 DEF AttrKnown, AttrTimes
    <2>2. general \subseteq 0..n
      <3>1. 1..n \subseteq 0..n
        OBVIOUS
      <3> QED BY <2>1, <3>1
    <2>3. Max(general) \in general
      BY <2>2, LargestIs
    <2> QED BY <2>1, <2>2, <2>3
  <1>4. expired \in Int
    <2>1. Max(general) \in 0..n
      BY <1>3
    <2>2. \A g \in 0..n : g - attrSetup.retention \in Int
      OBVIOUS
    <2> QED BY <2>1, <2>2
  <1>5. c \in attrSetup.consumers /\ seen[c] \in SeriesSeen /\ RecordOK(c, k, seen[c], had)
    BY <1>2 DEF AttrKnown
  <1>6. TurnStarts(c, k, general, seen[c], had, expired)
    BY <1>3, <1>4, <1>5 DEF TurnStarts, AttrTimes
  <1>7. \A o \in had : o.t \in Nat /\ OutIsNearest(o, seen)
    <2>1. \A o \in had : o.t \in 1..n /\ OutIsNearest(o, seen)
      BY <1>2 DEF AttrKnown, OutIsNearest, AttrTimes
    <2> QED BY <2>1
  <1> HIDE DEF n, expired
  <1>8. \A o \in given : o.consumer = c /\ OutIsNearest(o, seen)
    <2>1. \A o \in given :
             /\ o.consumer = c /\ o.t \in 1..attrSetup.max /\ DOMAIN o.from = attrSetup.metrics
             /\ \A m \in attrSetup.metrics : Nearest(seen[c][m], o.t, o.from[m])
      BY <1>6, TurnOutIs
    <2> HIDE DEF given
    <2> QED BY <1>5, <2>1 DEF OutIsNearest, AttrTimes
  <1>9. GivenBefore(c, k, had) =>
           /\ \A o \in had, p \in given : ~(o.consumer = p.consumer /\ o.t = p.t)
           /\ GivenBefore(c, left, had \union given)
    BY <1>6, <1>7, TurnGivesOnce
  <1>10. good = times => /\ RecordOK(c, left, seen[c], had \union given)
                         /\ left.last = k.last \/ left.last \in general
    BY <1>6, TurnRecordOK
  <1>11. ASSUME good = times, NEW t, StillWaits(k, general, t)
         PROVE  \/ IsAttributed(given, <<c, t>>)
                \/ StillWaits(left, general, t)
                \/ LostByAge(seen, general, <<c, t>>)
                \/ Overtaken(given, seen, <<c, t>>)
    BY <1>6, <1>11, TurnKeeps DEF expired
  <1> HIDE DEF times, good, given, left
  <1>12. /\ \A w : IsAttributed(had, w) => IsAttributed(had \union given, w)
         /\ \A w : Overtaken(had, seen, w) => Overtaken(had \union given, seen, w)
         /\ \A d, e, series : RecordOK(d, e, series, had) => RecordOK(d, e, series, had \union given)
         /\ \A w : IsAttributed(given, w) => IsAttributed(had \union given, w)
         /\ \A w : Overtaken(given, seen, w) => Overtaken(had \union given, seen, w)
    <2>1. had \union given = given \union had
      OBVIOUS
    <2> HIDE DEF had
    <2>2. /\ \A w : IsAttributed(had, w) => IsAttributed(had \union given, w)
          /\ \A w : Overtaken(had, seen, w) => Overtaken(had \union given, seen, w)
          /\ \A d, e, series : RecordOK(d, e, series, had) => RecordOK(d, e, series, had \union given)
      BY MoreIsAttributed, Zenon
    <2>3. /\ \A w : IsAttributed(given, w) => IsAttributed(given \union had, w)
          /\ \A w : Overtaken(given, seen, w) => Overtaken(given \union had, seen, w)
      BY MoreIsAttributed, Zenon
    <2> QED BY <2>1, <2>2, <2>3, Zenon
  <1>13. erred \/ r.failed \/ AllGivenBefore(r.consumers, had)
    BY DEF LoopIs
  <1>14. erred \/ \A o \in outs, p \in r.out : ~(o.consumer = p.consumer /\ o.t = p.t)
    BY DEF LoopIs
  <1>15. \A w \in owed : IsKept(w, r.consumers, general, seen, had) \/ LostByAge(seen, general, w)
    BY DEF LoopIs
  <1>16. CASE r.failed
    <2>1. next = r
      BY <1>1, <1>16
    <2>2. LoopIs(next, general, seen, outs, owed, erred) /\ DOMAIN next.consumers = DOMAIN r.consumers
      BY <2>1
    <2> QED BY <2>2 DEF next, expired
  <1>17. ASSUME ~r.failed
         PROVE  /\ erred \/ \A o \in outs, p \in r.out \union given : ~(o.consumer = p.consumer /\ o.t = p.t)
                /\ outs \union (r.out \union given) = had \union given
                /\ \A o \in had \union given : OutIsNearest(o, seen)
    <2>1. erred \/ GivenBefore(c, k, had)
      BY <1>13, <1>17 DEF AllGivenBefore
    <2>2. erred \/ \A o \in had, p \in given : ~(o.consumer = p.consumer /\ o.t = p.t)
      BY <1>9, <2>1
    <2>3. erred \/ \A o \in outs, p \in r.out \union given : ~(o.consumer = p.consumer /\ o.t = p.t)
      BY <1>14, <2>2
    <2> QED BY <1>7, <1>8, <2>3
  <1>18. CASE ~r.failed /\ good # times
    <2>1. next.out = r.out \union given /\ next.failed = TRUE /\ next.consumers = r.consumers
      BY <1>1, <1>18
    <2>2. AttrKnown(r.consumers, general, seen, had \union given)
      <3> HIDE DEF had, k
      <3> QED BY <1>2, <1>12, <1>17, <1>18 DEF AttrKnown
    <2>3. \A w \in owed : \/ IsKept(w, r.consumers, general, seen, had \union given)
                          \/ LostByAge(seen, general, w)
      <3> HIDE DEF had, k
      <3> QED BY <1>12, <1>15, Zenon DEF IsKept
    <2>4. LoopIs(next, general, seen, outs, owed, erred)
      <3> HIDE DEF had, k
      <3> QED BY <1>17, <1>18, <2>1, <2>2, <2>3 DEF LoopIs
    <2> QED BY <2>1, <2>4 DEF next, expired
  <1>19. CASE ~r.failed /\ good = times
    <2> DEFINE new == next.consumers
    <2>1. next.out = r.out \union given /\ next.failed = FALSE /\ new = [r.consumers EXCEPT ![c] = left]
      BY <1>1, <1>19
    <2>2. DOMAIN new = DOMAIN r.consumers /\ new[c] = left /\ \A d \in DOMAIN new : d # c => new[d] = r.consumers[d]
      BY <2>1
    <2> HIDE DEF new
    <2>3. ASSUME NEW d \in DOMAIN new
          PROVE  RecordOK(d, new[d], seen[d], had \union given) /\ IsReached(new[d], general)
      <3>1. CASE d # c
        <4>1. RecordOK(d, r.consumers[d], seen[d], had) /\ IsReached(r.consumers[d], general) /\ new[d] = r.consumers[d]
          BY <1>2, <2>2, <3>1 DEF AttrKnown
        <4> QED BY <1>12, <4>1, Zenon
      <3>2. CASE d = c
        <4>1. RecordOK(c, left, seen[c], had \union given) /\ (left.last = k.last \/ left.last \in general)
          BY <1>10, <1>19
        <4>2. IsReached(k, general)
          BY <1>2 DEF AttrKnown
        <4>3. IsReached(left, general)
          <5> DEFINE last == left.last
          <5>1. general \subseteq Int
            <6>1. general \subseteq AttrTimes
              BY <1>2 DEF AttrKnown
            <6>2. AttrTimes \subseteq Int
              BY <1>2 DEF AttrKnown, AttrTimes
            <6> QED BY <6>1, <6>2
          <5> HIDE DEF k, left, last
          <5>2. last \in general => \E g \in general : g >= last
            <6> SUFFICES ASSUME last \in general PROVE \E g \in general : g >= last
              OBVIOUS
            <6>1. last >= last
              BY <5>1
            <6> QED BY <6>1
          <5>3. last = k.last \/ last \in general
            BY <4>1 DEF last
          <5>4. last > 0 => \E g \in general : g >= last
            <6>1. CASE last = k.last
              BY <4>2, <6>1 DEF IsReached
            <6>2. CASE last \in general
              BY <5>2, <6>2
            <6> QED BY <5>3, <6>1, <6>2
          <5> QED BY <5>4 DEF IsReached, last
        <4> QED BY <2>2, <3>2, <4>1, <4>3
      <3> QED BY <3>1, <3>2
    <2>4. AttrKnown(new, general, seen, had \union given)
      <3>1. /\ general \subseteq AttrTimes /\ seen \in [attrSetup.consumers -> SeriesSeen]
            /\ DOMAIN new \subseteq attrSetup.consumers
        BY <1>2, <2>2 DEF AttrKnown
      <3> QED BY <1>17, <1>19, <2>3, <3>1 DEF AttrKnown
    <2>5. erred \/ AllGivenBefore(new, had \union given)
      <3> SUFFICES ASSUME ~erred, NEW d \in DOMAIN new PROVE GivenBefore(d, new[d], had \union given)
        BY DEF AllGivenBefore
      <3>0. \A e \in DOMAIN r.consumers : GivenBefore(e, r.consumers[e], had)
        BY <1>13, <1>19 DEF AllGivenBefore
      <3>1. CASE d = c
        BY <1>9, <2>2, <3>0, <3>1
      <3>2. CASE d # c
        <4>1. GivenBefore(d, r.consumers[d], had) /\ new[d] = r.consumers[d]
          BY <2>2, <3>0, <3>2
        <4> QED BY <1>8, <3>2, <4>1, Zenon DEF GivenBefore
      <3> QED BY <3>1, <3>2
    <2>6. ASSUME NEW w \in owed
          PROVE  IsKept(w, new, general, seen, had \union given) \/ LostByAge(seen, general, w)
      <3>1. IsKept(w, r.consumers, general, seen, had) \/ LostByAge(seen, general, w)
        BY <1>15
      <3>2. w = <<w[1], w[2]>>
        BY DEF AttrPairs
      <3> HIDE DEF had
      <3>3. CASE IsAttributed(had, w) \/ Overtaken(had, seen, w)
        BY <1>12, <3>3, Zenon DEF IsKept
      <3>4. CASE CanWait(r.consumers, general, w) /\ w[1] # c
        <4>1. w[1] \in DOMAIN new /\ new[w[1]] = r.consumers[w[1]]
          BY <2>2, <3>4 DEF CanWait
        <4>2. CanWait(new, general, w)
          BY <3>4, <4>1 DEF CanWait
        <4> QED BY <4>2 DEF IsKept
      <3>5. CASE CanWait(r.consumers, general, w) /\ w[1] = c
        <4>1. StillWaits(k, general, w[2])
          BY <3>5 DEF CanWait, StillWaits
        <4>2. \/ IsAttributed(given, w) \/ StillWaits(left, general, w[2])
              \/ LostByAge(seen, general, w) \/ Overtaken(given, seen, w)
          <5> HIDE DEF k
          <5>1. w = <<c, w[2]>>
            BY <3>2, <3>5
          <5> QED BY <1>11, <1>19, <4>1, <5>1, Zenon
        <4>3. StillWaits(left, general, w[2]) => CanWait(new, general, w)
          BY <2>2, <3>5 DEF CanWait, StillWaits
        <4> QED BY <1>12, <4>2, <4>3, Zenon DEF IsKept
      <3> QED BY <3>1, <3>3, <3>4, <3>5 DEF IsKept
    <2>7. LoopIs(next, general, seen, outs, owed, erred)
      <3>1. outs \union next.out = had \union given
        BY <1>17, <1>19, <2>1
      <3>2. erred \/ \A o \in outs, p \in next.out : ~(o.consumer = p.consumer /\ o.t = p.t)
        BY <1>17, <1>19, <2>1
      <3> HIDE DEF had
      <3> QED BY <2>4, <2>5, <2>6, <3>1, <3>2 DEF LoopIs, new
    <2> QED BY <2>2, <2>7 DEF next, expired, new
  <1> QED BY <1>16, <1>18, <1>19

\* done is what the loop computes after each turn.
DoneUpTo(start, general, expired, order, n, done) ==
    done = [i \in 0..n |->
              IF i = 0 THEN [consumers |-> start, out |-> {}, failed |-> FALSE]
              ELSE AttributeTo(done[i - 1], order[i], general, expired)]

\* The recursive equation of the loop has a solution.
LEMMA AttributedIs ==
    ASSUME NEW start, NEW general, NEW expired, NEW order, Len(order) \in Nat
    PROVE  \E done :
              /\ done[0] = [consumers |-> start, out |-> {}, failed |-> FALSE]
              /\ \A i \in 1..Len(order) : done[i] = AttributeTo(done[i - 1], order[i], general, expired)
              /\ Attributed(start, general, expired, order) = done[Len(order)]
  <1> DEFINE L == Len(order)
             zero == [consumers |-> start, out |-> {}, failed |-> FALSE]
             Turn(r, i) == AttributeTo(r, order[i], general, expired)
             Is(done, n) == done = [i \in 0..n |-> IF i = 0 THEN zero ELSE Turn(done[i - 1], i)]
             T == {n \in 0..L : \E done : Is(done, n)}
  <1>0. L \in Nat
    OBVIOUS
  <1> HIDE DEF L, zero, Turn
  <1>1. 0 \in T
    <2> DEFINE d == [i \in 0..0 |-> zero]
    <2>1. Is(d, 0)
      OBVIOUS
    <2> HIDE DEF Is, d
    <2>2. 0 \in 0..L
      BY <1>0
    <2> QED BY <2>1, <2>2
  <1>2. ASSUME NEW n \in 1..L, n - 1 \in T PROVE n \in T
    <2>1. PICK g : Is(g, n - 1)
      BY <1>2
    <2> DEFINE h == [i \in 0..n |-> IF i = n THEN Turn(g[n - 1], n) ELSE g[i]]
    <2>2. n \in Nat /\ n # 0 /\ n - 1 \in 0..n /\ n - 1 # n
      BY <1>0
    <2>3. \A i \in 0..n : i # n => i \in 0..(n - 1) /\ h[i] = g[i]
      BY <2>2
    <2>4. \A i \in 0..n : h[i] = IF i = 0 THEN zero ELSE Turn(h[i - 1], i)
      <3> TAKE i \in 0..n
      <3>1. CASE i = n
        <4>1. h[n - 1] = g[n - 1] /\ h[n] = Turn(g[n - 1], n)
          BY <2>2, <2>3
        <4> HIDE DEF h
        <4> QED BY <2>2, <3>1, <4>1
      <3>2. CASE i # n
        <4>1. i \in 0..(n - 1) /\ h[i] = g[i]
          BY <2>3, <3>2
        <4>2. g[i] = IF i = 0 THEN zero ELSE Turn(g[i - 1], i)
          BY <2>1, <4>1
        <4>3. i # 0 => i - 1 \in 0..n /\ i - 1 # n
          BY <2>2, <4>1
        <4>4. i # 0 => h[i - 1] = g[i - 1]
          BY <2>3, <4>3
        <4> HIDE DEF h
        <4> QED BY <4>1, <4>2, <4>4
      <3> QED BY <3>1, <3>2
    <2>5. Is(h, n)
      <3> HIDE DEF Turn, zero
      <3>1. h = [i \in 0..n |-> h[i]]
        OBVIOUS
      <3> HIDE DEF h
      <3> QED BY <2>4, <3>1
    <2> HIDE DEF Is, h
    <2>6. n \in 0..L
      BY <1>0
    <2> QED BY <2>5, <2>6
  <1> HIDE DEF Is, T
  <1>3. L \in T
    <2>1. \A n \in 0..L : n \in T
      BY <1>0, <1>1, <1>2, UpTo
    <2> QED BY <1>0, <2>1
  <1> DEFINE done == CHOOSE done : DoneUpTo(start, general, expired, order, L, done)
  <1>4. DoneUpTo(start, general, expired, order, L, done)
    <2>1. PICK g : Is(g, L)
      BY <1>3 DEF T
    <2>2. DoneUpTo(start, general, expired, order, L, g)
      BY <2>1 DEF DoneUpTo, Is, zero, Turn
    <2> QED BY <2>2
  <1>5. Attributed(start, general, expired, order) = done[L]
    BY Zenon DEF Attributed, DoneUpTo, L
  <1> HIDE DEF done
  <1>6. \A i \in 0..L : done[i] = IF i = 0 THEN zero ELSE Turn(done[i - 1], i)
    BY <1>4, Zenon DEF DoneUpTo, zero, Turn
  <1>7. done[0] = zero /\ \A i \in 1..L : done[i] = Turn(done[i - 1], i)
    <2>1. 0 \in 0..L /\ \A i \in 1..L : i \in 0..L /\ i # 0
      BY <1>0
    <2> QED BY <1>6, <2>1
  <1> QED BY <1>5, <1>7 DEF L, zero, Turn

\* The whole loop keeps it.
LEMMA LoopKeeps ==
    ASSUME NEW start, NEW general, NEW seen, NEW outs, NEW owed, NEW erred, NEW order,
           Len(order) \in Nat, \A i \in 1..Len(order) : order[i] \in DOMAIN start,
           attrSetup.max \in Nat, attrSetup.retention \in Nat,
           DOMAIN start # {} => attrSetup.metrics # {}, general # {}, owed \subseteq AttrPairs,
           LoopIs([consumers |-> start, out |-> {}, failed |-> FALSE], general, seen, outs, owed, erred)
    PROVE  LoopIs(Attributed(start, general, Max(general) - attrSetup.retention, order),
                  general, seen, outs, owed, erred)
  <1> DEFINE L == Len(order)
             expired == Max(general) - attrSetup.retention
             zero == [consumers |-> start, out |-> {}, failed |-> FALSE]
             Ok(r) == LoopIs(r, general, seen, outs, owed, erred) /\ DOMAIN r.consumers = DOMAIN start
  <1>1. PICK done :
              /\ done[0] = zero
              /\ \A i \in 1..L : done[i] = AttributeTo(done[i - 1], order[i], general, expired)
              /\ Attributed(start, general, expired, order) = done[L]
    BY AttributedIs
  <1>2. Ok(zero) /\ L \in Nat
    OBVIOUS
  <1>3. ASSUME NEW r, LoopIs(r, general, seen, outs, owed, erred), NEW c \in DOMAIN r.consumers,
               attrSetup.metrics # {}
        PROVE  /\ LoopIs(AttributeTo(r, c, general, expired), general, seen, outs, owed, erred)
               /\ DOMAIN AttributeTo(r, c, general, expired).consumers = DOMAIN r.consumers
    BY <1>3, TurnKeepsAll
  <1> DEFINE T == {i \in 0..L : Ok(done[i])}
  <1>4. \A i \in 1..L : order[i] \in DOMAIN start
    OBVIOUS
  <1> HIDE DEF L, expired, zero, Ok
  <1>5. 0 \in T
    <2>1. 0 \in 0..L
      BY <1>2
    <2> QED BY <1>1, <1>2, <2>1
  <1>6. ASSUME NEW i \in 1..L, i - 1 \in T PROVE i \in T
    <2>1. Ok(done[i - 1]) /\ i \in 0..L
      BY <1>2, <1>6
    <2>2. Ok(AttributeTo(done[i - 1], order[i], general, expired))
      <3>1. order[i] \in DOMAIN start /\ attrSetup.metrics # {}
        BY <1>4
      <3> QED BY <1>3, <2>1, <3>1 DEF Ok
    <2> QED BY <1>1, <2>1, <2>2
  <1> HIDE DEF T
  <1>7. L \in T
    <2>1. \A i \in 0..L : i \in T
      BY <1>2, <1>5, <1>6, UpTo
    <2> QED BY <1>2, <2>1
  <1> QED BY <1>1, <1>7 DEF T, Ok, expired

\* An order on the consumers is a sequence of them.
LEMMA TurnsAre ==
    ASSUME NEW S, IsFiniteSet(S), NEW order \in Orders(S)
    PROVE  Len(order) \in Nat /\ \A i \in 1..Len(order) : order[i] \in S
  <1>1. Cardinality(S) \in Nat
    BY FS_CardinalityType
  <1>2. order \in [1..Cardinality(S) -> S]
    BY DEF Orders
  <1>3. Len(order) = Cardinality(S)
    BY <1>1, <1>2
  <1> QED BY <1>1, <1>2, <1>3

\* What is left of the reference has the points that a consumer can still be given, and the
\* latest one.
LEMMA ReferenceIsKept ==
    ASSUME NEW left, NEW general, attrSetup.max \in Nat, attrSetup.retention \in Nat,
           general \subseteq AttrTimes, general # {}, left = [c \in DOMAIN left |-> left[c]],
           \A c \in DOMAIN left : left[c].last \in 0..attrSetup.max /\ IsReached(left[c], general)
    PROVE  LET remains == RemoveBefore(general, UselessBefore(left, Max(general) - attrSetup.retention))
           IN /\ remains \subseteq general /\ Max(general) \in remains /\ Max(remains) = Max(general)
              /\ \A c \in DOMAIN left : \A t \in general : t >= left[c].last => t \in remains
              /\ \A c \in DOMAIN left : IsReached(left[c], remains)
  <1> DEFINE n == attrSetup.max
             top == Max(general)
             lasts == {left[c].last : c \in DOMAIN left}
             u == UselessBefore(left, top - attrSetup.retention)
             remains == RemoveBefore(general, u)
  <1>1. general \subseteq 1..n /\ general \subseteq 0..n /\ n \in Nat
    <2>1. general \subseteq 1..n
      BY DEF AttrTimes
    <2>2. 1..n \subseteq 0..n
      OBVIOUS
    <2> QED BY <2>1, <2>2
  <1>2. top \in general /\ \A t \in general : t =< top
    BY <1>1, LargestIs
  <1>3. remains = {p \in general : p >= u}
    BY DEF RemoveBefore
  <1> HIDE DEF n, top, u, remains
  <1>4. top \in 1..n /\ top \in Nat
    BY <1>1, <1>2
  <1>5. CASE left = Nobody
    <2>1. u = top - attrSetup.retention /\ DOMAIN left = {}
      BY <1>5 DEF u, UselessBefore, Nobody
    <2>2. top >= u
      BY <1>4, <2>1
    <2>3. remains \subseteq general /\ top \in remains
      BY <1>2, <1>3, <2>2
    <2>4. Max(remains) = top
      <3>1. remains \subseteq 0..n /\ remains # {}
        BY <1>1, <2>3
      <3>2. Max(remains) \in remains /\ \A x \in remains : x =< Max(remains)
        BY <1>1, <3>1, LargestIs
      <3>3. Max(remains) =< top /\ top =< Max(remains) /\ Max(remains) \in 0..n
        BY <1>2, <2>3, <3>1, <3>2
      <3> QED BY <1>4, <3>3
    <2> QED BY <2>1, <2>3, <2>4 DEF top, remains, u
  <1>6. CASE left # Nobody
    <2>1. u = Min(lasts)
      BY <1>6 DEF u, UselessBefore
    <2>2. lasts \subseteq 0..n /\ lasts \subseteq Nat
      <3>1. lasts \subseteq 0..n
        BY DEF n
      <3>2. 0..n \subseteq Nat
        BY <1>1
      <3> QED BY <3>1, <3>2
    <2>3. CASE lasts = {}
      <3>1. DOMAIN left = {}
        BY <2>3
      <3>2. left = Nobody
        BY <3>1 DEF Nobody
      <3> QED BY <1>6, <3>2
    <2>4. CASE lasts # {}
      <3>1. Min(lasts) \in lasts /\ \A x \in lasts : Min(lasts) =< x
        <4> HIDE DEF lasts
        <4> QED BY <2>2, <2>4, SmallestIs
      <3>2. u \in Nat /\ \A c \in DOMAIN left : left[c].last \in 0..n /\ u =< left[c].last
        BY <2>1, <2>2, <3>1 DEF n
      <3>3. PICK d \in DOMAIN left : u = left[d].last
        BY <2>1, <3>1
      <3>4. top >= u
        <4>1. CASE u > 0
          <5>1. PICK g \in general : g >= u
            BY <3>3, <4>1 DEF IsReached
          <5>2. g =< top /\ g \in 0..n
            BY <1>1, <1>2
          <5> QED BY <1>4, <3>2, <5>1, <5>2
        <4> QED BY <1>4, <3>2, <4>1
      <3>5. remains \subseteq general /\ top \in remains
        BY <1>2, <1>3, <3>4
      <3>6. Max(remains) = top
        <4>1. remains \subseteq 0..n /\ remains # {}
          BY <1>1, <3>5
        <4>2. Max(remains) \in remains /\ \A x \in remains : x =< Max(remains)
          BY <1>1, <4>1, LargestIs
        <4>3. Max(remains) =< top /\ top =< Max(remains) /\ Max(remains) \in 0..n
          BY <1>2, <3>5, <4>1, <4>2
        <4> QED BY <1>4, <4>3
      <3>7. ASSUME NEW c \in DOMAIN left, NEW t \in general, t >= left[c].last PROVE t \in remains
        <4>1. t \in 0..n
          BY <1>1
        <4>2. t >= u
          BY <3>2, <3>7, <4>1
        <4> QED BY <1>3, <4>2
      <3>8. \A c \in DOMAIN left : IsReached(left[c], remains)
        BY <3>7 DEF IsReached
      <3> QED BY <3>5, <3>6, <3>7, <3>8 DEF top, remains, u
    <2> QED BY <2>3, <2>4
  <1> QED BY <1>5, <1>6

\* A step keeps what is known of the state.
LEMMA ApplyKeeps ==
    ASSUME AttributionInv, NEW reference \in After(attrGeneral), NEW batch \in AttributionBatches,
           NEW order, ApplyAttribution(reference, batch, order)
    PROVE  /\ attrSetup' = attrSetup
           /\ AttrIs(attrConsumers', attrGeneral', attrSeen', attrOut', attrOwed', attrTold')
  <1> DEFINE n == attrSetup.max
             general == attrGeneral \union reference
             start == Extended(batch)
             seen == SeenWith(batch)
             owed == OwedWith(start, general)
             expired == Max(general) - attrSetup.retention
             done == Attributed(start, general, expired, order)
             with == {c \in DOMAIN done.consumers : done.consumers[c].data # Nobody}
             left == [c \in with |-> done.consumers[c]]
             all == attrOut \union done.out
             zero == [consumers |-> start, out |-> {}, failed |-> FALSE]
  <1>1. /\ order \in Orders(DOMAIN start)
        /\ IF general = {}
           THEN /\ attrConsumers' = start /\ attrGeneral' = general
                /\ UNCHANGED <<attrOut, attrTold>>
           ELSE /\ attrConsumers' = IF done.failed THEN done.consumers ELSE left
                /\ attrGeneral' = IF done.failed THEN general
                                  ELSE RemoveBefore(general, UselessBefore(left, expired))
                /\ attrOut' = all
                /\ attrTold' = [failed |-> attrTold.failed \/ done.failed,
                     twice |-> attrTold.twice \/ \E o \in attrOut, p \in done.out :
                                  o.consumer = p.consumer /\ o.t = p.t]
        /\ attrSeen' = seen /\ attrOwed' = owed /\ attrSetup' = attrSetup
    BY Zenon DEF ApplyAttribution, SeenWith, OwedWith
  <1>2. n \in Nat /\ attrSetup.retention \in Nat /\ IsFiniteSet(attrSetup.consumers)
    BY AttrSetupIs DEF AttributionInv
  <1>3. /\ AttrKnown(start, general, seen, attrOut)
        /\ attrTold.failed \/ AllGivenBefore(start, attrOut)
        /\ DOMAIN start # {} => attrSetup.metrics # {}
        /\ owed # {} => attrSetup.metrics # {} /\ general # {}
        /\ owed \subseteq AttrPairs
        /\ \A w \in owed : IsKept(w, start, general, seen, attrOut)
    BY ExtendedKeeps, Zenon
  <1>4. attrTold.twice => attrTold.failed
    BY DEF AttributionInv, AttrIs
  <1> HIDE DEF n, general, start, seen, owed
  <1>5. CASE general = {}
    <2>1. /\ attrConsumers' = start /\ attrGeneral' = general /\ attrOut' = attrOut /\ attrTold' = attrTold
          /\ attrSeen' = seen /\ attrOwed' = owed /\ attrSetup' = attrSetup /\ owed = {}
      BY <1>1, <1>3, <1>5
    <2>2. AttrIs(start, general, seen, attrOut, owed, attrTold)
      BY <1>3, <1>4, <2>1 DEF AttrIs
    <2> QED BY <2>1, <2>2
  <1>6. CASE general # {}
    <2>1. Len(order) \in Nat /\ \A i \in 1..Len(order) : order[i] \in DOMAIN start
      <3>1. IsFiniteSet(DOMAIN start)
        <4>1. DOMAIN start \subseteq attrSetup.consumers
          BY <1>3 DEF AttrKnown
        <4> QED BY <1>2, <4>1, FS_Subset
      <3> QED BY <1>1, <3>1, TurnsAre
    <2>2. LoopIs(zero, general, seen, attrOut, owed, attrTold.failed)
      <3>1. /\ zero.consumers = start /\ zero.out = {} /\ zero.failed = FALSE
            /\ attrOut \union zero.out = attrOut
        OBVIOUS
      <3> HIDE DEF zero
      <3> QED BY <1>3, <3>1 DEF LoopIs
    <2>3. LoopIs(done, general, seen, attrOut, owed, attrTold.failed)
      <3>1. DOMAIN start # {} => attrSetup.metrics # {}
        BY <1>3
      <3>2. owed \subseteq AttrPairs /\ attrSetup.max \in Nat /\ attrSetup.retention \in Nat
        BY <1>2, <1>3 DEF n
      <3> QED BY <1>6, <2>1, <2>2, <3>1, <3>2, LoopKeeps
    <2> HIDE DEF done
    <2>4. /\ AttrKnown(done.consumers, general, seen, all)
          /\ attrTold.failed \/ \A o \in attrOut, p \in done.out : ~(o.consumer = p.consumer /\ o.t = p.t)
          /\ attrTold.failed \/ done.failed \/ AllGivenBefore(done.consumers, all)
          /\ \A w \in owed : \/ IsKept(w, done.consumers, general, seen, all)
                             \/ LostByAge(seen, general, w)
      BY <2>3, Zenon DEF LoopIs
    <2> HIDE DEF all
    <2>5. /\ attrSeen' = seen /\ attrOwed' = owed /\ attrOut' = all /\ attrSetup' = attrSetup
          /\ attrConsumers' = IF done.failed THEN done.consumers ELSE left
          /\ attrGeneral' = IF done.failed THEN general
                            ELSE RemoveBefore(general, UselessBefore(left, expired))
      BY <1>1, <1>6
    <2>6. /\ attrTold'.failed = (attrTold.failed \/ done.failed)
          /\ attrTold'.twice => attrTold'.failed
      <3>1. attrTold' = [failed |-> attrTold.failed \/ done.failed,
               twice |-> attrTold.twice \/ \E o \in attrOut, p \in done.out :
                            o.consumer = p.consumer /\ o.t = p.t]
        BY <1>1, <1>6
      <3>2. /\ attrTold'.failed = (attrTold.failed \/ done.failed)
            /\ attrTold'.twice = (attrTold.twice \/ \E o \in attrOut, p \in done.out :
                                     o.consumer = p.consumer /\ o.t = p.t)
        BY <3>1
      <3> QED BY <1>4, <2>4, <3>2, Zenon
    <2>7. CASE done.failed
      <3>1. attrConsumers' = done.consumers /\ attrGeneral' = general /\ attrTold'.failed
        BY <2>5, <2>6, <2>7
      <3>2. AttrIs(done.consumers, general, seen, all, owed, attrTold')
        BY <1>3, <1>6, <2>4, <2>6, <3>1, Zenon DEF AttrIs
      <3> QED BY <2>5, <3>1, <3>2
    <2>8. CASE ~done.failed
      <3> DEFINE remains == RemoveBefore(general, UselessBefore(left, expired))
      <3>1. attrConsumers' = left /\ attrGeneral' = remains /\ (attrTold'.failed <=> attrTold.failed)
        <4>1. attrTold'.failed <=> attrTold.failed
          BY <2>6, <2>8
        <4> QED BY <2>5, <2>8, <4>1
      <3>2. /\ left = [c \in DOMAIN left |-> left[c]] /\ DOMAIN left \subseteq DOMAIN done.consumers
            /\ \A c \in DOMAIN left : left[c] = done.consumers[c]
            /\ \A c \in DOMAIN done.consumers : done.consumers[c].data # Nobody => c \in DOMAIN left
        OBVIOUS
      <3> HIDE DEF left, with
      <3>3. /\ general \subseteq AttrTimes /\ seen \in [attrSetup.consumers -> SeriesSeen]
            /\ DOMAIN left \subseteq attrSetup.consumers
            /\ \A o \in all : OutIsNearest(o, seen)
            /\ \A c \in DOMAIN left : RecordOK(c, left[c], seen[c], all) /\ IsReached(left[c], general)
        BY <2>4, <3>2 DEF AttrKnown
      <3>4. \A c \in DOMAIN left : left[c].last \in 0..n
        BY <3>3 DEF RecordOK, n
      <3>5. /\ remains \subseteq general /\ Max(general) \in remains /\ Max(remains) = Max(general)
            /\ \A c \in DOMAIN left : \A t \in general : t >= left[c].last => t \in remains
            /\ \A c \in DOMAIN left : IsReached(left[c], remains)
        <4>1. attrSetup.max \in Nat /\ \A c \in DOMAIN left : left[c].last \in 0..attrSetup.max /\ IsReached(left[c], general)
          BY <1>2, <3>3, <3>4 DEF n
        <4> QED BY <1>2, <1>6, <3>2, <3>3, <4>1, ReferenceIsKept
      <3> HIDE DEF remains
      <3>6. AttrKnown(left, remains, seen, all)
        <4>1. remains \subseteq AttrTimes
          BY <3>3, <3>5
        <4> QED BY <3>3, <3>5, <4>1 DEF AttrKnown
      <3>7. attrTold.failed \/ AllGivenBefore(left, all)
        BY <2>4, <2>8, <3>2, Zenon DEF AllGivenBefore
      <3>8. owed # {} => attrSetup.metrics # {} /\ remains # {}
        BY <1>3, <3>5
      <3>9. ASSUME NEW w \in owed PROVE IsKept(w, left, remains, seen, all) \/ LostByAge(seen, remains, w)
        <4>1. IsKept(w, done.consumers, general, seen, all) \/ LostByAge(seen, general, w)
          BY <2>4
        <4>2. LostByAge(seen, general, w) => LostByAge(seen, remains, w)
          BY <3>5, Zenon DEF LostByAge, ExpiredIn
        <4>3. ASSUME CanWait(done.consumers, general, w) PROVE CanWait(left, remains, w)
          <5> DEFINE c == w[1]
                     k == done.consumers[c]
          <5>1. /\ w[2] \in general /\ c \in DOMAIN done.consumers /\ IsNew(k, w[2])
                /\ DOMAIN k.data = attrSetup.metrics
                /\ \A m \in attrSetup.metrics : \E p \in k.data[m] : p =< w[2]
            BY <4>3 DEF CanWait
          <5> HIDE DEF c, k
          <5>2. attrSetup.metrics # {}
            BY <1>3
          <5>3. k.data # Nobody
            <6>1. DOMAIN Nobody = {}
              BY DEF Nobody
            <6> QED BY <5>1, <5>2, <6>1
          <5>4. c \in DOMAIN left /\ left[c] = k
            BY <3>2, <5>1, <5>3 DEF k
          <5>5. w[2] \in remains
            <6>1. left[c].last \in 0..n /\ w[2] \in 1..n
              BY <3>3, <3>4, <5>1, <5>4 DEF AttrTimes, n
            <6>2. w[2] >= left[c].last
              BY <1>2, <5>1, <5>4, <6>1 DEF IsNew
            <6> QED BY <3>5, <5>1, <5>4, <6>2
          <5> QED BY <5>1, <5>4, <5>5 DEF CanWait, c
        <4> QED BY <4>1, <4>2, <4>3 DEF IsKept
      <3>10. AttrIs(left, remains, seen, all, owed, attrTold')
        BY <1>3, <2>6, <3>1, <3>6, <3>7, <3>8, <3>9 DEF AttrIs
      <3> QED BY <2>5, <3>1, <3>10
    <2> QED BY <2>7, <2>8
  <1> QED BY <1>5, <1>6

\* What is said of the setup is not changed when the setup is not.
LEMMA AttrIsStable ==
    ASSUME AttrIs(attrConsumers', attrGeneral', attrSeen', attrOut', attrOwed', attrTold'),
           attrSetup' = attrSetup, attrSetup \in AttributionSetups
    PROVE  AttributionInv'
  <1>1. /\ AttrTimes' = AttrTimes /\ AttrPairs' = AttrPairs /\ SeriesSeen' = SeriesSeen
        /\ \A c, k, series, outs : RecordOK(c, k, series, outs)' <=> RecordOK(c, k, series, outs)
        /\ \A outs, seen, w : Overtaken(outs, seen, w)' <=> Overtaken(outs, seen, w)
    BY DEF AttrTimes, AttrPairs, SeriesSeen, RecordOK, Overtaken
  <1> QED
    BY <1>1 DEF AttributionInv, AttrIs, AttrKnown, OutIsNearest, IsReached,
         AllGivenBefore, GivenBefore, IsKept, CanWait, LostByAge, ExpiredIn, 
         IsAttributed, Nearest, AreLast, IsNew

THEOREM AttributionInvariant == AttributionSpec => []AttributionInv
  <1>1. ASSUME AttributionInit PROVE AttributionInv
    <2>1. /\ attrSetup \in AttributionSetups /\ attrGeneral = {} /\ DOMAIN attrConsumers = {}
          /\ attrOut = {} /\ attrOwed = {} /\ attrTold.twice = FALSE
          /\ attrSeen = [c \in attrSetup.consumers |-> [m \in attrSetup.metrics |-> {}]]
      BY <1>1 DEF AttributionInit, Nobody
    <2>2. attrSeen \in [attrSetup.consumers -> SeriesSeen]
      <3>1. [m \in attrSetup.metrics |-> {}] \in SeriesSeen
        BY DEF SeriesSeen
      <3> QED BY <2>1, <3>1
    <2> QED BY <2>1, <2>2 DEF AttributionInv, AttrIs, AttrKnown, AllGivenBefore
  <1>2. ASSUME AttributionInv, AttributionNext PROVE AttributionInv'
    <2>1. PICK reference \in After(attrGeneral), batch \in AttributionBatches :
            \E order \in UNION {Orders(S) : S \in SUBSET attrSetup.consumers} :
                ApplyAttribution(reference, batch, order)
      BY <1>2, Zenon DEF AttributionNext
    <2>2. PICK order : ApplyAttribution(reference, batch, order)
      BY <2>1
    <2>3. /\ attrSetup' = attrSetup
          /\ AttrIs(attrConsumers', attrGeneral', attrSeen', attrOut', attrOwed', attrTold')
      BY <1>2, <2>2, ApplyKeeps
    <2>4. attrSetup \in AttributionSetups
      BY <1>2 DEF AttributionInv
    <2> QED BY <2>3, <2>4, AttrIsStable
  <1>3. ASSUME AttributionInv, UNCHANGED attrVars PROVE AttributionInv'
    <2>1. /\ AttrIs(attrConsumers', attrGeneral', attrSeen', attrOut', attrOwed', attrTold')
          /\ attrSetup' = attrSetup /\ attrSetup \in AttributionSetups
      BY <1>3 DEF AttributionInv, attrVars
    <2> QED BY <2>1, AttrIsStable
  <1> QED BY <1>1, <1>2, <1>3, PTL DEF AttributionSpec

\* A consumer is given its part of a point once, from the nearest points that its series have
\* ever had (is_new, interpolate_at of the energy attribution); and what can be attributed is
\* attributed, waits, or is lost in one of two ways: by its age, or in a gap of a series.
THEOREM AttributionIsExact == AttributionSpec => [](AttributedOnce /\ NothingOwedIsLost)
  <1>1. ASSUME AttributionInv PROVE AttributedOnce /\ NothingOwedIsLost
    <2>1. AttrIs(attrConsumers, attrGeneral, attrSeen, attrOut, attrOwed, attrTold)
      BY <1>1 DEF AttributionInv
    <2>2. \A o \in attrOut : UsesNearest(attrSeen, o)
      <3> TAKE o \in attrOut
      <3>1. OutIsNearest(o, attrSeen)
        BY <2>1 DEF AttrIs, AttrKnown
      <3> QED BY <3>1, Zenon DEF OutIsNearest, UsesNearest, Nearest
    <2>3. AttributedOnce
      BY <2>1, <2>2 DEF AttrIs, AttributedOnce
    <2>4. NothingOwedIsLost
      BY <2>1, Zenon DEF AttrIs, NothingOwedIsLost, IsKept
    <2> QED BY <2>3, <2>4
  <1> QED BY <1>1, AttributionInvariant, PTL

-------------------------------------------------------------------------------
(* Services that are given the points.                                       *)

RemotePoint == UNION {{b[i] : i \in DOMAIN b} : b \in RemoteBuffers}

\* A buffer is a sequence of points, whose attributes are some of the known ones.
LEMMA RemotePoints ==
    ASSUME NEW b \in RemoteBuffers
    PROVE  /\ b \in Seq(RemotePoint)
           /\ \A i \in DOMAIN b : DOMAIN b[i].attrs \subseteq RemoteKeys /\ b[i].metric \notin {"space", "newline"}
  <1> DEFINE own == {b[i] : i \in DOMAIN b}
  <1>1. b \in Seq(own) /\ own \subseteq RemotePoint
    BY RemoteAssumption DEF RemotePoint
  <1>2. /\ Len(b) \in Nat /\ DOMAIN b = 1..Len(b) /\ b = [i \in 1..Len(b) |-> b[i]]
        /\ \A i \in 1..Len(b) : b[i] \in own
    BY <1>1
  <1>3. \A i \in 1..Len(b) : b[i] \in RemotePoint
    BY <1>1, <1>2
  <1>4. [i \in 1..Len(b) |-> b[i]] \in Seq(RemotePoint)
    BY <1>2, <1>3
  <1> QED BY <1>2, <1>4, RemoteAssumption

\* The gauges are whole when no point of a buffer is left to set, and they are locked until then.
PromInv ==
    /\ prom = [gauges |-> prom.gauges, todo |-> prom.todo, whole |-> prom.whole, up |-> prom.up,
               locked |-> prom.locked]
    /\ prom.todo \in Seq(RemotePoint)
    /\ prom.locked = (prom.todo # <<>>)
    /\ prom.todo = <<>> => prom.gauges = prom.whole
    /\ ScrapesAreWhole

LEMMA PromInvInductive == PromInv /\ [RemoteNext]_remoteVars => PromInv'
  <1> SUFFICES ASSUME PromInv, [RemoteNext]_remoteVars PROVE PromInv'
    OBVIOUS
  <1>1. CASE UNCHANGED <<prom, scraped>>
    BY <1>1 DEF PromInv, ScrapesAreWhole
  <1>2. ASSUME NEW up, prom' = [prom EXCEPT !.up = up], UNCHANGED scraped PROVE PromInv'
    <2>1. /\ prom' = [gauges |-> prom.gauges, todo |-> prom.todo, whole |-> prom.whole, up |-> up,
                      locked |-> prom.locked]
      BY <1>2 DEF PromInv
    <2> QED BY <1>2, <2>1 DEF PromInv, ScrapesAreWhole
  <1>3. ASSUME NEW points \in RemoteBuffers, PromWrite(points) PROVE PromInv'
    <2>1. prom' = [gauges |-> prom.gauges, todo |-> points, whole |-> prom.whole, up |-> prom.up,
                   locked |-> TRUE]
      BY <1>3 DEF PromInv, PromWrite
    <2>2. points \in Seq(RemotePoint) /\ points # <<>> /\ scraped' = scraped
      BY <1>3, RemotePoints DEF PromWrite
    <2> QED BY <2>1, <2>2 DEF PromInv, ScrapesAreWhole
  <1>4. CASE PromSet
    <2> DEFINE p == Head(prom.todo)
               gauges == [s \in DOMAIN prom.gauges \union {Series(p)} |->
                            IF s = Series(p) THEN p.value ELSE prom.gauges[s]]
    <2>1. prom' = [prom EXCEPT !.gauges = gauges, !.todo = Tail(@),
                     !.locked = Len(prom.todo) > 1 /\ HoldsLock(Head(prom.todo)),
                     !.whole = IF Len(prom.todo) = 1 THEN gauges ELSE @]
      BY Zenon, <1>4 DEF PromSet
    <2> HIDE DEF gauges
    <2>2. prom' = [gauges |-> gauges, todo |-> Tail(prom.todo),
                   whole |-> IF Len(prom.todo) = 1 THEN gauges ELSE prom.whole, up |-> prom.up,
                   locked |-> (Len(prom.todo) > 1)]
      <3>1. HoldsLock(Head(prom.todo)) = TRUE
        BY DEF HoldsLock
      <3>2. (Len(prom.todo) > 1 /\ HoldsLock(Head(prom.todo))) = (Len(prom.todo) > 1)
        BY <3>1
      <3>3. prom = [gauges |-> prom.gauges, todo |-> prom.todo, whole |-> prom.whole,
                    up |-> prom.up, locked |-> prom.locked]
        BY DEF PromInv
      <3> QED BY <2>1, <3>2, <3>3
    <2>3. prom.todo # <<>> /\ prom.todo \in Seq(RemotePoint) /\ scraped' = scraped
      BY <1>4 DEF PromInv, PromSet
    <2>4. /\ Tail(prom.todo) \in Seq(RemotePoint) /\ Len(prom.todo) \in Nat \ {0}
          /\ Len(Tail(prom.todo)) = Len(prom.todo) - 1
      BY <2>3
    <2>5. Len(Tail(prom.todo)) = 0 <=> Tail(prom.todo) = <<>>
      BY <2>4, EmptySeq
    <2>6. (Tail(prom.todo) = <<>>) = (Len(prom.todo) = 1)
      BY <2>4, <2>5
    <2>7. (Len(prom.todo) > 1) = (Tail(prom.todo) # <<>>)
      <3>1. CASE Len(prom.todo) = 1
        BY <2>6, <3>1
      <3>2. CASE Len(prom.todo) # 1
        <4>1. Tail(prom.todo) # <<>>
          BY <2>6, <3>2
        <4>2. \A n \in Nat \ {0} : n # 1 => n > 1
          OBVIOUS
        <4>3. Len(prom.todo) > 1
          BY <2>4, <3>2, <4>2, Zenon
        <4> QED BY <4>1, <4>3
      <3> QED BY <3>1, <3>2
    <2> QED BY <2>2, <2>3, <2>4, <2>6, <2>7 DEF PromInv, ScrapesAreWhole
  <1>5. CASE Scrape
    BY <1>5 DEF Scrape, PromInv, ScrapesAreWhole
  <1>6. ASSUME NEW answers \in BOOLEAN, StartOutput(answers) PROVE PromInv'
    <2>1. UNCHANGED scraped /\ (UNCHANGED prom \/ prom' = [prom EXCEPT !.up = answers])
      BY <1>6 DEF StartOutput, StartInflux, StartMongo, StartElastic, StartUnchecked, StartPrometheus, Started
    <2> QED BY <1>1, <1>2, <2>1
  <1>7. ASSUME NEW points, NEW answer, SendPoints(points, answer) PROVE PromInv'
    <2>1. UNCHANGED <<prom, scraped>>
      BY <1>7 DEF SendPoints, SendInflux, SendMongo, SendElastic, SendKwollect, SendOtel, Send
    <2> QED BY <1>1, <2>1
  <1>8. CASE StopPrometheus
    <2>1. UNCHANGED scraped /\ prom' = [prom EXCEPT !.up = FALSE]
      BY <1>8 DEF StopPrometheus
    <2> QED BY <1>2, <2>1
  <1>9. CASE UNCHANGED remoteVars
    BY <1>1, <1>9 DEF remoteVars
  <1> QED BY <1>3, <1>4, <1>5, <1>6, <1>7, <1>8, <1>9 DEF RemoteNext

\* A page of gauges that a server is given tells the values after a whole number of writes.
THEOREM ScrapesStayWhole == RemoteSpec => []ScrapesAreWhole
  <1>1. RemoteInit => PromInv
    <2> SUFFICES ASSUME RemoteInit PROVE PromInv
      OBVIOUS
    <2>1. prom = [gauges |-> NoSeries, todo |-> <<>>, whole |-> NoSeries, up |-> FALSE, locked |-> FALSE]
      BY DEF RemoteInit, NoProm
    <2>2. scraped = <<NoSeries, NoSeries>>
      BY DEF RemoteInit
    <2>3. <<>> \in Seq(RemotePoint)
      BY EmptySeq
    <2> QED BY <2>1, <2>2, <2>3 DEF PromInv, ScrapesAreWhole
  <1>2. PromInv => ScrapesAreWhole
    BY DEF PromInv
  <1> QED BY <1>1, <1>2, PromInvInductive, PTL DEF RemoteSpec

\* The sequence of a finite set is a sequence of its elements.
LEMMA SequenceOfSet == ASSUME NEW S, IsFiniteSet(S) PROVE SetToSeq(S) \in Seq(S)
  <1> DEFINE n == Cardinality(S)
  <1>1. n \in Nat /\ ExistsBijection(1..n, S)
    BY FS_CardinalityType
  <1> HIDE DEF n
  <1>2. \E f \in [1..n -> S] : IsInjective(f)
    BY <1>1 DEF ExistsBijection, Bijection, Injection
  <1>3. SetToSeq(S) \in [1..n -> S]
    BY <1>2 DEF SetToSeq, n
  <1> QED BY <1>1, <1>3

\* The sequence of a finite set has each of its elements once.
LEMMA SequenceHasSet ==
    ASSUME NEW S, IsFiniteSet(S)
    PROVE  /\ SetToSeq(S) \in Seq(S)
           /\ \A i, j \in DOMAIN SetToSeq(S) : SetToSeq(S)[i] = SetToSeq(S)[j] => i = j
           /\ \A x \in S : \E i \in DOMAIN SetToSeq(S) : SetToSeq(S)[i] = x
  <1> DEFINE n == Cardinality(S)
             s == SetToSeq(S)
  <1>1. n \in Nat /\ ExistsBijection(1..n, S)
    BY FS_CardinalityType
  <1>2. \E f \in [1..n -> S] : IsInjective(f)
    <2> HIDE DEF n
    <2> QED BY <1>1 DEF ExistsBijection, Bijection, Injection
  <1>3. s \in [1..n -> S] /\ IsInjective(s)
    BY <1>2 DEF SetToSeq
  <1> HIDE DEF s
  <1>4. \A i, j \in 1..n : s[i] = s[j] => i = j
    BY <1>3 DEF IsInjective
  <1>5. s \in Injection(1..n, S)
    BY <1>3, <1>4 DEF Injection
  <1>6. IsFiniteSet(1..n) /\ Cardinality(1..n) = n
    BY <1>1, FS_Interval
  <1>7. s \in Surjection(1..n, S)
    BY <1>5, <1>6, FS_Injection
  <1>8. \A x \in S : \E i \in 1..n : s[i] = x
    BY <1>7 DEF Surjection
  <1> QED BY <1>1, <1>3, <1>4, <1>8, SequenceOfSet DEF s

\* What is read of a column is the value of the pairs that have this column.
ValuesIn(row, c) == {y[2] : y \in {z \in Range(row) : z[1] = c}}

LEMMA ReadPair ==
    ASSUME NEW E, NEW row \in Seq(E), NEW c, NEW v, ValuesIn(row, c) = {v}
    PROVE  ReadColumn(row, c) = v
  <1> DEFINE n == Len(row)
             places == {i \in DOMAIN row : row[i][1] = c}
             D == {n - i : i \in places}
  <1>1. n \in Nat /\ DOMAIN row = 1..n /\ Range(row) = {row[i] : i \in 1..n}
    BY DEF Range
  <1> PICK x \in Range(row) : x[1] = c
    BY DEF ValuesIn
  <1>12. \A y \in Range(row) : y[1] = c => y[2] = v
    BY DEF ValuesIn
  <1>2. places # {} /\ places \subseteq 1..n
    BY <1>1
  <1>3. D \subseteq Nat /\ D # {}
    BY <1>1, <1>2
  <1> HIDE DEF n, places
  <1>4. PICK d \in D : \A e \in D : d =< e
    <2> HIDE DEF D
    <2> QED BY <1>3, SmallestElement
  <1>5. PICK i \in places : d = n - i
    BY <1>4
  <1>6. \A j \in places : j =< i
    <2> TAKE j \in places
    <2>1. n - i =< n - j
      BY <1>4, <1>5
    <2>2. i \in Int /\ j \in Int
      BY <1>1, <1>2
    <2> QED BY <1>1, <2>1, <2>2
  <1>7. \A j \in places : row[j][2] = v
    BY <1>1, <1>2, <1>12 DEF places
  <1>8. \E j \in places : \A l \in places : l =< j
    BY <1>6
  <1>9. ReadColumn(row, c) = row[CHOOSE j \in places : \A l \in places : l =< j][2]
    BY <1>2 DEF ReadColumn, places
  <1> DEFINE best == CHOOSE j \in places : \A l \in places : l =< j
  <1>10. best \in places
    BY <1>8
  <1> HIDE DEF best
  <1>11. row[best][2] = v
    BY <1>7, <1>10
  <1> QED BY <1>9, <1>11 DEF best

\* The pairs of the attributes of a point, and those of its own columns.
AttributePairs(k, tags, p) ==
    {<<Column(k, tags, key), Text(k, p.attrs[key])>> : key \in Shown(k, tags, p)}
ConsumerAt(k) == IF k = "influxdb" THEN "tag" ELSE k
ValueAt(k) == IF k = "influxdb" THEN "field" ELSE k
OwnPairs(k, p) ==
    {Someone(ConsumerAt(k))}
        \union (IF k \in {"influxdb", "mongodb", "elasticsearch"} THEN {Own(ValueAt(k), "value", p.value)} ELSE {})
        \union (IF k \in {"mongodb", "elasticsearch"} THEN {Own(k, "timestamp", "now")} ELSE {})
        \union (IF k = "mongodb" THEN {Own(k, "measurement", p.metric)} ELSE {})

RowPairs(k, tags, p) == AttributePairs(k, tags, p) \union OwnPairs(k, p)
HasPairs(row, pairs) == row \in Seq(pairs) /\ Range(row) = pairs

LEMMA AttributesAre ==
    ASSUME NEW k, NEW tags, NEW p, DOMAIN p.attrs \subseteq RemoteKeys
    PROVE  /\ Attributes(k, tags, p) \in Seq(AttributePairs(k, tags, p))
           /\ Range(Attributes(k, tags, p)) = AttributePairs(k, tags, p)
  <1> DEFINE S == Shown(k, tags, p)
             keys == SetToSeq(S)
             row == Attributes(k, tags, p)
  <1>1. IsFiniteSet(S)
    <2>1. S \subseteq DOMAIN p.attrs
      BY DEF Shown
    <2> QED BY <2>1, FS_Subset, RemoteAssumption
  <1> HIDE DEF S
  <1>2. keys \in Seq(S) /\ \A x \in S : \E i \in DOMAIN keys : keys[i] = x
    BY <1>1, SequenceHasSet
  <1> HIDE DEF keys
  <1>3. row = [i \in DOMAIN keys |-> <<Column(k, tags, keys[i]), Text(k, p.attrs[keys[i]])>>]
    BY DEF Attributes, S, keys
  <1> HIDE DEF row
  <1>4. Len(keys) \in Nat /\ DOMAIN keys = 1..Len(keys) /\ \A i \in 1..Len(keys) : keys[i] \in S
    BY <1>2
  <1>5. \A i \in 1..Len(keys) : row[i] \in AttributePairs(k, tags, p)
    BY <1>3, <1>4 DEF AttributePairs, S
  <1>6. DOMAIN row = 1..Len(keys) /\ row = [i \in 1..Len(keys) |-> row[i]]
    BY <1>3, <1>4
  <1>7. row \in Seq(AttributePairs(k, tags, p))
    <2>1. [i \in 1..Len(keys) |-> row[i]] \in Seq(AttributePairs(k, tags, p))
      BY <1>4, <1>5
    <2> QED BY <1>6, <2>1
  <1>8. ASSUME NEW key \in S PROVE <<Column(k, tags, key), Text(k, p.attrs[key])>> \in Range(row)
    <2>1. PICK i \in DOMAIN keys : keys[i] = key
      BY <1>2
    <2> QED BY <1>3, <2>1 DEF Range
  <1>9. AttributePairs(k, tags, p) \subseteq Range(row)
    BY <1>8 DEF AttributePairs, S
  <1>10. Range(row) \subseteq AttributePairs(k, tags, p)
    BY <1>5, <1>6 DEF Range
  <1> QED BY <1>7, <1>9, <1>10 DEF row

\* A row has the pairs of the attributes and those of its own columns, in some order.
LEMMA RowHasPairs ==
    ASSUME NEW k, k \in {"influxdb", "mongodb", "elasticsearch", "kwollect", "opentelemetry"}, NEW tags, NEW p,
           DOMAIN p.attrs \subseteq RemoteKeys
    PROVE  HasPairs(RowOf(k, tags, p), RowPairs(k, tags, p))
  <1> SUFFICES /\ RowOf(k, tags, p) \in Seq(AttributePairs(k, tags, p) \union OwnPairs(k, p))
               /\ Range(RowOf(k, tags, p)) = AttributePairs(k, tags, p) \union OwnPairs(k, p)
    BY DEF HasPairs, RowPairs
  <1> DEFINE E == AttributePairs(k, tags, p) \union OwnPairs(k, p)
             attrs == Attributes(k, tags, p)
  <1>1. attrs \in Seq(E) /\ Range(attrs) = AttributePairs(k, tags, p)
    <2>1. attrs \in Seq(AttributePairs(k, tags, p)) /\ Range(attrs) = AttributePairs(k, tags, p)
      BY AttributesAre
    <2> HIDE DEF attrs
    <2>2. /\ attrs = [i \in 1..Len(attrs) |-> attrs[i]] /\ Len(attrs) \in Nat
          /\ \A i \in 1..Len(attrs) : attrs[i] \in AttributePairs(k, tags, p)
      BY <2>1
    <2>3. [i \in 1..Len(attrs) |-> attrs[i]] \in Seq(E)
      BY <2>2
    <2> QED BY <2>1, <2>2, <2>3
  <1>2. Someone(ConsumerAt(k)) \in E
    BY DEF OwnPairs
  <1> HIDE DEF E, attrs
  <1>3. ASSUME NEW x \in E PROVE <<x>> \in Seq(E) /\ Range(<<x>>) = {x}
    BY DEF Range
  <1>4. ASSUME NEW x \in E, NEW y \in E PROVE <<x, y>> \in Seq(E) /\ Range(<<x, y>>) = {x, y}
    BY DEF Range
  <1>5. ASSUME NEW x \in E, NEW y \in E, NEW z \in E
        PROVE  <<x, y, z>> \in Seq(E) /\ Range(<<x, y, z>>) = {x, y, z}
    BY DEF Range
  <1>6. CASE k = "influxdb"
    <2>1. RowOf(k, tags, p) = <<Someone("tag")>> \o attrs \o <<Own("field", "value", p.value)>>
      BY <1>6 DEF RowOf, InfluxRow, attrs
    <2>2. Own("field", "value", p.value) \in E
      BY <1>6 DEF E, OwnPairs, ValueAt
    <2> DEFINE first == <<Someone("tag")>>
               end == <<Own("field", "value", p.value)>>
    <2>3. /\ first \in Seq(E) /\ Range(first) = {Someone("tag")}
          /\ end \in Seq(E) /\ Range(end) = {Own("field", "value", p.value)}
      BY <1>2, <1>3, <1>6, <2>2 DEF ConsumerAt
    <2> HIDE DEF first, end
    <2>5. first \o attrs \in Seq(E) /\ Range(first \o attrs) = Range(first) \union Range(attrs)
      BY <1>1, <2>3, RangeConcat
    <2>6. /\ (first \o attrs) \o end \in Seq(E)
          /\ Range((first \o attrs) \o end) = Range(first \o attrs) \union Range(end)
      <3> DEFINE u == first \o attrs
      <3>1. u \in Seq(E) /\ end \in Seq(E)
        BY <2>3, <2>5
      <3> HIDE DEF u
      <3>2. u \o end \in Seq(E) /\ Range(u \o end) = Range(u) \union Range(end)
        BY <3>1, RangeConcat
      <3> QED BY <3>2 DEF u
    <2>4. /\ RowOf(k, tags, p) \in Seq(E)
          /\ Range(RowOf(k, tags, p)) = {Someone("tag")} \union Range(attrs) \union {Own("field", "value", p.value)}
      BY <2>1, <2>3, <2>5, <2>6, Zenon DEF first, end
    <2> QED BY <1>1, <1>6, <2>4 DEF E, OwnPairs, ConsumerAt, ValueAt
  <1>7. CASE k = "mongodb"
    <2> DEFINE first == <<Own("mongodb", "measurement", p.metric), Someone("mongodb")>>
               end == <<Own("mongodb", "value", p.value), Own("mongodb", "timestamp", "now")>>
    <2>1. RowOf(k, tags, p) = first \o attrs \o end
      BY <1>7 DEF RowOf, MongoRow, attrs
    <2>2. {Own("mongodb", "measurement", p.metric), Own("mongodb", "value", p.value), Own("mongodb", "timestamp", "now")} \subseteq E
      BY <1>7 DEF E, OwnPairs, ValueAt
    <2>3. first \in Seq(E) /\ Range(first) = {Own("mongodb", "measurement", p.metric), Someone("mongodb")}
      BY <1>2, <1>4, <1>7, <2>2 DEF ConsumerAt
    <2>4. end \in Seq(E) /\ Range(end) = {Own("mongodb", "value", p.value), Own("mongodb", "timestamp", "now")}
      BY <1>4, <2>2
    <2> HIDE DEF first, end
    <2>5. first \o attrs \in Seq(E) /\ Range(first \o attrs) = Range(first) \union Range(attrs)
      BY <1>1, <2>3, RangeConcat
    <2>7. /\ (first \o attrs) \o end \in Seq(E)
          /\ Range((first \o attrs) \o end) = Range(first \o attrs) \union Range(end)
      <3> DEFINE u == first \o attrs
      <3>1. u \in Seq(E) /\ end \in Seq(E)
        BY <2>4, <2>5
      <3> HIDE DEF u
      <3>2. u \o end \in Seq(E) /\ Range(u \o end) = Range(u) \union Range(end)
        BY <3>1, RangeConcat
      <3> QED BY <3>2 DEF u
    <2>6. RowOf(k, tags, p) \in Seq(E) /\ Range(RowOf(k, tags, p)) = Range(first) \union Range(attrs) \union Range(end)
      BY <2>1, <2>5, <2>7, Zenon DEF first, end
    <2> QED BY <1>1, <1>7, <2>3, <2>4, <2>6 DEF E, OwnPairs, ConsumerAt, ValueAt
  <1>8. CASE k = "elasticsearch"
    <2> DEFINE first == <<Own("elasticsearch", "timestamp", "now"), Someone("elasticsearch"), Own("elasticsearch", "value", p.value)>>
    <2>1. RowOf(k, tags, p) = first \o attrs
      BY <1>8 DEF RowOf, ElasticRow, attrs
    <2>2. {Own("elasticsearch", "value", p.value), Own("elasticsearch", "timestamp", "now")} \subseteq E
      BY <1>8 DEF E, OwnPairs, ValueAt
    <2>3. first \in Seq(E) /\ Range(first) = {Own("elasticsearch", "timestamp", "now"), Someone("elasticsearch"), Own("elasticsearch", "value", p.value)}
      BY <1>2, <1>5, <1>8, <2>2 DEF ConsumerAt
    <2> HIDE DEF first
    <2>4. RowOf(k, tags, p) \in Seq(E) /\ Range(RowOf(k, tags, p)) = Range(first) \union Range(attrs)
      BY <1>1, <2>1, <2>3, RangeConcat
    <2> QED BY <1>1, <1>8, <2>3, <2>4 DEF E, OwnPairs, ConsumerAt, ValueAt
  <1>9. CASE k \in {"kwollect", "opentelemetry"}
    <2>1. RowOf(k, tags, p) = <<Someone(k)>> \o attrs
      BY <1>9 DEF RowOf, KwollectLabels, OtelAttributes, attrs, Attributes
    <2> DEFINE first == <<Someone(k)>>
    <2>3. first \in Seq(E) /\ Range(first) = {Someone(k)}
      BY <1>2, <1>3, <1>9 DEF ConsumerAt
    <2> HIDE DEF first
    <2>4. first \o attrs \in Seq(E) /\ Range(first \o attrs) = Range(first) \union Range(attrs)
      BY <1>1, <2>3, RangeConcat
    <2>2. RowOf(k, tags, p) \in Seq(E) /\ Range(RowOf(k, tags, p)) = {Someone(k)} \union Range(attrs)
      BY <2>1, <2>3, <2>4, Zenon DEF first
    <2> QED BY <1>1, <1>9, <2>2 DEF E, OwnPairs, ConsumerAt
  <1> QED BY <1>6, <1>7, <1>8, <1>9

\* What can be read again in the row of a point.
RowIsRight(k, tags, p, row) ==
    DOMAIN p.attrs \intersect Colliding(k) = {} =>
        /\ k \in {"mongodb", "elasticsearch", "influxdb"} =>
             ReadColumn(row, <<ValueAt(k), "own", "value">>) = p.value
        /\ ReadColumn(row, <<ConsumerAt(k), "own", "consumer">>) = "someone"
        /\ \A key \in DOMAIN p.attrs : ReadColumn(row, Column(k, tags, key)) = Told(k, tags, key, p.attrs[key])

Requesting == {"influxdb", "mongodb", "elasticsearch", "kwollect", "opentelemetry"}

\* A column that no pair has is not read.
LEMMA ReadNothing ==
    ASSUME NEW E, NEW row \in Seq(E), NEW c, \A y \in Range(row) : y[1] # c
    PROVE  ReadColumn(row, c) = "none"
  <1>1. {i \in DOMAIN row : row[i][1] = c} = {}
    BY DEF Range
  <1> QED BY <1>1 DEF ReadColumn

\* No attribute takes a column of the service.
LEMMA OwnColumns ==
    ASSUME NEW k \in Requesting, NEW tags, NEW key, key \notin Colliding(k), NEW p,
           NEW y \in OwnPairs(k, p)
    PROVE  y[1] # Column(k, tags, key)
  <1> SUFFICES ASSUME y[1] = Column(k, tags, key) PROVE FALSE
    OBVIOUS
  <1>1. ASSUME NEW place, NEW c, NEW v, y = Own(place, c, v)
        PROVE  place = Place(k, tags, key) /\ key = c /\ c \notin Reserved(place)
    BY <1>1 DEF Own, Column
  <1>2. /\ "consumer" \in Reserved("tag") /\ "value" \in Reserved("field")
        /\ {"measurement", "consumer", "value"} \subseteq Reserved("mongodb")
        /\ {"timestamp", "consumer"} \subseteq Reserved("elasticsearch")
        /\ "timestamp" \in Colliding("mongodb") /\ "value" \in Colliding("elasticsearch")
        /\ "consumer" \in Colliding("kwollect") /\ "consumer" \in Colliding("opentelemetry")
    BY DEF Reserved, Colliding
  <1>3. CASE y = Someone(ConsumerAt(k))
    BY <1>1, <1>2, <1>3 DEF Someone, ConsumerAt, Requesting
  <1>4. CASE k \in {"influxdb", "mongodb", "elasticsearch"} /\ y = Own(ValueAt(k), "value", p.value)
    BY <1>1, <1>2, <1>4 DEF ValueAt
  <1>5. CASE k \in {"mongodb", "elasticsearch"} /\ y = Own(k, "timestamp", "now")
    BY <1>1, <1>2, <1>5
  <1>6. CASE k = "mongodb" /\ y = Own(k, "measurement", p.metric)
    BY <1>1, <1>2, <1>6
  <1> QED BY <1>3, <1>4, <1>5, <1>6 DEF OwnPairs

\* No attribute takes a column of the service, and no two take the same one.
LEMMA RowTellsPoint ==
    ASSUME NEW k \in Requesting, NEW tags, NEW p, DOMAIN p.attrs \subseteq RemoteKeys
    PROVE  RowIsRight(k, tags, p, RowOf(k, tags, p))
  <1> DEFINE E == AttributePairs(k, tags, p) \union OwnPairs(k, p)
             row == RowOf(k, tags, p)
  <1> SUFFICES ASSUME DOMAIN p.attrs \intersect Colliding(k) = {} PROVE RowIsRight(k, tags, p, row)
    BY DEF RowIsRight
  <1>1. row \in Seq(E) /\ Range(row) = E
    <2>1. k \in {"influxdb", "mongodb", "elasticsearch", "kwollect", "opentelemetry"}
      BY DEF Requesting
    <2>2. HasPairs(RowOf(k, tags, p), RowPairs(k, tags, p))
      BY <2>1, RowHasPairs
    <2> QED BY <2>2 DEF HasPairs, RowPairs
  <1> HIDE DEF row
  <1>2. Shown(k, tags, p) \subseteq DOMAIN p.attrs
    BY DEF Shown
  <1>5. ASSUME NEW y \in OwnPairs(k, p), NEW key \in DOMAIN p.attrs PROVE y[1] # Column(k, tags, key)
    <2>1. key \notin Colliding(k)
      OBVIOUS
    <2> QED BY <2>1, OwnColumns
  <1>6. ASSUME NEW y \in AttributePairs(k, tags, p)
        PROVE  \E key \in Shown(k, tags, p) : y = <<Column(k, tags, key), Text(k, p.attrs[key])>>
    BY DEF AttributePairs
  <1>11. ASSUME NEW key, NEW other, Column(k, tags, other) = Column(k, tags, key) PROVE other = key
    BY <1>11 DEF Column
  <1>12. ASSUME NEW key \in DOMAIN p.attrs, key \notin Shown(k, tags, p)
         PROVE  ReadColumn(row, Column(k, tags, key)) = "none"
    <2>1. ASSUME NEW y \in Range(row) PROVE y[1] # Column(k, tags, key)
      <3>1. CASE y \in OwnPairs(k, p)
        BY <1>5, <3>1
      <3>2. CASE y \in AttributePairs(k, tags, p)
        <4>1. PICK other \in Shown(k, tags, p) : y = <<Column(k, tags, other), Text(k, p.attrs[other])>>
          BY <1>6, <3>2
        <4>2. y[1] = Column(k, tags, other)
          BY <4>1
        <4> QED BY <1>11, <1>12, <4>2
      <3> QED BY <1>1, <3>1, <3>2
    <2> DEFINE column == Column(k, tags, key)
    <2>2. \A y \in Range(row) : y[1] # column
      BY <2>1
    <2>3. row \in Seq(E)
      BY <1>1
    <2> HIDE DEF column, E
    <2>4. ReadColumn(row, column) = "none"
      BY <2>2, <2>3, ReadNothing
    <2> QED BY <2>4 DEF column
  <1>7. ASSUME NEW key \in Shown(k, tags, p)
        PROVE  ReadColumn(row, Column(k, tags, key)) = Text(k, p.attrs[key])
    <2> DEFINE x == <<Column(k, tags, key), Text(k, p.attrs[key])>>
    <2>1. x \in Range(row) /\ x[1] = Column(k, tags, key)
      BY <1>1 DEF AttributePairs
    <2>2. ASSUME NEW y \in Range(row), y[1] = Column(k, tags, key) PROVE y[2] = Text(k, p.attrs[key])
      <3>1. y \in AttributePairs(k, tags, p)
        BY <1>1, <1>2, <1>5, <2>2
      <3>2. PICK other \in Shown(k, tags, p) : y = <<Column(k, tags, other), Text(k, p.attrs[other])>>
        BY <1>6, <3>1
      <3>3. Column(k, tags, other) = Column(k, tags, key)
        BY <2>2, <3>2
      <3>4. other = key
        BY <1>11, <3>3
      <3> QED BY <3>2, <3>4
    <2> DEFINE column == Column(k, tags, key)
               v == Text(k, p.attrs[key])
    <2>3. \A y \in Range(row) : y[1] = column => y[2] = v
      BY <2>2
    <2>4. x \in Range(row) /\ x[1] = column /\ row \in Seq(E)
      BY <1>1, <2>1
    <2>6. ValuesIn(row, column) = {v}
      BY <2>3, <2>4 DEF ValuesIn
    <2> HIDE DEF x, column, v, E
    <2>5. ReadColumn(row, column) = v
      BY <2>4, <2>6, ReadPair
    <2> QED BY <2>5 DEF column, v
  <1>13. ASSUME NEW key \in DOMAIN p.attrs
         PROVE  ReadColumn(row, Column(k, tags, key)) = Told(k, tags, key, p.attrs[key])
    <2>1. CASE key \in Shown(k, tags, p)
      <3>1. Told(k, tags, key, p.attrs[key]) = Text(k, p.attrs[key])
        BY <2>1 DEF Told, Text, Shown, Requesting
      <3> QED BY <1>7, <2>1, <3>1
    <2>2. CASE key \notin Shown(k, tags, p)
      <3>1. Told(k, tags, key, p.attrs[key]) = "none"
        <4>1. CASE k = "influxdb"
          BY <1>13, <2>2, <4>1 DEF Told, Shown
        <4>2. CASE k = "opentelemetry"
          BY <1>13, <2>2, <4>2 DEF Told, Shown
        <4>3. CASE k \notin {"influxdb", "opentelemetry"}
          <5>1. Shown(k, tags, p) = DOMAIN p.attrs
            BY <4>3 DEF Shown
          <5> QED BY <1>13, <2>2, <5>1
        <4> QED BY <4>1, <4>2, <4>3
      <3> QED BY <1>12, <1>13, <2>2, <3>1
    <2> QED BY <2>1, <2>2
  <1>8. ASSUME NEW place, NEW c, NEW v, Own(place, c, v) \in OwnPairs(k, p),
               \A y \in OwnPairs(k, p) : y[1] = <<place, "own", c>> => y[2] = v
        PROVE  ReadColumn(row, <<place, "own", c>>) = v
    <2> DEFINE x == Own(place, c, v)
               column == <<place, "own", c>>
    <2>1. x \in Range(row) /\ x[1] = column /\ x[2] = v
      BY <1>1, <1>8 DEF Own
    <2>2. ASSUME NEW y \in Range(row), y[1] = column PROVE y[2] = v
      <3>1. CASE y \in OwnPairs(k, p)
        BY <1>8, <2>2, <3>1
      <3>2. CASE y \in AttributePairs(k, tags, p)
        <4>1. PICK key \in Shown(k, tags, p) : y = <<Column(k, tags, key), Text(k, p.attrs[key])>>
          BY <1>6, <3>2
        <4>2. Column(k, tags, key) = x[1] /\ x \in OwnPairs(k, p) /\ key \in DOMAIN p.attrs
          BY <1>2, <1>8, <2>1, <2>2, <4>1
        <4> QED BY <1>5, <4>2
      <3> QED BY <1>1, <3>1, <3>2
    <2>4. row \in Seq(E)
      BY <1>1
    <2>5. \A y \in Range(row) : y[1] = column => y[2] = v
      BY <2>2
    <2>6. ValuesIn(row, column) = {v}
      BY <2>1, <2>5 DEF ValuesIn
    <2> HIDE DEF x, column, E
    <2>3. ReadColumn(row, column) = v
      BY <2>4, <2>6, ReadPair
    <2> QED BY <2>3 DEF column
  <1>9. ReadColumn(row, <<ConsumerAt(k), "own", "consumer">>) = "someone"
    <2>1. Own(ConsumerAt(k), "consumer", "someone") \in OwnPairs(k, p)
      BY DEF OwnPairs, Someone
    <2>2. \A y \in OwnPairs(k, p) : y[1] = <<ConsumerAt(k), "own", "consumer">> => y[2] = "someone"
      BY DEF OwnPairs, Someone, Own
    <2> QED BY <1>8, <2>1, <2>2
  <1>10. ASSUME k \in {"mongodb", "elasticsearch", "influxdb"}
         PROVE  ReadColumn(row, <<ValueAt(k), "own", "value">>) = p.value
    <2>1. Own(ValueAt(k), "value", p.value) \in OwnPairs(k, p)
      BY <1>10 DEF OwnPairs
    <2>2. \A y \in OwnPairs(k, p) : y[1] = <<ValueAt(k), "own", "value">> => y[2] = p.value
      BY DEF OwnPairs, Someone, Own
    <2> QED BY <1>8, <2>1, <2>2
  <1> QED BY <1>9, <1>10, <1>13 DEF RowIsRight

RemoteShape ==
    /\ remote = [kind |-> remote.kind, state |-> remote.state, tags |-> remote.tags]
    /\ remote.kind \in RemoteKinds /\ remote.tags \subseteq RemoteKeys

\* The requests are those of the kind of the output, which does not change.
RequestInv ==
    /\ RemoteShape
    /\ \E E : requests \in Seq(E)
    /\ \A r \in Range(requests) : \A i \in DOMAIN r.points :
          RowIsRight(remote.kind, remote.tags, r.points[i], r.rows[i])

\* A step of the output changes neither its kind nor the requests, or it sends the next one.
LEMMA RequestStep ==
    ASSUME RequestInv, [RemoteNext]_remoteVars
    PROVE  /\ RemoteShape'
           /\ remote'.kind = remote.kind /\ remote'.tags = remote.tags
           /\ \/ requests' = requests
              \/ \E k \in Requesting, points \in RemoteBuffers : \E lines :
                    /\ remote.kind = k
                    /\ k = "influxdb" => points # <<>> /\ lines = LineProtocol(points)
                    /\ requests' = Append(requests, [points |-> points, lines |-> lines,
                                                    rows |-> [i \in DOMAIN points |-> RowOf(k, remote.tags, points[i])]])
  <1> DEFINE Same == /\ RemoteShape'
                     /\ remote'.kind = remote.kind /\ remote'.tags = remote.tags
  <1>1. ASSUME remote' = remote PROVE Same
    <2>1. RemoteShape
      BY DEF RequestInv
    <2> QED BY <1>1, <2>1 DEF RemoteShape
  <1>2. ASSUME NEW state, remote' = [remote EXCEPT !.state = state] PROVE Same
    <2>1. remote = [kind |-> remote.kind, state |-> remote.state, tags |-> remote.tags]
      BY DEF RequestInv, RemoteShape
    <2>2. remote' = [kind |-> remote.kind, state |-> state, tags |-> remote.tags]
      BY <1>2, <2>1
    <2>3. remote.kind \in RemoteKinds /\ remote.tags \subseteq RemoteKeys
      BY DEF RequestInv, RemoteShape
    <2> QED BY <2>2, <2>3 DEF RemoteShape
  <1>3. ASSUME NEW answers \in BOOLEAN, StartOutput(answers) PROVE Same /\ requests' = requests
    <2>1. requests' = requests /\ \E state : remote' = [remote EXCEPT !.state = state]
      BY <1>3 DEF StartOutput, StartInflux, StartMongo, StartElastic, StartUnchecked, StartPrometheus, Started
    <2> QED BY <1>2, <2>1
  <1>4. ASSUME NEW points \in RemoteBuffers, NEW answer, SendPoints(points, answer)
        PROVE  /\ Same
               /\ \/ requests' = requests
                  \/ \E k \in Requesting : \E lines :
                        /\ remote.kind = k
                        /\ k = "influxdb" => points # <<>> /\ lines = LineProtocol(points)
                        /\ requests' = Append(requests, [points |-> points, lines |-> lines,
                                                    rows |-> [i \in DOMAIN points |-> RowOf(k, remote.tags, points[i])]])
    <2>5. PICK k \in Requesting : \E lines, after :
            Send(k, points, lines, answer, after) /\ (k = "influxdb" => lines = LineProtocol(points))
      BY <1>4 DEF SendPoints, SendInflux, SendMongo, SendElastic, SendKwollect, SendOtel, Requesting
    <2>1. PICK lines, after :
            Send(k, points, lines, answer, after) /\ (k = "influxdb" => lines = LineProtocol(points))
      BY <2>5
    <2>2. remote.kind = k /\ (points = <<>> => k = "kwollect")
      BY <2>1 DEF Send
    <2>3. CASE answer = "ok"
      <3>1. remote' = remote
            /\ requests' = Append(requests, [points |-> points, lines |-> lines,
                              rows |-> [i \in DOMAIN points |-> RowOf(k, remote.tags, points[i])]])
        BY <2>1, <2>3 DEF Send
      <3> QED BY <1>1, <2>1, <2>2, <3>1
    <2>4. CASE answer # "ok"
      <3>1. requests' = requests /\ remote' = [remote EXCEPT !.state = after]
        BY <2>1, <2>4 DEF Send
      <3> QED BY <1>2, <3>1
    <2> QED BY <2>3, <2>4
  <1>5. CASE UNCHANGED <<remote, requests>>
    BY <1>1, <1>5
  <1>6. CASE \/ PromSet \/ Scrape \/ StopPrometheus \/ \E points \in RemoteBuffers : PromWrite(points)
    <2>1. UNCHANGED <<remote, requests>>
      <3>1. CASE PromSet
        BY <3>1 DEF PromSet
      <3>2. CASE Scrape
        BY <3>2 DEF Scrape
      <3>3. CASE StopPrometheus
        BY <3>3 DEF StopPrometheus
      <3>4. ASSUME NEW points \in RemoteBuffers, PromWrite(points) PROVE UNCHANGED <<remote, requests>>
        BY <3>4 DEF PromWrite
      <3> QED BY <1>6, <3>1, <3>2, <3>3, <3>4
    <2> QED BY <1>5, <2>1
  <1>7. CASE UNCHANGED remoteVars
    BY <1>5, <1>7 DEF remoteVars
  <1>8. CASE \E points \in RemoteBuffers, answer \in {"ok", "down", "error"} : SendPoints(points, answer)
    BY <1>4, <1>8
  <1> QED BY <1>3, <1>6, <1>7, <1>8 DEF RemoteNext

\* The range of the requests after the next one.
LEMMA NextRequest ==
    ASSUME \E E : requests \in Seq(E), NEW r, requests' = Append(requests, r)
    PROVE  (\E E : requests' \in Seq(E)) /\ Range(requests') = Range(requests) \union {r}
  <1>1. PICK E : requests \in Seq(E)
    OBVIOUS
  <1> DEFINE F == E \union {r}
             s == requests
  <1>2. s \in Seq(F)
    <2>1. Len(s) \in Nat /\ s = [i \in 1..Len(s) |-> s[i]] /\ \A i \in 1..Len(s) : s[i] \in F
      BY <1>1
    <2> HIDE DEF s, F
    <2>2. [i \in 1..Len(s) |-> s[i]] \in Seq(F)
      BY <2>1
    <2> QED BY <2>1, <2>2
  <1>3. r \in F
    OBVIOUS
  <1> HIDE DEF s, F
  <1>4. Append(s, r) \in Seq(F) /\ Range(Append(s, r)) = Range(s) \union {r}
    BY <1>2, <1>3, RangeAppend
  <1>5. requests' = Append(s, r)
    BY DEF s
  <1> QED BY <1>4, <1>5 DEF s

LEMMA RequestInvInductive == RequestInv /\ [RemoteNext]_remoteVars => RequestInv'
  <1> SUFFICES ASSUME RequestInv, [RemoteNext]_remoteVars PROVE RequestInv'
    OBVIOUS
  <1>1. RemoteShape' /\ remote'.kind = remote.kind /\ remote'.tags = remote.tags
    BY RequestStep
  <1>2. CASE requests' = requests
    BY <1>1, <1>2 DEF RequestInv
  <1>3. ASSUME NEW k \in Requesting, NEW points \in RemoteBuffers, NEW lines, remote.kind = k,
               requests' = Append(requests, [points |-> points, lines |-> lines,
                                             rows |-> [i \in DOMAIN points |-> RowOf(k, remote.tags, points[i])]])
        PROVE  RequestInv'
    <2> DEFINE rows == [i \in DOMAIN points |-> RowOf(k, remote.tags, points[i])]
               new == [points |-> points, lines |-> lines, rows |-> rows]
    <2>1. (\E E : requests' \in Seq(E)) /\ Range(requests') = Range(requests) \union {new}
      <3>1. requests' = Append(requests, new) /\ \E E : requests \in Seq(E)
        BY <1>3 DEF RequestInv
      <3> HIDE DEF new
      <3> QED BY <3>1, NextRequest
    <2>2. ASSUME NEW i \in DOMAIN points PROVE RowIsRight(remote.kind, remote.tags, points[i], rows[i])
      <3>1. DOMAIN points[i].attrs \subseteq RemoteKeys
        <4> HIDE DEF rows, new
        <4>1. \A j \in DOMAIN points : DOMAIN points[j].attrs \subseteq RemoteKeys /\ points[j].metric \notin {"space", "newline"}
          BY RemotePoints
        <4> QED BY <4>1, Zenon
      <3>2. rows[i] = RowOf(k, remote.tags, points[i])
        OBVIOUS
      <3>3. RowIsRight(k, remote.tags, points[i], RowOf(k, remote.tags, points[i]))
        BY <3>1, RowTellsPoint
      <3> QED BY <1>3, <3>2, <3>3
    <2>3. new.points = points /\ new.rows = rows
      OBVIOUS
    <2> HIDE DEF new, rows
    <2>4. ASSUME NEW r \in Range(requests'), NEW i \in DOMAIN r.points
          PROVE  RowIsRight(remote.kind, remote.tags, r.points[i], r.rows[i])
      <3>1. CASE r = new
        BY <2>2, <2>3, <2>4, <3>1, Zenon
      <3>2. CASE r \in Range(requests)
        BY <2>4, <3>2 DEF RequestInv
      <3> QED BY <2>1, <3>1, <3>2
    <2>5. ASSUME NEW r \in Range(requests'), NEW i \in DOMAIN r.points
          PROVE  RowIsRight(remote'.kind, remote'.tags, r.points[i], r.rows[i])
      BY <1>1, <2>4, <2>5, Zenon
    <2> QED BY <1>1, <2>1, <2>5, Zenon DEF RequestInv
  <1>4. \/ requests' = requests
        \/ \E k \in Requesting, points \in RemoteBuffers : \E lines :
              /\ remote.kind = k
              /\ requests' = Append(requests, [points |-> points, lines |-> lines,
                                               rows |-> [i \in DOMAIN points |-> RowOf(k, remote.tags, points[i])]])
    BY RequestStep
  <1> QED BY <1>2, <1>3, <1>4

LEMMA RequestInvStarts == RemoteInit => RequestInv
  <1> SUFFICES ASSUME RemoteInit PROVE RequestInv
    OBVIOUS
  <1>1. requests = <<>> /\ <<>> \in Seq({}) /\ Range(<<>>) = {}
    BY EmptySeq DEF RemoteInit, Range
  <1>2. RemoteShape
    <2>1. remote \in [kind : RemoteKinds, state : {"new"}, tags : RemoteTags \union {{}, RemoteKeys}]
      BY DEF RemoteInit
    <2> QED BY <2>1, RemoteAssumption DEF RemoteShape
  <1> QED BY <1>1, <1>2 DEF RequestInv

\* From the row of a point, its value and every attribute are read again, whatever the names of
\* the attributes are, but those with the name of a column that is not reserved.
THEOREM RowsStayRight == RemoteSpec => []RowsAreRight
  <1>1. RequestInv => RowsAreRight
    <2> SUFFICES ASSUME RequestInv PROVE RowsAreRight
      OBVIOUS
    <2>1. \A r \in Range(requests) : \A i \in DOMAIN r.points :
            RowIsRight(remote.kind, remote.tags, r.points[i], r.rows[i])
      BY DEF RequestInv
    <2> QED BY <2>1 DEF RowsAreRight, RowIsRight, ValueAt, ConsumerAt
  <1> QED BY <1>1, RequestInvStarts, RequestInvInductive, PTL DEF RemoteSpec

-------------------------------------------------------------------------------
(* The line protocol: the spaces and the ends of lines of a text.            *)

Tokens == {"newline", "space", "comma", "tag", "field", "timestamp"} \union {p.metric : p \in RemotePoint}
CountIn(s, c) == Cardinality({i \in DOMAIN s : s[i] = c})

\* One more token is counted, or is not.
LEMMA CountAppend ==
    ASSUME NEW s \in Seq(Tokens), NEW x \in Tokens, NEW c
    PROVE  /\ CountIn(s, c) \in Nat
           /\ CountIn(Append(s, x), c) = CountIn(s, c) + (IF x = c THEN 1 ELSE 0)
  <1> DEFINE n == Len(s)
             t == Append(s, x)
             S == {i \in 1..n : s[i] = c}
  <1>1. /\ n \in Nat /\ DOMAIN s = 1..n /\ DOMAIN t = 1..(n + 1)
        /\ t[n + 1] = x /\ \A i \in 1..n : t[i] = s[i]
    OBVIOUS
  <1>2. IsFiniteSet(S)
    <2>1. IsFiniteSet(1..n)
      BY <1>1, FS_Interval
    <2> QED BY <2>1, FS_Subset
  <1>3. Cardinality(S) \in Nat /\ n + 1 \notin S
    BY <1>1, <1>2, FS_CardinalityType
  <1>4. CountIn(s, c) = Cardinality(S)
    BY <1>1 DEF CountIn
  <1> HIDE DEF t, n
  <1>5. {i \in 1..(n + 1) : t[i] = c} = IF x = c THEN S \union {n + 1} ELSE S
    <2>1. \A i \in 1..(n + 1) : i \in 1..n \/ i = n + 1
      BY <1>1
    <2>2. \A i \in 1..n : i \in 1..(n + 1)
      BY <1>1
    <2>3. n + 1 \in 1..(n + 1)
      BY <1>1
    <2> QED BY <1>1, <2>1, <2>2, <2>3
  <1>6. CountIn(t, c) = Cardinality(IF x = c THEN S \union {n + 1} ELSE S)
    BY <1>1, <1>5 DEF CountIn
  <1> HIDE DEF S
  <1>7. CASE x = c
    <2>1. Cardinality(S \union {n + 1}) = Cardinality(S) + 1
      BY <1>2, <1>3, FS_AddElement
    <2> QED BY <1>3, <1>4, <1>6, <1>7, <2>1 DEF t
  <1>8. CASE x # c
    BY <1>3, <1>4, <1>6, <1>8 DEF t
  <1> QED BY <1>7, <1>8

\* Short texts are added token by token.
LEMMA ShortTexts ==
    ASSUME NEW s \in Seq(Tokens), NEW x \in Tokens, NEW y \in Tokens
    PROVE  /\ s \o <<>> = s
           /\ s \o <<x>> = Append(s, x)
           /\ s \o <<x, y>> = Append(Append(s, x), y)
           /\ Append(s, x) \in Seq(Tokens)
  <1> DEFINE n == Len(s)
  <1>1. /\ n \in Nat /\ s = [i \in 1..n |-> s[i]] /\ \A i \in 1..n : s[i] \in Tokens
    OBVIOUS
  <1>2. s \o <<>> = s
    BY <1>1
  <1>3. s \o <<x>> = Append(s, x)
    <2> DEFINE a == s \o <<x>>
               b == Append(s, x)
    <2>1. a \in Seq(Tokens) /\ b \in Seq(Tokens) /\ Len(a) = n + 1 /\ Len(b) = n + 1
      <3>1. a \in Seq(Tokens) /\ Len(a) = n + 1
        OBVIOUS
      <3>2. b \in Seq(Tokens) /\ Len(b) = n + 1
        OBVIOUS
      <3> QED BY <3>1, <3>2
    <2>2. \A i \in 1..(n + 1) : a[i] = b[i]
      BY <1>1
    <2> HIDE DEF a, b, n
    <2>3. a = b
      BY <1>1, <2>1, <2>2
    <2> QED BY <2>3 DEF a, b
  <1>4. Append(s, x) \in Seq(Tokens)
    OBVIOUS
  <1>5. s \o <<x, y>> = Append(Append(s, x), y)
    <2> DEFINE a == s \o <<x, y>>
               b == Append(Append(s, x), y)
    <2>1. a \in Seq(Tokens) /\ b \in Seq(Tokens) /\ Len(a) = n + 2 /\ Len(b) = n + 2
      <3>1. a \in Seq(Tokens) /\ Len(a) = n + 2
        OBVIOUS
      <3>2. Append(s, x) \in Seq(Tokens) /\ Len(Append(s, x)) = n + 1
        OBVIOUS
      <3>3. b \in Seq(Tokens) /\ Len(b) = n + 2
        BY <1>1, <3>2
      <3> QED BY <3>1, <3>3
    <2>2. \A i \in 1..(n + 2) : a[i] = b[i]
      BY <1>1
    <2> HIDE DEF a, b, n
    <2>3. a = b
      BY <1>1, <2>1, <2>2
    <2> QED BY <2>3 DEF a, b
  <1> QED BY <1>2, <1>3, <1>4, <1>5

\* A builder with its flag and numbers of spaces and ends of lines.
Builder == [buf : Seq(Tokens), field : BOOLEAN]
Holds(b, field, spaces, ends) ==
    /\ b \in Builder /\ b.field = field
    /\ CountIn(b.buf, "space") = spaces /\ CountIn(b.buf, "newline") = ends

LEMMA MeasurementHolds ==
    ASSUME NEW b, NEW f \in BOOLEAN, NEW m \in Nat, NEW n \in Nat, Holds(b, f, m, n),
           NEW name \in Tokens, name \notin {"space", "newline"}
    PROVE  Holds(Measurement(b, name), FALSE, m, IF f THEN n + 1 ELSE n)
  <1> DEFINE s == b.buf
             t == IF f THEN Append(s, "newline") ELSE s
             u == Append(t, name)
             k == IF f THEN n + 1 ELSE n
  <1>1. s \in Seq(Tokens) /\ b.field = f /\ CountIn(s, "space") = m /\ CountIn(s, "newline") = n
    BY DEF Holds, Builder
  <1>2. "space" # "newline" /\ "newline" \in Tokens
    BY DEF Tokens
  <1> HIDE DEF s
  <1>3. t \in Seq(Tokens) /\ CountIn(t, "space") = m /\ CountIn(t, "newline") = k /\ k \in Nat
    <2>1. CASE f
      <3>1. t = Append(s, "newline") /\ k = n + 1
        BY <2>1
      <3>2. CountIn(Append(s, "newline"), "space") = m /\ CountIn(Append(s, "newline"), "newline") = n + 1
        <4>1. CountIn(Append(s, "newline"), "space") = CountIn(s, "space") + 0
          BY <1>1, <1>2, CountAppend
        <4>2. CountIn(Append(s, "newline"), "newline") = CountIn(s, "newline") + 1
          BY <1>1, <1>2, CountAppend
        <4> QED BY <1>1, <4>1, <4>2
      <3>3. Append(s, "newline") \in Seq(Tokens)
        BY <1>1, <1>2
      <3> QED BY <3>1, <3>2, <3>3
    <2>2. CASE ~f
      <3>1. t = s /\ k = n
        BY <2>2
      <3> QED BY <1>1, <3>1
    <2> QED BY <2>1, <2>2
  <1>4. s \o (IF b.field THEN <<"newline">> ELSE <<>>) = t
    BY <1>1, <1>2, ShortTexts
  <1> HIDE DEF t, k
  <1>5. u \in Seq(Tokens) /\ CountIn(u, "space") = m /\ CountIn(u, "newline") = k
    <2>1. CountIn(u, "space") = CountIn(t, "space") + 0
      BY <1>3, CountAppend
    <2>2. CountIn(u, "newline") = CountIn(t, "newline") + 0
      BY <1>3, CountAppend
    <2> QED BY <1>3, <2>1, <2>2
  <1>6. t \o <<name>> = u
    BY <1>3, ShortTexts
  <1> HIDE DEF u
  <1>7. Measurement(b, name) = [buf |-> u, field |-> FALSE]
    BY <1>4, <1>6 DEF Measurement, s
  <1>8. Holds(Measurement(b, name), FALSE, m, k)
    BY <1>5, <1>7 DEF Holds, Builder
  <1> QED BY <1>8 DEF k

\* Two tokens of which the second one is neither a space nor an end.
LEMMA PairHolds ==
    ASSUME NEW b, NEW f \in BOOLEAN, NEW m \in Nat, NEW n \in Nat, Holds(b, f, m, n), NEW g \in BOOLEAN,
           NEW x \in Tokens, x # "newline", NEW y \in Tokens, y \notin {"space", "newline"}
    PROVE  Holds([buf |-> b.buf \o <<x, y>>, field |-> g], g, IF x = "space" THEN m + 1 ELSE m, n)
  <1> DEFINE s == b.buf
             t == Append(s, x)
             u == Append(t, y)
             k == IF x = "space" THEN m + 1 ELSE m
  <1>1. s \in Seq(Tokens) /\ CountIn(s, "space") = m /\ CountIn(s, "newline") = n
    BY DEF Holds, Builder
  <1> HIDE DEF s
  <1>2. t \in Seq(Tokens) /\ CountIn(t, "space") = k /\ CountIn(t, "newline") = n /\ k \in Nat
    <2>1. CountIn(t, "space") = CountIn(s, "space") + (IF x = "space" THEN 1 ELSE 0)
      BY <1>1, CountAppend
    <2>2. CountIn(t, "newline") = CountIn(s, "newline") + 0
      BY <1>1, CountAppend
    <2>3. t \in Seq(Tokens)
      BY <1>1
    <2> HIDE DEF t
    <2>4. CASE x = "space"
      BY <1>1, <2>1, <2>2, <2>3, <2>4
    <2>5. CASE x # "space"
      BY <1>1, <2>1, <2>2, <2>3, <2>5
    <2> QED BY <2>4, <2>5
  <1>3. s \o <<x, y>> = u
    BY <1>1, ShortTexts
  <1> HIDE DEF t, k
  <1>4. u \in Seq(Tokens) /\ CountIn(u, "space") = k /\ CountIn(u, "newline") = n
    <2>1. CountIn(u, "space") = CountIn(t, "space") + 0
      BY <1>2, CountAppend
    <2>2. CountIn(u, "newline") = CountIn(t, "newline") + 0
      BY <1>2, CountAppend
    <2> QED BY <1>2, <2>1, <2>2
  <1> HIDE DEF u
  <1>5. Holds([buf |-> b.buf \o <<x, y>>, field |-> g], g, k, n)
    BY <1>3, <1>4 DEF Holds, Builder, s
  <1> QED BY <1>5 DEF k

LEMMA TagHolds ==
    ASSUME NEW b, NEW f \in BOOLEAN, NEW m \in Nat, NEW n \in Nat, Holds(b, f, m, n)
    PROVE  Holds(Tag(b), f, m, n)
  <1>1. b = [buf |-> b.buf, field |-> f]
    BY DEF Holds, Builder
  <1>2. Tag(b) = [buf |-> b.buf \o <<"comma", "tag">>, field |-> f]
    <2>1. Tag(b) = [b EXCEPT !.buf = b.buf \o <<"comma", "tag">>]
      BY DEF Tag
    <2> DEFINE s == b.buf
               t == b.buf \o <<"comma", "tag">>
    <2>2. b = [buf |-> s, field |-> f]
      BY <1>1
    <2> HIDE DEF s, t
    <2>3. [b EXCEPT !.buf = t] = [buf |-> t, field |-> f]
      BY <2>2
    <2> QED BY <2>1, <2>3 DEF t
  <1>3. Holds([buf |-> b.buf \o <<"comma", "tag">>, field |-> f], f, IF "comma" = "space" THEN m + 1 ELSE m, n)
    <2>1. "comma" \in Tokens /\ "comma" # "newline" /\ "tag" \in Tokens /\ "tag" \notin {"space", "newline"}
      BY DEF Tokens
    <2> QED BY <2>1, PairHolds
  <1>4. (IF "comma" = "space" THEN m + 1 ELSE m) = m
    OBVIOUS
  <1> QED BY <1>2, <1>3, <1>4

LEMMA FieldHolds ==
    ASSUME NEW b, NEW f \in BOOLEAN, NEW m \in Nat, NEW n \in Nat, Holds(b, f, m, n)
    PROVE  Holds(Field(b), TRUE, IF f THEN m ELSE m + 1, n)
  <1> DEFINE x == IF f THEN "comma" ELSE "space"
  <1>1. b.field = f /\ b.buf \in Seq(Tokens)
    BY DEF Holds, Builder
  <1>2. x \in Tokens /\ x # "newline" /\ "field" \in Tokens /\ "field" \notin {"space", "newline"}
    BY DEF Tokens
  <1>3. (IF x = "space" THEN m + 1 ELSE m) = (IF f THEN m ELSE m + 1)
    OBVIOUS
  <1>4. b.buf \o (IF b.field THEN <<"comma">> ELSE <<"space">>) \o <<"field">> = b.buf \o <<x, "field">>
    <2>1. (IF b.field THEN <<"comma">> ELSE <<"space">>) = <<x>>
      BY <1>1
    <2> HIDE DEF x
    <2>2. b.buf \o <<x>> = Append(b.buf, x) /\ Append(b.buf, x) \in Seq(Tokens)
      BY <1>1, <1>2, ShortTexts
    <2>3. Append(b.buf, x) \o <<"field">> = Append(Append(b.buf, x), "field")
      BY <1>2, <2>2, ShortTexts
    <2>4. b.buf \o <<x, "field">> = Append(Append(b.buf, x), "field")
      BY <1>1, <1>2, ShortTexts
    <2> QED BY <2>1, <2>2, <2>3, <2>4
  <1> HIDE DEF x
  <1>5. Field(b) = [buf |-> b.buf \o <<x, "field">>, field |-> TRUE]
    BY <1>4 DEF Field
  <1>6. Holds([buf |-> b.buf \o <<x, "field">>, field |-> TRUE], TRUE, IF x = "space" THEN m + 1 ELSE m, n)
    BY <1>2, PairHolds
  <1> QED BY <1>3, <1>5, <1>6

LEMMA TimestampHolds ==
    ASSUME NEW b, NEW f \in BOOLEAN, NEW m \in Nat, NEW n \in Nat, Holds(b, f, m, n)
    PROVE  Holds(TimestampOf(b), f, m + 1, n)
  <1>1. b = [buf |-> b.buf, field |-> f]
    BY DEF Holds, Builder
  <1>2. TimestampOf(b) = [buf |-> b.buf \o <<"space", "timestamp">>, field |-> f]
    <2>1. TimestampOf(b) = [b EXCEPT !.buf = b.buf \o <<"space", "timestamp">>]
      BY DEF TimestampOf
    <2> DEFINE s == b.buf
               t == b.buf \o <<"space", "timestamp">>
    <2>2. b = [buf |-> s, field |-> f]
      BY <1>1
    <2> HIDE DEF s, t
    <2>3. [b EXCEPT !.buf = t] = [buf |-> t, field |-> f]
      BY <2>2
    <2> QED BY <2>1, <2>3 DEF t
  <1>3. Holds([buf |-> b.buf \o <<"space", "timestamp">>, field |-> f], f, IF "space" = "space" THEN m + 1 ELSE m, n)
    <2>1. "space" \in Tokens /\ "space" # "newline" /\ "timestamp" \in Tokens /\ "timestamp" \notin {"space", "newline"}
      BY DEF Tokens
    <2> QED BY <2>1, PairHolds
  <1>4. (IF "space" = "space" THEN m + 1 ELSE m) = m + 1
    OBVIOUS
  <1> QED BY <1>2, <1>3, <1>4

\* done is what a loop of tags, of fields or of lines computes up to each turn.
TagsUpTo(b, n, done) == done = [i \in 0..n |-> IF i = 0 THEN b ELSE Tag(done[i - 1])]
FieldsUpTo(b, n, done) == done = [i \in 0..n |-> IF i = 0 THEN b ELSE Field(done[i - 1])]
LinesUpTo(points, done) ==
    done = [i \in 0..Len(points) |->
              IF i = 0 THEN [buf |-> <<>>, field |-> FALSE] ELSE WriteLine(done[i - 1], points[i])]

\* A builder has some flag and some numbers.
LEMMA BuilderHolds ==
    ASSUME NEW c \in Builder
    PROVE  \E f \in BOOLEAN, m \in Nat, n \in Nat : Holds(c, f, m, n)
  <1>1. c.buf \in Seq(Tokens) /\ c.field \in BOOLEAN
    BY DEF Builder
  <1>2. CountIn(c.buf, "space") \in Nat /\ CountIn(c.buf, "newline") \in Nat
    <2>1. "tag" \in Tokens
      BY DEF Tokens
    <2> QED BY <1>1, <2>1, CountAppend
  <1>3. Holds(c, c.field, CountIn(c.buf, "space"), CountIn(c.buf, "newline"))
    BY DEF Holds
  <1> QED BY <1>1, <1>2, <1>3

\* What is true before a loop, and after a turn when it is before it, is true after the loop.
LEMMA TagsHold ==
    ASSUME NEW b, NEW f \in BOOLEAN, NEW m \in Nat, NEW n \in Nat, Holds(b, f, m, n), NEW k \in Nat
    PROVE  Holds(Tags(b, k), f, m, n)
  <1> DEFINE F == [p \in Builder \X (1..k) |-> Tag(p[1])]
             done == CHOOSE done : TagsUpTo(b, k, done)
  <1>1. b \in Builder
    BY DEF Holds
  <1>2. ASSUME NEW c \in Builder PROVE Tag(c) \in Builder
    <2>1. PICK g \in BOOLEAN, x \in Nat, y \in Nat : Holds(c, g, x, y)
      BY BuilderHolds
    <2>2. Holds(Tag(c), g, x, y)
      BY <2>1, TagHolds
    <2> QED BY <2>2 DEF Holds
  <1>3. F \in [Builder \X (1..k) -> Builder]
    BY <1>2
  <1>4. ASSUME NEW h \in [0..k -> Builder], NEW i \in 1..k PROVE F[<<h[i - 1], i>>] = Tag(h[i - 1])
    <2>1. i - 1 \in 0..k
      OBVIOUS
    <2>2. <<h[i - 1], i>> \in Builder \X (1..k)
      BY <2>1
    <2> QED BY <2>2
  <1> HIDE DEF F
  <1>5. PICK h \in [0..k -> Builder] : Follows(h, k, b, F)
    BY <1>1, <1>3, Recursion
  <1>6. \A i \in 0..k : h[i] = IF i = 0 THEN b ELSE Tag(h[i - 1])
    <2> TAKE i \in 0..k
    <2>1. i # 0 => i \in 1..k
      OBVIOUS
    <2> QED BY <1>4, <1>5, <2>1 DEF Follows
  <1>7. TagsUpTo(b, k, h)
    BY <1>5, <1>6 DEF TagsUpTo
  <1>8. TagsUpTo(b, k, done)
    BY <1>7
  <1>9. Tags(b, k) = done[k]
    BY DEF Tags, TagsUpTo
  <1> HIDE DEF done
  <1>10. \A i \in 0..k : done[i] = IF i = 0 THEN b ELSE Tag(done[i - 1])
    BY Zenon, <1>8 DEF TagsUpTo
  <1> DEFINE T == {i \in 0..k : Holds(done[i], f, m, n)}
  <1>11. 0 \in T
    <2>1. 0 \in 0..k
      OBVIOUS
    <2> QED BY <1>10, <2>1
  <1>12. ASSUME NEW i \in 1..k, i - 1 \in T PROVE i \in T
    <2>1. i \in 0..k /\ i # 0
      OBVIOUS
    <2>2. done[i] = Tag(done[i - 1])
      BY <1>10, <2>1
    <2>3. Holds(done[i - 1], f, m, n)
      BY <1>12
    <2>4. Holds(Tag(done[i - 1]), f, m, n)
      BY <2>3, TagHolds
    <2> QED BY <2>1, <2>2, <2>4
  <1> HIDE DEF T
  <1>13. k \in T
    <2>1. \A i \in 0..k : i \in T
      BY <1>11, <1>12, UpTo
    <2>2. k \in 0..k
      OBVIOUS
    <2> QED BY <2>1, <2>2
  <1> QED BY <1>9, <1>13 DEF T

\* The first field comes after a space.
LEMMA FieldsHold ==
    ASSUME NEW b, NEW m \in Nat, NEW n \in Nat, Holds(b, FALSE, m, n), NEW k \in Nat
    PROVE  Holds(Fields(b, k + 1), TRUE, m + 1, n)
  <1> DEFINE K == k + 1
             F == [p \in Builder \X (1..K) |-> Field(p[1])]
             done == CHOOSE done : FieldsUpTo(b, K, done)
  <1>1. b \in Builder /\ K \in Nat
    BY DEF Holds
  <1>2. ASSUME NEW c \in Builder PROVE Field(c) \in Builder
    <2>1. PICK g \in BOOLEAN, x \in Nat, y \in Nat : Holds(c, g, x, y)
      BY BuilderHolds
    <2>2. Holds(Field(c), TRUE, IF g THEN x ELSE x + 1, y)
      BY <2>1, FieldHolds
    <2> QED BY <2>2 DEF Holds
  <1>3. F \in [Builder \X (1..K) -> Builder]
    BY <1>2
  <1> HIDE DEF K
  <1>4. ASSUME NEW h \in [0..K -> Builder], NEW i \in 1..K PROVE F[<<h[i - 1], i>>] = Field(h[i - 1])
    <2>1. i - 1 \in 0..K
      BY <1>1
    <2>2. <<h[i - 1], i>> \in Builder \X (1..K)
      BY <2>1
    <2> QED BY <2>2
  <1> HIDE DEF F
  <1>5. PICK h \in [0..K -> Builder] : Follows(h, K, b, F)
    BY <1>1, <1>3, Recursion
  <1>6. \A i \in 0..K : h[i] = IF i = 0 THEN b ELSE Field(h[i - 1])
    <2> TAKE i \in 0..K
    <2>1. i # 0 => i \in 1..K
      BY <1>1
    <2> QED BY <1>4, <1>5, <2>1 DEF Follows
  <1>7. FieldsUpTo(b, K, h)
    BY <1>5, <1>6 DEF FieldsUpTo
  <1>8. FieldsUpTo(b, K, done)
    BY <1>7
  <1>9. Fields(b, K) = done[K]
    BY DEF Fields, FieldsUpTo
  <1> HIDE DEF done
  <1>10. \A i \in 0..K : done[i] = IF i = 0 THEN b ELSE Field(done[i - 1])
    BY Zenon, <1>8 DEF FieldsUpTo
  <1> DEFINE T == {i \in 0..K : i # 0 => Holds(done[i], TRUE, m + 1, n)}
  <1>11. 0 \in T
    BY <1>1
  <1>12. ASSUME NEW i \in 1..K, i - 1 \in T PROVE i \in T
    <2>1. i \in 0..K /\ i # 0
      BY <1>1
    <2>2. done[i] = Field(done[i - 1])
      BY <1>10, <2>1
    <2>3. CASE i = 1
      <3>1. 0 \in 0..K /\ i - 1 = 0
        BY <1>1, <2>3
      <3>2. done[i - 1] = b
        BY <1>10, <3>1
      <3>3. Holds(Field(b), TRUE, IF FALSE THEN m ELSE m + 1, n)
        BY FieldHolds
      <3> QED BY <2>1, <2>2, <3>2, <3>3
    <2>4. CASE i # 1
      <3>1. i - 1 # 0
        BY <2>4
      <3>2. Holds(done[i - 1], TRUE, m + 1, n)
        BY <1>12, <3>1
      <3> DEFINE M == m + 1
      <3>4. M \in Nat
        OBVIOUS
      <3> HIDE DEF M
      <3>5. Holds(done[i - 1], TRUE, M, n)
        BY <3>2 DEF M
      <3>6. Holds(Field(done[i - 1]), TRUE, IF TRUE THEN M ELSE M + 1, n)
        BY <3>4, <3>5, FieldHolds
      <3>3. Holds(Field(done[i - 1]), TRUE, m + 1, n)
        BY <3>6 DEF M
      <3> QED BY <2>1, <2>2, <3>3
    <2> QED BY <2>3, <2>4
  <1> HIDE DEF T
  <1>13. K \in T
    <2>1. \A i \in 0..K : i \in T
      BY <1>1, <1>11, <1>12, UpTo
    <2>2. K \in 0..K
      BY <1>1
    <2> QED BY <2>1, <2>2
  <1>14. K # 0
    BY DEF K
  <1> QED BY <1>9, <1>13, <1>14 DEF T, K

\* The line of a point ends the one before it, if any, and has two spaces of its own.
LEMMA LineHolds ==
    ASSUME RemoteShape, NEW b, NEW f \in BOOLEAN, NEW m \in Nat, NEW n \in Nat, Holds(b, f, m, n),
           NEW p \in RemotePoint, DOMAIN p.attrs \subseteq RemoteKeys, p.metric \notin {"space", "newline"}
    PROVE  Holds(WriteLine(b, p), TRUE, m + 2, IF f THEN n + 1 ELSE n)
  <1> DEFINE D == DOMAIN p.attrs
             tags == {k \in DOMAIN p.attrs \intersect remote.tags : p.attrs[k] # ""}
             fields == DOMAIN p.attrs \ remote.tags
             x == Cardinality(tags)
             y == Cardinality(fields)
             e == IF f THEN n + 1 ELSE n
  <1>1. x \in Nat /\ y \in Nat /\ e \in Nat
    <2>1. IsFiniteSet(D)
      BY FS_Subset, RemoteAssumption
    <2>2. IsFiniteSet(tags) /\ IsFiniteSet(fields)
      <3>1. tags \subseteq D /\ fields \subseteq D
        BY Zenon
      <3> HIDE DEF tags, fields, D
      <3> QED BY <2>1, <3>1, FS_Subset
    <2>3. e \in Nat
      <3>1. CASE f
        BY <3>1
      <3>2. CASE ~f
        BY <3>2
      <3> QED BY <3>1, <3>2
    <2> HIDE DEF tags, fields
    <2> QED BY <2>2, <2>3, FS_CardinalityType
  <1>2. p.metric \in Tokens
    BY DEF Tokens
  <1> HIDE DEF tags, fields, D
  <1>3. WriteLine(b, p) = TimestampOf(Fields(Tags(Measurement(b, p.metric), x + 1), y + 1))
    BY DEF WriteLine, tags, fields
  <1> HIDE DEF x, y, e
  <1>4. Holds(Measurement(b, p.metric), FALSE, m, e)
    BY <1>2, MeasurementHolds DEF e
  <1>5. Holds(Tags(Measurement(b, p.metric), x + 1), FALSE, m, e)
    <2> DEFINE c == Measurement(b, p.metric)
               k == x + 1
    <2>1. Holds(c, FALSE, m, e)
      BY <1>4
    <2>3. k \in Nat
      <3> HIDE DEF c
      <3> QED BY <1>1
    <2> HIDE DEF c, k
    <2>2. Holds(Tags(c, k), FALSE, m, e)
      BY <1>1, <2>1, <2>3, TagsHold
    <2> QED BY <2>2 DEF c, k
  <1> DEFINE t == Tags(Measurement(b, p.metric), x + 1)
             M == m + 1
  <1>6. M \in Nat
    OBVIOUS
  <1> HIDE DEF t, M
  <1>7. Holds(Fields(t, y + 1), TRUE, M, e)
    BY <1>1, <1>5, FieldsHold DEF t, M
  <1> DEFINE u == Fields(t, y + 1)
  <1> HIDE DEF u
  <1>8. Holds(TimestampOf(u), TRUE, M + 1, e)
    BY <1>1, <1>6, <1>7, TimestampHolds DEF u
  <1>9. M + 1 = m + 2
    BY DEF M
  <1> QED BY <1>3, <1>8, <1>9 DEF u, t, e

\* As many lines as points, whose tags are some attributes.
LEMMA LinesHold ==
    ASSUME RemoteShape, NEW points \in RemoteBuffers, points # <<>>
    PROVE  /\ CountIn(LineProtocol(points), "newline") = Len(points) - 1
           /\ CountIn(LineProtocol(points), "space") = 2 * Len(points)
  <1> DEFINE L == Len(points)
             start == [buf |-> <<>>, field |-> FALSE]
             F == [q \in Builder \X (1..L) |-> WriteLine(q[1], points[q[2]])]
             done == CHOOSE done : LinesUpTo(points, done)
  <1>1. L \in Nat \ {0}
    BY RemotePoints, EmptySeq
  <1>2. ASSUME NEW i \in 1..L
        PROVE  /\ points[i] \in RemotePoint /\ DOMAIN points[i].attrs \subseteq RemoteKeys
               /\ points[i].metric \notin {"space", "newline"}
    <2>1. /\ points \in Seq(RemotePoint)
          /\ \A j \in DOMAIN points :
               DOMAIN points[j].attrs \subseteq RemoteKeys /\ points[j].metric \notin {"space", "newline"}
      BY RemotePoints
    <2>2. i \in DOMAIN points /\ points[i] \in RemotePoint
      BY <2>1
    <2> QED BY <2>1, <2>2, Zenon
  <1>3. Holds(start, FALSE, 0, 0)
    <2>1. <<>> \in Seq(Tokens)
      OBVIOUS
    <2>2. ASSUME NEW c PROVE CountIn(<<>>, c) = 0
      <3>1. {i \in DOMAIN <<>> : <<>>[i] = c} = {}
        OBVIOUS
      <3> QED BY <3>1, FS_EmptySet DEF CountIn
    <2> QED BY <2>1, <2>2 DEF Holds, Builder
  <1> HIDE DEF L
  <1>4. ASSUME NEW c \in Builder, NEW i \in 1..L PROVE WriteLine(c, points[i]) \in Builder
    <2>1. PICK g \in BOOLEAN, x \in Nat, y \in Nat : Holds(c, g, x, y)
      BY BuilderHolds
    <2>2. Holds(WriteLine(c, points[i]), TRUE, x + 2, IF g THEN y + 1 ELSE y)
      BY <1>2, <2>1, LineHolds
    <2> QED BY <2>2 DEF Holds
  <1>5. F \in [Builder \X (1..L) -> Builder]
    BY <1>4
  <1>6. ASSUME NEW h \in [0..L -> Builder], NEW i \in 1..L
        PROVE  F[<<h[i - 1], i>>] = WriteLine(h[i - 1], points[i])
    <2>1. i - 1 \in 0..L
      BY <1>1
    <2>2. <<h[i - 1], i>> \in Builder \X (1..L)
      BY <2>1
    <2> QED BY <2>2
  <1>7. start \in Builder
    BY <1>3 DEF Holds
  <1> HIDE DEF F, start
  <1>8. PICK h \in [0..L -> Builder] : Follows(h, L, start, F)
    BY <1>1, <1>5, <1>7, Recursion
  <1>9. \A i \in 0..L : h[i] = IF i = 0 THEN start ELSE WriteLine(h[i - 1], points[i])
    <2> TAKE i \in 0..L
    <2>1. i # 0 => i \in 1..L
      BY <1>1
    <2> QED BY <1>6, <1>8, <2>1 DEF Follows
  <1>10. LinesUpTo(points, h)
    BY <1>8, <1>9 DEF LinesUpTo, L, start
  <1>11. LinesUpTo(points, done)
    BY <1>10
  <1>12. LineProtocol(points) = done[L].buf
    BY DEF LineProtocol, LinesUpTo, L
  <1> HIDE DEF done
  <1>13. \A i \in 0..L : done[i] = IF i = 0 THEN start ELSE WriteLine(done[i - 1], points[i])
    BY Zenon, <1>11 DEF LinesUpTo, L, start
  <1> DEFINE WellDone(i) == IF i = 0 THEN done[i] = start ELSE Holds(done[i], TRUE, 2 * i, i - 1)
             T == {i \in 0..L : WellDone(i)}
  <1>14. 0 \in T
    <2>1. 0 \in 0..L
      BY <1>1
    <2> QED BY <1>13, <2>1
  <1>15. ASSUME NEW i \in 1..L, i - 1 \in T PROVE i \in T
    <2>1. i \in 0..L /\ i # 0
      BY <1>1
    <2>2. done[i] = WriteLine(done[i - 1], points[i])
      BY <1>13, <2>1
    <2>3. /\ points[i] \in RemotePoint /\ DOMAIN points[i].attrs \subseteq RemoteKeys
          /\ points[i].metric \notin {"space", "newline"}
      BY <1>2
    <2>4. CASE i = 1
      <3>1. Holds(done[i - 1], FALSE, 0, 0)
        <4>1. i - 1 = 0
          BY <2>4
        <4>2. done[0] = start
          BY <1>14
        <4> HIDE DEF T
        <4> QED BY <1>3, <4>1, <4>2
      <3>2. Holds(WriteLine(done[i - 1], points[i]), TRUE, 0 + 2, IF FALSE THEN 0 + 1 ELSE 0)
        BY <2>3, <3>1, LineHolds
      <3>3. 0 + 2 = 2 * i /\ (IF FALSE THEN 0 + 1 ELSE 0) = i - 1
        BY <2>4
      <3> QED BY <2>1, <2>2, <3>2, <3>3
    <2>5. CASE i # 1
      <3> DEFINE a == 2 * (i - 1)
                 z == i - 2
                 c == done[i - 1]
      <3>1. Holds(c, TRUE, a, z) /\ a \in Nat /\ z \in Nat
        <4>1. i - 1 # 0 /\ (i - 1) - 1 = i - 2 /\ i \in Nat /\ i > 1
          <5> HIDE DEF T, a, z, c
          <5> QED BY <1>1, <2>5
        <4>2. WellDone(i - 1)
          <5> HIDE DEF WellDone, a, z, c
          <5> QED BY <1>15 DEF T
        <4>3. Holds(done[i - 1], TRUE, 2 * (i - 1), (i - 1) - 1)
          BY <4>1, <4>2
        <4>4. Holds(c, TRUE, a, z)
          BY <4>1, <4>3
        <4>5. a \in Nat /\ z \in Nat
          <5> HIDE DEF T, c
          <5> QED BY <4>1
        <4> QED BY <4>4, <4>5
      <3>2. a + 2 = 2 * i /\ (IF TRUE THEN z + 1 ELSE z) = i - 1
        BY <1>1
      <3> HIDE DEF a, z, c
      <3>3. Holds(WriteLine(c, points[i]), TRUE, a + 2, IF TRUE THEN z + 1 ELSE z)
        BY <2>3, <3>1, LineHolds
      <3>4. Holds(done[i], TRUE, 2 * i, i - 1)
        BY <2>2, <3>2, <3>3 DEF c
      <3> QED BY <2>1, <3>4
    <2> QED BY <2>4, <2>5
  <1> HIDE DEF T
  <1>16. L \in T
    <2>1. \A i \in 0..L : i \in T
      BY <1>1, <1>14, <1>15, UpTo
    <2>2. L \in 0..L
      BY <1>1
    <2> QED BY <2>1, <2>2
  <1>17. Holds(done[L], TRUE, 2 * L, L - 1)
    BY <1>1, <1>16 DEF T
  <1> QED BY <1>12, <1>17 DEF Holds, L

\* The lines of the requests that have been sent.
LinesInv ==
    /\ RequestInv
    /\ remote.kind = "influxdb" =>
         \A r \in Range(requests) :
            CountIn(r.lines, "newline") = Len(r.points) - 1 /\ CountIn(r.lines, "space") = 2 * Len(r.points)

LEMMA LinesInvInductive == LinesInv /\ [RemoteNext]_remoteVars => LinesInv'
  <1> SUFFICES ASSUME LinesInv, [RemoteNext]_remoteVars PROVE LinesInv'
    OBVIOUS
  <1>1. RequestInv /\ RequestInv'
    BY RequestInvInductive DEF LinesInv
  <1>2. remote'.kind = remote.kind
    BY <1>1, RequestStep
  <1> SUFFICES ASSUME remote.kind = "influxdb", NEW r \in Range(requests')
               PROVE  CountIn(r.lines, "newline") = Len(r.points) - 1 /\ CountIn(r.lines, "space") = 2 * Len(r.points)
    BY <1>1, <1>2 DEF LinesInv, CountIn
  <1>3. CASE r \in Range(requests)
    BY <1>3 DEF LinesInv
  <1>4. CASE r \notin Range(requests)
    <2>0. PICK k \in Requesting, points \in RemoteBuffers : \E lines :
            /\ remote.kind = k
            /\ k = "influxdb" => points # <<>> /\ lines = LineProtocol(points)
            /\ requests' = Append(requests, [points |-> points, lines |-> lines,
                                            rows |-> [i \in DOMAIN points |-> RowOf(k, remote.tags, points[i])]])
      BY <1>1, <1>4, RequestStep
    <2>1. PICK lines :
            /\ remote.kind = k
            /\ k = "influxdb" => points # <<>> /\ lines = LineProtocol(points)
            /\ requests' = Append(requests, [points |-> points, lines |-> lines,
                                            rows |-> [i \in DOMAIN points |-> RowOf(k, remote.tags, points[i])]])
      BY <2>0
    <2> DEFINE new == [points |-> points, lines |-> lines,
                       rows |-> [i \in DOMAIN points |-> RowOf(k, remote.tags, points[i])]]
    <2>2. new.points = points /\ new.lines = lines
      OBVIOUS
    <2>3. requests' = Append(requests, new) /\ \E E : requests \in Seq(E)
      BY <1>1, <2>1 DEF RequestInv
    <2> HIDE DEF new
    <2>4. r = new
      BY <1>4, <2>3, NextRequest
    <2>5. points # <<>> /\ lines = LineProtocol(points)
      BY <2>1
    <2>6. RemoteShape
      BY <1>1 DEF RequestInv
    <2>7. CountIn(lines, "newline") = Len(points) - 1 /\ CountIn(lines, "space") = 2 * Len(points)
      BY <2>5, <2>6, LinesHold
    <2> QED BY <2>2, <2>4, <2>7
  <1> QED BY <1>3, <1>4

\* The text of a request of influxdb has a line for each of its points, and each line has its
\* measurement and tags, its fields and its timestamp, whatever the attributes of the points are.
THEOREM LinesStayRight == RemoteSpec => []LinesAreRight
  <1>1. RemoteInit => LinesInv
    <2> SUFFICES ASSUME RemoteInit PROVE LinesInv
      OBVIOUS
    <2>1. Range(requests) = {}
      BY EmptySeq DEF RemoteInit, Range
    <2> QED BY <2>1, RequestInvStarts DEF LinesInv
  <1>2. LinesInv => LinesAreRight
    BY DEF LinesInv, LinesAreRight, CountIn
  <1> QED BY <1>1, <1>2, LinesInvInductive, PTL DEF RemoteSpec

-------------------------------------------------------------------------------
(* What the relay does to units, resources and consumers.                     *)

\* The names of the units.
LEMMA UnitTable ==
    /\ DOMAIN UnitNames = {"Unity", "Second", "Watt", "Joule", "Volt", "Ampere", "Hertz",
                           "DegreeCelsius", "DegreeFahrenheit", "WattHour", "Byte", "Percent"}
    /\ UnitNames["Unity"][1] = "1" /\ UnitNames["Second"][1] = "s"
    /\ UnitNames["Watt"][1] = "W" /\ UnitNames["Joule"][1] = "J"
    /\ UnitNames["Volt"][1] = "V" /\ UnitNames["Ampere"][1] = "A"
    /\ UnitNames["Hertz"][1] = "Hz" /\ UnitNames["DegreeCelsius"][1] = "Cel"
    /\ UnitNames["DegreeFahrenheit"][1] = "[degF]" /\ UnitNames["WattHour"][1] = "W.h"
    /\ UnitNames["Byte"][1] = "By" /\ UnitNames["Percent"][1] = "%"
  BY DEF UnitNames

\* The unique names of the prefixes.
LEMMA PrefixTable ==
    /\ DOMAIN PrefixNames = {"Nano", "Micro", "Milli", "Plain", "Kilo", "Mega", "Giga"}
    /\ PrefixNames["Nano"][1] = "nano"
    /\ PrefixNames["Micro"][1] = "micro"
    /\ PrefixNames["Milli"][1] = "milli"
    /\ PrefixNames["Plain"][1] = ""
    /\ PrefixNames["Kilo"][1] = "kilo"
    /\ PrefixNames["Mega"][1] = "mega"
    /\ PrefixNames["Giga"][1] = "giga"
  BY DEF PrefixNames

\* All the names of the prefixes.
LEMMA PrefixRanges ==
    /\ Range(PrefixNames["Nano"]) = {"nano", "n"}
    /\ Range(PrefixNames["Micro"]) = {"micro", "u"}
    /\ Range(PrefixNames["Milli"]) = {"milli", "m"}
    /\ Range(PrefixNames["Plain"]) = {"", ""}
    /\ Range(PrefixNames["Kilo"]) = {"kilo", "k"}
    /\ Range(PrefixNames["Mega"]) = {"mega", "M"}
    /\ Range(PrefixNames["Giga"]) = {"giga", "G"}
  <1>1. Range(PrefixNames["Nano"]) = {"nano", "n"}
    <2>1. PrefixNames["Nano"] = <<"nano", "n">>
      BY DEF PrefixNames
    <2>2. DOMAIN PrefixNames["Nano"] = {1, 2}
      BY <2>1
    <2> QED BY <2>1, <2>2 DEF Range
  <1>2. Range(PrefixNames["Micro"]) = {"micro", "u"}
    <2>1. PrefixNames["Micro"] = <<"micro", "u">>
      BY DEF PrefixNames
    <2>2. DOMAIN PrefixNames["Micro"] = {1, 2}
      BY <2>1
    <2> QED BY <2>1, <2>2 DEF Range
  <1>3. Range(PrefixNames["Milli"]) = {"milli", "m"}
    <2>1. PrefixNames["Milli"] = <<"milli", "m">>
      BY DEF PrefixNames
    <2>2. DOMAIN PrefixNames["Milli"] = {1, 2}
      BY <2>1
    <2> QED BY <2>1, <2>2 DEF Range
  <1>4. Range(PrefixNames["Plain"]) = {"", ""}
    <2> DEFINE e == ""
    <2>1. PrefixNames["Plain"] = <<e, e>>
      BY DEF PrefixNames
    <2> HIDE DEF e
    <2>2. DOMAIN PrefixNames["Plain"] = {1, 2}
      BY <2>1
    <2>3. \A k \in {1, 2} : PrefixNames["Plain"][k] = e
      BY <2>1
    <2>4. Range(PrefixNames["Plain"]) = {e}
      BY <2>2, <2>3 DEF Range
    <2> QED BY <2>4 DEF e
  <1>5. Range(PrefixNames["Kilo"]) = {"kilo", "k"}
    <2>1. PrefixNames["Kilo"] = <<"kilo", "k">>
      BY DEF PrefixNames
    <2>2. DOMAIN PrefixNames["Kilo"] = {1, 2}
      BY <2>1
    <2> QED BY <2>1, <2>2 DEF Range
  <1>6. Range(PrefixNames["Mega"]) = {"mega", "M"}
    <2>1. PrefixNames["Mega"] = <<"mega", "M">>
      BY DEF PrefixNames
    <2>2. DOMAIN PrefixNames["Mega"] = {1, 2}
      BY <2>1
    <2> QED BY <2>1, <2>2 DEF Range
  <1>7. Range(PrefixNames["Giga"]) = {"giga", "G"}
    <2>1. PrefixNames["Giga"] = <<"giga", "G">>
      BY DEF PrefixNames
    <2>2. DOMAIN PrefixNames["Giga"] = {1, 2}
      BY <2>1
    <2> QED BY <2>1, <2>2 DEF Range
  <1> QED BY <1>1, <1>2, <1>3, <1>4, <1>5, <1>6, <1>7

\* Every unique name of a unit is that of one unit only.
LEMMA UnitNamesDiffer ==
    \A u, v \in DOMAIN UnitNames : UnitNames[u][1] = UnitNames[v][1] => u = v
  BY UnitTable

\* Every unique name of a prefix is a name of this prefix only.
LEMMA PrefixNamesDiffer ==
    \A q, p \in DOMAIN PrefixNames : PrefixNames[q][1] \in Range(PrefixNames[p]) <=> q = p
  <1>1. \A q \in DOMAIN PrefixNames : PrefixNames[q][1] \in Range(PrefixNames["Nano"]) <=> q = "Nano"
    BY PrefixTable, PrefixRanges
  <1>2. \A q \in DOMAIN PrefixNames : PrefixNames[q][1] \in Range(PrefixNames["Micro"]) <=> q = "Micro"
    BY PrefixTable, PrefixRanges
  <1>3. \A q \in DOMAIN PrefixNames : PrefixNames[q][1] \in Range(PrefixNames["Milli"]) <=> q = "Milli"
    BY PrefixTable, PrefixRanges
  <1>4. \A q \in DOMAIN PrefixNames : PrefixNames[q][1] \in Range(PrefixNames["Plain"]) <=> q = "Plain"
    BY PrefixTable, PrefixRanges
  <1>5. \A q \in DOMAIN PrefixNames : PrefixNames[q][1] \in Range(PrefixNames["Kilo"]) <=> q = "Kilo"
    BY PrefixTable, PrefixRanges
  <1>6. \A q \in DOMAIN PrefixNames : PrefixNames[q][1] \in Range(PrefixNames["Mega"]) <=> q = "Mega"
    BY PrefixTable, PrefixRanges
  <1>7. \A q \in DOMAIN PrefixNames : PrefixNames[q][1] \in Range(PrefixNames["Giga"]) <=> q = "Giga"
    BY PrefixTable, PrefixRanges
  <1> QED BY PrefixTable, <1>1, <1>2, <1>3, <1>4, <1>5, <1>6, <1>7

\* The unique name of a unit is parsed into this unit.
LEMMA UnitIsParsed ==
    ASSUME NEW u \in DOMAIN UnitNames
    PROVE  ParseUnit(UnitNames[u][1]) = StandardUnit(u)
  BY UnitNamesDiffer DEF ParseUnit

\* The unique name of a prefix is parsed into this prefix.
LEMMA PrefixIsParsed ==
    ASSUME NEW q \in DOMAIN PrefixNames
    PROVE  ParsePrefix(PrefixNames[q][1]) = q
  BY PrefixNamesDiffer DEF ParsePrefix

\* A standard unit is a valid one.
LEMMA ValidUnit == \A u : StandardUnit(u) # Invalid
  BY DEF StandardUnit, Invalid

\* A sequence of which all the elements are kept.
LEMMA OnlyAll == ASSUME NEW E, NEW s \in Seq(E), NEW S, Range(s) \subseteq S PROVE Only(s, S) = s
  <1> DEFINE L == Len(s)
  <1>1. /\ L \in Nat /\ 0 \in 0..L /\ L \in 0..L /\ 0 =< L /\ \A i \in 1..L : i \in (0 + 1)..L
    OBVIOUS
  <1>2. \A i \in 1..L : s[i] \in S
    BY DEF Range
  <1>3. Only(s, S) = SubSeq(s, 0 + 1, L)
    BY <1>1, <1>2, OnlyBetween
  <1>4. SubSeq(s, 1, L) = s
    OBVIOUS
  <1> QED BY <1>3, <1>4

\* The kinds of resources and of consumers.
LEMMA KindTable ==
    /\ DOMAIN ResourceKinds = {"LocalMachine", "CpuPackage", "CpuCore", "Dram", "Gpu", "GpuPartition"}
    /\ ResourceKinds["LocalMachine"] = "local_machine" /\ ResourceKinds["CpuPackage"] = "cpu_package"
    /\ ResourceKinds["CpuCore"] = "cpu_core" /\ ResourceKinds["Dram"] = "dram"
    /\ ResourceKinds["Gpu"] = "gpu" /\ ResourceKinds["GpuPartition"] = "gpu_partition"
    /\ DOMAIN ConsumerKinds = {"LocalMachine", "Process", "ControlGroup"}
    /\ ConsumerKinds["LocalMachine"] = "local_machine" /\ ConsumerKinds["Process"] = "process"
    /\ ConsumerKinds["ControlGroup"] = "cgroup"
  BY DEF ResourceKinds, ConsumerKinds

LEMMA KindRange ==
    /\ {"local_machine", "cpu_package", "cpu_core", "dram", "gpu", "gpu_partition"} \subseteq Range(ResourceKinds)
    /\ {"local_machine", "process", "cgroup"} \subseteq Range(ConsumerKinds)
  BY KindTable DEF Range

LEMMA KindsDiffer ==
    /\ \A t, u \in DOMAIN ResourceKinds : ResourceKinds[t] = ResourceKinds[u] => t = u
    /\ \A t, u \in DOMAIN ConsumerKinds : ConsumerKinds[t] = ConsumerKinds[u] => t = u
  BY KindTable

\* The text of what is not a partition of a GPU is its identifier.
LEMMA PlainText == ASSUME NEW r, r.type # "GpuPartition" PROVE IdText(r) = r.id
  BY Zenon DEF IdText

\* A custom resource or consumer may have the kind of another one.
Ambiguous(x) == x.type = "Custom" /\ x.kind \in Range(ResourceKinds) \union Range(ConsumerKinds)

\* What is read of a resource has the kind and the text that it had; only a custom one, of the
\* kind of another one, cannot be read.
LEMMA ResourceIsRead ==
    ASSUME NEW r, IsResource(r), NEW q, q = NormalizeResource(CustomOf(r.kind, IdText(r)))
    PROVE  \/ q = Invalid /\ Ambiguous(r)
           \/ q # Invalid /\ IsResource(q) /\ q.kind = r.kind /\ IdText(q) = IdText(r)
  <1> DEFINE id == IdText(r)
             c == CustomOf(r.kind, id)
  <1>1. c = [type |-> "Custom", kind |-> r.kind, id |-> id]
    BY DEF CustomOf
  <1> HIDE DEF id
  <1>2. ASSUME NEW type, q = [type |-> type, kind |-> r.kind, id |-> id], type # "GpuPartition",
               type # "Invalid", IsResource(q)
        PROVE  q # Invalid /\ IsResource(q) /\ q.kind = r.kind /\ IdText(q) = IdText(r)
    <2>1. q.kind = r.kind /\ q.id = id /\ q.type = type
      BY <1>2
    <2>2. q # Invalid
      BY <1>2, <2>1 DEF Invalid
    <2>3. IdText(q) = id
      BY <1>2, <2>1, PlainText
    <2> QED BY <1>2, <2>1, <2>2, <2>3 DEF id
  <1>3. ASSUME NEW type, NEW readable \in BOOLEAN, q = Typed(type, c, readable), type \in DOMAIN ResourceKinds,
               type # "GpuPartition", r.kind = ResourceKinds[type],
               type = "LocalMachine" => readable = (id = <<>>),
               type \in {"CpuPackage", "CpuCore", "Dram"} => readable = IsNumber(id),
               type = "Gpu" => readable
        PROVE  \/ q = Invalid /\ Ambiguous(r)
               \/ q # Invalid /\ IsResource(q) /\ q.kind = r.kind /\ IdText(q) = IdText(r)
    <2>1. CASE readable
      <3>1. q = [type |-> type, kind |-> r.kind, id |-> id]
        BY <1>1, <1>3, <2>1 DEF Typed
      <3>2. q.kind = r.kind /\ q.id = id /\ q.type = type
        BY <3>1
      <3>3. IsResource(q)
        BY <1>3, <2>1, <3>1, <3>2 DEF IsResource
      <3>4. type # "Invalid"
        BY <1>3, KindTable
      <3> QED BY <1>2, <1>3, <3>1, <3>3, <3>4
    <2>2. CASE ~readable
      <3>1. q = Invalid
        BY <1>3, <2>2 DEF Typed
      <3>2. r.type = "Custom"
        <4> SUFFICES ASSUME r.type # "Custom" PROVE FALSE
          OBVIOUS
        <4>1. /\ r.type \in DOMAIN ResourceKinds /\ r.kind = ResourceKinds[r.type]
              /\ r.type = "LocalMachine" => r.id = <<>>
              /\ r.type \in {"CpuPackage", "CpuCore", "Dram"} => IsNumber(r.id)
          BY DEF IsResource
        <4>2. r.type = type
          <5>1. ResourceKinds[r.type] = ResourceKinds[type]
            BY <1>3, <4>1
          <5> QED BY <1>3, <4>1, <5>1, KindsDiffer
        <4>3. id = r.id
          BY <1>3, <4>2, PlainText DEF id
        <4> QED BY <1>3, <2>2, <4>1, <4>2, <4>3, KindTable
      <3>3. r.kind \in Range(ResourceKinds)
        BY <1>3, KindTable, KindRange
      <3> QED BY <3>1, <3>2, <3>3 DEF Ambiguous
    <2> QED BY <2>1, <2>2
  <1>4. c.kind = r.kind /\ c.id = id
    BY <1>1
  <1> HIDE DEF c
  <1>5. CASE r.kind = "local_machine"
    <2>1. q = Typed("LocalMachine", c, id = <<>>)
      BY <1>4, <1>5 DEF NormalizeResource, c, id
    <2> QED BY <1>3, <1>5, <2>1, KindTable
  <1>6. CASE r.kind = "cpu_package"
    <2>1. q = Typed("CpuPackage", c, IsNumber(id)) /\ IsNumber(id) \in BOOLEAN
      BY <1>4, <1>6 DEF NormalizeResource, c, id, IsNumber
    <2> QED BY <1>3, <1>6, <2>1, KindTable
  <1>7. CASE r.kind = "cpu_core"
    <2>1. q = Typed("CpuCore", c, IsNumber(id)) /\ IsNumber(id) \in BOOLEAN
      BY <1>4, <1>7 DEF NormalizeResource, c, id, IsNumber
    <2> QED BY <1>3, <1>7, <2>1, KindTable
  <1>8. CASE r.kind = "dram"
    <2>1. q = Typed("Dram", c, IsNumber(id)) /\ IsNumber(id) \in BOOLEAN
      BY <1>4, <1>8 DEF NormalizeResource, c, id, IsNumber
    <2> QED BY <1>3, <1>8, <2>1, KindTable
  <1>9. CASE r.kind = "gpu"
    <2>1. q = Typed("Gpu", c, TRUE)
      BY <1>4, <1>9 DEF NormalizeResource, c, id
    <2> QED BY <1>3, <1>9, <2>1, KindTable
  <1>10. CASE r.kind \notin {"local_machine", "cpu_package", "cpu_core", "dram", "gpu"}
    <2>1. q = c
      BY <1>4, <1>10 DEF NormalizeResource, c, id
    <2>2. q = [type |-> "Custom", kind |-> r.kind, id |-> id]
      BY <1>1, <2>1
    <2>3. q.type = "Custom" /\ q.kind = r.kind /\ q.id = id
      BY <2>2
    <2>4. IsResource(q)
      BY <2>2, <2>3 DEF IsResource
    <2> QED BY <1>2, <2>2, <2>4
  <1> QED BY <1>5, <1>6, <1>7, <1>8, <1>9, <1>10

\* The same for a consumer.
LEMMA ConsumerIsRead ==
    ASSUME NEW r, IsConsumer(r), NEW q, q = NormalizeConsumer(CustomOf(r.kind, IdText(r)))
    PROVE  \/ q = Invalid /\ Ambiguous(r)
           \/ q # Invalid /\ IsConsumer(q) /\ q.kind = r.kind /\ IdText(q) = IdText(r)
  <1> DEFINE id == IdText(r)
             c == CustomOf(r.kind, id)
  <1>1. c = [type |-> "Custom", kind |-> r.kind, id |-> id]
    BY DEF CustomOf
  <1>11. r.type # "GpuPartition" /\ id = r.id
    <2>1. r.type # "GpuPartition"
      BY KindTable DEF IsConsumer
    <2> QED BY <2>1, PlainText
  <1> HIDE DEF id
  <1>2. ASSUME NEW type, q = [type |-> type, kind |-> r.kind, id |-> id], type # "GpuPartition",
               type # "Invalid", IsConsumer(q)
        PROVE  q # Invalid /\ IsConsumer(q) /\ q.kind = r.kind /\ IdText(q) = IdText(r)
    <2>1. q.kind = r.kind /\ q.id = id /\ q.type = type
      BY <1>2
    <2>2. q # Invalid
      BY <1>2, <2>1 DEF Invalid
    <2>3. IdText(q) = id
      BY <1>2, <2>1, PlainText
    <2> QED BY <1>2, <2>1, <2>2, <2>3 DEF id
  <1>4. c.kind = r.kind /\ c.id = id
    BY <1>1
  <1> HIDE DEF c
  <1>5. CASE r.kind = "process"
    <2>1. q = Typed("Process", c, IsNumber(id))
      BY <1>4, <1>5 DEF NormalizeConsumer, c, id
    <2>2. CASE IsNumber(id)
      <3>1. q = [type |-> "Process", kind |-> r.kind, id |-> id]
        BY <1>1, <2>1, <2>2 DEF Typed
      <3>2. q.kind = r.kind /\ q.id = id /\ q.type = "Process"
        BY <3>1
      <3>3. IsConsumer(q)
        BY <1>5, <2>2, <3>1, <3>2, KindTable DEF IsConsumer
      <3> QED BY <1>2, <3>1, <3>3
    <2>3. CASE ~IsNumber(id)
      <3>1. q = Invalid
        BY <2>1, <2>3 DEF Typed
      <3>2. r.type = "Custom"
        <4> SUFFICES ASSUME r.type # "Custom" PROVE FALSE
          OBVIOUS
        <4>1. /\ r.type \in DOMAIN ConsumerKinds /\ r.kind = ConsumerKinds[r.type]
              /\ r.type = "Process" => IsNumber(r.id)
          BY DEF IsConsumer
        <4>2. "Process" \in DOMAIN ConsumerKinds /\ ConsumerKinds["Process"] = ConsumerKinds[r.type]
          BY <1>5, <4>1, KindTable
        <4>3. r.type = "Process"
          BY <4>1, <4>2, KindsDiffer
        <4> QED BY <1>11, <2>3, <4>1, <4>3
      <3>3. r.kind \in Range(ConsumerKinds)
        BY <1>5, KindRange
      <3> QED BY <3>1, <3>2, <3>3 DEF Ambiguous
    <2> QED BY <2>2, <2>3
  <1>6. CASE r.kind = "cgroup"
    <2>1. q = Typed("ControlGroup", c, TRUE)
      BY <1>4, <1>6 DEF NormalizeConsumer, c, id
    <2>2. q = [type |-> "ControlGroup", kind |-> r.kind, id |-> id]
      BY <1>1, <2>1 DEF Typed
    <2>3. q.kind = r.kind /\ q.id = id /\ q.type = "ControlGroup"
      BY <2>2
    <2>4. IsConsumer(q)
      BY <1>6, <2>2, <2>3, KindTable DEF IsConsumer
    <2> QED BY <1>2, <2>2, <2>4
  <1>7. CASE r.kind \notin {"process", "cgroup"}
    <2>1. q = c
      BY <1>4, <1>7 DEF NormalizeConsumer, c, id
    <2>2. q = [type |-> "Custom", kind |-> r.kind, id |-> id]
      BY <1>1, <2>1
    <2>3. q.type = "Custom" /\ q.kind = r.kind /\ q.id = id
      BY <2>2
    <2>4. IsConsumer(q)
      BY <2>2, <2>3 DEF IsConsumer
    <2> QED BY <1>2, <2>2, <2>4
  <1> QED BY <1>5, <1>6, <1>7

\* What the outputs write of a value.
ValueTold(attr) == IF attr \in {"Str", "String"} THEN "text" ELSE attr

\* What is read of a point says the same of its resource and consumer, and is read in the same
\* way again; only a point of an ambiguous resource or consumer cannot be read.
LEMMA PointIsRead ==
    ASSUME NEW p, IsPoint(p), NEW q, q = ReadPoint(p)
    PROVE  \/ q = Invalid /\ \E x \in {p.resource, p.consumer} : Ambiguous(x)
           \/ /\ q # Invalid /\ IsPoint(q) /\ ReadPoint(q) = q
              /\ q.resource.kind = p.resource.kind /\ IdText(q.resource) = IdText(p.resource)
              /\ q.consumer.kind = p.consumer.kind /\ IdText(q.consumer) = IdText(p.consumer)
              /\ ValueTold(q.attr) = ValueTold(p.attr)
  <1> DEFINE resource == NormalizeResource(CustomOf(p.resource.kind, IdText(p.resource)))
             consumer == NormalizeConsumer(CustomOf(p.consumer.kind, IdText(p.consumer)))
             attr == AttributeOf(TypedValue(p.attr))
  <1>1. \/ resource = Invalid /\ Ambiguous(p.resource)
        \/ /\ resource # Invalid /\ IsResource(resource) /\ resource.kind = p.resource.kind
           /\ IdText(resource) = IdText(p.resource)
    BY ResourceIsRead DEF IsPoint
  <1>2. \/ consumer = Invalid /\ Ambiguous(p.consumer)
        \/ /\ consumer # Invalid /\ IsConsumer(consumer) /\ consumer.kind = p.consumer.kind
           /\ IdText(consumer) = IdText(p.consumer)
    BY ConsumerIsRead DEF IsPoint
  <1>3. AttributeOf(TypedValue(attr)) = attr /\ ValueTold(attr) = ValueTold(p.attr)
    BY DEF AttributeOf, TypedValue, ValueTold
  <1>4. q = IF Invalid \in {resource, consumer} THEN Invalid
            ELSE [resource |-> resource, consumer |-> consumer, attr |-> attr]
    BY DEF ReadPoint
  <1> HIDE DEF resource, consumer, attr
  <1>5. CASE Invalid \in {resource, consumer}
    BY <1>1, <1>2, <1>4, <1>5
  <1>6. CASE Invalid \notin {resource, consumer}
    <2>1. q = [resource |-> resource, consumer |-> consumer, attr |-> attr]
      BY <1>4, <1>6
    <2>2. q.resource = resource /\ q.consumer = consumer /\ q.attr = attr
      BY <2>1
    <2>3. q # Invalid
      <3>1. DOMAIN q = {"resource", "consumer", "attr"} /\ DOMAIN Invalid = {"type"}
        BY <2>1 DEF Invalid
      <3>2. {"resource", "consumer", "attr"} # {"type"}
        OBVIOUS
      <3> QED BY <3>1, <3>2
    <2>4. /\ IsResource(resource) /\ resource.kind = p.resource.kind
          /\ IdText(resource) = IdText(p.resource)
      BY <1>1, <1>6
    <2>5. /\ IsConsumer(consumer) /\ consumer.kind = p.consumer.kind
          /\ IdText(consumer) = IdText(p.consumer)
      BY <1>2, <1>6
    <2>6. IsPoint(q)
      BY <2>1, <2>2, <2>4, <2>5 DEF IsPoint
    <2>7. /\ NormalizeResource(CustomOf(q.resource.kind, IdText(q.resource))) = resource
          /\ NormalizeConsumer(CustomOf(q.consumer.kind, IdText(q.consumer))) = consumer
          /\ AttributeOf(TypedValue(q.attr)) = attr
      BY <1>3, <2>2, <2>4, <2>5 DEF resource, consumer
    <2>8. ReadPoint(q) = q
      BY <1>6, <2>1, <2>7 DEF ReadPoint
    <2> QED BY <1>3, <2>2, <2>3, <2>4, <2>5, <2>6, <2>8
  <1> QED BY <1>5, <1>6

\* What is read of a unit is this unit, but a custom one, which cannot be read.
LEMMA UnitIsRead ==
    ASSUME NEW p, IsUnit(p), NEW q, q = ReadUnit(p)
    PROVE  \/ q = Invalid /\ p.base.type = "Custom"
           \/ q # Invalid /\ q = p
  <1>1. p = [base |-> p.base, prefix |-> p.prefix] /\ p.prefix \in DOMAIN PrefixNames
    BY DEF IsUnit, WithPrefix
  <1>2. ParsePrefix(PrefixNames[p.prefix][1]) = p.prefix
    BY <1>1, PrefixIsParsed
  <1>3. CASE \E u \in DOMAIN UnitNames : p.base = StandardUnit(u)
    <2>1. PICK u \in DOMAIN UnitNames : p.base = StandardUnit(u)
      BY <1>3
    <2>2. p.base.unique = UnitNames[u][1]
      BY <2>1 DEF StandardUnit
    <2>3. ParseUnit(p.base.unique) = p.base
      BY <2>1, <2>2, UnitIsParsed
    <2>4. p.base # Invalid
      BY <2>1, ValidUnit
    <2>5. q = [base |-> p.base, prefix |-> p.prefix]
      BY <1>2, <2>3, <2>4 DEF ReadUnit, WithPrefix
    <2>6. q = p
      BY <1>1, <2>5
    <2>7. q # Invalid
      <3>1. DOMAIN q = {"base", "prefix"} /\ DOMAIN Invalid = {"type"}
        BY <2>5 DEF Invalid
      <3>2. {"base", "prefix"} # {"type"}
        OBVIOUS
      <3> QED BY <3>1, <3>2
    <2> QED BY <2>6, <2>7
  <1>4. CASE /\ p.base = CustomUnit(p.base.unique, p.base.display)
             /\ \A u \in DOMAIN UnitNames : UnitNames[u][1] # p.base.unique
    <2>1. ParseUnit(p.base.unique) = Invalid
      BY <1>4 DEF ParseUnit
    <2>2. q = Invalid
      BY <2>1 DEF ReadUnit
    <2>3. p.base.type = "Custom"
      BY <1>4 DEF CustomUnit
    <2> QED BY <2>2, <2>3
  <1> QED BY <1>3, <1>4 DEF IsUnit

IsItem(x) == IF relaySent.kind = "metrics" THEN IsUnit(x) ELSE IsPoint(x)

Unreadable(x) ==
    IF relaySent.kind = "metrics" THEN x.base.type = "Custom"
    ELSE \E y \in {x.resource, x.consumer} : Ambiguous(y)

LEMMA ItemIsRead ==
    ASSUME NEW x, IsItem(x), relaySent.kind \in {"metrics", "points"}, NEW q, q = ReadItem(x)
    PROVE  \/ q = Invalid /\ Unreadable(x)
           \/ q # Invalid /\ IsItem(q) /\ ToldAs(q) = ToldAs(x) /\ ReadItem(q) = q
  <1>1. CASE relaySent.kind = "metrics"
    <2>1. q = ReadUnit(x) /\ IsUnit(x)
      BY <1>1 DEF ReadItem, IsItem
    <2>2. \/ q = Invalid /\ x.base.type = "Custom"
          \/ q # Invalid /\ q = x
      BY <2>1, UnitIsRead, Zenon
    <2>3. CASE q = Invalid
      BY <1>1, <2>2, <2>3 DEF Unreadable
    <2>4. CASE q # Invalid
      BY <2>2, <2>4
    <2> QED BY <2>3, <2>4
  <1>2. CASE relaySent.kind = "points"
    <2>1. q = ReadPoint(x) /\ IsPoint(x)
      BY <1>2 DEF ReadItem, IsItem
    <2>2. \/ q = Invalid /\ \E y \in {x.resource, x.consumer} : Ambiguous(y)
          \/ /\ q # Invalid /\ IsPoint(q) /\ ReadPoint(q) = q
             /\ q.resource.kind = x.resource.kind /\ IdText(q.resource) = IdText(x.resource)
             /\ q.consumer.kind = x.consumer.kind /\ IdText(q.consumer) = IdText(x.consumer)
             /\ ValueTold(q.attr) = ValueTold(x.attr)
      BY <2>1, PointIsRead
    <2>3. CASE q = Invalid
      BY <1>2, <2>2, <2>3 DEF Unreadable
    <2>4. CASE q # Invalid
      <3>1. \A p : ToldAs(p) = <<p.resource.kind, IdText(p.resource), p.consumer.kind,
                                 IdText(p.consumer), ValueTold(p.attr)>>
        BY <1>2, Zenon DEF ToldAs, ValueTold
      <3>2. ToldAs(q) = ToldAs(x)
        BY <2>2, <2>4, <3>1
      <3>3. ReadItem(q) = q /\ IsItem(q)
        BY <1>2, <2>2, <2>4 DEF ReadItem, IsItem
      <3> QED BY <2>4, <3>2, <3>3
    <2> QED BY <2>3, <2>4
  <1> QED BY <1>1, <1>2

\* Items that were received tell the same as those that were sent, and change no more; what was
\* sent and is not received could not be read.
Arrived(p) ==
    /\ p = [from |-> p.from, item |-> p.item]
    /\ p.from \in DOMAIN relaySent.items
    /\ IsItem(p.item)
    /\ ToldAs(p.item) = ToldAs(relaySent.items[p.from])
    /\ relayHop = 0 => p.item = relaySent.items[p.from]
    /\ relayHop > 0 => p.item # Invalid /\ ReadItem(p.item) = p.item

FormatInv ==
    /\ relaySent.kind \in {"metrics", "points"} /\ relayHop \in Nat
    /\ \A i \in DOMAIN relaySent.items : IsItem(relaySent.items[i])
    /\ \E E : relayHere \in Seq(E)
    /\ \A p \in Range(relayHere) : Arrived(p)
    /\ relayClosed => /\ relaySent.kind = "metrics"
                      /\ \E i \in DOMAIN relaySent.items : Unreadable(relaySent.items[i])
    /\ relaySent.kind = "points" =>
         \A i \in DOMAIN relaySent.items \ {p.from : p \in Range(relayHere)} : Unreadable(relaySent.items[i])
    /\ relayHop > 1 => relayHere = relayBefore

LEMMA FormatInvImplies == FormatInv => RelayKeepsMeanings
  <1> SUFFICES ASSUME FormatInv PROVE RelayKeepsMeanings
    OBVIOUS
  <1>1. \A p \in Range(relayHere) : ToldAs(p.item) = ToldAs(relaySent.items[p.from])
    BY DEF FormatInv, Arrived
  <1>2. ASSUME relayClosed PROVE \E i \in DOMAIN relaySent.items : relaySent.items[i].base.type = "Custom"
    BY <1>2 DEF FormatInv, Unreadable
  <1> QED BY <1>1, <1>2 DEF RelayKeepsMeanings, FormatInv, Unreadable, Ambiguous

LEMMA FormatInvStarts == RelayFormatInit => FormatInv
  <1> SUFFICES ASSUME RelayFormatInit PROVE FormatInv
    OBVIOUS
  <1> DEFINE items == relaySent.items
             first == [i \in DOMAIN items |-> [from |-> i, item |-> items[i]]]
  <1>1. relayHere = first /\ relayHop = 0 /\ relayClosed = FALSE
    BY DEF RelayFormatInit
  <1>2. /\ relaySent.kind \in {"metrics", "points"} /\ items \in Seq(Range(items))
        /\ \A i \in DOMAIN items : IsItem(items[i])
    <2>1. \/ relaySent.kind = "metrics" /\ items \in RelayedUnits
          \/ relaySent.kind = "points" /\ items \in RelayedPoints
      BY DEF RelayFormatInit
    <2>2. CASE relaySent.kind = "metrics" /\ items \in RelayedUnits
      BY <2>2, FormatAssumption DEF IsItem
    <2>3. CASE relaySent.kind = "points" /\ items \in RelayedPoints
      BY <2>3, FormatAssumption DEF IsItem
    <2> QED BY <2>1, <2>2, <2>3
  <1>3. Len(items) \in Nat /\ DOMAIN items = 1..Len(items)
    BY <1>2
  <1> HIDE DEF items
  <1>4. first \in Seq(Range(first))
    <2>1. DOMAIN first = 1..Len(items) /\ \A i \in 1..Len(items) : first[i] \in Range(first)
      BY <1>3 DEF Range
    <2>2. first = [i \in 1..Len(items) |-> first[i]]
      BY <1>3
    <2> HIDE DEF first
    <2>3. [i \in 1..Len(items) |-> first[i]] \in Seq(Range(first))
      BY <1>3, <2>1
    <2> QED BY <2>2, <2>3
  <1>5. ASSUME NEW p \in Range(first)
        PROVE  /\ p = [from |-> p.from, item |-> p.item] /\ p.from \in DOMAIN items /\ p.item = items[p.from]
    <2>1. PICK i \in DOMAIN items : p = [from |-> i, item |-> items[i]]
      BY DEF Range
    <2> QED BY <2>1
  <1>6. ASSUME NEW i \in DOMAIN items PROVE i \in {p.from : p \in Range(first)}
    <2>1. first[i].from = i /\ first[i] \in Range(first)
      BY DEF Range
    <2> QED BY <2>1
  <1> HIDE DEF first
  <1>7. \A p \in Range(relayHere) : Arrived(p)
    BY <1>1, <1>2, <1>5 DEF Arrived, items
  <1> QED BY <1>1, <1>2, <1>4, <1>6, <1>7 DEF FormatInv, items

\* What is received is what arrives after the relay, and the same as before when it crosses a
\* second one.
LEMMA RereadIs ==
    ASSUME FormatInv
    PROVE  /\ Reread \in Seq(Range(Reread))
           /\ \A p \in Range(Reread) : \E o \in Range(relayHere) : p = [from |-> o.from, item |-> ReadItem(o.item)]
           /\ \A o \in Range(relayHere) : [from |-> o.from, item |-> ReadItem(o.item)] \in Range(Reread)
           /\ relayHop > 0 => Reread = relayHere /\ \A p \in Range(Reread) : p.item # Invalid
  <1> DEFINE new == Reread
             here == relayHere
             n == Len(here)
  <1>1. n \in Nat /\ DOMAIN here = 1..n /\ here = [i \in 1..n |-> here[i]]
    BY DEF FormatInv
  <1> HIDE DEF n
  <1>2. DOMAIN new = 1..n /\ \A i \in 1..n : new[i] = [from |-> here[i].from, item |-> ReadItem(here[i].item)]
    BY <1>1 DEF Reread
  <1>3. new = [i \in 1..n |-> new[i]]
    BY <1>1 DEF Reread
  <1> HIDE DEF new, here
  <1>4. \A i \in 1..n : here[i] \in Range(here) /\ new[i] \in Range(new)
    BY <1>1, <1>2 DEF Range
  <1>5. new \in Seq(Range(new))
    <2> DEFINE R == Range(new)
    <2>2. \A i \in 1..n : new[i] \in R
      BY <1>4
    <2> HIDE DEF R
    <2>1. [i \in 1..n |-> new[i]] \in Seq(R)
      BY <1>1, <2>2
    <2> QED BY <1>3, <2>1 DEF R
  <1>6. ASSUME NEW p \in Range(new)
        PROVE  \E o \in Range(here) : p = [from |-> o.from, item |-> ReadItem(o.item)]
    <2>1. PICK i \in 1..n : p = new[i]
      BY <1>2 DEF Range
    <2> QED BY <1>2, <1>4, <2>1
  <1>7. ASSUME NEW o \in Range(here) PROVE [from |-> o.from, item |-> ReadItem(o.item)] \in Range(new)
    <2>1. PICK i \in 1..n : o = here[i]
      BY <1>1 DEF Range
    <2>2. new[i] = [from |-> o.from, item |-> ReadItem(o.item)]
      BY <1>2, <2>1
    <2> QED BY <1>4, <2>2
  <1>8. ASSUME relayHop > 0 PROVE new = here /\ \A p \in Range(here) : p.item # Invalid
    <2>1. \A p \in Range(here) : /\ p = [from |-> p.from, item |-> p.item]
                                 /\ p.item # Invalid /\ ReadItem(p.item) = p.item
      BY <1>8 DEF FormatInv, Arrived, here
    <2>2. \A i \in 1..n : new[i] = here[i]
      <3> TAKE i \in 1..n
      <3> DEFINE p == here[i]
      <3>1. p \in Range(here) /\ new[i] = [from |-> p.from, item |-> ReadItem(p.item)]
        BY <1>2, <1>4
      <3> HIDE DEF p
      <3>2. new[i] = p
        BY <2>1, <3>1
      <3> QED BY <3>2 DEF p
    <2>3. new = here
      BY <1>1, <1>3, <2>2
    <2> QED BY <2>1, <2>3
  <1> QED BY <1>5, <1>6, <1>7, <1>8 DEF new, here

\* What arrives after the relay is what can be read.
LEMMA RelayIsCrossed ==
    ASSUME FormatInv, CrossRelay, \E E : relayHere' \in Seq(E),
           Range(relayHere') \subseteq {p \in Range(Reread) : p.item # Invalid},
           relayHop > 0 => relayHere' = relayHere
    PROVE  /\ relaySent'.kind \in {"metrics", "points"} /\ relayHop' \in Nat
           /\ \A i \in DOMAIN relaySent'.items : IsItem(relaySent.items[i])'
           /\ \A p \in Range(relayHere') : Arrived(p)'
           /\ relayHop' > 1 => relayHere' = relayBefore'
  <1>1. relaySent' = relaySent /\ relayHop' = relayHop + 1 /\ relayBefore' = relayHere /\ relayHop \in Nat
    BY DEF CrossRelay, FormatInv
  <1>2. relayHop' > 1 => relayHop > 0
    BY <1>1
  <1>3. ASSUME NEW p \in Range(relayHere') PROVE Arrived(p)'
    <2>1. p \in Range(Reread) /\ p.item # Invalid
      OBVIOUS
    <2>2. PICK o \in Range(relayHere) : p = [from |-> o.from, item |-> ReadItem(o.item)]
      BY <2>1, RereadIs
    <2>3. p.from = o.from /\ p.item = ReadItem(o.item)
      BY <2>2
    <2>4. /\ o.from \in DOMAIN relaySent.items /\ IsItem(o.item)
          /\ ToldAs(o.item) = ToldAs(relaySent.items[o.from])
      BY DEF FormatInv, Arrived
    <2>5. IsItem(p.item) /\ ToldAs(p.item) = ToldAs(o.item) /\ ReadItem(p.item) = p.item
      BY <2>1, <2>3, <2>4, ItemIsRead DEF FormatInv
    <2>6. /\ p = [from |-> p.from, item |-> p.item] /\ p.from \in DOMAIN relaySent.items
          /\ IsItem(p.item) /\ ToldAs(p.item) = ToldAs(relaySent.items[p.from])
          /\ p.item # Invalid /\ ReadItem(p.item) = p.item
      BY <2>1, <2>2, <2>3, <2>4, <2>5
    <2>7. relayHop' # 0
      BY <1>1
    <2> QED BY <1>1, <2>6, <2>7 DEF Arrived, IsItem, ToldAs, ReadItem
  <1> QED BY <1>1, <1>2, <1>3 DEF FormatInv, IsItem

LEMMA RelayMetricsKeeps == FormatInv /\ RelayMetrics => FormatInv'
  <1> SUFFICES ASSUME FormatInv, RelayMetrics PROVE FormatInv'
    OBVIOUS
  <1> DEFINE new == Reread
             fails == \E i \in DOMAIN new : new[i].item = Invalid
  <1>1. /\ relaySent.kind = "metrics" /\ CrossRelay /\ relaySent' = relaySent
        /\ relayClosed' = fails /\ relayHere' = IF fails THEN <<>> ELSE new
    BY DEF RelayMetrics, CrossRelay
  <1>2. /\ new \in Seq(Range(new))
        /\ relayHop > 0 => new = relayHere /\ \A p \in Range(new) : p.item # Invalid
    BY RereadIs
  <1>3. \A i \in DOMAIN new : new[i] \in Range(new)
    BY DEF Range
  <1> HIDE DEF new
  <1>4. relayHop > 0 => ~fails
    BY <1>2, <1>3
  <1>5. CASE ~fails
    <2>1. relayHere' = new /\ relayClosed' = FALSE
      BY <1>1, <1>5
    <2>2. Range(new) \subseteq {p \in Range(new) : p.item # Invalid}
      BY <1>5 DEF Range
    <2> HIDE DEF fails
    <2>3. /\ relaySent'.kind \in {"metrics", "points"} /\ relayHop' \in Nat
          /\ \A i \in DOMAIN relaySent'.items : IsItem(relaySent.items[i])'
          /\ \A p \in Range(relayHere') : Arrived(p)'
          /\ relayHop' > 1 => relayHere' = relayBefore'
      BY <1>1, <1>2, <2>1, <2>2, RelayIsCrossed DEF new
    <2>4. relaySent'.kind # "points" /\ \E E : relayHere' \in Seq(E)
      BY <1>1, <1>2, <2>1
    <2> QED BY <2>1, <2>3, <2>4 DEF FormatInv
  <1>6. CASE fails
    <2>1. relayHere' = <<>> /\ relayClosed' = TRUE /\ relayHop = 0
      BY <1>1, <1>4, <1>6 DEF FormatInv
    <2>2. Range(<<>>) = {} /\ <<>> \in Seq({})
      BY EmptySeq DEF Range
    <2>3. \E i \in DOMAIN relaySent.items : Unreadable(relaySent.items[i])
      <3>1. PICK p \in Range(new) : p.item = Invalid
        BY <1>3, <1>6
      <3>2. PICK o \in Range(relayHere) : p = [from |-> o.from, item |-> ReadItem(o.item)]
        BY <3>1, RereadIs DEF new
      <3>3. ReadItem(o.item) = Invalid
        BY <3>1, <3>2
      <3>4. o.from \in DOMAIN relaySent.items /\ IsItem(o.item) /\ o.item = relaySent.items[o.from]
        BY <2>1 DEF FormatInv, Arrived
      <3>5. Unreadable(o.item)
        BY <3>3, <3>4, ItemIsRead DEF FormatInv
      <3> QED BY <3>4, <3>5
    <2> HIDE DEF fails
    <2>4. /\ relaySent'.kind \in {"metrics", "points"} /\ relayHop' \in Nat
          /\ \A i \in DOMAIN relaySent'.items : IsItem(relaySent.items[i])'
          /\ \A p \in Range(relayHere') : Arrived(p)'
          /\ relayHop' > 1 => relayHere' = relayBefore'
      BY <1>1, <2>1, <2>2, RelayIsCrossed
    <2>5. relaySent'.kind = "metrics" /\ \E E : relayHere' \in Seq(E)
      BY <1>1, <2>1, <2>2
    <2>6. \E i \in DOMAIN relaySent'.items : Unreadable(relaySent.items[i])'
      BY <1>1, <2>3 DEF Unreadable
    <2> QED BY <2>1, <2>4, <2>5, <2>6 DEF FormatInv
  <1> QED BY <1>5, <1>6

LEMMA RelayPointsKeeps == FormatInv /\ RelayPoints => FormatInv'
  <1> SUFFICES ASSUME FormatInv, RelayPoints PROVE FormatInv'
    OBVIOUS
  <1> DEFINE new == Reread
             S == {p \in Range(new) : p.item # Invalid}
  <1>1. /\ relaySent.kind = "points" /\ CrossRelay /\ relaySent' = relaySent
        /\ relayClosed' = relayClosed /\ relayHere' = Only(new, S)
    BY DEF RelayPoints, CrossRelay
  <1>2. /\ new \in Seq(Range(new))
        /\ relayHop > 0 => new = relayHere /\ \A p \in Range(new) : p.item # Invalid
    BY RereadIs
  <1> HIDE DEF new
  <1>3. relayHere' \in Seq(Range(new)) /\ Range(relayHere') = S
    <2> DEFINE R == Range(new)
    <2>1. S \subseteq R
      OBVIOUS
    <2> HIDE DEF S, R
    <2>2. new \in Seq(R)
      BY <1>2 DEF R
    <2>3. Only(new, S) \in Seq(R) /\ Range(Only(new, S)) = R \cap S
      BY <2>2, OnlyRange DEF R
    <2>4. R \cap S = S
      BY <2>1
    <2> QED BY <1>1, <2>3, <2>4, Zenon DEF R
  <1>4. ASSUME relayHop > 0 PROVE relayHere' = relayHere
    <2>1. new = relayHere /\ Range(new) \subseteq S
      BY <1>2, <1>4
    <2> HIDE DEF S
    <2> QED BY <1>1, <1>2, <2>1, OnlyAll
  <1>5. /\ relaySent'.kind \in {"metrics", "points"} /\ relayHop' \in Nat
        /\ \A i \in DOMAIN relaySent'.items : IsItem(relaySent.items[i])'
        /\ \A p \in Range(relayHere') : Arrived(p)'
        /\ relayHop' > 1 => relayHere' = relayBefore'
    BY <1>1, <1>3, <1>4, RelayIsCrossed DEF new
  <1>6. ASSUME NEW i \in DOMAIN relaySent.items, i \notin {p.from : p \in Range(relayHere')}
        PROVE  Unreadable(relaySent.items[i])
    <2>1. CASE i \notin {p.from : p \in Range(relayHere)}
      BY <1>1, <2>1 DEF FormatInv
    <2>2. ASSUME NEW o \in Range(relayHere), i = o.from PROVE Unreadable(relaySent.items[i])
      <3> DEFINE p == [from |-> o.from, item |-> ReadItem(o.item)]
      <3>1. p \in Range(new) /\ p.from = i /\ p.item = ReadItem(o.item)
        BY <2>2, RereadIs DEF new
      <3> HIDE DEF p
      <3>2. p.item = Invalid
        BY <1>3, <1>6, <3>1
      <3>3. relayHop = 0
        BY <1>2, <3>1, <3>2 DEF FormatInv
      <3>4. IsItem(o.item) /\ o.item = relaySent.items[i]
        BY <2>2, <3>3 DEF FormatInv, Arrived
      <3> QED BY <3>1, <3>2, <3>4, ItemIsRead DEF FormatInv
    <2> QED BY <2>1, <2>2
  <1>7. \A i \in DOMAIN relaySent'.items \ {p.from : p \in Range(relayHere')} : Unreadable(relaySent.items[i])'
    BY <1>1, <1>6 DEF Unreadable
  <1>8. ~relayClosed'
    BY <1>1 DEF CrossRelay
  <1> QED BY <1>3, <1>5, <1>7, <1>8 DEF FormatInv

\* The agents after a relay tell the same as the first one, whatever the metrics and the points
\* are and however many relays follow each other.
THEOREM RelayKeepsAll == RelayFormatSpec => []RelayKeepsMeanings
  <1>1. FormatInv /\ [RelayFormatNext]_relayFormatVars => FormatInv'
    <2> SUFFICES ASSUME FormatInv, [RelayFormatNext]_relayFormatVars PROVE FormatInv'
      OBVIOUS
    <2>1. CASE UNCHANGED relayFormatVars
      BY <2>1 DEF relayFormatVars, FormatInv, Arrived, IsItem, Unreadable, ToldAs, ReadItem
    <2> QED BY <2>1, RelayMetricsKeeps, RelayPointsKeeps DEF RelayFormatNext
  <1> QED BY <1>1, FormatInvStarts, FormatInvImplies, PTL DEF RelayFormatSpec

-------------------------------------------------------------------------------
(* The lines of the CSV file.                                                  *)

\* Two sequences of states, of which each is found from the one before, end in the same one.
LEMMA SameEnd ==
    ASSUME NEW L \in Nat, NEW g, NEW h, g[0] = h[0],
           \A i \in 1..L : g[i - 1] = h[i - 1] => g[i] = h[i]
    PROVE  g[L] = h[L]
  <1> DEFINE T == {i \in 0..L : g[i] = h[i]}
  <1>1. 0 \in T
    OBVIOUS
  <1>2. \A i \in 1..L : i - 1 \in T => i \in T
    OBVIOUS
  <1> HIDE DEF T
  <1>3. L \in T
    BY <1>1, <1>2, UpTo
  <1> QED BY <1>3 DEF T

\* A reader, whose states are in S, goes from state s to t when it reads the text w.
Reads(S, R, s, w, t) ==
    \E g \in [0..Len(w) -> S] :
        g[0] = s /\ g[Len(w)] = t /\ \A i \in 1..Len(w) : g[i] = R[<<g[i - 1], w[i]>>]

LEMMA ReadsNothing == ASSUME NEW S, NEW R, NEW s \in S PROVE Reads(S, R, s, <<>>, s)
  <1> DEFINE g == [i \in 0..0 |-> s]
  <1>1. g \in [0..0 -> S] /\ g[0] = s /\ Len(<<>>) = 0
    OBVIOUS
  <1> HIDE DEF g
  <1>2. \A i \in 1..0 : FALSE
    OBVIOUS
  <1> QED BY <1>1, <1>2 DEF Reads

LEMMA ReadsOne ==
    ASSUME NEW S, NEW R, NEW s \in S, NEW c, NEW t \in S, t = R[<<s, c>>]
    PROVE  Reads(S, R, s, <<c>>, t)
  <1> DEFINE g == [i \in 0..1 |-> IF i = 0 THEN s ELSE t]
             w == <<c>>
  <1>1. Len(w) = 1 /\ w[1] = c
    OBVIOUS
  <1>2. g \in [0..1 -> S] /\ g[0] = s /\ g[1] = t
    OBVIOUS
  <1> HIDE DEF g, w
  <1>3. \A i \in 1..1 : g[i] = R[<<g[i - 1], w[i]>>]
    <2> TAKE i \in 1..1
    <2>1. i = 1 /\ i - 1 = 0
      OBVIOUS
    <2> QED BY <1>1, <1>2, <2>1
  <1>4. Reads(S, R, s, w, t)
    BY <1>1, <1>2, <1>3 DEF Reads
  <1> QED BY <1>4 DEF w

LEMMA ReadsConcat ==
    ASSUME NEW S, NEW C, NEW R, NEW v \in Seq(C), NEW w \in Seq(C), NEW s, NEW t, NEW u,
           Reads(S, R, s, v, t), Reads(S, R, t, w, u)
    PROVE  Reads(S, R, s, v \o w, u)
  <1> DEFINE m == Len(v)
             n == Len(w)
             vw == v \o w
  <1>1. /\ m \in Nat /\ n \in Nat /\ Len(vw) = m + n
        /\ \A i \in 1..m : vw[i] = v[i]
        /\ \A i \in (m + 1)..(m + n) : vw[i] = w[i - m]
    OBVIOUS
  <1>2. PICK g \in [0..m -> S] : g[0] = s /\ g[m] = t /\ \A i \in 1..m : g[i] = R[<<g[i - 1], v[i]>>]
    BY DEF Reads
  <1>3. PICK h \in [0..n -> S] : h[0] = t /\ h[n] = u /\ \A i \in 1..n : h[i] = R[<<h[i - 1], w[i]>>]
    BY DEF Reads
  <1> DEFINE k == [i \in 0..(m + n) |-> IF i =< m THEN g[i] ELSE h[i - m]]
  <1> HIDE DEF m, n, vw
  <1>4. \A i \in 0..m : k[i] = g[i]
    BY <1>1
  <1>5. \A i \in m..(m + n) : k[i] = h[i - m]
    <2> TAKE i \in m..(m + n)
    <2>1. CASE i = m
      BY <1>1, <1>2, <1>3, <2>1
    <2>2. CASE i # m
      <3>1. ~(i =< m) /\ i \in 0..(m + n)
        BY <1>1, <2>2
      <3> QED BY <3>1
    <2> QED BY <2>1, <2>2
  <1>6. k \in [0..(m + n) -> S]
    <2> SUFFICES ASSUME NEW i \in 0..(m + n) PROVE (IF i =< m THEN g[i] ELSE h[i - m]) \in S
      OBVIOUS
    <2>1. CASE i =< m
      <3>1. i \in 0..m
        BY <1>1, <2>1
      <3> QED BY <1>2, <2>1, <3>1
    <2>2. CASE ~(i =< m)
      <3>1. i - m \in 0..n
        BY <1>1, <2>2
      <3> QED BY <1>3, <2>2, <3>1
    <2> QED BY <2>1, <2>2
  <1> HIDE DEF k
  <1>7. ASSUME NEW i \in 1..(m + n) PROVE k[i] = R[<<k[i - 1], vw[i]>>]
    <2>1. CASE i =< m
      <3>1. i \in 0..m /\ i - 1 \in 0..m /\ i \in 1..m
        BY <1>1, <2>1
      <3>2. k[i] = g[i] /\ k[i - 1] = g[i - 1] /\ vw[i] = v[i]
        BY <1>1, <1>4, <3>1
      <3> QED BY <1>2, <3>1, <3>2
    <2>2. CASE ~(i =< m)
      <3>1. /\ i \in m..(m + n) /\ i - 1 \in m..(m + n) /\ i \in (m + 1)..(m + n) /\ i - m \in 1..n
            /\ (i - 1) - m = (i - m) - 1
        BY <1>1, <2>2
      <3>2. k[i] = h[i - m] /\ k[i - 1] = h[(i - m) - 1] /\ vw[i] = w[i - m]
        BY <1>1, <1>5, <3>1
      <3> QED BY <1>3, <3>1, <3>2
    <2> QED BY <2>1, <2>2
  <1>8. k[0] = s /\ k[m + n] = u
    <2>1. 0 \in 0..m /\ m + n \in m..(m + n) /\ (m + n) - m = n
      BY <1>1
    <2> QED BY <1>2, <1>3, <1>4, <1>5, <2>1
  <1>9. Reads(S, R, s, vw, u)
    <2>1. k \in [0..Len(vw) -> S] /\ k[0] = s /\ k[Len(vw)] = u
      BY <1>1, <1>6, <1>8, Zenon
    <2>2. \A i \in 1..Len(vw) : k[i] = R[<<k[i - 1], vw[i]>>]
      BY <1>1, <1>7, Zenon
    <2> QED BY <2>1, <2>2, Zenon DEF Reads
  <1> QED BY <1>9 DEF vw

\* A sequence of texts, of which a text is made by joining them: g has the text so far.
Joins(C, seqs, L, g) ==
    /\ g \in [0..L -> Seq(C)] /\ g[0] = <<>> /\ Flat(seqs) = g[L]
    /\ \A i \in 1..L : g[i] = g[i - 1] \o seqs[i]

LEMMA FlatIs ==
    ASSUME NEW C, NEW seqs, NEW L \in Nat, seqs \in [1..L -> Seq(C)]
    PROVE  \E g : Joins(C, seqs, L, g)
  <1> DEFINE X == Seq(C)
             F == [q \in X \X (1..L) |-> q[1] \o seqs[q[2]]]
             Is(f) == f = [i \in 0..L |-> IF i = 0 THEN <<>> ELSE f[i - 1] \o seqs[i]]
             flat == CHOOSE f : Is(f)
  <1>1. Len(seqs) = L
    OBVIOUS
  <1>2. <<>> \in X
    OBVIOUS
  <1>3. F \in [X \X (1..L) -> X]
    <2> SUFFICES ASSUME NEW q \in X \X (1..L) PROVE q[1] \o seqs[q[2]] \in X
      OBVIOUS
    <2>1. q[1] \in X /\ seqs[q[2]] \in X
      OBVIOUS
    <2> QED BY <2>1
  <1>4. ASSUME NEW x \in X, NEW i \in 1..L PROVE F[<<x, i>>] = x \o seqs[i]
    OBVIOUS
  <1> HIDE DEF F, X
  <1>5. PICK h \in [0..L -> X] : Follows(h, L, <<>>, F)
    BY <1>2, <1>3, Recursion
  <1>6. ASSUME NEW i \in 0..L PROVE h[i] = IF i = 0 THEN <<>> ELSE h[i - 1] \o seqs[i]
    <2>1. CASE i = 0
      BY <1>5, <2>1 DEF Follows
    <2>2. CASE i # 0
      <3>1. i \in 1..L /\ i - 1 \in 0..L
        BY <2>2
      <3>2. h[i] = F[<<h[i - 1], i>>] /\ h[i - 1] \in X
        BY <1>5, <2>2, <3>1 DEF Follows
      <3> QED BY <1>4, <2>2, <3>1, <3>2
    <2> QED BY <2>1, <2>2
  <1>7. Is(h)
    BY <1>5, <1>6
  <1>8. Is(flat)
    BY <1>7
  <1>9. Flat(seqs) = flat[L]
    BY <1>1 DEF Flat
  <1> HIDE DEF flat
  <1>10. \A i \in 0..L : flat[i] = IF i = 0 THEN <<>> ELSE flat[i - 1] \o seqs[i]
    BY <1>8, Zenon
  <1> HIDE DEF Is
  <1>13. 0 \in 0..L /\ \A i \in 1..L : i \in 0..L /\ i # 0
    OBVIOUS
  <1>12. h[0] = <<>> /\ \A i \in 1..L : h[i] = h[i - 1] \o seqs[i]
    BY <1>6, <1>13, Zenon
  <1>14. flat[0] = <<>> /\ \A i \in 1..L : flat[i] = flat[i - 1] \o seqs[i]
    BY <1>10, <1>13, Zenon
  <1>11. flat[L] = h[L]
    <2>1. flat[0] = h[0]
      BY <1>12, <1>14, Zenon
    <2>2. \A i \in 1..L : flat[i - 1] = h[i - 1] => flat[i] = h[i]
      BY <1>12, <1>14, Zenon
    <2> QED BY <2>1, <2>2, SameEnd
  <1>15. Joins(C, seqs, L, h)
    BY <1>5, <1>9, <1>11, <1>12 DEF X, Joins
  <1> QED BY <1>15

\* A reader of joined texts goes from one to the next.
LEMMA FlatReads ==
    ASSUME NEW S, NEW C, NEW R, NEW L \in Nat, NEW seqs, seqs \in [1..L -> Seq(C)],
           NEW h, h[0] \in S, \A i \in 1..L : Reads(S, R, h[i - 1], seqs[i], h[i])
    PROVE  Flat(seqs) \in Seq(C) /\ Reads(S, R, h[0], Flat(seqs), h[L])
  <1>20. PICK g : Joins(C, seqs, L, g)
    BY FlatIs
  <1>1. /\ g \in [0..L -> Seq(C)] /\ g[0] = <<>> /\ Flat(seqs) = g[L]
        /\ \A i \in 1..L : g[i] = g[i - 1] \o seqs[i]
    BY <1>20 DEF Joins
  <1> DEFINE T == {i \in 0..L : Reads(S, R, h[0], g[i], h[i])}
  <1>2. 0 \in T
    BY <1>1, ReadsNothing
  <1>3. ASSUME NEW i \in 1..L, i - 1 \in T PROVE i \in T
    <2>1. i - 1 \in 0..L /\ i \in 0..L /\ g[i - 1] \in Seq(C) /\ seqs[i] \in Seq(C)
      <3> HIDE DEF T
      <3> DEFINE X == Seq(C)
      <3>1. i - 1 \in 0..L /\ i \in 0..L
        OBVIOUS
      <3>2. g \in [0..L -> X] /\ seqs \in [1..L -> X]
        BY <1>1
      <3> HIDE DEF X
      <3>3. g[i - 1] \in X /\ seqs[i] \in X
        BY <3>1, <3>2
      <3> QED BY <3>1, <3>3 DEF X
    <2>2. Reads(S, R, h[0], g[i - 1], h[i - 1])
      BY <1>3
    <2>3. Reads(S, R, h[0], g[i - 1] \o seqs[i], h[i])
      BY <2>1, <2>2, ReadsConcat
    <2> QED BY <1>1, <2>1, <2>3
  <1> HIDE DEF T
  <1>4. L \in T
    <2>1. \A i \in 0..L : i \in T
      BY <1>2, <1>3, UpTo
    <2> QED BY <2>1
  <1> QED BY <1>1, <1>4 DEF T

\* The characters of a line, and the texts that are made of them.
CsvNames == CsvKeys \union ToSet(CsvColumns)
CsvSigns == {Delimiter, LateDelimiter, QuoteMark, Backslash, EqualSign}
ValueChars == UNION {ToSet(v) : v \in CsvValues}
CsvChars == CsvNames \union ValueChars \union CsvSigns
CsvTexts == Seq(CsvChars)

LEMMA SignsDiffer ==
    /\ Delimiter # QuoteMark /\ Delimiter # Backslash /\ Delimiter # LateDelimiter
    /\ QuoteMark # Backslash /\ QuoteMark # LateDelimiter /\ Backslash # LateDelimiter
    /\ EqualSign # Backslash /\ EqualSign # LateDelimiter
  BY Zenon DEF Delimiter, LateDelimiter, QuoteMark, Backslash, EqualSign

LEMMA SignsAreChars ==
    /\ Delimiter \in CsvChars /\ LateDelimiter \in CsvChars /\ QuoteMark \in CsvChars
    /\ Backslash \in CsvChars /\ EqualSign \in CsvChars
  <1>1. CsvSigns \subseteq CsvChars
    BY DEF CsvChars
  <1> QED BY <1>1 DEF CsvSigns

\* The names of the columns are no signs.
LEMMA NamesArePlain ==
    ASSUME NEW k \in CsvNames
    PROVE  k \in CsvChars /\ k # Backslash /\ k # LateDelimiter
  <1>1. k \in CsvChars
    BY DEF CsvChars
  <1>2. CASE k \in CsvKeys
    BY <1>1, <1>2, CsvAssumption
  <1>3. CASE k \in ToSet(CsvColumns)
    <2>1. PICK i \in 1..2 : k = CsvColumns[i]
      BY <1>3 DEF CsvColumns, ToSet
    <2>2. k = "metric" \/ k = "value"
      BY <2>1 DEF CsvColumns
    <2>3. "metric" # Backslash /\ "value" # Backslash /\ "metric" # LateDelimiter /\ "value" # LateDelimiter
      BY Zenon DEF Backslash, LateDelimiter
    <2> QED BY <1>1, <2>2, <2>3
  <1> QED BY <1>2, <1>3 DEF CsvNames

\* The first characters of a text.
FirstChars(v, i) == [j \in 1..i |-> v[j]]

LEMMA FirstCharsAre ==
    ASSUME NEW C, NEW v \in Seq(C)
    PROVE  /\ FirstChars(v, 0) = <<>> /\ FirstChars(v, Len(v)) = v
           /\ \A i \in 0..Len(v) : FirstChars(v, i) \in Seq(C)
           /\ \A i \in 1..Len(v) : FirstChars(v, i) = Append(FirstChars(v, i - 1), v[i])
  <1> DEFINE n == Len(v)
  <1>1. n \in Nat /\ v = [j \in 1..n |-> v[j]] /\ \A j \in 1..n : v[j] \in C
    OBVIOUS
  <1>2. FirstChars(v, 0) = <<>>
    BY DEF FirstChars
  <1>3. FirstChars(v, n) = v
    BY <1>1 DEF FirstChars
  <1>4. ASSUME NEW i \in 0..n
        PROVE  FirstChars(v, i) \in Seq(C) /\ Len(FirstChars(v, i)) = i /\ DOMAIN FirstChars(v, i) = 1..i
    <2> HIDE DEF n
    <2>1. FirstChars(v, i) \in [1..i -> C] /\ i \in Nat
      BY <1>1 DEF FirstChars
    <2> QED BY <2>1
  <1>5. ASSUME NEW i \in 1..n PROVE FirstChars(v, i) = Append(FirstChars(v, i - 1), v[i])
    <2> HIDE DEF n
    <2> DEFINE a == FirstChars(v, i - 1)
               b == Append(a, v[i])
               c == FirstChars(v, i)
    <2>1. i - 1 \in 0..n /\ i \in 0..n
      BY <1>1
    <2>2. a \in Seq(C) /\ Len(a) = i - 1 /\ c \in Seq(C) /\ Len(c) = i
      BY <1>4, <2>1
    <2>3. \A j \in 1..(i - 1) : a[j] = v[j]
      BY DEF FirstChars
    <2>4. \A j \in 1..i : c[j] = v[j]
      BY DEF FirstChars
    <2> HIDE DEF a, c
    <2>5. b \in Seq(C) /\ Len(b) = i /\ b[i] = v[i] /\ \A j \in 1..(i - 1) : b[j] = a[j]
      BY <1>1, <2>2
    <2> HIDE DEF b
    <2>6. \A j \in 1..i : b[j] = c[j]
      BY <2>3, <2>4, <2>5
    <2>7. b = c
      BY <2>1, <2>2, <2>5, <2>6
    <2> QED BY <2>7 DEF a, b, c
  <1> QED BY <1>2, <1>3, <1>4, <1>5

\* The reader of the cells, as a function.
CellState == [cells : Seq(CsvTexts), cell : CsvTexts, quoted : BOOLEAN, closed : BOOLEAN]
CellReader == [q \in CellState \X CsvChars |-> ReadCell(q[1], q[2])]
ReadsCells(s, w, t) == Reads(CellState, CellReader, s, w, t)

LEMMA CellsAreRead ==
    ASSUME NEW s \in CellState, NEW c \in CsvChars
    PROVE  ReadCell(s, c) \in CellState /\ CellReader[<<s, c>>] = ReadCell(s, c)
  <1> SUFFICES ReadCell(s, c) \in CellState
    BY DEF CellReader
  <1>1. /\ s.cells \in Seq(CsvTexts) /\ s.cell \in CsvTexts /\ s.quoted \in BOOLEAN
    BY DEF CellState
  <1>2. Append(s.cell, c) \in CsvTexts /\ <<>> \in CsvTexts
    BY <1>1 DEF CsvTexts
  <1>3. Append(s.cells, s.cell) \in Seq(CsvTexts)
    BY <1>1
  <1>4. ASSUME NEW cs \in Seq(CsvTexts), NEW x \in CsvTexts, NEW p \in BOOLEAN, NEW q \in BOOLEAN
        PROVE  Reading(cs, x, p, q) \in CellState
    BY DEF Reading, CellState
  <1>5. CASE c = QuoteMark /\ s.quoted
    <2>1. ReadCell(s, c) = Reading(s.cells, s.cell, FALSE, TRUE)
      BY Zenon, <1>5 DEF ReadCell
    <2> QED BY <1>1, <1>4, <2>1
  <1>6. CASE c = QuoteMark /\ ~s.quoted
    <2> DEFINE x == IF s.closed THEN Append(s.cell, c) ELSE s.cell
    <2>1. ReadCell(s, c) = Reading(s.cells, x, TRUE, FALSE)
      BY Zenon, <1>6 DEF ReadCell
    <2>2. x \in CsvTexts
      BY <1>1, <1>2
    <2> HIDE DEF x
    <2> QED BY <1>1, <1>4, <2>1, <2>2
  <1>7. CASE c # QuoteMark /\ c = Delimiter /\ ~s.quoted
    <2>1. ReadCell(s, c) = Reading(Append(s.cells, s.cell), <<>>, FALSE, FALSE)
      BY Zenon, <1>7 DEF ReadCell
    <2> QED BY <1>2, <1>3, <1>4, <2>1
  <1>8. CASE c # QuoteMark /\ ~(c = Delimiter /\ ~s.quoted)
    <2>1. ReadCell(s, c) = Reading(s.cells, Append(s.cell, c), s.quoted, FALSE)
      BY Zenon, <1>8 DEF ReadCell
    <2> QED BY <1>1, <1>2, <1>4, <2>1
  <1> QED BY <1>5, <1>6, <1>7, <1>8

\* A state of the reader of the cells.
LEMMA ReadingIs ==
    ASSUME NEW cs \in Seq(CsvTexts), NEW x \in CsvTexts, NEW q \in BOOLEAN, NEW o \in BOOLEAN
    PROVE  /\ Reading(cs, x, q, o) \in CellState
           /\ Reading(cs, x, q, o).cells = cs /\ Reading(cs, x, q, o).cell = x
           /\ Reading(cs, x, q, o).quoted = q /\ Reading(cs, x, q, o).closed = o
  BY DEF Reading, CellState

\* One character is read.
LEMMA OneCell ==
    ASSUME NEW s \in CellState, NEW c \in CsvChars
    PROVE  ReadsCells(s, <<c>>, ReadCell(s, c)) /\ ReadCell(s, c) \in CellState
  <1> DEFINE t == ReadCell(s, c)
  <1>1. t \in CellState /\ t = CellReader[<<s, c>>]
    BY CellsAreRead
  <1> HIDE DEF t
  <1>2. Reads(CellState, CellReader, s, <<c>>, t)
    BY <1>1, ReadsOne
  <1> QED BY <1>1, <1>2 DEF t, ReadsCells

\* A text without quotes and delimiters is read as it is.
LEMMA PlainIsRead ==
    ASSUME NEW cs \in Seq(CsvTexts), NEW v \in CsvTexts,
           \A i \in 1..Len(v) : v[i] # Delimiter /\ v[i] # QuoteMark
    PROVE  ReadsCells(Reading(cs, <<>>, FALSE, FALSE), v, Reading(cs, v, FALSE, FALSE))
  <1> DEFINE n == Len(v)
             g == [i \in 0..n |-> Reading(cs, FirstChars(v, i), FALSE, FALSE)]
  <1>1. n \in Nat /\ \A i \in 1..n : v[i] \in CsvChars
    BY DEF CsvTexts
  <1>2. /\ FirstChars(v, 0) = <<>> /\ FirstChars(v, n) = v
        /\ \A i \in 0..n : FirstChars(v, i) \in CsvTexts
        /\ \A i \in 1..n : FirstChars(v, i) = Append(FirstChars(v, i - 1), v[i])
    BY FirstCharsAre DEF CsvTexts
  <1> HIDE DEF n
  <1>3. \A i \in 0..n : g[i] = Reading(cs, FirstChars(v, i), FALSE, FALSE) /\ g[i] \in CellState
    BY <1>2, ReadingIs
  <1>4. g \in [0..n -> CellState]
    BY <1>3
  <1> HIDE DEF g
  <1>5. g[0] = Reading(cs, <<>>, FALSE, FALSE) /\ g[n] = Reading(cs, v, FALSE, FALSE)
    <2>1. 0 \in 0..n /\ n \in 0..n
      BY <1>1
    <2> QED BY <1>2, <1>3, <2>1
  <1>6. ASSUME NEW i \in 1..n PROVE g[i] = CellReader[<<g[i - 1], v[i]>>]
    <2>1. i - 1 \in 0..n /\ i \in 0..n /\ v[i] \in CsvChars /\ v[i] # Delimiter /\ v[i] # QuoteMark
      BY <1>1 DEF n
    <2> DEFINE x == FirstChars(v, i - 1)
    <2>2. x \in CsvTexts /\ g[i - 1] = Reading(cs, x, FALSE, FALSE) /\ g[i - 1] \in CellState
      BY <1>2, <1>3, <2>1
    <2>3. g[i] = Reading(cs, Append(x, v[i]), FALSE, FALSE)
      BY <1>2, <1>3, <2>1
    <2> HIDE DEF x
    <2>4. /\ g[i - 1].cells = cs /\ g[i - 1].cell = x /\ g[i - 1].quoted = FALSE
      <3> DEFINE m == Reading(cs, x, FALSE, FALSE)
      <3>1. m.cells = cs /\ m.cell = x /\ m.quoted = FALSE
        BY <2>2, ReadingIs
      <3> QED BY <2>2, <3>1
    <2>5. ReadCell(g[i - 1], v[i]) = Reading(cs, Append(x, v[i]), FALSE, FALSE)
      BY Zenon, <2>1, <2>4 DEF ReadCell
    <2> QED BY <2>1, <2>2, <2>3, <2>5, CellsAreRead
  <1> QED BY <1>4, <1>5, <1>6 DEF ReadsCells, Reads, n

\* Inside of quotes, two quotes are read as one and any other character as itself.
LEMMA QuotesAreRead ==
    ASSUME NEW cs \in Seq(CsvTexts), NEW v \in CsvTexts
    PROVE  /\ Replaced(v, QuoteMark, <<QuoteMark, QuoteMark>>) \in CsvTexts
           /\ ReadsCells(Reading(cs, <<>>, TRUE, FALSE), Replaced(v, QuoteMark, <<QuoteMark, QuoteMark>>),
                         Reading(cs, v, TRUE, FALSE))
  <1> DEFINE n == Len(v)
             h == [i \in 0..n |-> Reading(cs, FirstChars(v, i), TRUE, FALSE)]
             two == <<QuoteMark, QuoteMark>>
             seqs == [i \in DOMAIN v |-> IF v[i] = QuoteMark THEN two ELSE <<v[i]>>]
  <1>1. n \in Nat /\ DOMAIN v = 1..n /\ \A i \in 1..n : v[i] \in CsvChars
    BY DEF CsvTexts
  <1>2. /\ FirstChars(v, 0) = <<>> /\ FirstChars(v, n) = v
        /\ \A i \in 0..n : FirstChars(v, i) \in CsvTexts
        /\ \A i \in 1..n : FirstChars(v, i) = Append(FirstChars(v, i - 1), v[i])
    BY FirstCharsAre DEF CsvTexts
  <1>3. two \in Seq(CsvChars) /\ <<QuoteMark>> \in Seq(CsvChars) /\ two = <<QuoteMark>> \o <<QuoteMark>>
    BY SignsAreChars
  <1>4. Replaced(v, QuoteMark, two) = Flat(seqs)
    BY DEF Replaced
  <1> HIDE DEF n, two
  <1>5. ASSUME NEW i \in 1..n PROVE <<v[i]>> \in Seq(CsvChars)
    <2>1. v[i] \in CsvChars
      BY <1>1
    <2> QED BY <2>1
  <1>6. \A i \in 1..n : seqs[i] = IF v[i] = QuoteMark THEN two ELSE <<v[i]>>
    BY <1>1
  <1>7. seqs \in [1..n -> Seq(CsvChars)]
    <2> DEFINE X == Seq(CsvChars)
    <2>1. \A i \in 1..n : <<v[i]>> \in X /\ two \in X
      BY <1>3, <1>5
    <2> HIDE DEF X
    <2>2. seqs \in [1..n -> X]
      BY <1>1, <2>1
    <2> QED BY <2>2 DEF X
  <1>8. \A i \in 0..n : h[i] = Reading(cs, FirstChars(v, i), TRUE, FALSE) /\ h[i] \in CellState
    BY <1>2, ReadingIs
  <1>9. h[0] = Reading(cs, <<>>, TRUE, FALSE) /\ h[n] = Reading(cs, v, TRUE, FALSE) /\ h[0] \in CellState
    <2>1. 0 \in 0..n /\ n \in 0..n
      BY <1>1
    <2> HIDE DEF h
    <2> QED BY <1>2, <1>8, <2>1
  <1> HIDE DEF h, seqs
  <1>10. ASSUME NEW i \in 1..n PROVE Reads(CellState, CellReader, h[i - 1], seqs[i], h[i])
    <2>1. i - 1 \in 0..n /\ i \in 0..n /\ v[i] \in CsvChars
      BY <1>1
    <2> DEFINE x == FirstChars(v, i - 1)
    <2>2. x \in CsvTexts /\ h[i - 1] = Reading(cs, x, TRUE, FALSE) /\ h[i - 1] \in CellState
      BY <1>2, <1>8, <2>1
    <2>3. h[i] = Reading(cs, Append(x, v[i]), TRUE, FALSE)
      BY <1>2, <1>8, <2>1
    <2> HIDE DEF x
    <2>4. /\ h[i - 1].cells = cs /\ h[i - 1].cell = x /\ h[i - 1].quoted = TRUE
      <3> DEFINE m == Reading(cs, x, TRUE, FALSE)
      <3>1. m.cells = cs /\ m.cell = x /\ m.quoted = TRUE
        BY <2>2, ReadingIs
      <3> QED BY <2>2, <3>1
    <2>5. CASE v[i] # QuoteMark
      <3>1. ReadCell(h[i - 1], v[i]) = Reading(cs, Append(x, v[i]), TRUE, FALSE)
        BY Zenon, <2>4, <2>5 DEF ReadCell
      <3>2. ReadsCells(h[i - 1], <<v[i]>>, h[i])
        BY <2>1, <2>2, <2>3, <3>1, OneCell
      <3>3. seqs[i] = <<v[i]>>
        BY <1>6, <2>5
      <3> QED BY <3>2, <3>3 DEF ReadsCells
    <2>6. CASE v[i] = QuoteMark
      <3> DEFINE m == Reading(cs, x, FALSE, TRUE)
      <3>1. ReadCell(h[i - 1], QuoteMark) = m
        BY Zenon, <2>4 DEF ReadCell
      <3>2. /\ m \in CellState /\ m.cells = cs /\ m.cell = x /\ m.quoted = FALSE /\ m.closed = TRUE
        BY <2>2, ReadingIs
      <3> HIDE DEF m
      <3>3. ReadCell(m, QuoteMark) = Reading(cs, Append(x, QuoteMark), TRUE, FALSE)
        BY Zenon, <3>2 DEF ReadCell
      <3>4. Reads(CellState, CellReader, h[i - 1], <<QuoteMark>>, m)
        BY <2>2, <3>1, OneCell, SignsAreChars DEF ReadsCells
      <3>5. Reads(CellState, CellReader, m, <<QuoteMark>>, h[i])
        BY <2>3, <2>6, <3>2, <3>3, OneCell, SignsAreChars DEF ReadsCells
      <3>6. Reads(CellState, CellReader, h[i - 1], <<QuoteMark>> \o <<QuoteMark>>, h[i])
        BY <1>3, <3>4, <3>5, ReadsConcat
      <3>7. seqs[i] = two
        BY <1>6, <2>6
      <3> QED BY <1>3, <3>6, <3>7
    <2> QED BY <2>5, <2>6
  <1>11. Flat(seqs) \in Seq(CsvChars) /\ Reads(CellState, CellReader, h[0], Flat(seqs), h[n])
    BY <1>1, <1>7, <1>9, <1>10, FlatReads
  <1> QED BY <1>4, <1>9, <1>11 DEF ReadsCells, CsvTexts, two

\* An escaped text is read as the text.
LEMMA CellIsRead ==
    ASSUME NEW cs \in Seq(CsvTexts), NEW v \in CsvTexts
    PROVE  /\ EscapeString(v) \in CsvTexts
           /\ \E o \in BOOLEAN :
                ReadsCells(Reading(cs, <<>>, FALSE, FALSE), EscapeString(v), Reading(cs, v, FALSE, o))
  <1>1. CASE ToSet(v) \intersect ({Delimiter, QuoteMark} \union LineBreaks) = {}
    <2>1. EscapeString(v) = v
      BY Zenon, <1>1 DEF EscapeString
    <2>2. \A i \in 1..Len(v) : v[i] # Delimiter /\ v[i] # QuoteMark
      <3>1. \A i \in 1..Len(v) : v[i] \in ToSet(v)
        BY DEF ToSet, CsvTexts
      <3> QED BY <1>1, <3>1
    <2> QED BY <2>1, <2>2, PlainIsRead
  <1>2. CASE ToSet(v) \intersect ({Delimiter, QuoteMark} \union LineBreaks) # {}
    <2> DEFINE q == <<QuoteMark>>
               r == Replaced(v, QuoteMark, <<QuoteMark, QuoteMark>>)
               a == Reading(cs, <<>>, FALSE, FALSE)
               b == Reading(cs, <<>>, TRUE, FALSE)
               c == Reading(cs, v, TRUE, FALSE)
               d == Reading(cs, v, FALSE, TRUE)
    <2>1. EscapeString(v) = (q \o r) \o q
      BY Zenon, <1>2 DEF EscapeString
    <2>2. r \in Seq(CsvChars) /\ Reads(CellState, CellReader, b, r, c)
      BY QuotesAreRead DEF CsvTexts, ReadsCells
    <2>3. q \in Seq(CsvChars)
      BY SignsAreChars
    <2>9. <<>> \in CsvTexts
      BY DEF CsvTexts
    <2>4. /\ a \in CellState /\ a.cells = cs /\ a.cell = <<>> /\ a.quoted = FALSE /\ a.closed = FALSE
          /\ c \in CellState /\ c.cells = cs /\ c.cell = v /\ c.quoted = TRUE
      BY <2>9, ReadingIs
    <2> HIDE DEF a, c, r
    <2>5. ReadCell(a, QuoteMark) = b
      BY Zenon, <2>4 DEF ReadCell
    <2>6. ReadCell(c, QuoteMark) = d
      BY Zenon, <2>4 DEF ReadCell
    <2>7. Reads(CellState, CellReader, a, q, b)
      BY <2>4, <2>5, OneCell, SignsAreChars DEF ReadsCells
    <2>8. Reads(CellState, CellReader, c, q, d)
      BY <2>4, <2>6, OneCell, SignsAreChars DEF ReadsCells
    <2> HIDE DEF b, d, q
    <2>10. q \o r \in Seq(CsvChars) /\ (q \o r) \o q \in Seq(CsvChars)
      BY <2>2, <2>3
    <2>11. Reads(CellState, CellReader, a, q \o r, c)
      BY <2>2, <2>3, <2>7, ReadsConcat
    <2>12. Reads(CellState, CellReader, a, (q \o r) \o q, d)
      BY <2>3, <2>8, <2>10, <2>11, ReadsConcat
    <2> QED BY <2>1, <2>10, <2>12 DEF ReadsCells, CsvTexts, a, d
  <1> QED BY <1>1, <1>2

\* What a reader of a line ends with is what CellsOf takes.
LEMMA CellsOfIs ==
    ASSUME NEW line \in CsvTexts, NEW t, ReadsCells(Reading(<<>>, <<>>, FALSE, FALSE), line, t)
    PROVE  CellsOf(line) = Append(t.cells, t.cell)
  <1> DEFINE L == Len(line)
             s == Reading(<<>>, <<>>, FALSE, FALSE)
             Is(f) == f = [i \in 0..L |-> IF i = 0 THEN s ELSE ReadCell(f[i - 1], line[i])]
             read == CHOOSE f : Is(f)
  <1>1. L \in Nat /\ \A i \in 1..L : line[i] \in CsvChars
    BY DEF CsvTexts
  <1>2. CellsOf(line) = Append(read[L].cells, read[L].cell)
    BY DEF CellsOf
  <1> HIDE DEF L, s
  <1>3. PICK g \in [0..L -> CellState] :
            g[0] = s /\ g[L] = t /\ \A i \in 1..L : g[i] = CellReader[<<g[i - 1], line[i]>>]
    BY DEF ReadsCells, Reads, L, s
  <1>4. ASSUME NEW i \in 1..L PROVE g[i] = ReadCell(g[i - 1], line[i])
    <2>1. i - 1 \in 0..L /\ g[i - 1] \in CellState /\ line[i] \in CsvChars
      BY <1>1
    <2> QED BY <1>3, <2>1, CellsAreRead
  <1>5. \A i \in 0..L : g[i] = IF i = 0 THEN s ELSE ReadCell(g[i - 1], line[i])
    <2> TAKE i \in 0..L
    <2>1. i # 0 => i \in 1..L
      BY <1>1
    <2> QED BY <1>3, <1>4, <2>1
  <1>6. Is(g)
    BY <1>5
  <1>7. Is(read)
    BY <1>6
  <1> HIDE DEF read
  <1>8. \A i \in 0..L : read[i] = IF i = 0 THEN s ELSE ReadCell(read[i - 1], line[i])
    BY <1>7, Zenon
  <1>9. 0 \in 0..L /\ \A i \in 1..L : i \in 0..L /\ i # 0
    BY <1>1
  <1>10. read[0] = s /\ \A i \in 1..L : read[i] = ReadCell(read[i - 1], line[i])
    BY <1>8, <1>9, Zenon
  <1>11. read[0] = g[0] /\ \A i \in 1..L : read[i - 1] = g[i - 1] => read[i] = g[i]
    BY <1>3, <1>4, <1>10, Zenon
  <1>12. read[L] = g[L]
    BY <1>1, <1>11, SameEnd
  <1> QED BY <1>2, <1>3, <1>12

\* What a line holds of a point in a column.
ColumnOf(header, data, i) == IF header[i] \in DOMAIN data THEN data[header[i]] ELSE <<>>
ColumnsOf(header, data) == [i \in DOMAIN header |-> ColumnOf(header, data, i)]

\* A column is read with its delimiter.
LEMMA ColumnIsRead ==
    ASSUME NEW cs \in Seq(CsvTexts), NEW v \in CsvTexts, NEW e,
           e = EscapeString(v) \/ (e = <<>> /\ v = <<>>)
    PROVE  /\ e \o <<Delimiter>> \in CsvTexts
           /\ ReadsCells(Reading(cs, <<>>, FALSE, FALSE), e \o <<Delimiter>>,
                         Reading(Append(cs, v), <<>>, FALSE, FALSE))
  <1> DEFINE a == Reading(cs, <<>>, FALSE, FALSE)
             d == Reading(Append(cs, v), <<>>, FALSE, FALSE)
             q == <<Delimiter>>
  <1>1. \E o \in BOOLEAN : e \in Seq(CsvChars) /\ Reads(CellState, CellReader, a, e, Reading(cs, v, FALSE, o))
    <2>1. CASE e = EscapeString(v)
      <3> HIDE DEF a
      <3> QED BY <2>1, CellIsRead DEF ReadsCells, CsvTexts, a
    <2>2. CASE e = <<>> /\ v = <<>>
      <3>1. <<>> \in CsvTexts /\ <<>> \in Seq(CsvChars)
        BY DEF CsvTexts
      <3>2. a \in CellState
        BY <3>1, ReadingIs
      <3>3. a = Reading(cs, v, FALSE, FALSE)
        BY <2>2
      <3> HIDE DEF a
      <3>4. Reads(CellState, CellReader, a, <<>>, a)
        BY <3>2, ReadsNothing
      <3> QED BY <2>2, <3>1, <3>3, <3>4
    <2> QED BY <2>1, <2>2
  <1>2. PICK o \in BOOLEAN : e \in Seq(CsvChars) /\ Reads(CellState, CellReader, a, e, Reading(cs, v, FALSE, o))
    BY <1>1
  <1> DEFINE b == Reading(cs, v, FALSE, o)
  <1>3. b \in CellState /\ b.cells = cs /\ b.cell = v /\ b.quoted = FALSE
    <2>1. CASE o = TRUE
      <3> DEFINE m == Reading(cs, v, FALSE, TRUE)
      <3>1. m \in CellState /\ m.cells = cs /\ m.cell = v /\ m.quoted = FALSE
        BY ReadingIs
      <3> QED BY <2>1, <3>1
    <2>2. CASE o = FALSE
      <3> DEFINE m == Reading(cs, v, FALSE, FALSE)
      <3>1. m \in CellState /\ m.cells = cs /\ m.cell = v /\ m.quoted = FALSE
        BY ReadingIs
      <3> QED BY <2>2, <3>1
    <2> QED BY <2>1, <2>2
  <1>4. Reads(CellState, CellReader, a, e, b)
    BY <1>2
  <1> HIDE DEF a, b
  <1>5. ReadCell(b, Delimiter) = d
    BY Zenon, <1>3, SignsDiffer DEF ReadCell
  <1>6. Reads(CellState, CellReader, b, q, d)
    BY <1>3, <1>5, OneCell, SignsAreChars DEF ReadsCells
  <1>7. q \in Seq(CsvChars)
    BY SignsAreChars
  <1> HIDE DEF q, d
  <1>8. e \o q \in Seq(CsvChars)
    BY <1>2, <1>7
  <1>9. Reads(CellState, CellReader, a, e \o q, d)
    BY <1>2, <1>4, <1>6, <1>7, ReadsConcat
  <1> QED BY <1>8, <1>9 DEF ReadsCells, CsvTexts, a, d, q

\* The known columns are read one after the other.
KnownCells(header, data) ==
    Flat([i \in DOMAIN header |->
        (IF header[i] \in DOMAIN data THEN EscapeString(data[header[i]]) ELSE <<>>) \o <<Delimiter>>])

LEMMA ColumnsAreRead ==
    ASSUME NEW header \in Seq(CsvNames), NEW data, \A k \in DOMAIN data : data[k] \in CsvTexts
    PROVE  /\ KnownCells(header, data) \in CsvTexts
           /\ ColumnsOf(header, data) \in Seq(CsvTexts)
           /\ ReadsCells(Reading(<<>>, <<>>, FALSE, FALSE), KnownCells(header, data),
                         Reading(ColumnsOf(header, data), <<>>, FALSE, FALSE))
  <1> DEFINE n == Len(header)
             vs == ColumnsOf(header, data)
             text(i) == (IF header[i] \in DOMAIN data THEN EscapeString(data[header[i]]) ELSE <<>>) \o <<Delimiter>>
             seqs == [i \in DOMAIN header |-> text(i)]
             h == [i \in 0..n |-> Reading(FirstChars(vs, i), <<>>, FALSE, FALSE)]
             empty == <<>>
  <1>1. n \in Nat /\ DOMAIN header = 1..n
    OBVIOUS
  <1>2. KnownCells(header, data) = Flat(seqs)
    BY DEF KnownCells
  <1> HIDE DEF n
  <1>3. empty \in CsvTexts
    BY DEF CsvTexts
  <1>4. \A i \in 1..n : vs[i] = ColumnOf(header, data, i)
    BY <1>1 DEF ColumnsOf
  <1>5. vs \in [1..n -> CsvTexts]
    <2> SUFFICES ASSUME NEW i \in 1..n PROVE ColumnOf(header, data, i) \in CsvTexts
      BY <1>1 DEF ColumnsOf
    <2> QED BY <1>3 DEF ColumnOf
  <1>6. vs \in Seq(CsvTexts) /\ Len(vs) = n
    BY <1>1, <1>5
  <1> HIDE DEF vs, empty
  <1>7. /\ FirstChars(vs, 0) = <<>> /\ FirstChars(vs, n) = vs
        /\ \A i \in 0..n : FirstChars(vs, i) \in Seq(CsvTexts)
        /\ \A i \in 1..n : FirstChars(vs, i) = Append(FirstChars(vs, i - 1), vs[i])
    BY <1>6, FirstCharsAre
  <1>8. \A i \in 0..n : h[i] = Reading(FirstChars(vs, i), <<>>, FALSE, FALSE) /\ h[i] \in CellState
    BY <1>3, <1>7, ReadingIs DEF empty
  <1>9. /\ h[0] = Reading(<<>>, <<>>, FALSE, FALSE) /\ h[0] \in CellState
        /\ h[n] = Reading(vs, <<>>, FALSE, FALSE)
    <2>1. 0 \in 0..n /\ n \in 0..n
      BY <1>1
    <2> HIDE DEF h
    <2> QED BY <1>7, <1>8, <2>1
  <1>10. \A i \in 1..n : seqs[i] = text(i)
    BY <1>1
  <1> HIDE DEF h
  <1>11. ASSUME NEW i \in 1..n
         PROVE  text(i) \in CsvTexts /\ ReadsCells(h[i - 1], text(i), h[i])
    <2>1. i - 1 \in 0..n /\ i \in 0..n
      BY <1>1
    <2> DEFINE cs == FirstChars(vs, i - 1)
               v == vs[i]
               e == IF header[i] \in DOMAIN data THEN EscapeString(data[header[i]]) ELSE <<>>
    <2>2. cs \in Seq(CsvTexts) /\ h[i - 1] = Reading(cs, <<>>, FALSE, FALSE)
      BY <1>7, <1>8, <2>1
    <2>3. h[i] = Reading(Append(cs, v), <<>>, FALSE, FALSE)
      BY <1>7, <1>8, <2>1
    <2>4. v \in CsvTexts /\ v = ColumnOf(header, data, i)
      BY <1>4, <1>5
    <2> HIDE DEF cs, v
    <2>5. e = EscapeString(v) \/ (e = <<>> /\ v = <<>>)
      <3>1. CASE header[i] \in DOMAIN data
        <4>1. v = data[header[i]]
          BY Zenon, <2>4, <3>1 DEF ColumnOf
        <4>2. e = EscapeString(data[header[i]])
          BY Zenon, <3>1
        <4> HIDE DEF e
        <4> QED BY <4>1, <4>2
      <3>2. CASE header[i] \notin DOMAIN data
        <4>1. v = <<>>
          BY Zenon, <2>4, <3>2 DEF ColumnOf
        <4> QED BY Zenon, <3>2, <4>1
      <3> QED BY <3>1, <3>2
    <2>6. text(i) = e \o <<Delimiter>>
      OBVIOUS
    <2> HIDE DEF e, text
    <2> QED BY <2>2, <2>3, <2>4, <2>5, <2>6, ColumnIsRead
  <1>12. seqs \in [1..n -> CsvTexts]
    <2>1. \A i \in 1..n : text(i) \in CsvTexts
      BY <1>11
    <2> HIDE DEF text
    <2> QED BY <1>1, <2>1
  <1>13. \A i \in 1..n : Reads(CellState, CellReader, h[i - 1], seqs[i], h[i])
    <2> HIDE DEF seqs, text
    <2> QED BY <1>10, <1>11 DEF ReadsCells
  <1> HIDE DEF seqs, text
  <1>14. Flat(seqs) \in Seq(CsvChars) /\ Reads(CellState, CellReader, h[0], Flat(seqs), h[n])
    BY <1>1, <1>9, <1>12, <1>13, FlatReads DEF CsvTexts
  <1> QED BY <1>2, <1>6, <1>9, <1>14 DEF ReadsCells, CsvTexts, vs

\* A line is read as its columns and the text in the last one.
LEMMA CellsAreColumns ==
    ASSUME NEW header \in Seq(CsvNames), NEW data, \A k \in DOMAIN data : data[k] \in CsvTexts,
           NEW text \in CsvTexts
    PROVE  CellsOf(KnownCells(header, data) \o EscapeString(text))
              = Append(ColumnsOf(header, data), text)
  <1> DEFINE known == KnownCells(header, data)
             vs == ColumnsOf(header, data)
             a == Reading(<<>>, <<>>, FALSE, FALSE)
             b == Reading(vs, <<>>, FALSE, FALSE)
             e == EscapeString(text)
  <1>1. /\ known \in Seq(CsvChars) /\ vs \in Seq(CsvTexts)
        /\ Reads(CellState, CellReader, a, known, b)
    BY ColumnsAreRead DEF ReadsCells, CsvTexts
  <1> HIDE DEF vs, known
  <1>2. PICK o \in BOOLEAN :
            e \in Seq(CsvChars) /\ Reads(CellState, CellReader, b, e, Reading(vs, text, FALSE, o))
    BY <1>1, CellIsRead DEF ReadsCells, CsvTexts
  <1> DEFINE d == Reading(vs, text, FALSE, o)
  <1>3. d.cells = vs /\ d.cell = text
    BY <1>1, ReadingIs
  <1>4. Reads(CellState, CellReader, b, e, d)
    BY <1>2
  <1> HIDE DEF a, b, d, e
  <1>5. known \o e \in Seq(CsvChars) /\ Reads(CellState, CellReader, a, known \o e, d)
    BY <1>1, <1>2, <1>4, ReadsConcat
  <1>6. CellsOf(known \o e) = Append(d.cells, d.cell)
    BY <1>5, CellsOfIs DEF ReadsCells, CsvTexts, a
  <1> QED BY <1>3, <1>6 DEF known, vs, e

\* The reader of the last column, as a function.
LateState == [done : Seq(CsvTexts), text : CsvTexts, escaped : BOOLEAN]
LateReader == [q \in LateState \X CsvChars |-> ReadLate(q[1], q[2])]
ReadsLate(s, w, t) == Reads(LateState, LateReader, s, w, t)

LEMMA LateIsRead ==
    ASSUME NEW s \in LateState, NEW c \in CsvChars
    PROVE  ReadLate(s, c) \in LateState /\ LateReader[<<s, c>>] = ReadLate(s, c)
  <1> SUFFICES ReadLate(s, c) \in LateState
    BY DEF LateReader
  <1>1. /\ s.done \in Seq(CsvTexts) /\ s.text \in CsvTexts /\ s.escaped \in BOOLEAN
    BY DEF LateState
  <1>2. Append(s.text, c) \in CsvTexts /\ <<>> \in CsvTexts
    BY <1>1 DEF CsvTexts
  <1>3. Append(s.done, s.text) \in Seq(CsvTexts)
    BY <1>1
  <1>4. ASSUME NEW d \in Seq(CsvTexts), NEW x \in CsvTexts, NEW e \in BOOLEAN
        PROVE  ReadingLate(d, x, e) \in LateState
    BY DEF ReadingLate, LateState
  <1>5. CASE c = Backslash /\ ~s.escaped
    <2>1. ReadLate(s, c) = ReadingLate(s.done, s.text, TRUE)
      BY Zenon, <1>5 DEF ReadLate
    <2> QED BY <1>1, <1>4, <2>1
  <1>6. CASE ~(c = Backslash /\ ~s.escaped) /\ c = LateDelimiter /\ ~s.escaped
    <2>1. ReadLate(s, c) = ReadingLate(Append(s.done, s.text), <<>>, FALSE)
      BY Zenon, <1>6 DEF ReadLate
    <2> QED BY <1>2, <1>3, <1>4, <2>1
  <1>7. CASE ~(c = Backslash /\ ~s.escaped) /\ ~(c = LateDelimiter /\ ~s.escaped)
    <2>1. ReadLate(s, c) = ReadingLate(s.done, Append(s.text, c), FALSE)
      BY Zenon, <1>7 DEF ReadLate
    <2> QED BY <1>1, <1>2, <1>4, <2>1
  <1> QED BY <1>5, <1>6, <1>7

\* A state of the reader of the last column.
LEMMA ReadingLateIs ==
    ASSUME NEW d \in Seq(CsvTexts), NEW x \in CsvTexts, NEW e \in BOOLEAN
    PROVE  /\ ReadingLate(d, x, e) \in LateState
           /\ ReadingLate(d, x, e).done = d /\ ReadingLate(d, x, e).text = x
           /\ ReadingLate(d, x, e).escaped = e
  BY DEF ReadingLate, LateState

\* One character is read.
LEMMA OneLate ==
    ASSUME NEW s \in LateState, NEW c \in CsvChars
    PROVE  ReadsLate(s, <<c>>, ReadLate(s, c)) /\ ReadLate(s, c) \in LateState
  <1> DEFINE t == ReadLate(s, c)
  <1>1. t \in LateState /\ t = LateReader[<<s, c>>]
    BY LateIsRead
  <1> HIDE DEF t
  <1>2. Reads(LateState, LateReader, s, <<c>>, t)
    BY <1>1, ReadsOne
  <1> QED BY <1>1, <1>2 DEF t, ReadsLate

\* Characters that are neither a backslash nor a late delimiter are read as they are.
LEMMA PlainLate ==
    ASSUME NEW d \in Seq(CsvTexts), NEW x \in CsvTexts, NEW c \in CsvChars,
           c # Backslash, c # LateDelimiter
    PROVE  /\ Append(x, c) \in CsvTexts
           /\ ReadsLate(ReadingLate(d, x, FALSE), <<c>>, ReadingLate(d, Append(x, c), FALSE))
  <1> DEFINE s == ReadingLate(d, x, FALSE)
  <1>1. s \in LateState /\ s.done = d /\ s.text = x /\ s.escaped = FALSE
    BY ReadingLateIs
  <1> HIDE DEF s
  <1>2. ReadLate(s, c) = ReadingLate(d, Append(x, c), FALSE)
    BY Zenon, <1>1 DEF ReadLate
  <1>3. Append(x, c) \in CsvTexts
    BY DEF CsvTexts
  <1> QED BY <1>1, <1>2, <1>3, OneLate DEF s

\* What a reader of the last column ends with is what LateTexts takes.
LEMMA LateTextsIs ==
    ASSUME NEW cell \in CsvTexts, NEW t, ReadsLate(ReadingLate(<<>>, <<>>, FALSE), cell, t)
    PROVE  LateTexts(cell) = IF cell = <<>> THEN <<>> ELSE Append(t.done, t.text)
  <1> DEFINE L == Len(cell)
             s == ReadingLate(<<>>, <<>>, FALSE)
             Is(f) == f = [i \in 0..L |-> IF i = 0 THEN s ELSE ReadLate(f[i - 1], cell[i])]
             read == CHOOSE f : Is(f)
  <1>1. L \in Nat /\ \A i \in 1..L : cell[i] \in CsvChars
    BY DEF CsvTexts
  <1>2. LateTexts(cell) = IF cell = <<>> THEN <<>> ELSE Append(read[L].done, read[L].text)
    BY DEF LateTexts
  <1> HIDE DEF L, s
  <1>3. PICK g \in [0..L -> LateState] :
            g[0] = s /\ g[L] = t /\ \A i \in 1..L : g[i] = LateReader[<<g[i - 1], cell[i]>>]
    BY DEF ReadsLate, Reads, L, s
  <1>4. ASSUME NEW i \in 1..L PROVE g[i] = ReadLate(g[i - 1], cell[i])
    <2>1. i - 1 \in 0..L /\ g[i - 1] \in LateState /\ cell[i] \in CsvChars
      BY <1>1
    <2> QED BY <1>3, <2>1, LateIsRead
  <1>5. \A i \in 0..L : g[i] = IF i = 0 THEN s ELSE ReadLate(g[i - 1], cell[i])
    <2> TAKE i \in 0..L
    <2>1. i # 0 => i \in 1..L
      BY <1>1
    <2> QED BY <1>3, <1>4, <2>1
  <1>6. Is(g)
    BY <1>5
  <1>7. Is(read)
    BY <1>6
  <1> HIDE DEF read
  <1>8. \A i \in 0..L : read[i] = IF i = 0 THEN s ELSE ReadLate(read[i - 1], cell[i])
    BY <1>7, Zenon
  <1>9. 0 \in 0..L /\ \A i \in 1..L : i \in 0..L /\ i # 0
    BY <1>1
  <1>10. read[0] = s /\ \A i \in 1..L : read[i] = ReadLate(read[i - 1], cell[i])
    BY <1>8, <1>9, Zenon
  <1>11. read[0] = g[0] /\ \A i \in 1..L : read[i - 1] = g[i - 1] => read[i] = g[i]
    BY <1>3, <1>4, <1>10, Zenon
  <1>12. read[L] = g[L]
    BY <1>1, <1>11, SameEnd
  <1> QED BY <1>2, <1>3, <1>12

\* A text and one that follows it.
LEMMA JoinedIs ==
    ASSUME NEW C, NEW v \in Seq(C), NEW w \in Seq(C)
    PROVE  /\ v \o w \in Seq(C) /\ Len(v) \in Nat /\ Len(w) \in Nat /\ Len(v \o w) = Len(v) + Len(w)
           /\ \A i \in 1..Len(v) : (v \o w)[i] = v[i]
           /\ \A i \in (Len(v) + 1)..(Len(v) + Len(w)) : (v \o w)[i] = w[i - Len(v)]
  OBVIOUS

LEMMA AppendedIs ==
    ASSUME NEW C, NEW v \in Seq(C), NEW e \in C
    PROVE  /\ Append(v, e) \in Seq(C) /\ Len(Append(v, e)) = Len(v) + 1
           /\ Append(v, e)[Len(v) + 1] = e /\ \A i \in 1..Len(v) : Append(v, e)[i] = v[i]
  OBVIOUS

\* Two characters.
LEMMA PairIs ==
    ASSUME NEW C, NEW c \in C, NEW e \in C
    PROVE  /\ <<c, e>> \in Seq(C) /\ <<c>> \in Seq(C) /\ <<e>> \in Seq(C)
           /\ <<c>> \o <<e>> = <<c, e>> /\ Append(<<c>>, e) = <<c, e>>
  <1> DEFINE a == <<c>>
             b == <<e>>
             x == a \o b
             y == <<c, e>>
             z == Append(a, e)
  <1>1. /\ a \in Seq(C) /\ Len(a) = 1 /\ a[1] = c
        /\ b \in Seq(C) /\ Len(b) = 1 /\ b[1] = e
    OBVIOUS
  <1>2. y \in Seq(C) /\ Len(y) = 2 /\ y[1] = c /\ y[2] = e
    OBVIOUS
  <1> HIDE DEF a, b, y
  <1>3. z \in Seq(C) /\ Len(z) = 2 /\ z[1] = c /\ z[2] = e
    <2>1. a \in Seq(C)
      BY <1>1
    <2>2. z \in Seq(C) /\ Len(z) = Len(a) + 1 /\ z[Len(a) + 1] = e /\ \A i \in 1..Len(a) : z[i] = a[i]
      <3>1. Append(a, e) \in Seq(C) /\ Len(Append(a, e)) = Len(a) + 1
        BY <2>1, AppendedIs, Zenon
      <3>2. Append(a, e)[Len(a) + 1] = e
        BY <2>1, AppendedIs, Zenon
      <3>3. \A i \in 1..Len(a) : Append(a, e)[i] = a[i]
        BY <2>1
      <3> HIDE DEF a
      <3> QED BY <3>1, <3>2, <3>3, Zenon
    <2> HIDE DEF z
    <2> QED BY <1>1, <2>2
  <1>4. /\ x \in Seq(C) /\ Len(a) \in Nat /\ Len(b) \in Nat /\ Len(x) = Len(a) + Len(b)
        /\ \A i \in 1..Len(a) : x[i] = a[i]
        /\ \A i \in (Len(a) + 1)..(Len(a) + Len(b)) : x[i] = b[i - Len(a)]
    <2>1. a \in Seq(C) /\ b \in Seq(C)
      BY <1>1
    <2> QED BY <2>1, JoinedIs, Zenon
  <1> HIDE DEF x, z
  <1>5. x \in Seq(C) /\ Len(x) = 2 /\ x[1] = c /\ x[2] = e
    BY <1>1, <1>4
  <1>6. ASSUME NEW s \in Seq(C), NEW t \in Seq(C), Len(s) = 2, Len(t) = 2, s[1] = t[1], s[2] = t[2]
        PROVE  s = t
    <2>1. \A i \in 1..2 : s[i] = t[i]
      BY <1>6
    <2> QED BY <1>6, <2>1
  <1>7. x = y /\ z = y
    BY <1>2, <1>3, <1>5, <1>6
  <1> QED BY <1>1, <1>2, <1>7 DEF x, y, z, a, b

\* Two characters are read one after the other.
LEMMA TwoLate ==
    ASSUME NEW s \in LateState, NEW c \in CsvChars, NEW e \in CsvChars, NEW m \in LateState, NEW t,
           ReadsLate(s, <<c>>, m), ReadsLate(m, <<e>>, t)
    PROVE  <<c, e>> \in CsvTexts /\ ReadsLate(s, <<c, e>>, t)
  <1> DEFINE a == <<c>>
             b == <<e>>
  <1>1. a \in Seq(CsvChars) /\ b \in Seq(CsvChars) /\ a \o b = <<c, e>> /\ <<c, e>> \in Seq(CsvChars)
    BY PairIs, Zenon
  <1> HIDE DEF a, b
  <1>2. Reads(LateState, LateReader, s, a, m) /\ Reads(LateState, LateReader, m, b, t)
    BY DEF ReadsLate, a, b
  <1>3. Reads(LateState, LateReader, s, a \o b, t)
    BY <1>1, <1>2, ReadsConcat
  <1> QED BY <1>1, <1>3 DEF ReadsLate, CsvTexts

\* A name, an equal sign and a value.
Attribute(k, v) == <<k, EqualSign>> \o v

LEMMA AttributeIs ==
    ASSUME NEW k \in CsvNames, NEW v \in CsvTexts
    PROVE  /\ Attribute(k, v) \in CsvTexts /\ Len(Attribute(k, v)) = Len(v) + 2
           /\ Attribute(k, v)[1] = k /\ \A i \in 1..Len(v) : Attribute(k, v)[i + 2] = v[i]
           /\ FirstChars(Attribute(k, v), 2) = <<k, EqualSign>>
           /\ SubSeq(Attribute(k, v), 3, Len(Attribute(k, v))) = v
  <1> DEFINE n == Len(v)
             p == <<k, EqualSign>>
             w == p \o v
  <1>1. p \in Seq(CsvChars) /\ Len(p) = 2 /\ p[1] = k
    BY NamesArePlain, SignsAreChars
  <1>2. v \in Seq(CsvChars) /\ n \in Nat
    BY DEF CsvTexts
  <1>3. p = [j \in 1..2 |-> p[j]]
    BY <1>1
  <1> HIDE DEF p
  <1>4. /\ w \in Seq(CsvChars) /\ Len(w) = n + 2
        /\ w[1] = p[1] /\ w[2] = p[2] /\ \A i \in 1..n : w[i + 2] = v[i]
    <2>7. /\ w \in Seq(CsvChars) /\ Len(p) \in Nat /\ Len(v) \in Nat /\ Len(w) = Len(p) + Len(v)
          /\ \A i \in 1..Len(p) : w[i] = p[i]
          /\ \A i \in (Len(p) + 1)..(Len(p) + Len(v)) : w[i] = v[i - Len(p)]
      BY <1>1, <1>2, JoinedIs, Zenon
    <2>1. w \in Seq(CsvChars) /\ Len(w) = 2 + n
      BY <1>1, <2>7
    <2>2. /\ \A i \in 1..2 : w[i] = p[i]
          /\ \A i \in (2 + 1)..(2 + n) : w[i] = v[i - 2]
      BY <1>1, <2>7
    <2> HIDE DEF w, n
    <2>3. \A i \in 1..n : i + 2 \in (2 + 1)..(2 + n) /\ (i + 2) - 2 = i
      BY <1>2
    <2>4. 1 \in 1..2 /\ 2 \in 1..2 /\ 2 + n = n + 2
      BY <1>2
    <2>5. w[1] = p[1] /\ w[2] = p[2]
      BY <2>2, <2>4
    <2>6. \A i \in 1..n : w[i + 2] = v[i]
      BY <2>2, <2>3
    <2> QED BY <2>1, <2>4, <2>5, <2>6
  <1>5. FirstChars(w, 2) = p
    <2>1. \A j \in 1..2 : w[j] = p[j]
      BY <1>4
    <2> HIDE DEF w
    <2> QED BY <1>3, <2>1 DEF FirstChars
  <1> HIDE DEF w
  <1>6. SubSeq(w, 3, n + 2) = v
    <2> DEFINE u == SubSeq(w, 3, n + 2)
    <2>1. u \in Seq(CsvChars) /\ Len(u) = n /\ \A i \in 1..n : u[i] = w[i + 2]
      BY <1>2, <1>4
    <2> HIDE DEF u
    <2>2. u = v
      BY <1>2, <1>4, <2>1
    <2> QED BY <2>2 DEF u
  <1> QED BY <1>1, <1>4, <1>5, <1>6 DEF Attribute, CsvTexts, w, p

\* The value of an attribute is read from its escaped text.
LEMMA ValueIsRead ==
    ASSUME NEW d \in Seq(CsvTexts), NEW k \in CsvNames, NEW v \in CsvTexts, Backslash \notin ToSet(v)
    PROVE  /\ EscapeLate(v) \in CsvTexts
           /\ ReadsLate(ReadingLate(d, <<k, EqualSign>>, FALSE), EscapeLate(v),
                        ReadingLate(d, Attribute(k, v), FALSE))
  <1> DEFINE n == Len(v)
             w == Attribute(k, v)
             h == [i \in 0..n |-> ReadingLate(d, FirstChars(w, i + 2), FALSE)]
             two == <<Backslash, LateDelimiter>>
             seqs == [i \in DOMAIN v |-> IF v[i] = LateDelimiter THEN two ELSE <<v[i]>>]
  <1>1. /\ n \in Nat /\ DOMAIN v = 1..n
        /\ \A i \in 1..n : v[i] \in CsvChars /\ v[i] # Backslash
    BY DEF CsvTexts, ToSet
  <1>2. /\ w \in CsvTexts /\ Len(w) = n + 2 /\ FirstChars(w, 2) = <<k, EqualSign>>
        /\ \A i \in 1..n : w[i + 2] = v[i]
    BY AttributeIs
  <1>3. two \in Seq(CsvChars)
    BY SignsAreChars
  <1>4. EscapeLate(v) = Flat(seqs)
    BY Zenon DEF EscapeLate, Replaced
  <1> HIDE DEF n, two, w
  <1>5. /\ FirstChars(w, n + 2) = w
        /\ \A i \in 0..(n + 2) : FirstChars(w, i) \in CsvTexts
        /\ \A i \in 1..(n + 2) : FirstChars(w, i) = Append(FirstChars(w, i - 1), w[i])
    BY <1>2, FirstCharsAre DEF CsvTexts
  <1>6. /\ \A i \in 0..n : FirstChars(w, i + 2) \in CsvTexts
        /\ \A i \in 1..n : FirstChars(w, i + 2) = Append(FirstChars(w, (i - 1) + 2), v[i])
    <2>1. \A i \in 0..n : i + 2 \in 0..(n + 2)
      BY <1>1
    <2>2. \A i \in 1..n : i + 2 \in 1..(n + 2) /\ (i + 2) - 1 = (i - 1) + 2
      BY <1>1
    <2> QED BY <1>2, <1>5, <2>1, <2>2
  <1>7. \A i \in 1..n : seqs[i] = IF v[i] = LateDelimiter THEN two ELSE <<v[i]>>
    BY <1>1
  <1>8. seqs \in [1..n -> Seq(CsvChars)]
    <2> DEFINE X == Seq(CsvChars)
    <2>1. ASSUME NEW i \in 1..n PROVE <<v[i]>> \in X
      <3>1. v[i] \in CsvChars
        BY <1>1
      <3> QED BY <3>1
    <2>2. two \in X
      BY <1>3
    <2> HIDE DEF X
    <2>3. seqs \in [1..n -> X]
      BY <1>1, <2>1, <2>2
    <2> QED BY <2>3 DEF X
  <1>9. \A i \in 0..n : h[i] = ReadingLate(d, FirstChars(w, i + 2), FALSE) /\ h[i] \in LateState
    BY <1>6, ReadingLateIs
  <1> HIDE DEF h, seqs
  <1>10. /\ h[0] = ReadingLate(d, <<k, EqualSign>>, FALSE) /\ h[0] \in LateState
         /\ h[n] = ReadingLate(d, w, FALSE)
    <2>1. 0 \in 0..n /\ n \in 0..n /\ 0 + 2 = 2
      BY <1>1
    <2> QED BY <1>2, <1>5, <1>9, <2>1
  <1>11. ASSUME NEW i \in 1..n PROVE Reads(LateState, LateReader, h[i - 1], seqs[i], h[i])
    <2>1. i - 1 \in 0..n /\ i \in 0..n /\ v[i] \in CsvChars /\ v[i] # Backslash
      BY <1>1
    <2> DEFINE x == FirstChars(w, (i - 1) + 2)
    <2>2. x \in CsvTexts /\ h[i - 1] = ReadingLate(d, x, FALSE) /\ h[i - 1] \in LateState
      BY <1>6, <1>9, <2>1
    <2>3. h[i] = ReadingLate(d, Append(x, v[i]), FALSE)
      BY <1>6, <1>9, <2>1
    <2> HIDE DEF x
    <2>4. CASE v[i] # LateDelimiter
      <3>1. ReadsLate(h[i - 1], <<v[i]>>, h[i])
        BY <2>1, <2>2, <2>3, <2>4, PlainLate
      <3>2. seqs[i] = <<v[i]>>
        BY <1>7, <2>4
      <3> QED BY <3>1, <3>2 DEF ReadsLate
    <2>5. CASE v[i] = LateDelimiter
      <3> DEFINE s == h[i - 1]
                 m == ReadingLate(d, x, TRUE)
                 a == ReadingLate(d, x, FALSE)
      <3>1. a \in LateState /\ a.done = d /\ a.text = x /\ a.escaped = FALSE
        BY <2>2, ReadingLateIs
      <3>2. m \in LateState /\ m.done = d /\ m.text = x /\ m.escaped = TRUE
        BY <2>2, ReadingLateIs
      <3>3. s = a
        BY <2>2
      <3> HIDE DEF s, m, a
      <3>4. ReadLate(s, Backslash) = m
        BY Zenon, <3>1, <3>3 DEF ReadLate, m
      <3>5. ReadLate(m, LateDelimiter) = ReadingLate(d, Append(x, LateDelimiter), FALSE)
        BY Zenon, <3>2, SignsDiffer DEF ReadLate
      <3>6. ReadsLate(s, <<Backslash>>, m)
        BY <3>1, <3>3, <3>4, OneLate, SignsAreChars
      <3>7. ReadsLate(m, <<LateDelimiter>>, h[i])
        BY <2>3, <2>5, <3>2, <3>5, OneLate, SignsAreChars
      <3>8. ReadsLate(s, two, h[i])
        BY <3>1, <3>2, <3>3, <3>6, <3>7, TwoLate, SignsAreChars DEF two
      <3>9. seqs[i] = two
        BY <1>7, <2>5
      <3> QED BY <3>8, <3>9 DEF ReadsLate, s
    <2> QED BY <2>4, <2>5
  <1>12. Flat(seqs) \in Seq(CsvChars) /\ Reads(LateState, LateReader, h[0], Flat(seqs), h[n])
    BY <1>1, <1>8, <1>10, <1>11, FlatReads
  <1> QED BY <1>4, <1>10, <1>12 DEF ReadsLate, CsvTexts, w

\* An attribute is read, and what ends it.
LEMMA AttributeIsRead ==
    ASSUME NEW d \in Seq(CsvTexts), NEW k \in CsvNames, NEW v \in CsvTexts, Backslash \notin ToSet(v)
    PROVE  /\ <<k, EqualSign>> \o EscapeLate(v) \in CsvTexts
           /\ ReadsLate(ReadingLate(d, <<>>, FALSE), <<k, EqualSign>> \o EscapeLate(v),
                        ReadingLate(d, Attribute(k, v), FALSE))
           /\ (<<k, EqualSign>> \o EscapeLate(v)) \o <<LateDelimiter>> \in CsvTexts
           /\ ReadsLate(ReadingLate(d, <<>>, FALSE), (<<k, EqualSign>> \o EscapeLate(v)) \o <<LateDelimiter>>,
                        ReadingLate(Append(d, Attribute(k, v)), <<>>, FALSE))
  <1> DEFINE w == Attribute(k, v)
             e == EscapeLate(v)
             p == <<k, EqualSign>>
             q == <<LateDelimiter>>
             a == ReadingLate(d, <<>>, FALSE)
             one == ReadingLate(d, <<k>>, FALSE)
             b == ReadingLate(d, p, FALSE)
             c == ReadingLate(d, w, FALSE)
             f == ReadingLate(Append(d, w), <<>>, FALSE)
  <1>1. <<>> \in CsvTexts /\ Append(<<>>, k) = <<k>> /\ Append(<<k>>, EqualSign) = p
    <2>1. <<>> \in CsvTexts
      BY DEF CsvTexts
    <2>2. Append(<<>>, k) = <<k>>
      OBVIOUS
    <2>3. Append(<<k>>, EqualSign) = <<k, EqualSign>>
      BY NamesArePlain, SignsAreChars, PairIs, Zenon
    <2> QED BY <2>1, <2>2, <2>3
  <1>2. k \in CsvChars /\ k # Backslash /\ k # LateDelimiter
    BY NamesArePlain
  <1>3. <<k>> \in CsvTexts /\ ReadsLate(a, <<k>>, one)
    BY <1>1, <1>2, PlainLate
  <1>4. p \in CsvTexts /\ ReadsLate(one, <<EqualSign>>, b)
    BY <1>1, <1>3, PlainLate, SignsAreChars, SignsDiffer
  <1>5. a \in LateState /\ one \in LateState
    BY <1>1, <1>3, ReadingLateIs
  <1>6. e \in CsvTexts /\ ReadsLate(b, e, c)
    BY ValueIsRead
  <1>7. w \in CsvTexts
    BY AttributeIs
  <1>8. c \in LateState /\ c.done = d /\ c.text = w /\ c.escaped = FALSE
    BY <1>7, ReadingLateIs
  <1>9. q \in Seq(CsvChars)
    BY SignsAreChars
  <1> HIDE DEF a, b, c, w, e, one
  <1>10. ReadsLate(a, p, b)
    BY <1>2, <1>3, <1>4, <1>5, TwoLate, SignsAreChars
  <1> HIDE DEF p
  <1>11. Reads(LateState, LateReader, a, p \o e, c) /\ p \o e \in Seq(CsvChars)
    <2>1. p \in Seq(CsvChars) /\ e \in Seq(CsvChars)
      BY <1>4, <1>6 DEF CsvTexts
    <2>2. Reads(LateState, LateReader, a, p, b) /\ Reads(LateState, LateReader, b, e, c)
      BY <1>6, <1>10 DEF ReadsLate
    <2> QED BY <2>1, <2>2, ReadsConcat
  <1>12. ReadLate(c, LateDelimiter) = f
    BY Zenon, <1>8, SignsDiffer DEF ReadLate
  <1>13. Reads(LateState, LateReader, c, q, f)
    BY <1>8, <1>12, OneLate, SignsAreChars DEF ReadsLate
  <1> HIDE DEF q, f
  <1>14. (p \o e) \o q \in Seq(CsvChars) /\ Reads(LateState, LateReader, a, (p \o e) \o q, f)
    <2> DEFINE y == p \o e
    <2>1. y \in Seq(CsvChars) /\ Reads(LateState, LateReader, a, y, c)
      BY <1>11
    <2> HIDE DEF y
    <2>2. y \o q \in Seq(CsvChars) /\ Reads(LateState, LateReader, a, y \o q, f)
      BY <1>9, <1>13, <2>1, ReadsConcat
    <2> QED BY <2>2 DEF y
  <1> QED BY <1>11, <1>14 DEF ReadsLate, CsvTexts, a, c, f, w, e, p, q

\* The texts of the attributes in the last column.
LateCell(late, data) ==
    Flat([i \in DOMAIN late |-> <<late[i], EqualSign>> \o EscapeLate(data[late[i]])
            \o (IF i = Len(late) THEN <<>> ELSE <<LateDelimiter>>)])
AttributesOf(late, data) == [i \in DOMAIN late |-> Attribute(late[i], data[late[i]])]

\* The last column is read as the attributes that it was made of.
LEMMA LateTextsAreRead ==
    ASSUME NEW late \in Seq(CsvNames), NEW data,
           \A i \in DOMAIN late : data[late[i]] \in CsvTexts /\ Backslash \notin ToSet(data[late[i]])
    PROVE  /\ LateCell(late, data) \in CsvTexts
           /\ LateTexts(LateCell(late, data)) = AttributesOf(late, data)
  <1> DEFINE n == Len(late)
             ws == AttributesOf(late, data)
             text(i) == <<late[i], EqualSign>> \o EscapeLate(data[late[i]])
                            \o (IF i = n THEN <<>> ELSE <<LateDelimiter>>)
             seqs == [i \in DOMAIN late |-> text(i)]
             open(i) == ReadingLate(FirstChars(ws, i), <<>>, FALSE)
             end(i) == ReadingLate(FirstChars(ws, i - 1), ws[i], FALSE)
             h == [i \in 0..n |-> IF i = n /\ i # 0 THEN end(i) ELSE open(i)]
  <1>1. n \in Nat /\ DOMAIN late = 1..n
    OBVIOUS
  <1>2. LateCell(late, data) = Flat(seqs)
    BY DEF LateCell
  <1> HIDE DEF n
  <1>3. ASSUME NEW i \in 1..n
        PROVE  /\ late[i] \in CsvNames /\ data[late[i]] \in CsvTexts
               /\ Backslash \notin ToSet(data[late[i]])
               /\ ws[i] = Attribute(late[i], data[late[i]]) /\ ws[i] \in CsvTexts /\ ws[i] # <<>>
    <2>1. /\ late[i] \in CsvNames /\ data[late[i]] \in CsvTexts
          /\ Backslash \notin ToSet(data[late[i]])
      BY <1>1
    <2>2. ws[i] = Attribute(late[i], data[late[i]])
      BY <1>1 DEF AttributesOf
    <2>3. ws[i] \in CsvTexts /\ Len(ws[i]) = Len(data[late[i]]) + 2
      BY <2>1, <2>2, AttributeIs
    <2>4. Len(data[late[i]]) \in Nat
      BY <2>1 DEF CsvTexts
    <2>5. ws[i] # <<>>
      <3> DEFINE w == ws[i]
                 m == Len(data[late[i]])
      <3>1. Len(w) = m + 2 /\ m \in Nat
        BY <2>3, <2>4
      <3> HIDE DEF w, m
      <3>2. w # <<>>
        BY <3>1, EmptySeq
      <3> QED BY <3>2 DEF w
    <2> QED BY <2>1, <2>2, <2>3, <2>5
  <1>4. ws \in [1..n -> CsvTexts]
    <2>1. DOMAIN ws = 1..n /\ ws = [i \in 1..n |-> ws[i]]
      BY <1>1 DEF AttributesOf
    <2> HIDE DEF ws
    <2> QED BY <1>3, <2>1
  <1>5. ws \in Seq(CsvTexts) /\ Len(ws) = n
    BY <1>1, <1>4
  <1> HIDE DEF ws
  <1>6. /\ FirstChars(ws, 0) = <<>> /\ FirstChars(ws, n) = ws
        /\ \A i \in 0..n : FirstChars(ws, i) \in Seq(CsvTexts)
        /\ \A i \in 1..n : FirstChars(ws, i) = Append(FirstChars(ws, i - 1), ws[i])
    BY <1>5, FirstCharsAre
  <1>7. ASSUME NEW i \in 0..n PROVE open(i) \in LateState
    <2>1. <<>> \in CsvTexts
      BY DEF CsvTexts
    <2> QED BY <1>6, <2>1, ReadingLateIs
  <1>8. ASSUME NEW i \in 1..n
        PROVE  /\ Reads(LateState, LateReader, open(i - 1), text(i), IF i = n THEN end(i) ELSE open(i))
               /\ text(i) \in Seq(CsvChars)
    <2> DEFINE d == FirstChars(ws, i - 1)
               k == late[i]
               v == data[late[i]]
               p == <<k, EqualSign>> \o EscapeLate(v)
    <2>1. i - 1 \in 0..n
      BY <1>1
    <2>2. d \in Seq(CsvTexts) /\ FirstChars(ws, i) = Append(d, ws[i])
      BY <1>6, <2>1
    <2>3. k \in CsvNames /\ v \in CsvTexts /\ Backslash \notin ToSet(v) /\ ws[i] = Attribute(k, v)
      BY <1>3
    <2>4. text(i) = p \o (IF i = n THEN <<>> ELSE <<LateDelimiter>>)
      OBVIOUS
    <2>5. open(i - 1) = ReadingLate(d, <<>>, FALSE)
      OBVIOUS
    <2>6. end(i) = ReadingLate(d, Attribute(k, v), FALSE)
      BY <2>3
    <2>7. open(i) = ReadingLate(Append(d, Attribute(k, v)), <<>>, FALSE)
      BY <2>2, <2>3
    <2> HIDE DEF d, k, v, text, open, end
    <2>8. /\ p \in CsvTexts /\ ReadsLate(ReadingLate(d, <<>>, FALSE), p, ReadingLate(d, Attribute(k, v), FALSE))
          /\ p \o <<LateDelimiter>> \in CsvTexts
          /\ ReadsLate(ReadingLate(d, <<>>, FALSE), p \o <<LateDelimiter>>,
                       ReadingLate(Append(d, Attribute(k, v)), <<>>, FALSE))
      BY <2>2, <2>3, AttributeIsRead, Zenon
    <2> HIDE DEF p
    <2>9. CASE i = n
      <3>1. p \o <<>> = p
        <4>1. p \in Seq(CsvChars)
          BY <2>8 DEF CsvTexts
        <4> QED BY <4>1
      <3>2. text(i) = p
        BY <2>4, <2>9, <3>1
      <3> QED BY <2>5, <2>6, <2>8, <2>9, <3>2 DEF ReadsLate, CsvTexts
    <2>10. CASE i # n
      <3>1. text(i) = p \o <<LateDelimiter>>
        BY <2>4, <2>10
      <3> QED BY <2>5, <2>7, <2>8, <2>10, <3>1 DEF ReadsLate, CsvTexts
    <2> QED BY <2>9, <2>10
  <1> HIDE DEF open, end
  <1>9. \A i \in 0..n : h[i] = IF i = n /\ i # 0 THEN end(i) ELSE open(i)
    OBVIOUS
  <1>10. \A i \in 1..n : seqs[i] = text(i)
    BY <1>1
  <1>11. seqs \in [1..n -> Seq(CsvChars)]
    <2>1. \A i \in 1..n : text(i) \in Seq(CsvChars)
      BY <1>8
    <2> HIDE DEF text
    <2> QED BY <1>1, <2>1
  <1> HIDE DEF h, seqs, text
  <1>12. h[0] = open(0) /\ h[0] \in LateState
    <2>1. 0 \in 0..n
      BY <1>1
    <2> QED BY <1>7, <1>9, <2>1
  <1>13. ASSUME NEW i \in 1..n PROVE Reads(LateState, LateReader, h[i - 1], seqs[i], h[i])
    <2>1. i - 1 \in 0..n /\ i \in 0..n /\ i - 1 # n /\ i # 0
      BY <1>1
    <2>2. h[i - 1] = open(i - 1) /\ h[i] = IF i = n THEN end(i) ELSE open(i)
      BY <1>9, <2>1
    <2> QED BY <1>8, <1>10, <2>2
  <1>14. Flat(seqs) \in Seq(CsvChars) /\ Reads(LateState, LateReader, h[0], Flat(seqs), h[n])
    BY <1>1, <1>11, <1>12, <1>13, FlatReads
  <1>15. open(0) = ReadingLate(<<>>, <<>>, FALSE)
    BY <1>6 DEF open
  <1>16. LateTexts(Flat(seqs)) = IF Flat(seqs) = <<>> THEN <<>> ELSE Append(h[n].done, h[n].text)
    BY <1>12, <1>14, <1>15, LateTextsIs DEF ReadsLate, CsvTexts
  <1>17. CASE n = 0
    <2>1. PICK g : Joins(CsvChars, seqs, n, g)
      BY <1>1, <1>11, FlatIs
    <2>2. Flat(seqs) = <<>>
      BY <1>17, <2>1 DEF Joins
    <2>3. ws = <<>>
      BY <1>6, <1>17
    <2> QED BY <1>2, <1>14, <1>16, <2>2, <2>3 DEF CsvTexts, ws
  <1>18. CASE n # 0
    <2>1. n \in 1..n /\ n \in 0..n /\ n - 1 \in 0..n
      BY <1>1, <1>18
    <2> DEFINE d == FirstChars(ws, n - 1)
    <2>2. h[n] = ReadingLate(d, ws[n], FALSE)
      BY <1>9, <1>18, <2>1 DEF end
    <2>3. d \in Seq(CsvTexts) /\ ws[n] \in CsvTexts /\ ws[n] # <<>> /\ ws = Append(d, ws[n])
      BY <1>3, <1>6, <2>1
    <2> HIDE DEF d
    <2>4. h[n].done = d /\ h[n].text = ws[n]
      <3> DEFINE m == ReadingLate(d, ws[n], FALSE)
      <3>1. m.done = d /\ m.text = ws[n]
        BY <2>3, ReadingLateIs
      <3> QED BY <2>2, <3>1
    <2>5. h[0].text = <<>>
      <3> DEFINE m == ReadingLate(<<>>, <<>>, FALSE)
      <3>1. m.text = <<>>
        BY DEF ReadingLate
      <3> QED BY <1>12, <1>15, <3>1
    <2>6. Flat(seqs) # <<>>
      <3> SUFFICES ASSUME Flat(seqs) = <<>> PROVE FALSE
        OBVIOUS
      <3>1. Len(Flat(seqs)) = 0
        OBVIOUS
      <3>2. h[0] = h[n]
        BY <1>14, <3>1 DEF Reads
      <3> QED BY <2>3, <2>4, <2>5, <3>2
    <2> QED BY <1>2, <1>14, <1>16, <2>3, <2>4, <2>6 DEF CsvTexts, ws
  <1> QED BY <1>17, <1>18

\* The attributes are found again.
LEMMA AttributesAreFound ==
    ASSUME NEW K, IsFiniteSet(K), K \subseteq CsvNames, NEW data,
           \A k \in K : data[k] \in CsvTexts /\ Backslash \notin ToSet(data[k])
    PROVE  /\ LateCell(SetToSeq(K), data) \in CsvTexts
           /\ LateOf(LateCell(SetToSeq(K), data)) = [k \in K |-> data[k]]
  <1> DEFINE late == SetToSeq(K)
             n == Len(late)
             texts == AttributesOf(late, data)
             cell == LateCell(late, data)
  <1>1. /\ late \in Seq(K) /\ \A x \in K : \E i \in DOMAIN late : late[i] = x
        /\ \A i, j \in DOMAIN late : late[i] = late[j] => i = j
    BY SequenceHasSet
  <1> HIDE DEF late
  <1>2. n \in Nat /\ DOMAIN late = 1..n /\ \A i \in 1..n : late[i] \in K
    BY <1>1
  <1>3. late \in Seq(CsvNames)
    BY <1>1
  <1>4. cell \in CsvTexts /\ LateTexts(cell) = texts
    BY <1>2, <1>3, LateTextsAreRead
  <1> HIDE DEF cell
  <1>5. DOMAIN texts = 1..n
    BY <1>2 DEF AttributesOf
  <1>6. ASSUME NEW i \in 1..n
        PROVE  texts[i][1] = late[i] /\ SubSeq(texts[i], 3, Len(texts[i])) = data[late[i]]
    <2>1. texts[i] = Attribute(late[i], data[late[i]])
      BY <1>2 DEF AttributesOf
    <2>2. late[i] \in CsvNames /\ data[late[i]] \in CsvTexts
      BY <1>2
    <2> DEFINE w == Attribute(late[i], data[late[i]])
    <2>3. w[1] = late[i] /\ SubSeq(w, 3, Len(w)) = data[late[i]]
      BY <2>2, AttributeIs
    <2> HIDE DEF texts, w
    <2>4. texts[i] = w
      BY <2>1 DEF w
    <2> QED BY <2>3, <2>4
  <1> HIDE DEF texts, n
  <1> DEFINE keys == {texts[i][1] : i \in DOMAIN texts}
             chosen(k) == CHOOSE j \in DOMAIN texts : texts[j][1] = k
  <1>7. keys = K
    <2>1. \A k \in keys : k \in K
      BY <1>2, <1>5, <1>6
    <2>2. ASSUME NEW k \in K PROVE k \in keys
      <3>1. PICK i \in 1..n : late[i] = k
        BY <1>1, <1>2
      <3>2. texts[i][1] = k /\ i \in DOMAIN texts
        BY <1>5, <1>6, <3>1
      <3> QED BY <3>2
    <2> QED BY <2>1, <2>2
  <1>8. ASSUME NEW k \in K PROVE SubSeq(texts[chosen(k)], 3, Len(texts[chosen(k)])) = data[k]
    <2>1. PICK i \in 1..n : late[i] = k
      BY <1>1, <1>2
    <2>2. \E j \in DOMAIN texts : texts[j][1] = k
      BY <1>5, <1>6, <2>1
    <2>3. chosen(k) \in DOMAIN texts /\ texts[chosen(k)][1] = k
      BY <2>2
    <2> DEFINE j == chosen(k)
    <2> HIDE DEF j
    <2>4. j \in 1..n /\ texts[j][1] = k
      BY <1>5, <2>3 DEF j
    <2>5. late[j] = k
      BY <1>6, <2>4
    <2>6. SubSeq(texts[j], 3, Len(texts[j])) = data[k]
      BY <1>6, <2>4, <2>5
    <2> QED BY <2>6 DEF j
  <1>9. LateOf(cell) = [k \in keys |-> SubSeq(texts[chosen(k)], 3, Len(texts[chosen(k)]))]
    BY <1>4 DEF LateOf
  <1> HIDE DEF keys, chosen
  <1>10. LateOf(cell) = [k \in K |-> data[k]]
    BY <1>7, <1>8, <1>9
  <1> QED BY <1>4, <1>10 DEF cell, late

\* The cells of a point by column.
CsvData ==
    {data \in UNION {[ks -> CsvTexts] : ks \in SUBSET CsvNames} :
        IsFiniteSet(DOMAIN data) /\ \A k \in DOMAIN data : Backslash \notin ToSet(data[k])}

LEMMA DataIs == ASSUME NEW p \in CsvPoints PROVE DataOf(p) \in CsvData
  <1> DEFINE cols == ToSet(CsvColumns)
             data == DataOf(p)
  <1>1. PICK ks \in SUBSET CsvKeys : p \in [ks -> CsvValues]
    BY DEF CsvPoints
  <1>2. DOMAIN p = ks /\ \A k \in ks : p[k] \in CsvValues
    BY <1>1
  <1>3. data = [c \in cols \union ks |-> IF c \in ks THEN p[c] ELSE <<c>>]
    BY <1>2 DEF DataOf
  <1>4. cols \union ks \subseteq CsvNames
    BY <1>1 DEF CsvNames
  <1>5. IsFiniteSet(cols \union ks)
    <2>1. IsFiniteSet(ks)
      BY <1>1, CsvAssumption, FS_Subset
    <2>2. IsFiniteSet(cols)
      <3> DEFINE A == {CsvColumns[1]}
                 B == {CsvColumns[2]}
      <3>1. cols = A \union B
        BY DEF CsvColumns, ToSet
      <3>2. IsFiniteSet(A) /\ IsFiniteSet(B)
        BY FS_Singleton
      <3> HIDE DEF cols, A, B
      <3> QED BY <3>1, <3>2, FS_Union
    <2> HIDE DEF cols
    <2> QED BY <2>1, <2>2, FS_Union
  <1> HIDE DEF cols, data
  <1>6. ASSUME NEW v \in CsvValues PROVE v \in CsvTexts /\ Backslash \notin ToSet(v)
    <2>1. v \in Seq(ToSet(v)) /\ Backslash \notin ToSet(v)
      BY CsvAssumption
    <2>2. ToSet(v) \subseteq ValueChars
      BY DEF ValueChars
    <2>3. ValueChars \subseteq CsvChars
      BY DEF CsvChars
    <2> DEFINE own == ToSet(v)
    <2>4. v \in Seq(own) /\ own \subseteq CsvChars
      BY <2>1, <2>2, <2>3
    <2> HIDE DEF own
    <2>5. v \in Seq(CsvChars)
      BY <2>4
    <2> QED BY <2>1, <2>5 DEF CsvTexts
  <1>7. ASSUME NEW c \in CsvNames PROVE <<c>> \in CsvTexts /\ Backslash \notin ToSet(<<c>>)
    <2>1. c \in CsvChars /\ c # Backslash
      BY NamesArePlain
    <2>2. <<c>> \in Seq(CsvChars)
      BY <2>1
    <2>3. ToSet(<<c>>) = {c}
      BY DEF ToSet
    <2> QED BY <2>1, <2>2, <2>3 DEF CsvTexts
  <1>8. ASSUME NEW c \in cols \union ks PROVE data[c] \in CsvTexts /\ Backslash \notin ToSet(data[c])
    <2>1. CASE c \in ks
      <3>1. data[c] = p[c] /\ p[c] \in CsvValues
        BY <1>2, <1>3, <2>1
      <3> QED BY <1>6, <3>1
    <2>2. CASE c \notin ks
      <3>1. data[c] = <<c>> /\ c \in CsvNames
        BY <1>3, <1>4, <2>2
      <3> QED BY <1>7, <3>1
    <2> QED BY <2>1, <2>2
  <1>9. DOMAIN data = cols \union ks /\ data \in [cols \union ks -> CsvTexts]
    BY <1>3, <1>8
  <1>10. data \in CsvData
    BY <1>4, <1>5, <1>8, <1>9 DEF CsvData
  <1> QED BY <1>10 DEF data

\* The cells of the line are those of the point.
IsReadAs(header, line, data) ==
    /\ Len(CellsOf(line)) = Len(header) + 1
    /\ \A n \in DOMAIN header : CellsOf(line)[n] = ColumnOf(header, data, n)
    /\ LateOf(Last(CellsOf(line))) = [k \in DOMAIN data \ ToSet(header) |-> data[k]]

LEMMA LineIsRead ==
    ASSUME NEW header \in Seq(CsvNames), NEW data \in CsvData
    PROVE  CsvLine(header, data) \in CsvTexts /\ IsReadAs(header, CsvLine(header, data), data)
  <1> DEFINE K == DOMAIN data \ ToSet(header)
             late == SetToSeq(K)
             known == KnownCells(header, data)
             text == LateCell(late, data)
             line == CsvLine(header, data)
             vs == ColumnsOf(header, data)
             cells == CellsOf(line)
  <1>1. line = known \o EscapeString(text)
    BY Zenon DEF CsvLine, KnownCells, LateCell
  <1>2. /\ \A k \in DOMAIN data : data[k] \in CsvTexts /\ Backslash \notin ToSet(data[k])
        /\ IsFiniteSet(DOMAIN data) /\ DOMAIN data \subseteq CsvNames
    BY DEF CsvData
  <1>3. IsFiniteSet(K) /\ K \subseteq CsvNames
    BY <1>2, FS_Subset
  <1>4. text \in CsvTexts /\ LateOf(text) = [k \in K |-> data[k]]
    <2>1. \A k \in K : data[k] \in CsvTexts /\ Backslash \notin ToSet(data[k])
      BY <1>2
    <2> HIDE DEF K
    <2> QED BY <1>3, <2>1, AttributesAreFound
  <1> HIDE DEF K, late, text
  <1>5. known \in CsvTexts /\ vs \in Seq(CsvTexts)
    BY <1>2, ColumnsAreRead
  <1>6. EscapeString(text) \in CsvTexts
    <2>1. <<>> \in Seq(CsvTexts)
      OBVIOUS
    <2> QED BY <1>4, <2>1, CellIsRead
  <1>7. cells = Append(vs, text)
    BY <1>1, <1>2, <1>4, CellsAreColumns
  <1>8. DOMAIN vs = DOMAIN header /\ Len(vs) = Len(header)
    <2>1. vs = [i \in 1..Len(header) |-> ColumnOf(header, data, i)] /\ Len(header) \in Nat
      BY DEF ColumnsOf
    <2> HIDE DEF vs
    <2> QED BY <2>1
  <1>9. \A n \in DOMAIN header : vs[n] = ColumnOf(header, data, n)
    BY DEF ColumnsOf
  <1> HIDE DEF known, vs, line, cells
  <1>10. line \in CsvTexts
    <2> DEFINE e == EscapeString(text)
    <2>1. known \in Seq(CsvChars) /\ e \in Seq(CsvChars) /\ line = known \o e
      BY <1>1, <1>5, <1>6 DEF CsvTexts
    <2> HIDE DEF e
    <2> QED BY <2>1 DEF CsvTexts
  <1>11. /\ cells \in Seq(CsvTexts) /\ Len(cells) = Len(vs) + 1
         /\ cells[Len(vs) + 1] = text /\ \A n \in 1..Len(vs) : cells[n] = vs[n]
    BY <1>4, <1>5, <1>7
  <1>12. Len(cells) = Len(header) + 1 /\ Last(cells) = text
    BY <1>8, <1>11 DEF Last
  <1>13. \A n \in DOMAIN header : cells[n] = ColumnOf(header, data, n)
    <2>1. DOMAIN header = 1..Len(vs)
      BY <1>8
    <2> QED BY <1>9, <1>11, <2>1
  <1>14. IsReadAs(header, line, data)
    BY <1>4, <1>12, <1>13 DEF IsReadAs, cells, K
  <1> QED BY <1>10, <1>14 DEF line

\* The lines of the file are those of the points written, with the columns of the header.
CsvInv ==
    /\ csvHeader \in Seq(CsvNames)
    /\ csvWritten \in Seq(CsvPoints)
    /\ csvHeader = <<>> => csvWritten = <<>>
    /\ csvLines = [i \in 1..Len(csvWritten) |-> CsvLine(csvHeader, DataOf(csvWritten[i]))]

LEMMA HeaderIs ==
    ASSUME NEW n \in Nat, NEW points \in [1..n -> CsvPoints]
    PROVE  HeaderOf(points) \in Seq(CsvNames) /\ HeaderOf(points) # <<>>
  <1> DEFINE U == UNION {DOMAIN points[i] : i \in DOMAIN points}
             ks == SetToSeq(U)
             cs == CsvColumns
             header == cs \o ks
  <1>1. U \subseteq CsvKeys
    <2>1. \A i \in 1..n : points[i] \in CsvPoints /\ DOMAIN points[i] \subseteq CsvKeys
      BY DEF CsvPoints
    <2> QED BY <2>1
  <1>2. IsFiniteSet(U)
    BY <1>1, CsvAssumption, FS_Subset
  <1> HIDE DEF U
  <1>3. ks \in Seq(U)
    BY <1>2, SequenceOfSet
  <1> HIDE DEF ks
  <1>4. ks \in Seq(CsvNames)
    <2>1. U \subseteq CsvNames
      BY <1>1 DEF CsvNames
    <2> QED BY <1>3, <2>1
  <1>5. cs \in Seq(CsvNames) /\ Len(cs) = 2
    <2>1. cs \in Seq(ToSet(cs)) /\ Len(cs) = 2
      BY DEF CsvColumns, ToSet
    <2>2. ToSet(cs) \subseteq CsvNames
      BY DEF CsvNames
    <2> HIDE DEF cs
    <2> DEFINE own == ToSet(cs)
    <2> HIDE DEF own
    <2>3. cs \in Seq(own) /\ own \subseteq CsvNames
      BY <2>1, <2>2 DEF own
    <2> QED BY <2>1, <2>3
  <1> HIDE DEF cs
  <1>6. header \in Seq(CsvNames) /\ Len(header) = Len(cs) + Len(ks) /\ Len(ks) \in Nat
    BY <1>4, <1>5, JoinedIs, Zenon
  <1>7. HeaderOf(points) = header
    BY DEF HeaderOf, U, ks, cs
  <1> HIDE DEF header
  <1>8. header # <<>>
    BY <1>5, <1>6, EmptySeq
  <1> QED BY <1>6, <1>7, <1>8

LEMMA CsvInvInductive == CsvInv /\ [CsvNext]_csvVars => CsvInv'
  <1> SUFFICES ASSUME CsvInv, [CsvNext]_csvVars PROVE CsvInv'
    OBVIOUS
  <1>1. CASE UNCHANGED csvVars
    BY <1>1 DEF csvVars, CsvInv
  <1>2. CASE CsvNext
    <2>1. PICK n \in 0..MaxCsvLines : \E points \in [1..n -> CsvPoints] : WriteCsv(points)
      BY <1>2 DEF CsvNext
    <2>2. PICK points \in [1..n -> CsvPoints] : WriteCsv(points)
      BY <2>1
    <2>3. n \in Nat
      BY CsvAssumption
    <2> DEFINE header == IF csvHeader = <<>> THEN HeaderOf(points) ELSE csvHeader
               old == csvWritten
               m == Len(old)
               X == CsvPoints
               line(p) == CsvLine(header, DataOf(p))
               more == [i \in DOMAIN points |-> line(points[i])]
    <2>4. /\ csvHeader' = header /\ csvLines' = csvLines \o more /\ csvWritten' = old \o points
      BY <2>2 DEF WriteCsv
    <2>5. header \in Seq(CsvNames) /\ header # <<>>
      BY <2>3, HeaderIs DEF CsvInv
    <2>6. ASSUME NEW p \in CsvPoints PROVE line(p) \in CsvTexts
      <3> HIDE DEF header
      <3> QED BY <2>5, DataIs, LineIsRead
    <2>7. csvLines = [i \in 1..m |-> line(old[i])]
      <3>1. CASE csvHeader = <<>>
        <4>1. m = 0
          BY <3>1 DEF CsvInv
        <4>2. csvLines = [i \in 1..m |-> CsvLine(csvHeader, DataOf(old[i]))]
          BY DEF CsvInv
        <4> HIDE DEF m, line
        <4> QED BY <4>1, <4>2
      <3>2. CASE csvHeader # <<>>
        <4>1. header = csvHeader
          BY <3>2
        <4>2. csvLines = [i \in 1..m |-> CsvLine(csvHeader, DataOf(old[i]))]
          BY DEF CsvInv
        <4> HIDE DEF header, m
        <4> QED BY <4>1, <4>2
      <3> QED BY <3>1, <3>2
    <2>8. old \in Seq(X) /\ m \in Nat /\ points \in Seq(X) /\ Len(points) = n /\ DOMAIN points = 1..n
      BY <2>3 DEF CsvInv
    <2> DEFINE all == old \o points
               lines == csvLines \o more
    <2> HIDE DEF header
    <2>9. /\ all \in Seq(X) /\ Len(all) = m + n
          /\ \A i \in 1..m : all[i] = old[i]
          /\ \A i \in (m + 1)..(m + n) : all[i] = points[i - m]
      <3>1. /\ all \in Seq(X) /\ Len(old) \in Nat /\ Len(points) \in Nat
            /\ Len(all) = Len(old) + Len(points)
            /\ \A i \in 1..Len(old) : all[i] = old[i]
            /\ \A i \in (Len(old) + 1)..(Len(old) + Len(points)) : all[i] = points[i - Len(old)]
        BY <2>8, JoinedIs, Zenon
      <3> HIDE DEF all, old
      <3> QED BY <2>8, <3>1
    <2>10. ASSUME NEW i \in 1..m PROVE old[i] \in X /\ line(old[i]) \in CsvTexts
      <3>1. old[i] \in X
        BY <2>8
      <3> HIDE DEF line
      <3> QED BY <2>6, <3>1
    <2>11. ASSUME NEW i \in 1..n PROVE points[i] \in X /\ line(points[i]) \in CsvTexts
      <3>1. points[i] \in X
        BY <2>8
      <3> HIDE DEF line
      <3> QED BY <2>6, <3>1
    <2> HIDE DEF all, m, line, old, X
    <2>12. csvLines \in Seq(CsvTexts) /\ Len(csvLines) = m /\ \A i \in 1..m : csvLines[i] = line(old[i])
      <3> DEFINE s == [i \in 1..m |-> line(old[i])]
      <3>1. s \in [1..m -> CsvTexts]
        BY <2>10
      <3> HIDE DEF s
      <3>2. s \in Seq(CsvTexts) /\ Len(s) = m
        BY <2>8, <3>1
      <3>3. \A i \in 1..m : s[i] = line(old[i])
        BY DEF s
      <3> QED BY <2>7, <3>2, <3>3 DEF s
    <2>13. more \in Seq(CsvTexts) /\ Len(more) = n /\ \A i \in 1..n : more[i] = line(points[i])
      <3>1. more \in [1..n -> CsvTexts]
        BY <2>8, <2>11
      <3>2. \A i \in 1..n : more[i] = line(points[i])
        BY <2>8
      <3> HIDE DEF more
      <3> QED BY <2>3, <3>1, <3>2
    <2> HIDE DEF more
    <2>14. /\ lines \in Seq(CsvTexts) /\ Len(lines) = m + n
           /\ \A i \in 1..m : lines[i] = line(old[i])
           /\ \A i \in (m + 1)..(m + n) : lines[i] = line(points[i - m])
      <3>1. /\ lines \in Seq(CsvTexts) /\ Len(csvLines) \in Nat /\ Len(more) \in Nat
            /\ Len(lines) = Len(csvLines) + Len(more)
            /\ \A i \in 1..Len(csvLines) : lines[i] = csvLines[i]
            /\ \A i \in (Len(csvLines) + 1)..(Len(csvLines) + Len(more)) : lines[i] = more[i - Len(csvLines)]
        BY <2>12, <2>13, JoinedIs, Zenon
      <3> HIDE DEF lines
      <3>2. \A i \in (m + 1)..(m + n) : i - m \in 1..n
        BY <2>3, <2>8
      <3> QED BY <2>8, <2>12, <2>13, <3>1, <3>2
    <2> HIDE DEF lines
    <2>15. \A i \in 1..(m + n) : lines[i] = line(all[i])
      <3> TAKE i \in 1..(m + n)
      <3>1. i \in 1..m \/ i \in (m + 1)..(m + n)
        BY <2>3, <2>8
      <3> QED BY <2>9, <2>14, <3>1
    <2>16. lines = [i \in 1..(m + n) |-> line(all[i])]
      <3>1. m + n \in Nat
        BY <2>3, <2>8
      <3>2. lines = [i \in 1..(m + n) |-> lines[i]]
        BY <2>14, <3>1
      <3> QED BY <2>15, <3>2
    <2>17. csvHeader' = header /\ csvWritten' = all /\ csvLines' = lines
      BY <2>4 DEF all, lines, old
    <2>18. csvLines' = [i \in 1..Len(csvWritten') |-> CsvLine(csvHeader', DataOf(csvWritten'[i]))]
      BY <2>9, <2>16, <2>17 DEF line
    <2> QED BY <2>5, <2>9, <2>17, <2>18 DEF CsvInv, X
  <1> QED BY <1>1, <1>2

\* Every line of the file has the cells of the header and the last one, in which the point is
\* found again, whatever quotes, delimiters and late attributes its values have.
THEOREM CsvStaysReadable == CsvSpec => []CsvIsReadable
  <1>1. CsvInit => CsvInv
    <2> SUFFICES ASSUME CsvInit PROVE CsvInv
      OBVIOUS
    <2>1. csvHeader = <<>> /\ csvLines = <<>> /\ csvWritten = <<>>
      BY DEF CsvInit
    <2>2. csvHeader \in Seq(CsvNames) /\ csvWritten \in Seq(CsvPoints) /\ Len(csvWritten) = 0
      BY <2>1
    <2>3. csvLines = [i \in 1..0 |-> CsvLine(csvHeader, DataOf(csvWritten[i]))]
      BY <2>1
    <2> QED BY <2>1, <2>2, <2>3 DEF CsvInv
  <1>2. CsvInv => CsvIsReadable
    <2> SUFFICES ASSUME CsvInv, NEW i \in DOMAIN csvLines
                 PROVE  IsReadAs(csvHeader, csvLines[i], DataOf(csvWritten[i]))
      BY DEF CsvIsReadable, IsReadAs, ColumnOf
    <2>1. /\ i \in 1..Len(csvWritten) /\ csvHeader \in Seq(CsvNames)
          /\ csvLines[i] = CsvLine(csvHeader, DataOf(csvWritten[i]))
      BY DEF CsvInv
    <2>2. csvWritten[i] \in CsvPoints
      BY <2>1 DEF CsvInv
    <2>3. DataOf(csvWritten[i]) \in CsvData
      BY <2>2, DataIs
    <2> QED BY <2>1, <2>3, LineIsRead
  <1> QED BY <1>1, <1>2, CsvInvInductive, PTL DEF CsvSpec

===============================================================================
