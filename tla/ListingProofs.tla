--------------------------- MODULE ListingProofs ---------------------------
(***************************************************************************)
(* What Listing's operators return, for every sequence, set and order.     *)
(*                                                                         *)
(* The library's induction theorems take an operator as a parameter, which *)
(* none of the provers instantiates; its minimum principle (WFMin) takes a *)
(* relation and a set.  CountUp is induction over the naturals in that     *)
(* form, Recursion what it says of a function defined by recursion, and    *)
(* the lemmas about Only and Listed follow from the two.                   *)
(***************************************************************************)
EXTENDS Listing, WellFoundedInduction, FiniteSetTheorems, TLAPS

(* A set of naturals has a least element.                                    *)
LEMMA LeastNatural ==
    ASSUME NEW T \in SUBSET Nat, T # {}
    PROVE  \E m \in T : \A k \in T : m <= k
<1> DEFINE R == OpToRel(<, Nat)
<1>1. IsWellFoundedOn(R, Nat)
  BY NatLessThanWellFounded
<1>2. \E m \in T : \A k \in T : ~ (<<k, m>> \in R)
  BY <1>1, WFMin
<1>3. \A k, m \in Nat : k < m => <<k, m>> \in R
  BY DEF OpToRel
<1> HIDE DEF R
<1>4. PICK m \in T : \A k \in T : ~ (<<k, m>> \in R)
  BY <1>2
<1>5. \A k \in T : k \in Nat /\ m \in Nat /\ ~ (k < m)
  BY <1>3, <1>4
<1> QED
  BY <1>5

(* What holds of 0, and of n + 1 when it holds of n, holds up to N.          *)
LEMMA CountUp ==
    ASSUME NEW N \in Nat, NEW S, 0 \in S, \A n \in 0 .. N - 1 : n \in S => n + 1 \in S
    PROVE  \A n \in 0 .. N : n \in S
<1> SUFFICES ASSUME NEW n \in 0 .. N, n \notin S PROVE FALSE
  OBVIOUS
<1> DEFINE T == (0 .. N) \ S
<1>0. T \in SUBSET Nat /\ T # {}
  OBVIOUS
<1>1. PICK m \in T : \A k \in T : m <= k
  BY <1>0, LeastNatural
<1>2. m # 0 /\ m - 1 \in 0 .. N - 1 /\ m - 1 \notin T
  BY <1>1
<1> QED
  BY <1>2

(* f iterates step from base.                                                *)
Iterates(f, N, base, step) == f[0] = base /\ \A n \in 1 .. N : f[n] = step[n][f[n - 1]]

(* A recursive definition over 0 .. N has a solution.                        *)
LEMMA Recursion ==
    ASSUME NEW N \in Nat, NEW X, NEW base \in X, NEW step \in [1 .. N -> [X -> X]]
    PROVE  \E f \in [0 .. N -> X] : Iterates(f, N, base, step)
<1> DEFINE Good(n, f) == f[0] = base /\ \A k \in 1 .. n : f[k] = step[k][f[k - 1]]
           S == {n \in 0 .. N : \E f \in [0 .. n -> X] : Good(n, f)}
<1>1. 0 \in S
  <2> DEFINE f == [k \in 0 .. 0 |-> base]
  <2>1. f \in [0 .. 0 -> X] /\ Good(0, f)
    OBVIOUS
  <2>2. 0 \in 0 .. N
    OBVIOUS
  <2> HIDE DEF f, Good
  <2> QED BY <2>1, <2>2
<1>2. ASSUME NEW n \in 0 .. N - 1, n \in S PROVE n + 1 \in S
  <2>1. PICK f \in [0 .. n -> X] : Good(n, f)
    BY <1>2
  <2> DEFINE g == [k \in 0 .. n + 1 |-> IF k = n + 1 THEN step[n + 1][f[n]] ELSE f[k]]
  <2>2. g \in [0 .. n + 1 -> X]
    <3>1. n + 1 \in 1 .. N /\ f[n] \in X OBVIOUS
    <3>2. step[n + 1][f[n]] \in X BY <3>1
    <3> QED BY <3>2
  <2>3. g[0] = base
    BY <2>1
  <2>4. ASSUME NEW k \in 1 .. n + 1 PROVE g[k] = step[k][g[k - 1]]
    <3>1. CASE k = n + 1 
      <4>1. g[k] = step[n + 1][f[n]] BY <3>1
      <4>2. g[k - 1] = f[n] BY <3>1
      <4> QED BY <3>1, <4>1, <4>2
    <3>2. CASE k \in 1 .. n
      <4>1. g[k] = f[k] /\ g[k - 1] = f[k - 1] BY <3>2
      <4> QED BY <2>1, <3>2, <4>1
    <3> QED BY <3>1, <3>2
  <2> HIDE DEF g
  <2>5. Good(n + 1, g)
    BY <2>3, <2>4
  <2> QED
    BY SMTT(20), <2>2, <2>5
<1>3. \A n \in 0 .. N - 1 : n \in S => n + 1 \in S
  BY <1>2
<1> HIDE DEF S
<1>4. \A n \in 0 .. N : n \in S
  BY <1>1, <1>3, CountUp
<1>5. N \in S
  BY <1>4
<1> QED
  BY <1>5 DEF S, Iterates

-----------------------------------------------------------------------------
(* Only.                                                                     *)

(* u is what Only has found after each place of s.                           *)
Selecting(u, s, T) ==
    /\ u[0] = <<>>
    /\ \A n \in 1 .. Len(s) : u[n] = IF s[n] \in T THEN Append(u[n - 1], s[n]) ELSE u[n - 1]

(* The recursion of Only is one.                                             *)
LEMMA OnlySelects ==
    ASSUME NEW X, NEW s \in Seq(X), NEW T
    PROVE  \E u \in [0 .. Len(s) -> Seq(X)] : Selecting(u, s, T) /\ Only(s, T) = u[Len(s)]
<1> DEFINE N == Len(s)
           Y == Seq(X)
           More(n, y) == IF s[n] \in T THEN Append(y, s[n]) ELSE y
           step == [n \in 1 .. N |-> [y \in Y |-> More(n, y)]]
           Eq(f) == f = [n \in 0 .. N |-> IF n = 0 THEN <<>> ELSE More(n, f[n - 1])]
           u == CHOOSE f : Eq(f)
<1>0. Only(s, T) = u[N]
  BY DEF Only
<1>1. N \in Nat /\ <<>> \in Y
  OBVIOUS
<1>2. \A n \in 1 .. N, y \in Y : More(n, y) \in Y
  OBVIOUS
<1> HIDE DEF N, Y, More
<1>3. \A n \in 1 .. N : \A y \in Y : step[n][y] = More(n, y)
  OBVIOUS
<1>3b. step \in [1 .. N -> [Y -> Y]]
  BY <1>2
<1> DEFINE base == <<>>
<1>3c. base \in Y
  BY <1>1
<1> HIDE DEF step, base, Eq, u
<1>3a. \E f \in [0 .. N -> Y] : Iterates(f, N, base, step)
  BY ONLY <1>1, <1>3b, <1>3c, Recursion
<1> USE DEF base, Eq, u
<1>4. PICK f \in [0 .. N -> Y] : f[0] = <<>> /\ \A n \in 1 .. N : f[n] = step[n][f[n - 1]]
  BY <1>3a DEF Iterates
<1>5. \A n \in 1 .. N : f[n - 1] \in Y /\ f[n] = More(n, f[n - 1])
  BY <1>1, <1>3, <1>4
<1>6. Eq(f)
  <2>1. f = [n \in 0 .. N |-> f[n]]
    BY <1>4
  <2>2. \A n \in 0 .. N : f[n] = IF n = 0 THEN <<>> ELSE More(n, f[n - 1])
    <3>1. \A n \in 0 .. N : n = 0 \/ n \in 1 .. N
      BY <1>1
    <3> QED
      BY <1>4, <1>5, <3>1
  <2> QED
    BY <2>1, <2>2
<1>7. Eq(u)
  BY <1>6
<1> HIDE DEF u
<1>8. u[0] = <<>> /\ \A n \in 1 .. N : u[n] = More(n, u[n - 1])
  BY <1>1, <1>7
<1>9. \A n \in 0 .. N : u[n] \in Y
  <2> DEFINE S == {n \in 0 .. N : u[n] \in Y}
  <2>1. 0 \in S /\ \A n \in 0 .. N - 1 : n \in S => n + 1 \in S
    BY <1>1, <1>2, <1>8
  <2> HIDE DEF S
  <2>2. \A n \in 0 .. N : n \in S
    BY <1>1, <2>1, CountUp
  <2> QED
    BY <2>2 DEF S
<1>10. u \in [0 .. N -> Y]
  BY <1>7, <1>9
<1>11. Selecting(u, s, T)
  BY <1>8 DEF Selecting, More, N
<1> QED
  BY <1>0, <1>10, <1>11 DEF N, Y

(* p is where the elements of w stand among the first n of s: in order, all  *)
(* in T, none that is in T passed over.                                      *)
Places(p, w, s, n, T) ==
    /\ p \in [1 .. Len(w) -> 1 .. n]
    /\ \A j, k \in 1 .. Len(w) : j < k => p[j] < p[k]
    /\ \A k \in 1 .. Len(w) : w[k] = s[p[k]] /\ s[p[k]] \in T
    /\ \A i \in 1 .. n : s[i] \in T => \E k \in 1 .. Len(w) : p[k] = i

(* Only(s, T) holds the elements of s that are in T, in their order.         *)
LEMMA OnlyPlaces ==
    ASSUME NEW X, NEW s \in Seq(X), NEW T
    PROVE  Only(s, T) \in Seq(X) /\ \E p : Places(p, Only(s, T), s, Len(s), T)
<1>1. PICK u \in [0 .. Len(s) -> Seq(X)] : Selecting(u, s, T) /\ Only(s, T) = u[Len(s)]
  BY OnlySelects
<1> DEFINE S == {n \in 0 .. Len(s) : \E p : Places(p, u[n], s, n, T)}
<1>2. 0 \in S
  <2>1. u[0] = <<>> /\ 0 \in 0 .. Len(s)
    BY <1>1 DEF Selecting
  <2> DEFINE p == [k \in 1 .. 0 |-> 0]
  <2>2. Places(p, u[0], s, 0, T)
    BY <2>1 DEF Places
  <2> QED
    BY <2>1, <2>2
<1>3. ASSUME NEW n \in 0 .. Len(s) - 1, n \in S PROVE n + 1 \in S
  <2>1. PICK p : Places(p, u[n], s, n, T)
    BY <1>3
  <2>2. n + 1 \in 1 .. Len(s) /\ (n + 1) - 1 = n
    OBVIOUS
  <2>3. u[n + 1] = IF s[n + 1] \in T THEN Append(u[n], s[n + 1]) ELSE u[n]
    BY <1>1, <2>2 DEF Selecting
  <2>4. CASE s[n + 1] \notin T
    <3>1. Places(p, u[n + 1], s, n + 1, T)
      BY <2>1, <2>2, <2>3, <2>4 DEF Places
    <3> QED
      BY <2>2, <3>1
  <2>5. CASE s[n + 1] \in T
    <3> DEFINE w == u[n]
               v == u[n + 1]
               q == [k \in 1 .. Len(w) + 1 |-> IF k = Len(w) + 1 THEN n + 1 ELSE p[k]]
    <3>1. w \in Seq(X) /\ s[n + 1] \in X
      BY SMTT(20), <1>1, <2>2
    <3>2. v = Append(w, s[n + 1])
      BY <2>3, <2>5
    <3>3. Len(v) = Len(w) + 1 /\ v[Len(w) + 1] = s[n + 1] /\ \A k \in 1 .. Len(w) : v[k] = w[k]
      BY <3>1, <3>2
    <3>4. Len(w) \in Nat
      BY <3>1
    <3> HIDE DEF v, w
    <3>5. Places(p, w, s, n, T)
      BY <2>1 DEF w
    <3>6. q[Len(w) + 1] = n + 1 /\ \A k \in 1 .. Len(w) : q[k] = p[k] /\ p[k] \in 1 .. n
      BY <3>4, <3>5 DEF Places
    <3>7. q \in [1 .. Len(v) -> 1 .. n + 1]
      <4>1. \A k \in 1 .. Len(w) + 1 : (IF k = Len(w) + 1 THEN n + 1 ELSE p[k]) \in 1 .. n + 1
        <5>1. \A k \in 1 .. Len(w) : p[k] \in 1 .. n
          BY <3>6
        <5>2. \A k \in 1 .. Len(w) + 1 : k \in 1 .. Len(w) \/ k = Len(w) + 1
          BY <3>4
        <5>3. \A k \in 1 .. n : k \in 1 .. n + 1
          OBVIOUS
        <5>4. n + 1 \in 1 .. n + 1
          OBVIOUS
        <5> QED
          BY <3>4, <5>1, <5>2, <5>3, <5>4
      <4>2. q \in [1 .. Len(w) + 1 -> 1 .. n + 1]
        BY <4>1
      <4> QED
        BY <3>3, <4>2
    <3>8. \A k \in 1 .. Len(v) : k \in 1 .. Len(w) \/ k = Len(w) + 1
      BY <3>3, <3>4
    <3> HIDE DEF q
    <3>9. \A j, k \in 1 .. Len(v) : j < k => q[j] < q[k]
      <4> SUFFICES ASSUME NEW j \in 1 .. Len(v), NEW k \in 1 .. Len(v), j < k PROVE q[j] < q[k]
        OBVIOUS
      <4>1. j \in 1 .. Len(w) /\ q[j] = p[j] /\ p[j] \in 1 .. n
        BY <3>3, <3>4, <3>6
      <4>2. CASE k \in 1 .. Len(w)
        BY <3>5, <3>6, <4>1, <4>2 DEF Places
      <4>3. CASE k = Len(w) + 1
        BY <3>6, <4>1, <4>3
      <4> QED
        BY <3>8, <4>2, <4>3
    <3>10. \A k \in 1 .. Len(v) : v[k] = s[q[k]] /\ s[q[k]] \in T
      BY <2>5, <3>3, <3>5, <3>6, <3>8 DEF Places
    <3>11. \A i \in 1 .. n + 1 : s[i] \in T => \E k \in 1 .. Len(v) : q[k] = i
      <4> SUFFICES ASSUME NEW i \in 1 .. n + 1, s[i] \in T PROVE \E k \in 1 .. Len(v) : q[k] = i
        OBVIOUS
      <4>1. CASE i = n + 1
        BY <3>3, <3>4, <3>6, <4>1
      <4>2. CASE i \in 1 .. n
        <5>1. PICK k \in 1 .. Len(w) : p[k] = i
          BY <3>5, <4>2 DEF Places
        <5>2. k \in 1 .. Len(v) /\ q[k] = i
          BY <3>3, <3>4, <3>6, <5>1
        <5> QED
          BY <5>2
      <4> QED
        BY <4>1, <4>2
    <3>12. Places(q, v, s, n + 1, T)
      BY <3>7, <3>9, <3>10, <3>11 DEF Places
    <3> QED
      BY <2>2, <3>12 DEF v
  <2> QED
    BY <2>4, <2>5
<1>4. \A n \in 0 .. Len(s) - 1 : n \in S => n + 1 \in S
  BY <1>3
<1>5. Len(s) \in Nat
  OBVIOUS
<1> HIDE DEF S
<1>6. \A n \in 0 .. Len(s) : n \in S
  BY <1>2, <1>4, <1>5, CountUp
<1>7. Len(s) \in S
  BY <1>5, <1>6
<1> QED
  BY <1>1, <1>7 DEF S

-----------------------------------------------------------------------------
(* Listed.                                                                   *)

(* R puts any two elements of S in an order.                                 *)
Orders(R, S) ==
    /\ \A x \in S : <<x, x>> \notin R
    /\ \A x, y, z \in S : <<x, y>> \in R /\ <<y, z>> \in R => <<x, z>> \in R
    /\ \A x, y \in S : x # y => <<x, y>> \in R \/ <<y, x>> \in R

AheadOf(x, S, R) == {y \in S : <<y, x>> \in R}
Rank(x, S, R) == Cardinality(AheadOf(x, S, R))

(* More of them are ahead of the one that is behind.                         *)
LEMMA RankGrows ==
    ASSUME NEW S, NEW R, IsFiniteSet(S), Orders(R, S), NEW x \in S, NEW y \in S, <<x, y>> \in R
    PROVE  Rank(x, S, R) < Rank(y, S, R)
<1> DEFINE A == AheadOf(x, S, R)
           B == AheadOf(y, S, R)
<1>1. A \in SUBSET B /\ x \in B /\ x \notin A
  BY DEF AheadOf, Orders
<1>2. B \in SUBSET S
  BY DEF AheadOf
<1> HIDE DEF A, B
<1>3. IsFiniteSet(B)
  BY <1>2, FS_Subset
<1>4. Cardinality(A) <= Cardinality(B) /\ (Cardinality(B) = Cardinality(A) => B = A) /\ IsFiniteSet(A)
  BY <1>1, <1>3, FS_Subset
<1>5. Cardinality(A) \in Nat /\ Cardinality(B) \in Nat
  BY <1>3, <1>4, FS_CardinalityType
<1>6. Cardinality(A) # Cardinality(B)
  BY <1>1, <1>4
<1>7. Cardinality(A) < Cardinality(B)
  BY <1>4, <1>5, <1>6
<1> QED
  BY <1>7 DEF Rank, A, B

(* Fewer are ahead of an element than there are elements.                    *)
LEMMA RankRange ==
    ASSUME NEW S, NEW R, IsFiniteSet(S), Orders(R, S), NEW x \in S
    PROVE  Rank(x, S, R) \in 0 .. Cardinality(S) - 1
<1> DEFINE A == AheadOf(x, S, R)
           T == S \ {x}
<1>1. A \in SUBSET T
  BY DEF AheadOf, Orders
<1>2. IsFiniteSet(T) /\ Cardinality(T) = Cardinality(S) - 1 /\ Cardinality(S) \in Nat
  BY FS_RemoveElement, FS_CardinalityType
<1> HIDE DEF A, T
<1>3. IsFiniteSet(A) /\ Cardinality(A) <= Cardinality(T)
  BY <1>1, <1>2, FS_Subset
<1>4. Cardinality(A) \in Nat
  BY <1>3, FS_CardinalityType
<1>5. Cardinality(A) \in 0 .. Cardinality(S) - 1
  BY <1>2, <1>3, <1>4
<1> QED
  BY <1>5 DEF Rank, A

(* No two have as many ahead of them.                                        *)
LEMMA RankOne ==
    ASSUME NEW S, NEW R, IsFiniteSet(S), Orders(R, S), NEW x \in S, NEW y \in S,
           Rank(x, S, R) = Rank(y, S, R)
    PROVE  x = y
<1>1. Rank(x, S, R) \in 0 .. Cardinality(S) - 1
  BY RankRange
<1>2. CASE <<x, y>> \in R
  <2>1. Rank(x, S, R) < Rank(y, S, R)
    BY <1>2, RankGrows
  <2> QED
    BY <1>1, <2>1, FS_CardinalityType
<1>3. CASE <<y, x>> \in R
  <2>1. Rank(y, S, R) < Rank(x, S, R)
    BY <1>3, RankGrows
  <2> QED
    BY <1>1, <2>1, FS_CardinalityType
<1> QED
  BY <1>2, <1>3 DEF Orders

(* And every number of them is ahead of someone.                             *)
LEMMA RankOnto ==
    ASSUME NEW S, NEW R, IsFiniteSet(S), Orders(R, S), NEW i \in 0 .. Cardinality(S) - 1
    PROVE  \E x \in S : Rank(x, S, R) = i
<1> DEFINE n == Cardinality(S)
           T == 0 .. n - 1
           f == [x \in S |-> Rank(x, S, R)]
<1>1. n \in Nat
  BY FS_CardinalityType
<1>2. \A x \in S : f[x] \in T
  BY RankRange
<1>3. \A x, y \in S : f[x] = f[y] => x = y
  BY RankOne
<1>4. f \in [S -> T]
  BY <1>2
<1> HIDE DEF f
<1>5. f \in Injection(S, T)
  BY <1>3, <1>4 DEF Injection, IsInjective
<1>6. IsFiniteSet(T) /\ Cardinality(T) = n
  BY <1>1, FS_Interval
<1> HIDE DEF n, T
<1>7. f \in Surjection(S, T)
  BY <1>5, <1>6, FS_Injection DEF n
<1>8. i \in T
  BY DEF n, T
<1>9. \E x \in S : f[x] = i
  BY <1>7, <1>8 DEF Surjection
<1> QED
  BY <1>9 DEF f

(* Listed(S, R) holds each element of S once, each behind those R puts ahead *)
(* of it.                                                                    *)
LEMMA ListedRanks ==
    ASSUME NEW S, NEW R, IsFiniteSet(S), Orders(R, S)
    PROVE  /\ Listed(S, R) \in Seq(S)
           /\ Len(Listed(S, R)) = Cardinality(S)
           /\ \A i \in 1 .. Cardinality(S) :
                  Listed(S, R)[i] \in S /\ Rank(Listed(S, R)[i], S, R) = i - 1
<1> DEFINE n == Cardinality(S)
           l == Listed(S, R)
<1>1. n \in Nat
  BY FS_CardinalityType
<1>2. ASSUME NEW i \in 1 .. n PROVE l[i] \in S /\ Rank(l[i], S, R) = i - 1
  <2>1. i - 1 \in 0 .. n - 1
    BY <1>1
  <2>2. \E x \in S : Rank(x, S, R) = i - 1
    BY <2>1, RankOnto
  <2>3. l[i] = CHOOSE x \in S : Rank(x, S, R) = i - 1
    BY DEF Listed, Rank, AheadOf
  <2> HIDE DEF l
  <2> QED
    BY <2>2, <2>3
<1> DEFINE at(i) == CHOOSE x \in S : Cardinality({y \in S : <<y, x>> \in R}) = i - 1
<1>0. l = [i \in 1 .. n |-> at(i)]
  BY DEF Listed
<1> HIDE DEF l, n, at
<1>3. l = [i \in 1 .. n |-> l[i]]
  BY <1>0
<1>4. l \in [1 .. n -> S]
  BY <1>2, <1>3
<1>5. l \in Seq(S) /\ Len(l) = n
  BY <1>1, <1>4
<1> QED
  BY <1>2, <1>5 DEF l, n

(* What is earlier in a listing is ahead of what is later.                   *)
LEMMA ListedInOrder ==
    ASSUME NEW S, NEW R, IsFiniteSet(S), Orders(R, S),
           NEW i \in 1 .. Cardinality(S), NEW j \in 1 .. Cardinality(S), i < j
    PROVE  <<Listed(S, R)[i], Listed(S, R)[j]>> \in R
<1> DEFINE x == Listed(S, R)[i]
           y == Listed(S, R)[j]
<1>1. /\ x \in S /\ Rank(x, S, R) = i - 1
      /\ y \in S /\ Rank(y, S, R) = j - 1
      /\ Cardinality(S) \in Nat
  BY ListedRanks, FS_CardinalityType
<1> HIDE DEF x, y
<1>2. <<y, x>> \in R => Rank(y, S, R) < Rank(x, S, R)
  BY <1>1, RankGrows
<1>3. x # y /\ ~ (Rank(y, S, R) < Rank(x, S, R))
  BY <1>1
<1>4. <<x, y>> \in R
  BY <1>1, <1>2, <1>3 DEF Orders
<1> QED
  BY <1>4 DEF x, y

(* A listing leaves no element out.                                          *)
LEMMA ListedAll ==
    ASSUME NEW S, NEW R, IsFiniteSet(S), Orders(R, S), NEW x \in S
    PROVE  \E i \in 1 .. Cardinality(S) : Listed(S, R)[i] = x
<1> DEFINE i == Rank(x, S, R) + 1
           y == Listed(S, R)[i]
<1>1. i \in 1 .. Cardinality(S) /\ i - 1 = Rank(x, S, R)
  BY RankRange, FS_CardinalityType
<1> HIDE DEF i
<1>2. y \in S /\ Rank(y, S, R) = Rank(x, S, R)
  BY <1>1, ListedRanks
<1> HIDE DEF y
<1>3. y = x
  BY <1>2, RankOne
<1> QED
  BY <1>1, <1>3 DEF y

-----------------------------------------------------------------------------
(* Total, and the last of the greatest.                                      *)

(* u counts the numbers of s up.                                             *)
Adding(u, s) == u[0] = 0 /\ \A n \in 1 .. Len(s) : u[n] = u[n - 1] + s[n]

(* Total(s) is the last of the sums of the first numbers of s, and a number.  *)
LEMMA TotalAdds ==
    ASSUME NEW s \in Seq(Int)
    PROVE  \E u \in [0 .. Len(s) -> Int] : Adding(u, s) /\ Total(s) = u[Len(s)]
<1> DEFINE N == Len(s)
           step == [n \in 1 .. N |-> [y \in Int |-> y + s[n]]]
           Eq(f) == f = [n \in 0 .. N |-> IF n = 0 THEN 0 ELSE f[n - 1] + s[n]]
           u == CHOOSE f : Eq(f)
<1>0. Total(s) = u[N]
  BY DEF Total
<1>1. N \in Nat /\ \A n \in 1 .. N : s[n] \in Int
  OBVIOUS
<1> HIDE DEF N
<1>2. \A n \in 1 .. N : \A y \in Int : step[n][y] = y + s[n]
  OBVIOUS
<1>3. step \in [1 .. N -> [Int -> Int]]
  BY <1>1
<1> DEFINE base == 0
<1>4. base \in Int
  OBVIOUS
<1> HIDE DEF step, base, Eq, u
<1>5. \E f \in [0 .. N -> Int] : Iterates(f, N, base, step)
  BY ONLY <1>1, <1>3, <1>4, Recursion
<1>6. PICK f \in [0 .. N -> Int] : f[0] = base /\ \A n \in 1 .. N : f[n] = step[n][f[n - 1]]
  BY <1>5 DEF Iterates
<1>7. ASSUME NEW n \in 1 .. N PROVE f[n] = f[n - 1] + s[n]
  <2>1. n - 1 \in 0 .. N
    BY <1>1
  <2>2. step[n][f[n - 1]] = f[n - 1] + s[n]
    BY <1>2, <2>1
  <2> QED
    BY <1>6, <2>2
<1>8. Eq(f)
  <2>1. f = [n \in 0 .. N |-> f[n]]
    BY <1>6
  <2>2. \A n \in 0 .. N : f[n] = IF n = 0 THEN 0 ELSE f[n - 1] + s[n]
    <3>1. \A n \in 0 .. N : n = 0 \/ n \in 1 .. N
      BY <1>1
    <3> QED
      BY <1>6, <1>7, <3>1 DEF base
  <2> QED
    BY <2>1, <2>2 DEF Eq
<1>9. Eq(u)
  BY <1>8 DEF u
<1>10. u[0] = 0 /\ \A n \in 1 .. N : u[n] = u[n - 1] + s[n]
  BY <1>1, <1>9 DEF Eq
<1>11. \A n \in 0 .. N : u[n] \in Int
  <2> DEFINE S == {n \in 0 .. N : u[n] \in Int}
  <2>1. 0 \in S
    BY <1>1, <1>10
  <2>2. \A n \in 0 .. N - 1 : n \in S => n + 1 \in S
    <3> SUFFICES ASSUME NEW n \in 0 .. N - 1, u[n] \in Int
                 PROVE  n + 1 \in 0 .. N /\ u[n + 1] \in Int
      OBVIOUS
    <3>1. n + 1 \in 1 .. N /\ n + 1 \in 0 .. N /\ (n + 1) - 1 = n
      BY <1>1
    <3>2. u[n + 1] = u[n] + s[n + 1] /\ s[n + 1] \in Int
      BY <1>1, <1>10, <3>1
    <3> QED
      BY <3>1, <3>2
  <2> HIDE DEF S
  <2>3. \A n \in 0 .. N : n \in S
    BY <1>1, <2>1, <2>2, CountUp
  <2> QED
    BY <2>3 DEF S
<1>12. u = [n \in 0 .. N |-> u[n]]
  <2> DEFINE more(n) == IF n = 0 THEN 0 ELSE u[n - 1] + s[n]
  <2>1. u = [n \in 0 .. N |-> more(n)]
    BY <1>9 DEF Eq
  <2> HIDE DEF more
  <2> QED
    BY <2>1
<1>13. u \in [0 .. N -> Int]
  BY <1>11, <1>12
<1>14. Adding(u, s)
  BY <1>10 DEF Adding, N
<1> QED
  BY <1>0, <1>13, <1>14 DEF N

(* Nothing adds up to 0.                                                     *)
LEMMA TotalEmpty == Total(<<>>) = 0 /\ <<>> \in Seq(Int)
<1>1. <<>> \in Seq(Int) /\ Len(<<>>) = 0
  OBVIOUS
<1>2. PICK u \in [0 .. Len(<<>>) -> Int] : Adding(u, <<>>) /\ Total(<<>>) = u[Len(<<>>)]
  BY <1>1, TotalAdds
<1> QED
  BY <1>1, <1>2 DEF Adding

(* Whole numbers add up to a whole number.                                   *)
LEMMA TotalType == ASSUME NEW s \in Seq(Int) PROVE Total(s) \in Int
<1>1. PICK u \in [0 .. Len(s) -> Int] : Total(s) = u[Len(s)]
  BY TotalAdds
<1>2. Len(s) \in 0 .. Len(s)
  OBVIOUS
<1> QED
  BY <1>1, <1>2

(* A number more adds that number.                                           *)
LEMMA TotalAppend ==
    ASSUME NEW s \in Seq(Int), NEW x \in Int
    PROVE  Total(Append(s, x)) = Total(s) + x
<1> DEFINE t == Append(s, x)
           N == Len(s)
<1>1. /\ t \in Seq(Int) /\ N \in Nat /\ Len(t) = N + 1 /\ t[N + 1] = x
      /\ \A n \in 1 .. N : t[n] = s[n]
  OBVIOUS
<1> HIDE DEF t
<1>2. PICK u \in [0 .. Len(s) -> Int] : Adding(u, s) /\ Total(s) = u[Len(s)]
  BY TotalAdds
<1>3. PICK v \in [0 .. Len(t) -> Int] : Adding(v, t) /\ Total(t) = v[Len(t)]
  BY <1>1, TotalAdds
<1> HIDE DEF N
<1> DEFINE S == {n \in 0 .. N : v[n] = u[n]}
<1>4. 0 \in S
  BY <1>1, <1>2, <1>3 DEF Adding
<1>5. \A n \in 0 .. N - 1 : n \in S => n + 1 \in S
  <2> SUFFICES ASSUME NEW n \in 0 .. N - 1, n \in S PROVE n + 1 \in S
    OBVIOUS
  <2>1. n + 1 \in 1 .. N /\ n + 1 \in 0 .. N /\ (n + 1) - 1 = n /\ n + 1 \in 1 .. Len(t)
    BY <1>1
  <2>2. u[n + 1] = u[n] + s[n + 1]
    BY <1>2, <2>1 DEF Adding, N
  <2>3. v[n + 1] = v[n] + t[n + 1]
    BY <1>3, <2>1 DEF Adding
  <2>4. v[n + 1] = u[n + 1]
    BY <1>1, <2>1, <2>2, <2>3
  <2> QED
    BY <2>1, <2>4
<1> HIDE DEF S
<1>6. \A n \in 0 .. N : n \in S
  BY <1>1, <1>4, <1>5, CountUp
<1>7. v[N] = u[N]
  BY <1>1, <1>6 DEF S
<1>8. N + 1 \in 1 .. Len(t) /\ (N + 1) - 1 = N
  BY <1>1
<1>9. v[N + 1] = v[N] + x
  BY <1>1, <1>3, <1>8 DEF Adding
<1>10. Total(t) = Total(s) + x
  BY <1>1, <1>2, <1>3, <1>7, <1>9 DEF N
<1> QED
  BY <1>10 DEF t

(* Of finitely many numbers, one is the last of the greatest.                *)
LEMMA LastGreatest ==
    ASSUME NEW N \in Nat \ {0}, NEW f \in [1 .. N -> Int]
    PROVE  \E i \in 1 .. N : \A j \in 1 .. N : f[j] <= f[i] /\ (j > i => f[j] < f[i])
<1> DEFINE Best(n, i) == \A j \in 1 .. n + 1 : f[j] <= f[i] /\ (j > i => f[j] < f[i])
           S == {n \in 0 .. N - 1 : \E i \in 1 .. n + 1 : Best(n, i)}
<1>1. 0 \in S
  OBVIOUS
<1>2. ASSUME NEW n \in 0 .. (N - 1) - 1, n \in S PROVE n + 1 \in S
  <2>1. PICK i \in 1 .. n + 1 : Best(n, i)
    BY <1>2
  <2>2. n + 1 \in 0 .. N - 1 /\ (n + 1) + 1 \in 1 .. N /\ i \in 1 .. N
    OBVIOUS
  <2>3. f[i] \in Int /\ f[n + 2] \in Int
    BY <2>2
  <2>4. CASE f[n + 2] >= f[i]
    <3>1. Best(n + 1, n + 2)
      BY <2>1, <2>2, <2>3, <2>4
    <3> QED
      BY <2>2, <3>1
  <2>5. CASE f[n + 2] < f[i]
    <3>1. Best(n + 1, i)
      BY <2>1, <2>2, <2>3, <2>5
    <3> QED
      BY <2>2, <3>1
  <2> QED
    BY <2>3, <2>4, <2>5
<1>3. \A n \in 0 .. (N - 1) - 1 : n \in S => n + 1 \in S
  BY <1>2
<1> DEFINE M == N - 1
<1>4. M \in Nat
  OBVIOUS
<1> HIDE DEF S
<1>5. \A n \in 0 .. M : n \in S
  BY <1>1, <1>3, <1>4, CountUp
<1>6. M \in S /\ M + 1 = N
  BY <1>4, <1>5
<1> QED
  BY <1>6 DEF S

-----------------------------------------------------------------------------
(* More of Only, and of Total.                                               *)

(* The beginnings of a sequence.                                             *)
LEMMA Beginnings ==
    ASSUME NEW X, NEW s \in Seq(X)
    PROVE  /\ SubSeq(s, 1, 0) = <<>> /\ SubSeq(s, 1, Len(s)) = s
           /\ \A n \in 0 .. Len(s) : SubSeq(s, 1, n) \in Seq(X) /\ Len(SubSeq(s, 1, n)) = n
           /\ \A n \in 0 .. Len(s) - 1 :
                 s[n + 1] \in X /\ SubSeq(s, 1, n + 1) = Append(SubSeq(s, 1, n), s[n + 1])
<1>1. SubSeq(s, 1, 0) = <<>> /\ SubSeq(s, 1, Len(s)) = s
  OBVIOUS
<1>2. \A n \in 0 .. Len(s) : SubSeq(s, 1, n) \in Seq(X) /\ Len(SubSeq(s, 1, n)) = n
  OBVIOUS
<1>3. ASSUME NEW n \in 0 .. Len(s) - 1
      PROVE  s[n + 1] \in X /\ SubSeq(s, 1, n + 1) = Append(SubSeq(s, 1, n), s[n + 1])
  <2> DEFINE a == SubSeq(s, 1, n)
             b == SubSeq(s, 1, n + 1)
             c == Append(a, s[n + 1])
  <2>1. n \in Nat /\ n + 1 \in 1 .. Len(s) /\ s[n + 1] \in X /\ Len(s) \in Nat
    OBVIOUS
  <2>2. a \in Seq(X) /\ Len(a) = n /\ \A i \in 1 .. n : a[i] = s[i]
    BY <2>1
  <2>3. b \in Seq(X) /\ Len(b) = n + 1 /\ \A i \in 1 .. n + 1 : b[i] = s[i]
    BY <2>1
  <2> HIDE DEF a, b
  <2>4. c \in Seq(X) /\ Len(c) = n + 1 /\ c[n + 1] = s[n + 1] /\ \A i \in 1 .. n : c[i] = s[i]
    BY <2>1, <2>2
  <2> HIDE DEF c
  <2>5. \A i \in 1 .. n + 1 : b[i] = c[i]
    BY <2>1, <2>3, <2>4
  <2>6. b = c
    BY <2>3, <2>4, <2>5
  <2> QED
    BY <2>1, <2>6 DEF a, b, c
<1> QED
  BY <1>1, <1>2, <1>3

LEMMA OnlyEmpty == ASSUME NEW T PROVE Only(<<>>, T) = <<>>
<1>1. <<>> \in Seq({}) /\ Len(<<>>) = 0
  OBVIOUS
<1>2. PICK u : Selecting(u, <<>>, T) /\ Only(<<>>, T) = u[Len(<<>>)]
  BY <1>1, OnlySelects
<1> QED
  BY <1>1, <1>2 DEF Selecting

(* An element more is selected or not.                                       *)
LEMMA OnlyAppend ==
    ASSUME NEW X, NEW s \in Seq(X), NEW x \in X, NEW T
    PROVE  /\ Only(s, T) \in Seq(X)
           /\ Only(Append(s, x), T) = IF x \in T THEN Append(Only(s, T), x) ELSE Only(s, T)
<1> DEFINE t == Append(s, x)
           N == Len(s)
<1>1. /\ t \in Seq(X) /\ N \in Nat /\ Len(t) = N + 1 /\ t[N + 1] = x
      /\ \A n \in 1 .. N : t[n] = s[n]
  OBVIOUS
<1> HIDE DEF t
<1>2. PICK u \in [0 .. Len(s) -> Seq(X)] : Selecting(u, s, T) /\ Only(s, T) = u[Len(s)]
  BY OnlySelects
<1>3. PICK v \in [0 .. Len(t) -> Seq(X)] : Selecting(v, t, T) /\ Only(t, T) = v[Len(t)]
  BY <1>1, OnlySelects
<1> HIDE DEF N
<1> DEFINE S == {n \in 0 .. N : v[n] = u[n]}
<1>4. 0 \in S
  BY <1>1, <1>2, <1>3 DEF Selecting
<1>5. \A n \in 0 .. N - 1 : n \in S => n + 1 \in S
  <2> SUFFICES ASSUME NEW n \in 0 .. N - 1, n \in S PROVE n + 1 \in S
    OBVIOUS
  <2>1. n + 1 \in 1 .. N /\ n + 1 \in 0 .. N /\ (n + 1) - 1 = n /\ n + 1 \in 1 .. Len(t)
    BY <1>1
  <2>2. u[n + 1] = IF s[n + 1] \in T THEN Append(u[n], s[n + 1]) ELSE u[n]
    BY <1>2, <2>1 DEF Selecting, N
  <2>3. v[n + 1] = IF t[n + 1] \in T THEN Append(v[n], t[n + 1]) ELSE v[n]
    BY <1>3, <2>1 DEF Selecting
  <2>4. v[n + 1] = u[n + 1]
    BY <1>1, <2>1, <2>2, <2>3
  <2> QED
    BY <2>1, <2>4
<1> HIDE DEF S
<1>6. \A n \in 0 .. N : n \in S
  BY <1>1, <1>4, <1>5, CountUp
<1>7. v[N] = u[N] /\ N \in 0 .. N
  BY <1>1, <1>6 DEF S
<1>8. N + 1 \in 1 .. Len(t) /\ (N + 1) - 1 = N
  BY <1>1
<1>9. v[N + 1] = IF x \in T THEN Append(v[N], x) ELSE v[N]
  BY <1>1, <1>3, <1>8 DEF Selecting
<1>10. Only(t, T) = IF x \in T THEN Append(Only(s, T), x) ELSE Only(s, T)
  BY <1>1, <1>2, <1>3, <1>7, <1>9 DEF N
<1>11. Only(s, T) \in Seq(X)
  BY <1>2, <1>7 DEF N
<1> QED
  BY <1>10, <1>11 DEF t

(* What holds all of T that is in s, and nothing else of s.                  *)
LEMMA OnlyAll ==
    ASSUME NEW X, NEW s \in Seq(X), NEW T, \A i \in 1 .. Len(s) : s[i] \in T
    PROVE  Only(s, T) = s
<1> DEFINE S == {n \in 0 .. Len(s) : Only(SubSeq(s, 1, n), T) = SubSeq(s, 1, n)}
<1>1. Len(s) \in Nat
  OBVIOUS
<1>2. 0 \in S
  <2>1. SubSeq(s, 1, 0) = <<>> /\ Only(<<>>, T) = <<>>
    BY Beginnings, OnlyEmpty
  <2>2. Only(SubSeq(s, 1, 0), T) = SubSeq(s, 1, 0)
    BY <2>1
  <2> QED
    BY <1>1, <2>2
<1>3. \A n \in 0 .. Len(s) - 1 : n \in S => n + 1 \in S
  <2> SUFFICES ASSUME NEW n \in 0 .. Len(s) - 1, n \in S PROVE n + 1 \in S
    OBVIOUS
  <2> DEFINE a == SubSeq(s, 1, n)
             b == SubSeq(s, 1, n + 1)
             x == s[n + 1]
  <2>1. a \in Seq(X) /\ x \in X /\ b = Append(a, x) /\ n + 1 \in 0 .. Len(s)
    BY <1>1, Beginnings
  <2>2. x \in T /\ Only(a, T) = a
    BY <1>1
  <2> HIDE DEF a, b, x, S
  <2>3. Only(b, T) = Append(a, x)
    <3>1. a \in Seq(X) /\ x \in X
      BY <2>1
    <3>2. Only(Append(a, x), T) = IF x \in T THEN Append(Only(a, T), x) ELSE Only(a, T)
      BY ONLY <3>1, OnlyAppend
    <3> QED
      BY <2>1, <2>2, <3>2
  <2> QED
    BY <2>1, <2>3 DEF b, S
<1> HIDE DEF S
<1>4. Len(s) \in S
  <2>1. \A n \in 0 .. Len(s) : n \in S
    BY <1>1, <1>2, <1>3, CountUp
  <2> QED
    BY <1>1, <1>2, <2>1
<1> QED
  BY <1>4, Beginnings DEF S

LEMMA OnlyNone ==
    ASSUME NEW X, NEW s \in Seq(X), NEW T, \A i \in 1 .. Len(s) : s[i] \notin T
    PROVE  Only(s, T) = <<>>
<1>1. PICK u \in [0 .. Len(s) -> Seq(X)] : Selecting(u, s, T) /\ Only(s, T) = u[Len(s)]
  BY OnlySelects
<1> DEFINE S == {n \in 0 .. Len(s) : u[n] = <<>>}
<1>2. Len(s) \in Nat
  OBVIOUS
<1>3. 0 \in S
  BY <1>1, <1>2 DEF Selecting
<1>4. \A n \in 0 .. Len(s) - 1 : n \in S => n + 1 \in S
  <2> SUFFICES ASSUME NEW n \in 0 .. Len(s) - 1, n \in S PROVE n + 1 \in S
    OBVIOUS
  <2>1. n + 1 \in 1 .. Len(s) /\ n + 1 - 1 = n /\ n + 1 \in 0 .. Len(s)
    BY <1>2
  <2>2. u[n + 1] = u[n]
    BY <1>1, <2>1 DEF Selecting
  <2> QED
    BY <2>1, <2>2
<1> HIDE DEF S
<1>5. Len(s) \in S
  <2>1. \A n \in 0 .. Len(s) : n \in S
    BY <1>2, <1>3, <1>4, CountUp
  <2> QED
    BY <1>1, <1>2, <2>1
<1> QED
  BY <1>1, <1>5 DEF S

(* s, then t: a name the provers keep as it is.                              *)
Chained(s, t) == s \o t

LEMMA ChainedAppend ==
    ASSUME NEW X, NEW y \in Seq(X), NEW z \in Seq(X), NEW x \in X
    PROVE  Append(Chained(y, z), x) = Chained(y, Append(z, x))
<1> DEFINE m == Len(y)
           n == Len(z)
           v == Append(z, x)
           w == Append(y \o z, x)
           c == y \o v
<1>1. m \in Nat /\ n \in Nat
  OBVIOUS
<1>2. v \in Seq(X) /\ Len(v) = n + 1 /\ v[n + 1] = x /\ \A i \in 1 .. n : v[i] = z[i]
  OBVIOUS
<1>3. /\ w \in Seq(X) /\ Len(w) = m + n + 1 /\ w[m + n + 1] = x
      /\ \A i \in 1 .. m + n : w[i] = IF i <= m THEN y[i] ELSE z[i - m]
  OBVIOUS
<1> HIDE DEF v, w
<1>4. /\ c \in Seq(X) /\ Len(c) = m + n + 1
      /\ \A i \in 1 .. m + n + 1 : c[i] = IF i <= m THEN y[i] ELSE v[i - m]
  BY SMTT(20), <1>1, <1>2
<1> HIDE DEF c, m, n
<1>5. ASSUME NEW i \in 1 .. m + n + 1 PROVE w[i] = c[i]
  <2>1. CASE i <= m
    BY <1>1, <1>3, <1>4, <2>1
  <2>2. CASE i > m /\ i <= m + n
    <3>1. i - m \in 1 .. n /\ ~ i <= m /\ i \in 1 .. m + n
      BY <1>1, <2>2
    <3> QED
      BY <1>2, <1>3, <1>4, <3>1
  <2>3. CASE i = m + n + 1
    <3>1. i - m = n + 1 /\ ~ i <= m
      BY <1>1, <2>3
    <3> QED
      BY <1>2, <1>3, <1>4, <2>3, <3>1
  <2> QED
    BY <1>1, <2>1, <2>2, <2>3
<1>6. w = c
  BY <1>3, <1>4, <1>5
<1> QED
  BY <1>6 DEF w, c, v, Chained

LEMMA ChainedType ==
    ASSUME NEW X, NEW y \in Seq(X), NEW z \in Seq(X)
    PROVE  Chained(y, z) \in Seq(X) /\ Chained(y, <<>>) = y /\ Chained(<<>>, z) = z
BY DEF Chained

(* Of two sequences in a row.                                                *)
LEMMA OnlyChained ==
    ASSUME NEW X, NEW s \in Seq(X), NEW t \in Seq(X), NEW T
    PROVE  Only(Chained(s, t), T) = Chained(Only(s, T), Only(t, T))
<1> DEFINE P(n) == SubSeq(t, 1, n)
           y == Only(s, T)
           S == {n \in 0 .. Len(t) : Only(Chained(s, P(n)), T) = Chained(y, Only(P(n), T))}
<1>1. Len(t) \in Nat /\ y \in Seq(X)
  BY OnlyPlaces
<1> HIDE DEF y
<1>2. 0 \in S
  <2>1. P(0) = <<>> /\ Only(<<>>, T) = <<>>
    BY Beginnings, OnlyEmpty
  <2>2. Chained(s, <<>>) = s /\ Chained(y, <<>>) = y
    BY <1>1, ChainedType
  <2>3. Only(Chained(s, P(0)), T) = Chained(y, Only(P(0), T))
    BY <2>1, <2>2 DEF y
  <2> QED
    BY <1>1, <2>3
<1>3. \A n \in 0 .. Len(t) - 1 : n \in S => n + 1 \in S
  <2> SUFFICES ASSUME NEW n \in 0 .. Len(t) - 1, n \in S PROVE n + 1 \in S
    OBVIOUS
  <2> DEFINE a == P(n)
             b == P(n + 1)
             x == t[n + 1]
  <2>1. a \in Seq(X) /\ x \in X /\ b = Append(a, x) /\ n + 1 \in 0 .. Len(t)
    BY <1>1, Beginnings
  <2>2. Only(Chained(s, a), T) = Chained(y, Only(a, T))
    OBVIOUS
  <2> HIDE DEF a, b, x, S, P
  <2>3. Chained(s, a) \in Seq(X) /\ Chained(s, b) = Append(Chained(s, a), x)
    BY <2>1, ChainedType, ChainedAppend
  <2>0. a \in Seq(X) /\ x \in X /\ Chained(s, a) \in Seq(X)
    BY <2>1, <2>3
  <2>4. Only(a, T) \in Seq(X) /\ Only(b, T) = IF x \in T THEN Append(Only(a, T), x) ELSE Only(a, T)
    <3>1. /\ Only(a, T) \in Seq(X)
          /\ Only(Append(a, x), T) = IF x \in T THEN Append(Only(a, T), x) ELSE Only(a, T)
      BY ONLY <2>0, OnlyAppend
    <3> QED
      BY <2>1, <3>1
  <2>5. Only(Chained(s, b), T) = IF x \in T THEN Append(Only(Chained(s, a), T), x)
                                ELSE Only(Chained(s, a), T)
    <3>1. PICK g \in Seq(X) : g = Chained(s, a)
      BY <2>0
    <3>2. Only(Append(g, x), T) = IF x \in T THEN Append(Only(g, T), x) ELSE Only(g, T)
      <4>1. g \in Seq(X) /\ x \in X
        BY <2>1
      <4> QED
        BY ONLY SMTT(20), <4>1, OnlyAppend
    <3> QED
      BY <2>3, <3>1, <3>2
  <2>6. Append(Chained(y, Only(a, T)), x) = Chained(y, Append(Only(a, T), x))
    BY <1>1, <2>1, <2>4, ChainedAppend
  <2>7. Only(Chained(s, b), T) = Chained(y, Only(b, T))
    BY <2>2, <2>4, <2>5, <2>6
  <2> QED
    BY <2>1, <2>7 DEF b, S
<1> HIDE DEF S
<1>4. Len(t) \in S
  <2>1. \A n \in 0 .. Len(t) : n \in S
    BY <1>1, <1>2, <1>3, CountUp
  <2> QED
    BY <1>1, <2>1
<1> QED
  BY <1>4, Beginnings DEF S, y

(* A selection of a selection.                                               *)
LEMMA OnlyTwice ==
    ASSUME NEW X, NEW s \in Seq(X), NEW A, NEW B
    PROVE  Only(Only(s, A), B) = Only(s, A \cap B)
<1> DEFINE P(n) == SubSeq(s, 1, n)
           S == {n \in 0 .. Len(s) : Only(Only(P(n), A), B) = Only(P(n), A \cap B)}
<1>1. Len(s) \in Nat
  OBVIOUS
<1>2. 0 \in S
  <2>1. P(0) = <<>> /\ Only(<<>>, A) = <<>> /\ Only(<<>>, B) = <<>> /\ Only(<<>>, A \cap B) = <<>>
    BY Beginnings, OnlyEmpty
  <2>2. Only(Only(P(0), A), B) = Only(P(0), A \cap B)
    BY <2>1
  <2> QED
    BY <1>1, <2>2
<1>3. \A n \in 0 .. Len(s) - 1 : n \in S => n + 1 \in S
  <2> SUFFICES ASSUME NEW n \in 0 .. Len(s) - 1, n \in S PROVE n + 1 \in S
    OBVIOUS
  <2> DEFINE a == P(n)
             b == P(n + 1)
             x == s[n + 1]
             C == A \cap B
  <2>1. a \in Seq(X) /\ x \in X /\ b = Append(a, x) /\ n + 1 \in 0 .. Len(s)
    BY <1>1, Beginnings
  <2>2. Only(Only(a, A), B) = Only(a, C) /\ (x \in C <=> x \in A /\ x \in B)
    OBVIOUS
  <2> HIDE DEF a, b, x, C
  <2>3. Only(a, A) \in Seq(X) /\ Only(b, A) = IF x \in A THEN Append(Only(a, A), x) ELSE Only(a, A)
    BY <2>1, OnlyAppend
  <2>4. Only(b, C) = IF x \in C THEN Append(Only(a, C), x) ELSE Only(a, C)
    BY <2>1, OnlyAppend
  <2>5. Only(Append(Only(a, A), x), B)
           = IF x \in B THEN Append(Only(Only(a, A), B), x) ELSE Only(Only(a, A), B)
    <3>1. PICK g \in Seq(X) : g = Only(a, A)
      BY <2>3
    <3>2. Only(Append(g, x), B) = IF x \in B THEN Append(Only(g, B), x) ELSE Only(g, B)
      <4>1. g \in Seq(X) /\ x \in X
        BY <2>1
      <4> QED
        BY ONLY <4>1, OnlyAppend
    <3> QED
      BY <3>1, <3>2
  <2>6. Only(Only(b, A), B) = Only(b, C)
    BY <2>2, <2>3, <2>4, <2>5
  <2> QED
    BY <2>1, <2>6 DEF b, C
<1> HIDE DEF S
<1>4. Len(s) \in S
  <2>1. \A n \in 0 .. Len(s) : n \in S
    BY <1>1, <1>2, <1>3, CountUp
  <2> QED
    BY <1>1, <1>2, <2>1
<1> QED
  BY <1>4, Beginnings DEF S

(* A sum with one number exchanged.                                          *)
LEMMA TotalChange ==
    ASSUME NEW s \in Seq(Int), NEW t \in Seq(Int), Len(s) = Len(t), NEW i \in 1 .. Len(s),
           \A j \in 1 .. Len(s) : j # i => s[j] = t[j]
    PROVE  Total(t) = Total(s) + (t[i] - s[i])
<1> DEFINE N == Len(s)
           D == t[i] - s[i]
<1>1. PICK u \in [0 .. Len(s) -> Int] : Adding(u, s) /\ Total(s) = u[Len(s)]
  BY TotalAdds
<1>2. PICK v \in [0 .. Len(t) -> Int] : Adding(v, t) /\ Total(t) = v[Len(t)]
  BY TotalAdds
<1>3. N \in Nat /\ Len(t) = N /\ i \in 1 .. N /\ \A n \in 1 .. N : s[n] \in Int /\ t[n] \in Int
  OBVIOUS
<1>4. D \in Int
  BY <1>3
<1>5. \A n \in 1 .. N : u[n] = u[n - 1] + s[n] /\ v[n] = v[n - 1] + t[n]
  BY <1>1, <1>2, <1>3 DEF Adding
<1>6. /\ u[0] = 0 /\ v[0] = 0 /\ \A n \in 0 .. N : u[n] \in Int /\ v[n] \in Int
      /\ Total(s) = u[N] /\ Total(t) = v[N]
  BY <1>1, <1>2, <1>3 DEF Adding
<1> DEFINE S == {n \in 0 .. N : v[n] = u[n] + (IF n >= i THEN D ELSE 0)}
<1> HIDE DEF N
<1>7. 0 \in S
  BY <1>3, <1>6
<1>8. \A n \in 0 .. N - 1 : n \in S => n + 1 \in S
  <2> SUFFICES ASSUME NEW n \in 0 .. N - 1, n \in S PROVE n + 1 \in S
    OBVIOUS
  <2>1. n + 1 \in 1 .. N /\ n + 1 \in 0 .. N /\ n + 1 - 1 = n
    BY <1>3
  <2>2. u[n + 1] = u[n] + s[n + 1] /\ v[n + 1] = v[n] + t[n + 1]
    BY <1>5, <2>1
  <2>3. u[n] \in Int /\ v[n] \in Int /\ s[n + 1] \in Int /\ t[n + 1] \in Int
    BY <1>3, <1>6, <2>1
  <2>4. CASE n + 1 = i
    <3>0. v[n] = u[n]
      BY <1>3, <2>4, <2>3
    <3>1. v[n] = u[n] /\ t[n + 1] = s[n + 1] + D
      <4>1. t[n + 1] = t[i] /\ s[n + 1] = s[i] /\ t[i] \in Int /\ s[i] \in Int
        BY <1>3, <2>4
      <4> QED
        BY <3>0, <4>1
    <3>2. v[n + 1] = u[n + 1] + D
      BY SMTT(20), <1>4, <2>2, <2>3, <3>1
    <3> QED
      BY <2>1, <2>4, <3>2
  <2>5. CASE n + 1 # i
    <3>1. s[n + 1] = t[n + 1] /\ (n + 1 >= i <=> n >= i)
      BY <1>3, <2>1, <2>5 DEF N
    <3> HIDE DEF D
    <3>2. v[n + 1] = u[n + 1] + (IF n + 1 >= i THEN D ELSE 0)
      BY SMTT(20), <1>4, <2>2, <2>3, <3>1
    <3> QED
      BY <2>1, <3>2
  <2> QED
    BY <2>4, <2>5
<1> HIDE DEF S
<1>9. N \in S
  <2>1. \A n \in 0 .. N : n \in S
    BY <1>3, <1>7, <1>8, CountUp
  <2> QED
    BY <1>3, <2>1
<1>10. v[N] = u[N] + D
  BY <1>3, <1>9 DEF S
<1> QED
  BY <1>6, <1>10
=============================================================================
