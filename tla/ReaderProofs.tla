---------------------------- MODULE ReaderProofs ----------------------------
(***************************************************************************)
(* What a read answers is what the bulk holds, for every bulk, every query *)
(* and every limit.  An answer is a function of the bulk and of the query  *)
(* that passed the checks (Inv of Reader): the rest is about that function.*)
(***************************************************************************)
EXTENDS Reader, ChunksProofs

-----------------------------------------------------------------------------
(* Positions: the elements of a finite set of integers are numbered 0, 1, .. *)

LEMMA MaxOfTwo ==
    ASSUME NEW a \in Int, NEW b \in Int
    PROVE  Max({a, b}) = IF a >= b THEN a ELSE b
<1>1. \E x \in {a, b} : \A y \in {a, b} : x >= y
  OBVIOUS
<1>2. Max({a, b}) \in {a, b} /\ \A y \in {a, b} : Max({a, b}) >= y
  BY <1>1 DEF Max
<1> QED
  BY <1>2

LEMMA MinOfTwo ==
    ASSUME NEW a \in Int, NEW b \in Int
    PROVE  Min({a, b}) = IF a <= b THEN a ELSE b
<1>1. \E x \in {a, b} : \A y \in {a, b} : x =< y
  OBVIOUS
<1>2. Min({a, b}) \in {a, b} /\ \A y \in {a, b} : Min({a, b}) =< y
  BY <1>1 DEF Min
<1> QED
  BY <1>2

(* Positions are those of an enumeration in increasing order.                *)
LEMMA Positions ==
    ASSUME NEW S, IsFiniteSet(S), S \subseteq Int
    PROVE  /\ Cardinality(S) \in Nat
           /\ \A x \in S : Position(S, x) \in 0 .. Cardinality(S) - 1
           /\ \A x, y \in S : x < y <=> Position(S, x) < Position(S, y)
           /\ \A k \in 0 .. Cardinality(S) - 1 : \E x \in S : Position(S, x) = k
<1> DEFINE n == Cardinality(S)
           D == 0 .. n - 1
           p == [x \in S |-> Position(S, x)]
<1>1. n \in Nat
  BY FS_CardinalityType
<1>2. \A x \in S : Position(S, x) \in D
  <2>1. ASSUME NEW x \in S PROVE Position(S, x) \in D
    <3>1. Position(S, x) \in Nat /\ Position(S, x) < n
      BY RankIs DEF Position
    <3> QED
      BY <1>1, <3>1
  <2> QED
    BY <2>1
<1>3. ASSUME NEW x \in S, NEW y \in S, x < y
      PROVE  Position(S, x) < Position(S, y)
  <2> DEFINE B == {z \in S : z < x}
             C == {z \in S : z < y}
  <2>1. B \cup {x} \subseteq C /\ x \notin B /\ B \subseteq S /\ C \subseteq S
    <3>1. x \in Int /\ y \in Int
      OBVIOUS
    <3>2. ASSUME NEW z \in S, z < x PROVE z < y
      <4>1. z \in Int
        OBVIOUS
      <4> QED
        BY <1>3, <3>1, <3>2, <4>1
    <3>3. ~(x < x)
      BY <3>1
    <3> QED
      BY <1>3, <3>2, <3>3
  <2> HIDE DEF B, C
  <2>2. IsFiniteSet(B) /\ IsFiniteSet(C)
    BY <2>1, FS_Subset
  <2>3. IsFiniteSet(B \cup {x}) /\ Cardinality(B \cup {x}) = Cardinality(B) + 1
    BY <2>1, <2>2, FS_AddElement
  <2>4. Cardinality(B \cup {x}) <= Cardinality(C)
    BY <2>1, <2>2, FS_Subset
  <2>5. Cardinality(B) \in Nat /\ Cardinality(C) \in Nat
    BY <2>2, FS_CardinalityType
  <2>6. Cardinality(B) < Cardinality(C)
    BY <2>3, <2>4, <2>5
  <2> QED
    BY <2>6 DEF Position, B, C
<1>4. \A x, y \in S : x < y <=> Position(S, x) < Position(S, y)
  <2>1. ASSUME NEW x \in S, NEW y \in S PROVE x < y <=> Position(S, x) < Position(S, y)
    <3>1. x \in Int /\ y \in Int
      OBVIOUS
    <3>2. Position(S, x) \in Nat /\ Position(S, y) \in Nat
      BY <1>1, <1>2
    <3>3. x < y => Position(S, x) < Position(S, y)
      BY <1>3
    <3>4. y < x => Position(S, y) < Position(S, x)
      BY <1>3
    <3> QED
      BY <3>1, <3>2, <3>3, <3>4
  <2> QED
    BY <2>1
<1>5. IsFiniteSet(D) /\ Cardinality(D) = n
  <2>1. IsFiniteSet(0 .. n - 1) /\ Cardinality(0 .. n - 1) = IF 0 > n - 1 THEN 0 ELSE n - 1 - 0 + 1
    BY <1>1, FS_Interval
  <2> QED
    BY <1>1, <2>1
<1>6. p \in Injection(S, D)
  <2>1. p \in [S -> D]
    BY <1>2
  <2>2. \A x, y \in S : p[x] = p[y] => x = y
    <3>1. ASSUME NEW x \in S, NEW y \in S, p[x] = p[y] PROVE x = y
      <4>1. Position(S, x) = Position(S, y) /\ Position(S, x) \in Int
        BY <1>2, <3>1
      <4>2. ~(x < y) /\ ~(y < x)
        BY <1>4, <4>1
      <4>3. x \in Int /\ y \in Int
        OBVIOUS
      <4> QED
        BY <4>2, <4>3
    <3> QED
      BY <3>1
  <2> HIDE DEF p, D
  <2> QED
    BY <2>1, <2>2 DEF Injection, IsInjective
<1>7. p \in Surjection(S, D)
  <2> HIDE DEF p, D
  <2> QED
    BY <1>5, <1>6, FS_Injection
<1>8. \A k \in D : \E x \in S : Position(S, x) = k
  <2>1. \A k \in D : \E x \in S : p[x] = k
    <3> HIDE DEF p, D
    <3> QED
      BY <1>7 DEF Surjection
  <2> QED
    BY <2>1
<1> QED
  BY <1>1, <1>2, <1>4, <1>8

(* There are b - a elements from position a to position b.                   *)
LEMMA Between ==
    ASSUME NEW S, IsFiniteSet(S), S \subseteq Int,
           NEW a \in 0 .. Cardinality(S), NEW b \in a .. Cardinality(S)
    PROVE  Cardinality({x \in S : a <= Position(S, x) /\ Position(S, x) < b}) = b - a
<1> DEFINE n == Cardinality(S)
           P == {x \in S : a <= Position(S, x) /\ Position(S, x) < b}
           D == a .. b - 1
           p == [x \in P |-> Position(S, x)]
<1>1. /\ n \in Nat /\ \A x \in S : Position(S, x) \in 0 .. n - 1
      /\ \A x, y \in S : x < y <=> Position(S, x) < Position(S, y)
      /\ \A k \in 0 .. n - 1 : \E x \in S : Position(S, x) = k
  BY Positions
<1>0. a \in Nat /\ b \in Nat /\ a <= b /\ b <= n
  BY <1>1
<1>2. IsFiniteSet(D) /\ Cardinality(D) = b - a
  <2>1. IsFiniteSet(a .. b - 1) /\ Cardinality(a .. b - 1) = IF a > b - 1 THEN 0 ELSE b - 1 - a + 1
    <3>1. a \in Int /\ b - 1 \in Int
      BY <1>0
    <3> QED
      BY <3>1, FS_Interval
  <2> QED
    BY <1>0, <2>1
<1> HIDE DEF n
<1>3. p \in [P -> D]
  <2>1. \A x \in P : Position(S, x) \in D
    BY <1>0, <1>1
  <2> QED
    BY <2>1
<1>4. \A x, y \in P : p[x] = p[y] => x = y
  <2>1. ASSUME NEW x \in P, NEW y \in P, p[x] = p[y] PROVE x = y
    <3>1. Position(S, x) = Position(S, y) /\ Position(S, x) \in Int
      BY <1>1, <2>1
    <3>2. ~(x < y) /\ ~(y < x)
      BY <1>1, <3>1
    <3>3. x \in Int /\ y \in Int
      OBVIOUS
    <3> QED
      BY <3>2, <3>3
  <2> QED
    BY <2>1
<1>5. \A k \in D : \E x \in P : p[x] = k
  <2>1. ASSUME NEW k \in D PROVE \E x \in P : p[x] = k
    <3>1. k \in 0 .. n - 1 /\ a <= k /\ k < b
      BY <1>0, <1>1
    <3>2. PICK x \in S : Position(S, x) = k
      BY <1>1, <3>1
    <3> QED
      BY <3>1, <3>2
  <2> QED
    BY <2>1
<1> HIDE DEF p, D, P
<1>6. p \in Injection(P, D) /\ p \in Surjection(P, D)
  BY <1>3, <1>4, <1>5 DEF Injection, IsInjective, Surjection
<1>7. Cardinality(P) = Cardinality(D)
  BY <1>2, <1>6, FS_Injection
<1> QED
  BY <1>2, <1>7 DEF P

-----------------------------------------------------------------------------
(* Pages *)

(* The number of rows of a page: what is left after those that are skipped,  *)
(* but no more than the limit.                                               *)
LEMMA RowCountIs ==
    ASSUME NEW q, Query(q), NEW nb \in Nat
    PROVE  LET left == IF nb > Skip(q) THEN nb - Skip(q) ELSE 0
           IN  /\ Skip(q) \in Nat
               /\ q.limit # Absent => q.limit \in Nat \ {0}
               /\ RowCount(q, nb) = IF q.limit = Absent THEN left
                                    ELSE IF q.limit <= left THEN q.limit ELSE left
<1> DEFINE left == IF nb > Skip(q) THEN nb - Skip(q) ELSE 0
<1>1. Skip(q) \in Nat /\ (q.limit # Absent => q.limit \in Nat \ {0})
  BY ReaderAssumption DEF Query, Skip
<1>2. Max({0, nb - Skip(q)}) = left
  <2>1. nb - Skip(q) \in Int
    BY <1>1
  <2>2. Max({0, nb - Skip(q)}) = IF 0 >= nb - Skip(q) THEN 0 ELSE nb - Skip(q)
    BY <2>1, MaxOfTwo
  <2> QED
    BY <1>1, <2>2
<1>3. left \in Nat
  BY <1>1
<1> HIDE DEF left
<1>4. q.limit # Absent => Min({q.limit, left}) = IF q.limit <= left THEN q.limit ELSE left
  BY <1>1, <1>3, MinOfTwo
<1>5. RowCount(q, nb) = IF q.limit = Absent THEN left ELSE Min({q.limit, left})
  BY <1>2 DEF RowCount
<1> QED
  BY <1>1, <1>4, <1>5 DEF left

(* A page is what is between two positions.                                  *)
LEMMA PageBetween ==
    ASSUME NEW q, Query(q), NEW R, IsFiniteSet(R), R \subseteq Int
    PROVE  LET n == Cardinality(R)
               a == IF Skip(q) < n THEN Skip(q) ELSE n
               b == a + RowCount(q, n)
           IN  /\ n \in Nat /\ a \in 0 .. n /\ b \in a .. n
               /\ FilterByIndex(q, R) = {x \in R : a <= Position(R, x) /\ Position(R, x) < b}
<1> DEFINE n == Cardinality(R)
           a == IF Skip(q) < n THEN Skip(q) ELSE n
           b == a + RowCount(q, n)
           left == IF n > Skip(q) THEN n - Skip(q) ELSE 0
<1>1. n \in Nat /\ \A x \in R : Position(R, x) \in 0 .. n - 1
  BY Positions
<1>2. /\ Skip(q) \in Nat /\ (q.limit # Absent => q.limit \in Nat \ {0})
      /\ RowCount(q, n) = IF q.limit = Absent THEN left
                          ELSE IF q.limit <= left THEN q.limit ELSE left
  BY <1>1, RowCountIs
<1> HIDE DEF n
<1>3. a \in 0 .. n /\ b \in a .. n
  BY <1>1, <1>2
<1>4. ASSUME NEW x \in R
      PROVE  (Position(R, x) >= Skip(q) /\ (q.limit # Absent => Position(R, x) < Skip(q) + q.limit))
             <=> a <= Position(R, x) /\ Position(R, x) < b
  <2> DEFINE p == Position(R, x)
  <2>1. p \in 0 .. n - 1
    BY <1>1
  <2> HIDE DEF p
  <2>2. (p >= Skip(q) /\ (q.limit # Absent => p < Skip(q) + q.limit)) <=> a <= p /\ p < b
    BY <1>1, <1>2, <2>1
  <2> QED
    BY <2>2 DEF p
<1> HIDE DEF a, b
<1>5. FilterByIndex(q, R) = {x \in R : a <= Position(R, x) /\ Position(R, x) < b}
  BY <1>4 DEF FilterByIndex
<1> QED
  BY <1>1, <1>3, <1>5 DEF a, b, n

(* What the filter by positions returns is the page that is asked.           *)
LEMMA PageIs ==
    ASSUME NEW q, Query(q), NEW R, IsFiniteSet(R), R \subseteq Int
    PROVE  IsPage(FilterByIndex(q, R), q, R)
<1> DEFINE n == Cardinality(R)
           a == IF Skip(q) < n THEN Skip(q) ELSE n
           b == a + RowCount(q, n)
           P == FilterByIndex(q, R)
<1>1. /\ n \in Nat /\ a \in 0 .. n /\ b \in a .. n
      /\ P = {x \in R : a <= Position(R, x) /\ Position(R, x) < b}
  BY PageBetween
<1>2. /\ \A x \in R : Position(R, x) \in 0 .. n - 1
      /\ \A x, y \in R : x < y <=> Position(R, x) < Position(R, y)
  BY Positions
<1>3. Skip(q) \in Nat /\ RowCount(q, n) \in Int
  <2>1. Skip(q) \in Nat
    BY <1>1, RowCountIs
  <2>2. RowCount(q, n) \in Int
    BY <1>1, RowCountIs
  <2> QED
    BY <2>1, <2>2
<1>4. Cardinality(P) = RowCount(q, n)
  <2>1. Cardinality({x \in R : a <= Position(R, x) /\ Position(R, x) < b}) = b - a
    <3> HIDE DEF b, a
    <3> QED
      BY <1>1, Between
  <2>2. a \in Int
    BY <1>1
  <2> HIDE DEF a
  <2> QED
    BY <1>1, <1>3, <2>1, <2>2
<1> HIDE DEF P, n, b
<1>5. P \subseteq R
  BY <1>1
<1>6. ASSUME NEW r \in R \ P
      PROVE  (\A p \in P : r < p) \/ (\A p \in P : p < r)
  <2>1. ~(a <= Position(R, r) /\ Position(R, r) < b)
    BY <1>1
  <2> HIDE DEF a
  <2>2. a \in Int /\ b \in Int /\ \A x \in R : Position(R, x) \in Int
    BY <1>1, <1>2
  <2>3. CASE Position(R, r) < a
    <3>1. ASSUME NEW p \in P PROVE r < p
      <4>1. p \in R /\ a <= Position(R, p)
        BY <1>1
      <4>2. Position(R, r) < Position(R, p)
        BY <2>2, <2>3, <4>1
      <4> QED
        BY <1>2, <4>1, <4>2
    <3> QED
      BY <3>1
  <2>4. CASE b <= Position(R, r)
    <3>1. ASSUME NEW p \in P PROVE p < r
      <4>1. p \in R /\ Position(R, p) < b
        BY <1>1
      <4>2. Position(R, p) < Position(R, r)
        BY <2>2, <2>4, <4>1
      <4> QED
        BY <1>2, <4>1, <4>2
    <3> QED
      BY <3>1
  <2> QED
    BY <2>1, <2>2, <2>3, <2>4
<1>7. ASSUME P # {}
      PROVE  Cardinality({r \in R : \A p \in P : r < p}) = Skip(q)
  <2>1. PICK p0 \in P : TRUE
    BY <1>7
  <2>2. p0 \in R /\ a <= Position(R, p0) /\ Position(R, p0) < b /\ Position(R, p0) \in 0 .. n - 1
    BY <1>1, <1>2, <2>1
  <2>3. a = Skip(q) /\ a < n /\ a < b
    BY <1>1, <1>3, <2>2
  <2> HIDE DEF a
  <2>4. PICK p1 \in R : Position(R, p1) = a
    <3>1. a \in 0 .. n - 1
      BY <1>1, <2>3
    <3> QED
      BY <3>1, Positions DEF n
  <2>5. p1 \in P
    BY <1>1, <2>3, <2>4
  <2>6. ASSUME NEW r \in R
        PROVE  (\A p \in P : r < p) <=> 0 <= Position(R, r) /\ Position(R, r) < a
    <3>1. Position(R, r) \in Nat /\ a \in Nat
      BY <1>1, <1>2
    <3>2. ASSUME \A p \in P : r < p PROVE Position(R, r) < a
      BY <1>2, <2>4, <2>5, <3>2
    <3>3. ASSUME Position(R, r) < a, NEW p \in P PROVE r < p
      <4>1. p \in R /\ a <= Position(R, p) /\ Position(R, p) \in Nat
        BY <1>1, <1>2
      <4>2. Position(R, r) < Position(R, p)
        BY <3>1, <3>3, <4>1
      <4> QED
        BY <1>2, <4>1, <4>2
    <3> QED
      BY <3>1, <3>2, <3>3
  <2>7. {r \in R : \A p \in P : r < p} = {r \in R : 0 <= Position(R, r) /\ Position(R, r) < a}
    BY <2>6
  <2>8. Cardinality({r \in R : 0 <= Position(R, r) /\ Position(R, r) < a}) = a - 0
    <3>1. 0 \in 0 .. n /\ a \in 0 .. n
      BY <1>1
    <3> QED
      BY <3>1, Between DEF n
  <2> QED
    BY <1>1, <2>3, <2>7, <2>8
<1> QED
  BY <1>4, <1>5, <1>6, <1>7 DEF IsPage, n, P

-----------------------------------------------------------------------------
(* Lists of labels *)

(* s has the elements of S, each once.                                       *)
Lists(s, S) == s \in Seq(S) /\ ToSet(s) = S /\ Len(s) = Cardinality(S)

LEMMA NatsortedIs ==
    ASSUME NEW S, IsFiniteSet(S), S \subseteq Int
    PROVE  Lists(Natsorted(S), S)
<1> DEFINE n == Cardinality(S)
           s == Natsorted(S)
<1>1. /\ n \in Nat
      /\ \A x \in S : Position(S, x) \in 0 .. n - 1
      /\ \A k \in 0 .. n - 1 : \E x \in S : Position(S, x) = k
      /\ \A x, y \in S : x < y <=> Position(S, x) < Position(S, y)
  BY Positions
<1> HIDE DEF n
<1>2. s = [k \in 1 .. n |-> CHOOSE x \in S : Position(S, x) = k - 1]
  BY DEF Natsorted, n
<1>3. ASSUME NEW k \in 1 .. n
      PROVE  s[k] \in S /\ Position(S, s[k]) = k - 1
  <2>1. k - 1 \in 0 .. n - 1
    BY <1>1
  <2>2. \E x \in S : Position(S, x) = k - 1
    BY <1>1, <2>1
  <2>3. s[k] = CHOOSE x \in S : Position(S, x) = k - 1
    BY <1>2
  <2> HIDE DEF s
  <2> QED
    BY <2>2, <2>3
<1> HIDE DEF s
<1>4. s \in [1 .. n -> S]
  BY <1>2, <1>3
<1>5. s \in Seq(S) /\ Len(s) = n /\ DOMAIN s = 1 .. n
  BY <1>1, <1>4
<1>6. ASSUME NEW x \in S
      PROVE  \E k \in 1 .. n : s[k] = x
  <2>1. Position(S, x) \in 0 .. n - 1
    BY <1>1
  <2>2. PICK k \in 1 .. n : k - 1 = Position(S, x)
    <3>1. Position(S, x) + 1 \in 1 .. n /\ (Position(S, x) + 1) - 1 = Position(S, x)
      BY <1>1, <2>1
    <3> QED
      BY <3>1
  <2>3. s[k] \in S /\ Position(S, s[k]) = Position(S, x)
    BY <1>3, <2>2
  <2>4. ~(s[k] < x) /\ ~(x < s[k])
    <3>1. Position(S, x) \in Int
      BY <1>1, <2>1
    <3>2. ~(Position(S, s[k]) < Position(S, x)) /\ ~(Position(S, x) < Position(S, s[k]))
      BY <2>3, <3>1
    <3> HIDE DEF n
    <3> QED
      BY <1>1, <2>3, <3>2
  <2>5. s[k] \in Int /\ x \in Int
    BY <2>3
  <2>6. s[k] = x
    BY <2>4, <2>5
  <2> QED
    BY <2>6
<1>7. ToSet(s) = S
  BY <1>3, <1>5, <1>6 DEF ToSet
<1> QED
  BY <1>5, <1>7 DEF Lists, n, s

LEMMA ConcatLists ==
    ASSUME NEW S, NEW T, IsFiniteSet(S), IsFiniteSet(T), S \cap T = {},
           NEW s, Lists(s, S), NEW t, Lists(t, T)
    PROVE  Lists(s \o t, S \cup T)
<1>1. s \in Seq(S \cup T) /\ t \in Seq(S \cup T)
  BY DEF Lists
<1>2. Len(s) \in Nat /\ Len(t) \in Nat /\ DOMAIN s = 1 .. Len(s) /\ DOMAIN t = 1 .. Len(t)
  BY <1>1
<1>3. /\ s \o t \in Seq(S \cup T)
      /\ Len(s \o t) = Len(s) + Len(t)
      /\ \A i \in 1 .. Len(s) + Len(t) :
           (s \o t)[i] = IF i <= Len(s) THEN s[i] ELSE t[i - Len(s)]
  BY <1>1
<1>4. Len(s \o t) = Cardinality(S \cup T)
  <2>1. Cardinality(S \cup T) = Cardinality(S) + Cardinality(T) - Cardinality(S \cap T)
    BY FS_Union
  <2>2. Cardinality(S \cap T) = 0
    BY FS_EmptySet
  <2> QED
    BY <1>2, <1>3, <2>1, <2>2 DEF Lists
<1> DEFINE u == s \o t
<1> HIDE DEF u
<1>5. DOMAIN u = 1 .. Len(s) + Len(t)
  BY <1>2, <1>3 DEF u
<1>6. ASSUME NEW x \in S \cup T
      PROVE  \E i \in DOMAIN u : u[i] = x
  <2>1. CASE x \in S
    <3>1. PICK i \in 1 .. Len(s) : s[i] = x
      BY <1>2, <2>1 DEF Lists, ToSet
    <3>2. i \in 1 .. Len(s) + Len(t) /\ i <= Len(s)
      BY <1>2
    <3> QED
      BY <1>3, <1>5, <3>1, <3>2 DEF u
  <2>2. CASE x \in T
    <3>1. PICK i \in 1 .. Len(t) : t[i] = x
      BY <1>2, <2>2 DEF Lists, ToSet
    <3>2. Len(s) + i \in 1 .. Len(s) + Len(t) /\ ~(Len(s) + i <= Len(s)) /\ (Len(s) + i) - Len(s) = i
      BY <1>2
    <3> QED
      BY <1>3, <1>5, <3>1, <3>2 DEF u
  <2> QED
    BY <2>1, <2>2
<1>7. \A i \in DOMAIN u : u[i] \in S \cup T
  BY <1>3 DEF u
<1>8. ToSet(u) = S \cup T
  BY <1>6, <1>7 DEF ToSet
<1> QED
  BY <1>3, <1>4, <1>8 DEF Lists, u

(* An induction over 0 .. N: G has them all. *)
LEMMA UpTo ==
    ASSUME NEW N \in Nat, NEW G, 0 \in G, \A k \in 0 .. N - 1 : k \in G => k + 1 \in G
    PROVE  0 .. N \subseteq G
<1> DEFINE Bad == (0 .. N) \ G
<1>1. SUFFICES ASSUME Bad # {} PROVE FALSE
  OBVIOUS
<1>2. IsFiniteSet(0 .. N)
  BY FS_Interval
<1>3. IsFiniteSet(Bad) /\ Bad \subseteq Int
  BY <1>2, FS_Subset
<1>4. PICK m \in Bad : \A y \in Bad : m =< y
  BY <1>1, <1>3, BoundsExist
<1>6. m \in 1 .. N /\ m - 1 \in 0 .. N - 1 /\ m - 1 \notin Bad
  BY <1>4
<1>7. (m - 1) + 1 \in G
  BY <1>6
<1> QED
  BY <1>4, <1>6, <1>7

(* The loop over the sets of labels is well defined. *)
LEMMA LoopExists ==
    ASSUME NEW C, NEW N \in Nat
    PROVE  \E g : g = [k \in 0 .. N |-> IF k = 0 THEN <<>> ELSE AddLabels(g[k - 1], C[k])]
<1> DEFINE Loop(g, m) == g = [k \in 0 .. m |-> IF k = 0 THEN <<>> ELSE AddLabels(g[k - 1], C[k])]
           G == {m \in Nat : \E g : Loop(g, m)}
<1>1. 0 \in G
  <2> DEFINE g == [k \in {0} |-> <<>>]
  <2>1. Loop(g, 0)
    <3>1. 0 .. 0 = {0}
      OBVIOUS
    <3> QED
      BY <3>1
  <2> QED
    BY <2>1
<1>2. ASSUME NEW m \in 0 .. N - 1, m \in G
      PROVE  m + 1 \in G
  <2>1. PICK g : Loop(g, m)
    BY <1>2
  <2> DEFINE h == [k \in 0 .. m + 1 |-> IF k = m + 1 THEN AddLabels(g[m], C[m + 1]) ELSE g[k]]
  <2>2. ASSUME NEW k \in 0 .. m + 1
        PROVE  h[k] = IF k = 0 THEN <<>> ELSE AddLabels(h[k - 1], C[k])
    <3>1. CASE k = m + 1
      <4>1. k # 0 /\ k - 1 = m /\ m \in 0 .. m + 1 /\ m # m + 1
        BY <3>1
      <4>2. h[m] = g[m]
        BY <4>1
      <4> QED
        BY <3>1, <4>1, <4>2
    <3>2. CASE k \in 0 .. m
      <4>1. h[k] = g[k] /\ g[k] = IF k = 0 THEN <<>> ELSE AddLabels(g[k - 1], C[k])
        BY <2>1, <3>2
      <4>2. k # 0 => h[k - 1] = g[k - 1]
        BY <3>2
      <4> QED
        BY <4>1, <4>2
    <3> QED
      BY <3>1, <3>2
  <2>3. Loop(h, m + 1)
    <3>1. h = [k \in 0 .. m + 1 |-> h[k]]
      OBVIOUS
    <3> HIDE DEF h
    <3> QED
      BY <2>2, <3>1
  <2> HIDE DEF h
  <2>4. m + 1 \in Nat
    OBVIOUS
  <2> QED
    BY <2>3, <2>4
<1> HIDE DEF G
<1>3. 0 .. N \subseteq G
  BY <1>1, <1>2, UpTo
<1>4. N \in G
  BY <1>3
<1> QED
  BY <1>4 DEF G

(* The list of several sets has their labels, none of them twice.            *)
LEMMA ListedIs ==
    ASSUME NEW C, Len(C) \in Nat, NEW U, IsFiniteSet(U), U \subseteq Int,
           \A k \in 1 .. Len(C) : C[k] \subseteq U
    PROVE  Lists(Listed(C), UNION {C[k] : k \in 1 .. Len(C)})
<1> DEFINE N == Len(C)
           names == CHOOSE g : g = [k \in 0 .. N |-> IF k = 0 THEN <<>> ELSE AddLabels(g[k - 1], C[k])]
           First(m) == UNION {C[k] : k \in 1 .. m}
           G == {m \in 0 .. N : Lists(names[m], First(m))}
<1>1. names = [k \in 0 .. N |-> IF k = 0 THEN <<>> ELSE AddLabels(names[k - 1], C[k])]
  BY LoopExists
<1>2. Listed(C) = names[N]
  BY DEF Listed
<1> HIDE DEF names
<1>3. 0 \in G
  <2>1. names[0] = <<>>
    BY <1>1
  <2>2. First(0) = {}
    OBVIOUS
  <2>3. Lists(<<>>, {})
    BY FS_EmptySet DEF Lists, ToSet
  <2> QED
    BY <2>1, <2>2, <2>3
<1>4. ASSUME NEW m \in 0 .. N - 1, m \in G
      PROVE  m + 1 \in G
  <2>1. m + 1 \in 1 .. N /\ m + 1 \in 0 .. N /\ names[m + 1] = AddLabels(names[m], C[m + 1])
    BY <1>1
  <2>2. Lists(names[m], First(m)) /\ ToSet(names[m]) = First(m)
    BY <1>4 DEF Lists
  <2> DEFINE D == C[m + 1] \ First(m)
  <2>3. names[m + 1] = names[m] \o Natsorted(D)
    BY <2>1, <2>2 DEF AddLabels
  <2>4. First(m + 1) = First(m) \cup D
    <3>1. 1 .. m + 1 = 1 .. m \cup {m + 1}
      OBVIOUS
    <3> QED
      BY <3>1
  <2>5. First(m) \subseteq U /\ D \subseteq U
    <3>1. \A k \in 1 .. m : k \in 1 .. Len(C)
      OBVIOUS
    <3> QED
      BY <2>1, <3>1
  <2>6. IsFiniteSet(First(m)) /\ IsFiniteSet(D) /\ D \subseteq Int /\ First(m) \cap D = {}
    BY <2>5, FS_Subset
  <2> HIDE DEF D, First
  <2>7. Lists(Natsorted(D), D)
    BY <2>6, NatsortedIs
  <2>8. Lists(names[m] \o Natsorted(D), First(m) \cup D)
    BY <2>2, <2>6, <2>7, ConcatLists
  <2> QED
    BY <2>1, <2>3, <2>4, <2>8
<1> HIDE DEF G
<1>5. 0 .. N \subseteq G
  BY <1>3, <1>4, UpTo
<1>6. N \in G
  BY <1>5
<1> QED
  BY <1>2, <1>6 DEF G

-----------------------------------------------------------------------------
(* The bulk *)

LEMMA BulkIs ==
    ASSUME NEW b, WellFormed(b)
    PROVE  /\ Len(b.groups) \in Nat /\ DOMAIN b.groups = 1 .. Len(b.groups)
           /\ \A g \in Groups(b) : /\ Len(g.paths) \in Nat /\ DOMAIN g.paths = 1 .. Len(g.paths)
                                   /\ FilesOf(g) # {} /\ g.labels \subseteq Cols /\ g.labels # {}
           /\ AllColumns(b) \subseteq Cols /\ IsFiniteSet(AllColumns(b)) /\ AllColumns(b) \subseteq Int
           /\ BulkRows(b) \subseteq Rows /\ IsFiniteSet(BulkRows(b)) /\ BulkRows(b) \subseteq Int
           /\ b.nbRows = Cardinality(BulkRows(b)) /\ b.nbRows \in Nat
<1>1. Len(b.groups) \in Nat /\ DOMAIN b.groups = 1 .. Len(b.groups)
  BY DEF WellFormed
<1>2. ASSUME NEW g \in Groups(b)
      PROVE  /\ Len(g.paths) \in Nat /\ DOMAIN g.paths = 1 .. Len(g.paths)
             /\ FilesOf(g) # {} /\ g.labels \subseteq Cols /\ g.labels # {}
  <2>1. g.paths \in Seq(FilesOf(g)) /\ g.paths # <<>> /\ g.labels \in (SUBSET Cols) \ {{}}
    BY DEF WellFormed
  <2>2. Len(g.paths) \in Nat /\ DOMAIN g.paths = 1 .. Len(g.paths) /\ Len(g.paths) # 0
    BY <2>1
  <2>3. 1 \in DOMAIN g.paths
    BY <2>2
  <2> QED
    BY <2>1, <2>2, <2>3 DEF FilesOf
<1>3. AllColumns(b) \subseteq Cols
  BY <1>2 DEF AllColumns
<1>4. BulkRows(b) \subseteq Rows
  <2>1. ASSUME NEW f \in Files(b) PROVE f.rows \subseteq Rows
    <3>1. PICK g \in Groups(b) : f \in FilesOf(g)
      BY DEF Files
    <3>2. StoredFile(f, g.labels)
      BY <3>1 DEF WellFormed
    <3> QED
      BY <3>2 DEF StoredFile
  <2> QED
    BY <2>1 DEF BulkRows
<1>5. IsFiniteSet(AllColumns(b)) /\ IsFiniteSet(BulkRows(b))
  BY <1>3, <1>4, GeometryAssumption, FS_Subset
<1>6. b.nbRows = Cardinality(BulkRows(b)) /\ b.nbRows \in Nat
  <2>1. b.nbRows = Cardinality(BulkRows(b))
    BY DEF WellFormed, BulkRows
  <2> QED
    BY <1>5, <2>1, FS_CardinalityType
<1> QED
  BY <1>1, <1>2, <1>3, <1>4, <1>5, <1>6, GeometryAssumption

(* A file is in a group, whose columns are its own.                          *)
LEMMA FileIs ==
    ASSUME NEW b, WellFormed(b), NEW g \in Groups(b), NEW f \in FilesOf(g)
    PROVE  f.cols = g.labels /\ DOMAIN f.val = g.labels \X f.rows /\ f \in Files(b)
<1>1. StoredFile(f, g.labels)
  BY DEF WellFormed
<1> QED
  BY <1>1 DEF StoredFile, Files

(* No cell is in two files.                                                  *)
LEMMA OneFile ==
    ASSUME NEW b, WellFormed(b), NEW f \in Files(b), NEW h \in Files(b), NEW x,
           x \in DOMAIN f.val, x \in DOMAIN h.val
    PROVE  f = h
<1>1. PICK i \in DOMAIN b.groups : f \in FilesOf(b.groups[i])
  BY DEF Files, Groups
<1>2. PICK j \in DOMAIN b.groups : h \in FilesOf(b.groups[j])
  BY DEF Files, Groups
<1>3. b.groups[i] \in Groups(b) /\ b.groups[j] \in Groups(b)
  BY DEF Groups
<1>4. x \in b.groups[i].labels \X f.rows /\ x \in b.groups[j].labels \X h.rows
  BY <1>1, <1>2, <1>3, FileIs
<1>5. i = j
  <2>1. i # j => b.groups[i].labels \cap b.groups[j].labels = {}
    BY DEF WellFormed
  <2>2. x[1] \in b.groups[i].labels \cap b.groups[j].labels
    BY <1>4
  <2> QED
    BY <2>1, <2>2
<1> DEFINE g == b.groups[i]
<1>6. PICK k \in DOMAIN g.paths : f = g.paths[k]
  BY <1>1 DEF FilesOf
<1>7. PICK l \in DOMAIN g.paths : h = g.paths[l]
  BY <1>2, <1>5 DEF FilesOf
<1>8. k # l => g.paths[k].rows \cap g.paths[l].rows = {}
  BY <1>3 DEF WellFormed
<1>9. x[2] \in f.rows \cap h.rows
  BY <1>4
<1> QED
  BY <1>6, <1>7, <1>8, <1>9

LEMMA CellIs ==
    ASSUME NEW b, WellFormed(b), NEW f \in Files(b), NEW c, NEW r, <<c, r>> \in DOMAIN f.val
    PROVE  Cell(b, c, r) = f.val[<<c, r>>]
<1>1. \A h \in Files(b) : <<c, r>> \in DOMAIN h.val => h = f
  BY OneFile
<1>2. (CHOOSE h \in Files(b) : <<c, r>> \in DOMAIN h.val) = f
  BY <1>1
<1> QED
  BY <1>2 DEF Cell

LEMMA CellNone ==
    ASSUME NEW b, NEW c, NEW r, \A f \in Files(b) : <<c, r>> \notin DOMAIN f.val
    PROVE  Cell(b, c, r) = NaN
BY DEF Cell

-----------------------------------------------------------------------------
(* Selections and checks *)

(* Whatever is selected, columns of the bulk are requested, each once; all   *)
(* of them without a selection.                                              *)
LEMMA RequestedIs ==
    ASSUME NEW b, WellFormed(b), NEW q, Query(q)
    PROVE  LET A == AllColumns(b)
               s == RequestedColumns(q, A)
           IN  /\ ToSet(s) \subseteq A /\ Lists(s, ToSet(s))
               /\ q.curves = <<>> => s = Natsorted(A) /\ ToSet(s) = A
<1> DEFINE A == AllColumns(b)
           s == RequestedColumns(q, A)
<1>1. IsFiniteSet(A) /\ A \subseteq Int
  BY BulkIs
<1>2. CASE q.curves = <<>>
  <2>1. s = Natsorted(A)
    BY <1>2 DEF RequestedColumns
  <2>2. Lists(s, A)
    <3> HIDE DEF A, s
    <3> QED
      BY <1>1, <2>1, NatsortedIs
  <2>3. ToSet(s) = A
    BY <2>2 DEF Lists
  <2> QED
    BY <2>1, <2>2, <2>3
<1>3. CASE q.curves # <<>>
  <2> DEFINE sel == q.curves
             C == [i \in DOMAIN sel |-> IF Matching(sel[i], A) \subseteq A
                                        THEN Matching(sel[i], A) ELSE {}]
             U == UNION {C[k] : k \in 1 .. Len(C)}
  <2>1. Len(sel) \in Nat /\ DOMAIN sel = 1 .. Len(sel) /\ Len(sel) # 0
    BY <1>3 DEF Query
  <2>2. Len(C) = Len(sel)
    BY <2>1
  <2>3. s = Listed(C)
    BY <1>3 DEF RequestedColumns, Selected
  <2>4. \A k \in 1 .. Len(C) : C[k] \subseteq A
    BY <2>1, <2>2
  <2>5. Lists(s, U)
    <3> HIDE DEF A, C, s
    <3> QED
      BY <1>1, <2>1, <2>2, <2>3, <2>4, ListedIs
  <2>6. ToSet(s) = U
    BY <2>5 DEF Lists
  <2>7. U \subseteq A
    BY <2>4
  <2> HIDE DEF U
  <2> QED
    BY <1>3, <2>5, <2>6, <2>7
<1> QED
  BY <1>2, <1>3

(* Checks that end with "ok" have all been passed.                           *)
LEMMA NoneFails ==
    ASSUME NEW T, NEW checks \in Seq(T), \A c \in T : c.status # "ok", FirstFailing(checks) = "ok"
    PROVE  \A i \in 1 .. Len(checks) : ~ checks[i].fails
<1> DEFINE failing == {i \in DOMAIN checks : checks[i].fails}
<1>1. Len(checks) \in Nat /\ DOMAIN checks = 1 .. Len(checks)
  OBVIOUS
<1>2. SUFFICES ASSUME failing # {} PROVE FALSE
  BY <1>1
<1>3. IsFiniteSet(failing) /\ failing \subseteq Int
  <2>1. IsFiniteSet(1 .. Len(checks))
    BY <1>1, FS_Interval
  <2> QED
    BY <1>1, <2>1, FS_Subset
<1>4. failing \subseteq 1 .. Len(checks)
  BY <1>1
<1> HIDE DEF failing
<1>5. PICK m \in failing : m = Min(failing)
  <2>1. \E x \in failing : \A y \in failing : x =< y
    BY <1>2, <1>3, BoundsExist
  <2> QED
    BY <2>1 DEF Min
<1>6. checks[m] \in T
  BY <1>1, <1>4
<1>7. FirstFailing(checks) = checks[m].status
  BY <1>2, <1>5 DEF FirstFailing, failing
<1> QED
  BY <1>6, <1>7

LEMMA ConcatChecks ==
    ASSUME NEW S, NEW s \in Seq(S), NEW t \in Seq(S)
    PROVE  /\ s \o t \in Seq(S)
           /\ \A i \in 1 .. Len(s) : i \in 1 .. Len(s \o t) /\ (s \o t)[i] = s[i]
           /\ \A i \in 1 .. Len(t) : Len(s) + i \in 1 .. Len(s \o t) /\ (s \o t)[Len(s) + i] = t[i]
OBVIOUS

LEMMA ShortChecks ==
    ASSUME NEW S, NEW a \in S, NEW b \in S, NEW c \in S
    PROVE  /\ <<a>> \in Seq(S) /\ Len(<<a>>) = 1 /\ <<a>>[1] = a
           /\ LET s == <<a, b, c>>
              IN  s \in Seq(S) /\ Len(s) = 3 /\ s[1] = a /\ s[2] = b /\ s[3] = c
OBVIOUS

LEMMA NoneOfBoth ==
    ASSUME NEW T, NEW s \in Seq(T), NEW t \in Seq(T), \A c \in T : c.status # "ok",
           FirstFailing(s \o t) = "ok"
    PROVE  /\ \A i \in 1 .. Len(s) : ~ s[i].fails
           /\ \A i \in 1 .. Len(t) : ~ t[i].fails
<1>1. s \o t \in Seq(T)
  BY ConcatChecks
<1>2. \A i \in 1 .. Len(s \o t) : ~ (s \o t)[i].fails
  BY <1>1, NoneFails
<1>3. ASSUME NEW i \in 1 .. Len(s) PROVE ~ s[i].fails
  <2>1. i \in 1 .. Len(s \o t) /\ (s \o t)[i] = s[i]
    BY ConcatChecks
  <2> QED
    BY <1>2, <2>1
<1>4. ASSUME NEW i \in 1 .. Len(t) PROVE ~ t[i].fails
  <2>1. Len(s) + i \in 1 .. Len(s \o t) /\ (s \o t)[Len(s) + i] = t[i]
    BY ConcatChecks
  <2> QED
    BY <1>2, <2>1
<1> QED
  BY <1>3, <1>4

(* Checks answer "ok" or a status of theirs.                                 *)
LEMMA FailingStatus ==
    ASSUME NEW T, NEW checks \in Seq(T)
    PROVE  FirstFailing(checks) = "ok" \/ \E c \in T : FirstFailing(checks) = c.status
<1> DEFINE failing == {i \in DOMAIN checks : checks[i].fails}
<1>1. Len(checks) \in Nat /\ DOMAIN checks = 1 .. Len(checks)
  OBVIOUS
<1>2. CASE failing = {}
  BY <1>2 DEF FirstFailing
<1>3. CASE failing # {}
  <2>1. IsFiniteSet(failing) /\ failing \subseteq Int /\ failing \subseteq 1 .. Len(checks)
    <3>1. IsFiniteSet(1 .. Len(checks))
      BY <1>1, FS_Interval
    <3> QED
      BY <1>1, <3>1, FS_Subset
  <2> HIDE DEF failing
  <2>2. PICK m \in failing : m = Min(failing)
    <3>1. \E x \in failing : \A y \in failing : x =< y
      BY <1>3, <2>1, BoundsExist
    <3> QED
      BY <3>1 DEF Min
  <2>3. checks[m] \in T
    BY <1>1, <2>1
  <2>4. FirstFailing(checks) = checks[m].status
    BY <1>3, <2>2 DEF FirstFailing, failing
  <2> QED
    BY <2>3, <2>4
<1> QED
  BY <1>2, <1>3

LEMMA ValidationStatus ==
    ASSUME NEW b, NEW q
    PROVE  ValidateParameters(q, b) \in {"ok", "not found", "too large", "bad request"}
<1> DEFINE A == AllColumns(b)
           nb == Len(RequestedColumns(q, A))
           s1 == Check(q.curves # <<>> /\ NonExistent(q.curves, A) # {}, "not found")
           s2 == Check(q.curves = <<>> /\ Cardinality(A) > MaxReadColumns, "too large")
           s3 == Check(~ FilterColumns(q) \subseteq A, "bad request")
           d1 == Check(q.filters # {} /\ b.nbRows * Cardinality(FilterColumns(q)) > MaxLoadValues, "too large")
           r1 == Check(nb > MaxReadColumns, "too large")
           r2 == Check(b.nbRows * nb > MaxLoadValues, "too large")
           r3 == Check(RowCount(q, b.nbRows) * nb > MaxReadValues, "too large")
           T == {s1, s2, s3, d1, r1, r2, r3}
           checks == <<s1, s2, s3>> \o IF q.describe THEN <<d1>> ELSE <<r1, r2, r3>>
<1>1. /\ s1.status = "not found" /\ s2.status = "too large" /\ s3.status = "bad request"
      /\ d1.status = "too large" /\ r1.status = "too large" /\ r2.status = "too large"
      /\ r3.status = "too large"
  BY DEF Check
<1>2. ValidateParameters(q, b) = FirstFailing(checks)
  BY DEF ValidateParameters, SelectionChecks, DescribeChecks, ReadChecks
<1> HIDE DEF s1, s2, s3, d1, r1, r2, r3
<1>3. checks \in Seq(T)
  <2>1. <<s1, s2, s3>> \in Seq(T) /\ <<d1>> \in Seq(T) /\ <<r1, r2, r3>> \in Seq(T)
    BY ShortChecks
  <2>2. (IF q.describe THEN <<d1>> ELSE <<r1, r2, r3>>) \in Seq(T)
    BY <2>1
  <2> HIDE DEF T
  <2> QED
    BY <2>1, <2>2, ConcatChecks
<1> HIDE DEF checks
<1>4. FirstFailing(checks) = "ok" \/ \E c \in T : FirstFailing(checks) = c.status
  BY <1>3, FailingStatus
<1> QED
  BY <1>1, <1>2, <1>4

(* What the checks of a query that was accepted have found.                  *)
LEMMA AcceptedMeans ==
    ASSUME NEW b, WellFormed(b), NEW q, Query(q), Accepted(q, b)
    PROVE  LET A == AllColumns(b)
               nb == Len(RequestedColumns(q, A))
           IN  /\ FilterColumns(q) \subseteq A
               /\ q.curves # <<>> => NonExistent(q.curves, A) = {}
               /\ b.catalog /\ ~ q.describe => /\ ~ nb > MaxReadColumns
                                               /\ ~ RowCount(q, b.nbRows) * nb > MaxReadValues
<1> DEFINE A == AllColumns(b)
           nb == Len(RequestedColumns(q, A))
           s1 == Check(q.curves # <<>> /\ NonExistent(q.curves, A) # {}, "not found")
           s2 == Check(q.curves = <<>> /\ Cardinality(A) > MaxReadColumns, "too large")
           s3 == Check(~ FilterColumns(q) \subseteq A, "bad request")
           d1 == Check(q.filters # {} /\ b.nbRows * Cardinality(FilterColumns(q)) > MaxLoadValues, "too large")
           r1 == Check(nb > MaxReadColumns, "too large")
           r2 == Check(b.nbRows * nb > MaxLoadValues, "too large")
           r3 == Check(RowCount(q, b.nbRows) * nb > MaxReadValues, "too large")
           T == {s1, s2, s3, d1, r1, r2, r3}
<1>1. CASE ValidateParameters(q, b) = "ok"
  <2>1. \A c \in T : c.status # "ok"
    <3>1. s1.status # "ok" /\ s2.status # "ok" /\ s3.status # "ok" /\ d1.status # "ok"
      BY DEF Check
    <3>2. r1.status # "ok" /\ r2.status # "ok" /\ r3.status # "ok"
      BY DEF Check
    <3> HIDE DEF s1, s2, s3, d1, r1, r2, r3
    <3> QED
      BY <3>1, <3>2
  <2>2. /\ ~ s1.fails => (q.curves # <<>> => NonExistent(q.curves, A) = {})
        /\ ~ s3.fails => FilterColumns(q) \subseteq A
        /\ ~ r1.fails => ~ nb > MaxReadColumns
        /\ ~ r3.fails => ~ RowCount(q, b.nbRows) * nb > MaxReadValues
    BY DEF Check
  <2>3. FirstFailing(<<s1, s2, s3>> \o IF q.describe THEN <<d1>> ELSE <<r1, r2, r3>>) = "ok"
    BY <1>1 DEF ValidateParameters, SelectionChecks, DescribeChecks, ReadChecks
  <2> HIDE DEF s1, s2, s3, d1, r1, r2, r3
  <2>4. /\ <<s1, s2, s3>> \in Seq(T) /\ Len(<<s1, s2, s3>>) = 3
        /\ <<s1, s2, s3>>[1] = s1 /\ <<s1, s2, s3>>[3] = s3
    BY ShortChecks
  <2>5. <<d1>> \in Seq(T)
    BY ShortChecks
  <2>6. /\ <<r1, r2, r3>> \in Seq(T) /\ Len(<<r1, r2, r3>>) = 3
        /\ <<r1, r2, r3>>[1] = r1 /\ <<r1, r2, r3>>[3] = r3
    BY ShortChecks
  <2> HIDE DEF T
  <2>7. CASE q.describe
    <3>1. \A i \in 1 .. 3 : ~ <<s1, s2, s3>>[i].fails
      <4>1. FirstFailing(<<s1, s2, s3>> \o <<d1>>) = "ok"
        BY <2>3, <2>7
      <4>2. \A i \in 1 .. Len(<<s1, s2, s3>>) : ~ <<s1, s2, s3>>[i].fails
        BY <2>1, <2>4, <2>5, <4>1, NoneOfBoth
      <4> QED
        BY <2>4, <4>2
    <3> QED
      BY <2>2, <2>4, <2>7, <3>1
  <2>8. CASE ~ q.describe
    <3>1. FirstFailing(<<s1, s2, s3>> \o <<r1, r2, r3>>) = "ok"
      BY <2>3, <2>8
    <3>2. /\ \A i \in 1 .. Len(<<s1, s2, s3>>) : ~ <<s1, s2, s3>>[i].fails
          /\ \A i \in 1 .. Len(<<r1, r2, r3>>) : ~ <<r1, r2, r3>>[i].fails
      BY <2>1, <2>4, <2>6, <3>1, NoneOfBoth
    <3>3. ~ s1.fails /\ ~ s3.fails /\ ~ r1.fails /\ ~ r3.fails
      <4>1. ~ <<s1, s2, s3>>[1].fails /\ ~ <<s1, s2, s3>>[3].fails
        BY <2>4, <3>2
      <4>2. ~ <<r1, r2, r3>>[1].fails /\ ~ <<r1, r2, r3>>[3].fails
        BY <2>6, <3>2
      <4> QED
        BY <2>4, <2>6, <4>1, <4>2
    <3> QED
      BY <2>2, <3>3
  <2> QED
    BY <2>7, <2>8
<1>2. CASE ~ b.catalog /\ q.curves = <<>> /\ ~ q.describe
  BY <1>2 DEF Accepted
<1> QED
  BY <1>1, <1>2 DEF Accepted

-----------------------------------------------------------------------------
(* What is loaded *)

(* The labels that are loaded are columns of the bulk.                       *)
LEMMA LabelsToLoad ==
    ASSUME NEW b, WellFormed(b), NEW q, Query(q), Accepted(q, b)
    PROVE  LET L == ColumnsToLoad(q, b)
           IN  /\ L \subseteq AllColumns(b)
               /\ FilterColumns(q) \subseteq L
               /\ q.describe \/ ToSet(RequestedColumns(q, AllColumns(b))) \subseteq L
               /\ q.curves = <<>> /\ ~ q.describe => L = AllColumns(b)
<1> DEFINE A == AllColumns(b)
           C == ToSet(RequestedColumns(q, A))
<1>1. FilterColumns(q) \subseteq A /\ (q.curves # <<>> => NonExistent(q.curves, A) = {})
  BY AcceptedMeans
<1>2. C \subseteq A /\ (q.curves = <<>> => C = A)
  BY RequestedIs
<1> HIDE DEF A, C
<1>4. ColumnsToLoad(q, b) = IF q.describe /\ q.filters # {} THEN FilterColumns(q)
                            ELSE C \cup FilterColumns(q)
  BY DEF ColumnsToLoad, A, C
<1>5. /\ ColumnsToLoad(q, b) \subseteq A /\ FilterColumns(q) \subseteq ColumnsToLoad(q, b)
      /\ q.describe \/ C \subseteq ColumnsToLoad(q, b)
      /\ q.curves = <<>> /\ ~ q.describe => ColumnsToLoad(q, b) = A
  BY <1>1, <1>2, <1>4
<1> QED
  BY <1>5 DEF A, C

(* A bulk without index is one file, and that file is loaded.                *)
LEMMA WholeFile ==
    ASSUME NEW b, WellFormed(b), b.index = Absent, NEW L \in SUBSET AllColumns(b)
    PROVE  UNION {FilesOf(g) : g \in GroupsFor(b, L)} = Files(b)
<1>1. Len(b.groups) = 1 /\ DOMAIN b.groups = 1 .. Len(b.groups)
  BY BulkIs DEF WellFormed
<1>2. GroupsFor(b, L) = Groups(b)
  <2>1. CASE L = {}
    BY <2>1 DEF GroupsFor
  <2>2. CASE L # {}
    <3>1. PICK l \in L : TRUE
      BY <2>2
    <3>2. PICK g \in Groups(b) : l \in g.labels
      BY <3>1 DEF AllColumns
    <3>3. Groups(b) = {g}
      BY <1>1, <3>2 DEF Groups
    <3> QED
      BY <3>1, <3>2, <3>3 DEF GroupsFor
  <2> QED
    BY <2>1, <2>2
<1> QED
  BY <1>2 DEF Files

(* What is loaded is the bulk: all its rows, but for a single file read as   *)
(* it is, and the cells of its columns as they are.  Rows that are not       *)
(* loaded have no value in the columns that are.                             *)
LEMMA LoadedIs ==
    ASSUME NEW b, WellFormed(b), NEW q, Query(q), Accepted(q, b)
    PROVE  LET d == Loaded(q, b)
               L == ColumnsToLoad(q, b)
           IN  /\ d.rows \subseteq BulkRows(b)
               /\ AnyFilter(q) \/ q.describe \/ ~ b.catalog => d.rows = BulkRows(b)
               /\ \A c \in L, r \in d.rows : d.val[<<c, r>>] = Cell(b, c, r)
               /\ \A c \in L, r \in BulkRows(b) \ d.rows : Cell(b, c, r) = NaN
<1> DEFINE L == ColumnsToLoad(q, b)
           files == UNION {FilesOf(g) : g \in GroupsFor(b, L)}
           index == IF SingleFile(q, b) THEN {} ELSE IndexRows(b)
           whole == Forwarded(q, b) \/ ~ b.catalog
           labels == IF whole THEN UNION {g.labels : g \in GroupsFor(b, L)} ELSE L
           d == Loaded(q, b)
<1>1. /\ d.rows = index \cup UNION {f.rows : f \in files}
      /\ \A c \in labels \cap UNION {f.cols : f \in files}, r \in d.rows :
           d.val[<<c, r>>] = IF \E f \in files : HasValue(f, <<c, r>>)
                             THEN (CHOOSE f \in files : HasValue(f, <<c, r>>)).val[<<c, r>>] ELSE NaN
  BY DEF Loaded, Concat
<1>2. L \subseteq AllColumns(b)
  BY LabelsToLoad
<1>3. GroupsFor(b, L) \subseteq Groups(b) /\ files \subseteq Files(b)
  BY DEF GroupsFor, Files
<1>4. IndexRows(b) \subseteq BulkRows(b) /\ (b.index # Absent => IndexRows(b) = BulkRows(b))
  BY DEF WellFormed, BulkRows, IndexRows
<1> HIDE DEF L, d, whole
<1>5. ASSUME NEW c \in L
      PROVE  /\ c \in labels /\ c \in UNION {f.cols : f \in files}
             /\ \A r : \A f \in Files(b) : <<c, r>> \in DOMAIN f.val => f \in files
  <2>1. PICK g \in Groups(b) : c \in g.labels
    BY <1>2, <1>5 DEF AllColumns
  <2>2. g \in GroupsFor(b, L)
    BY <1>5, <2>1 DEF GroupsFor
  <2>3. PICK f0 \in FilesOf(g) : TRUE
    BY BulkIs
  <2>4. f0 \in files /\ c \in f0.cols /\ c \in labels
    BY <1>5, <2>1, <2>2, <2>3, FileIs
  <2>5. ASSUME NEW r, NEW f \in Files(b), <<c, r>> \in DOMAIN f.val PROVE f \in files
    <3>1. PICK h \in Groups(b) : f \in FilesOf(h)
      BY DEF Files
    <3>2. c \in h.labels
      BY <2>5, <3>1, FileIs
    <3>3. h \in GroupsFor(b, L)
      BY <1>5, <3>1, <3>2 DEF GroupsFor
    <3> QED
      BY <3>1, <3>3
  <2> QED
    BY <2>4, <2>5
<1>6. d.rows \subseteq BulkRows(b)
  <2>1. UNION {f.rows : f \in files} \subseteq BulkRows(b)
    BY <1>3 DEF BulkRows
  <2> QED
    BY <1>1, <1>4, <2>1
<1>7. ASSUME AnyFilter(q) \/ q.describe \/ ~ b.catalog
      PROVE  d.rows = BulkRows(b)
  <2>1. CASE b.index # Absent
    <3>1. b.catalog
      BY <2>1 DEF WellFormed
    <3>2. ~ SingleFile(q, b)
      BY <1>7, <3>1 DEF SingleFile
    <3> QED
      BY <1>1, <1>4, <1>6, <2>1, <3>2
  <2>2. CASE b.index = Absent
    <3>1. files = Files(b)
      BY <1>2, <2>2, WholeFile
    <3> QED
      BY <1>1, <1>6, <3>1 DEF BulkRows
  <2> QED
    BY <2>1, <2>2
<1>8. ASSUME NEW c \in L, NEW r \in d.rows
      PROVE  d.val[<<c, r>>] = Cell(b, c, r)
  <2>1. d.val[<<c, r>>] = IF \E f \in files : HasValue(f, <<c, r>>)
                          THEN (CHOOSE f \in files : HasValue(f, <<c, r>>)).val[<<c, r>>] ELSE NaN
    BY <1>1, <1>5
  <2>2. CASE \E f \in files : HasValue(f, <<c, r>>)
    <3>1. PICK f \in files : HasValue(f, <<c, r>>) /\ f = CHOOSE h \in files : HasValue(h, <<c, r>>)
      BY <2>2
    <3>2. f \in Files(b) /\ <<c, r>> \in DOMAIN f.val
      BY <1>3, <3>1 DEF HasValue
    <3>3. Cell(b, c, r) = f.val[<<c, r>>]
      BY <3>2, CellIs
    <3> HIDE DEF files
    <3> QED
      BY <2>1, <2>2, <3>1, <3>3
  <2>3. CASE ~ \E f \in files : HasValue(f, <<c, r>>)
    <3>1. CASE \E f \in Files(b) : <<c, r>> \in DOMAIN f.val
      <4>1. PICK f \in Files(b) : <<c, r>> \in DOMAIN f.val
        BY <3>1
      <4>2. f \in files
        BY <1>5, <4>1
      <4>3. f.val[<<c, r>>] = NaN
        BY <2>3, <4>1, <4>2 DEF HasValue
      <4>4. Cell(b, c, r) = NaN
        BY <4>1, <4>3, CellIs
      <4> QED
        BY <2>1, <2>3, <4>4
    <3>2. CASE ~ \E f \in Files(b) : <<c, r>> \in DOMAIN f.val
      BY <2>1, <2>3, <3>2, CellNone
    <3> QED
      BY <3>1, <3>2
  <2> QED
    BY <2>2, <2>3
<1>9. ASSUME NEW c \in L, NEW r \in BulkRows(b) \ d.rows
      PROVE  Cell(b, c, r) = NaN
  <2>1. ASSUME NEW f \in Files(b), <<c, r>> \in DOMAIN f.val PROVE FALSE
    <3>1. f \in files
      BY <1>5, <2>1
    <3>2. PICK g \in Groups(b) : f \in FilesOf(g)
      BY DEF Files
    <3>3. r \in f.rows
      BY <2>1, <3>2, FileIs
    <3> QED
      BY <1>1, <3>1, <3>3
  <2> QED
    BY <2>1, CellNone
<1> QED
  BY <1>6, <1>7, <1>8, <1>9 DEF L, d

(* The rows that pass the filters are those of the bulk that do.             *)
LEMMA FilteredIs ==
    ASSUME NEW b, WellFormed(b), NEW q, Query(q), Accepted(q, b)
    PROVE  /\ ApplyBulkFilters(q, Loaded(q, b)) = Passing(q, b) \cap Loaded(q, b).rows
           /\ q.filters = {} => Passing(q, b) = BulkRows(b)
           /\ Passing(q, b) \subseteq BulkRows(b)
<1> DEFINE d == Loaded(q, b)
<1>1. /\ d.rows \subseteq BulkRows(b)
      /\ \A c \in ColumnsToLoad(q, b), r \in d.rows : d.val[<<c, r>>] = Cell(b, c, r)
  BY LoadedIs
<1>2. \A f \in q.filters : f.col \in ColumnsToLoad(q, b)
  BY LabelsToLoad DEF FilterColumns
<1> HIDE DEF d
<1>3. ASSUME NEW r \in d.rows
      PROVE  (\A f \in q.filters : Keeps(f, d.val[<<f.col, r>>]))
             <=> \A f \in q.filters : Keeps(f, Cell(b, f.col, r))
  <2>1. \A f \in q.filters : d.val[<<f.col, r>>] = Cell(b, f.col, r)
    BY <1>1, <1>2
  <2> QED
    BY <2>1
<1>4. ApplyBulkFilters(q, d) = Passing(q, b) \cap d.rows
  BY <1>1, <1>3 DEF ApplyBulkFilters, Passing
<1> QED
  BY <1>4 DEF d, Passing

-----------------------------------------------------------------------------
(* What is answered *)

(* The files that are read as they are have the columns that are requested.  *)
LEMMA FileOrderIs ==
    ASSUME NEW b, WellFormed(b), NEW q, NEW C,
           GroupsFor(b, ColumnsToLoad(q, b)) # {},
           \A g \in GroupsFor(b, ColumnsToLoad(q, b)) : g.labels = C
    PROVE  Lists(FileOrder(q, b), C)
<1>1. PICK g \in GroupsFor(b, ColumnsToLoad(q, b)) :
        g = CHOOSE h \in GroupsFor(b, ColumnsToLoad(q, b)) : TRUE
  OBVIOUS
<1>2. g \in Groups(b) /\ g.labels = C
  BY DEF GroupsFor
<1>3. 1 \in DOMAIN g.paths
  <2>1. Len(g.paths) \in Nat /\ DOMAIN g.paths = 1 .. Len(g.paths) /\ FilesOf(g) # {}
    BY <1>2, BulkIs
  <2>2. PICK i \in DOMAIN g.paths : TRUE
    BY <2>1 DEF FilesOf
  <2> QED
    BY <2>1, <2>2
<1>4. g.paths[1] \in FilesOf(g)
  BY <1>3 DEF FilesOf
<1>5. StoredFile(g.paths[1], C)
  BY <1>2, <1>4 DEF WellFormed
<1> QED
  BY <1>1, <1>5 DEF FileOrder, StoredFile, Lists

(* A bulk without catalog is one file of all the columns.                    *)
LEMMA OneGroup ==
    ASSUME NEW b, WellFormed(b), b.index = Absent
    PROVE  /\ AllColumns(b) # {}
           /\ \A g \in Groups(b) : g.labels = AllColumns(b)
           /\ \A L : L \subseteq AllColumns(b) => GroupsFor(b, L) = Groups(b)
           /\ Groups(b) # {}
<1>1. Len(b.groups) = 1 /\ DOMAIN b.groups = 1 .. Len(b.groups)
  BY BulkIs DEF WellFormed
<1>2. Groups(b) = {b.groups[1]}
  BY <1>1 DEF Groups
<1>3. AllColumns(b) = b.groups[1].labels
  BY <1>2 DEF AllColumns
<1>4. b.groups[1].labels # {}
  BY <1>2, BulkIs
<1> QED
  BY <1>2, <1>3, <1>4 DEF GroupsFor

(* The groups side by side have every column that is loaded once.            *)
LEMMA GroupOrderIs ==
    ASSUME NEW b, WellFormed(b), NEW q, ColumnsToLoad(q, b) \subseteq AllColumns(b)
    PROVE  Lists(GroupOrder(q, b), ColumnsToLoad(q, b))
<1> DEFINE A == AllColumns(b)
           L == ColumnsToLoad(q, b)
           C == [i \in DOMAIN b.groups |-> b.groups[i].labels \cap L]
<1>1. /\ Len(b.groups) \in Nat /\ DOMAIN b.groups = 1 .. Len(b.groups)
      /\ IsFiniteSet(A) /\ A \subseteq Int
  BY BulkIs
<1>2. Len(C) = Len(b.groups)
  BY <1>1
<1>3. L = UNION {C[k] : k \in 1 .. Len(C)}
  <2>1. A = UNION {b.groups[k].labels : k \in 1 .. Len(b.groups)}
    BY <1>1 DEF AllColumns, Groups
  <2>2. \A k \in 1 .. Len(C) : C[k] = b.groups[k].labels \cap L
    BY <1>1, <1>2
  <2> HIDE DEF A, C, L
  <2>3. L \subseteq A
    BY DEF L, A
  <2> QED
    BY <1>2, <2>1, <2>2, <2>3
<1>4. \A k \in 1 .. Len(C) : C[k] \subseteq A
  BY <1>1, <1>2
<1> HIDE DEF A, C, L
<1>5. Lists(Listed(C), UNION {C[k] : k \in 1 .. Len(C)})
  BY <1>1, <1>2, <1>4, ListedIs
<1> QED
  BY <1>3, <1>5 DEF GroupOrder, L, C

(* The columns of an answer are those that are requested, whatever the path. *)
LEMMA ColumnOrderIs ==
    ASSUME NEW b, WellFormed(b), NEW q, Query(q), Accepted(q, b), ~ q.describe,
           ~ SelectsNothing(q, b)
    PROVE  Lists(ColumnOrder(q, b), ToSet(RequestedColumns(q, AllColumns(b))))
<1> DEFINE A == AllColumns(b)
           s == RequestedColumns(q, A)
           C == ToSet(s)
           L == ColumnsToLoad(q, b)
<1>1. C \subseteq A /\ Lists(s, C) /\ (q.curves = <<>> => C = A)
  BY RequestedIs
<1>2. L \subseteq A /\ (q.curves = <<>> => L = A)
  BY LabelsToLoad
<1>3. s = <<>> => q.curves = <<>> /\ C = {}
  BY DEF SelectsNothing, ToSet
<1>4. ASSUME ~ b.catalog, q.curves = <<>>
      PROVE  Lists(FileOrder(q, b), C)
  <2>1. b.index = Absent
    BY <1>4 DEF WellFormed
  <2>2. GroupsFor(b, L) # {} /\ \A g \in GroupsFor(b, L) : g.labels = A
    BY <1>2, <2>1, OneGroup
  <2> HIDE DEF A, C
  <2>3. \A g \in GroupsFor(b, ColumnsToLoad(q, b)) : g.labels = C
    BY <1>1, <1>4, <2>2
  <2> QED
    BY <2>2, <2>3, FileOrderIs
<1>5. ASSUME b.catalog, Forwarded(q, b)
      PROVE  Lists(FileOrder(q, b), C)
  <2>1. /\ Cardinality(GroupsFor(b, L)) = 1
        /\ C = {} \/ \A g \in GroupsFor(b, L) : g.labels = C
    BY <1>5 DEF Forwarded, SingleFile
  <2>2. GroupsFor(b, L) # {}
    BY <2>1, FS_EmptySet
  <2>3. C # {}
    <3>1. PICK g \in GroupsFor(b, L) : TRUE
      BY <2>2
    <3>2. g \in Groups(b)
      BY DEF GroupsFor
    <3>3. A # {}
      <4>1. g.labels # {}
        BY <3>2, BulkIs
      <4>2. g.labels \subseteq A
        BY <3>2 DEF AllColumns
      <4> HIDE DEF A
      <4> QED
        BY <4>1, <4>2
    <3>4. C = {} => s = <<>>
      <4>1. Len(s) = Cardinality(C) /\ s \in Seq(C)
        BY <1>1 DEF Lists
      <4> HIDE DEF s, C
      <4>2. C = {} => Len(s) = 0
        BY <4>1, FS_EmptySet
      <4> QED
        BY <4>1, <4>2
    <3> QED
      BY <1>1, <1>3, <3>3, <3>4
  <2> HIDE DEF C
  <2> QED
    BY <2>1, <2>2, <2>3, FileOrderIs
<1>6. ~ b.catalog /\ Forwarded(q, b) => q.curves = <<>>
  BY DEF Forwarded
<1>7. b.catalog \in BOOLEAN
  BY DEF WellFormed
<1>8. Lists(GroupOrder(q, b), L)
  BY <1>2, GroupOrderIs
<1>9. ColumnOrder(q, b) =
        IF Forwarded(q, b) THEN FileOrder(q, b)
        ELSE IF s # <<>> /\ (q.curves # <<>> \/ A \cap ArrayCols # {}) THEN s
        ELSE IF b.catalog THEN GroupOrder(q, b) ELSE FileOrder(q, b)
  BY DEF ColumnOrder
<1> HIDE DEF A, C, s, L
<1>10. CASE Forwarded(q, b)
  BY <1>4, <1>5, <1>6, <1>7, <1>9, <1>10 DEF C, s, A
<1>11. CASE ~ Forwarded(q, b) /\ s # <<>> /\ (q.curves # <<>> \/ A \cap ArrayCols # {})
  BY <1>1, <1>9, <1>11 DEF C, s, A
<1>12. CASE ~ Forwarded(q, b) /\ ~ (s # <<>> /\ (q.curves # <<>> \/ A \cap ArrayCols # {}))
  <2>1. q.curves = <<>> /\ L = C
    BY <1>1, <1>2, <1>3, <1>12
  <2>2. ColumnOrder(q, b) = IF b.catalog THEN GroupOrder(q, b) ELSE FileOrder(q, b)
    BY <1>9, <1>12
  <2>3. Lists(ColumnOrder(q, b), C)
    BY <1>4, <1>7, <1>8, <2>1, <2>2
  <2> QED
    BY <2>3 DEF C, s, A
<1> QED
  BY <1>10, <1>11, <1>12

(* The rows of an answer: the page that is asked of those that pass; without *)
(* any filter, all that are loaded.                                          *)
LEMMA RowsAre ==
    ASSUME NEW b, WellFormed(b), NEW q, Query(q), Accepted(q, b)
    PROVE  LET R == Passing(q, b)
               S == FilterByIndex(q, ApplyBulkFilters(q, Loaded(q, b)))
           IN  /\ IsFiniteSet(R) /\ R \subseteq Int /\ R \subseteq BulkRows(b)
               /\ S \subseteq R /\ S \subseteq Loaded(q, b).rows
               /\ AnyFilter(q) \/ q.describe \/ ~ b.catalog => S = FilterByIndex(q, R)
               /\ ~ AnyFilter(q) => S = Loaded(q, b).rows /\ R = BulkRows(b)
               /\ Cardinality(S) <= RowCount(q, b.nbRows) /\ Cardinality(S) \in Nat
<1> DEFINE R == Passing(q, b)
           F == ApplyBulkFilters(q, Loaded(q, b))
           S == FilterByIndex(q, F)
<1>1. F = R \cap Loaded(q, b).rows /\ R \subseteq BulkRows(b)
  BY FilteredIs
<1>2. /\ IsFiniteSet(BulkRows(b)) /\ BulkRows(b) \subseteq Int
      /\ b.nbRows = Cardinality(BulkRows(b)) /\ b.nbRows \in Nat
  BY BulkIs
<1>3. IsFiniteSet(R) /\ R \subseteq Int
  BY <1>1, <1>2, FS_Subset
<1>4. S \subseteq F
  BY DEF FilterByIndex
<1>5. /\ Loaded(q, b).rows \subseteq BulkRows(b)
      /\ AnyFilter(q) \/ q.describe \/ ~ b.catalog => Loaded(q, b).rows = BulkRows(b)
  BY LoadedIs
<1>6. AnyFilter(q) \/ q.describe \/ ~ b.catalog => F = R
  BY <1>1, <1>5
<1>7. IsFiniteSet(F) /\ F \subseteq Int /\ F \subseteq BulkRows(b)
  BY <1>1, <1>2, FS_Subset
<1> HIDE DEF F
<1>8. ASSUME ~ AnyFilter(q)
      PROVE  S = Loaded(q, b).rows /\ R = BulkRows(b)
  <2>1. q.filters = {} /\ q.offset = Absent /\ q.limit = Absent
    BY <1>8 DEF AnyFilter
  <2>2. R = BulkRows(b)
    BY <2>1, FilteredIs
  <2>3. F = Loaded(q, b).rows
    BY <1>1, <1>5, <2>2
  <2>4. \A x \in F : Position(F, x) >= 0
    <3>1. ASSUME NEW x \in F PROVE Position(F, x) >= 0
      <4>1. Position(F, x) \in 0 .. Cardinality(F) - 1
        BY <1>7, Positions
      <4>2. Cardinality(F) \in Int
        BY <1>7, FS_CardinalityType
      <4> QED
        BY <4>1, <4>2
    <3> QED
      BY <3>1
  <2>5. Skip(q) = 0
    BY <2>1 DEF Skip
  <2>6. S = F
    BY <2>1, <2>4, <2>5 DEF FilterByIndex
  <2> QED
    BY <2>2, <2>3, <2>6
<1>9. Cardinality(S) <= RowCount(q, b.nbRows) /\ Cardinality(S) \in Nat
  <2>1. IsFiniteSet(S)
    BY <1>4, <1>7, FS_Subset
  <2>2. Cardinality(S) \in Nat /\ Cardinality(F) \in Nat
    BY <1>7, <2>1, FS_CardinalityType
  <2>3. Cardinality(S) = RowCount(q, Cardinality(F))
    <3>1. IsPage(FilterByIndex(q, F), q, F)
      BY <1>7, PageIs
    <3> QED
      BY <3>1 DEF IsPage
  <2>4. Cardinality(F) <= b.nbRows
    BY <1>2, <1>7, FS_Subset
  <2> DEFINE n == Cardinality(F)
             k == Skip(q)
  <2>5. /\ k \in Nat /\ (q.limit # Absent => q.limit \in Nat \ {0})
        /\ RowCount(q, n) = LET left == IF n > k THEN n - k ELSE 0
                            IN  IF q.limit = Absent THEN left
                                ELSE IF q.limit <= left THEN q.limit ELSE left
    BY <2>2, RowCountIs
  <2>6. RowCount(q, b.nbRows) = LET left == IF b.nbRows > k THEN b.nbRows - k ELSE 0
                                IN  IF q.limit = Absent THEN left
                                    ELSE IF q.limit <= left THEN q.limit ELSE left
    BY <1>2, RowCountIs
  <2> HIDE DEF n, k
  <2>7. n \in Nat /\ n <= b.nbRows /\ b.nbRows \in Nat
    BY <1>2, <2>2, <2>4 DEF n
  <2>8. RowCount(q, n) <= RowCount(q, b.nbRows)
    BY <2>5, <2>6, <2>7
  <2> QED
    BY <2>2, <2>3, <2>8 DEF n
<1> QED
  BY <1>1, <1>3, <1>4, <1>6, <1>8, <1>9 DEF F

(* The answer a of a read: its rows, and its columns and their cells unless  *)
(* what was selected is nothing.                                             *)
AnswerIs(a, q, b) ==
    LET C == ToSet(RequestedColumns(q, AllColumns(b)))
    IN  /\ a.rows = FilterByIndex(q, ApplyBulkFilters(q, Loaded(q, b)))
        /\ ~ SelectsNothing(q, b) =>
             /\ ToSet(a.order) = C /\ Len(a.order) = Cardinality(C)
             /\ a.val = [x \in C \X a.rows |-> Loaded(q, b).val[x]]
             /\ \A c \in C, t \in a.rows : a.val[<<c, t>>] = Cell(b, c, t)

LEMMA ResultIs ==
    ASSUME NEW b, WellFormed(b), NEW q, Query(q), Accepted(q, b), ~ q.describe
    PROVE  AnswerIs(Result(q, b), q, b)
<1> DEFINE d == Loaded(q, b)
           a == Result(q, b)
           C == ToSet(RequestedColumns(q, AllColumns(b)))
           cols == ColumnOrder(q, b)
           S == FilterByIndex(q, ApplyBulkFilters(q, d))
<1>1. a = DataAnswer(cols, SliceOf(d, ToSet(cols), S))
  BY DEF Result
<1>2. ~ SelectsNothing(q, b) => ToSet(cols) = C /\ Len(cols) = Cardinality(C)
  BY ColumnOrderIs DEF Lists
<1> HIDE DEF d, a, C, cols, S
<1>3. /\ a.order = cols /\ a.rows = S
      /\ ~ SelectsNothing(q, b) => a.val = [x \in C \X S |-> d.val[x]]
  BY <1>1, <1>2 DEF DataAnswer, SliceOf
<1>4. S \subseteq d.rows
  BY RowsAre DEF S, d
<1>5. C \subseteq ColumnsToLoad(q, b)
  BY LabelsToLoad DEF C
<1>6. \A c \in ColumnsToLoad(q, b), r \in d.rows : d.val[<<c, r>>] = Cell(b, c, r)
  BY LoadedIs DEF d
<1>7. ~ SelectsNothing(q, b) => \A c \in C, t \in a.rows : a.val[<<c, t>>] = Cell(b, c, t)
  BY <1>3, <1>4, <1>5, <1>6
<1> QED
  BY <1>2, <1>3, <1>7 DEF AnswerIs, d, a, C, cols, S

-----------------------------------------------------------------------------
(* Where an answer comes from *)

LEMMA Initial == Init => Inv
BY DEF Init, Inv, AnswerKnown, Refusals, Requests

(* A request is answered.                                                    *)
LEMMA AnswerKeeps ==
    ASSUME Inv, NEW r \in Requests, pc[r] # "idle", NEW a, Answer(r, a), UNCHANGED <<bulk, query>>,
           \/ a \in Refusals
           \/ bulk.catalog /\ query[r].describe /\ query[r].filters = {} /\ a = DescribeCatalog(query[r], bulk)
           \/ Accepted(query[r], bulk) /\ a = Result(query[r], bulk)
    PROVE  Inv'
<1>1. /\ DOMAIN pc' = Requests /\ DOMAIN query' = Requests /\ DOMAIN answer' = Requests
      /\ pc'[r] = "answered" /\ answer'[r] = a
      /\ \A s \in Requests : s # r => pc'[s] = pc[s] /\ answer'[s] = answer[s]
      /\ bulk' = bulk /\ query' = query
  BY DEF Inv, Answer
<1>2. \A s \in Requests : AnswerKnown(s)'
  <2>1. AnswerKnown(r)'
    BY <1>1 DEF AnswerKnown
  <2>2. ASSUME NEW s \in Requests, s # r PROVE AnswerKnown(s)'
    BY <1>1, <2>2 DEF Inv, AnswerKnown
  <2> QED
    BY <2>1, <2>2
<1>3. pc'["first"] # "idle" => query'["first"] \in Queries
  BY <1>1 DEF Inv, Requests
<1>4. ASSUME NEW s \in Requests
      PROVE  /\ pc'[s] # "idle" => Query(query'[s])
             /\ pc'[s] = "idle" => answer'[s] = Refused("none")
             /\ pc'[s] = "fetching" /\ bulk'.catalog => Accepted(query'[s], bulk')
  <2>1. CASE s = r
    BY <1>1, <2>1 DEF Inv
  <2>2. CASE s # r
    BY <1>1, <2>2 DEF Inv
  <2> QED
    BY <2>1, <2>2
<1> QED
  BY <1>1, <1>2, <1>3, <1>4 DEF Inv

(* The downloads of a request start, or one of them ends.                    *)
LEMMA FetchKeeps ==
    ASSUME Inv, NEW r \in Requests, pc[r] # "idle", pc' = [pc EXCEPT ![r] = "fetching"],
           bulk.catalog => Accepted(query[r], bulk), UNCHANGED <<bulk, query, answer>>
    PROVE  Inv'
<1>1. /\ DOMAIN pc' = Requests /\ DOMAIN query' = Requests /\ DOMAIN answer' = Requests
      /\ pc'[r] = "fetching"
      /\ \A s \in Requests : s # r => pc'[s] = pc[s]
      /\ bulk' = bulk /\ query' = query /\ answer' = answer
  BY DEF Inv
<1>2. \A s \in Requests : AnswerKnown(s)'
  BY <1>1 DEF Inv, AnswerKnown
<1>3. pc'["first"] # "idle" => query'["first"] \in Queries
  BY <1>1 DEF Inv, Requests
<1>4. ASSUME NEW s \in Requests
      PROVE  /\ pc'[s] # "idle" => Query(query'[s])
             /\ pc'[s] = "idle" => answer'[s] = Refused("none")
             /\ pc'[s] = "fetching" /\ bulk'.catalog => Accepted(query'[s], bulk')
  <2>1. CASE s = r
    BY <1>1, <2>1 DEF Inv
  <2>2. CASE s # r
    BY <1>1, <2>2 DEF Inv
  <2> QED
    BY <2>1, <2>2
<1> QED
  BY <1>1, <1>2, <1>3, <1>4 DEF Inv

LEMMA SendKeeps ==
    ASSUME Inv, NEW r \in Requests, Send(r)
    PROVE  Inv'
<1>1. PICK q \in IF r = "first" THEN Queries ELSE FollowUps(query["first"]) :
        query' = [query EXCEPT ![r] = q]
  BY DEF Send
<1>2. /\ DOMAIN pc' = Requests /\ DOMAIN query' = Requests /\ DOMAIN answer' = Requests
      /\ pc'[r] = "catalog" /\ query'[r] = q
      /\ \A s \in Requests : s # r => pc'[s] = pc[s] /\ query'[s] = query[s]
      /\ bulk' = bulk /\ answer' = answer
  BY <1>1 DEF Inv, Send
<1>3. Query(q) /\ (r = "first" => q \in Queries)
  <2>1. CASE r = "first"
    BY <1>1, <2>1, ReaderAssumption
  <2>2. CASE r # "first"
    <3>1. pc["first"] = "answered" /\ "first" \in Requests
      BY <2>2 DEF Send, Requests
    <3>2. query["first"] \in Queries
      BY <3>1 DEF Inv
    <3> QED
      BY <1>1, <2>2, <3>2, ReaderAssumption
  <2> QED
    BY <2>1, <2>2
<1>4. answer[r] = Refused("none")
  BY DEF Send, Inv
<1>5. \A s \in Requests : AnswerKnown(s)'
  <2>1. AnswerKnown(r)'
    BY <1>2, <1>4 DEF AnswerKnown, Refusals
  <2>2. ASSUME NEW s \in Requests, s # r PROVE AnswerKnown(s)'
    BY <1>2, <2>2 DEF Inv, AnswerKnown
  <2> QED
    BY <2>1, <2>2
<1>6. pc'["first"] # "idle" => query'["first"] \in Queries
  BY <1>2, <1>3 DEF Inv, Requests
<1>7. ASSUME NEW s \in Requests
      PROVE  /\ pc'[s] # "idle" => Query(query'[s])
             /\ pc'[s] = "idle" => answer'[s] = Refused("none")
             /\ pc'[s] = "fetching" /\ bulk'.catalog => Accepted(query'[s], bulk')
  <2>1. CASE s = r
    BY <1>2, <1>3, <2>1
  <2>2. CASE s # r
    BY <1>2, <2>2 DEF Inv
  <2> QED
    BY <2>1, <2>2
<1>8. bulk' \in StoredBulks
  BY <1>2 DEF Inv
<1> QED
  BY <1>2, <1>5, <1>6, <1>7, <1>8 DEF Inv

LEMMA ReadBulkKeeps ==
    ASSUME Inv, NEW r \in Requests, ReadBulk(r)
    PROVE  Inv'
<1> DEFINE checked == ValidateParameters(query[r], bulk)
<1>1. /\ pc[r] # "idle" /\ bulk.catalog = TRUE /\ UNCHANGED <<bulk, query>>
      /\ query[r].describe => query[r].filters # {}
      /\ \/ checked = "ok" /\ Start(r, Objects(query[r], bulk))
         \/ checked # "ok" /\ Answer(r, Refused(checked))
  BY DEF ReadBulk, CatalogLoaded
<1>2. CASE checked = "ok" /\ Start(r, Objects(query[r], bulk))
  <2>1. Accepted(query[r], bulk)
    BY <1>1, <1>2 DEF Accepted
  <2> HIDE DEF checked
  <2> QED
    BY <1>1, <1>2, <2>1, FetchKeeps DEF Start
<1>3. CASE checked # "ok" /\ Answer(r, Refused(checked))
  <2>1. checked \in {"ok", "not found", "too large", "bad request"}
    BY ValidationStatus
  <2>2. Refused(checked) \in Refusals
    BY <1>3, <2>1 DEF Refusals
  <2> HIDE DEF checked
  <2> QED
    BY <1>1, <1>3, <2>2, AnswerKeeps
<1> QED
  BY <1>1, <1>2, <1>3

LEMMA ReadBulkOutsideSessionKeeps ==
    ASSUME Inv, NEW r \in Requests, ReadBulkOutsideSession(r)
    PROVE  Inv'
<1> DEFINE files == {<<"file", f>> : f \in Files(bulk)}
<1>1. /\ pc[r] # "idle" /\ bulk.catalog = FALSE /\ UNCHANGED <<bulk, query>>
      /\ Start(r, files) \/ Answer(r, Refused("unsupported"))
  BY DEF ReadBulkOutsideSession, CatalogLoaded
<1> HIDE DEF files
<1>2. CASE Start(r, files)
  BY <1>1, <1>2, FetchKeeps DEF Start
<1>3. CASE Answer(r, Refused("unsupported"))
  <2>1. Refused("unsupported") \in Refusals
    BY DEF Refusals
  <2> QED
    BY <1>1, <1>3, <2>1, AnswerKeeps
<1> QED
  BY <1>1, <1>2, <1>3

LEMMA FinishKeeps ==
    ASSUME Inv, NEW r \in Requests, Finish(r)
    PROVE  Inv'
<1> DEFINE q == query[r]
           a == Outcome(q, bulk)
<1>1. pc[r] = "fetching" /\ Answer(r, a) /\ UNCHANGED <<bulk, query>>
  BY DEF Finish
<1>2. bulk.catalog => Accepted(q, bulk)
  BY <1>1 DEF Inv
<1>3. a \in Refusals \/ (Accepted(q, bulk) /\ a = Result(q, bulk))
  <2>1. CASE bulk.catalog
    BY <1>2, <2>1 DEF Outcome
  <2>2. CASE ~ bulk.catalog /\ (q.curves # <<>> \/ q.describe)
    <3> DEFINE checked == ValidateParameters(q, bulk)
    <3>1. a = IF checked = "ok" THEN Result(q, bulk) ELSE Refused(checked)
      BY <2>2 DEF Outcome
    <3>2. checked = "ok" => Accepted(q, bulk)
      BY <2>2 DEF Accepted
    <3>3. checked \in {"ok", "not found", "too large", "bad request"}
      BY ValidationStatus
    <3> HIDE DEF checked, a
    <3> QED
      BY <3>1, <3>2, <3>3 DEF Refusals
  <2>3. CASE ~ bulk.catalog /\ ~ (q.curves # <<>> \/ q.describe)
    <3>1. CASE FilterColumns(q) \subseteq AllColumns(bulk)
      <4>1. Accepted(q, bulk)
        BY <2>3, <3>1 DEF Accepted
      <4>2. a = Result(q, bulk)
        BY <2>3, <3>1 DEF Outcome
      <4> QED
        BY <4>1, <4>2
    <3>2. CASE ~ FilterColumns(q) \subseteq AllColumns(bulk)
      <4>1. a = Refused("error")
        BY <2>3, <3>2 DEF Outcome
      <4> HIDE DEF a
      <4> QED
        BY <4>1 DEF Refusals
    <3> QED
      BY <3>1, <3>2
  <2> QED
    BY <2>1, <2>2, <2>3
<1>4. pc[r] # "idle"
  BY <1>1
<1> HIDE DEF a
<1> QED
  BY <1>1, <1>3, <1>4, AnswerKeeps DEF q

(* An answer is a refusal, or what the query asks of the bulk.               *)
THEOREM Invariance == Spec => []Inv
<1>1. Inv /\ [Next]_vars => Inv'
  <2>1. SUFFICES ASSUME Inv, [Next]_vars PROVE Inv'
    OBVIOUS
  <2>2. CASE UNCHANGED vars
    BY <2>1, <2>2 DEF Inv, AnswerKnown, vars
  <2>3. ASSUME NEW r \in Requests, RejectFilters(r) PROVE Inv'
    <3>1. pc[r] # "idle" /\ Answer(r, Refused("bad request")) /\ UNCHANGED <<bulk, query>>
      BY <2>3 DEF RejectFilters, CatalogLoaded
    <3>2. Refused("bad request") \in Refusals
      BY DEF Refusals
    <3> QED
      BY <2>1, <2>3, <3>1, <3>2, AnswerKeeps
  <2>4. ASSUME NEW r \in Requests, Describe(r) PROVE Inv'
    <3>1. /\ pc[r] # "idle" /\ Answer(r, DescribeCatalog(query[r], bulk)) /\ UNCHANGED <<bulk, query>>
          /\ bulk.catalog /\ query[r].describe /\ query[r].filters = {}
      BY <2>4 DEF Describe, CatalogLoaded
    <3> QED
      BY <2>1, <2>4, <3>1, AnswerKeeps
  <2>5. ASSUME NEW r \in Requests, NEW o \in fetch[r], Fetch(r, o) PROVE Inv'
    <3>1. pc[r] = "fetching" /\ UNCHANGED <<bulk, query, pc, answer>>
      BY <2>5 DEF Fetch
    <3> QED
      BY <2>1, <3>1 DEF Inv, AnswerKnown
  <2>6. ASSUME NEW r \in Requests, Fail(r) PROVE Inv'
    <3>1. pc[r] # "idle" /\ Answer(r, Refused("error")) /\ UNCHANGED <<bulk, query>>
      BY <2>6 DEF Fail
    <3>2. Refused("error") \in Refusals
      BY DEF Refusals
    <3> QED
      BY <2>1, <2>6, <3>1, <3>2, AnswerKeeps
  <2> QED
    BY <2>1, <2>2, <2>3, <2>4, <2>5, <2>6, SendKeeps, ReadBulkKeeps,
       ReadBulkOutsideSessionKeeps, FinishKeeps DEF Next
<1> QED
  BY <1>1, Initial, PTL DEF Spec

-----------------------------------------------------------------------------
(* What is read *)

LEMMA RefusalIs ==
    ASSUME NEW r, answer[r] \in Refusals
    PROVE  Status(r) \notin {"data", "described"}
<1>1. PICK s \in {"none", "bad request", "not found", "unsupported", "too large", "error"} :
        answer[r] = Refused(s)
  BY DEF Refusals
<1>2. Refused(s).status = s
  BY DEF Refused
<1>3. Status(r) = s
  BY <1>1, <1>2 DEF Status
<1> QED
  BY <1>3

(* Data come from the bulk and from a query that was accepted.               *)
LEMMA DataIs ==
    ASSUME Inv, NEW r \in Requests, Status(r) = "data"
    PROVE  /\ WellFormed(bulk) /\ Query(query[r]) /\ Accepted(query[r], bulk)
           /\ ~ query[r].describe /\ AnswerIs(answer[r], query[r], bulk)
<1>1. answer[r] \notin Refusals
  BY RefusalIs
<1>2. answer[r] # DescribeCatalog(query[r], bulk)
  BY DEF DescribeCatalog, DescribeAnswer, Status
<1>3. Accepted(query[r], bulk) /\ answer[r] = Result(query[r], bulk)
  BY <1>1, <1>2 DEF Inv, AnswerKnown
<1>4. ~ query[r].describe
  <2>1. SUFFICES ASSUME query[r].describe PROVE FALSE
    OBVIOUS
  <2>2. Result(query[r], bulk).status = "described"
    BY <2>1 DEF Result, DescribeAnswer
  <2> QED
    BY <1>3, <2>2 DEF Status
<1>5. pc[r] # "idle"
  BY <1>1 DEF Inv, Refusals
<1>6. WellFormed(bulk) /\ Query(query[r])
  BY <1>5, ReaderAssumption DEF Inv
<1>7. AnswerIs(Result(query[r], bulk), query[r], bulk)
  BY <1>3, <1>4, <1>6, ResultIs
<1> QED
  BY <1>3, <1>4, <1>6, <1>7

(* Any path of a read answers what the bulk holds: the columns requested,    *)
(* their cells as they were written, and the page of the rows that pass; the *)
(* rows that are left out of a single file have no value.                    *)
THEOREM ReadsWhatIsHeld == Spec => []ReadsTheBulk
<1>1. Inv => ReadsTheBulk
  <2>1. SUFFICES ASSUME Inv, NEW r \in Requests, Status(r) = "data",
                        ~ SelectsNothing(query[r], bulk)
                 PROVE  LET q == query[r]
                            a == answer[r]
                            C == ToSet(RequestedColumns(q, AllColumns(bulk)))
                            R == Passing(q, bulk)
                        IN  /\ ToSet(a.order) = C /\ Len(a.order) = Cardinality(C)
                            /\ DOMAIN a.val = C \X a.rows
                            /\ \A c \in C, t \in a.rows : a.val[<<c, t>>] = Cell(bulk, c, t)
                            /\ IF AnyFilter(q) THEN IsPage(a.rows, q, R)
                               ELSE a.rows \subseteq R /\ \A t \in R \ a.rows : Blank(bulk, C, t)
    BY DEF ReadsTheBulk
  <2> DEFINE q == query[r]
             a == answer[r]
             d == Loaded(q, bulk)
             C == ToSet(RequestedColumns(q, AllColumns(bulk)))
             R == Passing(q, bulk)
  <2>2. WellFormed(bulk) /\ Query(q) /\ Accepted(q, bulk) /\ ~ q.describe /\ AnswerIs(a, q, bulk)
    BY <2>1, DataIs
  <2>3. /\ ToSet(a.order) = C /\ Len(a.order) = Cardinality(C)
        /\ a.rows = FilterByIndex(q, ApplyBulkFilters(q, d))
        /\ a.val = [x \in C \X a.rows |-> d.val[x]]
        /\ \A c \in C, t \in a.rows : a.val[<<c, t>>] = Cell(bulk, c, t)
    BY <2>1, <2>2 DEF AnswerIs
  <2>4. /\ IsFiniteSet(R) /\ R \subseteq Int /\ a.rows \subseteq R
        /\ AnyFilter(q) => a.rows = FilterByIndex(q, R)
        /\ ~ AnyFilter(q) => a.rows = d.rows /\ R = BulkRows(bulk)
    BY <2>2, <2>3, RowsAre
  <2>5. AnyFilter(q) => IsPage(a.rows, q, R)
    BY <2>2, <2>4, PageIs
  <2>6. ASSUME ~ AnyFilter(q), NEW t \in R \ a.rows
        PROVE  Blank(bulk, C, t)
    <3>1. C \subseteq ColumnsToLoad(q, bulk)
      BY <2>2, LabelsToLoad
    <3>2. \A c \in ColumnsToLoad(q, bulk), x \in BulkRows(bulk) \ d.rows : Cell(bulk, c, x) = NaN
      BY <2>2, LoadedIs
    <3> QED
      BY <2>4, <2>6, <3>1, <3>2 DEF Blank
  <2>7. DOMAIN a.val = C \X a.rows
    BY <2>3
  <2> HIDE DEF C, R, d, a, q
  <2>8. IF AnyFilter(q) THEN IsPage(a.rows, q, R)
        ELSE a.rows \subseteq R /\ \A t \in R \ a.rows : Blank(bulk, C, t)
    BY <2>4, <2>5, <2>6
  <2> QED
    BY <2>3, <2>7, <2>8 DEF C, R, a, q
<1> QED
  BY <1>1, Invariance, PTL

(* Queries with the same selection, filters and page ask the same of a bulk. *)
LEMMA SameQuestion ==
    ASSUME NEW p, NEW q, p.curves = q.curves, p.filters = q.filters,
           p.offset = q.offset, p.limit = q.limit, NEW b
    PROVE  /\ RequestedColumns(p, AllColumns(b)) = RequestedColumns(q, AllColumns(b))
           /\ Passing(p, b) = Passing(q, b) /\ AnyFilter(p) = AnyFilter(q) /\ Skip(p) = Skip(q)
           /\ \A n : RowCount(p, n) = RowCount(q, n)
           /\ \A R : FilterByIndex(p, R) = FilterByIndex(q, R)
           /\ \A d : ApplyBulkFilters(p, d) = ApplyBulkFilters(q, d)
           /\ SelectsNothing(p, b) = SelectsNothing(q, b)
           /\ p.describe = q.describe => Loaded(p, b).rows = Loaded(q, b).rows
<1>1. Skip(p) = Skip(q) /\ AnyFilter(p) = AnyFilter(q) /\ FilterColumns(p) = FilterColumns(q)
  BY DEF Skip, AnyFilter, FilterColumns
<1>2. RequestedColumns(p, AllColumns(b)) = RequestedColumns(q, AllColumns(b))
  BY DEF RequestedColumns
<1>3. p.describe = q.describe => Loaded(p, b).rows = Loaded(q, b).rows
  <2>1. SUFFICES ASSUME p.describe = q.describe PROVE Loaded(p, b).rows = Loaded(q, b).rows
    OBVIOUS
  <2>2. ColumnsToLoad(p, b) = ColumnsToLoad(q, b)
    BY <1>1, <1>2, <2>1 DEF ColumnsToLoad
  <2>3. SingleFile(p, b) = SingleFile(q, b)
    BY <1>1, <2>1, <2>2 DEF SingleFile
  <2> QED
    BY <2>2, <2>3 DEF Loaded, Concat
<1>4. \A n : RowCount(p, n) = RowCount(q, n)
  BY <1>1 DEF RowCount
<1>5. \A R : FilterByIndex(p, R) = FilterByIndex(q, R)
  BY <1>1 DEF FilterByIndex
<1>6. \A d : ApplyBulkFilters(p, d) = ApplyBulkFilters(q, d)
  BY DEF ApplyBulkFilters
<1>7. Passing(p, b) = Passing(q, b)
  BY DEF Passing
<1>8. SelectsNothing(p, b) = SelectsNothing(q, b)
  BY <1>2 DEF SelectsNothing
<1> QED
  BY <1>1, <1>2, <1>3, <1>4, <1>5, <1>6, <1>7, <1>8

LEMMA QueryFields ==
    ASSUME NEW q, Query(q)
    PROVE  /\ LET p == [q EXCEPT !.describe = TRUE]
              IN  /\ p.curves = q.curves /\ p.filters = q.filters /\ p.offset = q.offset
                  /\ p.limit = q.limit /\ p.describe = TRUE
           /\ LET p == [q EXCEPT !.json = ~ @]
              IN  /\ p.curves = q.curves /\ p.filters = q.filters /\ p.offset = q.offset
                  /\ p.limit = q.limit /\ p.describe = q.describe
           /\ LET p == [q EXCEPT !.offset = Skip(q) + q.limit]
              IN  /\ p.curves = q.curves /\ p.filters = q.filters
                  /\ p.offset = Skip(q) + q.limit /\ p.limit = q.limit
BY DEF Query

(* In parquet or in JSON, forwarded or rendered, an answer has the same      *)
(* columns and the same cells.                                               *)
THEOREM FormatsAgree == Spec => []JsonIsParquet
<1>1. Inv => JsonIsParquet
  <2>1. SUFFICES ASSUME Inv, Status("first") = "data", Status("second") = "data",
                        query["second"] = [query["first"] EXCEPT !.json = ~ @],
                        ~ SelectsNothing(query["first"], bulk)
                 PROVE  /\ ToSet(answer["first"].order) = ToSet(answer["second"].order)
                        /\ answer["first"].val = answer["second"].val
    BY DEF JsonIsParquet
  <2> DEFINE p == query["first"]
             q == query["second"]
             a == answer["first"]
             c == answer["second"]
  <2>2. "first" \in Requests /\ "second" \in Requests
    BY DEF Requests
  <2>3. /\ WellFormed(bulk) /\ Query(p) /\ Accepted(p, bulk)
        /\ ~ p.describe /\ AnswerIs(a, p, bulk)
    BY <2>1, <2>2, DataIs
  <2>4. /\ Query(q) /\ Accepted(q, bulk)
        /\ ~ q.describe /\ AnswerIs(c, q, bulk)
    BY <2>1, <2>2, DataIs
  <2>5. /\ q.curves = p.curves /\ q.filters = p.filters /\ q.offset = p.offset
        /\ q.limit = p.limit /\ q.describe = p.describe
    BY <2>1, <2>3, QueryFields
  <2> HIDE DEF p, q, a, c
  <2>6. /\ RequestedColumns(p, AllColumns(bulk)) = RequestedColumns(q, AllColumns(bulk))
        /\ \A R : FilterByIndex(p, R) = FilterByIndex(q, R)
        /\ Passing(p, bulk) = Passing(q, bulk)
        /\ SelectsNothing(p, bulk) = SelectsNothing(q, bulk)
        /\ Loaded(p, bulk).rows = Loaded(q, bulk).rows
    BY <2>5, SameQuestion
  <2> DEFINE C == ToSet(RequestedColumns(p, AllColumns(bulk)))
             D == ToSet(RequestedColumns(q, AllColumns(bulk)))
  <2>0. ~ SelectsNothing(p, bulk)
    BY <2>1 DEF p
  <2>7. /\ ToSet(a.order) = C
        /\ a.rows = FilterByIndex(p, ApplyBulkFilters(p, Loaded(p, bulk)))
        /\ a.val = [x \in C \X a.rows |-> Loaded(p, bulk).val[x]]
        /\ \A k \in C, t \in a.rows : a.val[<<k, t>>] = Cell(bulk, k, t)
    BY <2>0, <2>3 DEF AnswerIs
  <2>8. /\ ToSet(c.order) = D
        /\ c.rows = FilterByIndex(q, ApplyBulkFilters(q, Loaded(q, bulk)))
        /\ c.val = [x \in D \X c.rows |-> Loaded(q, bulk).val[x]]
        /\ \A k \in D, t \in c.rows : c.val[<<k, t>>] = Cell(bulk, k, t)
    BY <2>0, <2>4, <2>6 DEF AnswerIs
  <2>9. C = D
    BY <2>6
  <2>10. ApplyBulkFilters(p, Loaded(p, bulk)) = Passing(p, bulk) \cap Loaded(p, bulk).rows
    BY <2>3, FilteredIs
  <2>11. ApplyBulkFilters(q, Loaded(q, bulk)) = Passing(q, bulk) \cap Loaded(q, bulk).rows
    BY <2>3, <2>4, FilteredIs
  <2> HIDE DEF C, D
  <2>12. a.rows = c.rows
    BY <2>6, <2>7, <2>8, <2>10, <2>11
  <2>13. \A x \in C \X a.rows : a.val[x] = c.val[x]
    <3>1. ASSUME NEW k \in C, NEW t \in a.rows PROVE a.val[<<k, t>>] = c.val[<<k, t>>]
      <4>1. a.val[<<k, t>>] = Cell(bulk, k, t)
        BY <2>7
      <4>2. k \in D /\ t \in c.rows
        BY <2>9, <2>12
      <4>3. c.val[<<k, t>>] = Cell(bulk, k, t)
        BY <2>8, <4>2
      <4> QED
        BY <4>1, <4>3
    <3> QED
      BY <3>1
  <2>14. a.val = c.val
    BY <2>7, <2>8, <2>9, <2>12, <2>13
  <2> QED
    BY <2>7, <2>8, <2>9, <2>14 DEF a, c
<1> QED
  BY <1>1, Invariance, PTL

(* A description, from the catalog or computed.                              *)
LEMMA DescriptionIs ==
    ASSUME Inv, NEW r \in Requests, Status(r) = "described"
    PROVE  LET q == query[r]
           IN  /\ WellFormed(bulk) /\ Query(q)
               /\ ~ SelectsNothing(q, bulk) => answer[r].order = RequestedColumns(q, AllColumns(bulk))
               /\ \/ q.filters = {} /\ answer[r].rowCount = RowCount(q, bulk.nbRows)
                  \/ /\ Accepted(q, bulk) /\ q.describe
                     /\ answer[r].rowCount =
                          Cardinality(FilterByIndex(q, ApplyBulkFilters(q, Loaded(q, bulk))))
<1>1. answer[r] \notin Refusals
  BY RefusalIs
<1>2. pc[r] # "idle"
  BY <1>1 DEF Inv, Refusals
<1>3. WellFormed(bulk) /\ Query(query[r])
  BY <1>2, ReaderAssumption DEF Inv
<1>4. CASE query[r].filters = {} /\ answer[r] = DescribeCatalog(query[r], bulk)
  BY <1>3, <1>4 DEF DescribeCatalog, DescribeAnswer
<1>5. CASE Accepted(query[r], bulk) /\ answer[r] = Result(query[r], bulk)
  <2>1. query[r].describe
    <3>1. SUFFICES ASSUME ~ query[r].describe PROVE FALSE
      OBVIOUS
    <3>2. Result(query[r], bulk).status = "data"
      BY <3>1 DEF Result, DataAnswer
    <3> QED
      BY <1>5, <3>2 DEF Status
  <2>2. answer[r] = DescribeAnswer(Cardinality(FilterByIndex(query[r], ApplyBulkFilters(query[r], Loaded(query[r], bulk)))),
                                   Described(query[r], bulk))
    BY <1>5, <2>1 DEF Result
  <2>3. ~ SelectsNothing(query[r], bulk) =>
          Described(query[r], bulk) = RequestedColumns(query[r], AllColumns(bulk))
    <3>1. query[r].curves = <<>> =>
            RequestedColumns(query[r], AllColumns(bulk)) = Natsorted(AllColumns(bulk))
      BY DEF RequestedColumns
    <3> QED
      BY <3>1 DEF Described, SelectsNothing
  <2> QED
    BY <1>3, <1>5, <2>1, <2>2, <2>3 DEF DescribeAnswer
<1> QED
  BY <1>1, <1>4, <1>5 DEF Inv, AnswerKnown

(* A description lists the columns of the read it describes and counts its   *)
(* rows, and the blank rows a single file leaves out.                        *)
THEOREM DescriptionsAgree == Spec => []DescribesWhatIsRead
<1>1. Inv => DescribesWhatIsRead
  <2>1. SUFFICES ASSUME Inv, Status("first") = "data", Status("second") = "described",
                        query["second"] = [query["first"] EXCEPT !.describe = TRUE]
                 PROVE  LET a == answer["first"]
                            d == answer["second"]
                            missing == IF AnyFilter(query["first"]) THEN {} ELSE BulkRows(bulk) \ a.rows
                        IN  /\ SelectsNothing(query["first"], bulk) \/ ToSet(d.order) = ToSet(a.order)
                            /\ d.rowCount = Cardinality(a.rows) + Cardinality(missing)
    BY DEF DescribesWhatIsRead
  <2> DEFINE p == query["first"]
             q == query["second"]
             a == answer["first"]
             d == answer["second"]
             all == BulkRows(bulk)
             R == Passing(p, bulk)
             missing == IF AnyFilter(p) THEN {} ELSE all \ a.rows
  <2>2. "first" \in Requests /\ "second" \in Requests
    BY DEF Requests
  <2>3. WellFormed(bulk) /\ Query(p) /\ Accepted(p, bulk) /\ AnswerIs(a, p, bulk)
    BY <2>1, <2>2, DataIs
  <2>4. /\ Query(q)
        /\ ~ SelectsNothing(q, bulk) => d.order = RequestedColumns(q, AllColumns(bulk))
        /\ \/ q.filters = {} /\ d.rowCount = RowCount(q, bulk.nbRows)
           \/ /\ Accepted(q, bulk) /\ q.describe
              /\ d.rowCount = Cardinality(FilterByIndex(q, ApplyBulkFilters(q, Loaded(q, bulk))))
    BY <2>1, <2>2, DescriptionIs
  <2>5. /\ q.curves = p.curves /\ q.filters = p.filters /\ q.offset = p.offset /\ q.limit = p.limit
    BY <2>1, <2>3, QueryFields
  <2> HIDE DEF p, q, a, d
  <2>6. /\ RequestedColumns(p, AllColumns(bulk)) = RequestedColumns(q, AllColumns(bulk))
        /\ Passing(p, bulk) = Passing(q, bulk) /\ AnyFilter(p) = AnyFilter(q)
        /\ \A n : RowCount(p, n) = RowCount(q, n)
        /\ \A S : FilterByIndex(p, S) = FilterByIndex(q, S)
        /\ SelectsNothing(p, bulk) = SelectsNothing(q, bulk)
    BY <2>5, SameQuestion
  <2>7. SelectsNothing(p, bulk) \/ ToSet(d.order) = ToSet(a.order)
    BY <2>3, <2>4, <2>6 DEF AnswerIs
  <2>8. IsFiniteSet(all) /\ bulk.nbRows = Cardinality(all) /\ bulk.nbRows \in Nat
    BY <2>3, BulkIs
  <2>9. /\ IsFiniteSet(R) /\ R \subseteq Int /\ a.rows \subseteq R /\ R \subseteq all
        /\ AnyFilter(p) => a.rows = FilterByIndex(p, R)
        /\ ~ AnyFilter(p) => R = all
    BY <2>3, RowsAre DEF AnswerIs
  <2> HIDE DEF all, R
  <2>10. CASE AnyFilter(p)
    <3>1. Cardinality(a.rows) + Cardinality(missing) = Cardinality(a.rows)
      <4>1. Cardinality(missing) = 0
        BY <2>10, FS_EmptySet
      <4>2. Cardinality(a.rows) \in Nat
        BY <2>9, FS_Subset, FS_CardinalityType
      <4> HIDE DEF missing
      <4> QED
        BY <4>1, <4>2
    <3>2. CASE q.filters = {} /\ d.rowCount = RowCount(q, bulk.nbRows)
      <4>1. R = all
        BY <2>3, <2>5, <3>2, FilteredIs DEF R, all
      <4>2. IsPage(a.rows, p, R)
        BY <2>3, <2>9, <2>10, PageIs
      <4>3. Cardinality(a.rows) = RowCount(p, Cardinality(R))
        BY <4>2 DEF IsPage
      <4>4. d.rowCount = Cardinality(a.rows)
        BY <2>6, <2>8, <3>2, <4>1, <4>3
      <4> QED
        BY <2>7, <3>1, <4>4 DEF p, a, d, missing, all
    <3>3. CASE /\ Accepted(q, bulk) /\ q.describe
               /\ d.rowCount = Cardinality(FilterByIndex(q, ApplyBulkFilters(q, Loaded(q, bulk))))
      <4>1. FilterByIndex(q, ApplyBulkFilters(q, Loaded(q, bulk))) = FilterByIndex(q, Passing(q, bulk))
        BY <2>3, <2>4, <3>3, RowsAre
      <4>2. FilterByIndex(q, Passing(q, bulk)) = a.rows
        BY <2>6, <2>9, <2>10 DEF R
      <4>3. d.rowCount = Cardinality(a.rows)
        BY <3>3, <4>1, <4>2
      <4> QED
        BY <2>7, <3>1, <4>3 DEF p, a, d, missing, all
    <3> QED
      BY <2>4, <3>2, <3>3
  <2>11. CASE ~ AnyFilter(p)
    <3>1. Cardinality(a.rows) + Cardinality(missing) = Cardinality(all)
      <4> DEFINE m == all \ a.rows
      <4>1. a.rows \subseteq all /\ m \subseteq all /\ a.rows \cap m = {} /\ a.rows \cup m = all
        BY <2>9
      <4>2. IsFiniteSet(a.rows) /\ IsFiniteSet(m)
        BY <2>8, <4>1, FS_Subset
      <4> HIDE DEF m
      <4>3. Cardinality(a.rows \cup m) = Cardinality(a.rows) + Cardinality(m) - Cardinality(a.rows \cap m)
        BY <4>2, FS_Union
      <4>4. Cardinality(a.rows \cap m) = 0
        BY <4>1, FS_EmptySet
      <4>5. Cardinality(a.rows) \in Nat /\ Cardinality(m) \in Nat
        BY <4>2, FS_CardinalityType
      <4>6. Cardinality(all) = Cardinality(a.rows) + Cardinality(m)
        <5>1. Cardinality(a.rows \cup m) = Cardinality(all)
          BY <4>1
        <5>2. Cardinality(a.rows \cup m) = Cardinality(a.rows) + Cardinality(m)
          BY <4>3, <4>4, <4>5
        <5> QED
          BY <5>1, <5>2
      <4>7. missing = m
        BY <2>11 DEF m
      <4> QED
        BY <4>6, <4>7
    <3>2. CASE q.filters = {} /\ d.rowCount = RowCount(q, bulk.nbRows)
      <4>1. Skip(p) = 0 /\ p.limit = Absent
        BY <2>11 DEF AnyFilter, Skip
      <4>2. RowCount(p, bulk.nbRows) = LET left == IF bulk.nbRows > Skip(p) THEN bulk.nbRows - Skip(p) ELSE 0
                                       IN  IF p.limit = Absent THEN left
                                           ELSE IF p.limit <= left THEN p.limit ELSE left
        BY <2>3, <2>8, RowCountIs
      <4>3. RowCount(p, bulk.nbRows) = bulk.nbRows
        BY <2>8, <4>1, <4>2
      <4>4. d.rowCount = Cardinality(all)
        BY <2>6, <2>8, <3>2, <4>3
      <4> QED
        BY <2>7, <3>1, <4>4 DEF p, a, d, missing, all
    <3>3. CASE /\ Accepted(q, bulk) /\ q.describe
               /\ d.rowCount = Cardinality(FilterByIndex(q, ApplyBulkFilters(q, Loaded(q, bulk))))
      <4>1. FilterByIndex(q, ApplyBulkFilters(q, Loaded(q, bulk))) = Loaded(q, bulk).rows
        BY <2>3, <2>4, <2>6, <2>11, <3>3, RowsAre
      <4>2. Loaded(q, bulk).rows = all
        BY <2>3, <2>4, <3>3, LoadedIs DEF all
      <4>3. d.rowCount = Cardinality(all)
        BY <3>3, <4>1, <4>2
      <4> QED
        BY <2>7, <3>1, <4>3 DEF p, a, d, missing, all
    <3> QED
      BY <2>4, <3>2, <3>3
  <2> QED
    BY <2>10, <2>11
<1> QED
  BY <1>1, Invariance, PTL

(* A page and the next one follow each other and leave nothing between.      *)
THEOREM NextPageFollows == Spec => []PagesTile
<1>1. Inv => PagesTile
  <2> DEFINE p == query["first"]
             q == query["second"]
             P == answer["first"].rows
             Q == answer["second"].rows
             R == Passing(p, bulk)
             n == Cardinality(R)
             s == Skip(p)
             l == p.limit
  <2>1. SUFFICES ASSUME Inv, Status("first") = "data", Status("second") = "data",
                        l # Absent, q = [p EXCEPT !.offset = s + l]
                 PROVE  /\ \A x \in P, y \in Q : x < y
                        /\ \A t \in R \ (P \cup Q) :
                             (\A x \in P : t < x) \/ (\A y \in P \cup Q : y < t)
                        /\ Q = {} <=> n <= s + l
    BY DEF PagesTile
  <2>2. "first" \in Requests /\ "second" \in Requests
    BY DEF Requests
  <2>3. /\ WellFormed(bulk) /\ Query(p) /\ Accepted(p, bulk) /\ AnswerIs(answer["first"], p, bulk)
        /\ Query(q) /\ Accepted(q, bulk) /\ AnswerIs(answer["second"], q, bulk)
    BY <2>1, <2>2, DataIs
  <2>4. q.curves = p.curves /\ q.filters = p.filters /\ q.offset = s + l /\ q.limit = l
    BY <2>1, <2>3, QueryFields
  <2>5. s \in Nat /\ l \in Nat \ {0}
    BY <2>1, <2>3, RowCountIs
  <2>6. Skip(q) = s + l
    <3>1. s + l \in Nat
      BY <2>5
    <3> HIDE DEF s, l, p, q
    <3>2. s + l # Absent
      BY <3>1, ReaderAssumption
    <3> QED
      BY <2>4, <3>2 DEF Skip
  <2>7. AnyFilter(p) /\ AnyFilter(q)
    BY <2>1, <2>4 DEF AnyFilter
  <2>8. Passing(q, bulk) = R
    BY <2>4 DEF Passing
  <2>9. IsFiniteSet(R) /\ R \subseteq Int /\ P = FilterByIndex(p, R) /\ Q = FilterByIndex(q, R)
    <3>1. IsFiniteSet(R) /\ R \subseteq Int /\ P = FilterByIndex(p, R)
      BY <2>3, <2>7, RowsAre DEF AnswerIs
    <3>2. Q = FilterByIndex(q, Passing(q, bulk))
      BY <2>3, <2>7, RowsAre DEF AnswerIs
    <3> QED
      BY <2>8, <3>1, <3>2
  <2> DEFINE pos(x) == Position(R, x)
  <2>10. /\ n \in Nat
         /\ \A x \in R : pos(x) \in 0 .. n - 1
         /\ \A x, y \in R : x < y <=> pos(x) < pos(y)
         /\ \A k \in 0 .. n - 1 : \E x \in R : pos(x) = k
    <3> HIDE DEF R
    <3> QED
      BY <2>9, Positions
  <2>11. P = {x \in R : pos(x) >= s /\ pos(x) < s + l}
    BY <2>1, <2>9 DEF FilterByIndex
  <2>12. Q = {x \in R : pos(x) >= s + l /\ pos(x) < s + l + l}
    BY <2>1, <2>4, <2>6, <2>9 DEF FilterByIndex
  <2> HIDE DEF p, q, P, Q, R, n, s, l, pos
  <2>13. \A x \in R : pos(x) \in Int
    BY <2>10
  <2>14. ASSUME NEW x \in P, NEW y \in Q PROVE x < y
    <3>1. x \in R /\ y \in R /\ pos(x) < s + l /\ pos(y) >= s + l
      BY <2>11, <2>12
    <3>2. pos(x) < pos(y)
      BY <2>5, <2>13, <3>1
    <3> QED
      BY <2>10, <3>1, <3>2
  <2>15. ASSUME NEW t \in R \ (P \cup Q)
         PROVE  (\A x \in P : t < x) \/ (\A y \in P \cup Q : y < t)
    <3>1. pos(t) \in Int /\ (pos(t) < s \/ pos(t) >= s + l + l)
      BY <2>5, <2>11, <2>12, <2>13
    <3>2. ASSUME pos(t) < s, NEW x \in P PROVE t < x
      <4>1. x \in R /\ pos(x) >= s
        BY <2>11
      <4>2. pos(t) < pos(x)
        BY <2>5, <2>13, <3>1, <3>2, <4>1
      <4> QED
        BY <2>10, <4>1, <4>2
    <3>3. ASSUME pos(t) >= s + l + l, NEW y \in P \cup Q PROVE y < t
      <4>1. y \in R /\ pos(y) < s + l + l
        BY <2>5, <2>11, <2>12, <2>13
      <4>2. pos(y) < pos(t)
        BY <2>5, <2>13, <3>1, <3>3, <4>1
      <4> QED
        BY <2>10, <4>1, <4>2
    <3> QED
      BY <3>1, <3>2, <3>3
  <2>16. Q = {} <=> n <= s + l
    <3>1. ASSUME n > s + l PROVE Q # {}
      <4>1. s + l \in 0 .. n - 1
        BY <2>5, <2>10, <3>1
      <4>2. PICK x \in R : pos(x) = s + l
        BY <2>10, <4>1
      <4>3. x \in Q
        BY <2>5, <2>12, <4>2
      <4> QED
        BY <4>3
    <3>2. ASSUME Q # {} PROVE n > s + l
      <4>1. PICK x \in Q : TRUE
        BY <3>2
      <4>2. x \in R /\ pos(x) >= s + l
        BY <2>12
      <4> QED
        BY <2>5, <2>10, <4>2
    <3> QED
      BY <2>5, <2>10, <3>1, <3>2
  <2> QED
    BY <2>14, <2>15, <2>16
<1> QED
  BY <1>1, Invariance, PTL

(* A product grows with its first factor. *)
LEMMA TimesMonotonic ==
    ASSUME NEW a \in Nat, NEW b \in Nat, NEW c \in Nat, a <= b
    PROVE  c * a <= b * c
<1>1. b - a \in Nat /\ b = a + (b - a)
  OBVIOUS
<1>2. (b - a) * c \in Nat
  BY <1>1
<1>3. b * c = a * c + (b - a) * c
  OBVIOUS
<1>4. a * c = c * a /\ a * c \in Nat
  OBVIOUS
<1> QED
  BY <1>2, <1>3, <1>4

(* No answer is larger than the limits the catalog was checked against.      *)
THEOREM LimitsHold == Spec => []AnswerWithinLimits
<1>1. Inv => AnswerWithinLimits
  <2>1. SUFFICES ASSUME Inv, NEW r \in Requests, Status(r) = "data", bulk.catalog,
                        ~ SelectsNothing(query[r], bulk)
                 PROVE  /\ Len(answer[r].order) <= MaxReadColumns
                        /\ Len(answer[r].order) * Cardinality(answer[r].rows) <= MaxReadValues
    BY DEF AnswerWithinLimits
  <2> DEFINE q == query[r]
             a == answer[r]
             s == RequestedColumns(q, AllColumns(bulk))
             C == ToSet(s)
             m == Cardinality(a.rows)
             rc == RowCount(q, bulk.nbRows)
  <2>2. /\ WellFormed(bulk) /\ Query(q) /\ Accepted(q, bulk) /\ ~ q.describe
        /\ AnswerIs(a, q, bulk)
    BY <2>1, DataIs
  <2>3. Len(a.order) = Cardinality(C)
    BY <2>1, <2>2 DEF AnswerIs
  <2>4. Len(s) = Cardinality(C) /\ Len(s) \in Nat
    BY <2>2, RequestedIs DEF Lists
  <2>5. ~ Len(s) > MaxReadColumns /\ ~ rc * Len(s) > MaxReadValues
    BY <2>1, <2>2, AcceptedMeans
  <2>6. m \in Nat /\ m <= rc
    BY <2>2, RowsAre DEF AnswerIs
  <2>7. rc \in Nat
    <3>1. bulk.nbRows \in Nat
      BY <2>2, BulkIs
    <3>2. /\ Skip(q) \in Nat
          /\ q.limit # Absent => q.limit \in Nat \ {0}
          /\ rc = LET left == IF bulk.nbRows > Skip(q) THEN bulk.nbRows - Skip(q) ELSE 0
                  IN  IF q.limit = Absent THEN left ELSE IF q.limit <= left THEN q.limit ELSE left
      BY <2>2, <3>1, RowCountIs
    <3> HIDE DEF rc, q
    <3> QED
      BY <3>1, <3>2
  <2>8. MaxReadColumns \in Nat /\ MaxReadValues \in Nat
    BY ReaderAssumption
  <2> HIDE DEF q, a, s, C, m, rc
  <2>9. Len(s) * m <= rc * Len(s)
    BY <2>4, <2>6, <2>7, TimesMonotonic
  <2>10. Len(s) * m \in Nat /\ rc * Len(s) \in Nat
    BY <2>4, <2>6, <2>7
  <2>11. Len(s) <= MaxReadColumns /\ Len(s) * m <= MaxReadValues
    BY <2>4, <2>5, <2>8, <2>9, <2>10
  <2> QED
    BY <2>3, <2>4, <2>11 DEF a, m
<1> QED
  BY <1>1, Invariance, PTL
=============================================================================
