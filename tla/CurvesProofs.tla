---------------------------- MODULE CurvesProofs ----------------------------
(***************************************************************************)
(* A client that follows what the service proposes, partition by partition *)
(* or curve by curve, reads the bulk, for any bulk and any limits: slices, *)
(* names of arrays and pages lose nothing and repeat nothing, whatever the *)
(* order in which curves are counted.                                      *)
(***************************************************************************)
EXTENDS Curves, FiniteSetTheorems, TLAPS

-----------------------------------------------------------------------------
(* Finite sets *)

(* A finite set of indexes that is not empty has a greatest and a least      *)
(* element: a smallest subset without one would have one element too many.   *)
LEMMA BoundsExist ==
    ASSUME NEW S, IsFiniteSet(S), S # {}, S \subseteq Nat
    PROVE  /\ Max(S) \in S /\ \A y \in S : Max(S) >= y
           /\ Min(S) \in S /\ \A y \in S : Min(S) =< y
<1> DEFINE HasMax(T) == \E x \in T : \A y \in T : x >= y
           HasMin(T) == \E x \in T : \A y \in T : x =< y
           Bad == {T \in SUBSET S : T # {} /\ ~(HasMax(T) /\ HasMin(T))}
<1>1. SUFFICES ASSUME S \in Bad PROVE FALSE
  BY DEF Max, Min
<1>2. IsWellFoundedOn(StrictSubsetOrdering(S), SUBSET S)
  BY FS_StrictSubsetOrderingWellFounded, FS_FiniteSubsetsOfFinite
<1>3. Bad \subseteq SUBSET S /\ Bad # {}
  BY <1>1
<1> HIDE DEF Bad
<1>4. PICK T \in Bad : \A U \in Bad : <<U, T>> \notin StrictSubsetOrdering(S)
  BY <1>2, <1>3, WFMin
<1> USE DEF Bad
<1>5. T \subseteq S /\ T # {} /\ ~(HasMax(T) /\ HasMin(T))
  BY <1>4
<1>6. PICK x : x \in T
  BY <1>5
<1> DEFINE U == T \ {x}
<1>7. U \notin Bad
  <2>1. U \subseteq T /\ U # T /\ U \in SUBSET S /\ T \in SUBSET S
    BY <1>5, <1>6
  <2>2. <<U, T>> \in StrictSubsetOrdering(S)
    BY <2>1 DEF StrictSubsetOrdering
  <2> QED BY <1>4, <2>2
<1>8. CASE U = {}
  <2>1. T = {x} /\ x \in Nat
    BY <1>5, <1>6, <1>8
  <2> QED BY <2>1, <1>5
<1>9. CASE U # {}
  <2>1. HasMax(U) /\ HasMin(U)
    BY <1>5, <1>7, <1>9
  <2>2. PICK m \in U : \A y \in U : m >= y
    BY <2>1
  <2>3. PICK n \in U : \A y \in U : n =< y
    BY <2>1
  <2>4. m \in Nat /\ n \in Nat /\ x \in Nat /\ T \subseteq Nat /\ m \in T /\ n \in T
    BY <1>5, <1>6
  <2>5. HasMax(T)
    <3>1. CASE m >= x
      BY <2>2, <2>4, <3>1
    <3>2. CASE x >= m
      <4>1. \A y \in T : x >= y
        BY <2>2, <2>4, <3>2
      <4> QED BY <4>1, <1>6
    <3> QED BY <3>1, <3>2, <2>4
  <2>6. HasMin(T)
    <3>1. CASE n =< x
      BY <2>3, <2>4, <3>1
    <3>2. CASE x =< n
      <4>1. \A y \in T : x =< y
        BY <2>3, <2>4, <3>2
      <4> QED BY <4>1, <1>6
    <3> QED BY <3>1, <3>2, <2>4
  <2> QED BY <2>5, <2>6, <1>5
<1> QED BY <1>8, <1>9

(* What a function makes of finitely many is no more. *)
LEMMA ImageFinite ==
    ASSUME NEW S, IsFiniteSet(S), NEW f, f = [x \in S |-> f[x]]
    PROVE  LET T == {f[x] : x \in S}
           IN  IsFiniteSet(T) /\ Cardinality(T) <= Cardinality(S)
<1> DEFINE T == {f[x] : x \in S}
<1>1. f \in Surjection(S, T)
  BY DEF Surjection
<1> QED
  BY <1>1, FS_Surjection

LEMMA PairFinite ==
    ASSUME NEW a, NEW b
    PROVE  IsFiniteSet({a, b})
<1>1. IsFiniteSet({a})
  BY FS_Singleton
<1>2. IsFiniteSet({a} \cup {b})
  BY <1>1, FS_AddElement
<1>3. {a, b} = {a} \cup {b}
  OBVIOUS
<1> QED
  BY <1>2, <1>3

(* A finite set and a subset of as many elements are one. *)
LEMMA SameSize ==
    ASSUME NEW S, NEW T \in SUBSET S, IsFiniteSet(S), Cardinality(T) >= Cardinality(S)
    PROVE  T = S
<1>1. /\ IsFiniteSet(T) /\ Cardinality(T) <= Cardinality(S)
      /\ Cardinality(S) = Cardinality(T) => S = T
  BY FS_Subset
<1>2. Cardinality(S) \in Nat /\ Cardinality(T) \in Nat
  BY <1>1, FS_CardinalityType
<1> QED
  BY <1>1, <1>2

-----------------------------------------------------------------------------
(* Labels *)

(* A name of a column, as a label and as an entry of a selection. *)
LEMMA PlainIs ==
    ASSUME NEW n \in Names
    PROVE  /\ Plain(n) \in Label /\ Plain(n).name = n
           /\ ~IsArray(Plain(n)) /\ ~IsFullSlice(Plain(n))
BY DEF Plain, Label, IsArray, IsFullSlice

(* What a label of the bulk is. *)
LEMMA LabelIs ==
    ASSUME bulk \in Bulks, NEW c \in bulk.chunks, NEW l \in c.cols
    PROVE  /\ l \in Columns /\ l.name \in Names /\ l \in Label
           /\ ~IsArray(l) => l = Plain(l.name)
           /\ IsArray(l) /\ ~IsFullSlice(l) /\ ~l.zeros => l = At(l.name, l.start)
           /\ IsArray(l) => l.start \in Nat
<1>1. l \in Columns /\ l.name \in Names
  BY DEF Columns, LabelsOf, Names
<1>2. \/ l = Plain(l.name)
      \/ l.start \in Nat /\ l \in {At(l.name, l.start), Zeros(l.name, l.start)}
      \/ l.start \in Nat /\ l.stop \in Nat /\ l = Slice(l.name, l.start, l.stop)
  BY LabelsAssumption
<1>3. None \notin Nat
  BY NoneAssumption
<1>4. CASE l = Plain(l.name)
  <2>1. l.start = None
    BY <1>4 DEF Plain
  <2>2. l \in Label
    BY <1>1, <1>4, PlainIs
  <2> QED
    BY <1>1, <1>4, <2>1, <2>2 DEF IsArray
<1>5. CASE l.start \in Nat /\ l = At(l.name, l.start)
  BY <1>1, <1>3, <1>5 DEF Plain, At, Label, IsArray
<1>6. CASE l.start \in Nat /\ l = Zeros(l.name, l.start)
  BY <1>1, <1>3, <1>6 DEF Plain, At, Zeros, Label, IsArray
<1>7. CASE l.start \in Nat /\ l.stop \in Nat /\ l = Slice(l.name, l.start, l.stop)
  BY <1>1, <1>3, <1>7 DEF Plain, At, Slice, Label, IsArray, IsFullSlice
<1> QED
  BY <1>2, <1>4, <1>5, <1>6, <1>7

(* A bulk has finitely many columns, and rows. *)
LEMMA BulkFinite ==
    ASSUME bulk \in Bulks
    PROVE  IsFiniteSet(Columns) /\ bulk.nbRows \in Nat \ {0}
<1>1. IsFiniteSet(bulk.chunks) /\ bulk.nbRows \in Nat \ {0}
  BY CurvesAssumption
<1>2. IsFiniteSet({c.cols : c \in bulk.chunks})
  <2> DEFINE f == [c \in bulk.chunks |-> c.cols]
  <2>1. f = [c \in bulk.chunks |-> f[c]] /\ {f[c] : c \in bulk.chunks} = {c.cols : c \in bulk.chunks}
    OBVIOUS
  <2> HIDE DEF f
  <2>2. IsFiniteSet({f[c] : c \in bulk.chunks})
    BY <1>1, <2>1, ImageFinite
  <2> QED
    BY <2>1, <2>2
<1>3. \A C \in {c.cols : c \in bulk.chunks} : IsFiniteSet(C)
  BY LabelsAssumption
<1>4. IsFiniteSet(UNION {c.cols : c \in bulk.chunks})
  BY <1>2, <1>3, FS_UNION
<1> QED
  BY <1>1, <1>4 DEF Columns, LabelsOf

-----------------------------------------------------------------------------
(* Slices *)

(* The fields of a part, and of a slice. *)
LEMMA PartIs ==
    ASSUME NEW n, NEW i, NEW j
    PROVE  /\ At(n, i).name = n /\ At(n, i).start = i
           /\ Slice(n, i, j).name = n /\ Slice(n, i, j).start = i /\ Slice(n, i, j).stop = j
           /\ n \in Names /\ i \in Nat /\ j \in Nat => Slice(n, i, j) \in Label
BY DEF Plain, At, Slice, Label

(* Where labels are clean, the query carries a selection as it is. *)
LEMMA CarriedAsIs ==
    ASSUME NEW sel \in SUBSET Label, \A e \in sel : e.name \notin DOMAIN Spaced
    PROVE  Carried(sel) = sel
<1>1. ASSUME NEW e \in sel
      PROVE  [e EXCEPT !.name = IF @ \in DOMAIN Spaced THEN Spaced[@] ELSE @] = e
  <2>1. e \in Label /\ e.name \notin DOMAIN Spaced
    OBVIOUS
  <2> QED
    BY <2>1 DEF Label
<1> QED
  BY <1>1 DEF Carried

(* The parts of an array are those of its slice if there are as many as it   *)
(* spans: an interval has no other subset of its size.                       *)
LEMMA SliceOfAll ==
    ASSUME NEW L, NEW n, IsFiniteSet(PartsOf(L, n)), PartsOf(L, n) # {},
           \A l \in PartsOf(L, n) : l.start \in Nat /\ l = At(n, l.start),
           Cardinality(PartsOf(L, n)) = Max(Indexes(L, n)) + 1 - Min(Indexes(L, n))
    PROVE  /\ Min(Indexes(L, n)) \in Nat /\ Max(Indexes(L, n)) \in Nat
           /\ PartsOf(L, n) = {At(n, i) : i \in Min(Indexes(L, n)) .. Max(Indexes(L, n))}
<1> DEFINE P == PartsOf(L, n)
           I == Indexes(L, n)
<1>0. I = {l.start : l \in P}
  BY DEF Indexes
<1> DEFINE s == [l \in P |-> l.start]
<1>1. s = [l \in P |-> s[l]] /\ I = {s[l] : l \in P}
  BY <1>0
<1> HIDE DEF s
<1>2. IsFiniteSet({s[l] : l \in P})
  BY <1>1, ImageFinite
<1>3. IsFiniteSet(I) /\ I # {} /\ I \subseteq Nat
  <2>1. I \subseteq Nat /\ I # {}
    BY <1>0
  <2> QED
    BY <1>1, <1>2, <2>1
<1>4. /\ Max(I) \in I /\ \A y \in I : Max(I) >= y
      /\ Min(I) \in I /\ \A y \in I : Min(I) =< y
  BY <1>3, BoundsExist
<1>5. Min(I) \in Nat /\ Max(I) \in Nat /\ Min(I) <= Max(I)
  BY <1>3, <1>4
<1> DEFINE D == Min(I) .. Max(I)
           f == [i \in D |-> At(n, i)]
<1>6. IsFiniteSet(D) /\ Cardinality(D) = Max(I) - Min(I) + 1
  BY <1>5, FS_Interval
<1>7. f = [i \in D |-> f[i]] /\ {f[i] : i \in D} = {At(n, i) : i \in D}
  OBVIOUS
<1>8. P \subseteq {f[i] : i \in D}
  <2>1. ASSUME NEW l \in P PROVE l \in {At(n, i) : i \in D}
    <3>1. l.start \in I /\ l = At(n, l.start)
      BY <1>0
    <3>2. l.start \in D
      BY <1>3, <1>4, <1>5, <3>1
    <3> QED
      BY <3>1, <3>2
  <2> QED
    BY <1>7, <2>1
<1> HIDE DEF D, f
<1>9. IsFiniteSet({f[i] : i \in D}) /\ Cardinality({f[i] : i \in D}) <= Cardinality(D)
  BY <1>6, <1>7, ImageFinite
<1>10. Cardinality(P) >= Cardinality({f[i] : i \in D})
  <2>1. Cardinality({f[i] : i \in D}) \in Nat
    BY <1>9, FS_CardinalityType
  <2> QED
    BY <1>5, <1>6, <1>9, <2>1
<1>11. P = {f[i] : i \in D}
  BY <1>8, <1>9, <1>10, SameSize
<1> QED
  BY <1>5, <1>7, <1>11 DEF D

(* A slice that is proposed has all its parts in the group. *)
LEMMA SlicedWhole ==
    ASSUME bulk \in Bulks, Clean, NEW c \in bulk.chunks, NEW n \in Sliced(c.cols)
    PROVE  /\ n \in Names /\ n \notin DOMAIN Spaced
           /\ Min(Indexes(c.cols, n)) \in Nat /\ Max(Indexes(c.cols, n)) \in Nat
           /\ PartsOf(c.cols, n) =
                {At(n, i) : i \in Min(Indexes(c.cols, n)) .. Max(Indexes(c.cols, n))}
<1>1. \A l \in c.cols : ~l.zeros /\ l.name \notin DOMAIN Spaced
  BY DEF Clean, Columns, LabelsOf
<1>2. PICK k \in Parts(c.cols) : k.name = n
  BY DEF Sliced
<1>3. n \in Names /\ n \notin DOMAIN Spaced
  BY <1>1, <1>2, LabelIs DEF Parts
<1>4. \A l \in PartsOf(c.cols, n) : l.start \in Nat /\ l = At(n, l.start)
  <2>1. ASSUME NEW l \in PartsOf(c.cols, n) PROVE l.start \in Nat /\ l = At(n, l.start)
    <3>1. l \in c.cols /\ IsArray(l) /\ ~IsFullSlice(l) /\ l.name = n
      BY DEF PartsOf, Parts
    <3> QED
      BY <1>1, <3>1, LabelIs
  <2> QED
    BY <2>1
<1>5. IsFiniteSet(PartsOf(c.cols, n)) /\ PartsOf(c.cols, n) # {}
  <2>1. IsFiniteSet(c.cols) /\ PartsOf(c.cols, n) \subseteq c.cols
    BY LabelsAssumption DEF PartsOf, Parts
  <2> QED
    BY <1>2, <2>1, FS_Subset DEF PartsOf
<1>6. Cardinality(PartsOf(c.cols, n)) = Max(Indexes(c.cols, n)) + 1 - Min(Indexes(c.cols, n))
  BY DEF Sliced
<1> QED
  BY <1>3, <1>4, <1>5, <1>6, SliceOfAll

(* What the partition of a group reads is the group, and the query carries   *)
(* it as it is.                                                              *)
LEMMA PartitionRead ==
    ASSUME bulk \in Bulks, Clean, NEW c \in bulk.chunks
    PROVE  /\ ColumnsToSlices(c.cols) \subseteq Label
           /\ Carried(ColumnsToSlices(c.cols)) = ColumnsToSlices(c.cols)
           /\ ColumnsRead(ColumnsToSlices(c.cols)) = c.cols
<1> DEFINE S == ColumnsToSlices(c.cols)
<1>1. \A l \in c.cols : /\ l \in Columns /\ l \in Label
                        /\ ~IsFullSlice(l) /\ l.name \notin DOMAIN Spaced
  <2>1. \A l \in c.cols : l \in Columns /\ l \in Label
    BY LabelIs
  <2> QED
    BY <2>1 DEF Clean
<1>2. ASSUME NEW e \in S
      PROVE  \/ e \in c.cols /\ (e \notin Parts(c.cols) \/ e.name \notin Sliced(c.cols))
             \/ \E n \in Sliced(c.cols) : e = Spanned(c.cols, n)
  BY DEF ColumnsToSlices
<1>3. ASSUME NEW n \in Sliced(c.cols)
      PROVE  /\ Spanned(c.cols, n) \in Label /\ Spanned(c.cols, n).name \notin DOMAIN Spaced
             /\ Matching(Spanned(c.cols, n), Columns) = PartsOf(c.cols, n)
  <2> DEFINE lo == Min(Indexes(c.cols, n))
             hi == Max(Indexes(c.cols, n))
             e  == Slice(n, lo, hi)
  <2>1. /\ n \in Names /\ n \notin DOMAIN Spaced /\ lo \in Nat /\ hi \in Nat
        /\ PartsOf(c.cols, n) = {At(n, i) : i \in lo .. hi}
    BY SlicedWhole
  <2>2. e.name = n /\ e.start = lo /\ e.stop = hi /\ e \in Label
    BY <2>1, PartIs
  <2>3. IsFullSlice(e)
    BY <2>1, <2>2, NoneAssumption DEF IsFullSlice
  <2>4. e \notin Columns
    BY <2>3 DEF Clean
  <2>5. Matching(e, Columns) = {At(e.name, i) : i \in e.start .. e.stop}
    BY <2>3, <2>4 DEF Matching
  <2>6. Spanned(c.cols, n) = e
    BY DEF Spanned
  <2> HIDE DEF lo, hi, e
  <2> QED
    BY <2>1, <2>2, <2>5, <2>6
<1>4. \A e \in S : e \in Label /\ e.name \notin DOMAIN Spaced
  BY <1>1, <1>2, <1>3
<1>5. Carried(S) = S
  BY <1>4, CarriedAsIs
<1>6. \A e \in S : Matching(e, Columns) \subseteq c.cols
  <2>1. \A l \in c.cols : Matching(l, Columns) = {l}
    BY <1>1 DEF Matching
  <2>2. \A n : PartsOf(c.cols, n) \subseteq c.cols
    BY DEF PartsOf, Parts
  <2> QED
    BY <1>2, <1>3, <2>1, <2>2
<1>7. ASSUME NEW l \in c.cols
      PROVE  \E e \in S : l \in Matching(e, Columns)
  <2>1. CASE l \notin Parts(c.cols) \/ l.name \notin Sliced(c.cols)
    <3>1. l \in S
      BY <2>1 DEF ColumnsToSlices
    <3>2. Matching(l, Columns) = {l}
      BY <1>1 DEF Matching
    <3> QED
      BY <3>1, <3>2
  <2>2. CASE l \in Parts(c.cols) /\ l.name \in Sliced(c.cols)
    <3>1. Spanned(c.cols, l.name) \in S
      BY <2>2 DEF ColumnsToSlices
    <3>2. l \in PartsOf(c.cols, l.name)
      BY <2>2 DEF PartsOf
    <3> QED
      BY <1>3, <2>2, <3>1, <3>2
  <2> QED
    BY <2>1, <2>2
<1>8. ColumnsRead(S) = UNION {Matching(e, Columns) : e \in S}
  BY <1>5 DEF ColumnsRead
<1> HIDE DEF S
<1>9. ColumnsRead(S) = c.cols
  BY <1>6, <1>7, <1>8
<1> QED
  BY <1>4, <1>5, <1>9 DEF S

-----------------------------------------------------------------------------
(* Curves *)

(* What holds of 0, and of k + 1 whenever it holds of k, holds up to N.      *)
LEMMA UpTo ==
    ASSUME NEW N \in Nat, NEW G, 0 \in G, \A k \in 0 .. N - 1 : k \in G => k + 1 \in G
    PROVE  0 .. N \subseteq G
<1> DEFINE Bad == (0 .. N) \ G
<1>1. SUFFICES ASSUME Bad # {} PROVE FALSE
  OBVIOUS
<1>2. IsFiniteSet(0 .. N)
  BY FS_Interval
<1>3. IsFiniteSet(Bad) /\ Bad \subseteq Nat
  BY <1>2, FS_Subset
<1>4. Min(Bad) \in Bad /\ \A y \in Bad : Min(Bad) =< y
  BY <1>1, <1>3, BoundsExist
<1>5. PICK m \in Bad : \A y \in Bad : m =< y
  BY <1>4
<1>6. m \in 1 .. N /\ m - 1 \in 0 .. N - 1 /\ m - 1 \notin Bad
  BY <1>5
<1>7. (m - 1) + 1 \in G
  BY <1>6
<1> QED
  BY <1>5, <1>6, <1>7

(* The loop over the labels is well defined. *)
LEMMA LoopExists ==
    ASSUME NEW q, NEW N \in Nat
    PROVE  \E g : g = [k \in 0 .. N |-> IF k = 0 THEN <<>> ELSE WithLabel(g[k - 1], q[k])]
<1> DEFINE Loop(g, m) == g = [k \in 0 .. m |-> IF k = 0 THEN <<>> ELSE WithLabel(g[k - 1], q[k])]
           G == {m \in Nat : \E g : Loop(g, m)}
<1>1. 0 \in G
  <2> DEFINE g == [k \in {0} |-> <<>>]
  <2>1. Loop(g, 0)
    <3>1. 0 .. 0 = {0}
      OBVIOUS
    <3> QED
      BY <3>1
  <2> QED
    BY <2>1
<1>2. ASSUME NEW m \in 0 .. N - 1, m \in G
      PROVE  m + 1 \in G
  <2>1. PICK g : Loop(g, m)
    BY <1>2
  <2> DEFINE h == [k \in 0 .. m + 1 |-> IF k = m + 1 THEN WithLabel(g[m], q[m + 1]) ELSE g[k]]
  <2>2. ASSUME NEW k \in 0 .. m + 1
        PROVE  h[k] = IF k = 0 THEN <<>> ELSE WithLabel(h[k - 1], q[k])
    <3>1. CASE k = m + 1
      <4>1. k # 0 /\ k - 1 = m /\ m \in 0 .. m + 1 /\ m # m + 1
        BY <3>1
      <4>2. h[m] = g[m]
        BY <4>1
      <4> QED
        BY <3>1, <4>1, <4>2
    <3>2. CASE k \in 0 .. m
      <4>1. h[k] = g[k] /\ g[k] = IF k = 0 THEN <<>> ELSE WithLabel(g[k - 1], q[k])
        BY <2>1, <3>2
      <4>2. k # 0 => h[k - 1] = g[k - 1]
        BY <3>2
      <4> QED
        BY <4>1, <4>2
    <3> QED
      BY <3>1, <3>2
  <2>3. Loop(h, m + 1)
    <3>1. h = [k \in 0 .. m + 1 |-> h[k]]
      OBVIOUS
    <3> HIDE DEF h
    <3> QED
      BY <2>2, <3>1
  <2> HIDE DEF h
  <2>4. m + 1 \in Nat
    OBVIOUS
  <2> QED
    BY <2>3, <2>4
<1> HIDE DEF G
<1>3. 0 .. N \subseteq G
  BY <1>1, <1>2, UpTo
<1>4. N \in G
  BY <1>3
<1> QED
  BY <1>4 DEF G

(* How the loop goes, step by step. *)
LEMMA GroupCurvesIs ==
    ASSUME NEW q, Len(q) \in Nat
    PROVE  \E g : /\ g[0] = <<>>
                  /\ \A k \in 1 .. Len(q) : g[k] = WithLabel(g[k - 1], q[k])
                  /\ GroupCurves(q) = g[Len(q)]
<1> DEFINE curves == CHOOSE g : g = [k \in 0 .. Len(q) |-> IF k = 0 THEN <<>> ELSE WithLabel(g[k - 1], q[k])]
<1>1. curves = [k \in 0 .. Len(q) |-> IF k = 0 THEN <<>> ELSE WithLabel(curves[k - 1], q[k])]
  BY LoopExists
<1>2. GroupCurves(q) = curves[Len(q)]
  BY DEF GroupCurves
<1> HIDE DEF curves
<1>3. curves[0] = <<>> /\ \A k \in 1 .. Len(q) : curves[k] = WithLabel(curves[k - 1], q[k])
  BY <1>1
<1> QED
  BY <1>2, <1>3

(* A sequence of one element, and of one more. *)
LEMMA OneMore ==
    ASSUME NEW C, NEW l \in C
    PROVE  /\ <<l>> \in Seq(C) /\ Len(<<l>>) = 1
           /\ \A s \in Seq(C) : Append(s, l) \in Seq(C) /\ Len(Append(s, l)) = Len(s) + 1
OBVIOUS

(* The labels of one name among the first k. *)
NamedAmong(q, k, n) == {q[i] : i \in {j \in 1 .. k : q[j].name = n}}

(* A sequence of the elements of a finite set has each of them, once. *)
LEMMA OrderIs ==
    ASSUME NEW C, IsFiniteSet(C), NEW q \in SetToSeqs(C)
    PROVE  /\ Len(q) = Cardinality(C) /\ Len(q) \in Nat
           /\ \A i \in 1 .. Len(q) : q[i] \in C
           /\ \A i, j \in 1 .. Len(q) : q[i] = q[j] => i = j
           /\ \A l \in C : \E i \in 1 .. Len(q) : l = q[i]
<1> DEFINE N == Cardinality(C)
           D == 1 .. N
<1>1. N \in Nat
  BY FS_CardinalityType
<1>2. q \in [D -> C] /\ \A i, j \in D : i # j => q[i] # q[j]
  BY DEF SetToSeqs
<1>3. Len(q) = N
  BY <1>1, <1>2
<1>4. IsFiniteSet(D) /\ Cardinality(D) = N
  <2>1. IsFiniteSet(1 .. N) /\ Cardinality(1 .. N) = IF 1 > N THEN 0 ELSE N - 1 + 1
    BY <1>1, FS_Interval
  <2> QED
    BY <1>1, <2>1
<1> HIDE DEF D
<1>5. q \in Injection(D, C)
  BY <1>2 DEF Injection, IsInjective
<1>6. q \in Surjection(D, C)
  BY <1>4, <1>5, FS_Injection
<1>7. \A l \in C : \E i \in D : l = q[i]
  BY <1>6 DEF Surjection
<1> QED
  BY <1>1, <1>2, <1>3, <1>7 DEF D

(* The names that are counted, and how many labels for each. *)
LEMMA LoopCounts ==
    ASSUME bulk \in Bulks, NEW q \in SetToSeqs(Columns), NEW g, g[0] = <<>>,
           \A k \in 1 .. Len(q) : g[k] = WithLabel(g[k - 1], q[k]),
           NEW k \in 0 .. Len(q)
    PROVE  /\ DOMAIN g[k] = {q[i].name : i \in 1 .. k}
           /\ ~Clash => \A n \in DOMAIN g[k] :
                /\ g[k][n] \in Seq(Columns)
                /\ IsFiniteSet(NamedAmong(q, k, n))
                /\ Len(g[k][n]) = Cardinality(NamedAmong(q, k, n))
<1> DEFINE N == Len(q)
           Good(m) == /\ DOMAIN g[m] = {q[i].name : i \in 1 .. m}
                      /\ ~Clash => \A n \in DOMAIN g[m] :
                           /\ g[m][n] \in Seq(Columns)
                           /\ IsFiniteSet(NamedAmong(q, m, n))
                           /\ Len(g[m][n]) = Cardinality(NamedAmong(q, m, n))
           G == {m \in 0 .. N : Good(m)}
<1>1. /\ N \in Nat /\ \A i \in 1 .. N : q[i] \in Columns
      /\ \A i, j \in 1 .. N : q[i] = q[j] => i = j
  BY BulkFinite, OrderIs
<1>2. 0 \in G
  BY <1>1
<1>3. ASSUME NEW m \in 0 .. N - 1, m \in G
      PROVE  m + 1 \in G
  <2> DEFINE l == q[m + 1]
  <2>1. m + 1 \in 1 .. N /\ m \in 0 .. N /\ g[m + 1] = WithLabel(g[m], l) /\ l \in Columns
    BY <1>1
  <2>2. Good(m)
    BY <1>3
  <2>3. /\ DOMAIN g[m + 1] = DOMAIN g[m] \cup {l.name}
        /\ \A n \in DOMAIN g[m] \cup {l.name} :
             g[m + 1][n] = IF n # l.name THEN g[m][n]
                           ELSE IF IsArray(l) /\ n \in DOMAIN g[m] THEN Append(g[m][n], l) ELSE <<l>>
    BY <2>1 DEF WithLabel
  <2>4. DOMAIN g[m + 1] = {q[i].name : i \in 1 .. m + 1}
    BY <1>1, <2>1, <2>2, <2>3
  <2>5. ASSUME ~Clash, NEW n \in DOMAIN g[m + 1]
        PROVE  /\ g[m + 1][n] \in Seq(Columns)
               /\ IsFiniteSet(NamedAmong(q, m + 1, n))
               /\ Len(g[m + 1][n]) = Cardinality(NamedAmong(q, m + 1, n))
    <3>1. NamedAmong(q, m + 1, n) =
            IF n = l.name THEN NamedAmong(q, m, n) \cup {l} ELSE NamedAmong(q, m, n)
      BY <2>1 DEF NamedAmong
    <3>2. CASE n # l.name
      <4>1. n \in DOMAIN g[m] /\ g[m + 1][n] = g[m][n]
        BY <2>3, <3>2
      <4> QED
        BY <2>2, <2>5, <3>1, <3>2, <4>1
    <3>3. CASE n = l.name /\ n \notin DOMAIN g[m]
      <4>1. NamedAmong(q, m, n) = {}
        BY <2>2, <3>3 DEF NamedAmong
      <4>2. g[m + 1][n] = <<l>> /\ NamedAmong(q, m + 1, n) = {l}
        BY <2>3, <3>1, <3>3, <4>1
      <4>3. <<l>> \in Seq(Columns) /\ Len(<<l>>) = 1
        BY <2>1, OneMore
      <4> QED
        BY <4>2, <4>3, FS_Singleton
    <3>4. CASE n = l.name /\ n \in DOMAIN g[m]
      <4>1. PICK i \in 1 .. m : q[i].name = n
        BY <2>2, <3>4
      <4>2. q[i] \in Columns /\ q[i] # l
        BY <1>1, <2>1
      <4>3. IsArray(l)
        <5>1. SUFFICES ASSUME ~IsArray(l) PROVE FALSE
          OBVIOUS
        <5>2. l = Plain(n)
          BY <2>1, <3>4, <5>1, LabelIs DEF Columns, LabelsOf
        <5>3. ~IsArray(q[i])
          BY <2>1, <2>5, <3>4, <4>1, <4>2, <5>1 DEF Clash
        <5>4. q[i] = Plain(n)
          BY <4>1, <4>2, <5>3, LabelIs DEF Columns, LabelsOf
        <5> QED
          BY <4>2, <5>2, <5>4
      <4>4. g[m + 1][n] = Append(g[m][n], l)
        BY <2>3, <3>4, <4>3
      <4>5. l \notin NamedAmong(q, m, n)
        BY <1>1, <2>1 DEF NamedAmong
      <4>6. /\ g[m][n] \in Seq(Columns) /\ IsFiniteSet(NamedAmong(q, m, n))
            /\ Len(g[m][n]) = Cardinality(NamedAmong(q, m, n))
        BY <2>2, <2>5, <3>4
      <4>7. /\ IsFiniteSet(NamedAmong(q, m, n) \cup {l})
            /\ Cardinality(NamedAmong(q, m, n) \cup {l}) = Cardinality(NamedAmong(q, m, n)) + 1
        BY <4>5, <4>6, FS_AddElement
      <4>8. Append(g[m][n], l) \in Seq(Columns) /\ Len(Append(g[m][n], l)) = Len(g[m][n]) + 1
        BY <2>1, <4>6, OneMore
      <4> QED
        BY <3>1, <3>4, <4>4, <4>6, <4>7, <4>8
    <3> QED
      BY <3>2, <3>3, <3>4
  <2> QED
    BY <2>1, <2>4, <2>5
<1> HIDE DEF G
<1>4. 0 .. N \subseteq G
  BY <1>1, <1>2, <1>3, UpTo
<1> QED
  BY <1>4 DEF G

(* The counts of a catalog are those of the columns, by name. *)
LEMMA CountsAre ==
    ASSUME bulk \in Bulks, NEW q \in SetToSeqs(Columns)
    PROVE  /\ DOMAIN CountCurves(q) = {l.name : l \in Columns}
           /\ ~Clash => \A n \in DOMAIN CountCurves(q) :
                CountCurves(q)[n] = Cardinality({l \in Columns : l.name = n})
<1>1. /\ Len(q) \in Nat /\ \A i \in 1 .. Len(q) : q[i] \in Columns
      /\ \A l \in Columns : \E i \in 1 .. Len(q) : l = q[i]
  BY BulkFinite, OrderIs
<1>2. PICK g : /\ g[0] = <<>>
               /\ \A k \in 1 .. Len(q) : g[k] = WithLabel(g[k - 1], q[k])
               /\ GroupCurves(q) = g[Len(q)]
  BY <1>1, GroupCurvesIs
<1>3. Len(q) \in 0 .. Len(q)
  BY <1>1
<1>4. /\ DOMAIN g[Len(q)] = {q[i].name : i \in 1 .. Len(q)}
      /\ ~Clash => \A n \in DOMAIN g[Len(q)] :
           Len(g[Len(q)][n]) = Cardinality(NamedAmong(q, Len(q), n))
  BY <1>2, <1>3, LoopCounts
<1>5. {q[i].name : i \in 1 .. Len(q)} = {l.name : l \in Columns}
  BY <1>1
<1>6. \A n : NamedAmong(q, Len(q), n) = {l \in Columns : l.name = n}
  BY <1>1 DEF NamedAmong
<1>7. /\ DOMAIN CountCurves(q) = DOMAIN g[Len(q)]
      /\ \A n \in DOMAIN g[Len(q)] : CountCurves(q)[n] = Len(g[Len(q)][n])
  BY <1>2 DEF CountCurves
<1> QED
  BY <1>4, <1>5, <1>6, <1>7

(* The name of a curve stands for its columns; and, when no curve has the    *)
(* name of an array, for all that have that name.                            *)
LEMMA CurveRead ==
    ASSUME bulk \in Bulks, NEW k \in Columns
    PROVE  /\ Matching(Plain(k.name), Columns) \subseteq Columns
           /\ ~Clash => Matching(Plain(k.name), Columns) = {l \in Columns : l.name = k.name}
           /\ {Plain(k.name)} \subseteq Label
           /\ Clean => Carried({Plain(k.name)}) = {Plain(k.name)}
<1> DEFINE n == k.name
           e == Plain(n)
           parts == {l \in Columns : IsArray(l) /\ l.name = n}
<1>1. \A l \in Columns : l.name \in Names /\ (~IsArray(l) => l = Plain(l.name))
  BY LabelIs DEF Columns, LabelsOf
<1>2. e \in Label /\ e.name = n /\ ~IsArray(e) /\ ~IsFullSlice(e)
  BY <1>1, PlainIs
<1>3. e \in Columns => Matching(e, Columns) = {e}
  BY DEF Matching
<1>4. e \notin Columns => parts # {}
  BY <1>1 DEF e
<1>5. e \notin Columns => Matching(e, Columns) = parts
  BY <1>2, <1>4 DEF Matching
<1>6. ASSUME ~Clash
      PROVE  Matching(e, Columns) = {l \in Columns : l.name = n}
  <2>1. CASE e \in Columns
    <3>1. \A l \in Columns : l.name = n => l = e
      BY <1>1, <1>2, <1>6, <2>1 DEF Clash
    <3> QED
      BY <1>2, <1>3, <2>1, <3>1
  <2>2. CASE e \notin Columns
    <3>1. \A l \in Columns : l.name = n => IsArray(l)
      BY <1>1, <2>2
    <3> QED
      BY <1>5, <2>2, <3>1
  <2> QED
    BY <2>1, <2>2
<1>7. ASSUME Clean
      PROVE  Carried({e}) = {e}
  <2>1. e.name \notin DOMAIN Spaced
    BY <1>2, <1>7 DEF Clean
  <2> HIDE DEF e
  <2> QED
    BY <1>2, <2>1, CarriedAsIs
<1> HIDE DEF e
<1>8. Matching(e, Columns) \subseteq Columns
  BY <1>3, <1>5
<1> QED
  BY <1>2, <1>6, <1>7, <1>8 DEF e

-----------------------------------------------------------------------------
(* Proposals *)

(* The curves of a catalog are the names of its columns.                     *)
LEMMA CurvesAre ==
    ASSUME bulk \in Bulks, CatalogKnown, catalog # None
    PROVE  DOMAIN catalog.curves = {l.name : l \in Columns}
<1>1. PICK q \in SetToSeqs(Columns) : catalog.curves = CountCurves(q)
  BY DEF CatalogKnown
<1> QED
  BY <1>1, CountsAre

(* A partition is a set of labels, whatever the labels of its group.         *)
LEMMA PartitionIs ==
    ASSUME bulk \in Bulks, NEW c \in bulk.chunks
    PROVE  ColumnsToSlices(c.cols) \subseteq Label
<1>1. ASSUME NEW n \in Sliced(c.cols)
      PROVE  Spanned(c.cols, n) \in Label
  <2> DEFINE I == Indexes(c.cols, n)
             P == PartsOf(c.cols, n)
             s == [l \in P |-> l.start]
  <2>1. PICK k \in Parts(c.cols) : k.name = n
    BY DEF Sliced
  <2>2. n \in Names /\ k \in P
    BY <2>1, LabelIs DEF Parts, PartsOf
  <2>3. I = {l.start : l \in P} /\ s = [l \in P |-> s[l]] /\ I = {s[l] : l \in P}
    BY DEF Indexes
  <2>4. \A l \in P : l.start \in Nat
    BY LabelIs DEF PartsOf, Parts
  <2>5. IsFiniteSet(P)
    <3>1. IsFiniteSet(c.cols) /\ P \subseteq c.cols
      BY LabelsAssumption DEF PartsOf, Parts
    <3> QED
      BY <3>1, FS_Subset
  <2> HIDE DEF s, I, P
  <2>6. IsFiniteSet(I)
    BY <2>3, <2>5, ImageFinite
  <2>7. I # {} /\ I \subseteq Nat
    BY <2>2, <2>3, <2>4
  <2>8. Min(I) \in Nat /\ Max(I) \in Nat
    BY <2>6, <2>7, BoundsExist
  <2> QED
    BY <2>2, <2>8, PartIs DEF Spanned, I
<1>2. \A l \in c.cols : l \in Label
  BY LabelIs
<1> QED
  BY <1>1, <1>2 DEF ColumnsToSlices

(* What a catalog proposes are selections, which the query carries as they   *)
(* are.                                                                      *)
LEMMA ProposalIs ==
    ASSUME bulk \in Bulks, CatalogKnown, catalog # None,
           NEW sel \in Partitions(catalog) \cup ByCurve(catalog)
    PROVE  /\ sel # None /\ sel \in SUBSET Label
           /\ Clean => /\ ColumnsRead(sel) \subseteq Columns
                       /\ ColumnsRead(sel) = UNION {Matching(e, Columns) : e \in sel}
<1>1. CASE sel \in Partitions(catalog)
  <2>1. PICK c \in bulk.chunks : sel = ColumnsToSlices(c.cols)
    BY <1>1 DEF Partitions, CatalogKnown
  <2>2. sel # None
    BY <2>1, NoneAssumption
  <2>3. c.cols \subseteq Columns /\ sel \subseteq Label
    BY <2>1, PartitionIs DEF Columns, LabelsOf
  <2> QED
    BY <2>1, <2>2, <2>3, PartitionRead DEF ColumnsRead
<1>2. CASE sel \in ByCurve(catalog)
  <2>1. PICK n \in DOMAIN catalog.curves : sel = {Plain(n)}
    BY <1>2 DEF ByCurve
  <2>2. PICK k \in Columns : n = k.name
    BY <2>1, CurvesAre
  <2>3. n \in Names
    BY <2>2, LabelIs DEF Columns, LabelsOf
  <2>4. sel # None
    BY <2>1, <2>3, NoneAssumption
  <2>5. UNION {Matching(e, Columns) : e \in {Plain(n)}} = Matching(Plain(n), Columns)
    OBVIOUS
  <2> QED
    BY <2>1, <2>2, <2>4, <2>5, CurveRead DEF ColumnsRead
<1> QED
  BY <1>1, <1>2

(* A partition reads its group, a curve the columns of its name.             *)
LEMMA ProposalReads ==
    ASSUME bulk \in Bulks, CatalogKnown, catalog # None, Clean, ~Clash
    PROVE  /\ \A sel \in Partitions(catalog) : \E c \in bulk.chunks :
                sel = ColumnsToSlices(c.cols) /\ ColumnsRead(sel) = c.cols
           /\ \A sel \in ByCurve(catalog) : \E k \in Columns :
                sel = {Plain(k.name)} /\ ColumnsRead(sel) = {l \in Columns : l.name = k.name}
<1>1. ASSUME NEW sel \in Partitions(catalog)
      PROVE  \E c \in bulk.chunks : sel = ColumnsToSlices(c.cols) /\ ColumnsRead(sel) = c.cols
  <2>1. PICK c \in bulk.chunks : sel = ColumnsToSlices(c.cols)
    BY <1>1 DEF Partitions, CatalogKnown
  <2> QED
    BY <2>1, PartitionRead
<1>2. ASSUME NEW sel \in ByCurve(catalog)
      PROVE  \E k \in Columns :
               sel = {Plain(k.name)} /\ ColumnsRead(sel) = {l \in Columns : l.name = k.name}
  <2>1. PICK n \in DOMAIN catalog.curves : sel = {Plain(n)}
    BY <1>2 DEF ByCurve
  <2>2. PICK k \in Columns : n = k.name
    BY <2>1, CurvesAre
  <2>3. UNION {Matching(e, Columns) : e \in {Plain(n)}} = Matching(Plain(n), Columns)
    OBVIOUS
  <2> QED
    BY <2>1, <2>2, <2>3, CurveRead DEF ColumnsRead
<1> QED
  BY <1>1, <1>2

(* Two proposals of a kind have no column in common, ...                     *)
LEMMA ProposalsApart ==
    ASSUME bulk \in Bulks, CatalogKnown, catalog # None, Clean, ~Clash, NEW P,
           P \subseteq Partitions(catalog) \/ P \subseteq ByCurve(catalog),
           NEW s \in P, NEW t \in P, s # t
    PROVE  ColumnsRead(s) \cap ColumnsRead(t) = {}
<1>1. CASE P \subseteq Partitions(catalog)
  <2>1. PICK c \in bulk.chunks : s = ColumnsToSlices(c.cols) /\ ColumnsRead(s) = c.cols
    BY <1>1, ProposalReads
  <2>2. PICK d \in bulk.chunks : t = ColumnsToSlices(d.cols) /\ ColumnsRead(t) = d.cols
    BY <1>1, ProposalReads
  <2>3. c.cols = d.cols \/ c.cols \cap d.cols = {}
    BY CurvesAssumption
  <2> QED
    BY <2>1, <2>2, <2>3
<1>2. CASE P \subseteq ByCurve(catalog)
  <2>1. PICK k \in Columns : /\ s = {Plain(k.name)}
                            /\ ColumnsRead(s) = {l \in Columns : l.name = k.name}
    BY <1>2, ProposalReads
  <2>2. PICK m \in Columns : /\ t = {Plain(m.name)}
                            /\ ColumnsRead(t) = {l \in Columns : l.name = m.name}
    BY <1>2, ProposalReads
  <2>3. k.name # m.name
    BY <2>1, <2>2
  <2> QED
    BY <2>1, <2>2, <2>3
<1> QED
  BY <1>1, <1>2

(* ... and all those of a kind have them all.                                *)
LEMMA ProposalsCover ==
    ASSUME bulk \in Bulks, CatalogKnown, catalog # None, Clean, ~Clash,
           NEW P \in {Partitions(catalog), ByCurve(catalog)}, NEW l \in Columns
    PROVE  \E s \in P : l \in ColumnsRead(s)
<1>1. CASE P = Partitions(catalog)
  <2>1. PICK c \in bulk.chunks : l \in c.cols
    BY DEF Columns, LabelsOf
  <2>2. ColumnsToSlices(c.cols) \in P
    BY <1>1 DEF Partitions, CatalogKnown
  <2> QED
    BY <2>1, <2>2, PartitionRead
<1>2. CASE P = ByCurve(catalog)
  <2>1. {Plain(l.name)} \in P
    BY <1>2, CurvesAre DEF ByCurve
  <2>2. PICK k \in Columns :
          /\ {Plain(l.name)} = {Plain(k.name)}
          /\ ColumnsRead({Plain(l.name)}) = {j \in Columns : j.name = k.name}
    BY <1>2, <2>1, ProposalReads
  <2>3. Plain(l.name).name = l.name /\ Plain(k.name).name = k.name
    BY DEF Plain
  <2> QED
    BY <2>1, <2>2, <2>3
<1> QED
  BY <1>1, <1>2

(* What the answer to a read says of the selection.                          *)
LEMMA ReadIs ==
    ASSUME bulk \in Bulks, CatalogKnown, catalog # None, AllColumns(catalog.groups) = Columns,
           NEW sel, NEW n \in Nat
    PROVE  LET a  == Read(catalog, sel, n)
               C  == IF sel = None THEN Columns ELSE ColumnsRead(sel)
               nb == Cardinality(C)
           IN  /\ a.status \in {"data", "not found", "too large"}
               /\ a.status = "data" => a.cols = C /\ C \subseteq Columns
               /\ a.status = "not found" => ~ C \subseteq Columns
               /\ a.status = "too large" =>
                    nb > MaxReadColumns \/ bulk.nbRows * nb > MaxLoadValues \/ n * nb > MaxReadValues
BY DEF Read, CatalogKnown, ColumnsRead

(* What is proposed is not None, ...                                         *)
LEMMA PlanIsSome ==
    ASSUME bulk \in Bulks, CatalogKnown, catalog # None, NEW P,
           P \subseteq Partitions(catalog) \/ P \subseteq ByCurve(catalog)
    PROVE  P # None
<1>1. CASE P \subseteq Partitions(catalog)
  <2>1. P \in SUBSET {ColumnsToSlices(c.cols) : c \in bulk.chunks}
    BY <1>1 DEF Partitions, CatalogKnown
  <2> QED
    BY <2>1, NoneAssumption
<1>2. CASE P \subseteq ByCurve(catalog)
  <2> DEFINE N == {n \in DOMAIN catalog.curves : {Plain(n)} \in P}
  <2>1. P = {{Plain(n)} : n \in N}
    BY <1>2 DEF ByCurve
  <2>2. N \subseteq Names
    BY CurvesAre, LabelIs DEF Columns, LabelsOf
  <2> HIDE DEF N
  <2> QED
    BY <2>1, <2>2, NoneAssumption
<1> QED
  BY <1>1, <1>2

(* ... and is refused only if a row of it is.                                *)
LEMMA RefusedIsLarge ==
    ASSUME bulk \in Bulks, CatalogKnown, catalog # None, AllColumns(catalog.groups) = Columns,
           Clean, NEW sel \in Partitions(catalog) \cup ByCurve(catalog),
           Read(catalog, sel, 1).status # "data"
    PROVE  LET C == UNION {Matching(e, Columns) : e \in sel}
           IN  \/ Cardinality(C) > Min({MaxReadColumns, MaxReadValues})
               \/ Cardinality(C) * bulk.nbRows > MaxLoadValues
<1> DEFINE C  == ColumnsRead(sel)
           nb == Cardinality(C)
<1>1. sel # None /\ C \subseteq Columns /\ C = UNION {Matching(e, Columns) : e \in sel}
  BY ProposalIs
<1>2. /\ Read(catalog, sel, 1).status \in {"data", "not found", "too large"}
      /\ Read(catalog, sel, 1).status = "not found" => ~ C \subseteq Columns
      /\ Read(catalog, sel, 1).status = "too large" =>
           nb > MaxReadColumns \/ bulk.nbRows * nb > MaxLoadValues \/ 1 * nb > MaxReadValues
  BY <1>1, ReadIs
<1>3. nb \in Nat /\ bulk.nbRows \in Nat
  BY <1>1, BulkFinite, FS_Subset, FS_CardinalityType
<1>4. /\ MaxReadColumns \in Nat /\ MaxReadValues \in Nat
      /\ IsFiniteSet({MaxReadColumns, MaxReadValues})
  <2>1. IsFiniteSet({MaxReadColumns, MaxReadValues})
    BY PairFinite
  <2> QED
    BY <2>1, CurvesAssumption
<1>5. /\ Min({MaxReadColumns, MaxReadValues}) \in {MaxReadColumns, MaxReadValues}
      /\ \A y \in {MaxReadColumns, MaxReadValues} : Min({MaxReadColumns, MaxReadValues}) =< y
  BY <1>4, BoundsExist
<1> HIDE DEF C
<1>6. \/ nb > Min({MaxReadColumns, MaxReadValues})
      \/ nb * bulk.nbRows > MaxLoadValues
  <2>1. bulk.nbRows * nb = nb * bulk.nbRows /\ 1 * nb = nb
    BY <1>3
  <2>2. nb > MaxReadColumns \/ nb * bulk.nbRows > MaxLoadValues \/ nb > MaxReadValues
    BY <1>1, <1>2, <2>1
  <2> DEFINE m == Min({MaxReadColumns, MaxReadValues})
  <2>3. m \in Nat /\ m <= MaxReadColumns /\ m <= MaxReadValues
    BY <1>4, <1>5
  <2> HIDE DEF m, nb
  <2>4. nb > m \/ nb * bulk.nbRows > MaxLoadValues
    BY <1>3, <1>4, <2>2, <2>3 DEF nb
  <2> QED
    BY <2>4 DEF m, nb
<1> QED
  BY <1>1, <1>6

-----------------------------------------------------------------------------
(* Steps *)

LEMMA Initial == Init => Inv
<1> SUFFICES ASSUME Init PROVE Inv
  OBVIOUS
<1> USE DEF Init
<1>1. TypeOK
  <2>1. DOMAIN got = Columns \X (1 .. bulk.nbRows) /\ \A x \in DOMAIN got : got[x] = 0
    BY DEF Columns, LabelsOf
  <2> QED
    BY <2>1 DEF TypeOK
<1>2. CatalogKnown /\ PlanKnown /\ ProposalsAreReadable
  BY DEF CatalogKnown, PlanKnown, ProposalsAreReadable
<1>3. Accounted
  BY DEF Accounted
<1> QED
  BY <1>1, <1>2, <1>3 DEF Inv

(* What a step that leaves the bulk has to keep.                             *)
LEMMA BulkKept ==
    ASSUME Inv, bulk' = bulk,
           TypeOK', CatalogKnown', PlanKnown',
           Clean => \A r \in refused' :
             /\ r[2] = "too large"
             /\ LET C == UNION {Matching(e, Columns) : e \in r[1]}
                IN  \/ Cardinality(C) > Min({MaxReadColumns, MaxReadValues})
                    \/ Cardinality(C) * bulk.nbRows > MaxLoadValues,
           Clean /\ ~Clash /\ refused' = {} =>
             \A x \in DOMAIN got' :
               IF plan' = None \/ (\E sel \in plan' : x[1] \in ColumnsRead(sel))
               THEN got'[x] = IF page' # None /\ x \in ReadOf(page') THEN 1 ELSE 0
               ELSE got'[x] = 1
    PROVE  Inv'
<1>1. Columns' = Columns
  BY DEF Columns, LabelsOf
<1>2. Clean' = Clean /\ Clash' = Clash
  BY <1>1 DEF Clean, Clash
<1>3. ProposalsAreReadable'
  BY <1>1, <1>2 DEF ProposalsAreReadable
<1>4. Accounted'
  BY <1>1, <1>2 DEF Accounted, ReadOf, ColumnsRead
<1> QED
  BY <1>3, <1>4 DEF Inv

(* What a step of a client that reads has to keep of the types.              *)
LEMMA TypeKept ==
    ASSUME TypeOK, catalog # None, UNCHANGED <<bulk, catalog>>,
           page' # None => plan' # None /\ page' \in [sel : plan', next : 1 .. bulk.nbRows,
                                                   limit : 1 .. bulk.nbRows],
           DOMAIN got' = DOMAIN got, \A x \in DOMAIN got' : got'[x] \in Nat,
           \A r \in refused' : r[2] \in {"not found", "too large"}
    PROVE  TypeOK'
<1>1. Columns' = Columns
  BY DEF Columns, LabelsOf
<1> QED
  BY <1>1 DEF TypeOK

(* The commit.                                                               *)
LEMMA CommitKeeps == Inv /\ Commit => Inv'
<1> SUFFICES ASSUME Inv, Commit PROVE Inv'
  OBVIOUS
<1>1. /\ bulk \in Bulks /\ catalog = None /\ plan = None /\ page = None
      /\ UNCHANGED <<bulk, plan, page, got, refused>>
  BY DEF Inv, TypeOK, Commit
<1>2. Columns' = Columns
  BY <1>1 DEF Columns, LabelsOf
<1>3. AllColumns({c.cols : c \in bulk.chunks}) = Columns
  BY DEF AllColumns, Columns, LabelsOf
<1>4. PICK q \in SetToSeqs(Columns) :
        catalog' = [groups |-> {c.cols : c \in bulk.chunks}, nbRows |-> bulk.nbRows,
                    curves |-> CountCurves(q)]
  BY <1>3 DEF Commit
<1>5. TypeOK'
  BY <1>1, <1>2, <1>3, <1>4 DEF Inv, TypeOK
<1>6. CatalogKnown' /\ PlanKnown'
  BY <1>1, <1>2, <1>4 DEF CatalogKnown, PlanKnown
<1> QED
  BY <1>1, <1>5, <1>6, BulkKept DEF Inv, Accounted, ProposalsAreReadable

(* The client starts to read, by partitions if it is not given the whole.    *)
LEMMA AskWholeKeeps == Inv /\ AskWhole => Inv'
<1> SUFFICES ASSUME Inv, AskWhole PROVE Inv'
  OBVIOUS
<1>1. /\ bulk \in Bulks /\ catalog # None /\ plan = None /\ page = None /\ CatalogKnown
      /\ AllColumns(catalog.groups) = Columns /\ catalog.nbRows = bulk.nbRows
      /\ UNCHANGED <<bulk, catalog, page, refused>>
      /\ DOMAIN got = Columns \X (1 .. bulk.nbRows) /\ \A x \in DOMAIN got : got[x] \in Nat
  BY DEF Inv, TypeOK, CatalogKnown, AskWhole
<1>2. Columns' = Columns /\ CatalogKnown'
  BY <1>1 DEF Columns, LabelsOf, CatalogKnown
<1>3. Clean /\ ~Clash /\ refused = {} => \A x \in DOMAIN got : got[x] = 0
  BY <1>1 DEF Inv, Accounted
<1>4. CASE Read(catalog, None, catalog.nbRows).status = "data"
  <2>1. Read(catalog, None, catalog.nbRows).cols = Columns
    BY <1>1, <1>4, BulkFinite, ReadIs
  <2>2. /\ plan' = {}
        /\ got' = [x \in DOMAIN got |->
                     IF x[1] \in Columns /\ x[2] \in 1 .. bulk.nbRows THEN got[x] + 1 ELSE got[x]]
    BY <1>1, <1>4, <2>1 DEF AskWhole, Receive
  <2>3. DOMAIN got' = DOMAIN got /\ \A x \in DOMAIN got : got'[x] = got[x] + 1
    BY <1>1, <2>2
  <2>4. plan' # None
    BY <1>1, <2>2, PlanIsSome
  <2>5. TypeOK' /\ PlanKnown'
    <3>1. \A x \in DOMAIN got' : got'[x] \in Nat
      BY <1>1, <2>3
    <3>2. TypeOK'
      BY <1>1, <1>2, <2>2, <2>3, <3>1 DEF Inv, TypeOK
    <3>3. PlanKnown'
      BY <1>1, <2>2 DEF PlanKnown
    <3> QED
      BY <3>2, <3>3
  <2>6. Clean /\ ~Clash /\ refused' = {} => \A x \in DOMAIN got' : got'[x] = 1
    BY <1>1, <1>3, <2>3
  <2> QED
    BY <1>1, <1>2, <2>2, <2>4, <2>5, <2>6, BulkKept DEF Inv, ProposalsAreReadable
<1>5. CASE Read(catalog, None, catalog.nbRows).status # "data"
  <2>1. plan' = Partitions(catalog) /\ got' = got
    BY <1>5 DEF AskWhole
  <2>2. TypeOK' /\ PlanKnown'
    BY <1>1, <1>2, <2>1 DEF Inv, TypeOK, PlanKnown
  <2>3. Clean /\ ~Clash => \A x \in DOMAIN got : \E sel \in plan' : x[1] \in ColumnsRead(sel)
    BY <1>1, <2>1, ProposalsCover
  <2> QED
    BY <1>1, <1>2, <1>3, <2>1, <2>2, <2>3, BulkKept DEF Inv, ProposalsAreReadable
<1> QED
  BY <1>4, <1>5

(* ... or by curves.                                                         *)
LEMMA AskCurvesKeeps == Inv /\ AskCurves => Inv'
<1> SUFFICES ASSUME Inv, AskCurves PROVE Inv'
  OBVIOUS
<1>1. /\ bulk \in Bulks /\ catalog # None /\ plan = None /\ page = None /\ CatalogKnown
      /\ UNCHANGED <<bulk, catalog, page, got, refused>> /\ plan' = ByCurve(catalog)
      /\ DOMAIN got = Columns \X (1 .. bulk.nbRows)
  BY DEF Inv, TypeOK, AskCurves, ByCurve
<1>2. Columns' = Columns /\ CatalogKnown'
  BY <1>1 DEF Columns, LabelsOf, CatalogKnown
<1>3. TypeOK' /\ PlanKnown'
  BY <1>1, <1>2 DEF Inv, TypeOK, PlanKnown
<1>4. Clean /\ ~Clash => \A x \in DOMAIN got : \E sel \in plan' : x[1] \in ColumnsRead(sel)
  BY <1>1, ProposalsCover
<1>5. Clean /\ ~Clash /\ refused = {} => \A x \in DOMAIN got : got[x] = 0
  BY <1>1 DEF Inv, Accounted
<1> QED
  BY <1>1, <1>2, <1>3, <1>4, <1>5, BulkKept DEF Inv, ProposalsAreReadable

(* A selection is read: at once, by pages, or not at all.                    *)
LEMMA AskKeeps ==
    ASSUME Inv, plan # None, NEW sel \in plan, Ask(sel)
    PROVE  Inv'
<1> DEFINE answer == Read(catalog, sel, catalog.nbRows)
           limits == {n \in 1 .. catalog.nbRows - 1 : Read(catalog, sel, n).status = "data"}
<1>1. /\ bulk \in Bulks /\ catalog # None /\ page = None /\ CatalogKnown
      /\ AllColumns(catalog.groups) = Columns /\ catalog.nbRows = bulk.nbRows
      /\ UNCHANGED <<bulk, catalog>>
      /\ DOMAIN got = Columns \X (1 .. bulk.nbRows) /\ \A x \in DOMAIN got : got[x] \in Nat
      /\ plan \subseteq Partitions(catalog) \/ plan \subseteq ByCurve(catalog)
  BY DEF Inv, TypeOK, CatalogKnown, PlanKnown, Ask
<1>2. Columns' = Columns /\ CatalogKnown' /\ bulk.nbRows \in Nat \ {0}
  BY <1>1, BulkFinite DEF Columns, LabelsOf, CatalogKnown
<1>3. /\ sel \in Partitions(catalog) \cup ByCurve(catalog) /\ sel # None
      /\ Clean => ColumnsRead(sel) \subseteq Columns
  BY <1>1, ProposalIs
<1>4. answer.status \in {"data", "not found", "too large"}
  BY <1>1, <1>2, ReadIs
<1>5. Clean /\ ~Clash /\ refused = {} =>
        \A x \in DOMAIN got : got[x] = IF \E s \in plan : x[1] \in ColumnsRead(s) THEN 0 ELSE 1
  BY <1>1 DEF Inv, Accounted
<1>6. PlanKnown' /\ plan' # None
  <2>1. plan' = plan \/ plan' = plan \ {sel}
    BY DEF Ask
  <2>2. plan' \subseteq Partitions(catalog) \/ plan' \subseteq ByCurve(catalog)
    BY <1>1, <2>1
  <2> QED
    BY <1>1, <2>2, PlanIsSome DEF PlanKnown, Partitions, ByCurve
<1>7. CASE answer.status = "data"
  <2>1. answer.cols = ColumnsRead(sel) /\ ColumnsRead(sel) \subseteq Columns
    BY <1>1, <1>2, <1>3, <1>7, ReadIs
  <2>2. /\ plan' = plan \ {sel} /\ page' = page /\ refused' = refused
        /\ Receive(answer.cols, 1, catalog.nbRows)
    BY <1>7 DEF Ask
  <2>3. /\ DOMAIN got' = DOMAIN got
        /\ \A x \in DOMAIN got :
             got'[x] = IF x[1] \in ColumnsRead(sel) THEN got[x] + 1 ELSE got[x]
    BY <1>1, <2>1, <2>2 DEF Receive
  <2>4. TypeOK'
    <3>1. \A x \in DOMAIN got' : got'[x] \in Nat
      BY <1>1, <2>3
    <3>2. page' = None /\ refused' = refused
      BY <1>1, <2>2
    <3>3. \A r \in refused' : r[2] \in {"not found", "too large"}
      BY <3>2 DEF Inv, TypeOK
    <3> QED
      BY <1>1, <2>3, <3>1, <3>2, <3>3, TypeKept DEF Inv
  <2>5. ASSUME Clean, ~Clash, refused' = {}, NEW x \in DOMAIN got'
        PROVE  IF \E s \in plan' : x[1] \in ColumnsRead(s) THEN got'[x] = 0 ELSE got'[x] = 1
    <3>1. x \in DOMAIN got /\ refused = {}
      BY <2>2, <2>3, <2>5
    <3>2. got[x] = IF \E s \in plan : x[1] \in ColumnsRead(s) THEN 0 ELSE 1
      BY <1>5, <2>5, <3>1
    <3>3. CASE x[1] \in ColumnsRead(sel)
      <4>1. \A s \in plan' : x[1] \notin ColumnsRead(s)
        <5>1. ASSUME NEW s \in plan' PROVE x[1] \notin ColumnsRead(s)
          <6>1. s \in plan /\ s # sel
            BY <2>2
          <6>2. ColumnsRead(s) \cap ColumnsRead(sel) = {}
            BY <1>1, <2>5, <6>1, ProposalsApart
          <6> QED
            BY <3>3, <6>2
        <5> QED
          BY <5>1
      <4>2. got[x] = 0 /\ got'[x] = 1
        BY <2>3, <3>1, <3>2, <3>3
      <4> QED
        BY <4>1, <4>2
    <3>4. CASE x[1] \notin ColumnsRead(sel)
      <4>1. got'[x] = got[x]
        BY <2>3, <3>1, <3>4
      <4>2. (\E s \in plan' : x[1] \in ColumnsRead(s)) <=> (\E s \in plan : x[1] \in ColumnsRead(s))
        BY <2>2, <3>4
      <4> QED
        BY <3>2, <4>1, <4>2
    <3> QED
      BY <3>3, <3>4
  <2> QED
    BY <1>1, <1>2, <1>6, <2>2, <2>4, <2>5, BulkKept DEF Inv, ProposalsAreReadable
<1>8. CASE answer.status = "too large" /\ limits # {}
  <2>1. /\ \E n \in limits : page' = [sel |-> sel, next |-> 1, limit |-> n]
        /\ plan' = plan /\ got' = got /\ refused' = refused
    BY <1>8 DEF Ask
  <2>2. page' \in [sel : plan, next : {1}, limit : 1 .. bulk.nbRows]
    BY <1>1, <1>2, <2>1
  <2>3. TypeOK'
    <3>1. page' \in [sel : plan, next : 1 .. bulk.nbRows, limit : 1 .. bulk.nbRows]
      BY <1>2, <2>2
    <3>2. \A r \in refused' : r[2] \in {"not found", "too large"}
      BY <2>1 DEF Inv, TypeOK
    <3>3. /\ page' # None => plan' # None /\ page' \in [sel : plan', next : 1 .. bulk.nbRows,
                                                     limit : 1 .. bulk.nbRows]
          /\ DOMAIN got' = DOMAIN got /\ \A x \in DOMAIN got' : got'[x] \in Nat
      BY <1>1, <2>1, <3>1
    <3> QED
      BY <1>1, <3>2, <3>3, TypeKept DEF Inv
  <2>4. ReadOf(page') = {}
    BY <2>2 DEF ReadOf
  <2> QED
    BY <1>1, <1>2, <1>5, <1>6, <2>1, <2>3, <2>4, BulkKept DEF Inv, ProposalsAreReadable
<1>9. CASE answer.status # "data" /\ ~(answer.status = "too large" /\ limits # {})
  <2>1. /\ plan' = plan \ {sel} /\ page' = page /\ got' = got
        /\ refused' = refused \cup {<<sel, answer.status>>}
    BY <1>9 DEF Ask
  <2>2. TypeOK'
    <3>1. \A r \in refused : r[2] \in {"not found", "too large"}
      BY DEF Inv, TypeOK
    <3> HIDE DEF answer
    <3>2. answer.status \in {"not found", "too large"}
      BY <1>4, <1>9
    <3>3. \A r \in refused' : r[2] \in {"not found", "too large"}
      <4> DEFINE r0 == <<sel, answer.status>>
      <4>1. r0[2] = answer.status
        OBVIOUS
      <4>2. refused' = refused \cup {r0}
        BY <2>1
      <4> HIDE DEF r0
      <4> QED
        BY <3>1, <3>2, <4>1, <4>2
    <3> QED
      BY <1>1, <2>1, <3>3, TypeKept DEF Inv
  <2>3. ASSUME Clean
        PROVE  /\ answer.status = "too large"
               /\ LET C == UNION {Matching(e, Columns) : e \in sel}
                  IN  \/ Cardinality(C) > Min({MaxReadColumns, MaxReadValues})
                      \/ Cardinality(C) * bulk.nbRows > MaxLoadValues
    <3>1. answer.status # "not found"
      BY <1>1, <1>2, <1>3, <2>3, ReadIs
    <3>2. Read(catalog, sel, 1).status # "data"
      <4>1. CASE bulk.nbRows = 1
        BY <1>1, <1>9, <4>1
      <4>2. CASE bulk.nbRows # 1
        <5>1. 1 \in 1 .. catalog.nbRows - 1
          BY <1>1, <1>2, <4>2
        <5> QED
          BY <1>4, <1>9, <3>1, <5>1
      <4> QED
        BY <4>1, <4>2
    <3> QED
      BY <1>1, <1>3, <1>4, <1>9, <2>3, <3>1, <3>2, RefusedIsLarge
  <2>4. refused' # {}
    BY <2>1
  <2> HIDE DEF answer
  <2>5. Clean => \A r \in refused' :
          /\ r[2] = "too large"
          /\ LET C == UNION {Matching(e, Columns) : e \in r[1]}
             IN  \/ Cardinality(C) > Min({MaxReadColumns, MaxReadValues})
                 \/ Cardinality(C) * bulk.nbRows > MaxLoadValues
    <3>1. ASSUME Clean, NEW r \in refused'
          PROVE  /\ r[2] = "too large"
                 /\ LET C == UNION {Matching(e, Columns) : e \in r[1]}
                    IN  \/ Cardinality(C) > Min({MaxReadColumns, MaxReadValues})
                        \/ Cardinality(C) * bulk.nbRows > MaxLoadValues
      <4>1. CASE r \in refused
        BY <3>1, <4>1 DEF Inv, ProposalsAreReadable
      <4>2. CASE r = <<sel, answer.status>>
        <5>1. r[1] = sel /\ r[2] = answer.status
          BY <4>2
        <5> QED
          BY <2>3, <3>1, <5>1
      <4> QED
        BY <2>1, <4>1, <4>2
    <3> QED
      BY <3>1
  <2> QED
    BY <1>1, <1>2, <1>6, <2>2, <2>4, <2>5, BulkKept
<1> QED
  BY <1>7, <1>8, <1>9

(* A page of a selection is read: the last one ends it.                      *)
LEMMA AskPageKeeps == Inv /\ AskPage => Inv'
<1> SUFFICES ASSUME Inv, AskPage PROVE Inv'
  OBVIOUS
<1> DEFINE sel == page.sel
           C   == ColumnsRead(sel)
           n   == Min({page.limit, bulk.nbRows + 1 - page.next})
           a   == page.next
<1>1. /\ bulk \in Bulks /\ catalog # None /\ page # None /\ plan # None /\ CatalogKnown
      /\ AllColumns(catalog.groups) = Columns /\ catalog.nbRows = bulk.nbRows
      /\ UNCHANGED <<bulk, catalog, refused>>
      /\ page \in [sel : plan, next : 1 .. bulk.nbRows, limit : 1 .. bulk.nbRows]
      /\ DOMAIN got = Columns \X (1 .. bulk.nbRows) /\ \A x \in DOMAIN got : got[x] \in Nat
      /\ plan \subseteq Partitions(catalog) \/ plan \subseteq ByCurve(catalog)
  BY DEF Inv, TypeOK, CatalogKnown, PlanKnown, AskPage
<1>2. Columns' = Columns /\ CatalogKnown' /\ bulk.nbRows \in Nat \ {0}
  BY <1>1, BulkFinite DEF Columns, LabelsOf, CatalogKnown
<1>3. sel \in plan /\ sel # None /\ sel \in SUBSET Label
  BY <1>1, ProposalIs
<1>4. n \in 1 .. bulk.nbRows /\ n = IF a + page.limit > bulk.nbRows THEN bulk.nbRows + 1 - a ELSE page.limit
  <2> DEFINE i == page.limit
             j == bulk.nbRows + 1 - a
  <2>1. i \in 1 .. bulk.nbRows /\ j \in 1 .. bulk.nbRows
    BY <1>1, <1>2
  <2>2. IsFiniteSet({i, j})
    BY PairFinite
  <2>3. Min({i, j}) \in {i, j} /\ \A y \in {i, j} : Min({i, j}) =< y
    BY <1>2, <2>1, <2>2, BoundsExist
  <2>4. Min({i, j}) = IF i <= j THEN i ELSE j
    BY <1>2, <2>1, <2>3
  <2> QED
    BY <1>1, <1>2, <2>1, <2>4
<1>5. C \subseteq Columns /\ Receive(C, a, a + n - 1)
  <2>1. /\ Read(catalog, sel, n).status = "data"
        /\ Receive(Read(catalog, sel, n).cols, a, a + n - 1)
    BY <1>1 DEF AskPage
  <2> HIDE DEF n, sel
  <2>2. n \in Nat
    BY <1>2, <1>4
  <2>3. Read(catalog, sel, n).cols = C /\ C \subseteq Columns
    BY <1>1, <1>3, <2>1, <2>2, ReadIs
  <2> QED
    BY <2>1, <2>3
<1>6. /\ DOMAIN got' = DOMAIN got
      /\ \A x \in DOMAIN got :
           got'[x] = IF x[1] \in C /\ x[2] \in a .. a + n - 1 THEN got[x] + 1 ELSE got[x]
  BY <1>5 DEF Receive
<1> HIDE DEF n
<1>7. Clean /\ ~Clash /\ refused = {} =>
        \A x \in DOMAIN got :
          got[x] = IF x[1] \in C THEN (IF x[2] < a THEN 1 ELSE 0)
                   ELSE IF \E s \in plan : x[1] \in ColumnsRead(s) THEN 0 ELSE 1
  <2>1. \A x \in DOMAIN got : x \in ReadOf(page) <=> x[1] \in C /\ x[2] < a
    BY <1>1, <1>2 DEF ReadOf
  <2> QED
    BY <1>1, <1>3, <2>1 DEF Inv, Accounted
<1>8. \A x \in DOMAIN got' : got'[x] \in Nat
  BY <1>1, <1>6
<1>9. CASE a + page.limit > bulk.nbRows
  <2>1. page' = None /\ plan' = plan \ {sel}
    BY <1>1, <1>9 DEF AskPage, NextPage
  <2>2. plan' \subseteq Partitions(catalog) \/ plan' \subseteq ByCurve(catalog)
    BY <1>1, <2>1
  <2>3. plan' # None /\ PlanKnown'
    BY <1>1, <2>2, PlanIsSome DEF PlanKnown, Partitions, ByCurve
  <2>4. TypeOK'
    BY <1>1, <1>2, <1>6, <1>8, <2>1 DEF Inv, TypeOK
  <2>5. ASSUME Clean, ~Clash, refused' = {}, NEW x \in DOMAIN got'
        PROVE  IF \E s \in plan' : x[1] \in ColumnsRead(s) THEN got'[x] = 0 ELSE got'[x] = 1
    <3>1. x \in DOMAIN got /\ refused = {} /\ x[2] \in 1 .. bulk.nbRows
      BY <1>1, <1>6, <2>5
    <3>2. CASE x[1] \in C
      <4>1. \A s \in plan' : x[1] \notin ColumnsRead(s)
        <5>1. ASSUME NEW s \in plan' PROVE x[1] \notin ColumnsRead(s)
          <6>1. s \in plan /\ s # sel
            BY <2>1
          <6>2. ColumnsRead(s) \cap C = {}
            BY <1>1, <1>3, <2>5, <6>1, ProposalsApart
          <6> QED
            BY <3>2, <6>2
        <5> QED
          BY <5>1
      <4>2. got[x] = IF x[2] < a THEN 1 ELSE 0
        BY <1>7, <2>5, <3>1, <3>2
      <4>3. a + n - 1 = bulk.nbRows /\ a \in 1 .. bulk.nbRows
        BY <1>1, <1>2, <1>4, <1>9
      <4>4. got'[x] = IF x[2] \in a .. bulk.nbRows THEN got[x] + 1 ELSE got[x]
        BY <1>6, <3>1, <3>2, <4>3
      <4>5. got'[x] = 1
        BY <1>2, <3>1, <4>2, <4>3, <4>4
      <4> QED
        BY <4>1, <4>5
    <3>3. CASE x[1] \notin C
      <4>1. got'[x] = got[x]
        BY <1>6, <3>1, <3>3
      <4>2. (\E s \in plan' : x[1] \in ColumnsRead(s)) <=> (\E s \in plan : x[1] \in ColumnsRead(s))
        BY <2>1, <3>3
      <4> QED
        BY <1>7, <2>5, <3>1, <3>3, <4>1, <4>2
    <3> QED
      BY <3>2, <3>3
  <2> QED
    BY <1>1, <1>2, <2>1, <2>3, <2>4, <2>5, BulkKept DEF Inv, ProposalsAreReadable
<1>10. CASE ~ a + page.limit > bulk.nbRows
  <2>1. page' = [page EXCEPT !.next = a + page.limit]
    BY <1>1, <1>10 DEF AskPage, NextPage
  <2>2. page' \in [sel : plan, next : 1 .. bulk.nbRows, limit : 1 .. bulk.nbRows]
    <3>1. a + page.limit \in 1 .. bulk.nbRows
      BY <1>1, <1>2, <1>10
    <3> QED
      BY <1>1, <2>1, <3>1
  <2>3. page' # None /\ plan' = plan
    <3>1. plan \subseteq SUBSET Label
      BY <1>1, ProposalIs
    <3>2. page' \in [sel : SUBSET Label, next : Nat, limit : Nat]
      BY <1>2, <2>2, <3>1
    <3> QED
      BY <3>2, NoneAssumption DEF AskPage
  <2>4. TypeOK' /\ PlanKnown'
    <3>1. TypeOK'
      BY <1>1, <1>2, <1>6, <1>8, <2>2, <2>3 DEF Inv, TypeOK
    <3> QED
      BY <1>1, <2>3, <3>1 DEF PlanKnown, Partitions, ByCurve
  <2>5. ASSUME Clean, ~Clash, refused' = {}, NEW x \in DOMAIN got'
        PROVE  IF \E s \in plan' : x[1] \in ColumnsRead(s)
               THEN got'[x] = IF page' # None /\ x \in ReadOf(page') THEN 1 ELSE 0
               ELSE got'[x] = 1
    <3>1. x \in DOMAIN got /\ refused = {} /\ x[2] \in 1 .. bulk.nbRows
      BY <1>1, <1>6, <2>5
    <3>2. n = page.limit /\ page.limit \in Nat /\ a \in Nat
      BY <1>1, <1>2, <1>4, <1>10
    <3>3. page'.sel = sel /\ page'.next = a + n
      BY <1>1, <2>1, <3>2
    <3>4. x \in ReadOf(page') <=> x[1] \in C /\ x[2] < a + n
      BY <1>1, <1>2, <3>1, <3>2, <3>3 DEF ReadOf
    <3>5. CASE x[1] \in C
      <4>1. got[x] = IF x[2] < a THEN 1 ELSE 0
        BY <1>7, <2>5, <3>1, <3>5
      <4>2. got'[x] = IF x[2] \in a .. a + n - 1 THEN got[x] + 1 ELSE got[x]
        BY <1>6, <3>1, <3>5
      <4>3. got'[x] = IF x[2] < a + n THEN 1 ELSE 0
        BY <1>2, <3>1, <3>2, <4>1, <4>2
      <4>4. \E s \in plan' : x[1] \in ColumnsRead(s)
        BY <1>3, <2>3, <3>5
      <4> QED
        BY <2>3, <3>4, <3>5, <4>3, <4>4
    <3>6. CASE x[1] \notin C
      <4>1. got'[x] = got[x] /\ x \notin ReadOf(page')
        BY <1>6, <3>1, <3>4, <3>6
      <4>2. got[x] = IF \E s \in plan : x[1] \in ColumnsRead(s) THEN 0 ELSE 1
        BY <1>7, <2>5, <3>1, <3>6
      <4> QED
        BY <2>3, <4>1, <4>2
    <3> QED
      BY <3>5, <3>6
  <2> QED
    BY <1>1, <1>2, <2>3, <2>4, <2>5, BulkKept DEF Inv, ProposalsAreReadable
<1> QED
  BY <1>9, <1>10

-----------------------------------------------------------------------------
(* Theorems *)

(* Every step of a commit and of its client keeps the invariant.             *)
THEOREM Invariance == Spec => []Inv
<1>1. Inv /\ [Next]_vars => Inv'
  <2> SUFFICES ASSUME Inv, [Next]_vars PROVE Inv'
    OBVIOUS
  <2>1. CASE Commit
    BY <2>1, CommitKeeps
  <2>2. CASE AskWhole
    BY <2>2, AskWholeKeeps
  <2>3. CASE AskCurves
    BY <2>3, AskCurvesKeeps
  <2>4. CASE plan # None /\ \E sel \in plan : Ask(sel)
    BY <2>4, AskKeeps
  <2>5. CASE AskPage
    BY <2>5, AskPageKeeps
  <2>6. CASE UNCHANGED vars
    <3>1. UNCHANGED <<bulk, catalog, plan, page, got, refused>>
      BY <2>6 DEF vars
    <3>2. Columns' = Columns
      BY <3>1 DEF Columns, LabelsOf
    <3>3. TypeOK'
      BY <3>1, <3>2 DEF Inv, TypeOK
    <3>4. CatalogKnown' /\ PlanKnown'
      BY <3>1, <3>2 DEF Inv, CatalogKnown, PlanKnown, Partitions, ByCurve
    <3> QED
      BY <3>1, <3>3, <3>4, BulkKept DEF Inv, Accounted, ProposalsAreReadable
  <2> QED
    BY <2>1, <2>2, <2>3, <2>4, <2>5, <2>6 DEF Next
<1> QED
  BY Initial, <1>1, PTL DEF Spec

(* A catalog has the columns of its bulk, and the page being read is one of  *)
(* a selection of the plan.                                                  *)
THEOREM TypeCorrect == Spec => []TypeOK
<1>1. Inv => TypeOK
  BY DEF Inv
<1> QED
  BY Invariance, <1>1, PTL

(* A client that reads every partition, or every curve, and is refused none  *)
(* has read each cell of the bulk exactly once.                              *)
THEOREM NothingLostNorRepeated == Spec => []GuidedReadGetsAll
<1>1. Inv => GuidedReadGetsAll
  <2> SUFFICES ASSUME Inv, Clean, ~Clash, plan = {}, refused = {}
               PROVE  \A x \in DOMAIN got : got[x] = 1
    BY DEF GuidedReadGetsAll
  <2>1. bulk \in Bulks /\ CatalogKnown /\ catalog # None
    <3>1. plan # None => catalog # None
      BY DEF Inv, PlanKnown
    <3>2. {} # None
      BY NoneAssumption
    <3> QED
      BY <3>1, <3>2 DEF Inv
  <2>2. plan # None
    BY <2>1, PlanIsSome
  <2> QED
    BY <2>2 DEF Inv, Accounted
<1> QED
  BY Invariance, <1>1, PTL

(* What the service proposes is found, and refused only if a single row of   *)
(* it is too much, or more than is loaded.                                   *)
THEOREM ProposalsRead == Spec => []ProposalsAreReadable
<1>1. Inv => ProposalsAreReadable
  BY DEF Inv
<1> QED
  BY Invariance, <1>1, PTL

(* The count a commit answers for a curve is that of the columns a read of   *)
(* the curve answers, in whatever order the labels were counted, and every   *)
(* column counts for one curve.                                              *)
THEOREM CountsTell == Spec => []CurvesTellColumns
<1>1. Inv => CurvesTellColumns
  <2> SUFFICES ASSUME Inv, catalog # None, ~Clash
               PROVE  /\ \A n \in DOMAIN catalog.curves :
                           catalog.curves[n] = Cardinality(Matching(Plain(n), Columns))
                      /\ \A l \in Columns : Cardinality(
                           {n \in DOMAIN catalog.curves : l \in Matching(Plain(n), Columns)}) = 1
    BY DEF CurvesTellColumns
  <2>1. PICK q \in SetToSeqs(Columns) : catalog.curves = CountCurves(q)
    BY DEF Inv, CatalogKnown
  <2>2. /\ DOMAIN catalog.curves = {l.name : l \in Columns}
        /\ \A n \in DOMAIN catalog.curves :
             catalog.curves[n] = Cardinality({l \in Columns : l.name = n})
    BY <2>1, CountsAre DEF Inv
  <2>3. \A n \in DOMAIN catalog.curves :
          Matching(Plain(n), Columns) = {l \in Columns : l.name = n}
    <3>1. ASSUME NEW n \in DOMAIN catalog.curves
          PROVE  Matching(Plain(n), Columns) = {l \in Columns : l.name = n}
      <4>1. PICK k \in Columns : n = k.name
        BY <2>2
      <4> QED
        BY <4>1, CurveRead DEF Inv
    <3> QED
      BY <3>1
  <2>4. ASSUME NEW l \in Columns
        PROVE  {n \in DOMAIN catalog.curves : l \in Matching(Plain(n), Columns)} = {l.name}
    BY <2>2, <2>3
  <2> QED
    BY <2>2, <2>3, <2>4, FS_Singleton
<1> QED
  BY Invariance, <1>1, PTL
=============================================================================
