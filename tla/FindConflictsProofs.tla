------------------------ MODULE FindConflictsProofs ------------------------
(***************************************************************************)
(* What find_conflicts returns, for every list of chunks and every order   *)
(* in which its dictionary and its sets are visited.                       *)
(***************************************************************************)
EXTENDS FindConflicts, ChunksProofs, FunctionTheorems

(* A set has two elements when its cardinality is more than 1.               *)
LEMMA TwoElements ==
    ASSUME NEW S, IsFiniteSet(S)
    PROVE  Cardinality(S) > 1 <=> \E x, y \in S : x # y
<1>1. CASE S = {}
  BY <1>1, FS_EmptySet
<1>2. CASE \E x : S = {x}
  BY <1>2, FS_Singleton
<1>3. CASE S # {} /\ ~\E x : S = {x}
  <2>1. Cardinality(S) \in Nat /\ Cardinality(S) # 0 /\ Cardinality(S) # 1
    BY <1>3, FS_CardinalityType, FS_EmptySet, FS_Singleton
  <2>2. \E x, y \in S : x # y
    BY <1>3
  <2> QED BY <2>1, <2>2
<1> QED BY <1>1, <1>2, <1>3

-----------------------------------------------------------------------------
(* The list *)

LEMMA ListFields ==
    ASSUME list \in Lists
    PROVE  /\ IsFiniteSet(Indexes) /\ Indexes \subseteq Int
           /\ \A n \in Indexes : /\ list[n].cols \subseteq Cols /\ list[n].cols # {}
                                 /\ IsFiniteSet(list[n].cols)
                                 /\ list[n].first \in Int /\ list[n].last \in Int
                                 /\ list[n].first =< list[n].last
<1>1. Len(list) \in Nat /\ Indexes = 1 .. Len(list)
  BY ListsAssumption DEF Indexes
<1>2. IsFiniteSet(Indexes) /\ Indexes \subseteq Int
  BY <1>1, FS_Interval
<1>3. ASSUME NEW n \in Indexes
      PROVE  /\ list[n].cols \subseteq Cols /\ list[n].cols # {}
             /\ IsFiniteSet(list[n].cols)
             /\ list[n].first \in Int /\ list[n].last \in Int
             /\ list[n].first =< list[n].last
  <2>1. /\ list[n].cols \subseteq Cols /\ list[n].cols # {}
        /\ list[n].first \in Rows /\ list[n].last \in Rows
        /\ list[n].first =< list[n].last
    BY ListsAssumption DEF Indexes
  <2>2. IsFiniteSet(list[n].cols)
    BY <2>1, GeometryAssumption, FS_Subset
  <2> QED BY <2>1, <2>2, GeometryAssumption
<1> QED BY <1>2, <1>3

LEMMA AllColsFinite ==
    ASSUME list \in Lists, NEW S \in SUBSET Indexes
    PROVE  AllCols(S) \subseteq Cols /\ IsFiniteSet(AllCols(S))
<1>1. AllCols(S) \subseteq Cols
  BY ListFields DEF AllCols
<1> QED BY <1>1, GeometryAssumption, FS_Subset

Shares(n, m) == list[n].cols \cap list[m].cols # {}

(* The count of the first pass: columns repeat when some are shared.         *)
LEMMA RepeatsMeans ==
    ASSUME list \in Lists, NEW S \in SUBSET Indexes, NEW n \in Indexes
    PROVE  Repeats(n, S) <=> \E m \in S : Shares(n, m)
<1> DEFINE A == AllCols(S)
           B == list[n].cols
<1>1. IsFiniteSet(A) /\ IsFiniteSet(B)
  BY AllColsFinite, ListFields
<1>2. AllCols(S \cup {n}) = A \cup B
  BY DEF AllCols
<1>3. A \cap B # {} <=> \E m \in S : Shares(n, m)
  BY DEF AllCols, Shares
<1> HIDE DEF A, B
<1>4. /\ Cardinality(A) \in Nat /\ Cardinality(B) \in Nat
      /\ Cardinality(A \cup B) = Cardinality(A) + Cardinality(B) - Cardinality(A \cap B)
      /\ IsFiniteSet(A \cap B)
  BY <1>1, FS_Union, FS_Subset, FS_CardinalityType
<1>5. Cardinality(A \cap B) \in Nat /\ (Cardinality(A \cap B) = 0 <=> A \cap B = {})
  BY <1>4, FS_CardinalityType, FS_EmptySet
<1>6. Repeats(n, S) <=> Cardinality(A) + Cardinality(B) > Cardinality(A \cup B)
  BY <1>2 DEF Repeats, A, B
<1> QED BY <1>3, <1>4, <1>5, <1>6

(* The chunks the first pass keeps are those that share a column with one.   *)
LEMMA SharingIs ==
    ASSUME list \in Lists
    PROVE  /\ Sharing \subseteq Indexes
           /\ \A n \in Indexes : n \in Sharing <=> \E m \in Indexes \ {n} : Shares(n, m)
<1>1. \A n \in Indexes : n \in Forward <=> \E m \in Indexes : m < n /\ Shares(n, m)
  BY RepeatsMeans DEF Forward
<1>2. \A n \in Indexes : n \in Backward <=> \E m \in Indexes : m > n /\ Shares(n, m)
  BY RepeatsMeans DEF Backward
<1>3. Forward \subseteq Indexes /\ Backward \subseteq Indexes /\ Indexes \subseteq Int
  BY ListFields DEF Forward, Backward
<1>4. \A n, m \in Indexes : Shares(n, m) <=> Shares(m, n)
  BY DEF Shares
<1>5. Forward = {} => Backward = {}
  BY <1>1, <1>2, <1>3, <1>4
<1>6. Sharing = Forward \cup Backward
  BY <1>5 DEF Sharing
<1> QED BY <1>1, <1>2, <1>3, <1>6

(* A column has several kinds when two chunks that hold it have not the same. *)
LEMMA MixedKindsMeans ==
    ASSUME list \in Lists
    PROVE  MixedKinds # {} <=>
             \E n, m \in Indexes : Shares(n, m) /\ list[n].kind # list[m].kind
<1> DEFINE With(c) == {m \in Sharing : c \in list[m].cols}
           KindsOf(c) == {list[n].kind : n \in With(c)}
<1>1. ASSUME NEW c
      PROVE  Cardinality(KindsOf(c)) > 1 <=>
               \E n, m \in With(c) : list[n].kind # list[m].kind
  <2> DEFINE f == [n \in With(c) |-> list[n].kind]
  <2>1. IsFiniteSet(With(c))
    BY ListFields, SharingIs, FS_Subset
  <2>2. f \in Surjection(With(c), KindsOf(c))
    BY DEF Surjection
  <2> HIDE DEF f
  <2>3. IsFiniteSet(KindsOf(c))
    BY <2>1, <2>2, FS_Surjection
  <2> DEFINE K == KindsOf(c)
  <2>4. (\E x, y \in K : x # y) <=> \E n, m \in With(c) : list[n].kind # list[m].kind
    OBVIOUS
  <2> HIDE DEF K
  <2>5. IsFiniteSet(K)
    BY <2>3 DEF K
  <2>6. Cardinality(K) > 1 <=> \E x, y \in K : x # y
    BY <2>5, TwoElements
  <2>7. Cardinality(K) > 1 <=> \E n, m \in With(c) : list[n].kind # list[m].kind
    BY <2>4, <2>6
  <2> QED BY <2>7 DEF K
<1>2. MixedKinds # {} <=> \E c \in AllCols(Sharing) : Cardinality(KindsOf(c)) > 1
  BY DEF MixedKinds
<1>3. MixedKinds # {} <=> \E c \in AllCols(Sharing) :
                            \E n, m \in With(c) : list[n].kind # list[m].kind
  BY <1>1, <1>2
<1>4. ASSUME NEW n \in Indexes, NEW m \in Indexes, Shares(n, m), list[n].kind # list[m].kind
      PROVE  MixedKinds # {}
  <2>1. n \in Sharing /\ m \in Sharing
    BY <1>4, SharingIs DEF Shares
  <2>2. PICK c : c \in list[n].cols /\ c \in list[m].cols
    BY <1>4 DEF Shares
  <2> QED BY <1>3, <1>4, <2>1, <2>2 DEF AllCols
<1>5. ASSUME MixedKinds # {}
      PROVE  \E n, m \in Indexes : Shares(n, m) /\ list[n].kind # list[m].kind
  BY <1>3, <1>5, SharingIs DEF Shares
<1> QED BY <1>4, <1>5

-----------------------------------------------------------------------------
(* The conflicts of a chunk *)

Items == {ItemAt(k) : k \in Indexes}

Clash(n, m) == n # m /\ (OverlapWith(list[n], list[m]) \/ Misaligned(list[n], list[m]))

LEMMA ItemsOfList ==
    ASSUME list \in Lists
    PROVE  /\ \A i \in Items : Proper(i)
           /\ \A n, m \in Indexes : /\ InConflict(ItemAt(n), ItemAt(m)) <=> Clash(n, m)
                                    /\ ItemAt(n) = ItemAt(m) => n = m
<1>1. \A n : ItemAt(n).chunk.meta = list[n] /\ ItemAt(n).chunk.dir = n
  BY DEF ItemAt
<1>2. \A n, m : ItemAt(n) = ItemAt(m) => n = m
  BY <1>1
<1>3. \A n, m : InConflict(ItemAt(n), ItemAt(m)) <=> Clash(n, m)
  BY <1>1, <1>2 DEF InConflict, Clash
<1>4. \A n \in Indexes : Proper(ItemAt(n))
  BY <1>1, ListFields DEF Proper
<1> QED BY <1>2, <1>3, <1>4 DEF Items

LEMMA ClashSymmetric ==
    ASSUME list \in Lists, NEW n \in Indexes, NEW m \in Indexes, Clash(n, m)
    PROVE  Clash(m, n) /\ Shares(n, m) /\ n \in Sharing /\ m \in Sharing
<1>1. Shares(n, m) /\ Shares(m, n) /\ n # m
  BY DEF Clash, OverlapWith, Misaligned, ShareColumns, Shares
<1>2. Clash(m, n)
  BY <1>1, ListFields
     DEF Clash, OverlapWith, Misaligned, ShareColumns, IndexOverlap, ColumnHash
<1> QED BY <1>1, <1>2, SharingIs

(* What the second pass finds for a chunk: all the chunks that have the      *)
(* shape of one with which it has a column in common that comes in two       *)
(* shapes.                                                                   *)
LEMMA MisalignedMeans ==
    ASSUME list \in Lists, NEW n \in Indexes, NEW m
    PROVE  m \in MisalignedWith(n) <=>
             /\ m \in Sharing
             /\ \E k \in Sharing : \E l \in Sharing :
                  \E c \in list[m].cols : /\ c \in list[n].cols /\ c \in list[k].cols
                                          /\ c \in list[l].cols
                                          /\ list[k].cols # list[l].cols
<1>0. Sharing \subseteq Indexes
  BY SharingIs
<1> DEFINE Two(c) == \E k, l \in Sharing : /\ c \in list[k].cols /\ c \in list[l].cols
                                           /\ list[k].cols # list[l].cols
<1>1. ASSUME NEW c
      PROVE  Cardinality(HashesOf(c)) > 1 <=> Two(c)
  <2> DEFINE K == HashesOf(c)
  <2>1. K \in SUBSET SUBSET Cols
    BY <1>0, ListFields DEF HashesOf, ColumnHash
  <2>2. (\E x, y \in K : x # y) <=> Two(c)
    BY DEF HashesOf, ColumnHash
  <2> HIDE DEF K
  <2>3. IsFiniteSet(K)
    BY <2>1, GeometryAssumption, FS_SUBSET, FS_Subset
  <2>4. Cardinality(K) > 1 <=> \E x, y \in K : x # y
    BY <2>3, TwoElements
  <2>5. Cardinality(K) > 1 <=> Two(c)
    BY <2>2, <2>4
  <2> QED BY <2>5 DEF K
<1> HIDE DEF Two
<1>2. \A c, k : ColumnHash(list[k]) \in HashesOf(c)
                  <=> \E m1 \in Sharing : c \in list[m1].cols /\ list[k].cols = list[m1].cols
  BY DEF HashesOf, ColumnHash
<1>3. \A c, k : k \in Sharing => (ColumnHash(list[k]) \in HashesOf(c) <=> c \in list[k].cols)
  BY <1>2
<1>4. m \in MisalignedWith(n) <=>
        \E c \in AllCols(Sharing) : /\ Two(c) /\ ColumnHash(list[n]) \in HashesOf(c)
                                    /\ m \in Sharing /\ ColumnHash(list[m]) \in HashesOf(c)
  BY <1>1 DEF MisalignedWith
<1>5. ASSUME m \in MisalignedWith(n)
      PROVE  m \in Sharing /\ \E c \in list[m].cols : c \in list[n].cols /\ Two(c)
  BY <1>2, <1>4, <1>5
<1>6. ASSUME m \in Sharing, NEW c \in list[m].cols, c \in list[n].cols, Two(c)
      PROVE  m \in MisalignedWith(n)
  <2>1. c \in AllCols(Sharing)
    BY <1>6 DEF AllCols
  <2>2. n \in Sharing
    <3>1. CASE n = m
      BY <1>6, <3>1
    <3>2. CASE n # m
      <4>1. m \in Indexes /\ Shares(n, m)
        BY <1>0, <1>6 DEF Shares
      <4> QED BY <4>1, <3>2, SharingIs
    <3> QED BY <3>1, <3>2
  <2> QED BY <1>3, <1>4, <1>6, <2>1, <2>2
<1>7. m \in MisalignedWith(n) <=>
        m \in Sharing /\ \E c \in list[m].cols : c \in list[n].cols /\ Two(c)
  BY <1>5, <1>6
<1> QED BY <1>7 DEF Two

(* Every conflict is found.                                                  *)
LEMMA ConflictsFound ==
    ASSUME list \in Lists, NEW n \in Indexes, NEW m \in Indexes, Clash(n, m)
    PROVE  m \in ConflictsOf(n)
<1>1. Clash(m, n) /\ Shares(n, m) /\ n \in Sharing /\ m \in Sharing /\ n # m
  BY ClashSymmetric DEF Clash
<1>2. CASE OverlapWith(list[n], list[m])
  <2>1. IndexOverlap(list[n], list[m]) /\ IndexOverlap(list[m], list[n])
    BY <1>2, ListFields DEF OverlapWith, IndexOverlap
  <2>2. n \in Potential /\ m \in Potential
    BY <1>1, <2>1 DEF Potential
  <2> QED BY <1>1, <1>2, <2>2 DEF ConflictsOf, Overlapping
<1>3. CASE Misaligned(list[n], list[m])
  <2>1. list[n].cols # list[m].cols
    BY <1>3 DEF Misaligned, ColumnHash
  <2>2. PICK c : c \in list[n].cols /\ c \in list[m].cols
    BY <1>1 DEF Shares
  <2>3. m \in MisalignedWith(n)
    BY <1>1, <2>1, <2>2, MisalignedMeans
  <2> QED BY <1>1, <2>3 DEF ConflictsOf
<1> QED BY <1>2, <1>3 DEF Clash

(* What is found for a chunk conflicts with it, directly or through one      *)
(* other; and if anything is found, it is in conflict.                       *)
LEMMA ConflictsMean ==
    ASSUME list \in Lists, NEW n \in Indexes, NEW m \in ConflictsOf(n)
    PROVE  /\ m \in Indexes
           /\ Clash(n, m) \/ \E k \in Indexes : Clash(n, k) /\ (m = n \/ Clash(k, m))
<1>0. Sharing \subseteq Indexes
  BY SharingIs
<1>1. CASE m \in Overlapping(n)
  <2>1. m \in Potential /\ m # n /\ OverlapWith(list[n], list[m])
    BY <1>1 DEF Overlapping
  <2> QED BY <1>0, <2>1 DEF Clash, Potential
<1>2. CASE m \in MisalignedWith(n)
  <2>1. m \in Indexes
    BY <1>0, <1>2, MisalignedMeans
  <2>2. PICK k \in Sharing : \E l \in Sharing :
               \E c \in list[m].cols : /\ c \in list[n].cols /\ c \in list[k].cols
                                       /\ c \in list[l].cols
                                       /\ list[k].cols # list[l].cols
    BY <1>2, MisalignedMeans
  <2>3. PICK l \in Sharing :
               \E c \in list[m].cols : /\ c \in list[n].cols /\ c \in list[k].cols
                                       /\ c \in list[l].cols
                                       /\ list[k].cols # list[l].cols
    BY <2>2
  <2>4. PICK x \in {k, l} : list[x].cols # list[n].cols
    BY <2>3
  <2>5. PICK c \in list[m].cols : c \in list[n].cols /\ c \in list[x].cols
    BY <2>3, <2>4
  <2>6. x \in Indexes /\ Clash(n, x)
    BY <1>0, <2>4, <2>5 DEF Clash, Misaligned, ShareColumns, ColumnHash
  <2>7. CASE list[m].cols = list[n].cols
    <3>1. Clash(x, m)
      BY <2>4, <2>5, <2>7 DEF Clash, Misaligned, ShareColumns, ColumnHash
    <3> QED BY <2>1, <2>6, <3>1
  <2>8. CASE list[m].cols # list[n].cols
    <3>1. Clash(n, m)
      BY <2>5, <2>8 DEF Clash, Misaligned, ShareColumns, ColumnHash
    <3> QED BY <2>1, <3>1
  <2> QED BY <2>7, <2>8
<1> QED BY <1>1, <1>2 DEF ConflictsOf
-----------------------------------------------------------------------------
(* Components *)

LEMMA ComponentIs ==
    ASSUME list \in Lists, NEW n \in Indexes
    PROVE  /\ n \in Components[n] /\ Components[n] \subseteq Indexes
           /\ \A m \in Indexes : m \in Components[n] <=> ItemAt(m) \in GroupOf(ItemAt(n), Items)
           /\ \A m \in Components[n] : \A k \in Indexes : Clash(m, k) => k \in Components[n]
<1>1. Components[n] = {m \in Indexes : ItemAt(m) \in GroupOf(ItemAt(n), Items)}
  BY DEF Components, Items
<1>2. ItemAt(n) \in Items
  BY DEF Items
<1>3. /\ ItemAt(n) \in GroupOf(ItemAt(n), Items)
      /\ \A j \in GroupOf(ItemAt(n), Items), k \in Items :
           InConflict(j, k) => k \in GroupOf(ItemAt(n), Items)
  BY <1>2, GroupClosed
<1>4. ASSUME NEW m \in Components[n], NEW k \in Indexes, Clash(m, k)
      PROVE  k \in Components[n]
  <2>1. m \in Indexes /\ ItemAt(m) \in GroupOf(ItemAt(n), Items)
    BY <1>1
  <2>2. InConflict(ItemAt(m), ItemAt(k)) /\ ItemAt(k) \in Items
    BY <2>1, <1>4, ItemsOfList DEF Items
  <2> QED BY <2>1, <2>2, <1>1, <1>3
<1> QED BY <1>1, <1>3, <1>4

LEMMA ComponentUnique ==
    ASSUME list \in Lists, NEW n \in Indexes, NEW m \in Components[n]
    PROVE  Components[m] = Components[n]
<1>1. m \in Indexes /\ ItemAt(m) \in GroupOf(ItemAt(n), Items) /\ ItemAt(n) \in Items
  BY ComponentIs DEF Items
<1>2. \A i \in Items : Proper(i)
  BY ItemsOfList
<1>3. GroupOf(ItemAt(m), Items) = GroupOf(ItemAt(n), Items)
  BY <1>1, <1>2, GroupUnique
<1>4. Components[m] = {k \in Indexes : ItemAt(k) \in GroupOf(ItemAt(m), Items)}
  BY <1>1 DEF Components, Items
<1>5. Components[n] = {k \in Indexes : ItemAt(k) \in GroupOf(ItemAt(n), Items)}
  BY DEF Components, Items
<1> QED BY <1>3, <1>4, <1>5

(* A set of chunks that holds what it conflicts with holds the components of *)
(* its chunks.                                                               *)
LEMMA ComponentLeast ==
    ASSUME list \in Lists, NEW n \in Indexes, NEW T \in SUBSET Indexes, n \in T,
           \A m \in T : \A k \in Indexes : Clash(m, k) => k \in T
    PROVE  Components[n] \subseteq T
<1> DEFINE U == {ItemAt(k) : k \in T}
<1>1. U \in SUBSET Items /\ ItemAt(n) \in U /\ ItemAt(n) \in Items
  BY DEF Items
<1>2. ASSUME NEW j \in U, NEW i \in Items, InConflict(j, i)
      PROVE  i \in U
  <2>1. PICK m \in T : j = ItemAt(m)
    OBVIOUS
  <2>2. PICK k \in Indexes : i = ItemAt(k)
    BY DEF Items
  <2>3. Clash(m, k)
    BY <1>2, <2>1, <2>2, ItemsOfList
  <2> QED BY <2>1, <2>2, <2>3
<1>3. GroupOf(ItemAt(n), Items) \subseteq U
  BY <1>1, <1>2, GroupLeast
<1>4. ASSUME NEW m \in Components[n]
      PROVE  m \in T
  <2>1. m \in Indexes /\ ItemAt(m) \in U
    BY <1>3, ComponentIs
  <2>2. PICK k \in T : ItemAt(m) = ItemAt(k)
    BY <2>1
  <2>3. m = k
    BY <2>1, <2>2, ItemsOfList
  <2> QED BY <2>3
<1> QED BY <1>4

LEMMA ConflictsInComponent ==
    ASSUME list \in Lists, NEW n \in Indexes
    PROVE  /\ ConflictsOf(n) \subseteq Components[n]
           /\ ConflictsOf(n) # {} <=> \E m \in Indexes : Clash(n, m)
<1>1. ASSUME NEW m \in ConflictsOf(n)
      PROVE  m \in Components[n]
  <2>1. m \in Indexes
    BY ConflictsMean
  <2>2. CASE Clash(n, m)
    BY <2>1, <2>2, ComponentIs
  <2>3. CASE \E k \in Indexes : Clash(n, k) /\ (m = n \/ Clash(k, m))
    <3>1. PICK k \in Indexes : Clash(n, k) /\ (m = n \/ Clash(k, m))
      BY <2>3
    <3>2. k \in Components[n]
      BY <3>1, ComponentIs
    <3> QED BY <2>1, <3>1, <3>2, ComponentIs
  <2> QED BY <2>2, <2>3, ConflictsMean
<1>2. (\E m \in Indexes : Clash(n, m)) => ConflictsOf(n) # {}
  BY ConflictsFound
<1>3. ConflictsOf(n) # {} => \E m \in Indexes : Clash(n, m)
  BY ConflictsMean
<1> QED BY <1>1, <1>2, <1>3

(* The groups of the definition are the components of the chunks in conflict. *)
LEMMA ReferenceIs ==
    ASSUME list \in Lists
    PROVE  Reference = {Components[n] : n \in {k \in Indexes : ConflictsOf(k) # {}}}
<1> DEFINE Of(i) == {j.chunk.dir : j \in GroupOf(i, Items)}
<1>1. ASSUME NEW n \in Indexes
      PROVE  Components[n] = Of(ItemAt(n))
  <2>1. GroupOf(ItemAt(n), Items) \subseteq Items
    BY DEF GroupOf
  <2>2. \A m : ItemAt(m).chunk.dir = m
    BY DEF ItemAt
  <2>3. ASSUME NEW x \in Of(ItemAt(n)) PROVE x \in Components[n]
    <3>1. PICK j \in GroupOf(ItemAt(n), Items) : x = j.chunk.dir
      OBVIOUS
    <3>2. PICK m \in Indexes : j = ItemAt(m)
      BY <2>1 DEF Items
    <3> QED BY <2>2, <3>1, <3>2, ComponentIs
  <2>4. ASSUME NEW x \in Components[n] PROVE x \in Of(ItemAt(n))
    <3>1. ItemAt(x) \in GroupOf(ItemAt(n), Items)
      BY ComponentIs
    <3> QED BY <2>2, <3>1
  <2> QED BY <2>3, <2>4
<1>2. ConflictGroups(Items)
        = {GroupOf(i, Items) : i \in {j \in Items : \E k \in Items : InConflict(j, k)}}
  BY DEF ConflictGroups
<1>3. \A n \in Indexes : ConflictsOf(n) # {} <=> \E k \in Items : InConflict(ItemAt(n), k)
  BY ConflictsInComponent, ItemsOfList DEF Items
<1>4. Reference = {{j.chunk.dir : j \in g} : g \in ConflictGroups(Items)}
  BY DEF Reference, Items
<1>5. \A r \in Reference : \E n \in Indexes : ConflictsOf(n) # {} /\ r = Of(ItemAt(n))
  <2> SUFFICES ASSUME NEW r \in Reference
               PROVE  \E n \in Indexes : ConflictsOf(n) # {} /\ r = Of(ItemAt(n))
    OBVIOUS
  <2>1. PICK g \in ConflictGroups(Items) : r = {j.chunk.dir : j \in g}
    BY <1>4
  <2>2. PICK i \in Items : (\E k \in Items : InConflict(i, k)) /\ g = GroupOf(i, Items)
    BY <1>2, <2>1
  <2>3. PICK n \in Indexes : i = ItemAt(n)
    BY DEF Items
  <2> QED BY <1>3, <2>1, <2>2, <2>3
<1>6. \A n \in Indexes : ConflictsOf(n) # {} => Of(ItemAt(n)) \in Reference
  <2> SUFFICES ASSUME NEW n \in Indexes, ConflictsOf(n) # {}
               PROVE  Of(ItemAt(n)) \in Reference
    OBVIOUS
  <2>1. ItemAt(n) \in Items /\ \E k \in Items : InConflict(ItemAt(n), k)
    BY <1>3 DEF Items
  <2>2. GroupOf(ItemAt(n), Items) \in ConflictGroups(Items)
    BY <1>2, <2>1
  <2> QED BY <1>4, <2>2
<1> HIDE DEF Of
<1> QED BY <1>1, <1>5, <1>6
-----------------------------------------------------------------------------
(* The loop *)

(* Nothing but the loop's own variables changes.                             *)
LEMMA ListKeepsAll ==
    ASSUME list' = list
    PROVE  /\ Indexes' = Indexes /\ MixedKinds' = MixedKinds /\ Components' = Components
           /\ Reference' = Reference /\ \A k : ConflictsOf(k)' = ConflictsOf(k)
<1>1. Sharing' = Sharing /\ Indexes' = Indexes
  BY DEF Sharing, Forward, Backward, Repeats, AllCols, Indexes
<1>2. MixedKinds' = MixedKinds
  BY <1>1 DEF MixedKinds, AllCols
<1>3. \A k : ConflictsOf(k)' = ConflictsOf(k)
  BY <1>1 DEF ConflictsOf, MisalignedWith, HashesOf, Overlapping, Potential, AllCols
<1>4. Components' = Components
  BY <1>1 DEF Components, ItemAt
<1>5. Reference' = Reference
  BY <1>1 DEF Reference, ItemAt
<1> QED BY <1>1, <1>2, <1>3, <1>4, <1>5

LEMMA GroupingInit == Init => GroupingInv
BY DEF Init, GroupingInv, ListKept, KindsDecide, Accounted, KeysToVisit, Growing

LEMMA GroupingPasses == GroupingInv /\ Passes => GroupingInv'
<1> SUFFICES ASSUME GroupingInv, Passes PROVE GroupingInv'
  OBVIOUS
<1>1. list' = list /\ list \in Lists /\ pc = "passes" /\ groups' = groups
  BY DEF GroupingInv, ListKept, Passes
<1>2. CASE MixedKinds # {}
  <2>1. pc' = "refused"
    BY <1>2 DEF Passes
  <2> QED BY <1>1, <1>2, <2>1, ListKeepsAll
          DEF GroupingInv, ListKept, KindsDecide, Accounted, KeysToVisit, Growing
<1>3. CASE MixedKinds = {}
  <2>1. /\ pc' = "outer" /\ outer' = DOMAIN direct'
        /\ direct' = [n \in {m \in Indexes : ConflictsOf(m) # {}} |-> ConflictsOf(n)]
    BY <1>3 DEF Passes
  <2>2. groups' = {}
    BY <1>1 DEF GroupingInv, ListKept
  <2>3. Accounted'
    BY <1>1, <2>1, <2>2, ListKeepsAll DEF Accounted
  <2> QED BY <1>1, <1>3, <2>1, <2>3, ListKeepsAll
          DEF GroupingInv, ListKept, KindsDecide, KeysToVisit, Growing
<1> QED BY <1>2, <1>3

(* The unprimed invariant, once the passes are over.                         *)
LEMMA InLoop ==
    ASSUME GroupingInv, pc \in {"outer", "inner", "done"}
    PROVE  /\ list \in Lists /\ MixedKinds = {} /\ groups \subseteq Reference
           /\ \A k \in DOMAIN direct : /\ k \in Indexes /\ direct[k] = ConflictsOf(k)
                                       /\ ConflictsOf(k) # {} /\ k \notin UNION groups
           /\ \A k \in Indexes \ DOMAIN direct :
                ConflictsOf(k) # {} =>
                  \/ Components[k] \in groups
                  \/ pc = "inner" /\ k \in Components[current] /\ ConflictsOf(k) \subseteq group
BY DEF GroupingInv, ListKept, KindsDecide, Accounted

LEMMA GroupingOuter == ASSUME NEW n \in outer PROVE GroupingInv /\ Outer(n) => GroupingInv'
<1> SUFFICES ASSUME GroupingInv, Outer(n) PROVE GroupingInv'
  OBVIOUS
<1>1. /\ list' = list /\ direct' = direct /\ groups' = groups
      /\ pc = "outer" /\ outer' = outer \ {n}
  BY DEF Outer
<1>2. DOMAIN direct \subseteq outer
  BY <1>1 DEF GroupingInv, KeysToVisit
<1>3. CASE n \notin DOMAIN direct
  <2>1. pc' = "outer" /\ DOMAIN direct' \subseteq outer'
    BY <1>1, <1>2, <1>3 DEF Outer
  <2>2. Accounted'
    BY <1>1, <2>1, InLoop, ListKeepsAll DEF Accounted
  <2> QED BY <1>1, <2>1, <2>2, InLoop, ListKeepsAll
          DEF GroupingInv, ListKept, KindsDecide, KeysToVisit, Growing
<1>4. CASE n \in DOMAIN direct
  <2>1. /\ pc' = "inner" /\ current' = n /\ again' = FALSE
        /\ group' = direct[n] /\ inner' = direct[n]
    BY <1>1, <1>4 DEF Outer
  <2>2. /\ n \in Indexes /\ direct[n] = ConflictsOf(n) /\ n \notin UNION groups
        /\ list \in Lists
    BY <1>1, <1>4, InLoop
  <2>3. Accounted'
    <3>1. ASSUME NEW k \in Indexes \ DOMAIN direct, ConflictsOf(k) # {}
          PROVE  Components[k] \in groups
      BY <1>1, <3>1, InLoop
    <3> QED BY <1>1, <2>1, <3>1, InLoop, ListKeepsAll DEF Accounted
  <2>4. Growing'
    <3>1. direct[n] \subseteq Components[n]
      BY <2>2, ConflictsInComponent
    <3> QED BY <1>1, <1>4, <2>1, <2>2, <3>1, ListKeepsAll DEF Growing
  <2>5. DOMAIN direct' \subseteq outer' \cup {current'}
    BY <1>1, <1>2, <2>1
  <2> QED BY <1>1, <2>1, <2>3, <2>4, <2>5, InLoop, ListKeepsAll
          DEF GroupingInv, ListKept, KindsDecide, KeysToVisit
<1> QED BY <1>3, <1>4

LEMMA GroupingInner == ASSUME NEW m \in inner PROVE GroupingInv /\ Inner(m) => GroupingInv'
<1> SUFFICES ASSUME GroupingInv, Inner(m) PROVE GroupingInv'
  OBVIOUS
<1>1. /\ list' = list /\ pc = "inner" /\ pc' = "inner" /\ outer' = outer
      /\ current' = current /\ groups' = groups /\ inner' = inner \ {m}
  BY DEF Inner, GroupingInv, ListKept
<1>2. /\ current \in DOMAIN direct /\ ConflictsOf(current) \subseteq group
      /\ inner \subseteq group /\ group \subseteq Components[current]
      /\ again \in BOOLEAN
      /\ ~again => \A j \in group \ inner : j = current \/ j \notin DOMAIN direct
      /\ DOMAIN direct \subseteq outer \cup {current}
  BY <1>1 DEF GroupingInv, Growing, KeysToVisit
<1>3. list \in Lists /\ current \in Indexes
  BY <1>1, <1>2, InLoop
<1>4. CASE m = current \/ m \notin DOMAIN direct
  <2>1. group' = group /\ direct' = direct /\ again' = again
    BY <1>4 DEF Inner
  <2>2. Accounted'
    BY <1>1, <2>1, InLoop, ListKeepsAll DEF Accounted
  <2>3. Growing' /\ KeysToVisit'
    BY <1>1, <1>2, <1>4, <2>1, ListKeepsAll DEF Growing, KeysToVisit
  <2> QED BY <1>1, <2>2, <2>3, InLoop, ListKeepsAll
          DEF GroupingInv, ListKept, KindsDecide
<1>5. CASE m # current /\ m \in DOMAIN direct
  <2>1. /\ group' = group \cup direct[m] /\ again' = TRUE
        /\ direct' = [k \in DOMAIN direct \ {m} |-> direct[k]]
    BY <1>5 DEF Inner
  <2>2. direct[m] = ConflictsOf(m) /\ m \in Components[current] /\ m \in Indexes
    BY <1>1, <1>2, <1>5, InLoop
  <2>3. Components[m] = Components[current]
    BY <1>3, <2>2, ComponentUnique
  <2>4. group' \subseteq Components[current]
    BY <1>2, <1>3, <2>1, <2>2, <2>3, ConflictsInComponent
  <2>5. Accounted'
    <3>1. ASSUME NEW k \in DOMAIN direct'
          PROVE  /\ k \in Indexes /\ direct'[k] = ConflictsOf(k)
                 /\ ConflictsOf(k) # {} /\ k \notin UNION groups
      <4>1. k \in DOMAIN direct /\ direct'[k] = direct[k]
        BY <2>1
      <4> QED BY <1>1, <4>1, InLoop
    <3>2. ASSUME NEW k \in Indexes \ DOMAIN direct', ConflictsOf(k) # {}
          PROVE  \/ Components[k] \in groups
                 \/ k \in Components[current] /\ ConflictsOf(k) \subseteq group'
      <4>1. CASE k = m
        BY <2>1, <2>2, <4>1
      <4>2. CASE k # m
        <5>1. k \in Indexes \ DOMAIN direct
          BY <2>1, <4>2
        <5> QED BY <1>1, <2>1, <3>2, <5>1, InLoop
      <4> QED BY <4>1, <4>2
    <3> QED BY <1>1, <3>1, <3>2, InLoop, ListKeepsAll DEF Accounted
  <2>6. Growing' /\ KeysToVisit'
    BY <1>1, <1>2, <1>5, <2>1, <2>4, ListKeepsAll DEF Growing, KeysToVisit
  <2> QED BY <1>1, <2>5, <2>6, InLoop, ListKeepsAll
          DEF GroupingInv, ListKept, KindsDecide
<1> QED BY <1>4, <1>5

LEMMA GroupingSweep == GroupingInv /\ Sweep => GroupingInv'
<1> SUFFICES ASSUME GroupingInv, Sweep PROVE GroupingInv'
  OBVIOUS
<1>1. /\ list' = list /\ pc = "inner" /\ pc' = "inner" /\ outer' = outer /\ direct' = direct
      /\ current' = current /\ groups' = groups /\ group' = group
      /\ inner' = group /\ again' = FALSE
  BY DEF Sweep
<1>2. Accounted'
  BY <1>1, InLoop, ListKeepsAll DEF Accounted
<1>3. Growing' /\ KeysToVisit'
  BY <1>1, ListKeepsAll DEF GroupingInv, Growing, KeysToVisit
<1> QED BY <1>1, <1>2, <1>3, InLoop, ListKeepsAll DEF GroupingInv, ListKept, KindsDecide

(* A group that is closed is the component of its first chunk: it does not   *)
(* leave it, and it holds all that any of its chunks conflicts with.         *)
LEMMA GroupComplete ==
    ASSUME GroupingInv, pc = "inner", inner = {}, ~again
    PROVE  current \in Indexes /\ ConflictsOf(current) # {} /\ group = Components[current]
<1>1. /\ current \in DOMAIN direct /\ ConflictsOf(current) \subseteq group
      /\ group \subseteq Components[current]
      /\ \A m \in group : m = current \/ m \notin DOMAIN direct
  BY DEF GroupingInv, Growing
<1>2. list \in Lists /\ current \in Indexes /\ ConflictsOf(current) # {}
  BY <1>1, InLoop
<1>3. Components[current] \subseteq Indexes
  BY <1>2, ComponentIs
<1>4. ASSUME NEW m \in group
      PROVE  ConflictsOf(m) \subseteq group
  <2>1. CASE m = current
    BY <1>1, <2>1
  <2>2. CASE m # current
    <3>1. m \in Indexes \ DOMAIN direct /\ Components[m] = Components[current]
      BY <1>1, <1>2, <1>3, <2>2, ComponentUnique
    <3>2. Components[current] \notin groups
      BY <1>1, <1>2, InLoop, ComponentIs
    <3> QED BY <3>1, <3>2, InLoop
  <2> QED BY <2>1, <2>2
<1>5. \A m \in group : \A k \in Indexes : Clash(m, k) => k \in group
  BY <1>1, <1>2, <1>3, <1>4, ConflictsFound
<1>6. current \in group
  <2>1. PICK m \in Indexes : Clash(current, m)
    BY <1>2, ConflictsInComponent
  <2>2. m \in group
    BY <1>1, <1>2, <2>1, ConflictsFound
  <2> QED BY <1>2, <1>5, <2>1, <2>2, ClashSymmetric
<1>7. Components[current] \subseteq group
  BY <1>1, <1>2, <1>3, <1>5, <1>6, ComponentLeast
<1> QED BY <1>1, <1>2, <1>7

LEMMA GroupingClose == GroupingInv /\ CloseGroup => GroupingInv'
<1> SUFFICES ASSUME GroupingInv, CloseGroup PROVE GroupingInv'
  OBVIOUS
<1>1. /\ list' = list /\ pc = "inner" /\ pc' = "outer" /\ outer' = outer
      /\ inner = {} /\ ~again
      /\ direct' = [k \in DOMAIN direct \ {current} |-> direct[k]]
      /\ groups' = groups \cup {group}
  BY DEF CloseGroup
<1>2. /\ current \in Indexes /\ ConflictsOf(current) # {} /\ group = Components[current]
      /\ list \in Lists
  BY <1>1, GroupComplete, InLoop
<1>3. groups' \subseteq Reference
  BY <1>1, <1>2, InLoop, ReferenceIs
<1>4. ASSUME NEW k \in DOMAIN direct'
      PROVE  /\ k \in Indexes /\ direct'[k] = ConflictsOf(k)
             /\ ConflictsOf(k) # {} /\ k \notin UNION groups'
  <2>1. k \in DOMAIN direct /\ direct'[k] = direct[k] /\ k # current
    BY <1>1
  <2>2. k \notin group
    BY <1>1, <2>1 DEF GroupingInv, Growing
  <2> QED BY <1>1, <2>1, <2>2, InLoop
<1>5. ASSUME NEW k \in Indexes \ DOMAIN direct', ConflictsOf(k) # {}
      PROVE  Components[k] \in groups'
  <2>1. CASE k = current
    BY <1>1, <1>2, <2>1
  <2>2. CASE k # current
    <3>1. k \in Indexes \ DOMAIN direct
      BY <1>1, <2>2
    <3>2. Components[k] \in groups \/ Components[k] = Components[current]
      BY <1>1, <1>2, <1>5, <3>1, InLoop, ComponentUnique
    <3> QED BY <1>1, <1>2, <3>2
  <2> QED BY <2>1, <2>2
<1>6. Accounted'
  BY <1>1, <1>3, <1>4, <1>5, ListKeepsAll DEF Accounted
<1>7. KeysToVisit'
  <2>1. DOMAIN direct \subseteq outer \cup {current}
    BY <1>1 DEF GroupingInv, KeysToVisit
  <2> QED BY <1>1, <2>1 DEF KeysToVisit
<1> QED BY <1>1, <1>6, <1>7, InLoop, ListKeepsAll
       DEF GroupingInv, ListKept, KindsDecide, Growing

LEMMA GroupingFinish == GroupingInv /\ Finish => GroupingInv'
<1> SUFFICES ASSUME GroupingInv, Finish PROVE GroupingInv'
  OBVIOUS
<1>1. /\ list' = list /\ pc = "outer" /\ pc' = "done" /\ outer = {} /\ direct' = direct
      /\ groups' = groups
  BY DEF Finish
<1>2. Accounted'
  BY <1>1, InLoop, ListKeepsAll DEF Accounted
<1>3. KeysToVisit'
  BY <1>1 DEF GroupingInv, KeysToVisit
<1> QED BY <1>1, <1>2, <1>3, InLoop, ListKeepsAll
       DEF GroupingInv, ListKept, KindsDecide, Growing

(* The invariant of the grouping loop, for every list and every order: what  *)
(* left the dictionary has been followed.                                    *)
THEOREM GroupingInvariance == Spec => []GroupingInv
<1>1. GroupingInv /\ UNCHANGED vars => GroupingInv'
  <2> SUFFICES ASSUME GroupingInv, UNCHANGED vars PROVE GroupingInv'
    OBVIOUS
  <2>1. /\ list' = list /\ pc' = pc /\ direct' = direct /\ outer' = outer
        /\ current' = current /\ group' = group /\ inner' = inner /\ again' = again
        /\ groups' = groups
    BY DEF vars
  <2> QED BY <2>1, ListKeepsAll
          DEF GroupingInv, ListKept, KindsDecide, Accounted, KeysToVisit, Growing
<1>2. GroupingInv /\ [Next]_vars => GroupingInv'
  BY <1>1, GroupingPasses, GroupingOuter, GroupingInner, GroupingSweep, GroupingClose,
     GroupingFinish DEF Next
<1> QED BY <1>2, GroupingInit, PTL DEF Spec

(* The groups find_conflicts returns are the components of the conflicts     *)
(* among the chunks.                                                         *)
THEOREM GroupsProved == Spec => []GroupsAreComponents
<1>1. GroupingInv => GroupsAreComponents
  <2> SUFFICES ASSUME GroupingInv, pc = "done" PROVE groups = Reference
    BY DEF GroupsAreComponents
  <2>1. DOMAIN direct = {} /\ groups \subseteq Reference /\ list \in Lists
    BY InLoop DEF GroupingInv, KeysToVisit
  <2>2. ASSUME NEW r \in Reference PROVE r \in groups
    <3>1. PICK n \in Indexes : ConflictsOf(n) # {} /\ r = Components[n]
      BY <2>1, ReferenceIs
    <3> QED BY <2>1, <3>1, InLoop
  <2> QED BY <2>1, <2>2
<1> QED BY <1>1, GroupingInvariance, PTL

(* A list is refused exactly when a column has values of several kinds.      *)
THEOREM RefusalProved == Spec => []RefusedOnMixedKinds
<1>1. GroupingInv => RefusedOnMixedKinds
  <2> SUFFICES ASSUME GroupingInv PROVE RefusedOnMixedKinds
    OBVIOUS
  <2>1. list \in Lists /\ KindsDecide
    BY DEF GroupingInv, ListKept
  <2> QED BY <2>1, MixedKindsMeans DEF RefusedOnMixedKinds, KindsDecide, Shares
<1> QED BY <1>1, GroupingInvariance, PTL
-----------------------------------------------------------------------------
(* One round is enough *)

(* What merging a group gives: its columns, from the least to the greatest   *)
(* of the ends of its chunks.                                                *)
LEMMA MergedIs ==
    ASSUME list \in Lists, NEW g \in SUBSET Indexes, g # {}
    PROVE  /\ Merged(g).cols = UNION {list[n].cols : n \in g}
           /\ \E n \in g : Merged(g).first = list[n].first
           /\ \E n \in g : Merged(g).last = list[n].last
           /\ \A n \in g : Merged(g).first =< list[n].first /\ list[n].last =< Merged(g).last
<1> DEFINE F == {list[n].first : n \in g}
           L == {list[n].last : n \in g}
           f == [n \in g |-> list[n].first]
           l == [n \in g |-> list[n].last]
<1>1. IsFiniteSet(g) /\ F \subseteq Int /\ L \subseteq Int /\ F # {} /\ L # {}
  BY ListFields, FS_Subset
<1>2. f \in Surjection(g, F) /\ l \in Surjection(g, L)
  BY DEF Surjection
<1> HIDE DEF F, L, f, l
<1>3. IsFiniteSet(F) /\ IsFiniteSet(L)
  BY <1>1, <1>2, FS_Surjection
<1>4. /\ \E x \in F : \A y \in F : x =< y
      /\ \E x \in L : \A y \in L : x >= y
  BY <1>1, <1>3, BoundsExist
<1>5. Min(F) \in F /\ \A y \in F : Min(F) =< y
  BY <1>4 DEF Min
<1>6. Max(L) \in L /\ \A y \in L : Max(L) >= y
  BY <1>4 DEF Max
<1>7. Merged(g).cols = AllCols(g) /\ Merged(g).first = Min(F) /\ Merged(g).last = Max(L)
  BY DEF Merged, F, L
<1>8. \A y \in L : y \in Int
  BY <1>1
<1> QED BY ZenonT(60), <1>5, <1>6, <1>7, <1>8 DEF F, L, AllCols

(* Two ranges that do not meet, of one column set, do not conflict, nor do   *)
(* two that share no column.                                                 *)
LEMMA SidesDoNotConflict ==
    ASSUME NEW m, NEW n,
           \/ ~ShareColumns(m, n)
           \/ m.cols = n.cols /\ (m.last < n.first \/ n.last < m.first),
           m.first \in Int, m.last \in Int, n.first \in Int, n.last \in Int
    PROVE  ~OverlapWith(m, n) /\ ~Misaligned(m, n)
BY DEF OverlapWith, Misaligned, IndexOverlap, ColumnHash

(* A group as the indexes of its chunks.                                     *)
LEMMA GroupIndexes ==
    ASSUME list \in Lists, NEW g \in Reference
    PROVE  \E G \in ConflictGroups(Items) :
              /\ g \in SUBSET Indexes /\ g # {}
              /\ \A n \in g : ItemAt(n) \in G
              /\ g = {i.chunk.dir : i \in G}
              /\ \A i \in G : \E n \in g : i = ItemAt(n)
<1>1. PICK G \in ConflictGroups(Items) : g = {i.chunk.dir : i \in G}
  BY DEF Reference, Items
<1>2. G \subseteq Items
  BY GroupsType
<1>3. \A n : ItemAt(n).chunk.dir = n
  BY DEF ItemAt
<1>4. \A i \in G : i.chunk.dir \in g /\ i.chunk.dir \in Indexes /\ i = ItemAt(i.chunk.dir)
  BY <1>1, <1>2, <1>3 DEF Items
<1>5. \A n \in g : ItemAt(n) \in G /\ n \in Indexes
  BY <1>1, <1>4
<1>6. g # {}
  <2>1. PICK n \in Indexes : g = Components[n]
    BY ReferenceIs
  <2> QED BY <2>1, ComponentIs
<1> QED BY <1>1, <1>4, <1>5, <1>6

(* Two merged groups do not conflict. *)
LEMMA MergedDoNotConflict ==
    ASSUME list \in Lists, NEW g \in Reference, NEW h \in Reference, g # h
    PROVE  ~OverlapWith(Merged(g), Merged(h)) /\ ~Misaligned(Merged(g), Merged(h))
<1>1. PICK G \in ConflictGroups(Items) :
              /\ g \in SUBSET Indexes /\ g # {}
              /\ \A n \in g : ItemAt(n) \in G
              /\ g = {i.chunk.dir : i \in G}
  BY GroupIndexes
<1>2. PICK H \in ConflictGroups(Items) :
              /\ h \in SUBSET Indexes /\ h # {}
              /\ \A n \in h : ItemAt(n) \in H
              /\ h = {i.chunk.dir : i \in H}
  BY GroupIndexes
<1>3. G # H
  BY <1>1, <1>2
<1>4. \A n : ItemAt(n).chunk.meta = list[n]
  BY DEF ItemAt
<1>5. \/ \A x \in g, y \in h : ~ShareColumns(list[x], list[y])
      \/ \A x \in g, y \in h : list[x].cols = list[y].cols /\ list[x].last < list[y].first
      \/ \A x \in g, y \in h : list[x].cols = list[y].cols /\ list[y].last < list[x].first
  <2>1. \A i \in Items : Proper(i)
    BY ItemsOfList
  <2>2. \/ \A x \in G, k \in H : ~ShareColumns(x.chunk.meta, k.chunk.meta)
        \/ \A x \in G, k \in H : /\ x.chunk.meta.cols = k.chunk.meta.cols
                                 /\ x.chunk.meta.last < k.chunk.meta.first
        \/ \A x \in G, k \in H : /\ x.chunk.meta.cols = k.chunk.meta.cols
                                 /\ k.chunk.meta.last < x.chunk.meta.first
    BY <1>3, <2>1, GroupsSided
  <2> QED BY SMTT(40), <1>1, <1>2, <1>4, <2>2
<1> DEFINE m == Merged(g)
           n == Merged(h)
<1>6. /\ m.cols = UNION {list[x].cols : x \in g}
      /\ \E x \in g : m.first = list[x].first
      /\ \E x \in g : m.last = list[x].last
  BY <1>1, MergedIs
<1>7. /\ n.cols = UNION {list[x].cols : x \in h}
      /\ \E x \in h : n.first = list[x].first
      /\ \E x \in h : n.last = list[x].last
  BY <1>2, MergedIs
<1> HIDE DEF m, n
<1>8. m.first \in Int /\ m.last \in Int /\ n.first \in Int /\ n.last \in Int
  BY <1>1, <1>2, <1>6, <1>7, ListFields
<1>9. CASE \A x \in g, y \in h : ~ShareColumns(list[x], list[y])
  <2>1. ~ShareColumns(m, n)
    BY <1>6, <1>7, <1>9 DEF ShareColumns
  <2> QED BY <1>8, <2>1, SidesDoNotConflict DEF m, n
<1>10. CASE \A x \in g, y \in h : list[x].cols = list[y].cols /\ list[x].last < list[y].first
  <2>1. m.cols = n.cols /\ m.last < n.first
    BY <1>1, <1>2, <1>6, <1>7, <1>10
  <2> QED BY <1>8, <2>1, SidesDoNotConflict DEF m, n
<1>11. CASE \A x \in g, y \in h : list[x].cols = list[y].cols /\ list[y].last < list[x].first
  <2>1. m.cols = n.cols /\ n.last < m.first
    BY <1>1, <1>2, <1>6, <1>7, <1>11
  <2> QED BY <1>8, <2>1, SidesDoNotConflict DEF m, n
<1> QED BY <1>5, <1>9, <1>10, <1>11

(* Nor does one with a chunk that is in no group. *)
LEMMA KeptDoNotConflict ==
    ASSUME list \in Lists, NEW g \in Reference, NEW k \in Indexes \ UNION Reference
    PROVE  ~OverlapWith(list[k], Merged(g)) /\ ~Misaligned(list[k], Merged(g))
<1>1. PICK G \in ConflictGroups(Items) :
              /\ g \in SUBSET Indexes /\ g # {}
              /\ \A n \in g : ItemAt(n) \in G
              /\ \A i \in G : \E n \in g : i = ItemAt(n)
  BY GroupIndexes
<1>2. \A n : ItemAt(n).chunk.meta = list[n]
  BY DEF ItemAt
<1>3. \A i \in Items : Proper(i)
  BY ItemsOfList
<1>4. k \notin g /\ ItemAt(k) \in Items /\ ItemAt(k) \notin G
  BY <1>1, ItemsOfList DEF Items
<1>5. \A j \in G : ~InConflict(j, ItemAt(k))
  BY <1>4, GroupsApartFromOthers
<1>6. \/ \A x \in g : ~ShareColumns(list[x], list[k])
      \/ \A x \in g : list[x].cols = list[k].cols /\ list[x].last < list[k].first
      \/ \A x \in g : list[x].cols = list[k].cols /\ list[k].last < list[x].first
  <2> DEFINE i == ItemAt(k)
  <2>1. i \notin G /\ Proper(i) /\ (\A j \in G : ~InConflict(j, i)) /\ i.chunk.meta = list[k]
    BY <1>2, <1>3, <1>4, <1>5
  <2> HIDE DEF i
  <2>2. \/ \A j \in G : ~ShareColumns(j.chunk.meta, i.chunk.meta)
        \/ \A j \in G : /\ j.chunk.meta.cols = i.chunk.meta.cols
                        /\ j.chunk.meta.last < i.chunk.meta.first
        \/ \A j \in G : /\ j.chunk.meta.cols = i.chunk.meta.cols
                        /\ i.chunk.meta.last < j.chunk.meta.first
    BY <1>3, <2>1, OneSide
  <2> QED BY <1>1, <1>2, <2>1, <2>2
<1> DEFINE m == Merged(g)
<1>7. /\ m.cols = UNION {list[x].cols : x \in g}
      /\ \E x \in g : m.first = list[x].first
      /\ \E x \in g : m.last = list[x].last
  BY <1>1, MergedIs
<1> HIDE DEF m
<1>8. m.first \in Int /\ m.last \in Int /\ list[k].first \in Int /\ list[k].last \in Int
  BY <1>1, <1>7, ListFields
<1>9. \/ ~ShareColumns(list[k], m)
      \/ list[k].cols = m.cols /\ (list[k].last < m.first \/ m.last < list[k].first)
  BY <1>1, <1>6, <1>7 DEF ShareColumns
<1> QED BY <1>8, <1>9, SidesDoNotConflict DEF m

(* A commit need not look for conflicts again once it has merged the groups: *)
(* none is left.                                                             *)
THEOREM OneRoundProved == Spec => []OneRoundIsEnough
<1>1. GroupingInv /\ GroupsAreComponents => OneRoundIsEnough
  <2> SUFFICES ASSUME GroupingInv, GroupsAreComponents, pc = "done" PROVE OneRoundIsEnough
    BY DEF OneRoundIsEnough
  <2>1. groups = Reference /\ list \in Lists
    BY InLoop DEF GroupsAreComponents
  <2> DEFINE kept   == {[chunk |-> [dir |-> n, meta |-> list[n]], old |-> FALSE] :
                          n \in Indexes \ UNION groups}
             merged == {[chunk |-> [dir |-> g, meta |-> Merged(g)], old |-> FALSE] :
                          g \in groups}
  <2>2. ASSUME NEW i \in kept, NEW j \in kept
        PROVE  ~InConflict(i, j)
    <3>1. PICK n \in Indexes \ UNION groups : i = ItemAt(n)
      BY DEF ItemAt
    <3>2. PICK m \in Indexes \ UNION groups : j = ItemAt(m)
      BY DEF ItemAt
    <3>3. ConflictsOf(n) = {}
      BY <2>1, <3>1, ReferenceIs, ComponentIs
    <3>4. ~Clash(n, m)
      BY <2>1, <3>3, ConflictsFound
    <3> QED BY <2>1, <3>1, <3>2, <3>4, ItemsOfList
  <2>3. ASSUME NEW i \in merged, NEW j \in merged
        PROVE  ~InConflict(i, j)
    <3>1. PICK g \in groups : i = [chunk |-> [dir |-> g, meta |-> Merged(g)], old |-> FALSE]
      OBVIOUS
    <3>2. PICK h \in groups : j = [chunk |-> [dir |-> h, meta |-> Merged(h)], old |-> FALSE]
      OBVIOUS
    <3>3. i # j => g # h
      BY <3>1, <3>2
    <3>4. i.chunk.meta = Merged(g) /\ j.chunk.meta = Merged(h)
      BY <3>1, <3>2
    <3> QED BY <2>1, <3>3, <3>4, MergedDoNotConflict DEF InConflict
  <2>4. ASSUME NEW i \in kept, NEW j \in merged
        PROVE  ~OverlapWith(i.chunk.meta, j.chunk.meta) /\ ~Misaligned(i.chunk.meta, j.chunk.meta)
    <3>1. PICK n \in Indexes \ UNION groups : i.chunk.meta = list[n]
      OBVIOUS
    <3>2. PICK g \in groups : j.chunk.meta = Merged(g)
      OBVIOUS
    <3> QED BY <2>1, <3>1, <3>2, KeptDoNotConflict
  <2> HIDE DEF kept, merged
  <2>5. /\ \A i, j \in kept : ~InConflict(i, j)
        /\ \A i, j \in merged : ~InConflict(i, j)
        /\ \A i \in kept, j \in merged :
             ~OverlapWith(i.chunk.meta, j.chunk.meta) /\ ~Misaligned(i.chunk.meta, j.chunk.meta)
    BY <2>2, <2>3, <2>4
  <2> QED BY <2>5 DEF OneRoundIsEnough, kept, merged
<1> QED BY <1>1, GroupingInvariance, GroupsProved, PTL
=============================================================================
