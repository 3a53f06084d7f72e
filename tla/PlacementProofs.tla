--------------------------- MODULE PlacementProofs ---------------------------
(***************************************************************************)
(* Whatever the catalog lists, in any order, the locations of a class, the *)
(* candidates of a create and the comparison of a server with its class    *)
(* are exact.                                                              *)
(***************************************************************************)
EXTENDS Placement, FiniteSetTheorems, SequenceTheorems, TLAPS

(* A set in order. *)

\* R orders X: strictly, and any two of its elements.
Orders(R, X) ==
  /\ \A x \in X : <<x, x>> \notin R
  /\ \A x, y \in X : x = y \/ <<x, y>> \in R \/ <<y, x>> \in R
  /\ \A x, y, z \in X : <<x, y>> \in R /\ <<y, z>> \in R => <<x, z>> \in R

\* What comes before x.
Below(R, X, x) == {y \in X : <<y, x>> \in R}

\* s runs through X in the order R.
Enumerates(s, X, R) ==
  /\ \A n \in DOMAIN s : s[n] \in X
  /\ \A x \in X : \E n \in DOMAIN s : s[n] = x
  /\ \A m, n \in DOMAIN s : m < n => <<s[m], s[n]>> \in R

\* An element is preceded by fewer than there are, and by more than what precedes it.
LEMMA BelowGrows ==
  ASSUME NEW R, NEW X, IsFiniteSet(X), Orders(R, X)
  PROVE  \A x \in X :
           /\ IsFiniteSet(Below(R, X, x)) /\ Cardinality(Below(R, X, x)) \in Nat
           /\ Cardinality(Below(R, X, x)) < Cardinality(X)
           /\ \A y \in X : <<x, y>> \in R => Cardinality(Below(R, X, x)) < Cardinality(Below(R, X, y))
<1> SUFFICES ASSUME NEW x \in X
             PROVE  /\ IsFiniteSet(Below(R, X, x)) /\ Cardinality(Below(R, X, x)) \in Nat
                    /\ Cardinality(Below(R, X, x)) < Cardinality(X)
                    /\ \A y \in X : <<x, y>> \in R => Cardinality(Below(R, X, x)) < Cardinality(Below(R, X, y))
  OBVIOUS
<1>1. \A y \in X : Below(R, X, y) \in SUBSET X /\ y \notin Below(R, X, y)
  BY DEF Below, Orders
<1>2. \A y \in X : IsFiniteSet(Below(R, X, y)) /\ Cardinality(Below(R, X, y)) \in Nat
  BY <1>1, FS_Subset, FS_CardinalityType
<1>3. Cardinality(X) \in Nat
  BY FS_CardinalityType
<1> DEFINE B == Below(R, X, x)
           C == B \cup {x}
<1>4. IsFiniteSet(C) /\ Cardinality(C) = Cardinality(B) + 1
  BY <1>1, <1>2, FS_AddElement
<1>5. Cardinality(C) <= Cardinality(X)
  <2>1. C \in SUBSET X
    BY <1>1
  <2> QED BY <2>1, FS_Subset
<1>6. ASSUME NEW y \in X, <<x, y>> \in R PROVE Cardinality(C) <= Cardinality(Below(R, X, y))
  <2>1. C \in SUBSET Below(R, X, y)
    BY <1>6 DEF Below, Orders
  <2> QED BY <2>1, <1>2, FS_Subset
<1> HIDE DEF B, C
<1>7. Cardinality(B) \in Nat /\ Cardinality(B) < Cardinality(X)
  BY <1>2, <1>3, <1>4, <1>5 DEF B
<1>8. ASSUME NEW y \in X, <<x, y>> \in R PROVE Cardinality(B) < Cardinality(Below(R, X, y))
  BY <1>2, <1>4, <1>6, <1>7, <1>8
<1> QED BY <1>2, <1>7, <1>8 DEF B

\* InOrder runs through a finite set in its order.
LEMMA InOrderEnumerates ==
  ASSUME NEW R, NEW X, IsFiniteSet(X), Orders(R, X)
  PROVE  /\ Cardinality(X) \in Nat /\ DOMAIN InOrder(X, R) = 1 .. Cardinality(X)
         /\ Enumerates(InOrder(X, R), X, R)
<1> DEFINE card(x) == Cardinality(Below(R, X, x))
           rank == [x \in X |-> card(x) + 1]
           N == Cardinality(X)
           s == InOrder(X, R)
<1>1. N \in Nat
  BY FS_CardinalityType
<1>2. \A x \in X : card(x) \in Nat /\ card(x) < N
  BY BelowGrows
<1>3. \A x, y \in X : <<x, y>> \in R => card(x) < card(y)
  BY BelowGrows
<1>4. \A n \in 1 .. N : s[n] = CHOOSE x \in X : card(x) = n - 1
  BY DEF InOrder, Below
<1>5. DOMAIN s = 1 .. N
  BY DEF InOrder
<1> HIDE DEF card, N, s
<1>6. \A x, y \in X : card(x) = card(y) => x = y
  <2> SUFFICES ASSUME NEW x \in X, NEW y \in X, card(x) = card(y), x # y PROVE FALSE
    OBVIOUS
  <2>1. <<x, y>> \in R \/ <<y, x>> \in R
    BY DEF Orders
  <2>2. card(x) < card(y) \/ card(y) < card(x)
    BY <2>1, <1>3
  <2> QED BY <2>2, <1>2
<1>7. rank \in Injection(X, 1 .. N)
  <2>1. \A x \in X : rank[x] \in 1 .. N
    BY <1>1, <1>2
  <2>2. \A x, y \in X : rank[x] = rank[y] => x = y
    BY <1>2, <1>6
  <2> QED BY <2>1, <2>2 DEF Injection, IsInjective
<1>8. rank \in Surjection(X, 1 .. N)
  <2>1. IsFiniteSet(1 .. N) /\ Cardinality(1 .. N) = N
    <3>1. IsFiniteSet(1 .. N) /\ Cardinality(1 .. N) = IF 1 > N THEN 0 ELSE N - 1 + 1
      BY <1>1, FS_Interval
    <3> QED BY <1>1, <3>1
  <2> QED BY <1>7, <2>1, FS_Injection DEF N
<1>9. \A n \in 1 .. N : \E x \in X : card(x) = n - 1
  <2> SUFFICES ASSUME NEW n \in 1 .. N PROVE \E x \in X : card(x) = n - 1
    OBVIOUS
  <2>1. PICK x \in X : rank[x] = n
    BY <1>8 DEF Surjection
  <2> QED BY <2>1, <1>1, <1>2
<1>10. \A n \in 1 .. N : s[n] \in X /\ card(s[n]) = n - 1
  BY <1>4, <1>9
<1>11. \A x \in X : \E n \in 1 .. N : s[n] = x
  <2> SUFFICES ASSUME NEW x \in X PROVE \E n \in 1 .. N : s[n] = x
    OBVIOUS
  <2>1. card(x) + 1 \in 1 .. N /\ (card(x) + 1) - 1 = card(x)
    BY <1>1, <1>2
  <2> QED BY <2>1, <1>6, <1>10
<1>12. \A m, n \in 1 .. N : m < n => <<s[m], s[n]>> \in R
  <2> SUFFICES ASSUME NEW m \in 1 .. N, NEW n \in 1 .. N, m < n PROVE <<s[m], s[n]>> \in R
    OBVIOUS
  <2>1. card(s[m]) < card(s[n]) /\ s[m] \in X /\ s[n] \in X
    BY <1>1, <1>10
  <2>2. s[m] # s[n] /\ <<s[n], s[m]>> \notin R
    BY <2>1, <1>2, <1>3
  <2> QED BY <2>1, <2>2 DEF Orders
<1> QED BY <1>1, <1>5, <1>10, <1>11, <1>12 DEF N, s, Enumerates

\* There is no other way to run through a set in its order.
LEMMA EnumerationIsInOrder ==
  ASSUME NEW R, NEW X, Orders(R, X), NEW m \in Nat, NEW s, s = [n \in 1 .. m |-> s[n]], Enumerates(s, X, R)
  PROVE  IsFiniteSet(X) /\ s = InOrder(X, R)
<1> DEFINE card(x) == Cardinality(Below(R, X, x))
<1>1. DOMAIN s = 1 .. m /\ IsFiniteSet(1 .. m) /\ Cardinality(1 .. m) = m
  <2>1. IsFiniteSet(1 .. m) /\ Cardinality(1 .. m) = IF 1 > m THEN 0 ELSE m - 1 + 1
    BY FS_Interval
  <2> QED BY <2>1
<1>2. \A j, k \in 1 .. m : s[j] = s[k] => j = k
  <2> SUFFICES ASSUME NEW j \in 1 .. m, NEW k \in 1 .. m, s[j] = s[k], j # k PROVE FALSE
    OBVIOUS
  <2>1. j < k \/ k < j
    OBVIOUS
  <2> QED BY <2>1, <1>1 DEF Enumerates, Orders
<1>3. s \in Bijection(1 .. m, X)
  <2>1. s \in [1 .. m -> X]
    BY <1>1 DEF Enumerates
  <2>2. \A x \in X : \E n \in 1 .. m : s[n] = x
    BY <1>1 DEF Enumerates
  <2> QED BY <1>1, <1>2, <2>1, <2>2 DEF Bijection, Injection, Surjection, IsInjective
<1>4. IsFiniteSet(X) /\ Cardinality(X) = m
  BY <1>1, <1>3, FS_Bijection DEF ExistsBijection
<1>5. ASSUME NEW n \in 1 .. m PROVE card(s[n]) = n - 1
  <2> DEFINE t == [k \in 1 .. n - 1 |-> s[k]]
             B == Below(R, X, s[n])
  <2>1. \A k \in 1 .. n - 1 : k \in 1 .. m /\ k < n
    OBVIOUS
  <2>2. \A k \in 1 .. n - 1 : s[k] \in B
    BY <2>1, <1>1 DEF Below, Enumerates
  <2>3. \A x \in B : \E k \in 1 .. n - 1 : s[k] = x
    <3> SUFFICES ASSUME NEW x \in B PROVE \E k \in 1 .. n - 1 : s[k] = x
      OBVIOUS
    <3>1. x \in X /\ <<x, s[n]>> \in R /\ s[n] \in X
      BY <1>1 DEF Below, Enumerates
    <3>2. PICK k \in 1 .. m : s[k] = x
      BY <3>1, <1>1 DEF Enumerates
    <3>3. ~(n < k)
      BY <3>1, <3>2, <1>1 DEF Enumerates, Orders
    <3>4. k # n
      BY <3>1, <3>2 DEF Orders
    <3>5. k \in 1 .. n - 1
      BY <3>3, <3>4
    <3> QED BY <3>2, <3>5
  <2> HIDE DEF B
  <2>4. t \in Bijection(1 .. n - 1, B)
    <3>1. t \in [1 .. n - 1 -> B]
      BY <2>2
    <3>2. \A j, k \in 1 .. n - 1 : t[j] = t[k] => j = k
      BY <2>1, <1>2
    <3> QED BY <2>3, <3>1, <3>2 DEF Bijection, Injection, Surjection, IsInjective
  <2>5. IsFiniteSet(1 .. n - 1) /\ Cardinality(1 .. n - 1) = n - 1
    <3>1. IsFiniteSet(1 .. n - 1) /\ Cardinality(1 .. n - 1) = IF 1 > n - 1 THEN 0 ELSE (n - 1) - 1 + 1
      BY FS_Interval
    <3> QED BY <3>1
  <2> QED BY <2>4, <2>5, FS_Bijection DEF ExistsBijection, B
<1>6. \A x, y \in X : card(x) = card(y) => x = y
  <2> SUFFICES ASSUME NEW x \in X, NEW y \in X, card(x) = card(y), x # y PROVE FALSE
    OBVIOUS
  <2>1. card(x) \in Nat /\ card(y) \in Nat /\ (card(x) < card(y) \/ card(y) < card(x))
    BY <1>4, BelowGrows DEF Orders
  <2> QED BY <2>1
<1> DEFINE at(n) == CHOOSE x \in X : card(x) = n - 1
<1>7. InOrder(X, R) = [n \in 1 .. m |-> at(n)]
  BY <1>4, Zenon DEF InOrder, Below
<1> HIDE DEF card
<1>8. \A n \in 1 .. m : s[n] \in X
  BY <1>1 DEF Enumerates
<1>9. \A n \in 1 .. m : at(n) = s[n]
  BY <1>5, <1>6, <1>8
<1> HIDE DEF at
<1> QED BY <1>4, <1>7, <1>9

\* A finite set of numbers in ascending order.
LEMMA AscendingEnumerates ==
  ASSUME NEW S \in SUBSET Nat, IsFiniteSet(S)
  PROVE  /\ Cardinality(S) \in Nat /\ DOMAIN Ascending(S) = 1 .. Cardinality(S)
         /\ \A n \in 1 .. Cardinality(S) : Ascending(S)[n] \in S
         /\ \A x \in S : \E n \in 1 .. Cardinality(S) : Ascending(S)[n] = x
         /\ \A m, n \in 1 .. Cardinality(S) : m < n => Ascending(S)[m] < Ascending(S)[n]
<1> DEFINE R == {p \in S \X S : p[1] < p[2]}
<1>1. \A x, y \in S : <<x, y>> \in R <=> x < y
  OBVIOUS
<1>2. Orders(R, S)
  BY <1>1 DEF Orders
<1>3. Ascending(S) = InOrder(S, R)
  BY DEF Ascending
<1> HIDE DEF R
<1>4. /\ Cardinality(S) \in Nat /\ DOMAIN Ascending(S) = 1 .. Cardinality(S)
      /\ Enumerates(Ascending(S), S, R)
  BY <1>2, <1>3, InOrderEnumerates
<1> QED BY <1>1, <1>4 DEF Enumerates

\* A nonempty finite set of numbers has a least one.
LEMMA LeastOf ==
  ASSUME NEW S \in SUBSET Nat, IsFiniteSet(S), S # {}
  PROVE  \E x \in S : \A y \in S : x <= y
<1> DEFINE A == Ascending(S)
           N == Cardinality(S)
<1>1. /\ N \in Nat /\ \A n \in 1 .. N : A[n] \in S
      /\ \A x \in S : \E n \in 1 .. N : A[n] = x
      /\ \A m, n \in 1 .. N : m < n => A[m] < A[n]
  BY AscendingEnumerates
<1> HIDE DEF A, N
<1>2. 1 \in 1 .. N
  <2>1. PICK x \in S : TRUE
    OBVIOUS
  <2>2. PICK n \in 1 .. N : A[n] = x
    BY <1>1
  <2> QED BY <1>1, <2>2
<1>3. ASSUME NEW y \in S PROVE A[1] <= y
  <2>1. PICK n \in 1 .. N : A[n] = y
    BY <1>1
  <2>2. n = 1 \/ 1 < n
    BY <1>1
  <2>3. A[1] \in Nat /\ A[n] \in Nat
    BY <1>1, <1>2
  <2> QED BY <1>1, <1>2, <2>1, <2>2, <2>3
<1> QED BY <1>1, <1>2, <1>3

\* The length of a sequence given by its entries.
LEMMA LenOf == ASSUME NEW N \in Nat, NEW S, NEW k \in [1 .. N -> S] PROVE k \in Seq(S) /\ Len(k) = N
<1>1. k \in Seq(S)
  BY SeqDef
<1>2. Len(k) \in Nat /\ DOMAIN k = 1 .. Len(k)
  BY <1>1, LenProperties
<1> QED BY <1>1, <1>2

\* A loop keeps the entries at the chosen positions, in their order.
LEMMA KeptEntries ==
  ASSUME NEW s, NEW I \in SUBSET Nat, IsFiniteSet(I)
  PROVE  /\ Cardinality(I) \in Nat /\ DOMAIN Kept(s, I) = 1 .. Cardinality(I)
         /\ \E at \in [1 .. Cardinality(I) -> I] :
              /\ \A n \in 1 .. Cardinality(I) : Kept(s, I)[n] = s[at[n]]
              /\ \A i \in I : \E n \in 1 .. Cardinality(I) : at[n] = i
              /\ \A m, n \in 1 .. Cardinality(I) : m < n => at[m] < at[n]
<1> DEFINE at == Ascending(I)
           N == Cardinality(I)
<1>1. /\ N \in Nat /\ DOMAIN at = 1 .. N /\ \A n \in 1 .. N : at[n] \in I
      /\ \A x \in I : \E n \in 1 .. N : at[n] = x
      /\ \A m, n \in 1 .. N : m < n => at[m] < at[n]
  BY AscendingEnumerates
<1>2. at = [n \in 1 .. N |-> at[n]]
  BY <1>1 DEF Ascending, InOrder
<1>3. Kept(s, I) = [n \in 1 .. N |-> s[at[n]]]
  BY <1>1, Zenon DEF Kept
<1> HIDE DEF at, N
<1>4. at \in [1 .. N -> I]
  BY <1>1, <1>2
<1> QED BY <1>1, <1>3, <1>4 DEF N

\* Keeping each name once leaves exactly the names that are in S, and no repetition.
LEMMA OnceIsExact ==
  ASSUME NEW L \in Nat, NEW names, DOMAIN names = 1 .. L, NEW S
  PROVE  LET k == Once(names, S)
             T == S \cap Range(names)
         IN /\ Range(k) = T /\ IsFiniteSet(T) /\ Len(k) = Cardinality(T)
            /\ k = <<>> <=> T = {}
<1> DEFINE k == Once(names, S)
           T == S \cap Range(names)
           I == {i \in DOMAIN names : names[i] \in S /\ \A j \in 1 .. i - 1 : names[j] # names[i]}
           N == Cardinality(I)
<1>1. I \in SUBSET Nat /\ IsFiniteSet(I)
  <2>1. I \in SUBSET (1 .. L) /\ IsFiniteSet(1 .. L)
    BY FS_Interval
  <2> QED BY <2>1, FS_Subset
<1>2. k = Kept(names, I)
  BY DEF Once
<1>3. \A i \in I : i \in 1 .. L /\ names[i] \in T
  BY DEF Range
<1>4. \A i, j \in I : names[i] = names[j] => i = j
  <2> SUFFICES ASSUME NEW i \in I, NEW j \in I, names[i] = names[j], i # j PROVE FALSE
    OBVIOUS
  <2>1. i \in Nat /\ j \in Nat /\ i >= 1 /\ j >= 1
    BY <1>3
  <2>2. i \in 1 .. j - 1 \/ j \in 1 .. i - 1
    BY <2>1
  <2> QED BY <2>2
<1>5. ASSUME NEW v \in T PROVE \E i \in I : names[i] = v
  <2> DEFINE O == {i \in 1 .. L : names[i] = v}
  <2>1. O # {} /\ v \in S
    BY DEF Range
  <2>2. O \in SUBSET Nat /\ IsFiniteSet(O)
    <3>1. O \in SUBSET (1 .. L) /\ IsFiniteSet(1 .. L)
      BY FS_Interval
    <3> QED BY <3>1, FS_Subset
  <2> HIDE DEF O
  <2>3. PICK i \in O : \A j \in O : i <= j
    BY <2>1, <2>2, LeastOf
  <2>4. i \in 1 .. L /\ names[i] = v
    BY DEF O
  <2>5. \A j \in 1 .. i - 1 : j \in 1 .. L /\ j < i
    BY <2>4
  <2>6. \A j \in 1 .. i - 1 : j \notin O
    BY <2>3, <2>4, <2>5
  <2>7. \A j \in 1 .. i - 1 : names[j] # names[i]
    BY <2>4, <2>5, <2>6 DEF O
  <2> QED BY <2>1, <2>4, <2>7
<1> HIDE DEF I, N, T, k
<1>6. N \in Nat /\ DOMAIN k = 1 .. N
  BY <1>1, <1>2, KeptEntries DEF N
<1>7. PICK at \in [1 .. N -> I] :
        /\ \A n \in 1 .. N : k[n] = names[at[n]]
        /\ \A i \in I : \E n \in 1 .. N : at[n] = i
        /\ \A m, n \in 1 .. N : m < n => at[m] < at[n]
  BY <1>1, <1>2, KeptEntries DEF N
<1>8. \A n \in 1 .. N : k[n] \in T
  BY <1>3, <1>7
<1>9. \A v \in T : \E n \in 1 .. N : k[n] = v
  BY <1>5, <1>7
<1>10. \A m, n \in 1 .. N : k[m] = k[n] => m = n
  <2> SUFFICES ASSUME NEW m \in 1 .. N, NEW n \in 1 .. N, k[m] = k[n], m # n PROVE FALSE
    OBVIOUS
  <2>1. at[m] \in I /\ at[n] \in I /\ names[at[m]] = names[at[n]]
    BY <1>7
  <2>2. at[m] = at[n] /\ at[m] \in Nat
    BY <1>1, <1>4, <2>1
  <2>3. m < n \/ n < m
    BY <1>6
  <2> QED BY <1>7, <2>2, <2>3
<1>11. k \in [1 .. N -> T]
  <2>1. k = [n \in 1 .. N |-> k[n]]
    BY <1>2, <1>6 DEF Kept
  <2> QED BY <2>1, <1>8
<1>12. Range(k) = T
  BY <1>6, <1>8, <1>9, Zenon DEF Range
<1>13. IsFiniteSet(T) /\ Cardinality(T) = N
  <2>1. k \in Bijection(1 .. N, T)
    BY <1>9, <1>10, <1>11 DEF Bijection, Injection, Surjection, IsInjective
  <2>2. IsFiniteSet(1 .. N) /\ Cardinality(1 .. N) = N
    <3>1. IsFiniteSet(1 .. N) /\ Cardinality(1 .. N) = IF 1 > N THEN 0 ELSE N - 1 + 1
      BY <1>6, FS_Interval
    <3> QED BY <3>1, <1>6
  <2> QED BY <2>1, <2>2, FS_Bijection DEF ExistsBijection
<1>14. k \in Seq(T) /\ Len(k) = N
  BY <1>6, <1>11, LenOf
<1>15. k = <<>> <=> T = {}
  <2>1. ASSUME T = {} PROVE k = <<>>
    <3>1. N = 0
      BY <2>1, <1>13, FS_EmptySet
    <3> QED BY <3>1, <1>14, EmptySeq
  <2>2. ASSUME k = <<>> PROVE T = {}
    <3>1. N = 0
      BY <2>2, <1>14
    <3> QED BY <3>1, <1>9
  <2> QED BY <2>1, <2>2
<1> QED BY <1>12, <1>13, <1>14, <1>15 DEF k, T

\* An entry of a sequence.
LEMMA EntryOf == ASSUME NEW S, NEW s \in Seq(S), NEW i \in DOMAIN s PROVE s[i] \in S
  BY LenProperties, ElementOfSeq

\* The values of a function on a finite set are finitely many.
LEMMA FiniteImage == ASSUME NEW S, IsFiniteSet(S), NEW f PROVE IsFiniteSet({f[x] : x \in S})
<1> DEFINE T == {f[x] : x \in S}
           g == [x \in S |-> f[x]]
<1>1. g \in Surjection(S, T)
  BY DEF Surjection
<1> QED BY <1>1, FS_Surjection

-----------------------------------------------------------------------------
(* Validation. *)

\* A catalog offers finitely many locations.
LEMMA OfferedIsFinite ==
  ASSUME NEW types, WellFormed(types) PROVE IsFiniteSet(Offered(types)) /\ Offered(types) \in SUBSET Nat
<1> DEFINE D == {i \in DOMAIN types : Supported(types[i])}
           J(i) == {j \in DOMAIN types[i].locs : ~types[i].locs[j].deprecated}
           F == [i \in D |-> {i} \X J(i)]
           G == [e \in Entries(types) |-> LocationAt(types, e).loc]
<1>1. IsFiniteSet(D)
  <2>1. types \in Seq(Range(types))
    BY DEF WellFormed
  <2>2. Len(types) \in Nat /\ DOMAIN types = 1 .. Len(types)
    BY <2>1, LenProperties
  <2>3. IsFiniteSet(1 .. Len(types)) /\ D \in SUBSET (1 .. Len(types))
    BY <2>2, FS_Interval
  <2> QED BY <2>3, FS_Subset
<1>2. \A i \in D : IsFiniteSet(J(i)) /\ types[i].locs \in Seq(Location)
  <2> SUFFICES ASSUME NEW i \in D
               PROVE  IsFiniteSet(J(i)) /\ types[i].locs \in Seq(Location)
    OBVIOUS
  <2>1. types[i].locs \in Seq(Location)
    BY DEF WellFormed
  <2>2. Len(types[i].locs) \in Nat /\ DOMAIN types[i].locs = 1 .. Len(types[i].locs)
    BY <2>1, LenProperties
  <2>3. IsFiniteSet(1 .. Len(types[i].locs)) /\ J(i) \in SUBSET (1 .. Len(types[i].locs))
    BY <2>2, FS_Interval
  <2> QED BY <2>1, <2>3, FS_Subset
<1>3. \A i \in D : IsFiniteSet(F[i])
  <2> SUFFICES ASSUME NEW i \in D PROVE IsFiniteSet({i} \X J(i))
    OBVIOUS
  <2> QED BY <1>2, FS_Singleton, FS_Product
<1>4. Entries(types) = UNION {F[i] : i \in D}
  BY Zenon DEF Entries
<1>5. \A e \in Entries(types) : e[1] \in D /\ e[2] \in J(e[1])
  BY DEF Entries
<1> HIDE DEF F
<1>6. IsFiniteSet(Entries(types))
  <2>1. IsFiniteSet({F[i] : i \in D})
    BY <1>1, FiniteImage
  <2> QED BY <1>3, <1>4, <2>1, FS_UNION
<1>7. Offered(types) = {G[e] : e \in Entries(types)}
  BY Zenon DEF Offered
<1>8. \A e \in Entries(types) : LocationAt(types, e).loc \in Nat
  <2> SUFFICES ASSUME NEW e \in Entries(types) PROVE LocationAt(types, e).loc \in Nat
    OBVIOUS
  <2>1. e[1] \in D /\ e[2] \in DOMAIN types[e[1]].locs
    BY <1>5
  <2>2. types[e[1]].locs \in Seq(Location)
    BY <1>2, <2>1
  <2>3. types[e[1]].locs[e[2]] \in Location
    BY <2>1, <2>2, EntryOf
  <2> QED BY <2>3 DEF LocationAt, Location
<1>9. Offered(types) \in SUBSET Nat
  BY <1>8 DEF Offered
<1> HIDE DEF G
<1> QED BY <1>6, <1>7, <1>9, FiniteImage

\* The locations validation promises, for a class with these locations and this zone.
UsableIn(types, locations, zone) ==
  {l \in Offered(types) : ~Outside(ZoneOf(types, l), zone) /\ (locations # <<>> => l \in Range(locations))}

\* locationScope puts exactly the usable locations in scope, each once.
LEMMA ScopeFacts ==
  ASSUME NEW types, WellFormed(types), NEW locations \in Seq(Nat), NEW zone
  PROVE  LET k == locationScope(types, locations, zone).inScope
             usable == UsableIn(types, locations, zone)
         IN Range(k) = usable /\ Len(k) = Cardinality(usable) /\ (k = <<>> <=> usable = {})
<1> DEFINE names == IF locations = <<>> THEN Ascending(Offered(types)) ELSE locations
           S == Offered(types) \ {n \in Offered(types) : Outside(ZoneOf(types, n), zone)}
           usable == UsableIn(types, locations, zone)
<1>1. locationScope(types, locations, zone).inScope = Once(names, S)
  BY DEF locationScope
<1>2. \E L \in Nat : DOMAIN names = 1 .. L
  <2>1. CASE locations = <<>>
    <3>1. Cardinality(Offered(types)) \in Nat /\ DOMAIN Ascending(Offered(types)) = 1 .. Cardinality(Offered(types))
      BY OfferedIsFinite, AscendingEnumerates
    <3> QED BY <2>1, <3>1
  <2>2. CASE locations # <<>>
    BY <2>2, LenProperties
  <2> QED BY <2>1, <2>2
<1>3. S \cap Range(names) = usable
  <2>1. CASE locations = <<>>
    <3>1. Range(Ascending(Offered(types))) = Offered(types)
      <4> DEFINE O == Offered(types)
                 A == Ascending(O)
      <4>1. /\ DOMAIN A = 1 .. Cardinality(O) /\ \A n \in 1 .. Cardinality(O) : A[n] \in O
            /\ \A x \in O : \E n \in 1 .. Cardinality(O) : A[n] = x
        BY OfferedIsFinite, AscendingEnumerates
      <4> HIDE DEF A, O
      <4>2. Range(A) = O
        BY <4>1, Zenon DEF Range
      <4> QED BY <4>2 DEF A, O
    <3> QED BY <2>1, <3>1 DEF UsableIn
  <2>2. CASE locations # <<>>
    BY <2>2 DEF UsableIn
  <2> QED BY <2>1, <2>2
<1> HIDE DEF names, S, usable
<1>4. /\ Range(Once(names, S)) = usable /\ Len(Once(names, S)) = Cardinality(usable)
      /\ Once(names, S) = <<>> <=> usable = {}
  BY <1>2, <1>3, OnceIsExact
<1> QED BY <1>1, <1>4 DEF usable

\* v is a verdict on exactly the usable locations: true while there are any, and a
\* refusal only over what the catalog offers or over the image.
ExactVerdict(v, cat, sp, refs) ==
  /\ v.refs = refs
  /\ cat.fetched /\ refs.arch \in {"", SupportedArchitecture} =>
       /\ Range(v.locations) = UsableIn(cat.types, sp.locations, refs.zone)
       /\ Len(v.locations) = Cardinality(UsableIn(cat.types, sp.locations, refs.zone))
       /\ v.st = "True" <=> UsableIn(cat.types, sp.locations, refs.zone) # {}
  /\ v.st = "False" => Offered(cat.types) # {} \/ refs.arch \notin {"", SupportedArchitecture}
  /\ v.st = "True" => cat.fetched /\ refs.arch \in {"", SupportedArchitecture}

\* Such is the verdict of a pass of validation.
LEMMA ValidatedFacts ==
  ASSUME NEW cat, WellFormed(cat.types), cat.fetched \in BOOLEAN, NEW sp, sp.locations \in Seq(Nat), NEW refs
  PROVE  ExactVerdict(Validated(cat, sp, refs), cat, sp, refs)
<1> DEFINE s == locationScope(cat.types, sp.locations, refs.zone)
           usable == UsableIn(cat.types, sp.locations, refs.zone)
           v == Validated(cat, sp, refs)
           able == refs.arch \in {"", SupportedArchitecture}
           verdict(st, reason, locs) == [refs |-> refs, st |-> st, reason |-> reason, locations |-> locs]
<1>1. Range(s.inScope) = usable /\ Len(s.inScope) = Cardinality(usable) /\ (s.inScope = <<>> <=> usable = {})
  BY ScopeFacts
<1>2. s.catalogEmpty = (Offered(cat.types) = {})
  BY DEF locationScope
<1>3. /\ ~able => v = verdict("False", "ImageArchitectureUnsupported", <<>>)
      /\ able /\ ~cat.fetched => v = verdict("Unknown", "CatalogNotFetched", <<>>)
      /\ able /\ cat.fetched /\ s.catalogEmpty => v = verdict("Unknown", "CatalogEmpty", <<>>)
      /\ able /\ cat.fetched /\ ~s.catalogEmpty /\ s.inScope = <<>> => v = verdict("False", emptyFailure(s), <<>>)
      /\ able /\ cat.fetched /\ ~s.catalogEmpty /\ s.inScope # <<>> =>
           v = verdict("True", IF Narrowed(s) THEN "LocationsNarrowed" ELSE "", s.inScope)
  BY <1>2, Zenon DEF Validated
<1> HIDE DEF verdict
<1>4. Offered(cat.types) = {} => usable = {}
  BY DEF UsableIn
<1> HIDE DEF s, usable, v, able
<1>5. Range(<<>>) = {} /\ Len(<<>>) = 0 /\ Cardinality({}) = 0
  BY FS_EmptySet DEF Range
<1>6. ASSUME ~able PROVE v.refs = refs /\ v.st = "False"
  <2>1. v = verdict("False", "ImageArchitectureUnsupported", <<>>)
    BY <1>3, <1>6, Zenon
  <2> QED BY <2>1 DEF verdict
<1>7. ASSUME able, ~cat.fetched PROVE v.refs = refs /\ v.st = "Unknown"
  <2>1. v = verdict("Unknown", "CatalogNotFetched", <<>>)
    BY <1>3, <1>7, Zenon
  <2> QED BY <2>1 DEF verdict
<1>8. ASSUME able, cat.fetched, s.catalogEmpty
      PROVE  v.refs = refs /\ v.st = "Unknown" /\ v.locations = <<>> /\ usable = {}
  <2>1. v = verdict("Unknown", "CatalogEmpty", <<>>)
    BY <1>3, <1>8, Zenon
  <2>2. usable = {}
    BY <1>2, <1>4, <1>8
  <2> QED BY <2>1, <2>2 DEF verdict
<1>9. ASSUME able, cat.fetched, ~s.catalogEmpty, s.inScope = <<>>
      PROVE  v.refs = refs /\ v.st = "False" /\ v.locations = <<>> /\ usable = {}
  <2>1. v = verdict("False", emptyFailure(s), <<>>)
    BY <1>3, <1>9, Zenon
  <2>2. usable = {}
    BY <1>1, <1>9
  <2> QED BY <2>1, <2>2 DEF verdict
<1>10. ASSUME able, cat.fetched, ~s.catalogEmpty, s.inScope # <<>>
       PROVE  v.refs = refs /\ v.st = "True" /\ v.locations = s.inScope /\ usable # {}
  <2>1. v = verdict("True", IF Narrowed(s) THEN "LocationsNarrowed" ELSE "", s.inScope)
    BY <1>3, <1>10, Zenon
  <2>2. usable # {}
    BY <1>1, <1>10
  <2> QED BY <2>1, <2>2 DEF verdict
<1>11. s.catalogEmpty \in BOOLEAN
  BY <1>2
<1>12. cat.fetched /\ able => Range(v.locations) = usable /\ Len(v.locations) = Cardinality(usable) /\ (v.st = "True" <=> usable # {})
  <2>1. CASE s.catalogEmpty
    BY <1>5, <1>8, <2>1
  <2>2. CASE ~s.catalogEmpty /\ s.inScope = <<>>
    BY <1>5, <1>9, <2>2
  <2>3. CASE ~s.catalogEmpty /\ s.inScope # <<>>
    BY <1>1, <1>10, <2>3
  <2> QED BY <1>11, <2>1, <2>2, <2>3
<1>13. v.refs = refs
  BY <1>6, <1>7, <1>8, <1>9, <1>10, <1>11
<1>14. v.st = "False" => Offered(cat.types) # {} \/ ~able
  BY <1>2, <1>7, <1>8
<1>15. v.st = "True" => cat.fetched /\ able
  BY <1>6, <1>7
<1> QED BY <1>12, <1>13, <1>14, <1>15, Zenon DEF ExactVerdict, v, usable, able

-----------------------------------------------------------------------------
(* The offerings of a type. *)

\* What the class's public net adds to a price.
Surcharge(sp) == IF sp.ipv4 THEN catalog.ipv4 ELSE 0

\* Where a type is sold to the class.
SoldTo(st, sp) ==
  {st.locs[j].loc : j \in {k \in DOMAIN st.locs : /\ locationFilter(sp.locations, st.locs[k].loc) /\ ~st.locs[k].deprecated
                                                  /\ st.locs[k].loc \in DOMAIN st.price}}

\* o are the offerings of st: one in each location it is sold to the class in.
OffersOf(o, st, sp, gone) ==
  /\ \E N \in Nat : DOMAIN o = 1 .. N
  /\ \A b \in DOMAIN o : /\ o[b].loc \in SoldTo(st, sp) /\ o[b].price = st.price[o[b].loc] + Surcharge(sp)
                         /\ o[b].available = (<<st.name, o[b].loc>> \notin gone)
  /\ \A l \in SoldTo(st, sp) : \E b \in DOMAIN o : o[b].loc = l
  /\ \A a, b \in DOMAIN o : o[a].loc = o[b].loc => a = b

\* newInstanceType offers a type once in each location it is sold to the class in.
LEMMA OfferingsFacts ==
  ASSUME NEW types, WellFormed(types), NEW i \in DOMAIN types, NEW sp, NEW gone
  PROVE  OffersOf(Offerings(types[i], sp, gone), types[i], sp, gone)
<1> DEFINE st == types[i]
           o == Offerings(st, sp, gone)
           J == {k \in DOMAIN st.locs : /\ locationFilter(sp.locations, st.locs[k].loc) /\ ~st.locs[k].deprecated
                                        /\ st.locs[k].loc \in DOMAIN st.price}
           sold == Kept(st.locs, J)
           N == Cardinality(J)
           offer(b) == [loc |-> sold[b].loc, zone |-> sold[b].zone, price |-> st.price[sold[b].loc] + Surcharge(sp),
                        available |-> <<st.name, sold[b].loc>> \notin gone]
<1>1. st.locs \in Seq(Location) /\ \A j, k \in DOMAIN st.locs : st.locs[j].loc = st.locs[k].loc => j = k
  BY DEF WellFormed
<1>2. J \in SUBSET Nat /\ IsFiniteSet(J)
  <2>1. Len(st.locs) \in Nat /\ DOMAIN st.locs = 1 .. Len(st.locs)
    BY <1>1, LenProperties
  <2>2. J \in SUBSET (1 .. Len(st.locs)) /\ IsFiniteSet(1 .. Len(st.locs))
    BY <2>1, FS_Interval
  <2> QED BY <2>1, <2>2, FS_Subset
<1>3. o = [b \in DOMAIN sold |-> offer(b)]
  BY Zenon DEF Offerings, Surcharge
<1>4. SoldTo(st, sp) = {st.locs[j].loc : j \in J}
  BY Zenon DEF SoldTo
<1>5. J \subseteq DOMAIN st.locs
  OBVIOUS
<1> HIDE DEF J
<1> DEFINE ls == st.locs
<1>6. sold = Kept(ls, J)
  OBVIOUS
<1> HIDE DEF ls, sold, N
<1>7. N \in Nat /\ DOMAIN sold = 1 .. N
  BY <1>2, <1>6, KeptEntries DEF N
<1>8. PICK at \in [1 .. N -> J] :
        /\ \A n \in 1 .. N : sold[n] = ls[at[n]]
        /\ \A j \in J : \E n \in 1 .. N : at[n] = j
        /\ \A m, n \in 1 .. N : m < n => at[m] < at[n]
  BY <1>2, <1>6, KeptEntries DEF N
<1>9. /\ at \in [1 .. N -> J]
      /\ \A n \in 1 .. N : sold[n] = st.locs[at[n]]
      /\ \A j \in J : \E n \in 1 .. N : at[n] = j
      /\ \A m, n \in 1 .. N : m < n => at[m] < at[n]
  BY <1>8 DEF ls
<1> HIDE DEF o, offer
<1>10. DOMAIN o = 1 .. N /\ \A b \in 1 .. N : o[b] = offer(b)
  BY <1>7, <1>3
<1>11. \A b \in 1 .. N : /\ o[b].loc = st.locs[at[b]].loc /\ o[b].price = st.price[o[b].loc] + Surcharge(sp)
                        /\ o[b].available = (<<st.name, o[b].loc>> \notin gone)
  <2> SUFFICES ASSUME NEW b \in 1 .. N
               PROVE  /\ o[b].loc = st.locs[at[b]].loc /\ o[b].price = st.price[o[b].loc] + Surcharge(sp)
                      /\ o[b].available = (<<st.name, o[b].loc>> \notin gone)
    OBVIOUS
  <2>1. /\ offer(b).loc = sold[b].loc /\ offer(b).price = st.price[sold[b].loc] + Surcharge(sp)
        /\ offer(b).available = (<<st.name, sold[b].loc>> \notin gone)
    BY DEF offer
  <2>2. sold[b].loc = st.locs[at[b]].loc /\ o[b] = offer(b)
    BY <1>9, <1>10
  <2> QED BY <2>1, <2>2
<1>12. \A b \in 1 .. N : o[b].loc \in SoldTo(st, sp)
  BY <1>9, <1>4, <1>11
<1>13. ASSUME NEW l \in SoldTo(st, sp) PROVE \E b \in 1 .. N : o[b].loc = l
  <2>1. PICK j \in J : l = st.locs[j].loc
    BY <1>4
  <2>2. PICK n \in 1 .. N : at[n] = j
    BY <1>9
  <2> QED BY <2>1, <2>2, <1>11
<1>14. ASSUME NEW a \in 1 .. N, NEW b \in 1 .. N, o[a].loc = o[b].loc PROVE a = b
  <2>1. at[a] \in J /\ at[b] \in J
    BY <1>9
  <2>2. at[a] = at[b]
    <3>1. at[a] \in DOMAIN st.locs /\ at[b] \in DOMAIN st.locs
      BY <1>5, <2>1
    <3>2. st.locs[at[a]].loc = st.locs[at[b]].loc
      BY <1>11, <1>14
    <3> HIDE DEF st
    <3> QED BY <1>1, <3>1, <3>2
  <2>3. at[a] \in Nat
    BY <1>2, <2>1
  <2>4. a < b \/ b < a \/ a = b
    BY <1>7
  <2> QED BY <1>9, <2>2, <2>3, <2>4
<1>15. DOMAIN o = 1 .. N /\ \E M \in Nat : DOMAIN o = 1 .. M
  BY <1>7, <1>10
<1> QED BY <1>10, <1>11, <1>12, <1>13, <1>14, <1>15, Zenon DEF OffersOf, o

-----------------------------------------------------------------------------
(* The instance types. *)

\* InOrder is a function on 1 .. Cardinality(X).
LEMMA InOrderIsFunction ==
  ASSUME NEW X, NEW R
  PROVE  InOrder(X, R) = [n \in 1 .. Cardinality(X) |-> InOrder(X, R)[n]]
<1> DEFINE nth(n) == CHOOSE x \in X : Cardinality({y \in X : <<y, x>> \in R}) = n - 1
           D == 1 .. Cardinality(X)
           s == InOrder(X, R)
<1>1. s = [n \in D |-> nth(n)]
  BY Zenon DEF InOrder
<1> HIDE DEF nth, D, s
<1>2. s = [n \in D |-> s[n]]
  BY <1>1
<1> QED BY <1>2, Zenon DEF s, D

\* The types Build keeps, and what it makes of them: each once.
Sellable(types, sp, gone) == {i \in DOMAIN types : Supported(types[i]) /\ Offerings(types[i], sp, gone) # <<>>}
ListsBy(its, N, at, types, sp, gone) ==
  /\ DOMAIN its = 1 .. N
  /\ \A n \in 1 .. N : /\ its[n].name = types[at[n]].name /\ its[n].size = types[at[n]].size
                       /\ its[n].offerings = Offerings(types[at[n]], sp, gone)
  /\ \A i \in Sellable(types, sp, gone) : \E n \in 1 .. N : at[n] = i
  /\ \A m, n \in 1 .. N : its[m].name = its[n].name => m = n

\* Build lists the supported types that are left with an offering, each once, by name.
LEMMA BuildFacts ==
  ASSUME NEW types, WellFormed(types), NEW sp, NEW gone
  PROVE  \E N \in Nat : \E at \in [1 .. N -> Sellable(types, sp, gone)] :
           ListsBy(Build(types, sp, gone), N, at, types, sp, gone)
<1> DEFINE its == Build(types, sp, gone)
           kept == Sellable(types, sp, gone)
           R == {p \in kept \X kept : types[p[1]].name < types[p[2]].name}
           at == InOrder(kept, R)
           N == Cardinality(kept)
           entry(i) == [name |-> types[i].name, size |-> types[i].size, offerings |-> Offerings(types[i], sp, gone)]
<1>1. /\ \A i \in DOMAIN types : types[i].name \in Nat
      /\ \A i, k \in DOMAIN types : types[i].name = types[k].name => i = k
  BY DEF WellFormed
<1>2. IsFiniteSet(kept)
  <2>1. types \in Seq(Range(types))
    BY DEF WellFormed
  <2>2. Len(types) \in Nat /\ DOMAIN types = 1 .. Len(types)
    BY <2>1, LenProperties
  <2>3. IsFiniteSet(DOMAIN types)
    BY <2>2, FS_Interval
  <2>4. kept \in SUBSET DOMAIN types
    BY DEF Sellable
  <2> QED BY <2>3, <2>4, FS_Subset
<1>3. kept \subseteq DOMAIN types
  BY DEF Sellable
<1>4. its = [n \in DOMAIN at |-> entry(at[n])]
  BY Zenon DEF Build, Sellable
<1> HIDE DEF kept
<1>5. Orders(R, kept)
  BY <1>1, <1>3 DEF Orders
<1> HIDE DEF R
<1>6. N \in Nat /\ DOMAIN at = 1 .. N /\ Enumerates(at, kept, R)
  BY <1>2, <1>5, InOrderEnumerates
<1>7. at = [n \in 1 .. N |-> at[n]]
  BY InOrderIsFunction, Zenon
<1> HIDE DEF at, N, its, entry
<1>8. /\ \A n \in 1 .. N : at[n] \in kept
      /\ \A x \in kept : \E n \in 1 .. N : at[n] = x
      /\ \A m, n \in 1 .. N : m < n => <<at[m], at[n]>> \in R
  BY <1>6 DEF Enumerates
<1>9. at \in [1 .. N -> kept]
  BY <1>7, <1>8
<1>10. DOMAIN its = 1 .. N
  BY <1>4, <1>6
<1>11. \A n \in 1 .. N : /\ its[n].name = types[at[n]].name /\ its[n].size = types[at[n]].size
                         /\ its[n].offerings = Offerings(types[at[n]], sp, gone)
  <2> SUFFICES ASSUME NEW n \in 1 .. N
               PROVE  /\ its[n].name = types[at[n]].name /\ its[n].size = types[at[n]].size
                      /\ its[n].offerings = Offerings(types[at[n]], sp, gone)
    OBVIOUS
  <2>1. its[n] = entry(at[n])
    BY <1>4, <1>6
  <2> QED BY <2>1 DEF entry
<1>12. ASSUME NEW m \in 1 .. N, NEW n \in 1 .. N, its[m].name = its[n].name PROVE m = n
  <2>1. at[m] \in DOMAIN types /\ at[n] \in DOMAIN types
    BY <1>3, <1>8
  <2>2. types[at[m]].name = types[at[n]].name
    BY <1>11, <1>12
  <2>3. types[at[m]].name \in Nat
    BY <1>1, <2>1
  <2>4. \A a, b \in kept : <<a, b>> \in R => types[a].name < types[b].name
    BY DEF R
  <2>5. m < n \/ n < m \/ m = n
    BY <1>6
  <2>6. m < n => types[at[m]].name < types[at[n]].name
    BY <1>8, <2>4
  <2>7. n < m => types[at[n]].name < types[at[m]].name
    BY <1>8, <2>4
  <2> QED BY <2>2, <2>3, <2>5, <2>6, <2>7
<1>13. ListsBy(its, N, at, types, sp, gone)
  <2>1. N \in Nat
    BY <1>6
  <2>2. \A i \in kept : \E n \in 1 .. N : at[n] = i
    BY <1>8
  <2>3. \A m, n \in 1 .. N : its[m].name = its[n].name => m = n
    BY <1>12
  <2> QED BY <2>1, <2>2, <2>3, <1>9, <1>10, <1>11, Zenon DEF ListsBy, kept
<1>14. N \in Nat /\ at \in [1 .. N -> Sellable(types, sp, gone)]
  BY <1>6, <1>9 DEF kept
<1> QED BY <1>13, <1>14, Zenon DEF its

-----------------------------------------------------------------------------
(* The candidates in order. *)

Candidate == [name : Nat, loc : Nat, price : Nat]
CheaperOn(C) == {p \in C \X C : Cheaper(p[1], p[2])}

\* Price, type and location together tell any two candidates apart.
LEMMA CheaperOrders == ASSUME NEW C \in SUBSET Candidate PROVE Orders(CheaperOn(C), C)
<1> DEFINE R == CheaperOn(C)
<1>1. \A a \in C : a.name \in Nat /\ a.loc \in Nat /\ a.price \in Nat
  BY DEF Candidate
<1>2. \A a, b \in C : a.name = b.name /\ a.loc = b.loc /\ a.price = b.price => a = b
  BY DEF Candidate
<1>3. \A a, b \in C : <<a, b>> \in R <=> Cheaper(a, b)
  BY DEF CheaperOn
<1> HIDE DEF R
<1>4. \A a \in C : <<a, a>> \notin R
  BY <1>1, <1>3 DEF Cheaper
<1>5. ASSUME NEW a \in C, NEW b \in C, a # b PROVE <<a, b>> \in R \/ <<b, a>> \in R
  <2>1. a.name # b.name \/ a.loc # b.loc \/ a.price # b.price
    BY <1>2, <1>5
  <2>2. /\ a.name \in Nat /\ a.loc \in Nat /\ a.price \in Nat
        /\ b.name \in Nat /\ b.loc \in Nat /\ b.price \in Nat
    BY <1>1
  <2>3. Cheaper(a, b) \/ Cheaper(b, a)
    BY <2>1, <2>2 DEF Cheaper
  <2> QED BY <1>3, <2>3
<1>6. ASSUME NEW a \in C, NEW b \in C, NEW c \in C, <<a, b>> \in R, <<b, c>> \in R PROVE <<a, c>> \in R
  <2>1. Cheaper(a, b) /\ Cheaper(b, c)
    BY <1>3, <1>6
  <2>2. Cheaper(a, c)
    BY <1>1, <2>1 DEF Cheaper
  <2> QED BY <1>3, <2>2
<1> QED BY <1>4, <1>5, <1>6 DEF R, Orders

\* The candidates among the offerings of its.
OpenAmong(want, its) ==
  {c \in Candidate : \E n \in DOMAIN its : \E b \in DOMAIN its[n].offerings :
     /\ its[n].name \in want.types /\ its[n].size >= want.size
     /\ its[n].offerings[b].available /\ its[n].offerings[b].loc \in want.locs
     /\ c = [name |-> its[n].name, loc |-> its[n].offerings[b].loc, price |-> its[n].offerings[b].price]}

\* orderedCandidates is the candidates from the cheapest on, whatever order its lists them in.
LEMMA CandidatesAreSorted ==
  ASSUME NEW want, NEW its, NEW N \in Nat, DOMAIN its = 1 .. N,
         \A n \in 1 .. N :
           /\ its[n].name \in Nat
           /\ \E M \in Nat : DOMAIN its[n].offerings = 1 .. M
           /\ \A b \in DOMAIN its[n].offerings : its[n].offerings[b].loc \in Nat /\ its[n].offerings[b].price \in Nat
           /\ \A a, b \in DOMAIN its[n].offerings : its[n].offerings[a].loc = its[n].offerings[b].loc => a = b,
         \A m, n \in 1 .. N : its[m].name = its[n].name => m = n
  PROVE  LET C == OpenAmong(want, its) IN orderedCandidates(want, its) = InOrder(C, CheaperOn(C)) /\ IsFiniteSet(C)
<1> DEFINE C == OpenAmong(want, its)
           R == CheaperOn(C)
           fitting == {i \in DOMAIN its : its[i].name \in want.types /\ its[i].size >= want.size}
           slots(i) == {j \in DOMAIN its[i].offerings : its[i].offerings[j].available /\ its[i].offerings[j].loc \in want.locs}
           F == [i \in fitting |-> {i} \X slots(i)]
           open == UNION {F[i] : i \in fitting}
           cand(p) == [name |-> its[p[1]].name, loc |-> its[p[1]].offerings[p[2]].loc, price |-> its[p[1]].offerings[p[2]].price]
           before == {r \in open \X open : \/ Cheaper(cand(r[1]), cand(r[2]))
                                           \/ ~Cheaper(cand(r[2]), cand(r[1])) /\ Precedes(r[1], r[2])}
           order == InOrder(open, before)
           s == orderedCandidates(want, its)
<1>1. open = UNION {{i} \X slots(i) : i \in fitting}
  <2> HIDE DEF slots, fitting
  <2> QED BY Zenon
<1>2. s = [n \in DOMAIN order |-> cand(order[n])]
  BY Zenon, <1>1 DEF orderedCandidates
<1>3. IsFiniteSet(open)
  <2>1. IsFiniteSet(fitting)
    <3>1. IsFiniteSet(1 .. N) /\ fitting \in SUBSET (1 .. N)
      BY FS_Interval
    <3> QED BY <3>1, FS_Subset
  <2>2. ASSUME NEW i \in fitting PROVE IsFiniteSet(F[i])
    <3>1. PICK M \in Nat : DOMAIN its[i].offerings = 1 .. M
      OBVIOUS
    <3>2. IsFiniteSet(1 .. M) /\ slots(i) \in SUBSET (1 .. M)
      BY <3>1, FS_Interval
    <3>3. IsFiniteSet(slots(i))
      BY <3>2, FS_Subset
    <3> HIDE DEF slots
    <3> QED BY <3>3, FS_Singleton, FS_Product
  <2> HIDE DEF F, fitting
  <2>3. IsFiniteSet({F[i] : i \in fitting})
    BY <2>1, FiniteImage
  <2> QED BY <2>2, <2>3, FS_UNION
<1>4. \A p \in open : p[1] \in fitting /\ p[2] \in slots(p[1]) /\ p = <<p[1], p[2]>>
  BY <1>1
<1>5. \A i \in fitting : \A j \in slots(i) : <<i, j>> \in open
  BY <1>1
<1> HIDE DEF open
<1>6. \A p \in open : cand(p) \in Candidate
  BY <1>4 DEF Candidate
<1>7. \A p \in open : cand(p) \in C
  BY <1>4, <1>6 DEF OpenAmong
<1>8. ASSUME NEW c \in C PROVE \E p \in open : cand(p) = c
  <2>1. PICK n \in DOMAIN its : \E b \in DOMAIN its[n].offerings :
          /\ its[n].name \in want.types /\ its[n].size >= want.size
          /\ its[n].offerings[b].available /\ its[n].offerings[b].loc \in want.locs
          /\ c = [name |-> its[n].name, loc |-> its[n].offerings[b].loc, price |-> its[n].offerings[b].price]
    BY DEF OpenAmong
  <2>2. PICK b \in DOMAIN its[n].offerings :
          /\ its[n].name \in want.types /\ its[n].size >= want.size
          /\ its[n].offerings[b].available /\ its[n].offerings[b].loc \in want.locs
          /\ c = [name |-> its[n].name, loc |-> its[n].offerings[b].loc, price |-> its[n].offerings[b].price]
    BY <2>1
  <2>3. n \in fitting /\ b \in slots(n)
    BY <2>2
  <2>4. <<n, b>> \in open
    BY <1>5, <2>3
  <2>5. cand(<<n, b>>) = c
    BY <2>2
  <2> QED BY <2>4, <2>5
<1>9. ASSUME NEW p \in open, NEW q \in open, cand(p) = cand(q) PROVE p = q
  <2>1. its[p[1]].name = its[q[1]].name /\ its[p[1]].offerings[p[2]].loc = its[q[1]].offerings[q[2]].loc
    BY <1>9
  <2>2. p[1] \in 1 .. N /\ q[1] \in 1 .. N
    BY <1>4
  <2>3. p[1] = q[1]
    BY <2>1, <2>2
  <2>4. p[2] \in DOMAIN its[p[1]].offerings /\ q[2] \in DOMAIN its[q[1]].offerings
    BY <1>4
  <2>5. p[2] = q[2]
    BY <2>1, <2>2, <2>3, <2>4
  <2> QED BY <1>4, <2>3, <2>5
<1>10. C \in SUBSET Candidate
  BY DEF OpenAmong
<1>11. Orders(R, C)
  BY <1>10, CheaperOrders
<1>12. \A p, q \in open : <<p, q>> \in before <=> (Cheaper(cand(p), cand(q)) \/ (~Cheaper(cand(q), cand(p)) /\ Precedes(p, q)))
  <2> HIDE DEF cand
  <2> QED OBVIOUS
<1>13. \A a, b \in C : <<a, b>> \in R <=> Cheaper(a, b)
  BY DEF CheaperOn
<1>14. \A p \in open : ~Precedes(p, p)
  <2> SUFFICES ASSUME NEW p \in open PROVE ~Precedes(p, p)
    OBVIOUS
  <2>1. p[1] \in Nat /\ p[2] \in Nat
    <3>1. p[1] \in 1 .. N /\ p[2] \in DOMAIN its[p[1]].offerings
      BY <1>4
    <3>2. PICK M \in Nat : DOMAIN its[p[1]].offerings = 1 .. M
      BY <3>1
    <3> QED BY <3>1, <3>2
  <2> QED BY <2>1 DEF Precedes
<1> HIDE DEF C, R, before, cand
<1>15. \A p, q \in open : <<p, q>> \in before <=> <<cand(p), cand(q)>> \in R
  <2> SUFFICES ASSUME NEW p \in open, NEW q \in open PROVE <<p, q>> \in before <=> <<cand(p), cand(q)>> \in R
    OBVIOUS
  <2>1. cand(p) \in C /\ cand(q) \in C
    BY <1>7
  <2>2. Cheaper(cand(p), cand(q)) <=> <<cand(p), cand(q)>> \in R
    BY <1>13, <2>1
  <2>3. Cheaper(cand(q), cand(p)) <=> <<cand(q), cand(p)>> \in R
    BY <1>13, <2>1
  <2>4. <<p, q>> \in before <=> (Cheaper(cand(p), cand(q)) \/ (~Cheaper(cand(q), cand(p)) /\ Precedes(p, q)))
    BY <1>12, Zenon
  <2>5. CASE p = q
    <3>1. ~Precedes(p, q)
      BY <1>14, <2>5, Zenon
    <3>2. <<p, q>> \in before => Cheaper(cand(p), cand(q))
      BY <2>4, <3>1
    <3>3. Cheaper(cand(p), cand(q)) => <<p, q>> \in before
      BY <2>4
    <3> QED BY <2>2, <3>2, <3>3
  <2>6. CASE p # q
    <3>1. cand(p) # cand(q)
      BY <1>9, <2>6
    <3>2. <<cand(p), cand(q)>> \in R \/ <<cand(q), cand(p)>> \in R
      BY <1>11, <2>1, <3>1 DEF Orders
    <3>3. ASSUME <<p, q>> \in before PROVE <<cand(p), cand(q)>> \in R
      BY <2>2, <2>3, <2>4, <3>2, <3>3
    <3>4. Cheaper(cand(p), cand(q)) => <<p, q>> \in before
      BY <2>4
    <3> QED BY <2>2, <3>3, <3>4
  <2> QED BY <2>5, <2>6
<1>16. Orders(before, open)
  <2>1. \A p \in open : <<p, p>> \notin before
    BY <1>7, <1>11, <1>15 DEF Orders
  <2>2. ASSUME NEW p \in open, NEW q \in open PROVE p = q \/ <<p, q>> \in before \/ <<q, p>> \in before
    <3>1. cand(p) \in C /\ cand(q) \in C
      BY <1>7
    <3>2. p # q => cand(p) # cand(q)
      BY <1>9
    <3> QED BY <1>11, <1>15, <3>1, <3>2 DEF Orders
  <2>3. ASSUME NEW p \in open, NEW q \in open, NEW r \in open, <<p, q>> \in before, <<q, r>> \in before
        PROVE  <<p, r>> \in before
    <3>1. cand(p) \in C /\ cand(q) \in C /\ cand(r) \in C
      BY <1>7
    <3>2. <<cand(p), cand(q)>> \in R /\ <<cand(q), cand(r)>> \in R
      BY <1>15, <2>3
    <3>3. <<cand(p), cand(r)>> \in R
      BY <1>11, <3>1, <3>2 DEF Orders
    <3> QED BY <1>15, <3>3
  <2> QED BY <2>1, <2>2, <2>3 DEF Orders
<1>17. /\ Cardinality(open) \in Nat /\ DOMAIN order = 1 .. Cardinality(open)
       /\ Enumerates(order, open, before)
  BY <1>3, <1>16, InOrderEnumerates
<1> HIDE DEF order, s
<1>18. DOMAIN s = 1 .. Cardinality(open) /\ s = [n \in 1 .. Cardinality(open) |-> s[n]]
  BY <1>2, <1>17
<1>19. \A n \in DOMAIN s : s[n] = cand(order[n]) /\ order[n] \in open /\ n \in DOMAIN order
  BY <1>2, <1>17 DEF Enumerates
<1>20. Enumerates(s, C, R)
  <2>1. \A n \in DOMAIN s : s[n] \in C
    BY <1>7, <1>19
  <2>2. ASSUME NEW c \in C PROVE \E n \in DOMAIN s : s[n] = c
    <3>1. PICK p \in open : cand(p) = c
      BY <1>8
    <3>2. PICK n \in DOMAIN order : order[n] = p
      BY <1>17 DEF Enumerates
    <3>3. n \in DOMAIN s
      BY <1>17, <1>18
    <3> QED BY <1>19, <3>1, <3>2, <3>3
  <2>3. ASSUME NEW m \in DOMAIN s, NEW n \in DOMAIN s, m < n PROVE <<s[m], s[n]>> \in R
    <3>1. <<order[m], order[n]>> \in before
      BY <1>17, <1>19, <2>3 DEF Enumerates
    <3> QED BY <1>15, <1>19, <3>1
  <2> QED BY <2>1, <2>2, <2>3 DEF Enumerates
<1>21. IsFiniteSet(C) /\ s = InOrder(C, R)
  BY <1>11, <1>17, <1>18, <1>20, EnumerationIsInOrder
<1> QED BY <1>21, Zenon DEF C, R, s

-----------------------------------------------------------------------------
(* What a NodeClaim may get. *)

\* c is what a NodeClaim may get of the server type st.
OnOffer(c, want, st, sp, gone) ==
  /\ Supported(st) /\ st.name \in want.types /\ st.size >= want.size
  /\ c.name = st.name /\ c.loc \in SoldTo(st, sp) \cap want.locs /\ <<st.name, c.loc>> \notin gone
  /\ c.price = st.price[c.loc] + Surcharge(sp)

\* All that a NodeClaim may get, without the order of any list.
Menu(want, types, sp, gone) == {c \in Candidate : \E i \in DOMAIN types : OnOffer(c, want, types[i], sp, gone)}

\* A type is sold in locations, and has a price in each.
LEMMA SoldToFacts ==
  ASSUME NEW types, WellFormed(types), NEW i \in DOMAIN types, NEW sp, NEW l \in SoldTo(types[i], sp), catalog.ipv4 \in Nat
  PROVE  l \in Nat /\ types[i].price[l] + Surcharge(sp) \in Nat
<1> DEFINE ls == types[i].locs
           pr == types[i].price
<1>1. PICK k \in DOMAIN ls : l = ls[k].loc /\ l \in DOMAIN pr
  BY DEF SoldTo
<1>2. ls \in Seq(Location) /\ \A x \in DOMAIN pr : pr[x] \in Nat
  BY DEF WellFormed
<1> HIDE DEF ls, pr
<1>3. ls[k] \in Location
  BY <1>1, <1>2, EntryOf
<1>4. l \in Nat /\ pr[l] \in Nat
  BY <1>1, <1>2, <1>3 DEF Location
<1>5. Surcharge(sp) \in Nat
  BY DEF Surcharge
<1>6. pr[l] + Surcharge(sp) \in Nat
  BY <1>4, <1>5
<1> QED BY <1>4, <1>6 DEF pr

\* The candidates of a create are the menu, from the cheapest on.
LEMMA CandidatesAreMenu ==
  ASSUME NEW want, NEW types, WellFormed(types), NEW sp, NEW gone, catalog.ipv4 \in Nat
  PROVE  LET M == Menu(want, types, sp, gone)
         IN orderedCandidates(want, Build(types, sp, gone)) = InOrder(M, CheaperOn(M)) /\ IsFiniteSet(M)
<1> DEFINE its == Build(types, sp, gone)
           kept == Sellable(types, sp, gone)
           M == Menu(want, types, sp, gone)
           C == OpenAmong(want, its)
<1>1. \E N \in Nat : \E at \in [1 .. N -> kept] : ListsBy(its, N, at, types, sp, gone)
  BY BuildFacts
<1>2. \A i \in kept : i \in DOMAIN types /\ Supported(types[i])
  BY DEF Sellable
<1>3. \A i \in DOMAIN types : Supported(types[i]) /\ Offerings(types[i], sp, gone) # <<>> => i \in kept
  BY DEF Sellable
<1> HIDE DEF its
<1>4. PICK N \in Nat : \E at \in [1 .. N -> kept] : ListsBy(its, N, at, types, sp, gone)
  BY <1>1, Zenon
<1>5. PICK at \in [1 .. N -> kept] : ListsBy(its, N, at, types, sp, gone)
  BY <1>4, Zenon
<1>6. /\ at \in [1 .. N -> kept] /\ DOMAIN its = 1 .. N
      /\ \A n \in 1 .. N : /\ its[n].name = types[at[n]].name /\ its[n].size = types[at[n]].size
                           /\ its[n].offerings = Offerings(types[at[n]], sp, gone)
      /\ \A i \in kept : \E n \in 1 .. N : at[n] = i
      /\ \A m, n \in 1 .. N : its[m].name = its[n].name => m = n
  BY <1>5, Zenon DEF ListsBy
<1> HIDE DEF kept
<1>7. ASSUME NEW n \in 1 .. N
      PROVE  /\ at[n] \in DOMAIN types /\ Supported(types[at[n]]) /\ types[at[n]].name \in Nat
             /\ OffersOf(its[n].offerings, types[at[n]], sp, gone)
             /\ \A b \in DOMAIN its[n].offerings : its[n].offerings[b].loc \in Nat /\ its[n].offerings[b].price \in Nat
  <2> DEFINE st == types[at[n]]
             o == its[n].offerings
  <2>1. at[n] \in DOMAIN types /\ Supported(st) /\ st.name \in Nat
    BY <1>2, <1>6 DEF WellFormed
  <2>2. o = Offerings(st, sp, gone)
    BY <1>6
  <2>3. OffersOf(o, st, sp, gone)
    BY <2>1, <2>2, OfferingsFacts
  <2> HIDE DEF o
  <2>4. ASSUME NEW b \in DOMAIN o PROVE o[b].loc \in Nat /\ o[b].price \in Nat
    <3>1. o[b].loc \in SoldTo(st, sp) /\ o[b].price = st.price[o[b].loc] + Surcharge(sp)
      BY <2>3 DEF OffersOf
    <3>2. o[b].loc \in Nat /\ st.price[o[b].loc] + Surcharge(sp) \in Nat
      BY <2>1, <3>1, SoldToFacts
    <3> QED BY <3>1, <3>2
  <2> QED BY <2>1, <2>3, <2>4, Zenon DEF o
<1>8. /\ \A n \in 1 .. N :
           /\ its[n].name \in Nat
           /\ \E K \in Nat : DOMAIN its[n].offerings = 1 .. K
           /\ \A b \in DOMAIN its[n].offerings : its[n].offerings[b].loc \in Nat /\ its[n].offerings[b].price \in Nat
           /\ \A a, b \in DOMAIN its[n].offerings : its[n].offerings[a].loc = its[n].offerings[b].loc => a = b
      /\ \A m, n \in 1 .. N : its[m].name = its[n].name => m = n
  BY <1>6, <1>7, Zenon DEF OffersOf
<1>9. orderedCandidates(want, its) = InOrder(C, CheaperOn(C)) /\ IsFiniteSet(C)
  BY <1>6, <1>8, CandidatesAreSorted, Zenon
<1>10. ASSUME NEW c \in C PROVE c \in M
  <2>1. c \in Candidate /\ \E n \in DOMAIN its : \E b \in DOMAIN its[n].offerings :
          /\ its[n].name \in want.types /\ its[n].size >= want.size
          /\ its[n].offerings[b].available /\ its[n].offerings[b].loc \in want.locs
          /\ c = [name |-> its[n].name, loc |-> its[n].offerings[b].loc, price |-> its[n].offerings[b].price]
    BY DEF OpenAmong
  <2>2. PICK n \in 1 .. N : \E b \in DOMAIN its[n].offerings :
          /\ its[n].name \in want.types /\ its[n].size >= want.size
          /\ its[n].offerings[b].available /\ its[n].offerings[b].loc \in want.locs
          /\ c = [name |-> its[n].name, loc |-> its[n].offerings[b].loc, price |-> its[n].offerings[b].price]
    BY <1>6, <2>1, Zenon
  <2> DEFINE st == types[at[n]]
             o == its[n].offerings
  <2>3. PICK b \in DOMAIN o :
          /\ its[n].name \in want.types /\ its[n].size >= want.size
          /\ o[b].available /\ o[b].loc \in want.locs
          /\ c = [name |-> its[n].name, loc |-> o[b].loc, price |-> o[b].price]
    BY <2>2
  <2>4. its[n].name = st.name /\ its[n].size = st.size
    BY <1>6
  <2>5. /\ at[n] \in DOMAIN types /\ Supported(st)
        /\ o[b].loc \in SoldTo(st, sp) /\ o[b].price = st.price[o[b].loc] + Surcharge(sp)
        /\ o[b].available = (<<st.name, o[b].loc>> \notin gone)
    BY <1>7, Zenon DEF OffersOf
  <2> HIDE DEF o
  <2>6. c.name = st.name /\ c.loc = o[b].loc /\ c.price = o[b].price
    BY <2>3, <2>4
  <2> HIDE DEF st
  <2>7. OnOffer(c, want, st, sp, gone)
    BY <2>3, <2>4, <2>5, <2>6 DEF OnOffer
  <2> QED BY <2>1, <2>5, <2>7 DEF Menu, st
<1>11. ASSUME NEW c \in M PROVE c \in C
  <2>1. PICK i \in DOMAIN types : OnOffer(c, want, types[i], sp, gone)
    BY DEF Menu
  <2>2. c \in Candidate
    BY DEF Menu
  <2> DEFINE st == types[i]
             p == Offerings(st, sp, gone)
  <2>3. /\ Supported(st) /\ st.name \in want.types /\ st.size >= want.size
        /\ c.name = st.name /\ c.loc \in SoldTo(st, sp) /\ c.loc \in want.locs /\ <<st.name, c.loc>> \notin gone
        /\ c.price = st.price[c.loc] + Surcharge(sp)
    BY <2>1 DEF OnOffer
  <2>4. i \in kept
    <3>1. OffersOf(p, st, sp, gone)
      BY OfferingsFacts
    <3>2. PICK b \in DOMAIN p : p[b].loc = c.loc
      BY <2>3, <3>1, Zenon DEF OffersOf
    <3>3. p # <<>>
      BY <3>2
    <3> QED BY <1>3, <2>3, <3>3
  <2>5. PICK n \in 1 .. N : at[n] = i
    BY <1>6, <2>4
  <2> DEFINE o == its[n].offerings
  <2>6. OffersOf(o, st, sp, gone)
    BY <1>7, <2>5
  <2> HIDE DEF o
  <2>7. PICK b \in DOMAIN o : o[b].loc = c.loc
    BY <2>3, <2>6, Zenon DEF OffersOf
  <2>8. o[b].price = st.price[c.loc] + Surcharge(sp) /\ o[b].available = (<<st.name, c.loc>> \notin gone)
    BY <2>7, <2>6 DEF OffersOf
  <2>9. its[n].name = st.name /\ its[n].size = st.size /\ n \in DOMAIN its
    BY <1>6, <2>5
  <2>10. c = [name |-> its[n].name, loc |-> o[b].loc, price |-> o[b].price]
    BY <2>2, <2>3, <2>7, <2>8, <2>9 DEF Candidate
  <2>11. o[b].available /\ o[b].loc \in want.locs /\ its[n].name \in want.types /\ its[n].size >= want.size
    BY <2>3, <2>7, <2>8, <2>9
  <2> QED BY <2>2, <2>9, <2>10, <2>11, Zenon DEF OpenAmong, o
<1>12. C = M
  BY <1>10, <1>11
<1> QED BY <1>9, <1>12, Zenon DEF its

-----------------------------------------------------------------------------
(* The order of the listing. *)

\* Two listings of a catalog: the same types in the same locations, in any order.
SameType(a, b) ==
  /\ a.name = b.name /\ a.size = b.size /\ Supported(a) = Supported(b) /\ a.price = b.price
  /\ Range(a.locs) = Range(b.locs)
Relists(t1, t2) ==
  /\ \A i \in DOMAIN t1 : \E k \in DOMAIN t2 : SameType(t1[i], t2[k])
  /\ \A k \in DOMAIN t2 : \E i \in DOMAIN t1 : SameType(t1[i], t2[k])

\* The order of a type's locations does not change where it is sold.
LEMMA SoldToSame == ASSUME NEW a, NEW b, NEW sp, SameType(a, b) PROVE SoldTo(a, sp) = SoldTo(b, sp)
<1> DEFINE E(s) == {e \in Range(s) : locationFilter(sp.locations, e.loc) /\ ~e.deprecated /\ e.loc \in DOMAIN a.price}
           G(s) == {s[j].loc : j \in {k \in DOMAIN s : locationFilter(sp.locations, s[k].loc) /\ ~s[k].deprecated
                                                       /\ s[k].loc \in DOMAIN a.price}}
<1>1. \A s : G(s) = {e.loc : e \in E(s)}
  BY DEF Range
<1>2. SoldTo(a, sp) = G(a.locs) /\ SoldTo(b, sp) = G(b.locs)
  BY DEF SoldTo, SameType
<1>3. E(a.locs) = E(b.locs)
  BY DEF SameType
<1> HIDE DEF E, G
<1> QED BY <1>1, <1>2, <1>3

\* What is on offer does not depend on the listing.
LEMMA OnOfferSame ==
  ASSUME NEW a, NEW b, SameType(a, b), NEW c, NEW want, NEW sp, NEW gone
  PROVE  OnOffer(c, want, a, sp, gone) <=> OnOffer(c, want, b, sp, gone)
<1>1. SoldTo(a, sp) = SoldTo(b, sp)
  BY SoldToSame
<1>2. a.name = b.name /\ a.size = b.size /\ Supported(a) = Supported(b) /\ a.price = b.price
  BY DEF SameType
<1> QED BY <1>1, <1>2, Zenon DEF OnOffer

\* The candidates do not depend on the order in which the API lists types and
\* locations: every listing of a catalog gives the same candidates.
THEOREM ListingDoesNotMatter ==
  ASSUME NEW want, NEW t1, NEW t2, WellFormed(t1), WellFormed(t2), Relists(t1, t2), NEW sp, NEW gone, catalog.ipv4 \in Nat
  PROVE  orderedCandidates(want, Build(t1, sp, gone)) = orderedCandidates(want, Build(t2, sp, gone))
<1> DEFINE M1 == Menu(want, t1, sp, gone)
           M2 == Menu(want, t2, sp, gone)
<1>1. ASSUME NEW c \in M1 PROVE c \in M2
  <2>1. PICK i \in DOMAIN t1 : OnOffer(c, want, t1[i], sp, gone)
    BY DEF Menu
  <2>2. PICK k \in DOMAIN t2 : SameType(t1[i], t2[k])
    BY DEF Relists
  <2>3. OnOffer(c, want, t2[k], sp, gone)
    BY <2>1, <2>2, OnOfferSame
  <2> QED BY <2>3 DEF Menu
<1>2. ASSUME NEW c \in M2 PROVE c \in M1
  <2>1. PICK k \in DOMAIN t2 : OnOffer(c, want, t2[k], sp, gone)
    BY DEF Menu
  <2>2. PICK i \in DOMAIN t1 : SameType(t1[i], t2[k])
    BY DEF Relists
  <2>3. OnOffer(c, want, t1[i], sp, gone)
    BY <2>1, <2>2, OnOfferSame
  <2> QED BY <2>3 DEF Menu
<1>3. M1 = M2
  BY <1>1, <1>2
<1>4. orderedCandidates(want, Build(t1, sp, gone)) = InOrder(M1, CheaperOn(M1))
  BY CandidatesAreMenu
<1>5. orderedCandidates(want, Build(t2, sp, gone)) = InOrder(M2, CheaperOn(M2))
  BY CandidatesAreMenu
<1> QED BY <1>3, <1>4, <1>5, Zenon

\* A sequence read backwards has the same entries, each as often.
LEMMA BackwardsFacts ==
  ASSUME NEW S, NEW s \in Seq(S)
  PROVE  /\ Backwards(s) \in Seq(S) /\ DOMAIN Backwards(s) = 1 .. Len(s) /\ DOMAIN s = 1 .. Len(s) /\ Len(s) \in Nat
         /\ \A i \in 1 .. Len(s) : Len(s) - i + 1 \in 1 .. Len(s) /\ Backwards(s)[i] = s[Len(s) - i + 1]
         /\ Range(Backwards(s)) = Range(s)
<1> DEFINE N == Len(s)
           r == Backwards(s)
<1>1. N \in Nat /\ DOMAIN s = 1 .. N /\ \A i \in 1 .. N : s[i] \in S
  BY LenProperties, ElementOfSeq
<1>2. r = [i \in 1 .. N |-> s[N - i + 1]]
  BY Zenon DEF Backwards
<1> HIDE DEF N, r
<1>3. \A i \in 1 .. N : N - i + 1 \in 1 .. N /\ N - (N - i + 1) + 1 = i
  BY <1>1
<1>4. DOMAIN r = 1 .. N /\ \A i \in 1 .. N : r[i] = s[N - i + 1]
  BY <1>2
<1>5. r \in [1 .. N -> S]
  BY <1>1, <1>2, <1>3
<1>6. r \in Seq(S)
  BY <1>1, <1>5, LenOf
<1>7. \A i \in 1 .. N : r[N - i + 1] = s[i]
  BY <1>3, <1>4
<1>8. Range(r) = Range(s)
  BY <1>1, <1>3, <1>4, <1>7 DEF Range
<1> QED BY <1>1, <1>3, <1>4, <1>6, <1>8 DEF N, r

\* A catalog read backwards is another listing of it.
LEMMA MirroredRelists ==
  ASSUME NEW types, WellFormed(types)
  PROVE  WellFormed(Mirrored(types)) /\ Relists(types, Mirrored(types))
<1> DEFINE N == Len(types)
           turned(i) == [types[i] EXCEPT !.locs = Backwards(@)]
           f == [i \in DOMAIN types |-> turned(i)]
           r == Mirrored(types)
           T == {turned(i) : i \in DOMAIN types}
<1>1. types \in Seq(Range(types))
  BY DEF WellFormed
<1>2. N \in Nat /\ DOMAIN types = 1 .. N
  BY <1>1, LenProperties
<1>3. ASSUME NEW i \in DOMAIN types
      PROVE  /\ turned(i).name = types[i].name /\ turned(i).size = types[i].size /\ turned(i).price = types[i].price
             /\ turned(i).arch = types[i].arch /\ turned(i).deprecated = types[i].deprecated
             /\ turned(i).locs = Backwards(types[i].locs) /\ DOMAIN turned(i) = DOMAIN types[i]
  <2>1. DOMAIN types[i] = {"name", "arch", "deprecated", "size", "locs", "price"}
    BY DEF WellFormed
  <2> QED BY <2>1
<1>4. f \in Seq(T) /\ Len(f) = N
  <2>1. f \in [1 .. N -> T]
    BY <1>2
  <2> HIDE DEF f, T, N
  <2> QED BY <1>2, <2>1, LenOf
<1>5. r = Backwards(f)
  BY DEF Mirrored
<1>6. f = [i \in 1 .. N |-> turned(i)]
  BY <1>2
<1> HIDE DEF f, T, r, N, turned
<1>7. /\ r \in Seq(T) /\ DOMAIN r = 1 .. N
      /\ \A i \in 1 .. N : N - i + 1 \in 1 .. N /\ r[i] = turned(N - i + 1)
  <2>1. /\ r \in Seq(T) /\ DOMAIN r = 1 .. Len(f)
        /\ \A i \in 1 .. Len(f) : Len(f) - i + 1 \in 1 .. Len(f) /\ r[i] = f[Len(f) - i + 1]
    BY <1>4, <1>5, BackwardsFacts
  <2> QED BY <1>4, <1>6, <2>1
<1>8. \A i \in 1 .. N : SameType(types[i], turned(i))
  <2> SUFFICES ASSUME NEW i \in 1 .. N PROVE SameType(types[i], turned(i))
    OBVIOUS
  <2>1. types[i].locs \in Seq(Location)
    BY <1>2 DEF WellFormed
  <2>2. Range(Backwards(types[i].locs)) = Range(types[i].locs)
    BY <2>1, BackwardsFacts
  <2>3. Supported(types[i]) = Supported(turned(i))
    BY <1>2, <1>3, Zenon DEF Supported
  <2> QED BY <1>2, <1>3, <2>2, <2>3 DEF SameType
<1>9. Relists(types, r)
  <2>1. ASSUME NEW i \in DOMAIN types PROVE \E k \in DOMAIN r : SameType(types[i], r[k])
    <3>1. N - i + 1 \in 1 .. N /\ N - (N - i + 1) + 1 = i /\ i \in 1 .. N
      BY <1>2
    <3>2. r[N - i + 1] = turned(i)
      BY <1>7, <3>1
    <3> QED BY <1>7, <1>8, <3>1, <3>2
  <2>2. ASSUME NEW k \in DOMAIN r PROVE \E i \in DOMAIN types : SameType(types[i], r[k])
    BY <1>2, <1>7, <1>8
  <2> QED BY <2>1, <2>2 DEF Relists
<1>10. WellFormed(r)
  <2>1. r \in Seq(Range(r))
    <3>1. r \in [1 .. N -> Range(r)]
      <4>1. r = [i \in 1 .. N |-> r[i]]
        <5>1. Len(r) = N
          BY <1>2, <1>7, LenProperties
        <5> QED BY <1>7, <5>1
      <4> QED BY <1>7, <4>1 DEF Range
    <3> QED BY <1>2, <3>1, LenOf
  <2>2. ASSUME NEW k \in DOMAIN r
        PROVE  /\ DOMAIN r[k] = {"name", "arch", "deprecated", "size", "locs", "price"}
               /\ r[k].name \in Nat /\ r[k].size \in Nat
               /\ r[k].locs \in Seq(Location)
               /\ \A l \in DOMAIN r[k].price : r[k].price[l] \in Nat
               /\ \A m \in DOMAIN r : r[k].name = r[m].name => k = m
               /\ \A a, b \in DOMAIN r[k].locs : r[k].locs[a].loc = r[k].locs[b].loc => a = b
    <3> DEFINE i == N - k + 1
               ls == types[i].locs
    <3>1. i \in 1 .. N /\ r[k] = turned(i) /\ k \in 1 .. N
      BY <1>7
    <3> HIDE DEF i
    <3>2. /\ r[k].name = types[i].name /\ r[k].size = types[i].size /\ r[k].price = types[i].price
          /\ r[k].locs = Backwards(ls) /\ DOMAIN r[k] = DOMAIN types[i]
      BY <1>2, <1>3, <3>1
    <3>3. /\ DOMAIN types[i] = {"name", "arch", "deprecated", "size", "locs", "price"}
          /\ types[i].name \in Nat /\ types[i].size \in Nat
          /\ ls \in Seq(Location)
          /\ \A l \in DOMAIN types[i].price : types[i].price[l] \in Nat
          /\ \A a, b \in DOMAIN ls : ls[a].loc = ls[b].loc => a = b
      BY <1>2, <3>1 DEF WellFormed
    <3>4. ASSUME NEW m \in DOMAIN r, r[k].name = r[m].name PROVE k = m
      <4>1. N - m + 1 \in 1 .. N /\ r[m] = turned(N - m + 1) /\ m \in 1 .. N
        BY <1>7
      <4>2. types[i].name = types[N - m + 1].name
        BY <1>2, <1>3, <3>1, <3>4, <4>1
      <4>3. i = N - m + 1
        BY <1>2, <3>1, <4>1, <4>2 DEF WellFormed
      <4> QED BY <1>2, <3>1, <4>1, <4>3 DEF i
    <3> HIDE DEF ls
    <3>5. ASSUME NEW a \in DOMAIN Backwards(ls), NEW b \in DOMAIN Backwards(ls), Backwards(ls)[a].loc = Backwards(ls)[b].loc
          PROVE  a = b
      <4>1. /\ Backwards(ls) \in Seq(Location) /\ DOMAIN Backwards(ls) = 1 .. Len(ls) /\ DOMAIN ls = 1 .. Len(ls) /\ Len(ls) \in Nat
            /\ \A j \in 1 .. Len(ls) : Len(ls) - j + 1 \in 1 .. Len(ls) /\ Backwards(ls)[j] = ls[Len(ls) - j + 1]
        BY <3>3, BackwardsFacts
      <4> DEFINE x == Len(ls) - a + 1
                 y == Len(ls) - b + 1
      <4>2. x \in DOMAIN ls /\ Backwards(ls)[a] = ls[x] /\ y \in DOMAIN ls /\ Backwards(ls)[b] = ls[y]
        BY <4>1
      <4> HIDE DEF x, y
      <4>3. x = y
        BY <3>3, <3>5, <4>2
      <4>4. Len(ls) - a + 1 = Len(ls) - b + 1
        BY <4>3 DEF x, y
      <4> QED BY <4>1, <4>4
    <3>6. Backwards(ls) \in Seq(Location)
      BY <3>3, BackwardsFacts
    <3> QED BY <3>2, <3>3, <3>4, <3>5, <3>6
  <2> QED BY <2>1, <2>2 DEF WellFormed
<1> QED BY <1>9, <1>10 DEF r

-----------------------------------------------------------------------------
(* The inductive invariant. *)

\* What every state has: a catalog as Hetzner lists it, a spec the API server admits,
\* and servers ordered as the class would order them now, where it allows them.
PlacementInv ==
  /\ WellFormed(catalog.types) /\ catalog.fetched \in BOOLEAN /\ catalog.ipv4 \in Nat
  /\ spec \in Specs
  /\ \A srv \in servers :
       /\ srv.req = baseRequest(spec, status)
       /\ spec.locations # <<>> => srv.loc \in Range(status.locations)

\* A process starts without a catalog and without servers.
LEMMA PlacementStarts == PlacementInit => PlacementInv
<1> SUFFICES ASSUME PlacementInit PROVE PlacementInv
  OBVIOUS
<1>1. catalog.types = <<>> /\ catalog.fetched = FALSE /\ catalog.ipv4 = 0
  BY DEF PlacementInit, NotFetched
<1>2. WellFormed(<<>>)
  BY DEF WellFormed, Range
<1>3. servers = {} /\ spec \in Specs
  BY DEF PlacementInit
<1>4. WellFormed(catalog.types)
  BY <1>1, <1>2
<1>5. catalog.ipv4 \in Nat
  BY <1>1
<1> QED BY <1>1, <1>3, <1>4, <1>5, Zenon DEF PlacementInv

\* A candidate is a pair of a create's menu.
LEMMA CandidateFacts ==
  ASSUME NEW want, WellFormed(catalog.types), catalog.ipv4 \in Nat
  PROVE  LET M == Menu(want, catalog.types, spec, unavailable)
             s == Candidates(want)
         IN /\ Len(s) \in Nat /\ DOMAIN s = 1 .. Len(s)
            /\ Enumerates(s, M, CheaperOn(M))
            /\ M \in SUBSET Candidate
<1> DEFINE M == Menu(want, catalog.types, spec, unavailable)
           R == CheaperOn(M)
           s == Candidates(want)
<1>1. s = InOrder(M, R) /\ IsFiniteSet(M)
  BY CandidatesAreMenu DEF Candidates
<1>2. M \in SUBSET Candidate
  BY DEF Menu
<1>3. Orders(R, M)
  BY <1>2, CheaperOrders
<1>4. s = [k \in 1 .. Cardinality(M) |-> s[k]]
  BY <1>1, InOrderIsFunction
<1> HIDE DEF M, R, s
<1>5. Cardinality(M) \in Nat /\ DOMAIN s = 1 .. Cardinality(M) /\ Enumerates(s, M, R)
  BY <1>1, <1>3, InOrderEnumerates
<1>6. s \in [1 .. Cardinality(M) -> M]
  BY <1>4, <1>5 DEF Enumerates
<1>7. Len(s) = Cardinality(M)
  BY <1>5, <1>6, LenOf
<1> QED BY <1>2, <1>5, <1>7, Zenon DEF M, R, s

\* What is on offer to a class is in a location validation counts as usable, if the
\* network reaches it.
LEMMA OnOfferIsUsable ==
  ASSUME NEW types, NEW i \in DOMAIN types, NEW c, NEW want, NEW sp, NEW gone, NEW zone,
         OnOffer(c, want, types[i], sp, gone), ~Outside(ZoneOf(types, c.loc), zone)
  PROVE  c.loc \in UsableIn(types, sp.locations, zone)
<1>1. Supported(types[i]) /\ c.loc \in SoldTo(types[i], sp)
  BY DEF OnOffer
<1>2. PICK j \in DOMAIN types[i].locs :
        /\ c.loc = types[i].locs[j].loc /\ ~types[i].locs[j].deprecated /\ locationFilter(sp.locations, c.loc)
  BY <1>1 DEF SoldTo
<1>3. <<i, j>> \in Entries(types) /\ LocationAt(types, <<i, j>>).loc = c.loc
  <2> DEFINE J(k) == {m \in DOMAIN types[k].locs : ~types[k].locs[m].deprecated}
  <2>1. i \in {k \in DOMAIN types : Supported(types[k])} /\ j \in J(i)
    BY <1>1, <1>2
  <2>2. <<i, j>> \in {i} \X J(i)
    BY <2>1
  <2>3. <<i, j>> \in Entries(types)
    BY <2>1, <2>2, Zenon DEF Entries
  <2> QED BY <1>2, <2>3 DEF LocationAt
<1>4. c.loc \in Offered(types)
  BY <1>3 DEF Offered
<1>5. sp.locations # <<>> => c.loc \in Range(sp.locations)
  BY <1>2 DEF locationFilter
<1> QED BY <1>4, <1>5 DEF UsableIn

\* The walk along the candidates stays inside the list.
LEMMA WithinCandidates ==
  ASSUME NEW K \in Nat, NEW n \in 1 .. (IF K < MaxAttempts THEN K ELSE MaxAttempts)
  PROVE  n \in 1 .. K
BY LimitsAreSane

\* A server that a validated class orders is in one of its published locations.
LEMMA OrderedWherePublished ==
  ASSUME PlacementInv, NEW want, NEW n \in 1 .. Len(Candidates(want)),
         status.st = "True", status = Validated(catalog, spec, status.refs), Attaches(Candidates(want)[n].loc)
  PROVE  Candidates(want)[n].loc \in Range(status.locations)
<1> DEFINE M == Menu(want, catalog.types, spec, unavailable)
           c == Candidates(want)[n]
           zone == status.refs.zone
<1>1. WellFormed(catalog.types) /\ catalog.ipv4 \in Nat /\ catalog.fetched \in BOOLEAN /\ spec.locations \in Seq(Nat)
  BY SpecsAreSane DEF PlacementInv
<1>2. c \in M
  BY <1>1, CandidateFacts DEF Enumerates
<1> HIDE DEF c
<1>3. PICK i \in DOMAIN catalog.types : OnOffer(c, want, catalog.types[i], spec, unavailable)
  BY <1>2 DEF Menu
<1>4. ~Outside(ZoneOf(catalog.types, c.loc), zone)
  BY DEF Attaches, c
<1>5. c.loc \in UsableIn(catalog.types, spec.locations, zone)
  BY <1>3, <1>4, OnOfferIsUsable
<1>6. Range(status.locations) = UsableIn(catalog.types, spec.locations, zone)
  <2> DEFINE v == Validated(catalog, spec, status.refs)
  <2>1. ExactVerdict(v, catalog, spec, status.refs)
    BY <1>1, ValidatedFacts
  <2>2. status = v
    OBVIOUS
  <2> HIDE DEF v
  <2> QED BY <2>1, <2>2, Zenon DEF ExactVerdict
<1> QED BY <1>5, <1>6 DEF c

\* An edit changes nothing, or leaves no server of the new class.
LEMMA EditPreserves == ASSUME PlacementInv, Edit PROVE PlacementInv'
<1>1. catalog' = catalog /\ status' = status /\ spec' \in Specs /\ (servers' = {} \/ (spec' = spec /\ servers' = servers))
  BY DEF Edit, Forget
<1> QED BY <1>1, Zenon DEF PlacementInv

\* A pass that publishes something else leaves no server of the new status.
LEMMA PassPreserves == ASSUME PlacementInv, Pass PROVE PlacementInv'
<1>1. catalog' = catalog /\ spec' = spec /\ (servers' = {} \/ (status' = status /\ servers' = servers))
  BY DEF Pass, Forget
<1> QED BY <1>1, Zenon DEF PlacementInv

\* A create orders what the class asks for, where the class may be.
LEMMA CreatePreserves == ASSUME PlacementInv, Create PROVE PlacementInv'
<1>1. catalog' = catalog /\ spec' = spec /\ status' = status /\ status.st = "True"
  BY DEF Create
<1>2. PICK want \in Wants : \E n \in 1 .. (IF Len(Candidates(want)) < MaxAttempts THEN Len(Candidates(want)) ELSE MaxAttempts) :
        \/ servers' = servers
        \/ /\ Attaches(Candidates(want)[n].loc)
           /\ servers' = IF status = Validated(catalog, spec, status.refs)
                         THEN servers \cup {[req |-> baseRequest(spec, status), loc |-> Candidates(want)[n].loc]} ELSE servers
  BY Zenon DEF Create
<1> DEFINE cands == Candidates(want)
           K == Len(cands)
<1>3. PICK n \in 1 .. (IF K < MaxAttempts THEN K ELSE MaxAttempts) :
        \/ servers' = servers
        \/ /\ Attaches(cands[n].loc) /\ status = Validated(catalog, spec, status.refs)
           /\ servers' = servers \cup {[req |-> baseRequest(spec, status), loc |-> cands[n].loc]}
  BY <1>2
<1>4. WellFormed(catalog.types) /\ catalog.ipv4 \in Nat
  BY DEF PlacementInv
<1>5. K \in Nat
  BY <1>4, CandidateFacts
<1> HIDE DEF K
<1>6. n \in 1 .. K
  BY <1>5, WithinCandidates
<1> HIDE DEF cands
<1> DEFINE new == [req |-> baseRequest(spec, status), loc |-> cands[n].loc]
<1>7. new.req = baseRequest(spec, status) /\ new.loc = cands[n].loc
  OBVIOUS
<1>8. Attaches(cands[n].loc) /\ status = Validated(catalog, spec, status.refs) => new.loc \in Range(status.locations)
  BY <1>1, <1>6, <1>7, OrderedWherePublished DEF cands, K
<1>9. \/ servers' = servers
      \/ Attaches(cands[n].loc) /\ status = Validated(catalog, spec, status.refs) /\ servers' = servers \cup {new}
  BY <1>3
<1> HIDE DEF new
<1>10. ASSUME NEW srv \in servers'
       PROVE  /\ srv.req = baseRequest(spec', status')
              /\ spec'.locations # <<>> => srv.loc \in Range(status'.locations)
  <2>1. CASE srv \in servers
    BY <1>1, <2>1 DEF PlacementInv
  <2>2. CASE Attaches(cands[n].loc) /\ status = Validated(catalog, spec, status.refs) /\ srv = new
    BY <1>1, <1>7, <1>8, <2>2
  <2> QED BY <1>9, <2>1, <2>2
<1> QED BY <1>1, <1>10, Zenon DEF PlacementInv

\* The invariant is inductive.
LEMMA PlacementStep == PlacementInv /\ [PlacementNext]_placementVars => PlacementInv'
<1> SUFFICES ASSUME PlacementInv, [PlacementNext]_placementVars PROVE PlacementInv'
  OBVIOUS
<1>1. CASE CatalogLands
  <2>1. PICK types \in Catalogs, ipv4 \in {0, IPv4Price} : catalog' = [fetched |-> TRUE, types |-> types, ipv4 |-> ipv4]
    BY <1>1 DEF CatalogLands
  <2>2. catalog'.types = types /\ catalog'.fetched = TRUE /\ catalog'.ipv4 = ipv4
    BY <2>1
  <2>3. WellFormed(types) /\ ipv4 \in Nat
    BY CatalogsAreSane, LimitsAreSane
  <2>4. WellFormed(catalog'.types) /\ catalog'.fetched \in BOOLEAN /\ catalog'.ipv4 \in Nat
    BY <2>2, <2>3
  <2>5. spec' = spec /\ status' = status /\ servers' = servers
    BY <1>1 DEF CatalogLands
  <2> QED BY <2>4, <2>5 DEF PlacementInv
<1>2. CASE Edit
  BY <1>2, EditPreserves
<1>3. CASE Pass
  BY <1>3, PassPreserves
<1>4. CASE Create
  BY <1>4, CreatePreserves
<1>5. CASE UNCHANGED <<catalog, spec, status, servers>>
  BY <1>5, Zenon DEF PlacementInv
<1> QED BY <1>1, <1>2, <1>3, <1>4, <1>5 DEF PlacementNext, Expire, placementVars

\* The invariant holds throughout.
THEOREM PlacementInvariant == PlacementSpec => []PlacementInv
BY PlacementStarts, PlacementStep, PTL DEF PlacementSpec

-----------------------------------------------------------------------------
(* What the class publishes, and what drift compares. *)

\* What a create asks for is what drift compares with: a server of a class that has not
\* changed since, and was validated then, is not drifted, whatever the catalog, the
\* specs and the resolved ids, whatever of the class is unresolved, and whichever of
\* location and image Hetzner leaves out of its answer.
THEOREM WhatWasOrderedIsNotDrift == PlacementSpec => []FreshIsNotDrifted
<1>1. PlacementInv => FreshIsNotDrifted
  <2> SUFFICES ASSUME PlacementInv, NEW srv \in servers, NEW h \in Responses(srv)
               PROVE  serverDrift(spec, status, serverFromHcloud(h)) = ""
    BY DEF FreshIsNotDrifted, Drift
  <2> DEFINE rep == serverFromHcloud(h)
  <2>1. srv.req = baseRequest(spec, status) /\ (spec.locations # <<>> => srv.loc \in Range(status.locations))
    BY DEF PlacementInv
  <2>2. /\ srv.req.nets = Range(status.refs.net) \ {0}
        /\ srv.req.fws = Range(status.refs.fws) /\ srv.req.pg = status.refs.pg
        /\ srv.req.ipv4 = spec.ipv4 /\ srv.req.ipv6 = spec.ipv6 /\ srv.req.image = status.refs.image
    BY <2>1 DEF baseRequest
  <2>3. /\ h.loc \in {srv.loc, 0} /\ h.image \in {srv.req.image, 0} /\ h.nets = srv.req.nets /\ h.fws = srv.req.fws
        /\ h.pg = srv.req.pg /\ h.ipv4 = PrimaryIP(srv.req.ipv4) /\ h.ipv6 = PrimaryIP(srv.req.ipv6)
    BY DEF Responses
  <2>4. /\ rep.loc = h.loc /\ rep.image = h.image /\ rep.nets = h.nets /\ rep.fws = h.fws /\ rep.pg = h.pg
        /\ rep.ipv4 = (h.ipv4 # 0) /\ rep.ipv6 = (h.ipv6 # 0)
    BY DEF serverFromHcloud
  <2> HIDE DEF rep
  <2>5. rep.ipv4 = spec.ipv4 /\ rep.ipv6 = spec.ipv6
    <3>1. spec.ipv4 \in BOOLEAN /\ spec.ipv6 \in BOOLEAN
      BY SpecsAreSane DEF PlacementInv
    <3> QED BY <2>2, <2>3, <2>4, <3>1 DEF PrimaryIP
  <2>6. ~Elsewhere(spec, status, rep)
    BY <2>1, <2>3, <2>4 DEF Elsewhere
  <2>7. ~OtherNetwork(status, rep)
    <3>1. Range(<<>>) = {}
      BY DEF Range
    <3> QED BY <2>2, <2>3, <2>4, <3>1 DEF OtherNetwork
  <2>8. ~OtherImage(spec, status, rep)
    BY <2>2, <2>3, <2>4 DEF OtherImage
  <2>9. Range(status.refs.fws) = rep.fws /\ status.refs.pg = rep.pg
    BY <2>2, <2>3, <2>4
  <2>10. serverDrift(spec, status, rep) = ""
    BY <2>5, <2>6, <2>7, <2>8, <2>9, Zenon DEF serverDrift
  <2> QED BY <2>10 DEF rep
<1> QED BY <1>1, PlacementInvariant, PTL

\* The candidates do not depend on the order in which the API lists types and
\* locations, whatever the catalog: "without the tiebreaks ... the fleet never settles".
THEOREM CandidatesSettle == PlacementSpec => []OrderSettles
<1>1. PlacementInv => OrderSettles
  <2> SUFFICES ASSUME PlacementInv, NEW want \in Wants
               PROVE  Candidates(want) = orderedCandidates(want, Build(Mirrored(catalog.types), spec, unavailable))
    BY DEF OrderSettles
  <2>1. WellFormed(catalog.types) /\ catalog.ipv4 \in Nat
    BY DEF PlacementInv
  <2>2. WellFormed(Mirrored(catalog.types)) /\ Relists(catalog.types, Mirrored(catalog.types))
    BY <2>1, MirroredRelists
  <2> QED BY <2>1, <2>2, ListingDoesNotMatter DEF Candidates
<1> QED BY <1>1, PlacementInvariant, PTL

\* A pass publishes exactly the usable locations, each once, whatever spec.locations
\* repeats; a class is refused only over what the catalog offers, or over its image.
THEOREM PublishedScopeIsExact == PlacementSpec => ScopeIsExact
<1> DEFINE A == status' # status =>
       /\ catalog.fetched /\ status'.refs.arch \in {"", SupportedArchitecture} =>
            LET usable == {l \in Offered(catalog.types) : Usable(l)'}
            IN /\ Range(status'.locations) = usable
               /\ Len(status'.locations) = Cardinality(usable)
               /\ status'.st = "True" <=> usable # {}
       /\ status'.st = "False" => Offered(catalog.types) # {} \/ status'.refs.arch \notin {"", SupportedArchitecture}
<1>1. PlacementInv /\ [PlacementNext]_placementVars => [A]_placementVars
  <2> SUFFICES ASSUME PlacementInv, PlacementNext, status' # status PROVE A
    OBVIOUS
  <2>1. Pass
    BY DEF PlacementNext, CatalogLands, Edit, Create, Expire
  <2>2. PICK refs \in Refs : status' = Validated(catalog, spec, refs)
    BY <2>1 DEF Pass
  <2>3. catalog' = catalog /\ spec' = spec
    BY <2>1 DEF Pass
  <2>4. WellFormed(catalog.types) /\ catalog.fetched \in BOOLEAN /\ spec.locations \in Seq(Nat)
    BY SpecsAreSane DEF PlacementInv
  <2>5. ExactVerdict(status', catalog, spec, refs)
    BY <2>2, <2>4, ValidatedFacts
  <2>6. status'.refs = refs
    BY <2>5 DEF ExactVerdict
  <2>7. \A l \in Offered(catalog.types) :
          Usable(l)' <=> ~Outside(ZoneOf(catalog.types, l), refs.zone) /\ (spec.locations # <<>> => l \in Range(spec.locations))
    BY <2>3, <2>6 DEF Usable, Outside
  <2>8. {l \in Offered(catalog.types) : Usable(l)'} = UsableIn(catalog.types, spec.locations, refs.zone)
    BY <2>7 DEF UsableIn
  <2> QED BY <2>5, <2>6, <2>8, Zenon DEF ExactVerdict
<1> QED BY <1>1, PlacementInvariant, PTL DEF PlacementSpec, ScopeIsExact

-----------------------------------------------------------------------------
(* What a create orders. *)

\* What a candidate is to the API: its type and its location.
PairOf(c) == <<c.name, c.loc>>

\* The price of a pair, whatever the order of the catalog.
LEMMA PriceOf ==
  ASSUME WellFormed(catalog.types), NEW i \in DOMAIN catalog.types, NEW l
  PROVE  Price(<<catalog.types[i].name, l>>) = catalog.types[i].price[l]
<1> DEFINE types == catalog.types
           st == CHOOSE t \in Range(types) : t.name = types[i].name
<1>1. types[i] \in Range(types)
  BY DEF Range
<1>2. st \in Range(types) /\ st.name = types[i].name
  BY <1>1
<1> HIDE DEF st
<1>3. PICK k \in DOMAIN types : st = types[k]
  BY <1>2 DEF Range
<1>4. k = i
  BY <1>2, <1>3 DEF WellFormed
<1>5. Price(<<types[i].name, l>>) = st.price[l]
  BY DEF Price, st
<1> QED BY <1>3, <1>4, <1>5

\* A candidate is an acceptable pair, at its price with the surcharge.
LEMMA CandidateIsAcceptable ==
  ASSUME WellFormed(catalog.types), catalog.ipv4 \in Nat, NEW want, NEW c \in Menu(want, catalog.types, spec, unavailable)
  PROVE  /\ PairOf(c) \in Acceptable(want) /\ c.price = Price(PairOf(c)) + Surcharge(spec)
         /\ Price(PairOf(c)) \in Nat /\ Surcharge(spec) \in Nat
<1>1. PICK i \in DOMAIN catalog.types : OnOffer(c, want, catalog.types[i], spec, unavailable)
  BY DEF Menu
<1> DEFINE st == catalog.types[i]
<1>2. /\ Supported(st) /\ st.name \in want.types /\ st.size >= want.size
      /\ c.name = st.name /\ c.loc \in SoldTo(st, spec) /\ c.loc \in want.locs /\ <<st.name, c.loc>> \notin unavailable
      /\ c.price = st.price[c.loc] + Surcharge(spec)
  BY <1>1 DEF OnOffer
<1>3. st \in Range(catalog.types) /\ \A l \in DOMAIN st.price : st.price[l] \in Nat
  BY DEF Range, WellFormed
<1>4. PICK j \in DOMAIN st.locs : /\ c.loc = st.locs[j].loc /\ ~st.locs[j].deprecated /\ c.loc \in DOMAIN st.price
                                  /\ locationFilter(spec.locations, c.loc)
  BY <1>2 DEF SoldTo
<1>5. Price(PairOf(c)) = st.price[c.loc]
  BY <1>2, PriceOf DEF PairOf
<1> HIDE DEF st
<1>6. c.loc \in Sold(st)
  BY <1>4 DEF Sold, Range
<1>7. spec.locations # <<>> => c.loc \in Range(spec.locations)
  BY <1>4 DEF locationFilter
<1>8. PairOf(c) \in Acceptable(want)
  <2>1. PairOf(c) \in want.types \X want.locs /\ PairOf(c)[1] = st.name /\ PairOf(c)[2] = c.loc /\ PairOf(c) \notin unavailable
    BY <1>2 DEF PairOf
  <2> HIDE DEF PairOf
  <2> QED BY <1>2, <1>3, <1>6, <1>7, <2>1 DEF Acceptable
<1>9. Surcharge(spec) \in Nat
  BY DEF Surcharge
<1> QED BY <1>2, <1>3, <1>4, <1>5, <1>8, <1>9

\* Every acceptable pair is a candidate.
LEMMA AcceptableIsCandidate ==
  ASSUME WellFormed(catalog.types), catalog.ipv4 \in Nat, NEW want, NEW p \in Acceptable(want)
  PROVE  \E c \in Menu(want, catalog.types, spec, unavailable) : PairOf(c) = p
<1>1. /\ p \in want.types \X want.locs /\ p \notin unavailable
      /\ spec.locations # <<>> => p[2] \in Range(spec.locations)
      /\ \E st \in Range(catalog.types) : st.name = p[1] /\ Supported(st) /\ st.size >= want.size /\ p[2] \in Sold(st)
  BY DEF Acceptable
<1>2. PICK i \in DOMAIN catalog.types :
        LET st == catalog.types[i] IN st.name = p[1] /\ Supported(st) /\ st.size >= want.size /\ p[2] \in Sold(st)
  BY <1>1 DEF Range
<1> DEFINE st == catalog.types[i]
           c == [name |-> p[1], loc |-> p[2], price |-> st.price[p[2]] + Surcharge(spec)]
<1>3. st.name = p[1] /\ Supported(st) /\ st.size >= want.size /\ p[2] \in Sold(st)
  BY <1>2
<1>4. PICK j \in DOMAIN st.locs : p[2] = st.locs[j].loc /\ ~st.locs[j].deprecated /\ p[2] \in DOMAIN st.price
  BY <1>3 DEF Sold, Range
<1>5. locationFilter(spec.locations, p[2])
  BY <1>1 DEF locationFilter
<1>6. p[2] \in SoldTo(st, spec)
  BY <1>4, <1>5 DEF SoldTo
<1>7. p[2] \in Nat /\ st.price[p[2]] + Surcharge(spec) \in Nat /\ st.name \in Nat
  BY <1>6, SoldToFacts DEF WellFormed
<1>8. c.name = p[1] /\ c.loc = p[2] /\ c.price = st.price[p[2]] + Surcharge(spec) /\ c \in Candidate
  BY <1>3, <1>7 DEF Candidate
<1>9. p = <<p[1], p[2]>> /\ p[1] \in want.types /\ p[2] \in want.locs
  BY <1>1
<1> HIDE DEF c
<1>10. OnOffer(c, want, st, spec, unavailable)
  BY <1>1, <1>3, <1>6, <1>8, <1>9, Zenon DEF OnOffer
<1>11. c \in Menu(want, catalog.types, spec, unavailable)
  BY <1>8, <1>10 DEF Menu
<1> QED BY <1>8, <1>9, <1>11 DEF PairOf

\* The candidates, as pairs, are the acceptable ones without repetition, and never one
\* before a cheaper one.
LEMMA CandidatesAreCheapestFirst ==
  ASSUME PlacementInv, NEW want, NEW i \in 1 .. Len(Candidates(want))
  PROVE  LET left == Acceptable(want) \ {PairOf(Candidates(want)[j]) : j \in 1 .. i - 1}
         IN /\ PairOf(Candidates(want)[i]) \in left
            /\ \A q \in left : Price(PairOf(Candidates(want)[i])) <= Price(q)
<1> DEFINE M == Menu(want, catalog.types, spec, unavailable)
           R == CheaperOn(M)
           s == Candidates(want)
           K == Len(s)
           left == Acceptable(want) \ {PairOf(s[j]) : j \in 1 .. i - 1}
<1>1. WellFormed(catalog.types) /\ catalog.ipv4 \in Nat
  BY DEF PlacementInv
<1>2. K \in Nat /\ DOMAIN s = 1 .. K /\ Enumerates(s, M, R) /\ M \in SUBSET Candidate
  BY <1>1, CandidateFacts
<1>3. \A c \in M : /\ PairOf(c) \in Acceptable(want) /\ c.price = Price(PairOf(c)) + Surcharge(spec)
                   /\ Price(PairOf(c)) \in Nat /\ Surcharge(spec) \in Nat
  BY <1>1, CandidateIsAcceptable
<1>4. \A p \in Acceptable(want) : \E c \in M : PairOf(c) = p
  BY <1>1, AcceptableIsCandidate
<1>5. i \in 1 .. K
  OBVIOUS
<1>6. \A a, b \in M : <<a, b>> \in R => Cheaper(a, b)
  BY DEF CheaperOn
<1> HIDE DEF M, R, s, K
<1>7. /\ \A n \in 1 .. K : s[n] \in M
      /\ \A c \in M : \E n \in 1 .. K : s[n] = c
      /\ \A m, n \in 1 .. K : m < n => Cheaper(s[m], s[n])
  BY <1>2, <1>6 DEF Enumerates
<1>8. \A c \in M : c.name \in Nat /\ c.loc \in Nat /\ c.price \in Nat
  BY <1>2 DEF Candidate
<1>9. ASSUME NEW j \in 1 .. K, j < i PROVE PairOf(s[j]) # PairOf(s[i])
  <2>1. SUFFICES ASSUME PairOf(s[j]) = PairOf(s[i]) PROVE FALSE
    OBVIOUS
  <2>2. s[j] \in M /\ s[i] \in M /\ Cheaper(s[j], s[i])
    BY <1>5, <1>7, <1>9
  <2>3. s[j].price = s[i].price
    BY <1>3, <2>1, <2>2
  <2>4. s[j].name = s[i].name /\ s[j].loc = s[i].loc
    BY <2>1 DEF PairOf
  <2> QED BY <1>8, <2>2, <2>3, <2>4 DEF Cheaper
<1>10. PairOf(s[i]) \in left
  <2>1. PairOf(s[i]) \in Acceptable(want)
    BY <1>3, <1>5, <1>7
  <2>2. \A j \in 1 .. i - 1 : PairOf(s[j]) # PairOf(s[i])
    BY <1>2, <1>5, <1>9
  <2> QED BY <2>1, <2>2
<1>11. ASSUME NEW q \in left PROVE Price(PairOf(s[i])) <= Price(q)
  <2>1. PICK c \in M : PairOf(c) = q
    BY <1>4
  <2>2. PICK k \in 1 .. K : s[k] = c
    BY <1>7
  <2>3. ~(k < i)
    BY <1>2, <1>5, <2>1, <2>2
  <2>4. s[i].price <= c.price
    <3>1. CASE k = i
      BY <1>8, <2>2, <3>1
    <3>2. CASE i < k
      <4>1. Cheaper(s[i], c) /\ s[i] \in M
        BY <1>5, <1>7, <2>2, <3>2
      <4> QED BY <1>8, <4>1 DEF Cheaper
    <3> QED BY <1>2, <1>5, <2>3, <3>1, <3>2
  <2>5. /\ s[i].price = Price(PairOf(s[i])) + Surcharge(spec) /\ c.price = Price(q) + Surcharge(spec)
        /\ Price(PairOf(s[i])) \in Nat /\ Price(q) \in Nat /\ Surcharge(spec) \in Nat
    BY <1>3, <1>5, <1>7, <2>1
  <2> QED BY <2>4, <2>5
<1> QED BY <1>10, <1>11, Zenon DEF s

\* A create orders only what the NodeClaim, the class and the catalog allow and no
\* failure has suppressed, no pair twice, and never passes over a cheaper one.
THEOREM CreatesCheapestFirst == PlacementSpec => CheapestFirst
<1> DEFINE ps == last'.pairs
           left(i) == Acceptable(last'.want) \ {ps[j] : j \in 1 .. i - 1}
<1>1. ASSUME PlacementInv, PlacementNext, last'.pairs # <<>>, NEW i \in DOMAIN ps
      PROVE  ps[i] \in left(i) /\ \A q \in left(i) : Price(ps[i]) <= Price(q)
  <2>1. Create
    <3>1. NoOrder.pairs = <<>>
      BY DEF NoOrder
    <3>2. last' # NoOrder
      BY <1>1, <3>1
    <3>3. ~CatalogLands /\ ~Edit /\ ~Pass /\ ~Expire
      BY <3>2 DEF CatalogLands, Edit, Pass, Expire
    <3> QED BY <1>1, <3>3 DEF PlacementNext
  <2>2. PICK want \in Wants : \E n \in 1 .. (IF Len(Candidates(want)) < MaxAttempts THEN Len(Candidates(want)) ELSE MaxAttempts) :
          last' = [want |-> want, pairs |-> [k \in 1 .. n |-> <<Candidates(want)[k].name, Candidates(want)[k].loc>>]]
    BY <2>1, Zenon DEF Create
  <2> DEFINE cands == Candidates(want)
             K == Len(cands)
  <2>3. PICK n \in 1 .. (IF K < MaxAttempts THEN K ELSE MaxAttempts) :
          last' = [want |-> want, pairs |-> [k \in 1 .. n |-> PairOf(cands[k])]]
    BY <2>2 DEF PairOf
  <2>4. last'.want = want /\ ps = [k \in 1 .. n |-> PairOf(cands[k])]
    BY <2>3
  <2>5. K \in Nat
    BY <1>1, CandidateFacts DEF PlacementInv
  <2> HIDE DEF K
  <2>6. n \in 1 .. K
    BY <2>5, WithinCandidates
  <2> HIDE DEF cands, ps
  <2>7. i \in 1 .. n /\ i \in 1 .. K
    BY <1>1, <2>4, <2>5, <2>6
  <2>8. ps[i] = PairOf(cands[i]) /\ \A j \in 1 .. i - 1 : ps[j] = PairOf(cands[j])
    BY <2>4, <2>5, <2>6, <2>7
  <2> DEFINE rest == Acceptable(want) \ {PairOf(cands[j]) : j \in 1 .. i - 1}
  <2>9. left(i) = rest
    BY <2>4, <2>8
  <2>10. PairOf(cands[i]) \in rest /\ \A q \in rest : Price(PairOf(cands[i])) <= Price(q)
    BY <1>1, <2>7, CandidatesAreCheapestFirst DEF cands, K
  <2> HIDE DEF left, rest
  <2> QED BY <2>8, <2>9, <2>10
<1>2. PlacementInv /\ [PlacementNext]_placementVars =>
        [last'.pairs # <<>> =>
           LET p == last'.pairs
               ok == Acceptable(last'.want)
           IN \A i \in DOMAIN p :
                LET rest == ok \ {p[j] : j \in 1 .. i - 1}
                IN p[i] \in rest /\ \A q \in rest : Price(p[i]) <= Price(q)]_placementVars
  BY <1>1
<1> QED BY <1>2, PlacementInvariant, PTL DEF PlacementSpec, CheapestFirst
=============================================================================
