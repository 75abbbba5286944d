------------------------- MODULE BufferPoolProofs -------------------------
(***************************************************************************)
(* The properties of BufferPool as theorems, for blocks of any size, words *)
(* of any width and any maximum that is a whole number of blocks.          *)
(***************************************************************************)
EXTENDS BufferPool, FiniteSetTheorems, TLAPS

-----------------------------------------------------------------------------
(* The bit map: what its operations do to the set of used indices, on every *)
(* bit map whose used count is right.                                       *)

(* Division with remainder, and that it is unique. *)
LEMMA DivMod ==
  ASSUME NEW k \in Nat \ {0}, NEW a \in Nat
  PROVE  /\ a \div k \in Nat
         /\ a % k \in 0..(k - 1)
         /\ a = k * (a \div k) + (a % k)
  OBVIOUS

(* A number is written in base k in one way. *)
LEMMA DivModUnique ==
  ASSUME NEW k \in Nat \ {0}, NEW q \in Nat, NEW r \in 0..(k - 1)
  PROVE  /\ (k * q + r) \div k = q
         /\ (k * q + r) % k = r
  OBVIOUS

(* Numbers in base k compare by their quotients, then by their remainders. *)
LEMMA Lexicographic ==
  ASSUME NEW k \in Nat \ {0}, NEW q \in Nat, NEW r \in 0..(k - 1),
         NEW s \in Nat, NEW t \in 0..(k - 1)
  PROVE  k * q + r <= k * s + t <=> q < s \/ (q = s /\ r <= t)
<1>1. CASE q < s
  <2>1. k * (q + 1) <= k * s
    BY <1>1
  <2>2. k * (q + 1) = k * q + k
    OBVIOUS
  <2> QED
    BY <1>1, <2>1, <2>2
<1>2. CASE q = s
  BY <1>2
<1>3. CASE q > s
  <2>1. k * (s + 1) <= k * q
    BY <1>3
  <2>2. k * (s + 1) = k * s + k
    OBVIOUS
  <2> QED
    BY <1>3, <2>1, <2>2
<1> QED
  BY <1>1, <1>2, <1>3

(* Min is the least element of a set of natural numbers. *)
LEMMA LeastNatural ==
  ASSUME NEW S \in SUBSET Nat, S # {}
  PROVE  /\ Min(S) \in S
         /\ \A x \in S : Min(S) <= x
<1> DEFINE R == {ss \in Nat \X Nat : ss[1] < ss[2]}
<1>1. IsWellFoundedOn(R, Nat)
  BY NatLessThanWellFounded, Zenon DEF OpToRel
<1>2. PICK x \in S : \A y \in S : ~(<<y, x>> \in R)
  BY <1>1, WFMin
<1>3. ASSUME NEW y \in S PROVE x <= y
  <2>1. x \in Nat /\ y \in Nat /\ (y < x => <<y, x>> \in R)
    OBVIOUS
  <2> HIDE DEF R
  <2> QED
    BY <1>2, <2>1
<1> QED
  BY <1>3 DEF Min

-------------------------------------------------------------------------
(* The used indices of a bit map, and that its used count counts them. *)
UsedSet(m) == {i \in Index : IsUsed(m, i)}
Exact(m) == m \in BitMaps /\ m.used = Cardinality(UsedSet(m))

(* The bit of an index. *)
LEMMA IndexPlace ==
  ASSUME NEW i \in Index
  PROVE  /\ i \div kBitMapUnitSize \in Blocks
         /\ i % kBitMapUnitSize \in Bit
         /\ i = kBitMapUnitSize * (i \div kBitMapUnitSize) + (i % kBitMapUnitSize)
<1>1. ASSUME NEW k \in Nat \ {0}, NEW n \in Nat, NEW j \in 0..(n - 1)
      PROVE  j \div k \in 0..((n + k - 1) \div k - 1)
  <2>1. j \in Nat /\ j + k \in Nat /\ n + k - 1 \in Nat /\ j + k <= n + k - 1
    OBVIOUS
  <2>2. /\ j \div k \in Nat /\ j % k \in 0..(k - 1)
        /\ j = k * (j \div k) + (j % k)
    BY <2>1, DivMod
  <2>3. /\ (n + k - 1) \div k \in Nat /\ (n + k - 1) % k \in 0..(k - 1)
        /\ n + k - 1 = k * ((n + k - 1) \div k) + ((n + k - 1) % k)
    BY <2>1, DivMod
  <2> DEFINE q == j \div k
             r == j % k
             nq == (n + k - 1) \div k
             nr == (n + k - 1) % k
  <2> HIDE DEF q, r, nq, nr
  <2>4. k * (q + 1) + r <= k * nq + nr
    <3>1. k * (q + 1) = k * q + k
      BY <2>2 DEF q
    <3> QED
      BY <2>1, <2>2, <2>3, <3>1 DEF q, r, nq, nr
  <2>5. q + 1 <= nq
    BY <2>2, <2>3, <2>4, Lexicographic DEF q, r, nq, nr
  <2> QED
    BY <2>2, <2>3, <2>5 DEF q, nq
<1>2. i \in Nat /\ kBitMapUnitSize \in Nat \ {0} /\ bit_count \in Nat
  BY BitMapSizes DEF Index
<1>3. i \div kBitMapUnitSize \in Blocks
  BY <1>1, <1>2 DEF Index, Blocks
<1> QED
  BY <1>2, <1>3, DivMod DEF Bit

(* The index of a bit, if the bit is not past the last index. *)
LEMMA PlaceIndex ==
  ASSUME NEW w \in Blocks, NEW b \in Bit
  PROVE  /\ kBitMapUnitSize * w + b \in Nat
         /\ (kBitMapUnitSize * w + b) \div kBitMapUnitSize = w
         /\ (kBitMapUnitSize * w + b) % kBitMapUnitSize = b
<1>1. w \in Nat /\ b \in 0..(kBitMapUnitSize - 1) /\ kBitMapUnitSize \in Nat \ {0}
  BY BitMapSizes DEF Blocks, Bit
<1> QED
  BY <1>1, DivModUnique

(* The indices are bit_count many, and all of them are used when as many *)
(* are.                                                                  *)
LEMMA UsedSetFinite ==
  ASSUME NEW m
  PROVE  /\ IsFiniteSet(Index) /\ Cardinality(Index) = bit_count
         /\ IsFiniteSet(UsedSet(m)) /\ Cardinality(UsedSet(m)) \in Nat
         /\ Cardinality(UsedSet(m)) = bit_count <=> UsedSet(m) = Index
<1>1. IsFiniteSet(Index) /\ Cardinality(Index) = bit_count
  BY BitMapSizes, FS_Interval DEF Index
<1>2. UsedSet(m) \in SUBSET Index
  BY DEF UsedSet
<1> QED
  BY <1>1, <1>2, FS_Subset, FS_CardinalityType

(* FirstFree finds a clear bit exactly when some index is free. *)
LEMMA FirstFreeIs ==
  ASSUME NEW m, Exact(m)
  PROVE  /\ FirstFree(m) = NoIndex <=> UsedSet(m) = Index
         /\ FirstFree(m) # NoIndex => FirstFree(m) \in Index \ UsedSet(m)
<1> DEFINE k == kBitMapUnitSize
           free == {i \in Blocks : m.words[i] # Bit}
           w == Min(free)
           b == Min(Bit \ m.words[w])
           index == w * k + b
<1>0. k \in Nat \ {0} /\ bit_count \in Nat \ {0} /\ m.words \in [Blocks -> SUBSET Bit]
  BY BitMapSizes DEF Exact, BitMaps
<1>1. m.used = bit_count <=> UsedSet(m) = Index
  BY UsedSetFinite DEF Exact
<1>2. ASSUME NEW i \in Index \ UsedSet(m)
      PROVE  i \div k \in free /\ i % k \in Bit \ m.words[i \div k]
  BY <1>2, IndexPlace DEF UsedSet, IsUsed
<1>3. CASE free = {}
  BY <1>1, <1>2, <1>3 DEF FirstFree, NoIndex, UsedSet
<1>4. CASE free # {}
  <2>1. w \in free /\ \A x \in free : w <= x
    <3>1. free \in SUBSET Nat
      BY DEF Blocks
    <3> QED
      BY <1>4, <3>1, LeastNatural
  <2>2. b \in Bit \ m.words[w] /\ \A x \in Bit \ m.words[w] : b <= x
    <3>1. w \in Blocks /\ m.words[w] # Bit
      BY <2>1
    <3> HIDE DEF w
    <3>2. Bit \ m.words[w] \in SUBSET Nat /\ Bit \ m.words[w] # {}
      <4>1. m.words[w] \in SUBSET Bit
        BY <1>0, <3>1
      <4>2. Bit \in SUBSET Nat
        BY DEF Bit
      <4> QED
        BY <3>1, <4>1, <4>2
    <3> QED
      BY <3>2, LeastNatural
  <2>3. w \in Blocks /\ w \in Nat /\ b \in Bit /\ b \in 0..(k - 1)
    BY <2>1, <2>2 DEF Blocks, Bit
  <2> HIDE DEF w, b
  <2>4. /\ index \in Nat /\ index = k * w + b
        /\ index \div k = w /\ index % k = b
    <3> HIDE DEF k
    <3>1. w * k = k * w
      BY <1>0, <2>3
    <3>2. k * w + b \in Nat /\ (k * w + b) \div k = w /\ (k * w + b) % k = b
      BY <1>0, <2>3, DivModUnique
    <3> QED
      BY <3>1, <3>2
  <2> HIDE DEF index
  <2>5. index < bit_count => index \in Index \ UsedSet(m)
    BY <1>0, <2>2, <2>4 DEF Index, UsedSet, IsUsed
  <2>6. ASSUME NEW i \in Index \ UsedSet(m) PROVE index < bit_count
    <3>1. /\ i \in Nat /\ i < bit_count /\ i = k * (i \div k) + (i % k)
          /\ i \div k \in Nat /\ i % k \in 0..(k - 1)
      <4>1. i \in Nat /\ i < bit_count
        BY <1>0, <2>6 DEF Index
      <4> HIDE DEF k
      <4> QED
        BY <1>0, <4>1, DivMod
    <3>2. w < i \div k \/ (w = i \div k /\ b <= i % k)
      <4>1. i \div k \in free /\ i % k \in Bit \ m.words[i \div k]
        BY <1>2, <2>6
      <4>2. w <= i \div k
        BY <2>1, <4>1
      <4>3. w = i \div k => b <= i % k
        BY <2>2, <4>1
      <4> HIDE DEF k
      <4> QED
        BY <2>3, <3>1, <4>2, <4>3
    <3>3. k * w + b <= k * (i \div k) + (i % k)
      BY <1>0, <2>3, <3>1, <3>2, Lexicographic
    <3> QED
      BY <1>0, <2>4, <3>1, <3>3
  <2>7. FirstFree(m) = IF m.used = bit_count THEN NoIndex
                       ELSE IF index < bit_count THEN index ELSE NoIndex
    BY <1>4 DEF FirstFree, index, w, b
  <2>8. UsedSet(m) # Index => \E i \in Index : i \in Index \ UsedSet(m)
    BY DEF UsedSet
  <2> QED
    BY <1>0, <1>1, <2>4, <2>5, <2>6, <2>7, <2>8 DEF NoIndex
<1> QED
  BY <1>3, <1>4

-------------------------------------------------------------------------
(* Sets that a one-to-one map relates have as many elements. *)
LEMMA OneToOne ==
  ASSUME NEW S, NEW T, IsFiniteSet(S), NEW f \in [S -> T],
         \A x, y \in S : f[x] = f[y] => x = y,
         \A t \in T : \E x \in S : f[x] = t
  PROVE  IsFiniteSet(T) /\ Cardinality(T) = Cardinality(S)
<1>1. f \in Bijection(S, T)
  BY DEF Bijection, Injection, Surjection, IsInjective
<1>2. ExistsBijection(S, T)
  BY <1>1 DEF ExistsBijection
<1> QED
  BY <1>2, FS_Bijection

(* SetIndex uses its index, and counts it if it was free. *)
LEMMA WithIndexIs ==
  ASSUME NEW m, Exact(m), NEW index \in Index
  PROVE  /\ Exact(WithIndex(m, index))
         /\ UsedSet(WithIndex(m, index)) = UsedSet(m) \cup {index}
<1> DEFINE w == index \div kBitMapUnitSize
           b == index % kBitMapUnitSize
           n == WithIndex(m, index)
<1>1. m \in BitMaps /\ m.used = Cardinality(UsedSet(m)) /\ IsFiniteSet(UsedSet(m))
  BY UsedSetFinite DEF Exact
<1>2. CASE index \in UsedSet(m)
  BY <1>1, <1>2 DEF WithIndex, UsedSet, Exact
<1>3. CASE index \notin UsedSet(m)
  <2>1. n = [words |-> [m.words EXCEPT ![w] = m.words[w] \cup {b}], used |-> m.used + 1]
    BY <1>3 DEF WithIndex, UsedSet, Flipped
  <2>2. w \in Blocks /\ b \in Bit
    BY IndexPlace
  <2>3. n \in BitMaps
    BY <1>1, <2>1, <2>2 DEF BitMaps
  <2>4. ASSUME NEW i \in Index
        PROVE  IsUsed(n, i) <=> IsUsed(m, i) \/ i = index
    <3>1. i = index <=> i \div kBitMapUnitSize = w /\ i % kBitMapUnitSize = b
      <4>1. /\ i = kBitMapUnitSize * (i \div kBitMapUnitSize) + (i % kBitMapUnitSize)
            /\ index = kBitMapUnitSize * w + b
        BY IndexPlace
      <4> HIDE DEF w, b
      <4> QED
        BY <4>1 DEF w, b
    <3>2. i \div kBitMapUnitSize \in Blocks
      BY IndexPlace
    <3> HIDE DEF w, b
    <3> QED
      BY <1>1, <2>1, <3>1, <3>2 DEF IsUsed, BitMaps
  <2>5. UsedSet(n) = UsedSet(m) \cup {index}
    BY <2>4 DEF UsedSet
  <2>6. n.used = Cardinality(UsedSet(n))
    <3>1. Cardinality(UsedSet(m) \cup {index}) = Cardinality(UsedSet(m)) + 1
      BY <1>1, <1>3, FS_AddElement
    <3>2. n.used = m.used + 1
      BY <2>1
    <3> QED
      BY <1>1, <2>5, <3>1, <3>2
  <2> QED
    BY <2>3, <2>5, <2>6 DEF Exact
<1> QED
  BY <1>2, <1>3

(* ClearIndex frees its index, and counts it if it was used. *)
LEMMA WithoutIndexIs ==
  ASSUME NEW m, Exact(m), NEW index \in Index
  PROVE  /\ Exact(WithoutIndex(m, index))
         /\ UsedSet(WithoutIndex(m, index)) = UsedSet(m) \ {index}
<1> DEFINE w == index \div kBitMapUnitSize
           b == index % kBitMapUnitSize
           n == WithoutIndex(m, index)
<1>1. m \in BitMaps /\ m.used = Cardinality(UsedSet(m)) /\ IsFiniteSet(UsedSet(m))
  BY UsedSetFinite DEF Exact
<1>2. CASE index \notin UsedSet(m)
  BY <1>1, <1>2 DEF WithoutIndex, UsedSet, Exact
<1>3. CASE index \in UsedSet(m)
  <2>1. n = [words |-> [m.words EXCEPT ![w] = m.words[w] \ {b}], used |-> m.used - 1]
    <3>1. m.used + -1 = m.used - 1
      BY <1>1 DEF BitMaps
    <3> QED
      BY <1>3, <3>1 DEF WithoutIndex, UsedSet, Flipped
  <2>2. w \in Blocks /\ b \in Bit
    BY IndexPlace
  <2>4. ASSUME NEW i \in Index
        PROVE  IsUsed(n, i) <=> IsUsed(m, i) /\ i # index
    <3>1. i = index <=> i \div kBitMapUnitSize = w /\ i % kBitMapUnitSize = b
      <4>1. /\ i = kBitMapUnitSize * (i \div kBitMapUnitSize) + (i % kBitMapUnitSize)
            /\ index = kBitMapUnitSize * w + b
        BY IndexPlace
      <4> HIDE DEF w, b
      <4> QED
        BY <4>1 DEF w, b
    <3>2. i \div kBitMapUnitSize \in Blocks
      BY IndexPlace
    <3> HIDE DEF w, b
    <3> QED
      BY <1>1, <2>1, <3>1, <3>2 DEF IsUsed, BitMaps
  <2>5. UsedSet(n) = UsedSet(m) \ {index}
    BY <2>4 DEF UsedSet
  <2>6. n.used = Cardinality(UsedSet(n)) /\ n.used \in Nat
    <3>1. Cardinality(UsedSet(m) \ {index}) = Cardinality(UsedSet(m)) - 1
      BY <1>1, <1>3, FS_RemoveElement
    <3>2. n.used = m.used - 1
      BY <2>1
    <3> QED
      BY <1>1, <2>5, <3>1, <3>2, UsedSetFinite
  <2>3. n \in BitMaps
    BY <1>1, <2>1, <2>2, <2>6 DEF BitMaps
  <2> QED
    BY <2>3, <2>5, <2>6 DEF Exact
<1> QED
  BY <1>2, <1>3

-------------------------------------------------------------------------
(* Below(n) ends with the bit of n - 1. *)
LEMMA BelowIs ==
  ASSUME NEW n \in Nat, NEW b \in Bit
  PROVE  b \in Below(n + 1) <=> b <= n % kBitMapUnitSize
<1>1. ASSUME NEW k \in Nat \ {0}
      PROVE  /\ n % k \in 0..(k - 1)
             /\ (n + 1) % k = IF n % k = k - 1 THEN 0 ELSE (n % k) + 1
  <2>1. /\ n \div k \in Nat /\ n % k \in 0..(k - 1)
        /\ n = k * (n \div k) + (n % k)
    BY DivMod
  <2> DEFINE q == n \div k
             r == n % k
  <2> HIDE DEF q, r
  <2>2. CASE r = k - 1
    <3>1. k * (q + 1) = k * q + k /\ k * (q + 1) \in Nat
      BY <2>1 DEF q
    <3>2. n + 1 = k * (q + 1) + 0
      BY <2>1, <2>2, <3>1 DEF q, r
    <3>3. (n + 1) % k = 0
      <4>1. q + 1 \in Nat /\ 0 \in 0..(k - 1)
        BY <2>1 DEF q
      <4>2. (k * (q + 1) + 0) % k = 0
        BY <4>1, DivModUnique
      <4> QED
        BY <3>2, <4>2
    <3> QED
      BY <2>1, <2>2, <3>3 DEF r
  <2>3. CASE r # k - 1
    <3>1. n + 1 = k * q + (r + 1) /\ r + 1 \in 0..(k - 1) /\ q \in Nat
      BY <2>1, <2>3 DEF q, r
    <3>2. (k * q + (r + 1)) % k = r + 1
      BY <3>1, DivModUnique
    <3> QED
      BY <2>1, <2>3, <3>1, <3>2 DEF r
  <2> QED
    BY <2>2, <2>3
<1>2. /\ n % kBitMapUnitSize \in 0..(kBitMapUnitSize - 1)
      /\ (n + 1) % kBitMapUnitSize =
           IF n % kBitMapUnitSize = kBitMapUnitSize - 1 THEN 0 ELSE (n % kBitMapUnitSize) + 1
      /\ kBitMapUnitSize \in Nat
  BY <1>1, BitMapSizes
<1> DEFINE r == n % kBitMapUnitSize
           s == (n + 1) % kBitMapUnitSize
<1>3. Below(n + 1) = IF s = 0 THEN Bit ELSE {x \in Bit : x < s}
  BY DEF Below
<1> HIDE DEF r, s
<1> QED
  BY <1>2, <1>3 DEF Bit, r, s

(* The masks of a range hold exactly its indices. *)
LEMMA RangeMaskIs ==
  ASSUME NEW begin \in Nat, NEW count \in Nat \ {0}, NEW w \in Blocks, NEW b \in Bit
  PROVE  b \in RangeMask(begin, count)[w]
           <=> kBitMapUnitSize * w + b \in begin..(begin + count - 1)
<1> DEFINE k == kBitMapUnitSize
           end == begin + count - 1
           first == begin \div k
           last == end \div k
           br == begin % k
           er == end % k
<1>1. k \in Nat \ {0} /\ w \in Nat /\ b \in 0..(k - 1)
  BY BitMapSizes DEF Blocks, Bit
<1>2. end \in Nat /\ begin + count = end + 1
  OBVIOUS
<1>3. /\ first \in Nat /\ br \in 0..(k - 1) /\ begin = k * first + br
      /\ last \in Nat /\ er \in 0..(k - 1) /\ end = k * last + er
  <2> HIDE DEF k, end
  <2> QED
    BY <1>1, <1>2, DivMod
<1>4. b \in From(begin) <=> br <= b
  <2>1. From(begin) = {x \in Bit : x >= br}
    BY DEF From
  <2> HIDE DEF br
  <2> QED
    BY <1>1, <1>3, <2>1
<1>5. b \in Below(begin + count) <=> b <= er
  BY <1>2, BelowIs
<1>6. RangeMask(begin, count)[w] =
        IF w \notin first..last THEN {}
        ELSE (IF w = first THEN From(begin) ELSE Bit)
             \cap (IF w = last THEN Below(begin + count) ELSE Bit)
  BY DEF RangeMask
<1> HIDE DEF first, last, br, er, end, k
<1>7. b \in RangeMask(begin, count)[w]
        <=> /\ first < w \/ (first = w /\ br <= b)
            /\ w < last \/ (w = last /\ b <= er)
  BY <1>1, <1>3, <1>4, <1>5, <1>6
<1>8. begin <= k * w + b <=> first < w \/ (first = w /\ br <= b)
  BY <1>1, <1>3, Lexicographic
<1>9. k * w + b <= end <=> w < last \/ (w = last /\ b <= er)
  BY <1>1, <1>3, Lexicographic
<1> QED
  BY <1>1, <1>2, <1>7, <1>8, <1>9 DEF k, end

(* What WithRange and WithoutRange take for the used bits of a range is their *)
(* number.                                                                    *)
LEMMA UsedWithinIs ==
  ASSUME NEW m, Exact(m), NEW begin \in Nat, NEW count \in Nat, InRange(begin, count)
  PROVE  UsedWithin(m, RangeMask(begin, count))
           = Cardinality(UsedSet(m) \cap (begin..(begin + count - 1)))
<1> DEFINE k == kBitMapUnitSize
           mask == RangeMask(begin, count)
           U == UsedSet(m) \cap (begin..(begin + count - 1))
           P == UNION {{i} \X (m.words[i] \cap mask[i]) : i \in Blocks}
           f == [j \in U |-> <<j \div k, j % k>>]
<1>1. count \in Nat \ {0} /\ bit_count \in Nat /\ begin + count <= bit_count
  BY BitMapSizes DEF InRange
<1>2. m.words \in [Blocks -> SUBSET Bit]
  BY DEF Exact, BitMaps
<1>3. IsFiniteSet(U)
  BY UsedSetFinite, FS_Intersection
<1>4. ASSUME NEW j \in U
      PROVE  f[j] \in P /\ j = k * f[j][1] + f[j][2]
  <2>1. j \in Index /\ IsUsed(m, j) /\ j \in begin..(begin + count - 1)
    BY DEF UsedSet
  <2>2. j \div k \in Blocks /\ j % k \in Bit /\ j = k * (j \div k) + (j % k)
    BY <2>1, IndexPlace
  <2>3. j % k \in mask[j \div k]
    BY <1>1, <2>1, <2>2, RangeMaskIs
  <2>4. j % k \in m.words[j \div k]
    BY <2>1 DEF IsUsed
  <2>5. f[j] = <<j \div k, j % k>>
    OBVIOUS
  <2> HIDE DEF f, mask
  <2> DEFINE q == j \div k
             r == j % k
  <2> HIDE DEF q, r
  <2>6. <<q, r>> \in {q} \X (m.words[q] \cap mask[q]) /\ q \in Blocks
    BY <2>2, <2>3, <2>4 DEF q, r
  <2>7. <<q, r>> \in P
    BY <2>6
  <2> QED
    BY <2>2, <2>5, <2>7 DEF q, r
<1>5. ASSUME NEW p \in P
      PROVE  \E j \in U : f[j] = p
  <2>1. PICK w \in Blocks : p \in {w} \X (m.words[w] \cap mask[w])
    OBVIOUS
  <2>2. PICK b \in m.words[w] \cap mask[w] : p = <<w, b>>
    BY <2>1
  <2>3. b \in Bit
    BY <1>2, <2>1, <2>2
  <2>4. k * w + b \in begin..(begin + count - 1)
    BY <1>1, <2>2, <2>3, RangeMaskIs
  <2>5. k * w + b \in Nat /\ (k * w + b) \div k = w /\ (k * w + b) % k = b
    BY <2>3, PlaceIndex
  <2> DEFINE j == k * w + b
  <2> HIDE DEF j
  <2>6. j \in Index
    BY <1>1, <2>4, <2>5 DEF Index, j
  <2>7. j \in U
    BY <2>2, <2>4, <2>5, <2>6 DEF UsedSet, IsUsed, j
  <2>8. f[j] = <<w, b>>
    BY <2>5, <2>7 DEF j
  <2> QED
    BY <2>2, <2>7, <2>8
<1>6. f \in [U -> P]
  <2> SUFFICES ASSUME NEW j \in U PROVE f[j] \in P
    OBVIOUS
  <2> QED
    BY <1>4
<1>7. \A x, y \in U : f[x] = f[y] => x = y
  BY <1>4
<1> HIDE DEF f, U, P
<1>8. Cardinality(P) = Cardinality(U)
  BY <1>3, <1>5, <1>6, <1>7, OneToOne
<1> QED
  BY <1>8 DEF UsedWithin, P, U

(* The indices of a range that the bit map has. *)
IndexRange(begin, count) == IF InRange(begin, count) THEN begin..(begin + count - 1) ELSE {}

(* SetRange uses every index of its range, and its count grows by those *)
(* that were free.                                                      *)
LEMMA WithRangeIs ==
  ASSUME NEW m, Exact(m), NEW begin \in Nat, NEW count \in Nat
  PROVE  /\ Exact(WithRange(m, begin, count))
         /\ UsedSet(WithRange(m, begin, count)) = UsedSet(m) \cup IndexRange(begin, count)
<1>1. CASE ~InRange(begin, count)
  BY <1>1 DEF WithRange, IndexRange
<1>2. CASE InRange(begin, count)
  <2> DEFINE mask == RangeMask(begin, count)
             n == WithRange(m, begin, count)
             R == begin..(begin + count - 1)
  <2>1. n = [words |-> [i \in Blocks |-> m.words[i] \cup mask[i]],
             used |-> m.used - UsedWithin(m, mask) + count]
    BY <1>2 DEF WithRange
  <2>2. /\ m \in BitMaps /\ m.used = Cardinality(UsedSet(m))
        /\ IsFiniteSet(UsedSet(m)) /\ Cardinality(UsedSet(m)) \in Nat
    BY UsedSetFinite DEF Exact
  <2>3. /\ count \in Nat \ {0} /\ R \subseteq Index
        /\ IsFiniteSet(R) /\ Cardinality(R) = count
    BY <1>2, BitMapSizes, FS_Interval DEF InRange, Index
  <2>4. \A i \in Blocks : mask[i] \in SUBSET Bit
    BY DEF RangeMask, From, Below
  <2>5. UsedSet(n) = UsedSet(m) \cup R
    <3>1. ASSUME NEW j \in Index
          PROVE  IsUsed(n, j) <=> IsUsed(m, j) \/ j \in R
      <4>1. /\ j \div kBitMapUnitSize \in Blocks /\ j % kBitMapUnitSize \in Bit
            /\ j = kBitMapUnitSize * (j \div kBitMapUnitSize) + (j % kBitMapUnitSize)
        BY IndexPlace
      <4>2. j % kBitMapUnitSize \in mask[j \div kBitMapUnitSize] <=> j \in R
        BY <2>3, <4>1, RangeMaskIs
      <4> HIDE DEF mask, n, R
      <4> QED
        BY <2>1, <4>1, <4>2 DEF IsUsed
    <3> HIDE DEF n, R
    <3> QED
      BY <2>3, <3>1 DEF UsedSet
  <2>6. n.used = Cardinality(UsedSet(n)) /\ n.used \in Nat
    <3>1. Cardinality(UsedSet(m) \cup R)
            = Cardinality(UsedSet(m)) + Cardinality(R) - Cardinality(UsedSet(m) \cap R)
      BY <2>2, <2>3, FS_Union
    <3>2. UsedWithin(m, mask) = Cardinality(UsedSet(m) \cap R)
      BY <1>2, UsedWithinIs
    <3>3. Cardinality(UsedSet(m) \cap R) \in Nat
      BY <2>2, FS_Intersection, FS_CardinalityType
    <3>4. Cardinality(UsedSet(n)) \in Nat
      BY UsedSetFinite
    <3>5. n.used = m.used - UsedWithin(m, mask) + count
      BY <2>1
    <3> HIDE DEF n, mask, R
    <3> QED
      BY <2>2, <2>3, <2>5, <3>1, <3>2, <3>3, <3>4, <3>5
  <2>7. n \in BitMaps
    <3> HIDE DEF mask
    <3>1. [i \in Blocks |-> m.words[i] \cup mask[i]] \in [Blocks -> SUBSET Bit]
      BY <2>2, <2>4 DEF BitMaps
    <3> HIDE DEF n
    <3> QED
      BY <2>1, <2>6, <3>1 DEF BitMaps
  <2> QED
    BY <1>2, <2>5, <2>6, <2>7 DEF Exact, IndexRange
<1> QED
  BY <1>1, <1>2

(* ClearRange frees every index of its range, and its count falls by those *)
(* that were used.                                                         *)
LEMMA WithoutRangeIs ==
  ASSUME NEW m, Exact(m), NEW begin \in Nat, NEW count \in Nat
  PROVE  /\ Exact(WithoutRange(m, begin, count))
         /\ UsedSet(WithoutRange(m, begin, count)) = UsedSet(m) \ IndexRange(begin, count)
<1>1. CASE ~InRange(begin, count)
  BY <1>1 DEF WithoutRange, IndexRange
<1>2. CASE InRange(begin, count)
  <2> DEFINE mask == RangeMask(begin, count)
             n == WithoutRange(m, begin, count)
             R == begin..(begin + count - 1)
  <2>1. n = [words |-> [i \in Blocks |-> m.words[i] \ mask[i]],
             used |-> m.used - UsedWithin(m, mask)]
    BY <1>2 DEF WithoutRange
  <2>2. /\ m \in BitMaps /\ m.used = Cardinality(UsedSet(m))
        /\ IsFiniteSet(UsedSet(m)) /\ Cardinality(UsedSet(m)) \in Nat
    BY UsedSetFinite DEF Exact
  <2>3. count \in Nat \ {0}
    BY <1>2 DEF InRange
  <2>5. UsedSet(n) = UsedSet(m) \ R
    <3>1. ASSUME NEW j \in Index
          PROVE  IsUsed(n, j) <=> IsUsed(m, j) /\ j \notin R
      <4>1. /\ j \div kBitMapUnitSize \in Blocks /\ j % kBitMapUnitSize \in Bit
            /\ j = kBitMapUnitSize * (j \div kBitMapUnitSize) + (j % kBitMapUnitSize)
        BY IndexPlace
      <4>2. j % kBitMapUnitSize \in mask[j \div kBitMapUnitSize] <=> j \in R
        BY <2>3, <4>1, RangeMaskIs
      <4> HIDE DEF mask, n, R
      <4> QED
        BY <2>1, <4>1, <4>2 DEF IsUsed
    <3> HIDE DEF n, R
    <3> QED
      BY <3>1 DEF UsedSet
  <2>6. n.used = Cardinality(UsedSet(n)) /\ n.used \in Nat
    <3>1. Cardinality(UsedSet(m) \ R)
            = Cardinality(UsedSet(m)) - Cardinality(UsedSet(m) \cap R)
      BY <2>2, FS_Difference
    <3>2. UsedWithin(m, mask) = Cardinality(UsedSet(m) \cap R)
      BY <1>2, UsedWithinIs
    <3>4. Cardinality(UsedSet(n)) \in Nat
      BY UsedSetFinite
    <3>5. n.used = m.used - UsedWithin(m, mask)
      BY <2>1
    <3> HIDE DEF n, mask, R
    <3> QED
      BY <2>2, <2>5, <3>1, <3>2, <3>4, <3>5
  <2>7. n \in BitMaps
    <3> HIDE DEF mask
    <3>1. [i \in Blocks |-> m.words[i] \ mask[i]] \in [Blocks -> SUBSET Bit]
      BY <2>2 DEF BitMaps
    <3> HIDE DEF n
    <3> QED
      BY <2>1, <2>6, <3>1 DEF BitMaps
  <2> QED
    BY <1>2, <2>5, <2>6, <2>7 DEF Exact, IndexRange
<1> QED
  BY <1>1, <1>2

(* Disabled, what the map starts as, uses every index and counts them, and *)
(* Cleared uses none.                                                      *)
LEMMA DisabledIs == Exact(Disabled) /\ UsedSet(Disabled) = Index
<1>1. Disabled \in BitMaps
  BY BitMapSizes DEF Disabled, BitMaps
<1>2. \A i \in Index : IsUsed(Disabled, i)
  <2> TAKE i \in Index
  <2>1. i \div kBitMapUnitSize \in Blocks /\ i % kBitMapUnitSize \in Bit
    BY IndexPlace
  <2> QED
    BY <2>1 DEF IsUsed, Disabled
<1>3. UsedSet(Disabled) = Index
  BY <1>2 DEF UsedSet
<1> QED
  BY <1>1, <1>3, UsedSetFinite DEF Exact, Disabled

(* A cleared map (Cleared, the fields of a new BitMap) is exact and has  *)
(* nothing used.                                                         *)
LEMMA ClearedIs == Exact(Cleared) /\ UsedSet(Cleared) = {}
<1>1. Cleared \in BitMaps
  BY DEF Cleared, BitMaps
<1>2. \A i \in Index : ~IsUsed(Cleared, i)
  <2> TAKE i \in Index
  <2>1. i \div kBitMapUnitSize \in Blocks
    BY IndexPlace
  <2> QED
    BY <2>1 DEF IsUsed, Cleared
<1>3. UsedSet(Cleared) = {}
  BY <1>2 DEF UsedSet
<1> QED
  BY <1>1, <1>3, FS_EmptySet DEF Exact, Cleared

-----------------------------------------------------------------------------
(* The pool *)

(* The blocks a pool has at its maximum. *)
Most == kBufferEntriesMax \div kBufferCount

(* The maximum is a whole number of blocks, and the entries are the      *)
(* indices of the bit map.                                               *)
LEMMA Sizes == /\ kBufferCount \in Nat \ {0} /\ Most \in Nat \ {0}
               /\ kBufferEntriesMax = kBufferCount * Most
               /\ kBufferEntriesMax \in Nat \ {0} /\ Entry = Index
<1>1. /\ kBufferCount \in Nat \ {0} /\ kBufferEntriesMax = bit_count
      /\ bit_count \in Nat \ {0} /\ kBufferEntriesMax % kBufferCount = 0
  BY WholeBlocks, BitMapSizes
<1>2. /\ Most \in Nat
      /\ kBufferEntriesMax = kBufferCount * Most + (kBufferEntriesMax % kBufferCount)
  BY <1>1, DivMod DEF Most
<1>3. kBufferEntriesMax = kBufferCount * Most
  BY <1>1, <1>2
<1>4. Most # 0
  BY <1>1, <1>2, <1>3
<1> QED
  BY <1>1, <1>2, <1>3, <1>4 DEF Entry, Index

(* A pool of n blocks that is not at its maximum has room for another. *)
LEMMA RoomForABlock ==
  ASSUME NEW n \in Nat
  PROVE  /\ kBufferCount * n \in Nat
         /\ kBufferCount * (n + 1) = kBufferCount * n + kBufferCount
         /\ kBufferCount * n <= kBufferEntriesMax <=> n <= Most
         /\ kBufferCount * n = kBufferEntriesMax <=> n = Most
         /\ n < Most => kBufferCount * n + kBufferCount <= kBufferEntriesMax
<1>1. ASSUME NEW k \in Nat \ {0}, NEW b \in Nat
      PROVE  /\ k * n \in Nat /\ k * (n + 1) = k * n + k
             /\ k * n <= k * b <=> n <= b
             /\ k * n = k * b <=> n = b
             /\ n < b => k * n + k <= k * b
  <2>1. k * n \in Nat /\ k * (n + 1) = k * n + k /\ 0 \in 0..(k - 1)
    OBVIOUS
  <2>2. k * n + 0 <= k * b + 0 <=> n < b \/ (n = b /\ 0 <= 0)
    BY Lexicographic
  <2>3. k * b + 0 <= k * n + 0 <=> b < n \/ (b = n /\ 0 <= 0)
    BY Lexicographic
  <2>4. k * (n + 1) + 0 <= k * b + 0 <=> n + 1 < b \/ (n + 1 = b /\ 0 <= 0)
    BY Lexicographic
  <2>5. k * b \in Nat /\ k * (n + 1) \in Nat
    OBVIOUS
  <2> QED
    BY <2>1, <2>2, <2>3, <2>4, <2>5
<1> QED
  BY <1>1, Sizes

(* A pool that is not above its maximum leaves a block of memory unused. *)
LEMMA FreshBlockIs ==
  ASSUME NEW pool \in Seq(MemoryBlock), Len(pool) <= Most
  PROVE  FreshBlock(pool) \in MemoryBlock /\ FreshBlock(pool) \notin ToSet(pool)
<1> DEFINE free == MemoryBlock \ ToSet(pool)
<1>1. MemoryBlock = 1..(Most + 1) /\ Most + 1 \in Nat
  BY Sizes DEF MemoryBlock, Most
<1>2. free # {}
  <2> SUFFICES ASSUME free = {} PROVE FALSE
    OBVIOUS
  <2>1. DOMAIN pool = 1..Len(pool) /\ Len(pool) \in Nat
    OBVIOUS
  <2>2. \A x \in MemoryBlock : \E i \in 1..Len(pool) : pool[i] = x
    BY <2>1 DEF ToSet
  <2>3. pool \in Surjection(1..Len(pool), MemoryBlock)
    BY <2>1, <2>2 DEF Surjection
  <2>4. Cardinality(MemoryBlock) <= Len(pool)
    BY <2>1, <2>3, FS_SurjCardinalityBound DEF ExistsSurjection
  <2>5. Cardinality(MemoryBlock) = Most + 1
    BY <1>1, Sizes, FS_Interval
  <2> QED
    BY <2>1, <2>4, <2>5, Sizes
<1>3. free \in SUBSET Nat
  BY <1>1
<1>4. Min(free) \in free
  BY <1>2, <1>3, LeastNatural
<1> QED
  BY <1>4 DEF FreshBlock

-------------------------------------------------------------------------
(* No block is twice in the pool. *)
Distinct(pool) == \A i, j \in 1..Len(pool) : pool[i] = pool[j] => i = j

(* Growing by a fresh block keeps the blocks distinct and those that     *)
(* were there in their places.                                           *)
LEMMA AppendFresh ==
  ASSUME NEW pool \in Seq(MemoryBlock), Distinct(pool), Len(pool) < Most
  PROVE  LET more == Append(pool, FreshBlock(pool))
         IN /\ more \in Seq(MemoryBlock) /\ Distinct(more)
            /\ Len(more) = Len(pool) + 1 /\ Len(more) <= Most
            /\ \A i \in 1..Len(pool) : more[i] = pool[i]
            /\ more[Len(pool) + 1] = FreshBlock(pool)
<1> DEFINE block == FreshBlock(pool)
<1>1. block \in MemoryBlock /\ block \notin ToSet(pool)
  BY FreshBlockIs, Sizes
<1>2. \A i \in 1..Len(pool) : pool[i] # block
  BY <1>1 DEF ToSet
<1> HIDE DEF block
<1> QED
  BY <1>1, <1>2, Sizes DEF Distinct, block

(* The address of the buffer i of a pool of blocks. *)
AddressAt(p, pool, i) == BufferOf(p, pool[i \div kBufferCount + 1], i)

(* The block of a buffer, and that its address is its alone. *)
LEMMA BlockOf ==
  ASSUME NEW n \in Nat, NEW i \in 0..(kBufferCount * n - 1)
  PROVE  /\ i \div kBufferCount \in 0..(n - 1) /\ i % kBufferCount \in 0..(kBufferCount - 1)
         /\ i \div kBufferCount + 1 \in 1..n
         /\ i = kBufferCount * (i \div kBufferCount) + (i % kBufferCount)
<1>1. ASSUME NEW k \in Nat \ {0}, NEW j \in 0..(k * n - 1)
      PROVE  /\ j \div k \in 0..(n - 1) /\ j % k \in 0..(k - 1)
             /\ j \div k + 1 \in 1..n
             /\ j = k * (j \div k) + (j % k)
  <2>1. k * n \in Nat /\ j \in Nat /\ j + 1 <= k * n /\ 0 \in 0..(k - 1)
    OBVIOUS
  <2>2. j \div k \in Nat /\ j % k \in 0..(k - 1) /\ j = k * (j \div k) + (j % k)
    BY <2>1, DivMod
  <2> DEFINE q == j \div k
             r == j % k
  <2> HIDE DEF q, r
  <2>3. ~(k * n + 0 <= k * q + r)
    BY <2>1, <2>2 DEF q, r
  <2>4. q < n
    BY <2>1, <2>2, <2>3, Lexicographic DEF q, r
  <2> QED
    BY <2>2, <2>4 DEF q
<1> QED
  BY <1>1, Sizes

(* The buffers of a pool with distinct blocks have addresses of their    *)
(* own.                                                                  *)
LEMMA AddressesDiffer ==
  ASSUME NEW p, NEW pool \in Seq(MemoryBlock), Distinct(pool),
         NEW i \in 0..(kBufferCount * Len(pool) - 1)
  PROVE  /\ AddressAt(p, pool, i) \in Address(p)
         /\ AddressAt(p, pool, i)[1] = p
         /\ \A j \in 0..(kBufferCount * Len(pool) - 1) :
              AddressAt(p, pool, i) = AddressAt(p, pool, j) => i = j
<1> DEFINE q(j) == j \div kBufferCount
           r(j) == j % kBufferCount
<1>1. ASSUME NEW j \in 0..(kBufferCount * Len(pool) - 1)
      PROVE  /\ q(j) + 1 \in 1..Len(pool) /\ r(j) \in 0..(kBufferCount - 1) /\ q(j) \in Nat
             /\ j = kBufferCount * q(j) + r(j)
             /\ AddressAt(p, pool, j) = <<p, pool[q(j) + 1], r(j)>>
  <2>1. Len(pool) \in Nat
    OBVIOUS
  <2> QED
    BY <2>1, BlockOf DEF AddressAt, BufferOf
<1> HIDE DEF q, r
<1>2. AddressAt(p, pool, i) \in Address(p) /\ AddressAt(p, pool, i)[1] = p
  BY <1>1 DEF Address
<1>3. ASSUME NEW j \in 0..(kBufferCount * Len(pool) - 1), AddressAt(p, pool, i) = AddressAt(p, pool, j)
      PROVE  i = j
  <2>1. pool[q(i) + 1] = pool[q(j) + 1] /\ r(i) = r(j)
    BY <1>1, <1>3
  <2>2. q(i) + 1 = q(j) + 1
    BY <1>1, <2>1 DEF Distinct
  <2>3. q(i) = q(j)
    BY <1>1, <2>2
  <2> QED
    BY <1>1, <2>1, <2>3
<1> QED
  BY <1>2, <1>3

-------------------------------------------------------------------------
(* A send pool whose buffers in use are U: the bits are exact and mark U and *)
(* what is not registered yet, the kernel has the memory of each buffer.     *)
PoolOK(s, U) ==
  /\ s \in SendPools
  /\ s.count = kBufferCount * Len(s.pool)
  /\ Len(s.pool) <= Most
  /\ Distinct(s.pool)
  /\ Exact(s.avaliable)
  /\ U \subseteq 0..(s.count - 1)
  /\ UsedSet(s.avaliable) = U \cup (Entry \ (0..(s.count - 1)))
  /\ \A i \in 0..(s.count - 1) : s.registered[i] = AddressAt("send", s.pool, i)

(* What PoolOK says of the numbers: below the limit there is room for a  *)
(* whole block more, every index below the count is an entry, and        *)
(* GetSendBuffer finds the memory registered for it.                     *)
LEMMA PoolFacts ==
  ASSUME NEW s, NEW U, PoolOK(s, U)
  PROVE  /\ s.pool \in Seq(MemoryBlock) /\ Len(s.pool) \in Nat
         /\ s.count \in Nat /\ s.count <= kBufferEntriesMax
         /\ AtLimit(s.count) <=> Len(s.pool) = Most
         /\ Len(s.pool) < Most => s.count + kBufferCount <= kBufferEntriesMax
         /\ 0..(s.count - 1) \subseteq Entry
         /\ \A i \in 0..(s.count - 1) : GetSendBuffer(s, i) = AddressAt("send", s.pool, i)
<1>1. s.pool \in Seq(MemoryBlock) /\ s.count \in Nat
  BY DEF PoolOK, SendPools
<1>2. Len(s.pool) \in Nat
  BY <1>1
<1>3. /\ s.count <= kBufferEntriesMax
      /\ AtLimit(s.count) <=> Len(s.pool) = Most
      /\ Len(s.pool) < Most => s.count + kBufferCount <= kBufferEntriesMax
  BY <1>2, RoomForABlock DEF PoolOK, AtLimit
<1>4. 0..(s.count - 1) \subseteq Entry
  BY <1>1, <1>3, Sizes DEF Entry
<1>5. ASSUME NEW i \in 0..(s.count - 1)
      PROVE  GetSendBuffer(s, i) = AddressAt("send", s.pool, i)
  <2>1. i \div kBufferCount \in 0..(Len(s.pool) - 1)
    BY <1>2, BlockOf DEF PoolOK
  <2>2. i \div kBufferCount < Len(s.pool)
    BY <1>2, <2>1
  <2> QED
    BY <2>2 DEF GetSendBuffer, AddressAt
<1> QED
  BY <1>1, <1>2, <1>3, <1>4, <1>5

(* What a registration of n buffers of a new block leaves of the rest. *)
LEMMA RegisteredIs ==
  ASSUME NEW s, NEW U, PoolOK(s, U), Len(s.pool) < Most,
         NEW block \in MemoryBlock, NEW n \in 0..kBufferCount
  PROVE  LET r == Registered(s, block, n)
         IN /\ r.avaliable = s.avaliable /\ r.count = s.count /\ r.pool = s.pool
            /\ r \in SendPools
            /\ r.registered \in [Entry -> Address("send") \cup {NULL}]
            /\ r.tagged \in SUBSET Entry /\ r.released \in BOOLEAN
            /\ \A i \in 0..(s.count - 1) : r.registered[i] = s.registered[i]
            /\ \A i \in s.count..(s.count + n - 1) :
                 r.registered[i] = BufferOf("send", block, i)
<1> DEFINE r == Registered(s, block, n)
           slots == s.count..(s.count + n - 1)
<1>1. /\ s.count \in Nat /\ s.count + kBufferCount <= kBufferEntriesMax
      /\ kBufferCount \in Nat /\ kBufferEntriesMax \in Nat
  BY PoolFacts, Sizes
<1>2. slots \subseteq Entry /\ 0..(s.count - 1) \subseteq Entry
      /\ slots \cap (0..(s.count - 1)) = {} /\ (n > 0 => s.count \in Entry)
  BY <1>1 DEF Entry
<1>3. s \in SendPools
  BY DEF PoolOK
<1>4. \A i \in Entry : BufferOf("send", block, i) \in Address("send")
  <2> TAKE i \in Entry
  <2>1. i \in Nat
    BY DEF Entry
  <2>2. i % kBufferCount \in 0..(kBufferCount - 1)
    BY <2>1, Sizes, DivMod
  <2> QED
    BY <2>2 DEF BufferOf, Address
<1>5. r = [s EXCEPT !.registered = [i \in Entry |-> IF i \in slots THEN BufferOf("send", block, i)
                                                    ELSE s.registered[i]],
                    !.tagged = IF n > 0 THEN s.tagged \cup {s.count} ELSE s.tagged,
                    !.released = s.released \/ slots \cap s.tagged # {}]
  BY DEF Registered
<1>6. /\ r.registered = [i \in Entry |-> IF i \in slots THEN BufferOf("send", block, i)
                                         ELSE s.registered[i]]
      /\ r.tagged = (IF n > 0 THEN s.tagged \cup {s.count} ELSE s.tagged)
      /\ r.released = (s.released \/ slots \cap s.tagged # {})
  <2> HIDE DEF r, slots
  <2> QED
    BY <1>3, <1>5 DEF SendPools
<1>7. /\ s.registered \in [Entry -> Address("send") \cup {NULL}]
      /\ s.tagged \in SUBSET Entry /\ s.released \in BOOLEAN
  BY <1>3 DEF SendPools
<1>8. r.avaliable = s.avaliable /\ r.count = s.count /\ r.pool = s.pool
  <2> HIDE DEF r, slots
  <2> QED
    BY <1>3, <1>5 DEF SendPools
<1> HIDE DEF slots, r
<1>9. r.tagged \in SUBSET Entry /\ r.released \in BOOLEAN
  BY <1>2, <1>6, <1>7
<1>10. r.registered \in [Entry -> Address("send") \cup {NULL}]
  BY <1>4, <1>6, <1>7
<1>11. \A i \in 0..(s.count - 1) : r.registered[i] = s.registered[i]
  BY <1>2, <1>6
<1>12. \A i \in slots : r.registered[i] = BufferOf("send", block, i)
  BY <1>2, <1>6
<1>13. r \in SendPools
  <2>1. r = [avaliable |-> r.avaliable, count |-> r.count, pool |-> r.pool,
             registered |-> r.registered, tagged |-> r.tagged, released |-> r.released]
    BY <1>3, <1>5 DEF SendPools
  <2> QED
    BY <1>3, <1>8, <1>9, <1>10, <2>1 DEF SendPools
<1> QED
  BY <1>8, <1>9, <1>10, <1>11, <1>12, <1>13 DEF r, slots

(* Growing keeps the pool in order: a block joins it whole or not at all. *)
LEMMA GrownIs ==
  ASSUME NEW s, NEW U, PoolOK(s, U), NEW outcome \in Outcome
  PROVE  LET g == Grown(s, outcome)
         IN /\ PoolOK(g, U)
            /\ IF AtLimit(s.count) \/ outcome # kBufferCount
               THEN g.count = s.count /\ g.avaliable = s.avaliable
               ELSE g.count = s.count + kBufferCount
<1> DEFINE g == Grown(s, outcome)
           block == FreshBlock(s.pool)
           r == Registered(s, block, outcome)
<1>1. /\ s.pool \in Seq(MemoryBlock) /\ Len(s.pool) \in Nat /\ s.count \in Nat
      /\ s \in SendPools /\ Len(s.pool) <= Most
  BY PoolFacts DEF PoolOK
<1>2. CASE AtLimit(s.count) \/ outcome = NoMemory
  BY <1>2, Sizes DEF Grown, NoMemory
<1>3. CASE ~AtLimit(s.count) /\ outcome # NoMemory
  <2>1. Len(s.pool) < Most /\ outcome \in 0..kBufferCount
    BY <1>1, <1>3, PoolFacts, Sizes DEF Outcome
  <2>2. block \in MemoryBlock
    BY <1>1, FreshBlockIs
  <2> HIDE DEF block
  <2>3. /\ r.avaliable = s.avaliable /\ r.count = s.count /\ r.pool = s.pool
        /\ r \in SendPools
        /\ r.registered \in [Entry -> Address("send") \cup {NULL}]
        /\ r.tagged \in SUBSET Entry /\ r.released \in BOOLEAN
        /\ \A i \in 0..(s.count - 1) : r.registered[i] = s.registered[i]
        /\ \A i \in s.count..(s.count + outcome - 1) :
             r.registered[i] = BufferOf("send", block, i)
    BY <2>1, <2>2, RegisteredIs
  <2> HIDE DEF r
  <2>5. CASE outcome # kBufferCount
    <3>1. g = r
      BY <1>3, <2>5 DEF Grown, r, block
    <3> QED
      BY <2>3, <2>5, <3>1 DEF PoolOK
  <2>6. CASE outcome = kBufferCount
    <3>1. g = [r EXCEPT !.pool = Append(r.pool, block),
                        !.avaliable = WithoutRange(r.avaliable, s.count, kBufferCount),
                        !.count = r.count + kBufferCount]
      BY <1>3, <2>6 DEF Grown, r, block
    <3>2. /\ g.pool = Append(s.pool, block)
          /\ g.avaliable = WithoutRange(s.avaliable, s.count, kBufferCount)
          /\ g.count = s.count + kBufferCount
          /\ g.registered = r.registered
      <4> HIDE DEF g
      <4> QED
        BY <2>3, <3>1 DEF SendPools
    <3>3. /\ g.pool \in Seq(MemoryBlock) /\ Distinct(g.pool)
          /\ Len(g.pool) = Len(s.pool) + 1 /\ Len(g.pool) <= Most
          /\ \A i \in 1..Len(s.pool) : g.pool[i] = s.pool[i]
          /\ g.pool[Len(s.pool) + 1] = block
      BY <1>1, <2>1, <3>2, AppendFresh DEF PoolOK, block
    <3>4. /\ Exact(g.avaliable)
          /\ UsedSet(g.avaliable)
               = UsedSet(s.avaliable) \ IndexRange(s.count, kBufferCount)
      <4>1. Exact(s.avaliable) /\ kBufferCount \in Nat
        BY Sizes DEF PoolOK
      <4> DEFINE left == WithoutRange(s.avaliable, s.count, kBufferCount)
      <4>2. /\ Exact(left)
            /\ UsedSet(left) = UsedSet(s.avaliable) \ IndexRange(s.count, kBufferCount)
        BY <1>1, <4>1, WithoutRangeIs
      <4>3. g.avaliable = left
        BY <3>2
      <4> HIDE DEF g, left
      <4> QED
        BY <4>2, <4>3
    <3>5. IndexRange(s.count, kBufferCount) = s.count..(s.count + kBufferCount - 1)
      <4>1. s.count + kBufferCount <= kBufferEntriesMax /\ kBufferEntriesMax = bit_count
        BY <2>1, PoolFacts, WholeBlocks
      <4> QED
        BY <1>1, <4>1, Sizes DEF IndexRange, InRange
    <3>6. U \subseteq 0..(s.count - 1)
      BY DEF PoolOK
    <3>7. U \subseteq 0..(g.count - 1)
      BY <1>1, <3>2, <3>6, Sizes
    <3>8. UsedSet(g.avaliable) = U \cup (Entry \ (0..(g.count - 1)))
      <4>1. UsedSet(s.avaliable) = U \cup (Entry \ (0..(s.count - 1)))
        BY DEF PoolOK
      <4>2. \A i \in Entry : i \in Nat
        BY DEF Entry
      <4> HIDE DEF g
      <4> QED
        BY <1>1, <3>2, <3>4, <3>5, <3>6, <4>1, <4>2, Sizes
    <3>9. g.count = kBufferCount * Len(g.pool) /\ g.count \in Nat
      <4>1. kBufferCount * (Len(s.pool) + 1) = kBufferCount * Len(s.pool) + kBufferCount
        BY <1>1, RoomForABlock
      <4>2. s.count = kBufferCount * Len(s.pool)
        BY DEF PoolOK
      <4> HIDE DEF g
      <4> QED
        BY <1>1, <3>2, <3>3, <4>1, <4>2, Sizes
    <3>10. g \in SendPools
      <4>1. g.avaliable \in BitMaps
        BY <3>4 DEF Exact
      <4> HIDE DEF g
      <4> QED
        BY <2>3, <3>1, <3>2, <3>3, <3>9, <4>1 DEF SendPools
    <3>11. ASSUME NEW i \in 0..(g.count - 1)
           PROVE  g.registered[i] = AddressAt("send", g.pool, i)
      <4>1. CASE i \in 0..(s.count - 1)
        <5>1. i \div kBufferCount + 1 \in 1..Len(s.pool)
          BY <1>1, <4>1, BlockOf DEF PoolOK
        <5>2. s.registered[i] = AddressAt("send", s.pool, i)
          BY <4>1 DEF PoolOK
        <5>3. g.pool[i \div kBufferCount + 1] = s.pool[i \div kBufferCount + 1]
          BY <3>3, <5>1
        <5> QED
          BY <2>3, <3>2, <4>1, <5>2, <5>3 DEF AddressAt
      <4>2. CASE i \notin 0..(s.count - 1)
        <5>1. i \in s.count..(s.count + outcome - 1)
          BY <1>1, <2>6, <3>2, <4>2, Sizes
        <5>2. i \div kBufferCount + 1 = Len(s.pool) + 1
          <6> DEFINE q == i \div kBufferCount
                     n == i % kBufferCount
          <6>1. /\ q \in 0..(Len(g.pool) - 1) /\ n \in 0..(kBufferCount - 1)
                /\ i = kBufferCount * q + n
            BY <1>1, <3>3, <3>9, BlockOf
          <6>2. kBufferCount * Len(s.pool) <= i
            BY <1>1, <5>1 DEF PoolOK
          <6> HIDE DEF q, n
          <6>3. Len(s.pool) <= q
            <7>1. kBufferCount * Len(s.pool) + 0 <= kBufferCount * q + n
              BY <1>1, <6>1, <6>2, Sizes
            <7>2. 0 \in 0..(kBufferCount - 1) /\ q \in Nat
              BY <1>1, <3>3, <6>1, Sizes
            <7> QED
              BY <1>1, <6>1, <7>1, <7>2, Sizes, Lexicographic, SMTT(30)
          <6> QED
            BY <1>1, <3>3, <6>1, <6>3 DEF q
        <5> QED
          BY <2>3, <3>2, <3>3, <5>1, <5>2 DEF AddressAt
      <4> QED
        BY <4>1, <4>2
    <3>12. PoolOK(g, U)
      <4> HIDE DEF g
      <4> QED
        BY <3>3, <3>4, <3>7, <3>8, <3>9, <3>10, <3>11 DEF PoolOK
    <3> QED
      BY <1>3, <2>6, <3>2, <3>12
  <2> QED
    BY <2>5, <2>6
<1> QED
  BY <1>2, <1>3

(* A change of the bits that marks exactly what is in use keeps the pool in *)
(* order.                                                                   *)
LEMMA NewBits ==
  ASSUME NEW s, NEW U, NEW V, NEW m, PoolOK(s, U), Exact(m),
         V \subseteq 0..(s.count - 1),
         UsedSet(m) = V \cup (Entry \ (0..(s.count - 1)))
  PROVE  PoolOK([s EXCEPT !.avaliable = m], V)
<1> DEFINE t == [s EXCEPT !.avaliable = m]
<1>1. /\ t.avaliable = m /\ t.count = s.count /\ t.pool = s.pool
      /\ t.registered = s.registered /\ t \in SendPools
  BY DEF PoolOK, SendPools, Exact
<1> HIDE DEF t
<1>2. PoolOK(t, V)
  BY <1>1 DEF PoolOK
<1> QED
  BY <1>2 DEF t

(* GetSendBufferIndex hands out a free buffer of the pool, a new one only if *)
(* all are in use, and refuses only if it cannot get any.                    *)
LEMMA GetSendBufferIndexIs ==
  ASSUME NEW s, NEW U, PoolOK(s, U), NEW outcome \in Outcome
  PROVE  LET got == GetSendBufferIndex(s, outcome)
             stock == 0..(s.count - 1)
         IN \/ /\ got.index = NoIndex
               /\ PoolOK(got.send, U)
               /\ got.send.count = s.count /\ U = stock
               /\ s.count = kBufferEntriesMax \/ outcome # kBufferCount
            \/ /\ got.index # NoIndex
               /\ got.index \in 0..(got.send.count - 1) /\ got.index \in Entry
               /\ got.index \notin U
               /\ PoolOK(got.send, U \cup {got.index})
               /\ got.send.count \in Nat
               /\ \/ got.send.count = s.count
                  \/ U = stock /\ got.send.count = s.count + kBufferCount
<1> DEFINE g == IF FirstFree(s.avaliable) = NoIndex THEN Grown(s, outcome) ELSE s
           index == FirstFree(g.avaliable)
           m == WithIndex(g.avaliable, index)
           got == GetSendBufferIndex(s, outcome)
           stock == 0..(s.count - 1)
<1>1. got = [index |-> index, send |-> [g EXCEPT !.avaliable = m]]
  <2>1. [g EXCEPT !.avaliable = WithIndex(@, index)] = [g EXCEPT !.avaliable = m]
    OBVIOUS
  <2> QED
    BY <2>1 DEF GetSendBufferIndex
<1>2. /\ s.count \in Nat /\ stock \subseteq Entry /\ U \subseteq stock
      /\ UsedSet(s.avaliable) = U \cup (Entry \ stock) /\ Exact(s.avaliable)
  BY PoolFacts DEF PoolOK
<1>3. U = stock <=> FirstFree(s.avaliable) = NoIndex
  BY <1>2, FirstFreeIs, Sizes
<1>4. /\ PoolOK(g, U)
      /\ \/ g.count = s.count
         \/ U = stock /\ g.count = s.count + kBufferCount
      /\ FirstFree(s.avaliable) = NoIndex =>
           IF AtLimit(s.count) \/ outcome # kBufferCount
           THEN g.count = s.count /\ g.avaliable = s.avaliable
           ELSE g.count = s.count + kBufferCount
  BY <1>3, GrownIs
<1> HIDE DEF g
<1>5. /\ g.count \in Nat /\ 0..(g.count - 1) \subseteq Entry /\ U \subseteq 0..(g.count - 1)
      /\ UsedSet(g.avaliable) = U \cup (Entry \ (0..(g.count - 1))) /\ Exact(g.avaliable)
  BY <1>4, PoolFacts DEF PoolOK
<1>6. /\ index = NoIndex <=> UsedSet(g.avaliable) = Index
      /\ index # NoIndex => index \in Index \ UsedSet(g.avaliable)
  BY <1>5, FirstFreeIs
<1> DEFINE t == [g EXCEPT !.avaliable = m]
<1>7. t.count = g.count
  BY <1>4 DEF PoolOK, SendPools
<1>8. CASE index = NoIndex
  <2>1. m = g.avaliable
    BY <1>8 DEF WithIndex, NoIndex, Index
  <2> HIDE DEF m
  <2>2. PoolOK(t, U)
    BY <1>4, <1>5, <2>1, NewBits
  <2>3. U = 0..(g.count - 1)
    BY <1>5, <1>6, <1>8, Sizes
  <2>4. g.count = s.count
    <3>1. SUFFICES ASSUME U = stock, g.count = s.count + kBufferCount PROVE FALSE
      BY <1>4
    <3>2. s.count \in 0..(g.count - 1) /\ s.count \notin stock
      BY <1>2, <3>1, Sizes
    <3> QED
      BY <2>3, <3>1, <3>2
  <2>5. FirstFree(s.avaliable) = NoIndex
    BY <1>3, <2>3, <2>4
  <2>6. s.count = kBufferEntriesMax \/ outcome # kBufferCount
    <3>1. s.count + kBufferCount # s.count
      BY <1>2, Sizes
    <3> QED
      BY <1>4, <2>4, <2>5, <3>1 DEF AtLimit
  <2>7. got.index = NoIndex /\ got.send = t
    BY <1>1, <1>8
  <2> HIDE DEF got, t
  <2> QED
    BY <1>7, <2>2, <2>3, <2>4, <2>6, <2>7 DEF got
<1>9. CASE index # NoIndex
  <2>1. index \in Index /\ index \in 0..(g.count - 1) /\ index \notin U /\ index \in Entry
    BY <1>5, <1>6, <1>9, Sizes
  <2> HIDE DEF index
  <2>2. Exact(m) /\ UsedSet(m) = UsedSet(g.avaliable) \cup {index}
    BY <1>5, <2>1, WithIndexIs
  <2> HIDE DEF m
  <2>3. PoolOK(t, U \cup {index})
    <3>1. U \cup {index} \subseteq 0..(g.count - 1)
      BY <1>5, <2>1
    <3>2. UsedSet(m) = (U \cup {index}) \cup (Entry \ (0..(g.count - 1)))
      BY <1>5, <2>2
    <3> QED
      BY <1>4, <2>2, <3>1, <3>2, NewBits
  <2>4. got.index = index /\ got.send = t
    BY <1>1
  <2> HIDE DEF got, t
  <2> QED
    BY <1>4, <1>5, <1>7, <1>9, <2>1, <2>3, <2>4 DEF got
<1> QED
  BY <1>8, <1>9

-------------------------------------------------------------------------
(* The receive pool: the buffers of its blocks, each offered or filled. *)
RecvOK == /\ recv_pool \in Seq(MemoryBlock)
          /\ Len(recv_pool) <= Most
          /\ Distinct(recv_pool)
          /\ buf_ring \cap received = {}
          /\ buf_ring \cup received
               = {<<i, AddressAt("recv", recv_pool, i)>> : i \in 0..(recv_buffer_count - 1)}

Stages == {"none", "queued", "reported"}
Endings == {"no", "send_error", "invalid_buffer", "unknown_operation"}

(* The inductive invariant. *)
IInv == /\ PoolOK(send, InUse)
        /\ zc \in [Entry -> Stages]
        /\ RecvOK
        /\ starved \in BOOLEAN
        /\ ended \in Endings

(* The buffers of the receive pool and what GetRecvBuffer gives for them. *)
LEMMA RecvFacts ==
  ASSUME RecvOK
  PROVE  /\ Len(recv_pool) \in Nat
         /\ recv_buffer_count \in Nat /\ recv_buffer_count <= kBufferEntriesMax
         /\ 0..(recv_buffer_count - 1) \subseteq Entry
         /\ AtLimit(recv_buffer_count) <=> Len(recv_pool) = Most
         /\ \A e \in buf_ring \cup received :
              /\ e \in Entry \X Address("recv")
              /\ e[1] \in 0..(recv_buffer_count - 1)
              /\ e = <<e[1], AddressAt("recv", recv_pool, e[1])>>
              /\ GetRecvBuffer(e[1]) = {e[2]} /\ e[2] # NULL
<1>1. recv_pool \in Seq(MemoryBlock) /\ Len(recv_pool) \in Nat
  BY DEF RecvOK
<1>2. /\ recv_buffer_count \in Nat /\ recv_buffer_count <= kBufferEntriesMax
      /\ AtLimit(recv_buffer_count) <=> Len(recv_pool) = Most
  BY <1>1, RoomForABlock DEF RecvOK, recv_buffer_count, AtLimit
<1>3. 0..(recv_buffer_count - 1) \subseteq Entry
  BY <1>2, Sizes DEF Entry
<1>4. ASSUME NEW e \in buf_ring \cup received
      PROVE  /\ e \in Entry \X Address("recv")
             /\ e[1] \in 0..(recv_buffer_count - 1)
             /\ e = <<e[1], AddressAt("recv", recv_pool, e[1])>>
             /\ GetRecvBuffer(e[1]) = {e[2]} /\ e[2] # NULL
  <2>1. PICK i \in 0..(recv_buffer_count - 1) : e = <<i, AddressAt("recv", recv_pool, i)>>
    BY DEF RecvOK
  <2>2. AddressAt("recv", recv_pool, i) \in Address("recv")
    BY <1>1, AddressesDiffer DEF RecvOK, recv_buffer_count
  <2>3. i \div kBufferCount \in 0..(Len(recv_pool) - 1)
    BY <1>1, BlockOf DEF recv_buffer_count
  <2>4. ~(i \div kBufferCount > Len(recv_pool)) /\ i \div kBufferCount # Len(recv_pool)
    BY <1>1, <2>3
  <2>5. GetRecvBuffer(i) = {AddressAt("recv", recv_pool, i)}
    BY <2>4 DEF GetRecvBuffer, AddressAt
  <2> QED
    BY <1>3, <2>1, <2>2, <2>5, NullIsNoBuffer
<1> QED
  BY <1>1, <1>2, <1>3, <1>4

(* Growing keeps the receive pool in order. *)
LEMMA GrowRecvKeeps ==
  ASSUME RecvOK, NEW outcome, GrowRecv(outcome), UNCHANGED received
  PROVE  RecvOK'
<1>1. CASE AtLimit(recv_buffer_count) \/ outcome = NoMemory
  BY <1>1 DEF GrowRecv, RecvOK, recv_buffer_count
<1>2. CASE ~(AtLimit(recv_buffer_count) \/ outcome = NoMemory)
  <2> DEFINE block == FreshBlock(recv_pool)
             n == Len(recv_pool)
             old(i) == <<i, AddressAt("recv", recv_pool, i)>>
             new(i) == <<i, AddressAt("recv", recv_pool', i)>>
  <2>1. /\ recv_pool' = Append(recv_pool, block)
        /\ buf_ring' = buf_ring \cup Offered(block)
    BY <1>2 DEF GrowRecv
  <2>2. /\ recv_pool \in Seq(MemoryBlock) /\ n \in Nat /\ n < Most /\ Distinct(recv_pool)
        /\ recv_buffer_count = kBufferCount * n /\ recv_buffer_count \in Nat
    BY <1>2, RecvFacts, Sizes DEF RecvOK, recv_buffer_count
  <2>3. /\ recv_pool' \in Seq(MemoryBlock) /\ Distinct(recv_pool')
        /\ Len(recv_pool') = n + 1 /\ Len(recv_pool') <= Most
        /\ \A i \in 1..n : recv_pool'[i] = recv_pool[i]
        /\ recv_pool'[n + 1] = block
    BY <2>1, <2>2, AppendFresh
  <2>4. recv_buffer_count' = recv_buffer_count + kBufferCount
    BY <2>2, <2>3, RoomForABlock DEF recv_buffer_count
  <2>5. ASSUME NEW i \in 0..(recv_buffer_count - 1)
        PROVE  old(i) = new(i)
    <3>1. i \div kBufferCount + 1 \in 1..n
      BY <2>2, BlockOf
    <3> QED
      BY <2>3, <3>1 DEF AddressAt
  <2>6. ASSUME NEW i \in 0..(kBufferCount - 1)
        PROVE  <<recv_buffer_count + i, BufferOf("recv", block, i)>> = new(recv_buffer_count + i)
    <3>1. ASSUME NEW k \in Nat \ {0}, NEW j \in 0..(k - 1)
          PROVE  (k * n + j) \div k = n /\ (k * n + j) % k = j /\ j % k = j
      <4>1. (k * n + j) \div k = n /\ (k * n + j) % k = j
        BY <2>2, DivModUnique
      <4>2. j = k * 0 + j
        OBVIOUS
      <4>3. (k * 0 + j) % k = j
        BY DivModUnique
      <4> QED
        BY <4>1, <4>2, <4>3
    <3>2. /\ (recv_buffer_count + i) \div kBufferCount = n
          /\ (recv_buffer_count + i) % kBufferCount = i
          /\ i % kBufferCount = i
      BY <2>2, <3>1, Sizes
    <3> QED
      BY <2>3, <3>2 DEF AddressAt, BufferOf
  <2>7. Offered(block) = {new(i) : i \in recv_buffer_count..(recv_buffer_count + kBufferCount - 1)}
    <3> DEFINE made(i) == <<recv_buffer_count + i, BufferOf("recv", block, i)>>
    <3>1. \A i \in 0..(kBufferCount - 1) :
            /\ recv_buffer_count + i \in recv_buffer_count..(recv_buffer_count + kBufferCount - 1)
            /\ made(i) = new(recv_buffer_count + i)
      BY <2>2, <2>6, Sizes
    <3>2. \A j \in recv_buffer_count..(recv_buffer_count + kBufferCount - 1) :
            /\ j - recv_buffer_count \in 0..(kBufferCount - 1)
            /\ recv_buffer_count + (j - recv_buffer_count) = j
      BY <2>2, Sizes
    <3>3. Offered(block) = {made(i) : i \in 0..(kBufferCount - 1)}
      BY DEF Offered
    <3> HIDE DEF made, new
    <3> QED
      BY <3>1, <3>2, <3>3
  <2>8. buf_ring \cup received = {new(i) : i \in 0..(recv_buffer_count - 1)}
    <3>1. buf_ring \cup received = {old(i) : i \in 0..(recv_buffer_count - 1)}
      BY DEF RecvOK
    <3> HIDE DEF old, new
    <3> QED
      BY <2>5, <3>1
  <2>9. (buf_ring \cup received)' = {new(i) : i \in 0..(recv_buffer_count' - 1)}
    <3>1. 0..(recv_buffer_count' - 1)
            = (0..(recv_buffer_count - 1))
                \cup (recv_buffer_count..(recv_buffer_count + kBufferCount - 1))
      BY <2>2, <2>4, Sizes
    <3>2. (buf_ring \cup received)' = (buf_ring \cup received) \cup Offered(block)
      BY <2>1
    <3> HIDE DEF new
    <3> QED
      BY <2>7, <2>8, <3>1, <3>2
  <2>10. Offered(block) \cap (buf_ring \cup received) = {}
    <3>1. \A e \in Offered(block) : e[1] \in Nat /\ e[1] >= recv_buffer_count
      BY <2>2, <2>7
    <3>2. \A e \in buf_ring \cup received : e[1] < recv_buffer_count
      BY <2>2, <2>8
    <3> QED
      BY <2>2, <3>1, <3>2
  <2>11. (buf_ring \cap received)' = {}
    BY <2>1, <2>10 DEF RecvOK
  <2> QED
    BY <2>3, <2>9, <2>11 DEF RecvOK
<1> QED
  BY <1>1, <1>2

-------------------------------------------------------------------------
(* The constructor leaves both pools in order. *)
LEMMA Initial == Init => IInv
<1> SUFFICES ASSUME Init PROVE IInv
  OBVIOUS
<1> USE DEF Init
<1>1. InUse = {}
  BY DEF InUse
<1>2. PoolOK(EmptySend, {})
  <2>1. /\ EmptySend.pool = <<>> /\ EmptySend.count = 0 /\ EmptySend.avaliable = Disabled
        /\ EmptySend.registered = [i \in Entry |-> NULL]
    BY DEF EmptySend
  <2>2. Exact(Disabled) /\ UsedSet(Disabled) = Entry
    BY DisabledIs, Sizes
  <2>3. EmptySend \in SendPools
    <3>1. Disabled \in BitMaps
      BY <2>2 DEF Exact
    <3>2. <<>> \in Seq(MemoryBlock)
      OBVIOUS
    <3> QED
      BY <3>1, <3>2 DEF EmptySend, SendPools
  <2>4. Len(<<>>) = 0 /\ Distinct(<<>>)
    BY DEF Distinct
  <2>5. kBufferCount * 0 = 0 /\ 0 <= Most /\ 0..(0 - 1) = {}
    BY Sizes
  <2> HIDE DEF EmptySend
  <2> QED
    BY <2>1, <2>2, <2>3, <2>4, <2>5 DEF PoolOK
<1>3. PoolOK(send, InUse)
  <2>1. kBufferCount \in Outcome
    BY Sizes DEF Outcome
  <2> QED
    BY <1>1, <1>2, <2>1, GrownIs
<1>4. RecvOK
  <2>1. /\ recv_pool = <<1>> /\ Len(recv_pool) = 1 /\ recv_pool[1] = 1
        /\ recv_buffer_count = kBufferCount
    BY Sizes DEF recv_buffer_count
  <2>2. recv_pool \in Seq(MemoryBlock) /\ 1 <= Most
    BY <2>1, Sizes DEF MemoryBlock, Most
  <2>3. ASSUME NEW i \in 0..(kBufferCount - 1)
        PROVE  BufferOf("recv", 1, i) = AddressAt("recv", recv_pool, i)
    <3>1. i \in 0..(kBufferCount * 1 - 1)
      BY Sizes
    <3>2. i \div kBufferCount \in 0..(1 - 1)
      BY <3>1, BlockOf
    <3>3. i \div kBufferCount + 1 = 1
      BY <3>2
    <3> QED
      BY <2>1, <3>3 DEF AddressAt
  <2>4. buf_ring = {<<i, AddressAt("recv", recv_pool, i)>> : i \in 0..(kBufferCount - 1)}
    BY <2>3
  <2>5. Distinct(recv_pool) /\ buf_ring \cup received = buf_ring
    BY <2>1 DEF Distinct
  <2> QED
    BY <2>1, <2>2, <2>4, <2>5 DEF RecvOK
<1> QED
  BY <1>3, <1>4 DEF IInv, Stages, Endings

(* A stage that changes for one buffer, in use before and after or not. *)
LEMMA StageChanges ==
  ASSUME zc \in [Entry -> Stages], NEW b \in Entry, NEW stage \in Stages,
         zc' = [zc EXCEPT ![b] = stage]
  PROVE  /\ zc' \in [Entry -> Stages]
         /\ InUse' = IF stage = "none" THEN InUse \ {b} ELSE InUse \cup {b}
         /\ At("queued")' = IF stage = "queued" THEN At("queued") \cup {b} ELSE At("queued") \ {b}
         /\ At("reported")' = IF stage = "reported" THEN At("reported") \cup {b}
                              ELSE At("reported") \ {b}
  BY DEF InUse, At, Stages

(* What each action does to the two pools and the stages. *)
LEMMA InvariantStep == IInv /\ [Next]_vars => IInv'
<1> SUFFICES ASSUME IInv, [Next]_vars PROVE IInv'
  OBVIOUS
<1> USE DEF IInv
<1>0. CASE UNCHANGED vars
  BY <1>0 DEF vars, InUse, RecvOK, recv_buffer_count
<1>1. ASSUME NEW outcome \in Outcome, Send(outcome) PROVE IInv'
  <2> DEFINE got == GetSendBufferIndex(send, outcome)
  <2>1. /\ send' = got.send
        /\ zc' = IF got.index = NoIndex THEN zc ELSE [zc EXCEPT ![got.index] = "queued"]
        /\ UNCHANGED <<recv_pool, buf_ring, received, starved, ended>>
    BY <1>1 DEF Send
  <2>2. RecvOK'
    BY <2>1 DEF RecvOK, recv_buffer_count
  <2>3. CASE got.index = NoIndex
    <3>1. PoolOK(got.send, InUse)
      BY <2>3, GetSendBufferIndexIs
    <3>2. InUse' = InUse
      BY <2>1, <2>3 DEF InUse
    <3> HIDE DEF got
    <3> QED
      BY <2>1, <2>2, <2>3, <3>1, <3>2
  <2>4. CASE got.index # NoIndex
    <3>1. PoolOK(got.send, InUse \cup {got.index}) /\ got.index \in Entry
      BY <2>4, GetSendBufferIndexIs
    <3> HIDE DEF got
    <3>2. zc' \in [Entry -> Stages] /\ InUse' = InUse \cup {got.index}
      BY <2>1, <2>4, <3>1, StageChanges DEF Stages
    <3> QED
      BY <2>1, <2>2, <3>1, <3>2
  <2> QED
    BY <2>3, <2>4
<1>2. ASSUME NEW bidx \in Entry, NEW res, HandleSendResult(bidx, res) PROVE IInv'
  <2>1. /\ zc' = [zc EXCEPT ![bidx] = "reported"] /\ bidx \in InUse
        /\ ended' \in Endings
        /\ UNCHANGED <<send, recv_pool, buf_ring, received, starved>>
    BY <1>2 DEF HandleSendResult, InUse, Endings
  <2>2. zc' \in [Entry -> Stages] /\ InUse' = InUse
    <3>1. "reported" \in Stages /\ "reported" # "none"
      BY DEF Stages
    <3>2. zc' \in [Entry -> Stages] /\ InUse' = InUse \cup {bidx}
      BY <2>1, <3>1, StageChanges
    <3> QED
      BY <2>1, <3>2
  <2> QED
    BY <2>1, <2>2 DEF RecvOK, recv_buffer_count
<1>3. ASSUME NEW bidx \in Entry, HandleNotification(bidx) PROVE IInv'
  <2> DEFINE m == WithoutIndex(send.avaliable, bidx)
  <2>1. /\ zc' = [zc EXCEPT ![bidx] = "none"] /\ bidx \in InUse
        /\ send' = [send EXCEPT !.avaliable = m]
        /\ UNCHANGED <<recv_pool, buf_ring, received, starved, ended>>
    BY <1>3 DEF HandleNotification, Replenished, InUse
  <2>2. zc' \in [Entry -> Stages] /\ InUse' = InUse \ {bidx}
    BY <2>1, StageChanges DEF Stages
  <2>3. Exact(m) /\ UsedSet(m) = UsedSet(send.avaliable) \ {bidx}
    BY Sizes, WithoutIndexIs DEF PoolOK
  <2> HIDE DEF m
  <2>4. PoolOK([send EXCEPT !.avaliable = m], InUse \ {bidx})
    <3>1. InUse \ {bidx} \subseteq 0..(send.count - 1)
      BY DEF PoolOK
    <3>2. UsedSet(m) = (InUse \ {bidx}) \cup (Entry \ (0..(send.count - 1)))
      BY <2>1, <2>3 DEF PoolOK
    <3> QED
      BY <2>3, <3>1, <3>2, NewBits
  <2> QED
    BY <2>1, <2>2, <2>4 DEF RecvOK, recv_buffer_count
<1>4. CASE HandleRelease
  <2>1. /\ send' = [send EXCEPT !.released = FALSE]
        /\ ended' \in Endings
        /\ UNCHANGED <<zc, recv_pool, buf_ring, received, starved>>
    BY <1>4 DEF HandleRelease, Endings
  <2>2. /\ send' \in SendPools /\ send'.count = send.count /\ send'.pool = send.pool
        /\ send'.avaliable = send.avaliable /\ send'.registered = send.registered
    BY <2>1 DEF PoolOK, SendPools
  <2>3. PoolOK(send', InUse)
    BY <2>2 DEF PoolOK
  <2>4. InUse' = InUse
    BY <2>1 DEF InUse
  <2> QED
    BY <2>1, <2>3, <2>4 DEF RecvOK, recv_buffer_count
<1>5. ASSUME NEW entry \in buf_ring, KernelReceives(entry) PROVE IInv'
  BY <1>5 DEF KernelReceives, InUse, RecvOK, recv_buffer_count
<1>6. CASE KernelStarves
  BY <1>6 DEF KernelStarves, InUse, RecvOK, recv_buffer_count
<1>7. ASSUME NEW entry \in received, HandleReceive(entry) PROVE IInv'
  <2>1. GetRecvBuffer(entry[1]) = {entry[2]} /\ entry[2] # NULL /\ entry = <<entry[1], entry[2]>>
    BY RecvFacts
  <2>2. /\ buf_ring' = buf_ring \cup {entry} /\ received' = received \ {entry}
        /\ UNCHANGED <<send, zc, recv_pool, starved, ended>>
    BY <1>7, <2>1 DEF HandleReceive
  <2> QED
    BY <2>2 DEF InUse, RecvOK, recv_buffer_count
<1>8. ASSUME NEW outcome, HandleStarved(outcome) PROVE IInv'
  <2>1. RecvOK'
    BY <1>8, GrowRecvKeeps DEF HandleStarved
  <2> QED
    BY <1>8, <2>1 DEF HandleStarved, InUse
<1> QED
  BY <1>0, <1>1, <1>2, <1>3, <1>4, <1>5, <1>6, <1>7, <1>8 DEF Next

(* The pools stay in order. *)
THEOREM Inductive == Spec => []IInv
  BY Initial, InvariantStep, PTL DEF Spec

(* TypeOK: every variable keeps its shape, and alloc_send_buffers and *)
(* alloc_recv_buffers stop at the maximum.                            *)
THEOREM TypeCorrect == Spec => []TypeOK
<1>1. IInv => TypeOK
  <2> SUFFICES ASSUME IInv PROVE TypeOK
    OBVIOUS
  <2> USE DEF IInv
  <2>1. send \in SendPools /\ send.count = kBufferCount * Len(send.pool)
    BY DEF PoolOK
  <2>2. send.count <= kBufferEntriesMax
    BY PoolFacts
  <2>3. recv_pool \in Seq(MemoryBlock) /\ recv_buffer_count <= kBufferEntriesMax
    BY RecvFacts DEF RecvOK
  <2>4. buf_ring \subseteq Entry \X Address("recv") /\ received \subseteq Entry \X Address("recv")
    BY RecvFacts
  <2> QED
    BY <2>1, <2>2, <2>3, <2>4 DEF TypeOK, Stages, Endings
<1> QED
  BY <1>1, Inductive, PTL

(* BitsFollowLoans: avaliable_buf_index_ marks exactly the buffers that are *)
(* with a send or not registered yet, and counts them.                      *)
THEOREM BitsCorrect == Spec => []BitsFollowLoans
<1>1. IInv => BitsFollowLoans
  BY DEF IInv, PoolOK, Exact, UsedSet, BitsFollowLoans, Stock
<1> QED
  BY <1>1, Inductive, PTL

(* RefusedOnlyInNeed: GetSendBufferIndex refuses only when every buffer is *)
(* with a send and the pool cannot grow.                                   *)
THEOREM RefusalJustified == Spec => []RefusedOnlyInNeed
<1>1. IInv => RefusedOnlyInNeed
  BY GetSendBufferIndexIs DEF IInv, RefusedOnlyInNeed, Stock
<1> QED
  BY <1>1, Inductive, PTL

(* KernelSendsWhatWasWritten: for a buffer in use the kernel has registered *)
(* the memory that GetSendBuffer gives.                                     *)
THEOREM SendsWhatWasWritten == Spec => []KernelSendsWhatWasWritten
<1>1. IInv => KernelSendsWhatWasWritten
  <2> SUFFICES ASSUME IInv, NEW i \in InUse
               PROVE  send.registered[i] = GetSendBuffer(send, i)
    BY DEF KernelSendsWhatWasWritten
  <2>1. i \in 0..(send.count - 1)
    BY DEF IInv, PoolOK
  <2> QED
    BY <2>1, PoolFacts DEF IInv, PoolOK
<1> QED
  BY <1>1, Inductive, PTL

(* BuffersConserved: every receive buffer is offered or filled once, under *)
(* its bid, and no two buffers share memory.                               *)
THEOREM Conserved == Spec => []BuffersConserved
<1>1. IInv => BuffersConserved
  <2> SUFFICES ASSUME IInv PROVE BuffersConserved
    OBVIOUS
  <2> USE DEF IInv
  <2> DEFINE places == buf_ring \cup received
             R == 0..(recv_buffer_count - 1)
             recvs == {e[2] : e \in places}
             sends == {GetSendBuffer(send, i) : i \in Stock}
             f == [i \in R |-> <<i, AddressAt("recv", recv_pool, i)>>]
             g == [i \in R |-> AddressAt("recv", recv_pool, i)]
             h == [i \in Stock |-> GetSendBuffer(send, i)]
  <2>1. /\ recv_pool \in Seq(MemoryBlock) /\ Distinct(recv_pool)
        /\ R = 0..(kBufferCount * Len(recv_pool) - 1)
        /\ recv_buffer_count \in Nat
    BY RecvFacts DEF RecvOK, recv_buffer_count
  <2>2. /\ send.pool \in Seq(MemoryBlock) /\ Distinct(send.pool)
        /\ Stock = 0..(kBufferCount * Len(send.pool) - 1)
        /\ send.count \in Nat
        /\ \A i \in Stock : GetSendBuffer(send, i) = AddressAt("send", send.pool, i)
    BY PoolFacts DEF PoolOK, Stock
  <2>3. IsFiniteSet(R) /\ Cardinality(R) = recv_buffer_count /\ IsFiniteSet(Stock)
    <3>1. ASSUME NEW n \in Nat
          PROVE  IsFiniteSet(0..(n - 1)) /\ Cardinality(0..(n - 1)) = n
      BY <3>1, FS_Interval
    <3>2. recv_buffer_count \in Nat /\ send.count \in Nat
      BY <2>1, <2>2
    <3> QED
      BY <3>1, <3>2 DEF Stock
  <2>4. places = {<<i, AddressAt("recv", recv_pool, i)>> : i \in R}
    BY DEF RecvOK
  <2> HIDE DEF R, places
  <2>12. ASSUME NEW p, NEW pool \in Seq(MemoryBlock), Distinct(pool),
               NEW S, S = 0..(kBufferCount * Len(pool) - 1)
        PROVE  \A x \in S : /\ AddressAt(p, pool, x)[1] = p
                            /\ \A y \in S : AddressAt(p, pool, x) = AddressAt(p, pool, y) => x = y
    BY <2>12, AddressesDiffer
  <2>13. /\ \A x \in R : /\ AddressAt("recv", recv_pool, x)[1] = "recv"
                         /\ \A y \in R : AddressAt("recv", recv_pool, x)
                                          = AddressAt("recv", recv_pool, y) => x = y
         /\ \A x \in Stock : /\ GetSendBuffer(send, x)[1] = "send"
                             /\ \A y \in Stock : GetSendBuffer(send, x)
                                                  = GetSendBuffer(send, y) => x = y
    <3>1. \A x \in R : /\ AddressAt("recv", recv_pool, x)[1] = "recv"
                       /\ \A y \in R : AddressAt("recv", recv_pool, x)
                                        = AddressAt("recv", recv_pool, y) => x = y
      BY <2>1, <2>12
    <3>2. \A x \in Stock : /\ AddressAt("send", send.pool, x)[1] = "send"
                           /\ \A y \in Stock : AddressAt("send", send.pool, x)
                                                = AddressAt("send", send.pool, y) => x = y
      <4>1. /\ send.pool \in Seq(MemoryBlock) /\ Distinct(send.pool)
            /\ Stock = 0..(kBufferCount * Len(send.pool) - 1)
        BY <2>2
      <4> QED
        BY <2>12, <4>1
    <3> QED
      BY <2>2, <3>1, <3>2
  <2>5. Cardinality(places) = recv_buffer_count
    <3>1. f \in [R -> places] /\ (\A t \in places : \E x \in R : f[x] = t)
      BY <2>4
    <3>2. \A x, y \in R : f[x] = f[y] => x = y
      OBVIOUS
    <3> HIDE DEF f
    <3> QED
      BY <2>3, <3>1, <3>2, OneToOne
  <2>6. {e[1] : e \in places} = R
    <3>1. \A e \in places : e[1] \in R
      BY <2>4
    <3>2. \A i \in R : \E e \in places : e[1] = i
      <4> TAKE i \in R
      <4> DEFINE e == <<i, AddressAt("recv", recv_pool, i)>>
      <4>1. e \in places /\ e[1] = i
        BY <2>4
      <4> QED
        BY <4>1
    <3> QED
      BY <3>1, <3>2
  <2>7. IsFiniteSet(recvs) /\ Cardinality(recvs) = recv_buffer_count
    <3>1. \A i \in R : g[i] \in recvs
      <4> SUFFICES ASSUME NEW i \in R PROVE g[i] \in recvs
        OBVIOUS
      <4>1. <<i, AddressAt("recv", recv_pool, i)>> \in places
        BY <2>4
      <4> QED
        BY <4>1
    <3>2. \A t \in recvs : \E x \in R : g[x] = t
      BY <2>4
    <3>3. g \in [R -> recvs]
      BY <3>1
    <3>4. \A x, y \in R : g[x] = g[y] => x = y
      BY <2>13
    <3> HIDE DEF g, recvs
    <3> QED
      BY <2>3, <3>2, <3>3, <3>4, OneToOne
  <2>8. IsFiniteSet(sends) /\ Cardinality(sends) = Cardinality(Stock)
    <3>1. h \in [Stock -> sends] /\ (\A t \in sends : \E x \in Stock : h[x] = t)
      OBVIOUS
    <3>2. \A x, y \in Stock : h[x] = h[y] => x = y
      BY <2>13
    <3> HIDE DEF h, sends
    <3> QED
      BY <2>3, <3>1, <3>2, OneToOne
  <2>9. recvs \cap sends = {}
    <3>1. \A a \in recvs : a[1] = "recv"
      <4> SUFFICES ASSUME NEW e \in places PROVE e[2][1] = "recv"
        OBVIOUS
      <4>1. PICK i \in R : e = <<i, AddressAt("recv", recv_pool, i)>>
        BY <2>4
      <4>2. AddressAt("recv", recv_pool, i)[1] = "recv"
        BY <2>13
      <4> QED
        BY <4>1, <4>2
    <3>2. \A a \in sends : a[1] = "send"
      BY <2>13
    <3> QED
      BY <3>1, <3>2
  <2>10. Cardinality(recvs \cup sends) = Cardinality(places) + Cardinality(Stock)
    <3>1. Cardinality(recvs \cup sends)
            = Cardinality(recvs) + Cardinality(sends) - Cardinality(recvs \cap sends)
      BY <2>7, <2>8, FS_Union
    <3>2. Cardinality(recvs \cap sends) = 0
      BY <2>9, FS_EmptySet
    <3>3. Cardinality(Stock) \in Nat
      BY <2>3, FS_CardinalityType
    <3> HIDE DEF recvs, sends
    <3> QED
      BY <2>1, <2>5, <2>7, <2>8, <3>1, <3>2, <3>3
  <2>11. \A e \in received : GetRecvBuffer(e[1]) = {e[2]}
    BY RecvFacts
  <2>14. ended # "no_selected_buffer"
    BY DEF Endings
  <2> QED
    BY <2>5, <2>6, <2>10, <2>11, <2>14 DEF BuffersConserved, places, R
<1> QED
  BY <1>1, Inductive, PTL

(* RangesAreExact: every operation of the bit map does what it says to the *)
(* used indices and keeps their count.                                     *)
THEOREM BitMapExact == Spec => []RangesAreExact
<1>1. IInv => RangesAreExact
  <2> SUFFICES ASSUME Exact(send.avaliable), NEW begin \in Index, NEW count \in 0..bit_count
               PROVE  LET m == send.avaliable
                          used(n) == {i \in Index : IsUsed(n, i)}
                          is(n, S) == used(n) = S /\ n.used = Cardinality(S)
                          range == IF begin + count > bit_count THEN {}
                                   ELSE begin..(begin + count - 1)
                      IN /\ is(WithRange(m, begin, count), used(m) \cup range)
                         /\ is(WithoutRange(m, begin, count), used(m) \ range)
                         /\ is(WithIndex(m, begin), used(m) \cup {begin})
                         /\ is(WithoutIndex(m, begin), used(m) \ {begin})
                         /\ is(Cleared, {})
    BY DEF IInv, PoolOK, RangesAreExact
  <2> DEFINE m == send.avaliable
             range == IF begin + count > bit_count THEN {} ELSE begin..(begin + count - 1)
  <2>1. begin \in Nat /\ count \in Nat /\ begin < bit_count /\ bit_count \in Nat
    BY BitMapSizes DEF Index
  <2>2. range = IndexRange(begin, count)
    BY <2>1 DEF IndexRange, InRange
  <2> HIDE DEF range
  <2>3. /\ UsedSet(WithRange(m, begin, count)) = UsedSet(m) \cup range
        /\ Exact(WithRange(m, begin, count))
        /\ UsedSet(WithoutRange(m, begin, count)) = UsedSet(m) \ range
        /\ Exact(WithoutRange(m, begin, count))
    BY <2>1, <2>2, WithRangeIs, WithoutRangeIs
  <2>4. /\ UsedSet(WithIndex(m, begin)) = UsedSet(m) \cup {begin}
        /\ Exact(WithIndex(m, begin))
        /\ UsedSet(WithoutIndex(m, begin)) = UsedSet(m) \ {begin}
        /\ Exact(WithoutIndex(m, begin))
        /\ UsedSet(Cleared) = {} /\ Exact(Cleared)
    BY WithIndexIs, WithoutIndexIs, ClearedIs
  <2> QED
    BY <2>3, <2>4 DEF UsedSet, Exact, range
<1> QED
  BY <1>1, Inductive, PTL

-------------------------------------------------------------------------
(* ImplementsBufferLending: a step of the pool lends a buffer, reports its *)
(* send, takes it back, or changes nothing the abstract pool has.          *)
LEMMA LendingStep ==
  ASSUME IInv, [Next]_vars
  PROVE  [Lending!Next]_<<Stock, At("queued"), At("reported")>>
<1> DEFINE Stutter == UNCHANGED <<Stock, At("queued"), At("reported")>>
<1> USE DEF IInv
<1>0. zc' = zc => UNCHANGED <<At("queued"), At("reported")>>
  BY DEF At
<1>1. send'.count = send.count => UNCHANGED Stock
  BY DEF Stock
<1>2. InUse = At("queued") \cup At("reported") /\ At("queued") \cap At("reported") = {}
  BY DEF InUse, At, Stages
<1>3. CASE UNCHANGED vars
  BY <1>0, <1>1, <1>3 DEF vars
<1>4. ASSUME NEW outcome \in Outcome, Send(outcome) PROVE Stutter \/ Lending!Next
  <2> DEFINE got == GetSendBufferIndex(send, outcome)
             b == got.index
  <2>1. /\ send' = got.send
        /\ zc' = IF got.index = NoIndex THEN zc ELSE [zc EXCEPT ![got.index] = "queued"]
    BY <1>4 DEF Send
  <2>2. CASE got.index = NoIndex
    <3>1. send'.count = send.count
      BY <2>1, <2>2, GetSendBufferIndexIs
    <3> QED
      BY <1>0, <1>1, <2>1, <2>2, <3>1
  <2>3. CASE got.index # NoIndex
    <3>1. /\ b \in Stock' /\ b \in Entry /\ b \notin InUse
          /\ send'.count \in Nat
          /\ \/ send'.count = send.count
             \/ InUse = Stock /\ send'.count = send.count + kBufferCount
      BY <2>1, <2>3, GetSendBufferIndexIs DEF Stock
    <3>2. zc' = [zc EXCEPT ![b] = "queued"]
      BY <2>1, <2>3
    <3> HIDE DEF got, b
    <3>3. /\ At("queued")' = At("queued") \cup {b}
          /\ At("reported")' = At("reported")
      <4>1. At("reported")' = At("reported") \ {b} /\ At("queued")' = At("queued") \cup {b}
        BY <3>1, <3>2, StageChanges DEF Stages
      <4> QED
        BY <1>2, <3>1, <4>1
    <3>4. CASE send'.count = send.count
      <4>1. Lending!Lend(b)
        BY <1>1, <1>2, <3>1, <3>3, <3>4 DEF Lending!Lend
      <4> QED
        BY <3>1, <4>1 DEF Lending!Next
    <3>5. CASE InUse = Stock /\ send'.count = send.count + kBufferCount
      <4>1. Stock \subseteq Stock'
        BY <3>1, <3>5, PoolFacts, Sizes DEF Stock
      <4>2. Lending!GrowAndLend(b)
        BY <1>2, <3>1, <3>3, <3>5, <4>1 DEF Lending!GrowAndLend
      <4> QED
        BY <3>1, <4>2 DEF Lending!Next
    <3> QED
      BY <3>1, <3>4, <3>5
  <2> QED
    BY <2>2, <2>3
<1>5. ASSUME NEW bidx \in Entry, NEW res, HandleSendResult(bidx, res) PROVE Lending!Next
  <2>1. zc' = [zc EXCEPT ![bidx] = "reported"] /\ bidx \in At("queued") /\ send' = send
    BY <1>5 DEF HandleSendResult, At
  <2>2. /\ At("queued")' = At("queued") \ {bidx}
        /\ At("reported")' = At("reported") \cup {bidx}
    BY <2>1, StageChanges DEF Stages
  <2>3. bidx \in Stock'
    BY <1>1, <1>2, <2>1 DEF PoolOK, Stock
  <2>4. Lending!Report(bidx)
    BY <1>1, <2>1, <2>2 DEF Lending!Report
  <2> QED
    BY <2>3, <2>4 DEF Lending!Next
<1>6. ASSUME NEW bidx \in Entry, HandleNotification(bidx) PROVE Lending!Next
  <2>1. zc' = [zc EXCEPT ![bidx] = "none"] /\ bidx \in At("reported")
    BY <1>6 DEF HandleNotification, At
  <2>2. send'.count = send.count
    BY <1>6 DEF HandleNotification, Replenished, PoolOK, SendPools
  <2>3. /\ At("queued")' = At("queued")
        /\ At("reported")' = At("reported") \ {bidx}
    <3>1. /\ At("queued")' = At("queued") \ {bidx}
          /\ At("reported")' = At("reported") \ {bidx}
      BY <2>1, StageChanges DEF Stages
    <3> QED
      BY <1>2, <2>1, <3>1
  <2>4. bidx \in Stock'
    BY <1>1, <1>2, <2>1, <2>2 DEF PoolOK, Stock
  <2>5. Lending!Return(bidx)
    BY <1>1, <2>1, <2>2, <2>3 DEF Lending!Return
  <2> QED
    BY <2>4, <2>5 DEF Lending!Next
<1>7. CASE HandleRelease
  <2>1. zc' = zc /\ send'.count = send.count
    BY <1>7 DEF HandleRelease, PoolOK, SendPools
  <2> QED
    BY <1>0, <1>1, <2>1
<1>8. ASSUME zc' = zc, send' = send PROVE Stutter
  BY <1>0, <1>1, <1>8
<1>9. ASSUME NEW entry, KernelReceives(entry) \/ HandleReceive(entry) PROVE Stutter
  BY <1>8, <1>9 DEF KernelReceives, HandleReceive
<1>10. ASSUME NEW outcome, HandleStarved(outcome) PROVE Stutter
  BY <1>8, <1>10 DEF HandleStarved
<1>11. CASE KernelStarves
  BY <1>8, <1>11 DEF KernelStarves
<1> QED
  BY <1>3, <1>4, <1>5, <1>6, <1>7, <1>9, <1>10, <1>11 DEF Next

(* The two pools lend buffers as BufferLending says (buffer.cc with the  *)
(* handlers of event_loop.cc): a send buffer is given to a handler that  *)
(* has none of its memory in flight, and comes back once, after its      *)
(* notification.                                                         *)
THEOREM LendingImplemented == Spec => ImplementsBufferLending
<1>1. Init => Lending!Init
  BY DEF Init, Lending!Init, At
<1>2. IInv /\ [Next]_vars => [Lending!Next]_(Lending!vars)
  BY LendingStep DEF Lending!vars
<1> QED
  BY <1>1, <1>2, Inductive, PTL DEF Spec, ImplementsBufferLending, Lending!Spec
===========================================================================
