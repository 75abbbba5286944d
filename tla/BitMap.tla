------------------------------ MODULE BitMap ------------------------------
(***************************************************************************)
(* The bit map of utils/bitmap.cc: words of kBitMapUnitSize bits and a     *)
(* used count beside them.  A word is the set of its bits that are 1, so   *)
(* that a mask is a set, | is \cup and & is \cap.  Ranges are those that   *)
(* fit in 32 bits: begin_index + count does not wrap.                      *)
(***************************************************************************)
EXTENDS Integers, FiniteSets, FiniteSetsExt

CONSTANTS kBitMapUnitSize,  \* bits in a word
          bit_count         \* BitMap::bit_count_

ASSUME BitMapSizes == kBitMapUnitSize \in Nat \ {0} /\ bit_count \in Nat \ {0}

NoIndex == -1

Index == 0..(bit_count - 1)
Bit == 0..(kBitMapUnitSize - 1)
Blocks == 0..((bit_count + kBitMapUnitSize - 1) \div kBitMapUnitSize - 1)
BitMaps == [words : [Blocks -> SUBSET Bit], used : Nat]

(* Every index used (disable_flag), the bits past the last index too. *)
Disabled == [words |-> [i \in Blocks |-> Bit], used |-> bit_count]

Cleared == [words |-> [i \in Blocks |-> {}], used |-> 0]

IsUsed(m, index) == index % kBitMapUnitSize \in m.words[index \div kBitMapUnitSize]

FirstFree_FirstWord(m) ==
  IF m.used = bit_count \/ m.words[0] = Bit THEN NoIndex ELSE Min(Bit \ m.words[0])

(* The first clear bit, unless it lies past the last index. *)
FirstFree(m) ==
  LET free == {i \in Blocks : m.words[i] # Bit}
      index == Min(free) * kBitMapUnitSize + Min(Bit \ m.words[Min(free)])
  IN IF m.used = bit_count \/ free = {} THEN NoIndex
     ELSE IF index < bit_count THEN index ELSE NoIndex

Flipped(m, index, to, by) ==
  [words |-> [m.words EXCEPT ![index \div kBitMapUnitSize] = to], used |-> m.used + by]

WithIndex_CountsOnly(m, index) ==
  IF index \notin Index \/ IsUsed(m, index) THEN m
  ELSE Flipped(m, index, m.words[index \div kBitMapUnitSize], 1)

(* GetAndSetIndex and SetIndex share their effect. *)
WithIndex(m, index) ==
  IF index \notin Index \/ IsUsed(m, index) THEN m
  ELSE Flipped(m, index,
               m.words[index \div kBitMapUnitSize] \cup {index % kBitMapUnitSize}, 1)

WithoutIndex_KeepsCount(m, index) ==
  IF index \notin Index \/ ~IsUsed(m, index) THEN m
  ELSE Flipped(m, index,
               m.words[index \div kBitMapUnitSize] \ {index % kBitMapUnitSize}, 0)

WithoutIndex(m, index) ==
  IF index \notin Index \/ ~IsUsed(m, index) THEN m
  ELSE Flipped(m, index,
               m.words[index \div kBitMapUnitSize] \ {index % kBitMapUnitSize}, -1)

(* ~((1 << n) - 1), and (1 << n) - 1 with 0 taken for a whole word. *)
From(n) == {b \in Bit : b >= n % kBitMapUnitSize}
Below_Plain(n) == {b \in Bit : b < n % kBitMapUnitSize}
Below(n) == IF n % kBitMapUnitSize = 0 THEN Bit
            ELSE {b \in Bit : b < n % kBitMapUnitSize}

(* The masks of a range: its first word, its last, and the whole words between. *)
RangeMask(begin, count) ==
  LET first == begin \div kBitMapUnitSize
      last == (begin + count - 1) \div kBitMapUnitSize
  IN [i \in Blocks |-> IF i \notin first..last THEN {}
                       ELSE (IF i = first THEN From(begin) ELSE Bit)
                            \cap (IF i = last THEN Below(begin + count) ELSE Bit)]

InRange(begin, count) == count # 0 /\ begin < bit_count /\ begin + count <= bit_count

(* How many bits of the masks are 1 in the words. *)
UsedWithin(m, mask) ==
  Cardinality(UNION {{i} \X (m.words[i] \cap mask[i]) : i \in Blocks})

WithRange(m, begin, count) ==
  LET mask == RangeMask(begin, count)
  IN IF ~InRange(begin, count) THEN m
     ELSE [words |-> [i \in Blocks |-> m.words[i] \cup mask[i]],
           used |-> m.used - UsedWithin(m, mask) + count]

WithoutRange(m, begin, count) ==
  LET mask == RangeMask(begin, count)
  IN IF ~InRange(begin, count) THEN m
     ELSE [words |-> [i \in Blocks |-> m.words[i] \ mask[i]],
           used |-> m.used - UsedWithin(m, mask)]
=============================================================================
