---------------------------- MODULE KernelProofs ----------------------------
(***************************************************************************)
(* For any memory map, end of the modules, processor and width of a word   *)
(* of the bitmap: bitmap_firstz is right and both searches tell when the   *)
(* bitmap is full; as long as none of the bitmap's own frames is given     *)
(* away, it says what happened, and no frame is given away twice by the    *)
(* two boot allocators and the page lists, where the loader's search       *)
(* allows it.                                                              *)
(*                                                                         *)
(* Then, for any modules and command line: main of the loader chooses the  *)
(* kernel that was asked for, keeps the modules out of the frames it gives *)
(* away, and knows the features of the processor.                          *)
(*                                                                         *)
(* And for any exceptions, whenever they come, and any boot: they are      *)
(* reported as the processor raised them, and the handler table is         *)
(* complete from arch::init on.                                            *)
(***************************************************************************)
EXTENDS KernelProps, ListLemmas


-----------------------------------------------------------------------------
(* The least and the greatest element of a set of numbers.                 *)
LEMMA Least ==
  ASSUME NEW T \in SUBSET Nat, T # {}
  PROVE  Smallest(T) \in T /\ \A y \in T : Smallest(T) <= y
BY HasLeast DEF Smallest

LEMMA LeastIs ==
  ASSUME NEW T \in SUBSET Int, NEW x \in T, \A y \in T : x <= y
  PROVE  Smallest(T) = x
<1> DEFINE z == Smallest(T)
<1>1. z \in T /\ \A y \in T : z <= y
  BY DEF Smallest
<1> HIDE DEF z
<1>2. z \in Int /\ x \in Int /\ x <= z /\ z <= x
  BY <1>1
<1>3. z = x
  BY <1>2
<1> QED
  BY <1>3 DEF z

LEMMA Greatest ==
  ASSUME NEW T \in SUBSET Nat, T # {}, NEW n \in Nat, \A t \in T : t <= n
  PROVE  Largest(T) \in T /\ \A y \in T : Largest(T) >= y
<1> DEFINE D == {n - t : t \in T}
<1>1. D \in SUBSET Nat /\ D # {}
  <2>1. \A t \in T : n - t \in Nat
    OBVIOUS
  <2>2. D \subseteq Nat
    BY <2>1
  <2> QED
    BY <2>2
<1> HIDE DEF D
<1>2. Smallest(D) \in D /\ \A y \in D : Smallest(D) <= y
  BY <1>1, Least
<1>3. PICK x \in T : Smallest(D) = n - x
  BY <1>2 DEF D
<1>4. \A y \in T : x >= y
  <2> SUFFICES ASSUME NEW y \in T PROVE x >= y
    OBVIOUS
  <2>1. n - y \in D
    BY DEF D
  <2> QED
    BY <1>2, <1>3, <2>1
<1> QED
  BY <1>4 DEF Largest

LEMMA GreatestIs ==
  ASSUME NEW T \in SUBSET Int, NEW x \in T, \A y \in T : x >= y
  PROVE  Largest(T) = x
<1> DEFINE z == Largest(T)
<1>1. z \in T /\ \A y \in T : z >= y
  BY DEF Largest
<1> HIDE DEF z
<1>2. z \in Int /\ x \in Int /\ x >= z /\ z >= x
  BY <1>1
<1>3. z = x
  BY <1>2
<1> QED
  BY <1>3 DEF z

-----------------------------------------------------------------------------
(* The searches of bitmap.h.                                               *)
USE BitmapAssumption DEF GetBits

LEMMA BitsIndices ==
  ASSUME NEW length \in Nat
  PROVE  /\ GetBits(length) \in Nat
         /\ \A i \in 0 .. length - 1, b \in 0 .. W - 1 :
              GetBits(i) + b \in Bits(length) /\ (GetBits(i) + b) \div W = i
         /\ \A k \in Bits(length) :
              /\ k \in Nat /\ k \div W \in 0 .. length - 1 /\ k % W \in 0 .. W - 1
              /\ k = GetBits(k \div W) + (k % W)
<1>1. GetBits(length) \in Nat
  BY TimesNat
<1>2. ASSUME NEW i \in 0 .. length - 1, NEW b \in 0 .. W - 1
      PROVE  GetBits(i) + b \in Bits(length) /\ (GetBits(i) + b) \div W = i
  <2>1. i * W \in Nat /\ (i + 1) * W <= length * W /\ (i + 1) * W = i * W + W
    BY TimesNat, TimesMonotone, TimesNext
  <2>2. (i * W + b) \div W = i
    BY DivOfWord
  <2> QED
    BY <1>1, <2>1, <2>2 DEF Bits
<1>3. ASSUME NEW k \in Bits(length)
      PROVE  /\ k \in Nat /\ k \div W \in 0 .. length - 1 /\ k % W \in 0 .. W - 1
             /\ k = GetBits(k \div W) + (k % W)
  <2>1. k \in Nat /\ k < length * W
    BY <1>1 DEF Bits
  <2>2. k \div W \in Nat /\ k % W \in 0 .. W - 1 /\ k = (k \div W) * W + (k % W)
    BY <2>1, DivMod
  <2>3. ~(length <= k \div W)
    <3>1. length <= k \div W => length * W <= (k \div W) * W
      BY <2>2, TimesMonotone
    <3>2. (k \div W) * W \in Nat /\ length * W \in Nat
      BY <2>2, TimesNat
    <3> QED
      BY <2>1, <2>2, <3>1, <3>2
  <2> QED
    BY <2>1, <2>2, <2>3
<1> QED
  BY <1>1, <1>2, <1>3

(* The words that are searched are those of the clear bits.                *)
LEMMA NotFullWords ==
  ASSUME NEW length \in Nat, NEW bits
  PROVE  /\ NotFull(bits, length) \in SUBSET (0 .. length - 1)
         /\ \A k \in Bits(length) \ bits : k \div W \in NotFull(bits, length)
         /\ \A i \in NotFull(bits, length) :
              \E b \in 0 .. W - 1 : GetBits(i) + b \in Bits(length) \ bits
BY BitsIndices DEF NotFull

(* bitmap_firstz finds the lowest clear bit.                               *)
LEMMA FirstZeroRight ==
  ASSUME NEW length \in Nat, NEW bits
  PROVE  LET clear == Bits(length) \ bits
         IN /\ clear = {} => FirstZero(bits, length) = -1
            /\ clear # {} => /\ FirstZero(bits, length) \in clear
                            /\ \A k \in clear : FirstZero(bits, length) <= k
<1> DEFINE clear == Bits(length) \ bits
           words == NotFull(bits, length)
           i == Smallest(words)
           B == {b \in 0 .. W - 1 : GetBits(i) + b \notin bits}
<1>1. words = {} <=> clear = {}
  BY NotFullWords
<1>2. ASSUME words = {} PROVE FirstZero(bits, length) = -1
  BY <1>2 DEF FirstZero
<1>3. ASSUME words # {}
      PROVE  /\ FirstZero(bits, length) \in clear
             /\ \A k \in clear : FirstZero(bits, length) <= k
  <2>1. i \in words /\ i \in 0 .. length - 1 /\ \A j \in words : i <= j
    <3>1. words \in SUBSET Nat /\ words \in SUBSET (0 .. length - 1)
      BY NotFullWords
    <3> HIDE DEF words
    <3> QED
      BY <1>3, <3>1, Least
  <2>2. Smallest(B) \in B /\ \A b \in B : Smallest(B) <= b
    <3>1. B \in SUBSET Nat
      OBVIOUS
    <3>2. B # {}
      BY <2>1, NotFullWords
    <3> HIDE DEF B
    <3> QED
      BY <3>1, <3>2, Least
  <2>3. FirstZero(bits, length) = GetBits(i) + Smallest(B)
    BY <1>3 DEF FirstZero
  <2> DEFINE s == Smallest(B)
             f == GetBits(i) + s
  <2> HIDE DEF s
  <2>4. s \in 0 .. W - 1 /\ f \notin bits /\ \A b \in B : s <= b
    BY <2>2 DEF s
  <2> HIDE DEF i, B, words
  <2>5. f \in Bits(length) /\ f \in Nat /\ GetBits(i) \in Nat
    <3>1. i \in 0 .. length - 1 /\ s \in 0 .. W - 1
      BY <2>1, <2>4
    <3>2. f \in Bits(length)
      BY <3>1, BitsIndices
    <3>3. GetBits(i) \in Nat
      BY <3>1, TimesNat
    <3> QED
      BY <3>1, <3>2, <3>3
  <2>6. ASSUME NEW k \in clear PROVE f <= k
    <3>1. /\ k \in Nat /\ k \div W \in 0 .. length - 1 /\ k % W \in 0 .. W - 1
          /\ k = GetBits(k \div W) + (k % W)
      BY BitsIndices
    <3>2. i <= k \div W
      BY <2>1, NotFullWords DEF words
    <3>3. CASE i = k \div W
      <4>1. k % W \in B
        BY <3>1, <3>3 DEF B
      <4> QED
        BY <2>4, <2>5, <3>1, <3>3, <4>1
    <3>4. CASE i < k \div W
      <4>1. (i + 1) * W <= (k \div W) * W /\ (i + 1) * W = i * W + W
        BY <2>1, <3>1, <3>4, TimesMonotone, TimesNext
      <4>2. (k \div W) * W \in Nat
        BY <3>1, TimesNat
      <4> QED
        BY <2>4, <2>5, <3>1, <4>1, <4>2
    <3> QED
      BY <2>1, <3>1, <3>2, <3>3, <3>4
  <2> QED
    BY <2>3, <2>4, <2>5, <2>6 DEF s
<1> QED
  BY <1>1, <1>2, <1>3

(* bitmap_lastz finds the word of the highest clear bit, and its first bit. *)
LEMMA LastZeroRight ==
  ASSUME NEW length \in Nat, NEW bits
  PROVE  LET clear == Bits(length) \ bits
         IN /\ clear = {} => LastZero(bits, length) = -1
            /\ clear # {} =>
                 /\ Largest(clear) \in clear /\ \A k \in clear : k <= Largest(clear)
                 /\ LastZero(bits, length) = GetBits(Largest(clear) \div W)
<1> DEFINE clear == Bits(length) \ bits
           words == NotFull(bits, length)
           i == Largest(words)
           top == Largest(clear)
<1>1. words = {} <=> clear = {}
  BY NotFullWords
<1>2. ASSUME clear = {} PROVE LastZero(bits, length) = -1
  BY <1>1, <1>2 DEF LastZero
<1>3. ASSUME clear # {}
      PROVE  /\ top \in clear /\ \A k \in clear : k <= top
             /\ LastZero(bits, length) = GetBits(top \div W)
  <2>1. top \in clear /\ \A k \in clear : top >= k
    <3>1. GetBits(length) \in Nat /\ clear \in SUBSET Nat
      BY BitsIndices DEF Bits
    <3>2. \A k \in clear : k <= GetBits(length)
      BY <3>1 DEF Bits
    <3> HIDE DEF clear
    <3> QED
      BY <1>3, <3>1, <3>2, Greatest
  <2>2. i \in words /\ \A j \in words : i >= j
    <3>1. words \in SUBSET Nat /\ \A j \in words : j <= length
      BY NotFullWords
    <3>2. words # {}
      BY <1>1, <1>3
    <3> HIDE DEF words
    <3> QED
      BY <3>1, <3>2, Greatest
  <2> HIDE DEF i, top
  <2>3. /\ top \in Nat /\ top \in Bits(length) /\ top \div W \in words
        /\ \A k \in clear : k \in Nat
    BY <2>1, NotFullWords, BitsIndices
  <2>4. i \in 0 .. length - 1
    BY <2>2, NotFullWords
  <2>5. PICK b \in 0 .. W - 1 : GetBits(i) + b \in clear
    BY <2>2, NotFullWords
  <2>6. GetBits(i) + b <= top /\ (GetBits(i) + b) \div W = i
    BY <2>1, <2>3, <2>4, <2>5, BitsIndices
  <2>7. i <= top \div W
    <3>1. GetBits(i) + b \in Nat
      BY <2>3, <2>5
    <3> HIDE DEF clear
    <3> QED
      BY <2>3, <2>6, <3>1, DivMonotone
  <2>8. i = top \div W
    <3>1. top \div W \in Nat /\ i \in Nat
      <4> HIDE DEF clear, words
      <4>1. top \in Nat /\ i \in Nat
        BY <2>3, <2>4
      <4> QED
        BY <4>1, DivMod
    <3> QED
      BY <2>2, <2>3, <2>7, <3>1
  <2>9. LastZero(bits, length) = GetBits(i)
    BY <1>1, <1>3 DEF LastZero, i
  <2> QED
    BY <2>1, <2>3, <2>8, <2>9
<1> QED
  BY <1>1, <1>2, <1>3

(* bitmap_firstz is right on every bitmap, and bitmap_lastz finds none when *)
(* none is clear, whatever the width of a word.                            *)
LEMMA SearchRight ==
  ASSUME NEW length \in Nat, NEW bits
  PROVE  Right(bits, length, FirstZero(bits, length), LastZero(bits, length))
<1> DEFINE clear == Bits(length) \ bits
           first == FirstZero(bits, length)
           last == LastZero(bits, length)
           top == Largest(clear)
<1>1. clear \in SUBSET Nat
  BY BitsIndices
<1>2. CASE clear = {}
  BY <1>2, FirstZeroRight, LastZeroRight DEF Right
<1>3. CASE clear # {}
  <2>1. first \in clear /\ \A k \in clear : first <= k
    BY <1>3, FirstZeroRight
  <2>2. Smallest(clear) = first
    <3>1. clear \in SUBSET Int
      BY <1>1
    <3> HIDE DEF clear, first
    <3> QED
      BY <2>1, <3>1, LeastIs
  <2>3. top \in clear /\ last = GetBits(top \div W)
    BY <1>3, LastZeroRight
  <2>4. top \in Nat /\ top \div W \in Nat
    <3>1. top \in Nat
      BY <1>1, <2>3
    <3> HIDE DEF top
    <3> QED
      BY <3>1, DivMod
  <2>5. last # -1
    <3> HIDE DEF top
    <3>1. GetBits(top \div W) \in Nat
      BY <2>4, TimesNat
    <3> QED
      BY <2>3, <3>1
  <2> QED
    BY <1>3, <2>2, <2>5 DEF Right
<1> QED
  BY <1>2, <1>3

LEMMA SearchesAlwaysRight == Searches
BY SearchRight, PropsAssumption DEF Searches

-----------------------------------------------------------------------------
(* The memory map.                                                         *)
LEMMA PageLimits ==
  ASSUME NEW a \in Nat, NEW b \in Nat, a <= b
  PROVE  /\ AlignUp(a) \in Nat /\ AlignDown(a) \in Nat
         /\ AlignUp(a) <= AlignUp(b) /\ AlignDown(a) <= AlignUp(b)
BY BootMemAssumption DEF AlignUp, AlignDown

(* The frames of the map lie below its end, and the bitmap has a bit for   *)
(* each.                                                                   *)
LEMMA FramesFit ==
  ASSUME NEW m \in Maps
  PROVE  /\ NumPages(m) \in Nat /\ Length(m) \in Nat \ {0}
         /\ Usable(m) \subseteq 0 .. NumPages(m) - 1
         /\ 0 .. NumPages(m) - 1 \subseteq Bits(Length(m))
         /\ Mapped(m) \subseteq Usable(m)
<1> DEFINE ends == {End(m[k]) : k \in DOMAIN m}
           end == Largest(ends)
<1>1. /\ DOMAIN m = 1 .. Len(m) /\ Len(m) \in Nat \ {0}
      /\ \A k \in DOMAIN m : m[k].addr \in Nat /\ m[k].len \in Nat
  <2> DEFINE R == [addr : Nat, len : Nat, usable : BOOLEAN]
  <2>1. m \in Seq(R) /\ m # <<>>
    BY BootMemAssumption
  <2>2. \A r \in R : r.addr \in Nat /\ r.len \in Nat
    OBVIOUS
  <2> HIDE DEF R
  <2>3. DOMAIN m = 1 .. Len(m) /\ Len(m) \in Nat /\ \A k \in DOMAIN m : m[k] \in R
    BY <2>1
  <2>4. Len(m) # 0
    BY <2>1, EmptySeq
  <2> QED
    BY <2>2, <2>3, <2>4
<1>2. \A k \in DOMAIN m : End(m[k]) \in Nat
  BY <1>1 DEF End
<1>3. end \in ends /\ \A e \in ends : end >= e
  <2>1. ends \in SUBSET Nat /\ ends # {}
    BY <1>1, <1>2
  <2>2. PICK b \in Nat : \A k \in 1 .. Len(m) : End(m[k]) <= b
    <3> DEFINE f == [k \in 1 .. Len(m) |-> End(m[k])]
    <3>1. \A k \in 1 .. Len(m) : f[k] \in Nat /\ f[k] = End(m[k])
      BY <1>1, <1>2
    <3> HIDE DEF f
    <3>2. \E b \in Nat : \A k \in 1 .. Len(m) : f[k] <= b
      BY <1>1, <3>1, SequenceBounded
    <3> QED
      BY <3>1, <3>2
  <2>3. \A e \in ends : e <= b
    BY <1>1, <2>2
  <2> HIDE DEF ends
  <2> QED
    BY <2>1, <2>3, Greatest
<1>4. end \in Nat /\ \A k \in DOMAIN m : End(m[k]) <= end
  BY <1>2, <1>3
<1>5. NumPages(m) = AlignUp(end)
  BY DEF NumPages
<1> HIDE DEF end
<1>6. NumPages(m) \in Nat
  BY <1>4, <1>5, PageLimits
<1>7. Usable(m) \subseteq 0 .. NumPages(m) - 1
  <2> SUFFICES ASSUME NEW f \in Usable(m) PROVE f \in 0 .. NumPages(m) - 1
    OBVIOUS
  <2>1. PICK k \in DOMAIN m : f \in PagesIn(m[k])
    BY DEF Usable, UsableRegions, Seen
  <2>2. /\ AlignUp(m[k].addr) \in Nat
        /\ AlignDown(End(m[k])) \in Nat
        /\ AlignDown(End(m[k])) <= AlignUp(end)
    <3>1. m[k].addr \in Nat /\ End(m[k]) \in Nat /\ End(m[k]) <= end
      BY <1>1, <1>2, <1>4
    <3>2. AlignUp(m[k].addr) \in Nat
      BY <3>1, PageLimits
    <3>3. AlignDown(End(m[k])) \in Nat /\ AlignDown(End(m[k])) <= AlignUp(end)
      BY <1>4, <3>1, PageLimits
    <3> QED
      BY <3>2, <3>3
  <2>3. f \in AlignUp(m[k].addr) .. AlignDown(End(m[k])) - 1
    BY <2>1 DEF PagesIn
  <2> QED
    BY <1>5, <1>6, <2>2, <2>3
<1>8. Length(m) \in Nat \ {0} /\ 0 .. NumPages(m) - 1 \subseteq Bits(Length(m))
  <2> DEFINE n == NumPages(m)
             q == n \div W
  <2>1. /\ q \in Nat /\ n % W \in 0 .. W - 1 /\ n = q * W + (n % W)
        /\ (q + 1) * W = q * W + W /\ q * W \in Nat
    <3> HIDE DEF n
    <3>1. n \in Nat
      BY <1>6 DEF n
    <3>2. q \in Nat /\ n % W \in 0 .. W - 1 /\ n = q * W + (n % W)
      BY <3>1, DivMod
    <3> HIDE DEF q
    <3>3. (q + 1) * W = q * W + W /\ q * W \in Nat
      BY <3>2, TimesNext, TimesNat
    <3> QED
      BY <3>2, <3>3
  <2>2. Length(m) = q + 1
    BY DEF Length, GetLength
  <2> HIDE DEF q
  <2> QED
    BY <1>6, <2>1, <2>2 DEF Bits
<1>9. Mapped(m) \subseteq Usable(m)
  BY DEF Mapped
<1> QED
  BY <1>6, <1>7, <1>8, <1>9
-----------------------------------------------------------------------------
(* What the steps do, and that they keep the invariant.                    *)
Clear == Bits(Length(mmap)) \ alloc_map

BootInv == BitmapInv /\ HandedOnce /\ PoolIsRest /\ PanicOnlyWhenFull

LEMMA MemoryUnchanged ==
  ASSUME UNCHANGED <<cpu, mmap, mods_end>>
  PROVE  /\ UNCHANGED <<Usable(mmap), NumPages(mmap), Length(mmap), TooSmall(mmap)>>
         /\ UNCHANGED <<Reserved(mods_end), BitmapFrames(mmap, mods_end), Free, LoaderTop>>
         /\ UNCHANGED <<LoaderFits, BitmapFits>>
<1>1. UNCHANGED UsableRegions(mmap)
  BY DEF UsableRegions, Seen, Detected, FeatureTest, HasLeaf, Detect
<1>2. UNCHANGED <<NumPages(mmap), Length(mmap), TooSmall(mmap)>>
  BY DEF NumPages, Length, TooSmall
<1>3. UNCHANGED Usable(mmap)
  BY <1>1 DEF Usable
<1>5. UNCHANGED <<Reserved(mods_end), BitmapFrames(mmap, mods_end)>>
  BY <1>2 DEF Reserved, BitmapFrames
<1>6. UNCHANGED Free
  BY <1>3, <1>5 DEF Free
<1>7. UNCHANGED LoaderTop
  BY <1>6 DEF LoaderTop
<1>8. UNCHANGED <<LoaderFits, BitmapFits>>
  BY <1>2, <1>5, <1>6, <1>7 DEF LoaderFits, BitmapFits
<1> QED
  BY <1>2, <1>3, <1>5, <1>6, <1>7, <1>8

LEMMA UntouchedUnchanged ==
  ASSUME UNCHANGED <<cpu, mmap, mods_end, handed>>
  PROVE  UNCHANGED Untouched
BY MemoryUnchanged DEF Untouched

LEMMA AppendFrame ==
  ASSUME NEW s \in Seq(Int), NEW f \in Int
  PROVE  /\ Append(s, f) \in Seq(Int) /\ Len(Append(s, f)) = Len(s) + 1 /\ Len(s) \in Nat
         /\ \A k \in 1 .. Len(s) : Append(s, f)[k] = s[k]
         /\ Append(s, f)[Len(s) + 1] = f
         /\ ToSet(Append(s, f)) = ToSet(s) \cup {f}
<1> DEFINE t == Append(s, f)
<1>1. /\ t \in Seq(Int) /\ Len(t) = Len(s) + 1 /\ Len(s) \in Nat
      /\ \A k \in 1 .. Len(s) : t[k] = s[k]
      /\ t[Len(s) + 1] = f
      /\ DOMAIN t = 1 .. Len(s) + 1 /\ DOMAIN s = 1 .. Len(s)
  BY AppendProperties
<1> HIDE DEF t
<1>2. 1 .. Len(s) + 1 = 1 .. Len(s) \cup {Len(s) + 1}
  BY <1>1
<1>3. ToSet(t) = ToSet(s) \cup {f}
  <2>1. ASSUME NEW k \in DOMAIN t PROVE t[k] \in ToSet(s) \cup {f}
    <3>1. k = Len(s) + 1 \/ k \in DOMAIN s
      BY <1>1, <1>2
    <3> QED
      BY <1>1, <3>1 DEF ToSet
  <2>2. ASSUME NEW k \in DOMAIN s PROVE s[k] \in ToSet(t)
    <3>1. k \in DOMAIN t /\ t[k] = s[k]
      BY <1>1
    <3> QED
      BY <3>1, Zenon DEF ToSet
  <2>3. f \in ToSet(t)
    <3>1. Len(s) + 1 \in DOMAIN t
      BY <1>1
    <3> QED
      BY <1>1, <3>1, Zenon DEF ToSet
  <2> QED
    BY <2>1, <2>2, <2>3, Zenon DEF ToSet
<1> QED
  BY <1>1, <1>3 DEF t

LEMMA FreeFrames ==
  ASSUME mmap \in Maps
  PROVE  /\ Free \subseteq Bits(Length(mmap)) /\ Free \subseteq Nat
         /\ Bits(Length(mmap)) \ (FreeMap(mmap) \cup Reserved(mods_end)) = Free
BY FramesFit DEF Free, FreeMap

(* No bit lies in a frame the bitmap does not.                             *)
LEMMA BitsOutside ==
  ASSUME TypeOK, NEW f, f \notin BitmapFrames(mmap, mods_end)
  PROVE  BitsIn(f) = {}
<1> DEFINE start == AlignUp(mods_end)
           bits == GetBits(Length(mmap))
           last == (bits - 1) \div PageBits
<1>1. start \in Nat
  <2>1. mods_end \in Nat
    BY BootMemAssumption DEF TypeOK
  <2> QED
    BY <2>1, PageLimits
<1>2. bits \in Nat
  BY FramesFit, BitsIndices DEF TypeOK
<1>3. SUFFICES ASSUME NEW b \in Bits(Length(mmap)), start + b \div PageBits = f
               PROVE  FALSE
  BY DEF BitsIn
<1>4. b \in Nat /\ b <= bits - 1 /\ bits - 1 \in Nat
  <2>1. b \in 0 .. bits - 1
    BY <1>3 DEF Bits
  <2> HIDE DEF bits
  <2> QED
    BY <1>2, <2>1
<1> HIDE DEF start, bits
<1>5. b \div PageBits \in Nat /\ last \in Nat /\ b \div PageBits <= last
  BY <1>4, BootMemAssumption, DivMod, DivMonotone
<1>6. f \in start .. start + last
  <2> DEFINE q == b \div PageBits
  <2>1. q \in Nat /\ last \in Nat /\ q <= last /\ start + q = f
    BY <1>3, <1>5
  <2> HIDE DEF q, last
  <2> QED
    BY <1>1, <2>1
<1> QED
  BY <1>6 DEF BitmapFrames, start, bits

(* A frame that leaves, whichever allocator gives it.                      *)
LEMMA HandOutKeeps ==
  ASSUME TypeOK, MarksExact, Booted, NEW f \in Int, NEW n \in Int, NEW clear \in BOOLEAN,
         HandOut(f, n, clear)
  PROVE  /\ TypeOK' /\ MarksExact'
         /\ ~clear \/ f \notin BitmapFrames(mmap, mods_end) => Clear' = Clear \ {f}
         /\ Untouched' => Untouched /\ f \notin BitmapFrames(mmap, mods_end)
         /\ ToSet(handed') = ToSet(handed) \cup {f}
         /\ Len(handed') = Len(handed) + 1 /\ Len(handed) \in Nat
         /\ DOMAIN handed = 1 .. Len(handed) /\ DOMAIN handed' = 1 .. Len(handed) + 1
         /\ \A k \in 1 .. Len(handed) : handed'[k] = handed[k]
         /\ handed'[Len(handed) + 1] = f
<1>1. /\ UNCHANGED <<cpu, mmap, mods_end, phase, pool>>
      /\ alloc_map' = (alloc_map \cup {f}) \ (IF clear THEN BitsIn(f) ELSE {})
      /\ handed' = Append(handed, f) /\ ptr' = n
  BY DEF HandOut, SetBit
<1>2. /\ UNCHANGED <<NumPages(mmap), Length(mmap), Free>>
      /\ UNCHANGED BitmapFrames(mmap, mods_end)
  BY <1>1, MemoryUnchanged
<1>3. handed \in Seq(Int)
  BY DEF TypeOK
<1>4. /\ handed' \in Seq(Int) /\ Len(handed') = Len(handed) + 1 /\ Len(handed) \in Nat
      /\ \A k \in 1 .. Len(handed) : handed'[k] = handed[k]
      /\ handed'[Len(handed) + 1] = f
      /\ ToSet(handed') = ToSet(handed) \cup {f}
  <2>1. handed \in Seq(Int) /\ f \in Int /\ handed' = Append(handed, f)
    BY <1>1, <1>3
  <2> QED
    BY <2>1, AppendFrame
<1>5. DOMAIN handed = 1 .. Len(handed) /\ DOMAIN handed' = 1 .. Len(handed) + 1
  BY <1>3, <1>4
<1>6. TypeOK'
  BY <1>1, <1>2, <1>4 DEF TypeOK
<1>7. ~clear \/ f \notin BitmapFrames(mmap, mods_end) => Clear' = Clear \ {f}
  <2> SUFFICES ASSUME ~clear \/ f \notin BitmapFrames(mmap, mods_end)
               PROVE  Clear' = Clear \ {f}
    OBVIOUS
  <2>1. alloc_map' = alloc_map \cup {f}
    BY <1>1, BitsOutside
  <2> QED
    BY <1>2, <2>1 DEF Clear, Bits
<1>8. Untouched' => Untouched /\ f \notin BitmapFrames(mmap, mods_end)
  BY <1>2, <1>4 DEF Untouched
<1>9. MarksExact'
  BY <1>1, <1>2, <1>4, <1>7, <1>8 DEF MarksExact, Clear, Booted
<1> QED
  BY <1>4, <1>5, <1>6, <1>7, <1>8, <1>9

LEMMA HandedOnceUnchanged ==
  ASSUME HandedOnce, UNCHANGED <<cpu, mmap, mods_end, handed>>
  PROVE  HandedOnce'
<1>1. UNCHANGED <<Free, LoaderFits, BitmapFits, Untouched>>
  BY MemoryUnchanged, UntouchedUnchanged
<1> QED
  BY <1>1 DEF HandedOnce, BitmapKept

LEMMA HandedOnceGrows ==
  ASSUME TypeOK, MarksExact, Booted, HandedOnce, NEW f \in Int, NEW n \in Int,
         NEW clear \in BOOLEAN, HandOut(f, n, clear),
         LoaderFits /\ Untouched => f \notin ToSet(handed),
         LoaderFits /\ Untouched /\ f \in BitmapFrames(mmap, mods_end) =>
           /\ ~BitmapFits
           /\ \A low \in Free : low < KernelStart => low \in ToSet(handed)
  PROVE  HandedOnce'
<1>1. UNCHANGED <<cpu, mmap, mods_end>>
  BY DEF HandOut
<1>2. UNCHANGED <<BitmapFrames(mmap, mods_end), Free, LoaderFits, BitmapFits>>
  BY <1>1, MemoryUnchanged
<1>3. /\ ToSet(handed') = ToSet(handed) \cup {f}
      /\ Len(handed) \in Nat
      /\ DOMAIN handed = 1 .. Len(handed) /\ DOMAIN handed' = 1 .. Len(handed) + 1
      /\ \A k \in 1 .. Len(handed) : handed'[k] = handed[k]
      /\ handed'[Len(handed) + 1] = f
      /\ Untouched' => Untouched
  BY HandOutKeeps
<1>4. SUFFICES ASSUME LoaderFits
               PROVE  /\ Untouched' => \A i, j \in DOMAIN handed' :
                                          handed'[i] = handed'[j] => i = j
                      /\ BitmapKept'
  BY <1>2 DEF HandedOnce
<1>5. ASSUME Untouched',
             NEW i \in DOMAIN handed', NEW j \in DOMAIN handed', handed'[i] = handed'[j]
      PROVE  i = j
  <2>1. \A k \in DOMAIN handed : handed[k] # f
    BY <1>3, <1>4, <1>5 DEF ToSet
  <2>2. \A k, l \in DOMAIN handed : handed[k] = handed[l] => k = l
    BY <1>3, <1>4, <1>5 DEF HandedOnce
  <2>3. i = Len(handed) + 1 \/ (i \in DOMAIN handed /\ handed'[i] = handed[i])
    BY <1>3
  <2>4. j = Len(handed) + 1 \/ (j \in DOMAIN handed /\ handed'[j] = handed[j])
    BY <1>3
  <2> QED
    BY <1>3, <1>5, <2>1, <2>2, <2>3, <2>4
<1>6. BitmapKept'
  <2>1. Untouched /\ f \notin BitmapFrames(mmap, mods_end) => Untouched'
    BY <1>2, <1>3 DEF Untouched
  <2> QED
    BY <1>2, <1>3, <1>4, <2>1 DEF HandedOnce, BitmapKept
<1> QED
  BY <1>5, <1>6

LEMMA SearchValues ==
  ASSUME mmap \in Maps, NEW bits
  PROVE  /\ FirstZero(bits, Length(mmap)) \in Int /\ LastZero(bits, Length(mmap)) \in Int
         /\ FirstZero(bits, Length(mmap)) = -1 => Bits(Length(mmap)) \subseteq bits
         /\ LastZero(bits, Length(mmap)) = -1 => Bits(Length(mmap)) \subseteq bits
<1> DEFINE length == Length(mmap)
           clear == Bits(length) \ bits
           top == Largest(clear)
<1>1. length \in Nat
  BY FramesFit
<1> HIDE DEF length
<1>2. \A k \in Bits(length) : k \in Nat
  BY <1>1, BitsIndices
<1>3. CASE clear = {}
  <2>1. FirstZero(bits, length) = -1 /\ LastZero(bits, length) = -1
    BY <1>1, <1>3, FirstZeroRight, LastZeroRight
  <2> QED
    BY <1>3, <2>1 DEF length
<1>4. CASE clear # {}
  <2>1. FirstZero(bits, length) \in clear
    BY <1>1, <1>4, FirstZeroRight
  <2>2. top \in clear /\ LastZero(bits, length) = GetBits(top \div W)
    BY <1>1, <1>4, LastZeroRight
  <2>3. FirstZero(bits, length) \in Nat /\ top \in Nat
    BY <1>2, <2>1, <2>2
  <2>4. LastZero(bits, length) \in Nat
    <3> HIDE DEF top
    <3>1. top \div W \in Nat
      BY <2>3, DivMod
    <3> QED
      BY <2>2, <3>1, TimesNat
  <2> QED
    BY <2>3, <2>4 DEF length
<1> QED
  BY <1>3, <1>4

-----------------------------------------------------------------------------
(* The steps.                                                              *)
USE DEF BootInv, BitmapInv

LEMMA BecomeKeeps ==
  ASSUME BootInv, phase = "start",
         \/ TooSmall(mmap) /\ Become("panic")
         \/ Become("assert")
  PROVE  BootInv'
<1>1. /\ UNCHANGED <<cpu, mmap, mods_end, alloc_map, ptr, handed, pool>>
      /\ phase' = "assert" \/ (TooSmall(mmap) /\ phase' = "panic")
  BY DEF Become
<1>2. UNCHANGED <<NumPages(mmap), Length(mmap), TooSmall(mmap)>>
  BY <1>1, MemoryUnchanged
<1>3. TypeOK' /\ MarksExact' /\ PtrInv'
  BY <1>1, <1>2 DEF TypeOK, MarksExact, PtrInv, Booted
<1>4. HandedOnce'
  BY <1>1, HandedOnceUnchanged
<1>5. PoolIsRest' /\ PanicOnlyWhenFull'
  BY <1>1, <1>2 DEF PoolIsRest, PanicOnlyWhenFull
<1> QED
  BY <1>3, <1>4, <1>5

LEMMA InitKeeps ==
  ASSUME BootInv, mods_end \in ModsEnds, InitBootMM
  PROVE  BootInv'
<1> DEFINE z == LastZero(alloc_map', Length(mmap))
<1>1. /\ phase = "start" /\ handed = <<>>
      /\ alloc_map' = FreeMap(mmap) \cup Reserved(mods_end)
      /\ ptr' = z /\ phase' = IF z = -1 THEN "panic" ELSE "loader"
      /\ UNCHANGED <<cpu, mmap, mods_end, handed, pool>>
  BY DEF InitBootMM, UpdateAll, PtrInv
<1>2. UNCHANGED <<NumPages(mmap), Length(mmap), Free, LoaderTop, LoaderFits>>
  BY <1>1, MemoryUnchanged
<1>3. mmap \in Maps /\ Length(mmap) \in Nat
  BY FramesFit DEF TypeOK
<1>4. Bits(Length(mmap)) \ alloc_map' = Free
  BY <1>1, <1>3, FreeFrames
<1>5. z \in Int /\ (z = -1 => Bits(Length(mmap)) \subseteq alloc_map')
  BY <1>3, SearchValues
<1> HIDE DEF z
<1>6. TypeOK'
  <2>1. FreeMap(mmap) \subseteq Int /\ Reserved(mods_end) \subseteq Int
    BY <1>3, BitsIndices DEF FreeMap, Reserved
  <2> QED
    BY <1>1, <1>2, <1>5, <2>1 DEF TypeOK
<1>7. MarksExact'
  BY <1>1, <1>2, <1>4 DEF MarksExact, ToSet, Bits
<1>8. PtrInv'
  <2>1. Len(handed') = 0 /\ DOMAIN handed' = {}
    BY <1>1
  <2>2. ASSUME z # -1 PROVE z = LoaderTop /\ LoaderTop \in Int
    <3>1. Free # {}
      BY <1>3, <1>4, <2>2, LastZeroRight DEF z
    <3>2. /\ Largest(Free) \in Free /\ \A k \in Free : k <= Largest(Free)
          /\ z = GetBits(Largest(Free) \div W)
      BY <1>3, <1>4, <3>1, LastZeroRight DEF z
    <3> DEFINE top == Largest(Free)
    <3>3. Free \subseteq Nat /\ top \in Nat
      BY <1>3, <3>2, FreeFrames
    <3>4. \A k \in {0} \cup Free : top >= k
      BY <3>2, <3>3
    <3>5. Largest({0} \cup Free) = top
      <4>1. {0} \cup Free \in SUBSET Int /\ top \in {0} \cup Free
        BY <3>2, <3>3
      <4> HIDE DEF top
      <4> QED
        BY <3>4, <4>1, GreatestIs
    <3> QED
      BY <1>5, <3>2, <3>5 DEF LoaderTop
  <2> QED
    BY <1>1, <1>2, <2>1, <2>2, BootMemAssumption DEF PtrInv, Booted
<1>9. HandedOnce'
  BY <1>1, HandedOnceUnchanged
<1>10. PoolIsRest' /\ PanicOnlyWhenFull'
  BY <1>1, <1>2, <1>5 DEF PoolIsRest, PanicOnlyWhenFull, Bits
<1> QED
  BY <1>6, <1>7, <1>8, <1>9, <1>10
(* The machine stops when a search finds nothing.                          *)
LEMMA NoFrameKeeps ==
  ASSUME BootInv, phase # "start", NEW z \in Int, NoFrame(z),
         z = -1 => Bits(Length(mmap)) \subseteq alloc_map
  PROVE  BootInv'
<1>1. /\ phase' = "panic" /\ ptr' = z /\ Bits(Length(mmap)) \subseteq alloc_map
      /\ UNCHANGED <<cpu, mmap, mods_end, alloc_map, handed, pool>>
  BY DEF NoFrame, UpdateAll
<1>2. UNCHANGED <<NumPages(mmap), Length(mmap)>>
  BY <1>1, MemoryUnchanged
<1>3. TypeOK' /\ MarksExact' /\ PtrInv'
  BY <1>1, <1>2 DEF TypeOK, MarksExact, PtrInv, Booted
<1>4. HandedOnce'
  BY <1>1, HandedOnceUnchanged
<1>5. PoolIsRest' /\ PanicOnlyWhenFull'
  BY <1>1, <1>2 DEF PoolIsRest, PanicOnlyWhenFull, Bits
<1> QED
  BY <1>3, <1>4, <1>5

LEMMA LoaderTopType == mmap \in Maps => LoaderTop \in Nat
<1> SUFFICES ASSUME mmap \in Maps PROVE LoaderTop \in Nat
  OBVIOUS
<1> DEFINE T == {0} \cup Free
           b == GetBits(Length(mmap))
           top == Largest(T)
<1>1. b \in Nat /\ Free \subseteq Nat /\ \A k \in Free : k <= b
  <2>1. Length(mmap) \in Nat
    BY FramesFit
  <2>2. b \in Nat
    BY <2>1, BitsIndices
  <2>3. Free \subseteq Nat /\ Free \subseteq 0 .. b - 1
    BY FreeFrames DEF Bits
  <2> HIDE DEF b
  <2> QED
    BY <2>2, <2>3
<1> HIDE DEF b
<1>2. T \in SUBSET Nat /\ T # {} /\ \A k \in T : k <= b
  BY <1>1
<1> HIDE DEF T
<1>3. top \in Nat
  BY <1>1, <1>2, Greatest
<1> HIDE DEF top
<1>4. top \div W \in Nat
  BY <1>3, DivMod
<1>5. LoaderTop = (top \div W) * W
  BY DEF LoaderTop, top, T
<1> QED
  BY <1>4, <1>5, TimesNat

(* On a map that suits it the loader takes the frame below the last one it *)
(* took, which is free, without a search.                                  *)
LEMMA LoaderTakesNext ==
  ASSUME BootInv, phase = "loader", Len(handed) < LoaderPages, LoaderFits
  PROVE  /\ ptr = LoaderTop - Len(handed) /\ ptr \in Clear /\ ptr \notin ToSet(handed)
         /\ Untouched /\ ptr \notin BitmapFrames(mmap, mods_end)
         /\ LoaderTop \in Int /\ Len(handed) \in Nat
         /\ MustSearch = {FALSE}
<1>1. /\ Len(handed) \in Nat /\ DOMAIN handed = 1 .. Len(handed) /\ LoaderPages \in Nat
      /\ mmap \in Maps
  BY BootMemAssumption DEF TypeOK
<1>2. /\ ptr = LoaderTop - Len(handed)
      /\ \A i \in DOMAIN handed : handed[i] = LoaderTop - i + 1
  BY DEF PtrInv
<1>3. Len(handed) \in 0 .. LoaderPages - 1 /\ 0 \in 0 .. LoaderPages - 1
  BY <1>1
<1>4. /\ LoaderTop - 0 \in Free /\ ptr > 1 /\ ptr \in Free
      /\ ptr \notin BitmapFrames(mmap, mods_end)
  BY <1>2, <1>3 DEF LoaderFits
<1>5. Free \subseteq Nat
  BY <1>1, FreeFrames
<1>6. LoaderTop \in Int /\ ptr \in Nat
  BY <1>1, <1>4, <1>5, LoaderTopType
<1>7. ptr \notin ToSet(handed)
  <2>1. ASSUME NEW i \in DOMAIN handed PROVE handed[i] # ptr
    BY <1>1, <1>2, <1>6
  <2> QED
    BY <2>1 DEF ToSet
<1>10. Untouched
  <2>1. ASSUME NEW i \in DOMAIN handed PROVE handed[i] \notin BitmapFrames(mmap, mods_end)
    <3>1. i - 1 \in 0 .. LoaderPages - 1 /\ handed[i] = LoaderTop - (i - 1)
      BY <1>1, <1>2, <1>6
    <3> QED
      BY <3>1 DEF LoaderFits
  <2> QED
    BY <2>1 DEF Untouched, ToSet
<1>8. ptr \in Clear
  BY <1>4, <1>7, <1>10 DEF MarksExact, Booted, Clear
<1>9. MustSearch = {FALSE}
  <2>1. ~(ptr < 0) /\ ~TestBit(alloc_map, ptr) /\ ~(ptr <= 1)
    BY <1>4, <1>6, <1>8 DEF Clear, TestBit
  <2> QED
    BY <2>1 DEF MustSearch
<1> QED
  BY <1>1, <1>2, <1>4, <1>6, <1>7, <1>8, <1>9, <1>10

LEMMA LoaderKeeps ==
  ASSUME BootInv, LoaderAlloc
  PROVE  BootInv'
<1>1. phase = "loader" /\ Len(handed) < LoaderPages /\ mmap \in Maps
  BY DEF LoaderAlloc, TypeOK
<1> DEFINE last == LastZero(alloc_map, Length(mmap))
           f(search) == IF search THEN last ELSE ptr
<1>2. PICK search \in MustSearch, clear \in BOOLEAN :
        \/ search /\ NoFrame(f(search))
        \/ ~(search /\ f(search) = -1) /\ HandOut(f(search), f(search) - 1, clear)
  BY DEF LoaderAlloc
<1>3. last \in Int /\ (last = -1 => Bits(Length(mmap)) \subseteq alloc_map)
  BY <1>1, SearchValues
<1>4. ptr \in Int
  BY DEF TypeOK
<1> HIDE DEF last
<1>5. CASE search /\ NoFrame(f(search))
  <2>1. NoFrame(last)
    BY <1>5
  <2> QED
    BY <1>1, <1>3, <2>1, NoFrameKeeps
<1>6. CASE HandOut(f(search), f(search) - 1, clear)
  <2> DEFINE g == f(search)
  <2>1. g \in Int /\ g - 1 \in Int
    BY <1>3, <1>4
  <2>2. HandOut(g, g - 1, clear)
    BY <1>6
  <2>3. LoaderFits => /\ g = ptr /\ g = LoaderTop - Len(handed) /\ g \notin ToSet(handed)
                      /\ g \notin BitmapFrames(mmap, mods_end)
                      /\ LoaderTop \in Int /\ Len(handed) \in Nat
    BY <1>1, <1>2, LoaderTakesNext
  <2> HIDE DEF f
  <2>4. Booted
    BY <1>1 DEF Booted
  <2>5. /\ TypeOK' /\ MarksExact'
        /\ Len(handed') = Len(handed) + 1 /\ Len(handed) \in Nat
        /\ DOMAIN handed = 1 .. Len(handed) /\ DOMAIN handed' = 1 .. Len(handed) + 1
        /\ \A k \in 1 .. Len(handed) : handed'[k] = handed[k]
        /\ handed'[Len(handed) + 1] = g
    BY <2>1, <2>2, <2>4, HandOutKeeps
  <2>6. UNCHANGED <<cpu, mmap, mods_end, phase, pool>> /\ ptr' = g - 1
    BY <2>2 DEF HandOut
  <2>7. UNCHANGED <<LoaderTop, LoaderFits>>
    BY <2>6, MemoryUnchanged
  <2>8. PtrInv'
    <3>1. LoaderFits =>
            /\ Len(handed') <= LoaderPages
            /\ ptr' = LoaderTop - Len(handed')
            /\ \A i \in DOMAIN handed' : handed'[i] = LoaderTop - i + 1
      <4> SUFFICES ASSUME LoaderFits
                   PROVE  /\ Len(handed') <= LoaderPages
                          /\ ptr' = LoaderTop - Len(handed')
                          /\ \A i \in DOMAIN handed' : handed'[i] = LoaderTop - i + 1
        OBVIOUS
      <4>1. \A i \in 1 .. Len(handed) : handed[i] = LoaderTop - i + 1
        BY <1>1, <2>5 DEF PtrInv
      <4>2. LoaderPages \in Nat
        BY BootMemAssumption
      <4>3. /\ g = LoaderTop - Len(handed) /\ LoaderTop \in Int
            /\ Len(handed) + 1 <= LoaderPages
        BY <1>1, <2>3, <2>5, <4>2
      <4> HIDE DEF g
      <4> QED
        BY <2>5, <2>6, <4>1, <4>3
    <3> QED
      BY <1>1, <2>4, <2>6, <2>7, <3>1 DEF PtrInv, Booted
  <2>10. HandedOnce'
    BY <2>1, <2>2, <2>3, <2>4, HandedOnceGrows
  <2>11. PoolIsRest' /\ PanicOnlyWhenFull'
    BY <1>1, <2>6 DEF PoolIsRest, PanicOnlyWhenFull
  <2> QED
    BY <2>5, <2>8, <2>10, <2>11
<1> QED
  BY <1>2, <1>5, <1>6
LEMMA EnterKernelKeeps ==
  ASSUME BootInv, EnterKernel
  PROVE  BootInv'
<1> DEFINE z == FirstZero(alloc_map, Length(mmap))
<1>1. /\ phase = "loader" /\ ptr' = z /\ phase' = IF z = -1 THEN "panic" ELSE "kernel"
      /\ UNCHANGED <<cpu, mmap, mods_end, alloc_map, handed, pool>>
  BY DEF EnterKernel, UpdateAll
<1>2. UNCHANGED <<NumPages(mmap), Length(mmap), Free>>
  BY <1>1, MemoryUnchanged
<1>3. mmap \in Maps /\ Length(mmap) \in Nat
  BY FramesFit DEF TypeOK
<1>4. z \in Int /\ (z = -1 => Bits(Length(mmap)) \subseteq alloc_map)
  BY <1>3, SearchValues
<1>5. z # -1 => z \in Nat /\ \A k \in Clear : z <= k
  <2>1. Clear \subseteq Nat
    BY <1>3, BitsIndices DEF Clear
  <2>2. Clear = {} => z = -1
    BY <1>3, FirstZeroRight DEF Clear
  <2>3. Clear # {} => z \in Clear /\ \A k \in Clear : z <= k
    BY <1>3, FirstZeroRight DEF Clear
  <2> HIDE DEF z
  <2> QED
    BY <2>1, <2>2, <2>3
<1> HIDE DEF z
<1>10. UNCHANGED Untouched
  BY <1>1, UntouchedUnchanged
<1>6. TypeOK' /\ MarksExact'
  BY <1>1, <1>2, <1>4, <1>10 DEF TypeOK, MarksExact, Booted, Bits
<1>7. PtrInv'
  BY <1>1, <1>2, <1>5 DEF PtrInv, Booted, Bits, Clear
<1>8. HandedOnce'
  BY <1>1, HandedOnceUnchanged
<1>9. PoolIsRest' /\ PanicOnlyWhenFull'
  BY <1>1, <1>2, <1>4 DEF PoolIsRest, PanicOnlyWhenFull, Bits
<1> QED
  BY <1>6, <1>7, <1>8, <1>9

(* BootAllocator gives a clear bit away, with a search or without, and     *)
(* unless somebody else wrote into the bitmap the lowest.                  *)
LEMMA KernelTakesLowest ==
  ASSUME BootInv, phase = "kernel"
  PROVE  /\ KernelFrame \in Int
         /\ KernelFrame = -1 => Bits(Length(mmap)) \subseteq alloc_map
         /\ KernelFrame # -1 => /\ KernelFrame \in Clear /\ KernelFrame \in Nat
                                /\ Untouched => \A k \in Clear : KernelFrame <= k
<1> DEFINE z == FirstZero(alloc_map, Length(mmap))
<1>1. mmap \in Maps /\ Length(mmap) \in Nat /\ NumPages(mmap) \in Nat
  BY FramesFit DEF TypeOK
<1>2. ptr \in Nat /\ (Untouched => \A k \in Clear : ptr <= k)
  BY DEF PtrInv, Clear
<1>3. Clear \subseteq Nat
  BY <1>1, BitsIndices DEF Clear
<1>4. CASE TestBit(alloc_map, ptr) \/ ptr >= NumPages(mmap)
  <2>1. KernelFrame = z
    BY <1>4 DEF KernelFrame
  <2>2. z \in Int /\ (z = -1 => Bits(Length(mmap)) \subseteq alloc_map)
    BY <1>1, SearchValues
  <2>3. Clear = {} => z = -1
    BY <1>1, FirstZeroRight DEF Clear
  <2>4. Clear # {} => z \in Clear /\ \A k \in Clear : z <= k
    BY <1>1, FirstZeroRight DEF Clear
  <2> HIDE DEF z
  <2> QED
    BY <1>3, <2>1, <2>2, <2>3, <2>4
<1>5. CASE ~TestBit(alloc_map, ptr) /\ ~(ptr >= NumPages(mmap))
  <2>1. KernelFrame = ptr
    BY <1>5 DEF KernelFrame
  <2>2. ptr \in 0 .. NumPages(mmap) - 1
    BY <1>1, <1>2, <1>5
  <2>3. ptr \in Clear
    BY <1>1, <1>5, <2>2, FramesFit DEF Clear, TestBit
  <2> QED
    BY <1>2, <2>1, <2>3
<1> QED
  BY <1>4, <1>5

(* A frame behind the one page that is reserved for the bitmap is one of   *)
(* the bitmap's only when that is longer than a page.                      *)
LEMMA BehindBitmap ==
  ASSUME mmap \in Maps, mods_end \in ModsEnds,
         NEW f \in Free, f \in BitmapFrames(mmap, mods_end)
  PROVE  ~BitmapFits /\ f >= KernelStart
<1> DEFINE start == AlignUp(mods_end)
           bits == GetBits(Length(mmap))
<1>1. bits \in Nat /\ bits > 0
  <2>1. Length(mmap) \in Nat /\ Length(mmap) \in Int /\ 1 <= Length(mmap)
    BY FramesFit
  <2>2. 1 * W <= Length(mmap) * W
    BY <2>1, TimesMonotone
  <2>3. bits \in Nat
    BY <2>1, BitsIndices
  <2> QED
    BY <2>2, <2>3
<1>2. start \in Int /\ start >= KernelStart /\ KernelStart \in Nat
  <2>1. /\ mods_end \in Nat /\ mods_end > (KernelStart - 1) * PageSize
        /\ PageSize \in Nat \ {0} /\ KernelStart \in Nat
    BY BootMemAssumption
  <2>2. mods_end + PageSize - 1 \in Nat /\ start = (mods_end + PageSize - 1) \div PageSize
    BY <2>1 DEF AlignUp
  <2>3. KernelStart * PageSize = (KernelStart - 1) * PageSize + PageSize
    <3>1. KernelStart - 1 \in Int /\ (KernelStart - 1) + 1 = KernelStart
      BY <2>1
    <3> QED
      BY <2>1, <3>1, TimesNext
  <2>4. KernelStart * PageSize \in Nat /\ (KernelStart - 1) * PageSize \in Int
    BY <2>1, TimesNat
  <2>5. KernelStart * PageSize <= mods_end + PageSize - 1
    BY <2>1, <2>3, <2>4
  <2>6. (KernelStart * PageSize) \div PageSize <= start
    BY <2>1, <2>2, <2>4, <2>5, DivMonotone
  <2>7. 0 \in 0 .. PageSize - 1 /\ (KernelStart * PageSize + 0) \div PageSize = KernelStart
    BY <2>1, DivOfWord
  <2>8. start \in Nat
    BY <2>1, <2>2, DivMod
  <2> HIDE DEF start
  <2> QED
    BY <2>1, <2>4, <2>6, <2>7, <2>8
<1>3. f \in Nat /\ f \notin KernelStart .. start
  BY FreeFrames DEF Free, Reserved
<1>4. f \in start .. start + (bits - 1) \div PageBits
  BY DEF BitmapFrames
<1> HIDE DEF start, bits
<1>5. (bits - 1) \div PageBits >= 1 /\ f >= KernelStart
  <2>1. (bits - 1) \div PageBits \in Nat
    <3>1. bits - 1 \in Nat /\ PageBits \in Nat \ {0}
      BY <1>1, BootMemAssumption
    <3> QED
      BY <3>1, DivMod
  <2> QED
    BY <1>2, <1>3, <1>4, <2>1
<1>6. bits - 1 >= PageBits
  <2>1. PageBits \in Nat \ {0} /\ bits - 1 \in Nat
    BY <1>1, BootMemAssumption
  <2>2. /\ (bits - 1) \div PageBits \in Nat
        /\ bits - 1 = ((bits - 1) \div PageBits) * PageBits + ((bits - 1) % PageBits)
        /\ (bits - 1) % PageBits \in 0 .. PageBits - 1
    BY <2>1, DivMod
  <2> DEFINE q == (bits - 1) \div PageBits
             r == (bits - 1) % PageBits
  <2>3. q \in Nat /\ q >= 1 /\ r \in Nat /\ bits - 1 = q * PageBits + r
    BY <1>5, <2>1, <2>2
  <2> HIDE DEF q, r
  <2>4. 1 * PageBits <= q * PageBits
    BY <2>1, <2>3, TimesMonotone
  <2> QED
    BY <2>1, <2>3, <2>4
<1> QED
  BY <1>1, <1>5, <1>6, BootMemAssumption DEF bits, BitmapFits
LEMMA KernelKeeps ==
  ASSUME BootInv, KernelAlloc
  PROVE  BootInv'
<1> DEFINE f == KernelFrame
<1>1. phase = "kernel" /\ mmap \in Maps /\ Booted /\ mods_end \in ModsEnds
  BY DEF KernelAlloc, TypeOK, Booted, PtrInv
<1>2. /\ f \in Int /\ f + 1 \in Int
      /\ f = -1 => Bits(Length(mmap)) \subseteq alloc_map
      /\ f # -1 => /\ f \in Clear /\ f \in Nat
                   /\ Untouched => \A k \in Clear : f <= k
  BY <1>1, KernelTakesLowest
<1>3. NoFrame(f) \/ (f # -1 /\ HandOut(f, f + 1, FALSE))
  BY DEF KernelAlloc
<1> HIDE DEF f
<1>4. CASE NoFrame(f)
  BY <1>1, <1>2, <1>4, NoFrameKeeps
<1>5. CASE f # -1 /\ HandOut(f, f + 1, FALSE)
  <2>1. /\ TypeOK' /\ MarksExact' /\ Clear' = Clear \ {f}
        /\ Untouched' => Untouched
    BY <1>1, <1>2, <1>5, HandOutKeeps
  <2>2. UNCHANGED <<cpu, mmap, mods_end, phase, pool>> /\ ptr' = f + 1
    BY <1>5 DEF HandOut
  <2>3. PtrInv'
    <3>1. Clear \subseteq Nat
      <4>1. Length(mmap) \in Nat
        BY <1>1, FramesFit
      <4> QED
        BY <4>1, BitsIndices DEF Clear
    <3>2. f + 1 \in Nat
      BY <1>2, <1>5
    <3>4. ASSUME Untouched', NEW k \in Clear' PROVE f + 1 <= k
      <4>1. f <= k /\ f # k /\ k \in Nat /\ f \in Nat
        BY <1>2, <1>5, <2>1, <3>1, <3>4
      <4> QED
        BY <4>1
    <3> QED
      BY <1>1, <2>2, <3>2, <3>4 DEF PtrInv, Clear, Booted
  <2>4. Untouched => f \in Free /\ f \notin ToSet(handed) /\ Clear = Free \ ToSet(handed)
    <3>1. f \in Clear
      BY <1>2, <1>5
    <3>2. Untouched => Clear = Free \ ToSet(handed)
      BY <1>1 DEF MarksExact, Clear
    <3> QED
      BY <3>1, <3>2
  <2>5. ASSUME Untouched, f \in BitmapFrames(mmap, mods_end)
        PROVE  /\ ~BitmapFits
               /\ \A low \in Free : low < KernelStart => low \in ToSet(handed)
    <3>1. ~BitmapFits /\ f >= KernelStart
      BY <1>1, <2>4, <2>5, BehindBitmap
    <3>2. Free \subseteq Nat /\ KernelStart \in Nat
      BY <1>1, FreeFrames, BootMemAssumption
    <3> QED
      BY <1>2, <1>5, <2>4, <2>5, <3>1, <3>2
  <2>6. HandedOnce'
    BY <1>1, <1>2, <1>5, <2>4, <2>5, HandedOnceGrows
  <2>7. PoolIsRest' /\ PanicOnlyWhenFull'
    BY <1>1, <2>2 DEF PoolIsRest, PanicOnlyWhenFull
  <2> QED
    BY <2>1, <2>3, <2>6, <2>7
<1> QED
  BY <1>3, <1>4, <1>5

(* max_pa is not past the end of memory.                                   *)
LEMMA MappedBelowEnd ==
  ASSUME NEW m \in Maps
  PROVE  MaxPa(m) \in 0 .. NumPages(m)
<1> DEFINE T == {0} \cup {f + 1 : f \in Mapped(m)}
<1>1. NumPages(m) \in Nat /\ Mapped(m) \subseteq 0 .. NumPages(m) - 1
  BY FramesFit
<1>2. T \in SUBSET Nat /\ T # {} /\ \A k \in T : k <= NumPages(m)
  BY <1>1
<1>3. MaxPa(m) = Largest(T)
  BY DEF MaxPa
<1> HIDE DEF T
<1>4. Largest(T) \in T
  BY <1>1, <1>2, Greatest
<1>5. \A x \in T : x \in 0 .. NumPages(m)
  BY <1>1, <1>2
<1> QED
  BY <1>3, <1>4, <1>5

LEMMA MemInitKeeps ==
  ASSUME BootInv, MemInit
  PROVE  BootInv'
<1>1. /\ phase = "kernel" /\ phase' = "running"
      /\ pool' = {f \in 0 .. MaxPa(mmap) - 1 : ~TestBit(alloc_map, f)}
      /\ UNCHANGED <<cpu, mmap, mods_end, alloc_map, ptr, handed>>
  BY DEF MemInit
<1>2. UNCHANGED <<NumPages(mmap), Length(mmap), Free>>
  BY <1>1, MemoryUnchanged
<1>3. mmap \in Maps
  BY DEF TypeOK
<1>4. pool' \subseteq 0 .. NumPages(mmap) - 1 /\ pool' \cap alloc_map = {}
  <2>1. MaxPa(mmap) \in 0 .. NumPages(mmap) /\ NumPages(mmap) \in Nat
    BY <1>3, MappedBelowEnd, FramesFit
  <2>2. 0 .. MaxPa(mmap) - 1 \subseteq 0 .. NumPages(mmap) - 1
    BY <2>1
  <2> QED
    BY <1>1, <2>2 DEF TestBit
<1>5. pool' \subseteq Clear
  BY <1>3, <1>4, FramesFit DEF Clear
<1>6. Untouched => Clear = Free \ ToSet(handed)
  BY <1>1 DEF MarksExact, Booted, Clear
<1>10. UNCHANGED Untouched
  BY <1>1, UntouchedUnchanged
<1>7. TypeOK' /\ MarksExact' /\ PtrInv'
  BY <1>1, <1>2, <1>4, <1>10 DEF TypeOK, MarksExact, PtrInv, Booted, Bits
<1>8. HandedOnce'
  BY <1>1, HandedOnceUnchanged
<1>9. PoolIsRest' /\ PanicOnlyWhenFull'
  BY <1>1, <1>2, <1>5, <1>6, <1>10 DEF PoolIsRest, PanicOnlyWhenFull
<1> QED
  BY <1>7, <1>8, <1>9

LEMMA BootUnchanged ==
  ASSUME BootInv, UNCHANGED vars
  PROVE  BootInv'
<1>1. UNCHANGED <<cpu, mmap, mods_end, phase, alloc_map, ptr, handed, pool>>
  BY DEF vars
<1>2. /\ UNCHANGED <<NumPages(mmap), Length(mmap), TooSmall(mmap), Free, LoaderTop, LoaderFits>>
  BY <1>1, MemoryUnchanged
<1>6. UNCHANGED Untouched
  BY <1>1, UntouchedUnchanged
<1>3. TypeOK' /\ MarksExact' /\ PtrInv'
  BY <1>1, <1>2, <1>6 DEF TypeOK, MarksExact, PtrInv, Booted, Bits
<1>4. HandedOnce'
  BY <1>1, HandedOnceUnchanged
<1>5. PoolIsRest' /\ PanicOnlyWhenFull'
  BY <1>1, <1>2, <1>6 DEF PoolIsRest, PanicOnlyWhenFull, Bits
<1> QED
  BY <1>3, <1>4, <1>5

(* What is written into a frame of the bitmap: one has left already.       *)
LEMMA FillKeeps ==
  ASSUME BootInv, Fill
  PROVE  BootInv'
<1>1. /\ phase \in {"loader", "kernel"} /\ ~Untouched
      /\ UNCHANGED <<cpu, mmap, mods_end, phase, ptr, handed, pool>>
  BY DEF Fill, Untouched
<1>2. /\ UNCHANGED <<NumPages(mmap), Length(mmap), LoaderTop, LoaderFits>>
      /\ UNCHANGED Untouched
  BY <1>1, MemoryUnchanged, UntouchedUnchanged
<1>3. TypeOK'
  <2>1. PICK f \in ToSet(handed) \cap BitmapFrames(mmap, mods_end) :
          \E bits \in SUBSET BitsIn(f) : alloc_map' = (alloc_map \ BitsIn(f)) \cup bits
    BY DEF Fill
  <2>2. BitsIn(f) \subseteq Int
    BY FramesFit, BitsIndices DEF BitsIn, TypeOK
  <2> QED
    BY <1>1, <1>2, <2>1, <2>2 DEF TypeOK
<1>4. MarksExact' /\ PtrInv'
  BY <1>1, <1>2 DEF MarksExact, PtrInv, Booted
<1>5. HandedOnce'
  BY <1>1, HandedOnceUnchanged
<1>6. PoolIsRest' /\ PanicOnlyWhenFull'
  BY <1>1 DEF PoolIsRest, PanicOnlyWhenFull
<1> QED
  BY <1>3, <1>4, <1>5, <1>6

-----------------------------------------------------------------------------
(* Whoever takes a frame where a search is right takes a free one.         *)
LEMMA TakesFree ==
  ASSUME BootInv, LoaderAlloc \/ KernelAlloc, handed' # handed,
         phase = "kernel" \/ LoaderFits
  PROVE  Last(handed') \in Bits(Length(mmap)) \ alloc_map
<1>1. /\ handed \in Seq(Int) /\ ptr \in Int /\ Booted /\ mmap \in Maps
  BY DEF TypeOK, Booted, LoaderAlloc, KernelAlloc
<1>2. SUFFICES ASSUME NEW f \in Int, f \in Clear, handed' = Append(handed, f)
               PROVE  Last(handed') \in Clear
  <2>1. \E f \in Int : f \in Clear /\ handed' = Append(handed, f)
    <3>1. CASE LoaderAlloc
      <4>1. phase = "loader" /\ Len(handed) < LoaderPages /\ LoaderFits
        BY <3>1 DEF LoaderAlloc
      <4>2. ptr \in Clear /\ MustSearch = {FALSE}
        BY <4>1, LoaderTakesNext
      <4>3. \E search \in MustSearch, clear \in BOOLEAN :
              LET f == IF search THEN LastZero(alloc_map, Length(mmap)) ELSE ptr
              IN \/ search /\ NoFrame(f)
                 \/ ~(search /\ f = -1) /\ HandOut(f, f - 1, clear)
        BY <3>1 DEF LoaderAlloc
      <4>4. \E clear \in BOOLEAN : HandOut(ptr, ptr - 1, clear)
        BY <4>2, <4>3
      <4> QED
        BY <1>1, <4>2, <4>4 DEF HandOut
    <3>2. CASE KernelAlloc
      <4>1. phase = "kernel"
        BY <3>2 DEF KernelAlloc
      <4>2. KernelFrame # -1 /\ HandOut(KernelFrame, KernelFrame + 1, FALSE)
        BY <3>2 DEF KernelAlloc, NoFrame
      <4>3. KernelFrame \in Int /\ KernelFrame \in Clear
        BY <4>1, <4>2, KernelTakesLowest, Zenon
      <4> QED
        BY <4>2, <4>3 DEF HandOut
    <3> QED
      BY <3>1, <3>2
  <2> QED
    BY <2>1 DEF Clear
<1>3. Len(handed') = Len(handed) + 1 /\ handed'[Len(handed) + 1] = f
  BY <1>1, <1>2, AppendFrame
<1>4. Last(handed') = f
  BY <1>3 DEF Last
<1> QED
  BY <1>2, <1>4

LEMMA BootInitial == Init => BootInv
<1> SUFFICES ASSUME Init PROVE BootInv
  OBVIOUS
<1> USE DEF Init
<1>1. NumPages(mmap) \in Nat /\ Len(handed) = 0 /\ DOMAIN handed = {} /\ handed \in Seq(Int)
  BY FramesFit
<1>2. TypeOK /\ MarksExact /\ PtrInv
  BY <1>1 DEF TypeOK, MarksExact, PtrInv, Booted
<1>3. HandedOnce
  BY <1>1 DEF HandedOnce, BitmapKept, Untouched, ToSet
<1>4. PoolIsRest /\ PanicOnlyWhenFull
  BY DEF PoolIsRest, PanicOnlyWhenFull
<1> QED
  BY <1>2, <1>3, <1>4

(* In every reachable state: unless a frame the bitmap lies in was given   *)
(* away and written, it has a clear bit for exactly the free frames nobody *)
(* was given, no frame was given away twice on the maps that suit the      *)
(* loader's search, and the page lists start with the rest.  And without   *)
(* that condition: on those maps a frame of the bitmap only leaves when it *)
(* does not fit its page and every free frame below the kernel is gone,    *)
(* and the allocators only report full memory when no bit is clear.        *)
THEOREM BootInvariance == Spec => []BootInv
<1> DEFINE Inv == BootInv /\ mods_end \in ModsEnds
<1>1. Init => Inv
  BY BootInitial DEF Init
<1>2. Inv /\ [Next]_vars => Inv'
  <2> SUFFICES ASSUME Inv, [Next]_vars PROVE Inv'
    OBVIOUS
  <2>1. mods_end' = mods_end
    BY DEF Next, vars, NotEnoughMemory, AssertFails, InitBootMM, LoaderAlloc, EnterKernel,
           KernelAlloc, Fill, MemInit, Stopped, Become, NoFrame, HandOut
  <2>2. BootInv'
    <3>1. CASE NotEnoughMemory
      BY <3>1, BecomeKeeps DEF NotEnoughMemory
    <3>2. CASE AssertFails
      BY <3>2, BecomeKeeps DEF AssertFails
    <3>3. CASE InitBootMM
      BY <3>3, InitKeeps
    <3>4. CASE LoaderAlloc
      BY <3>4, LoaderKeeps
    <3>5. CASE EnterKernel
      BY <3>5, EnterKernelKeeps
    <3>6. CASE KernelAlloc
      BY <3>6, KernelKeeps
    <3>7. CASE MemInit
      BY <3>7, MemInitKeeps
    <3>8. CASE UNCHANGED vars
      BY <3>8, BootUnchanged
    <3>9. CASE Fill
      BY <3>9, FillKeeps
    <3> QED
      BY <3>1, <3>2, <3>3, <3>4, <3>5, <3>6, <3>7, <3>8, <3>9 DEF Next, Stopped
  <2> QED
    BY <2>1, <2>2
<1> QED
  BY <1>1, <1>2, PTL DEF Spec

-----------------------------------------------------------------------------

-----------------------------------------------------------------------------
Kernels32(n) == {k \in 1 .. n : boot.mods[k].name = "cxkrnl32"}

(* What main has learnt from the modules it has scanned.                   *)
ScannedInv ==
  /\ next \in 1 .. Len(boot.mods) + 1
  /\ \A k \in 1 .. next - 1 : boot.mods[k].end <= mods_end
  /\ IF next = 1 THEN mods_end = 0 ELSE \E k \in 1 .. next - 1 : boot.mods[k].end = mods_end
  /\ krnl32 = IF Kernels32(next - 1) = {} THEN 0 ELSE Smallest(Kernels32(next - 1))

(* A context that has both tables has those of the kernel.                 *)
LoadedInv ==
  LET image == boot.mods[krnl32].image
  IN /\ image.class = 32
     /\ image.sections[ctx.strtab] = ".strtab"
     /\ image.sections[ctx.symtab] = ".symtab"

(* How far main and the memory are.                                        *)
StageInv ==
  /\ boot \in Boots
  /\ stage \in {"scan", "init32", "image", "run"} \/ phase # "start" => boot.mods # <<>>
  /\ stage \in {"init32", "image", "run"} \/ phase # "start" => next = Len(boot.mods) + 1
  /\ stage \in {"init32", "image", "run"} => krnl32 # 0 /\ boot.cmdline \in {"none", "exec32"}
  /\ stage \notin {"image", "run", "panic"} => phase = "start"
  /\ stage \notin {"run", "panic"} => ctx = [strtab |-> 0, symtab |-> 0]
  /\ stage = "run" => LoadedInv
  /\ phase \in {"kernel", "running"} => stage = "run"

MainInv == BootInv /\ ScannedInv /\ StageInv

-----------------------------------------------------------------------------
(* The modules of a boot.                                                  *)
LEMMA BootModules ==
  ASSUME NEW b \in Boots
  PROVE  /\ Len(b.mods) \in Nat /\ DOMAIN b.mods = 1 .. Len(b.mods)
         /\ b.mods # <<>> => Len(b.mods) # 0
         /\ \A k \in DOMAIN b.mods :
              /\ b.mods[k].end \in ModsEnds /\ b.mods[k].end \in Nat
              /\ b.mods[k].image.sections \in Seq(STRING)
<1>1. b.mods \in Seq(ToSet(b.mods))
  BY LoaderAssumption
<1>2. /\ Len(b.mods) \in Nat /\ DOMAIN b.mods = 1 .. Len(b.mods)
      /\ b.mods # <<>> => Len(b.mods) # 0
  <2> DEFINE s == b.mods
             S == ToSet(b.mods)
  <2>1. s \in Seq(S)
    BY <1>1
  <2> HIDE DEF s, S
  <2>2. Len(s) \in Nat /\ DOMAIN s = 1 .. Len(s) /\ (s # <<>> => Len(s) # 0)
    BY <2>1, EmptySeq
  <2> QED
    BY <2>2 DEF s
<1>3. \A k \in DOMAIN b.mods : b.mods[k] \in ToSet(b.mods)
  BY DEF ToSet
<1> QED
  BY <1>2, <1>3, LoaderAssumption, BootMemAssumption

LEMMA LargerOf ==
  ASSUME NEW a \in Nat, NEW b \in Nat
  PROVE  /\ Largest({a, b}) \in {a, b} /\ Largest({a, b}) >= a /\ Largest({a, b}) >= b
<1> DEFINE T == {a, b}
<1>1. T \in SUBSET Nat /\ T # {} /\ a + b \in Nat /\ \A k \in T : k <= a + b
  OBVIOUS
<1> HIDE DEF T
<1>2. Largest(T) \in T /\ \A k \in T : Largest(T) >= k
  BY <1>1, Greatest
<1> QED
  BY <1>2 DEF T

(* find_section32 finds a section of that name, or none.                   *)
LEMMA SectionFound ==
  ASSUME NEW image, NEW name, image.sections \in Seq(STRING), FindSection(image, name) # 0
  PROVE  image.sections[FindSection(image, name)] = name
<1> DEFINE named == {k \in DOMAIN image.sections : image.sections[k] = name}
<1>1. DOMAIN image.sections \subseteq Nat
  <2>1. DOMAIN image.sections = 1 .. Len(image.sections) /\ Len(image.sections) \in Nat
    OBVIOUS
  <2> QED
    BY <2>1
<1>2. named # {} /\ FindSection(image, name) = Smallest(named)
  BY DEF FindSection
<1>3. Smallest(named) \in named
  <2>1. named \in SUBSET Nat
    BY <1>1
  <2> HIDE DEF named
  <2> QED
    BY <1>2, <2>1, Least
<1> QED
  BY <1>2, <1>3

-----------------------------------------------------------------------------
LEMMA MainInitial == MainInit => MainInv
<1> SUFFICES ASSUME MainInit PROVE MainInv
  OBVIOUS
<1> USE DEF MainInit
<1>1. NumPages(mmap) \in Nat /\ Len(handed) = 0 /\ DOMAIN handed = {} /\ handed \in Seq(Int)
  BY FramesFit
<1>2. TypeOK /\ MarksExact /\ PtrInv
  BY <1>1 DEF TypeOK, MarksExact, PtrInv, Booted
<1>3. HandedOnce
  BY <1>1 DEF HandedOnce, BitmapKept, Untouched, ToSet
<1>4. PoolIsRest /\ PanicOnlyWhenFull
  BY DEF PoolIsRest, PanicOnlyWhenFull
<1>5. ScannedInv
  <2>1. Len(boot.mods) \in Nat
    BY BootModules
  <2>2. Kernels32(next - 1) = {}
    BY DEF Kernels32
  <2> QED
    BY <2>1, <2>2 DEF ScannedInv
<1>6. StageInv
  BY DEF StageInv
<1> QED
  BY <1>2, <1>3, <1>4, <1>5, <1>6 DEF MainInv, BootInv, BitmapInv

(* Where the memory does not change, main goes on.                         *)
LEMMA GotoKeeps ==
  ASSUME MainInv, NEW s, Goto(s), UNCHANGED vars,
         stage \notin {"image", "run", "panic"}, s \notin {"image", "run"},
         s \in {"scan", "init32"} => boot.mods # <<>>,
         s = "init32" => /\ next = Len(boot.mods) + 1 /\ krnl32 # 0
                         /\ boot.cmdline \in {"none", "exec32"},
         phase = "start"
  PROVE  MainInv'
<1>1. /\ stage' = s /\ UNCHANGED <<boot, next, krnl32, krnl64, ctx>>
      /\ UNCHANGED <<mods_end, phase>>
  BY DEF Goto, vars
<1>2. BootInv'
  BY BootUnchanged DEF MainInv
<1>3. ScannedInv'
  BY <1>1 DEF MainInv, ScannedInv, Kernels32
<1>4. StageInv'
  BY <1>1 DEF MainInv, StageInv
<1> QED
  BY <1>2, <1>3, <1>4 DEF MainInv

LEMMA CheckKeeps == MainInv /\ (RunCtors \/ CheckIntegrity) => MainInv'
<1> SUFFICES ASSUME MainInv, RunCtors \/ CheckIntegrity PROVE MainInv'
  OBVIOUS
<1>1. CASE RunCtors
  <2>1. /\ stage = "ctors" /\ UNCHANGED vars /\ phase = "start"
        /\ Goto("wild") \/ Goto("check")
    BY <1>1 DEF RunCtors, MainInv, StageInv
  <2> QED
    BY <2>1, GotoKeeps
<1>2. CASE CheckIntegrity
  <2>1. /\ stage = "check" /\ UNCHANGED vars /\ phase = "start"
        /\ (Goto("scan") /\ boot.mods # <<>>) \/ Goto("panic")
    BY <1>2 DEF CheckIntegrity, MainInv, StageInv
  <2> QED
    BY <2>1, GotoKeeps
<1> QED
  BY <1>1, <1>2

LEMMA ChooseKeeps == MainInv /\ Choose => MainInv'
<1> SUFFICES ASSUME MainInv, Choose PROVE MainInv'
  OBVIOUS
<1>1. /\ stage = "scan" /\ UNCHANGED vars /\ phase = "start" /\ boot.mods # <<>>
      /\ next > Len(boot.mods) /\ next \in 1 .. Len(boot.mods) + 1
      /\ Len(boot.mods) \in Nat
      /\ Goto(Choice)
  BY BootModules DEF Choose, MainInv, StageInv, ScannedInv
<1>2. \/ Choice \in {"hang", "panic"}
      \/ Choice = "init32" /\ krnl32 # 0 /\ boot.cmdline \in {"none", "exec32"}
  BY Zenon DEF Choice
<1>3. next = Len(boot.mods) + 1
  BY <1>1
<1> QED
  BY <1>1, <1>2, <1>3, GotoKeeps
(* Before memory is set up, only MODS_END moves.                           *)
LEMMA ModsEndKeeps ==
  ASSUME BootInv, phase = "start", mods_end' \in {0} \cup ModsEnds,
         UNCHANGED <<cpu, mmap, phase, alloc_map, ptr, handed, pool>>
  PROVE  BootInv'
<1> USE DEF BootInv, BitmapInv
<1>1. handed = <<>> /\ handed' = <<>> /\ DOMAIN handed' = {}
  BY DEF PtrInv
<1>2. UNCHANGED NumPages(mmap)
  BY DEF NumPages
<1>3. TypeOK' /\ MarksExact' /\ PtrInv'
  BY <1>1, <1>2 DEF TypeOK, MarksExact, PtrInv, Booted
<1>4. HandedOnce'
  BY <1>1 DEF HandedOnce, BitmapKept, Untouched, ToSet
<1>5. PoolIsRest' /\ PanicOnlyWhenFull'
  BY DEF PoolIsRest, PanicOnlyWhenFull
<1> QED
  BY <1>3, <1>4, <1>5

(* The first kernel of a name is still the first after another module.     *)
LEMMA TakeFirst ==
  ASSUME NEW n \in Nat, NEW found, NEW mod, NEW name, next = n + 1, mod.name = name,
         NEW Named \in SUBSET (1 .. n), found = IF Named = {} THEN 0 ELSE Smallest(Named)
  PROVE  Take(found, mod, name) = Smallest(Named \cup {n + 1})
<1>1. CASE Named = {}
  <2>1. Smallest({n + 1}) = n + 1
    <3>1. {n + 1} \in SUBSET Int /\ n + 1 \in {n + 1} /\ \A y \in {n + 1} : n + 1 <= y
      OBVIOUS
    <3> QED
      BY <3>1, LeastIs
  <2>2. Named \cup {n + 1} = {n + 1}
    BY <1>1
  <2> QED
    BY <1>1, <2>1, <2>2 DEF Take
<1>2. CASE Named # {}
  <2>1. found \in Named /\ \A y \in Named : found <= y
    <3>1. Named \in SUBSET Nat
      OBVIOUS
    <3> QED
      BY <1>2, <3>1, Least
  <2>2. Smallest(Named \cup {n + 1}) = found
    <3> DEFINE T == Named \cup {n + 1}
    <3>1. T \in SUBSET Int /\ found \in T /\ \A y \in T : found <= y
      BY <2>1
    <3> HIDE DEF T
    <3>2. Smallest(T) = found
      BY <3>1, LeastIs
    <3> QED
      BY <3>2 DEF T
  <2>3. found # 0
    BY <2>1
  <2> QED
    BY <1>2, <2>1, <2>2, <2>3 DEF Take
<1> QED
  BY <1>1, <1>2

LEMMA ScanKeeps ==
  ASSUME MainInv, ScanModule
  PROVE  MainInv'
<1> DEFINE mod == boot.mods[next]
           n == next - 1
<1>1. /\ stage = "scan" /\ next <= Len(boot.mods)
      /\ mods_end' = Largest({mods_end, mod.end})
      /\ krnl32' = Take(krnl32, mod, "cxkrnl32")
      /\ next' = next + 1
      /\ UNCHANGED <<boot, stage, ctx, cpu, mmap, phase, alloc_map, ptr, handed, pool>>
  BY DEF ScanModule
<1>2. /\ boot \in Boots /\ phase = "start"
      /\ Len(boot.mods) \in Nat /\ DOMAIN boot.mods = 1 .. Len(boot.mods)
      /\ \A k \in DOMAIN boot.mods : boot.mods[k].end \in ModsEnds /\ boot.mods[k].end \in Nat
  BY <1>1, BootModules DEF MainInv, StageInv
<1>3. next \in 1 .. Len(boot.mods) /\ n \in Nat /\ next = n + 1 /\ next' - 1 = n + 1
  BY <1>1, <1>2 DEF MainInv, ScannedInv
<1>4. mods_end \in Nat /\ mods_end \in {0} \cup ModsEnds /\ mod.end \in Nat /\ mod.end \in ModsEnds
  <2>1. mods_end \in {0} \cup ModsEnds
    BY DEF MainInv, BootInv, BitmapInv, TypeOK
  <2> QED
    BY <1>2, <1>3, <2>1, BootMemAssumption
<1>5. /\ mods_end' \in {mods_end, mod.end} /\ mods_end' >= mods_end /\ mods_end' >= mod.end
      /\ mods_end' \in Nat
  BY <1>1, <1>4, LargerOf
<1> HIDE DEF mod
<1>6. BootInv'
  BY <1>1, <1>2, <1>4, <1>5, ModsEndKeeps DEF MainInv
<1>7. ScannedInv'
  <2>1. next' \in 1 .. Len(boot'.mods) + 1
    BY <1>1, <1>2, <1>3
  <2>2. ASSUME NEW k \in 1 .. next' - 1 PROVE boot'.mods[k].end <= mods_end'
    <3>1. CASE k = next
      BY <1>1, <1>4, <1>5, <3>1 DEF mod
    <3>2. CASE k # next
      <4>1. k \in 1 .. next - 1 /\ k \in DOMAIN boot.mods
        BY <1>2, <1>3, <3>2
      <4>2. boot.mods[k].end <= mods_end /\ boot.mods[k].end \in Nat
        BY <1>2, <4>1 DEF MainInv, ScannedInv
      <4> QED
        BY <1>1, <1>4, <1>5, <4>2
    <3> QED
      BY <3>1, <3>2
  <2>3. next' # 1 /\ \E k \in 1 .. next' - 1 : boot'.mods[k].end = mods_end'
    <3>1. CASE mods_end' = mod.end
      <4>1. next \in 1 .. next' - 1
        BY <1>1, <1>3
      <4>2. boot'.mods[next].end = mods_end'
        BY <1>1, <3>1 DEF mod
      <4> QED
        BY <1>1, <1>3, <4>1, <4>2
    <3>2. CASE mods_end' = mods_end /\ mods_end # mod.end
      <4>1. next # 1
        BY <1>4, <1>5, <3>2 DEF MainInv, ScannedInv
      <4>2. PICK k \in 1 .. next - 1 : boot.mods[k].end = mods_end
        BY <4>1 DEF MainInv, ScannedInv
      <4>3. k \in 1 .. next' - 1
        BY <1>1, <1>3
      <4> QED
        BY <1>1, <1>3, <3>2, <4>2, <4>3
    <3> QED
      BY <1>5, <3>1, <3>2
  <2>4. krnl32' = IF Kernels32(next - 1)' = {} THEN 0 ELSE Smallest(Kernels32(next - 1)')
    <3> DEFINE Named == Kernels32(n)
               new == IF mod.name = "cxkrnl32" THEN Named \cup {n + 1} ELSE Named
    <3>1. Named \in SUBSET (1 .. n) /\ krnl32 = IF Named = {} THEN 0 ELSE Smallest(Named)
      BY DEF Kernels32, MainInv, ScannedInv
    <3>2. Kernels32(next - 1)' = new
      <4>1. Kernels32(next - 1)' = {k \in 1 .. n + 1 : boot.mods[k].name = "cxkrnl32"}
        BY <1>1, <1>3 DEF Kernels32
      <4>2. 1 .. n + 1 = 1 .. n \cup {n + 1}
        BY <1>3
      <4> QED
        BY <1>3, <4>1, <4>2 DEF Kernels32, mod
    <3> HIDE DEF Named, n
    <3>3. CASE mod.name = "cxkrnl32"
      <4>1. Take(krnl32, mod, "cxkrnl32") = Smallest(Named \cup {n + 1})
        BY <1>3, <3>1, <3>3, TakeFirst
      <4> QED
        BY <1>1, <3>2, <3>3, <4>1
    <3>4. CASE mod.name # "cxkrnl32"
      BY <1>1, <3>1, <3>2, <3>4 DEF Take
    <3> QED
      BY <3>3, <3>4
  <2> QED
    BY <2>1, <2>2, <2>3, <2>4 DEF ScannedInv
<1>8. StageInv'
  BY <1>1, <1>2 DEF MainInv, StageInv
<1> QED
  BY <1>6, <1>7, <1>8 DEF MainInv
(* All modules are scanned, and MODS_END is the end of one.                *)
LEMMA AllScanned ==
  ASSUME MainInv, next = Len(boot.mods) + 1, boot.mods # <<>>
  PROVE  mods_end \in ModsEnds
<1>1. /\ Len(boot.mods) \in Nat \ {0} /\ DOMAIN boot.mods = 1 .. Len(boot.mods)
      /\ \A k \in DOMAIN boot.mods : boot.mods[k].end \in ModsEnds
  BY BootModules DEF MainInv, StageInv
<1>2. PICK k \in 1 .. next - 1 : boot.mods[k].end = mods_end
  BY <1>1 DEF MainInv, ScannedInv
<1> QED
  BY <1>1, <1>2

LEMMA SetUpKeeps ==
  ASSUME MainInv, SetUpMemory
  PROVE  MainInv'
<1>1. /\ stage = "init32" /\ stage' = "image" /\ phase = "start"
      /\ NotEnoughMemory \/ AssertFails \/ InitBootMM
      /\ UNCHANGED <<boot, next, krnl32, krnl64, ctx>>
  BY DEF SetUpMemory, Goto, MainInv, StageInv
<1>2. mods_end' = mods_end /\ phase' \in {"panic", "assert", "loader"}
  BY <1>1 DEF NotEnoughMemory, AssertFails, InitBootMM, Become, UpdateAll
<1>3. boot.mods # <<>> /\ next = Len(boot.mods) + 1
  BY <1>1 DEF MainInv, StageInv
<1>4. BootInv'
  <2>1. CASE NotEnoughMemory
    BY <1>1, <2>1, BecomeKeeps DEF NotEnoughMemory, MainInv
  <2>2. CASE AssertFails
    BY <1>1, <2>2, BecomeKeeps DEF AssertFails, MainInv
  <2>3. CASE InitBootMM
    <3>1. mods_end \in ModsEnds
      BY <1>3, AllScanned
    <3> QED
      BY <2>3, <3>1, InitKeeps DEF MainInv
  <2> QED
    BY <1>1, <2>1, <2>2, <2>3
<1>5. ScannedInv'
  BY <1>1, <1>2 DEF MainInv, ScannedInv, Kernels32
<1>6. StageInv'
  BY <1>1, <1>2, <1>3 DEF MainInv, StageInv
<1> QED
  BY <1>4, <1>5, <1>6 DEF MainInv

LEMMA LoadKeeps ==
  ASSUME MainInv, LoadKernel
  PROVE  MainInv'
<1> DEFINE image == boot.mods[krnl32].image
<1>1. /\ stage = "image" /\ phase = "loader"
      /\ ctx' = LoadImg(image, ctx)
      /\ stage' = IF ctx'.strtab # 0 /\ ctx'.symtab # 0 THEN "run" ELSE "panic"
      /\ UNCHANGED <<boot, next, krnl32, krnl64>> /\ UNCHANGED vars
      /\ UNCHANGED <<phase, mods_end>>
  BY DEF LoadKernel, vars
<1>2. /\ ctx = [strtab |-> 0, symtab |-> 0] /\ krnl32 # 0 /\ boot \in Boots
      /\ next = Len(boot.mods) + 1 /\ boot.mods # <<>>
  BY <1>1 DEF MainInv, StageInv
<1>3. BootInv'
  BY <1>1, BootUnchanged DEF MainInv
<1>4. ScannedInv'
  BY <1>1 DEF MainInv, ScannedInv, Kernels32
<1>5. image.sections \in Seq(STRING)
  <2> DEFINE n == next - 1
             Named == Kernels32(n)
  <2>1. Len(boot.mods) \in Nat /\ n = Len(boot.mods) /\ DOMAIN boot.mods = 1 .. Len(boot.mods)
    BY <1>2, BootModules
  <2>2. Named \in SUBSET Nat /\ Named \subseteq 1 .. n /\ Named # {} /\ krnl32 = Smallest(Named)
    BY <1>2, <2>1 DEF MainInv, ScannedInv, Kernels32
  <2> HIDE DEF Named, n
  <2>3. krnl32 \in Named
    BY <2>2, Least
  <2>4. krnl32 \in DOMAIN boot.mods
    BY <2>1, <2>2, <2>3
  <2> QED
    BY <1>2, <2>4, BootModules
<1>6. stage' = "run" => LoadedInv'
  <2> SUFFICES ASSUME stage' = "run" PROVE LoadedInv'
    OBVIOUS
  <2>1. ctx'.strtab # 0 /\ ctx'.symtab # 0
    BY <1>1
  <2> HIDE DEF image
  <2>2. image.class = 32
    BY <1>1, <1>2, <2>1 DEF LoadImg
  <2>3. ctx' = [strtab |-> FindSection(image, ".strtab"), symtab |-> FindSection(image, ".symtab")]
    BY <1>1, <2>2 DEF LoadImg
  <2>4. ctx'.strtab = FindSection(image, ".strtab") /\ ctx'.symtab = FindSection(image, ".symtab")
    BY <2>3
  <2>5. image.sections[ctx'.strtab] = ".strtab" /\ image.sections[ctx'.symtab] = ".symtab"
    BY <1>5, <2>1, <2>4, SectionFound
  <2> QED
    BY <1>1, <2>2, <2>5 DEF LoadedInv, image
<1>7. StageInv'
  <2>1. stage' \in {"run", "panic"} /\ boot' = boot /\ phase' = "loader" /\ next' = next
        /\ krnl32' = krnl32
    BY <1>1
  <2> QED
    BY <1>1, <1>2, <1>6, <2>1 DEF MainInv, StageInv
<1> QED
  BY <1>3, <1>4, <1>7 DEF MainInv

(* In the stage "run" memory may change, but not MODS_END.                 *)
LEMMA RunningKeeps ==
  ASSUME MainInv, UNCHANGED mainvars, UNCHANGED mods_end, BootInv',
         \/ UNCHANGED phase
         \/ stage = "run"
  PROVE  MainInv'
<1>1. UNCHANGED <<boot, stage, next, krnl32, krnl64, ctx>>
  BY DEF mainvars
<1>2. ScannedInv'
  BY <1>1 DEF MainInv, ScannedInv, Kernels32
<1>3. StageInv'
  <2>1. LoadedInv => LoadedInv'
    BY <1>1 DEF LoadedInv
  <2>2. CASE UNCHANGED phase
    BY <1>1, <2>1, <2>2 DEF MainInv, StageInv
  <2>3. CASE stage = "run"
    BY <1>1, <2>1, <2>3 DEF MainInv, StageInv
  <2> QED
    BY <2>2, <2>3
<1> QED
  BY <1>2, <1>3 DEF MainInv

LEMMA MainKeeps == MainInv /\ MainNext => MainInv'
<1> SUFFICES ASSUME MainInv, MainNext PROVE MainInv'
  OBVIOUS
<1>1. CASE RunCtors \/ CheckIntegrity
  BY <1>1, CheckKeeps
<1>2. CASE ScanModule
  BY <1>2, ScanKeeps
<1>3. CASE Choose
  BY <1>3, ChooseKeeps
<1>4. CASE SetUpMemory
  BY <1>4, SetUpKeeps
<1>5. CASE LoadKernel
  BY <1>5, LoadKeeps
<1>6. CASE RunLoader
  <2>1. stage = "run" /\ (LoaderAlloc \/ Fill) /\ UNCHANGED mainvars
    BY <1>6 DEF RunLoader
  <2>2. UNCHANGED mods_end
    BY <2>1 DEF LoaderAlloc, NoFrame, HandOut, Fill
  <2> QED
    BY <2>1, <2>2, LoaderKeeps, FillKeeps, RunningKeeps DEF MainInv
<1>7. CASE MainStopped
  <2>1. UNCHANGED vars /\ UNCHANGED mainvars /\ UNCHANGED <<mods_end, phase>>
    BY <1>7 DEF MainStopped, vars, mainvars
  <2> QED
    BY <2>1, BootUnchanged, RunningKeeps DEF MainInv
<1> QED
  BY <1>1, <1>2, <1>3, <1>4, <1>5, <1>6, <1>7 DEF MainNext

(* What the invariant says of the kernel that is entered.                  *)
LEMMA ChosenRight == MainInv => ChosenKernel
<1> SUFFICES ASSUME MainInv PROVE ChosenKernel
  OBVIOUS
<1>1. /\ Len(boot.mods) \in Nat /\ DOMAIN boot.mods = 1 .. Len(boot.mods)
      /\ boot.mods # <<>> => Len(boot.mods) # 0
  BY BootModules DEF MainInv, StageInv
<1>2. ASSUME phase # "start"
      PROVE  /\ \A k \in DOMAIN boot.mods : boot.mods[k].end <= mods_end
             /\ \E k \in DOMAIN boot.mods : boot.mods[k].end = mods_end
  <2>1. next - 1 = Len(boot.mods) /\ next # 1
    BY <1>1, <1>2 DEF MainInv, StageInv
  <2> QED
    BY <1>1, <2>1 DEF MainInv, ScannedInv
<1>3. ASSUME phase \in {"kernel", "running"}
      PROVE  /\ krnl32 = Smallest({k \in DOMAIN boot.mods : boot.mods[k].name = "cxkrnl32"})
             /\ boot.cmdline \in {"none", "exec32"}
             /\ LoadedInv
  <2>1. stage = "run" /\ next - 1 = Len(boot.mods) /\ krnl32 # 0
    BY <1>1, <1>3 DEF MainInv, StageInv
  <2>2. krnl32 = Smallest(Kernels32(Len(boot.mods)))
    BY <2>1 DEF MainInv, ScannedInv
  <2> QED
    BY <1>1, <2>1, <2>2 DEF MainInv, StageInv, Kernels32
<1> QED
  BY <1>2, <1>3 DEF ChosenKernel, LoadedInv

-----------------------------------------------------------------------------
(* Detection finds the features the processor has.                         *)
LEMMA FeatureFound ==
  ASSUME NEW p \in Processors, ~DetectRunsWild(p), NEW f \in Questions
  PROVE  FeatureTest(Detect(p), f)
           <=> f \in p.bits /\ (f[1] <= p.max \/ f[1] \in ExtBase .. p.maxext)
<1>1. /\ p.max \in 0 .. ExtBase - 1 /\ p.maxext \in Nat
      /\ f[1] \in 0 .. MaxSupported \cup ExtBase .. MaxSupportedExt
      /\ f[2] \in 0 .. 3 /\ f[3] \in 0 .. 31
  BY LoaderPropsAssumption
<1>2. /\ MaxSupported \in Nat /\ MaxSupported > 0
      /\ ExtBase \in Nat /\ ExtBase > MaxSupported
      /\ MaxSupportedExt \in Nat /\ MaxSupportedExt > ExtBase
  BY CpuAssumption
<1> DEFINE max == LesserOf(p.max, MaxSupported)
           maxext == LesserOf(p.maxext, MaxSupportedExt)
<1>3. /\ max \in Nat /\ maxext \in Nat /\ maxext >= ExtBase
      /\ max = IF p.max < MaxSupported THEN p.max ELSE MaxSupported
      /\ maxext = IF p.maxext < MaxSupportedExt THEN p.maxext ELSE MaxSupportedExt
  BY <1>1, <1>2 DEF LesserOf, DetectRunsWild
<1>4. /\ Detect(p).max = max /\ Detect(p).maxext = maxext
      /\ Detect(p).bits = {b \in p.bits : b[1] \in 0 .. max \cup ExtBase .. maxext}
  BY DEF Detect, ExtLeaves
<1> HIDE DEF max, maxext
<1>5. FeatureTest(Detect(p), f)
        <=> /\ f[1] <= max \/ f[1] \in ExtBase .. maxext
            /\ f \in p.bits /\ f[1] \in 0 .. max \cup ExtBase .. maxext
  BY <1>1, <1>4 DEF FeatureTest, HasLeaf
<1>6. (f[1] \in 0 .. max \cup ExtBase .. maxext) <=> (f[1] <= p.max \/ f[1] \in ExtBase .. p.maxext)
  BY <1>1, <1>2, <1>3
<1>7. (f[1] <= max \/ f[1] \in ExtBase .. maxext) <=> f[1] \in 0 .. max \cup ExtBase .. maxext
  BY <1>1, <1>2, <1>3
<1> QED
  BY <1>5, <1>6, <1>7

LEMMA FeaturesAlwaysRight == Features
BY FeatureFound DEF Features
-----------------------------------------------------------------------------
(* Looking a symbol up.                                                    *)
SymbolsOf == [value : Nat, name : STRING \cup {"NULL"}]
Below(tab, addr, n) == {k \in 1 .. n : tab[k].value \in 1 .. addr}

(* What get_symbol32 holds after n symbols.                                *)
BestOf(tab, addr, n, s) ==
  \/ Below(tab, addr, n) = {} /\ s = NoSymbol
  \/ \E k \in Below(tab, addr, n) :
       /\ s = tab[k]
       /\ \A j \in Below(tab, addr, n) :
            tab[j].value <= tab[k].value /\ (tab[j].value = tab[k].value => k <= j)

LEMMA NextBest ==
  ASSUME NEW tab, NEW len \in Nat, \A k \in 1 .. len : tab[k] \in SymbolsOf, NEW addr \in Nat,
         NEW n \in 1 .. len, NEW s, BestOf(tab, addr, n - 1, s)
  PROVE  BestOf(tab, addr, n, IF Better(tab[n], s, addr) THEN tab[n] ELSE s)
<1> DEFINE B == Below(tab, addr, n - 1)
           C == Below(tab, addr, n)
<1>1. /\ tab[n].value \in Nat
      /\ B \subseteq 1 .. n - 1
      /\ \A k \in B : tab[k].value \in 1 .. addr
      /\ C = IF tab[n].value \in 1 .. addr THEN B \cup {n} ELSE B
  BY DEF Below, SymbolsOf
<1>2. NoSymbol.value = 0
  BY DEF NoSymbol
<1>3. BestOf(tab, addr, n - 1, s) <=>
        \/ B = {} /\ s = NoSymbol
        \/ \E k \in B : /\ s = tab[k]
                        /\ \A j \in B : tab[j].value <= tab[k].value
                                        /\ (tab[j].value = tab[k].value => k <= j)
  BY DEF BestOf
<1>4. \A t : BestOf(tab, addr, n, t) <=>
        \/ C = {} /\ t = NoSymbol
        \/ \E k \in C : /\ t = tab[k]
                        /\ \A j \in C : tab[j].value <= tab[k].value
                                        /\ (tab[j].value = tab[k].value => k <= j)
  BY DEF BestOf
<1> HIDE DEF B, C
<1>5. CASE B = {} /\ s = NoSymbol
  <2>1. CASE tab[n].value \in 1 .. addr
    <3>1. C = {n} /\ Better(tab[n], s, addr)
      BY <1>1, <1>2, <1>5, <2>1 DEF Better
    <3> QED
      BY <1>1, <1>4, <3>1
  <2>2. CASE tab[n].value \notin 1 .. addr
    <3>1. C = {} /\ ~Better(tab[n], s, addr)
      BY <1>1, <1>2, <1>5, <2>2 DEF Better
    <3> QED
      BY <1>4, <1>5, <3>1
  <2> QED
    BY <2>1, <2>2
<1>6. ASSUME NEW k \in B, s = tab[k],
             \A j \in B : tab[j].value <= tab[k].value
                          /\ (tab[j].value = tab[k].value => k <= j)
      PROVE  BestOf(tab, addr, n, IF Better(tab[n], s, addr) THEN tab[n] ELSE s)
  <2>1. s.value \in 1 .. addr /\ k \in 1 .. n - 1 /\ \A j \in B : j \in 1 .. n - 1 /\ tab[j].value \in Nat
    BY <1>1, <1>6
  <2>2. CASE Better(tab[n], s, addr)
    <3>1. C = B \cup {n} /\ tab[n].value > tab[k].value
      BY <1>1, <1>6, <2>1, <2>2 DEF Better
    <3>2. \A j \in C : tab[j].value <= tab[n].value /\ (tab[j].value = tab[n].value => n <= j)
      BY <1>1, <1>6, <2>1, <3>1
    <3> QED
      BY <1>4, <2>2, <3>1, <3>2
  <2>3. CASE ~Better(tab[n], s, addr)
    <3>1. \A j \in C : tab[j].value <= tab[k].value /\ (tab[j].value = tab[k].value => k <= j)
      <4> SUFFICES ASSUME NEW j \in C
                   PROVE  tab[j].value <= tab[k].value /\ (tab[j].value = tab[k].value => k <= j)
        OBVIOUS
      <4>1. CASE j \in B
        BY <1>6, <4>1
      <4>2. CASE j \notin B
        <5>1. j = n /\ tab[n].value \in 1 .. addr
          BY <1>1, <4>2
        <5> QED
          BY <1>1, <1>6, <2>1, <2>3, <5>1 DEF Better
      <4> QED
        BY <4>1, <4>2
    <3>2. k \in C
      BY <1>1
    <3> QED
      BY <1>4, <1>6, <2>3, <3>1, <3>2
  <2> QED
    BY <2>2, <2>3
<1> QED
  BY <1>3, <1>5, <1>6

(* The search as a run.                                                    *)
LEMMA SearchRun ==
  ASSUME NEW tab, Len(tab) \in Nat, \A n \in 1 .. Len(tab) : tab[n] \in SymbolsOf, NEW addr
  PROVE  \E f : /\ f[0] = NoSymbol
                /\ \A n \in 1 .. Len(tab) :
                     f[n] = IF Better(tab[n], f[n - 1], addr) THEN tab[n] ELSE f[n - 1]
                /\ GetSymbol(tab, addr) = f[Len(tab)]
<1>1. PICK len \in Nat : len = Len(tab)
  OBVIOUS
<1> DEFINE Run(f) == f = [n \in 0 .. len |->
                            IF n = 0 THEN NoSymbol
                            ELSE IF Better(tab[n], f[n - 1], addr) THEN tab[n] ELSE f[n - 1]]
           step == [n \in 1 .. len |->
                      [s \in SymbolsOf |-> IF Better(tab[n], s, addr) THEN tab[n] ELSE s]]
<1>2. NoSymbol \in SymbolsOf /\ \A n \in 1 .. len : tab[n] \in SymbolsOf
  <2>1. NoSymbol \in SymbolsOf
    BY DEF NoSymbol, SymbolsOf
  <2> QED
    BY <1>1, <2>1
<1>3. step \in [1 .. len -> [SymbolsOf -> SymbolsOf]]
  BY <1>2
<1>4. \E f : Run(f)
  <2> DEFINE f == LoopRun(len, SymbolsOf, NoSymbol, step)
  <2>1. /\ f \in [0 .. len -> SymbolsOf] /\ f[0] = NoSymbol
        /\ \A n \in 1 .. len : f[n] = step[n][f[n - 1]]
    <3> HIDE DEF step
    <3> QED
      BY <1>2, <1>3, RunExists
  <2> HIDE DEF f
  <2>2. \A n \in 1 .. len : f[n] = IF Better(tab[n], f[n - 1], addr) THEN tab[n] ELSE f[n - 1]
    <3> SUFFICES ASSUME NEW n \in 1 .. len
                 PROVE  f[n] = IF Better(tab[n], f[n - 1], addr) THEN tab[n] ELSE f[n - 1]
      OBVIOUS
    <3>1. f[n - 1] \in SymbolsOf
      BY <2>1
    <3> QED
      BY <2>1, <3>1
  <2>3. Run(f)
    BY <2>1, <2>2
  <2> QED
    BY <2>3
<1> DEFINE best == CHOOSE f : Run(f)
<1>5. Run(best)
  BY <1>4
<1>6. GetSymbol(tab, addr) = best[len]
  BY <1>1 DEF GetSymbol
<1> HIDE DEF best
<1>7. /\ best[0] = NoSymbol
      /\ \A n \in 1 .. len : best[n] = IF Better(tab[n], best[n - 1], addr) THEN tab[n] ELSE best[n - 1]
  BY <1>5
<1> QED
  BY <1>1, <1>6, <1>7

LEMMA SymbolFound ==
  ASSUME NEW tab, Len(tab) \in Nat, \A n \in 1 .. Len(tab) : tab[n] \in SymbolsOf, NEW addr \in Nat
  PROVE  BestOf(tab, addr, Len(tab), GetSymbol(tab, addr))
<1>1. PICK len \in Nat : len = Len(tab)
  OBVIOUS
<1>2. PICK f : /\ f[0] = NoSymbol
               /\ \A n \in 1 .. Len(tab) :
                    f[n] = IF Better(tab[n], f[n - 1], addr) THEN tab[n] ELSE f[n - 1]
               /\ GetSymbol(tab, addr) = f[Len(tab)]
  BY SearchRun
<1> DEFINE T == {n \in 0 .. len : BestOf(tab, addr, n, f[n])}
<1>3. BestOf(tab, addr, 0, f[0])
  BY <1>2 DEF BestOf, Below
<1>4. ASSUME NEW n \in 1 .. len, BestOf(tab, addr, n - 1, f[n - 1])
      PROVE  BestOf(tab, addr, n, f[n])
  <2>1. \A k \in 1 .. len : tab[k] \in SymbolsOf
    BY <1>1
  <2>2. BestOf(tab, addr, n, IF Better(tab[n], f[n - 1], addr) THEN tab[n] ELSE f[n - 1])
    BY <1>4, <2>1, NextBest
  <2> QED
    BY <1>1, <1>2, <2>2
<1>5. 0 \in T /\ \A n \in 1 .. len : n - 1 \in T => n \in T
  BY <1>3, <1>4
<1> HIDE DEF T
<1>6. len \in T
  <2>1. \A n \in 0 .. len : n \in T
    BY <1>5, UpTo
  <2> QED
    BY <2>1
<1> QED
  BY <1>1, <1>2, <1>6 DEF T

LEMMA SymbolsAlwaysRight == Symbols
<1> SUFFICES ASSUME NEW tab \in Tables, NEW addr \in Addrs
             PROVE  LET below == {k \in 1 .. Len(tab) : tab[k].value \in 1 .. addr}
                        highest == {k \in below : \A j \in below : tab[j].value <= tab[k].value}
                    IN GetSymbol(tab, addr) = IF below = {} THEN NoSymbol ELSE tab[Smallest(highest)]
  BY DEF Symbols
<1>1. /\ Len(tab) \in Nat /\ addr \in Nat
      /\ \A n \in 1 .. Len(tab) : tab[n] \in SymbolsOf
  <2> DEFINE S == [value : Nat, name : STRING]
  <2>1. tab \in Seq(S) /\ addr \in Nat
    BY LoaderPropsAssumption
  <2>2. S \subseteq SymbolsOf
    BY DEF SymbolsOf
  <2> HIDE DEF S
  <2>3. \A n \in 1 .. Len(tab) : tab[n] \in S
    BY <2>1, ElementOfSeq
  <2> QED
    BY <2>1, <2>2, <2>3
<1> DEFINE below == {k \in 1 .. Len(tab) : tab[k].value \in 1 .. addr}
           highest == {k \in below : \A j \in below : tab[j].value <= tab[k].value}
           s == GetSymbol(tab, addr)
<1>2. \/ below = {} /\ s = NoSymbol
      \/ \E k \in below : /\ s = tab[k]
                          /\ \A j \in below : tab[j].value <= tab[k].value
                                              /\ (tab[j].value = tab[k].value => k <= j)
  BY <1>1, SymbolFound DEF BestOf, Below
<1>3. \A k \in below : k \in Nat /\ tab[k].value \in Nat
  BY <1>1 DEF SymbolsOf
<1> HIDE DEF below, s
<1>4. ASSUME NEW k \in below, s = tab[k],
             \A j \in below : tab[j].value <= tab[k].value
                              /\ (tab[j].value = tab[k].value => k <= j)
      PROVE  Smallest(highest) = k
  <2>1. k \in highest /\ \A j \in highest : k <= j /\ j \in Int
    BY <1>3, <1>4
  <2> HIDE DEF highest
  <2> QED
    BY <2>1, LeastIs
<1> QED
  BY <1>2, <1>4 DEF below, s

-----------------------------------------------------------------------------
Places == {"loader", "arch_early_init", "panic"} \cup AfterIdt
Pushed == {"isr_handler", "exception_handler", "return", "halted"}

(* The words of the stack when the handler runs.                           *)
FullFrame == <<"eflags", "cs", raised.at, raised.code, raised.vector>>

(* The exception that is handled is one of those the processor can raise,  *)
(* and kernel_main waits where it was raised.                              *)
RaisedInv ==
  trap \in {"stub"} \cup Pushed =>
    /\ raised.vector \in Exceptions \ {20, 21, 29}
    /\ ~HasErrorCode(raised.vector) => raised.code = 0
    /\ raised.at = at

(* What is on the stack then.                                              *)
StackInv ==
  /\ trap \in {"none", "reset"} => stack = <<>>
  /\ trap = "stub" => stack = CpuFrame(raised.vector, raised.code, raised.at)
  /\ trap \in Pushed => stack = FullFrame

ShownInv ==
  /\ trap = "halted" => shown = Regs(stack)
  /\ trap = "return" => shown.int_no = raised.vector /\ at \notin Calm

InstallInv ==
  /\ at \in AfterIdt => idt
  /\ at \in Calm => \A v \in Exceptions : handlers[v] # "none"
  /\ trap = "reset" => at \notin AfterIdt

KernelIInv == KernelTypeOK /\ RaisedInv /\ StackInv /\ ShownInv /\ InstallInv

-----------------------------------------------------------------------------
(* A subsequence from its elements.                                        *)
LEMMA FirstThree ==
  ASSUME NEW a, NEW b, NEW c, NEW d, NEW e
  PROVE  SubSeq(<<a, b, c, d, e>>, 1, 3) = <<a, b, c>>
<1> DEFINE S == {a, b, c, d, e}
           s == <<a, b, c, d, e>>
           t == SubSeq(s, 1, 3)
           u == <<a, b, c>>
<1>1. s \in Seq(S) /\ Len(s) = 5 /\ u \in Seq(S) /\ Len(u) = 3
  OBVIOUS
<1>2. t \in Seq(S) /\ Len(t) = 3 /\ \A i \in 1 .. 3 : t[i] = s[i]
  BY <1>1, SubSeqProperties
<1>3. \A i \in 1 .. 3 : s[i] = u[i]
  OBVIOUS
<1> HIDE DEF S, s, t, u
<1>4. t = u
  BY <1>1, <1>2, <1>3, SeqEqual
<1> QED
  BY <1>4 DEF s, t, u

(* The concatenations of the stub.                                         *)
LEMMA Joins ==
  ASSUME NEW a, NEW b, NEW c, NEW d, NEW e
  PROVE  /\ <<a, b, c>> \o <<d>> = <<a, b, c, d>>
         /\ <<a, b, c, d>> \o <<e>> = <<a, b, c, d, e>>
         /\ <<d>> \o <<e>> = <<d, e>>
         /\ <<a, b, c>> \o <<d, e>> = <<a, b, c, d, e>>
         /\ <<a, b, c>> \o <<>> = <<a, b, c>>
         /\ <<>> \o <<e>> = <<e>>
<1> DEFINE S == {a, b, c, d, e}
           three == <<a, b, c>>
           four == <<a, b, c, d>>
           five == <<a, b, c, d, e>>
           last == <<e>>
           before == <<d>>
           two == <<d, e>>
<1>1. /\ three \in Seq(S) /\ four \in Seq(S) /\ five \in Seq(S)
      /\ last \in Seq(S) /\ before \in Seq(S) /\ two \in Seq(S)
      /\ Len(four) = Len(three) + Len(before) /\ Len(five) = Len(four) + Len(last)
      /\ Len(two) = Len(before) + Len(last) /\ Len(five) = Len(three) + Len(two)
  OBVIOUS
<1>2. \A i \in 1 .. Len(four) : four[i] = IF i <= Len(three) THEN three[i] ELSE before[i - Len(three)]
  OBVIOUS
<1>3. \A i \in 1 .. Len(five) : five[i] = IF i <= Len(four) THEN four[i] ELSE last[i - Len(four)]
  OBVIOUS
<1>4. \A i \in 1 .. Len(two) : two[i] = IF i <= Len(before) THEN before[i] ELSE last[i - Len(before)]
  OBVIOUS
<1>5. \A i \in 1 .. Len(five) : five[i] = IF i <= Len(three) THEN three[i] ELSE two[i - Len(three)]
  OBVIOUS
<1> HIDE DEF S, three, four, five, last, before, two
<1>6. three \o before = four
  BY <1>1, <1>2, JoinIs, Zenon
<1>7. four \o last = five
  BY <1>1, <1>3, JoinIs, Zenon
<1>8. before \o last = two
  BY <1>1, <1>4, JoinIs, Zenon
<1>9. three \o two = five
  BY <1>1, <1>5, JoinIs, Zenon
<1>10. three \o <<>> = three /\ <<>> \o last = last
  BY <1>1, ConcatEmptySeq
<1> QED
  BY <1>6, <1>7, <1>8, <1>9, <1>10 DEF three, four, five, last, before, two

(* The stub makes the frame of every vector the same, with and without an  *)
(* error code of the processor's.                                          *)
LEMMA StubFrame ==
  ASSUME NEW v \in Exceptions \ {20, 21, 29}, NEW code, NEW eip, ~HasErrorCode(v) => code = 0
  PROVE  CpuFrame(v, code, eip) \o Stub(v) = <<"eflags", "cs", eip, code, v>>
<1>1. HasErrorCode(v) <=> TakenForCoded(v)
  BY DEF HasErrorCode, TakenForCoded, Exceptions
<1>2. /\ <<"eflags", "cs", eip>> \o <<code>> = <<"eflags", "cs", eip, code>>
      /\ <<"eflags", "cs", eip, code>> \o <<v>> = <<"eflags", "cs", eip, code, v>>
      /\ <<code>> \o <<v>> = <<code, v>>
      /\ <<"eflags", "cs", eip>> \o <<code, v>> = <<"eflags", "cs", eip, code, v>>
      /\ <<"eflags", "cs", eip>> \o <<>> = <<"eflags", "cs", eip>>
      /\ <<>> \o <<v>> = <<v>>
  BY Joins
<1>3. CASE HasErrorCode(v)
  <2>1. CpuFrame(v, code, eip) = <<"eflags", "cs", eip, code>>
    BY <1>2, <1>3, Zenon DEF CpuFrame
  <2>2. Stub(v) = <<v>>
    BY <1>1, <1>2, <1>3, Zenon DEF Stub
  <2> QED
    BY <1>2, <2>1, <2>2, Zenon
<1>4. CASE ~HasErrorCode(v)
  <2>1. CpuFrame(v, code, eip) = <<"eflags", "cs", eip>>
    BY <1>2, <1>4, Zenon DEF CpuFrame
  <2>2. Stub(v) = <<code, v>>
    BY <1>1, <1>2, <1>4, Zenon DEF Stub
  <2> QED
    BY <1>2, <2>1, <2>2, Zenon
<1> QED
  BY <1>3, <1>4

(* regs_t over that frame, and the way back.                               *)
LEMMA FrameRead ==
  ASSUME NEW v, NEW code, NEW eip, NEW s, s = <<"eflags", "cs", eip, code, v>>
  PROVE  /\ Regs(s) = [int_no |-> v, err_code |-> code, eip |-> eip]
         /\ IretTo(DropCode(s)) = eip
         /\ AfterIret(DropCode(s)) = <<>>
<1>1. Len(s) = 5 /\ s[5] = v /\ s[4] = code /\ s[3] = eip
  OBVIOUS
<1>2. DropCode(s) = <<"eflags", "cs", eip>>
  BY <1>1, FirstThree DEF DropCode
<1>3. Len(DropCode(s)) = 3 /\ DropCode(s)[3] = eip
  BY <1>2
<1>4. SubSeq(DropCode(s), 1, 0) = <<>>
  BY SubSeqEmpty
<1>5. AfterIret(DropCode(s)) = SubSeq(DropCode(s), 1, 3 - 3)
  BY <1>3 DEF AfterIret
<1>6. 3 - 3 = 0
  OBVIOUS
<1> QED
  BY <1>1, <1>3, <1>4, <1>5, <1>6 DEF Regs, IretTo

-----------------------------------------------------------------------------
LEMMA KernelInitial == KernelInit => KernelIInv
BY DEF KernelInit, KernelIInv, KernelTypeOK, RaisedInv, StackInv, ShownInv, InstallInv,
       AfterIdt, Calm, Pushed, NoHandlers

(* The calls of kernel_main happen while no exception is handled.          *)
LEMMA CallStep ==
  ASSUME KernelIInv, UNCHANGED trapvars, trap = "none",
         at' \in Places, idt' \in BOOLEAN, handlers' \in [Exceptions -> {"none", "exception_handler"}],
         at' \in AfterIdt => idt',
         at' \in Calm => \A v \in Exceptions : handlers'[v] # "none"
  PROVE  KernelIInv'
BY DEF KernelIInv, KernelTypeOK, RaisedInv, StackInv, ShownInv, InstallInv, trapvars, Pushed, Places

LEMMA InstalledAll ==
  ASSUME KernelTypeOK
  PROVE  /\ Installed \in [Exceptions -> {"none", "exception_handler"}]
         /\ \A v \in Exceptions : Installed[v] # "none"
BY DEF Installed, Exceptions, KernelTypeOK

LEMMA CallsKeep ==
  ASSUME KernelIInv,
         \/ AddArena \/ ArchEarlyInit \/ PlatformEarlyInit \/ ArchInit
         \/ PlatformInit \/ MemInitCall \/ KmemInit
  PROVE  KernelIInv'
<1> USE DEF Calls, Places, AfterIdt, Calm, KernelIInv, InstallInv, KernelTypeOK
<1>1. CASE AddArena
  BY <1>1, CallStep DEF AddArena
<1>2. CASE ArchEarlyInit
  BY <1>2, CallStep DEF ArchEarlyInit, ChecksPass
<1>3. CASE PlatformEarlyInit
  BY <1>3, CallStep DEF PlatformEarlyInit, NoHandlers
<1>4. CASE ArchInit
  BY <1>4, CallStep, InstalledAll DEF ArchInit
<1>5. CASE PlatformInit
  BY <1>5, CallStep DEF PlatformInit
<1>6. CASE MemInitCall
  BY <1>6, CallStep DEF MemInitCall
<1>7. CASE KmemInit
  BY <1>7, CallStep DEF KmemInit
<1> QED
  BY <1>1, <1>2, <1>3, <1>4, <1>5, <1>6, <1>7

(* An exception leaves kernel_main where it is; what is left to show of a  *)
(* step is how far its handling is and what is on the stack.               *)
LEMMA TrapStep ==
  ASSUME KernelIInv, UNCHANGED <<at, idt, handlers>>,
         trap' \in {"none", "stub"} \cup Pushed \cup {"reset"},
         RaisedInv', StackInv', ShownInv', trap' = "reset" => ~idt
  PROVE  KernelIInv'
BY DEF KernelIInv, KernelTypeOK, InstallInv, Pushed

LEMMA RaiseKeeps == KernelIInv /\ Raise => KernelIInv'
<1> SUFFICES ASSUME KernelIInv, Raise PROVE KernelIInv'
  OBVIOUS
<1>1. trap = "none" /\ stack = <<>> /\ UNCHANGED <<at, idt, handlers>>
  BY DEF Raise, TrapGoto, KernelIInv, StackInv
<1>2. CASE ~idt
  <2>1. trap' = "reset" /\ UNCHANGED <<raised, stack, shown>>
    BY <1>2 DEF Raise, TrapGoto
  <2>2. RaisedInv' /\ StackInv' /\ ShownInv'
    BY <1>1, <2>1 DEF RaisedInv, StackInv, ShownInv, Pushed
  <2> QED
    BY <1>1, <1>2, <2>1, <2>2, TrapStep
<1>3. CASE idt
  <2>1. PICK x :
          /\ x \in Raised
          /\ trap' = "stub"
          /\ raised' = [vector |-> x.vector, code |-> x.code, at |-> at]
          /\ stack' = stack \o CpuFrame(x.vector, x.code, at)
    BY <1>3 DEF Raise, TrapGoto
  <2>2. x.vector \in Exceptions \ {20, 21, 29} /\ (~HasErrorCode(x.vector) => x.code = 0)
    BY <2>1, KernelAssumption
  <2>3. RaisedInv'
    BY <1>1, <2>1, <2>2 DEF RaisedInv
  <2>4. stack' = CpuFrame(x.vector, x.code, at)
    <3>1. CpuFrame(x.vector, x.code, at) \in Seq({"eflags", "cs", at, x.code})
      <4> DEFINE S == {"eflags", "cs", at, x.code}
      <4>1. <<"eflags", "cs", at>> \in Seq(S) /\ <<x.code>> \in Seq(S) /\ <<>> \in Seq(S)
        OBVIOUS
      <4> HIDE DEF S
      <4>2. /\ <<"eflags", "cs", at>> \o <<x.code>> \in Seq(S)
            /\ <<"eflags", "cs", at>> \o <<>> \in Seq(S)
        BY <4>1, ConcatProperties
      <4>3. CpuFrame(x.vector, x.code, at) \in Seq(S)
        BY <4>2, Zenon DEF CpuFrame
      <4> QED
        BY <4>3 DEF S
    <3> QED
      BY <1>1, <2>1, <3>1, ConcatEmptySeq
  <2>5. StackInv' /\ ShownInv'
    BY <2>1, <2>4 DEF StackInv, ShownInv, Pushed
  <2> QED
    BY <1>1, <2>1, <2>3, <2>5, TrapStep
<1> QED
  BY <1>2, <1>3

LEMMA StubKeeps == KernelIInv /\ IsrStub => KernelIInv'
<1> SUFFICES ASSUME KernelIInv, IsrStub PROVE KernelIInv'
  OBVIOUS
<1>1. /\ trap = "stub" /\ trap' = "isr_handler" /\ UNCHANGED <<at, idt, handlers, raised, shown>>
      /\ stack' = stack \o Stub(raised.vector)
  BY DEF IsrStub, TrapGoto
<1>2. RaisedInv'
  BY <1>1 DEF KernelIInv, RaisedInv, Pushed
<1>3. stack' = FullFrame
  <2>1. /\ raised.vector \in Exceptions \ {20, 21, 29}
        /\ ~HasErrorCode(raised.vector) => raised.code = 0
        /\ stack = CpuFrame(raised.vector, raised.code, raised.at)
    BY <1>1 DEF KernelIInv, RaisedInv, StackInv
  <2> QED
    BY <1>1, <2>1, StubFrame DEF FullFrame
<1>4. StackInv' /\ ShownInv'
  BY <1>1, <1>3 DEF StackInv, ShownInv, FullFrame
<1> QED
  BY <1>1, <1>2, <1>4, TrapStep DEF Pushed

(* What the handlers read.                                                 *)
LEMMA HandlerReads ==
  ASSUME KernelIInv, trap \in Pushed
  PROVE  /\ Regs(stack) = [int_no |-> raised.vector, err_code |-> raised.code, eip |-> raised.at]
         /\ IretTo(DropCode(stack)) = raised.at
         /\ AfterIret(DropCode(stack)) = <<>>
<1>1. stack = FullFrame
  BY DEF KernelIInv, StackInv
<1> QED
  BY <1>1, FrameRead DEF FullFrame

LEMMA HandlersKeep == KernelIInv /\ (Handled \/ Unhandled \/ ExceptionHandler) => KernelIInv'
<1> SUFFICES ASSUME KernelIInv, Handled \/ Unhandled \/ ExceptionHandler PROVE KernelIInv'
  OBVIOUS
<1>1. /\ trap \in Pushed /\ trap' \in Pushed /\ UNCHANGED <<at, idt, handlers, raised, stack>>
  BY DEF Handled, Unhandled, ExceptionHandler, TrapGoto, Pushed
<1>2. RaisedInv' /\ StackInv'
  BY <1>1 DEF KernelIInv, RaisedInv, StackInv, FullFrame, Pushed
<1>3. ShownInv'
  <2>1. CASE Handled
    BY <2>1 DEF Handled, TrapGoto, ShownInv
  <2>2. CASE Unhandled
    <3>1. /\ trap' = "return" /\ handlers[raised.vector] = "none"
          /\ shown' = [Nothing EXCEPT !.int_no = raised.vector]
      BY <1>1, <2>2, HandlerReads DEF Unhandled, TrapGoto
    <3>2. shown'.int_no = raised.vector
      BY <3>1 DEF Nothing
    <3>3. at \notin Calm
      BY <1>1, <3>1 DEF KernelIInv, InstallInv, RaisedInv
    <3> QED
      BY <1>1, <3>1, <3>2, <3>3 DEF ShownInv
  <2>3. CASE ExceptionHandler
    BY <1>1, <2>3 DEF ExceptionHandler, TrapGoto, ShownInv
  <2> QED
    BY <2>1, <2>2, <2>3
<1> QED
  BY <1>1, <1>2, <1>3, TrapStep DEF Pushed

LEMMA ReturnKeeps == KernelIInv /\ IsrReturn => KernelIInv'
<1> SUFFICES ASSUME KernelIInv, IsrReturn PROVE KernelIInv'
  OBVIOUS
<1>1. /\ trap \in Pushed /\ trap' = "none" /\ UNCHANGED <<idt, handlers>>
      /\ at' = IretTo(DropCode(stack)) /\ stack' = AfterIret(DropCode(stack))
  BY DEF IsrReturn, Pushed
<1>2. at' = at /\ stack' = <<>>
  BY <1>1, HandlerReads DEF KernelIInv, RaisedInv
<1>3. RaisedInv' /\ StackInv' /\ ShownInv'
  BY <1>1, <1>2 DEF RaisedInv, StackInv, ShownInv, Pushed
<1> QED
  BY <1>1, <1>2, <1>3, TrapStep

LEMMA KernelStep ==
  KernelIInv /\ [KernelNext]_<<vars, mainvars, kernelvars>> => KernelIInv'
<1> SUFFICES ASSUME KernelIInv, [KernelNext]_<<vars, mainvars, kernelvars>>
             PROVE  KernelIInv'
  OBVIOUS
<1>1. CASE UNCHANGED kernelvars
  BY <1>1 DEF kernelvars, KernelIInv, KernelTypeOK, RaisedInv, StackInv, ShownInv, InstallInv, FullFrame
<1>2. CASE RunsLoader
  BY <1>1, <1>2 DEF RunsLoader
<1>3. CASE \/ AddArena \/ ArchEarlyInit \/ PlatformEarlyInit \/ ArchInit
           \/ PlatformInit \/ MemInitCall \/ KmemInit
  BY <1>3, CallsKeep
<1>4. CASE Raise
  BY <1>4, RaiseKeeps
<1>5. CASE IsrStub
  BY <1>5, StubKeeps
<1>6. CASE Handled \/ Unhandled \/ ExceptionHandler
  BY <1>6, HandlersKeep
<1>7. CASE IsrReturn
  BY <1>7, ReturnKeeps
<1>8. CASE KernelStopped \/ FillFrames
  BY <1>1, <1>8 DEF KernelStopped, FillFrames
<1> QED
  BY <1>1, <1>2, <1>3, <1>4, <1>5, <1>6, <1>7, <1>8 DEF KernelNext

(* The inductive invariant: progress, stack and handler table agree, for   *)
(* any processor, memory map, modules and exceptions.                      *)
THEOREM KernelInvariance == KernelSpec => []KernelIInv
<1>1. KernelInit => KernelIInv
  BY KernelInitial
<1>2. KernelIInv /\ [KernelNext]_<<vars, mainvars, kernelvars>> => KernelIInv'
  BY KernelStep
<1> QED
  BY <1>1, <1>2, PTL DEF KernelSpec

(* Reported holds for any exceptions but those of vectors 20, 21 and 29,   *)
(* whenever they come: the handler sees vector, code and address as the    *)
(* processor raised them, and a return goes back to the instruction.       *)
THEOREM ReportedAlways == KernelSpec => []Reported
<1>1. KernelIInv => Reported
  <2> SUFFICES ASSUME KernelIInv PROVE Reported
    OBVIOUS
  <2>1. trap \in Pushed => raised.at = at
    BY DEF KernelIInv, RaisedInv
  <2> QED
    BY <2>1, HandlerReads DEF KernelIInv, ShownInv, InstallInv, Reported, Pushed
<1> QED
  BY <1>1, KernelInvariance, PTL

(* Every variable of the kernel keeps its type.                            *)
THEOREM KernelTypes == KernelSpec => []KernelTypeOK
<1>1. KernelIInv => KernelTypeOK
  BY DEF KernelIInv
<1> QED
  BY <1>1, KernelInvariance, PTL
-----------------------------------------------------------------------------
(* The loader and the frames, under everything the kernel does.            *)
LEMMA KernelMainStep ==
  ASSUME MainInv, [KernelNext]_<<vars, mainvars, kernelvars>>
  PROVE  MainInv'
<1>1. CASE UNCHANGED <<vars, mainvars>>
  <2>1. UNCHANGED vars /\ UNCHANGED mainvars /\ UNCHANGED <<mods_end, phase>>
    BY <1>1 DEF vars
  <2> QED
    BY <2>1, BootUnchanged, RunningKeeps DEF MainInv
<1>2. CASE RunsLoader
  BY <1>2, MainKeeps DEF RunsLoader
<1>3. CASE AddArena
  <2>1. stage = "run" /\ EnterKernel /\ UNCHANGED mainvars
    BY <1>3 DEF AddArena
  <2>2. UNCHANGED mods_end
    BY <2>1 DEF EnterKernel
  <2> QED
    BY <2>1, <2>2, EnterKernelKeeps, RunningKeeps DEF MainInv
<1>4. CASE PlatformInit
  <2>1. KernelAlloc /\ UNCHANGED mainvars /\ stage = "run"
    BY <1>4 DEF PlatformInit, KernelAlloc, MainInv, StageInv
  <2>2. UNCHANGED mods_end
    BY <2>1 DEF KernelAlloc, NoFrame, HandOut
  <2> QED
    BY <2>1, <2>2, KernelKeeps, RunningKeeps DEF MainInv
<1>5. CASE MemInitCall
  <2>1. MemInit /\ UNCHANGED mainvars /\ stage = "run"
    BY <1>5 DEF MemInitCall, MemInit, MainInv, StageInv
  <2>2. UNCHANGED mods_end
    BY <2>1 DEF MemInit
  <2> QED
    BY <2>1, <2>2, MemInitKeeps, RunningKeeps DEF MainInv
<1>7. CASE FillFrames
  <2>1. Fill /\ UNCHANGED mainvars /\ stage = "run"
    BY <1>7 DEF FillFrames, MainInv, StageInv
  <2>2. UNCHANGED mods_end
    BY <2>1 DEF Fill
  <2> QED
    BY <2>1, <2>2, FillKeeps, RunningKeeps DEF MainInv
<1>6. CASE \/ ArchEarlyInit \/ PlatformEarlyInit \/ ArchInit \/ KmemInit
           \/ Raise \/ IsrStub \/ Handled \/ Unhandled \/ ExceptionHandler \/ IsrReturn
           \/ KernelStopped
  <2>1. UNCHANGED <<vars, mainvars>>
    BY <1>6 DEF ArchEarlyInit, PlatformEarlyInit, ArchInit, KmemInit, Raise, IsrStub, Handled,
                Unhandled, ExceptionHandler, IsrReturn, KernelStopped, TrapGoto
  <2> QED
    BY <1>1, <2>1
<1> QED
  BY <1>1, <1>2, <1>3, <1>4, <1>5, <1>6, <1>7 DEF KernelNext

(* The inductive invariant of the whole boot, for any memory map, modules, *)
(* command line, processor and width of a word of the bitmap.              *)
THEOREM MainInvariance == KernelSpec => []MainInv
<1>1. KernelInit => MainInv
  BY MainInitial DEF KernelInit
<1>2. MainInv /\ [KernelNext]_<<vars, mainvars, kernelvars>> => MainInv'
  BY KernelMainStep
<1> QED
  BY <1>1, <1>2, PTL DEF KernelSpec

(* bitmap_firstz finds the lowest clear bit, and both searches of bitmap.h *)
(* find none exactly when none is clear, for any width and number of words *)
(* and any bits.                                                           *)
THEOREM SearchesCorrect == KernelSpec => []SearchesRight
<1>1. MainInv => SearchesRight
  BY SearchesAlwaysRight DEF SearchesRight
<1> QED
  BY <1>1, MainInvariance, PTL

(* From the loader's set-up to the page lists the bitmap has a clear bit   *)
(* for exactly the free frames that were not handed out, as long as no     *)
(* frame it lies in was.                                                   *)
THEOREM BitmapCorrect == KernelSpec => []BitmapInv
<1>1. MainInv => BitmapInv
  BY DEF MainInv, BootInv
<1> QED
  BY <1>1, MainInvariance, PTL

(* On the maps that suit the loader's search no frame leaves twice until   *)
(* one of the bitmap does, and that takes a bitmap longer than its page    *)
(* and every free frame below the kernel gone.                             *)
THEOREM NoFrameTwice == KernelSpec => []HandedOnce
<1>1. MainInv => HandedOnce
  BY DEF MainInv, BootInv
<1> QED
  BY <1>1, MainInvariance, PTL

(* The page lists start with usable frames nobody was given, where no      *)
(* frame of the bitmap was.                                                *)
THEOREM PoolCorrect == KernelSpec => []PoolIsRest
<1>1. MainInv => PoolIsRest
  BY DEF MainInv, BootInv
<1> QED
  BY <1>1, MainInvariance, PTL

(* The machine only stops for want of memory when every bit is set.        *)
THEOREM PanicCorrect == KernelSpec => []PanicOnlyWhenFull
<1>1. MainInv => PanicOnlyWhenFull
  BY DEF MainInv, BootInv
<1> QED
  BY <1>1, MainInvariance, PTL

(* The kernel that is entered is the first of its name, a 32-bit image     *)
(* with its symbol tables, and every module lies below MODS_END.           *)
THEOREM KernelChosen == KernelSpec => []ChosenKernel
<1> QED
  BY ChosenRight, MainInvariance, PTL

(* Detection finds exactly the features the processor reports.             *)
THEOREM FeaturesCorrect == KernelSpec => []FeaturesRight
<1>1. MainInv => FeaturesRight
  BY FeaturesAlwaysRight DEF FeaturesRight
<1> QED
  BY <1>1, MainInvariance, PTL

(* The lookup of a stack trace finds the highest symbol up to the address, *)
(* the first of several, in any table and for any address.                 *)
THEOREM SymbolsCorrect == KernelSpec => []SymbolsRight
<1>1. MainInv => SymbolsRight
  BY SymbolsAlwaysRight DEF SymbolsRight
<1> QED
  BY <1>1, MainInvariance, PTL

(* No step of the boot gives a frame away whose bit is set, where the      *)
(* search is right.                                                        *)
THEOREM SearchedCorrect == KernelSpec => SearchedWasFree
<1>1. MainInv /\ [KernelNext]_<<vars, mainvars, kernelvars>>
        => [handed' # handed /\ (phase = "kernel" \/ LoaderFits)
              => Last(handed') \in Bits(Length(mmap)) \ alloc_map]_vars
  <2> SUFFICES ASSUME MainInv, [KernelNext]_<<vars, mainvars, kernelvars>>, handed' # handed,
                      phase = "kernel" \/ LoaderFits
               PROVE  Last(handed') \in Bits(Length(mmap)) \ alloc_map
    OBVIOUS
  <2>1. LoaderAlloc \/ KernelAlloc
    <3>1. ~UNCHANGED vars
      BY DEF vars
    <3>2. RunsLoader \/ PlatformInit \/ AddArena \/ MemInitCall \/ FillFrames
      BY <3>1 DEF KernelNext, ArchEarlyInit, PlatformEarlyInit, ArchInit, KmemInit, Raise,
                  IsrStub, Handled, Unhandled, ExceptionHandler, IsrReturn, KernelStopped, TrapGoto
    <3>3. CASE RunsLoader
      <4>1. MainNext
        BY <3>3 DEF RunsLoader
      <4>2. /\ SetUpMemory => UNCHANGED handed
            /\ Fill => UNCHANGED handed
        BY DEF SetUpMemory, NotEnoughMemory, AssertFails, InitBootMM, Become, Fill
      <4> QED
        BY <3>1, <4>1, <4>2 DEF MainNext, RunCtors, CheckIntegrity, ScanModule, Choose, LoadKernel,
                                RunLoader, MainStopped
    <3>4. CASE PlatformInit
      BY <3>4 DEF PlatformInit
    <3>5. ~AddArena /\ ~MemInitCall /\ ~FillFrames
      BY DEF AddArena, MemInitCall, EnterKernel, MemInit, FillFrames, Fill
    <3> QED
      BY <3>2, <3>3, <3>4, <3>5
  <2> QED
    BY <2>1, TakesFree DEF MainInv
<1> QED
  BY <1>1, MainInvariance, PTL DEF KernelSpec, SearchedWasFree
-----------------------------------------------------------------------------
Words == [chip : {Master, Slave}, port : {"command", "data"}, word : Nat]

(* One word: the other chip stays as it is.                                *)
LEMMA OneWrite ==
  ASSUME NEW p \in Pics, NEW w \in Words
  PROVE  LET q == PicWrite(p, w)
             c == w.chip
         IN /\ q \in Pics
            /\ \A d \in {Master, Slave} \ {c} : q[d] = p[d]
            /\ w.port = "command" /\ w.word = ICW1 => q[c].expects = "offset"
            /\ w.port = "command" /\ w.word # ICW1 => q = p
            /\ w.port = "data" /\ p[c].expects = "offset"
                 => q[c].expects = "cascade" /\ q[c].offset = w.word
            /\ w.port = "data" /\ p[c].expects = "cascade"
                 => q[c].expects = "mode" /\ q[c].offset = p[c].offset
            /\ w.port = "data" /\ p[c].expects = "mode"
                 => q[c].expects = "mask" /\ q[c].offset = p[c].offset
            /\ w.port = "data" /\ p[c].expects = "mask"
                 => q[c].expects = "mask" /\ q[c].offset = p[c].offset /\ q[c].mask = w.word
<1> DEFINE Chips == [expects : {"offset", "cascade", "mode", "mask"},
                     offset : Nat, cascade : Nat, mask : Nat]
           c == w.chip
           new == ChipWrite(p[c], w.port, w.word)
           q == PicWrite(p, w)
<1>1. /\ p \in [{Master, Slave} -> Chips] /\ p[c] \in Chips
      /\ c \in {Master, Slave} /\ w.port \in {"command", "data"} /\ w.word \in Nat
  BY DEF Pics, Words
<1>2. q = [p EXCEPT ![c] = new]
  BY DEF PicWrite
<1> HIDE DEF c
<1>3. /\ new \in Chips
      /\ w.port = "command" /\ w.word = ICW1 => new.expects = "offset"
      /\ w.port = "command" /\ w.word # ICW1 => new = p[c]
      /\ w.port = "data" /\ p[c].expects = "offset" => new.expects = "cascade" /\ new.offset = w.word
      /\ w.port = "data" /\ p[c].expects = "cascade" => new.expects = "mode" /\ new.offset = p[c].offset
      /\ w.port = "data" /\ p[c].expects = "mode" => new.expects = "mask" /\ new.offset = p[c].offset
      /\ w.port = "data" /\ p[c].expects = "mask"
           => new.expects = "mask" /\ new.offset = p[c].offset /\ new.mask = w.word
  BY <1>1 DEF ChipWrite
<1> HIDE DEF new, q, Chips
<1>4. /\ q \in [{Master, Slave} -> Chips] /\ q[c] = new
      /\ \A d \in {Master, Slave} \ {c} : q[d] = p[d]
      /\ new = p[c] => q = p
  BY <1>1, <1>2, <1>3
<1>5. q \in Pics
  BY <1>4 DEF Pics, Chips
<1> QED
  BY <1>3, <1>4, <1>5 DEF q, c

(* Writes as a run: what the controllers are after each word.              *)
LEMMA WrittenRun ==
  ASSUME NEW p \in Pics, NEW words \in Seq(Words)
  PROVE  \E f : /\ f[0] = p
                /\ \A n \in 1 .. Len(words) : f[n] = PicWrite(f[n - 1], words[n])
                /\ Written(p, words) = f[Len(words)]
<1>1. PICK n \in Nat : n = Len(words)
  OBVIOUS
<1> DEFINE Run(f) == f = [k \in 0 .. n |-> IF k = 0 THEN p ELSE PicWrite(f[k - 1], words[k])]
           step == [k \in 1 .. n |-> [q \in Pics |-> PicWrite(q, words[k])]]
<1>2. \A k \in 1 .. n : words[k] \in Words
  BY <1>1, ElementOfSeq
<1>3. step \in [1 .. n -> [Pics -> Pics]]
  BY <1>2, OneWrite
<1>4. \E f : Run(f)
  <2> DEFINE f == LoopRun(n, Pics, p, step)
  <2>1. f \in [0 .. n -> Pics] /\ f[0] = p /\ \A k \in 1 .. n : f[k] = step[k][f[k - 1]]
    <3> HIDE DEF step
    <3> QED
      BY <1>3, RunExists
  <2> HIDE DEF f
  <2>2. \A k \in 0 .. n : f[k] = IF k = 0 THEN p ELSE PicWrite(f[k - 1], words[k])
    <3> SUFFICES ASSUME NEW k \in 1 .. n PROVE f[k] = PicWrite(f[k - 1], words[k])
      BY <1>2, <2>1
    <3>1. f[k - 1] \in Pics
      BY <1>2, <2>1
    <3> QED
      BY <2>1, <3>1
  <2>3. Run(f)
    BY <2>1, <2>2
  <2> QED
    BY <2>3
<1> DEFINE after == CHOOSE f : Run(f)
<1>5. Run(after)
  BY <1>4
<1>6. Written(p, words) = after[n]
  BY <1>1 DEF Written
<1> HIDE DEF after
<1>7. after[0] = p /\ \A k \in 1 .. n : after[k] = PicWrite(after[k - 1], words[k])
  BY <1>2, <1>5
<1> QED
  BY <1>1, <1>6, <1>7

(* The end of an interrupt changes nothing here.                           *)
LEMMA EoiKeeps ==
  ASSUME NEW p \in Pics, NEW v
  PROVE  Written(p, SendEoi(v)) = p
<1> DEFINE m == Command(Master, EOI)
           s == Command(Slave, EOI)
           words == SendEoi(v)
<1>1. /\ m \in Words /\ m.port = "command" /\ m.word # ICW1
      /\ s \in Words /\ s.port = "command" /\ s.word # ICW1
  BY DEF Command, Words, EOI, ICW1
<1>2. PicWrite(p, m) = p /\ PicWrite(p, s) = p
  <2> HIDE DEF m, s
  <2> QED
    BY <1>1, OneWrite
<1> HIDE DEF m, s
<1>3. words = <<s, m>> \/ words = <<m>>
  <2>1. <<s>> \o <<m>> = <<s, m>> /\ <<>> \o <<m>> = <<m>>
    BY Joins
  <2> QED
    BY <2>1, Zenon DEF SendEoi, m, s
<1>4. words \in Seq(Words) /\ Len(words) \in {1, 2} /\ \A n \in 1 .. Len(words) : words[n] \in {m, s}
  <2>1. m \in Words /\ s \in Words
    BY <1>1
  <2> HIDE DEF words
  <2>2. CASE words = <<s, m>>
    BY <2>1, <2>2
  <2>3. CASE words = <<m>>
    BY <2>1, <2>3
  <2> QED
    BY <1>3, <2>2, <2>3
<1> HIDE DEF words
<1>5. PICK f : /\ f[0] = p
               /\ \A n \in 1 .. Len(words) : f[n] = PicWrite(f[n - 1], words[n])
               /\ Written(p, words) = f[Len(words)]
  BY <1>4, WrittenRun
<1>6. f[1] = p
  <2>1. Len(words) = 1 \/ Len(words) = 2
    BY <1>4
  <2>2. 1 \in 1 .. Len(words) /\ 1 - 1 = 0
    BY <2>1
  <2>3. f[1] = PicWrite(f[0], words[1]) /\ words[1] \in {m, s}
    BY <1>4, <1>5, <2>2
  <2> QED
    BY <1>2, <1>5, <2>3
<1>7. Len(words) = 2 => f[2] = p
  <2> SUFFICES ASSUME Len(words) = 2 PROVE f[2] = p
    OBVIOUS
  <2>1. 2 \in 1 .. Len(words) /\ 2 - 1 = 1
    OBVIOUS
  <2>2. f[2] = PicWrite(f[1], words[2]) /\ words[2] \in {m, s}
    BY <1>4, <1>5, <2>1
  <2> QED
    BY <1>2, <1>6, <2>2
<1>8. Written(p, words) = p
  BY <1>4, <1>5, <1>6, <1>7
<1> QED
  BY <1>8 DEF words

(* remap and mask end the initialisation of both chips.                    *)
LEMMA Programmed ==
  ASSUME NEW p \in Pics, NEW o1 \in Nat, NEW o2 \in Nat, NEW a1 \in Nat, NEW a2 \in Nat
  PROVE  LET q == Written(p, Remap(o1, o2, a1, a2) \o Mask(255, 255))
         IN /\ q \in Pics
            /\ q[Master].expects = "mask" /\ q[Master].offset = o1 /\ q[Master].mask = 255
            /\ q[Slave].expects = "mask" /\ q[Slave].offset = o2 /\ q[Slave].mask = 255
<1> DEFINE first == Remap(o1, o2, a1, a2)
           last == Mask(255, 255)
           w == first \o last
<1>1. first \in Seq(Words) /\ Len(first) = 10 /\ last \in Seq(Words) /\ Len(last) = 2
  BY DEF Remap, Mask, Command, Data, Words, ICW1
<1>2. /\ first[1].chip = Master /\ first[1].port = "command" /\ first[1].word = ICW1
      /\ first[2].chip = Slave /\ first[2].port = "command" /\ first[2].word = ICW1
      /\ first[3].chip = Master /\ first[3].port = "data" /\ first[3].word = o1
      /\ first[4].chip = Slave /\ first[4].port = "data" /\ first[4].word = o2
      /\ first[5].chip = Master /\ first[5].port = "data" /\ first[5].word = 4
      /\ first[6].chip = Slave /\ first[6].port = "data" /\ first[6].word = 2
      /\ first[7].chip = Master /\ first[7].port = "data" /\ first[7].word = 1
      /\ first[8].chip = Slave /\ first[8].port = "data" /\ first[8].word = 1
      /\ first[9].chip = Master /\ first[9].port = "data" /\ first[9].word = a1
      /\ first[10].chip = Slave /\ first[10].port = "data" /\ first[10].word = a2
      /\ last[1].chip = Master /\ last[1].port = "data" /\ last[1].word = 255
      /\ last[2].chip = Slave /\ last[2].port = "data" /\ last[2].word = 255
  BY DEF Remap, Mask, Command, Data
<1> HIDE DEF first, last
<1>3. /\ Len(w) = 12 /\ w \in Seq(Words)
      /\ \A i \in 1 .. 12 : w[i] = IF i <= 10 THEN first[i] ELSE last[i - 10]
  <2>1. /\ Len(w) = Len(first) + Len(last) /\ w \in Seq(Words)
        /\ \A i \in 1 .. Len(first) + Len(last) :
             w[i] = IF i <= Len(first) THEN first[i] ELSE last[i - Len(first)]
    BY <1>1, ConcatProperties
  <2>2. Len(first) = 10 /\ Len(last) = 2
    BY <1>1
  <2> HIDE DEF w
  <2> QED
    BY <2>1, <2>2
<1>4. \A i \in 1 .. 12 : w[i] \in Words
  <2>1. (\A i \in 1 .. 10 : first[i] \in Words) /\ (\A i \in 1 .. 2 : last[i] \in Words)
    BY <1>1, ElementOfSeq
  <2> HIDE DEF w
  <2> SUFFICES ASSUME NEW i \in 1 .. 12 PROVE w[i] \in Words
    OBVIOUS
  <2>2. w[i] = IF i <= 10 THEN first[i] ELSE last[i - 10]
    BY <1>3
  <2>3. CASE i <= 10
    BY <2>1, <2>2, <2>3
  <2>4. CASE ~(i <= 10)
    <3>1. i - 10 \in 1 .. 2
      BY <2>4
    <3> QED
      BY <2>1, <2>2, <2>4, <3>1
  <2> QED
    BY <2>3, <2>4
<1> HIDE DEF w
<1>a. /\ w[1] = first[1] /\ w[2] = first[2] /\ w[3] = first[3] /\ w[4] = first[4]
      /\ w[5] = first[5] /\ w[6] = first[6] /\ w[7] = first[7] /\ w[8] = first[8]
      /\ w[9] = first[9] /\ w[10] = first[10] /\ w[11] = last[1] /\ w[12] = last[2]
  BY <1>3, SMTT(30)
<1>5. PICK f : /\ f[0] = p
               /\ \A n \in 1 .. 12 : f[n] = PicWrite(f[n - 1], w[n])
               /\ Written(p, w) = f[12]
  <2>1. \E f : /\ f[0] = p
               /\ \A n \in 1 .. Len(w) : f[n] = PicWrite(f[n - 1], w[n])
               /\ Written(p, w) = f[Len(w)]
    BY <1>3, WrittenRun
  <2> QED
    BY <1>3, <2>1
<1>b. \A n \in 1 .. 12 : f[n] = PicWrite(f[n - 1], w[n]) /\ w[n] \in Words
  BY <1>4, <1>5
<1>c. /\ f[1] = PicWrite(f[0], w[1]) /\ w[1] \in Words
      /\ f[2] = PicWrite(f[1], w[2]) /\ w[2] \in Words
      /\ f[3] = PicWrite(f[2], w[3]) /\ w[3] \in Words
      /\ f[4] = PicWrite(f[3], w[4]) /\ w[4] \in Words
      /\ f[5] = PicWrite(f[4], w[5]) /\ w[5] \in Words
      /\ f[6] = PicWrite(f[5], w[6]) /\ w[6] \in Words
  BY <1>b, SMTT(30)
<1>d. /\ f[7] = PicWrite(f[6], w[7]) /\ w[7] \in Words
      /\ f[8] = PicWrite(f[7], w[8]) /\ w[8] \in Words
      /\ f[9] = PicWrite(f[8], w[9]) /\ w[9] \in Words
      /\ f[10] = PicWrite(f[9], w[10]) /\ w[10] \in Words
      /\ f[11] = PicWrite(f[10], w[11]) /\ w[11] \in Words
      /\ f[12] = PicWrite(f[11], w[12]) /\ w[12] \in Words
  BY <1>b, SMTT(30)
<1>6. Master \in {Master, Slave} /\ Slave \in {Master, Slave} /\ Master # Slave
  BY DEF Master, Slave
<1>7. /\ f[1] \in Pics /\ f[1][Master].expects = "offset"
  <2>1. f[1] = PicWrite(f[0], w[1]) /\ w[1] \in Words
        /\ w[1].chip = Master /\ w[1].port = "command" /\ w[1].word = ICW1
    BY <1>2, <1>a, <1>c
  <2> QED
    BY <1>5, <1>6, <2>1, OneWrite, SMTT(30)
<1>8. /\ f[2] \in Pics /\ f[2][Master].expects = "offset" /\ f[2][Slave].expects = "offset"
  <2>1. f[2] = PicWrite(f[1], w[2]) /\ w[2] \in Words
        /\ w[2].chip = Slave /\ w[2].port = "command" /\ w[2].word = ICW1
    BY <1>2, <1>a, <1>c
  <2> QED
    BY <1>7, <1>6, <2>1, OneWrite, SMTT(30)
<1>9. /\ f[3] \in Pics /\ f[3][Master].expects = "cascade" /\ f[3][Master].offset = o1
      /\ f[3][Slave].expects = "offset"
  <2>1. f[3] = PicWrite(f[2], w[3]) /\ w[3] \in Words
        /\ w[3].chip = Master /\ w[3].port = "data" /\ w[3].word = o1
    BY <1>2, <1>a, <1>c
  <2> QED
    BY <1>8, <1>6, <2>1, OneWrite, SMTT(30)
<1>10. /\ f[4] \in Pics /\ f[4][Master].expects = "cascade" /\ f[4][Master].offset = o1
       /\ f[4][Slave].expects = "cascade" /\ f[4][Slave].offset = o2
  <2>1. f[4] = PicWrite(f[3], w[4]) /\ w[4] \in Words
        /\ w[4].chip = Slave /\ w[4].port = "data" /\ w[4].word = o2
    BY <1>2, <1>a, <1>c
  <2> QED
    BY <1>9, <1>6, <2>1, OneWrite, SMTT(30)
<1>11. /\ f[5] \in Pics /\ f[5][Master].expects = "mode" /\ f[5][Master].offset = o1
       /\ f[5][Slave].expects = "cascade" /\ f[5][Slave].offset = o2
  <2>1. f[5] = PicWrite(f[4], w[5]) /\ w[5] \in Words
        /\ w[5].chip = Master /\ w[5].port = "data" /\ w[5].word = 4
    BY <1>2, <1>a, <1>c
  <2> QED
    BY <1>10, <1>6, <2>1, OneWrite, SMTT(30)
<1>12. /\ f[6] \in Pics /\ f[6][Master].expects = "mode" /\ f[6][Master].offset = o1
       /\ f[6][Slave].expects = "mode" /\ f[6][Slave].offset = o2
  <2>1. f[6] = PicWrite(f[5], w[6]) /\ w[6] \in Words
        /\ w[6].chip = Slave /\ w[6].port = "data" /\ w[6].word = 2
    BY <1>2, <1>a, <1>c
  <2> QED
    BY <1>11, <1>6, <2>1, OneWrite, SMTT(30)
<1>13. /\ f[7] \in Pics /\ f[7][Master].expects = "mask" /\ f[7][Master].offset = o1
       /\ f[7][Slave].expects = "mode" /\ f[7][Slave].offset = o2
  <2>1. f[7] = PicWrite(f[6], w[7]) /\ w[7] \in Words
        /\ w[7].chip = Master /\ w[7].port = "data" /\ w[7].word = 1
    BY <1>2, <1>a, <1>d
  <2>2. f[7] \in Pics /\ f[7][Slave] = f[6][Slave]
    BY <1>12, <1>6, <2>1, OneWrite, SMTT(30)
  <2>3. f[6][Master].expects = "mode"
    BY <1>12
  <2>4. f[7][Master].expects = "mask" /\ f[7][Master].offset = f[6][Master].offset
    BY <1>12, <1>6, <2>1, <2>3, OneWrite
  <2> QED
    BY <1>12, <2>2, <2>4
<1>14. /\ f[8] \in Pics /\ f[8][Master].expects = "mask" /\ f[8][Master].offset = o1
       /\ f[8][Slave].expects = "mask" /\ f[8][Slave].offset = o2
  <2>1. f[8] = PicWrite(f[7], w[8]) /\ w[8] \in Words
        /\ w[8].chip = Slave /\ w[8].port = "data" /\ w[8].word = 1
    BY <1>2, <1>a, <1>d
  <2>2. f[8] \in Pics /\ f[8][Master] = f[7][Master]
    BY <1>13, <1>6, <2>1, OneWrite, SMTT(30)
  <2>3. f[7][Slave].expects = "mode"
    BY <1>13
  <2>4. f[8][Slave].expects = "mask" /\ f[8][Slave].offset = f[7][Slave].offset
    BY <1>13, <1>6, <2>1, <2>3, OneWrite
  <2> QED
    BY <1>13, <2>2, <2>4
<1>15. /\ f[9] \in Pics /\ f[9][Master].expects = "mask" /\ f[9][Master].offset = o1
       /\ f[9][Master].mask = a1 /\ f[9][Slave].expects = "mask" /\ f[9][Slave].offset = o2
  <2>1. f[9] = PicWrite(f[8], w[9]) /\ w[9] \in Words
        /\ w[9].chip = Master /\ w[9].port = "data" /\ w[9].word = a1
    BY <1>2, <1>a, <1>d
  <2>2. f[9] \in Pics /\ f[9][Slave] = f[8][Slave]
    BY <1>14, <1>6, <2>1, OneWrite
  <2>3. f[8][Master].expects = "mask"
    BY <1>14
  <2>4. /\ f[9][Master].expects = "mask" /\ f[9][Master].offset = f[8][Master].offset
        /\ f[9][Master].mask = a1
    BY <1>14, <1>6, <2>1, <2>3, OneWrite, SMTT(30)
  <2> QED
    BY <1>14, <2>2, <2>4
<1>16. /\ f[10] \in Pics /\ f[10][Master].expects = "mask" /\ f[10][Master].offset = o1
       /\ f[10][Master].mask = a1 /\ f[10][Slave].expects = "mask" /\ f[10][Slave].offset = o2
       /\ f[10][Slave].mask = a2
  <2>1. f[10] = PicWrite(f[9], w[10]) /\ w[10] \in Words
        /\ w[10].chip = Slave /\ w[10].port = "data" /\ w[10].word = a2
    BY <1>2, <1>a, <1>d
  <2>2. f[10] \in Pics /\ f[10][Master] = f[9][Master]
    BY <1>15, <1>6, <2>1, OneWrite
  <2>3. f[9][Slave].expects = "mask"
    BY <1>15
  <2>4. /\ f[10][Slave].expects = "mask" /\ f[10][Slave].offset = f[9][Slave].offset
        /\ f[10][Slave].mask = a2
    BY <1>15, <1>6, <2>1, <2>3, OneWrite, SMTT(30)
  <2> QED
    BY <1>15, <2>2, <2>4
<1>17. /\ f[11] \in Pics /\ f[11][Master].expects = "mask" /\ f[11][Master].offset = o1
       /\ f[11][Master].mask = 255 /\ f[11][Slave].expects = "mask" /\ f[11][Slave].offset = o2
       /\ f[11][Slave].mask = a2
  <2>1. f[11] = PicWrite(f[10], w[11]) /\ w[11] \in Words
        /\ w[11].chip = Master /\ w[11].port = "data" /\ w[11].word = 255
    BY <1>2, <1>a, <1>d
  <2>2. f[11] \in Pics /\ f[11][Slave] = f[10][Slave]
    BY <1>16, <1>6, <2>1, OneWrite
  <2>3. f[10][Master].expects = "mask"
    BY <1>16
  <2>4. /\ f[11][Master].expects = "mask" /\ f[11][Master].offset = f[10][Master].offset
        /\ f[11][Master].mask = 255
    BY <1>16, <1>6, <2>1, <2>3, OneWrite, SMTT(30)
  <2> QED
    BY <1>16, <2>2, <2>4
<1>18. /\ f[12] \in Pics /\ f[12][Master].expects = "mask" /\ f[12][Master].offset = o1
       /\ f[12][Master].mask = 255 /\ f[12][Slave].expects = "mask" /\ f[12][Slave].offset = o2
       /\ f[12][Slave].mask = 255
  <2>1. f[12] = PicWrite(f[11], w[12]) /\ w[12] \in Words
        /\ w[12].chip = Slave /\ w[12].port = "data" /\ w[12].word = 255
    BY <1>2, <1>a, <1>d
  <2>2. f[12] \in Pics /\ f[12][Master] = f[11][Master]
    BY <1>17, <1>6, <2>1, OneWrite
  <2>3. f[11][Slave].expects = "mask"
    BY <1>17
  <2>4. /\ f[12][Slave].expects = "mask" /\ f[12][Slave].offset = f[11][Slave].offset
        /\ f[12][Slave].mask = 255
    BY <1>17, <1>6, <2>1, <2>3, OneWrite, SMTT(30)
  <2> QED
    BY <1>17, <2>2, <2>4
<1>19. Written(p, w) = f[12]
  BY <1>5
<1>20. LET q == Written(p, w)
       IN /\ q \in Pics
          /\ q[Master].expects = "mask" /\ q[Master].offset = o1 /\ q[Master].mask = 255
          /\ q[Slave].expects = "mask" /\ q[Slave].offset = o2 /\ q[Slave].mask = 255
  <2> PICK q : q = Written(p, w)
    OBVIOUS
  <2>1. q = f[12]
    BY <1>19
  <2> QED
    BY <1>18, <1>19
<1> QED
  BY <1>20 DEF w, first, last

(* The controllers are in some state always, and from arch::init on out of *)
(* their initialisation, masked and away from the exceptions.              *)
PicSafe ==
  \A chip \in {Master, Slave} :
    /\ pic[chip].expects = "mask" /\ pic[chip].mask = 255
    /\ Exceptions \cap (pic[chip].offset .. pic[chip].offset + 7) = {}

PicInv == pic \in Pics /\ (at \in {"arch_init"} \cup Calm => PicSafe)

LEMMA RemapKeeps ==
  ASSUME KernelIInv, PicInv, PlatformEarlyInit
  PROVE  PicInv'
<1> DEFINE a1 == pic[Master].mask
           a2 == pic[Slave].mask
           o2 == IRQ0 + 8
<1>1. /\ pic \in Pics /\ a1 \in Nat /\ a2 \in Nat /\ IRQ0 \in Nat /\ o2 \in Nat /\ IRQ0 > 31
      /\ pic' = Written(pic, Remap(IRQ0, o2, a1, a2) \o Mask(255, 255))
  BY KernelAssumption DEF PicInv, Pics, PlatformEarlyInit
<1> HIDE DEF a1, a2, o2
<1>2. /\ pic' \in Pics
      /\ pic'[Master].expects = "mask" /\ pic'[Master].offset = IRQ0 /\ pic'[Master].mask = 255
      /\ pic'[Slave].expects = "mask" /\ pic'[Slave].offset = o2 /\ pic'[Slave].mask = 255
  <2> DEFINE q == Written(pic, Remap(IRQ0, o2, a1, a2) \o Mask(255, 255))
  <2>1. /\ q \in Pics
        /\ q[Master].expects = "mask" /\ q[Master].offset = IRQ0 /\ q[Master].mask = 255
        /\ q[Slave].expects = "mask" /\ q[Slave].offset = o2 /\ q[Slave].mask = 255
    <3>1. pic \in Pics /\ a1 \in Nat /\ a2 \in Nat /\ IRQ0 \in Nat /\ o2 \in Nat
      BY <1>1
    <3> QED
      BY <3>1, Programmed
  <2>2. pic' = q
    BY <1>1
  <2> HIDE DEF q
  <2> QED
    BY <2>1, <2>2
<1>3. /\ Exceptions \cap (IRQ0 .. IRQ0 + 7) = {}
      /\ Exceptions \cap (IRQ0 + 8 .. IRQ0 + 8 + 7) = {}
  BY <1>1 DEF Exceptions
<1>4. PicSafe'
  BY <1>2, <1>3 DEF PicSafe, Exceptions, o2
<1> QED
  BY <1>2, <1>4 DEF PicInv

LEMMA PicStep ==
  ASSUME KernelIInv, PicInv, [KernelNext]_<<vars, mainvars, kernelvars>>
  PROVE  PicInv'
<1> USE DEF PicInv, PicSafe
<1>1. CASE UNCHANGED kernelvars
  BY <1>1 DEF kernelvars
<1>2. CASE PlatformEarlyInit
  BY <1>2, RemapKeeps
<1>3. CASE AddArena \/ ArchEarlyInit
  BY <1>3 DEF AddArena, ArchEarlyInit, Calls, Calm
<1>4. CASE ArchInit \/ PlatformInit \/ MemInitCall \/ KmemInit
  BY <1>4 DEF ArchInit, PlatformInit, MemInitCall, KmemInit, Calls, Calm
<1>5. CASE Raise \/ IsrStub \/ Handled \/ ExceptionHandler
  BY <1>5 DEF Raise, IsrStub, Handled, ExceptionHandler, TrapGoto
<1>6. CASE Unhandled
  <2>1. UNCHANGED at /\ pic' = Written(pic, SendEoi(Regs(stack).int_no))
    BY <1>6 DEF Unhandled, TrapGoto
  <2>2. pic' = pic
    BY <2>1, EoiKeeps
  <2> QED
    BY <2>1, <2>2
<1>7. CASE IsrReturn
  <2>1. trap \in Pushed /\ UNCHANGED pic /\ at' = IretTo(DropCode(stack))
    BY <1>7 DEF IsrReturn, Pushed
  <2>2. at' = at
    BY <2>1, HandlerReads DEF KernelIInv, RaisedInv
  <2> QED
    BY <2>1, <2>2
<1>8. CASE RunsLoader \/ KernelStopped \/ FillFrames
  BY <1>1, <1>8 DEF RunsLoader, KernelStopped, FillFrames
<1> QED
  BY <1>1, <1>2, <1>3, <1>4, <1>5, <1>6, <1>7, <1>8 DEF KernelNext

(* TrapInv holds for any offset behind the exceptions and any state the    *)
(* firmware leaves the controllers in: whenever an exception comes, the    *)
(* handlers are complete and the controllers masked and remapped from      *)
(* arch::init on, and nothing of it stays on the stack.                    *)
THEOREM TrapsCorrect == KernelSpec => []TrapInv
<1>1. KernelInit => PicInv
  BY KernelAssumption DEF KernelInit, PicInv, Calm
<1>2. KernelIInv /\ PicInv /\ [KernelNext]_<<vars, mainvars, kernelvars>> => PicInv'
  BY PicStep
<1>3. KernelIInv /\ PicInv => TrapInv
  <2> SUFFICES ASSUME KernelIInv, PicInv PROVE TrapInv
    OBVIOUS
  <2>1. at \in {"arch_init"} \cup Calm =>
          \A chip \in {Master, Slave} :
            /\ pic[chip].expects = "mask" /\ pic[chip].mask = 255
            /\ Exceptions \cap (pic[chip].offset .. pic[chip].offset + 7) = {}
    BY DEF PicInv, PicSafe
  <2> QED
    BY <2>1 DEF KernelIInv, InstallInv, StackInv, TrapInv
<1> QED
  BY <1>1, <1>2, <1>3, KernelInvariance, PTL DEF KernelSpec
=============================================================================
