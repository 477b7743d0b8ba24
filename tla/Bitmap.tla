------------------------------- MODULE Bitmap -------------------------------
(***************************************************************************)
(* lib/ebl/include/bitmap.h.  A bitmap is the set of the indices of its    *)
(* set bits; it is an array of "length" words of W bits.                   *)
(***************************************************************************)
EXTENDS Integers, FiniteSets

CONSTANT W   \* bits in an unsigned int

ASSUME BitmapAssumption == W \in Nat \ {0}

Smallest(S) == CHOOSE x \in S : \A y \in S : x <= y
Largest(S) == CHOOSE x \in S : \A y \in S : x >= y

(* bitmap_getlength, bitmap_getbits and the index space of the array.      *)
GetLength(L) == L \div W + 1
GetBits(L) == L * W
Bits(length) == 0 .. GetBits(length) - 1

TestBit(bits, k) == k \in bits
(* The mutant of SetBit loses the store.                                   *)
SetBitNothing(bits, k) == bits
SetBit(bits, k) == bits \cup {k}
ClearBit(bits, k) == bits \ {k}

(* The words that are not ~0U; the mutant never looks at the last one.     *)
NotFullButLast(bits, length) ==
  {i \in 0 .. length - 2 : \E b \in 0 .. W - 1 : GetBits(i) + b \notin bits}
NotFull(bits, length) ==
  {i \in 0 .. length - 1 : \E b \in 0 .. W - 1 : GetBits(i) + b \notin bits}

(* bitmap_firstz: the first such word, and in it the first clear bit; the  *)
(* mutant forgets to add the position of the word.                         *)
FirstZeroInWord(bits, length) ==
  IF NotFull(bits, length) = {} THEN -1
  ELSE LET i == Smallest(NotFull(bits, length))
       IN Smallest({b \in 0 .. W - 1 : GetBits(i) + b \notin bits})

FirstZero(bits, length) ==
  IF NotFull(bits, length) = {} THEN -1
  ELSE LET i == Smallest(NotFull(bits, length))
       IN GetBits(i) + Smallest({b \in 0 .. W - 1 : GetBits(i) + b \notin bits})

(* bitmap_lastz: the last such word.  _ptr is 0 when it is found, so the   *)
(* loop that would count down its bits never runs.                         *)
LastZero(bits, length) ==
  IF NotFull(bits, length) = {} THEN -1
  ELSE GetBits(Largest(NotFull(bits, length)))
=============================================================================
