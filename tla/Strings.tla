------------------------------ MODULE Strings ------------------------------
(***************************************************************************)
(* lib/libc/string.c.  Memory is a function from addresses to bytes and an *)
(* address a natural number; 0 ends a string.  A byte has ByteValues       *)
(* values and a word WordBytes bytes, the lowest first.                    *)
(***************************************************************************)
EXTENDS Integers, SequencesExt

CONSTANTS ByteValues, WordBytes

ASSUME StringsAssumption ==
  /\ ByteValues \in Nat /\ ByteValues > 1 /\ ByteValues % 2 = 0
  /\ WordBytes \in Nat \ {0}

Least(S) == CHOOSE x \in S : \A y \in S : x <= y
NULL == -1
ReadsOn == -1   \* for the length of a string that does not end in mem

-----------------------------------------------------------------------------
(* strlen.  The word of its bytes, the highest first.                      *)
Word(bytes) ==
  LET top[k \in 0 .. WordBytes] == IF k = 0 THEN 0 ELSE top[k - 1] * ByteValues + bytes[k]
  IN top[WordBytes]

WordAt(mem, p) == Word([k \in 1 .. WordBytes |-> mem[p + WordBytes - k]])

(* lomagic, a 1 in every byte.                                             *)
Ones == Word([k \in 1 .. WordBytes |-> 1])

(* What a 1 in byte k counts; Place[WordBytes] is the number of words.     *)
Place[k \in 0 .. WordBytes] == IF k = 0 THEN 1 ELSE Place[k - 1] * ByteValues

(* The highest bit of byte k, one of those of himagic.                     *)
HighBit(w, k) == (w \div (Place[k] * (ByteValues \div 2))) % 2

(* ((longword - lomagic) & ~longword & himagic) != 0.  The mutant has no   *)
(* bit of the last byte in its himagic.                                    *)
MayEndButLast(w) ==
  \E k \in 0 .. WordBytes - 2 :
    HighBit((w - Ones) % Place[WordBytes], k) = 1 /\ HighBit(w, k) = 0
MayEnd(w) ==
  \E k \in 0 .. WordBytes - 1 :
    HighBit((w - Ones) % Place[WordBytes], k) = 1 /\ HighBit(w, k) = 0

(* Bytes up to the first whole word, then the words, of which only those   *)
(* that may hold the end are looked at byte by byte.                       *)
Strlen(mem, str) ==
  LET from == ((str + WordBytes - 1) \div WordBytes) * WordBytes
      Ends(bytes) == {p \in bytes : mem[p] = 0}
      head == Ends(str .. from - 1)
      words == {p \in from .. Cardinality(DOMAIN mem) - WordBytes :
                  /\ p % WordBytes = 0 /\ MayEnd(WordAt(mem, p))
                  /\ Ends(p .. p + WordBytes - 1) # {}}
  IN IF head # {} THEN Least(head) - str
     ELSE IF words = {} THEN ReadsOn
     ELSE LET word == Least(words)
          IN Least(Ends(word .. word + WordBytes - 1)) - str

-----------------------------------------------------------------------------
(* The copies, byte by byte in the order of the offsets: memcpy upwards,   *)
(* memmove downwards unless dest is below src.                             *)
Copy(mem, dest, src, offsets) ==
  LET after[k \in 0 .. Len(offsets)] ==
        IF k = 0 THEN mem
        ELSE LET m == after[k - 1] IN [m EXCEPT ![dest + offsets[k]] = m[src + offsets[k]]]
  IN after[Len(offsets)]

Upwards(len) == [k \in 1 .. len |-> k - 1]
Downwards(len) == [k \in 1 .. len |-> len - k]

Memcpy(mem, dest, src, len) == Copy(mem, dest, src, Upwards(len))

Memmove(mem, dest, src, len) ==
  Copy(mem, dest, src, IF dest < src THEN Upwards(len) ELSE Downwards(len))

Memset(mem, dest, c, len) ==
  [p \in DOMAIN mem |-> IF p \in dest .. dest + len - 1 THEN c ELSE mem[p]]

(* No terminator is copied.                                                *)
Strcpy(mem, dest, src) == Memcpy(mem, dest, src, Strlen(mem, src))
Strcat(mem, dest, src) == Strcpy(mem, dest + Strlen(mem, dest), src)

-----------------------------------------------------------------------------
(* The comparisons return the difference at the offset they stop at.       *)
Difference(mem, a, b, offsets) ==
  IF offsets = {} THEN 0 ELSE mem[a + Least(offsets)] - mem[b + Least(offsets)]

Differs(mem, a, b, k) == mem[a + k] # mem[b + k]
Offsets(mem, a, b) == {k \in DOMAIN mem : {a + k, b + k} \subseteq DOMAIN mem}

Memcmp(mem, a, b, len) ==
  Difference(mem, a, b, {k \in 0 .. len - 1 : Differs(mem, a, b, k)})

Strcmp(mem, a, b) ==
  Difference(mem, a, b, {k \in Offsets(mem, a, b) : mem[a + k] = 0 \/ Differs(mem, a, b, k)})

Strncmp(mem, a, b, n) ==
  Difference(mem, a, b, {k \in Offsets(mem, a, b) \cap 0 .. n - 1 :
                           mem[a + k] = 0 \/ Differs(mem, a, b, k)})

(* strchr finds the terminator too; strstr starts a comparison wherever it *)
(* finds the first byte, so that of an empty string it finds the end of s. *)
Strchr(mem, s, c) ==
  LET at == Least({p \in DOMAIN mem : p >= s /\ mem[p] \in {c, 0}})
  IN IF mem[at] = c THEN at ELSE NULL

Strstr(mem, s, t) ==
  LET len == Strlen(mem, t)
      found == {p \in s .. s + Strlen(mem, s) : mem[p] = mem[t] /\ Strncmp(mem, p, t, len) = 0}
  IN IF found = {} THEN NULL ELSE Least(found)
=============================================================================
