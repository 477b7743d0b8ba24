----------------------------- MODULE LibcProps -----------------------------
(* What a directive of ssprintf owes its caller, and what the C library    *)
(* promises of the functions of Strings.                                   *)
EXTENDS Format, Strings

(* Directives.                                                             *)
CONSTANTS Widths, Args   \* field widths and arguments that are tried

Directives ==
  [flags : {f \in SUBSET {"zero", "left", "prefix", "plus", "space"} :
              ~{"zero", "left"} \subseteq f /\ ~{"plus", "space"} \subseteq f},
   width : {None, Star}, prec : {None}, length : {"", "h", "l"},
   conv : {"d", "u", "x", "o"}]

ASSUME DirectivesAssumption == Widths \subseteq Int /\ Args \subseteq Nat

(* Unsigned conversions with a sign flag count no room for the sign that   *)
(* they print; no caller has one.                                          *)
Called == {d \in Directives : d.conv = "d" \/ d.flags \cap {"plus", "space"} = {}}

Number(digits, base) ==
  LET value[k \in 0 .. Len(digits)] ==
        IF k = 0 THEN 0
        ELSE value[k - 1] * base + (CHOOSE n \in DOMAIN Digit : Digit[n] = digits[k]) - 1
  IN value[Len(digits)]

(* out shows v with its digits only, its sign and prefix before them, in a *)
(* field of the width asked for, or wider when v needs it, and padded on   *)
(* the side and with the character the flags say (vsprintf.c:20-26).       *)
Shows(out, v, d, width, left) ==
  LET base == Base(d.conv)
      sign == IF v < 0 THEN <<"-">> ELSE IF "plus" \in d.flags THEN <<"+">>
              ELSE IF "space" \in d.flags THEN <<" ">> ELSE <<>>
      prefix == IF "prefix" \notin d.flags \/ base = 10 THEN <<>>
                ELSE IF base = 16 THEN <<"0", "x">> ELSE <<"0">>
      head == sign \o prefix
  IN \E first \in DOMAIN out : \E last \in first .. Len(out) :
       LET digits == SubSeq(out, first, last)
           before == SubSeq(out, 1, first - 1)
           after == SubSeq(out, last + 1, Len(out))
           pad == Len(out) - Len(head) - Len(digits)
       IN /\ ToSet(digits) \subseteq {Digit[k] : k \in 1 .. base}
          /\ Number(digits, base) = IF v < 0 THEN -v ELSE v
          /\ Len(digits) > 1 => digits[1] # "0"
          /\ pad = IF width > Len(head) + Len(digits) THEN width - (Len(head) + Len(digits)) ELSE 0
          /\ IF left THEN before = head /\ after = Repeat(pad, " ")
             ELSE /\ after = <<>>
                  /\ before = IF "zero" \in d.flags THEN head \o Repeat(pad, "0")
                              ELSE Repeat(pad, " ") \o head

Plain(c) == [conv |-> "plain", char |-> c]
Count == [flags |-> {}, width |-> None, prec |-> None, length |-> "", conv |-> "n"]

(* The directive between two characters, followed by n: the width is taken *)
(* from the arguments before the value, a negative one justifies left, and *)
(* the count that is stored and the one returned are right.                *)
CallRight(d, width, arg) ==
  LET args == IF d.width = Star THEN <<width, arg, "pointer">> ELSE <<arg, "pointer">>
      r == Ssprintf(<<Plain("("), d, Count, Plain(")")>>, args)
      size == CASE d.length = "l" -> Long [] d.length = "h" -> Short [] OTHER -> Int32
      v == IF d.conv = "d" THEN AsSigned(arg, size) ELSE arg % size
      left == "left" \in d.flags \/ (d.width = Star /\ width < 0)
      asked == IF d.width # Star THEN 0 ELSE IF width < 0 THEN -width ELSE width
  IN /\ r.ret = Len(r.out) /\ r.stored = <<r.ret - 1>>
     /\ r.out[1] = "(" /\ r.out[r.ret] = ")"
     /\ \/ left /\ "zero" \in d.flags
        \/ Shows(SubSeq(r.out, 2, r.ret - 1), v, d, asked, left)

Formats ==
  \A d \in Called : \A width \in IF d.width = Star THEN Widths ELSE {None} :
    \A arg \in Args : CallRight(d, width, arg)

-----------------------------------------------------------------------------
(* Strings.                                                                *)
CONSTANT Memories   \* memories that are tried: whole words, the last byte a 0

ASSUME MemoriesAssumption ==
  \A m \in Memories :
    LET size == Cardinality(DOMAIN m)
    IN /\ IsFiniteSet(DOMAIN m) /\ size > 0 /\ size % WordBytes = 0
       /\ m \in [0 .. size - 1 -> 0 .. ByteValues - 1] /\ m[size - 1] = 0

(* The string at p, byte after byte.                                       *)
StringAt(m, p) ==
  LET len == Least({n \in DOMAIN m : p + n \in DOMAIN m /\ m[p + n] = 0})
  IN [k \in 1 .. len |-> m[p + k - 1]]

Sign(n) == CASE n < 0 -> -1 [] n = 0 -> 0 [] n > 0 -> 1

(* Alphabetical order of sequences of bytes: -1, 0 or 1.                   *)
Order(a, b) ==
  IF a = b THEN 0
  ELSE IF IsStrictPrefix(a, b) THEN -1 ELSE IF IsStrictPrefix(b, a) THEN 1
  ELSE LET first == Least({k \in DOMAIN a \cap DOMAIN b : a[k] # b[k]})
       IN Sign(a[first] - b[first])

Upto(t, n) == SubSeq(t, 1, IF n < Len(t) THEN n ELSE Len(t))

(* The bytes src to src + len - 1 of m are at dest, nothing else changed.  *)
Moved(m, dest, src, len) ==
  [p \in DOMAIN m |-> IF p \in dest .. dest + len - 1 THEN m[src + p - dest] ELSE m[p]]

Blocks(m) ==
  \A a, b, len \in DOMAIN m :
    LET Block(p) == [k \in 1 .. len |-> m[p + k - 1]]
        apart == a + len <= b \/ b + len <= a
    IN {a + len, b + len} \subseteq DOMAIN m =>
         /\ Memmove(m, a, b, len) = Moved(m, a, b, len)
         /\ apart => Memcpy(m, a, b, len) = Moved(m, a, b, len)
         /\ Sign(Memcmp(m, a, b, len)) = Order(Block(a), Block(b))

Compared(m) ==
  \A a, b \in DOMAIN m :
    /\ Strlen(m, a) = Len(StringAt(m, a))
    /\ Sign(Strcmp(m, a, b)) = Order(StringAt(m, a), StringAt(m, b))
    /\ \A n \in DOMAIN m : Sign(Strncmp(m, a, b, n)) = Order(Upto(StringAt(m, a), n), Upto(StringAt(m, b), n))

Found(m) ==
  \A a, b \in DOMAIN m :
    LET s == StringAt(m, a)
        t == StringAt(m, b)
        at == {k \in 0 .. Len(s) - Len(t) : SubSeq(s, k + 1, k + Len(t)) = t}
    IN t # <<>> => Strstr(m, a, b) = IF at = {} THEN NULL ELSE a + Least(at)

(* The second half of the memory is cleared before it is copied to, as     *)
(* that of every caller is that goes on with the string.                   *)
Copied(m) ==
  LET half == Cardinality(DOMAIN m) \div 2
      cleared == Memset(Memset(m, half - 1, 0, 1), half, 0, half)
  IN \A a \in 0 .. half - 1 :
       LET once == Strcpy(cleared, half, a)
       IN /\ StringAt(once, half) = StringAt(cleared, a)
          /\ \A b \in 0 .. half - 1 :
               half + Len(StringAt(cleared, a)) + Len(StringAt(cleared, b)) \in DOMAIN m =>
                 StringAt(Strcat(once, half, b), half) = StringAt(cleared, a) \o StringAt(cleared, b)

AllStrings == \A m \in Memories : Blocks(m) /\ Compared(m) /\ Found(m) /\ Copied(m)
=============================================================================
