------------------------------- MODULE Format -------------------------------
(***************************************************************************)
(* The formatter behind every printf, lib/libc/vsprintf.c.  A format is a  *)
(* sequence of items [flags, width, prec, length, conv]; a width or        *)
(* precision is a number, None, or Star when it is an argument, and a      *)
(* plain character is an item of conv "plain" with a field char.  Upper    *)
(* and lower case are not told apart.                                      *)
(***************************************************************************)
EXTENDS Integers, SequencesExt

CONSTANTS
  Short, Int32, Long   \* values of short, of int and long, of long long

ASSUME FormatAssumption ==
  /\ Short \in Nat \ {0} /\ Int32 \in Nat \ {0} /\ Long \in Nat \ {0}
  /\ Short <= Int32 /\ 2 * Int32 <= Long

None == -1
Star == -2
Digit == <<"0", "1", "2", "3", "4", "5", "6", "7",
           "8", "9", "a", "b", "c", "d", "e", "f">>
Repeat(n, c) == [k \in 1 .. (IF n > 0 THEN n ELSE 0) |-> c]
If(condition, seq) == IF condition THEN seq ELSE <<>>

AsSigned(v, size) ==
  IF v % size >= size \div 2 THEN (v % size) - size ELSE v % size

(* The digits of n, the last one first in the source's array; none of 0.   *)
DigitsOf(n, base) ==
  LET digits[d \in 0 .. Long] ==
        IF d = 0 THEN <<>> ELSE Append(digits[d \div base], Digit[(d % base) + 1])
  IN digits[n]

(* Room for a sign in the width; the mutant forgets it.                    *)
NoRoom(v, flags) == 0
SignRoom(v, flags) ==
  IF "signed" \in flags /\ (v < 0 \/ flags \cap {"plus", "space"} # {}) THEN 1 ELSE 0

(* num: sign, prefix, the zeros of the precision and of the padding, and   *)
(* the digits between spaces.  The precision adds zeros whatever the       *)
(* number of digits, and the padding does not count them.                  *)
Num(v, base, flags, width, prec) ==
  LET signed == "signed" \in flags
      magnitude == IF v < 0 /\ signed THEN -v ELSE v % Long
      str == IF v = 0 THEN <<"0">> ELSE DigitsOf(magnitude, base)
      prefix == CASE "prefix" \in flags /\ base = 16 -> <<"0", "x">>
                  [] "prefix" \in flags /\ base = 8 -> <<"0">>
                  [] OTHER -> <<>>
      sign == CASE v < 0 /\ signed -> <<"-">>
                [] v >= 0 /\ "space" \in flags -> <<" ">>
                [] v >= 0 /\ "plus" \in flags /\ "space" \notin flags -> <<"+">>
                [] OTHER -> <<>>
      w == width - (Len(str) + Len(prefix) + SignRoom(v, flags))
  IN If("zero" \notin flags /\ "left" \notin flags, Repeat(w, " "))
       \o sign \o prefix \o Repeat(prec, "0")
       \o If("zero" \in flags, Repeat(w, "0"))
       \o str
       \o If("zero" \notin flags /\ "left" \in flags, Repeat(w, " "))

(* Texts and characters.                                                   *)
Text(str, flags, width) ==
  LET pad == Repeat(width - Len(str), " ")
  IN IF "left" \in flags THEN str \o pad ELSE pad \o str

Base(conv) == CASE conv = "x" -> 16 [] conv = "o" -> 8 [] OTHER -> 10

(* What a directive prints of its argument.                                *)
Convert(d, flags, width, prec, arg) ==
  LET size == CASE d.length = "l" -> Long [] d.length = "h" -> Short [] OTHER -> Int32
  IN CASE d.conv = "s" -> Text(arg, flags, width)
       [] d.conv = "c" -> Text(<<arg>>, flags, width)
       [] d.conv \in {"x", "o", "u"} -> Num(AsSigned(arg % size, Long), Base(d.conv), flags, width, prec)
       [] d.conv = "p" ->
            IF width = None THEN Num(arg % Int32, 16, flags \cup {"zero"}, 8, prec)
            ELSE Num(arg % Int32, 16, flags, width, prec)
       [] d.conv = "d" -> Num(AsSigned(arg, size), 10, flags \cup {"signed"}, width, prec)

(* One item: s has the output, the arguments left, the values stored by n  *)
(* and whether an unknown conversion has ended the call.                   *)
Directive(s, d) ==
  LET wstar == d.width = Star
      pstar == d.prec = Star
      a0 == s.args
      a1 == IF wstar THEN Tail(a0) ELSE a0
      a2 == IF pstar THEN Tail(a1) ELSE a1
      w == IF wstar THEN Head(a0) ELSE d.width
      p == IF pstar THEN Head(a1) ELSE d.prec
      flags == IF wstar /\ w < 0 THEN d.flags \cup {"left"} ELSE d.flags
      width == IF wstar /\ w < 0 THEN -w ELSE w
      prec == IF pstar /\ p < 0 THEN 0 ELSE p
  IN CASE d.conv = "plain" -> [s EXCEPT !.out = Append(@, d.char)]
       [] d.conv = "%" -> [s EXCEPT !.out = Append(@, "%"), !.args = a2]
       [] d.conv = "n" -> [s EXCEPT !.args = Tail(a2), !.stored = Append(@, Len(s.out))]
       [] d.conv \in {"s", "c", "x", "o", "u", "p", "d"} ->
            [s EXCEPT !.out = @ \o Convert(d, flags, width, prec, Head(a2)), !.args = Tail(a2)]
       [] OTHER -> [s EXCEPT !.failed = TRUE]

Item(s, d) == IF s.failed THEN s ELSE Directive(s, d)

(* ssprintf                                                                *)
Ssprintf(fmt, args) ==
  LET after[k \in 0 .. Len(fmt)] ==
        IF k = 0 THEN [out |-> <<>>, args |-> args, stored |-> <<>>, failed |-> FALSE]
        ELSE Item(after[k - 1], fmt[k])
      s == after[Len(fmt)]
  IN [out |-> s.out, stored |-> s.stored, ret |-> IF s.failed THEN -1 ELSE Len(s.out)]
=============================================================================
