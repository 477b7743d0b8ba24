---------------------------- MODULE GdbStubProofs ----------------------------
(***************************************************************************)
(* Proofs about the debugger stub, for any registers, memory, exceptions   *)
(* and requests and a line that spoils one character at most: what the     *)
(* stub carries out is what was asked, once and once more for a fault, and *)
(* the packet taken for the reply is the one of the request.  With two     *)
(* faults a checksum can be wrong in the same way as its packet, and then  *)
(* neither holds.                                                          *)
(***************************************************************************)
EXTENDS GdbStubProps, ListLemmas

(* What can be on the line to the stub.                                    *)
Chars == DOMAIN Ascii
Plain == Chars \ {"$", "#", "bad"}
HexDigits == ToSet(hexchars)

LEMMA HexCharsAre ==
  /\ DOMAIN hexchars = 1 .. 16 /\ HexDigits = {hexchars[k] : k \in 1 .. 16}
  /\ HexDigits = {"0", "1", "2", "3", "4", "5", "6", "7", "8", "9", "a", "b", "c", "d", "e", "f"}
  /\ \A k, l \in 1 .. 16 : hexchars[k] = hexchars[l] => k = l
<1>1. DOMAIN hexchars = 1 .. 16
  BY DEF hexchars
<1>2. /\ hexchars[1] = "0" /\ hexchars[2] = "1" /\ hexchars[3] = "2" /\ hexchars[4] = "3"
      /\ hexchars[5] = "4" /\ hexchars[6] = "5" /\ hexchars[7] = "6" /\ hexchars[8] = "7"
      /\ hexchars[9] = "8" /\ hexchars[10] = "9" /\ hexchars[11] = "a" /\ hexchars[12] = "b"
      /\ hexchars[13] = "c" /\ hexchars[14] = "d" /\ hexchars[15] = "e" /\ hexchars[16] = "f"
  BY DEF hexchars
<1>3. \A k \in 1 .. 16 : k = 1 \/ k = 2 \/ k = 3 \/ k = 4 \/ k = 5 \/ k = 6 \/ k = 7 \/ k = 8
         \/ k = 9 \/ k = 10 \/ k = 11 \/ k = 12 \/ k = 13 \/ k = 14 \/ k = 15 \/ k = 16
  OBVIOUS
<1>4. HexDigits = {hexchars[k] : k \in 1 .. 16}
  BY <1>1 DEF HexDigits, ToSet
<1>5. HexDigits = {"0", "1", "2", "3", "4", "5", "6", "7", "8", "9", "a", "b", "c", "d", "e", "f"}
  BY <1>2, <1>3, <1>4
<1>6. \A k, l \in 1 .. 16 : hexchars[k] = hexchars[l] => k = l
  BY <1>2, <1>3
<1> QED
  BY <1>1, <1>4, <1>5, <1>6

(* The value of a digit is its place.                                      *)
LEMMA HexValueIs ==
  /\ HexValue \in [HexDigits -> 0 .. 15]
  /\ \A k \in 0 .. 15 : hexchars[k + 1] \in HexDigits /\ HexValue[hexchars[k + 1]] = k
<1>1. ASSUME NEW k \in 1 .. 16 PROVE Place(hexchars, hexchars[k]) = k
  BY HexCharsAre DEF Place
<1>2. \A k \in 1 .. 16 : hexchars[k] \in HexDigits /\ HexValue[hexchars[k]] = k - 1
  BY <1>1, HexCharsAre DEF HexValue, HexDigits
<1>3. DOMAIN HexValue = HexDigits /\ HexValue = [ch \in HexDigits |-> HexValue[ch]]
  BY DEF HexValue, HexDigits
<1>4. \A ch \in HexDigits : HexValue[ch] \in 0 .. 15
  BY <1>2, HexCharsAre
<1>5. \A k \in 0 .. 15 : k + 1 \in 1 .. 16 /\ (k + 1) - 1 = k
  OBVIOUS
<1> QED
  BY <1>2, <1>3, <1>4, <1>5

(* The other characters and their codes.                                   *)
LEMMA SignsAre ==
  /\ ToSet(signs) = {signs[k] : k \in 1 .. 16}
  /\ {"$", "#", "+", "-", ":", "bad"} \subseteq ToSet(signs) /\ "NUL" \notin ToSet(signs) /\ "packet" \notin ToSet(signs)
  /\ \A ch \in ToSet(signs) : Place(signs, ch) \in 1 .. 16 /\ signs[Place(signs, ch)] = ch
  /\ \A k \in 1 .. 16 : signs[k] = "bad" <=> k = 16
  /\ codes[16] = 127
  /\ \A k \in 1 .. 15 : codes[k] \in 1 .. 126
<1>1. DOMAIN signs = 1 .. 16
  BY DEF signs
<1>2. /\ signs[1] = "$" /\ signs[2] = "#" /\ signs[3] = "+" /\ signs[4] = ","
      /\ signs[5] = "-" /\ signs[6] = ":" /\ signs[7] = "=" /\ signs[8] = "?"
      /\ signs[9] = "G" /\ signs[10] = "M" /\ signs[11] = "P" /\ signs[12] = "g"
      /\ signs[13] = "k" /\ signs[14] = "m" /\ signs[15] = "s" /\ signs[16] = "bad"
  BY DEF signs
<1>3. /\ codes[1] = 36 /\ codes[2] = 35 /\ codes[3] = 43 /\ codes[4] = 44
      /\ codes[5] = 45 /\ codes[6] = 58 /\ codes[7] = 61 /\ codes[8] = 63
      /\ codes[9] = 71 /\ codes[10] = 77 /\ codes[11] = 80 /\ codes[12] = 103
      /\ codes[13] = 107 /\ codes[14] = 109 /\ codes[15] = 115 /\ codes[16] = 127
  BY DEF codes
<1>4. \A k \in 1 .. 16 : k = 1 \/ k = 2 \/ k = 3 \/ k = 4 \/ k = 5 \/ k = 6 \/ k = 7 \/ k = 8
         \/ k = 9 \/ k = 10 \/ k = 11 \/ k = 12 \/ k = 13 \/ k = 14 \/ k = 15 \/ k = 16
  OBVIOUS
<1>5. ToSet(signs) = {signs[k] : k \in 1 .. 16}
  BY <1>1 DEF ToSet
<1>6. \A ch \in ToSet(signs) : Place(signs, ch) \in 1 .. 16 /\ signs[Place(signs, ch)] = ch
  BY <1>5 DEF Place
<1>7. \A k \in 1 .. 16 : signs[k] = "bad" <=> k = 16
  BY <1>2, <1>4
<1>8. \A k \in 1 .. 15 : codes[k] \in 1 .. 126
  BY <1>3, <1>4
<1>9. {"$", "#", "+", "-", ":", "bad"} \subseteq ToSet(signs)
  <2>1. \A k \in {1, 2, 3, 5, 6, 16} : signs[k] \in ToSet(signs)
    BY <1>5
  <2>2. signs[1] \in ToSet(signs) /\ signs[2] \in ToSet(signs) /\ signs[3] \in ToSet(signs)
        /\ signs[5] \in ToSet(signs) /\ signs[6] \in ToSet(signs) /\ signs[16] \in ToSet(signs)
    BY <2>1
  <2> QED
    BY <1>2, <2>2
<1>10. "NUL" \notin ToSet(signs) /\ "packet" \notin ToSet(signs)
  BY <1>2, <1>4, <1>5
<1> QED
  BY <1>3, <1>5, <1>6, <1>7, <1>8, <1>9, <1>10

LEMMA CharsAre ==
  /\ Chars = HexDigits \cup ToSet(signs)
  /\ \A ch \in Chars \ {"bad"} : Ascii[ch] \in 1 .. 126
  /\ Ascii["bad"] = 127 /\ {"bad", "+", "-", ":", "0", "1", "$", "#"} \subseteq Chars
  /\ \A ch \in HexDigits : ch \notin {"$", "#", "+", "-", ":", "bad", "NUL", "packet"}
  /\ "NUL" \notin Chars /\ "packet" \notin Chars
<1>1. DOMAIN HexValue = HexDigits
  BY HexValueIs
<1>2. Chars = HexDigits \cup ToSet(signs)
  BY <1>1 DEF Chars, Ascii
<1>3. \A ch \in Chars : Ascii[ch] = IF ch \in ToSet(signs) THEN codes[Place(signs, ch)]
                                   ELSE HexValue[ch] + IF HexValue[ch] < 10 THEN 48 ELSE 87
  BY <1>1, <1>2 DEF Ascii
<1>4. \A ch \in HexDigits : ch \notin {"$", "#", "+", "-", ":", "bad", "NUL", "packet"}
  BY HexCharsAre
<1>5. {"bad", "+", "-", ":", "0", "1", "$", "#"} \subseteq Chars /\ "NUL" \notin Chars /\ "packet" \notin Chars
  BY <1>2, HexCharsAre, SignsAre
<1>6. Ascii["bad"] = 127
  BY <1>2, <1>3, <1>5, SignsAre
<1>7. ASSUME NEW ch \in Chars, ch # "bad" PROVE Ascii[ch] \in 1 .. 126
  <2>1. CASE ch \in ToSet(signs)
    <3>1. PICK k \in 1 .. 16 : k = Place(signs, ch) /\ signs[k] = ch
      BY <2>1, SignsAre
    <3>2. k \in 1 .. 15
      BY <1>7, <3>1, SignsAre
    <3>3. Ascii[ch] = codes[k]
      BY <1>3, <2>1, <3>1
    <3> QED
      BY <3>2, <3>3, SignsAre
  <2>2. CASE ch \notin ToSet(signs)
    <3>1. ch \in HexDigits /\ Ascii[ch] = HexValue[ch] + IF HexValue[ch] < 10 THEN 48 ELSE 87
      BY <1>2, <1>3, <2>2
    <3>2. PICK v \in 0 .. 15 : v = HexValue[ch]
      BY <3>1, HexValueIs
    <3> QED
      BY <3>1, <3>2
  <2> QED
    BY <2>1, <2>2
<1> QED
  BY <1>2, <1>4, <1>5, <1>6, <1>7

LEMMA HexIs ==
  /\ \A ch : Hex(ch) \in -1 .. 15
  /\ \A ch \in HexDigits : Hex(ch) = HexValue[ch] /\ Hex(ch) \in 0 .. 15
<1>1. DOMAIN HexValue = HexDigits
  BY HexValueIs
<1>2. \A ch \in HexDigits : Hex(ch) = HexValue[ch] /\ Hex(ch) \in 0 .. 15
  BY <1>1, HexValueIs DEF Hex
<1>3. \A ch : ch \notin HexDigits => Hex(ch) = -1
  BY <1>1 DEF Hex
<1>4. \A ch : Hex(ch) \in -1 .. 15
  BY <1>2, <1>3
<1> QED
  BY <1>2, <1>4

LEMMA ByteIs == \A x, y : Byte(x, y) \in 0 .. 255
<1> SUFFICES ASSUME NEW x, NEW y PROVE Byte(x, y) \in 0 .. 255
  OBVIOUS
<1>1. PICK p \in Int, q \in Int : p = Hex(x) /\ q = Hex(y)
  BY HexIs
<1>2. Byte(x, y) = (16 * p + q) % 256
  BY <1>1 DEF Byte
<1> QED
  BY <1>2

(* A byte and the two digits that spell it.                                *)
LEMMA HexOfIs ==
  ASSUME NEW byte \in 0 .. 255
  PROVE  /\ HexOf(byte) \in Seq(HexDigits) /\ Len(HexOf(byte)) = 2
         /\ 16 * Hex(HexOf(byte)[1]) + Hex(HexOf(byte)[2]) = byte
<1>1. PICK hi \in 0 .. 15, lo \in 0 .. 15 : hi = byte \div 16 /\ lo = byte % 16 /\ 16 * hi + lo = byte
  OBVIOUS
<1>2. HexOf(byte) = <<hexchars[hi + 1], hexchars[lo + 1]>>
  BY <1>1 DEF HexOf
<1>3. PICK a \in HexDigits, b \in HexDigits : a = hexchars[hi + 1] /\ b = hexchars[lo + 1]
  BY HexValueIs
<1>4. HexValue[a] = hi /\ HexValue[b] = lo
  BY <1>3, HexValueIs
<1>5. Hex(a) = hi /\ Hex(b) = lo
  BY <1>4, HexIs
<1>6. HexOf(byte) = <<a, b>>
  BY <1>2, <1>3
<1>7. <<a, b>> \in Seq(HexDigits) /\ Len(<<a, b>>) = 2 /\ <<a, b>>[1] = a /\ <<a, b>>[2] = b
  OBVIOUS
<1> QED
  BY <1>1, <1>5, <1>6, <1>7

(* The checksum of a text, character by character.                         *)
SumsOf(text, sums) ==
  /\ sums \in [0 .. Len(text) -> 0 .. 255] /\ sums[0] = 0
  /\ \A k \in 1 .. Len(text) : sums[k] = (sums[k - 1] + Ascii[text[k]]) % 256

LEMMA ModByte == \A x \in Int : x % 256 \in 0 .. 255
OBVIOUS

LEMMA Joined ==
  ASSUME NEW S, NEW s \in Seq(S), NEW t \in Seq(S)
  PROVE  /\ s \o t \in Seq(S) /\ Len(s \o t) = Len(s) + Len(t)
         /\ \A i \in 1 .. Len(s) : (s \o t)[i] = s[i]
         /\ \A i \in 1 .. Len(t) : (s \o t)[Len(s) + i] = t[i]
<1>1. /\ s \o t \in Seq(S) /\ Len(s \o t) = Len(s) + Len(t)
      /\ \A i \in 1 .. Len(s) + Len(t) : (s \o t)[i] = IF i <= Len(s) THEN s[i] ELSE t[i - Len(s)]
  BY ConcatProperties
<1>2. \A i \in 1 .. Len(t) : Len(s) + i \in 1 .. Len(s) + Len(t) /\ ~(Len(s) + i <= Len(s)) /\ (Len(s) + i) - Len(s) = i
  OBVIOUS
<1>3. \A i \in 1 .. Len(s) : i \in 1 .. Len(s) + Len(t) /\ i <= Len(s)
  OBVIOUS
<1> QED
  BY <1>1, <1>2, <1>3

LEMMA CodesAre == \A ch \in Chars : Ascii[ch] \in Nat
BY CharsAre

LEMMA SumsAre ==
  ASSUME NEW text \in Seq(Chars)
  PROVE  SumsOf(text, Sums(text))
<1> DEFINE n == Len(text)
           S == 0 .. 255
           step == [k \in 1 .. n |-> [x \in S |-> (x + Ascii[text[k]]) % 256]]
           run == LoopRun(n, S, 0, step)
           IsUp(g) == g = [k \in 0 .. n |-> IF k = 0 THEN 0 ELSE (g[k - 1] + Ascii[text[k]]) % 256]
           up == CHOOSE g : IsUp(g)
<1>1. n \in Nat /\ \A k \in 1 .. n : Ascii[text[k]] \in Nat
  BY CodesAre
<1>2. ASSUME NEW k \in 1 .. n, NEW x \in S PROVE (x + Ascii[text[k]]) % 256 \in S
  <2>1. x + Ascii[text[k]] \in Int
    BY <1>1
  <2> QED
    BY <2>1, ModByte
<1> HIDE DEF n
<1>3. step \in [1 .. n -> [S -> S]]
      /\ \A k \in 1 .. n, x \in S : step[k][x] = (x + Ascii[text[k]]) % 256
  BY <1>2
<1> HIDE DEF step
<1>4. run \in [0 .. n -> S] /\ run[0] = 0 /\ \A k \in 1 .. n : run[k] = step[k][run[k - 1]]
  <2>1. 0 \in S
    OBVIOUS
  <2> HIDE DEF S
  <2>2. n \in Nat /\ step \in [1 .. n -> [S -> S]]
    BY <1>1, <1>3
  <2> QED
    BY <2>1, <2>2, RunExists
<1> HIDE DEF run
<1>5. ASSUME NEW k \in 1 .. n PROVE run[k] = (run[k - 1] + Ascii[text[k]]) % 256
  <2>1. run[k - 1] \in S
    <3>1. k - 1 \in 0 .. n
      BY <1>1
    <3> HIDE DEF S
    <3> QED
      BY <1>4, <3>1
  <2> QED
    BY <1>3, <1>4, <2>1
<1>6. IsUp(run)
  <2>1. \A k \in 0 .. n : run[k] = IF k = 0 THEN 0 ELSE (run[k - 1] + Ascii[text[k]]) % 256
    BY <1>1, <1>4, <1>5
  <2>2. run = [k \in 0 .. n |-> run[k]]
    BY <1>4
  <2> QED
    BY <2>1, <2>2
<1>7. IsUp(up)
  <2> HIDE DEF IsUp
  <2> QED
    BY <1>6
<1>8. Sums(text) = up
  BY DEF Sums, n
<1> HIDE DEF up
<1>9. up[0] = 0 /\ \A k \in 1 .. n : up[k] = (up[k - 1] + Ascii[text[k]]) % 256
  BY <1>1, <1>7
<1>10. up = [k \in 0 .. n |-> up[k]]
  BY <1>7
<1> DEFINE T == {k \in 0 .. n : up[k] = run[k]}
<1>11. 0 \in T /\ \A k \in 1 .. n : k - 1 \in T => k \in T
  BY <1>1, <1>4, <1>5, <1>9
<1>12. \A k \in 0 .. n : k \in T
  <2> HIDE DEF T
  <2> QED
    BY <1>1, <1>11, UpTo
<1>13. up \in [0 .. n -> S]
  <2>1. \A k \in 0 .. n : up[k] = run[k]
    BY <1>12
  <2> HIDE DEF T, S
  <2>2. \A k \in 0 .. n : up[k] \in S
    BY <1>4, <2>1
  <2> QED
    BY <1>10, <2>2
<1>14. SumsOf(text, up)
  BY <1>9, <1>13 DEF SumsOf, n
<1> QED
  BY <1>8, <1>14

(* A text and the packet that carries it.                                  *)
IsFrame(f, b) ==
  /\ b \in Seq(Plain) /\ f \in Seq(Chars) /\ Len(f) = Len(b) + 4
  /\ f[1] = "$" /\ f[Len(b) + 2] = "#"
  /\ \A k \in 1 .. Len(b) : f[k + 1] = b[k]
  /\ f[Len(b) + 3] \in HexDigits /\ f[Len(b) + 4] \in HexDigits
  /\ 16 * Hex(f[Len(b) + 3]) + Hex(f[Len(b) + 4]) = Sum(b)

LEMMA FrameIs ==
  ASSUME NEW b \in Seq(Plain)
  PROVE  IsFrame(Frame(b), b)
<1>1. b \in Seq(Chars) /\ Len(b) \in Nat
  <2>1. Plain \subseteq Chars
    BY DEF Plain
  <2> QED
    BY <2>1
<1>2. Sum(b) \in 0 .. 255
  <2>1. SumsOf(b, Sums(b))
    BY <1>1, SumsAre
  <2>2. Len(b) \in 0 .. Len(b)
    BY <1>1
  <2> QED
    BY <2>1, <2>2 DEF Sum, SumsOf
<1>3. PICK d \in Seq(HexDigits) : d = HexOf(Sum(b)) /\ Len(d) = 2 /\ 16 * Hex(d[1]) + Hex(d[2]) = Sum(b)
  BY <1>2, HexOfIs
<1>4. d \in Seq(Chars) /\ d[1] \in HexDigits /\ d[2] \in HexDigits
  <2>1. HexDigits \subseteq Chars
    BY CharsAre
  <2>2. 1 \in 1 .. Len(d) /\ 2 \in 1 .. Len(d)
    BY <1>3
  <2>3. d[1] \in HexDigits /\ d[2] \in HexDigits
    BY <2>2
  <2> QED
    BY <2>1, <2>3
<1>5. <<"$">> \in Seq(Chars) /\ <<"#">> \in Seq(Chars) /\ Len(<<"$">>) = 1 /\ Len(<<"#">>) = 1
      /\ <<"$">>[1] = "$" /\ <<"#">>[1] = "#"
  <2>1. "$" \in Chars /\ "#" \in Chars
    BY CharsAre
  <2> QED
    BY <2>1
<1>6. PICK s \in Seq(Chars) : s = <<"$">> \o b /\ Len(s) = Len(b) + 1 /\ s[1] = "$"
        /\ \A k \in 1 .. Len(b) : s[k + 1] = b[k]
  <2> DEFINE u == <<"$">> \o b
  <2>1. u \in Seq(Chars) /\ Len(u) = 1 + Len(b) /\ (\A i \in 1 .. 1 : u[i] = <<"$">>[i])
        /\ \A i \in 1 .. Len(b) : u[1 + i] = b[i]
    BY <1>1, <1>5, Joined
  <2> HIDE DEF u
  <2>2. Len(u) = Len(b) + 1 /\ u[1] = "$" /\ \A k \in 1 .. Len(b) : u[k + 1] = b[k]
    BY <1>1, <1>5, <2>1
  <2> QED
    BY <2>1, <2>2 DEF u
<1>7. PICK t \in Seq(Chars) : t = s \o <<"#">> /\ Len(t) = Len(b) + 2 /\ t[Len(b) + 2] = "#"
        /\ \A k \in 1 .. Len(b) + 1 : t[k] = s[k]
  <2> DEFINE u == s \o <<"#">>
  <2>1. u \in Seq(Chars) /\ Len(u) = Len(s) + 1 /\ (\A i \in 1 .. Len(s) : u[i] = s[i])
        /\ \A i \in 1 .. 1 : u[Len(s) + i] = <<"#">>[i]
    BY <1>5, Joined
  <2> HIDE DEF u
  <2>2. Len(u) = Len(b) + 2 /\ u[Len(b) + 2] = "#" /\ \A k \in 1 .. Len(b) + 1 : u[k] = s[k]
    BY <1>1, <1>5, <1>6, <2>1
  <2> QED
    BY <2>1, <2>2 DEF u
<1>8. PICK f \in Seq(Chars) : f = t \o d /\ Len(f) = Len(b) + 4
        /\ f[Len(b) + 3] = d[1] /\ f[Len(b) + 4] = d[2] /\ \A k \in 1 .. Len(b) + 2 : f[k] = t[k]
  <2> DEFINE u == t \o d
  <2>1. u \in Seq(Chars) /\ Len(u) = Len(t) + Len(d) /\ (\A i \in 1 .. Len(t) : u[i] = t[i])
        /\ \A i \in 1 .. Len(d) : u[Len(t) + i] = d[i]
    BY <1>4, Joined
  <2> HIDE DEF u
  <2>2. Len(u) = Len(b) + 4 /\ u[Len(b) + 3] = d[1] /\ u[Len(b) + 4] = d[2]
        /\ \A k \in 1 .. Len(b) + 2 : u[k] = t[k]
    BY <1>1, <1>3, <1>7, <2>1
  <2> QED
    BY <2>1, <2>2 DEF u
<1>9. Frame(b) = f
  BY <1>3, <1>6, <1>7, <1>8 DEF Frame
<1>10. f[1] = "$" /\ f[Len(b) + 2] = "#" /\ \A k \in 1 .. Len(b) : f[k + 1] = b[k]
  BY <1>1, <1>6, <1>7, <1>8
<1> QED
  BY <1>3, <1>4, <1>8, <1>9, <1>10 DEF IsFrame

-----------------------------------------------------------------------------
(* The line to the stub.  From place i on it carries what a packet has     *)
(* beyond its first n characters, and then acknowledgements.               *)
Carries(f, s, i, n) ==
  /\ i + Len(f) - n - 1 <= Len(s)
  /\ \A j \in i .. Len(s) :
       IF j - i < Len(f) - n THEN s[j] = f[n + (j - i) + 1] ELSE s[j] \in {"+", "-"}

Dollar(s) == \E i \in 1 .. Len(s) : s[i] = "$"
Whole(f, s) == \A i \in 1 .. Len(s) : s[i] = "$" => Carries(f, s, i, 0)
Garbled(s) == <<"bad">> \o Tail(s)

LEMMA TailIs ==
  ASSUME NEW S, NEW s \in Seq(S), s # <<>>
  PROVE  /\ Tail(s) \in Seq(S) /\ Len(s) \in Nat \ {0} /\ Len(Tail(s)) = Len(s) - 1
         /\ Head(s) = s[1] /\ s[1] \in S
         /\ \A j \in 1 .. Len(s) - 1 : Tail(s)[j] = s[j + 1]
OBVIOUS

LEMMA GarbledIs ==
  ASSUME NEW s \in Seq(Chars), s # <<>>
  PROVE  /\ Garbled(s) \in Seq(Chars) /\ Len(Garbled(s)) = Len(s) /\ Garbled(s)[1] = "bad"
         /\ \A j \in 2 .. Len(s) : Garbled(s)[j] = s[j]
<1>1. Tail(s) \in Seq(Chars) /\ Len(s) \in Nat \ {0} /\ Len(Tail(s)) = Len(s) - 1
      /\ \A j \in 1 .. Len(s) - 1 : Tail(s)[j] = s[j + 1]
  BY TailIs
<1>2. <<"bad">> \in Seq(Chars) /\ Len(<<"bad">>) = 1 /\ <<"bad">>[1] = "bad"
  <2>1. "bad" \in Chars
    BY CharsAre
  <2> QED
    BY <2>1
<1> DEFINE u == <<"bad">> \o Tail(s)
<1>3. u \in Seq(Chars) /\ Len(u) = 1 + Len(Tail(s)) /\ (\A j \in 1 .. 1 : u[j] = <<"bad">>[j])
      /\ \A j \in 1 .. Len(Tail(s)) : u[1 + j] = Tail(s)[j]
  BY <1>1, <1>2, Joined
<1> HIDE DEF u
<1>4. \A j \in 2 .. Len(s) : j - 1 \in 1 .. Len(s) - 1 /\ 1 + (j - 1) = j /\ (j - 1) + 1 = j
  BY <1>1
<1>5. Len(u) = Len(s) /\ u[1] = "bad"
  BY <1>1, <1>2, <1>3
<1>6. \A j \in 1 .. Len(s) - 1 : u[1 + j] = s[j + 1]
  BY <1>1, <1>3
<1>7. \A j \in 2 .. Len(s) : u[j] = s[j]
  BY <1>4, <1>6, Zenon
<1> QED
  BY <1>3, <1>5, <1>7 DEF Garbled, u

LEMMA CarriesTail ==
  ASSUME NEW f \in Seq(Chars), NEW s \in Seq(Chars), NEW i \in Nat, i > 1, NEW n \in 0 .. Len(f),
         s # <<>>, Carries(f, s, i, n)
  PROVE  Carries(f, Tail(s), i - 1, n)
<1>1. Len(s) \in Nat \ {0} /\ Len(Tail(s)) = Len(s) - 1 /\ Len(f) \in Nat
      /\ \A j \in 1 .. Len(s) - 1 : Tail(s)[j] = s[j + 1]
  BY TailIs
<1>2. (i - 1) + Len(f) - n - 1 <= Len(Tail(s))
  BY <1>1 DEF Carries
<1>3. ASSUME NEW j \in i - 1 .. Len(Tail(s))
      PROVE  IF j - (i - 1) < Len(f) - n THEN Tail(s)[j] = f[n + (j - (i - 1)) + 1]
             ELSE Tail(s)[j] \in {"+", "-"}
  <2>1. j + 1 \in i .. Len(s) /\ j \in 1 .. Len(s) - 1 /\ (j + 1) - i = j - (i - 1)
    BY <1>1
  <2>2. IF (j + 1) - i < Len(f) - n THEN s[j + 1] = f[n + ((j + 1) - i) + 1] ELSE s[j + 1] \in {"+", "-"}
    BY <2>1 DEF Carries
  <2> QED
    BY <1>1, <2>1, <2>2
<1> QED
  BY <1>2, <1>3 DEF Carries

LEMMA CarriesNext ==
  ASSUME NEW f \in Seq(Chars), NEW s \in Seq(Chars), NEW i \in Nat \ {0}, NEW n \in 0 .. Len(f) - 1,
         Carries(f, s, i, n)
  PROVE  i \in 1 .. Len(s) /\ s[i] = f[n + 1] /\ Carries(f, s, i + 1, n + 1)
<1>1. Len(s) \in Nat /\ Len(f) \in Nat
  OBVIOUS
<1>2. i \in i .. Len(s) /\ i - i < Len(f) - n /\ n + (i - i) + 1 = n + 1
  BY <1>1 DEF Carries
<1>3. s[i] = f[n + 1]
  BY <1>2 DEF Carries
<1>4. (i + 1) + Len(f) - (n + 1) - 1 <= Len(s)
  BY <1>1 DEF Carries
<1>5. ASSUME NEW j \in i + 1 .. Len(s)
      PROVE  IF j - (i + 1) < Len(f) - (n + 1) THEN s[j] = f[(n + 1) + (j - (i + 1)) + 1] ELSE s[j] \in {"+", "-"}
  <2>1. j \in i .. Len(s) /\ (j - (i + 1) < Len(f) - (n + 1) <=> j - i < Len(f) - n)
        /\ (n + 1) + (j - (i + 1)) + 1 = n + (j - i) + 1
    BY <1>1
  <2>2. IF j - i < Len(f) - n THEN s[j] = f[n + (j - i) + 1] ELSE s[j] \in {"+", "-"}
    BY <2>1 DEF Carries
  <2> QED
    BY <2>1, <2>2
<1> QED
  BY <1>1, <1>2, <1>3, <1>4, <1>5 DEF Carries

(* Reading a character of the packet.                                      *)
LEMMA CarriesRead ==
  ASSUME NEW f \in Seq(Chars), NEW s \in Seq(Chars), NEW n \in 0 .. Len(f) - 1, Carries(f, s, 1, n)
  PROVE  s # <<>> /\ Head(s) = f[n + 1] /\ Carries(f, Tail(s), 1, n + 1)
<1>1. 1 \in 1 .. Len(s) /\ s[1] = f[n + 1] /\ Carries(f, s, 1 + 1, n + 1)
  BY CarriesNext
<1>2. s # <<>>
  BY <1>1
<1>3. Head(s) = s[1]
  BY <1>2
<1>4. Carries(f, Tail(s), 2 - 1, n + 1)
  <2>1. n + 1 \in 0 .. Len(f)
    OBVIOUS
  <2> QED
    BY <1>1, <1>2, <2>1, CarriesTail
<1> QED
  BY <1>1, <1>2, <1>3, <1>4

(* More acknowledgements, or a packet behind a line without one.           *)
LEMMA CarriesAck ==
  ASSUME NEW f \in Seq(Chars), NEW s \in Seq(Chars), NEW i \in Nat \ {0}, NEW n \in 0 .. Len(f),
         Carries(f, s, i, n), NEW ch \in {"+", "-"}
  PROVE  Carries(f, s \o <<ch>>, i, n)
<1> DEFINE u == s \o <<ch>>
<1>1. Len(s) \in Nat /\ Len(f) \in Nat
  OBVIOUS
<1>2. Len(u) = Len(s) + 1 /\ u[Len(s) + 1] = ch /\ \A j \in 1 .. Len(s) : u[j] = s[j]
  OBVIOUS
<1> HIDE DEF u
<1>3. ASSUME NEW j \in i .. Len(u)
      PROVE  IF j - i < Len(f) - n THEN u[j] = f[n + (j - i) + 1] ELSE u[j] \in {"+", "-"}
  <2>1. CASE j = Len(s) + 1
    <3>1. ~(j - i < Len(f) - n)
      BY <1>1, <2>1 DEF Carries
    <3> QED
      BY <1>2, <2>1, <3>1
  <2>2. CASE j # Len(s) + 1
    <3>1. j \in i .. Len(s) /\ j \in 1 .. Len(s)
      BY <1>1, <1>2, <2>2
    <3> QED
      BY <1>2, <3>1 DEF Carries
  <2> QED
    BY <2>1, <2>2
<1>4. i + Len(f) - n - 1 <= Len(u)
  BY <1>1, <1>2 DEF Carries
<1>5. Carries(f, u, i, n)
  BY <1>3, <1>4 DEF Carries
<1> QED
  BY <1>5 DEF u

LEMMA CarriesNew ==
  ASSUME NEW f \in Seq(Chars), NEW s \in Seq(Chars)
  PROVE  Carries(f, s \o f, Len(s) + 1, 0)
<1> DEFINE u == s \o f
<1>1. Len(s) \in Nat /\ Len(f) \in Nat
  OBVIOUS
<1>2. Len(u) = Len(s) + Len(f) /\ \A j \in 1 .. Len(f) : u[Len(s) + j] = f[j]
  BY Joined
<1> HIDE DEF u
<1>3. ASSUME NEW j \in Len(s) + 1 .. Len(u)
      PROVE  j - (Len(s) + 1) < Len(f) - 0 /\ u[j] = f[0 + (j - (Len(s) + 1)) + 1]
  <2>1. PICK k \in 1 .. Len(f) : k = j - Len(s)
    BY <1>1, <1>2
  <2>2. u[j] = f[k]
    <3>1. Len(s) + k = j
      BY <1>1, <2>1
    <3> QED
      BY <1>2, <3>1
  <2>3. 0 + (j - (Len(s) + 1)) + 1 = k /\ j - (Len(s) + 1) < Len(f) - 0
    BY <1>1, <2>1
  <2> QED
    BY <2>2, <2>3
<1>4. (Len(s) + 1) + Len(f) - 0 - 1 <= Len(u)
  BY <1>1, <1>2
<1>5. Carries(f, u, Len(s) + 1, 0)
  BY <1>3, <1>4 DEF Carries
<1> QED
  BY <1>5 DEF u

LEMMA CarriesSame ==
  ASSUME NEW f, NEW s, NEW t, NEW i \in Nat, NEW n,
         Len(t) = Len(s), \A j \in i .. Len(s) : t[j] = s[j], Carries(f, s, i, n)
  PROVE  Carries(f, t, i, n)
BY DEF Carries

(* What does not follow the beginning of a packet.                         *)
LEMMA FrameHas ==
  ASSUME NEW f, NEW b, IsFrame(f, b), NEW k \in 1 .. Len(f)
  PROVE  /\ f[k] = "$" => k = 1
         /\ f[k] = "#" => k = Len(b) + 2
         /\ f[k] = ":" => k \in 2 .. Len(b) + 1 /\ b[k - 1] = ":"
         /\ f[k] \in Chars
<1>1. b \in Seq(Plain) /\ f \in Seq(Chars) /\ Len(b) \in Nat /\ Len(f) = Len(b) + 4
  BY DEF IsFrame
<1>2. f[k] \in Chars
  BY <1>1
<1>3. CASE k = 1
  <2>1. f[k] = "$"
    BY <1>3 DEF IsFrame
  <2> QED
    BY <1>1, <1>2, <1>3, <2>1
<1>4. CASE k \in 2 .. Len(b) + 1
  <2>1. PICK j \in 1 .. Len(b) : j = k - 1
    BY <1>1, <1>4
  <2>2. f[k] = b[j] /\ b[j] \in Plain
    <3>1. j + 1 = k
      BY <1>1, <2>1
    <3>2. f[j + 1] = b[j]
      BY DEF IsFrame
    <3> QED
      BY <1>1, <3>1, <3>2
  <2>3. f[k] # "$" /\ f[k] # "#"
    BY <2>2 DEF Plain
  <2> QED
    BY <1>2, <1>4, <2>1, <2>2, <2>3
<1>5. CASE k = Len(b) + 2
  <2>1. f[k] = "#"
    BY <1>5 DEF IsFrame
  <2> QED
    BY <1>1, <1>2, <1>5, <2>1
<1>6. CASE k = Len(b) + 3 \/ k = Len(b) + 4
  <2>1. f[k] \in HexDigits
    BY <1>6 DEF IsFrame
  <2>2. f[k] # "$" /\ f[k] # "#" /\ f[k] # ":"
    BY <2>1, CharsAre
  <2> QED
    BY <1>2, <2>2
<1> QED
  BY <1>1, <1>3, <1>4, <1>5, <1>6

LEMMA NoDollar ==
  ASSUME NEW f, NEW b, IsFrame(f, b), NEW s \in Seq(Chars), NEW i \in Nat \ {0}, NEW n \in 1 .. Len(f),
         Carries(f, s, i, n), NEW j \in i .. Len(s)
  PROVE  s[j] # "$"
<1>1. f \in Seq(Chars) /\ Len(f) \in Nat /\ Len(s) \in Nat
  BY DEF IsFrame
<1>2. CASE j - i < Len(f) - n
  <2>1. PICK k \in 2 .. Len(f) : k = n + (j - i) + 1
    BY <1>1, <1>2
  <2>2. s[j] = f[k]
    BY <1>2, <2>1 DEF Carries
  <2>3. f[k] # "$"
    <3>1. k \in 1 .. Len(f) /\ k # 1
      BY <1>1, <2>1
    <3> QED
      BY <3>1, FrameHas
  <2> QED
    BY <2>2, <2>3
<1>3. CASE ~(j - i < Len(f) - n)
  <2>1. s[j] \in {"+", "-"}
    BY <1>3 DEF Carries
  <2> QED
    BY <2>1
<1> QED
  BY <1>2, <1>3

(* Behind the "#" there is no other, and no colon.                         *)
LEMMA NoSharp ==
  ASSUME NEW f, NEW b, IsFrame(f, b), NEW s \in Seq(Chars), NEW i \in Nat \ {0},
         NEW n \in Len(b) + 2 .. Len(f), Carries(f, s, i, n), NEW j \in i .. Len(s)
  PROVE  s[j] # "#" /\ s[j] # ":"
<1>1. f \in Seq(Chars) /\ Len(f) \in Nat /\ Len(s) \in Nat /\ Len(b) \in Nat
  BY DEF IsFrame
<1>2. CASE j - i < Len(f) - n
  <2>1. PICK k \in 1 .. Len(f) : k = n + (j - i) + 1 /\ k > Len(b) + 2
    BY <1>1, <1>2
  <2>2. s[j] = f[k]
    BY <1>2, <2>1 DEF Carries
  <2>3. f[k] # "#" /\ f[k] # ":"
    <3>1. k # Len(b) + 2 /\ k \notin 2 .. Len(b) + 1
      BY <1>1, <2>1
    <3> QED
      BY <3>1, FrameHas
  <2> QED
    BY <2>2, <2>3
<1>3. CASE ~(j - i < Len(f) - n)
  <2>1. s[j] \in {"+", "-"}
    BY <1>3 DEF Carries
  <2> QED
    BY <2>1
<1> QED
  BY <1>2, <1>3

(* A line with packets that are all whole has at most one.                 *)
LEMMA WholeOnce ==
  ASSUME NEW f, NEW b, IsFrame(f, b), NEW s \in Seq(Chars), Whole(f, s),
         NEW i \in 1 .. Len(s), s[i] = "$", NEW j \in i + 1 .. Len(s)
  PROVE  s[j] # "$"
<1>1. f \in Seq(Chars) /\ Len(f) \in Nat /\ Len(s) \in Nat /\ Len(b) \in Nat /\ Len(f) = Len(b) + 4
  BY DEF IsFrame
<1>2. Carries(f, s, i, 0)
  BY DEF Whole
<1>3. Carries(f, s, i + 1, 0 + 1)
  <2>1. 0 \in 0 .. Len(f) - 1 /\ i \in Nat \ {0}
    BY <1>1
  <2> QED
    BY <1>1, <1>2, <2>1, CarriesNext
<1> QED
  <2>1. i + 1 \in Nat \ {0} /\ 0 + 1 \in 1 .. Len(f)
    BY <1>1
  <2> QED
    BY <1>3, <2>1, NoDollar

LEMMA WholeTail ==
  ASSUME NEW f \in Seq(Chars), NEW s \in Seq(Chars), Whole(f, s), s # <<>>
  PROVE  Whole(f, Tail(s))
<1>1. Len(s) \in Nat \ {0} /\ Len(Tail(s)) = Len(s) - 1 /\ \A j \in 1 .. Len(s) - 1 : Tail(s)[j] = s[j + 1]
  BY TailIs
<1>2. ASSUME NEW i \in 1 .. Len(Tail(s)), Tail(s)[i] = "$" PROVE Carries(f, Tail(s), i, 0)
  <2>1. PICK j \in 2 .. Len(s) : j = i + 1
    BY <1>1
  <2>2. s[j] = "$" /\ j \in 1 .. Len(s) /\ j - 1 = i /\ j > 1 /\ j \in Nat
    BY <1>1, <1>2, <2>1
  <2>3. Carries(f, s, j, 0)
    BY <2>2 DEF Whole
  <2>4. 0 \in 0 .. Len(f)
    OBVIOUS
  <2>5. Carries(f, Tail(s), j - 1, 0)
    BY <2>2, <2>3, <2>4, CarriesTail
  <2> QED
    BY <2>2, <2>5
<1> QED
  BY <1>2 DEF Whole

LEMMA WholeGarbled ==
  ASSUME NEW f \in Seq(Chars), NEW s \in Seq(Chars), Whole(f, s), s # <<>>
  PROVE  Whole(f, Garbled(s))
<1>1. Len(s) \in Nat \ {0} /\ Len(Garbled(s)) = Len(s) /\ Garbled(s)[1] = "bad"
      /\ \A j \in 2 .. Len(s) : Garbled(s)[j] = s[j]
  BY GarbledIs
<1>2. ASSUME NEW i \in 1 .. Len(Garbled(s)), Garbled(s)[i] = "$" PROVE Carries(f, Garbled(s), i, 0)
  <2>1. i # 1
    BY <1>1, <1>2
  <2>2. i \in 2 .. Len(s) /\ s[i] = "$" /\ i \in 1 .. Len(s) /\ i \in Nat
    BY <1>1, <1>2, <2>1
  <2>3. Carries(f, s, i, 0)
    BY <2>2 DEF Whole
  <2>4. \A j \in i .. Len(s) : Garbled(s)[j] = s[j]
    BY <1>1, <2>2
  <2> QED
    BY <1>1, <2>2, <2>3, <2>4, CarriesSame
<1> QED
  BY <1>2 DEF Whole

LEMMA WholeAck ==
  ASSUME NEW f \in Seq(Chars), NEW s \in Seq(Chars), Whole(f, s), NEW ch \in {"+", "-"}
  PROVE  Whole(f, s \o <<ch>>)
<1> DEFINE u == s \o <<ch>>
<1>1. Len(s) \in Nat /\ Len(u) = Len(s) + 1 /\ u[Len(s) + 1] = ch /\ \A j \in 1 .. Len(s) : u[j] = s[j]
  OBVIOUS
<1>2. ASSUME NEW i \in 1 .. Len(s), s[i] = "$" PROVE Carries(f, u, i, 0)
  <2>1. Carries(f, s, i, 0) /\ i \in Nat \ {0} /\ 0 \in 0 .. Len(f)
    BY <1>2 DEF Whole
  <2> QED
    BY <2>1, CarriesAck
<1> HIDE DEF u
<1>3. ASSUME NEW i \in 1 .. Len(u), u[i] = "$" PROVE Carries(f, u, i, 0)
  <2>1. i # Len(s) + 1
    BY <1>1, <1>3
  <2>2. i \in 1 .. Len(s) /\ s[i] = "$"
    BY <1>1, <1>3, <2>1
  <2> QED
    BY <1>2, <2>2
<1>4. Whole(f, u)
  BY <1>3 DEF Whole
<1> QED
  BY <1>4 DEF u

LEMMA Beyond ==
  ASSUME NEW m \in Nat, NEW n \in Nat, NEW i \in 1 .. m + n, ~(i <= m)
  PROVE  \E j \in 1 .. n : i = m + j
<1>1. i - m \in 1 .. n /\ i = m + (i - m)
  OBVIOUS
<1> QED
  BY <1>1

(* A packet goes onto a line that carries none, whatever was asked before. *)
LEMMA WholeNew ==
  ASSUME NEW f, NEW b, IsFrame(f, b), NEW s \in Seq(Chars), ~Dollar(s)
  PROVE  /\ Whole(f, s \o f) /\ s \o f \in Seq(Chars)
         /\ Len(s \o f) = Len(s) + Len(f) /\ \A j \in 1 .. Len(s) : (s \o f)[j] = s[j]
<1> DEFINE u == s \o f
<1>1. f \in Seq(Chars) /\ Len(s) \in Nat /\ Len(f) = Len(b) + 4 /\ Len(b) \in Nat
  BY DEF IsFrame
<1>2. u \in Seq(Chars) /\ Len(u) = Len(s) + Len(f) /\ (\A j \in 1 .. Len(s) : u[j] = s[j])
      /\ \A j \in 1 .. Len(f) : u[Len(s) + j] = f[j]
  <2>1. s \in Seq(Chars) /\ f \in Seq(Chars)
    BY <1>1
  <2>2. u \in Seq(Chars) /\ Len(u) = Len(s) + Len(f)
    BY <2>1, Joined
  <2>3. \A j \in 1 .. Len(s) : u[j] = s[j]
    BY <2>1, Joined
  <2>4. \A j \in 1 .. Len(f) : u[Len(s) + j] = f[j]
    BY <2>1, Joined
  <2> QED
    BY <2>2, <2>3, <2>4
<1>3. Carries(f, u, Len(s) + 1, 0)
  BY <1>1, CarriesNew
<1> HIDE DEF u
<1>4. ASSUME NEW i \in 1 .. Len(u), u[i] = "$" PROVE i = Len(s) + 1
  <2>1. ~(i <= Len(s))
    <3> SUFFICES ASSUME i <= Len(s) PROVE FALSE
      OBVIOUS
    <3>1. i \in 1 .. Len(s)
      BY <1>1
    <3>2. s[i] = "$"
      BY <1>2, <1>4, <3>1, Zenon
    <3> QED
      BY <3>1, <3>2 DEF Dollar
  <2>2. PICK j \in 1 .. Len(f) : i = Len(s) + j
    <3>1. Len(f) \in Nat /\ i \in 1 .. Len(s) + Len(f)
      BY <1>1, <1>2
    <3> QED
      BY <1>1, <2>1, <3>1, Beyond, Zenon
  <2>3. f[j] = "$"
    BY <1>2, <1>4, <2>2
  <2>4. j = 1
    BY <2>3, FrameHas
  <2> QED
    BY <2>2, <2>4
<1>5. Whole(f, u)
  BY <1>3, <1>4 DEF Whole
<1> QED
  BY <1>2, <1>5 DEF u

-----------------------------------------------------------------------------
(* The line back.                                                          *)
Item(T) == [is : Chars \cup {"packet"}, text : T, good : BOOLEAN]
Answers(h) == \E T : h \in Seq(Item(T))
Verdict == {"+", "-"}

Says(h, ch) == \E i \in 1 .. Len(h) : h[i].is = ch
Single(h) == \A i, j \in 1 .. Len(h) : h[i].is \in Verdict /\ h[j].is \in Verdict => i = j

(* A packet that the debugger will take for the reply, unless it is spoilt.*)
Awaited(h, i, reply) ==
  h[i].is = "packet" /\ (reply \/ \E j \in 1 .. i - 1 : h[j].is = "+")

Current(h, reply, text) == \A i \in 1 .. Len(h) : Awaited(h, i, reply) => h[i].text = text
Old(h, reply) == \A i \in 1 .. Len(h) : ~Awaited(h, i, reply)

LEMMA AnswersTail ==
  ASSUME NEW h, Answers(h), h # <<>>
  PROVE  /\ Answers(Tail(h)) /\ Len(h) \in Nat \ {0} /\ Len(Tail(h)) = Len(h) - 1
         /\ Head(h) = h[1] /\ h[1].is \in Chars \cup {"packet"}
         /\ \A i \in 1 .. Len(h) - 1 : Tail(h)[i] = h[i + 1]
<1>1. PICK T : h \in Seq(Item(T))
  BY DEF Answers
<1>2. /\ Tail(h) \in Seq(Item(T)) /\ Len(h) \in Nat \ {0} /\ Len(Tail(h)) = Len(h) - 1
      /\ Head(h) = h[1] /\ h[1] \in Item(T)
      /\ \A i \in 1 .. Len(h) - 1 : Tail(h)[i] = h[i + 1]
  BY <1>1, TailIs
<1> QED
  BY <1>2 DEF Answers, Item

LEMMA AnswersAppend ==
  ASSUME NEW h, Answers(h), NEW U, NEW e \in Item(U)
  PROVE  /\ Answers(Append(h, e)) /\ Len(h) \in Nat /\ Len(Append(h, e)) = Len(h) + 1
         /\ Append(h, e)[Len(h) + 1] = e
         /\ \A i \in 1 .. Len(h) : Append(h, e)[i] = h[i]
<1>1. PICK T : h \in Seq(Item(T))
  BY DEF Answers
<1> DEFINE S == Item(T \cup U)
<1>2. Item(T) \subseteq S /\ e \in S
  BY DEF Item
<1> HIDE DEF S
<1>3. h \in Seq(S)
  BY <1>1, <1>2
<1>4. Append(h, e) \in Seq(S) /\ Len(h) \in Nat /\ Len(Append(h, e)) = Len(h) + 1
      /\ Append(h, e)[Len(h) + 1] = e
      /\ \A i \in 1 .. Len(h) : Append(h, e)[i] = h[i]
  BY <1>2, <1>3
<1>5. Answers(Append(h, e))
  BY <1>4 DEF S, Answers
<1> QED
  BY <1>4, <1>5

LEMMA AnswersSpoilt ==
  ASSUME NEW h, Answers(h), h # <<>>
  PROVE  LET u == <<Spoilt(Head(h))>> \o Tail(h)
         IN /\ Answers(u) /\ Len(u) = Len(h)
            /\ u[1].is \in {"packet", "bad"}
            /\ u[1].is = "packet" => u[1].is = h[1].is /\ u[1].text = h[1].text
            /\ \A i \in 2 .. Len(h) : u[i] = h[i]
<1>1. PICK T : h \in Seq(Item(T))
  BY DEF Answers
<1>2. /\ Tail(h) \in Seq(Item(T)) /\ Len(h) \in Nat \ {0} /\ Len(Tail(h)) = Len(h) - 1
      /\ Head(h) = h[1] /\ h[1] \in Item(T)
      /\ \A i \in 1 .. Len(h) - 1 : Tail(h)[i] = h[i + 1]
  BY <1>1, TailIs
<1> DEFINE S == Item(T \cup {<<>>})
           e == Spoilt(h[1])
           u == <<e>> \o Tail(h)
<1>3. Item(T) \subseteq S
  BY DEF Item
<1>4. e \in S /\ e.is \in {"packet", "bad"} /\ (e.is = "packet" => e.is = h[1].is /\ e.text = h[1].text)
  <2>1. CASE h[1].is = "packet"
    <3>1. e = [h[1] EXCEPT !.good = FALSE]
      BY <2>1 DEF Spoilt
    <3>2. e \in Item(T) /\ e.is = h[1].is /\ e.text = h[1].text
      BY <1>2, <3>1 DEF Item
    <3> QED
      BY <1>3, <2>1, <3>2
  <2>2. CASE h[1].is # "packet"
    <3>1. e = [is |-> "bad", text |-> <<>>, good |-> TRUE]
      BY <2>2 DEF Spoilt, Char
    <3>2. "bad" \in Chars
      BY CharsAre
    <3> QED
      BY <3>1, <3>2 DEF Item
  <2> QED
    BY <2>1, <2>2
<1> HIDE DEF S, e
<1>5. Tail(h) \in Seq(S) /\ <<e>> \in Seq(S) /\ Len(<<e>>) = 1 /\ <<e>>[1] = e
  BY <1>2, <1>3, <1>4
<1>6. u \in Seq(S) /\ Len(u) = 1 + Len(Tail(h)) /\ (\A i \in 1 .. 1 : u[i] = <<e>>[i])
      /\ \A i \in 1 .. Len(Tail(h)) : u[1 + i] = Tail(h)[i]
  BY <1>5, Joined
<1> HIDE DEF u
<1>7. \A i \in 2 .. Len(h) : i - 1 \in 1 .. Len(h) - 1 /\ 1 + (i - 1) = i /\ (i - 1) + 1 = i
  BY <1>2
<1>8. Len(u) = Len(h) /\ u[1] = e /\ \A i \in 2 .. Len(h) : u[i] = h[i]
  BY <1>2, <1>5, <1>6, <1>7
<1>9. Answers(u)
  BY <1>6 DEF S, Answers
<1>10. u = <<Spoilt(Head(h))>> \o Tail(h)
  BY <1>2 DEF u, e
<1> QED
  BY <1>4, <1>8, <1>9, <1>10

(* A line back that has lost an item or had one spoilt says no more than   *)
(* it did.                                                                 *)
LEMMA FewerAnswers ==
  ASSUME NEW h, NEW u, NEW n \in {0, 1}, Len(h) \in Nat, Len(u) = Len(h) - n,
         \A i \in 1 .. Len(u) : u[i].is \in Verdict \cup {"packet"} =>
                                  u[i].is = h[i + n].is /\ u[i].text = h[i + n].text
  PROVE  /\ Single(h) => Single(u)
         /\ \A ch \in Verdict : Says(u, ch) => Says(h, ch)
         /\ \A reply \in BOOLEAN : \A text : Current(h, reply, text) => Current(u, reply, text)
         /\ \A reply \in BOOLEAN : Old(h, reply) => Old(u, reply)
<1>1. \A i \in 1 .. Len(u) : i + n \in 1 .. Len(h)
  OBVIOUS
<1>2. ASSUME Single(h) PROVE Single(u)
  <2> SUFFICES ASSUME NEW i \in 1 .. Len(u), NEW j \in 1 .. Len(u), u[i].is \in Verdict, u[j].is \in Verdict
               PROVE  i = j
    BY DEF Single
  <2>1. h[i + n].is \in Verdict /\ h[j + n].is \in Verdict /\ i + n \in 1 .. Len(h) /\ j + n \in 1 .. Len(h)
    BY <1>1
  <2>2. i + n = j + n
    BY <1>2, <2>1 DEF Single
  <2> QED
    BY <2>2
<1>3. ASSUME NEW ch \in Verdict, Says(u, ch) PROVE Says(h, ch)
  <2>1. PICK i \in 1 .. Len(u) : u[i].is = ch
    BY <1>3 DEF Says
  <2>2. h[i + n].is = ch /\ i + n \in 1 .. Len(h)
    BY <1>1, <2>1
  <2> QED
    BY <2>2 DEF Says
<1>4. ASSUME NEW reply \in BOOLEAN, NEW i \in 1 .. Len(u), Awaited(u, i, reply)
      PROVE  i + n \in 1 .. Len(h) /\ Awaited(h, i + n, reply) /\ u[i].text = h[i + n].text
  <2>1. h[i + n].is = "packet" /\ u[i].text = h[i + n].text
    BY <1>4 DEF Awaited
  <2>2. CASE reply
    BY <1>1, <2>1, <2>2 DEF Awaited
  <2>3. CASE ~reply
    <3>1. PICK j \in 1 .. i - 1 : u[j].is = "+"
      BY <1>4, <2>3 DEF Awaited
    <3>2. j \in 1 .. Len(u) /\ j + n \in 1 .. (i + n) - 1
      OBVIOUS
    <3>3. h[j + n].is = "+"
      BY <3>1, <3>2 DEF Verdict
    <3> QED
      BY <1>1, <2>1, <3>2, <3>3 DEF Awaited
  <2> QED
    BY <2>2, <2>3
<1>5. ASSUME NEW reply \in BOOLEAN, NEW text, Current(h, reply, text) PROVE Current(u, reply, text)
  BY <1>4, <1>5 DEF Current
<1>6. ASSUME NEW reply \in BOOLEAN, Old(h, reply) PROVE Old(u, reply)
  BY <1>4, <1>6 DEF Old
<1> QED
  BY <1>2, <1>3, <1>5, <1>6

(* An item more.                                                           *)
LEMMA OneMore ==
  ASSUME NEW h, Answers(h), NEW U, NEW e \in Item(U), NEW reply \in BOOLEAN
  PROVE  LET u == Append(h, e)
         IN /\ Answers(u)
            /\ e.is \notin Verdict /\ Single(h) => Single(u)
            /\ ~Says(h, "+") /\ ~Says(h, "-") => Single(u)
            /\ \A ch : Says(u, ch) <=> Says(h, ch) \/ e.is = ch
            /\ \A text : Current(h, reply, text) /\ (e.is = "packet" => e.text = text) => Current(u, reply, text)
            /\ e.is # "packet" /\ Old(h, reply) => Old(u, reply)
<1> DEFINE u == Append(h, e)
<1>1. /\ Answers(u) /\ Len(h) \in Nat /\ Len(u) = Len(h) + 1 /\ u[Len(h) + 1] = e
      /\ \A i \in 1 .. Len(h) : u[i] = h[i]
  BY AnswersAppend
<1> HIDE DEF u
<1>2. \A i \in 1 .. Len(u) : i = Len(h) + 1 \/ i \in 1 .. Len(h)
  BY <1>1
<1>3. Len(h) + 1 \in 1 .. Len(u) /\ \A i \in 1 .. Len(h) : i \in 1 .. Len(u)
  BY <1>1
<1>4. ASSUME e.is \notin Verdict, Single(h) PROVE Single(u)
  BY <1>1, <1>2, <1>4 DEF Single
<1>5. ASSUME ~Says(h, "+"), ~Says(h, "-") PROVE Single(u)
  BY <1>1, <1>2, <1>5 DEF Single, Says, Verdict
<1>6. ASSUME NEW ch PROVE Says(u, ch) <=> Says(h, ch) \/ e.is = ch
  BY <1>1, <1>2, <1>3 DEF Says
<1>7. ASSUME NEW i \in 1 .. Len(h), Awaited(u, i, reply) PROVE Awaited(h, i, reply)
  <2>1. \A j \in 1 .. i - 1 : j \in 1 .. Len(h)
    BY <1>1
  <2> QED
    BY <1>1, <1>7, <2>1 DEF Awaited
<1>8. ASSUME NEW text, Current(h, reply, text), e.is = "packet" => e.text = text PROVE Current(u, reply, text)
  <2> SUFFICES ASSUME NEW i \in 1 .. Len(u), Awaited(u, i, reply) PROVE u[i].text = text
    BY DEF Current
  <2>1. CASE i = Len(h) + 1
    BY <1>1, <1>8, <2>1 DEF Awaited
  <2>2. CASE i \in 1 .. Len(h)
    BY <1>1, <1>7, <1>8, <2>2 DEF Current
  <2> QED
    BY <1>2, <2>1, <2>2
<1>9. ASSUME e.is # "packet", Old(h, reply) PROVE Old(u, reply)
  <2> SUFFICES ASSUME NEW i \in 1 .. Len(u), Awaited(u, i, reply) PROVE FALSE
    BY DEF Old
  <2>1. i # Len(h) + 1
    BY <1>1, <1>9 DEF Awaited
  <2> QED
    BY <1>2, <1>7, <1>9, <2>1 DEF Old
<1>10. /\ Answers(u) /\ (e.is \notin Verdict /\ Single(h) => Single(u))
       /\ (~Says(h, "+") /\ ~Says(h, "-") => Single(u))
       /\ (\A ch : Says(u, ch) <=> Says(h, ch) \/ e.is = ch)
  BY <1>1, <1>4, <1>5, <1>6
<1>11. \A text : Current(h, reply, text) /\ (e.is = "packet" => e.text = text) => Current(u, reply, text)
  BY <1>8
<1>12. e.is # "packet" /\ Old(h, reply) => Old(u, reply)
  BY <1>9
<1> QED
  BY <1>10, <1>11, <1>12, Zenon DEF u

(* The "+" of a request makes the packets behind it the awaited ones.      *)
LEMMA NowAwaited ==
  ASSUME NEW h, Answers(h), h # <<>>, h[1].is = "+"
  PROVE  /\ \A text : Current(h, FALSE, text) => Current(Tail(h), TRUE, text)
         /\ Old(h, FALSE) => Old(Tail(h), TRUE)
<1>1. /\ Len(h) \in Nat \ {0} /\ Len(Tail(h)) = Len(h) - 1
      /\ \A i \in 1 .. Len(h) - 1 : Tail(h)[i] = h[i + 1]
  BY AnswersTail
<1>2. ASSUME NEW i \in 1 .. Len(Tail(h)), Awaited(Tail(h), i, TRUE)
      PROVE  i + 1 \in 1 .. Len(h) /\ Awaited(h, i + 1, FALSE) /\ Tail(h)[i] = h[i + 1]
  <2>1. i + 1 \in 1 .. Len(h) /\ Tail(h)[i] = h[i + 1] /\ 1 \in 1 .. (i + 1) - 1
    BY <1>1
  <2> QED
    BY <1>2, <2>1 DEF Awaited
<1> QED
  BY <1>2 DEF Current, Old

-----------------------------------------------------------------------------
(* The stub within a packet: f is the packet asked, b the text it carries, *)
(* s what is left on the line, and the rest the stub's count, checksum and *)
(* buffer.  Filled: the buffer holds the first k characters of the text.   *)
Filled(b, buf, k) == \A j \in 1 .. k : buf[j - 1] = b[j]

(* Nothing was spoilt so far.                                              *)
OnCourse(f, b, s, cnt, sum, buf) ==
  cnt <= Len(b) /\ sum = Sums(b)[cnt] /\ Filled(b, buf, cnt) /\ Carries(f, s, 1, cnt + 1)

(* A character was lost or garbled: the checksum will tell.                *)
Differs(f, b, s, cnt, sum) ==
  \E n \in 0 .. Len(b) : cnt >= n - 1 /\ sum # Sums(b)[n] /\ Carries(f, s, 1, n + 1)

(* The garbled one is the next to be read.                                 *)
AtBad(f, b, s, cnt, sum) ==
  cnt < Len(b) /\ sum = Sums(b)[cnt] /\ s # <<>> /\ s[1] = "bad" /\ Carries(f, s, 2, cnt + 2)

(* The end of the packet was lost: it goes on until the next one begins.   *)
Unending(s) == \A i \in 1 .. Len(s) : s[i] \in {"#", ":"} => \E j \in 1 .. i - 1 : s[j] = "$"

AtData(f, b, s, cnt, sum, buf, flt) ==
  \/ OnCourse(f, b, s, cnt, sum, buf)
  \/ flt = 1 /\ (Differs(f, b, s, cnt, sum) \/ AtBad(f, b, s, cnt, sum) \/ Unending(s))

Intact(b, cnt, sum, buf) ==
  cnt = Len(b) /\ sum = Sum(b) /\ Filled(b, buf, Len(b)) /\ buf[Len(b)] = "NUL"

AtSum1(f, b, s, cnt, sum, buf, flt) ==
  /\ s # <<>> /\ ~Dollar(s)
  /\ \/ Intact(b, cnt, sum, buf) /\ Len(s) >= 2 - flt
     \/ flt = 1 /\ sum # Sum(b) /\ Carries(f, s, 1, Len(b) + 2)

AtSum2(f, b, s, cnt, sum, buf, x, flt) ==
  /\ \A i \in 2 .. Len(s) : s[i] # "$"
  /\ \/ Intact(b, cnt, sum, buf)
     \/ /\ flt = 1 /\ sum # Sum(b) /\ Carries(f, s, 1, Len(b) + 3)
        /\ x = (16 * Hex(f[Len(b) + 3])) % 256

(* Facts about a packet and its text.                                      *)
LEMMA FrameFacts ==
  ASSUME NEW f, NEW b, IsFrame(f, b)
  PROVE  /\ b \in Seq(Plain) /\ b \in Seq(Chars) /\ f \in Seq(Chars)
         /\ Len(b) \in Nat /\ Len(f) = Len(b) + 4
         /\ SumsOf(b, Sums(b)) /\ Sum(b) = Sums(b)[Len(b)]
         /\ f[1] = "$" /\ f[Len(b) + 2] = "#"
         /\ \A k \in 1 .. Len(b) : f[k + 1] = b[k] /\ b[k] \in Plain
         /\ 16 * Hex(f[Len(b) + 3]) + Hex(f[Len(b) + 4]) = Sum(b)
<1>1. b \in Seq(Plain) /\ f \in Seq(Chars) /\ Len(f) = Len(b) + 4
  BY DEF IsFrame
<1>2. Plain \subseteq Chars
  BY DEF Plain
<1>3. b \in Seq(Chars)
  BY <1>1, <1>2
<1>4. SumsOf(b, Sums(b)) /\ Sum(b) = Sums(b)[Len(b)]
  BY <1>3, SumsAre DEF Sum
<1>5. Len(b) \in Nat /\ \A k \in 1 .. Len(b) : b[k] \in Plain
  BY <1>1
<1> QED
  BY <1>1, <1>3, <1>4, <1>5 DEF IsFrame

(* A packet begins.                                                        *)
LEMMA DataNew ==
  ASSUME NEW f, NEW b, IsFrame(f, b), NEW s \in Seq(Chars), s # <<>>, Head(s) = "$", Whole(f, s), NEW buf
  PROVE  OnCourse(f, b, Tail(s), 0, 0, buf)
<1>1. /\ f \in Seq(Chars) /\ Len(b) \in Nat /\ Len(f) = Len(b) + 4 /\ SumsOf(b, Sums(b))
  BY FrameFacts
<1>2. Len(s) \in Nat \ {0} /\ s[1] = "$"
  BY TailIs
<1>3. Carries(f, s, 1, 0)
  BY <1>2 DEF Whole
<1>4. 0 \in 0 .. Len(f) - 1
  BY <1>1
<1>5. Carries(f, Tail(s), 1, 0 + 1)
  BY <1>1, <1>3, <1>4, CarriesRead
<1> QED
  BY <1>1, <1>5 DEF OnCourse, SumsOf, Filled

(* One more character of it.                                               *)
LEMMA DataOnCourse ==
  ASSUME NEW f, NEW b, IsFrame(f, b), NEW s \in Seq(Chars), NEW cnt \in Nat, NEW sum, NEW buf,
         OnCourse(f, b, s, cnt, sum, buf)
  PROVE  /\ s # <<>> /\ Head(s) = f[cnt + 2] /\ Head(s) # "$"
         /\ Carries(f, Tail(s), 1, cnt + 2)
         /\ IF cnt = Len(b) THEN Head(s) = "#"
            ELSE cnt + 1 \in 1 .. Len(b) /\ Head(s) = b[cnt + 1] /\ Head(s) \in Plain
<1>1. /\ f \in Seq(Chars) /\ Len(b) \in Nat /\ Len(f) = Len(b) + 4
      /\ f[Len(b) + 2] = "#" /\ \A k \in 1 .. Len(b) : f[k + 1] = b[k] /\ b[k] \in Plain
  BY FrameFacts
<1>2. cnt <= Len(b) /\ Carries(f, s, 1, cnt + 1) /\ cnt + 1 \in 0 .. Len(f) - 1
  BY <1>1 DEF OnCourse
<1>3. s # <<>> /\ Head(s) = f[(cnt + 1) + 1] /\ Carries(f, Tail(s), 1, (cnt + 1) + 1)
  BY <1>1, <1>2, CarriesRead
<1>4. (cnt + 1) + 1 = cnt + 2
  OBVIOUS
<1>5. CASE cnt = Len(b)
  BY <1>1, <1>3, <1>4, <1>5
<1>6. CASE cnt # Len(b)
  <2>1. PICK k \in 1 .. Len(b) : k = cnt + 1
    BY <1>1, <1>2, <1>6
  <2>2. f[k + 1] = b[k] /\ b[k] \in Plain /\ k + 1 = cnt + 2
    BY <1>1, <2>1
  <2> QED
    BY <1>3, <1>4, <1>6, <2>1, <2>2 DEF Plain
<1> QED
  BY <1>5, <1>6

LEMMA DataDiffers ==
  ASSUME NEW f, NEW b, IsFrame(f, b), NEW s \in Seq(Chars), NEW n \in 0 .. Len(b), Carries(f, s, 1, n + 1)
  PROVE  /\ s # <<>> /\ Head(s) = f[n + 2] /\ Head(s) # "$"
         /\ Carries(f, Tail(s), 1, n + 2)
         /\ IF n = Len(b) THEN Head(s) = "#"
            ELSE n + 1 \in 1 .. Len(b) /\ Head(s) = b[n + 1] /\ Head(s) \in Plain
<1>1. OnCourse(f, b, s, n, Sums(b)[n], [j \in 0 .. n |-> b[j + 1]])
  <2>1. Len(b) \in Nat
    BY FrameFacts
  <2>2. \A j \in 1 .. n : j - 1 \in 0 .. n /\ (j - 1) + 1 = j
    BY <2>1
  <2> QED
    BY <2>1, <2>2 DEF OnCourse, Filled
<1>2. n \in Nat
  BY FrameFacts
<1> QED
  BY <1>1, <1>2, DataOnCourse

(* Bytes that add up differently.                                          *)
Adds(x, c) == (x + c) % 256

LEMMA AddByte ==
  ASSUME NEW x \in 0 .. 255, NEW y \in 0 .. 255, NEW c \in Nat, x # y
  PROVE  Adds(x, c) # Adds(y, c)
BY DEF Adds

LEMMA AddCode ==
  ASSUME NEW x \in 0 .. 255, NEW c \in 1 .. 126
  PROVE  (x + c) % 256 # x /\ (x + 127) % 256 # (x + c) % 256
OBVIOUS

(* One more character of a text is counted.                                *)
SumStep(b, n) ==
  /\ Sums(b)[n] \in 0 .. 255
  /\ n + 1 <= Len(b) => /\ Sums(b)[n + 1] = (Sums(b)[n] + Ascii[b[n + 1]]) % 256
                        /\ Ascii[b[n + 1]] \in 1 .. 126

LEMMA SumNext ==
  ASSUME NEW f, NEW b, IsFrame(f, b), NEW n \in 0 .. Len(b)
  PROVE  SumStep(b, n)
<1>1. Len(b) \in Nat /\ SumsOf(b, Sums(b)) /\ \A k \in 1 .. Len(b) : b[k] \in Plain
  BY FrameFacts
<1>2. Sums(b)[n] \in 0 .. 255
  BY <1>1 DEF SumsOf
<1>3. ASSUME n + 1 <= Len(b)
      PROVE  Sums(b)[n + 1] = (Sums(b)[n] + Ascii[b[n + 1]]) % 256 /\ Ascii[b[n + 1]] \in 1 .. 126
  <2>1. PICK k \in 1 .. Len(b) : k = n + 1 /\ k - 1 = n
    BY <1>1, <1>3
  <2>2. Sums(b)[k] = (Sums(b)[k - 1] + Ascii[b[k]]) % 256
    BY <1>1 DEF SumsOf
  <2>3. b[k] \in Chars \ {"bad"}
    BY <1>1 DEF Plain
  <2> QED
    BY <2>1, <2>2, <2>3, CharsAre
<1> QED
  BY <1>2, <1>3 DEF SumStep

LEMMA UnendingTail ==
  ASSUME NEW s \in Seq(Chars), s # <<>>, Head(s) # "$", Unending(s)
  PROVE  Unending(Tail(s)) /\ Head(s) \notin {"#", ":"}
<1>1. /\ Len(s) \in Nat \ {0} /\ Len(Tail(s)) = Len(s) - 1 /\ Head(s) = s[1]
      /\ \A j \in 1 .. Len(s) - 1 : Tail(s)[j] = s[j + 1]
  BY TailIs
<1>2. Head(s) \notin {"#", ":"}
  <2>1. 1 \in 1 .. Len(s) /\ ~ \E j \in 1 .. 1 - 1 : s[j] = "$"
    BY <1>1
  <2> QED
    BY <1>1, <2>1 DEF Unending
<1>3. ASSUME NEW i \in 1 .. Len(Tail(s)), Tail(s)[i] \in {"#", ":"}
      PROVE  \E j \in 1 .. i - 1 : Tail(s)[j] = "$"
  <2>1. i \in Nat /\ i + 1 \in 1 .. Len(s) /\ s[i + 1] \in {"#", ":"}
    BY <1>1, <1>3
  <2>2. PICK j \in 1 .. (i + 1) - 1 : s[j] = "$"
    BY <2>1 DEF Unending
  <2>3. j # 1
    BY <1>1, <2>2
  <2>4. PICK k \in 1 .. i - 1 : k + 1 = j /\ k \in 1 .. Len(s) - 1
    BY <1>1, <2>1, <2>2, <2>3
  <2> QED
    BY <1>1, <2>2, <2>4
<1> QED
  BY <1>2, <1>3 DEF Unending

LEMMA DataChar ==
  ASSUME NEW f, NEW b, IsFrame(f, b), NEW s \in Seq(Chars), NEW cnt \in Nat, NEW sum \in 0 .. 255,
         NEW buf, NEW flt, AtData(f, b, s, cnt, sum, buf, flt),
         s # <<>>, Head(s) \notin {"$", "#"},
         NEW buf2, \A j \in 0 .. cnt - 1 : buf2[j] = buf[j], buf2[cnt] = Head(s)
  PROVE  AtData(f, b, Tail(s), cnt + 1, (sum + Ascii[Head(s)]) % 256, buf2, flt)
<1>1. Len(b) \in Nat
  BY FrameFacts
<1>2. CASE OnCourse(f, b, s, cnt, sum, buf)
  <2>1. cnt # Len(b) /\ cnt + 1 \in 1 .. Len(b) /\ Head(s) = b[cnt + 1] /\ Carries(f, Tail(s), 1, cnt + 2)
    BY <1>2, DataOnCourse
  <2>2. cnt \in 0 .. Len(b) /\ sum = Sums(b)[cnt] /\ Filled(b, buf, cnt)
    BY <1>1, <1>2 DEF OnCourse
  <2>3. Sums(b)[cnt + 1] = (sum + Ascii[Head(s)]) % 256
    <3>1. SumStep(b, cnt)
      BY <2>2, SumNext
    <3>2. cnt + 1 <= Len(b)
      BY <1>1, <2>1
    <3> QED
      BY <2>1, <2>2, <3>1, <3>2 DEF SumStep
  <2>4. Filled(b, buf2, cnt + 1)
    <3> SUFFICES ASSUME NEW j \in 1 .. cnt + 1 PROVE buf2[j - 1] = b[j]
      BY DEF Filled
    <3>1. CASE j = cnt + 1
      BY <2>1, <3>1
    <3>2. CASE j # cnt + 1
      BY <2>2, <3>2 DEF Filled
    <3> QED
      BY <3>1, <3>2
  <2>5. (cnt + 1) + 1 = cnt + 2
    OBVIOUS
  <2>6. OnCourse(f, b, Tail(s), cnt + 1, (sum + Ascii[Head(s)]) % 256, buf2)
    BY <1>1, <2>1, <2>3, <2>4, <2>5 DEF OnCourse
  <2> QED
    BY <2>6 DEF AtData
<1>3. CASE flt = 1 /\ Differs(f, b, s, cnt, sum)
  <2>1. PICK n \in 0 .. Len(b) : cnt >= n - 1 /\ sum # Sums(b)[n] /\ Carries(f, s, 1, n + 1)
    BY <1>3 DEF Differs
  <2>2. n # Len(b) /\ n + 1 \in 1 .. Len(b) /\ Head(s) = b[n + 1] /\ Carries(f, Tail(s), 1, n + 2)
    <3>1. /\ Carries(f, Tail(s), 1, n + 2)
          /\ IF n = Len(b) THEN Head(s) = "#"
              ELSE n + 1 \in 1 .. Len(b) /\ Head(s) = b[n + 1] /\ Head(s) \in Plain
      BY <2>1, DataDiffers, Zenon
    <3> QED
      BY <3>1
  <2>3. PICK y \in 0 .. 255, c \in 1 .. 126 :
          y = Sums(b)[n] /\ c = Ascii[Head(s)] /\ Sums(b)[n + 1] = (y + c) % 256
    <3>1. n + 1 <= Len(b)
      BY <1>1, <2>2
    <3>2. SumStep(b, n)
      BY SumNext
    <3>3. /\ Sums(b)[n] \in 0 .. 255 /\ Ascii[b[n + 1]] \in 1 .. 126
          /\ Sums(b)[n + 1] = (Sums(b)[n] + Ascii[b[n + 1]]) % 256
      BY <3>1, <3>2 DEF SumStep
    <3> QED
      BY <2>2, <3>3
  <2>4. (sum + Ascii[Head(s)]) % 256 # Sums(b)[n + 1]
    <3>1. sum # y
      BY <2>1, <2>3, Zenon
    <3>2. c \in Nat
      OBVIOUS
    <3>3. sum \in 0 .. 255 /\ y \in 0 .. 255
      OBVIOUS
    <3>4. Adds(sum, c) # Adds(y, c)
      BY <3>1, <3>2, <3>3, AddByte, Zenon
    <3> QED
      BY <2>3, <3>4 DEF Adds
  <2>5. n + 1 \in 0 .. Len(b) /\ cnt + 1 >= (n + 1) - 1 /\ (n + 1) + 1 = n + 2
    BY <1>1, <2>1, <2>2
  <2>6. Differs(f, b, Tail(s), cnt + 1, (sum + Ascii[Head(s)]) % 256)
    BY <2>2, <2>4, <2>5 DEF Differs
  <2> QED
    BY <1>3, <2>6 DEF AtData
<1>4. CASE flt = 1 /\ AtBad(f, b, s, cnt, sum)
  <2>1. cnt \in 0 .. Len(b) /\ cnt + 1 \in 0 .. Len(b) /\ sum = Sums(b)[cnt] /\ s[1] = "bad" /\ Carries(f, s, 2, cnt + 2)
    BY <1>1, <1>4 DEF AtBad
  <2>2. Head(s) = "bad" /\ Ascii[Head(s)] = 127
    BY <2>1, CharsAre
  <2>3. PICK c \in 1 .. 126 : Sums(b)[cnt + 1] = (sum + c) % 256
    <3>1. cnt + 1 <= Len(b)
      BY <1>1, <2>1
    <3>2. Ascii[b[cnt + 1]] \in 1 .. 126 /\ Sums(b)[cnt + 1] = (Sums(b)[cnt] + Ascii[b[cnt + 1]]) % 256
      <4>1. SumStep(b, cnt)
        BY <2>1, SumNext
      <4> QED
        BY <3>1, <4>1 DEF SumStep
    <3> QED
      BY <2>1, <3>2
  <2>4. (sum + Ascii[Head(s)]) % 256 # Sums(b)[cnt + 1]
    <3>1. (sum + 127) % 256 # (sum + c) % 256
      BY <2>3, AddCode
    <3> QED
      BY <2>2, <2>3, <3>1
  <2>5. Carries(f, Tail(s), 1, (cnt + 1) + 1)
    <3>1. f \in Seq(Chars) /\ cnt + 2 \in 0 .. Len(f)
      BY <1>1, <2>1, FrameFacts
    <3>2. Carries(f, Tail(s), 2 - 1, cnt + 2)
      <4>1. 2 \in Nat /\ 2 > 1
        OBVIOUS
      <4> QED
        BY <2>1, <3>1, <4>1, CarriesTail
    <3> QED
      BY <3>2
  <2>6. Differs(f, b, Tail(s), cnt + 1, (sum + Ascii[Head(s)]) % 256)
    <3>1. cnt + 1 >= (cnt + 1) - 1
      OBVIOUS
    <3> QED
      BY <2>1, <2>4, <2>5, <3>1 DEF Differs
  <2> QED
    BY <1>4, <2>6 DEF AtData
<1>5. CASE flt = 1 /\ Unending(s)
  BY <1>5, UnendingTail DEF AtData
<1> QED
  BY <1>2, <1>3, <1>4, <1>5 DEF AtData

(* A ":" in the data is one of the text, at most a place behind.           *)
LEMMA DataColon ==
  ASSUME NEW f, NEW b, IsFrame(f, b), NEW s \in Seq(Chars), NEW cnt \in Nat, NEW sum,
         NEW buf, NEW flt, AtData(f, b, s, cnt, sum, buf, flt), s # <<>>, Head(s) = ":"
  PROVE  \E k \in 1 .. cnt + 2 : k \in 1 .. Len(b) /\ b[k] = ":"
<1>1. Len(b) \in Nat
  BY FrameFacts
<1>2. CASE OnCourse(f, b, s, cnt, sum, buf)
  <2>1. cnt # Len(b) /\ cnt + 1 \in 1 .. Len(b) /\ Head(s) = b[cnt + 1]
    BY <1>2, DataOnCourse
  <2>2. cnt + 1 \in 1 .. cnt + 2
    OBVIOUS
  <2> QED
    BY <2>1, <2>2
<1>3. CASE Differs(f, b, s, cnt, sum)
  <2>1. PICK n \in 0 .. Len(b) : cnt >= n - 1 /\ Carries(f, s, 1, n + 1)
    BY <1>3 DEF Differs
  <2>2. n # Len(b) /\ n + 1 \in 1 .. Len(b) /\ Head(s) = b[n + 1]
    BY <2>1, DataDiffers
  <2>3. n + 1 \in 1 .. cnt + 2
    BY <1>1, <2>1
  <2> QED
    BY <2>2, <2>3
<1>4. CASE AtBad(f, b, s, cnt, sum)
  BY <1>4 DEF AtBad
<1>5. CASE Unending(s)
  <2>1. s # <<>> /\ Head(s) # "$" /\ Head(s) = ":"
    OBVIOUS
  <2> QED
    BY <1>5, <2>1, UnendingTail
<1> QED
  BY <1>2, <1>3, <1>4, <1>5 DEF AtData

(* The end of the text.                                                    *)
LEMMA CarriesLength ==
  ASSUME NEW f \in Seq(Chars), NEW s \in Seq(Chars), NEW n \in Nat, Carries(f, s, 1, n)
  PROVE  Len(s) \in Nat /\ Len(f) - n <= Len(s)
BY DEF Carries

LEMMA DataEnd ==
  ASSUME NEW f, NEW b, IsFrame(f, b), NEW s \in Seq(Chars), NEW cnt \in Nat, NEW sum,
         NEW buf, NEW flt \in {0, 1}, AtData(f, b, s, cnt, sum, buf, flt),
         s # <<>>, Head(s) = "#",
         NEW buf2, \A j \in 0 .. cnt - 1 : buf2[j] = buf[j], buf2[cnt] = "NUL"
  PROVE  AtSum1(f, b, Tail(s), cnt, sum, buf2, flt)
<1>1. Len(b) \in Nat /\ f \in Seq(Chars) /\ Len(f) = Len(b) + 4 /\ Sum(b) = Sums(b)[Len(b)]
  BY FrameFacts
<1>2. Tail(s) \in Seq(Chars)
  BY TailIs
<1>3. ASSUME Carries(f, Tail(s), 1, Len(b) + 2)
      PROVE  Len(Tail(s)) \in Nat /\ Len(Tail(s)) >= 2 /\ Tail(s) # <<>> /\ ~Dollar(Tail(s))
  <2>1. Len(Tail(s)) \in Nat /\ Len(f) - (Len(b) + 2) <= Len(Tail(s))
    <3>1. Len(b) + 2 \in Nat
      BY <1>1
    <3> QED
      BY <1>1, <1>2, <1>3, <3>1, CarriesLength
  <2>2. \A j \in 1 .. Len(Tail(s)) : Tail(s)[j] # "$"
    <3>1. Len(b) + 2 \in 1 .. Len(f) /\ 1 \in Nat \ {0}
      BY <1>1
    <3> QED
      BY <1>2, <1>3, <3>1, NoDollar
  <2>3. Len(Tail(s)) >= 2
    BY <1>1, <2>1
  <2>4. Tail(s) # <<>>
    <3>1. Len(<<>>) = 0
      BY EmptyList
    <3>2. Len(Tail(s)) # 0
      <4>1. \A k \in Nat : k >= 2 => k # 0
        OBVIOUS
      <4> QED
        BY <2>1, <2>3, <4>1, Zenon
    <3> QED
      BY <3>1, <3>2, Zenon
  <2> QED
    BY <2>1, <2>2, <2>3, <2>4 DEF Dollar
<1>4. CASE OnCourse(f, b, s, cnt, sum, buf)
  <2>1. cnt = Len(b)
    <3>1. cnt # Len(b) => Head(s) \in Plain
      BY <1>4, DataOnCourse
    <3> QED
      BY <3>1 DEF Plain
  <2>2. Carries(f, Tail(s), 1, Len(b) + 2)
    BY <1>4, <2>1, DataOnCourse
  <2>3. sum = Sum(b) /\ Filled(b, buf2, Len(b))
    BY <1>1, <1>4, <2>1 DEF OnCourse, Filled
  <2>4. Intact(b, cnt, sum, buf2)
    BY <2>1, <2>3 DEF Intact
  <2>5. Len(Tail(s)) >= 2 - flt /\ Tail(s) # <<>>
    BY <1>3, <2>2
  <2> QED
    BY <1>3, <2>2, <2>4, <2>5 DEF AtSum1
<1>5. CASE flt = 1 /\ Differs(f, b, s, cnt, sum)
  <2>1. PICK n \in 0 .. Len(b) : sum # Sums(b)[n] /\ Carries(f, s, 1, n + 1)
    BY <1>5 DEF Differs
  <2>2. n = Len(b)
    <3>1. n # Len(b) => Head(s) \in Plain
      BY <2>1, DataDiffers
    <3> QED
      BY <3>1 DEF Plain
  <2>3. Carries(f, Tail(s), 1, Len(b) + 2)
    BY <2>1, <2>2, DataDiffers
  <2> QED
    BY <1>1, <1>3, <1>5, <2>1, <2>2, <2>3 DEF AtSum1
<1>6. CASE flt = 1 /\ AtBad(f, b, s, cnt, sum)
  BY <1>6 DEF AtBad
<1>7. CASE flt = 1 /\ Unending(s)
  <2>1. Head(s) # "$"
    OBVIOUS
  <2> QED
    BY <1>7, <2>1, UnendingTail
<1> QED
  BY <1>4, <1>5, <1>6, <1>7 DEF AtData

(* The two characters of the checksum.                                     *)
LEMMA SumFirst ==
  ASSUME NEW f, NEW b, IsFrame(f, b), NEW s \in Seq(Chars), NEW cnt, NEW sum, NEW buf, NEW flt,
         AtSum1(f, b, s, cnt, sum, buf, flt)
  PROVE  AtSum2(f, b, Tail(s), cnt, sum, buf, (16 * Hex(Head(s))) % 256, flt) /\ ~Dollar(Tail(s))
<1>1. Len(b) \in Nat /\ f \in Seq(Chars) /\ Len(f) = Len(b) + 4
  BY FrameFacts
<1>2. s # <<>> /\ ~Dollar(s)
  BY DEF AtSum1
<1>3. /\ Len(s) \in Nat \ {0} /\ Len(Tail(s)) = Len(s) - 1
      /\ \A j \in 1 .. Len(s) - 1 : Tail(s)[j] = s[j + 1]
  BY <1>2, TailIs
<1>4. \A i \in 1 .. Len(Tail(s)) : Tail(s)[i] # "$"
  BY <1>2, <1>3 DEF Dollar
<1>5. \A i \in 2 .. Len(Tail(s)) : Tail(s)[i] # "$"
  BY <1>3, <1>4
<1>6. CASE Intact(b, cnt, sum, buf)
  BY <1>4, <1>5, <1>6 DEF AtSum2, Dollar
<1>7. CASE flt = 1 /\ sum # Sum(b) /\ Carries(f, s, 1, Len(b) + 2)
  <2>1. Len(b) + 2 \in 0 .. Len(f) - 1 /\ (Len(b) + 2) + 1 = Len(b) + 3
    BY <1>1
  <2>2. Head(s) = f[(Len(b) + 2) + 1] /\ Carries(f, Tail(s), 1, (Len(b) + 2) + 1)
    BY <1>1, <1>7, <2>1, CarriesRead
  <2> QED
    BY <1>4, <1>5, <1>7, <2>1, <2>2 DEF AtSum2, Dollar
<1> QED
  BY <1>6, <1>7 DEF AtSum1

TwoDigits(h, l) == (((16 * h) % 256) + l) % 256

LEMMA TwoHex ==
  ASSUME NEW h \in Int, NEW l \in Int, 16 * h + l \in 0 .. 255
  PROVE  TwoDigits(h, l) = 16 * h + l
BY DEF TwoDigits

LEMMA SumSecond ==
  ASSUME NEW f, NEW b, IsFrame(f, b), NEW s \in Seq(Chars), s # <<>>,
         NEW cnt, NEW sum, NEW buf, NEW x, NEW flt,
         AtSum2(f, b, s, cnt, sum, buf, x, flt)
  PROVE  /\ ~Dollar(Tail(s))
         /\ (x + Hex(Head(s))) % 256 = sum => Intact(b, cnt, sum, buf)
<1>1. Len(b) \in Nat /\ f \in Seq(Chars) /\ Len(f) = Len(b) + 4
  BY FrameFacts
<1>2. /\ Len(s) \in Nat \ {0} /\ Len(Tail(s)) = Len(s) - 1
      /\ \A j \in 1 .. Len(s) - 1 : Tail(s)[j] = s[j + 1]
  BY TailIs
<1>3. ~Dollar(Tail(s))
  BY <1>2 DEF Dollar, AtSum2
<1>4. ASSUME sum # Sum(b), Carries(f, s, 1, Len(b) + 3), x = (16 * Hex(f[Len(b) + 3])) % 256
      PROVE  (x + Hex(Head(s))) % 256 # sum
  <2>1. Len(b) + 3 \in 0 .. Len(f) - 1 /\ (Len(b) + 3) + 1 = Len(b) + 4
    BY <1>1
  <2>2. Head(s) = f[Len(b) + 4]
    BY <1>1, <1>4, <2>1, CarriesRead
  <2>3. PICK h \in Int, l \in Int : h = Hex(f[Len(b) + 3]) /\ l = Hex(f[Len(b) + 4])
    <3>1. Hex(f[Len(b) + 3]) \in Int /\ Hex(f[Len(b) + 4]) \in Int
      BY HexIs
    <3> QED
      BY <3>1
  <2>4. 16 * h + l = Sum(b)
    BY <2>3, FrameFacts
  <2>5. Sum(b) \in 0 .. 255
    <3>1. Len(b) \in 0 .. Len(b) /\ Sum(b) = Sums(b)[Len(b)]
      BY <1>1, FrameFacts
    <3>2. SumStep(b, Len(b))
      BY <3>1, SumNext
    <3> QED
      BY <3>1, <3>2 DEF SumStep
  <2>6. (((16 * h) % 256) + l) % 256 = Sum(b)
    <3>1. TwoDigits(h, l) = 16 * h + l
      BY <2>4, <2>5, TwoHex
    <3> QED
      BY <2>4, <3>1 DEF TwoDigits
  <2> QED
    BY <1>4, <2>2, <2>3, <2>6
<1> QED
  BY <1>3, <1>4 DEF AtSum2

(* The debugger's acknowledgements disturb nothing.                        *)
LEMMA AckIs ==
  ASSUME NEW s \in Seq(Chars), NEW ch \in {"+", "-"}
  PROVE  /\ s \o <<ch>> \in Seq(Chars) /\ Len(s) \in Nat /\ Len(s \o <<ch>>) = Len(s) + 1
         /\ s \o <<ch>> # <<>>
         /\ \A i \in 1 .. Len(s) : (s \o <<ch>>)[i] = s[i]
         /\ (s \o <<ch>>)[Len(s) + 1] = ch
         /\ Dollar(s \o <<ch>>) => Dollar(s)
<1> DEFINE u == s \o <<ch>>
<1>1. ch \in Chars /\ ch # "$"
  BY CharsAre
<1>2. PICK t \in Seq(Chars) : t = <<ch>> /\ Len(t) = 1 /\ t[1] = ch
  <2>1. <<ch>> \in Seq(Chars) /\ Len(<<ch>>) = 1 /\ <<ch>>[1] = ch
    BY <1>1
  <2> QED
    BY <2>1
<1>3. /\ s \o t \in Seq(Chars) /\ Len(s \o t) = Len(s) + Len(t)
      /\ \A i \in 1 .. Len(s) : (s \o t)[i] = s[i]
      /\ \A i \in 1 .. Len(t) : (s \o t)[Len(s) + i] = t[i]
  BY Joined
<1>4. u = s \o t
  BY <1>2
<1> HIDE DEF u
<1>5. /\ u \in Seq(Chars) /\ Len(s) \in Nat /\ Len(u) = Len(s) + 1
      /\ \A i \in 1 .. Len(s) : u[i] = s[i]
      /\ u[Len(s) + 1] = ch
  BY <1>2, <1>3, <1>4
<1>6. u # <<>>
  BY <1>5
<1>7. Dollar(u) => Dollar(s)
  <2> SUFFICES ASSUME NEW i \in 1 .. Len(u), u[i] = "$" PROVE Dollar(s)
    BY DEF Dollar
  <2>1. i \in 1 .. Len(s)
    BY <1>1, <1>5
  <2> QED
    BY <1>5, <2>1 DEF Dollar
<1> QED
  BY <1>5, <1>6, <1>7 DEF u

LEMMA DataAck ==
  ASSUME NEW f, NEW b, IsFrame(f, b), NEW s \in Seq(Chars), NEW ch \in {"+", "-"},
         NEW cnt \in Nat, NEW sum, NEW buf, NEW flt, AtData(f, b, s, cnt, sum, buf, flt)
  PROVE  AtData(f, b, s \o <<ch>>, cnt, sum, buf, flt)
<1> DEFINE u == s \o <<ch>>
<1>1. Len(b) \in Nat /\ f \in Seq(Chars) /\ Len(f) = Len(b) + 4
  BY FrameFacts
<1>2. ASSUME NEW i \in Nat \ {0}, NEW n \in 0 .. Len(f), Carries(f, s, i, n)
      PROVE  Carries(f, u, i, n)
  BY <1>1, <1>2, CarriesAck
<1>3. /\ u \in Seq(Chars) /\ Len(s) \in Nat /\ Len(u) = Len(s) + 1 /\ u # <<>>
      /\ \A i \in 1 .. Len(s) : u[i] = s[i]
      /\ u[Len(s) + 1] = ch
  BY AckIs
<1> HIDE DEF u
<1>4. CASE OnCourse(f, b, s, cnt, sum, buf)
  <2>1. cnt + 1 \in 0 .. Len(f) /\ Carries(f, s, 1, cnt + 1) /\ 1 \in Nat \ {0}
    BY <1>1, <1>4 DEF OnCourse
  <2>2. Carries(f, u, 1, cnt + 1)
    BY <1>2, <2>1
  <2>3. OnCourse(f, b, u, cnt, sum, buf)
    BY <1>4, <2>2 DEF OnCourse
  <2> QED
    BY <2>3 DEF AtData, u
<1>5. CASE flt = 1 /\ Differs(f, b, s, cnt, sum)
  <2>1. PICK n \in 0 .. Len(b) : cnt >= n - 1 /\ sum # Sums(b)[n] /\ Carries(f, s, 1, n + 1)
    BY <1>5 DEF Differs
  <2>2. n + 1 \in 0 .. Len(f) /\ 1 \in Nat \ {0}
    BY <1>1
  <2>3. Carries(f, u, 1, n + 1)
    BY <1>2, <2>1, <2>2
  <2>4. Differs(f, b, u, cnt, sum)
    BY <2>1, <2>3 DEF Differs
  <2> QED
    BY <1>5, <2>4 DEF AtData, u
<1>6. CASE flt = 1 /\ AtBad(f, b, s, cnt, sum)
  <2>1. cnt + 2 \in 0 .. Len(f) /\ 2 \in Nat \ {0} /\ Carries(f, s, 2, cnt + 2)
        /\ s # <<>> /\ s[1] = "bad" /\ cnt < Len(b) /\ sum = Sums(b)[cnt]
    BY <1>1, <1>6 DEF AtBad
  <2>2. Carries(f, u, 2, cnt + 2)
    BY <1>2, <2>1
  <2>3. Len(s) # 0
    BY <2>1, ElementsOfList
  <2>4. u[1] = "bad"
    BY <1>3, <2>1, <2>3
  <2>5. AtBad(f, b, u, cnt, sum)
    BY <1>3, <2>1, <2>2, <2>4 DEF AtBad
  <2> QED
    BY <1>6, <2>5 DEF AtData, u
<1>7. CASE flt = 1 /\ Unending(s)
  <2>1. ASSUME NEW i \in 1 .. Len(u), u[i] \in {"#", ":"} PROVE \E j \in 1 .. i - 1 : u[j] = "$"
    <3>1. i \in 1 .. Len(s) /\ s[i] \in {"#", ":"}
      BY <1>3, <2>1
    <3>2. PICK j \in 1 .. i - 1 : s[j] = "$"
      BY <1>7, <3>1 DEF Unending
    <3>3. j \in 1 .. Len(s)
      BY <1>3, <3>1
    <3> QED
      BY <1>3, <3>2, <3>3
  <2>2. Unending(u)
    BY <2>1 DEF Unending
  <2> QED
    BY <1>7, <2>2 DEF AtData, u
<1> QED
  BY <1>4, <1>5, <1>6, <1>7 DEF AtData

LEMMA SumAck ==
  ASSUME NEW f, NEW b, IsFrame(f, b), NEW s \in Seq(Chars), NEW ch \in {"+", "-"},
         NEW cnt, NEW sum, NEW buf, NEW x, NEW flt \in {0, 1}
  PROVE  /\ AtSum1(f, b, s, cnt, sum, buf, flt) => AtSum1(f, b, s \o <<ch>>, cnt, sum, buf, flt)
         /\ AtSum2(f, b, s, cnt, sum, buf, x, flt) => AtSum2(f, b, s \o <<ch>>, cnt, sum, buf, x, flt)
<1> DEFINE u == s \o <<ch>>
<1>1. Len(b) \in Nat /\ f \in Seq(Chars) /\ Len(f) = Len(b) + 4
  BY FrameFacts
<1>2. /\ u \in Seq(Chars) /\ Len(s) \in Nat /\ Len(u) = Len(s) + 1 /\ u # <<>>
      /\ \A i \in 1 .. Len(s) : u[i] = s[i]
      /\ u[Len(s) + 1] = ch /\ (Dollar(u) => Dollar(s))
  BY AckIs
<1>3. ASSUME NEW n \in 0 .. Len(f), Carries(f, s, 1, n)
      PROVE  Carries(f, u, 1, n)
  <2>1. 1 \in Nat \ {0}
    OBVIOUS
  <2> QED
    BY <1>1, <1>3, <2>1, CarriesAck
<1>4. Len(b) + 2 \in 0 .. Len(f) /\ Len(b) + 3 \in 0 .. Len(f)
  BY <1>1
<1> HIDE DEF u
<1>5. ASSUME AtSum1(f, b, s, cnt, sum, buf, flt) PROVE AtSum1(f, b, u, cnt, sum, buf, flt)
  <2>1. u # <<>> /\ ~Dollar(u)
    BY <1>2, <1>5 DEF AtSum1
  <2>2. CASE Intact(b, cnt, sum, buf) /\ Len(s) >= 2 - flt
    <3>1. Len(u) >= 2 - flt
      BY <1>2, <2>2
    <3> QED
      BY <2>1, <2>2, <3>1 DEF AtSum1
  <2>3. CASE flt = 1 /\ sum # Sum(b) /\ Carries(f, s, 1, Len(b) + 2)
    BY <1>3, <1>4, <2>1, <2>3 DEF AtSum1
  <2> QED
    BY <1>5, <2>2, <2>3 DEF AtSum1
<1>6. ASSUME AtSum2(f, b, s, cnt, sum, buf, x, flt) PROVE AtSum2(f, b, u, cnt, sum, buf, x, flt)
  <2>1. \A i \in 2 .. Len(u) : u[i] # "$"
    <3> SUFFICES ASSUME NEW i \in 2 .. Len(u) PROVE u[i] # "$"
      OBVIOUS
    <3>1. CASE i = Len(s) + 1
      BY <1>2, <3>1
    <3>2. CASE i # Len(s) + 1
      <4>1. i \in 2 .. Len(s) /\ i \in 1 .. Len(s)
        BY <1>2, <3>2
      <4> QED
        BY <1>2, <1>6, <4>1 DEF AtSum2
    <3> QED
      BY <3>1, <3>2
  <2>2. CASE Intact(b, cnt, sum, buf)
    BY <2>1, <2>2 DEF AtSum2
  <2>3. CASE flt = 1 /\ sum # Sum(b) /\ Carries(f, s, 1, Len(b) + 3) /\ x = (16 * Hex(f[Len(b) + 3])) % 256
    BY <1>3, <1>4, <2>1, <2>3 DEF AtSum2
  <2> QED
    BY <1>6, <2>2, <2>3 DEF AtSum2
<1> QED
  BY <1>5, <1>6 DEF u

(* The line spoils the character that is to be read next.                  *)
LEMMA NoneUnending ==
  ASSUME NEW f, NEW b, IsFrame(f, b), NEW s \in Seq(Chars), NEW i \in {1, 2}, Carries(f, s, i, Len(b) + 2),
         i = 2 => s[1] = "bad"
  PROVE  Unending(s)
<1>1. Len(b) \in Nat /\ Len(f) = Len(b) + 4
  BY FrameFacts
<1>2. Len(b) + 2 \in Len(b) + 2 .. Len(f) /\ i \in Nat \ {0} /\ Len(s) \in Nat
  BY <1>1
<1>3. \A j \in i .. Len(s) : s[j] # "#" /\ s[j] # ":"
  BY <1>2, NoSharp
<1>4. \A j \in 1 .. Len(s) : s[j] # "#" /\ s[j] # ":"
  <2> SUFFICES ASSUME NEW j \in 1 .. Len(s) PROVE s[j] # "#" /\ s[j] # ":"
    OBVIOUS
  <2>1. CASE j >= i
    BY <1>2, <1>3, <2>1
  <2>2. CASE ~(j >= i)
    <3>1. i = 2 /\ j = 1
      BY <1>2, <2>2
    <3> QED
      BY <3>1
  <2> QED
    BY <2>1, <2>2
<1> QED
  BY <1>4 DEF Unending

LEMMA DataLost ==
  ASSUME NEW f, NEW b, IsFrame(f, b), NEW s \in Seq(Chars), s # <<>>, NEW cnt \in Nat, NEW sum, NEW buf,
         AtData(f, b, s, cnt, sum, buf, 0)
  PROVE  AtData(f, b, Tail(s), cnt, sum, buf, 1)
<1>1. Len(b) \in Nat
  BY FrameFacts
<1>2. OnCourse(f, b, s, cnt, sum, buf)
  BY DEF AtData
<1>3. Tail(s) \in Seq(Chars)
  BY TailIs
<1>4. Carries(f, Tail(s), 1, cnt + 2) /\ cnt <= Len(b) /\ sum = Sums(b)[cnt]
      /\ (cnt # Len(b) => cnt + 1 \in 1 .. Len(b))
  BY <1>2, DataOnCourse DEF OnCourse
<1>5. CASE cnt = Len(b)
  <2>1. Unending(Tail(s))
    <3>1. Carries(f, Tail(s), 1, Len(b) + 2) /\ 1 \in {1, 2} /\ (1 = 2 => Tail(s)[1] = "bad")
      BY <1>4, <1>5
    <3> QED
      BY <1>3, <3>1, NoneUnending, Zenon
  <2> QED
    BY <2>1 DEF AtData
<1>6. CASE cnt # Len(b)
  <2>1. cnt \in 0 .. Len(b) /\ cnt + 1 \in 0 .. Len(b) /\ cnt + 1 <= Len(b) /\ (cnt + 1) + 1 = cnt + 2
        /\ cnt >= (cnt + 1) - 1
    BY <1>1, <1>4, <1>6
  <2>2. PICK y \in 0 .. 255, c \in 1 .. 126 : y = sum /\ Sums(b)[cnt + 1] = (y + c) % 256
    <3>1. Sums(b)[cnt] \in 0 .. 255 /\ Ascii[b[cnt + 1]] \in 1 .. 126
          /\ Sums(b)[cnt + 1] = (Sums(b)[cnt] + Ascii[b[cnt + 1]]) % 256
      <4>1. SumStep(b, cnt)
        BY <2>1, SumNext
      <4> QED
        BY <2>1, <4>1 DEF SumStep
    <3> QED
      BY <1>4, <3>1
  <2>3. sum # Sums(b)[cnt + 1]
    <3>1. (y + c) % 256 # y
      BY AddCode
    <3> QED
      BY <2>2, <3>1
  <2>4. Carries(f, Tail(s), 1, (cnt + 1) + 1)
    BY <1>4, <2>1
  <2>5. Differs(f, b, Tail(s), cnt, sum)
    BY <2>1, <2>3, <2>4 DEF Differs
  <2> QED
    BY <2>5 DEF AtData
<1> QED
  BY <1>5, <1>6

LEMMA DataGarbled ==
  ASSUME NEW f, NEW b, IsFrame(f, b), NEW s \in Seq(Chars), s # <<>>, NEW cnt \in Nat, NEW sum, NEW buf,
         AtData(f, b, s, cnt, sum, buf, 0)
  PROVE  AtData(f, b, Garbled(s), cnt, sum, buf, 1)
<1>1. Len(b) \in Nat /\ f \in Seq(Chars) /\ Len(f) = Len(b) + 4
  BY FrameFacts
<1>2. OnCourse(f, b, s, cnt, sum, buf)
  BY DEF AtData
<1>3. Garbled(s) \in Seq(Chars) /\ Len(Garbled(s)) = Len(s) /\ Garbled(s)[1] = "bad"
      /\ \A j \in 2 .. Len(s) : Garbled(s)[j] = s[j]
  BY GarbledIs
<1>4. cnt <= Len(b) /\ sum = Sums(b)[cnt] /\ Carries(f, s, 1, cnt + 1) /\ cnt + 1 \in 0 .. Len(f) - 1
  BY <1>1, <1>2 DEF OnCourse
<1>5. Carries(f, s, 2, cnt + 2)
  <2>1. Carries(f, s, 1 + 1, (cnt + 1) + 1)
    <3>1. 1 \in Nat \ {0}
      OBVIOUS
    <3> QED
      BY <1>1, <1>4, <3>1, CarriesNext
  <2>2. 1 + 1 = 2 /\ (cnt + 1) + 1 = cnt + 2
    OBVIOUS
  <2> QED
    BY <2>1, <2>2
<1>6. Carries(f, Garbled(s), 2, cnt + 2)
  <2>1. 2 \in Nat
    OBVIOUS
  <2> QED
    BY <1>3, <1>5, <2>1, CarriesSame
<1>7. Garbled(s) # <<>>
  <2>1. Len(s) # 0
    BY ElementsOfList
  <2> QED
    BY <1>3, <2>1, EmptyList
<1>8. CASE cnt = Len(b)
  <2>1. Unending(Garbled(s))
    BY <1>3, <1>6, <1>8, NoneUnending
  <2> QED
    BY <2>1 DEF AtData
<1>9. CASE cnt # Len(b)
  <2>1. AtBad(f, b, Garbled(s), cnt, sum)
    BY <1>1, <1>3, <1>4, <1>6, <1>7, <1>9 DEF AtBad
  <2> QED
    BY <2>1 DEF AtData
<1> QED
  BY <1>8, <1>9

LEMMA SumLost ==
  ASSUME NEW f, NEW b, NEW s \in Seq(Chars), s # <<>>, NEW cnt, NEW sum, NEW buf, NEW x
  PROVE  /\ AtSum1(f, b, s, cnt, sum, buf, 0) => AtSum1(f, b, Tail(s), cnt, sum, buf, 1)
         /\ AtSum2(f, b, s, cnt, sum, buf, x, 0) => AtSum2(f, b, Tail(s), cnt, sum, buf, x, 1)
<1>1. /\ Len(s) \in Nat \ {0} /\ Len(Tail(s)) = Len(s) - 1
      /\ \A j \in 1 .. Len(s) - 1 : Tail(s)[j] = s[j + 1]
  BY TailIs
<1>2. PICK n \in Nat : n = Len(Tail(s)) /\ n = Len(s) - 1
  <2>1. \A k \in Nat \ {0} : k - 1 \in Nat
    OBVIOUS
  <2> QED
    BY <1>1, <2>1, Zenon
<1>3. ASSUME AtSum1(f, b, s, cnt, sum, buf, 0) PROVE AtSum1(f, b, Tail(s), cnt, sum, buf, 1)
  <2>1. Intact(b, cnt, sum, buf) /\ Len(s) >= 2 /\ \A i \in 1 .. Len(s) : s[i] # "$"
    BY <1>3 DEF AtSum1, Dollar
  <2>2. n >= 1 /\ n # 0
    BY <1>1, <1>2, <2>1
  <2>3. Tail(s) # <<>>
    BY <1>2, <2>2, EmptyList, Zenon
  <2>4. ~Dollar(Tail(s))
    <3> SUFFICES ASSUME NEW j \in 1 .. n PROVE Tail(s)[j] # "$"
      BY <1>2 DEF Dollar
    <3>1. j \in 1 .. Len(s) - 1 /\ j + 1 \in 1 .. Len(s)
      BY <1>1, <1>2
    <3> QED
      BY <1>1, <2>1, <3>1
  <2>5. Len(Tail(s)) >= 2 - 1
    BY <1>2, <2>2
  <2> QED
    BY <2>1, <2>3, <2>4, <2>5 DEF AtSum1
<1>4. ASSUME AtSum2(f, b, s, cnt, sum, buf, x, 0) PROVE AtSum2(f, b, Tail(s), cnt, sum, buf, x, 1)
  <2>1. Intact(b, cnt, sum, buf) /\ \A i \in 2 .. Len(s) : s[i] # "$"
    BY <1>4 DEF AtSum2
  <2>2. \A i \in 2 .. Len(Tail(s)) : Tail(s)[i] # "$"
    <3> SUFFICES ASSUME NEW j \in 2 .. n PROVE Tail(s)[j] # "$"
      BY <1>2
    <3>1. j \in 1 .. Len(s) - 1 /\ j + 1 \in 2 .. Len(s)
      BY <1>1, <1>2
    <3> QED
      BY <1>1, <2>1, <3>1
  <2> QED
    BY <2>1, <2>2 DEF AtSum2
<1> QED
  BY <1>3, <1>4

LEMMA SumGarbled ==
  ASSUME NEW f, NEW b, NEW s \in Seq(Chars), s # <<>>, NEW cnt, NEW sum, NEW buf, NEW x
  PROVE  /\ AtSum1(f, b, s, cnt, sum, buf, 0) => AtSum1(f, b, Garbled(s), cnt, sum, buf, 1)
         /\ AtSum2(f, b, s, cnt, sum, buf, x, 0) => AtSum2(f, b, Garbled(s), cnt, sum, buf, x, 1)
<1>1. /\ Garbled(s) \in Seq(Chars) /\ Len(Garbled(s)) = Len(s) /\ Garbled(s)[1] = "bad"
      /\ \A j \in 2 .. Len(s) : Garbled(s)[j] = s[j]
  BY GarbledIs
<1>2. Len(s) \in Nat /\ Len(s) # 0
  BY ElementsOfList
<1>3. ASSUME AtSum1(f, b, s, cnt, sum, buf, 0) PROVE AtSum1(f, b, Garbled(s), cnt, sum, buf, 1)
  <2>1. Intact(b, cnt, sum, buf) /\ Len(s) >= 2 /\ \A i \in 1 .. Len(s) : s[i] # "$"
    BY <1>3 DEF AtSum1, Dollar
  <2>2. Garbled(s) # <<>>
    BY <1>1, <1>2, EmptyList
  <2>3. ~Dollar(Garbled(s))
    <3> SUFFICES ASSUME NEW j \in 1 .. Len(s) PROVE Garbled(s)[j] # "$"
      BY <1>1 DEF Dollar
    <3>1. CASE j = 1
      BY <1>1, <3>1
    <3>2. CASE j # 1
      <4>1. j \in 2 .. Len(s)
        BY <1>2, <3>2
      <4> QED
        BY <1>1, <2>1, <4>1
    <3> QED
      BY <3>1, <3>2
  <2>4. Len(Garbled(s)) >= 2 - 1
    BY <1>1, <1>2, <2>1
  <2> QED
    BY <2>1, <2>2, <2>3, <2>4 DEF AtSum1
<1>4. ASSUME AtSum2(f, b, s, cnt, sum, buf, x, 0) PROVE AtSum2(f, b, Garbled(s), cnt, sum, buf, x, 1)
  <2>1. Intact(b, cnt, sum, buf) /\ \A i \in 2 .. Len(s) : s[i] # "$"
    BY <1>4 DEF AtSum2
  <2>2. \A i \in 2 .. Len(Garbled(s)) : Garbled(s)[i] # "$"
    BY <1>1, <2>1
  <2> QED
    BY <2>1, <2>2 DEF AtSum2
<1> QED
  BY <1>3, <1>4

(* The debugger repeats its request when the line is empty.                *)
LEMMA Repeated ==
  ASSUME NEW f, NEW b, IsFrame(f, b), NEW cnt \in Nat, NEW sum, NEW buf, NEW x, NEW flt
  PROVE  /\ AtData(f, b, <<>>, cnt, sum, buf, flt) => AtData(f, b, f, cnt, sum, buf, flt)
         /\ ~AtSum1(f, b, <<>>, cnt, sum, buf, flt)
         /\ AtSum2(f, b, <<>>, cnt, sum, buf, x, flt) => AtSum2(f, b, f, cnt, sum, buf, x, flt)
<1>1. Len(b) \in Nat /\ f \in Seq(Chars) /\ Len(f) = Len(b) + 4 /\ f[1] = "$"
  BY FrameFacts
<1>2. <<>> \in Seq(Chars) /\ Len(<<>>) = 0
  BY EmptyList
<1>3. \A j \in 2 .. Len(f) : f[j] # "$"
  <2> SUFFICES ASSUME NEW j \in 2 .. Len(f) PROVE f[j] # "$"
    OBVIOUS
  <2>1. j \in 1 .. Len(f) /\ j # 1
    BY <1>1
  <2> QED
    BY <2>1, FrameHas
<1>4. \A n \in Nat : Carries(f, <<>>, 1, n) => n >= Len(b) + 4
  <2> SUFFICES ASSUME NEW n \in Nat, Carries(f, <<>>, 1, n) PROVE n >= Len(b) + 4
    OBVIOUS
  <2>1. Len(f) - n <= 0
    BY <1>2, CarriesLength, <1>1
  <2> QED
    BY <1>1, <2>1
<1>5. ASSUME AtData(f, b, <<>>, cnt, sum, buf, flt) PROVE AtData(f, b, f, cnt, sum, buf, flt)
  <2>1. ~OnCourse(f, b, <<>>, cnt, sum, buf)
    <3> SUFFICES ASSUME cnt <= Len(b), Carries(f, <<>>, 1, cnt + 1) PROVE FALSE
      BY DEF OnCourse
    <3>1. cnt + 1 >= Len(b) + 4
      BY <1>4
    <3> QED
      BY <1>1, <3>1
  <2>2. ~Differs(f, b, <<>>, cnt, sum)
    <3> SUFFICES ASSUME NEW n \in 0 .. Len(b), Carries(f, <<>>, 1, n + 1) PROVE FALSE
      BY DEF Differs
    <3>1. n + 1 \in Nat
      BY <1>1
    <3>2. n + 1 >= Len(b) + 4
      BY <1>4, <3>1
    <3> QED
      BY <1>1, <3>2
  <2>3. ~AtBad(f, b, <<>>, cnt, sum)
    BY DEF AtBad
  <2>4. flt = 1
    BY <1>5, <2>1, <2>2, <2>3 DEF AtData
  <2>5. Unending(f)
    <3> SUFFICES ASSUME NEW i \in 1 .. Len(f), f[i] \in {"#", ":"} PROVE \E j \in 1 .. i - 1 : f[j] = "$"
      BY DEF Unending
    <3>1. i # 1
      BY <1>1
    <3>2. 1 \in 1 .. i - 1
      BY <1>1, <3>1
    <3> QED
      BY <1>1, <3>2
  <2> QED
    BY <2>4, <2>5 DEF AtData
<1>6. ~AtSum1(f, b, <<>>, cnt, sum, buf, flt)
  BY DEF AtSum1
<1>7. ASSUME AtSum2(f, b, <<>>, cnt, sum, buf, x, flt) PROVE AtSum2(f, b, f, cnt, sum, buf, x, flt)
  <2>1. Len(b) + 3 \in Nat /\ ~(Len(b) + 3 >= Len(b) + 4)
    BY <1>1
  <2>2. ~Carries(f, <<>>, 1, Len(b) + 3)
    BY <1>4, <2>1
  <2>3. Intact(b, cnt, sum, buf)
    BY <1>7, <2>2 DEF AtSum2
  <2> QED
    BY <1>3, <2>3 DEF AtSum2
<1> QED
  BY <1>5, <1>6, <1>7

-----------------------------------------------------------------------------
(* The inductive invariant.  The text and the packet of the latest request.*)
Body == IF numbered THEN <<"0", "1", ":">> \o request.text ELSE request.text
Frm == Asked(request)

Mid == {"data", "sum1", "sum2"}

TypesOK ==
  /\ TypeOK
  /\ to_stub \in Seq(Chars) /\ Answers(to_host)
  /\ host \in {"idle", "ack", "reply"} /\ numbered \in BOOLEAN
  /\ Askable(request.text)
  /\ asked \in Nat /\ runs \in Nat /\ faults \in {0, 1}
  /\ pc = "data" => count <= BUFMAX - 2

(* What is on the line.  A request is on it only while the debugger waits  *)
(* for it to be acknowledged; one answer to it at most is on its way, and  *)
(* then no copy of the request is.                                         *)
Line ==
  /\ Whole(Frm, to_stub)
  /\ Dollar(to_stub) => host = "ack"
  /\ Single(to_host)
  /\ Says(to_host, "+") \/ Says(to_host, "-") => host = "ack" /\ pc \notin Mid /\ ~Dollar(to_stub)

(* Whose turn it is.                                                       *)
Turns ==
  /\ pc \in Mid => host = "ack"
  /\ pc = "command" => host \in {"ack", "reply"} /\ ~Dollar(to_stub) /\ ~Says(to_host, "-")
  /\ host = "idle" => pc \in {"ack", "start"}

(* How the packet that is being read compares with the one asked.          *)
Reading ==
  /\ pc = "data" => AtData(Frm, Body, to_stub, count, checksum, inbuf, faults)
  /\ pc = "sum1" => AtSum1(Frm, Body, to_stub, count, checksum, inbuf, faults)
  /\ pc = "sum2" => AtSum2(Frm, Body, to_stub, count, checksum, inbuf, xmitcsum, faults)
  /\ pc = "command" => Intact(Body, count, checksum, inbuf) /\ ptr = IF numbered THEN 3 ELSE 0
  /\ numbered \/ inbuf[2] # ":"

(* The packets that will be taken for the reply.                           *)
Replies ==
  /\ Current(to_host, host = "reply", Text(outbuf, 0))
  /\ pc \notin {"ack", "start"} => Old(to_host, host = "reply")

One(p) == IF p THEN 1 ELSE 0

(* How often the latest request has been carried out.                      *)
Counted ==
  /\ runs + One(pc = "command") <= faults + One(host # "ack" \/ Says(to_host, "+"))
  /\ asked > 0 /\ (host = "reply" \/ Says(to_host, "+")) /\ pc # "command" => runs > 0

IInv == TypesOK /\ Line /\ Turns /\ Reading /\ Replies /\ Counted

LEMMA BodyIs ==
  ASSUME TypesOK
  PROVE  /\ IsFrame(Frm, Body) /\ Body \in Seq(Plain)
         /\ Len(Body) \in Nat /\ Len(Body) <= BUFMAX - 2
         /\ request.text \in Seq(Plain)
         /\ numbered => /\ Len(Body) = Len(request.text) + 3
                        /\ Body[1] = "0" /\ Body[2] = "1" /\ Body[3] = ":"
                        /\ \A k \in 1 .. Len(request.text) : Body[k + 3] = request.text[k]
         /\ ~numbered => /\ Body = request.text
                         /\ \A i \in 1 .. Len(Body) : i <= 4 => Body[i] # ":"
<1> DEFINE t == request.text
           id == <<"0", "1", ":">>
<1>1. /\ t \in Seq(Plain) /\ Len(t) + 5 <= BUFMAX /\ \A i \in 1 .. Len(t) : i <= 4 => t[i] # ":"
  BY DEF TypesOK, Askable, Plain, Chars
<1>2. id \in Seq(Plain) /\ Len(id) = 3 /\ id[1] = "0" /\ id[2] = "1" /\ id[3] = ":"
  <2>1. "0" \in Plain /\ "1" \in Plain /\ ":" \in Plain
    BY CharsAre DEF Plain
  <2> QED
    BY <2>1
<1> HIDE DEF t, id
<1>3. Len(t) \in Nat /\ BUFMAX \in Nat
  BY <1>1, GdbStubAssumption
<1>4. CASE numbered
  <2>1. Body = id \o t
    BY <1>4 DEF Body, id, t
  <2>2. /\ id \o t \in Seq(Plain) /\ Len(id \o t) = Len(id) + Len(t)
        /\ \A i \in 1 .. Len(id) : (id \o t)[i] = id[i]
        /\ \A i \in 1 .. Len(t) : (id \o t)[Len(id) + i] = t[i]
    <3>1. PICK x \in Seq(Plain), y \in Seq(Plain) : x = id /\ y = t
      BY <1>1, <1>2
    <3>2. /\ x \o y \in Seq(Plain) /\ Len(x \o y) = Len(x) + Len(y)
          /\ \A i \in 1 .. Len(x) : (x \o y)[i] = x[i]
          /\ \A i \in 1 .. Len(y) : (x \o y)[Len(x) + i] = y[i]
      BY Joined
    <3> QED
      BY <3>1, <3>2
  <2>3. Body \in Seq(Plain) /\ Len(Body) = Len(t) + 3
    BY <1>2, <1>3, <2>1, <2>2
  <2>4. Body[1] = "0" /\ Body[2] = "1" /\ Body[3] = ":"
    <3>1. 1 \in 1 .. Len(id) /\ 2 \in 1 .. Len(id) /\ 3 \in 1 .. Len(id)
      BY <1>2
    <3> QED
      BY <1>2, <2>1, <2>2, <3>1
  <2>5. \A k \in 1 .. Len(t) : Body[k + 3] = t[k]
    <3> SUFFICES ASSUME NEW k \in 1 .. Len(t) PROVE Body[k + 3] = t[k]
      OBVIOUS
    <3>1. Len(id) + k = k + 3
      BY <1>2
    <3> QED
      BY <2>1, <2>2, <3>1
  <2>6. IsFrame(Frm, Body)
    <3>1. Frm = Frame(Body)
      BY DEF Frm, Asked, Body
    <3> QED
      BY <2>3, <3>1, FrameIs
  <2>7. Len(Body) \in Nat /\ Len(Body) <= BUFMAX - 2
    BY <1>1, <1>3, <2>3
  <2> QED
    BY <1>1, <1>4, <2>3, <2>4, <2>5, <2>6, <2>7 DEF t
<1>5. CASE ~numbered
  <2>1. Body = t
    BY <1>5 DEF Body, t
  <2>2. IsFrame(Frm, Body)
    <3>1. Frm = Frame(Body)
      BY DEF Frm, Asked, Body
    <3> QED
      BY <1>1, <2>1, <3>1, FrameIs
  <2>3. Len(Body) \in Nat /\ Len(Body) <= BUFMAX - 2
    BY <1>1, <1>3, <2>1
  <2> QED
    BY <1>1, <1>5, <2>1, <2>2, <2>3 DEF t
<1> QED
  BY <1>4, <1>5

LEMMA SameRequest ==
  ASSUME UNCHANGED <<request, numbered>>
  PROVE  Body' = Body /\ Frm' = Frm
BY DEF Body, Frm, Asked

LEMMA OneIs == \A p : One(p) \in {0, 1} /\ (p => One(p) = 1) /\ (~p => One(p) = 0)
BY DEF One

(* A packet on the line back.                                              *)
LEMMA PacketIs ==
  ASSUME NEW buf
  PROVE  \E U : /\ Packet(buf) \in Item(U) /\ Packet(buf).is = "packet" /\ Packet(buf).text = Text(buf, 0)
BY DEF Packet, Item

(* The stub has carried something out, or has stopped, and says so.        *)
Reply ==
  /\ pc \in {"command", "program"} /\ pc' = "ack"
  /\ to_host' = Append(to_host, Packet(outbuf'))
  /\ runs' = runs + One(pc = "command")
  /\ UNCHANGED <<stub, to_stub, host, request, numbered, asked, faults>>

LEMMA Replying ==
  ASSUME IInv, Reply, TypeOK'
  PROVE  IInv'
<1> DEFINE rep == host = "reply"
<1>1. /\ UNCHANGED <<inbuf, count, checksum, xmitcsum, ptr, to_stub, host, request, numbered, asked, faults>>
      /\ pc' = "ack" /\ pc \notin Mid /\ pc \in {"command", "program"} /\ pc' \notin Mid
  BY DEF Reply, stub, Mid
<1>2. Body' = Body /\ Frm' = Frm
  BY <1>1, SameRequest
<1>3. PICK U : Packet(outbuf') \in Item(U) /\ Packet(outbuf').is = "packet"
                /\ Packet(outbuf').text = Text(outbuf', 0)
  BY PacketIs
<1>4. PICK e \in Item(U) : e = Packet(outbuf') /\ e.is = "packet" /\ e.text = Text(outbuf', 0)
  BY <1>3
<1>5. to_host' = Append(to_host, e) /\ Answers(to_host) /\ rep \in BOOLEAN
  BY <1>4 DEF Reply, IInv, TypesOK
<1>6. e.is \notin Verdict
  BY <1>4 DEF Verdict
<1> HIDE DEF rep
<1>7. /\ Answers(to_host')
      /\ Single(to_host) => Single(to_host')
      /\ \A ch : Says(to_host', ch) <=> Says(to_host, ch) \/ e.is = ch
      /\ \A text : Current(to_host, rep, text) /\ e.text = text => Current(to_host', rep, text)
  BY <1>5, <1>6, OneMore
<1>8. /\ Says(to_host', "+") <=> Says(to_host, "+")
      /\ Says(to_host', "-") <=> Says(to_host, "-")
  BY <1>4, <1>7
<1>9. TypesOK'
  <2>1. runs' \in Nat
    BY OneIs DEF Reply, IInv, TypesOK
  <2> QED
    BY <1>1, <1>7, <2>1 DEF IInv, TypesOK
<1>10. Line'
  BY <1>1, <1>2, <1>7, <1>8 DEF IInv, Line
<1>11. Turns'
  BY <1>1 DEF Turns
<1>12. Reading'
  BY <1>1 DEF IInv, Reading, Mid
<1>13. Replies'
  <2>1. Old(to_host, rep)
    BY <1>1 DEF IInv, Replies, rep
  <2>2. Current(to_host, rep, Text(outbuf', 0))
    BY <2>1 DEF Old, Current
  <2>3. Current(to_host', rep, Text(outbuf', 0))
    BY <1>4, <1>7, <2>2
  <2>4. Text(outbuf', 0) = Text(outbuf, 0)'
    BY DEF Text
  <2> QED
    BY <1>1, <2>3, <2>4 DEF Replies, rep
<1>14. Counted'
  <2>1. One(pc' = "command") = 0
    BY <1>1, OneIs
  <2>2. /\ runs' = runs + One(pc = "command") /\ runs \in Nat
        /\ runs + One(pc = "command") <= faults + One(host # "ack" \/ Says(to_host, "+"))
    BY DEF Reply, IInv, Counted, TypesOK
  <2>3. (host # "ack" \/ Says(to_host, "+"))' <=> (host # "ack" \/ Says(to_host, "+"))
    BY <1>1, <1>8
  <2>4. One((host # "ack" \/ Says(to_host, "+"))') = One(host # "ack" \/ Says(to_host, "+"))
    BY <2>3 DEF One
  <2>5. runs' + One(pc' = "command") <= faults + One((host # "ack" \/ Says(to_host, "+"))')
    <3>1. runs' = runs' + 0
      BY <2>2, OneIs
    <3> QED
      BY <2>1, <2>2, <2>4, <3>1
  <2>6. ASSUME asked > 0, host = "reply" \/ Says(to_host, "+") PROVE runs' > 0
    <3>1. CASE pc = "command"
      <4>1. One(pc = "command") = 1
        BY <3>1, OneIs
      <4> QED
        BY <2>2, <4>1
    <3>2. CASE pc # "command"
      <4>1. One(pc = "command") = 0 /\ runs > 0
        BY <2>6, <3>2, OneIs DEF IInv, Counted
      <4> QED
        BY <2>2, <4>1
    <3> QED
      BY <3>1, <3>2
  <2> QED
    BY <1>1, <1>8, <2>5, <2>6 DEF Counted
<1> QED
  BY <1>9, <1>10, <1>11, <1>12, <1>13, <1>14 DEF IInv

LEMMA StoredIs ==
  /\ DOMAIN out = DOMAIN outbuf
  /\ \A b, chars : /\ DOMAIN Stored(b, chars) = DOMAIN b
                   /\ DOMAIN strcpy(b, chars) = DOMAIN b
                   /\ DOMAIN Terminated(b, chars) = DOMAIN b
BY DEF out, Stored, strcpy, Terminated

(* A command that is answered.                                             *)
LEMMA Answering ==
  ASSUME IInv, NEW letters, Command(letters), NEW b, PutPacket(b), DOMAIN b = DOMAIN outbuf,
         registers' \in [Register -> 0 .. 255], memory' \in [Addr -> 0 .. 255], remote_debug' \in BOOLEAN
  PROVE  IInv'
<1>1. Reply
  <2>1. pc = "command" /\ runs' = runs + 1 /\ UNCHANGED <<stub, to_stub, debugger>>
    BY DEF Command
  <2>2. runs' = runs + One(pc = "command")
    BY <2>1, OneIs
  <2> QED
    BY <2>1, <2>2 DEF Reply, PutPacket, debugger
<1>2. TypeOK'
  BY DEF IInv, TypesOK, TypeOK, Command, stub, PutPacket
<1> QED
  BY <1>1, <1>2, Replying

LEMMA Commands ==
  ASSUME IInv,
         Query \/ ToggleDebug \/ ReadRegisters \/ WriteRegisters \/ WriteRegister
           \/ ReadMemory \/ WriteMemory \/ Other
  PROVE  IInv'
<1>1. /\ registers \in [Register -> 0 .. 255] /\ memory \in [Addr -> 0 .. 255] /\ remote_debug \in BOOLEAN
  BY DEF IInv, TypesOK, TypeOK
<1>2. CASE Query
  <2>1. PICK b, letters : Command(letters) /\ PutPacket(b) /\ DOMAIN b = DOMAIN outbuf
    BY <1>2, StoredIs DEF Query
  <2> QED
    BY <1>1, <1>2, <2>1, Answering DEF Query
<1>3. CASE ToggleDebug
  <2>1. PICK b, letters : Command(letters) /\ PutPacket(b) /\ DOMAIN b = DOMAIN outbuf
    BY <1>3, StoredIs DEF ToggleDebug
  <2>2. remote_debug' \in BOOLEAN /\ registers' = registers /\ memory' = memory
    BY <1>1, <1>3 DEF ToggleDebug
  <2> QED
    BY <1>1, <2>1, <2>2, Answering
<1>4. CASE ReadRegisters
  <2>1. PICK b, letters : Command(letters) /\ PutPacket(b) /\ DOMAIN b = DOMAIN outbuf
    BY <1>4, StoredIs DEF ReadRegisters
  <2> QED
    BY <1>1, <1>4, <2>1, Answering DEF ReadRegisters
<1>5. CASE WriteRegisters
  <2>1. PICK b, letters : Command(letters) /\ PutPacket(b) /\ DOMAIN b = DOMAIN outbuf
    BY <1>5, StoredIs DEF WriteRegisters
  <2>2. registers' \in [Register -> 0 .. 255] /\ memory' = memory /\ remote_debug' = remote_debug
    BY <1>5, ByteIs DEF WriteRegisters, FromHex
  <2> QED
    BY <1>1, <2>1, <2>2, Answering
<1>6. CASE WriteRegister
  <2>1. PICK b, letters : Command(letters) /\ PutPacket(b) /\ DOMAIN b = DOMAIN outbuf
    BY <1>6, StoredIs DEF WriteRegister
  <2>2. registers' \in [Register -> 0 .. 255] /\ memory' = memory /\ remote_debug' = remote_debug
    <3> DEFINE eq == arg + Digits(inbuf, arg)
               regno == Number(inbuf, arg)
    <3>1. registers' = registers \/ registers' = [registers EXCEPT ![regno] = FromHex(inbuf, eq + 1, 0)]
      BY <1>6 DEF WriteRegister
    <3>2. FromHex(inbuf, eq + 1, 0) \in 0 .. 255
      BY ByteIs DEF FromHex
    <3> HIDE DEF eq, regno
    <3>3. registers' \in [Register -> 0 .. 255]
      BY <1>1, <3>1, <3>2
    <3> QED
      BY <1>6, <3>3 DEF WriteRegister
  <2> QED
    BY <1>1, <2>1, <2>2, Answering
<1>7. CASE ReadMemory
  <2>1. PICK b, letters : Command(letters) /\ PutPacket(b) /\ DOMAIN b = DOMAIN outbuf
    BY <1>7, StoredIs DEF ReadMemory
  <2> QED
    BY <1>1, <1>7, <2>1, Answering DEF ReadMemory
<1>8. CASE WriteMemory
  <2>1. PICK b, letters : Command(letters) /\ PutPacket(b) /\ DOMAIN b = DOMAIN outbuf
    BY <1>8, StoredIs DEF WriteMemory
  <2>2. memory' \in [Addr -> 0 .. 255] /\ registers' = registers /\ remote_debug' = remote_debug
    <3>1. \A x, y, z : FromHex(x, y, z) \in 0 .. 255
      BY ByteIs DEF FromHex
    <3> QED
      BY <1>1, <1>8, <3>1 DEF WriteMemory
  <2> QED
    BY <1>1, <2>1, <2>2, Answering
<1>9. CASE Other
  <2>1. PICK b, letters : Command(letters) /\ PutPacket(b) /\ DOMAIN b = DOMAIN outbuf
    BY <1>9, StoredIs DEF Other
  <2> QED
    BY <1>1, <1>9, <2>1, Answering DEF Other
<1> QED
  BY <1>2, <1>3, <1>4, <1>5, <1>6, <1>7, <1>8, <1>9

(* The program stops.                                                      *)
LEMMA Stopping ==
  ASSUME IInv, Stop
  PROVE  IInv'
<1>1. PICK v \in Vectors, at \in Pcs : Trap(v, at)
  BY DEF Stop
<1>2. PICK b : PutPacket(b) /\ DOMAIN b = DOMAIN outbuf
  <2>1. PICK chars : PutPacket(Terminated(outbuf, chars))
    BY <1>1, Zenon DEF Trap
  <2>2. DOMAIN Terminated(outbuf, chars) = DOMAIN outbuf
    BY StoredIs
  <2> QED
    BY <2>1, <2>2
<1>3. /\ pc = "program" /\ registers' = Saved(at)
      /\ UNCHANGED <<stub, memory, remote_debug, to_stub, host, request, numbered, asked, runs, faults>>
  BY <1>1 DEF Trap
<1>4. Reply
  <2>1. runs \in Nat /\ One(pc = "command") = 0
    BY <1>3, OneIs DEF IInv, TypesOK
  <2>2. runs' = runs + One(pc = "command")
    BY <1>3, <2>1
  <2> QED
    BY <1>2, <1>3, <2>2 DEF Reply, PutPacket
<1>5. TypeOK'
  <2>1. at \in 0 .. 255
    BY GdbStubAssumption
  <2>2. registers' \in [Register -> 0 .. 255]
    BY <1>3, <2>1 DEF Saved, IInv, TypesOK, TypeOK
  <2> QED
    BY <1>2, <1>3, <2>2 DEF IInv, TypesOK, TypeOK, stub, PutPacket
<1> QED
  BY <1>4, <1>5, Replying

(* hexToInt in a buffer with a terminator.                                 *)
LEMMA DigitsAre ==
  ASSUME NEW buf, NEW p \in Nat, NEW e \in p .. BUFMAX - 1, buf[e] = "NUL"
  PROVE  Digits(buf, p) \in Nat
<1> DEFINE T == {i \in p .. BUFMAX - 1 : Hex(buf[i]) < 0}
<1>1. Hex("NUL") < 0
  <2>1. "NUL" \notin HexDigits
    BY CharsAre
  <2>2. DOMAIN HexValue = HexDigits
    BY HexValueIs
  <2> QED
    BY <2>1, <2>2 DEF Hex
<1>2. e \in T
  BY <1>1
<1>3. T \in SUBSET Nat /\ \A x \in T : x >= p
  BY GdbStubAssumption
<1>4. Digits(buf, p) = (CHOOSE x \in T : \A y \in T : x <= y) - p
  BY DEF Digits, Min
<1> HIDE DEF T
<1>5. PICK x \in T : \A y \in T : x <= y
  BY <1>2, <1>3, HasLeast
<1>6. (CHOOSE z \in T : \A y \in T : z <= y) \in T
  BY <1>5
<1>7. PICK z \in T : Digits(buf, p) = z - p
  BY <1>4, <1>6
<1>8. z \in Nat /\ z >= p
  BY <1>3
<1> QED
  BY <1>7, <1>8

LEMMA NumberIs ==
  ASSUME NEW buf, NEW p \in Nat, Digits(buf, p) \in Nat
  PROVE  Number(buf, p) \in Int
<1> DEFINE n == Digits(buf, p)
           S == Int
           step == [k \in 1 .. n |-> [x \in S |-> 16 * x + Hex(buf[p + k - 1])]]
           run == LoopRun(n, S, 0, step)
           IsUp(g) == g = [k \in 0 .. n |-> IF k = 0 THEN 0 ELSE 16 * g[k - 1] + Hex(buf[p + k - 1])]
           up == CHOOSE g : IsUp(g)
<1>1. n \in Nat
  OBVIOUS
<1> HIDE DEF n
<1>2. ASSUME NEW k \in 1 .. n, NEW x \in S PROVE 16 * x + Hex(buf[p + k - 1]) \in S
  <2>1. Hex(buf[p + k - 1]) \in Int
    BY HexIs
  <2> QED
    BY <2>1
<1>3. step \in [1 .. n -> [S -> S]]
      /\ \A k \in 1 .. n, x \in S : step[k][x] = 16 * x + Hex(buf[p + k - 1])
  BY <1>2
<1> HIDE DEF step
<1>4. run \in [0 .. n -> S] /\ run[0] = 0 /\ \A k \in 1 .. n : run[k] = step[k][run[k - 1]]
  <2>1. 0 \in S
    OBVIOUS
  <2> HIDE DEF S
  <2>2. n \in Nat /\ step \in [1 .. n -> [S -> S]]
    BY <1>1, <1>3
  <2> QED
    BY <2>1, <2>2, RunExists
<1> HIDE DEF run
<1>5. ASSUME NEW k \in 1 .. n PROVE run[k] = 16 * run[k - 1] + Hex(buf[p + k - 1])
  <2>1. run[k - 1] \in S
    <3>1. k - 1 \in 0 .. n
      BY <1>1
    <3> HIDE DEF S
    <3> QED
      BY <1>4, <3>1
  <2> QED
    BY <1>3, <1>4, <2>1
<1>6. IsUp(run)
  <2>1. \A k \in 0 .. n : run[k] = IF k = 0 THEN 0 ELSE 16 * run[k - 1] + Hex(buf[p + k - 1])
    BY <1>1, <1>4, <1>5
  <2>2. run = [k \in 0 .. n |-> run[k]]
    BY <1>4
  <2> QED
    BY <2>1, <2>2
<1>7. IsUp(up)
  <2> HIDE DEF IsUp
  <2> QED
    BY <1>6
<1>8. Number(buf, p) = up[n]
  BY DEF Number, n
<1> HIDE DEF up
<1>9. up[0] = 0 /\ \A k \in 1 .. n : up[k] = 16 * up[k - 1] + Hex(buf[p + k - 1])
  BY <1>1, <1>7
<1> DEFINE T == {k \in 0 .. n : up[k] = run[k]}
<1>10. 0 \in T /\ \A k \in 1 .. n : k - 1 \in T => k \in T
  BY <1>1, <1>4, <1>5, <1>9
<1>11. \A k \in 0 .. n : k \in T
  <2> HIDE DEF T
  <2> QED
    BY <1>1, <1>10, UpTo
<1>12. up[n] \in Int
  BY <1>1, <1>4, <1>11
<1> QED
  BY <1>8, <1>12

(* The program goes on.                                                    *)
LEMMA FlagsAre ==
  ASSUME NEW r \in 0 .. 255
  PROVE  r - (r % 2) \in 0 .. 254
OBVIOUS

LEMMA Resuming ==
  ASSUME IInv, Resume
  PROVE  IInv'
<1>1. /\ pc = "command" /\ pc' = "program" /\ inbuf[ptr] \in {"c", "s"} /\ runs' = runs + 1
      /\ UNCHANGED <<inbuf, count, checksum, xmitcsum, ptr, to_stub, to_host, host, request, numbered,
                     asked, faults, memory, remote_debug>>
      /\ outbuf' = [i \in DOMAIN outbuf |-> "NUL"]
  BY DEF Resume, Command, ReturnToProg, stub, debugger
<1>2. Body' = Body /\ Frm' = Frm
  BY <1>1, SameRequest
<1>3. Digits(inbuf, arg) \in Nat /\ Number(inbuf, arg) \in Int
  <2>1. Intact(Body, count, checksum, inbuf) /\ ptr = IF numbered THEN 3 ELSE 0
    BY <1>1 DEF IInv, Reading
  <2>2. Len(Body) \in Nat /\ Len(Body) <= BUFMAX - 2 /\ BUFMAX \in Nat
    BY BodyIs, GdbStubAssumption DEF IInv
  <2>3. inbuf[Len(Body)] = "NUL"
    BY <2>1 DEF Intact
  <2>4. ptr <= Len(Body)
    <3>1. numbered => Len(Body) = Len(request.text) + 3 /\ Len(request.text) \in Nat
      BY BodyIs DEF IInv
    <3> QED
      BY <2>1, <2>2, <3>1
  <2>5. ptr # Len(Body)
    BY <1>1, <2>3
  <2>6. arg \in Nat /\ Len(Body) \in arg .. BUFMAX - 1
    <3>1. PICK l \in Nat : l = Len(Body) /\ l <= BUFMAX - 2 /\ ptr <= l /\ ptr # l
      BY <2>2, <2>4, <2>5
    <3>2. ptr \in Nat /\ arg = ptr + 1
      BY <2>1 DEF arg
    <3> QED
      BY <2>2, <3>1, <3>2
  <2>7. Digits(inbuf, arg) \in Nat
    BY <2>3, <2>6, DigitsAre
  <2> QED
    BY <2>6, <2>7, NumberIs
<1>4. registers' \in [Register -> 0 .. 255]
  <2> DEFINE flags == registers[PS] - (registers[PS] % 2)
  <2>1. registers \in [Register -> 0 .. 255] /\ PS \in Register /\ PC \in Register
    BY GdbStubAssumption DEF IInv, TypesOK, TypeOK
  <2>2. PICK v : v = IF Digits(inbuf, arg) > 0 THEN Number(inbuf, arg) % 256 ELSE registers[PC]
    OBVIOUS
  <2>3. v \in 0 .. 255
    <3>1. Number(inbuf, arg) % 256 \in 0 .. 255
      BY <1>3, ModByte
    <3> QED
      BY <2>1, <2>2, <3>1
  <2>4. flags \in 0 .. 254
    BY <2>1, FlagsAre
  <2>5. PICK w : w = IF inbuf[ptr] = "s" THEN flags + 1 ELSE flags
    OBVIOUS
  <2>6. w \in 0 .. 255
    BY <2>4, <2>5
  <2>7. registers' = [registers EXCEPT ![PC] = v, ![PS] = w]
    BY <2>2, <2>5 DEF Resume
  <2> QED
    BY <2>1, <2>3, <2>6, <2>7
<1>5. TypesOK'
  BY <1>1, <1>4 DEF IInv, TypesOK, TypeOK
<1>6. Line'
  BY <1>1, <1>2 DEF IInv, Line, Mid
<1>7. Turns'
  BY <1>1 DEF IInv, Turns, Mid
<1>8. Reading'
  BY <1>1 DEF IInv, Reading
<1>9. Replies'
  <2>1. Old(to_host, host = "reply")
    BY <1>1 DEF IInv, Replies
  <2>2. Old(to_host', (host = "reply")')
    BY <1>1, <2>1
  <2>3. Current(to_host', (host = "reply")', Text(outbuf, 0)')
    BY <2>2 DEF Old, Current
  <2> QED
    BY <2>2, <2>3 DEF Replies
<1>10. Counted'
  <2>1. One(pc = "command") = 1 /\ One(pc' = "command") = 0
    BY <1>1, OneIs
  <2>2. runs + 1 <= faults + One(host # "ack" \/ Says(to_host, "+")) /\ runs \in Nat
    BY <2>1 DEF IInv, Counted, TypesOK
  <2>3. One((host # "ack" \/ Says(to_host, "+"))') = One(host # "ack" \/ Says(to_host, "+"))
    BY <1>1
  <2>4. runs' + One(pc' = "command") = runs + 1 /\ runs' > 0
    BY <1>1, <2>1, <2>2
  <2> QED
    BY <1>1, <2>2, <2>3, <2>4 DEF Counted
<1> QED
  BY <1>5, <1>6, <1>7, <1>8, <1>9, <1>10 DEF IInv

(* The stub reads a character.                                             *)
LEMMA Reads ==
  ASSUME IInv, GetDebugChar
  PROVE  /\ to_stub \in Seq(Chars) /\ to_stub # <<>> /\ to_stub' = Tail(to_stub) /\ got = Head(to_stub)
         /\ UNCHANGED <<host, request, numbered, asked, runs, faults, registers, memory, remote_debug>>
         /\ to_stub' \in Seq(Chars) /\ got \in Chars
         /\ Body' = Body /\ Frm' = Frm /\ IsFrame(Frm, Body)
         /\ Whole(Frm, to_stub) /\ Whole(Frm, to_stub')
         /\ Dollar(to_stub') => Dollar(to_stub)
         /\ got = "$" => Dollar(to_stub)
<1>1. /\ to_stub \in Seq(Chars) /\ to_stub # <<>> /\ to_stub' = Tail(to_stub) /\ got = Head(to_stub)
      /\ UNCHANGED <<host, request, numbered, asked, runs, faults, registers, memory, remote_debug>>
  BY DEF GetDebugChar, got, IInv, TypesOK, state, debugger
<1>2. Body' = Body /\ Frm' = Frm
  BY <1>1, SameRequest
<1>3. IsFrame(Frm, Body) /\ Frm \in Seq(Chars)
  BY BodyIs, FrameFacts DEF IInv
<1>4. Whole(Frm, to_stub)
  BY DEF IInv, Line
<1>5. PICK s \in Seq(Chars) : s = to_stub /\ s # <<>>
  BY <1>1
<1>6. /\ Tail(s) \in Seq(Chars) /\ Len(s) \in Nat \ {0} /\ Len(Tail(s)) = Len(s) - 1
      /\ Head(s) = s[1] /\ s[1] \in Chars
      /\ \A j \in 1 .. Len(s) - 1 : Tail(s)[j] = s[j + 1]
  BY <1>5, TailIs
<1>7. Whole(Frm, Tail(s))
  BY <1>3, <1>4, <1>5, WholeTail
<1>8. Dollar(Tail(s)) => Dollar(s)
  <2> SUFFICES ASSUME NEW i \in 1 .. Len(s) - 1, Tail(s)[i] = "$" PROVE Dollar(s)
    BY <1>6 DEF Dollar
  <2>1. i + 1 \in 1 .. Len(s) /\ s[i + 1] = "$"
    BY <1>6
  <2> QED
    BY <2>1 DEF Dollar
<1>9. Head(s) = "$" => Dollar(s)
  <2>1. 1 \in 1 .. Len(s)
    BY <1>6
  <2> QED
    BY <1>6, <2>1 DEF Dollar
<1> QED
  BY <1>1, <1>2, <1>3, <1>4, <1>5, <1>6, <1>7, <1>8, <1>9

(* Where a request is on the line, or is being read, it has no answer yet. *)
LEMMA Unanswered ==
  ASSUME IInv, Dollar(to_stub) \/ pc \in Mid
  PROVE  host = "ack" /\ ~Says(to_host, "+") /\ ~Says(to_host, "-") /\ Old(to_host, host = "reply")
<1>1. host = "ack" /\ ~Says(to_host, "+") /\ ~Says(to_host, "-")
  BY DEF IInv, Line, Turns
<1>2. Old(to_host, host = "reply")
  <2> SUFFICES ASSUME NEW i \in 1 .. Len(to_host), Awaited(to_host, i, host = "reply") PROVE FALSE
    BY DEF Old
  <2>1. PICK j \in 1 .. i - 1 : to_host[j].is = "+"
    BY <1>1 DEF Awaited
  <2>2. Len(to_host) \in Nat
    BY DEF IInv, TypesOK, Answers
  <2>3. j \in 1 .. Len(to_host)
    BY <2>2
  <2> QED
    BY <1>1, <2>1, <2>3 DEF Says
<1> QED
  BY <1>1, <1>2

(* It reads, and neither answers nor carries anything out.                 *)
QuietRead ==
  /\ pc \in {"start", "data", "sum1"} /\ GetDebugChar
  /\ UNCHANGED <<outbuf, to_host>>
  /\ pc' \in {"start"} \cup Mid
  /\ pc' \in Mid => pc \in Mid \/ Dollar(to_stub)
  /\ pc' = "data" => count' <= BUFMAX - 2

LEMMA ReadingOn ==
  ASSUME IInv, QuietRead, TypeOK', Reading'
  PROVE  IInv'
<1>1. /\ UNCHANGED <<host, request, numbered, asked, runs, faults, outbuf, to_host>>
      /\ to_stub' \in Seq(Chars) /\ Frm' = Frm /\ Body' = Body
      /\ Whole(Frm, to_stub') /\ (Dollar(to_stub') => Dollar(to_stub))
  BY Reads DEF QuietRead
<1>2. pc # "command" /\ pc' # "command" /\ (pc' = "start" \/ pc' \in Mid)
  BY DEF QuietRead, Mid
<1>3. pc' \in Mid => /\ host = "ack" /\ ~Says(to_host, "+") /\ ~Says(to_host, "-")
                     /\ Old(to_host, host = "reply")
  BY Unanswered DEF QuietRead
<1>4. TypesOK'
  BY <1>1 DEF IInv, TypesOK, QuietRead
<1>5. Line'
  BY <1>1, <1>3 DEF IInv, Line
<1>6. Turns'
  BY <1>1, <1>2, <1>3 DEF IInv, Turns
<1>7. Replies'
  <2>1. Current(to_host', (host = "reply")', Text(outbuf, 0)')
    <3>1. Text(outbuf, 0)' = Text(outbuf, 0)
      BY <1>1 DEF Text
    <3> QED
      BY <1>1, <3>1 DEF IInv, Replies
  <2> QED
    BY <1>1, <1>2, <1>3, <2>1 DEF Replies
<1>8. Counted'
  <2>1. One(pc = "command") = 0 /\ One(pc' = "command") = 0
    BY <1>2, OneIs
  <2> QED
    BY <1>1, <1>2, <2>1 DEF IInv, Counted
<1> QED
  BY <1>4, <1>5, <1>6, <1>7, <1>8 DEF IInv

LEMMA Starting ==
  ASSUME IInv, ReadStart
  PROVE  IInv'
<1>1. pc = "start" /\ GetDebugChar /\ UNCHANGED <<outbuf, to_host, inbuf, xmitcsum, ptr>>
  BY DEF ReadStart, Begin, stub
<1>2. /\ to_stub \in Seq(Chars) /\ to_stub # <<>> /\ to_stub' = Tail(to_stub) /\ got = Head(to_stub)
      /\ UNCHANGED <<numbered, faults, registers, memory, remote_debug>>
      /\ Body' = Body /\ Frm' = Frm /\ IsFrame(Frm, Body)
      /\ Whole(Frm, to_stub) /\ (got = "$" => Dollar(to_stub))
  BY <1>1, Reads
<1>3. CASE got = "$"
  <2>1. pc' = "data" /\ count' = 0 /\ checksum' = 0
    BY <1>3 DEF ReadStart, Begin
  <2>2. QuietRead
    BY <1>1, <1>2, <1>3, <2>1, GdbStubAssumption DEF QuietRead, Mid
  <2>3. TypeOK'
    BY <1>1, <1>2, <2>1, GdbStubAssumption DEF IInv, TypesOK, TypeOK
  <2>4. OnCourse(Frm, Body, Tail(to_stub), 0, 0, inbuf)
    BY <1>2, <1>3, DataNew
  <2>5. AtData(Frm', Body', to_stub', count', checksum', inbuf', faults')
    BY <1>1, <1>2, <2>1, <2>4 DEF AtData
  <2>6. Reading'
    BY <1>1, <1>2, <2>1, <2>5 DEF IInv, Reading
  <2> QED
    BY <2>2, <2>3, <2>6, ReadingOn
<1>4. CASE got # "$"
  <2>1. pc' = "start" /\ UNCHANGED <<count, checksum>>
    BY <1>1, <1>4 DEF ReadStart, stub
  <2>2. QuietRead
    BY <1>1, <2>1 DEF QuietRead, Mid
  <2>3. TypeOK'
    BY <1>1, <1>2, <2>1 DEF IInv, TypesOK, TypeOK
  <2>4. Reading'
    BY <1>1, <1>2, <2>1 DEF IInv, Reading
  <2> QED
    BY <2>2, <2>3, <2>4, ReadingOn
<1> QED
  BY <1>3, <1>4

LEMMA ReadingData ==
  ASSUME IInv, ReadData
  PROVE  IInv'
<1>1. pc = "data" /\ GetDebugChar /\ UNCHANGED <<outbuf, to_host>> /\ pc \in Mid
  BY DEF ReadData, Mid
<1>2. /\ to_stub \in Seq(Chars) /\ to_stub # <<>> /\ to_stub' = Tail(to_stub) /\ got = Head(to_stub)
      /\ UNCHANGED <<request, numbered, faults, registers, memory, remote_debug>>
      /\ Body' = Body /\ Frm' = Frm /\ IsFrame(Frm, Body)
      /\ Whole(Frm, to_stub) /\ got \in Chars
  BY <1>1, Reads
<1>3. /\ AtData(Frm, Body, to_stub, count, checksum, inbuf, faults)
      /\ count \in Nat /\ count <= BUFMAX - 2 /\ checksum \in 0 .. 255 /\ faults \in {0, 1}
      /\ numbered \/ inbuf[2] # ":"
      /\ DOMAIN inbuf = 0 .. BUFMAX - 1 /\ count \in DOMAIN inbuf /\ BUFMAX \in Nat /\ BUFMAX > 4
  BY <1>1, GdbStubAssumption DEF IInv, Reading, TypesOK, TypeOK
<1>4. CASE got = "$"
  <2>1. pc' = "data" /\ count' = 0 /\ checksum' = 0 /\ UNCHANGED <<inbuf, xmitcsum, ptr>>
    BY <1>4 DEF ReadData, Begin
  <2>2. QuietRead
    BY <1>1, <2>1, GdbStubAssumption DEF QuietRead
  <2>3. TypeOK'
    BY <1>1, <1>2, <2>1, GdbStubAssumption DEF IInv, TypesOK, TypeOK
  <2>4. OnCourse(Frm, Body, Tail(to_stub), 0, 0, inbuf)
    BY <1>2, <1>4, DataNew
  <2>5. AtData(Frm', Body', to_stub', count', checksum', inbuf', faults')
    BY <1>2, <2>1, <2>4 DEF AtData
  <2>6. Reading'
    BY <1>2, <1>3, <2>1, <2>5 DEF Reading
  <2> QED
    BY <2>2, <2>3, <2>6, ReadingOn
<1>5. CASE got = "#"
  <2>1. /\ inbuf' = [inbuf EXCEPT ![count] = "NUL"] /\ pc' = "sum1"
        /\ UNCHANGED <<count, checksum, xmitcsum, ptr>>
    BY <1>5 DEF ReadData
  <2>2. QuietRead
    BY <1>1, <2>1 DEF QuietRead, Mid
  <2>3. TypeOK'
    BY <1>1, <1>2, <2>1 DEF IInv, TypesOK, TypeOK
  <2>4. /\ inbuf'[count] = "NUL" /\ (inbuf'[2] = inbuf[2] \/ inbuf'[2] = "NUL")
        /\ \A j \in 0 .. count - 1 : inbuf'[j] = inbuf[j]
    BY <1>3, <2>1
  <2>5. PICK buf2 : buf2 = inbuf'
    OBVIOUS
  <2>6. AtSum1(Frm, Body, Tail(to_stub), count, checksum, buf2, faults)
    BY <1>2, <1>3, <1>5, <2>4, <2>5, DataEnd
  <2>7. AtSum1(Frm', Body', to_stub', count', checksum', inbuf', faults')
    BY <1>2, <2>1, <2>5, <2>6
  <2>8. numbered' \/ inbuf'[2] # ":"
    BY <1>2, <1>3, <2>4
  <2>9. Reading'
    BY <2>1, <2>7, <2>8 DEF Reading
  <2> QED
    BY <2>2, <2>3, <2>9, ReadingOn
<1>6. CASE got \notin {"$", "#"}
  <2>1. /\ checksum' = (checksum + Ascii[got]) % 256 /\ count' = count + 1
        /\ inbuf' = [inbuf EXCEPT ![count] = got,
                       ![count + 1] = IF count' = BUFMAX - 1 THEN "NUL" ELSE @]
        /\ pc' = IF count' = BUFMAX - 1 THEN "start" ELSE "data"
        /\ UNCHANGED <<xmitcsum, ptr>>
    BY <1>6 DEF ReadData
  <2>2. QuietRead
    BY <1>1, <1>3, <2>1 DEF QuietRead, Mid
  <2>3. checksum' \in 0 .. 255
    <3>1. checksum + Ascii[got] \in Int
      BY <1>2, <1>3, CodesAre
    <3> QED
      BY <2>1, <3>1, ModByte
  <2>4. TypeOK'
    <3>1. count' \in 0 .. BUFMAX - 1
      BY <1>3, <2>1
    <3>2. DOMAIN inbuf' = DOMAIN inbuf /\ pc' \in {"start", "data"}
      BY <2>1
    <3> QED
      BY <1>1, <1>2, <2>1, <2>3, <3>1, <3>2 DEF IInv, TypesOK, TypeOK
  <2>5. PICK c \in Nat : c = count /\ c + 1 \in DOMAIN inbuf /\ c # c + 1
    BY <1>3
  <2>6. PICK z : z = IF count' = BUFMAX - 1 THEN "NUL" ELSE inbuf[c + 1]
    OBVIOUS
  <2>7. inbuf' = [inbuf EXCEPT ![c] = got, ![c + 1] = z]
    BY <1>3, <2>1, <2>5, <2>6
  <2>8. inbuf'[c] = got /\ inbuf'[c + 1] = z /\ \A j \in DOMAIN inbuf : j # c /\ j # c + 1 => inbuf'[j] = inbuf[j]
    BY <1>3, <2>5, <2>7
  <2>9. \A j \in 0 .. c - 1 : inbuf'[j] = inbuf[j]
    BY <1>3, <2>5, <2>8
  <2>10. numbered' \/ inbuf'[2] # ":"
    <3> SUFFICES ASSUME ~numbered, inbuf'[2] = ":" PROVE FALSE
      BY <1>2
    <3>1. 2 \in DOMAIN inbuf
      BY <1>3
    <3>2. c = 2
      <4>1. CASE c + 1 = 2
        <5>1. inbuf'[2] = z /\ (z = "NUL" \/ z = inbuf[2])
          BY <2>6, <2>8, <4>1
        <5> QED
          BY <1>3, <5>1
      <4>2. CASE c # 2 /\ c + 1 # 2
        BY <1>3, <2>8, <3>1, <4>2
      <4> QED
        BY <4>1, <4>2
    <3>3. Head(to_stub) = ":"
      BY <1>2, <2>8, <3>2
    <3>4. PICK k \in 1 .. c + 2 : k \in 1 .. Len(Body) /\ Body[k] = ":"
      BY <1>2, <1>3, <2>5, <3>3, DataColon
    <3>5. \A i \in 1 .. Len(Body) : i <= 4 => Body[i] # ":"
      BY BodyIs DEF IInv
    <3> QED
      BY <3>2, <3>4, <3>5
  <2>11. PICK buf2 : buf2 = inbuf'
    OBVIOUS
  <2>12. AtData(Frm, Body, Tail(to_stub), c + 1, (checksum + Ascii[Head(to_stub)]) % 256, buf2, faults)
    <3>1. /\ AtData(Frm, Body, to_stub, c, checksum, inbuf, faults)
          /\ Head(to_stub) \notin {"$", "#"} /\ buf2[c] = Head(to_stub)
          /\ \A j \in 0 .. c - 1 : buf2[j] = inbuf[j]
      BY <1>2, <1>3, <1>6, <2>5, <2>8, <2>9, <2>11
    <3>2. IsFrame(Frm, Body) /\ to_stub \in Seq(Chars) /\ to_stub # <<>> /\ c \in Nat /\ checksum \in 0 .. 255
      BY <1>2, <1>3
    <3> QED
      BY <3>1, <3>2, DataChar
  <2>13. AtData(Frm', Body', to_stub', count', checksum', inbuf', faults')
    BY <1>2, <2>1, <2>5, <2>11, <2>12
  <2>14. pc' \in {"start", "data"}
    BY <2>1
  <2>15. Reading'
    BY <2>10, <2>13, <2>14 DEF Reading
  <2> QED
    BY <2>2, <2>4, <2>15, ReadingOn
<1> QED
  BY <1>4, <1>5, <1>6

LEMMA ReadingSum1 ==
  ASSUME IInv, ReadSum1
  PROVE  IInv'
<1>1. /\ pc = "sum1" /\ GetDebugChar /\ UNCHANGED <<outbuf, to_host, inbuf, count, checksum, ptr>>
      /\ xmitcsum' = (16 * Hex(got)) % 256 /\ pc' = "sum2" /\ pc \in Mid
  BY DEF ReadSum1, Mid
<1>2. /\ to_stub \in Seq(Chars) /\ to_stub # <<>> /\ to_stub' = Tail(to_stub) /\ got = Head(to_stub)
      /\ UNCHANGED <<request, numbered, faults, registers, memory, remote_debug>>
      /\ Body' = Body /\ Frm' = Frm /\ IsFrame(Frm, Body)
  BY <1>1, Reads
<1>3. QuietRead
  BY <1>1 DEF QuietRead, Mid
<1>4. TypeOK'
  <2>1. xmitcsum' \in 0 .. 255
    <3>1. Hex(got) \in Int
      BY HexIs
    <3>2. 16 * Hex(got) \in Int
      BY <3>1
    <3> QED
      BY <1>1, <3>2, ModByte
  <2> QED
    BY <1>1, <1>2, <2>1 DEF IInv, TypesOK, TypeOK
<1>5. AtSum1(Frm, Body, to_stub, count, checksum, inbuf, faults) /\ (numbered \/ inbuf[2] # ":")
  BY <1>1 DEF IInv, Reading
<1>6. AtSum2(Frm, Body, Tail(to_stub), count, checksum, inbuf, (16 * Hex(Head(to_stub))) % 256, faults)
  BY <1>2, <1>5, SumFirst
<1>7. AtSum2(Frm', Body', to_stub', count', checksum', inbuf', xmitcsum', faults')
  BY <1>1, <1>2, <1>6
<1>8. Reading'
  BY <1>1, <1>2, <1>5, <1>7 DEF Reading
<1> QED
  BY <1>3, <1>4, <1>8, ReadingOn

(* Characters on the line back.                                            *)
LEMMA CharIs ==
  ASSUME NEW ch \in Chars
  PROVE  /\ Char(ch) \in Item({<<>>}) /\ Char(ch).is = ch /\ Char(ch).is # "packet"
<1>1. "packet" \notin Chars
  BY CharsAre
<1> QED
  BY <1>1 DEF Char, Item

LEMMA ThreeMore ==
  ASSUME NEW S, NEW h \in Seq(S), NEW x \in S, NEW y \in S, NEW z \in S
  PROVE  h \o <<x, y, z>> = Append(Append(Append(h, x), y), z)
<1>1. <<x, y, z>> \in Seq(S) /\ Len(<<x, y, z>>) = 3
      /\ <<x, y, z>>[1] = x /\ <<x, y, z>>[2] = y /\ <<x, y, z>>[3] = z
  OBVIOUS
<1>2. PICK t \in Seq(S) : t = <<x, y, z>> /\ Len(t) = 3 /\ t[1] = x /\ t[2] = y /\ t[3] = z
  BY <1>1
<1> DEFINE Longer(s, e) == /\ Append(s, e) \in Seq(S) /\ Len(Append(s, e)) = Len(s) + 1
                           /\ Append(s, e)[Len(s) + 1] = e
                           /\ \A i \in 1 .. Len(s) : Append(s, e)[i] = s[i]
<1> HIDE DEF Longer
<1>10. ASSUME NEW s \in Seq(S), NEW e \in S PROVE Longer(s, e)
  BY AppendProperties DEF Longer
<1>3. PICK p \in Seq(S) : /\ p = Append(h, x) /\ Len(p) = Len(h) + 1 /\ p[Len(h) + 1] = x
                          /\ \A i \in 1 .. Len(h) : p[i] = h[i]
  <2>1. Longer(h, x)
    BY <1>10
  <2> QED
    BY <2>1, Zenon DEF Longer
<1>4. PICK q \in Seq(S) : /\ q = Append(p, y) /\ Len(q) = Len(p) + 1 /\ q[Len(p) + 1] = y
                          /\ \A i \in 1 .. Len(p) : q[i] = p[i]
  <2>1. Longer(p, y)
    BY <1>10
  <2> QED
    BY <2>1, Zenon DEF Longer
<1>5. PICK u \in Seq(S) : /\ u = Append(q, z) /\ Len(u) = Len(q) + 1 /\ u[Len(q) + 1] = z
                          /\ \A i \in 1 .. Len(q) : u[i] = q[i]
  <2>1. Longer(q, z)
    BY <1>10
  <2> QED
    BY <2>1, Zenon DEF Longer
<1>6. Len(h) \in Nat /\ Len(u) = Len(h) + 3
  BY <1>3, <1>4, <1>5
<1>7. ASSUME NEW i \in 1 .. Len(u)
      PROVE  u[i] = IF i <= Len(h) THEN h[i] ELSE t[i - Len(h)]
  <2>1. CASE i <= Len(h)
    <3>1. i \in 1 .. Len(h) /\ i \in 1 .. Len(p) /\ i \in 1 .. Len(q)
      BY <1>3, <1>4, <1>6, <2>1
    <3>2. u[i] = h[i]
      BY <1>3, <1>4, <1>5, <3>1
    <3> QED
      BY <2>1, <3>2
  <2>2. CASE i = Len(h) + 1
    <3>1. i \in 1 .. Len(p) /\ i \in 1 .. Len(q) /\ ~(i <= Len(h)) /\ i - Len(h) = 1
      BY <1>3, <1>4, <1>6, <2>2
    <3>2. u[i] = x
      BY <1>3, <1>4, <1>5, <2>2, <3>1
    <3> QED
      BY <1>2, <3>1, <3>2
  <2>3. CASE i = Len(h) + 2
    <3>1. i = Len(p) + 1 /\ i \in 1 .. Len(q) /\ ~(i <= Len(h)) /\ i - Len(h) = 2
      BY <1>3, <1>4, <1>6, <2>3
    <3>2. u[i] = y
      BY <1>4, <1>5, <3>1
    <3> QED
      BY <1>2, <3>1, <3>2
  <2>4. CASE i = Len(h) + 3
    <3>1. i = Len(q) + 1 /\ ~(i <= Len(h)) /\ i - Len(h) = 3
      BY <1>3, <1>4, <1>6, <2>4
    <3>2. u[i] = z
      BY <1>5, <3>1
    <3> QED
      BY <1>2, <3>1, <3>2
  <2> QED
    BY <1>6, <2>1, <2>2, <2>3, <2>4
<1>8. Len(u) = Len(h) + Len(t)
  BY <1>2, <1>6
<1>9. h \o t = u
  BY <1>7, <1>8, JoinIs
<1> QED
  BY <1>2, <1>3, <1>4, <1>5, <1>9

(* The stub answers a packet: with a "+" or a "-", and nothing before it.  *)
Answer(u, rep, ch) ==
  /\ Answers(u) /\ Single(u) /\ Old(u, rep)
  /\ \A c \in Verdict : Says(u, c) <=> c = ch

LEMMA FirstAnswer ==
  ASSUME NEW h, Answers(h), ~Says(h, "+"), ~Says(h, "-"), NEW rep \in BOOLEAN, Old(h, rep), NEW ch \in Verdict
  PROVE  Answer(Append(h, Char(ch)), rep, ch)
<1>1. ch \in Chars
  BY CharsAre DEF Verdict
<1>2. PICK e \in Item({<<>>}) : e = Char(ch) /\ e.is = ch /\ e.is # "packet"
  BY <1>1, CharIs
<1>3. PICK u : u = Append(h, e)
  OBVIOUS
<1>4. /\ Answers(u) /\ Single(u) /\ Old(u, rep)
      /\ \A c : Says(u, c) <=> Says(h, c) \/ e.is = c
  BY <1>2, <1>3, OneMore
<1> QED
  BY <1>2, <1>3, <1>4 DEF Answer, Verdict

LEMMA NextAnswer ==
  ASSUME NEW u, NEW rep \in BOOLEAN, NEW ch \in Verdict, Answer(u, rep, ch), NEW d \in Chars \ Verdict
  PROVE  Answer(Append(u, Char(d)), rep, ch)
<1>1. PICK e \in Item({<<>>}) : e = Char(d) /\ e.is = d /\ e.is # "packet"
  BY CharIs
<1>2. PICK v : v = Append(u, e)
  OBVIOUS
<1>3. Answers(u) /\ Single(u) /\ Old(u, rep) /\ e.is \notin Verdict
  BY <1>1 DEF Answer
<1>4. /\ Answers(v) /\ Single(v) /\ Old(v, rep)
      /\ \A c : Says(v, c) <=> Says(u, c) \/ e.is = c
  BY <1>1, <1>2, <1>3, OneMore
<1> QED
  BY <1>1, <1>2, <1>4 DEF Answer

(* The stub has read the whole packet and answers it.                      *)
LEMMA Settling ==
  ASSUME IInv, pc = "sum2", GetDebugChar, UNCHANGED <<outbuf, inbuf, count, checksum>>,
         xmitcsum' \in 0 .. 255, ptr' \in {0, 3}, ~Dollar(to_stub'),
         NEW ch \in Verdict, Answer(to_host', host = "reply", ch),
         \/ pc' = "start" /\ ch = "-"
         \/ /\ pc' = "command" /\ ch = "+" /\ Intact(Body, count, checksum, inbuf)
            /\ ptr' = IF numbered THEN 3 ELSE 0
  PROVE  IInv'
<1>1. /\ UNCHANGED <<host, request, numbered, asked, runs, faults, registers, memory, remote_debug>>
      /\ to_stub' \in Seq(Chars) /\ Body' = Body /\ Frm' = Frm /\ Whole(Frm, to_stub')
  BY Reads
<1>2. host = "ack" /\ ~Says(to_host, "+") /\ pc \in Mid
  BY Unanswered DEF Mid
<1>3. /\ Answers(to_host') /\ Single(to_host') /\ Old(to_host', host = "reply")
      /\ Says(to_host', "+") <=> ch = "+"
      /\ Says(to_host', "-") <=> ch = "-"
  BY DEF Answer, Verdict
<1>4. pc' \in {"start", "command"} /\ pc' \notin Mid
  BY DEF Mid
<1>5. TypesOK'
  <2>1. TypeOK'
    BY <1>1, <1>4 DEF IInv, TypesOK, TypeOK
  <2> QED
    BY <1>1, <1>3, <1>4, <2>1 DEF IInv, TypesOK
<1>6. Line'
  BY <1>1, <1>2, <1>3, <1>4 DEF Line
<1>7. Turns'
  BY <1>1, <1>2, <1>3, <1>4 DEF Turns, Verdict
<1>8. Reading'
  BY <1>1, <1>4 DEF IInv, Reading
<1>9. Replies'
  <2>1. Old(to_host', (host = "reply")')
    BY <1>1, <1>3
  <2>2. Current(to_host', (host = "reply")', Text(outbuf, 0)')
    BY <2>1 DEF Old, Current
  <2> QED
    BY <2>1, <2>2 DEF Replies
<1>10. Counted'
  <2>1. One(pc = "command") = 0 /\ One(host # "ack" \/ Says(to_host, "+")) = 0
    BY <1>2, OneIs
  <2>2. runs <= faults /\ runs \in Nat /\ faults \in Nat
    BY <2>1 DEF IInv, Counted, TypesOK
  <2>3. CASE pc' = "command"
    <3>1. ch = "+" /\ Says(to_host', "+")
      BY <1>3, <2>3
    <3>2. One(pc' = "command") = 1 /\ One((host # "ack" \/ Says(to_host, "+"))') = 1
      BY <2>3, <3>1, OneIs
    <3>3. runs' + One(pc' = "command") <= faults' + One((host # "ack" \/ Says(to_host, "+"))')
      BY <1>1, <2>2, <3>2
    <3> QED
      BY <2>3, <3>3 DEF Counted
  <2>4. CASE pc' = "start"
    <3>1. ch = "-" /\ ~Says(to_host', "+")
      BY <1>3, <2>4
    <3>2. One(pc' = "command") = 0 /\ One((host # "ack" \/ Says(to_host, "+"))') = 0
      BY <1>1, <1>2, <2>4, <3>1, OneIs
    <3>3. runs' + One(pc' = "command") <= faults' + One((host # "ack" \/ Says(to_host, "+"))')
      BY <1>1, <2>2, <3>2
    <3> QED
      BY <1>1, <1>2, <3>1, <3>3 DEF Counted
  <2> QED
    BY <1>4, <2>3, <2>4
<1> QED
  BY <1>5, <1>6, <1>7, <1>8, <1>9, <1>10 DEF IInv

LEMMA ReadingSum2 ==
  ASSUME IInv, ReadSum2
  PROVE  IInv'
<1>1. /\ pc = "sum2" /\ GetDebugChar /\ UNCHANGED <<outbuf, inbuf, count, checksum>>
      /\ xmitcsum' = (xmitcsum + Hex(got)) % 256 /\ pc \in Mid
  BY DEF ReadSum2, Mid
<1>2. /\ to_stub \in Seq(Chars) /\ to_stub # <<>> /\ to_stub' = Tail(to_stub) /\ got = Head(to_stub)
      /\ IsFrame(Frm, Body)
  BY <1>1, Reads
<1>3. AtSum2(Frm, Body, to_stub, count, checksum, inbuf, xmitcsum, faults) /\ (numbered \/ inbuf[2] # ":")
      /\ Answers(to_host) /\ xmitcsum \in Int /\ ptr \in {0, 3}
  BY <1>1 DEF IInv, Reading, TypesOK, TypeOK
<1>4. xmitcsum' \in 0 .. 255
  <2>1. Hex(got) \in Int
    BY HexIs
  <2>2. xmitcsum + Hex(got) \in Int
    BY <1>3, <2>1
  <2> QED
    BY <1>1, <2>2, ModByte
<1>5. ~Dollar(to_stub') /\ (xmitcsum' = checksum => Intact(Body, count, checksum, inbuf))
  BY <1>1, <1>2, <1>3, SumSecond
<1>6. ~Says(to_host, "+") /\ ~Says(to_host, "-") /\ Old(to_host, host = "reply")
  BY <1>1, Unanswered
<1> DEFINE rep == host = "reply"
<1>7. rep \in BOOLEAN /\ Old(to_host, rep) /\ "+" \in Verdict /\ "-" \in Verdict
  BY <1>6 DEF Verdict
<1> HIDE DEF rep
<1>8. ASSUME NEW ch \in Verdict PROVE Answer(Append(to_host, Char(ch)), rep, ch)
  BY <1>3, <1>6, <1>7, FirstAnswer
<1>9. CASE xmitcsum' # checksum
  <2>1. to_host' = Append(to_host, Char("-")) /\ pc' = "start" /\ ptr' = ptr
    BY <1>9 DEF ReadSum2, SumRight
  <2>2. Answer(to_host', rep, "-")
    BY <1>7, <1>8, <2>1
  <2> QED
    BY <1>1, <1>3, <1>4, <1>5, <1>7, <2>1, <2>2, Settling DEF rep
<1>10. CASE xmitcsum' = checksum
  <2>1. Intact(Body, count, checksum, inbuf) /\ pc' = "command"
    BY <1>5, <1>10 DEF ReadSum2, SumRight
  <2>2. CASE numbered
    <3>1. PICK l \in Nat : l = Len(Body) /\ l >= 3 /\ Body[1] = "0" /\ Body[2] = "1" /\ Body[3] = ":"
      <4>1. Len(Body) \in Nat /\ Len(Body) >= 3
        BY <2>2, BodyIs DEF IInv
      <4> QED
        BY <2>2, <4>1, BodyIs DEF IInv
    <3>2. 1 \in 1 .. l /\ 2 \in 1 .. l /\ 3 \in 1 .. l /\ 1 - 1 = 0 /\ 2 - 1 = 1 /\ 3 - 1 = 2
      BY <3>1
    <3>3. inbuf[0] = "0" /\ inbuf[1] = "1" /\ inbuf[2] = ":"
      BY <2>1, <3>1, <3>2 DEF Intact, Filled
    <3>4. to_host' = to_host \o <<Char("+"), Char("0"), Char("1")>> /\ ptr' = 3
      BY <1>10, <3>3 DEF ReadSum2, SumRight
    <3>5. to_host' = Append(Append(Append(to_host, Char("+")), Char("0")), Char("1"))
      <4>1. PICK T : to_host \in Seq(Item(T))
        BY <1>3 DEF Answers
      <4> DEFINE S == Item(T \cup {<<>>})
      <4>2. "+" \in Chars /\ "0" \in Chars /\ "1" \in Chars
        BY CharsAre
      <4>3. Char("+") \in S /\ Char("0") \in S /\ Char("1") \in S
        BY <4>2, CharIs DEF Item
      <4>4. Item(T) \subseteq S
        BY DEF Item
      <4> HIDE DEF S
      <4>5. to_host \in Seq(S)
        BY <4>1, <4>4
      <4> QED
        BY <3>4, <4>3, <4>5, ThreeMore
    <3>6. "0" \in Chars \ Verdict /\ "1" \in Chars \ Verdict
      BY CharsAre DEF Verdict
    <3>7. Answer(Append(to_host, Char("+")), rep, "+")
      BY <1>7, <1>8
    <3>8. Answer(Append(Append(to_host, Char("+")), Char("0")), rep, "+")
      BY <1>7, <3>6, <3>7, NextAnswer
    <3>9. Answer(to_host', rep, "+")
      BY <1>7, <3>5, <3>6, <3>8, NextAnswer
    <3> QED
      BY <1>1, <1>4, <1>5, <1>7, <2>1, <2>2, <3>4, <3>9, Settling DEF rep
  <2>3. CASE ~numbered
    <3>1. to_host' = Append(to_host, Char("+")) /\ ptr' = 0
      BY <1>3, <1>10, <2>3 DEF ReadSum2, SumRight
    <3>2. Answer(to_host', rep, "+")
      BY <1>7, <1>8, <3>1
    <3> QED
      BY <1>1, <1>4, <1>5, <1>7, <2>1, <2>3, <3>1, <3>2, Settling DEF rep
  <2> QED
    BY <2>2, <2>3
<1> QED
  BY <1>9, <1>10

(* The stub waits for its packet to be acknowledged, or sends it again.    *)
LEMMA ReadingAck ==
  ASSUME IInv, ReadAck
  PROVE  IInv'
<1>1. /\ pc = "ack" /\ GetDebugChar /\ UNCHANGED <<inbuf, count, checksum, xmitcsum, ptr, outbuf>>
  BY DEF ReadAck, stub
<1>2. /\ UNCHANGED <<host, request, numbered, asked, runs, faults, registers, memory, remote_debug>>
      /\ to_stub' \in Seq(Chars) /\ Body' = Body /\ Frm' = Frm /\ Whole(Frm, to_stub')
      /\ Dollar(to_stub') => Dollar(to_stub)
  BY <1>1, Reads
<1>3. \/ pc' = "start" /\ to_host' = to_host
      \/ pc' = "ack" /\ to_host' = Append(to_host, Packet(outbuf))
  BY <1>1 DEF ReadAck
<1>4. pc' \in {"start", "ack"} /\ pc \notin Mid /\ pc' \notin Mid
  BY <1>1, <1>3 DEF Mid
<1> DEFINE rep == host = "reply"
<1>5. /\ Answers(to_host') /\ Single(to_host') /\ Current(to_host', rep, Text(outbuf, 0))
      /\ Says(to_host', "+") <=> Says(to_host, "+")
      /\ Says(to_host', "-") <=> Says(to_host, "-")
  <2>1. Answers(to_host) /\ Single(to_host) /\ Current(to_host, rep, Text(outbuf, 0)) /\ rep \in BOOLEAN
    BY DEF IInv, TypesOK, Line, Replies
  <2> HIDE DEF rep
  <2>2. CASE to_host' = to_host
    BY <2>1, <2>2
  <2>3. CASE to_host' = Append(to_host, Packet(outbuf))
    <3>1. PICK U : Packet(outbuf) \in Item(U) /\ Packet(outbuf).is = "packet"
                   /\ Packet(outbuf).text = Text(outbuf, 0)
      BY PacketIs
    <3>2. PICK e \in Item(U) : e = Packet(outbuf) /\ e.is = "packet" /\ e.text = Text(outbuf, 0)
      BY <3>1
    <3>3. to_host' = Append(to_host, e) /\ e.is \notin Verdict
      BY <2>3, <3>2 DEF Verdict
    <3>4. /\ Answers(to_host') /\ Single(to_host')
          /\ \A ch : Says(to_host', ch) <=> Says(to_host, ch) \/ e.is = ch
          /\ Current(to_host', rep, Text(outbuf, 0))
      BY <2>1, <3>2, <3>3, OneMore
    <3> QED
      BY <3>2, <3>4
  <2> QED
    BY <1>3, <2>2, <2>3
<1>6. TypesOK'
  BY <1>1, <1>2, <1>4, <1>5 DEF IInv, TypesOK, TypeOK
<1>7. Line'
  BY <1>2, <1>4, <1>5 DEF IInv, Line
<1>8. Turns'
  BY <1>2, <1>4 DEF Turns
<1>9. Reading'
  BY <1>1, <1>2, <1>4 DEF IInv, Reading
<1>10. Replies'
  <2>1. Text(outbuf, 0)' = Text(outbuf, 0) /\ (host = "reply")' = (host = "reply")
    BY <1>1, <1>2 DEF Text
  <2> QED
    BY <1>4, <1>5, <2>1 DEF Replies
<1>11. Counted'
  <2>1. One(pc = "command") = 0 /\ One(pc' = "command") = 0
    BY <1>1, <1>4, OneIs
  <2>2. One((host # "ack" \/ Says(to_host, "+"))') = One(host # "ack" \/ Says(to_host, "+"))
    BY <1>2, <1>5 DEF One
  <2>3. pc # "command" /\ pc' # "command"
    BY <1>1, <1>4
  <2> QED
    BY <1>2, <1>5, <2>1, <2>2, <2>3 DEF IInv, Counted
<1> QED
  BY <1>6, <1>7, <1>8, <1>9, <1>10, <1>11 DEF IInv

-----------------------------------------------------------------------------
(* What the debugger and the line do to the state of the stub: nothing.    *)
LEMMA HostTypes ==
  ASSUME IInv, UNCHANGED <<host_only, request, asked, runs>>, faults' \in {0, 1},
         to_stub' \in Seq(Chars), Answers(to_host'), host' \in {"idle", "ack", "reply"}
  PROVE  /\ TypesOK' /\ Body' = Body /\ Frm' = Frm /\ Text(outbuf, 0)' = Text(outbuf, 0)
         /\ UNCHANGED <<pc, inbuf, count, checksum, xmitcsum, ptr, numbered>>
<1>1. UNCHANGED <<pc, inbuf, count, checksum, xmitcsum, ptr, numbered, outbuf, registers, memory, remote_debug>>
  BY DEF host_only, stub, state
<1>2. Body' = Body /\ Frm' = Frm
  BY <1>1, SameRequest
<1>3. TypesOK'
  BY <1>1 DEF IInv, TypesOK, TypeOK
<1> QED
  BY <1>1, <1>2, <1>3 DEF Text

(* It has read what came first on the line back.                           *)
LEMMA HostReads ==
  ASSUME IInv, to_host # <<>>
  PROVE  /\ Answers(Tail(to_host)) /\ Single(Tail(to_host)) /\ Head(to_host) = to_host[1]
         /\ Head(to_host).is \in Chars \cup {"packet"}
         /\ \A ch \in Verdict : Says(Tail(to_host), ch) => Says(to_host, ch)
         /\ Head(to_host).is \in Verdict => \A ch \in Verdict : ~Says(Tail(to_host), ch)
         /\ \A ch \in Verdict : Head(to_host).is = ch => Says(to_host, ch)
         /\ \A ch : Says(to_host, ch) /\ Head(to_host).is # ch => Says(Tail(to_host), ch)
         /\ \A reply \in BOOLEAN : \A text : Current(to_host, reply, text) => Current(Tail(to_host), reply, text)
         /\ \A reply \in BOOLEAN : Old(to_host, reply) => Old(Tail(to_host), reply)
<1>1. PICK h : h = to_host
  OBVIOUS
<1>2. Answers(h) /\ h # <<>> /\ Single(h)
  BY <1>1 DEF IInv, TypesOK, Line
<1>3. /\ Answers(Tail(h)) /\ Len(h) \in Nat \ {0} /\ Len(Tail(h)) = Len(h) - 1
      /\ Head(h) = h[1] /\ h[1].is \in Chars \cup {"packet"}
      /\ \A i \in 1 .. Len(h) - 1 : Tail(h)[i] = h[i + 1]
  BY <1>2, AnswersTail
<1>4. PICK u : u = Tail(h)
  OBVIOUS
<1>5. Len(u) = Len(h) - 1 /\ \A i \in 1 .. Len(u) : u[i] = h[i + 1]
  BY <1>3, <1>4
<1>6. /\ Single(u)
      /\ \A ch \in Verdict : Says(u, ch) => Says(h, ch)
      /\ \A reply \in BOOLEAN : \A text : Current(h, reply, text) => Current(u, reply, text)
      /\ \A reply \in BOOLEAN : Old(h, reply) => Old(u, reply)
  <2>1. /\ Len(h) \in Nat /\ 1 \in {0, 1}
        /\ \A i \in 1 .. Len(u) : u[i].is \in Verdict \cup {"packet"} =>
                                    u[i].is = h[i + 1].is /\ u[i].text = h[i + 1].text
    BY <1>3, <1>5
  <2> QED
    BY <1>2, <1>5, <2>1, FewerAnswers
<1>7. ASSUME h[1].is \in Verdict, NEW ch \in Verdict PROVE ~Says(u, ch)
  <2> SUFFICES ASSUME NEW i \in 1 .. Len(u), u[i].is = ch PROVE FALSE
    BY DEF Says
  <2>1. i + 1 \in 1 .. Len(h) /\ h[i + 1].is \in Verdict /\ 1 \in 1 .. Len(h) /\ i + 1 # 1
    BY <1>3, <1>5
  <2> QED
    BY <1>2, <1>7, <2>1 DEF Single
<1>8. ASSUME NEW ch, h[1].is = ch PROVE Says(h, ch)
  <2>1. 1 \in 1 .. Len(h)
    BY <1>3
  <2> QED
    BY <1>8, <2>1 DEF Says
<1>9. ASSUME NEW ch, Says(h, ch), h[1].is # ch PROVE Says(u, ch)
  <2>1. PICK i \in 1 .. Len(h) : h[i].is = ch
    BY <1>9 DEF Says
  <2>2. i # 1
    BY <1>9, <2>1
  <2>3. PICK k \in 1 .. Len(h) - 1 : k + 1 = i
    BY <1>3, <2>1, <2>2
  <2>4. k \in 1 .. Len(u) /\ u[k].is = ch
    BY <1>5, <2>1, <2>3
  <2> QED
    BY <2>4 DEF Says
<1> QED
  BY <1>1, <1>3, <1>4, <1>6, <1>7, <1>8, <1>9

(* It acknowledges, or refuses, a packet.                                  *)
LEMMA Acking ==
  ASSUME IInv, NEW ch \in {"+", "-"}, to_stub' = to_stub \o <<ch>>,
         UNCHANGED <<host_only, request, faults>>
  PROVE  /\ Reading' /\ Whole(Frm', to_stub') /\ to_stub' \in Seq(Chars)
         /\ Dollar(to_stub') => Dollar(to_stub)
<1>1. UNCHANGED <<pc, inbuf, count, checksum, xmitcsum, ptr, numbered, faults>>
  BY DEF host_only, stub
<1>2. Body' = Body /\ Frm' = Frm
  BY <1>1, SameRequest
<1>3. to_stub \in Seq(Chars) /\ count \in Nat /\ faults \in {0, 1} /\ Whole(Frm, to_stub)
  BY GdbStubAssumption DEF IInv, TypesOK, TypeOK, Line
<1>4. IsFrame(Frm, Body) /\ Frm \in Seq(Chars)
  BY BodyIs, FrameFacts DEF IInv
<1>5. to_stub' \in Seq(Chars) /\ (Dollar(to_stub') => Dollar(to_stub))
  BY <1>3, AckIs
<1>6. Whole(Frm', to_stub')
  BY <1>2, <1>3, <1>4, WholeAck
<1>7. Reading'
  <2>1. pc = "data" => AtData(Frm, Body, to_stub \o <<ch>>, count, checksum, inbuf, faults)
    BY <1>3, <1>4, DataAck DEF IInv, Reading
  <2>2. /\ pc = "sum1" => AtSum1(Frm, Body, to_stub \o <<ch>>, count, checksum, inbuf, faults)
        /\ pc = "sum2" => AtSum2(Frm, Body, to_stub \o <<ch>>, count, checksum, inbuf, xmitcsum, faults)
    BY <1>3, <1>4, SumAck DEF IInv, Reading
  <2> QED
    BY <1>1, <1>2, <2>1, <2>2 DEF IInv, Reading
<1> QED
  BY <1>5, <1>6, <1>7

LEMMA AskedIs ==
  ASSUME NEW r, Askable(r.text)
  PROVE  \E b : IsFrame(Asked(r), b)
<1>1. r.text \in Seq(Plain)
  BY DEF Askable, Plain, Chars
<1>2. PICK x \in Seq(Plain), y \in Seq(Plain) : x = <<"0", "1", ":">> /\ y = r.text
  <2>1. "0" \in Plain /\ "1" \in Plain /\ ":" \in Plain
    BY CharsAre DEF Plain
  <2>2. <<"0", "1", ":">> \in Seq(Plain)
    BY <2>1
  <2> QED
    BY <1>1, <2>2
<1>3. x \o y \in Seq(Plain)
  BY Joined
<1>4. PICK b \in Seq(Plain) : b = IF numbered THEN <<"0", "1", ":">> \o r.text ELSE r.text
  BY <1>2, <1>3
<1>5. Asked(r) = Frame(b)
  BY <1>4 DEF Asked
<1> QED
  BY <1>5, FrameIs

LEMMA Asking ==
  ASSUME IInv, NEW r \in Requests, Ask(r)
  PROVE  IInv'
<1>1. /\ host = "idle" /\ host' = "ack" /\ to_stub' = to_stub \o Asked(r) /\ request' = r
      /\ asked' = asked + 1 /\ runs' = 0 /\ UNCHANGED <<to_host, faults>>
      /\ UNCHANGED <<pc, inbuf, count, checksum, xmitcsum, ptr, numbered, outbuf, registers, memory, remote_debug>>
  BY DEF Ask, host_only, stub, state
<1>2. pc \in {"ack", "start"} /\ pc \notin Mid /\ ~Dollar(to_stub) /\ to_stub \in Seq(Chars)
      /\ ~Says(to_host, "+") /\ ~Says(to_host, "-") /\ Single(to_host)
  BY <1>1 DEF IInv, Turns, Line, Mid, TypesOK
<1>3. Askable(r.text)
  BY RequestsAssumption
<1>4. Frm' = Asked(r)
  BY <1>1 DEF Frm, Asked
<1>5. PICK f, b : f = Asked(r) /\ IsFrame(f, b)
  BY <1>3, AskedIs
<1>6. Whole(Frm', to_stub') /\ to_stub' \in Seq(Chars)
  <2>1. Whole(f, to_stub \o f) /\ to_stub \o f \in Seq(Chars)
    BY <1>2, <1>5, WholeNew
  <2> QED
    BY <1>1, <1>4, <1>5, <2>1
<1>7. TypesOK'
  <2>1. asked' \in Nat /\ runs' \in Nat
    BY <1>1 DEF IInv, TypesOK
  <2>2. Askable(request'.text)
    BY <1>1, <1>3
  <2>3. TypeOK'
    BY <1>1 DEF IInv, TypesOK, TypeOK
  <2>4. Askable(request.text)'
    BY <2>2 DEF Askable
  <2> QED
    BY <1>1, <1>2, <1>6, <2>1, <2>3, <2>4 DEF IInv, TypesOK
<1>8. Line'
  BY <1>1, <1>2, <1>6 DEF Line
<1>9. Turns'
  BY <1>1, <1>2 DEF Turns
<1>10. Reading'
  BY <1>1, <1>2 DEF IInv, Reading
<1>11. Replies'
  <2>1. Current(to_host', FALSE, Text(outbuf, 0)')
    <3> SUFFICES ASSUME NEW i \in 1 .. Len(to_host), Awaited(to_host, i, FALSE) PROVE FALSE
      BY <1>1 DEF Current
    <3>1. PICK j \in 1 .. i - 1 : to_host[j].is = "+"
      BY DEF Awaited
    <3>2. Len(to_host) \in Nat
      BY DEF IInv, TypesOK, Answers
    <3>3. j \in 1 .. Len(to_host)
      BY <3>2
    <3> QED
      BY <1>2, <3>1, <3>3 DEF Says
  <2>2. (host = "reply")' = FALSE
    BY <1>1
  <2> QED
    BY <1>1, <1>2, <2>1, <2>2 DEF Replies
<1>12. Counted'
  <2>1. One(pc' = "command") = 0 /\ One((host # "ack" \/ Says(to_host, "+"))') \in {0, 1} /\ faults \in Nat
    <3>1. pc' # "command"
      BY <1>1, <1>2
    <3>2. faults \in Nat
      BY DEF IInv, TypesOK
    <3> QED
      BY <3>1, <3>2, OneIs
  <2> QED
    BY <1>1, <1>2, <2>1 DEF Counted
<1> QED
  BY <1>7, <1>8, <1>9, <1>10, <1>11, <1>12 DEF IInv

(* What the debugger reads, and what becomes of it.                        *)
LEMMA HostReading ==
  ASSUME IInv, HostRead
  PROVE  IInv'
<1> DEFINE item == Head(to_host)
<1>1. /\ host \in {"ack", "reply"} /\ to_host # <<>> /\ to_host' = Tail(to_host)
      /\ UNCHANGED <<host_only, request, asked, runs, faults>>
  BY DEF HostRead
<1>2. UNCHANGED <<pc, inbuf, count, checksum, xmitcsum, ptr, numbered, outbuf>>
  BY <1>1 DEF host_only, stub
<1>3. /\ Answers(to_host') /\ Single(to_host') /\ item = to_host[1]
      /\ item.is \in Chars \cup {"packet"}
      /\ \A ch \in Verdict : Says(to_host', ch) => Says(to_host, ch)
      /\ item.is \in Verdict => \A ch \in Verdict : ~Says(to_host', ch)
      /\ \A ch \in Verdict : item.is = ch => Says(to_host, ch)
      /\ \A ch : Says(to_host, ch) /\ item.is # ch => Says(to_host', ch)
      /\ \A reply \in BOOLEAN : \A text : Current(to_host, reply, text) => Current(to_host', reply, text)
      /\ \A reply \in BOOLEAN : Old(to_host, reply) => Old(to_host', reply)
  BY <1>1, HostReads
<1>4. /\ to_stub \in Seq(Chars) /\ faults \in {0, 1} /\ Whole(Frm, to_stub)
      /\ Current(to_host, host = "reply", Text(outbuf, 0))
      /\ pc \notin {"ack", "start"} => Old(to_host, host = "reply")
      /\ Says(to_host, "+") \/ Says(to_host, "-") => host = "ack" /\ pc \notin Mid /\ ~Dollar(to_stub)
      /\ Dollar(to_stub) => host = "ack"
  BY DEF IInv, TypesOK, Line, Replies
<1>5. "+" \in Verdict /\ "-" \in Verdict
  BY DEF Verdict
<1>6. Text(outbuf, 0)' = Text(outbuf, 0)
  BY <1>2 DEF Text
<1>7. ASSUME host' \in {"idle", "ack", "reply"}, to_stub' \in Seq(Chars), Reading',
             Whole(Frm', to_stub'), Dollar(to_stub') => host' = "ack",
             Says(to_host', "+") \/ Says(to_host', "-") => host' = "ack" /\ pc \notin Mid /\ ~Dollar(to_stub'),
             pc \in Mid => host' = "ack",
             pc = "command" => host' \in {"ack", "reply"} /\ ~Dollar(to_stub') /\ ~Says(to_host', "-"),
             host' = "idle" => pc \in {"ack", "start"},
             Current(to_host', host' = "reply", Text(outbuf, 0)),
             pc \notin {"ack", "start"} => Old(to_host', host' = "reply"),
             host' # "ack" \/ Says(to_host', "+") <=> host # "ack" \/ Says(to_host, "+"),
             host' = "reply" \/ Says(to_host', "+") => host = "reply" \/ Says(to_host, "+")
      PROVE  IInv'
  <2>1. TypesOK' /\ Body' = Body /\ Frm' = Frm
    BY <1>1, <1>3, <1>4, <1>7, HostTypes
  <2>2. Line'
    BY <1>2, <1>3, <1>7 DEF Line
  <2>3. Turns'
    BY <1>2, <1>7 DEF Turns
  <2>4. Replies'
    BY <1>2, <1>6, <1>7 DEF Replies
  <2>5. Counted'
    <3>1. One((host # "ack" \/ Says(to_host, "+"))') = One(host # "ack" \/ Says(to_host, "+"))
      BY <1>7 DEF One
    <3>2. One(pc' = "command") = One(pc = "command")
      BY <1>2
    <3> QED
      BY <1>1, <1>2, <1>7, <3>1, <3>2 DEF IInv, Counted
  <2> QED
    BY <1>7, <2>1, <2>2, <2>3, <2>4, <2>5 DEF IInv
<1>8. \A ch \in Verdict : to_stub' = to_stub \o <<ch>> =>
        /\ Reading' /\ Whole(Frm', to_stub') /\ to_stub' \in Seq(Chars)
        /\ Dollar(to_stub') => Dollar(to_stub)
  BY <1>1, Acking DEF Verdict
<1> HIDE DEF item
<1>9. CASE item.is = "packet" /\ host = "ack"
  <2>1. to_stub' = to_stub \o <<"+">> /\ host' = "ack"
    BY <1>9 DEF HostRead, Sends, item
  <2>2. /\ Reading' /\ Whole(Frm', to_stub') /\ to_stub' \in Seq(Chars)
        /\ Dollar(to_stub') => Dollar(to_stub)
    BY <1>5, <1>8, <2>1
  <2>3. \A ch \in Verdict : Says(to_host', ch) <=> Says(to_host, ch)
    BY <1>3, <1>9, CharsAre DEF Verdict
  <2> QED
    BY <1>3, <1>4, <1>5, <1>7, <1>9, <2>1, <2>2, <2>3 DEF IInv, Turns
<1>10. CASE item.is = "packet" /\ host = "reply"
  <2>1. /\ pc \in {"ack", "start"} /\ pc \notin Mid /\ pc # "command"
    <3>1. ~Old(to_host, host = "reply")
      <4>1. Awaited(to_host, 1, host = "reply")
        BY <1>3, <1>10 DEF Awaited
      <4>2. 1 \in 1 .. Len(to_host)
        <5>1. Len(to_host) \in Nat \ {0}
          BY <1>1, AnswersTail DEF IInv, TypesOK
        <5> QED
          BY <5>1
      <4> QED
        BY <4>1, <4>2 DEF Old
    <3> QED
      BY <1>4, <3>1 DEF Mid
  <2>2. ~Says(to_host, "+") /\ ~Says(to_host, "-") /\ ~Dollar(to_stub)
        /\ ~Says(to_host', "+") /\ ~Says(to_host', "-")
    BY <1>3, <1>4, <1>5, <1>10
  <2>3. PICK ch \in Verdict : to_stub' = to_stub \o <<ch>>
    BY <1>5, <1>10 DEF HostRead, Sends, item
  <2>4. /\ Reading' /\ Whole(Frm', to_stub') /\ to_stub' \in Seq(Chars) /\ ~Dollar(to_stub')
    BY <1>8, <2>2, <2>3
  <2>5. host' \in {"idle", "reply"}
    BY <1>10 DEF HostRead, item
  <2>6. Current(to_host', host' = "reply", Text(outbuf, 0))
    <3>1. CASE host' = "reply"
      BY <1>3, <1>4, <1>10, <3>1
    <3>2. CASE host' = "idle"
      <4> SUFFICES ASSUME NEW i \in 1 .. Len(to_host'), Awaited(to_host', i, FALSE) PROVE FALSE
        BY <3>2 DEF Current
      <4>1. PICK j \in 1 .. i - 1 : to_host'[j].is = "+"
        BY DEF Awaited
      <4>2. Len(to_host') \in Nat
        BY <1>3 DEF Answers
      <4>3. j \in 1 .. Len(to_host')
        BY <4>2
      <4> QED
        BY <2>2, <4>1, <4>3 DEF Says
    <3> QED
      BY <2>5, <3>1, <3>2
  <2> QED
    BY <1>7, <1>10, <2>1, <2>2, <2>4, <2>5, <2>6
<1>11. CASE item.is = "+" /\ host = "ack"
  <2>1. host' = "reply" /\ to_stub' = to_stub
    BY <1>11 DEF HostRead, item
  <2>2. Says(to_host, "+") /\ ~Says(to_host', "+") /\ ~Says(to_host', "-") /\ pc \notin Mid /\ ~Dollar(to_stub)
    BY <1>3, <1>4, <1>5, <1>11
  <2>3. Body' = Body /\ Frm' = Frm
    BY <1>1, <1>2, SameRequest
  <2>4. Reading'
    BY <1>1, <1>2, <2>1, <2>2, <2>3 DEF IInv, Reading, Mid
  <2>5. /\ Current(to_host', TRUE, Text(outbuf, 0))
        /\ pc \notin {"ack", "start"} => Old(to_host', TRUE)
    <3>1. /\ \A text : Current(to_host, FALSE, text) => Current(Tail(to_host), TRUE, text)
          /\ Old(to_host, FALSE) => Old(Tail(to_host), TRUE)
      <4>1. Answers(to_host) /\ to_host[1].is = "+"
        BY <1>3, <1>11 DEF IInv, TypesOK
      <4> QED
        BY <1>1, <4>1, NowAwaited
    <3>2. (host = "reply") = FALSE
      BY <1>11
    <3> QED
      BY <1>1, <1>4, <3>1, <3>2
  <2>6. (host' = "reply") = TRUE
    BY <2>1
  <2> QED
    BY <1>4, <1>7, <2>1, <2>2, <2>3, <2>4, <2>5, <2>6
<1>12. CASE item.is = "-" /\ host = "ack"
  <2>1. host' = host /\ to_stub' = to_stub \o Frm
    BY <1>12 DEF HostRead, Sends, item, Frm
  <2>2. Says(to_host, "-") /\ ~Says(to_host', "+") /\ ~Says(to_host', "-") /\ pc \notin Mid /\ ~Dollar(to_stub)
    BY <1>3, <1>4, <1>5, <1>12
  <2>3. ~Says(to_host, "+")
    BY <1>3, <1>12, <2>2
  <2>4. pc # "command"
    BY <2>2 DEF IInv, Turns
  <2>5. Body' = Body /\ Frm' = Frm /\ IsFrame(Frm, Body)
    BY <1>1, <1>2, SameRequest, BodyIs DEF IInv
  <2>6. Whole(Frm', to_stub') /\ to_stub' \in Seq(Chars)
    <3>1. Whole(Frm, to_stub \o Frm) /\ to_stub \o Frm \in Seq(Chars)
      BY <1>4, <2>2, <2>5, WholeNew
    <3> QED
      BY <2>1, <2>5, <3>1
  <2>7. Reading'
    BY <1>1, <1>2, <2>2, <2>4 DEF IInv, Reading, Mid
  <2> QED
    BY <1>3, <1>4, <1>7, <1>12, <2>1, <2>2, <2>3, <2>4, <2>6, <2>7
<1>13. CASE item.is \notin {"packet", "+", "-"}
  <2>1. host' = host /\ to_stub' = to_stub
    BY <1>13 DEF HostRead, item
  <2>2. \A ch \in Verdict : Says(to_host', ch) <=> Says(to_host, ch)
    BY <1>3, <1>13 DEF Verdict
  <2>3. Body' = Body /\ Frm' = Frm
    BY <1>1, <1>2, SameRequest
  <2>4. Reading'
    BY <1>1, <1>2, <2>1, <2>3 DEF IInv, Reading
  <2>5. /\ Says(to_host', "+") <=> Says(to_host, "+")
        /\ Says(to_host', "-") <=> Says(to_host, "-")
    BY <1>5, <2>2
  <2>6. /\ pc \in Mid => host' = "ack"
        /\ pc = "command" => host' \in {"ack", "reply"} /\ ~Dollar(to_stub') /\ ~Says(to_host', "-")
        /\ host' = "idle" => pc \in {"ack", "start"}
    BY <2>1, <2>5 DEF IInv, Turns
  <2>7. /\ Current(to_host', host' = "reply", Text(outbuf, 0))
        /\ pc \notin {"ack", "start"} => Old(to_host', host' = "reply")
    <3>1. (host' = "reply") = (host = "reply") /\ (host = "reply") \in BOOLEAN
      BY <2>1
    <3> QED
      BY <1>3, <1>4, <3>1
  <2>8. host' \in {"idle", "ack", "reply"} /\ to_stub' \in Seq(Chars) /\ Whole(Frm', to_stub')
    BY <1>1, <1>4, <2>1, <2>3
  <2> QED
    BY <1>4, <1>7, <2>1, <2>4, <2>5, <2>6, <2>7, <2>8
<1>14. item.is \in Verdict => host = "ack"
  BY <1>3, <1>4, <1>5 DEF Verdict
<1>15. CASE item.is = "packet"
  BY <1>1, <1>9, <1>10, <1>15
<1>16. CASE item.is = "+" \/ item.is = "-"
  <2>1. host = "ack"
    BY <1>14, <1>16 DEF Verdict
  <2> QED
    BY <1>11, <1>12, <1>16, <2>1
<1> QED
  BY <1>13, <1>15, <1>16

LEMMA HostWaiting ==
  ASSUME IInv, HostTimeout
  PROVE  IInv'
<1>1. /\ to_stub = <<>> /\ to_host = <<>> /\ pc \notin {"program", "command"}
      /\ host \in {"ack", "reply"}
      /\ UNCHANGED <<host_only, to_host, host, request, asked, runs, faults>>
  BY DEF HostTimeout
<1>2. UNCHANGED <<pc, inbuf, count, checksum, xmitcsum, ptr, numbered, outbuf>>
  BY <1>1 DEF host_only, stub
<1>3. Body' = Body /\ Frm' = Frm /\ IsFrame(Frm, Body) /\ Frm \in Seq(Chars)
  BY <1>1, <1>2, SameRequest, BodyIs, FrameFacts DEF IInv
<1>4. ~Says(to_host, "+") /\ ~Says(to_host, "-") /\ ~Dollar(to_stub)
  <2>1. Len(to_host) = 0 /\ Len(to_stub) = 0
    BY <1>1, EmptyList
  <2> QED
    BY <2>1 DEF Says, Dollar
<1>5. ASSUME to_stub' \in Seq(Chars), Whole(Frm, to_stub'), Reading', Dollar(to_stub') => host = "ack"
      PROVE  IInv'
  <2>1. TypesOK' /\ Text(outbuf, 0)' = Text(outbuf, 0)
    <3>1. faults' \in {0, 1} /\ Answers(to_host') /\ host' \in {"idle", "ack", "reply"}
      BY <1>1 DEF IInv, TypesOK
    <3> QED
      BY <1>1, <1>5, <3>1, HostTypes
  <2>2. Line'
    BY <1>1, <1>2, <1>3, <1>4, <1>5 DEF IInv, Line
  <2>3. Turns'
    BY <1>1, <1>2 DEF IInv, Turns
  <2>4. Replies'
    BY <1>1, <1>2, <2>1 DEF IInv, Replies
  <2>5. Counted'
    BY <1>1, <1>2 DEF IInv, Counted
  <2> QED
    BY <1>5, <2>1, <2>2, <2>3, <2>4, <2>5 DEF IInv
<1>6. CASE host = "ack" /\ to_stub' = to_stub \o Asked(request)
  <2>1. to_stub' = Frm
    <3>1. Frm = Asked(request)
      BY DEF Frm
    <3>2. <<>> \o Frm = Frm
      BY <1>3, ConcatSimplifications
    <3> QED
      BY <1>1, <1>6, <3>1, <3>2
  <2>2. Whole(Frm, Frm)
    <3>1. Whole(Frm, <<>> \o Frm)
      <4>1. <<>> \in Seq(Chars) /\ ~Dollar(<<>>)
        BY <1>1, <1>4, EmptyList
      <4> QED
        BY <1>3, <4>1, WholeNew
    <3> QED
      BY <1>3, <3>1, ConcatSimplifications
  <2>3. count \in Nat
    BY GdbStubAssumption DEF IInv, TypesOK, TypeOK
  <2>4. /\ AtData(Frm, Body, <<>>, count, checksum, inbuf, faults) => AtData(Frm, Body, Frm, count, checksum, inbuf, faults)
        /\ ~AtSum1(Frm, Body, <<>>, count, checksum, inbuf, faults)
        /\ AtSum2(Frm, Body, <<>>, count, checksum, inbuf, xmitcsum, faults) =>
             AtSum2(Frm, Body, Frm, count, checksum, inbuf, xmitcsum, faults)
    BY <1>3, <2>3, Repeated
  <2>5. Reading'
    BY <1>1, <1>2, <1>3, <2>1, <2>4 DEF IInv, Reading
  <2> QED
    BY <1>3, <1>5, <1>6, <2>1, <2>2, <2>5
<1>7. CASE host = "reply" /\ to_stub' = to_stub \o <<"-">>
  <2>1. /\ Reading' /\ Whole(Frm', to_stub') /\ to_stub' \in Seq(Chars)
        /\ Dollar(to_stub') => Dollar(to_stub)
    <3>1. "-" \in {"+", "-"}
      OBVIOUS
    <3> QED
      BY <1>1, <1>7, <3>1, Acking
  <2> QED
    BY <1>3, <1>4, <1>5, <2>1
<1> QED
  BY <1>6, <1>7 DEF HostTimeout, Sends

(* The line spoils a character: at most one.                               *)
LEMMA Spoiling ==
  ASSUME IInv, Fault, MaxFaults <= 1
  PROVE  IInv'
<1>1. /\ faults = 0 /\ faults' = 1
      /\ UNCHANGED <<host_only, host, request, asked, runs>>
  BY GdbStubAssumption DEF Fault, IInv, TypesOK
<1>2. UNCHANGED <<pc, inbuf, count, checksum, xmitcsum, ptr, numbered, outbuf>>
  BY <1>1 DEF host_only, stub
<1>3. Body' = Body /\ Frm' = Frm /\ IsFrame(Frm, Body) /\ Frm \in Seq(Chars)
  BY <1>1, <1>2, SameRequest, BodyIs, FrameFacts DEF IInv
<1>4. /\ to_stub \in Seq(Chars) /\ Answers(to_host) /\ host \in {"idle", "ack", "reply"} /\ count \in Nat
      /\ Whole(Frm, to_stub) /\ Single(to_host) /\ runs \in Nat
  BY GdbStubAssumption DEF IInv, TypesOK, TypeOK, Line
<1>5. CASE /\ to_stub # <<>> /\ to_host' = to_host
           /\ to_stub' \in {Tail(to_stub), Garbled(to_stub)}
  <2>1. /\ to_stub' \in Seq(Chars) /\ Whole(Frm, to_stub') /\ (Dollar(to_stub') => Dollar(to_stub))
        /\ pc = "data" => AtData(Frm, Body, to_stub', count, checksum, inbuf, 1)
        /\ pc = "sum1" => AtSum1(Frm, Body, to_stub', count, checksum, inbuf, 1)
        /\ pc = "sum2" => AtSum2(Frm, Body, to_stub', count, checksum, inbuf, xmitcsum, 1)
    <3>1. PICK s \in Seq(Chars) : s = to_stub /\ s # <<>>
      BY <1>4, <1>5
    <3>2. /\ pc = "data" => AtData(Frm, Body, s, count, checksum, inbuf, 0)
          /\ pc = "sum1" => AtSum1(Frm, Body, s, count, checksum, inbuf, 0)
          /\ pc = "sum2" => AtSum2(Frm, Body, s, count, checksum, inbuf, xmitcsum, 0)
      BY <1>1, <3>1 DEF IInv, Reading
    <3>3. /\ Tail(s) \in Seq(Chars) /\ Len(s) \in Nat \ {0} /\ Len(Tail(s)) = Len(s) - 1
          /\ \A j \in 1 .. Len(s) - 1 : Tail(s)[j] = s[j + 1]
      BY <3>1, TailIs
    <3>4. /\ Garbled(s) \in Seq(Chars) /\ Len(Garbled(s)) = Len(s) /\ Garbled(s)[1] = "bad"
          /\ \A j \in 2 .. Len(s) : Garbled(s)[j] = s[j]
      BY <3>1, GarbledIs
    <3>5. /\ Whole(Frm, Tail(s))
          /\ pc = "data" => AtData(Frm, Body, Tail(s), count, checksum, inbuf, 1)
          /\ pc = "sum1" => AtSum1(Frm, Body, Tail(s), count, checksum, inbuf, 1)
          /\ pc = "sum2" => AtSum2(Frm, Body, Tail(s), count, checksum, inbuf, xmitcsum, 1)
      BY <1>3, <1>4, <3>1, <3>2, WholeTail, DataLost, SumLost
    <3>6. /\ Whole(Frm, Garbled(s))
          /\ pc = "data" => AtData(Frm, Body, Garbled(s), count, checksum, inbuf, 1)
          /\ pc = "sum1" => AtSum1(Frm, Body, Garbled(s), count, checksum, inbuf, 1)
          /\ pc = "sum2" => AtSum2(Frm, Body, Garbled(s), count, checksum, inbuf, xmitcsum, 1)
      BY <1>3, <1>4, <3>1, <3>2, WholeGarbled, DataGarbled, SumGarbled
    <3>7. Dollar(Tail(s)) => Dollar(s)
      <4> SUFFICES ASSUME NEW i \in 1 .. Len(s) - 1, Tail(s)[i] = "$" PROVE Dollar(s)
        BY <3>3 DEF Dollar
      <4>1. i + 1 \in 1 .. Len(s) /\ s[i + 1] = "$"
        BY <3>3
      <4> QED
        BY <4>1 DEF Dollar
    <3>8. Dollar(Garbled(s)) => Dollar(s)
      <4> SUFFICES ASSUME NEW i \in 1 .. Len(s), Garbled(s)[i] = "$" PROVE Dollar(s)
        BY <3>4 DEF Dollar
      <4>1. i # 1
        BY <3>4
      <4>2. i \in 2 .. Len(s)
        BY <3>3, <4>1
      <4> QED
        BY <3>4, <4>2 DEF Dollar
    <3>9. CASE to_stub' = Tail(s)
      BY <3>1, <3>3, <3>5, <3>7, <3>9
    <3>10. CASE to_stub' = Garbled(s)
      BY <3>1, <3>4, <3>6, <3>8, <3>10
    <3> QED
      BY <1>5, <3>1, <3>9, <3>10
  <2>2. TypesOK' /\ Text(outbuf, 0)' = Text(outbuf, 0)
    <3>1. faults' \in {0, 1} /\ Answers(to_host') /\ host' \in {"idle", "ack", "reply"}
      BY <1>1, <1>4, <1>5
    <3> QED
      BY <1>1, <2>1, <3>1, HostTypes
  <2>3. Line'
    BY <1>1, <1>2, <1>3, <1>5, <2>1 DEF IInv, Line
  <2>4. Turns'
    BY <1>1, <1>2, <1>5, <2>1 DEF IInv, Turns
  <2>5. Reading'
    BY <1>1, <1>2, <1>3, <2>1 DEF IInv, Reading
  <2>6. Replies'
    BY <1>1, <1>2, <1>5, <2>2 DEF IInv, Replies
  <2>7. Counted'
    <3>1. One((host # "ack" \/ Says(to_host, "+"))') = One(host # "ack" \/ Says(to_host, "+"))
      BY <1>1, <1>5
    <3>2. One(pc' = "command") = One(pc = "command")
      BY <1>2
    <3>3. runs + One(pc = "command") <= One(host # "ack" \/ Says(to_host, "+"))
      BY <1>1, OneIs DEF IInv, Counted
    <3>4. \A x, y \in Int : x <= y => x <= 1 + y
      OBVIOUS
    <3>5. runs + One(pc = "command") \in Int /\ One(host # "ack" \/ Says(to_host, "+")) \in Int
      BY <1>4, OneIs
    <3>6. runs' + One(pc' = "command") <= faults' + One((host # "ack" \/ Says(to_host, "+"))')
      BY <1>1, <3>1, <3>2, <3>3, <3>4, <3>5
    <3> QED
      BY <1>1, <1>2, <1>5, <3>6 DEF IInv, Counted
  <2> QED
    BY <2>2, <2>3, <2>4, <2>5, <2>6, <2>7 DEF IInv
<1>6. CASE /\ to_host # <<>> /\ to_stub' = to_stub
           /\ to_host' \in {Tail(to_host), <<Spoilt(Head(to_host))>> \o Tail(to_host)}
  <2>1. PICK h : h = to_host /\ Answers(h) /\ h # <<>> /\ Single(h)
    BY <1>4, <1>6
  <2>0. PICK u : u = to_host'
    OBVIOUS
  <2>2. PICK n \in {0, 1} :
          /\ u = to_host' /\ Answers(u) /\ Len(u) = Len(h) - n /\ Len(h) \in Nat
          /\ \A i \in 1 .. Len(u) : u[i].is \in Verdict \cup {"packet"} =>
                                      u[i].is = h[i + n].is /\ u[i].text = h[i + n].text
    <3>1. CASE to_host' = Tail(h)
      <4>1. /\ Answers(Tail(h)) /\ Len(h) \in Nat \ {0} /\ Len(Tail(h)) = Len(h) - 1
            /\ \A i \in 1 .. Len(h) - 1 : Tail(h)[i] = h[i + 1]
        BY <2>1, AnswersTail
      <4> QED
        BY <2>0, <3>1, <4>1
    <3>2. CASE to_host' = <<Spoilt(Head(h))>> \o Tail(h)
      <4>1. u = <<Spoilt(Head(h))>> \o Tail(h)
        BY <2>0, <3>2
      <4>2. /\ Answers(u) /\ Len(u) = Len(h)
            /\ u[1].is \in {"packet", "bad"}
            /\ u[1].is = "packet" => u[1].is = h[1].is /\ u[1].text = h[1].text
            /\ \A i \in 2 .. Len(h) : u[i] = h[i]
        BY <2>1, <4>1, AnswersSpoilt
      <4>3. Len(h) \in Nat
        BY <2>1 DEF Answers
      <4>4. ASSUME NEW i \in 1 .. Len(u), u[i].is \in Verdict \cup {"packet"}
            PROVE  u[i].is = h[i + 0].is /\ u[i].text = h[i + 0].text
        <5>1. i + 0 = i
          BY <4>2, <4>3
        <5>2. CASE i = 1
          BY <4>2, <4>4, <5>1, <5>2 DEF Verdict
        <5>3. CASE i # 1
          <6>1. i \in 2 .. Len(h)
            BY <4>2, <4>3, <5>3
          <6> QED
            BY <4>2, <5>1, <6>1
        <5> QED
          BY <5>2, <5>3
      <4>5. 0 \in {0, 1} /\ Len(u) = Len(h) - 0
        BY <4>2, <4>3
      <4> QED
        BY <2>0, <4>2, <4>3, <4>4, <4>5
    <3> QED
      BY <1>6, <2>1, <3>1, <3>2
  <2>3. /\ Single(u)
        /\ \A ch \in Verdict : Says(u, ch) => Says(h, ch)
        /\ \A reply \in BOOLEAN : \A text : Current(h, reply, text) => Current(u, reply, text)
        /\ \A reply \in BOOLEAN : Old(h, reply) => Old(u, reply)
    BY <2>1, <2>2, FewerAnswers
  <2>4. "+" \in Verdict /\ "-" \in Verdict
    BY DEF Verdict
  <2>5. TypesOK' /\ Text(outbuf, 0)' = Text(outbuf, 0)
    <3>1. faults' \in {0, 1} /\ to_stub' \in Seq(Chars) /\ Answers(to_host') /\ host' \in {"idle", "ack", "reply"}
      BY <1>1, <1>4, <1>6, <2>2
    <3> QED
      BY <1>1, <3>1, HostTypes
  <2>6. Line'
    BY <1>1, <1>2, <1>3, <1>6, <2>1, <2>2, <2>3, <2>4 DEF IInv, Line
  <2>7. Turns'
    BY <1>1, <1>2, <1>6, <2>1, <2>2, <2>3, <2>4 DEF IInv, Turns
  <2>8. Reading'
    BY <1>1, <1>2, <1>3, <1>6 DEF IInv, Reading, AtData, AtSum1, AtSum2
  <2>9. Replies'
    <3>1. (host = "reply") \in BOOLEAN /\ (host = "reply")' = (host = "reply")
      BY <1>1
    <3> QED
      BY <1>2, <2>1, <2>2, <2>3, <2>5, <3>1 DEF IInv, Replies
  <2>10. Counted'
    <3>1. One(host # "ack" \/ Says(to_host, "+")) <= 1 /\ One(host # "ack" \/ Says(to_host, "+")) \in Nat
          /\ One((host # "ack" \/ Says(to_host, "+"))') \in Nat
      BY OneIs
    <3>2. One(pc' = "command") = One(pc = "command") /\ One(pc = "command") \in Nat
      BY <1>2, OneIs
    <3>3. runs + One(pc = "command") <= One(host # "ack" \/ Says(to_host, "+"))
      BY <1>1, OneIs DEF IInv, Counted
    <3>4. \A x, y, z \in Nat : x <= y /\ y <= 1 => x <= 1 + z
      OBVIOUS
    <3>5. runs + One(pc = "command") \in Nat
      BY <1>4, <3>2
    <3>6. runs' + One(pc' = "command") <= faults' + One((host # "ack" \/ Says(to_host, "+"))')
      BY <1>1, <3>1, <3>2, <3>3, <3>4, <3>5
    <3>7. Says(to_host', "+") => Says(to_host, "+")
      BY <2>1, <2>2, <2>3, <2>4
    <3> QED
      BY <1>1, <1>2, <3>6, <3>7 DEF IInv, Counted
  <2> QED
    BY <2>5, <2>6, <2>7, <2>8, <2>9, <2>10 DEF IInv
<1> QED
  BY <1>5, <1>6 DEF Fault, Garbled

-----------------------------------------------------------------------------
LEMMA Beginning ==
  ASSUME Init
  PROVE  IInv
<1>1. /\ pc = "program" /\ inbuf = [i \in 0 .. BUFMAX - 1 |-> "NUL"] /\ outbuf = inbuf
      /\ count = 0 /\ checksum = 0 /\ xmitcsum = 0 /\ ptr = 0 /\ remote_debug = TRUE
      /\ registers = [r \in Register |-> 0] /\ memory = [a \in Addr |-> 0]
      /\ to_stub = <<>> /\ to_host = <<>> /\ host = "reply" /\ request.text = <<>>
      /\ numbered \in BOOLEAN /\ asked = 0 /\ runs = 0 /\ faults = 0
  BY DEF Init
<1>2. BUFMAX \in Nat /\ BUFMAX > 4
  BY GdbStubAssumption
<1>3. Len(to_stub) = 0 /\ Len(to_host) = 0 /\ to_stub \in Seq(Chars) /\ Answers(to_host)
  BY <1>1, EmptyList DEF Answers
<1>4. Askable(request.text)
  BY <1>1, <1>2, EmptyList DEF Askable
<1>5. TypeOK
  BY <1>1, <1>2 DEF TypeOK
<1>6. TypesOK
  BY <1>1, <1>3, <1>4, <1>5 DEF TypesOK
<1>7. Line
  BY <1>1, <1>3 DEF Line, Whole, Dollar, Single, Says
<1>8. Turns
  BY <1>1 DEF Turns, Mid
<1>9. Reading
  BY <1>1, <1>2 DEF Reading
<1>10. Replies
  BY <1>3 DEF Replies, Current, Old
<1>11. Counted
  <2>1. One(pc = "command") = 0 /\ One(host # "ack" \/ Says(to_host, "+")) \in {0, 1}
    BY <1>1, OneIs
  <2> QED
    BY <1>1, <2>1 DEF Counted
<1> QED
  BY <1>6, <1>7, <1>8, <1>9, <1>10, <1>11 DEF IInv

LEMMA NothingHappens ==
  ASSUME IInv, UNCHANGED vars
  PROVE  IInv'
<1>1. UNCHANGED <<pc, inbuf, count, checksum, xmitcsum, ptr, outbuf, sigval, registers, memory, remote_debug,
                  to_stub, to_host, host, request, numbered, asked, want, faults, runs>>
  BY DEF vars, stub, state, debugger
<1>2. Body' = Body /\ Frm' = Frm
  BY <1>1, SameRequest
<1>3. TypesOK'
  BY <1>1 DEF IInv, TypesOK, TypeOK, Askable
<1>4. Line' /\ Turns'
  BY <1>1, <1>2 DEF IInv, Line, Turns
<1>5. Reading'
  BY <1>1, <1>2 DEF IInv, Reading
<1>6. Replies'
  BY <1>1 DEF IInv, Replies, Text
<1>7. Counted'
  BY <1>1 DEF IInv, Counted
<1> QED
  BY <1>3, <1>4, <1>5, <1>6, <1>7 DEF IInv

LEMMA Step ==
  ASSUME IInv, [Next]_vars, MaxFaults <= 1
  PROVE  IInv'
<1>1. CASE Stop
  BY <1>1, Stopping
<1>2. CASE Stub
  BY <1>2, Starting, ReadingData, ReadingSum1, ReadingSum2, ReadingAck, Commands, Resuming DEF Stub
<1>3. CASE HostRead
  BY <1>3, HostReading
<1>4. CASE HostTimeout
  BY <1>4, HostWaiting
<1>5. ASSUME NEW r \in Requests, Ask(r) PROVE IInv'
  BY <1>5, Asking
<1>6. CASE Fault
  BY <1>6, Spoiling
<1>7. CASE UNCHANGED vars
  BY <1>7, NothingHappens
<1> QED
  BY <1>1, <1>2, <1>3, <1>4, <1>5, <1>6, <1>7 DEF Next

(* The command is the text of the request.                                 *)
LEMMA CommandText ==
  ASSUME IInv, pc = "command"
  PROVE  Text(inbuf, ptr) = request.text
<1>1. Intact(Body, count, checksum, inbuf) /\ ptr = IF numbered THEN 3 ELSE 0
  BY DEF IInv, Reading
<1>2. /\ Body \in Seq(Plain) /\ Len(Body) \in Nat /\ Len(Body) <= BUFMAX - 2 /\ BUFMAX \in Nat
      /\ request.text \in Seq(Plain)
  BY BodyIs, GdbStubAssumption DEF IInv
<1>3. PICK l \in Nat : l = Len(Body) /\ l <= BUFMAX - 2
  BY <1>2
<1>4. PICK m \in Nat : /\ m = Len(request.text) /\ l = ptr + m
                       /\ \A k \in 1 .. m : Body[k + ptr] = request.text[k]
  <2>1. Len(request.text) \in Nat
    BY <1>2
  <2>2. CASE numbered
    BY <1>1, <1>3, <2>1, <2>2, BodyIs DEF IInv
  <2>3. CASE ~numbered
    <3>1. Body = request.text /\ ptr = 0
      BY <1>1, <2>3, BodyIs DEF IInv
    <3>2. \A k \in 1 .. Len(request.text) : k + 0 = k
      BY <2>1
    <3> QED
      BY <1>3, <2>1, <3>1, <3>2
  <2> QED
    BY <2>2, <2>3
<1>5. ptr \in Nat
  BY <1>1
<1>6. inbuf[l] = "NUL" /\ \A j \in 1 .. l : inbuf[j - 1] = Body[j] /\ Body[j] # "NUL"
  <2>1. \A j \in 1 .. l : Body[j] \in Plain
    BY <1>2, <1>3
  <2>2. "NUL" \notin Plain
    BY CharsAre DEF Plain
  <2> QED
    BY <1>1, <1>3, <2>1, <2>2 DEF Intact, Filled
<1> DEFINE T == {i \in ptr .. BUFMAX - 1 : inbuf[i] = "NUL"} \cup {BUFMAX}
<1>7. l \in T /\ \A i \in T : l <= i
  <2>1. l \in T
    BY <1>2, <1>3, <1>4, <1>5, <1>6
  <2>2. ASSUME NEW i \in T PROVE l <= i
    <3>1. CASE i = BUFMAX
      BY <1>2, <1>3, <3>1
    <3>2. CASE i # BUFMAX
      <4>1. i \in ptr .. BUFMAX - 1 /\ inbuf[i] = "NUL"
        BY <3>2
      <4> SUFFICES ASSUME i < l PROVE FALSE
        BY <1>2, <1>5, <4>1
      <4>2. i + 1 \in 1 .. l /\ (i + 1) - 1 = i
        BY <1>2, <1>5, <4>1
      <4> QED
        BY <1>6, <4>1, <4>2
    <3> QED
      BY <3>1, <3>2
  <2> QED
    BY <2>1, <2>2
<1>8. \A i \in T : i \in Int
  BY <1>2, <1>5
<1>9. Min(T) = l
  <2> HIDE DEF T
  <2>1. Min(T) = CHOOSE x \in T : \A y \in T : x <= y
    BY DEF Min
  <2>2. PICK z \in T : z = Min(T) /\ \A y \in T : z <= y
    BY <1>7, <2>1
  <2>3. z \in Int /\ l \in Int /\ z <= l /\ l <= z
    BY <1>7, <1>8, <2>2
  <2> QED
    BY <2>2, <2>3
<1>10. Text(inbuf, ptr) = [k \in 1 .. l - ptr |-> inbuf[ptr + k - 1]]
  BY <1>9 DEF Text
<1>11. l - ptr = m
  BY <1>4, <1>5
<1>12. \A k \in 1 .. m : inbuf[ptr + k - 1] = request.text[k]
  <2> SUFFICES ASSUME NEW k \in 1 .. m PROVE inbuf[ptr + k - 1] = request.text[k]
    OBVIOUS
  <2>1. k + ptr \in 1 .. l /\ (k + ptr) - 1 = ptr + k - 1
    BY <1>4, <1>5
  <2> QED
    BY <1>4, <1>6, <2>1
<1>13. request.text = [k \in 1 .. m |-> request.text[k]]
  BY <1>2, <1>4
<1> QED
  BY <1>10, <1>11, <1>12, <1>13

LEMMA Promised ==
  ASSUME IInv
  PROVE  GdbInv
<1>1. TypeOK
  BY DEF IInv, TypesOK
<1>2. OnlyAsked
  BY CommandText DEF OnlyAsked, IInv, Turns
<1>3. OnceEach
  <2>1. /\ runs + One(pc = "command") <= faults + One(host # "ack" \/ Says(to_host, "+"))
        /\ runs \in Nat /\ faults \in Nat
    BY DEF IInv, Counted, TypesOK
  <2>2. One(pc = "command") \in {0, 1} /\ One(host # "ack" \/ Says(to_host, "+")) \in {0, 1}
    BY OneIs
  <2> QED
    BY <2>1, <2>2 DEF OnceEach
<1> QED
  BY <1>1, <1>2, <1>3 DEF GdbInv

(* The debugger takes a packet for the reply.                              *)
LEMMA Taken ==
  ASSUME IInv, [Next]_vars, host = "reply", host' = "idle"
  PROVE  Head(to_host).text = Text(outbuf, 0) /\ (asked > 0 => runs > 0)
<1>1. HostRead
  <2>1. CASE Stop
    BY <2>1 DEF Stop, Trap
  <2>2. CASE Stub
    <3>1. host' = host
      BY <2>2 DEF Stub, ReadStart, ReadData, ReadSum1, ReadSum2, ReadAck, Query, ToggleDebug, ReadRegisters,
           WriteRegisters, WriteRegister, ReadMemory, WriteMemory, Resume, Other, GetDebugChar, Command, debugger
    <3> QED
      BY <3>1
  <2>3. CASE HostTimeout
    BY <2>3 DEF HostTimeout
  <2>4. ASSUME NEW r \in Requests, Ask(r) PROVE FALSE
    BY <2>4 DEF Ask
  <2>5. CASE Fault
    BY <2>5 DEF Fault
  <2>6. CASE UNCHANGED vars
    BY <2>6 DEF vars, debugger
  <2> QED
    BY <2>1, <2>2, <2>3, <2>4, <2>5, <2>6 DEF Next
<1>2. to_host # <<>> /\ Head(to_host).is = "packet"
  BY <1>1 DEF HostRead
<1>3. Len(to_host) \in Nat \ {0} /\ Head(to_host) = to_host[1]
  BY <1>2, AnswersTail DEF IInv, TypesOK
<1>4. 1 \in 1 .. Len(to_host) /\ Awaited(to_host, 1, host = "reply")
  BY <1>2, <1>3 DEF Awaited
<1>5. Head(to_host).text = Text(outbuf, 0)
  BY <1>3, <1>4 DEF IInv, Replies, Current
<1>6. pc \in {"ack", "start"}
  BY <1>4 DEF IInv, Replies, Old
<1> QED
  BY <1>5, <1>6 DEF IInv, Counted

(* With a line that spoils one character at most, the stub carries out     *)
(* what was asked and nothing else, once, and once more if there was a     *)
(* fault; the buffers, the registers and the memory keep their types.      *)
THEOREM GdbCorrect ==
  ASSUME MaxFaults <= 1
  PROVE  Spec => []GdbInv
<1>1. Init => IInv
  BY Beginning
<1>2. IInv /\ [Next]_vars => IInv'
  BY Step
<1>3. IInv => GdbInv
  BY Promised
<1> QED
  BY <1>1, <1>2, <1>3, PTL DEF Spec

(* The packet that the debugger takes for the reply is what the stub last  *)
(* put in its buffer, and the request has been carried out by then.        *)
THEOREM RepliesCurrent ==
  ASSUME MaxFaults <= 1
  PROVE  Spec => ReplyIsCurrent
<1>1. Init => IInv
  BY Beginning
<1>2. IInv /\ [Next]_vars => IInv'
  BY Step
<1>3. IInv /\ [Next]_vars =>
        [host = "reply" /\ host' = "idle" =>
           Head(to_host).text = Text(outbuf, 0) /\ (asked > 0 => runs > 0)]_vars
  BY Taken
<1> QED
  BY <1>1, <1>2, <1>3, PTL DEF Spec, ReplyIsCurrent
=============================================================================
