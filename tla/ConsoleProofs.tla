---------------------------- MODULE ConsoleProofs ----------------------------
(***************************************************************************)
(* For buffers and a screen of any size and whatever is printed: what      *)
(* reaches the screen and the serial line, in which order, and that the    *)
(* screen is the tail of the text.  Behind that, for words and integers of *)
(* any size and memories of any length: the functions on memory and        *)
(* strings, and the numbers that the formatter prints.                     *)
(***************************************************************************)
EXTENDS ConsoleProps, ListLemmas, FiniteSetTheorems

-----------------------------------------------------------------------------
(* The characters printed, and what a cell may hold.                       *)
Char == UNION {Alphabet[s] : s \in Stream}
Glyph == Char \cup {" "}
Emission == [from : Stream, char : Char]

Screens(rows) ==
  [cell : [0 .. rows * Width - 1 -> Glyph], x : 0 .. Width - 1, y : Nat, cursor : Nat]

LEMMA NulIsNoChar == Nul \notin Char
BY ConsoleAssumption DEF Char

LEMMA VgaSizes ==
  /\ Width \in Nat \ {0} /\ Height \in Nat \ {0} /\ Stop \in Nat \ {0} /\ Byte \in Nat \ {0}
  /\ Size \in Nat \ {0} /\ MaxPuts \in Nat
BY VgaAssumption, ConsoleAssumption

(* What each half of putc does to the parts of a screen, the first being   *)
(* typed for any number of rows.                                           *)
Open(rows) ==
  [cell : [0 .. rows * Width - 1 -> Glyph], x : Nat, y : Nat, cursor : Nat]

LEMMA ScreenParts ==
  ASSUME NEW rows \in Nat, NEW s \in Open(rows)
  PROVE  /\ s.cell \in [0 .. rows * Width - 1 -> Glyph] /\ s.x \in Nat /\ s.y \in Nat /\ s.cursor \in Nat
         /\ s = [cell |-> s.cell, x |-> s.x, y |-> s.y, cursor |-> s.cursor]
         /\ s \in Screens(rows) <=> s.x < Width
<1>1. /\ s.cell \in [0 .. rows * Width - 1 -> Glyph] /\ s.x \in Nat /\ s.y \in Nat /\ s.cursor \in Nat
      /\ s = [cell |-> s.cell, x |-> s.x, y |-> s.y, cursor |-> s.cursor]
  BY DEF Open
<1>2. s \in Screens(rows) <=> s.x \in 0 .. Width - 1
  BY <1>1, Zenon DEF Screens
<1> QED
  BY <1>1, <1>2, VgaSizes

LEMMA ScreensAreOpen ==
  ASSUME NEW rows \in Nat, NEW s \in Screens(rows)
  PROVE  s \in Open(rows) /\ s.x < Width
<1>1. \A k \in 0 .. Width - 1 : k \in Nat
  BY VgaSizes
<1>2. s \in Open(rows) /\ s.x \in 0 .. Width - 1
  BY <1>1 DEF Screens, Open
<1> QED
  BY <1>2, VgaSizes

LEMMA TypeIs ==
  ASSUME NEW rows \in Nat, NEW s \in Open(rows), NEW c \in Char
  PROVE  /\ Type(s, c) \in Open(rows)
         /\ Type(s, c).cell =
              IF c \in Control THEN s.cell ELSE [s.cell EXCEPT ![s.y * Width + s.x] = c]
         /\ c = "back" => Type(s, c).x = IF s.x > 0 THEN s.x - 1 ELSE s.x
         /\ c = "tab" => Type(s, c).x = ((s.x + Stop) \div Stop) * Stop
         /\ c \in {"return", "newline"} => Type(s, c).x = 0
         /\ c \notin Control => Type(s, c).x = s.x + 1
         /\ Type(s, c).y = IF c = "newline" THEN s.y + 1 ELSE s.y
<1>1. PICK cell \in [0 .. rows * Width - 1 -> Glyph], x \in Nat, y \in Nat, cursor \in Nat :
        s = [cell |-> cell, x |-> x, y |-> y, cursor |-> cursor]
  BY ScreenParts
<1>2. Width \in Nat \ {0} /\ Stop \in Nat \ {0} /\ c \in Glyph
  BY VgaSizes DEF Glyph
<1>3. ((x + Stop) \div Stop) * Stop \in Nat
  <2>1. x + Stop \in Nat
    BY <1>2
  <2>2. (x + Stop) \div Stop \in Nat
    BY <1>2, <2>1, DivMod
  <2> QED
    BY <1>2, <2>2, TimesNat
<1>4. CASE c = "back"
  <2>1. Type(s, c) = IF x > 0 THEN [s EXCEPT !.x = x - 1] ELSE s
    BY <1>1, <1>4 DEF Type, Control
  <2> QED
    BY <1>1, <1>4, <2>1 DEF Control, Open
<1>5. CASE c = "tab"
  <2> DEFINE stop == ((x + Stop) \div Stop) * Stop
  <2>1. Type(s, c) = [s EXCEPT !.x = stop]
    BY <1>1, <1>5 DEF Type, Control
  <2>2. stop \in Nat /\ stop = ((s.x + Stop) \div Stop) * Stop
    BY <1>1, <1>3
  <2> HIDE DEF stop
  <2> QED
    BY <1>1, <1>5, <2>1, <2>2 DEF Control, Open
<1>6. CASE c = "return"
  <2>1. Type(s, c) = [s EXCEPT !.x = 0]
    BY <1>1, <1>6 DEF Type, Control
  <2> QED
    BY <1>1, <1>6, <2>1 DEF Control, Open
<1>7. CASE c = "newline"
  <2>1. Type(s, c) = [cell |-> cell, x |-> 0, y |-> y + 1, cursor |-> cursor] /\ y + 1 \in Nat
    <3> DEFINE moved == [s EXCEPT !.x = 0]
    <3>1. Type(s, c) = [moved EXCEPT !.y = s.y + 1]
      BY <1>7 DEF Type, Control
    <3>2. moved = [cell |-> cell, x |-> 0, y |-> y, cursor |-> cursor] /\ s.y = y
      BY <1>1
    <3> HIDE DEF moved
    <3> QED
      BY <3>1, <3>2
  <2>2. Type(s, c) \in Open(rows)
    BY <1>1, <2>1 DEF Open
  <2> QED
    BY <1>1, <1>7, <2>1, <2>2 DEF Control
<1>8. CASE c \notin Control
  <2>1. Type(s, c) = [s EXCEPT !.cell = [cell EXCEPT ![y * Width + x] = c], !.x = x + 1]
    BY <1>1, <1>8 DEF Type, Control
  <2> DEFINE new == [cell EXCEPT ![y * Width + x] = c]
  <2>2. new \in [0 .. rows * Width - 1 -> Glyph]
    BY <1>2
  <2>3. new = [s.cell EXCEPT ![s.y * Width + s.x] = c]
    BY <1>1
  <2> HIDE DEF new
  <2>4. Type(s, c) = [cell |-> new, x |-> x + 1, y |-> y, cursor |-> cursor]
    BY <1>1, <2>1 DEF new
  <2>5. Type(s, c) \in Open(rows)
    BY <1>1, <2>2, <2>4 DEF Open
  <2>6. c # "back" /\ c # "tab" /\ c # "newline" /\ c \notin {"return", "newline"}
    BY <1>8 DEF Control
  <2>7. Type(s, c).cell = new /\ Type(s, c).x = s.x + 1 /\ Type(s, c).y = s.y
    BY <1>1, <2>4
  <2> QED
    BY <1>8, <2>3, <2>5, <2>6, <2>7
<1> QED
  BY <1>4, <1>5, <1>6, <1>7, <1>8 DEF Control

(* The end of a line, and the cursor.                                      *)
LEMMA WrapIs ==
  ASSUME NEW rows \in Nat, NEW s \in Open(rows)
  PROVE  /\ Wrap(s) \in Screens(rows)
         /\ Wrap(s).cell = s.cell
         /\ Wrap(s).x = IF s.x >= Width THEN 0 ELSE s.x
         /\ Wrap(s).y = IF s.x >= Width THEN s.y + 1 ELSE s.y
<1>1. PICK cell \in [0 .. rows * Width - 1 -> Glyph], x \in Nat, y \in Nat, cursor \in Nat :
        s = [cell |-> cell, x |-> x, y |-> y, cursor |-> cursor]
  BY ScreenParts
<1>2. Wrap(s) = IF x >= Width THEN [s EXCEPT !.x = 0, !.y = y + 1] ELSE s
  BY <1>1 DEF Wrap
<1>3. Wrap(s) \in Open(rows) /\ Wrap(s).x < Width
  <2>1. CASE x >= Width
    <3>1. Wrap(s) = [cell |-> cell, x |-> 0, y |-> y + 1, cursor |-> cursor] /\ y + 1 \in Nat
      <4> DEFINE moved == [s EXCEPT !.x = 0]
      <4>1. Wrap(s) = [moved EXCEPT !.y = y + 1]
        BY <1>2, <2>1
      <4>2. moved = [cell |-> cell, x |-> 0, y |-> y, cursor |-> cursor]
        BY <1>1
      <4> HIDE DEF moved
      <4> QED
        BY <4>1, <4>2
    <3> QED
      BY <1>1, <3>1, VgaSizes DEF Open
  <2>2. CASE ~(x >= Width)
    BY <1>1, <1>2, <2>2, VgaSizes
  <2> QED
    BY <2>1, <2>2
<1>4. Wrap(s) \in Screens(rows)
  BY <1>3, ScreenParts
<1> QED
  BY <1>1, <1>2, <1>4

LEMMA CursorIs ==
  ASSUME NEW rows \in Nat, NEW s \in Screens(rows)
  PROVE  /\ MoveCursor(s) \in Screens(rows)
         /\ MoveCursor(s).cell = s.cell /\ MoveCursor(s).x = s.x /\ MoveCursor(s).y = s.y
<1> DEFINE low == (s.y * Width + s.x) % Byte
           high == low \div Byte
<1>0. s \in Open(rows) /\ s.x < Width
  BY ScreensAreOpen
<1>1. /\ Width \in Nat \ {0} /\ Byte \in Nat \ {0} /\ s.x \in Nat /\ s.y \in Nat
      /\ s = [cell |-> s.cell, x |-> s.x, y |-> s.y, cursor |-> s.cursor]
      /\ s.cell \in [0 .. rows * Width - 1 -> Glyph]
  BY <1>0, VgaSizes, ScreenParts
<1>2. s.y * Width + s.x \in Nat
  BY <1>1, TimesNat
<1>3. low \in Nat
  BY <1>1, <1>2, DivMod
<1> HIDE DEF low
<1>4. high \in Nat
  BY <1>1, <1>3, DivMod
<1>5. high * Byte + low \in Nat
  BY <1>1, <1>3, <1>4, TimesNat
<1>6. MoveCursor(s) = [s EXCEPT !.cursor = high * Byte + low]
  BY DEF MoveCursor, low
<1> HIDE DEF high
<1>7. MoveCursor(s) \in Open(rows) /\ MoveCursor(s).x = s.x
  BY <1>1, <1>5, <1>6 DEF Open
<1>8. MoveCursor(s) \in Screens(rows)
  BY <1>0, <1>7, ScreenParts
<1> QED
  BY <1>1, <1>6, <1>8

(* One character on each console.                                          *)
LEMMA EmitIs ==
  ASSUME NEW rows \in Nat, NEW s \in Screens(rows), NEW c \in Char
  PROVE  /\ ConsoleEmit(s, c) \in Screens(rows)
         /\ ConsoleEmit(s, c).cell = Wrap(Type(s, c)).cell
         /\ ConsoleEmit(s, c).x = Wrap(Type(s, c)).x
         /\ ConsoleEmit(s, c).y = Wrap(Type(s, c)).y
         /\ s.y <= ConsoleEmit(s, c).y /\ ConsoleEmit(s, c).y <= s.y + 1
<1>1. s \in Open(rows) /\ Type(s, c) \in Open(rows)
  BY TypeIs, ScreensAreOpen
<1>2. Wrap(Type(s, c)) \in Screens(rows)
  BY <1>1, WrapIs
<1>3. /\ ConsoleEmit(s, c) \in Screens(rows)
      /\ ConsoleEmit(s, c).cell = Wrap(Type(s, c)).cell
      /\ ConsoleEmit(s, c).x = Wrap(Type(s, c)).x
      /\ ConsoleEmit(s, c).y = Wrap(Type(s, c)).y
  BY <1>2, CursorIs DEF ConsoleEmit
<1>4. s.y <= Wrap(Type(s, c)).y /\ Wrap(Type(s, c)).y <= s.y + 1
  <2>1. /\ Type(s, c).x \in Nat /\ Type(s, c).y \in Nat /\ s.y \in Nat /\ Width \in Nat \ {0}
        /\ Type(s, c).y = IF c = "newline" THEN s.y + 1 ELSE s.y
        /\ c = "newline" => Type(s, c).x = 0
        /\ Wrap(Type(s, c)).y = IF Type(s, c).x >= Width THEN Type(s, c).y + 1 ELSE Type(s, c).y
    <3>1. Type(s, c).x \in Nat /\ Type(s, c).y \in Nat /\ s.y \in Nat
      BY <1>1, ScreenParts
    <3>2. c = "newline" => Type(s, c).x = 0
      BY <1>1, TypeIs, ZenonT(90)
    <3>3. Type(s, c).y = IF c = "newline" THEN s.y + 1 ELSE s.y
      BY <1>1, TypeIs
    <3> QED
      BY <1>1, <3>1, <3>2, <3>3, WrapIs, VgaSizes
  <2> QED
    BY <2>1
<1> QED
  BY <1>3, <1>4

-----------------------------------------------------------------------------
(* A screen s that shows the last rows of another one, from row top on.    *)
Top(tall) == IF tall.y < Height THEN 0 ELSE tall.y - (Height - 1)

SameRows(s, tall, top) ==
  /\ s.x = tall.x /\ s.y = tall.y - top
  /\ \A i \in 0 .. Height * Width - 1 : s.cell[i] = tall.cell[top * Width + i]

BlankBelow(tall, rows, row) ==
  \A i \in 0 .. rows * Width - 1 : i >= (row + 1) * Width => tall.cell[i] = " "

TailOf(s, tall, rows) ==
  /\ s \in Screens(Height) /\ tall \in Screens(rows)
  /\ SameRows(s, tall, Top(tall))
  /\ BlankBelow(tall, rows, tall.y)

(* A character typed on both, and a line ended on both.                    *)
LEMMA TypedOnBoth ==
  ASSUME NEW rows \in Nat, NEW s \in Screens(Height), NEW tall \in Screens(rows),
         NEW top \in Nat, top <= tall.y, SameRows(s, tall, top),
         top + Height <= rows, NEW c \in Char,
         BlankBelow(tall, rows, tall.y)
  PROVE  LET u == Wrap(Type(s, c))
             v == Wrap(Type(tall, c))
         IN /\ u \in Screens(Height) /\ v \in Screens(rows)
            /\ SameRows(u, v, top) /\ BlankBelow(v, rows, tall.y)
            /\ v.y = tall.y \/ (v.y = tall.y + 1 /\ v.x = 0)
<1> DEFINE a == Type(s, c)
           b == Type(tall, c)
<1>h. Height \in Nat /\ Width \in Nat \ {0} /\ Stop \in Nat \ {0}
  BY VgaSizes
<1>s. s \in Open(Height) /\ s.x < Width
  BY <1>h, ScreensAreOpen
<1>t. tall \in Open(rows) /\ tall.x < Width
  BY ScreensAreOpen
<1>a. /\ a \in Open(Height)
      /\ a.cell = IF c \in Control THEN s.cell ELSE [s.cell EXCEPT ![s.y * Width + s.x] = c]
      /\ c = "back" => a.x = IF s.x > 0 THEN s.x - 1 ELSE s.x
      /\ c = "tab" => a.x = ((s.x + Stop) \div Stop) * Stop
      /\ c \in {"return", "newline"} => a.x = 0
      /\ c \notin Control => a.x = s.x + 1
      /\ a.y = IF c = "newline" THEN s.y + 1 ELSE s.y
  BY <1>h, <1>s, TypeIs, ZenonT(90)
<1>b. /\ b \in Open(rows)
      /\ b.cell = IF c \in Control THEN tall.cell ELSE [tall.cell EXCEPT ![tall.y * Width + tall.x] = c]
      /\ c = "back" => b.x = IF tall.x > 0 THEN tall.x - 1 ELSE tall.x
      /\ c = "tab" => b.x = ((tall.x + Stop) \div Stop) * Stop
      /\ c \in {"return", "newline"} => b.x = 0
      /\ c \notin Control => b.x = tall.x + 1
      /\ b.y = IF c = "newline" THEN tall.y + 1 ELSE tall.y
  BY <1>t, TypeIs, ZenonT(90)
<1>w. /\ Wrap(a) \in Screens(Height) /\ Wrap(b) \in Screens(rows)
      /\ Wrap(a).cell = a.cell /\ Wrap(b).cell = b.cell
      /\ Wrap(a).x = (IF a.x >= Width THEN 0 ELSE a.x) /\ Wrap(b).x = (IF b.x >= Width THEN 0 ELSE b.x)
      /\ Wrap(a).y = (IF a.x >= Width THEN a.y + 1 ELSE a.y)
      /\ Wrap(b).y = (IF b.x >= Width THEN b.y + 1 ELSE b.y)
  <2> HIDE DEF a, b
  <2>1. a \in Open(Height) /\ b \in Open(rows)
    BY <1>a, <1>b
  <2> QED
    BY <1>h, <2>1, WrapIs
<1>q. /\ a.x \in Nat /\ a.y \in Nat /\ b.x \in Nat /\ b.y \in Nat
  BY <1>h, <1>a, <1>b, ScreenParts
<1> HIDE DEF a, b
<1>1. /\ s \in Open(Height) /\ tall \in Open(rows) /\ a \in Open(Height) /\ b \in Open(rows)
      /\ Height \in Nat /\ Width \in Nat \ {0}
  BY <1>h, <1>s, <1>t, <1>a, <1>b
<1>2. /\ s.x \in Nat /\ s.y \in Nat /\ tall.x \in Nat /\ tall.y \in Nat /\ tall.x < Width
      /\ a.x \in Nat /\ a.y \in Nat /\ b.x \in Nat /\ b.y \in Nat
      /\ s.cell \in [0 .. Height * Width - 1 -> Glyph] /\ tall.cell \in [0 .. rows * Width - 1 -> Glyph]
  BY <1>1, <1>t, <1>q, ScreenParts
<1>3. a.x = b.x /\ (c = "newline" => b.x = 0)
  <2>1. s.x = tall.x
    BY DEF SameRows
  <2>2. CASE c = "back"
    BY <1>a, <1>b, <2>1, <2>2
  <2>3. CASE c = "tab"
    BY <1>a, <1>b, <2>1, <2>3
  <2>4. CASE c \in {"return", "newline"}
    BY <1>a, <1>b, <2>1, <2>4
  <2>5. CASE c \notin Control
    <3>1. c # "newline"
      BY <2>5 DEF Control
    <3> QED
      BY <1>a, <1>b, <2>1, <2>5, <3>1
  <2> QED
    BY <2>2, <2>3, <2>4, <2>5 DEF Control
<1>4. b.y = (IF c = "newline" THEN tall.y + 1 ELSE tall.y) /\ a.y = b.y - top
  <2>1. /\ b.y = IF c = "newline" THEN tall.y + 1 ELSE tall.y
        /\ a.y = IF c = "newline" THEN s.y + 1 ELSE s.y
    BY <1>a, <1>b
  <2> QED
    BY <1>2, <2>1 DEF SameRows
<1>5. PICK k \in Nat : k = top * Width
  BY <1>1, TimesNat
<1>6. PICK p \in Nat : p = s.y * Width + s.x
  <2>1. s.y * Width \in Nat
    BY <1>1, <1>2, TimesNat
  <2> QED
    BY <1>2, <2>1
<1>7. tall.y * Width + tall.x = k + p
  <2>1. PICK y \in Nat : y = s.y /\ tall.y = y + top
    BY <1>2 DEF SameRows
  <2>2. (y + top) * Width = y * Width + top * Width /\ y * Width \in Nat
    BY <1>1, <2>1, TimesNat
  <2>3. QED
    <3>1. tall.y * Width = y * Width + k
      BY <1>5, <2>1, <2>2
    <3>2. y * Width + s.x = p /\ tall.x = s.x
      BY <1>6, <2>1 DEF SameRows
    <3>3. PICK z \in Nat : z = y * Width
      BY <2>2
    <3>4. tall.y * Width = z + k /\ p = z + tall.x
      BY <3>1, <3>2, <3>3
    <3> QED
      BY <1>2, <3>4
<1>8. PICK h \in Nat : h = Height * Width
  BY <1>1, TimesNat
<1>9. PICK n \in Nat : n = rows * Width /\ k + h <= n
  <2>1. (top + Height) * Width <= rows * Width /\ rows * Width \in Nat
    <3>1. top + Height \in Int
      BY <1>1
    <3> QED
      BY <1>1, <3>1, TimesMonotone, TimesNat
  <2>2. (top + Height) * Width = top * Width + Height * Width
    BY <1>1
  <2> QED
    BY <1>5, <1>8, <2>1, <2>2
<1>10. \A i \in 0 .. h - 1 : s.cell[i] = tall.cell[k + i]
  BY <1>5, <1>8 DEF SameRows
<1>11. \A i \in 0 .. h - 1 : a.cell[i] = b.cell[k + i]
  <2>1. /\ a.cell = IF c \in Control THEN s.cell ELSE [s.cell EXCEPT ![p] = c]
        /\ b.cell = IF c \in Control THEN tall.cell ELSE [tall.cell EXCEPT ![k + p] = c]
    BY <1>a, <1>b, <1>6, <1>7
  <2>2. CASE c \in Control
    BY <1>10, <2>1, <2>2
  <2>3. CASE c \notin Control
    <3> SUFFICES ASSUME NEW i \in 0 .. h - 1 PROVE a.cell[i] = b.cell[k + i]
      OBVIOUS
    <3>1. i \in 0 .. h - 1 /\ k + i \in 0 .. n - 1 /\ (k + i = k + p <=> i = p)
      BY <1>9
    <3>2. a.cell[i] = IF i = p THEN c ELSE s.cell[i]
      BY <1>2, <1>8, <2>1, <2>3
    <3>3. b.cell[k + i] = IF k + i = k + p THEN c ELSE tall.cell[k + i]
      BY <1>2, <1>9, <2>1, <2>3, <3>1
    <3> QED
      BY <1>10, <3>1, <3>2, <3>3
  <2> QED
    BY <2>2, <2>3
<1>12. BlankBelow(b, rows, tall.y)
  <2>1. k + p < (tall.y + 1) * Width
    <3>0. \A q \in Nat : (q + 1) * Width = q * Width + Width /\ q * Width \in Nat
      BY <1>1, TimesNat
    <3>1. (tall.y + 1) * Width = tall.y * Width + Width /\ tall.y * Width \in Nat
      BY <1>2, <3>0, Zenon
    <3> QED
      BY <1>1, <1>2, <1>7, <3>1, SMTT(60)
  <2>2. PICK e \in Nat : e = (tall.y + 1) * Width
    BY <1>1, <1>2, TimesNat
  <2>3. ASSUME NEW i \in 0 .. n - 1, i >= e PROVE b.cell[i] = " "
    <3>1. tall.cell[i] = " "
      BY <1>9, <2>2, <2>3 DEF BlankBelow
    <3>2. i # k + p
      BY <2>1, <2>2, <2>3
    <3>3. b.cell = IF c \in Control THEN tall.cell ELSE [tall.cell EXCEPT ![k + p] = c]
      BY <1>b, <1>7
    <3> QED
      BY <1>2, <1>9, <3>1, <3>2, <3>3
  <2> QED
    BY <1>9, <2>2, <2>3 DEF BlankBelow
<1>14. SameRows(Wrap(a), Wrap(b), top)
  <2>1. Wrap(a).x = Wrap(b).x /\ Wrap(a).y = Wrap(b).y - top
    BY <1>2, <1>3, <1>4, <1>w
  <2>2. \A i \in 0 .. Height * Width - 1 : Wrap(a).cell[i] = Wrap(b).cell[top * Width + i]
    BY <1>5, <1>8, <1>11, <1>w
  <2> QED
    BY <2>1, <2>2 DEF SameRows
<1>15. BlankBelow(Wrap(b), rows, tall.y)
  BY <1>12, <1>w DEF BlankBelow
<1>16. Wrap(b).y = tall.y \/ (Wrap(b).y = tall.y + 1 /\ Wrap(b).x = 0)
  <2>1. CASE c = "newline"
    BY <1>1, <1>2, <1>3, <1>4, <1>w, <2>1
  <2>2. CASE c # "newline"
    BY <1>1, <1>2, <1>4, <1>w, <2>2
  <2> QED
    BY <2>1, <2>2
<1> QED
  BY <1>w, <1>14, <1>15, <1>16 DEF a, b

(* What a tail and its text have in common, by the numbers.                *)
LEMMA TopIs ==
  ASSUME NEW t \in Nat
  PROVE  LET top == IF t < Height THEN 0 ELSE t - (Height - 1)
         IN top \in Nat /\ top <= t /\ t < top + Height
BY VgaSizes

LEMMA ScrollIs ==
  ASSUME NEW s \in Screens(Height), NEW h \in Nat, h = Height * Width, ~(s.y < Height)
  PROVE  /\ Scroll(s) \in Screens(Height)
         /\ Scroll(s).x = 0 /\ Scroll(s).y = Height - 1
         /\ \A i \in 0 .. h - 1 :
              /\ i + Width < h => Scroll(s).cell[i] = s.cell[i + Width]
              /\ ~(i + Width < h) => Scroll(s).cell[i] = " "
<1>1. Height \in Nat \ {0} /\ Width \in Nat \ {0}
  BY VgaSizes
<1>2. s \in Open(Height)
  BY <1>1, ScreensAreOpen
<1>3. PICK cell \in [0 .. h - 1 -> Glyph], x \in Nat, y \in Nat, cursor \in Nat :
        s = [cell |-> cell, x |-> x, y |-> y, cursor |-> cursor]
  BY <1>1, <1>2, ScreenParts
<1> DEFINE moved == [i \in 0 .. h - 1 |-> IF i + Width \in 0 .. h - 1 THEN cell[i + Width] ELSE " "]
           one == [s EXCEPT !.cell = moved]
           two == [one EXCEPT !.y = Height - 1]
<1>4. DOMAIN s.cell = 0 .. h - 1 /\ s.cell = cell
  BY <1>3
<1>5. Scroll(s) = [two EXCEPT !.x = 0]
  BY <1>4, Zenon DEF Scroll
<1>6. moved \in [0 .. h - 1 -> Glyph]
  <2>1. " " \in Glyph
    BY DEF Glyph
  <2> QED
    BY <2>1
<1>7. \A i \in 0 .. h - 1 : moved[i] = IF i + Width \in 0 .. h - 1 THEN cell[i + Width] ELSE " "
  OBVIOUS
<1> HIDE DEF moved
<1>8. one = [cell |-> moved, x |-> x, y |-> y, cursor |-> cursor]
  BY <1>3
<1> HIDE DEF one
<1>9. two = [cell |-> moved, x |-> x, y |-> Height - 1, cursor |-> cursor]
  BY <1>8
<1> HIDE DEF two
<1>10. Scroll(s) = [cell |-> moved, x |-> 0, y |-> Height - 1, cursor |-> cursor]
  BY <1>5, <1>9
<1>11. Scroll(s) \in Screens(Height)
  BY <1>1, <1>6, <1>10 DEF Screens
<1>12. \A i \in 0 .. h - 1 : i + Width \in 0 .. h - 1 <=> i + Width < h
  BY <1>1
<1>13. Scroll(s).x = 0 /\ Scroll(s).y = Height - 1 /\ Scroll(s).cell = moved
  BY <1>10
<1>14. \A i \in 0 .. h - 1 :
              /\ i + Width < h => Scroll(s).cell[i] = s.cell[i + Width]
              /\ ~(i + Width < h) => Scroll(s).cell[i] = " "
  BY <1>4, <1>7, <1>12, <1>13
<1> QED
  BY <1>11, <1>13, <1>14

(* One character more on both.                                             *)
LEMMA PutcTail ==
  ASSUME NEW rows \in Nat, NEW s, NEW tall, TailOf(s, tall, rows),
         Height <= rows, tall.y + 2 <= rows, NEW c \in Char
  PROVE  TailOf(Putc(s, c), ConsoleEmit(tall, c), rows)
<1>1. s \in Screens(Height) /\ tall \in Screens(rows)
  BY DEF TailOf
<1>2. Height \in Nat \ {0} /\ Width \in Nat \ {0}
  BY VgaSizes
<1>3. tall.y \in Nat /\ tall \in Open(rows)
  BY <1>1, ScreensAreOpen, ScreenParts
<1>4. PICK t \in Nat : t = tall.y
  BY <1>3
<1>5. PICK top \in Nat : top = Top(tall) /\ top <= t /\ t < top + Height
                        /\ top = IF t < Height THEN 0 ELSE t - (Height - 1)
  BY <1>4, TopIs DEF Top
<1> DEFINE u == Wrap(Type(s, c))
           v == Wrap(Type(tall, c))
<1>6. /\ u \in Screens(Height) /\ v \in Screens(rows)
      /\ SameRows(u, v, top) /\ BlankBelow(v, rows, t)
      /\ v.y = t \/ (v.y = t + 1 /\ v.x = 0)
  <2>1. top <= tall.y /\ SameRows(s, tall, top) /\ BlankBelow(tall, rows, tall.y)
    BY <1>4, <1>5 DEF TailOf
  <2>2. top + Height <= rows
    BY <1>2, <1>4, <1>5
  <2> QED
    BY <1>1, <1>4, <2>1, <2>2, TypedOnBoth
<1> HIDE DEF u, v
<1>7. u \in Open(Height) /\ v \in Open(rows)
  BY <1>2, <1>6, ScreensAreOpen
<1>8. u.x \in Nat /\ u.y \in Nat /\ v.x \in Nat /\ v.y \in Nat /\ u.x = v.x /\ u.y = v.y - top
  <2>1. u.x \in Nat /\ u.y \in Nat /\ v.x \in Nat /\ v.y \in Nat
    BY <1>2, <1>7, ScreenParts
  <2> QED
    BY <1>6, <2>1 DEF SameRows
<1>9. /\ ConsoleEmit(tall, c) \in Screens(rows) /\ ConsoleEmit(tall, c).cell = v.cell
      /\ ConsoleEmit(tall, c).x = v.x /\ ConsoleEmit(tall, c).y = v.y
  BY <1>6, CursorIs DEF ConsoleEmit, v
<1> DEFINE w == Scroll(u)
<1>10. Putc(s, c) = MoveCursor(w)
  BY DEF Putc, u
<1>11. ASSUME w \in Screens(Height), SameRows(w, v, Top(v))
       PROVE  TailOf(Putc(s, c), ConsoleEmit(tall, c), rows)
  <2> HIDE DEF w
  <2>1. /\ Putc(s, c) \in Screens(Height) /\ Putc(s, c).cell = w.cell
        /\ Putc(s, c).x = w.x /\ Putc(s, c).y = w.y
    BY <1>2, <1>10, <1>11, CursorIs
  <2>2. BlankBelow(v, rows, v.y)
    <3> SUFFICES ASSUME NEW i \in 0 .. rows * Width - 1, i >= (v.y + 1) * Width PROVE v.cell[i] = " "
      BY DEF BlankBelow
    <3>1. t + 1 <= v.y + 1 /\ t + 1 \in Int /\ v.y + 1 \in Int
      BY <1>6, <1>8
    <3>2. (t + 1) * Width <= (v.y + 1) * Width
      BY <1>2, <3>1, TimesMonotone
    <3>3. PICK e \in Nat, f \in Nat, n \in Nat : e = (t + 1) * Width /\ f = (v.y + 1) * Width /\ n = rows * Width
      <4>1. \A q \in Nat : q * Width \in Nat
        BY <1>2, TimesNat
      <4>2. t + 1 \in Nat /\ v.y + 1 \in Nat
        BY <1>8
      <4> QED
        BY <4>1, <4>2
    <3>4. i \in 0 .. n - 1 /\ i >= e
      BY <3>2, <3>3
    <3> QED
      BY <1>6, <3>3, <3>4 DEF BlankBelow
  <2>3. Top(ConsoleEmit(tall, c)) = Top(v)
    BY <1>9 DEF Top
  <2>4. SameRows(Putc(s, c), ConsoleEmit(tall, c), Top(v))
    BY <1>9, <1>11, <2>1 DEF SameRows
  <2>5. BlankBelow(ConsoleEmit(tall, c), rows, ConsoleEmit(tall, c).y)
    BY <1>9, <2>2 DEF BlankBelow
  <2> QED
    BY <1>9, <2>1, <2>3, <2>4, <2>5 DEF TailOf
<1>12. CASE u.y < Height
  <2>1. w = u
    BY <1>12 DEF Scroll
  <2>2. Top(v) = top
    BY <1>2, <1>5, <1>6, <1>8, <1>12 DEF Top
  <2> QED
    BY <1>6, <1>11, <2>1, <2>2
<1>13. CASE ~(u.y < Height)
  <2>1. v.y = t + 1 /\ v.x = 0 /\ t + 1 = top + Height /\ u.y = Height
    BY <1>2, <1>5, <1>6, <1>8, <1>13
  <2>2. Top(v) = top + 1
    BY <1>2, <1>5, <2>1 DEF Top
  <2>3. PICK h \in Nat : h = Height * Width
    BY <1>2, TimesNat
  <2>4. /\ w \in Screens(Height) /\ w.x = 0 /\ w.y = Height - 1
        /\ \A i \in 0 .. h - 1 :
              /\ i + Width < h => w.cell[i] = u.cell[i + Width]
              /\ ~(i + Width < h) => w.cell[i] = " "
    BY <1>6, <1>13, <2>3, ScrollIs
  <2> HIDE DEF w
  <2>5. PICK k \in Nat : k = top * Width
    BY <1>2, TimesNat
  <2>6. (top + 1) * Width = k + Width /\ (t + 1) * Width = k + h
    <3>1. \A p, q \in Nat : (p + q) * Width = p * Width + q * Width
      BY <1>2
    <3>2. (top + 1) * Width = top * Width + 1 * Width /\ (top + Height) * Width = top * Width + Height * Width
      BY <1>2, <3>1
    <3> QED
      BY <1>2, <2>1, <2>3, <2>5, <3>2
  <2>7. PICK n \in Nat : n = rows * Width /\ k + Width + h <= n
    <3>1. t + 2 <= rows /\ t + 2 \in Int
      BY <1>4
    <3>2. (t + 2) * Width <= rows * Width /\ rows * Width \in Nat
      BY <1>2, <3>1, TimesMonotone, TimesNat
    <3>3. (t + 2) * Width = (t + 1) * Width + Width
      <4>1. t + 1 \in Int /\ (t + 1) + 1 = t + 2
        OBVIOUS
      <4> QED
        BY <1>2, <4>1, TimesNext
    <3> QED
      BY <1>2, <2>6, <3>2, <3>3
  <2>8. ASSUME NEW i \in 0 .. h - 1 PROVE w.cell[i] = v.cell[k + Width + i]
    <3>1. CASE i + Width < h
      <4>1. i + Width \in 0 .. h - 1 /\ k + (i + Width) = k + Width + i
        BY <1>2, <3>1
      <4>2. u.cell[i + Width] = v.cell[k + (i + Width)]
        BY <1>6, <2>3, <2>5, <4>1 DEF SameRows
      <4> QED
        BY <2>4, <3>1, <4>1, <4>2
    <3>2. CASE ~(i + Width < h)
      <4>1. k + Width + i \in 0 .. n - 1 /\ k + Width + i >= k + h
        BY <1>2, <2>7, <3>2
      <4>2. v.cell[k + Width + i] = " "
        BY <1>6, <2>6, <2>7, <4>1 DEF BlankBelow
      <4> QED
        BY <2>4, <3>2, <4>2
    <3> QED
      BY <3>1, <3>2
  <2>9. SameRows(w, v, top + 1)
    <3>0. w.x = 0 /\ w.y = Height - 1
      BY <2>4
    <3>1. w.x = v.x /\ w.y = v.y - (top + 1)
      BY <1>2, <2>1, <3>0
    <3>2. \A i \in 0 .. Height * Width - 1 : w.cell[i] = v.cell[(top + 1) * Width + i]
      BY <2>3, <2>6, <2>8
    <3> QED
      BY <3>1, <3>2 DEF SameRows
  <2>10. SameRows(w, v, Top(v))
    BY <2>2, <2>9
  <2> QED
    BY <1>11, <2>4, <2>10
<1> QED
  BY <1>12, <1>13

-----------------------------------------------------------------------------
(* Folds over the text: what the screen, the tall screen and the reader of *)
(* the history are after each character.                                   *)
LEMMA PutcClosed ==
  ASSUME NEW s \in Screens(Height), NEW c \in Char
  PROVE  Putc(s, c) \in Screens(Height)
<1>1. Height \in Nat \ {0} /\ Width \in Nat
  BY VgaSizes
<1>2. Wrap(Type(s, c)) \in Screens(Height)
  BY <1>1, ScreensAreOpen, TypeIs, WrapIs
<1>3. PICK h \in Nat : h = Height * Width
  BY <1>1, TimesNat
<1>4. Scroll(Wrap(Type(s, c))) \in Screens(Height)
  <2> DEFINE u == Wrap(Type(s, c))
  <2>0. u \in Screens(Height)
    BY <1>2
  <2> HIDE DEF u
  <2>1. ASSUME u.y < Height PROVE Scroll(u) \in Screens(Height)
    BY <2>0, <2>1 DEF Scroll
  <2>2. ASSUME ~(u.y < Height) PROVE Scroll(u) \in Screens(Height)
    BY <1>3, <2>0, <2>2, ScrollIs
  <2>3. Scroll(u) \in Screens(Height)
    BY <2>1, <2>2
  <2> QED
    BY <2>3 DEF u
<1> QED
  BY <1>1, <1>4, CursorIs DEF Putc

LEMMA ConsoleEmitClosed ==
  ASSUME NEW rows \in Nat, NEW s \in Screens(rows), NEW c \in Char
  PROVE  ConsoleEmit(s, c) \in Screens(rows)
BY EmitIs

LEMMA OutOnlyClosed ==
  ASSUME NEW s \in Seq(Char), NEW e \in Emission
  PROVE  OutOnly(s, e) \in Seq(Char)
BY AppendProperties DEF OutOnly, Emission

PutcRun(p, s) ==
  LoopRun(Len(s), Screens(Height), p, [k \in 1 .. Len(s) |-> [q \in Screens(Height) |-> Putc(q, s[k])]])

LEMMA PutcFold ==
  ASSUME NEW s \in Seq(Char), NEW p \in Screens(Height)
  PROVE  LET run == PutcRun(p, s)
         IN /\ run \in [0 .. Len(s) -> Screens(Height)] /\ run[0] = p
            /\ \A k \in 1 .. Len(s) : run[k] = Putc(run[k - 1], s[k])
            /\ FoldLeft(Putc, p, s) = run[Len(s)]
<1> DEFINE n == Len(s)
           Q == Screens(Height)
           step == [k \in 1 .. n |-> [q \in Q |-> Putc(q, s[k])]]
           F == CHOOSE f : f = [u \in SUBSET (DOMAIN s) |->
                                  IF u = {} THEN p ELSE Putc(f[u \ {Max(u)}], s[Max(u)])]
<1>1. n \in Nat /\ DOMAIN s = 1 .. n /\ \A k \in 1 .. n : s[k] \in Char
  OBVIOUS
<1>2. FoldLeft(Putc, p, s) = F[DOMAIN s]
  BY Zenon DEF FoldLeft, MapThenFoldSet
<1>3. \A q \in Q, c \in Char : Putc(q, c) \in Q
  BY PutcClosed
<1>q. p \in Q
  OBVIOUS
<1> HIDE DEF Q
<1>4. step \in [1 .. n -> [Q -> Q]] /\ \A k \in 1 .. n, q \in Q : step[k][q] = Putc(q, s[k])
  BY <1>1, <1>3
<1> HIDE DEF n, step
<1> DEFINE g == SetRun(n, Q, p, step)
           run == LoopRun(n, Q, p, step)
<1>5. g \in [SUBSET (1 .. n) -> Q] /\ IsSetRun(n, g, p, step)
  BY <1>1, <1>q, <1>4, SetRunExists
<1>6. run \in [0 .. n -> Q] /\ run[0] = p /\ \A k \in 1 .. n : run[k] = step[k][run[k - 1]]
  <2>1. n \in Nat /\ p \in Q
    BY <1>1, <1>q
  <2>2. step \in [1 .. n -> [Q -> Q]]
    BY <1>4
  <2> QED
    BY <2>1, <2>2, RunExists
<1> HIDE DEF g
<1>7. g = [u \in SUBSET (DOMAIN s) |-> IF u = {} THEN p ELSE Putc(g[u \ {Max(u)}], s[Max(u)])]
  <2>1. ASSUME NEW u \in SUBSET (1 .. n)
        PROVE  g[u] = IF u = {} THEN p ELSE Putc(g[u \ {Max(u)}], s[Max(u)])
    <3>1. g[u] = IF u = {} THEN p ELSE step[Max(u)][g[u \ {Max(u)}]]
      BY <1>5 DEF IsSetRun
    <3>2. CASE u # {}
      <4>1. Max(u) \in 1 .. n
        BY <1>1, <3>2, MaxOf
      <4>2. u \ {Max(u)} \in SUBSET (1 .. n)
        OBVIOUS
      <4>3. g[u \ {Max(u)}] \in Q
        BY <1>5, <4>2
      <4> QED
        BY <1>4, <3>1, <3>2, <4>1, <4>3
    <3> QED
      BY <3>1, <3>2
  <2> QED
    BY <1>1, <1>5, <2>1
<1>8. F = [u \in SUBSET (DOMAIN s) |-> IF u = {} THEN p ELSE Putc(F[u \ {Max(u)}], s[Max(u)])]
  <2> DEFINE Is(f) == f = [u \in SUBSET (DOMAIN s) |-> IF u = {} THEN p ELSE Putc(f[u \ {Max(u)}], s[Max(u)])]
  <2>1. Is(g)
    BY <1>7
  <2>2. F = CHOOSE f : Is(f)
    OBVIOUS
  <2> HIDE DEF Is, F
  <2>3. Is(F)
    BY <2>1, <2>2
  <2> QED
    BY <2>3 DEF Is
<1> HIDE DEF F, run
<1> DEFINE f == [k \in 0 .. n |-> F[1 .. k]]
<1>9. F[{}] = p /\ \A u \in SUBSET (1 .. n) : u # {} => F[u] = Putc(F[u \ {Max(u)}], s[Max(u)])
  BY <1>1, <1>8
<1>10. f[0] = p
  <2>1. 1 .. 0 = {} /\ 0 \in 0 .. n
    BY <1>1
  <2> QED
    BY <1>9, <2>1
<1>11. ASSUME NEW k \in 1 .. n, f[k - 1] \in Q PROVE f[k] = step[k][f[k - 1]]
  <2>1. k - 1 \in 0 .. n /\ k \in 0 .. n /\ 1 .. k \in SUBSET (1 .. n)
    BY <1>1
  <2>2. 1 .. k # {} /\ Max(1 .. k) = k /\ (1 .. k) \ {k} = 1 .. k - 1
    BY <1>1, MaxUpTo
  <2>3. F[1 .. k] = Putc(F[1 .. k - 1], s[k])
    BY <1>9, <2>1, <2>2
  <2> QED
    BY <1>4, <1>11, <2>1, <2>3
<1>12. f[n] = run[n]
  <2> HIDE DEF f
  <2>1. \A k \in 0 .. n : f[k] = LoopRun(n, Q, p, step)[k]
    <3>1. \A k \in 1 .. n : f[k - 1] \in Q => f[k] = step[k][f[k - 1]]
      BY <1>11
    <3>2. n \in Nat /\ p \in Q
      BY <1>1, <1>q
    <3>3. step \in [1 .. n -> [Q -> Q]]
      BY <1>4
    <3>4. Follows(n, Q, p, step, f)
      BY <1>10, <3>1 DEF Follows
    <3>5. LoopOf(n, Q, p, step, f)
      BY <3>2, <3>3, <3>4 DEF LoopOf
    <3> QED
      BY <3>5, FollowsLoop
  <2> QED
    BY <1>1, <2>1 DEF run
<1>13. FoldLeft(Putc, p, s) = run[n]
  BY <1>1, <1>2, <1>12
<1>14. \A k \in 1 .. n : run[k] = Putc(run[k - 1], s[k])
  <2> SUFFICES ASSUME NEW k \in 1 .. n PROVE run[k] = Putc(run[k - 1], s[k])
    OBVIOUS
  <2>1. run[k - 1] \in Q
    BY <1>1, <1>6
  <2> QED
    BY <1>4, <1>6, <2>1
<1>15. PutcRun(p, s) = run
  BY DEF PutcRun, run, step, n, Q
<1> QED
  BY <1>6, <1>13, <1>14, <1>15 DEF n, Q

EmitRun(rows, p, s) ==
  LoopRun(Len(s), Screens(rows), p, [k \in 1 .. Len(s) |-> [q \in Screens(rows) |-> ConsoleEmit(q, s[k])]])

LEMMA EmitFold ==
  ASSUME NEW rows \in Nat, NEW s \in Seq(Char), NEW p \in Screens(rows)
  PROVE  LET run == EmitRun(rows, p, s)
         IN /\ run \in [0 .. Len(s) -> Screens(rows)] /\ run[0] = p
            /\ \A k \in 1 .. Len(s) : run[k] = ConsoleEmit(run[k - 1], s[k])
            /\ FoldLeft(ConsoleEmit, p, s) = run[Len(s)]
<1> DEFINE n == Len(s)
           Q == Screens(rows)
           step == [k \in 1 .. n |-> [q \in Q |-> ConsoleEmit(q, s[k])]]
           F == CHOOSE f : f = [u \in SUBSET (DOMAIN s) |->
                                  IF u = {} THEN p ELSE ConsoleEmit(f[u \ {Max(u)}], s[Max(u)])]
<1>1. n \in Nat /\ DOMAIN s = 1 .. n /\ \A k \in 1 .. n : s[k] \in Char
  OBVIOUS
<1>2. FoldLeft(ConsoleEmit, p, s) = F[DOMAIN s]
  BY Zenon DEF FoldLeft, MapThenFoldSet
<1>3. \A q \in Q, c \in Char : ConsoleEmit(q, c) \in Q
  BY ConsoleEmitClosed
<1>q. p \in Q
  OBVIOUS
<1> HIDE DEF Q
<1>4. step \in [1 .. n -> [Q -> Q]] /\ \A k \in 1 .. n, q \in Q : step[k][q] = ConsoleEmit(q, s[k])
  BY <1>1, <1>3
<1> HIDE DEF n, step
<1> DEFINE g == SetRun(n, Q, p, step)
           run == LoopRun(n, Q, p, step)
<1>5. g \in [SUBSET (1 .. n) -> Q] /\ IsSetRun(n, g, p, step)
  BY <1>1, <1>q, <1>4, SetRunExists
<1>6. run \in [0 .. n -> Q] /\ run[0] = p /\ \A k \in 1 .. n : run[k] = step[k][run[k - 1]]
  <2>1. n \in Nat /\ p \in Q
    BY <1>1, <1>q
  <2>2. step \in [1 .. n -> [Q -> Q]]
    BY <1>4
  <2> QED
    BY <2>1, <2>2, RunExists
<1> HIDE DEF g
<1>7. g = [u \in SUBSET (DOMAIN s) |-> IF u = {} THEN p ELSE ConsoleEmit(g[u \ {Max(u)}], s[Max(u)])]
  <2>1. ASSUME NEW u \in SUBSET (1 .. n)
        PROVE  g[u] = IF u = {} THEN p ELSE ConsoleEmit(g[u \ {Max(u)}], s[Max(u)])
    <3>1. g[u] = IF u = {} THEN p ELSE step[Max(u)][g[u \ {Max(u)}]]
      BY <1>5 DEF IsSetRun
    <3>2. CASE u # {}
      <4>1. Max(u) \in 1 .. n
        BY <1>1, <3>2, MaxOf
      <4>2. u \ {Max(u)} \in SUBSET (1 .. n)
        OBVIOUS
      <4>3. g[u \ {Max(u)}] \in Q
        BY <1>5, <4>2
      <4> QED
        BY <1>4, <3>1, <3>2, <4>1, <4>3
    <3> QED
      BY <3>1, <3>2
  <2> QED
    BY <1>1, <1>5, <2>1
<1>8. F = [u \in SUBSET (DOMAIN s) |-> IF u = {} THEN p ELSE ConsoleEmit(F[u \ {Max(u)}], s[Max(u)])]
  <2> DEFINE Is(f) == f = [u \in SUBSET (DOMAIN s) |-> IF u = {} THEN p ELSE ConsoleEmit(f[u \ {Max(u)}], s[Max(u)])]
  <2>1. Is(g)
    BY <1>7
  <2>2. F = CHOOSE f : Is(f)
    OBVIOUS
  <2> HIDE DEF Is, F
  <2>3. Is(F)
    BY <2>1, <2>2
  <2> QED
    BY <2>3 DEF Is
<1> HIDE DEF F, run
<1> DEFINE f == [k \in 0 .. n |-> F[1 .. k]]
<1>9. F[{}] = p /\ \A u \in SUBSET (1 .. n) : u # {} => F[u] = ConsoleEmit(F[u \ {Max(u)}], s[Max(u)])
  BY <1>1, <1>8
<1>10. f[0] = p
  <2>1. 1 .. 0 = {} /\ 0 \in 0 .. n
    BY <1>1
  <2> QED
    BY <1>9, <2>1
<1>11. ASSUME NEW k \in 1 .. n, f[k - 1] \in Q PROVE f[k] = step[k][f[k - 1]]
  <2>1. k - 1 \in 0 .. n /\ k \in 0 .. n /\ 1 .. k \in SUBSET (1 .. n)
    BY <1>1
  <2>2. 1 .. k # {} /\ Max(1 .. k) = k /\ (1 .. k) \ {k} = 1 .. k - 1
    BY <1>1, MaxUpTo
  <2>3. F[1 .. k] = ConsoleEmit(F[1 .. k - 1], s[k])
    BY <1>9, <2>1, <2>2
  <2> QED
    BY <1>4, <1>11, <2>1, <2>3
<1>12. f[n] = run[n]
  <2> HIDE DEF f
  <2>1. \A k \in 0 .. n : f[k] = LoopRun(n, Q, p, step)[k]
    <3>1. \A k \in 1 .. n : f[k - 1] \in Q => f[k] = step[k][f[k - 1]]
      BY <1>11
    <3>2. n \in Nat /\ p \in Q
      BY <1>1, <1>q
    <3>3. step \in [1 .. n -> [Q -> Q]]
      BY <1>4
    <3>4. Follows(n, Q, p, step, f)
      BY <1>10, <3>1 DEF Follows
    <3>5. LoopOf(n, Q, p, step, f)
      BY <3>2, <3>3, <3>4 DEF LoopOf
    <3> QED
      BY <3>5, FollowsLoop
  <2> QED
    BY <1>1, <2>1 DEF run
<1>13. FoldLeft(ConsoleEmit, p, s) = run[n]
  BY <1>1, <1>2, <1>12
<1>14. \A k \in 1 .. n : run[k] = ConsoleEmit(run[k - 1], s[k])
  <2> SUFFICES ASSUME NEW k \in 1 .. n PROVE run[k] = ConsoleEmit(run[k - 1], s[k])
    OBVIOUS
  <2>1. run[k - 1] \in Q
    BY <1>1, <1>6
  <2> QED
    BY <1>4, <1>6, <2>1
<1>15. EmitRun(rows, p, s) = run
  BY DEF EmitRun, run, step, n, Q
<1> QED
  BY <1>6, <1>13, <1>14, <1>15 DEF n, Q

OutOnlyRun(p, s) ==
  LoopRun(Len(s), Seq(Char), p, [k \in 1 .. Len(s) |-> [q \in Seq(Char) |-> OutOnly(q, s[k])]])

LEMMA OutOnlyFold ==
  ASSUME NEW s \in Seq(Emission), NEW p \in Seq(Char)
  PROVE  LET run == OutOnlyRun(p, s)
         IN /\ run \in [0 .. Len(s) -> Seq(Char)] /\ run[0] = p
            /\ \A k \in 1 .. Len(s) : run[k] = OutOnly(run[k - 1], s[k])
            /\ FoldLeft(OutOnly, p, s) = run[Len(s)]
<1> DEFINE n == Len(s)
           Q == Seq(Char)
           step == [k \in 1 .. n |-> [q \in Q |-> OutOnly(q, s[k])]]
           F == CHOOSE f : f = [u \in SUBSET (DOMAIN s) |->
                                  IF u = {} THEN p ELSE OutOnly(f[u \ {Max(u)}], s[Max(u)])]
<1>1. n \in Nat /\ DOMAIN s = 1 .. n /\ \A k \in 1 .. n : s[k] \in Emission
  OBVIOUS
<1>2. FoldLeft(OutOnly, p, s) = F[DOMAIN s]
  BY Zenon DEF FoldLeft, MapThenFoldSet
<1>3. \A q \in Q, c \in Emission : OutOnly(q, c) \in Q
  BY OutOnlyClosed
<1>q. p \in Q
  OBVIOUS
<1> HIDE DEF Q
<1>4. step \in [1 .. n -> [Q -> Q]] /\ \A k \in 1 .. n, q \in Q : step[k][q] = OutOnly(q, s[k])
  BY <1>1, <1>3
<1> HIDE DEF n, step
<1> DEFINE g == SetRun(n, Q, p, step)
           run == LoopRun(n, Q, p, step)
<1>5. g \in [SUBSET (1 .. n) -> Q] /\ IsSetRun(n, g, p, step)
  BY <1>1, <1>q, <1>4, SetRunExists
<1>6. run \in [0 .. n -> Q] /\ run[0] = p /\ \A k \in 1 .. n : run[k] = step[k][run[k - 1]]
  <2>1. n \in Nat /\ p \in Q
    BY <1>1, <1>q
  <2>2. step \in [1 .. n -> [Q -> Q]]
    BY <1>4
  <2> QED
    BY <2>1, <2>2, RunExists
<1> HIDE DEF g
<1>7. g = [u \in SUBSET (DOMAIN s) |-> IF u = {} THEN p ELSE OutOnly(g[u \ {Max(u)}], s[Max(u)])]
  <2>1. ASSUME NEW u \in SUBSET (1 .. n)
        PROVE  g[u] = IF u = {} THEN p ELSE OutOnly(g[u \ {Max(u)}], s[Max(u)])
    <3>1. g[u] = IF u = {} THEN p ELSE step[Max(u)][g[u \ {Max(u)}]]
      BY <1>5 DEF IsSetRun
    <3>2. CASE u # {}
      <4>1. Max(u) \in 1 .. n
        BY <1>1, <3>2, MaxOf
      <4>2. u \ {Max(u)} \in SUBSET (1 .. n)
        OBVIOUS
      <4>3. g[u \ {Max(u)}] \in Q
        BY <1>5, <4>2
      <4> QED
        BY <1>4, <3>1, <3>2, <4>1, <4>3
    <3> QED
      BY <3>1, <3>2
  <2> QED
    BY <1>1, <1>5, <2>1
<1>8. F = [u \in SUBSET (DOMAIN s) |-> IF u = {} THEN p ELSE OutOnly(F[u \ {Max(u)}], s[Max(u)])]
  <2> DEFINE Is(f) == f = [u \in SUBSET (DOMAIN s) |-> IF u = {} THEN p ELSE OutOnly(f[u \ {Max(u)}], s[Max(u)])]
  <2>1. Is(g)
    BY <1>7
  <2>2. F = CHOOSE f : Is(f)
    OBVIOUS
  <2> HIDE DEF Is, F
  <2>3. Is(F)
    BY <2>1, <2>2
  <2> QED
    BY <2>3 DEF Is
<1> HIDE DEF F, run
<1> DEFINE f == [k \in 0 .. n |-> F[1 .. k]]
<1>9. F[{}] = p /\ \A u \in SUBSET (1 .. n) : u # {} => F[u] = OutOnly(F[u \ {Max(u)}], s[Max(u)])
  BY <1>1, <1>8
<1>10. f[0] = p
  <2>1. 1 .. 0 = {} /\ 0 \in 0 .. n
    BY <1>1
  <2> QED
    BY <1>9, <2>1
<1>11. ASSUME NEW k \in 1 .. n, f[k - 1] \in Q PROVE f[k] = step[k][f[k - 1]]
  <2>1. k - 1 \in 0 .. n /\ k \in 0 .. n /\ 1 .. k \in SUBSET (1 .. n)
    BY <1>1
  <2>2. 1 .. k # {} /\ Max(1 .. k) = k /\ (1 .. k) \ {k} = 1 .. k - 1
    BY <1>1, MaxUpTo
  <2>3. F[1 .. k] = OutOnly(F[1 .. k - 1], s[k])
    BY <1>9, <2>1, <2>2
  <2> QED
    BY <1>4, <1>11, <2>1, <2>3
<1>12. f[n] = run[n]
  <2> HIDE DEF f
  <2>1. \A k \in 0 .. n : f[k] = LoopRun(n, Q, p, step)[k]
    <3>1. \A k \in 1 .. n : f[k - 1] \in Q => f[k] = step[k][f[k - 1]]
      BY <1>11
    <3>2. n \in Nat /\ p \in Q
      BY <1>1, <1>q
    <3>3. step \in [1 .. n -> [Q -> Q]]
      BY <1>4
    <3>4. Follows(n, Q, p, step, f)
      BY <1>10, <3>1 DEF Follows
    <3>5. LoopOf(n, Q, p, step, f)
      BY <3>2, <3>3, <3>4 DEF LoopOf
    <3> QED
      BY <3>5, FollowsLoop
  <2> QED
    BY <1>1, <2>1 DEF run
<1>13. FoldLeft(OutOnly, p, s) = run[n]
  BY <1>1, <1>2, <1>12
<1>14. \A k \in 1 .. n : run[k] = OutOnly(run[k - 1], s[k])
  <2> SUFFICES ASSUME NEW k \in 1 .. n PROVE run[k] = OutOnly(run[k - 1], s[k])
    OBVIOUS
  <2>1. run[k - 1] \in Q
    BY <1>1, <1>6
  <2> QED
    BY <1>4, <1>6, <2>1
<1>15. OutOnlyRun(p, s) = run
  BY DEF OutOnlyRun, run, step, n, Q
<1> QED
  BY <1>6, <1>13, <1>14, <1>15 DEF n, Q


(* A text in two parts.                                                    *)
LEMMA EmitJoin ==
  ASSUME NEW rows \in Nat, NEW s \in Seq(Char), NEW more \in Seq(Char), NEW p \in Screens(rows)
  PROVE  FoldLeft(ConsoleEmit, p, s \o more) = FoldLeft(ConsoleEmit, FoldLeft(ConsoleEmit, p, s), more)
<1> DEFINE all == s \o more
           a == Len(s)
           b == Len(more)
           mid == FoldLeft(ConsoleEmit, p, s)
           one == EmitRun(rows, p, s)
           two == EmitRun(rows, mid, more)
           run == EmitRun(rows, p, all)
<1>1. /\ all \in Seq(Char) /\ a \in Nat /\ b \in Nat /\ Len(all) = a + b
      /\ \A k \in 1 .. a : all[k] = s[k]
      /\ \A k \in 1 .. b : all[a + k] = more[k]
  <2>1. all \in Seq(Char) /\ Len(all) = a + b /\ a \in Nat /\ b \in Nat
    BY ConcatProperties
  <2>2. \A k \in 1 .. a + b : all[k] = IF k <= a THEN s[k] ELSE more[k - a]
    BY ConcatProperties
  <2> HIDE DEF all, a, b
  <2>3. \A k \in 1 .. b : a + k \in 1 .. a + b /\ ~(a + k <= a) /\ (a + k) - a = k
    BY <2>1
  <2>4. \A k \in 1 .. a : k \in 1 .. a + b /\ k <= a
    BY <2>1
  <2> QED
    BY <2>1, <2>2, <2>3, <2>4
<1>2. /\ one \in [0 .. a -> Screens(rows)] /\ one[0] = p /\ \A k \in 1 .. a : one[k] = ConsoleEmit(one[k - 1], s[k])
      /\ mid = one[a]
  BY EmitFold, ZenonT(90)
<1>3. mid \in Screens(rows)
  BY <1>1, <1>2
<1> HIDE DEF all, mid
<1>4. /\ two[0] = mid /\ \A k \in 1 .. b : two[k] = ConsoleEmit(two[k - 1], more[k])
      /\ FoldLeft(ConsoleEmit, mid, more) = two[b]
  BY <1>3, EmitFold, ZenonT(90)
<1>5. /\ run[0] = p /\ \A k \in 1 .. Len(all) : run[k] = ConsoleEmit(run[k - 1], all[k])
      /\ FoldLeft(ConsoleEmit, p, all) = run[Len(all)]
  BY <1>1, EmitFold, ZenonT(90)
<1> HIDE DEF a, b, one, two, run
<1>6. run[a] = mid
  <2> DEFINE T == {k \in 0 .. a : run[k] = one[k]}
  <2>1. 0 \in T
    BY <1>1, <1>2, <1>5
  <2>2. ASSUME NEW k \in 1 .. a, k - 1 \in T PROVE k \in T
    <3>1. k \in 0 .. a /\ k \in 1 .. Len(all) /\ run[k - 1] = one[k - 1] /\ all[k] = s[k]
      BY <1>1, <2>2
    <3> QED
      BY <1>2, <1>5, <3>1
  <2> HIDE DEF T
  <2>3. a \in T
    <3>1. \A k \in 0 .. a : k \in T
      BY <1>1, <2>1, <2>2, UpTo
    <3> QED
      BY <1>1, <3>1
  <2> QED
    BY <1>2, <2>3 DEF T
<1>7. run[a + b] = two[b]
  <2> DEFINE T == {k \in 0 .. b : run[a + k] = two[k]}
  <2>1. 0 \in T
    BY <1>1, <1>4, <1>6
  <2>2. ASSUME NEW k \in 1 .. b, k - 1 \in T PROVE k \in T
    <3>1. /\ k \in 0 .. b /\ a + k \in 1 .. Len(all) /\ (a + k) - 1 = a + (k - 1)
          /\ run[a + (k - 1)] = two[k - 1] /\ all[a + k] = more[k]
      BY <1>1, <2>2
    <3>2. run[a + k] = ConsoleEmit(run[a + (k - 1)], all[a + k])
      BY <1>5, <3>1
    <3> QED
      BY <1>4, <3>1, <3>2
  <2> HIDE DEF T
  <2>3. b \in T
    <3>1. \A k \in 0 .. b : k \in T
      BY <1>1, <2>1, <2>2, UpTo
    <3> QED
      BY <1>1, <3>1
  <2> QED
    BY <1>1, <2>3 DEF T
<1>8. FoldLeft(ConsoleEmit, p, all) = FoldLeft(ConsoleEmit, mid, more)
  BY <1>1, <1>4, <1>5, <1>7
<1> QED
  BY <1>8 DEF all, mid

LEMMA OutOnlyJoin ==
  ASSUME NEW s \in Seq(Emission), NEW more \in Seq(Emission), NEW p \in Seq(Char)
  PROVE  FoldLeft(OutOnly, p, s \o more) = FoldLeft(OutOnly, FoldLeft(OutOnly, p, s), more)
<1> DEFINE all == s \o more
           a == Len(s)
           b == Len(more)
           mid == FoldLeft(OutOnly, p, s)
           one == OutOnlyRun(p, s)
           two == OutOnlyRun(mid, more)
           run == OutOnlyRun(p, all)
<1>1. /\ all \in Seq(Emission) /\ a \in Nat /\ b \in Nat /\ Len(all) = a + b
      /\ \A k \in 1 .. a : all[k] = s[k]
      /\ \A k \in 1 .. b : all[a + k] = more[k]
  <2>1. all \in Seq(Emission) /\ Len(all) = a + b /\ a \in Nat /\ b \in Nat
    BY ConcatProperties
  <2>2. \A k \in 1 .. a + b : all[k] = IF k <= a THEN s[k] ELSE more[k - a]
    BY ConcatProperties
  <2> HIDE DEF all, a, b
  <2>3. \A k \in 1 .. b : a + k \in 1 .. a + b /\ ~(a + k <= a) /\ (a + k) - a = k
    BY <2>1
  <2>4. \A k \in 1 .. a : k \in 1 .. a + b /\ k <= a
    BY <2>1
  <2> QED
    BY <2>1, <2>2, <2>3, <2>4
<1>2. /\ one \in [0 .. a -> Seq(Char)] /\ one[0] = p /\ \A k \in 1 .. a : one[k] = OutOnly(one[k - 1], s[k])
      /\ mid = one[a]
  BY OutOnlyFold
<1>3. mid \in Seq(Char)
  BY <1>1, <1>2
<1> HIDE DEF all, mid
<1>4. /\ two[0] = mid /\ \A k \in 1 .. b : two[k] = OutOnly(two[k - 1], more[k])
      /\ FoldLeft(OutOnly, mid, more) = two[b]
  BY <1>3, OutOnlyFold
<1>5. /\ run[0] = p /\ \A k \in 1 .. Len(all) : run[k] = OutOnly(run[k - 1], all[k])
      /\ FoldLeft(OutOnly, p, all) = run[Len(all)]
  BY <1>1, OutOnlyFold
<1> HIDE DEF a, b, one, two, run
<1>6. run[a] = mid
  <2> DEFINE T == {k \in 0 .. a : run[k] = one[k]}
  <2>1. 0 \in T
    BY <1>1, <1>2, <1>5
  <2>2. ASSUME NEW k \in 1 .. a, k - 1 \in T PROVE k \in T
    <3>1. k \in 0 .. a /\ k \in 1 .. Len(all) /\ run[k - 1] = one[k - 1] /\ all[k] = s[k]
      BY <1>1, <2>2
    <3> QED
      BY <1>2, <1>5, <3>1
  <2> HIDE DEF T
  <2>3. a \in T
    <3>1. \A k \in 0 .. a : k \in T
      BY <1>1, <2>1, <2>2, UpTo
    <3> QED
      BY <1>1, <3>1
  <2> QED
    BY <1>2, <2>3 DEF T
<1>7. run[a + b] = two[b]
  <2> DEFINE T == {k \in 0 .. b : run[a + k] = two[k]}
  <2>1. 0 \in T
    BY <1>1, <1>4, <1>6
  <2>2. ASSUME NEW k \in 1 .. b, k - 1 \in T PROVE k \in T
    <3>1. /\ k \in 0 .. b /\ a + k \in 1 .. Len(all) /\ (a + k) - 1 = a + (k - 1)
          /\ run[a + (k - 1)] = two[k - 1] /\ all[a + k] = more[k]
      BY <1>1, <2>2, SMTT(60)
    <3>2. run[a + k] = OutOnly(run[a + (k - 1)], all[a + k])
      BY <1>5, <3>1
    <3> QED
      BY <1>4, <3>1, <3>2
  <2> HIDE DEF T
  <2>3. b \in T
    <3>1. \A k \in 0 .. b : k \in T
      BY <1>1, <2>1, <2>2, UpTo
    <3> QED
      BY <1>1, <3>1
  <2> QED
    BY <1>1, <2>3 DEF T
<1>8. FoldLeft(OutOnly, p, all) = FoldLeft(OutOnly, mid, more)
  BY <1>1, <1>4, <1>5, <1>7
<1> QED
  BY <1>8 DEF all, mid

(* What a text does to the reader of the history, and to a tail.           *)
Tagged(s, text) == [k \in 1 .. Len(text) |-> [from |-> s, char |-> text[k]]]

LEMMA TaggedIs ==
  ASSUME NEW s \in Stream, NEW text \in Seq(Char)
  PROVE  /\ Tagged(s, text) \in Seq(Emission) /\ Len(Tagged(s, text)) = Len(text)
         /\ \A k \in 1 .. Len(text) : Tagged(s, text)[k].from = s /\ Tagged(s, text)[k].char = text[k]
<1>1. \A k \in 1 .. Len(text) : [from |-> s, char |-> text[k]] \in Emission
  BY DEF Emission
<1> QED
  BY <1>1 DEF Tagged

OneMore(s, c, t) ==
  Len(t) = Len(s) + 1 /\ (\A i \in 1 .. Len(s) : t[i] = s[i]) /\ t[Len(s) + 1] = c

LEMMA AppendJoin ==
  ASSUME NEW S, NEW p \in Seq(S), NEW s \in Seq(S), NEW c \in S, NEW t \in Seq(S), OneMore(s, c, t)
  PROVE  Append(p \o s, c) = p \o t
<1> DEFINE m == Len(p)
           n == Len(s)
           u == Append(p \o s, c)
<1>1. m \in Nat /\ n \in Nat
  OBVIOUS
<1>2. t \in Seq(S) /\ Len(t) = n + 1 /\ \A i \in 1 .. n : t[i] = s[i]
  BY DEF OneMore
<1>3. /\ p \o s \in Seq(S) /\ Len(p \o s) = m + n
      /\ \A i \in 1 .. m + n : (p \o s)[i] = IF i <= m THEN p[i] ELSE s[i - m]
  BY ConcatProperties
<1>4. u \in Seq(S) /\ Len(u) = m + n + 1 /\ (\A i \in 1 .. m + n : u[i] = (p \o s)[i]) /\ u[m + n + 1] = c
  BY <1>3, AppendProperties
<1>5. t[n + 1] = c
  BY DEF OneMore
<1> HIDE DEF m, n, u
<1>6. ASSUME NEW i \in 1 .. m + n + 1 PROVE u[i] = IF i <= m THEN p[i] ELSE t[i - m]
  <2>1. CASE i = m + n + 1
    BY <1>1, <1>4, <1>5, <2>1
  <2>2. CASE i # m + n + 1
    <3>1. i \in 1 .. m + n
      BY <1>1, <2>2
    <3>2. CASE i <= m
      BY <1>3, <1>4, <3>1, <3>2
    <3>3. CASE ~(i <= m)
      <4>1. i - m \in 1 .. n
        BY <1>1, <3>1, <3>3
      <4> QED
        BY <1>2, <1>3, <1>4, <3>1, <3>3, <4>1
    <3> QED
      BY <3>2, <3>3
  <2> QED
    BY <2>1, <2>2
<1>7. Len(u) = m + Len(t)
  BY <1>1, <1>2, <1>4
<1>8. p \o t = u
  <2>1. \A i \in 1 .. Len(u) : u[i] = IF i <= Len(p) THEN p[i] ELSE t[i - Len(p)]
    BY <1>4, <1>6 DEF m
  <2> QED
    BY <1>2, <1>4, <1>7, <2>1, JoinIs DEF m
<1> QED
  BY <1>8 DEF u

LEMMA OutOnlyAll ==
  ASSUME NEW s \in Stream, NEW text \in Seq(Char), NEW p \in Seq(Char)
  PROVE  FoldLeft(OutOnly, p, Tagged(s, text)) = IF s = "OUT" THEN p \o text ELSE p
<1> DEFINE n == Len(text)
           tag == Tagged(s, text)
           run == OutOnlyRun(p, tag)
           T == {k \in 0 .. n : run[k] = IF s = "OUT" THEN p \o SubSeq(text, 1, k) ELSE p}
<1>0. /\ tag \in Seq(Emission) /\ Len(tag) = n
      /\ \A k \in 1 .. n : tag[k].from = s /\ tag[k].char = text[k]
  BY TaggedIs
<1> HIDE DEF tag
<1>1. /\ run[0] = p /\ \A k \in 1 .. n : run[k] = OutOnly(run[k - 1], tag[k])
      /\ FoldLeft(OutOnly, p, tag) = run[n]
  <2>1. LET r == OutOnlyRun(p, tag)
        IN /\ r[0] = p /\ \A k \in 1 .. Len(tag) : r[k] = OutOnly(r[k - 1], tag[k])
           /\ FoldLeft(OutOnly, p, tag) = r[Len(tag)]
    BY <1>0, OutOnlyFold
  <2> QED
    BY <1>0, <2>1
<1>2. n \in Nat
  OBVIOUS
<1> HIDE DEF n, run
<1>3. 0 \in T
  <2>1. SubSeq(text, 1, 0) = <<>> /\ p \o <<>> = p
    OBVIOUS
  <2>2. p \o SubSeq(text, 1, 0) = p
    BY <2>1, Zenon
  <2>3. run[0] = IF s = "OUT" THEN p \o SubSeq(text, 1, 0) ELSE p
    BY <1>1, <2>2, Zenon
  <2> QED
    BY <1>2, <2>3
<1>4. ASSUME NEW k \in 1 .. n, k - 1 \in T PROVE k \in T
  <2>1. k \in 0 .. n /\ k \in 1 .. Len(text) /\ run[k - 1] = IF s = "OUT" THEN p \o SubSeq(text, 1, k - 1) ELSE p
    BY <1>2, <1>4 DEF n
  <2>2. run[k] = IF s = "OUT" THEN Append(run[k - 1], text[k]) ELSE run[k - 1]
    <3>1. run[k] = OutOnly(run[k - 1], tag[k]) /\ tag[k].from = s /\ tag[k].char = text[k]
      BY <1>0, <1>1
    <3> QED
      BY <3>1 DEF OutOnly
  <2>3. Append(p \o SubSeq(text, 1, k - 1), text[k]) = p \o SubSeq(text, 1, k)
    <3>1. PICK x \in Seq(Char) : x = SubSeq(text, 1, k - 1) /\ Len(x) = k - 1 /\ \A i \in 1 .. k - 1 : x[i] = text[i]
      <4>1. /\ SubSeq(text, 1, k - 1) \in Seq(Char) /\ Len(SubSeq(text, 1, k - 1)) = k - 1
            /\ \A i \in 1 .. k - 1 : SubSeq(text, 1, k - 1)[i] = text[i]
        BY <2>1
      <4> QED
        BY <4>1
    <3>2. PICK y \in Seq(Char) : y = SubSeq(text, 1, k) /\ Len(y) = k /\ \A i \in 1 .. k : y[i] = text[i]
      <4>1. /\ SubSeq(text, 1, k) \in Seq(Char) /\ Len(SubSeq(text, 1, k)) = k
            /\ \A i \in 1 .. k : SubSeq(text, 1, k)[i] = text[i]
        BY <2>1
      <4> QED
        BY <4>1
    <3>3. PICK c \in Char : c = text[k]
      BY <2>1
    <3>4. OneMore(x, c, y)
      BY <2>1, <3>1, <3>2, <3>3 DEF OneMore
    <3>5. Append(p \o x, c) = p \o y
      BY <3>4, AppendJoin, ZenonT(90)
    <3> QED
      BY <3>1, <3>2, <3>3, <3>5
  <2> QED
    BY <2>1, <2>2, <2>3
<1>5. n \in T
  <2> HIDE DEF T
  <2>1. \A k \in 0 .. n : k \in T
    BY <1>2, <1>3, <1>4, UpTo
  <2> QED
    BY <1>2, <2>1
<1>6. SubSeq(text, 1, n) = text
  BY DEF n
<1> QED
  BY <1>1, <1>5, <1>6 DEF tag

LEMMA TallGrows ==
  ASSUME NEW rows \in Nat, NEW p \in Screens(rows), NEW text \in Seq(Char)
  PROVE  /\ FoldLeft(ConsoleEmit, p, text) \in Screens(rows)
         /\ FoldLeft(ConsoleEmit, p, text).y <= p.y + Len(text)
<1> DEFINE n == Len(text)
           run == EmitRun(rows, p, text)
           T == {k \in 0 .. n : run[k].y <= p.y + k}
<1>1. /\ run \in [0 .. n -> Screens(rows)] /\ run[0] = p
      /\ \A k \in 1 .. n : run[k] = ConsoleEmit(run[k - 1], text[k])
      /\ FoldLeft(ConsoleEmit, p, text) = run[n]
  BY EmitFold
<1>2. n \in Nat /\ p.y \in Nat /\ \A k \in 1 .. n : text[k] \in Char
  BY DEF Screens
<1> HIDE DEF n, run
<1>3. 0 \in T
  BY <1>1, <1>2
<1>4. ASSUME NEW k \in 1 .. n, k - 1 \in T PROVE k \in T
  <2>1. k - 1 \in 0 .. n /\ k \in 0 .. n /\ text[k] \in Char /\ run[k - 1].y <= p.y + (k - 1)
    BY <1>2, <1>4
  <2>2. PICK q \in Screens(rows) : q = run[k - 1]
    BY <1>1, <2>1
  <2>3. ConsoleEmit(q, text[k]).y <= q.y + 1 /\ ConsoleEmit(q, text[k]) \in Screens(rows)
    BY <2>1, EmitIs
  <2>4. q.y \in Nat /\ ConsoleEmit(q, text[k]).y \in Nat
    BY <2>3 DEF Screens
  <2>5. run[k] = ConsoleEmit(q, text[k])
    BY <1>1, <2>2
  <2> QED
    BY <1>2, <2>1, <2>2, <2>3, <2>4, <2>5, SMTT(60)
<1>5. n \in T
  <2> HIDE DEF T
  <2>1. \A k \in 0 .. n : k \in T
    BY <1>2, <1>3, <1>4, UpTo
  <2> QED
    BY <1>2, <2>1
<1>6. run[n] \in Screens(rows)
  BY <1>1, <1>2
<1> QED
  BY <1>1, <1>5, <1>6 DEF n

LEMMA TailGrows ==
  ASSUME NEW rows \in Nat, NEW text \in Seq(Char), NEW s, NEW tall, TailOf(s, tall, rows),
         Height <= rows, tall.y + Len(text) + 1 <= rows
  PROVE  TailOf(FoldLeft(Putc, s, text), FoldLeft(ConsoleEmit, tall, text), rows)
<1> DEFINE n == Len(text)
           short == PutcRun(s, text)
           run == EmitRun(rows, tall, text)
           T == {k \in 0 .. n : run[k].y <= tall.y + k /\ TailOf(short[k], run[k], rows)}
<1>1. s \in Screens(Height) /\ tall \in Screens(rows)
  BY DEF TailOf
<1>2. /\ short[0] = s /\ \A k \in 1 .. n : short[k] = Putc(short[k - 1], text[k])
      /\ FoldLeft(Putc, s, text) = short[n]
  BY <1>1, PutcFold
<1>3. /\ run \in [0 .. n -> Screens(rows)] /\ run[0] = tall
      /\ \A k \in 1 .. n : run[k] = ConsoleEmit(run[k - 1], text[k])
      /\ FoldLeft(ConsoleEmit, tall, text) = run[n]
  BY <1>1, EmitFold
<1>4. n \in Nat /\ tall.y \in Nat /\ \A k \in 1 .. n : text[k] \in Char
  BY <1>1 DEF Screens
<1>5. tall.y + n + 1 <= rows
  OBVIOUS
<1> HIDE DEF n, short, run
<1>6. 0 \in T
  BY <1>2, <1>3, <1>4
<1>7. ASSUME NEW k \in 1 .. n, k - 1 \in T PROVE k \in T
  <2>1. /\ k - 1 \in 0 .. n /\ k \in 0 .. n /\ text[k] \in Char
        /\ run[k - 1].y <= tall.y + (k - 1) /\ TailOf(short[k - 1], run[k - 1], rows)
    BY <1>4, <1>7
  <2>2. PICK q \in Screens(rows) : q = run[k - 1]
    BY <1>3, <2>1
  <2>3. ConsoleEmit(q, text[k]).y <= q.y + 1 /\ ConsoleEmit(q, text[k]) \in Screens(rows)
    BY <2>1, EmitIs
  <2>4. q.y \in Nat /\ ConsoleEmit(q, text[k]).y \in Nat
    BY <2>3 DEF Screens
  <2>5. run[k] = ConsoleEmit(q, text[k]) /\ short[k] = Putc(short[k - 1], text[k])
    BY <1>2, <1>3, <2>2
  <2>6. q.y + 2 <= rows
    <3>1. q.y <= tall.y + (k - 1)
      BY <2>1, <2>2
    <3>2. PICK y \in Nat : y = q.y
      BY <2>4
    <3>3. PICK z \in Nat : z = tall.y
      BY <1>4
    <3>4. y <= z + (k - 1) /\ z + n + 1 <= rows
      BY <1>5, <3>1, <3>2, <3>3
    <3>5. y + 2 <= rows
      BY <1>4, <3>4
    <3> QED
      BY <3>2, <3>5
  <2>7. TailOf(Putc(short[k - 1], text[k]), ConsoleEmit(q, text[k]), rows)
    BY <2>1, <2>2, <2>6, PutcTail
  <2>8. run[k].y <= tall.y + k
    BY <1>4, <2>1, <2>2, <2>3, <2>4, <2>5, SMTT(60)
  <2> QED
    BY <2>1, <2>5, <2>7, <2>8
<1>8. n \in T
  <2> HIDE DEF T
  <2>1. \A k \in 0 .. n : k \in T
    BY <1>4, <1>6, <1>7, UpTo
  <2> QED
    BY <1>4, <2>1
<1> QED
  BY <1>2, <1>3, <1>8

-----------------------------------------------------------------------------
(* The invariant: types; what of OUT and of LOG is pending; how much was   *)
(* printed; the screen, which is the tail of the text.                     *)
CTypes ==
  /\ mem \in [0 .. 2 * Size + 1 -> Char \cup {Nul}]
  /\ at \in [{"OUT", "LOG"} -> 0 .. Size]
  /\ emitted \in Seq(Emission) /\ kept \in Seq(Char)
  /\ sent \in [Stream -> Seq(Char)]
  /\ intruded \in BOOLEAN

(* n characters in memory from index i on, without the end of a line.      *)
LineAt(m, i, n) == \A k \in 1 .. n : m[i + k - 1] \in Char \ {"newline"}

COut == LineAt(mem, 0, at["OUT"]) /\ Shown \o Pending("OUT") = kept

CLog ==
  ~intruded => /\ LineAt(mem, Size, at["LOG"]) /\ serial \in Seq(Char)
               /\ serial \o Pending("LOG") = sent["LOG"]

CCount ==
  /\ Len(emitted) + at["OUT"] <= Len(sent["OUT"]) + Len(sent["ERR"])
  /\ Len(sent["OUT"]) + Len(sent["LOG"]) + Len(sent["ERR"]) <= MaxPuts

CTail == TailOf(screen, Tall, MaxPuts + Height)

ConsoleInv == CTypes /\ COut /\ CLog /\ CCount /\ CTail

LEMMA ConsoleSizes ==
  /\ Height \in Nat \ {0} /\ Width \in Nat \ {0} /\ Size \in Nat \ {0} /\ MaxPuts \in Nat
  /\ MaxPuts + Height \in Nat /\ Height <= MaxPuts + Height
BY VgaSizes

(* A cleared screen is the tail of a cleared one.                          *)
LEMMA ClearedTail ==
  ASSUME NEW rows \in Nat, Height <= rows
  PROVE  TailOf(Cleared(Height), Cleared(rows), rows) /\ Cleared(rows).y = 0
<1>1. ASSUME NEW r \in Nat
      PROVE  /\ Cleared(r) \in Screens(r) /\ Cleared(r).x = 0 /\ Cleared(r).y = 0
             /\ \A i \in 0 .. r * Width - 1 : Cleared(r).cell[i] = " "
  <2>1. " " \in Glyph /\ 0 \in 0 .. Width - 1
    BY VgaSizes DEF Glyph
  <2>2. [i \in 0 .. r * Width - 1 |-> " "] \in [0 .. r * Width - 1 -> Glyph]
    BY <2>1
  <2>3. Cleared(r) \in Screens(r)
    BY <2>1, <2>2 DEF Cleared, Screens
  <2> QED
    BY <2>3 DEF Cleared
<1>2. Height \in Nat \ {0} /\ Width \in Nat
  BY VgaSizes
<1> DEFINE a == Cleared(Height)
           b == Cleared(rows)
<1>3. a \in Screens(Height) /\ a.x = 0 /\ a.y = 0 /\ \A i \in 0 .. Height * Width - 1 : a.cell[i] = " "
  BY <1>1, <1>2
<1>4. b \in Screens(rows) /\ b.x = 0 /\ b.y = 0 /\ \A i \in 0 .. rows * Width - 1 : b.cell[i] = " "
  BY <1>1
<1>o. a.x = 0 /\ a.y = 0 /\ b.x = 0 /\ b.y = 0
  BY DEF Cleared
<1> HIDE DEF a, b
<1>5. Top(b) = 0
  BY <1>2, <1>o DEF Top
<1>6. ASSUME NEW i \in 0 .. Height * Width - 1
      PROVE  0 * Width + i \in 0 .. rows * Width - 1
  <2>1. Height * Width <= rows * Width /\ 0 * Width = 0 /\ Height * Width \in Nat /\ rows * Width \in Nat
    BY <1>2, TimesMonotone, TimesNat
  <2>2. PICK h \in Nat, n \in Nat : h = Height * Width /\ n = rows * Width
    BY <2>1
  <2> QED
    BY <2>1, <2>2
<1>7. SameRows(a, b, 0)
  <2>1. a.x = b.x /\ a.y = b.y - 0
    BY <1>o
  <2>2. \A i \in 0 .. Height * Width - 1 : a.cell[i] = b.cell[0 * Width + i]
    BY <1>3, <1>4, <1>6
  <2> QED
    BY <2>1, <2>2 DEF SameRows
<1>8. BlankBelow(b, rows, b.y)
  BY <1>4 DEF BlankBelow
<1>9. TailOf(a, b, rows)
  BY <1>3, <1>4, <1>5, <1>7, <1>8 DEF TailOf
<1> QED
  BY <1>4, <1>9 DEF a, b

LEMMA CharsOf ==
  ASSUME NEW list \in Seq(Emission)
  PROVE  /\ Chars(list) \in Seq(Char) /\ Len(Chars(list)) = Len(list)
         /\ \A k \in 1 .. Len(list) : Chars(list)[k] = list[k].char
<1>1. DOMAIN list = 1 .. Len(list) /\ Len(list) \in Nat /\ \A k \in 1 .. Len(list) : list[k] \in Emission
  OBVIOUS
<1>2. \A k \in 1 .. Len(list) : list[k].char \in Char
  BY <1>1 DEF Emission
<1> QED
  BY <1>1, <1>2 DEF Chars

LEMMA CharsJoin ==
  ASSUME NEW list \in Seq(Emission), NEW s \in Stream, NEW text \in Seq(Char)
  PROVE  /\ list \o Tagged(s, text) \in Seq(Emission)
         /\ Len(list \o Tagged(s, text)) = Len(list) + Len(text)
         /\ Chars(list \o Tagged(s, text)) = Chars(list) \o text
<1> DEFINE tag == Tagged(s, text)
           all == list \o tag
           m == Len(list)
           n == Len(text)
<1>1. m \in Nat /\ n \in Nat
  OBVIOUS
<1>2. tag \in Seq(Emission) /\ Len(tag) = n /\ \A k \in 1 .. n : tag[k].char = text[k]
  BY TaggedIs
<1> HIDE DEF tag
<1>3. /\ all \in Seq(Emission) /\ Len(all) = m + n
      /\ \A k \in 1 .. m + n : all[k] = IF k <= m THEN list[k] ELSE tag[k - m]
  <2>1. /\ all \in Seq(Emission) /\ Len(all) = m + Len(tag)
        /\ \A k \in 1 .. m + Len(tag) : all[k] = IF k <= m THEN list[k] ELSE tag[k - m]
    BY <1>2, ConcatProperties, ZenonT(90)
  <2> HIDE DEF all, m, n
  <2> QED
    BY <1>2, <2>1
<1> HIDE DEF all
<1>4. /\ Chars(all) \in Seq(Char) /\ Len(Chars(all)) = m + n
      /\ \A k \in 1 .. m + n : Chars(all)[k] = all[k].char
  BY <1>3, CharsOf
<1>5. /\ Chars(list) \in Seq(Char) /\ Len(Chars(list)) = m
      /\ \A k \in 1 .. m : Chars(list)[k] = list[k].char
  BY CharsOf
<1>6. ASSUME NEW k \in 1 .. m + n
      PROVE  Chars(all)[k] = IF k <= m THEN Chars(list)[k] ELSE text[k - m]
  <2> HIDE DEF m, n
  <2>1. CASE k <= m
    <3>1. k \in 1 .. m
      BY <1>1, <2>1
    <3> QED
      BY <1>3, <1>4, <1>5, <2>1, <3>1
  <2>2. CASE ~(k <= m)
    <3>1. k - m \in 1 .. n
      BY <1>1, <2>2
    <3> QED
      BY <1>2, <1>3, <1>4, <2>2, <3>1
  <2> QED
    BY <2>1, <2>2
<1>7. Chars(list) \o text = Chars(all)
  <2> DEFINE l == Chars(list)
             a == Chars(all)
  <2>1. /\ l \in Seq(Char) /\ a \in Seq(Char) /\ Len(a) = Len(l) + Len(text)
        /\ \A k \in 1 .. Len(a) : a[k] = IF k <= Len(l) THEN l[k] ELSE text[k - Len(l)]
    BY <1>4, <1>5, <1>6
  <2> HIDE DEF l, a
  <2>2. l \o text = a
    BY <2>1, JoinIs
  <2> QED
    BY <2>2 DEF l, a
<1> QED
  BY <1>3, <1>7 DEF all, tag

(* console_emit of a text: the history, what of it is OUT's, and the tail. *)
LEMMA ShownIs == ASSUME emitted \in Seq(Emission) PROVE Shown \in Seq(Char)
<1>1. PICK p \in Seq(Char) : p = <<>>
  BY EmptyList
<1>2. FoldLeft(OutOnly, p, emitted) \in Seq(Char)
  <2> DEFINE r == OutOnlyRun(p, emitted)
  <2>1. r \in [0 .. Len(emitted) -> Seq(Char)] /\ FoldLeft(OutOnly, p, emitted) = r[Len(emitted)]
    BY OutOnlyFold
  <2>2. Len(emitted) \in 0 .. Len(emitted)
    OBVIOUS
  <2> HIDE DEF r
  <2> QED
    BY <2>1, <2>2
<1> QED
  BY <1>1, <1>2, Zenon DEF Shown

LEMMA EmitStep ==
  ASSUME emitted \in Seq(Emission), CTail, NEW s \in Stream, NEW text \in Seq(Char), Emit(s, text),
         Len(emitted) + Len(text) <= MaxPuts
  PROVE  /\ emitted' \in Seq(Emission) /\ Len(emitted') = Len(emitted) + Len(text)
         /\ Shown' = IF s = "OUT" THEN Shown \o text ELSE Shown
         /\ CTail'
<1>1. emitted' = emitted \o Tagged(s, text) /\ screen' = FoldLeft(Putc, screen, text)
  BY DEF Emit, Tagged
<1>2. /\ emitted' \in Seq(Emission) /\ Len(emitted') = Len(emitted) + Len(text)
      /\ Chars(emitted') = Chars(emitted) \o text
  BY <1>1, CharsJoin
<1>3. Shown' = IF s = "OUT" THEN Shown \o text ELSE Shown
  <2>1. PICK p \in Seq(Char) : p = <<>>
    BY EmptyList
  <2>2. Shown' = FoldLeft(OutOnly, p, emitted \o Tagged(s, text)) /\ Shown = FoldLeft(OutOnly, p, emitted)
    BY <1>1, <2>1, Zenon DEF Shown
  <2>3. FoldLeft(OutOnly, p, emitted \o Tagged(s, text)) = FoldLeft(OutOnly, FoldLeft(OutOnly, p, emitted), Tagged(s, text))
    BY TaggedIs, OutOnlyJoin, Zenon
  <2>4. Shown \in Seq(Char)
    BY ShownIs
  <2>5. FoldLeft(OutOnly, Shown, Tagged(s, text)) = IF s = "OUT" THEN Shown \o text ELSE Shown
    BY <2>4, OutOnlyAll
  <2> QED
    BY <2>2, <2>3, <2>5
<1>4. CTail'
  <2> DEFINE rows == MaxPuts + Height
             p == Cleared(rows)
             c == Chars(emitted)
  <2>1. rows \in Nat /\ Height <= rows /\ c \in Seq(Char) /\ Len(c) = Len(emitted)
    BY ConsoleSizes, CharsOf
  <2>2. p \in Screens(rows) /\ p.y = 0
    BY <2>1, ClearedTail DEF TailOf
  <2>3. Tall = FoldLeft(ConsoleEmit, p, c) /\ Tall' = FoldLeft(ConsoleEmit, p, c \o text)
    BY <1>2, Zenon DEF Tall
  <2> HIDE DEF rows, p, c
  <2>4. FoldLeft(ConsoleEmit, p, c) \in Screens(rows) /\ FoldLeft(ConsoleEmit, p, c).y <= p.y + Len(c)
    BY <2>1, <2>2, TallGrows
  <2>5. FoldLeft(ConsoleEmit, p, c \o text) = FoldLeft(ConsoleEmit, FoldLeft(ConsoleEmit, p, c), text)
    BY <2>1, <2>2, EmitJoin, Zenon
  <2>6. PICK tall \in Screens(rows) : tall = Tall
    BY <2>3, <2>4
  <2>7. tall.y \in Nat /\ tall.y <= Len(c)
    <3>1. tall.y \in Nat
      BY <2>6 DEF Screens
    <3>2. tall.y <= 0 + Len(c) /\ Len(c) \in Nat
      BY <2>1, <2>2, <2>3, <2>4, <2>6
    <3> QED
      BY <3>1, <3>2
  <2>8. tall.y + Len(text) + 1 <= rows
    <3>1. PICK a \in Nat, b \in Nat : a = Len(c) /\ b = Len(text)
      BY <2>1
    <3>2. a + b <= MaxPuts
      BY <2>1, <3>1
    <3> QED
      BY <2>7, <3>1, <3>2, ConsoleSizes DEF rows
  <2>9. TailOf(screen, tall, rows)
    BY <2>6 DEF CTail, rows
  <2>10. TailOf(FoldLeft(Putc, screen, text), FoldLeft(ConsoleEmit, tall, text), rows)
    BY <2>1, <2>8, <2>9, TailGrows
  <2>11. TailOf(screen', Tall', rows)
    BY <1>1, <2>3, <2>5, <2>6, <2>10, Zenon
  <2> QED
    BY <2>11 DEF CTail, rows
<1> QED
  BY <1>2, <1>3, <1>4

LEMMA SilentStep ==
  ASSUME UNCHANGED <<screen, emitted>>
  PROVE  Shown' = Shown /\ (CTail => CTail')
<1>1. Shown' = Shown
  BY Zenon DEF Shown
<1>2. Tall' = Tall
  BY Zenon DEF Tall
<1> QED
  BY <1>1, <1>2 DEF CTail

-----------------------------------------------------------------------------
(* What is in a buffer, as a sequence.                                     *)
Line(m, i, n) == [k \in 1 .. n |-> m[i + k - 1]]

LEMMA StartIs == Start["OUT"] = 0 /\ Start["LOG"] = Size
BY DEF Start

LEMMA LineType ==
  ASSUME NEW m, NEW i, NEW n \in Nat, \A k \in 1 .. n : m[i + k - 1] \in Char
  PROVE  /\ Line(m, i, n) \in Seq(Char) /\ Len(Line(m, i, n)) = n
         /\ \A k \in 1 .. n : Line(m, i, n)[k] = m[i + k - 1]
BY DEF Line

LEMMA LineIs ==
  ASSUME NEW m, NEW i, NEW n \in Nat, LineAt(m, i, n)
  PROVE  /\ Line(m, i, n) \in Seq(Char) /\ Len(Line(m, i, n)) = n
         /\ \A k \in 1 .. n : Line(m, i, n)[k] = m[i + k - 1] /\ Line(m, i, n)[k] # "newline"
<1>1. \A k \in 1 .. n : m[i + k - 1] \in Char /\ m[i + k - 1] # "newline"
  BY DEF LineAt
<1> QED
  BY <1>1 DEF Line

LEMMA LineMore ==
  ASSUME NEW m, NEW w, NEW i \in Nat, NEW n \in Nat, LineAt(m, i, n),
         \A k \in 1 .. n : w[i + k - 1] = m[i + k - 1], w[i + n] \in Char
  PROVE  Line(w, i, n + 1) \in Seq(Char) /\ OneMore(Line(m, i, n), w[i + n], Line(w, i, n + 1))
<1> DEFINE old == Line(m, i, n)
           new == Line(w, i, n + 1)
<1>1. old \in Seq(Char) /\ Len(old) = n /\ \A k \in 1 .. n : old[k] = m[i + k - 1]
  BY LineIs
<1>2. i + (n + 1) - 1 = i + n /\ \A k \in 1 .. n + 1 : k \in 1 .. n \/ k = n + 1
  OBVIOUS
<1>3. ASSUME NEW k \in 1 .. n + 1 PROVE w[i + k - 1] \in Char
  <2>1. CASE k \in 1 .. n
    <3>1. m[i + k - 1] \in Char
      BY <2>1 DEF LineAt
    <3> QED
      BY <2>1, <3>1
  <2>2. CASE k = n + 1
    BY <1>2, <2>2
  <2> QED
    BY <1>2, <2>1, <2>2
<1>4. new \in Seq(Char) /\ Len(new) = n + 1 /\ \A k \in 1 .. n + 1 : new[k] = w[i + k - 1]
  <2>1. n + 1 \in Nat
    OBVIOUS
  <2> QED
    BY <1>3, <2>1, LineType, SMTT(60)
<1> HIDE DEF old, new
<1>5. \A k \in 1 .. n : new[k] = old[k]
  BY <1>1, <1>4, SMTT(60)
<1>6. new[n + 1] = w[i + n]
  BY <1>2, <1>4
<1>7. OneMore(old, w[i + n], new)
  BY <1>1, <1>4, <1>5, <1>6 DEF OneMore
<1> QED
  BY <1>4, <1>7 DEF old, new

LEMMA LineSame ==
  ASSUME NEW m, NEW w, NEW i, NEW n \in Nat, \A k \in 1 .. n : w[i + k - 1] = m[i + k - 1]
  PROVE  Line(w, i, n) = Line(m, i, n) /\ (LineAt(m, i, n) => LineAt(w, i, n))
BY DEF Line, LineAt

(* The text fflush finds: the terminator is the first one.                 *)
LEMMA TextAtIs ==
  ASSUME NEW m, NEW i \in Nat, NEW n \in Nat, i + n <= 2 * Size + 1, m[i + n] = Nul,
         \A k \in 1 .. n : m[i + k - 1] \in Char
  PROVE  TextAt(m, i) = Line(m, i, n)
<1> DEFINE Ends(e) == m[e] = Nul /\ \A j \in i .. e - 1 : m[j] # Nul
           end == CHOOSE k \in i .. 2 * Size + 1 : Ends(k)
<1>0. 2 * Size + 1 \in Nat
  BY VgaSizes
<1>1. \A j \in i .. (i + n) - 1 : m[j] # Nul
  <2> SUFFICES ASSUME NEW j \in i .. (i + n) - 1 PROVE m[j] # Nul
    OBVIOUS
  <2>1. (j - i) + 1 \in 1 .. n /\ i + ((j - i) + 1) - 1 = j
    OBVIOUS
  <2>2. m[j] \in Char
    BY <2>1
  <2> QED
    BY <2>2, NulIsNoChar
<1>2. i + n \in i .. 2 * Size + 1 /\ Ends(i + n)
  BY <1>0, <1>1
<1> HIDE DEF Ends
<1>3. end \in i .. 2 * Size + 1 /\ Ends(end)
  BY <1>2
<1> HIDE DEF end
<1>4. end = i + n
  <2>1. PICK e \in Int : e = end
    BY <1>3
  <2>2. m[e] = Nul /\ i <= e /\ \A j \in i .. e - 1 : m[j] # Nul
    BY <1>0, <1>3, <2>1 DEF Ends
  <2>3. ~(e < i + n)
    <3>1. e < i + n => e \in i .. (i + n) - 1
      BY <2>2
    <3> QED
      BY <1>1, <2>2, <3>1
  <2>4. ~(i + n < e)
    <3>1. i + n < e => i + n \in i .. e - 1
      OBVIOUS
    <3> QED
      BY <2>2, <3>1
  <2> QED
    BY <2>1, <2>3, <2>4
<1>5. TextAt(m, i) = [k \in 1 .. end - i |-> m[i + k - 1]]
  BY DEF TextAt, end, Ends
<1>6. end - i = n
  BY <1>4
<1> QED
  BY <1>5, <1>6 DEF Line

LEMMA ShorterIs ==
  ASSUME NEW list \in Seq(Char), NEW n \in Nat
  PROVE  /\ Len(list) <= n => Shorter(list, n) = list
         /\ \A p \in Seq(Char) : \A c : (Len(p) = n /\ OneMore(p, c, list)) => Shorter(list, n) = p
<1>1. ASSUME Len(list) <= n PROVE Shorter(list, n) = list
  <2>1. (IF Len(list) < n THEN Len(list) ELSE n) = Len(list)
    BY <1>1
  <2>2. SubSeq(list, 1, Len(list)) = list
    OBVIOUS
  <2> QED
    BY <2>1, <2>2 DEF Shorter
<1>2. ASSUME NEW p \in Seq(Char), NEW c, Len(p) = n, OneMore(p, c, list)
      PROVE  Shorter(list, n) = p
  <2>1. Len(list) = n + 1 /\ \A k \in 1 .. n : list[k] = p[k]
    BY <1>2 DEF OneMore
  <2>2. Shorter(list, n) = SubSeq(list, 1, n)
    BY <2>1 DEF Shorter
  <2>3. /\ SubSeq(list, 1, n) \in Seq(Char) /\ Len(SubSeq(list, 1, n)) = n
        /\ \A k \in 1 .. n : SubSeq(list, 1, n)[k] = list[k]
    BY <2>1
  <2>4. PICK q \in Seq(Char) : q = SubSeq(list, 1, n)
    BY <2>3
  <2>5. Len(q) = Len(p) /\ \A k \in 1 .. Len(p) : q[k] = p[k]
    BY <1>2, <2>1, <2>3, <2>4
  <2>6. q = p
    BY <2>5, SeqEqual
  <2> QED
    BY <2>2, <2>4, <2>6
<1> QED
  BY <1>1, <1>2

(* A character stored in a buffer, and a buffer flushed.                   *)
Cells == 0 .. 2 * Size + 1

LEMMA StoreStep ==
  ASSUME CTypes, NEW s \in {"OUT", "LOG"}, NEW c \in Char, Store(s, c),
         NEW i \in Nat, i = Start[s], NEW n \in Nat, n = at[s]
  PROVE  /\ mem' \in [Cells -> Char \cup {Nul}] /\ at' \in [{"OUT", "LOG"} -> 0 .. Size]
         /\ mem'[i + n] = c
         /\ \A j \in Cells : (j # i + n /\ j # i + n + 1) => mem'[j] = mem[j]
         /\ ~IsFlushed(c, n + 1) =>
              /\ n + 1 <= Size /\ c # "newline" /\ mem'[i + n + 1] = mem[i + n + 1]
              /\ at' = [at EXCEPT ![s] = n + 1]
              /\ UNCHANGED <<screen, emitted, serial>>
         /\ IsFlushed(c, n + 1) =>
              /\ mem'[i + n + 1] = Nul
              /\ at' = [at EXCEPT ![s] = 0]
              /\ IF s = "OUT"
                 THEN Emit("OUT", Shorter(TextAt(mem', 0), Size)) /\ UNCHANGED serial
                 ELSE Send(TextAt(mem', Size)) /\ UNCHANGED <<screen, emitted>>
<1>1. Size \in Nat \ {0} /\ (i = 0 \/ i = Size) /\ n <= Size
  BY StartIs, VgaSizes DEF CTypes
<1>2. i + n \in Cells /\ i + n + 1 \in Cells /\ i + n # i + n + 1
  BY <1>1 DEF Cells
<1>3. mem \in [Cells -> Char \cup {Nul}] /\ at \in [{"OUT", "LOG"} -> 0 .. Size]
  BY DEF CTypes, Cells
<1> DEFINE m == [mem EXCEPT ![i + n] = c]
<1>4. /\ m \in [Cells -> Char \cup {Nul}] /\ m[i + n] = c /\ m[i + n + 1] = mem[i + n + 1]
      /\ \A j \in Cells : (j # i + n /\ j # i + n + 1) => m[j] = mem[j]
  BY <1>2, <1>3
<1>5. IF IsFlushed(c, n + 1) THEN Fflush(m, s, n + 1)
      ELSE mem' = m /\ at' = [at EXCEPT ![s] = n + 1] /\ UNCHANGED <<screen, emitted, serial>>
  BY DEF Store
<1> HIDE DEF m
<1>6. CASE ~IsFlushed(c, n + 1)
  <2>1. mem' = m /\ at' = [at EXCEPT ![s] = n + 1] /\ UNCHANGED <<screen, emitted, serial>>
    BY <1>5, <1>6
  <2>2. c # "newline" /\ n + 1 <= Size
    BY <1>1, <1>6 DEF IsFlushed
  <2>3. at' \in [{"OUT", "LOG"} -> 0 .. Size]
    BY <1>1, <1>3, <2>1, <2>2
  <2> QED
    BY <1>4, <1>6, <2>1, <2>2, <2>3
<1>7. CASE IsFlushed(c, n + 1)
  <2>1. Fflush(m, s, n + 1)
    BY <1>5, <1>7
  <2>2. mem' = [m EXCEPT ![i + (n + 1)] = Nul] /\ at' = [at EXCEPT ![s] = 0]
    BY <2>1 DEF Fflush, Terminated, Rewound
  <2>3. IF s = "OUT"
        THEN Emit("OUT", Shorter(TextAt(mem', 0), Size)) /\ UNCHANGED serial
        ELSE Send(TextAt(mem', Size)) /\ UNCHANGED <<screen, emitted>>
    BY <2>1 DEF Fflush
  <2>4. i + (n + 1) = i + n + 1
    OBVIOUS
  <2>5. /\ mem' \in [Cells -> Char \cup {Nul}] /\ mem'[i + n] = m[i + n] /\ mem'[i + n + 1] = Nul
        /\ \A j \in Cells : (j # i + n /\ j # i + n + 1) => mem'[j] = m[j]
    BY <1>2, <1>4, <2>2, <2>4
  <2>6. at' \in [{"OUT", "LOG"} -> 0 .. Size]
    BY <1>1, <1>3, <2>2
  <2>7. \A j \in Cells : (j # i + n /\ j # i + n + 1) => mem'[j] = mem[j]
    BY <1>4, <2>5
  <2>8. mem'[i + n] = c
    BY <1>4, <2>5
  <2> QED
    BY <1>7, <2>2, <2>3, <2>5, <2>6, <2>7, <2>8
<1> QED
  BY <1>6, <1>7

LEMMA PendingIs ==
  /\ Pending("OUT") = Line(mem, 0, at["OUT"])
  /\ Pending("LOG") = Line(mem, Size, at["LOG"])
BY StartIs DEF Pending, Line

LEMMA PendingNext ==
  /\ Pending("OUT")' = Line(mem', 0, at'["OUT"])
  /\ Pending("LOG")' = Line(mem', Size, at'["LOG"])
BY StartIs DEF Pending, Line

LEMMA EmptyLine == ASSUME NEW m, NEW i PROVE Line(m, i, 0) = <<>> /\ LineAt(m, i, 0)
BY DEF Line, LineAt

LEMMA JoinEmpty == ASSUME NEW S, NEW s \in Seq(S) PROVE s \o <<>> = s
OBVIOUS

(* What the steps that leave OUT's line, or LOG's, alone keep of it.       *)
LEMMA LogKept ==
  ASSUME CLog, CTypes, UNCHANGED serial, at'["LOG"] = at["LOG"], sent'["LOG"] = sent["LOG"], intruded => intruded',
         ~intruded' => \A k \in 1 .. at["LOG"] : mem'[Size + k - 1] = mem[Size + k - 1]
  PROVE  CLog'
<1> SUFFICES ASSUME ~intruded'
             PROVE  /\ LineAt(mem', Size, at'["LOG"]) /\ serial' \in Seq(Char)
                    /\ serial' \o Pending("LOG")' = sent'["LOG"]
  BY DEF CLog
<1>1. at["LOG"] \in Nat
  BY VgaSizes DEF CTypes
<1>2. /\ LineAt(mem, Size, at["LOG"]) /\ serial \in Seq(Char)
      /\ serial \o Pending("LOG") = sent["LOG"]
  BY DEF CLog
<1>3. Line(mem', Size, at["LOG"]) = Line(mem, Size, at["LOG"]) /\ LineAt(mem', Size, at["LOG"])
  BY <1>1, <1>2, LineSame, ZenonT(90)
<1>4. Pending("LOG")' = Pending("LOG")
  BY <1>3, PendingIs, PendingNext
<1> QED
  BY <1>2, <1>3, <1>4, Zenon

LEMMA OutKept ==
  ASSUME COut, CTypes, Shown' = Shown, at'["OUT"] = at["OUT"], UNCHANGED kept,
         \A k \in 1 .. at["OUT"] : mem'[0 + k - 1] = mem[0 + k - 1]
  PROVE  COut'
<1>1. at["OUT"] \in Nat
  BY VgaSizes DEF CTypes
<1>2. LineAt(mem, 0, at["OUT"]) /\ Shown \o Pending("OUT") = kept
  BY DEF COut
<1>3. Line(mem', 0, at["OUT"]) = Line(mem, 0, at["OUT"]) /\ LineAt(mem', 0, at["OUT"])
  BY <1>1, <1>2, LineSame, ZenonT(90)
<1>4. Pending("OUT")' = Pending("OUT")
  BY <1>3, PendingIs, PendingNext
<1>5. LineAt(mem', 0, at'["OUT"]) /\ Shown' \o Pending("OUT")' = kept'
  BY <1>2, <1>3, <1>4, Zenon
<1> QED
  BY <1>5 DEF COut

LEMMA PutOutStep ==
  ASSUME ConsoleInv, NEW c \in Alphabet["OUT"], PutOut(c)
  PROVE  ConsoleInv'
<1>1. CTypes /\ COut /\ CLog /\ CCount /\ CTail
  BY DEF ConsoleInv
<1>2. /\ Within /\ Store("OUT", c) /\ sent' = [sent EXCEPT !["OUT"] = Append(sent["OUT"], c)]
      /\ kept' = IF at["OUT"] < Size THEN Append(kept, c) ELSE kept
      /\ intruded' = (intruded \/ Intrudes(c))
  BY DEF PutOut
<1>3. c \in Char
  BY DEF Char, Stream
<1>4. PICK n \in 0 .. Size : n = at["OUT"]
  BY <1>1 DEF CTypes
<1>5. Size \in Nat \ {0} /\ MaxPuts \in Nat /\ n \in Nat /\ n <= Size /\ 0 = Start["OUT"]
  BY StartIs, VgaSizes
<1>6. /\ mem' \in [Cells -> Char \cup {Nul}] /\ at' \in [{"OUT", "LOG"} -> 0 .. Size]
      /\ mem'[0 + n] = c
      /\ \A j \in Cells : (j # 0 + n /\ j # 0 + n + 1) => mem'[j] = mem[j]
      /\ ~IsFlushed(c, n + 1) =>
              /\ n + 1 <= Size /\ c # "newline" /\ mem'[0 + n + 1] = mem[0 + n + 1]
              /\ at' = [at EXCEPT !["OUT"] = n + 1]
              /\ UNCHANGED <<screen, emitted, serial>>
      /\ IsFlushed(c, n + 1) =>
              /\ mem'[0 + n + 1] = Nul
              /\ at' = [at EXCEPT !["OUT"] = 0]
              /\ Emit("OUT", Shorter(TextAt(mem', 0), Size)) /\ UNCHANGED serial
  BY <1>1, <1>2, <1>3, <1>4, <1>5, StoreStep
<1>7. /\ emitted \in Seq(Emission) /\ kept \in Seq(Char) /\ sent \in [Stream -> Seq(Char)]
      /\ intruded \in BOOLEAN /\ at \in [{"OUT", "LOG"} -> 0 .. Size]
  BY <1>1 DEF CTypes
<1>8. /\ sent' \in [Stream -> Seq(Char)] /\ Len(sent'["OUT"]) = Len(sent["OUT"]) + 1
      /\ sent'["LOG"] = sent["LOG"] /\ sent'["ERR"] = sent["ERR"]
  <2>1. sent["OUT"] \in Seq(Char) /\ "OUT" \in Stream /\ "LOG" \in Stream /\ "ERR" \in Stream
    BY <1>7 DEF Stream
  <2>2. Append(sent["OUT"], c) \in Seq(Char) /\ Len(Append(sent["OUT"], c)) = Len(sent["OUT"]) + 1
    BY <1>3, <2>1, AppendProperties
  <2> QED
    BY <1>2, <1>7, <2>1, <2>2
<1>9. kept' \in Seq(Char) /\ intruded' \in BOOLEAN
  BY <1>2, <1>3, <1>7, AppendProperties
<1>10. PICK a \in Nat, b \in Nat, d \in Nat, e \in Nat :
          /\ a = Len(sent["OUT"]) /\ b = Len(sent["LOG"]) /\ d = Len(sent["ERR"]) /\ e = Len(emitted)
          /\ e + n <= a + d /\ a + b + d < MaxPuts
  <2>1. Len(sent["OUT"]) \in Nat /\ Len(sent["LOG"]) \in Nat /\ Len(sent["ERR"]) \in Nat /\ Len(emitted) \in Nat
    BY <1>7 DEF Stream
  <2> QED
    BY <1>1, <1>2, <1>4, <2>1 DEF Within, CCount
<1>c. e + n <= a + d /\ a + b + d < MaxPuts
  BY <1>10
<1> DEFINE old == Pending("OUT")
           new == Line(mem', 0, n + 1)
<1>11. /\ old \in Seq(Char) /\ Len(old) = n /\ LineAt(mem, 0, n) /\ Shown \o old = kept
       /\ \A k \in 1 .. n : mem[0 + k - 1] \in Char
  <2>1. LineAt(mem, 0, n) /\ Shown \o old = kept
    BY <1>1, <1>4 DEF COut
  <2>2. old = Line(mem, 0, n)
    BY <1>4, PendingIs
  <2>3. Line(mem, 0, n) \in Seq(Char) /\ Len(Line(mem, 0, n)) = n
    BY <1>5, <2>1, LineIs
  <2> QED
    BY <2>1, <2>2, <2>3 DEF LineAt
<1>12. \A k \in 1 .. n : mem'[0 + k - 1] = mem[0 + k - 1]
  BY <1>5, <1>6 DEF Cells
<1>13. new \in Seq(Char) /\ OneMore(old, c, new) /\ Len(new) = n + 1
  <2>1. old = Line(mem, 0, n)
    BY <1>4, PendingIs
  <2>2. 0 \in Nat /\ mem'[0 + n] \in Char
    BY <1>3, <1>6
  <2>3. new \in Seq(Char) /\ OneMore(Line(mem, 0, n), mem'[0 + n], new)
    BY <1>5, <1>11, <1>12, <2>2, LineMore
  <2> QED
    BY <1>6, <1>11, <2>1, <2>3 DEF OneMore
<1>14. Shown \in Seq(Char)
  BY <1>7, ShownIs
<1> HIDE DEF old, new
<1>15. Append(kept, c) = Shown \o new
  <2>1. Append(Shown \o old, c) = Shown \o new
    BY <1>3, <1>11, <1>13, <1>14, AppendJoin, ZenonT(90)
  <2> QED
    BY <1>11, <2>1
<1>16. CLog'
  <2>1. at'["LOG"] = at["LOG"] /\ UNCHANGED serial
    BY <1>6, <1>7
  <2>2. PICK l \in Nat : l = at["LOG"]
    BY <1>7
  <2>3. ASSUME ~intruded', NEW k \in 1 .. l PROVE mem'[Size + k - 1] = mem[Size + k - 1]
    <3>1. Size + k - 1 \in Cells /\ Size + k - 1 >= Size
      <4>1. l <= Size
        BY <1>7, <2>2
      <4> QED
        BY <1>5, <4>1 DEF Cells
    <3>2. CASE IsFlushed(c, n + 1)
      <4>1. n + 1 < Size
        <5>1. ~Intrudes(c)
          BY <1>2, <2>3, Zenon
        <5>2. at["LOG"] > 0 /\ at["OUT"] + 1 = n + 1
          BY <1>4, <2>2
        <5>3. ~(n + 1 >= Size)
          BY <3>2, <5>1, <5>2 DEF Intrudes
        <5> QED
          BY <1>5, <5>3
      <4>2. Size + k - 1 # 0 + n /\ Size + k - 1 # 0 + n + 1
        BY <1>5, <3>1, <4>1
      <4> QED
        BY <1>6, <3>1, <4>2
    <3>3. CASE ~IsFlushed(c, n + 1)
      <4>1. n + 1 <= Size /\ mem'[0 + n + 1] = mem[0 + n + 1]
        BY <1>6, <3>3
      <4>2. Size + k - 1 # 0 + n
        BY <1>5, <3>1, <4>1
      <4>3. PICK j \in Cells : j = Size + k - 1
        BY <3>1
      <4>4. j # 0 + n
        BY <4>2, <4>3
      <4>5. mem'[j] = mem[j]
        BY <1>6, <4>1, <4>4
      <4> QED
        BY <4>3, <4>5
    <3> QED
      BY <3>2, <3>3
  <2> QED
    BY <1>1, <1>2, <1>8, <2>1, <2>2, <2>3, LogKept
<1>17. CASE ~IsFlushed(c, n + 1)
  <2>1. /\ n + 1 <= Size /\ c # "newline" /\ at' = [at EXCEPT !["OUT"] = n + 1]
        /\ UNCHANGED <<screen, emitted>>
    BY <1>6, <1>17
  <2>2. at'["OUT"] = n + 1 /\ kept' = Append(kept, c)
    BY <1>2, <1>4, <1>5, <1>7, <2>1
  <2>3. Shown' = Shown /\ CTail'
    BY <1>1, <2>1, SilentStep
  <2>4. COut'
    <3>1. LineAt(mem', 0, n + 1)
      <4>1. ASSUME NEW k \in 1 .. n + 1 PROVE mem'[0 + k - 1] \in Char \ {"newline"}
        <5>1. CASE k \in 1 .. n
          BY <1>11, <1>12, <5>1 DEF LineAt
        <5>2. CASE k = n + 1
          <6>1. 0 + k - 1 = 0 + n
            BY <1>5, <5>2
          <6> QED
            BY <1>3, <1>6, <2>1, <6>1
        <5> QED
          BY <1>5, <5>1, <5>2
      <4> QED
        BY <4>1 DEF LineAt
    <3>2. Pending("OUT")' = new
      BY <2>2, PendingNext DEF new
    <3>3. LineAt(mem', 0, at'["OUT"]) /\ Shown' \o Pending("OUT")' = kept'
      BY <1>15, <2>2, <2>3, <3>1, <3>2, Zenon
    <3> QED
      BY <3>3 DEF COut
  <2>5. emitted' = emitted
    BY <2>1
  <2>6. CTypes'
    BY <1>6, <1>7, <1>8, <1>9, <2>5 DEF CTypes, Cells
  <2>7. CCount'
    <3>1. /\ Len(sent'["OUT"]) = a + 1 /\ Len(sent'["LOG"]) = b /\ Len(sent'["ERR"]) = d
          /\ Len(emitted') = e /\ at'["OUT"] = n + 1
      BY <1>8, <1>10, <2>2, <2>5
    <3>2. e + (n + 1) <= (a + 1) + d /\ (a + 1) + b + d <= MaxPuts
      BY <1>5, <1>c
    <3> QED
      BY <3>1, <3>2 DEF CCount
  <2> QED
    BY <1>16, <2>3, <2>4, <2>6, <2>7 DEF ConsoleInv
<1>18. CASE IsFlushed(c, n + 1)
  <2> DEFINE text == Shorter(TextAt(mem', 0), Size)
  <2>1. mem'[0 + n + 1] = Nul /\ at' = [at EXCEPT !["OUT"] = 0] /\ Emit("OUT", text)
    BY <1>6, <1>18
  <2>2. TextAt(mem', 0) = new
    <3>1. 0 + (n + 1) <= 2 * Size + 1 /\ n + 1 \in Nat /\ 0 \in Nat /\ 0 + (n + 1) = 0 + n + 1
      BY <1>5
    <3>2. ASSUME NEW k \in 1 .. n + 1 PROVE mem'[0 + k - 1] \in Char
      <4>1. CASE k \in 1 .. n
        BY <1>11, <1>12, <4>1
      <4>2. CASE k = n + 1
        <5>1. 0 + k - 1 = 0 + n
          BY <1>5, <4>2
        <5> QED
          BY <1>3, <1>6, <5>1
      <4> QED
        BY <1>5, <4>1, <4>2
    <3>3. mem'[0 + (n + 1)] = Nul
      BY <2>1, <3>1
    <3> QED
      BY <3>1, <3>2, <3>3, TextAtIs DEF new
  <2>3. text \in Seq(Char) /\ Len(text) <= n + 1 /\ Shown \o text = kept'
    <3>1. CASE n < Size
      <4>1. Len(new) <= Size
        BY <1>5, <1>13, <3>1
      <4>2. text = new
        BY <1>5, <1>13, <2>2, <4>1, ShorterIs
      <4> QED
        BY <1>2, <1>4, <1>13, <1>15, <3>1, <4>2
    <3>2. CASE ~(n < Size)
      <4>1. Len(old) = Size
        BY <1>5, <1>11, <3>2
      <4>2. text = old
        BY <1>5, <1>11, <1>13, <2>2, <4>1, ShorterIs
      <4> QED
        BY <1>2, <1>4, <1>5, <1>11, <3>2, <4>2
    <3> QED
      BY <3>1, <3>2
  <2> HIDE DEF text
  <2>4. PICK f \in Nat : f = Len(text)
    BY <2>3
  <2>5. e + f <= MaxPuts /\ e + f <= (a + 1) + d
    <3>1. f <= n + 1
      BY <2>3, <2>4
    <3>2. e + n <= a + d /\ a + b + d < MaxPuts
      BY <1>10
    <3> QED
      BY <1>5, <3>1, <3>2
  <2>6. /\ emitted' \in Seq(Emission) /\ Len(emitted') = e + f /\ Shown' = Shown \o text /\ CTail'
    <3>1. Len(emitted) + Len(text) <= MaxPuts /\ "OUT" \in Stream
      BY <1>10, <2>4, <2>5 DEF Stream
    <3>2. /\ emitted' \in Seq(Emission) /\ Len(emitted') = Len(emitted) + Len(text)
          /\ Shown' = (IF "OUT" = "OUT" THEN Shown \o text ELSE Shown) /\ CTail'
      BY <1>1, <1>7, <2>1, <2>3, <3>1, EmitStep
    <3> QED
      BY <1>10, <2>4, <3>2
  <2>7. at'["OUT"] = 0
    BY <1>7, <2>1
  <2>8. COut'
    <3>1. LineAt(mem', 0, 0) /\ Pending("OUT")' = <<>>
      BY <2>7, EmptyLine, PendingNext
    <3>2. kept' \o <<>> = kept'
      BY <1>9, JoinEmpty
    <3>3. LineAt(mem', 0, at'["OUT"]) /\ Shown' \o Pending("OUT")' = kept'
      BY <2>3, <2>6, <2>7, <3>1, <3>2, Zenon
    <3> QED
      BY <3>3 DEF COut
  <2>9. CTypes'
    BY <1>6, <1>8, <1>9, <2>6 DEF CTypes, Cells
  <2>10. CCount'
    <3>1. /\ Len(sent'["OUT"]) = a + 1 /\ Len(sent'["LOG"]) = b /\ Len(sent'["ERR"]) = d
          /\ Len(emitted') = e + f /\ at'["OUT"] = 0
      BY <1>8, <1>10, <2>6, <2>7
    <3>2. (e + f) + 0 <= (a + 1) + d /\ (a + 1) + b + d <= MaxPuts
      BY <1>5, <1>c, <2>5
    <3> QED
      BY <3>1, <3>2 DEF CCount
  <2> QED
    BY <1>16, <2>6, <2>8, <2>9, <2>10 DEF ConsoleInv
<1> QED
  BY <1>17, <1>18

LEMMA PutLogStep ==
  ASSUME ConsoleInv, NEW c \in Alphabet["LOG"], PutLog(c)
  PROVE  ConsoleInv'
<1>1. CTypes /\ COut /\ CLog /\ CCount /\ CTail
  BY DEF ConsoleInv
<1>2. /\ Within /\ Store("LOG", c) /\ sent' = [sent EXCEPT !["LOG"] = Append(sent["LOG"], c)]
      /\ UNCHANGED <<kept, intruded>>
  BY DEF PutLog
<1>3. c \in Char
  BY DEF Char, Stream
<1>4. PICK n \in 0 .. Size : n = at["LOG"]
  BY <1>1 DEF CTypes
<1>5. Size \in Nat \ {0} /\ MaxPuts \in Nat /\ n \in Nat /\ n <= Size /\ Size = Start["LOG"]
  BY StartIs, VgaSizes
<1>6. /\ mem' \in [Cells -> Char \cup {Nul}] /\ at' \in [{"OUT", "LOG"} -> 0 .. Size]
      /\ mem'[Size + n] = c
      /\ \A j \in Cells : (j # Size + n /\ j # Size + n + 1) => mem'[j] = mem[j]
      /\ ~IsFlushed(c, n + 1) =>
              /\ n + 1 <= Size /\ c # "newline" /\ mem'[Size + n + 1] = mem[Size + n + 1]
              /\ at' = [at EXCEPT !["LOG"] = n + 1]
              /\ UNCHANGED <<screen, emitted, serial>>
      /\ IsFlushed(c, n + 1) =>
              /\ mem'[Size + n + 1] = Nul
              /\ at' = [at EXCEPT !["LOG"] = 0]
              /\ Send(TextAt(mem', Size)) /\ UNCHANGED <<screen, emitted>>
  BY <1>1, <1>2, <1>3, <1>4, <1>5, StoreStep
<1>7. /\ emitted \in Seq(Emission) /\ kept \in Seq(Char) /\ sent \in [Stream -> Seq(Char)]
      /\ intruded \in BOOLEAN /\ at \in [{"OUT", "LOG"} -> 0 .. Size]
  BY <1>1 DEF CTypes
<1>8. /\ sent' \in [Stream -> Seq(Char)] /\ Len(sent'["LOG"]) = Len(sent["LOG"]) + 1
      /\ sent'["LOG"] = Append(sent["LOG"], c)
      /\ sent'["OUT"] = sent["OUT"] /\ sent'["ERR"] = sent["ERR"]
  <2>1. sent["LOG"] \in Seq(Char) /\ "OUT" \in Stream /\ "LOG" \in Stream /\ "ERR" \in Stream
    BY <1>7 DEF Stream
  <2>2. Append(sent["LOG"], c) \in Seq(Char) /\ Len(Append(sent["LOG"], c)) = Len(sent["LOG"]) + 1
    BY <1>3, <2>1, AppendProperties
  <2> QED
    BY <1>2, <1>7, <2>1, <2>2
<1>9. UNCHANGED <<screen, emitted>> /\ at'["OUT"] = at["OUT"]
  BY <1>6, <1>7
<1>10. Shown' = Shown /\ CTail'
  BY <1>1, <1>9, SilentStep
<1>11. COut'
  <2>1. PICK l \in Nat : l = at["OUT"] /\ l <= Size
    BY <1>5, <1>7
  <2>2. ASSUME NEW k \in 1 .. l PROVE mem'[0 + k - 1] = mem[0 + k - 1]
    <3>1. 0 + k - 1 \in Cells /\ 0 + k - 1 # Size + n /\ 0 + k - 1 # Size + n + 1
      BY <1>5, <2>1 DEF Cells
    <3> QED
      BY <1>6, <3>1
  <2> QED
    BY <1>1, <1>2, <1>9, <1>10, <2>1, <2>2, OutKept
<1>12. CTypes'
  BY <1>2, <1>6, <1>7, <1>8, <1>9 DEF CTypes, Cells
<1>13. CCount'
  <2>1. PICK a \in Nat, b \in Nat, d \in Nat : a = Len(sent["OUT"]) /\ b = Len(sent["LOG"]) /\ d = Len(sent["ERR"])
    BY <1>7 DEF Stream
  <2>2. a + b + d < MaxPuts /\ Len(sent'["OUT"]) = a /\ Len(sent'["LOG"]) = b + 1 /\ Len(sent'["ERR"]) = d
    BY <1>2, <1>8, <2>1 DEF Within
  <2>3. a + (b + 1) + d <= MaxPuts
    <3>1. a + b + d < MaxPuts
      BY <2>2
    <3> QED
      BY <1>5, <3>1
  <2>4. emitted' = emitted /\ Len(emitted) + at["OUT"] <= Len(sent["OUT"]) + Len(sent["ERR"])
    BY <1>1, <1>9 DEF CCount
  <2> QED
    BY <1>8, <1>9, <2>2, <2>3, <2>4 DEF CCount
<1>14. CLog'
  <2> SUFFICES ASSUME ~intruded'
               PROVE  /\ LineAt(mem', Size, at'["LOG"]) /\ serial' \in Seq(Char)
                      /\ serial' \o Pending("LOG")' = sent'["LOG"]
    BY DEF CLog
  <2> DEFINE old == Pending("LOG")
             new == Line(mem', Size, n + 1)
  <2>1. /\ old = Line(mem, Size, n) /\ old \in Seq(Char) /\ LineAt(mem, Size, n)
        /\ serial \in Seq(Char) /\ serial \o old = sent["LOG"]
        /\ \A k \in 1 .. n : mem[Size + k - 1] \in Char
    <3>1. LineAt(mem, Size, n) /\ serial \in Seq(Char) /\ serial \o old = sent["LOG"]
      BY <1>1, <1>2, <1>4 DEF CLog
    <3>2. old = Line(mem, Size, n)
      BY <1>4, PendingIs
    <3>3. Line(mem, Size, n) \in Seq(Char)
      BY <1>5, <3>1, LineIs
    <3> QED
      BY <3>1, <3>2, <3>3 DEF LineAt
  <2>2. \A k \in 1 .. n : mem'[Size + k - 1] = mem[Size + k - 1]
    <3> SUFFICES ASSUME NEW k \in 1 .. n PROVE mem'[Size + k - 1] = mem[Size + k - 1]
      OBVIOUS
    <3>1. Size + k - 1 \in Cells /\ Size + k - 1 # Size + n /\ Size + k - 1 # Size + n + 1
      BY <1>5 DEF Cells
    <3> QED
      BY <1>6, <3>1
  <2>3. new \in Seq(Char) /\ OneMore(old, c, new)
    <3>1. Size \in Nat /\ mem'[Size + n] \in Char
      BY <1>3, <1>5, <1>6
    <3>2. new \in Seq(Char) /\ OneMore(Line(mem, Size, n), mem'[Size + n], new)
      BY <1>5, <2>1, <2>2, <3>1, LineMore
    <3> QED
      BY <1>6, <2>1, <3>2
  <2> HIDE DEF old, new
  <2>4. serial \o new = sent'["LOG"]
    <3>1. Append(serial \o old, c) = serial \o new
      BY <1>3, <2>1, <2>3, AppendJoin
    <3> QED
      BY <1>8, <2>1, <3>1
  <2>5. ASSUME NEW k \in 1 .. n + 1
        PROVE  mem'[Size + k - 1] \in Char /\ (c # "newline" => mem'[Size + k - 1] # "newline")
    <3>1. CASE k \in 1 .. n
      BY <2>1, <2>2, <3>1 DEF LineAt
    <3>2. CASE k = n + 1
      <4>1. Size + k - 1 = Size + n
        BY <1>5, <3>2
      <4> QED
        BY <1>3, <1>6, <4>1
    <3> QED
      BY <1>5, <3>1, <3>2
  <2>6. CASE ~IsFlushed(c, n + 1)
    <3>1. c # "newline" /\ at' = [at EXCEPT !["LOG"] = n + 1] /\ serial' = serial
      BY <1>6, <2>6
    <3>2. at'["LOG"] = n + 1
      BY <1>7, <3>1
    <3>3. LineAt(mem', Size, n + 1)
      BY <2>5, <3>1 DEF LineAt
    <3>4. Pending("LOG")' = new
      BY <3>2, PendingNext DEF new
    <3> QED
      BY <2>1, <2>4, <3>1, <3>2, <3>3, <3>4, Zenon
  <2>7. CASE IsFlushed(c, n + 1)
    <3>1. /\ mem'[Size + n + 1] = Nul /\ at' = [at EXCEPT !["LOG"] = 0]
          /\ serial' = serial \o TextAt(mem', Size)
      BY <1>6, <2>7 DEF Send
    <3>2. TextAt(mem', Size) = new
      <4>1. Size + (n + 1) <= 2 * Size + 1 /\ n + 1 \in Nat /\ Size \in Nat /\ Size + (n + 1) = Size + n + 1
        BY <1>5
      <4>2. mem'[Size + (n + 1)] = Nul
        BY <3>1, <4>1
      <4> QED
        BY <2>5, <4>1, <4>2, TextAtIs DEF new
    <3>3. at'["LOG"] = 0
      BY <1>7, <3>1
    <3>4. serial' = sent'["LOG"] /\ serial' \in Seq(Char)
      <4>1. "LOG" \in Stream
        BY DEF Stream
      <4> QED
        BY <1>8, <2>4, <3>1, <3>2, <4>1
    <3>5. LineAt(mem', Size, 0) /\ Pending("LOG")' = <<>>
      BY <3>3, EmptyLine, PendingNext
    <3>6. serial' \o <<>> = serial'
      BY <3>4, JoinEmpty
    <3> QED
      BY <3>3, <3>4, <3>5, <3>6, Zenon
  <2> QED
    BY <2>6, <2>7
<1> QED
  BY <1>10, <1>11, <1>12, <1>13, <1>14 DEF ConsoleInv

LEMMA PutErrStep ==
  ASSUME ConsoleInv, NEW c \in Alphabet["ERR"], PutErr(c)
  PROVE  ConsoleInv'
<1>1. CTypes /\ COut /\ CLog /\ CCount /\ CTail
  BY DEF ConsoleInv
<1>2. /\ Within /\ Emit("ERR", <<c>>) /\ sent' = [sent EXCEPT !["ERR"] = Append(sent["ERR"], c)]
      /\ UNCHANGED <<mem, at, serial, kept, intruded>>
  BY DEF PutErr
<1>3. c \in Char
  BY DEF Char, Stream
<1>4. PICK text \in Seq(Char) : text = <<c>> /\ Len(text) = 1
  <2>1. <<c>> \in Seq(Char)
    BY <1>3
  <2>2. Len(<<c>>) = 1
    OBVIOUS
  <2> QED
    BY <2>1, <2>2, Zenon
<1>5. /\ emitted \in Seq(Emission) /\ sent \in [Stream -> Seq(Char)] /\ at \in [{"OUT", "LOG"} -> 0 .. Size]
      /\ Size \in Nat /\ MaxPuts \in Nat
  BY <1>1, VgaSizes DEF CTypes
<1>6. /\ sent' \in [Stream -> Seq(Char)] /\ Len(sent'["ERR"]) = Len(sent["ERR"]) + 1
      /\ sent'["LOG"] = sent["LOG"] /\ sent'["OUT"] = sent["OUT"]
  <2>1. sent["ERR"] \in Seq(Char) /\ "OUT" \in Stream /\ "LOG" \in Stream /\ "ERR" \in Stream
    BY <1>5 DEF Stream
  <2>2. Append(sent["ERR"], c) \in Seq(Char) /\ Len(Append(sent["ERR"], c)) = Len(sent["ERR"]) + 1
    BY <1>3, <2>1, AppendProperties
  <2> QED
    BY <1>2, <1>5, <2>1, <2>2
<1>7. PICK a \in Nat, b \in Nat, d \in Nat, e \in Nat, n \in Nat :
          /\ a = Len(sent["OUT"]) /\ b = Len(sent["LOG"]) /\ d = Len(sent["ERR"]) /\ e = Len(emitted)
          /\ n = at["OUT"] /\ e + n <= a + d /\ a + b + d < MaxPuts
  <2>1. /\ Len(sent["OUT"]) \in Nat /\ Len(sent["LOG"]) \in Nat /\ Len(sent["ERR"]) \in Nat
        /\ Len(emitted) \in Nat /\ at["OUT"] \in Nat
    BY <1>5 DEF Stream
  <2> QED
    BY <1>1, <1>2, <2>1 DEF Within, CCount
<1>8. e + n <= a + d /\ a + b + d < MaxPuts
  BY <1>7
<1>9. e + 1 <= MaxPuts /\ (e + 1) + n <= a + (d + 1) /\ a + b + (d + 1) <= MaxPuts
  BY <1>5, <1>8
<1>10. emitted' \in Seq(Emission) /\ Len(emitted') = e + 1 /\ Shown' = Shown /\ CTail'
  <2>1. Emit("ERR", text) /\ Len(emitted) + Len(text) <= MaxPuts /\ "ERR" \in Stream
    BY <1>2, <1>4, <1>7, <1>9 DEF Stream
  <2>2. /\ emitted' \in Seq(Emission) /\ Len(emitted') = Len(emitted) + Len(text)
        /\ Shown' = (IF "ERR" = "OUT" THEN Shown \o text ELSE Shown) /\ CTail'
    BY <1>1, <1>5, <2>1, EmitStep
  <2> QED
    BY <1>4, <1>7, <2>2
<1>11. COut'
  BY <1>1, <1>2, <1>10, OutKept
<1>12. CLog'
  BY <1>1, <1>2, <1>6, LogKept
<1>13. CTypes'
  BY <1>1, <1>2, <1>6, <1>10 DEF CTypes
<1>14. CCount'
  <2>1. /\ Len(sent'["OUT"]) = a /\ Len(sent'["LOG"]) = b /\ Len(sent'["ERR"]) = d + 1
        /\ Len(emitted') = e + 1 /\ at'["OUT"] = n
    BY <1>2, <1>6, <1>7, <1>10
  <2> QED
    BY <1>9, <2>1 DEF CCount
<1> QED
  BY <1>10, <1>11, <1>12, <1>13, <1>14 DEF ConsoleInv

LEMMA FlushOutStep ==
  ASSUME ConsoleInv, FlushOut
  PROVE  ConsoleInv'
<1>1. CTypes /\ COut /\ CLog /\ CCount /\ CTail
  BY DEF ConsoleInv
<1>2. /\ Fflush(mem, "OUT", at["OUT"]) /\ UNCHANGED <<sent, kept>>
      /\ intruded' = (intruded \/ (at["OUT"] = Size /\ at["LOG"] > 0))
  BY DEF FlushOut
<1>3. PICK n \in 0 .. Size : n = at["OUT"]
  BY <1>1 DEF CTypes
<1>4. Size \in Nat \ {0} /\ MaxPuts \in Nat /\ n \in Nat /\ n <= Size
  BY VgaSizes
<1> DEFINE text == Shorter(TextAt(mem', 0), Size)
<1>5. /\ mem' = [mem EXCEPT ![n] = Nul] /\ at' = [at EXCEPT !["OUT"] = 0]
      /\ Emit("OUT", text) /\ UNCHANGED serial
  <2>1. mem' = [mem EXCEPT ![0 + n] = Nul]
    BY <1>2, <1>3, StartIs DEF Fflush, Terminated
  <2>2. 0 + n = n
    BY <1>4
  <2>3. at' = [at EXCEPT !["OUT"] = 0] /\ Emit("OUT", text) /\ UNCHANGED serial
    BY <1>2 DEF Fflush, Rewound
  <2> QED
    BY <2>1, <2>2, <2>3
<1>6. /\ emitted \in Seq(Emission) /\ kept \in Seq(Char) /\ sent \in [Stream -> Seq(Char)]
      /\ intruded \in BOOLEAN /\ at \in [{"OUT", "LOG"} -> 0 .. Size] /\ mem \in [Cells -> Char \cup {Nul}]
  BY <1>1 DEF CTypes, Cells
<1>7. n \in Cells
  BY <1>4 DEF Cells
<1>8. /\ mem' \in [Cells -> Char \cup {Nul}] /\ mem'[n] = Nul
      /\ \A j \in Cells : j # n => mem'[j] = mem[j]
  BY <1>5, <1>6, <1>7
<1>9. at' \in [{"OUT", "LOG"} -> 0 .. Size] /\ at'["OUT"] = 0 /\ at'["LOG"] = at["LOG"]
  BY <1>4, <1>5, <1>6
<1> DEFINE old == Pending("OUT")
<1>10. /\ old = Line(mem, 0, n) /\ old \in Seq(Char) /\ Len(old) = n /\ Shown \o old = kept
       /\ LineAt(mem, 0, n)
  <2>1. LineAt(mem, 0, n) /\ Shown \o old = kept
    BY <1>1, <1>3 DEF COut
  <2>2. old = Line(mem, 0, n)
    BY <1>3, PendingIs
  <2>3. Line(mem, 0, n) \in Seq(Char) /\ Len(Line(mem, 0, n)) = n
    BY <1>4, <2>1, LineIs
  <2> QED
    BY <2>1, <2>2, <2>3
<1> HIDE DEF old, text
<1>11. text = old
  <2>1. ASSUME NEW k \in 1 .. n PROVE mem'[0 + k - 1] = mem[0 + k - 1]
    <3>1. 0 + k - 1 \in Cells /\ 0 + k - 1 # n
      BY <1>4 DEF Cells
    <3> QED
      BY <1>8, <3>1
  <2>2. Line(mem', 0, n) = old /\ \A k \in 1 .. n : mem'[0 + k - 1] \in Char
    BY <1>4, <1>10, <2>1, LineSame DEF LineAt
  <2>3. 0 \in Nat /\ 0 + n = n /\ 0 + n <= 2 * Size + 1
    BY <1>4
  <2>4. mem'[0 + n] = Nul
    BY <1>8, <2>3
  <2>5. TextAt(mem', 0) = Line(mem', 0, n)
    BY <1>4, <2>2, <2>3, <2>4, TextAtIs
  <2>6. Shorter(old, Size) = old
    BY <1>4, <1>10, ShorterIs
  <2> QED
    BY <2>2, <2>5, <2>6 DEF text
<1>12. PICK a \in Nat, b \in Nat, d \in Nat, e \in Nat :
          /\ a = Len(sent["OUT"]) /\ b = Len(sent["LOG"]) /\ d = Len(sent["ERR"]) /\ e = Len(emitted)
          /\ e + n <= a + d /\ a + b + d <= MaxPuts
  <2>1. Len(sent["OUT"]) \in Nat /\ Len(sent["LOG"]) \in Nat /\ Len(sent["ERR"]) \in Nat /\ Len(emitted) \in Nat
    BY <1>6 DEF Stream
  <2> QED
    BY <1>1, <1>3, <2>1 DEF CCount
<1>13. e + n <= MaxPuts
  <2>1. e + n <= a + d /\ a + b + d <= MaxPuts
    BY <1>12
  <2> QED
    BY <1>4, <2>1
<1>14. emitted' \in Seq(Emission) /\ Len(emitted') = e + n /\ Shown' = kept /\ CTail'
  <2>1. Emit("OUT", old) /\ Len(emitted) + Len(old) <= MaxPuts /\ "OUT" \in Stream
    BY <1>5, <1>10, <1>11, <1>12, <1>13 DEF Stream
  <2>2. /\ emitted' \in Seq(Emission) /\ Len(emitted') = Len(emitted) + Len(old)
        /\ Shown' = (IF "OUT" = "OUT" THEN Shown \o old ELSE Shown) /\ CTail'
    BY <1>1, <1>6, <1>10, <2>1, EmitStep
  <2> QED
    BY <1>10, <1>12, <2>2
<1>15. COut'
  <2>1. LineAt(mem', 0, 0) /\ Pending("OUT")' = <<>>
    BY <1>9, EmptyLine, PendingNext
  <2>2. kept' \o <<>> = kept' /\ kept' = kept
    BY <1>2, <1>6, JoinEmpty
  <2>3. LineAt(mem', 0, at'["OUT"]) /\ Shown' \o Pending("OUT")' = kept'
    BY <1>9, <1>14, <2>1, <2>2, Zenon
  <2> QED
    BY <2>3 DEF COut
<1>16. CLog'
  <2>1. PICK l \in Nat : l = at["LOG"] /\ l <= Size
    BY <1>4, <1>6
  <2>2. ASSUME ~intruded', NEW k \in 1 .. l PROVE mem'[Size + k - 1] = mem[Size + k - 1]
    <3>1. n # Size
      <4>1. ~(at["OUT"] = Size /\ at["LOG"] > 0)
        BY <1>2, <2>2, Zenon
      <4>2. at["LOG"] > 0
        BY <2>1
      <4> QED
        BY <1>3, <4>1, <4>2
    <3>2. Size + k - 1 \in Cells /\ Size + k - 1 # n
      BY <1>4, <2>1, <3>1 DEF Cells
    <3> QED
      BY <1>8, <3>2
  <2> QED
    BY <1>1, <1>2, <1>5, <1>9, <2>1, <2>2, LogKept
<1>17. CTypes'
  <2>1. intruded' \in BOOLEAN
    BY <1>2, <1>6
  <2> QED
    BY <1>2, <1>6, <1>8, <1>9, <1>14, <2>1 DEF CTypes, Cells
<1>18. CCount'
  <2>1. Len(emitted') = e + n /\ at'["OUT"] = 0 /\ sent' = sent
    BY <1>2, <1>9, <1>14
  <2>2. (e + n) + 0 <= a + d
    <3>1. e + n <= a + d
      BY <1>12
    <3> QED
      BY <3>1
  <2> QED
    BY <1>12, <2>1, <2>2 DEF CCount
<1> QED
  BY <1>14, <1>15, <1>16, <1>17, <1>18 DEF ConsoleInv

LEMMA ConsoleStart == Init => ConsoleInv
<1> SUFFICES ASSUME Init PROVE ConsoleInv
  OBVIOUS
<1>1. /\ mem = [i \in 0 .. 2 * Size + 1 |-> Nul] /\ at = [s \in {"OUT", "LOG"} |-> 0]
      /\ screen = Cleared(Height) /\ emitted = <<>> /\ serial = <<>>
      /\ sent = [s \in Stream |-> <<>>] /\ kept = <<>> /\ intruded = FALSE
  BY DEF Init
<1>2. Size \in Nat \ {0} /\ MaxPuts \in Nat /\ Height \in Nat /\ MaxPuts + Height \in Nat
  BY VgaSizes
<1>4. PICK none \in Seq(Char) : none = <<>> /\ Len(none) = 0
  BY EmptyList
<1>3. CTypes
  <2>1. mem \in [0 .. 2 * Size + 1 -> Char \cup {Nul}] /\ at \in [{"OUT", "LOG"} -> 0 .. Size] /\ intruded \in BOOLEAN
    <3>1. mem \in [0 .. 2 * Size + 1 -> Char \cup {Nul}]
      BY <1>1, Zenon
    <3>2. 0 \in 0 .. Size
      BY <1>2
    <3> QED
      BY <1>1, <3>1, <3>2, Zenon
  <2>2. sent = [s \in Stream |-> none] /\ kept = none
    BY <1>1, <1>4, Zenon
  <2>3. sent \in [Stream -> Seq(Char)] /\ kept \in Seq(Char)
    BY <2>2
  <2>4. emitted \in Seq(Emission)
    BY <1>1, EmptyList
  <2> QED
    BY <2>1, <2>3, <2>4 DEF CTypes
<1>5. Shown = none /\ Tall = Cleared(MaxPuts + Height)
  <2>1. PICK list \in Seq(Emission) : list = <<>> /\ Len(list) = 0
    BY EmptyList
  <2>2. FoldLeft(OutOnly, none, list) = none
    BY <1>4, <2>1, OutOnlyFold
  <2>3. Shown = none
    BY <1>1, <1>4, <2>1, <2>2, Zenon DEF Shown
  <2>4. Cleared(MaxPuts + Height) \in Screens(MaxPuts + Height)
    BY <1>2, ConsoleSizes, ClearedTail DEF TailOf
  <2>5. Chars(emitted) = none
    <3>1. Chars(list) \in Seq(Char) /\ Len(Chars(list)) = 0
      BY <2>1, CharsOf
    <3>2. Chars(list) = <<>>
      BY <3>1
    <3> QED
      BY <1>1, <1>4, <2>1, <3>2, Zenon
  <2>6. FoldLeft(ConsoleEmit, Cleared(MaxPuts + Height), none) = Cleared(MaxPuts + Height)
    <3> DEFINE rows == MaxPuts + Height
               p == Cleared(rows)
    <3>1. rows \in Nat /\ p \in Screens(rows)
      BY <1>2, <2>4
    <3> HIDE DEF rows, p
    <3>2. LET r == EmitRun(rows, p, none) IN r[0] = p /\ FoldLeft(ConsoleEmit, p, none) = r[Len(none)]
      BY <3>1, EmitFold
    <3> QED
      BY <1>4, <3>2 DEF p, rows
  <2> QED
    BY <2>3, <2>5, <2>6 DEF Tall
<1>6. CTail
  BY <1>1, <1>2, <1>5, ConsoleSizes, ClearedTail DEF CTail
<1>7. at["OUT"] = 0 /\ at["LOG"] = 0
  BY <1>1
<1>8. Pending("OUT") = <<>> /\ Pending("LOG") = <<>>
  BY <1>7, EmptyLine, PendingIs
<1>9. none \o <<>> = none
  BY JoinEmpty
<1>10. COut
  BY <1>1, <1>4, <1>5, <1>7, <1>8, <1>9, EmptyLine, Zenon DEF COut
<1>11. CLog
  <2>1. sent["LOG"] = <<>>
    BY <1>1 DEF Stream
  <2>2. LineAt(mem, Size, at["LOG"])
    BY <1>7, EmptyLine
  <2> QED
    BY <1>1, <1>4, <1>8, <1>9, <2>1, <2>2, Zenon DEF CLog
<1>12. CCount
  <2>1. \A s \in Stream : Len(sent[s]) = 0
    BY <1>1
  <2>2. Len(sent["OUT"]) = 0 /\ Len(sent["LOG"]) = 0 /\ Len(sent["ERR"]) = 0 /\ Len(emitted) = 0
    BY <1>1, <2>1 DEF Stream
  <2> QED
    BY <1>2, <1>7, <2>2 DEF CCount
<1> QED
  BY <1>3, <1>6, <1>10, <1>11, <1>12 DEF ConsoleInv

(* The streams and the screen keep the invariant, whatever is printed.     *)
THEOREM ConsoleInvariance == Spec => []ConsoleInv
<1>1. Init => ConsoleInv
  BY ConsoleStart
<1>2. ConsoleInv /\ [Next]_vars => ConsoleInv'
  <2> SUFFICES ASSUME ConsoleInv, [Next]_vars PROVE ConsoleInv'
    OBVIOUS
  <2>1. CASE \E c \in Alphabet["OUT"] : PutOut(c)
    BY <2>1, PutOutStep
  <2>2. CASE \E c \in Alphabet["LOG"] : PutLog(c)
    BY <2>2, PutLogStep
  <2>3. CASE \E c \in Alphabet["ERR"] : PutErr(c)
    BY <2>3, PutErrStep
  <2>4. CASE FlushOut
    BY <2>4, FlushOutStep
  <2>5. CASE UNCHANGED vars
    <3>1. ConsoleInv' = ConsoleInv
      BY <2>5, Zenon DEF vars, ConsoleInv, CTypes, COut, CLog, CCount, CTail, Shown, Tall, Pending
    <3> QED
      BY <3>1
  <2> QED
    BY <2>1, <2>2, <2>3, <2>4, <2>5 DEF Next
<1> QED
  BY <1>1, <1>2, PTL DEF Spec

(* What OUT was given and had room for is on the screen, in order, but for *)
(* the line under way, which has no end yet.                               *)
THEOREM OutCorrect == Spec => []OutExact
<1>1. ConsoleInv => OutExact
  <2> SUFFICES ASSUME ConsoleInv PROVE OutExact
    OBVIOUS
  <2>1. Shown \o Pending("OUT") = kept /\ LineAt(mem, 0, at["OUT"]) /\ at["OUT"] \in Nat
    BY VgaSizes DEF ConsoleInv, COut, CTypes
  <2>2. "newline" \notin ToSet(Pending("OUT"))
    <3>1. /\ Line(mem, 0, at["OUT"]) \in Seq(Char) /\ Len(Line(mem, 0, at["OUT"])) = at["OUT"]
          /\ \A k \in 1 .. at["OUT"] : Line(mem, 0, at["OUT"])[k] # "newline"
      BY <2>1, LineIs
    <3> QED
      BY <3>1, PendingIs DEF ToSet
  <2> QED
    BY <2>1, <2>2 DEF OutExact
<1> QED
  BY <1>1, ConsoleInvariance, PTL

(* The log went out completely and in order, but for the line under way,   *)
(* unless a store of OUT hit it.                                           *)
THEOREM LogCorrect == Spec => []LogIntact
<1>1. ConsoleInv => LogIntact
  <2> SUFFICES ASSUME ConsoleInv, ~intruded
               PROVE  serial \o Pending("LOG") = sent["LOG"] /\ "newline" \notin ToSet(Pending("LOG"))
    BY DEF LogIntact
  <2>1. serial \o Pending("LOG") = sent["LOG"] /\ LineAt(mem, Size, at["LOG"]) /\ at["LOG"] \in Nat
    BY VgaSizes DEF ConsoleInv, CLog, CTypes
  <2>2. "newline" \notin ToSet(Pending("LOG"))
    <3>1. /\ Line(mem, Size, at["LOG"]) \in Seq(Char) /\ Len(Line(mem, Size, at["LOG"])) = at["LOG"]
          /\ \A k \in 1 .. at["LOG"] : Line(mem, Size, at["LOG"])[k] # "newline"
      BY <2>1, LineIs
    <3> QED
      BY <3>1, PendingIs DEF ToSet
  <2> QED
    BY <2>1, <2>2
<1> QED
  BY <1>1, ConsoleInvariance, PTL

(* The screen, of any size, is the tail of all the text there was, and the *)
(* cursor is on it.                                                        *)
THEOREM ScreenCorrect == Spec => []ScreenInv
<1>1. ConsoleInv => ScreenInv
  <2> SUFFICES ASSUME ConsoleInv PROVE ScreenInv
    OBVIOUS
  <2>1. screen \in Screens(Height) /\ Tall \in Screens(MaxPuts + Height) /\ SameRows(screen, Tall, Top(Tall))
    BY DEF ConsoleInv, CTail, TailOf
  <2>2. Height \in Nat \ {0} /\ Width \in Nat \ {0} /\ MaxPuts + Height \in Nat
    BY ConsoleSizes
  <2>3. Tall.y \in Nat
    BY <2>1, <2>2, ScreensAreOpen, ScreenParts
  <2>4. DOMAIN screen.cell = 0 .. Height * Width - 1 /\ screen.x \in 0 .. Width - 1
    BY <2>1 DEF Screens
  <2>5. PICK t \in Nat : t = Tall.y
    BY <2>3
  <2>6. PICK top \in Nat : top = Top(Tall) /\ top <= t /\ t < top + Height
    BY <2>5, TopIs DEF Top
  <2>7. screen.y = t - top
    BY <2>1, <2>5, <2>6 DEF SameRows
  <2>8. TypeOK
    <3>1. screen.y \in 0 .. Height - 1
      BY <2>2, <2>6, <2>7
    <3> QED
      BY <2>4, <3>1 DEF TypeOK, ConsoleInv, CTypes
  <2>9. ScreenIsTail
    BY <2>1, <2>4 DEF ScreenIsTail, SameRows, Top
  <2> QED
    BY <2>8, <2>9 DEF ScreenInv
<1> QED
  BY <1>1, ConsoleInvariance, PTL

-----------------------------------------------------------------------------
(* Strings and blocks of memory.  A memory has size bytes, the last a 0.   *)
Bytes == 0 .. ByteValues - 1
MemoryOf(size) == {m \in [0 .. size - 1 -> Bytes] : m[size - 1] = 0}

(* The string at a has n characters.                                       *)
Ends(m, a, n) == a + n \in DOMAIN m /\ m[a + n] = 0 /\ \A k \in 0 .. n - 1 : m[a + k] # 0

LEMMA StringSizes ==
  /\ ByteValues \in Nat /\ ByteValues > 1 /\ WordBytes \in Nat \ {0} /\ ByteValues % 2 = 0
  /\ \A c \in Bytes : c \in Nat
BY StringsAssumption DEF Bytes

LEMMA LeastIs ==
  ASSUME NEW S \in SUBSET Int, NEW x \in S, \A y \in S : x <= y
  PROVE  Least(S) = x
<1>1. Least(S) \in S /\ \A y \in S : Least(S) <= y
  BY DEF Least
<1>2. Least(S) <= x /\ x <= Least(S) /\ Least(S) \in Int /\ x \in Int
  BY <1>1
<1> QED
  BY <1>2

LEMMA LeastIn ==
  ASSUME NEW S \in SUBSET Nat, S # {}
  PROVE  Least(S) \in S /\ \A y \in S : Least(S) <= y
<1>1. PICK x \in S : \A y \in S : x <= y
  BY HasLeast
<1> QED
  BY <1>1 DEF Least

(* Where the string at an address ends, and what StringAt makes of it.     *)
LEMMA StringIs ==
  ASSUME NEW size \in Nat, NEW m \in MemoryOf(size), NEW a \in 0 .. size - 1
  PROVE  \E n \in Nat : Ends(m, a, n)
<1> DEFINE Zero == {n \in 0 .. size - 1 : a + n \in 0 .. size - 1 /\ m[a + n] = 0}
<1>1. DOMAIN m = 0 .. size - 1 /\ m[size - 1] = 0
  BY DEF MemoryOf
<1>2. size - 1 - a \in Zero /\ Zero \in SUBSET Nat
  BY <1>1
<1>3. PICK n \in Zero : \A j \in Zero : n <= j
  <2> HIDE DEF Zero
  <2> QED
    BY <1>2, HasLeast
<1>4. ASSUME NEW k \in 0 .. n - 1 PROVE m[a + k] # 0
  <2>1. k \in 0 .. size - 1 /\ a + k \in 0 .. size - 1 /\ ~(n <= k)
    OBVIOUS
  <2> QED
    BY <1>3, <2>1
<1>5. n \in Nat /\ a + n \in DOMAIN m /\ m[a + n] = 0
  BY <1>1
<1>6. Ends(m, a, n)
  BY <1>4, <1>5 DEF Ends
<1> QED
  BY <1>5, <1>6

LEMMA StringAtIs ==
  ASSUME NEW size \in Nat, NEW m \in MemoryOf(size), NEW a \in 0 .. size - 1, NEW n \in Nat, Ends(m, a, n)
  PROVE  /\ StringAt(m, a) = [k \in 1 .. n |-> m[a + k - 1]]
         /\ StringAt(m, a) \in Seq(Bytes) /\ Len(StringAt(m, a)) = n
         /\ \A k \in 1 .. n : StringAt(m, a)[k] = m[a + k - 1] /\ m[a + k - 1] # 0
         /\ \A k \in 0 .. n : a + k \in 0 .. size - 1
<1> DEFINE Zero == {i \in DOMAIN m : a + i \in DOMAIN m /\ m[a + i] = 0}
<1>1. DOMAIN m = 0 .. size - 1 /\ m \in [0 .. size - 1 -> Bytes]
  BY DEF MemoryOf
<1>2. n \in Zero /\ Zero \in SUBSET Int
  BY <1>1 DEF Ends
<1>3. ASSUME NEW i \in Zero PROVE n <= i
  <2>1. i \notin 0 .. n - 1 /\ i \in Nat
    BY <1>1 DEF Ends
  <2> QED
    BY <2>1
<1>4. Least(Zero) = n
  <2> HIDE DEF Zero
  <2> QED
    BY <1>2, <1>3, LeastIs
<1>5. StringAt(m, a) = [k \in 1 .. n |-> m[a + k - 1]]
  BY <1>4 DEF StringAt
<1>6. \A k \in 0 .. n : a + k \in 0 .. size - 1
  BY <1>1 DEF Ends
<1>7. \A k \in 1 .. n : k - 1 \in 0 .. n - 1 /\ a + k - 1 = a + (k - 1) /\ a + k - 1 \in 0 .. size - 1
  BY <1>1 DEF Ends
<1>8. \A k \in 1 .. n : m[a + k - 1] # 0 /\ m[a + k - 1] \in Bytes
  BY <1>1, <1>7 DEF Ends
<1> DEFINE s == [k \in 1 .. n |-> m[a + k - 1]]
<1>9. s \in Seq(Bytes) /\ Len(s) = n /\ \A k \in 1 .. n : s[k] = m[a + k - 1]
  BY <1>8
<1> HIDE DEF s
<1> QED
  BY <1>5, <1>6, <1>8, <1>9 DEF s

(* The order of two sequences that agree in their first n characters.      *)
Agree(s, t, n) == n <= Len(s) /\ n <= Len(t) /\ \A k \in 1 .. n : s[k] = t[k]

LEMMA OrderIs ==
  ASSUME NEW s \in Seq(Bytes), NEW t \in Seq(Bytes), NEW n \in Nat, Agree(s, t, n)
  PROVE  /\ Len(s) = n /\ Len(t) = n => Order(s, t) = 0 /\ s = t
         /\ Len(s) = n /\ Len(t) > n => Order(s, t) = -1 /\ s # t
         /\ Len(s) > n /\ Len(t) = n => Order(s, t) = 1 /\ s # t
         /\ Len(s) > n /\ Len(t) > n /\ s[n + 1] # t[n + 1] =>
              Order(s, t) = Sign(s[n + 1] - t[n + 1]) /\ s # t
<1>1. Len(s) \in Nat /\ Len(t) \in Nat /\ n <= Len(s) /\ n <= Len(t) /\ \A k \in 1 .. n : s[k] = t[k]
  BY DEF Agree
<1>2. ASSUME Len(s) = n, Len(t) = n PROVE Order(s, t) = 0 /\ s = t
  <2>1. s = t
    BY <1>1, <1>2, SeqEqual
  <2> QED
    BY <2>1 DEF Order
<1>3. ASSUME NEW u \in Seq(Bytes), NEW v \in Seq(Bytes), Len(u) = n, Len(v) > n, \A k \in 1 .. n : u[k] = v[k]
      PROVE  IsStrictPrefix(u, v) /\ ~IsStrictPrefix(v, u) /\ u # v
  <2>1. SubSeq(u, 1, n) \in Seq(Bytes) /\ SubSeq(v, 1, n) \in Seq(Bytes)
        /\ Len(SubSeq(u, 1, n)) = n /\ Len(SubSeq(v, 1, n)) = n
        /\ \A k \in 1 .. n : SubSeq(u, 1, n)[k] = u[k] /\ SubSeq(v, 1, n)[k] = v[k]
    BY <1>3
  <2>2. SubSeq(u, 1, n) = SubSeq(v, 1, n)
    BY <1>3, <2>1, SeqEqual
  <2>3. u # v /\ Len(v) \in Nat
    BY <1>3
  <2> QED
    BY <1>3, <2>2, <2>3 DEF IsStrictPrefix, IsPrefix
<1>4. ASSUME Len(s) = n, Len(t) > n PROVE Order(s, t) = -1 /\ s # t
  BY <1>1, <1>3, <1>4 DEF Order
<1>5. ASSUME Len(s) > n, Len(t) = n PROVE Order(s, t) = 1 /\ s # t
  <2>1. \A k \in 1 .. n : t[k] = s[k]
    BY <1>1
  <2>2. IsStrictPrefix(t, s) /\ ~IsStrictPrefix(s, t) /\ s # t
    BY <1>3, <1>5, <2>1
  <2> QED
    BY <2>2 DEF Order
<1>6. ASSUME Len(s) > n, Len(t) > n, s[n + 1] # t[n + 1]
      PROVE  Order(s, t) = Sign(s[n + 1] - t[n + 1]) /\ s # t
  <2> DEFINE D == {k \in DOMAIN s \cap DOMAIN t : s[k] # t[k]}
  <2>1. n + 1 \in D /\ D \in SUBSET Int
    BY <1>1, <1>6
  <2>2. \A k \in D : n + 1 <= k
    BY <1>1, <1>6
  <2>3. Least(D) = n + 1
    <3> HIDE DEF D
    <3> QED
      BY <2>1, <2>2, LeastIs
  <2>4. ASSUME NEW u \in Seq(Bytes), NEW v \in Seq(Bytes), Len(u) > n, u[n + 1] # v[n + 1]
        PROVE  ~IsStrictPrefix(u, v)
    <3> SUFFICES ASSUME IsStrictPrefix(u, v) PROVE FALSE
      OBVIOUS
    <3>1. Len(u) \in Nat /\ Len(u) <= Len(v) /\ SubSeq(u, 1, Len(u)) = SubSeq(v, 1, Len(u))
      BY DEF IsStrictPrefix, IsPrefix
    <3>2. SubSeq(u, 1, Len(u))[n + 1] = u[n + 1] /\ SubSeq(v, 1, Len(u))[n + 1] = v[n + 1]
      BY <2>4, <3>1
    <3> QED
      BY <2>4, <3>1, <3>2
  <2>5. ~IsStrictPrefix(s, t) /\ ~IsStrictPrefix(t, s)
    BY <1>6, <2>4
  <2>6. s # t
    BY <1>6
  <2> QED
    BY <2>3, <2>5, <2>6 DEF Order
<1> QED
  BY <1>1, <1>2, <1>4, <1>5, <1>6

LEMMA SignOf ==
  ASSUME NEW n \in Int
  PROVE  /\ Sign(n) \in {-1, 0, 1}
         /\ Sign(n) = 0 <=> n = 0
         /\ Sign(n) = -1 <=> n < 0
         /\ Sign(n) = 1 <=> n > 0
BY DEF Sign

LEMMA OrderZero ==
  ASSUME NEW s \in Seq(Bytes), NEW t \in Seq(Bytes)
  PROVE  Order(s, t) = 0 <=> s = t
<1> DEFINE D == {k \in 1 .. Len(s) : k <= Len(t) /\ s[k] # t[k]}
<1>1. Len(s) \in Nat /\ Len(t) \in Nat
  OBVIOUS
<1>2. CASE D = {}
  <2> DEFINE n == IF Len(s) < Len(t) THEN Len(s) ELSE Len(t)
  <2>1. n \in Nat /\ Agree(s, t, n) /\ (Len(s) = n \/ Len(t) = n)
    BY <1>1, <1>2 DEF Agree
  <2>2. n <= Len(s) /\ n <= Len(t)
    BY <1>1
  <2> HIDE DEF n
  <2> QED
    BY <1>1, <2>1, <2>2, OrderIs
<1>3. CASE D # {}
  <2>1. D \in SUBSET Nat
    OBVIOUS
  <2>2. PICK k \in D : \A j \in D : k <= j
    <3> HIDE DEF D
    <3> QED
      BY <1>3, <2>1, HasLeast
  <2>3. k - 1 \in Nat /\ Agree(s, t, k - 1)
    BY <1>1, <2>2 DEF Agree
  <2>4. Len(s) > k - 1 /\ Len(t) > k - 1 /\ s[(k - 1) + 1] # t[(k - 1) + 1]
    BY <1>1, <2>2
  <2>5. Order(s, t) = Sign(s[k] - t[k]) /\ s # t
    BY <2>3, <2>4, OrderIs
  <2>6. s[k] \in Nat /\ t[k] \in Nat /\ s[k] - t[k] # 0 /\ s[k] - t[k] \in Int
    BY <1>1, <2>2, StringSizes
  <2> QED
    BY <2>5, <2>6, SignOf
<1> QED
  BY <1>2, <1>3

(* The order of two strings that agree up to the characters x and y, where *)
(* a string ends with a 0.                                                 *)
CharAt(s, k) == IF k = Len(s) THEN 0 ELSE s[k + 1]

LEMMA OrderAt ==
  ASSUME NEW s \in Seq(Bytes \ {0}), NEW t \in Seq(Bytes \ {0}), NEW k \in Nat, Agree(s, t, k),
         CharAt(s, k) = 0 \/ CharAt(s, k) # CharAt(t, k)
  PROVE  Order(s, t) = Sign(CharAt(s, k) - CharAt(t, k))
<1>1. /\ s \in Seq(Bytes) /\ t \in Seq(Bytes) /\ Len(s) \in Nat /\ Len(t) \in Nat
      /\ k <= Len(s) /\ k <= Len(t)
  BY DEF Agree
<1>2. \A c \in Bytes \ {0} : c \in Nat /\ c > 0
  BY StringSizes DEF Bytes
<1>3. k < Len(s) => CharAt(s, k) = s[k + 1] /\ s[k + 1] \in Nat /\ s[k + 1] > 0
  BY <1>1, <1>2 DEF CharAt
<1>4. k < Len(t) => CharAt(t, k) = t[k + 1] /\ t[k + 1] \in Nat /\ t[k + 1] > 0
  BY <1>1, <1>2 DEF CharAt
<1>5. CASE k = Len(s) /\ k = Len(t)
  <2>1. CharAt(s, k) = 0 /\ CharAt(t, k) = 0
    BY <1>5 DEF CharAt
  <2>2. Order(s, t) = 0
    BY <1>1, <1>5, OrderIs
  <2>3. CharAt(s, k) - CharAt(t, k) = 0
    BY <2>1
  <2> QED
    BY <2>2, <2>3, SignOf
<1>6. CASE k = Len(s) /\ k < Len(t)
  <2>1. Order(s, t) = -1 /\ CharAt(s, k) = 0
    BY <1>1, <1>6, OrderIs DEF CharAt
  <2>2. CharAt(s, k) - CharAt(t, k) \in Int /\ CharAt(s, k) - CharAt(t, k) < 0
    BY <1>4, <1>6, <2>1
  <2> QED
    BY <2>1, <2>2, SignOf
<1>7. CASE k < Len(s) /\ k = Len(t)
  <2>1. Order(s, t) = 1 /\ CharAt(t, k) = 0
    BY <1>1, <1>7, OrderIs DEF CharAt
  <2>2. CharAt(s, k) - CharAt(t, k) \in Int /\ CharAt(s, k) - CharAt(t, k) > 0
    BY <1>3, <1>7, <2>1
  <2> QED
    BY <2>1, <2>2, SignOf
<1>8. CASE k < Len(s) /\ k < Len(t)
  <2>1. s[k + 1] # t[k + 1]
    BY <1>3, <1>4, <1>8
  <2> QED
    BY <1>1, <1>3, <1>4, <1>8, <2>1, OrderIs
<1> QED
  BY <1>1, <1>5, <1>6, <1>7, <1>8

LEMMA UptoIs ==
  ASSUME NEW s \in Seq(Bytes \ {0}), NEW n \in Nat
  PROVE  /\ Upto(s, n) \in Seq(Bytes \ {0})
         /\ Len(Upto(s, n)) = IF n < Len(s) THEN n ELSE Len(s)
         /\ \A k \in 1 .. Len(Upto(s, n)) : Upto(s, n)[k] = s[k]
<1> DEFINE l == IF n < Len(s) THEN n ELSE Len(s)
<1>1. l \in 0 .. Len(s) /\ Upto(s, n) = SubSeq(s, 1, l)
  BY DEF Upto
<1> HIDE DEF l
<1>2. SubSeq(s, 1, l) \in Seq(Bytes \ {0}) /\ Len(SubSeq(s, 1, l)) = l
      /\ \A k \in 1 .. l : SubSeq(s, 1, l)[k] = s[k]
  BY <1>1
<1> QED
  BY <1>1, <1>2 DEF l

(* memcmp orders the blocks.                                               *)
BlocksOrdered(m, a, b, len) ==
  Sign(Memcmp(m, a, b, len)) = Order([k \in 1 .. len |-> m[a + k - 1]], [k \in 1 .. len |-> m[b + k - 1]])

LEMMA MemcmpRight ==
  ASSUME NEW size \in Nat, NEW m \in MemoryOf(size), NEW a \in Nat, NEW b \in Nat, NEW len \in Nat,
         a + len < size, b + len < size
  PROVE  BlocksOrdered(m, a, b, len)
<1> DEFINE s == [k \in 1 .. len |-> m[a + k - 1]]
           t == [k \in 1 .. len |-> m[b + k - 1]]
           K == {k \in 0 .. len - 1 : Differs(m, a, b, k)}
<1>1. \A p \in 0 .. size - 1 : m[p] \in Bytes
  BY DEF MemoryOf
<1>2. \A k \in 1 .. len : a + k - 1 \in 0 .. size - 1 /\ b + k - 1 \in 0 .. size - 1
  OBVIOUS
<1>3. /\ s \in Seq(Bytes) /\ Len(s) = len /\ \A k \in 1 .. len : s[k] = m[a + k - 1]
      /\ t \in Seq(Bytes) /\ Len(t) = len /\ \A k \in 1 .. len : t[k] = m[b + k - 1]
  BY <1>1, <1>2
<1> HIDE DEF s, t
<1>4. Memcmp(m, a, b, len) = Difference(m, a, b, K)
  BY DEF Memcmp
<1>5. CASE K = {}
  <2>1. Agree(s, t, len)
    <3>0. len <= Len(s) /\ len <= Len(t)
      BY <1>3
    <3> SUFFICES \A k \in 1 .. len : s[k] = t[k]
      BY <3>0, Zenon DEF Agree
    <3> TAKE k \in 1 .. len
    <3>1. k - 1 \in 0 .. len - 1 /\ a + (k - 1) = a + k - 1 /\ b + (k - 1) = b + k - 1
      OBVIOUS
    <3>2. ~Differs(m, a, b, k - 1)
      BY <1>5, <3>1
    <3> QED
      BY <1>3, <3>1, <3>2 DEF Differs
  <2>2. Order(s, t) = 0
    BY <1>3, <2>1, OrderIs
  <2>3. Memcmp(m, a, b, len) = 0
    BY <1>4, <1>5 DEF Difference
  <2> QED
    BY <2>2, <2>3, SignOf DEF s, t, BlocksOrdered
<1>6. CASE K # {}
  <2>1. K \in SUBSET Nat
    OBVIOUS
  <2>2. PICK k \in K : k = Least(K) /\ \A j \in K : k <= j
    <3> HIDE DEF K
    <3> QED
      BY <1>6, <2>1, LeastIn
  <2>3. k \in 0 .. len - 1 /\ Differs(m, a, b, k) /\ Memcmp(m, a, b, len) = m[a + k] - m[b + k]
    BY <1>4, <1>6, <2>2 DEF Difference
  <2>4. Agree(s, t, k)
    <3> SUFFICES ASSUME NEW j \in 1 .. k PROVE s[j] = t[j]
      BY <1>3, <2>3 DEF Agree
    <3>1. j - 1 \in 0 .. len - 1 /\ a + (j - 1) = a + j - 1 /\ b + (j - 1) = b + j - 1 /\ ~(k <= j - 1)
          /\ j \in 1 .. len
      BY <2>3
    <3>2. ~Differs(m, a, b, j - 1)
      BY <2>2, <3>1
    <3> QED
      BY <1>3, <3>1, <3>2 DEF Differs
  <2>5. k + 1 \in 1 .. len /\ a + (k + 1) - 1 = a + k /\ b + (k + 1) - 1 = b + k
    BY <2>3
  <2>6. s[k + 1] = m[a + k] /\ t[k + 1] = m[b + k]
    BY <1>3, <2>5
  <2>7. Order(s, t) = Sign(s[k + 1] - t[k + 1])
    <3>1. Len(s) > k /\ Len(t) > k /\ s[k + 1] # t[k + 1]
      BY <1>3, <2>3, <2>6 DEF Differs
    <3>2. k \in Nat
      BY <2>3
    <3> QED
      BY <1>3, <2>4, <3>1, <3>2, OrderIs, Zenon
  <2> QED
    BY <2>3, <2>6, <2>7 DEF s, t, BlocksOrdered
<1> QED
  BY <1>5, <1>6

(* Two strings in memory: na and nb characters long, and the offsets where *)
(* a comparison may stop.                                                  *)
Stops(m, a, b) == {k \in Offsets(m, a, b) : m[a + k] = 0 \/ Differs(m, a, b, k)}

LEMMA StopsAre ==
  ASSUME NEW size \in Nat, NEW m \in MemoryOf(size), NEW a \in 0 .. size - 1, NEW b \in 0 .. size - 1,
         NEW na \in Nat, NEW nb \in Nat, Ends(m, a, na), Ends(m, b, nb)
  PROVE  /\ Stops(m, a, b) \in SUBSET Nat
         /\ (IF na < nb THEN na ELSE nb) \in Stops(m, a, b)
         /\ \A k \in Nat : k <= na /\ k <= nb /\ k \notin Stops(m, a, b) =>
              m[a + k] = m[b + k] /\ m[a + k] # 0
<1>1. DOMAIN m = 0 .. size - 1
  BY DEF MemoryOf
<1>2. \A k \in 0 .. na : a + k \in 0 .. size - 1
  BY <1>1 DEF Ends
<1>3. \A k \in 0 .. nb : b + k \in 0 .. size - 1
  BY <1>1 DEF Ends
<1>4. \A k \in Nat : k <= na /\ k <= nb => k \in Offsets(m, a, b)
  <2> SUFFICES ASSUME NEW k \in Nat, k <= na, k <= nb PROVE k \in Offsets(m, a, b)
    OBVIOUS
  <2>1. k \in 0 .. na /\ k \in 0 .. nb
    OBVIOUS
  <2>2. k \in 0 .. size - 1
    BY <1>2, <2>1
  <2> QED
    BY <1>1, <1>2, <1>3, <2>1, <2>2 DEF Offsets
<1>5. Stops(m, a, b) \in SUBSET Nat
  BY <1>1 DEF Stops, Offsets
<1>6. CASE na < nb
  <2>1. m[a + na] = 0 /\ na \in Offsets(m, a, b)
    BY <1>4, <1>6 DEF Ends
  <2> QED
    BY <1>4, <1>5, <1>6, <2>1 DEF Stops, Differs
<1>7. CASE ~(na < nb)
  <2>1. m[b + nb] = 0 /\ nb \in Offsets(m, a, b)
    BY <1>4, <1>7 DEF Ends
  <2>2. nb \in Stops(m, a, b)
    BY <2>1 DEF Stops, Differs
  <2> QED
    BY <1>4, <1>5, <1>7, <2>2 DEF Stops, Differs
<1> QED
  BY <1>6, <1>7

LEMMA Compares ==
  ASSUME NEW size \in Nat, NEW m \in MemoryOf(size), NEW a \in 0 .. size - 1, NEW b \in 0 .. size - 1,
         NEW n \in Nat
  PROVE  /\ Sign(Strcmp(m, a, b)) = Order(StringAt(m, a), StringAt(m, b))
         /\ Sign(Strncmp(m, a, b, n)) = Order(Upto(StringAt(m, a), n), Upto(StringAt(m, b), n))
<1>1. PICK na \in Nat : Ends(m, a, na)
  BY StringIs
<1>2. PICK nb \in Nat : Ends(m, b, nb)
  BY StringIs
<1> DEFINE s == StringAt(m, a)
           t == StringAt(m, b)
           K == Stops(m, a, b)
<1>3. /\ s \in Seq(Bytes \ {0}) /\ Len(s) = na /\ \A k \in 1 .. na : s[k] = m[a + k - 1]
  <2>1. s = [k \in 1 .. na |-> m[a + k - 1]] /\ s \in Seq(Bytes) /\ Len(s) = na
        /\ \A k \in 1 .. na : s[k] = m[a + k - 1] /\ m[a + k - 1] # 0
    BY <1>1, StringAtIs
  <2> HIDE DEF s
  <2>2. \A k \in 1 .. na : s[k] \in Bytes \ {0}
    BY <2>1
  <2> QED
    BY <2>1, <2>2
<1>4. /\ t \in Seq(Bytes \ {0}) /\ Len(t) = nb /\ \A k \in 1 .. nb : t[k] = m[b + k - 1]
  <2>1. t = [k \in 1 .. nb |-> m[b + k - 1]] /\ t \in Seq(Bytes) /\ Len(t) = nb
        /\ \A k \in 1 .. nb : t[k] = m[b + k - 1] /\ m[b + k - 1] # 0
    BY <1>2, StringAtIs
  <2> HIDE DEF t
  <2>2. \A k \in 1 .. nb : t[k] \in Bytes \ {0}
    BY <2>1
  <2> QED
    BY <2>1, <2>2
<1>5. /\ K \in SUBSET Nat
      /\ (IF na < nb THEN na ELSE nb) \in K
      /\ \A k \in Nat : k <= na /\ k <= nb /\ k \notin K => m[a + k] = m[b + k] /\ m[a + k] # 0
  BY <1>1, <1>2, StopsAre
<1>6. m[a + na] = 0 /\ m[b + nb] = 0
  BY <1>1, <1>2 DEF Ends
<1>7. \A k \in K : m[a + k] = 0 \/ m[a + k] # m[b + k]
  BY DEF Stops, Differs
<1>8. /\ Strcmp(m, a, b) = Difference(m, a, b, K)
      /\ Strncmp(m, a, b, n) = Difference(m, a, b, K \cap 0 .. n - 1)
  <2>1. K \cap 0 .. n - 1 = {k \in Offsets(m, a, b) \cap 0 .. n - 1 : m[a + k] = 0 \/ Differs(m, a, b, k)}
    BY DEF Stops
  <2> QED
    BY <2>1 DEF Strcmp, Strncmp, Stops
<1> HIDE DEF s, t, K
<1>9. ASSUME NEW k \in Nat, k <= na, k <= nb, \A j \in K : j < k => FALSE
      PROVE  Agree(s, t, k)
  <2> SUFFICES ASSUME NEW j \in 1 .. k PROVE s[j] = t[j]
    BY <1>3, <1>4, <1>9 DEF Agree
  <2>1. j - 1 \in Nat /\ j - 1 <= na /\ j - 1 <= nb /\ j - 1 < k /\ a + (j - 1) = a + j - 1 /\ b + (j - 1) = b + j - 1
        /\ j \in 1 .. na /\ j \in 1 .. nb
    BY <1>9
  <2>2. j - 1 \notin K
    BY <1>9, <2>1
  <2> QED
    BY <1>3, <1>4, <1>5, <2>1, <2>2
<1>10. ASSUME NEW k \in Nat, k <= na, k <= nb
       PROVE  CharAt(s, k) = m[a + k] /\ CharAt(t, k) = m[b + k]
  <2>1. k # na => k + 1 \in 1 .. na /\ a + (k + 1) - 1 = a + k
    BY <1>10
  <2>2. k # nb => k + 1 \in 1 .. nb /\ b + (k + 1) - 1 = b + k
    BY <1>10
  <2> QED
    BY <1>3, <1>4, <1>6, <2>1, <2>2 DEF CharAt
<1>11. Sign(Strcmp(m, a, b)) = Order(s, t)
  <2>1. PICK k \in K : k = Least(K) /\ \A j \in K : k <= j
    BY <1>5, LeastIn
  <2>2. k \in Nat /\ k <= na /\ k <= nb
    BY <1>5, <2>1
  <2>3. Agree(s, t, k)
    <3>1. \A j \in K : j < k => FALSE
      BY <1>5, <2>1, <2>2
    <3> QED
      BY <1>9, <2>2, <3>1
  <2>4. CharAt(s, k) = m[a + k] /\ CharAt(t, k) = m[b + k]
    BY <1>10, <2>2
  <2>5. CharAt(s, k) = 0 \/ CharAt(s, k) # CharAt(t, k)
    BY <1>7, <2>4
  <2>6. Strcmp(m, a, b) = m[a + k] - m[b + k]
    BY <1>8, <2>1 DEF Difference
  <2>7. Order(s, t) = Sign(CharAt(s, k) - CharAt(t, k))
    BY <1>3, <1>4, <2>2, <2>3, <2>5, OrderAt, Zenon
  <2> QED
    BY <2>4, <2>6, <2>7
<1> DEFINE u == Upto(s, n)
           v == Upto(t, n)
           L == K \cap 0 .. n - 1
<1>12. /\ u \in Seq(Bytes \ {0}) /\ Len(u) = IF n < na THEN n ELSE na
       /\ \A k \in 1 .. Len(u) : u[k] = s[k]
  BY <1>3, UptoIs
<1>13. /\ v \in Seq(Bytes \ {0}) /\ Len(v) = IF n < nb THEN n ELSE nb
       /\ \A k \in 1 .. Len(v) : v[k] = t[k]
  BY <1>4, UptoIs
<1>14. L \in SUBSET Nat
  BY <1>5
<1> HIDE DEF u, v
<1>15. Sign(Strncmp(m, a, b, n)) = Order(u, v)
  <2>1. CASE L = {}
    <3>1. n <= na /\ n <= nb
      BY <1>5, <2>1
    <3>2. Agree(s, t, n)
      <4>1. \A j \in K : j < n => FALSE
        BY <1>5, <2>1
      <4> QED
        BY <1>9, <3>1, <4>1
    <3>3. Len(u) = n /\ Len(v) = n /\ Agree(u, v, n) /\ u \in Seq(Bytes) /\ v \in Seq(Bytes)
      BY <1>12, <1>13, <3>1, <3>2 DEF Agree
    <3>4. Order(u, v) = 0
      BY <3>3, OrderIs
    <3>5. Strncmp(m, a, b, n) = 0
      BY <1>8, <2>1 DEF Difference
    <3> QED
      BY <3>4, <3>5, SignOf
  <2>2. CASE L # {}
    <3>1. PICK k \in L : k = Least(L) /\ \A j \in L : k <= j
      <4> HIDE DEF L
      <4> QED
        BY <1>14, <2>2, LeastIn
    <3>2. k \in Nat /\ k < n /\ k \in K /\ k <= na /\ k <= nb
      BY <1>5, <1>14, <3>1
    <3>3. Agree(s, t, k)
      <4>1. \A j \in K : j < k => FALSE
        BY <1>5, <3>1, <3>2
      <4> QED
        BY <1>9, <3>2, <4>1
    <3>4. Agree(u, v, k)
      BY <1>12, <1>13, <3>2, <3>3 DEF Agree
    <3>5. CharAt(u, k) = m[a + k] /\ CharAt(v, k) = m[b + k]
      <4>1. CharAt(s, k) = m[a + k] /\ CharAt(t, k) = m[b + k]
        BY <1>10, <3>2
      <4>2. (k = Len(u) <=> k = Len(s)) /\ (k # Len(u) => k + 1 \in 1 .. Len(u))
        BY <1>3, <1>12, <3>2
      <4>3. (k = Len(v) <=> k = Len(t)) /\ (k # Len(v) => k + 1 \in 1 .. Len(v))
        BY <1>4, <1>13, <3>2
      <4> QED
        BY <1>12, <1>13, <4>1, <4>2, <4>3 DEF CharAt
    <3>6. CharAt(u, k) = 0 \/ CharAt(u, k) # CharAt(v, k)
      BY <1>7, <3>2, <3>5
    <3>7. Strncmp(m, a, b, n) = m[a + k] - m[b + k]
      BY <1>8, <3>1 DEF Difference
    <3> QED
      BY <1>12, <1>13, <3>2, <3>4, <3>5, <3>6, <3>7, OrderAt
  <2> QED
    BY <2>1, <2>2
<1> QED
  BY <1>11, <1>15 DEF s, t, u, v

-----------------------------------------------------------------------------
(* Words of bytes, for strlen.                                             *)
LEMMA PlaceIs ==
  /\ Place \in [0 .. WordBytes -> Nat \ {0}] /\ Place[0] = 1
  /\ \A k \in 1 .. WordBytes : Place[k] = Place[k - 1] * ByteValues
<1> DEFINE S == Nat \ {0}
           step == [k \in 1 .. WordBytes |-> [x \in S |-> x * ByteValues]]
           run == LoopRun(WordBytes, S, 1, step)
           IsPlace(g) == g = [k \in 0 .. WordBytes |-> IF k = 0 THEN 1 ELSE g[k - 1] * ByteValues]
<1>1. WordBytes \in Nat /\ ByteValues \in Nat \ {0}
  BY StringSizes
<1>2. \A x \in S : x * ByteValues \in S
  <2> SUFFICES ASSUME NEW x \in Nat \ {0} PROVE x * ByteValues \in Nat \ {0}
    OBVIOUS
  <2>1. 1 * ByteValues <= x * ByteValues /\ x * ByteValues \in Nat
    BY <1>1, TimesMonotone, TimesNat
  <2> QED
    BY <1>1, <2>1
<1> HIDE DEF S
<1>3. step \in [1 .. WordBytes -> [S -> S]] /\ \A k \in 1 .. WordBytes, x \in S : step[k][x] = x * ByteValues
  BY <1>2
<1>4. 1 \in S
  BY DEF S
<1> HIDE DEF step
<1>5. run \in [0 .. WordBytes -> S] /\ run[0] = 1 /\ \A k \in 1 .. WordBytes : run[k] = step[k][run[k - 1]]
  BY <1>1, <1>3, <1>4, RunExists
<1> HIDE DEF run
<1>6. ASSUME NEW k \in 1 .. WordBytes PROVE run[k] = run[k - 1] * ByteValues
  <2>1. run[k - 1] \in S
    BY <1>1, <1>5
  <2> QED
    BY <1>3, <1>5, <2>1
<1>7. IsPlace(run)
  <2>1. \A k \in 0 .. WordBytes : run[k] = IF k = 0 THEN 1 ELSE run[k - 1] * ByteValues
    BY <1>1, <1>5, <1>6
  <2>2. run = [k \in 0 .. WordBytes |-> run[k]]
    BY <1>5
  <2> QED
    BY <2>1, <2>2
<1>8. IsPlace(Place)
  BY <1>7 DEF Place
<1>9. \A k \in 0 .. WordBytes : Place[k] = IF k = 0 THEN 1 ELSE Place[k - 1] * ByteValues
  BY <1>8, Zenon
<1> DEFINE T == {k \in 0 .. WordBytes : Place[k] = run[k]}
<1>10. 0 \in T /\ \A k \in 1 .. WordBytes : k - 1 \in T => k \in T
  BY <1>1, <1>5, <1>6, <1>9
<1>11. \A k \in 0 .. WordBytes : k \in T
  <2> HIDE DEF T
  <2> QED
    BY <1>1, <1>10, UpTo
<1>12. Place = [k \in 0 .. WordBytes |-> Place[k]]
  BY <1>8, Zenon
<1>13. \A k \in 0 .. WordBytes : Place[k] \in S
  BY <1>5, <1>11
<1>14. Place \in [0 .. WordBytes -> S]
  BY <1>12, <1>13
<1> QED
  BY <1>1, <1>9, <1>14 DEF S

(* A word is read from the top: what it is after its highest bytes.        *)
WordRun(d, t) ==
  /\ t \in [0 .. WordBytes -> Nat] /\ t[0] = 0
  /\ \A k \in 1 .. WordBytes : t[k] = t[k - 1] * ByteValues + d[k]

LEMMA WordIs ==
  ASSUME NEW d \in [1 .. WordBytes -> Nat]
  PROVE  \E t : WordRun(d, t) /\ Word(d) = t[WordBytes]
<1> DEFINE S == Nat
           step == [k \in 1 .. WordBytes |-> [x \in S |-> x * ByteValues + d[k]]]
           run == LoopRun(WordBytes, S, 0, step)
           IsTop(g) == g = [k \in 0 .. WordBytes |-> IF k = 0 THEN 0 ELSE g[k - 1] * ByteValues + d[k]]
           top == CHOOSE g : IsTop(g)
<1>1. WordBytes \in Nat /\ ByteValues \in Nat
  BY StringSizes
<1>2. \A k \in 1 .. WordBytes, x \in Nat : x * ByteValues + d[k] \in Nat
  BY <1>1, TimesNat
<1>3. step \in [1 .. WordBytes -> [Nat -> Nat]]
      /\ \A k \in 1 .. WordBytes, x \in Nat : step[k][x] = x * ByteValues + d[k]
  BY <1>2
<1> HIDE DEF step
<1>4. 0 \in S /\ step \in [1 .. WordBytes -> [S -> S]]
  BY <1>3
<1>5. run \in [0 .. WordBytes -> Nat] /\ run[0] = 0 /\ \A k \in 1 .. WordBytes : run[k] = step[k][run[k - 1]]
  <2> HIDE DEF S
  <2>1. run \in [0 .. WordBytes -> S] /\ run[0] = 0 /\ \A k \in 1 .. WordBytes : run[k] = step[k][run[k - 1]]
    BY <1>1, <1>4, RunExists
  <2> HIDE DEF run
  <2> USE DEF S
  <2> QED
    BY <2>1
<1> HIDE DEF run
<1>6. ASSUME NEW k \in 1 .. WordBytes PROVE run[k] = run[k - 1] * ByteValues + d[k]
  <2>1. run[k - 1] \in Nat
    BY <1>1, <1>5
  <2> QED
    BY <1>3, <1>5, <2>1
<1>7. IsTop(run)
  <2>1. \A k \in 0 .. WordBytes : run[k] = IF k = 0 THEN 0 ELSE run[k - 1] * ByteValues + d[k]
    BY <1>1, <1>5, <1>6
  <2>2. run = [k \in 0 .. WordBytes |-> run[k]]
    BY <1>5
  <2> QED
    BY <2>1, <2>2
<1>8. IsTop(top)
  <2> HIDE DEF IsTop
  <2> QED
    BY <1>7
<1>9. Word(d) = top[WordBytes]
  BY DEF Word
<1> HIDE DEF top
<1>10. \A k \in 0 .. WordBytes : top[k] = IF k = 0 THEN 0 ELSE top[k - 1] * ByteValues + d[k]
  BY <1>8, Zenon
<1> DEFINE T == {k \in 0 .. WordBytes : top[k] = run[k]}
<1>11. 0 \in T /\ \A k \in 1 .. WordBytes : k - 1 \in T => k \in T
  <2>1. top[0] = 0 /\ \A k \in 1 .. WordBytes : top[k] = top[k - 1] * ByteValues + d[k]
    BY <1>1, <1>10
  <2> QED
    BY <1>1, <1>5, <1>6, <2>1
<1>12. \A k \in 0 .. WordBytes : k \in T
  <2> HIDE DEF T
  <2> QED
    BY <1>1, <1>11, UpTo
<1>13. top[WordBytes] = run[WordBytes]
  BY <1>1, <1>12
<1>14. WordRun(d, run)
  BY <1>5, <1>6 DEF WordRun
<1> QED
  BY <1>9, <1>13, <1>14

(* A word and the word of ones, cut before their k lowest bytes.           *)
CutAt(t, u, k, r, q) ==
  /\ r \in 0 .. Place[k] - 1 /\ q \in 0 .. Place[k] - 1
  /\ t[WordBytes] = t[WordBytes - k] * Place[k] + r
  /\ u[WordBytes] = u[WordBytes - k] * Place[k] + q

LEMMA CutNumbers ==
  ASSUME NEW t0 \in Nat, NEW B \in Nat \ {0}, NEW c \in 0 .. B - 1, NEW P \in Nat \ {0}, NEW r \in 0 .. P - 1
  PROVE  /\ (t0 * B + c) * P + r = t0 * (P * B) + (c * P + r)
         /\ c * P + r \in 0 .. P * B - 1
<1>1. c * P \in Nat /\ c * P <= (B - 1) * P /\ (B - 1) * P = P * B - P
  BY TimesMonotone, TimesNat
<1>2. (t0 * B + c) * P = t0 * (P * B) + c * P
  OBVIOUS
<1> QED
  BY <1>1, <1>2

LEMMA CutExists ==
  ASSUME NEW d \in [1 .. WordBytes -> Bytes], NEW t, NEW u,
         WordRun(d, t), WordRun([k \in 1 .. WordBytes |-> 1], u)
  PROVE  \A k \in 0 .. WordBytes :
           \E r, q \in Nat : CutAt(t, u, k, r, q)
                             /\ ((\A j \in WordBytes - k + 1 .. WordBytes : d[j] # 0) => q <= r)
<1> DEFINE Full(k) == \A j \in WordBytes - k + 1 .. WordBytes : d[j] # 0
           Cut(k) == \E r, q \in Nat : CutAt(t, u, k, r, q) /\ (Full(k) => q <= r)
           T == {k \in 0 .. WordBytes : Cut(k)}
<1>1. WordBytes \in Nat /\ ByteValues \in Nat \ {0} /\ ByteValues > 1
  BY StringSizes
<1>2. /\ t \in [0 .. WordBytes -> Nat] /\ u \in [0 .. WordBytes -> Nat]
      /\ \A k \in 1 .. WordBytes : t[k] = t[k - 1] * ByteValues + d[k]
      /\ \A k \in 1 .. WordBytes : u[k] = u[k - 1] * ByteValues + 1
  BY DEF WordRun
<1>3. Cut(0)
  <2>1. Place[0] = 1 /\ WordBytes - 0 = WordBytes
    BY <1>1, PlaceIs
  <2>2. t[WordBytes] \in Nat /\ u[WordBytes] \in Nat
    BY <1>1, <1>2
  <2>3. CutAt(t, u, 0, 0, 0)
    BY <2>1, <2>2 DEF CutAt
  <2> QED
    BY <2>3
<1>4. ASSUME NEW k \in 1 .. WordBytes, Cut(k - 1) PROVE Cut(k)
  <2>1. PICK r \in Nat, q \in Nat : CutAt(t, u, k - 1, r, q) /\ (Full(k - 1) => q <= r)
    BY <1>4
  <2> DEFINE i == WordBytes - k + 1
             P == Place[k - 1]
             c == d[i]
  <2>2. i \in 1 .. WordBytes /\ WordBytes - (k - 1) = i /\ i - 1 = WordBytes - k /\ i - 1 \in 0 .. WordBytes
    BY <1>1
  <2>3. c \in 0 .. ByteValues - 1 /\ P \in Nat \ {0} /\ Place[k] = P * ByteValues
    BY <1>1, <2>2, PlaceIs DEF Bytes
  <2>4. t[i] = t[i - 1] * ByteValues + c /\ u[i] = u[i - 1] * ByteValues + 1 /\ t[i - 1] \in Nat /\ u[i - 1] \in Nat
        /\ t[WordBytes] \in Nat /\ u[WordBytes] \in Nat
    BY <1>1, <1>2, <2>2
  <2>5. r \in 0 .. P - 1 /\ q \in 0 .. P - 1 /\ t[WordBytes] = t[i] * P + r /\ u[WordBytes] = u[i] * P + q
    BY <2>1, <2>2 DEF CutAt
  <2>6. Full(k) => Full(k - 1) /\ c # 0
    BY <1>1, <2>2
  <2> HIDE DEF i, P, c, Full
  <2>7. /\ t[WordBytes] = t[i - 1] * (P * ByteValues) + (c * P + r)
        /\ c * P + r \in 0 .. P * ByteValues - 1
    <3>1. PICK b \in Nat : b = t[i - 1]
      BY <2>4
    <3>2. (b * ByteValues + c) * P + r = b * (P * ByteValues) + (c * P + r) /\ c * P + r \in 0 .. P * ByteValues - 1
      BY <1>1, <2>3, <2>5, CutNumbers
    <3> QED
      BY <2>4, <2>5, <3>1, <3>2
  <2>8. /\ u[WordBytes] = u[i - 1] * (P * ByteValues) + (1 * P + q)
        /\ 1 * P + q \in 0 .. P * ByteValues - 1
    <3>1. 1 \in 0 .. ByteValues - 1
      BY <1>1
    <3>2. PICK b \in Nat : b = u[i - 1]
      BY <2>4
    <3>3. (b * ByteValues + 1) * P + q = b * (P * ByteValues) + (1 * P + q) /\ 1 * P + q \in 0 .. P * ByteValues - 1
      BY <1>1, <2>3, <2>5, <3>1, CutNumbers
    <3> QED
      BY <2>4, <2>5, <3>2, <3>3
  <2>9. Full(k) => 1 * P + q <= c * P + r
    <3> SUFFICES ASSUME Full(k) PROVE 1 * P + q <= c * P + r
      OBVIOUS
    <3>1. q <= r /\ 1 <= c
      BY <2>1, <2>3, <2>6
    <3>2. 1 * P <= c * P /\ c * P \in Nat
      BY <2>3, <3>1, TimesMonotone, TimesNat
    <3> QED
      BY <2>3, <2>5, <3>1, <3>2
  <2>10. c * P + r \in Nat /\ 1 * P + q \in Nat
    BY <2>7, <2>8
  <2>11. CutAt(t, u, k, c * P + r, 1 * P + q)
    BY <2>2, <2>3, <2>7, <2>8 DEF CutAt
  <2> QED
    BY <2>9, <2>10, <2>11
<1> HIDE DEF Cut
<1>5. 0 \in T /\ \A k \in 1 .. WordBytes : k - 1 \in T => k \in T
  BY <1>1, <1>3, <1>4
<1>6. \A k \in 0 .. WordBytes : k \in T
  <2> HIDE DEF T
  <2> QED
    BY <1>1, <1>5, UpTo
<1> QED
  BY <1>6 DEF Cut

LEMMA PlaceDivides ==
  \A k \in 0 .. WordBytes : \E n \in Nat \ {0} : Place[WordBytes] = n * Place[k]
<1> DEFINE Divides(k) == \E n \in Nat \ {0} : Place[WordBytes] = n * Place[k]
           T == {i \in 0 .. WordBytes : Divides(WordBytes - i)}
<1>1. WordBytes \in Nat /\ ByteValues \in Nat \ {0}
  BY StringSizes
<1>2. Divides(WordBytes - 0)
  <2>1. WordBytes - 0 = WordBytes /\ Place[WordBytes] \in Nat
    BY <1>1, PlaceIs
  <2>2. Place[WordBytes] = 1 * Place[WordBytes]
    BY <2>1
  <2> QED
    BY <2>1, <2>2
<1>3. ASSUME NEW i \in 1 .. WordBytes, Divides(WordBytes - (i - 1)) PROVE Divides(WordBytes - i)
  <2> DEFINE k == WordBytes - (i - 1)
  <2>1. PICK n \in Nat \ {0} : Place[WordBytes] = n * Place[k]
    BY <1>3
  <2>2. k \in 1 .. WordBytes /\ k - 1 = WordBytes - i /\ k - 1 \in 0 .. WordBytes
    BY <1>1
  <2>3. PICK p \in Nat \ {0} : p = Place[k - 1]
    BY <2>2, PlaceIs
  <2>4. Place[k] = p * ByteValues
    BY <2>2, <2>3, PlaceIs
  <2>5. n * (p * ByteValues) = (n * ByteValues) * p
    BY <1>1
  <2>6. n * ByteValues \in Nat \ {0}
    <3>1. 1 * ByteValues <= n * ByteValues /\ n * ByteValues \in Nat
      BY <1>1, TimesMonotone, TimesNat
    <3> QED
      BY <1>1, <3>1
  <2> QED
    BY <2>1, <2>2, <2>3, <2>4, <2>5, <2>6
<1> HIDE DEF Divides
<1>4. 0 \in T /\ \A i \in 1 .. WordBytes : i - 1 \in T => i \in T
  BY <1>1, <1>2, <1>3
<1>5. \A i \in 0 .. WordBytes : i \in T
  <2> HIDE DEF T
  <2> QED
    BY <1>1, <1>4, UpTo
<1>6. ASSUME NEW k \in 0 .. WordBytes PROVE Divides(k)
  <2>1. WordBytes - k \in 0 .. WordBytes /\ WordBytes - (WordBytes - k) = k
    BY <1>1
  <2> QED
    BY <1>5, <2>1
<1> QED
  BY <1>6 DEF Divides

LEMMA ModIs ==
  ASSUME NEW g \in Int, NEW n \in Nat \ {0}, NEW s \in 0 .. n - 1
  PROVE  (g * n + s) % n = s
OBVIOUS

LEMMA IntDivMod ==
  ASSUME NEW k \in Int, NEW w \in Nat \ {0}
  PROVE  k \div w \in Int /\ k % w \in 0 .. w - 1 /\ k = (k \div w) * w + (k % w)
OBVIOUS

(* With a 0 in the byte that counts p and none below, the borrow of the    *)
(* subtraction sets the highest bit of the byte, whose value is c times    *)
(* that of the bit.                                                        *)
Borrows(p, h, hi, ones, r, q, n) ==
  /\ ((((hi * (2 * (p * h)) + r) - (ones * (2 * (p * h)) + p + q)) % (n * (2 * (p * h)))) \div (p * h)) % 2 = 1
  /\ ((hi * (2 * (p * h)) + r) \div (p * h)) % 2 = 0

LEMMA BorrowNumbers ==
  ASSUME NEW p \in Nat \ {0}, NEW h \in Nat \ {0}, NEW hi \in Nat, NEW ones \in Nat,
         NEW r \in 0 .. p - 1, NEW q \in 0 .. r, NEW n \in Nat \ {0}
  PROVE  Borrows(p, h, hi, ones, r, q, n)
<1>1. PICK c \in Nat : c = p * h
  BY TimesNat
<1>2. p <= c /\ c # 0
  <2>1. 1 * p <= h * p /\ h * p = p * h
    BY TimesMonotone
  <2> QED
    BY <1>1, <2>1
<1>3. PICK a \in Int : a = hi - ones - 1
  OBVIOUS
<1>4. PICK y \in 0 .. c - 1 : y = c - p + (r - q)
  BY <1>2
<1>5. (hi * (2 * c) + r) - (ones * (2 * c) + p + q) = a * (2 * c) + (c + y)
  <2>1. a * (2 * c) = hi * (2 * c) - ones * (2 * c) - 2 * c
    BY <1>3
  <2>2. hi * (2 * c) \in Int /\ ones * (2 * c) \in Int
    BY TimesNat
  <2> QED
    BY <1>4, <2>1, <2>2
<1>6. a \div n \in Int /\ a % n \in 0 .. n - 1 /\ a = (a \div n) * n + (a % n)
  BY IntDivMod
<1>7. PICK g \in Int, f \in 0 .. n - 1 : a = g * n + f
  BY <1>6
<1>8. PICK m \in Nat : m = n * (2 * c)
  BY TimesNat
<1>9. PICK z \in Nat : z = f * (2 * c) + (c + y)
  <2>1. f * (2 * c) \in Nat
    BY TimesNat
  <2> QED
    BY <1>4, <2>1
<1>10. a * (2 * c) + (c + y) = g * m + z
  <2>1. a * (2 * c) = g * (n * (2 * c)) + f * (2 * c)
    BY <1>7
  <2>2. g * (n * (2 * c)) \in Int /\ f * (2 * c) \in Int
    BY <1>8
  <2> QED
    BY <1>4, <1>8, <1>9, <2>1, <2>2
<1>11. z \in 0 .. m - 1
  <2>1. f * (2 * c) <= (n - 1) * (2 * c)
    BY TimesMonotone
  <2>2. (n - 1) * (2 * c) = n * (2 * c) - 2 * c
    OBVIOUS
  <2>3. f * (2 * c) \in Int
    BY TimesNat
  <2> QED
    BY <1>4, <1>8, <1>9, <2>1, <2>2, <2>3
<1>12. (g * m + z) % m = z
  <2>1. m # 0
    BY <1>11
  <2> QED
    BY <1>11, <2>1, ModIs
<1>13. z \div c = 2 * f + 1
  <2>1. z = (2 * f + 1) * c + y
    <3>1. f * (2 * c) = (2 * f) * c /\ (2 * f + 1) * c = (2 * f) * c + c
      OBVIOUS
    <3>2. (2 * f) * c \in Nat
      BY TimesNat
    <3> QED
      BY <1>4, <1>9, <3>1, <3>2
  <2>2. 2 * f + 1 \in Nat
    OBVIOUS
  <2> QED
    BY <1>2, <1>4, <2>1, <2>2, DivOfWord
<1>14. (2 * f + 1) % 2 = 1
  OBVIOUS
<1>15. (hi * (2 * c) + r) \div c = 2 * hi
  <2>1. hi * (2 * c) = (2 * hi) * c
    OBVIOUS
  <2>2. r \in 0 .. c - 1
    BY <1>2
  <2> QED
    BY <1>2, <2>1, <2>2, DivOfWord
<1>16. (2 * hi) % 2 = 0
  OBVIOUS
<1> QED
  BY <1>1, <1>5, <1>8, <1>10, <1>12, <1>13, <1>14, <1>15, <1>16 DEF Borrows

(* Whatever the word, the test finds a byte of 0 in it.                    *)
LEMMA ZeroMayEnd ==
  ASSUME NEW d \in [1 .. WordBytes -> Bytes], NEW k \in 0 .. WordBytes - 1,
         d[WordBytes - k] = 0, \A j \in WordBytes - k + 1 .. WordBytes : d[j] # 0
  PROVE  MayEnd(Word(d))
<1>1. WordBytes \in Nat \ {0} /\ ByteValues \in Nat /\ ByteValues > 1 /\ ByteValues % 2 = 0
  BY StringSizes
<1> DEFINE e == [j \in 1 .. WordBytes |-> 1]
<1>2. d \in [1 .. WordBytes -> Nat] /\ e \in [1 .. WordBytes -> Nat]
  BY <1>1 DEF Bytes
<1>3. Ones = Word(e)
  BY DEF Ones
<1>4. PICK t : WordRun(d, t) /\ Word(d) = t[WordBytes]
  BY <1>2, WordIs
<1>5. PICK u : WordRun(e, u) /\ Word(e) = u[WordBytes]
  <2> HIDE DEF e
  <2> QED
    BY <1>2, WordIs
<1>6. PICK r \in Nat, q \in Nat : CutAt(t, u, k, r, q) /\ q <= r
  <2>1. k \in 0 .. WordBytes
    BY <1>1
  <2>2. \E r, q \in Nat : CutAt(t, u, k, r, q)
                          /\ ((\A j \in WordBytes - k + 1 .. WordBytes : d[j] # 0) => q <= r)
    BY <1>4, <1>5, <2>1, CutExists
  <2> QED
    BY <2>2
<1> DEFINE i == WordBytes - k
<1>7. i \in 1 .. WordBytes /\ i - 1 \in 0 .. WordBytes
  BY <1>1
<1>8. t[i] = t[i - 1] * ByteValues + 0 /\ u[i] = u[i - 1] * ByteValues + 1 /\ t[i - 1] \in Nat /\ u[i - 1] \in Nat
  BY <1>4, <1>5, <1>7 DEF WordRun
<1>9. PICK hi \in Nat, ones \in Nat : hi = t[i - 1] /\ ones = u[i - 1]
  BY <1>8
<1>10. PICK p \in Nat \ {0} : p = Place[k]
  <2>1. k \in 0 .. WordBytes
    BY <1>1
  <2>2. Place[k] \in Nat \ {0}
    BY <2>1, PlaceIs, Zenon
  <2> QED
    BY <2>2, Zenon
<1>11. PICK h \in Nat \ {0} : h = ByteValues \div 2 /\ ByteValues = 2 * h
  <2>1. 2 \in Nat \ {0} /\ ByteValues \in Int
    BY <1>1
  <2>2. ByteValues \div 2 \in Int /\ ByteValues = (ByteValues \div 2) * 2 + (ByteValues % 2)
    BY <2>1, IntDivMod, Zenon
  <2>3. PICK h \in Int : h = ByteValues \div 2
    BY <2>2
  <2>4. ByteValues = 2 * h /\ h \in Nat \ {0}
    BY <1>1, <2>2, <2>3
  <2> QED
    BY <2>3, <2>4
<1>12. PICK n \in Nat \ {0} : Place[WordBytes] = n * (2 * (p * h))
  <2>1. k + 1 \in 1 .. WordBytes /\ (k + 1) - 1 = k /\ k + 1 \in 0 .. WordBytes
    BY <1>1
  <2>2. Place[k + 1] = p * (2 * h)
    BY <1>10, <1>11, <2>1, PlaceIs
  <2>3. PICK n \in Nat \ {0} : Place[WordBytes] = n * Place[k + 1]
    BY <2>1, PlaceDivides
  <2>4. p * (2 * h) = 2 * (p * h)
    OBVIOUS
  <2> QED
    BY <2>2, <2>3, <2>4
<1>13. r \in 0 .. p - 1 /\ q \in 0 .. r /\ Word(d) = t[i] * p + r /\ Ones = u[i] * p + q
  BY <1>3, <1>4, <1>5, <1>6, <1>10 DEF CutAt
<1>14. Word(d) = hi * (2 * (p * h)) + r
  <2>1. t[i] = hi * (2 * h)
    BY <1>8, <1>9, <1>11
  <2>2. (hi * (2 * h)) * p = hi * (2 * (p * h))
    OBVIOUS
  <2> QED
    BY <1>13, <2>1, <2>2
<1>15. Ones = ones * (2 * (p * h)) + p + q
  <2>1. u[i] = ones * (2 * h) + 1
    BY <1>8, <1>9, <1>11
  <2>2. (ones * (2 * h) + 1) * p = ones * (2 * (p * h)) + p
    OBVIOUS
  <2> QED
    BY <1>13, <2>1, <2>2
<1>16. Borrows(p, h, hi, ones, r, q, n)
  BY <1>13, BorrowNumbers
<1>17. Place[k] * (ByteValues \div 2) = p * h
  BY <1>10, <1>11
<1>18. HighBit((Word(d) - Ones) % Place[WordBytes], k) = 1 /\ HighBit(Word(d), k) = 0
  BY <1>12, <1>14, <1>15, <1>16, <1>17, Zenon DEF HighBit, Borrows
<1> QED
  BY <1>18 DEF MayEnd

LEMMA WordOf ==
  ASSUME NEW k \in Nat, NEW w \in Nat \ {0}
  PROVE  \E i \in Nat, b \in 0 .. w - 1 : k = i * w + b
BY DivMod

LEMMA MultipleMod == ASSUME NEW i \in Nat, NEW w \in Nat \ {0} PROVE (i * w) % w = 0
OBVIOUS

LEMMA RoundedUp ==
  ASSUME NEW a \in Nat, NEW w \in Nat \ {0}
  PROVE  \E i \in Nat : i = (a + w - 1) \div w /\ i * w \in Nat /\ a <= i * w
<1>1. PICK v \in Nat : v = a + w - 1
  OBVIOUS
<1>2. PICK i \in Nat, b \in 0 .. w - 1 : i = v \div w /\ v = i * w + b
  BY DivMod
<1>3. i * w \in Nat
  BY TimesNat
<1>4. a <= i * w
  BY <1>1, <1>2, <1>3
<1> QED
  BY <1>1, <1>2, <1>3, <1>4

LEMMA StrlenIs ==
  ASSUME NEW words \in Nat \ {0}, NEW m \in MemoryOf(words * WordBytes), NEW a \in DOMAIN m, NEW n \in Nat,
         Ends(m, a, n)
  PROVE  Strlen(m, a) = n
<1>1. WordBytes \in Nat \ {0}
  BY StringSizes
<1>2. PICK size \in Nat : size = words * WordBytes
  BY <1>1, TimesNat
<1>3. DOMAIN m = 0 .. size - 1 /\ (\A p \in 0 .. size - 1 : m[p] \in Bytes) /\ a \in 0 .. size - 1
  BY <1>2 DEF MemoryOf
<1>4. Cardinality(DOMAIN m) = size
  <2>1. Cardinality(0 .. size - 1) = IF 0 > size - 1 THEN 0 ELSE (size - 1) - 0 + 1
    BY FS_Interval
  <2> QED
    BY <1>3, <2>1
<1>5. PICK z \in 0 .. size - 1 : z = a + n
  BY <1>3 DEF Ends
<1>6. m[z] = 0 /\ \A p \in a .. z - 1 : m[p] # 0
  <2>1. \A p \in a .. z - 1 : p - a \in 0 .. n - 1 /\ a + (p - a) = p
    BY <1>3, <1>5
  <2> QED
    BY <1>5, <2>1 DEF Ends
<1>7. PICK i0 \in Nat : i0 = (a + WordBytes - 1) \div WordBytes /\ i0 * WordBytes \in Nat /\ a <= i0 * WordBytes
  <2>1. a \in Nat
    BY <1>3
  <2> QED
    BY <1>1, <2>1, RoundedUp, Zenon
<1>8. PICK from \in Nat : from = i0 * WordBytes /\ a <= from
  BY <1>7
<1> DEFINE End(bytes) == {p \in bytes : m[p] = 0}
           HeadEnds == End(a .. from - 1)
           Words == {p \in from .. size - WordBytes :
                       /\ p % WordBytes = 0 /\ MayEnd(WordAt(m, p)) /\ End(p .. p + WordBytes - 1) # {}}
<1>9. Strlen(m, a) =
        IF HeadEnds # {} THEN Least(HeadEnds) - a
        ELSE IF Words = {} THEN ReadsOn
        ELSE Least(End(Least(Words) .. Least(Words) + WordBytes - 1)) - a
  <2>1. ((a + WordBytes - 1) \div WordBytes) * WordBytes = from
    BY <1>7, <1>8
  <2> QED
    BY <1>4, <2>1 DEF Strlen
<1>10. \A p \in Int : a <= p /\ p < size /\ m[p] = 0 => z <= p
  BY <1>3, <1>6
<1>11. \A p, q \in Int : End(p .. q) \in SUBSET Int
  OBVIOUS
<1>12. CASE z < from
  <2>1. z \in HeadEnds /\ HeadEnds \in SUBSET Int
    BY <1>3, <1>5, <1>6, <1>12
  <2>2. \A p \in HeadEnds : z <= p
    <3> SUFFICES ASSUME NEW p \in a .. from - 1, m[p] = 0, p < z PROVE FALSE
      BY <1>3, <1>5, <1>8
    <3> QED
      BY <1>3, <1>6
  <2>3. Least(HeadEnds) = z
    <3> HIDE DEF HeadEnds
    <3> QED
      BY <2>1, <2>2, LeastIs
  <2> QED
    BY <1>3, <1>5, <1>9, <2>1, <2>3
<1>13. CASE from <= z
  <2>1. HeadEnds = {}
    BY <1>3, <1>6, <1>8, <1>13
  <2>2. PICK i \in Nat, b \in 0 .. WordBytes - 1 : z = i * WordBytes + b
    <3>1. z \in Nat
      OBVIOUS
    <3> QED
      BY <1>1, <3>1, WordOf, Zenon
  <2>3. PICK p0 \in Nat : p0 = i * WordBytes
    BY <1>1, TimesNat
  <2>4. from <= p0 /\ p0 + WordBytes <= size
    <3>1. ~(i + 1 <= i0)
      <4> SUFFICES ASSUME i + 1 <= i0 PROVE FALSE
        OBVIOUS
      <4>1. (i + 1) * WordBytes <= i0 * WordBytes /\ (i + 1) * WordBytes = i * WordBytes + WordBytes
        BY <1>1, TimesMonotone, TimesNext
      <4> QED
        BY <1>1, <1>8, <1>13, <2>2, <2>3, <4>1
    <3>2. ~(words <= i)
      <4> SUFFICES ASSUME words <= i PROVE FALSE
        OBVIOUS
      <4>1. words * WordBytes <= i * WordBytes
        BY <1>1, TimesMonotone
      <4> QED
        BY <1>1, <1>2, <2>2, <2>3, <4>1
    <3>3. i0 * WordBytes <= i * WordBytes /\ (i + 1) * WordBytes <= words * WordBytes
      BY <1>1, <3>1, <3>2, TimesMonotone
    <3>4. (i + 1) * WordBytes = i * WordBytes + WordBytes
      BY <1>1, TimesNext
    <3> QED
      BY <1>2, <1>8, <2>3, <3>3, <3>4
  <2> DEFINE d == [j \in 1 .. WordBytes |-> m[p0 + WordBytes - j]]
  <2>5. MayEnd(WordAt(m, p0))
    <3>1. d \in [1 .. WordBytes -> Bytes]
      <4>1. \A j \in 1 .. WordBytes : p0 + WordBytes - j \in 0 .. size - 1
        BY <1>1, <2>4
      <4> QED
        BY <1>3, <4>1
    <3>2. d[WordBytes - b] = 0
      <4>1. WordBytes - b \in 1 .. WordBytes /\ p0 + WordBytes - (WordBytes - b) = z
        BY <1>1, <2>2, <2>3
      <4> QED
        BY <1>6, <4>1
    <3>3. \A j \in WordBytes - b + 1 .. WordBytes : d[j] # 0
      <4> SUFFICES ASSUME NEW j \in WordBytes - b + 1 .. WordBytes PROVE d[j] # 0
        OBVIOUS
      <4>1. j \in 1 .. WordBytes /\ p0 + WordBytes - j \in a .. z - 1
        BY <1>1, <1>3, <1>8, <2>2, <2>3, <2>4
      <4> QED
        BY <1>6, <4>1
    <3>4. WordAt(m, p0) = Word(d)
      BY DEF WordAt
    <3> HIDE DEF d
    <3> QED
      BY <3>1, <3>2, <3>3, <3>4, ZeroMayEnd
  <2>6. z \in End(p0 .. p0 + WordBytes - 1)
    BY <1>1, <1>6, <2>2, <2>3
  <2>7. p0 \in Words /\ Words \in SUBSET Int
    <3>1. p0 % WordBytes = 0
      BY <1>1, <2>3, MultipleMod
    <3>2. p0 \in from .. size - WordBytes
      BY <1>1, <2>4
    <3> QED
      BY <2>5, <2>6, <3>1, <3>2
  <2>8. ASSUME NEW p \in Words PROVE p0 <= p
    <3>1. p \in from .. size - WordBytes /\ p % WordBytes = 0 /\ p \in Nat
      OBVIOUS
    <3>2. PICK e \in p .. p + WordBytes - 1 : m[e] = 0
      OBVIOUS
    <3>3. z <= e /\ z <= p + WordBytes - 1
      <4>1. e \in Int /\ e <= p + WordBytes - 1
        BY <1>1, <3>1, <3>2
      <4>2. z <= e
        BY <1>1, <1>3, <1>8, <1>10, <3>1, <3>2, SMTT(60)
      <4> QED
        BY <1>1, <1>3, <1>8, <3>1, <4>1, <4>2
    <3>4. PICK g \in Int : p = g * WordBytes
      <4>1. p \div WordBytes \in Int /\ p = (p \div WordBytes) * WordBytes + (p % WordBytes)
        <5>1. p \in Int
          BY <3>1
        <5> QED
          BY <1>1, <5>1, IntDivMod, Zenon
      <4>2. PICK f \in Int : f = p \div WordBytes
        BY <4>1
      <4>3. f * WordBytes \in Int
        BY <1>1
      <4> QED
        BY <3>1, <4>1, <4>2, <4>3
    <3>5. ~(g + 1 <= i)
      <4> SUFFICES ASSUME g + 1 <= i PROVE FALSE
        OBVIOUS
      <4>1. (g + 1) * WordBytes <= i * WordBytes /\ (g + 1) * WordBytes = g * WordBytes + WordBytes
        BY <1>1, TimesMonotone, TimesNext
      <4> QED
        BY <1>1, <2>2, <2>3, <3>3, <3>4, <4>1
    <3>6. i * WordBytes <= g * WordBytes
      BY <1>1, <3>5, TimesMonotone
    <3> QED
      BY <2>3, <3>4, <3>6
  <2>9. Least(Words) = p0
    <3> HIDE DEF Words
    <3> QED
      BY <2>7, <2>8, LeastIs
  <2> DEFINE LastWord == End(p0 .. p0 + WordBytes - 1)
  <2>10. Least(LastWord) = z
    <3>1. LastWord \in SUBSET Int /\ z \in LastWord
      BY <2>6
    <3>2. \A p \in LastWord : z <= p
      BY <1>1, <1>3, <1>8, <1>10, <2>4
    <3> HIDE DEF LastWord
    <3> QED
      BY <3>1, <3>2, LeastIs
  <2>11. Strlen(m, a) = Least(LastWord) - a
    <3> HIDE DEF HeadEnds, Words, End
    <3> QED
      BY <1>9, <2>1, <2>7, <2>9
  <2> QED
    BY <1>3, <1>5, <2>10, <2>11
<1> QED
  BY <1>12, <1>13

LEMMA Lengths ==
  ASSUME NEW words \in Nat \ {0}, NEW m \in MemoryOf(words * WordBytes), NEW a \in DOMAIN m
  PROVE  Strlen(m, a) = Len(StringAt(m, a)) /\ Strlen(m, a) \in Nat /\ Ends(m, a, Strlen(m, a))
<1>1. PICK size \in Nat : size = words * WordBytes
  BY StringSizes, TimesNat
<1>2. DOMAIN m = 0 .. size - 1 /\ m \in MemoryOf(size)
  BY <1>1 DEF MemoryOf
<1>3. PICK n \in Nat : Ends(m, a, n)
  BY <1>2, StringIs
<1>4. Len(StringAt(m, a)) = n
  BY <1>2, <1>3, StringAtIs
<1>5. Strlen(m, a) = n
  BY <1>3, StrlenIs
<1> QED
  BY <1>3, <1>4, <1>5

Memory(D) == [D -> Bytes]

(* The copies: memory before and after each of the bytes.                  *)
CopySteps(f, m, dest, src, o, len) ==
  /\ f \in [0 .. len -> [DOMAIN m -> Bytes]] /\ f[0] = m
  /\ \A k \in 1 .. len : f[k] = [f[k - 1] EXCEPT ![dest + o[k]] = f[k - 1][src + o[k]]]

(* The offsets are those of len bytes that are in memory D at both ends,   *)
(* and no byte is written before it is read.                               *)
InOrder(o, D, dest, src, len) ==
  /\ o \in [1 .. len -> Nat]
  /\ \A k \in 1 .. len : o[k] \in 0 .. len - 1
  /\ \A i \in 0 .. len - 1 : \E k \in 1 .. len : o[k] = i
  /\ \A k \in 1 .. len : \A j \in 1 .. k - 1 : dest + o[j] # src + o[k]
  /\ \A i \in 0 .. len - 1 : dest + i \in D /\ src + i \in D

LEMMA CopyIs ==
  ASSUME NEW D, NEW m \in Memory(D), NEW dest \in Nat, NEW src \in Nat, NEW len \in Nat,
         NEW o, InOrder(o, D, dest, src, len)
  PROVE  \E f : CopySteps(f, m, dest, src, o, len) /\ Copy(m, dest, src, o) = f[len]
<1> DEFINE S == Memory(D)
           After(k, x) == [x EXCEPT ![dest + o[k]] = x[src + o[k]]]
           step == [k \in 1 .. len |-> [x \in S |-> After(k, x)]]
           run == LoopRun(len, S, m, step)
           IsAfter(g) == g = [k \in 0 .. len |-> IF k = 0 THEN m ELSE After(k, g[k - 1])]
           after == CHOOSE g : IsAfter(g)
<1>0. o \in [1 .. len -> Nat] /\ \A k \in 1 .. len : src + o[k] \in D
  BY DEF InOrder
<1>1. \A k \in 1 .. len, x \in S : After(k, x) \in S
  BY <1>0 DEF Memory
<1>2. Len(o) = len
  BY <1>0
<1>3. Copy(m, dest, src, o) = after[len]
  BY <1>2 DEF Copy
<1> HIDE DEF S, After
<1>4. m \in S /\ step \in [1 .. len -> [S -> S]] /\ \A k \in 1 .. len, x \in S : step[k][x] = After(k, x)
  BY <1>1 DEF S
<1> HIDE DEF step
<1>5. run \in [0 .. len -> S] /\ run[0] = m /\ \A k \in 1 .. len : run[k] = step[k][run[k - 1]]
  <2>1. len \in Nat /\ m \in S
    BY <1>4
  <2>2. step \in [1 .. len -> [S -> S]]
    BY <1>4
  <2> QED
    BY <2>1, <2>2, RunExists
<1> HIDE DEF run
<1>6. ASSUME NEW k \in 1 .. len PROVE run[k] = After(k, run[k - 1])
  <2>1. run[k - 1] \in S
    BY <1>5
  <2> QED
    BY <1>4, <1>5, <2>1
<1>7. IsAfter(run)
  <2>1. \A k \in 0 .. len : run[k] = IF k = 0 THEN m ELSE After(k, run[k - 1])
    BY <1>5, <1>6
  <2>2. run = [k \in 0 .. len |-> run[k]]
    BY <1>5
  <2> QED
    BY <2>1, <2>2
<1>8. IsAfter(after)
  <2> HIDE DEF IsAfter
  <2> QED
    BY <1>7
<1> HIDE DEF after
<1>9. \A k \in 0 .. len : after[k] = IF k = 0 THEN m ELSE After(k, after[k - 1])
  BY <1>8, Zenon
<1> DEFINE T == {k \in 0 .. len : after[k] = run[k]}
<1>10. 0 \in T /\ \A k \in 1 .. len : k - 1 \in T => k \in T
  BY <1>5, <1>6, <1>9
<1>11. \A k \in 0 .. len : k \in T
  <2> HIDE DEF T
  <2> QED
    BY <1>10, UpTo
<1>12. after[len] = run[len]
  BY <1>11
<1>13. DOMAIN m = D
  BY DEF Memory
<1>14. CopySteps(run, m, dest, src, o, len)
  BY <1>5, <1>6, <1>13 DEF CopySteps, S, After, Memory
<1> QED
  BY <1>3, <1>12, <1>14

LEMMA CopyMoves ==
  ASSUME NEW D \in SUBSET Int, NEW m \in Memory(D), NEW dest \in Nat, NEW src \in Nat, NEW len \in Nat,
         NEW o, InOrder(o, D, dest, src, len)
  PROVE  Copy(m, dest, src, o) = Moved(m, dest, src, len)
<1> DEFINE Done(k, p) == \E j \in 1 .. k : p = dest + o[j]
           Right(k, g) == \A p \in D : g[p] = IF Done(k, p) THEN m[src + p - dest] ELSE m[p]
<1>0. /\ o \in [1 .. len -> Nat]
      /\ \A k \in 1 .. len : o[k] \in 0 .. len - 1
      /\ \A i \in 0 .. len - 1 : \E k \in 1 .. len : o[k] = i
      /\ \A k \in 1 .. len : \A j \in 1 .. k - 1 : dest + o[j] # src + o[k]
      /\ \A k \in 1 .. len : dest + o[k] \in D /\ src + o[k] \in D
  BY DEF InOrder
<1>1. PICK f : CopySteps(f, m, dest, src, o, len) /\ Copy(m, dest, src, o) = f[len]
  BY CopyIs
<1>2. /\ DOMAIN m = D /\ f[0] = m
      /\ \A k \in 0 .. len : f[k] \in [D -> Bytes]
      /\ \A k \in 1 .. len : f[k] = [f[k - 1] EXCEPT ![dest + o[k]] = f[k - 1][src + o[k]]]
  BY <1>1 DEF CopySteps, Memory
<1>3. Right(0, f[0])
  BY <1>2
<1>4. ASSUME NEW k \in 1 .. len, Right(k - 1, f[k - 1]) PROVE Right(k, f[k])
  <2>1. dest + o[k] \in D /\ src + o[k] \in D /\ k - 1 \in 0 .. len /\ o[k] \in Nat
    BY <1>0
  <2>2. ~Done(k - 1, src + o[k])
    BY <1>0
  <2>3. f[k - 1][src + o[k]] = m[src + o[k]]
    BY <1>4, <2>1, <2>2
  <2>4. \A p : Done(k, p) <=> Done(k - 1, p) \/ p = dest + o[k]
    <3>1. \A j : j \in 1 .. k <=> j \in 1 .. k - 1 \/ j = k
      OBVIOUS
    <3> QED
      BY <3>1, Zenon
  <2>5. src + (dest + o[k]) - dest = src + o[k]
    BY <2>1
  <2> HIDE DEF Done
  <2>6. \A p \in D : f[k][p] = IF p = dest + o[k] THEN f[k - 1][src + o[k]] ELSE f[k - 1][p]
    BY <1>2, <2>1
  <2> SUFFICES ASSUME NEW p \in D PROVE f[k][p] = IF Done(k, p) THEN m[src + p - dest] ELSE m[p]
    OBVIOUS
  <2>7. CASE p = dest + o[k]
    BY <2>3, <2>4, <2>5, <2>6, <2>7
  <2>8. CASE p # dest + o[k]
    <3>1. f[k][p] = f[k - 1][p] /\ (Done(k, p) <=> Done(k - 1, p))
      BY <2>4, <2>6, <2>8
    <3>2. f[k - 1][p] = IF Done(k - 1, p) THEN m[src + p - dest] ELSE m[p]
      BY <1>4
    <3> QED
      BY <3>1, <3>2
  <2> QED
    BY <2>7, <2>8
<1> DEFINE T == {k \in 0 .. len : Right(k, f[k])}
<1> HIDE DEF Right
<1>5. 0 \in T /\ \A k \in 1 .. len : k - 1 \in T => k \in T
  BY <1>3, <1>4
<1>6. \A k \in 0 .. len : k \in T
  <2> HIDE DEF T
  <2> QED
    BY <1>5, UpTo
<1>7. Right(len, f[len])
  BY <1>6
<1>8. \A p \in D : Done(len, p) <=> p \in dest .. dest + len - 1
  <2> SUFFICES ASSUME NEW p \in D PROVE Done(len, p) <=> p \in dest .. dest + len - 1
    OBVIOUS
  <2>1. Done(len, p) => p \in dest .. dest + len - 1
    BY <1>0
  <2>2. ASSUME p \in dest .. dest + len - 1 PROVE Done(len, p)
    <3>1. p - dest \in 0 .. len - 1 /\ p = dest + (p - dest)
      BY <2>2
    <3>2. PICK k \in 1 .. len : o[k] = p - dest
      BY <1>0, <3>1
    <3> QED
      BY <3>1, <3>2
  <2> QED
    BY <2>1, <2>2
<1> HIDE DEF Done
<1>9. \A p \in D : f[len][p] = IF p \in dest .. dest + len - 1 THEN m[src + p - dest] ELSE m[p]
  BY <1>7, <1>8 DEF Right
<1>10. f[len] = [p \in D |-> f[len][p]]
  <2>1. f[len] \in [D -> Bytes]
    BY <1>2
  <2> QED
    BY <2>1
<1> QED
  BY <1>1, <1>2, <1>9, <1>10 DEF Moved

(* The blocks at src and dest are in memory.                               *)
LEMMA MemcpyMoves ==
  ASSUME NEW size \in Nat, NEW m \in [0 .. size - 1 -> Bytes], NEW dest \in Nat, NEW src \in Nat, NEW len \in Nat,
         dest + len <= size, src + len <= size,
         dest <= src \/ src + len <= dest
  PROVE  Memcpy(m, dest, src, len) = Moved(m, dest, src, len)
<1> DEFINE o == Upwards(len)
<1>1. o \in [1 .. len -> Nat] /\ \A k \in 1 .. len : o[k] = k - 1
  BY DEF Upwards
<1> HIDE DEF o
<1>2. \A k \in 1 .. len : o[k] \in 0 .. len - 1
  BY <1>1
<1>3. \A i \in 0 .. len - 1 : i + 1 \in 1 .. len /\ o[i + 1] = i
  BY <1>1
<1>4. \A k \in 1 .. len : \A j \in 1 .. k - 1 : dest + o[j] # src + o[k]
  <2> SUFFICES ASSUME NEW k \in 1 .. len, NEW j \in 1 .. k - 1 PROVE dest + o[j] # src + o[k]
    OBVIOUS
  <2>1. o[k] = k - 1 /\ o[j] = j - 1
    BY <1>1
  <2>2. dest + (j - 1) # src + (k - 1)
    OBVIOUS
  <2> QED
    BY <2>1, <2>2
<1>5. \A i \in 0 .. len - 1 : dest + i \in 0 .. size - 1 /\ src + i \in 0 .. size - 1
  OBVIOUS
<1>6. InOrder(o, 0 .. size - 1, dest, src, len)
  BY <1>1, <1>2, <1>3, <1>4, <1>5 DEF InOrder
<1>7. Copy(m, dest, src, o) = Moved(m, dest, src, len)
  <2>1. 0 .. size - 1 \in SUBSET Int
    OBVIOUS
  <2> QED
    BY <1>6, <2>1, CopyMoves DEF Memory
<1> QED
  BY <1>7 DEF o, Memcpy

LEMMA MemmoveMoves ==
  ASSUME NEW size \in Nat, NEW m \in [0 .. size - 1 -> Bytes], NEW dest \in Nat, NEW src \in Nat, NEW len \in Nat,
         dest + len <= size, src + len <= size
  PROVE  Memmove(m, dest, src, len) = Moved(m, dest, src, len)
<1>1. CASE dest < src
  <2>1. Memcpy(m, dest, src, len) = Moved(m, dest, src, len)
    BY <1>1, MemcpyMoves
  <2> QED
    BY <1>1, <2>1 DEF Memmove, Memcpy
<1>2. CASE ~(dest < src)
  <2> DEFINE o == Downwards(len)
  <2>1. o \in [1 .. len -> Nat] /\ \A k \in 1 .. len : o[k] = len - k
    BY DEF Downwards
  <2> HIDE DEF o
  <2>2. \A k \in 1 .. len : o[k] \in 0 .. len - 1
    BY <2>1
  <2>3. \A i \in 0 .. len - 1 : len - i \in 1 .. len /\ o[len - i] = i
    BY <2>1
  <2>4. \A k \in 1 .. len : \A j \in 1 .. k - 1 : dest + o[j] # src + o[k]
    BY <1>2, <2>1
  <2>5. \A i \in 0 .. len - 1 : dest + i \in 0 .. size - 1 /\ src + i \in 0 .. size - 1
    OBVIOUS
  <2>6. InOrder(o, 0 .. size - 1, dest, src, len)
    BY <2>1, <2>2, <2>3, <2>4, <2>5 DEF InOrder
  <2>7. Copy(m, dest, src, o) = Moved(m, dest, src, len)
    <3>1. 0 .. size - 1 \in SUBSET Int
      OBVIOUS
    <3> QED
      BY <2>6, <3>1, CopyMoves DEF Memory
  <2> QED
    BY <1>2, <2>7 DEF o, Memmove
<1> QED
  BY <1>1, <1>2

LEMMA BlocksRight ==
  ASSUME NEW size \in Nat, NEW m \in MemoryOf(size)
  PROVE  Blocks(m)
<1>1. m \in [0 .. size - 1 -> Bytes] /\ DOMAIN m = 0 .. size - 1
  BY DEF MemoryOf
<1>2. ASSUME NEW a \in DOMAIN m, NEW b \in DOMAIN m, NEW len \in DOMAIN m, {a + len, b + len} \subseteq DOMAIN m
      PROVE  /\ Memmove(m, a, b, len) = Moved(m, a, b, len)
             /\ a + len <= b \/ b + len <= a => Memcpy(m, a, b, len) = Moved(m, a, b, len)
             /\ Sign(Memcmp(m, a, b, len)) = Order([k \in 1 .. len |-> m[a + k - 1]], [k \in 1 .. len |-> m[b + k - 1]])
  <2>1. a \in Nat /\ b \in Nat /\ len \in Nat /\ a + len < size /\ b + len < size
    BY <1>1, <1>2
  <2>2. a + len <= size /\ b + len <= size
    BY <2>1
  <2>3. Memmove(m, a, b, len) = Moved(m, a, b, len)
    BY <1>1, <2>1, <2>2, MemmoveMoves
  <2>4. ASSUME a + len <= b \/ b + len <= a PROVE Memcpy(m, a, b, len) = Moved(m, a, b, len)
    <3>1. a <= b \/ b + len <= a
      BY <2>1, <2>4
    <3> QED
      BY <1>1, <2>1, <2>2, <3>1, MemcpyMoves
  <2>5. Sign(Memcmp(m, a, b, len)) = Order([k \in 1 .. len |-> m[a + k - 1]], [k \in 1 .. len |-> m[b + k - 1]])
    <3>1. BlocksOrdered(m, a, b, len)
      BY <2>1, MemcmpRight
    <3> QED
      BY <3>1 DEF BlocksOrdered
  <2> QED
    BY <2>3, <2>4, <2>5
<1> QED
  BY <1>2, Zenon DEF Blocks

LEMMA StringBytes ==
  ASSUME NEW size \in Nat, NEW m \in MemoryOf(size), NEW a \in 0 .. size - 1, NEW n \in Nat, Ends(m, a, n)
  PROVE  /\ StringAt(m, a) \in Seq(Bytes \ {0}) /\ Len(StringAt(m, a)) = n
         /\ \A k \in 1 .. n : StringAt(m, a)[k] = m[a + k - 1]
<1> DEFINE s == StringAt(m, a)
<1>1. s = [k \in 1 .. n |-> m[a + k - 1]] /\ s \in Seq(Bytes) /\ Len(s) = n
      /\ \A k \in 1 .. n : s[k] = m[a + k - 1] /\ m[a + k - 1] # 0
  BY StringAtIs
<1> HIDE DEF s
<1>2. \A k \in 1 .. n : s[k] \in Bytes \ {0}
  BY <1>1
<1>3. s \in Seq(Bytes \ {0}) /\ Len(s) = n /\ \A k \in 1 .. n : s[k] = m[a + k - 1]
  BY <1>1, <1>2
<1> QED
  BY <1>3 DEF s

LEMMA ComparedRight ==
  ASSUME NEW words \in Nat \ {0}, NEW m \in MemoryOf(words * WordBytes)
  PROVE  Compared(m)
<1>1. PICK size \in Nat : size = words * WordBytes
  BY StringSizes, TimesNat
<1>2. DOMAIN m = 0 .. size - 1 /\ m \in MemoryOf(size)
  BY <1>1 DEF MemoryOf
<1>3. ASSUME NEW a \in DOMAIN m, NEW b \in DOMAIN m
      PROVE  /\ Strlen(m, a) = Len(StringAt(m, a))
             /\ Sign(Strcmp(m, a, b)) = Order(StringAt(m, a), StringAt(m, b))
             /\ \A n \in DOMAIN m :
                  Sign(Strncmp(m, a, b, n)) = Order(Upto(StringAt(m, a), n), Upto(StringAt(m, b), n))
  <2>1. Strlen(m, a) = Len(StringAt(m, a))
    BY Lengths
  <2>2. a \in 0 .. size - 1 /\ b \in 0 .. size - 1 /\ 0 \in Nat /\ \A n \in DOMAIN m : n \in Nat
    BY <1>2
  <2> QED
    BY <1>2, <2>1, <2>2, Compares
<1> QED
  BY <1>3, Zenon DEF Compared

(* A string is found at k when its bytes are there.                        *)
FindsAt(m, a, b, na, nb, k) ==
  m[a + k] = m[b] /\ Strncmp(m, a + k, b, nb) = 0
  <=> k <= na - nb /\ SubSeq(StringAt(m, a), k + 1, k + nb) = StringAt(m, b)

LEMMA FoundAt ==
  ASSUME NEW size \in Nat, NEW m \in MemoryOf(size), NEW a \in 0 .. size - 1, NEW b \in 0 .. size - 1,
         NEW na \in Nat, NEW nb \in Nat \ {0}, Ends(m, a, na), Ends(m, b, nb), NEW k \in 0 .. na
  PROVE  FindsAt(m, a, b, na, nb, k)
<1> DEFINE Same == k <= na - nb /\ \A j \in 1 .. nb : m[a + k + j - 1] = m[b + j - 1]
<1>1. PICK p \in 0 .. size - 1 : p = a + k
  <2>1. a + k \in 0 .. size - 1
    BY StringAtIs
  <2> QED
    BY <2>1
<1>2. PICK l \in Nat : l = na - k
  OBVIOUS
<1>3. Ends(m, p, l)
  <2>1. p + l = a + na
    BY <1>1, <1>2
  <2>2. \A j \in 0 .. l - 1 : k + j \in 0 .. na - 1 /\ p + j = a + (k + j)
    BY <1>1, <1>2
  <2> QED
    BY <2>1, <2>2 DEF Ends
<1> DEFINE s == StringAt(m, a)
           t == StringAt(m, b)
           u == StringAt(m, p)
           v == Upto(u, nb)
           w == Upto(t, nb)
<1>4. s \in Seq(Bytes \ {0}) /\ Len(s) = na /\ \A j \in 1 .. na : s[j] = m[a + j - 1]
  BY StringBytes
<1>5. t \in Seq(Bytes \ {0}) /\ Len(t) = nb /\ \A j \in 1 .. nb : t[j] = m[b + j - 1]
  BY StringBytes
<1>6. u \in Seq(Bytes \ {0}) /\ Len(u) = l /\ \A j \in 1 .. l : u[j] = m[p + j - 1]
  BY <1>3, StringBytes
<1>7. Sign(Strncmp(m, p, b, nb)) = Order(v, w)
  BY Compares
<1> HIDE DEF s, t, u
<1>8. v \in Seq(Bytes \ {0}) /\ Len(v) = (IF nb < l THEN nb ELSE l) /\ \A j \in 1 .. Len(v) : v[j] = u[j]
  BY <1>6, UptoIs
<1>9. w \in Seq(Bytes \ {0}) /\ Len(w) = nb /\ \A j \in 1 .. nb : w[j] = t[j]
  BY <1>5, UptoIs, SMTT(60)
<1> HIDE DEF v, w
<1>10. v \in Seq(Bytes) /\ w \in Seq(Bytes)
  BY <1>8, <1>9
<1>11. Strncmp(m, p, b, nb) \in Int
  <2>1. Strncmp(m, p, b, nb) = Difference(m, p, b, Stops(m, p, b) \cap 0 .. nb - 1)
    <3>1. Stops(m, p, b) \cap 0 .. nb - 1 =
            {j \in Offsets(m, p, b) \cap 0 .. nb - 1 : m[p + j] = 0 \/ Differs(m, p, b, j)}
      BY DEF Stops
    <3> QED
      BY <3>1 DEF Strncmp
  <2> DEFINE K == Stops(m, p, b) \cap 0 .. nb - 1
  <2>2. K \in SUBSET Nat /\ \A j \in K : m[p + j] \in Nat /\ m[b + j] \in Nat
    BY StringSizes DEF Stops, Offsets, MemoryOf
  <2>3. K # {} => Least(K) \in K
    <3> HIDE DEF K
    <3> QED
      BY <2>2, LeastIn
  <2> QED
    BY <2>1, <2>2, <2>3 DEF Difference
<1>12. Strncmp(m, p, b, nb) = 0 <=> v = w
  BY <1>7, <1>10, <1>11, OrderZero, SignOf
<1>13. v = w <=> Same
  <2>1. ASSUME v = w PROVE Same
    <3>1. nb <= l
      BY <1>8, <1>9, <2>1
    <3>2. ASSUME NEW j \in 1 .. nb PROVE m[a + k + j - 1] = m[b + j - 1]
      <4>1. v[j] = u[j] /\ w[j] = t[j] /\ t[j] = m[b + j - 1]
        BY <1>5, <1>8, <1>9, <3>1
      <4>2. u[j] = m[p + j - 1]
        BY <1>6, <3>1
      <4> QED
        BY <1>1, <2>1, <4>1, <4>2
    <3> QED
      BY <1>2, <3>1, <3>2
  <2>2. ASSUME Same PROVE v = w
    <3>1. nb <= l /\ Len(v) = nb
      <4>1. k <= na - nb
        BY <2>2
      <4>2. nb <= l
        BY <1>2, <4>1
      <4> QED
        BY <1>8, <4>2
    <3>2. ASSUME NEW j \in 1 .. nb PROVE v[j] = w[j]
      <4>1. v[j] = u[j] /\ w[j] = t[j] /\ t[j] = m[b + j - 1]
        BY <1>5, <1>8, <1>9, <3>1
      <4>2. u[j] = m[p + j - 1]
        BY <1>6, <3>1
      <4> QED
        BY <1>1, <2>2, <4>1, <4>2
    <3> QED
      BY <1>9, <1>10, <3>1, <3>2, SeqEqual
  <2> QED
    BY <2>1, <2>2
<1>14. Same => m[p] = m[b]
  <2>1. 1 \in 1 .. nb /\ a + k + 1 - 1 = p /\ b + 1 - 1 = b
    BY <1>1
  <2> QED
    BY <2>1
<1> DEFINE x == SubSeq(s, k + 1, k + nb)
<1>15. k <= na - nb /\ x = t <=> Same
  <2> SUFFICES ASSUME k <= na - nb PROVE x = t <=> Same
    OBVIOUS
  <2>1. x \in Seq(Bytes \ {0}) /\ Len(x) = nb /\ \A j \in 1 .. nb : x[j] = s[k + j]
    BY <1>4
  <2>2. \A j \in 1 .. nb : s[k + j] = m[a + k + j - 1]
    <3> SUFFICES ASSUME NEW j \in 1 .. nb PROVE s[k + j] = m[a + k + j - 1]
      OBVIOUS
    <3>1. k + j \in 1 .. na /\ a + (k + j) - 1 = a + k + j - 1
      OBVIOUS
    <3> QED
      BY <1>4, <3>1
  <2> HIDE DEF x
  <2>3. ASSUME x = t PROVE Same
    <3>1. ASSUME NEW j \in 1 .. nb PROVE m[a + k + j - 1] = m[b + j - 1]
      BY <1>5, <2>1, <2>2, <2>3
    <3> QED
      BY <3>1, SMTT(60)
  <2>4. ASSUME Same PROVE x = t
    <3>1. ASSUME NEW j \in 1 .. nb PROVE x[j] = t[j]
      <4>1. x[j] = s[k + j] /\ s[k + j] = m[a + k + j - 1]
        BY <2>1, <2>2
      <4>2. t[j] = m[b + j - 1] /\ m[a + k + j - 1] = m[b + j - 1]
        BY <1>5, <2>4
      <4> QED
        BY <4>1, <4>2
    <3> QED
      BY <1>5, <2>1, <3>1, SeqEqual
  <2> QED
    BY <2>3, <2>4
<1> HIDE DEF Same, x
<1> QED
  BY <1>1, <1>12, <1>13, <1>14, <1>15 DEF s, t, x, FindsAt

LEMMA FoundRight ==
  ASSUME NEW words \in Nat \ {0}, NEW m \in MemoryOf(words * WordBytes)
  PROVE  Found(m)
<1>1. PICK size \in Nat : size = words * WordBytes
  BY StringSizes, TimesNat
<1>2. DOMAIN m = 0 .. size - 1 /\ m \in MemoryOf(size)
  BY <1>1 DEF MemoryOf
<1>3. ASSUME NEW a \in DOMAIN m, NEW b \in DOMAIN m, StringAt(m, b) # <<>>
      PROVE  LET s == StringAt(m, a)
                 t == StringAt(m, b)
                 places == {k \in 0 .. Len(s) - Len(t) : SubSeq(s, k + 1, k + Len(t)) = t}
             IN Strstr(m, a, b) = IF places = {} THEN NULL ELSE a + Least(places)
  <2>1. PICK na \in Nat : na = Strlen(m, a) /\ na = Len(StringAt(m, a)) /\ Ends(m, a, na)
    BY Lengths
  <2>2. PICK nb \in Nat : nb = Strlen(m, b) /\ nb = Len(StringAt(m, b)) /\ Ends(m, b, nb)
    BY Lengths
  <2>3. a \in 0 .. size - 1 /\ b \in 0 .. size - 1
    BY <1>2
  <2>4. nb # 0
    <3>1. StringAt(m, b) \in Seq(Bytes)
      BY <1>2, <2>2, <2>3, StringAtIs
    <3> QED
      BY <1>3, <2>2, <3>1
  <2> DEFINE At == {k \in 0 .. na - nb : SubSeq(StringAt(m, a), k + 1, k + nb) = StringAt(m, b)}
             Finds == {p \in a .. a + na : m[p] = m[b] /\ Strncmp(m, p, b, nb) = 0}
  <2>5. Strstr(m, a, b) = IF Finds = {} THEN NULL ELSE Least(Finds)
    BY <2>1, <2>2 DEF Strstr
  <2>6. ASSUME NEW k \in 0 .. na PROVE a + k \in Finds <=> k \in At
    <3>1. FindsAt(m, a, b, na, nb, k)
      BY <1>2, <2>1, <2>2, <2>3, <2>4, FoundAt
    <3> QED
      BY <2>3, <3>1 DEF FindsAt
  <2>7. At \in SUBSET Nat /\ At \subseteq 0 .. na /\ Finds \subseteq a .. a + na
    OBVIOUS
  <2> HIDE DEF At, Finds
  <2>8. \A p \in Finds : p - a \in At /\ p = a + (p - a)
    <3> SUFFICES ASSUME NEW p \in Finds PROVE p - a \in At /\ p = a + (p - a)
      OBVIOUS
    <3>1. p - a \in 0 .. na /\ p = a + (p - a)
      BY <2>3, <2>7
    <3> QED
      BY <2>6, <3>1
  <2>9. CASE At = {}
    <3>1. Finds = {}
      BY <2>8, <2>9
    <3> QED
      BY <2>1, <2>2, <2>5, <2>9, <3>1 DEF At
  <2>10. CASE At # {}
    <3>1. PICK k \in At : k = Least(At) /\ \A j \in At : k <= j
      BY <2>7, <2>10, LeastIn
    <3>2. a + k \in Finds /\ Finds \in SUBSET Int
      BY <2>3, <2>6, <2>7
    <3>3. \A p \in Finds : a + k <= p
      BY <2>3, <2>7, <2>8, <3>1
    <3>4. Least(Finds) = a + k
      BY <3>2, <3>3, LeastIs
    <3>5. Strstr(m, a, b) = a + Least(At)
      BY <2>5, <3>1, <3>2, <3>4
    <3> QED
      BY <2>1, <2>2, <2>10, <3>5 DEF At
  <2> QED
    BY <2>9, <2>10
<1> QED
  BY <1>3, Zenon DEF Found

(* Copies of strings to the second half of a memory, which is cleared.     *)
LEMMA ClearedIs ==
  ASSUME NEW size \in Nat, NEW m \in MemoryOf(size), NEW half \in Nat, 2 * half <= size, size <= 2 * half + 1
  PROVE  LET cleared == Memset(Memset(m, half - 1, 0, 1), half, 0, half)
         IN cleared \in MemoryOf(size) /\ \A p \in 0 .. size - 1 : p >= half - 1 => cleared[p] = 0
<1> DEFINE once == Memset(m, half - 1, 0, 1)
           cleared == Memset(once, half, 0, half)
<1>1. m \in [0 .. size - 1 -> Bytes] /\ m[size - 1] = 0 /\ 0 \in Bytes
  BY StringSizes DEF MemoryOf, Bytes
<1>2. once = [p \in 0 .. size - 1 |-> IF p \in half - 1 .. half - 1 + 1 - 1 THEN 0 ELSE m[p]]
  BY <1>1 DEF Memset
<1> HIDE DEF once
<1>3. once \in [0 .. size - 1 -> Bytes]
      /\ \A p \in 0 .. size - 1 : once[p] = IF p \in half - 1 .. half - 1 + 1 - 1 THEN 0 ELSE m[p]
  BY <1>1, <1>2
<1>4. cleared = [p \in 0 .. size - 1 |-> IF p \in half .. half + half - 1 THEN 0 ELSE once[p]]
  BY <1>3 DEF Memset
<1> HIDE DEF cleared
<1>5. cleared \in [0 .. size - 1 -> Bytes]
      /\ \A p \in 0 .. size - 1 : cleared[p] = IF p \in half .. half + half - 1 THEN 0 ELSE once[p]
  BY <1>1, <1>3, <1>4
<1>6. ASSUME NEW p \in 0 .. size - 1, p >= half - 1 PROVE cleared[p] = 0
  <2>1. p = half - 1 \/ p \in half .. half + half - 1 \/ p = size - 1
    BY <1>6
  <2> QED
    BY <1>1, <1>3, <1>5, <2>1
<1>7. cleared[size - 1] = 0
  <2>1. CASE size = 0
    <3>1. DOMAIN m = {}
      BY <1>1, <2>1
    <3>2. cleared = m
      BY <1>1, <1>5, <2>1
    <3> QED
      BY <1>1, <3>2
  <2>2. CASE size # 0
    BY <1>6, <2>2
  <2> QED
    BY <2>1, <2>2
<1> QED
  BY <1>5, <1>6, <1>7 DEF cleared, once, MemoryOf

HasMoved(c, m, dest, src, len) ==
  /\ c \in [DOMAIN m -> Bytes]
  /\ \A k \in 0 .. len - 1 : c[dest + k] = m[src + k]
  /\ \A p \in DOMAIN m : p < dest \/ p >= dest + len => c[p] = m[p]

LEMMA MovedIs ==
  ASSUME NEW size \in Nat, NEW m \in [0 .. size - 1 -> Bytes], NEW dest \in Nat, NEW src \in Nat, NEW len \in Nat,
         dest + len <= size, src + len <= size
  PROVE  HasMoved(Moved(m, dest, src, len), m, dest, src, len)
<1> DEFINE c == Moved(m, dest, src, len)
<1>1. c = [p \in 0 .. size - 1 |-> IF p \in dest .. dest + len - 1 THEN m[src + p - dest] ELSE m[p]]
  BY DEF Moved
<1>2. \A p \in 0 .. size - 1 : p \in dest .. dest + len - 1 => src + p - dest \in 0 .. size - 1
  OBVIOUS
<1> HIDE DEF c
<1>3. c \in [0 .. size - 1 -> Bytes]
      /\ \A p \in 0 .. size - 1 : c[p] = IF p \in dest .. dest + len - 1 THEN m[src + p - dest] ELSE m[p]
  BY <1>1, <1>2
<1>4. ASSUME NEW k \in 0 .. len - 1 PROVE c[dest + k] = m[src + k]
  <2>1. dest + k \in 0 .. size - 1 /\ dest + k \in dest .. dest + len - 1 /\ src + (dest + k) - dest = src + k
    OBVIOUS
  <2> QED
    BY <1>3, <2>1
<1>5. DOMAIN m = 0 .. size - 1
  OBVIOUS
<1>6. HasMoved(c, m, dest, src, len)
  BY <1>3, <1>4, <1>5 DEF HasMoved
<1> QED
  BY <1>6 DEF c

SameBytes(m, c, a, b, n) == \A k \in 0 .. n - 1 : c[b + k] = m[a + k]

(* What ends where a string does and has its characters is that string.    *)
LEMMA SameString ==
  ASSUME NEW size \in Nat, NEW m \in MemoryOf(size), NEW c \in MemoryOf(size),
         NEW a \in 0 .. size - 1, NEW b \in 0 .. size - 1, NEW n \in Nat,
         Ends(m, a, n), b + n \in 0 .. size - 1, c[b + n] = 0, SameBytes(m, c, a, b, n)
  PROVE  Ends(c, b, n) /\ StringAt(c, b) = StringAt(m, a)
<1>1. Ends(c, b, n)
  BY DEF Ends, MemoryOf, SameBytes
<1>2. StringAt(m, a) \in Seq(Bytes \ {0}) /\ Len(StringAt(m, a)) = n
      /\ \A k \in 1 .. n : StringAt(m, a)[k] = m[a + k - 1]
  BY StringBytes
<1>3. StringAt(c, b) \in Seq(Bytes \ {0}) /\ Len(StringAt(c, b)) = n
      /\ \A k \in 1 .. n : StringAt(c, b)[k] = c[b + k - 1]
  BY <1>1, StringBytes
<1>4. \A k \in 1 .. n : k - 1 \in 0 .. n - 1 /\ a + k - 1 = a + (k - 1) /\ b + k - 1 = b + (k - 1)
  OBVIOUS
<1>5. \A k \in 1 .. n : StringAt(c, b)[k] = StringAt(m, a)[k]
  BY <1>2, <1>3, <1>4 DEF SameBytes
<1> QED
  BY <1>1, <1>2, <1>3, <1>5, SeqEqual

LEMMA JoinOf ==
  ASSUME NEW S, NEW s \in Seq(S), NEW t \in Seq(S)
  PROVE  /\ s \o t \in Seq(S) /\ Len(s \o t) = Len(s) + Len(t)
         /\ \A k \in 1 .. Len(s) + Len(t) : (s \o t)[k] = IF k <= Len(s) THEN s[k] ELSE t[k - Len(s)]
OBVIOUS

LEMMA CopiedRight ==
  ASSUME NEW words \in Nat \ {0}, NEW m \in MemoryOf(words * WordBytes)
  PROVE  Copied(m)
<1>1. PICK size \in Nat : size = words * WordBytes
  BY StringSizes, TimesNat
<1>2. DOMAIN m = 0 .. size - 1 /\ m \in MemoryOf(size)
  BY <1>1 DEF MemoryOf
<1>3. PICK half \in Nat : half = Cardinality(DOMAIN m) \div 2 /\ 2 * half <= size /\ size <= 2 * half + 1
  <2>1. Cardinality(0 .. size - 1) = IF 0 > size - 1 THEN 0 ELSE (size - 1) - 0 + 1
    BY FS_Interval
  <2>2. Cardinality(DOMAIN m) = size
    BY <1>2, <2>1
  <2> QED
    BY <2>2
<1> DEFINE cleared == Memset(Memset(m, half - 1, 0, 1), half, 0, half)
<1>4. cleared \in MemoryOf(size) /\ \A p \in 0 .. size - 1 : p >= half - 1 => cleared[p] = 0
  BY <1>2, <1>3, ClearedIs
<1> HIDE DEF cleared
<1>5. ASSUME NEW c \in MemoryOf(size), NEW a \in 0 .. size - 1, NEW n \in Nat, Ends(c, a, n)
      PROVE  Strlen(c, a) = n
  <2>1. c \in MemoryOf(words * WordBytes) /\ a \in DOMAIN c
    BY <1>1, <1>5 DEF MemoryOf
  <2> QED
    BY <1>5, <2>1, StrlenIs
<1>6. ASSUME NEW a \in 0 .. half - 1
      PROVE  \E n \in Nat : Ends(cleared, a, n) /\ a + n <= half - 1
  <2>1. a \in 0 .. size - 1 /\ half - 1 \in 0 .. size - 1 /\ half - 1 - a \in Nat /\ a + (half - 1 - a) = half - 1
    BY <1>3
  <2>2. PICK n \in Nat : Ends(cleared, a, n)
    BY <1>4, <2>1, StringIs
  <2>3. half - 1 - a \notin 0 .. n - 1
    BY <1>4, <2>1, <2>2 DEF Ends
  <2> QED
    BY <2>1, <2>2, <2>3
<1>7. ASSUME NEW a \in 0 .. half - 1
      PROVE  LET once == Strcpy(cleared, half, a)
             IN /\ StringAt(once, half) = StringAt(cleared, a)
                /\ \A b \in 0 .. half - 1 :
                     half + Len(StringAt(cleared, a)) + Len(StringAt(cleared, b)) \in DOMAIN m =>
                       StringAt(Strcat(once, half, b), half) = StringAt(cleared, a) \o StringAt(cleared, b)
  <2>1. PICK n \in Nat : Ends(cleared, a, n) /\ a + n <= half - 1
    BY <1>6
  <2>2. a \in 0 .. size - 1 /\ half \in 0 .. size - 1 /\ half + n <= size - 1 /\ half + n <= 2 * half - 1
    BY <1>3, <2>1
  <2> DEFINE once == Strcpy(cleared, half, a)
  <2>3. once = Moved(cleared, half, a, n)
    <3>1. Strlen(cleared, a) = n
      BY <1>4, <1>5, <2>1, <2>2
    <3>2. Memcpy(cleared, half, a, n) = Moved(cleared, half, a, n)
      <4>1. a \in Nat /\ half + n <= size /\ a + n <= size /\ a + n <= half /\ cleared \in [0 .. size - 1 -> Bytes]
        BY <1>3, <1>4, <2>1, <2>2, SMTT(60) DEF MemoryOf
      <4> QED
        BY <4>1, MemcpyMoves
    <3> QED
      BY <3>1, <3>2 DEF Strcpy
  <2> HIDE DEF once
  <2>4. /\ once \in [0 .. size - 1 -> Bytes]
        /\ \A k \in 0 .. n - 1 : once[half + k] = cleared[a + k]
        /\ \A p \in 0 .. size - 1 : p < half \/ p >= half + n => once[p] = cleared[p]
    <3>1. a \in Nat /\ half + n <= size /\ a + n <= size /\ cleared \in [0 .. size - 1 -> Bytes]
      BY <1>3, <1>4, <2>1, <2>2, SMTT(60) DEF MemoryOf
    <3>2. HasMoved(once, cleared, half, a, n)
      BY <2>3, <3>1, MovedIs
    <3>3. DOMAIN cleared = 0 .. size - 1
      BY <3>1
    <3> QED
      BY <3>2, <3>3 DEF HasMoved
  <2>5. \A p \in 0 .. size - 1 : p >= half + n => once[p] = 0
    BY <1>4, <2>4
  <2>6. once \in MemoryOf(size)
    BY <2>2, <2>4, <2>5 DEF MemoryOf
  <2>7. Ends(once, half, n) /\ StringAt(once, half) = StringAt(cleared, a)
    <3>1. half + n \in 0 .. size - 1 /\ once[half + n] = 0
      BY <2>2, <2>5
    <3>2. SameBytes(cleared, once, a, half, n)
      BY <2>4 DEF SameBytes
    <3> QED
      BY <1>4, <2>1, <2>2, <2>6, <3>1, <3>2, SameString
  <2>8. Len(StringAt(cleared, a)) = n /\ StringAt(cleared, a) \in Seq(Bytes \ {0})
        /\ \A k \in 1 .. n : StringAt(cleared, a)[k] = cleared[a + k - 1]
    BY <1>4, <2>1, <2>2, StringBytes
  <2>9. ASSUME NEW b \in 0 .. half - 1,
               half + Len(StringAt(cleared, a)) + Len(StringAt(cleared, b)) \in DOMAIN m
        PROVE  StringAt(Strcat(once, half, b), half) = StringAt(cleared, a) \o StringAt(cleared, b)
    <3>1. PICK l \in Nat : Ends(cleared, b, l) /\ b + l <= half - 1
      BY <1>6
    <3>2. b \in 0 .. size - 1 /\ b \in Nat
      BY <1>3
    <3>3. Len(StringAt(cleared, b)) = l /\ StringAt(cleared, b) \in Seq(Bytes \ {0})
          /\ \A k \in 1 .. l : StringAt(cleared, b)[k] = cleared[b + k - 1]
      BY <1>4, <3>1, <3>2, StringBytes
    <3>4. half + n + l \in 0 .. size - 1
      BY <1>2, <2>8, <2>9, <3>3
    <3>5. Ends(once, b, l)
      <4>1. \A k \in 0 .. l : b + k \in 0 .. size - 1 /\ b + k < half
        BY <1>3, <3>1
      <4>2. \A k \in 0 .. l : once[b + k] = cleared[b + k]
        BY <2>4, <4>1
      <4> QED
        BY <2>4, <3>1, <4>1, <4>2, SMTT(60) DEF Ends
    <3> DEFINE twice == Strcat(once, half, b)
    <3>6. twice = Moved(once, half + n, b, l)
      <4>1. Strlen(once, half) = n /\ Strlen(once, b) = l
        BY <1>5, <2>2, <2>6, <2>7, <3>2, <3>5
      <4>2. Memcpy(once, half + n, b, l) = Moved(once, half + n, b, l)
        <5>1. half + n \in Nat /\ (half + n) + l <= size /\ b + l <= size /\ b + l <= half + n
          BY <1>3, <3>1, <3>4
        <5> QED
          BY <2>4, <3>2, <5>1, MemcpyMoves
      <4> QED
        BY <4>1, <4>2 DEF Strcat, Strcpy
    <3> HIDE DEF twice
    <3>7. /\ twice \in [0 .. size - 1 -> Bytes]
          /\ \A k \in 0 .. l - 1 : twice[(half + n) + k] = once[b + k]
          /\ \A p \in 0 .. size - 1 : p < half + n \/ p >= (half + n) + l => twice[p] = once[p]
      <4>1. half + n \in Nat /\ (half + n) + l <= size /\ b + l <= size
        BY <1>3, <3>1, <3>4
      <4>2. HasMoved(twice, once, half + n, b, l)
        BY <2>4, <3>2, <3>6, <4>1, MovedIs
      <4>3. DOMAIN once = 0 .. size - 1
        BY <2>4
      <4> QED
        BY <4>2, <4>3 DEF HasMoved
    <3>8. \A p \in 0 .. size - 1 : p >= half + n + l => twice[p] = 0
      BY <2>5, <3>7
    <3>9. twice \in MemoryOf(size)
      BY <3>4, <3>7, <3>8 DEF MemoryOf
    <3>10. \A k \in 0 .. n - 1 : twice[half + k] = cleared[a + k] /\ cleared[a + k] # 0
      <4> SUFFICES ASSUME NEW k \in 0 .. n - 1 PROVE twice[half + k] = cleared[a + k] /\ cleared[a + k] # 0
        OBVIOUS
      <4>1. half + k \in 0 .. size - 1 /\ half + k < half + n
        BY <2>2
      <4> QED
        BY <2>1, <2>4, <3>7, <4>1 DEF Ends
    <3>11. \A k \in 0 .. l - 1 : twice[half + (n + k)] = cleared[b + k] /\ cleared[b + k] # 0
      <4> SUFFICES ASSUME NEW k \in 0 .. l - 1 PROVE twice[half + (n + k)] = cleared[b + k] /\ cleared[b + k] # 0
        OBVIOUS
      <4>1. half + (n + k) = (half + n) + k /\ b + k \in 0 .. size - 1 /\ b + k < half
        BY <1>3, <3>1
      <4> QED
        BY <2>4, <3>1, <3>7, <4>1 DEF Ends
    <3>12. Ends(twice, half, n + l)
      <4>1. half + (n + l) \in DOMAIN twice /\ twice[half + (n + l)] = 0
        BY <3>4, <3>7, <3>8
      <4>2. ASSUME NEW k \in 0 .. (n + l) - 1 PROVE twice[half + k] # 0
        <5>1. CASE k < n
          BY <3>10, <5>1
        <5>2. CASE ~(k < n)
          <6>1. k - n \in 0 .. l - 1 /\ half + (n + (k - n)) = half + k
            BY <5>2
          <6> QED
            BY <3>11, <6>1
        <5> QED
          BY <5>1, <5>2
      <4> QED
        BY <4>1, <4>2 DEF Ends
    <3>13. n + l \in Nat /\ StringAt(twice, half) \in Seq(Bytes \ {0}) /\ Len(StringAt(twice, half)) = n + l
           /\ \A k \in 1 .. n + l : StringAt(twice, half)[k] = twice[half + k - 1]
      BY <2>2, <3>9, <3>12, StringBytes, SMTT(60)
    <3> DEFINE s == StringAt(cleared, a)
               t == StringAt(cleared, b)
               u == StringAt(twice, half)
    <3> HIDE DEF s, t, u
    <3>14. s \o t \in Seq(Bytes \ {0}) /\ Len(s \o t) = n + l
           /\ \A k \in 1 .. n + l : (s \o t)[k] = IF k <= n THEN s[k] ELSE t[k - n]
      <4>1. s \in Seq(Bytes \ {0}) /\ Len(s) = n /\ t \in Seq(Bytes \ {0}) /\ Len(t) = l
        BY <2>8, <3>3 DEF s, t
      <4> QED
        BY <4>1, JoinOf
    <3>15. ASSUME NEW k \in 1 .. n + l PROVE u[k] = (s \o t)[k]
      <4>1. u[k] = twice[half + k - 1]
        BY <3>13 DEF u
      <4>2. CASE k <= n
        <5>1. k \in 1 .. n /\ k - 1 \in 0 .. n - 1 /\ half + k - 1 = half + (k - 1) /\ a + k - 1 = a + (k - 1)
          BY <4>2
        <5> QED
          BY <2>8, <3>10, <3>14, <4>1, <4>2, <5>1 DEF s
      <4>3. CASE ~(k <= n)
        <5>1. k - n \in 1 .. l /\ k - n - 1 \in 0 .. l - 1 /\ half + k - 1 = half + (n + (k - n - 1))
              /\ b + (k - n) - 1 = b + (k - n - 1)
          BY <4>3
        <5> QED
          BY <3>3, <3>11, <3>14, <4>1, <4>3, <5>1 DEF t
      <4> QED
        BY <4>2, <4>3
    <3>16. u \in Seq(Bytes \ {0}) /\ Len(u) = n + l
      BY <3>13 DEF u
    <3>17. u = s \o t
      BY <3>14, <3>15, <3>16, SeqEqual
    <3> QED
      BY <3>17 DEF s, t, u, twice
  <2> QED
    BY <2>7, <2>9 DEF once
<1> QED
  BY <1>3, <1>7, Zenon DEF Copied, cleared

LEMMA AllStringsRight == AllStrings
<1> SUFFICES ASSUME NEW m \in Memories PROVE Blocks(m) /\ Compared(m) /\ Found(m) /\ Copied(m)
  BY DEF AllStrings
<1>1. PICK words \in Nat \ {0} : m \in MemoryOf(words * WordBytes)
  <2>1. PICK size \in Nat : size = Cardinality(DOMAIN m)
    BY MemoriesAssumption, FS_CardinalityType
  <2>2. size > 0 /\ size % WordBytes = 0 /\ m \in MemoryOf(size)
    BY <2>1, MemoriesAssumption DEF MemoryOf, Bytes
  <2>3. PICK words \in Nat : size = words * WordBytes
    <3>1. PICK w \in Nat \ {0} : w = WordBytes
      BY StringSizes
    <3>2. size \div w \in Nat /\ size = (size \div w) * w + (size % w)
      BY DivMod
    <3>3. PICK words \in Nat : words = size \div w
      BY <3>2
    <3>4. words * w \in Nat
      BY TimesNat
    <3> QED
      BY <2>2, <3>1, <3>2, <3>3, <3>4
  <2>4. words # 0
    BY <2>2, <2>3, StringSizes
  <2> QED
    BY <2>2, <2>3, <2>4
<1>2. words * WordBytes \in Nat
  BY StringSizes, TimesNat
<1>3. Blocks(m)
  BY <1>1, <1>2, BlocksRight
<1> QED
  BY <1>1, <1>3, ComparedRight, FoundRight, CopiedRight

-----------------------------------------------------------------------------
(* The numbers of the formatter, digit by digit.                           *)
Bases == {8, 10, 16}
DigitsIn(base) == {Digit[k] : k \in 1 .. base}
ValueOf(c) == (CHOOSE n \in DOMAIN Digit : Digit[n] = c) - 1

LEMMA DigitIs ==
  /\ DOMAIN Digit = 1 .. 16 /\ Digit[1] = "0"
  /\ \A i, j \in 1 .. 16 : Digit[i] = Digit[j] => i = j
BY DEF Digit

LEMMA ValueIs ==
  ASSUME NEW base \in Bases
  PROVE  /\ \A k \in 1 .. base : k \in 1 .. 16 /\ ValueOf(Digit[k]) = k - 1
         /\ \A c \in DigitsIn(base) : ValueOf(c) \in 0 .. base - 1
<1>1. base <= 16 /\ base \in Nat
  BY DEF Bases
<1>2. ASSUME NEW k \in 1 .. base PROVE k \in 1 .. 16 /\ ValueOf(Digit[k]) = k - 1
  <2>1. k \in 1 .. 16
    BY <1>1
  <2> DEFINE n == CHOOSE n \in DOMAIN Digit : Digit[n] = Digit[k]
  <2>2. n \in DOMAIN Digit /\ Digit[n] = Digit[k]
    BY <2>1, DigitIs
  <2>3. n = k
    BY <2>1, <2>2, DigitIs
  <2> QED
    BY <2>1, <2>3 DEF ValueOf
<1>3. \A c \in DigitsIn(base) : ValueOf(c) \in 0 .. base - 1
  BY <1>1, <1>2 DEF DigitsIn
<1> QED
  BY <1>2, <1>3

(* The value of the first digits of a number.                              *)
ValueRun(v, s, base) ==
  /\ v \in [0 .. Len(s) -> Nat] /\ v[0] = 0
  /\ \A k \in 1 .. Len(s) : v[k] = v[k - 1] * base + ValueOf(s[k])

LEMMA NumberIs ==
  ASSUME NEW base \in Bases, NEW s \in Seq(DigitsIn(base))
  PROVE  \E v : ValueRun(v, s, base) /\ Number(s, base) = v[Len(s)]
<1> DEFINE S == Nat
           n == Len(s)
           step == [k \in 1 .. n |-> [x \in S |-> x * base + ValueOf(s[k])]]
           run == LoopRun(n, S, 0, step)
           IsValue(g) == g = [k \in 0 .. n |-> IF k = 0 THEN 0 ELSE g[k - 1] * base + ValueOf(s[k])]
           value == CHOOSE g : IsValue(g)
<1>1. n \in Nat /\ base \in Nat /\ \A k \in 1 .. n : s[k] \in DigitsIn(base)
  BY DEF Bases
<1>2. Number(s, base) = value[n]
  <2>1. value = CHOOSE g : g = [k \in 0 .. Len(s) |-> IF k = 0 THEN 0
                                 ELSE g[k - 1] * base + (CHOOSE i \in DOMAIN Digit : Digit[i] = s[k]) - 1]
    <3>1. \A k : ValueOf(s[k]) = (CHOOSE i \in DOMAIN Digit : Digit[i] = s[k]) - 1
      BY DEF ValueOf
    <3> QED
      BY <3>1
  <2> QED
    BY <2>1 DEF Number
<1>3. \A k \in 1 .. n : ValueOf(s[k]) \in Nat
  BY <1>1, ValueIs
<1> HIDE DEF n
<1>4. \A k \in 1 .. n, x \in Nat : x * base + ValueOf(s[k]) \in Nat
  BY <1>1, <1>3, TimesNat
<1>5. step \in [1 .. n -> [Nat -> Nat]]
      /\ \A k \in 1 .. n, x \in Nat : step[k][x] = x * base + ValueOf(s[k])
  BY <1>4
<1> HIDE DEF step
<1>6. n \in Nat /\ 0 \in S
  BY <1>1
<1>7. step \in [1 .. n -> [S -> S]]
  BY <1>5
<1>8. run \in [0 .. n -> Nat] /\ run[0] = 0 /\ \A k \in 1 .. n : run[k] = step[k][run[k - 1]]
  <2> HIDE DEF S
  <2>1. run \in [0 .. n -> S] /\ run[0] = 0 /\ \A k \in 1 .. n : run[k] = step[k][run[k - 1]]
    <3>1. n \in Nat /\ 0 \in S
      BY <1>6
    <3>2. step \in [1 .. n -> [S -> S]]
      BY <1>7
    <3> QED
      BY <3>1, <3>2, RunExists, SMTT(60)
  <2> HIDE DEF run
  <2> USE DEF S
  <2> QED
    BY <2>1
<1> HIDE DEF run
<1>9. ASSUME NEW k \in 1 .. n PROVE run[k] = run[k - 1] * base + ValueOf(s[k])
  <2>1. run[k - 1] \in Nat
    BY <1>1, <1>8
  <2> QED
    BY <1>5, <1>8, <2>1
<1>10. IsValue(run)
  <2>1. \A k \in 0 .. n : run[k] = IF k = 0 THEN 0 ELSE run[k - 1] * base + ValueOf(s[k])
    BY <1>1, <1>8, <1>9
  <2>2. run = [k \in 0 .. n |-> run[k]]
    BY <1>8
  <2> QED
    BY <2>1, <2>2
<1>11. IsValue(value)
  <2> HIDE DEF IsValue
  <2> QED
    BY <1>10
<1> HIDE DEF value
<1>12. \A k \in 0 .. n : value[k] = IF k = 0 THEN 0 ELSE value[k - 1] * base + ValueOf(s[k])
  BY <1>11, Zenon
<1> DEFINE T == {k \in 0 .. n : value[k] = run[k]}
<1>13. 0 \in T /\ \A k \in 1 .. n : k - 1 \in T => k \in T
  BY <1>1, <1>8, <1>9, <1>12
<1>14. \A k \in 0 .. n : k \in T
  <2> HIDE DEF T
  <2> QED
    BY <1>1, <1>13, UpTo
<1>15. value[n] = run[n]
  BY <1>1, <1>14
<1>16. ValueRun(run, s, base)
  BY <1>8, <1>9 DEF ValueRun, n
<1> QED
  BY <1>2, <1>15, <1>16 DEF n

LEMMA NumberMore ==
  ASSUME NEW base \in Bases, NEW s \in Seq(DigitsIn(base)), NEW c \in DigitsIn(base)
  PROVE  /\ Number(<<>>, base) = 0
         /\ Number(s, base) \in Nat
         /\ Number(Append(s, c), base) = Number(s, base) * base + ValueOf(c)
<1>1. PICK v : ValueRun(v, s, base) /\ Number(s, base) = v[Len(s)]
  BY NumberIs
<1> DEFINE t == Append(s, c)
           n == Len(s)
<1>2. t \in Seq(DigitsIn(base)) /\ Len(t) = n + 1 /\ n \in Nat /\ t[n + 1] = c /\ \A k \in 1 .. n : t[k] = s[k]
  OBVIOUS
<1> HIDE DEF t, n
<1>3. PICK w : ValueRun(w, t, base) /\ Number(t, base) = w[Len(t)]
  BY <1>2, NumberIs
<1>4. /\ v[0] = 0 /\ w[0] = 0 /\ v[n] \in Nat
      /\ \A k \in 1 .. n : v[k] = v[k - 1] * base + ValueOf(s[k])
      /\ \A k \in 1 .. n + 1 : w[k] = w[k - 1] * base + ValueOf(t[k])
  BY <1>1, <1>2, <1>3 DEF ValueRun, n
<1> DEFINE T == {k \in 0 .. n : v[k] = w[k]}
<1>5. 0 \in T /\ \A k \in 1 .. n : k - 1 \in T => k \in T
  BY <1>2, <1>4
<1>6. \A k \in 0 .. n : k \in T
  <2> HIDE DEF T
  <2> QED
    BY <1>2, <1>5, UpTo
<1>7. w[n] = v[n]
  BY <1>2, <1>6
<1>8. w[n + 1] = w[n] * base + ValueOf(c)
  <2>1. n + 1 \in 1 .. n + 1 /\ (n + 1) - 1 = n
    BY <1>2
  <2>2. w[n + 1] = w[(n + 1) - 1] * base + ValueOf(t[n + 1])
    BY <1>4, <2>1, Zenon
  <2> QED
    BY <1>2, <2>1, <2>2, Zenon
<1>9. Number(<<>>, base) = 0
  <2>1. <<>> \in Seq(DigitsIn(base)) /\ Len(<<>>) = 0
    OBVIOUS
  <2>2. PICK u : ValueRun(u, <<>>, base) /\ Number(<<>>, base) = u[Len(<<>>)]
    BY <2>1, NumberIs
  <2> QED
    BY <2>1, <2>2 DEF ValueRun
<1> QED
  BY <1>1, <1>2, <1>3, <1>4, <1>7, <1>8, <1>9 DEF t, n

(* The loop of num: the digits of a number are those of what is left of it *)
(* and one more.                                                           *)
NextDigits(g, d, base) == IF d = 0 THEN <<>> ELSE Append(g[d \div base], Digit[(d % base) + 1])

LEMMA Quotient ==
  ASSUME NEW base \in Bases, NEW d \in Nat
  PROVE  /\ d % base \in 0 .. base - 1 /\ d \div base \in Nat /\ d = (d \div base) * base + (d % base)
         /\ d # 0 => d \div base < d
<1>1. base \in Nat \ {0} /\ base > 1
  BY DEF Bases
<1>2. PICK q \in Nat, r \in 0 .. base - 1 : q = d \div base /\ r = d % base /\ d = q * base + r
  BY <1>1, DivMod
<1>3. ASSUME d # 0 PROVE q < d
  <2>1. 2 * q <= base * q /\ base * q = q * base /\ q * base \in Nat
    BY <1>1, TimesMonotone, TimesNat
  <2> QED
    BY <1>1, <1>2, <1>3, <2>1
<1> QED
  BY <1>2, <1>3

LEMMA DigitsExist ==
  ASSUME NEW base \in Bases
  PROVE  \E g \in [0 .. Long -> Seq(DigitsIn(16))] : \A d \in 0 .. Long : g[d] = NextDigits(g, d, base)
<1> DEFINE D == Seq(DigitsIn(16))
           Has(n) == \E g \in [0 .. n -> D] : \A d \in 0 .. n : g[d] = NextDigits(g, d, base)
           T == {n \in 0 .. Long : Has(n)}
<1>1. Long \in Nat
  BY FormatAssumption
<1>2. base \in Nat \ {0} /\ base <= 16
  BY DEF Bases
<1>3. ASSUME NEW r \in 0 .. base - 1, NEW s \in D PROVE Append(s, Digit[r + 1]) \in D
  <2>1. Digit[r + 1] \in DigitsIn(16)
    BY <1>2, SMTT(60) DEF DigitsIn
  <2> QED
    BY <2>1
<1>4. Has(0)
  <2> DEFINE g == [d \in 0 .. 0 |-> <<>>]
  <2>1. g \in [0 .. 0 -> D] /\ g[0] = <<>>
    OBVIOUS
  <2> HIDE DEF g
  <2>2. \A d \in 0 .. 0 : g[d] = NextDigits(g, d, base)
    BY <2>1 DEF NextDigits
  <2> QED
    BY <2>1, <2>2
<1> HIDE DEF D
<1>5. ASSUME NEW n \in 1 .. Long, Has(n - 1) PROVE Has(n)
  <2>1. PICK g \in [0 .. n - 1 -> D] : \A d \in 0 .. n - 1 : g[d] = NextDigits(g, d, base)
    BY <1>5
  <2> DEFINE h == [d \in 0 .. n |-> IF d = n THEN NextDigits(g, n, base) ELSE g[d]]
  <2>2. n \in Nat /\ n # 0 /\ n \div base \in 0 .. n - 1
    <3>1. n \in Nat /\ n # 0
      BY <1>1
    <3>2. n \div base \in Nat /\ n \div base < n
      BY <3>1, Quotient, Zenon
    <3> QED
      BY <3>1, <3>2
  <2>3. NextDigits(g, n, base) \in D
    <3>1. n % base \in 0 .. base - 1
      BY <2>2, Quotient
    <3> QED
      BY <1>3, <2>2, <3>1 DEF NextDigits
  <2>4. h \in [0 .. n -> D] /\ h[n] = NextDigits(g, n, base) /\ \A d \in 0 .. n - 1 : h[d] = g[d]
    BY <2>2, <2>3
  <2> HIDE DEF h
  <2>5. ASSUME NEW d \in 0 .. n PROVE h[d] = NextDigits(h, d, base)
    <3>1. d \in Nat /\ (d # 0 => d \div base \in 0 .. n - 1)
      <4>1. d \in Nat /\ d <= n
        BY <2>2
      <4>2. d \div base \in Nat /\ (d # 0 => d \div base < d)
        BY <4>1, Quotient, Zenon
      <4> QED
        BY <2>2, <4>1, <4>2
    <3>2. NextDigits(h, d, base) = NextDigits(g, d, base)
      BY <2>4, <3>1 DEF NextDigits
    <3>3. d = n \/ d \in 0 .. n - 1
      BY <2>2
    <3> QED
      BY <2>1, <2>4, <3>2, <3>3
  <2> QED
    BY <2>4, <2>5
<1> HIDE DEF Has
<1>6. 0 \in T /\ \A n \in 1 .. Long : n - 1 \in T => n \in T
  BY <1>1, <1>4, <1>5
<1>7. \A n \in 0 .. Long : n \in T
  <2> HIDE DEF T
  <2> QED
    BY <1>1, <1>6, UpTo
<1>8. Has(Long)
  BY <1>1, <1>7
<1> QED
  BY <1>8 DEF Has, D

LEMMA DigitsOfIs ==
  ASSUME NEW base \in Bases
  PROVE  \A d \in 0 .. Long :
           DigitsOf(d, base) = IF d = 0 THEN <<>> ELSE Append(DigitsOf(d \div base, base), Digit[(d % base) + 1])
<1> DEFINE IsDigits(g) ==
             g = [d \in 0 .. Long |-> IF d = 0 THEN <<>> ELSE Append(g[d \div base], Digit[(d % base) + 1])]
           digits == CHOOSE g : IsDigits(g)
<1>1. PICK g \in [0 .. Long -> Seq(DigitsIn(16))] : \A d \in 0 .. Long : g[d] = NextDigits(g, d, base)
  BY DigitsExist
<1>2. IsDigits(g)
  <2>1. \A d \in 0 .. Long : g[d] = IF d = 0 THEN <<>> ELSE Append(g[d \div base], Digit[(d % base) + 1])
    BY <1>1 DEF NextDigits
  <2>2. g = [d \in 0 .. Long |-> g[d]]
    BY <1>1
  <2> QED
    BY <2>1, <2>2
<1>3. IsDigits(digits)
  <2> HIDE DEF IsDigits
  <2> QED
    BY <1>2
<1>4. \A n : DigitsOf(n, base) = digits[n]
  BY DEF DigitsOf
<1> HIDE DEF digits
<1>5. \A d \in 0 .. Long : digits[d] = IF d = 0 THEN <<>> ELSE Append(digits[d \div base], Digit[(d % base) + 1])
  BY <1>3, Zenon
<1> QED
  BY <1>4, <1>5, Zenon

(* They are digits of the base, without a leading 0, and their value is    *)
(* the number.                                                             *)
DigitsRight(d, base) ==
  /\ DigitsOf(d, base) \in Seq(DigitsIn(base))
  /\ Number(DigitsOf(d, base), base) = d
  /\ d = 0 => DigitsOf(d, base) = <<>>
  /\ d # 0 => Len(DigitsOf(d, base)) > 0 /\ DigitsOf(d, base)[1] # "0"

LEMMA DigitsAreRight ==
  ASSUME NEW base \in Bases
  PROVE  \A d \in 0 .. Long : DigitsRight(d, base)
<1> DEFINE Right(n) == \A d \in 0 .. n : DigitsRight(d, base)
           T == {n \in 0 .. Long : Right(n)}
<1>1. Long \in Nat /\ base \in Nat /\ base > 1 /\ base <= 16
  BY FormatAssumption DEF Bases
<1>2. DigitsRight(0, base)
  <2>1. DigitsOf(0, base) = <<>>
    BY <1>1, DigitsOfIs
  <2>2. Number(<<>>, base) = 0
    <3>1. Digit[1] \in DigitsIn(base) /\ <<>> \in Seq(DigitsIn(base))
      BY <1>1 DEF DigitsIn
    <3> QED
      BY <3>1, NumberMore
  <2> QED
    <3>1. <<>> \in Seq(DigitsIn(base))
      OBVIOUS
    <3>2. DigitsOf(0, base) \in Seq(DigitsIn(base)) /\ Number(DigitsOf(0, base), base) = 0
      BY <2>1, <2>2, <3>1, Zenon
    <3> QED
      BY <2>1, <3>2 DEF DigitsRight
<1>3. ASSUME NEW n \in 1 .. Long, Right(n - 1) PROVE DigitsRight(n, base)
  <2>1. n \in Nat /\ n # 0 /\ n \in 0 .. Long
    BY <1>1
  <2>2. PICK q \in Nat, r \in 0 .. base - 1 : q = n \div base /\ r = n % base /\ n = q * base + r /\ q < n
    BY <2>1, Quotient
  <2>3. DigitsRight(q, base)
    BY <1>3, <2>1, <2>2
  <2>4. PICK s \in Seq(DigitsIn(base)) : s = DigitsOf(q, base)
    BY <2>3 DEF DigitsRight
  <2>5. PICK c \in DigitsIn(base) : c = Digit[r + 1] /\ ValueOf(c) = r
    <3>1. r + 1 \in 1 .. base
      BY <1>1
    <3> QED
      BY <3>1, ValueIs DEF DigitsIn
  <2>6. DigitsOf(n, base) = Append(s, c)
    BY <2>1, <2>2, <2>4, <2>5, DigitsOfIs
  <2>7. Number(Append(s, c), base) = n
    <3>1. Number(Append(s, c), base) = Number(s, base) * base + ValueOf(c)
      BY NumberMore
    <3>2. Number(s, base) = q
      BY <2>3, <2>4 DEF DigitsRight
    <3> QED
      BY <2>2, <2>5, <3>1, <3>2
  <2>8. Append(s, c)[1] # "0"
    <3>1. CASE q = 0
      <4>1. s = <<>>
        BY <2>3, <2>4, <3>1 DEF DigitsRight
      <4>2. Append(s, c)[1] = c
        BY <4>1
      <4>3. r = n /\ r + 1 \in 1 .. 16 /\ r + 1 # 1
        BY <1>1, <2>1, <2>2, <3>1
      <4> QED
        BY <2>5, <4>2, <4>3, DigitIs
    <3>2. CASE q # 0
      <4>1. Len(s) > 0 /\ s[1] # "0"
        BY <2>3, <2>4, <3>2 DEF DigitsRight
      <4> QED
        BY <4>1
    <3> QED
      BY <3>1, <3>2
  <2>9. Append(s, c) \in Seq(DigitsIn(base)) /\ Len(Append(s, c)) > 0
    OBVIOUS
  <2> QED
    BY <2>1, <2>6, <2>7, <2>8, <2>9 DEF DigitsRight
<1> HIDE DEF Right
<1>4. 0 \in T
  BY <1>1, <1>2 DEF Right
<1>5. ASSUME NEW n \in 1 .. Long, n - 1 \in T PROVE n \in T
  <2>1. DigitsRight(n, base)
    BY <1>3, <1>5
  <2>2. \A d \in 0 .. n : d = n \/ d \in 0 .. n - 1
    OBVIOUS
  <2> QED
    BY <1>1, <1>5, <2>1, <2>2 DEF Right
<1>6. \A n \in 0 .. Long : n \in T
  <2> HIDE DEF T
  <2> QED
    BY <1>1, <1>4, <1>5, UpTo
<1>7. Right(Long)
  BY <1>1, <1>6
<1> QED
  BY <1>7 DEF Right

(* What num prints of a value v, and what is around it.                    *)
Characters == DigitsIn(16) \cup {"-", "+", " ", "x", "(", ")"}
StringOf(n, base) == IF n = 0 THEN <<"0">> ELSE DigitsOf(n, base)
SignFor(v, flags) ==
  IF v < 0 THEN <<"-">> ELSE IF "plus" \in flags THEN <<"+">> ELSE IF "space" \in flags THEN <<" ">> ELSE <<>>
PrefixFor(flags, base) ==
  IF "prefix" \notin flags \/ base = 10 THEN <<>> ELSE IF base = 16 THEN <<"0", "x">> ELSE <<"0">>
Magnitude(v) == IF v < 0 THEN -v ELSE v

IsNumber(digits, n, base) ==
  /\ digits \in Seq(DigitsIn(base)) /\ Len(digits) > 0
  /\ Number(digits, base) = n
  /\ Len(digits) > 1 => digits[1] # "0"

LEMMA StringRight ==
  ASSUME NEW base \in Bases, NEW n \in 0 .. Long
  PROVE  IsNumber(StringOf(n, base), n, base)
<1>1. CASE n = 0
  <2>1. base \in Nat /\ 1 \in 1 .. base
    BY DEF Bases
  <2>2. "0" \in DigitsIn(base) /\ ValueOf("0") = 0 /\ <<>> \in Seq(DigitsIn(base))
    <3>1. ValueOf(Digit[1]) = 1 - 1 /\ Digit[1] \in DigitsIn(base)
      BY <2>1, ValueIs DEF DigitsIn
    <3> QED
      BY <3>1, DigitIs
  <2>3. Append(<<>>, "0") = <<"0">>
    OBVIOUS
  <2>4. Number(Append(<<>>, "0"), base) = Number(<<>>, base) * base + ValueOf("0") /\ Number(<<>>, base) = 0
    BY <2>2, NumberMore
  <2>5. Number(<<"0">>, base) = 0
    BY <2>1, <2>2, <2>3, <2>4
  <2>6. <<"0">> \in Seq(DigitsIn(base)) /\ Len(<<"0">>) = 1
    BY <2>2
  <2> QED
    BY <1>1, <2>5, <2>6 DEF IsNumber, StringOf
<1>2. CASE n # 0
  BY <1>2, DigitsAreRight DEF IsNumber, StringOf, DigitsRight
<1> QED
  BY <1>1, <1>2

LEMMA DigitCharacters ==
  ASSUME NEW base \in Bases
  PROVE  /\ DigitsIn(base) \subseteq Characters
         /\ \A s : s \in Seq(DigitsIn(base)) => s \in Seq(Characters)
         /\ "0" \in Characters
<1>1. base <= 16 /\ base \in Nat
  BY DEF Bases
<1>2. DigitsIn(base) \subseteq Characters
  <2>1. DigitsIn(base) \subseteq DigitsIn(16)
    <3> SUFFICES ASSUME NEW k \in 1 .. base PROVE Digit[k] \in DigitsIn(16)
      BY DEF DigitsIn
    <3>1. k \in 1 .. 16
      BY <1>1
    <3> QED
      BY <3>1 DEF DigitsIn
  <2> QED
    BY <2>1 DEF Characters
<1>3. "0" \in Characters
  BY DigitIs DEF DigitsIn, Characters
<1> QED
  BY <1>2, <1>3

Repeated(n, c) ==
  /\ Repeat(n, c) \in Seq(Characters)
  /\ Len(Repeat(n, c)) = IF n > 0 THEN n ELSE 0
  /\ n <= 0 => Repeat(n, c) = <<>>

LEMMA RepeatIs == ASSUME NEW n \in Int, NEW c \in Characters PROVE Repeated(n, c)
<1> DEFINE l == IF n > 0 THEN n ELSE 0
<1>1. l \in Nat /\ Repeat(n, c) = [k \in 1 .. l |-> c]
  BY DEF Repeat
<1> HIDE DEF l
<1>2. [k \in 1 .. l |-> c] \in Seq(Characters) /\ Len([k \in 1 .. l |-> c]) = l
  BY <1>1
<1>3. l = 0 => [k \in 1 .. l |-> c] = <<>>
  OBVIOUS
<1> QED
  BY <1>1, <1>2, <1>3 DEF l, Repeated

LEMMA HeadIs ==
  ASSUME NEW v \in Int, NEW flags, NEW base \in Bases
  PROVE  /\ SignFor(v, flags) \in Seq(Characters) /\ PrefixFor(flags, base) \in Seq(Characters)
         /\ Len(SignFor(v, flags)) = IF v < 0 \/ "plus" \in flags \/ "space" \in flags THEN 1 ELSE 0
<1>1. /\ <<"-">> \in Seq(Characters) /\ <<"+">> \in Seq(Characters) /\ <<" ">> \in Seq(Characters)
      /\ <<>> \in Seq(Characters) /\ Len(<<"-">>) = 1 /\ Len(<<"+">>) = 1 /\ Len(<<" ">>) = 1 /\ Len(<<>>) = 0
  BY DEF Characters
<1>2. <<"0", "x">> \in Seq(Characters) /\ <<"0">> \in Seq(Characters)
  <2>1. "0" \in Characters /\ "x" \in Characters
    BY DigitCharacters DEF Characters
  <2> QED
    BY <2>1
<1>3. SignFor(v, flags) \in Seq(Characters)
      /\ Len(SignFor(v, flags)) = IF v < 0 \/ "plus" \in flags \/ "space" \in flags THEN 1 ELSE 0
  <2>1. CASE v < 0
    BY <1>1, <2>1, Zenon DEF SignFor
  <2>2. CASE ~(v < 0) /\ "plus" \in flags
    BY <1>1, <2>2, Zenon DEF SignFor
  <2>3. CASE ~(v < 0) /\ "plus" \notin flags /\ "space" \in flags
    BY <1>1, <2>3, Zenon DEF SignFor
  <2>4. CASE ~(v < 0) /\ "plus" \notin flags /\ "space" \notin flags
    <3>1. SignFor(v, flags) = <<>>
      BY <2>4, Zenon DEF SignFor
    <3>2. <<>> \in Seq(Characters) /\ Len(<<>>) = 0
      OBVIOUS
    <3>3. SignFor(v, flags) \in Seq(Characters) /\ Len(SignFor(v, flags)) = 0
      BY <3>1, <3>2
    <3> QED
      BY <2>4, <3>3
  <2> QED
    BY <2>1, <2>2, <2>3, <2>4, Zenon
<1>4. PrefixFor(flags, base) \in Seq(Characters)
  BY <1>1, <1>2, Zenon DEF PrefixFor
<1> QED
  BY <1>3, <1>4

(* A text of three parts, and where the second of them is.                 *)
PartsAt(out, before, digits, after, first, last) ==
  /\ first \in DOMAIN out /\ last \in first .. Len(out)
  /\ SubSeq(out, first, last) = digits
  /\ SubSeq(out, 1, first - 1) = before
  /\ SubSeq(out, last + 1, Len(out)) = after

LEMMA SubSeqIs ==
  ASSUME NEW S, NEW s \in Seq(S), NEW i \in Nat, NEW n \in Nat, i + n <= Len(s)
  PROVE  /\ SubSeq(s, i + 1, i + n) \in Seq(S) /\ Len(SubSeq(s, i + 1, i + n)) = n
         /\ \A k \in 1 .. n : SubSeq(s, i + 1, i + n)[k] = s[i + k]
<1>1. Len(s) \in Nat /\ i + 1 \in Nat /\ i + n \in Nat
  OBVIOUS
<1>2. SubSeq(s, i + 1, i + n) = [k \in 1 .. n |-> s[i + k]]
  <2>1. (i + n) - (i + 1) + 1 = n /\ \A k \in 1 .. n : (i + 1) + k - 1 = i + k
    OBVIOUS
  <2> QED
    BY <2>1
<1>3. \A k \in 1 .. n : s[i + k] \in S
  OBVIOUS
<1> QED
  BY <1>2, <1>3

InParts(out, before, digits, after) ==
  /\ PartsAt(out, before, digits, after, Len(before) + 1, Len(before) + Len(digits))
  /\ Len(out) = Len(before) + Len(digits) + Len(after)

LEMMA PartsAre ==
  ASSUME NEW S, NEW before \in Seq(S), NEW digits \in Seq(S), NEW after \in Seq(S), Len(digits) > 0,
         NEW out, out = (before \o digits) \o after
  PROVE  InParts(out, before, digits, after)
<1> DEFINE b == Len(before)
           g == Len(digits)
           a == Len(after)
<1>1. b \in Nat /\ g \in Nat /\ a \in Nat /\ g > 0
  OBVIOUS
<1>2. before \o digits \in Seq(S) /\ Len(before \o digits) = b + g
      /\ \A k \in 1 .. b + g : (before \o digits)[k] = IF k <= b THEN before[k] ELSE digits[k - b]
  BY JoinOf
<1>3. out \in Seq(S) /\ Len(out) = b + g + a
      /\ \A k \in 1 .. b + g + a : out[k] = IF k <= b + g THEN (before \o digits)[k] ELSE after[k - (b + g)]
  BY <1>2, JoinOf
<1>4. /\ \A k \in 1 .. b : out[k] = before[k]
      /\ \A k \in 1 .. g : out[b + k] = digits[k]
      /\ \A k \in 1 .. a : out[b + g + k] = after[k]
  <2>1. ASSUME NEW k \in 1 .. b PROVE out[k] = before[k]
    <3>1. k \in 1 .. b + g + a /\ k \in 1 .. b + g
      BY <1>1
    <3> QED
      BY <1>2, <1>3, <3>1
  <2>2. ASSUME NEW k \in 1 .. g PROVE out[b + k] = digits[k]
    <3>1. b + k \in 1 .. b + g + a /\ b + k \in 1 .. b + g /\ (b + k) - b = k /\ ~(b + k <= b)
      BY <1>1
    <3> QED
      BY <1>2, <1>3, <3>1
  <2>3. ASSUME NEW k \in 1 .. a PROVE out[b + g + k] = after[k]
    <3>1. b + g + k \in 1 .. b + g + a /\ (b + g + k) - (b + g) = k /\ ~(b + g + k <= b + g)
      BY <1>1
    <3> QED
      BY <1>3, <3>1
  <2> QED
    BY <2>1, <2>2, <2>3
<1>5. before \in Seq(S) /\ digits \in Seq(S) /\ after \in Seq(S) /\ Len(before) = b /\ Len(digits) = g /\ Len(after) = a
  OBVIOUS
<1> HIDE DEF b, g, a
<1>6. SubSeq(out, 1, b) = before
  <2>1. SubSeq(out, 1, b) \in Seq(S) /\ Len(SubSeq(out, 1, b)) = b /\ \A k \in 1 .. b : SubSeq(out, 1, b)[k] = out[k]
    BY <1>1, <1>3
  <2> QED
    BY <1>4, <1>5, <2>1, SeqEqual
<1>7. SubSeq(out, b + 1, b + g) = digits
  <2> DEFINE u == SubSeq(out, b + 1, b + g)
  <2>1. u \in Seq(S) /\ Len(u) = g /\ \A k \in 1 .. g : u[k] = out[b + k]
    <3>1. b + g <= Len(out)
      BY <1>1, <1>3
    <3>2. b \in Nat /\ g \in Nat /\ out \in Seq(S)
      BY <1>1, <1>3
    <3> QED
      BY <3>1, <3>2, SubSeqIs, SMTT(60)
  <2> HIDE DEF u
  <2>2. \A k \in 1 .. g : u[k] = digits[k]
    BY <1>4, <2>1
  <2>3. u = digits
    BY <1>5, <2>1, <2>2, SeqEqual
  <2> QED
    BY <2>3 DEF u
<1>8. SubSeq(out, b + g + 1, Len(out)) = after
  <2> DEFINE u == SubSeq(out, b + g + 1, b + g + a)
  <2>1. u \in Seq(S) /\ Len(u) = a /\ \A k \in 1 .. a : u[k] = out[b + g + k]
    <3>1. PICK i \in Nat : i = b + g
      BY <1>1
    <3>2. i + a <= Len(out)
      BY <1>1, <1>3, <3>1
    <3>3. SubSeq(out, i + 1, i + a) \in Seq(S) /\ Len(SubSeq(out, i + 1, i + a)) = a
          /\ \A k \in 1 .. a : SubSeq(out, i + 1, i + a)[k] = out[i + k]
      BY <1>1, <1>3, <3>2, SubSeqIs, SMTT(60)
    <3> QED
      BY <3>1, <3>3
  <2> HIDE DEF u
  <2>2. u \in Seq(S) /\ Len(u) = Len(after) /\ \A k \in 1 .. Len(u) : u[k] = after[k]
    BY <1>4, <1>5, <2>1
  <2>3. u = after
    BY <1>5, <2>2, SeqEqual
  <2> QED
    BY <1>3, <2>3 DEF u
<1>9. b + 1 \in DOMAIN out /\ b + g \in b + 1 .. Len(out) /\ (b + 1) - 1 = b
  BY <1>1, <1>3
<1>10. PartsAt(out, before, digits, after, b + 1, b + g)
  BY <1>6, <1>7, <1>8, <1>9 DEF PartsAt
<1> QED
  BY <1>3, <1>5, <1>10 DEF InParts

(* The parts of a field.                                                   *)
FieldOf(before, after, head, pad, zero, left) ==
  IF left THEN before = head /\ after = Repeat(pad, " ")
  ELSE /\ after = <<>>
       /\ before = IF zero THEN head \o Repeat(pad, "0") ELSE Repeat(pad, " ") \o head

FieldParts(out, v, d, width, left, before, digits, after, head, pad) ==
  /\ v \in Int /\ width \in Int /\ left \in BOOLEAN /\ Base(d.conv) \in Bases
  /\ before \in Seq(Characters) /\ after \in Seq(Characters) /\ head \in Seq(Characters)
  /\ IsNumber(digits, Magnitude(v), Base(d.conv))
  /\ head = SignFor(v, d.flags) \o PrefixFor(d.flags, Base(d.conv))
  /\ pad \in Nat
  /\ pad = IF width > Len(head) + Len(digits) THEN width - (Len(head) + Len(digits)) ELSE 0
  /\ FieldOf(before, after, head, pad, "zero" \in d.flags, left)
  /\ out = (before \o digits) \o after

LEMMA FieldShows ==
  ASSUME NEW out, NEW v, NEW d, NEW width, NEW left, NEW before, NEW digits, NEW after, NEW head, NEW pad,
         FieldParts(out, v, d, width, left, before, digits, after, head, pad)
  PROVE  Shows(out, v, d, width, left)
<1> DEFINE base == Base(d.conv)
           first == Len(before) + 1
           last == Len(before) + Len(digits)
<1>0. /\ v \in Int /\ width \in Int /\ left \in BOOLEAN /\ base \in Bases /\ pad \in Nat
      /\ before \in Seq(Characters) /\ after \in Seq(Characters) /\ head \in Seq(Characters)
      /\ FieldOf(before, after, head, pad, "zero" \in d.flags, left)
  BY DEF FieldParts
<1>1. digits \in Seq(DigitsIn(base)) /\ Len(digits) > 0 /\ Number(digits, base) = Magnitude(v)
      /\ (Len(digits) > 1 => digits[1] # "0")
  BY Zenon DEF IsNumber, FieldParts
<1>2. digits \in Seq(Characters)
  BY <1>0, <1>1, DigitCharacters, Zenon
<1>3. PartsAt(out, before, digits, after, first, last) /\ Len(out) = Len(before) + Len(digits) + Len(after)
  <2>1. out = (before \o digits) \o after
    BY Zenon DEF FieldParts
  <2>2. InParts(out, before, digits, after)
    BY <1>0, <1>1, <1>2, <2>1, PartsAre
  <2> QED
    BY <2>2 DEF InParts
<1>4. Len(before) + Len(after) = Len(head) + pad
  <2>1. " " \in Characters /\ "0" \in Characters
    <3>1. 16 \in Bases
      BY DEF Bases
    <3>2. "0" \in Characters
      BY <3>1, DigitCharacters
    <3> QED
      BY <3>2 DEF Characters
  <2>2. Repeated(pad, " ") /\ Repeated(pad, "0")
    <3>1. pad \in Int
      BY <1>0
    <3> QED
      BY <2>1, <3>1, RepeatIs, Zenon
  <2>20. (IF pad > 0 THEN pad ELSE 0) = pad
    BY <1>0
  <2>21. /\ Repeat(pad, " ") \in Seq(Characters) /\ Len(Repeat(pad, " ")) = pad
         /\ Repeat(pad, "0") \in Seq(Characters) /\ Len(Repeat(pad, "0")) = pad
    BY <2>2, <2>20, Zenon DEF Repeated
  <2>3. PICK spaces \in Seq(Characters) : spaces = Repeat(pad, " ") /\ Len(spaces) = pad
    BY <2>21, Zenon
  <2>4. PICK zeros \in Seq(Characters) : zeros = Repeat(pad, "0") /\ Len(zeros) = pad
    BY <2>21, Zenon
  <2>5. Len(head \o zeros) = Len(head) + pad
    BY <1>0, <2>4, JoinOf
  <2>6. Len(spaces \o head) = pad + Len(head)
    BY <1>0, <2>3, JoinOf
  <2>7. Len(head) \in Nat /\ Len(<<>>) = 0
    BY <1>0
  <2>8. CASE left
    <3>1. before = head /\ after = spaces
      BY <1>0, <2>3, <2>8 DEF FieldOf
    <3> QED
      BY <1>0, <2>3, <2>7, <3>1
  <2>9. CASE ~left /\ "zero" \in d.flags
    <3>1. before = head \o zeros /\ after = <<>>
      BY <1>0, <2>4, <2>9 DEF FieldOf
    <3> QED
      BY <1>0, <2>5, <2>7, <3>1
  <2>10. CASE ~left /\ "zero" \notin d.flags
    <3>1. before = spaces \o head /\ after = <<>>
      BY <1>0, <2>3, <2>10 DEF FieldOf
    <3> QED
      BY <1>0, <2>6, <2>7, <3>1
  <2> QED
    BY <1>0, <2>8, <2>9, <2>10
<1>5. Len(out) - Len(head) - Len(digits) = pad
  <2>1. PICK b \in Nat, a \in Nat, h \in Nat, g \in Nat :
          b = Len(before) /\ a = Len(after) /\ h = Len(head) /\ g = Len(digits)
    BY <1>0, <1>2
  <2>2. Len(out) = b + g + a /\ b + a = h + pad
    BY <1>3, <1>4, <2>1
  <2>3. (b + g + a) - h - g = pad
    BY <1>0, <2>2
  <2> QED
    BY <2>1, <2>2, <2>3, Zenon
<1>6. ToSet(digits) \subseteq {Digit[k] : k \in 1 .. base}
  <2>1. \A k \in 1 .. Len(digits) : digits[k] \in DigitsIn(base)
    BY <1>1
  <2>2. DOMAIN digits = 1 .. Len(digits)
    BY <1>1
  <2> QED
    BY <2>1, <2>2, Zenon DEF ToSet, DigitsIn
<1>7. Number(digits, base) = IF v < 0 THEN -v ELSE v
  BY <1>1 DEF Magnitude
<1> HIDE DEF first, last
<1>8. /\ first \in DOMAIN out /\ last \in first .. Len(out)
      /\ SubSeq(out, first, last) = digits
      /\ SubSeq(out, 1, first - 1) = before
      /\ SubSeq(out, last + 1, Len(out)) = after
  BY <1>3 DEF PartsAt
<1>9. head = (IF v < 0 THEN <<"-">> ELSE IF "plus" \in d.flags THEN <<"+">>
              ELSE IF "space" \in d.flags THEN <<" ">> ELSE <<>>)
             \o (IF "prefix" \notin d.flags \/ base = 10 THEN <<>>
                 ELSE IF base = 16 THEN <<"0", "x">> ELSE <<"0">>)
  <2>1. head = SignFor(v, d.flags) \o PrefixFor(d.flags, base)
    BY Zenon DEF FieldParts
  <2> QED
    BY <2>1, Zenon DEF SignFor, PrefixFor
<1> DEFINE Showing(f, l) ==
             LET text == SubSeq(out, f, l)
                 front == SubSeq(out, 1, f - 1)
                 back == SubSeq(out, l + 1, Len(out))
                 room == Len(out) - Len(head) - Len(text)
             IN /\ ToSet(text) \subseteq {Digit[k] : k \in 1 .. base}
                /\ Number(text, base) = IF v < 0 THEN -v ELSE v
                /\ Len(text) > 1 => text[1] # "0"
                /\ room = IF width > Len(head) + Len(text) THEN width - (Len(head) + Len(text)) ELSE 0
                /\ IF left THEN front = head /\ back = Repeat(room, " ")
                   ELSE /\ back = <<>>
                        /\ front = IF "zero" \in d.flags THEN head \o Repeat(room, "0")
                                   ELSE Repeat(room, " ") \o head
<1>10. Showing(first, last)
  <2>1. IF left THEN before = head /\ after = Repeat(pad, " ")
        ELSE /\ after = <<>>
             /\ before = IF "zero" \in d.flags THEN head \o Repeat(pad, "0") ELSE Repeat(pad, " ") \o head
    BY <1>0, Zenon DEF FieldOf
  <2> QED
    <3>0. pad = IF width > Len(head) + Len(digits) THEN width - (Len(head) + Len(digits)) ELSE 0
      BY Zenon DEF FieldParts
    <3> QED
      BY <3>0, <1>1, <1>5, <1>6, <1>7, <1>8, <2>1, Zenon
<1> QED
  BY <1>8, <1>9, <1>10, ZenonT(60) DEF Shows

(* The parts that num prints.                                              *)
NumString(u, base, flags) ==
  IF u = 0 THEN <<"0">>
  ELSE DigitsOf(IF u < 0 /\ "signed" \in flags THEN -u ELSE u % Long, base)
NumSign(u, flags) ==
  CASE u < 0 /\ "signed" \in flags -> <<"-">>
    [] u >= 0 /\ "space" \in flags -> <<" ">>
    [] u >= 0 /\ "plus" \in flags /\ "space" \notin flags -> <<"+">>
    [] OTHER -> <<>>
NumPrefix(base, flags) ==
  CASE "prefix" \in flags /\ base = 16 -> <<"0", "x">>
    [] "prefix" \in flags /\ base = 8 -> <<"0">>
    [] OTHER -> <<>>
Layout(str, prefix, sign, w, zero, left, prec) ==
  If(~zero /\ ~left, Repeat(w, " ")) \o sign \o prefix \o Repeat(prec, "0")
    \o If(zero, Repeat(w, "0")) \o str \o If(~zero /\ left, Repeat(w, " "))

LEMMA NumIs ==
  ASSUME NEW u, NEW base, NEW flags, NEW width, NEW prec
  PROVE  Num(u, base, flags, width, prec) =
           Layout(NumString(u, base, flags), NumPrefix(base, flags), NumSign(u, flags),
                  width - (Len(NumString(u, base, flags)) + Len(NumPrefix(base, flags)) + SignRoom(u, flags)),
                  "zero" \in flags, "left" \in flags, prec)
BY Zenon DEF Num, Layout, NumString, NumSign, NumPrefix

LEMMA JoinThree ==
  ASSUME NEW a \in Seq(Characters), NEW b \in Seq(Characters), NEW c \in Seq(Characters)
  PROVE  (a \o b) \o c = a \o (b \o c)
<1> DEFINE x == Len(a)
           y == Len(b)
           z == Len(c)
           left == (a \o b) \o c
           right == a \o (b \o c)
<1>1. x \in Nat /\ y \in Nat /\ z \in Nat
  OBVIOUS
<1>2. a \o b \in Seq(Characters) /\ Len(a \o b) = x + y
      /\ \A k \in 1 .. x + y : (a \o b)[k] = IF k <= x THEN a[k] ELSE b[k - x]
  BY JoinOf
<1>3. b \o c \in Seq(Characters) /\ Len(b \o c) = y + z
      /\ \A k \in 1 .. y + z : (b \o c)[k] = IF k <= y THEN b[k] ELSE c[k - y]
  BY JoinOf
<1>4. left \in Seq(Characters) /\ Len(left) = x + y + z
      /\ \A k \in 1 .. x + y + z : left[k] = IF k <= x + y THEN (a \o b)[k] ELSE c[k - (x + y)]
  BY <1>2, JoinOf
<1>5. right \in Seq(Characters) /\ Len(right) = x + (y + z)
      /\ \A k \in 1 .. x + (y + z) : right[k] = IF k <= x THEN a[k] ELSE (b \o c)[k - x]
  BY <1>3, JoinOf
<1> HIDE DEF x, y, z, left, right
<1>6. ASSUME NEW k \in 1 .. x + y + z PROVE left[k] = right[k]
  <2>1. CASE k <= x
    <3>1. k \in 1 .. x + y /\ k <= x + y /\ k \in 1 .. x + (y + z)
      BY <1>1, <2>1
    <3>2. left[k] = (a \o b)[k]
      BY <1>4, <3>1, Zenon
    <3>3. (a \o b)[k] = a[k]
      BY <1>2, <2>1, <3>1, Zenon
    <3>4. right[k] = a[k]
      BY <1>5, <2>1, <3>1, Zenon
    <3> QED
      BY <3>2, <3>3, <3>4, Zenon
  <2>2. CASE x < k /\ k <= x + y
    <3>1. /\ k \in 1 .. x + y /\ k - x \in 1 .. y + z /\ k - x <= y /\ ~(k <= x)
          /\ k <= x + y /\ k \in 1 .. x + (y + z)
      BY <1>1, <2>2
    <3>2. left[k] = (a \o b)[k]
      BY <1>4, <3>1, Zenon
    <3>3. (a \o b)[k] = b[k - x]
      BY <1>2, <3>1, Zenon
    <3>4. right[k] = (b \o c)[k - x]
      BY <1>5, <3>1, Zenon
    <3>5. (b \o c)[k - x] = b[k - x]
      BY <1>3, <3>1, Zenon
    <3> QED
      BY <3>2, <3>3, <3>4, <3>5, Zenon
  <2>3. CASE x + y < k
    <3>1. /\ k - x \in 1 .. y + z /\ ~(k - x <= y) /\ (k - x) - y = k - (x + y) /\ ~(k <= x) /\ ~(k <= x + y)
          /\ k \in 1 .. x + (y + z)
      BY <1>1, <2>3
    <3>2. left[k] = c[k - (x + y)]
      BY <1>4, <3>1, Zenon
    <3>3. right[k] = (b \o c)[k - x]
      BY <1>5, <3>1, Zenon
    <3>4. (b \o c)[k - x] = c[(k - x) - y]
      BY <1>3, <3>1, Zenon
    <3> QED
      BY <3>1, <3>2, <3>3, <3>4, Zenon
  <2> QED
    BY <1>1, <2>1, <2>2, <2>3
<1>7. left \in Seq(Characters) /\ right \in Seq(Characters) /\ Len(left) = Len(right) /\ \A k \in 1 .. Len(left) : left[k] = right[k]
  BY <1>1, <1>4, <1>5, <1>6
<1>8. left = right
  BY <1>7, SeqEqual
<1> QED
  BY <1>8 DEF left, right

LEMMA JoinNone == ASSUME NEW S, NEW s \in Seq(S) PROVE s \o <<>> = s /\ <<>> \o s = s
<1>1. <<>> \in Seq(S) /\ Len(<<>>) = 0
  OBVIOUS
<1>2. s \o <<>> \in Seq(S) /\ Len(s \o <<>>) = Len(s) /\ \A k \in 1 .. Len(s) : (s \o <<>>)[k] = s[k]
  BY <1>1, JoinOf
<1>3. <<>> \o s \in Seq(S) /\ Len(<<>> \o s) = Len(s) /\ \A k \in 1 .. Len(s) : (<<>> \o s)[k] = s[k]
  BY <1>1, JoinOf
<1> QED
  BY <1>2, <1>3, SeqEqual

(* They make a field.                                                      *)
Printable(str, prefix, sign, w, zero, left, prec) ==
  /\ str \in Seq(Characters) /\ prefix \in Seq(Characters) /\ sign \in Seq(Characters)
  /\ w \in Int /\ zero \in BOOLEAN /\ left \in BOOLEAN /\ ~(zero /\ left) /\ prec \in Int /\ prec <= 0
LaidOut(out, str, head, w, zero, left) ==
  \E before \in Seq(Characters), after \in Seq(Characters) :
    FieldOf(before, after, head, w, zero, left) /\ out = (before \o str) \o after

LEMMA LayoutIs ==
  ASSUME NEW str, NEW prefix, NEW sign, NEW w, NEW zero, NEW left, NEW prec,
         Printable(str, prefix, sign, w, zero, left, prec)
  PROVE  LaidOut(Layout(str, prefix, sign, w, zero, left, prec), str, sign \o prefix, w, zero, left)
<1> DEFINE head == sign \o prefix
<1>0. /\ str \in Seq(Characters) /\ prefix \in Seq(Characters) /\ sign \in Seq(Characters)
      /\ w \in Int /\ zero \in BOOLEAN /\ left \in BOOLEAN /\ ~(zero /\ left) /\ prec \in Int /\ prec <= 0
  BY DEF Printable
<1>1. <<>> \in Seq(Characters) /\ " " \in Characters /\ "0" \in Characters
  <2>1. 16 \in Bases
    BY DEF Bases
  <2>2. "0" \in Characters
    BY <2>1, DigitCharacters
  <2>3. " " \in Characters
    BY DEF Characters
  <2>4. <<>> \in Seq(Characters)
    OBVIOUS
  <2> QED
    BY <2>2, <2>3, <2>4, Zenon
<1>2. PICK spaces \in Seq(Characters) : spaces = Repeat(w, " ")
  BY <1>0, <1>1, RepeatIs, Zenon DEF Repeated
<1>3. PICK zeros \in Seq(Characters) : zeros = Repeat(w, "0")
  BY <1>0, <1>1, RepeatIs, Zenon DEF Repeated
<1>4. Repeat(prec, "0") = <<>>
  BY <1>0, <1>1, RepeatIs, Zenon DEF Repeated
<1>5. head \in Seq(Characters)
  BY <1>0, JoinOf
<1>6. Layout(str, prefix, sign, w, zero, left, prec) =
        (((((IF ~zero /\ ~left THEN spaces ELSE <<>>) \o sign) \o prefix) \o <<>>)
          \o (IF zero THEN zeros ELSE <<>>)) \o str \o (IF ~zero /\ left THEN spaces ELSE <<>>)
  BY <1>2, <1>3, <1>4, Zenon DEF Layout, If
<1>7. CASE left
  <2>1. ~zero
    BY <1>0, <1>7
  <2>2. Layout(str, prefix, sign, w, zero, left, prec) =
          (((((<<>> \o sign) \o prefix) \o <<>>) \o <<>>) \o str) \o spaces
    BY <1>6, <1>7, <2>1, Zenon
  <2>3. <<>> \o sign = sign /\ head \o <<>> = head
    BY <1>0, <1>5, JoinNone, Zenon
  <2>4. Layout(str, prefix, sign, w, zero, left, prec) = (head \o str) \o spaces
    BY <2>2, <2>3, Zenon
  <2>5. FieldOf(head, spaces, head, w, zero, left)
    BY <1>2, <1>7, Zenon DEF FieldOf
  <2> QED
    BY <1>5, <2>4, <2>5, Zenon DEF LaidOut
<1>8. CASE zero
  <2>1. ~left
    BY <1>0, <1>8
  <2>2. Layout(str, prefix, sign, w, zero, left, prec) =
          (((((<<>> \o sign) \o prefix) \o <<>>) \o zeros) \o str) \o <<>>
    BY <1>6, <1>8, <2>1, Zenon
  <2>3. <<>> \o sign = sign /\ head \o <<>> = head
    BY <1>0, <1>5, JoinNone, Zenon
  <2>4. Layout(str, prefix, sign, w, zero, left, prec) = ((head \o zeros) \o str) \o <<>>
    BY <2>2, <2>3, Zenon
  <2>5. FieldOf(head \o zeros, <<>>, head, w, zero, left)
    BY <1>3, <1>8, <2>1, Zenon DEF FieldOf
  <2>6. head \o zeros \in Seq(Characters)
    BY <1>0, <1>5, JoinOf
  <2> QED
    BY <1>1, <2>4, <2>5, <2>6, Zenon DEF LaidOut
<1>9. CASE ~left /\ ~zero
  <2>1. Layout(str, prefix, sign, w, zero, left, prec) =
          (((((spaces \o sign) \o prefix) \o <<>>) \o <<>>) \o str) \o <<>>
    BY <1>6, <1>9, Zenon
  <2>2. (spaces \o sign) \o prefix = spaces \o head
    <3>1. spaces \in Seq(Characters) /\ sign \in Seq(Characters) /\ prefix \in Seq(Characters)
      BY <1>0
    <3> QED
      BY <3>1, JoinThree, Zenon
  <2>3. spaces \o head \in Seq(Characters)
    BY <1>0, <1>5, JoinOf
  <2>4. (spaces \o head) \o <<>> = spaces \o head
    BY <1>0, <2>3, JoinNone, Zenon
  <2>5. Layout(str, prefix, sign, w, zero, left, prec) = ((spaces \o head) \o str) \o <<>>
    BY <2>1, <2>2, <2>4, Zenon
  <2>6. FieldOf(spaces \o head, <<>>, head, w, zero, left)
    BY <1>2, <1>9, Zenon DEF FieldOf
  <2> QED
    BY <1>1, <2>3, <2>5, <2>6, Zenon DEF LaidOut
<1> QED
  BY <1>0, <1>7, <1>8, <1>9, Zenon

(* u is what num is given for v.                                           *)
Printed(u, v, d, flags) ==
  /\ u \in Int /\ v \in Int /\ Magnitude(v) \in 0 .. Long /\ Base(d.conv) \in Bases
  /\ (u = 0) <=> (v = 0)
  /\ (IF u < 0 /\ "signed" \in flags THEN -u ELSE u % Long) = Magnitude(v)
  /\ NumSign(u, flags) = SignFor(v, d.flags)
  /\ SignRoom(u, flags) = Len(SignFor(v, d.flags))
  /\ ("prefix" \in flags) = ("prefix" \in d.flags)
  /\ ("zero" \in flags) = ("zero" \in d.flags)

LEMMA NumShows ==
  ASSUME NEW u, NEW v, NEW d, NEW flags, Printed(u, v, d, flags),
         NEW width \in Int, NEW asked \in Nat, asked = IF width > 0 THEN width ELSE 0,
         NEW left \in BOOLEAN, left = ("left" \in flags), ~("zero" \in d.flags /\ left),
         NEW prec \in Int, prec <= 0
  PROVE  Shows(Num(u, Base(d.conv), flags, width, prec), v, d, asked, left)
<1> DEFINE base == Base(d.conv)
           digits == StringOf(Magnitude(v), base)
           sign == SignFor(v, d.flags)
           prefix == PrefixFor(d.flags, base)
           head == sign \o prefix
           w == width - (Len(digits) + Len(prefix) + Len(sign))
           pad == IF w > 0 THEN w ELSE 0
           zero == "zero" \in d.flags
           out == Num(u, base, flags, width, prec)
<1>1. u \in Int /\ v \in Int /\ Magnitude(v) \in 0 .. Long /\ base \in Bases
  BY Zenon DEF Printed
<1>2. NumString(u, base, flags) = digits
  <2>1. (u = 0) <=> (Magnitude(v) = 0)
    <3>1. (u = 0) <=> (v = 0)
      BY Zenon DEF Printed
    <3> QED
      BY <1>1, <3>1 DEF Magnitude
  <2>2. (IF u < 0 /\ "signed" \in flags THEN -u ELSE u % Long) = Magnitude(v)
    BY Zenon DEF Printed
  <2> QED
    BY <2>1, <2>2, Zenon DEF NumString, StringOf
<1>3. NumPrefix(base, flags) = prefix
  <2>1. ("prefix" \in flags) = ("prefix" \in d.flags)
    BY Zenon DEF Printed
  <2>2. base = 8 \/ base = 10 \/ base = 16
    BY <1>1 DEF Bases
  <2>3. CASE "prefix" \notin d.flags
    BY <2>1, <2>3, Zenon DEF NumPrefix, PrefixFor
  <2>4. CASE "prefix" \in d.flags /\ base = 16
    <3>1. base # 10 /\ base # 8
      BY <2>4
    <3> QED
      BY <2>1, <2>4, <3>1, Zenon DEF NumPrefix, PrefixFor
  <2>5. CASE "prefix" \in d.flags /\ base = 8
    <3>1. base # 10 /\ base # 16
      BY <2>5
    <3> QED
      BY <2>1, <2>5, <3>1, Zenon DEF NumPrefix, PrefixFor
  <2>6. CASE base = 10
    <3>1. base # 8 /\ base # 16
      BY <2>6
    <3> QED
      BY <2>1, <2>6, <3>1, Zenon DEF NumPrefix, PrefixFor
  <2> HIDE DEF base, prefix
  <2> QED
    BY <2>2, <2>3, <2>4, <2>5, <2>6
<1>4. NumSign(u, flags) = sign /\ SignRoom(u, flags) = Len(sign) /\ ("zero" \in flags) = zero
  BY Zenon DEF Printed
<1>5. out = Layout(digits, prefix, sign, w, zero, left, prec)
  BY <1>2, <1>3, <1>4, NumIs, Zenon
<1>6. IsNumber(digits, Magnitude(v), base)
  BY <1>1, StringRight
<1>7. sign \in Seq(Characters) /\ prefix \in Seq(Characters)
  BY <1>1, HeadIs
<1>8. digits \in Seq(Characters) /\ Len(digits) > 0
  BY <1>1, <1>6, DigitCharacters, Zenon DEF IsNumber
<1>9. head \in Seq(Characters) /\ Len(head) = Len(sign) + Len(prefix)
  BY <1>7, JoinOf
<1>10. w \in Int /\ pad \in Nat /\ zero \in BOOLEAN /\ ~(zero /\ left)
  BY <1>7, <1>8
<1>11. PICK before \in Seq(Characters), after \in Seq(Characters) :
         FieldOf(before, after, head, w, zero, left) /\ out = (before \o digits) \o after
  <2> HIDE DEF digits, sign, prefix, w, zero, out
  <2>1. Printable(digits, prefix, sign, w, zero, left, prec)
    BY <1>7, <1>8, <1>10 DEF Printable
  <2>2. LaidOut(out, digits, head, w, zero, left)
    BY <1>5, <2>1, LayoutIs, Zenon
  <2> QED
    BY <2>2, Zenon DEF LaidOut
<1>12. FieldOf(before, after, head, pad, zero, left)
  <2>1. \A c : Repeat(w, c) = Repeat(pad, c)
    <3>1. (IF pad > 0 THEN pad ELSE 0) = (IF w > 0 THEN w ELSE 0)
      BY <1>10
    <3> QED
      BY <3>1, Zenon DEF Repeat
  <2>2. Repeat(w, " ") = Repeat(pad, " ") /\ Repeat(w, "0") = Repeat(pad, "0")
    BY <2>1, Zenon
  <2> HIDE DEF w, pad, head, zero
  <2> QED
    BY <1>11, <2>2, Zenon DEF FieldOf
<1>13. pad = IF asked > Len(head) + Len(digits) THEN asked - (Len(head) + Len(digits)) ELSE 0
  <2>1. PICK a \in Nat, b \in Nat, c \in Nat : a = Len(digits) /\ b = Len(prefix) /\ c = Len(sign)
    BY <1>7, <1>8
  <2>2. w = width - (a + b + c) /\ Len(head) = c + b /\ a > 0
    BY <1>8, <1>9, <2>1
  <2> HIDE DEF w, head, digits
  <2>3. (IF w > 0 THEN w ELSE 0) = IF asked > (c + b) + a THEN asked - ((c + b) + a) ELSE 0
    BY <2>2
  <2> QED
    BY <2>1, <2>2, <2>3, Zenon
<1>14. FieldParts(out, v, d, asked, left, before, digits, after, head, pad)
  <2>1. asked \in Int
    OBVIOUS
  <2> HIDE DEF digits, pad, zero
  <2> USE DEF zero
  <2> QED
    BY <1>1, <1>6, <1>9, <1>10, <1>11, <1>12, <1>13, <2>1, Zenon DEF FieldParts
<1> HIDE DEF out, digits, head, pad
<1>15. Shows(out, v, d, asked, left)
  BY <1>14, FieldShows, Zenon
<1> QED
  BY <1>15 DEF out

(* The items of the call, one after the other.                             *)
St(o, a, t) == [out |-> o, args |-> a, stored |-> t, failed |-> FALSE]

LEMMA TailIs ==
  ASSUME NEW x, NEW y, NEW z
  PROVE  /\ Head(<<x, y, z>>) = x /\ Tail(<<x, y, z>>) = <<y, z>>
         /\ Head(<<y, z>>) = y /\ Tail(<<y, z>>) = <<z>>
OBVIOUS

LEMMA PlainIs ==
  ASSUME NEW o, NEW a, NEW t, NEW c
  PROVE  Item(St(o, a, t), Plain(c)) = St(Append(o, c), a, t)
<1>1. St(o, a, t).failed = FALSE /\ St(o, a, t).out = o /\ Plain(c).conv = "plain" /\ Plain(c).char = c
  BY DEF St, Plain
<1>2. Item(St(o, a, t), Plain(c)) = [St(o, a, t) EXCEPT !.out = Append(@, Plain(c).char)]
  BY <1>1 DEF Item, Directive
<1> QED
  BY <1>1, <1>2 DEF St

LEMMA CountIs ==
  ASSUME NEW o, NEW a, NEW t
  PROVE  Item(St(o, a, t), Count) = St(o, Tail(a), Append(t, Len(o)))
<1>1. /\ St(o, a, t).failed = FALSE /\ St(o, a, t).out = o /\ St(o, a, t).args = a /\ St(o, a, t).stored = t
      /\ Count.conv = "n" /\ Count.width # Star /\ Count.prec # Star
  BY DEF St, Count, None, Star
<1>2. Item(St(o, a, t), Count) = [St(o, a, t) EXCEPT !.args = Tail(a), !.stored = Append(@, Len(St(o, a, t).out))]
  BY <1>1 DEF Item, Directive
<1> QED
  BY <1>1, <1>2 DEF St

ArgsOf(d, width, arg) == IF d.width = Star THEN <<width, arg, "pointer">> ELSE <<arg, "pointer">>
FlagsOf(d, width) == IF d.width = Star /\ width < 0 THEN d.flags \cup {"left"} ELSE d.flags
WidthOf(d, width) == IF d.width = Star THEN (IF width < 0 THEN -width ELSE width) ELSE None

LEMMA DirectiveShape ==
  ASSUME NEW d \in Directives
  PROVE  /\ d.flags \subseteq {"zero", "left", "prefix", "plus", "space"}
         /\ ~("zero" \in d.flags /\ "left" \in d.flags) /\ ~("plus" \in d.flags /\ "space" \in d.flags)
         /\ d.width = None \/ d.width = Star
         /\ d.prec = None
         /\ d.length \in {"", "h", "l"}
         /\ d.conv \in {"d", "u", "x", "o"}
BY DEF Directives

LEMMA DirectiveIs ==
  ASSUME NEW d \in Directives, NEW o, NEW t, NEW width, NEW arg
  PROVE  Item(St(o, ArgsOf(d, width, arg), t), d) =
           St(o \o Convert(d, FlagsOf(d, width), WidthOf(d, width), None, arg), <<"pointer">>, t)
<1> DEFINE a == ArgsOf(d, width, arg)
           s == St(o, a, t)
           conv == Convert(d, FlagsOf(d, width), WidthOf(d, width), None, arg)
<1>1. s.failed = FALSE /\ s.out = o /\ s.args = a /\ s.stored = t
  BY DEF St
<1>2. d.prec = None /\ None # Star /\ (d.width = None \/ d.width = Star) /\ d.conv \in {"d", "u", "x", "o"}
  <2>1. None # Star
    BY DEF None, Star
  <2> QED
    BY <2>1, DirectiveShape, Zenon
<1>3. d.conv \notin {"plain", "%", "n"} /\ d.conv \in {"s", "c", "x", "o", "u", "p", "d"}
  BY <1>2
<1>4. CASE d.width = Star
  <2>1. a = <<width, arg, "pointer">>
    BY <1>4 DEF ArgsOf
  <2>2. Head(a) = width /\ Tail(a) = <<arg, "pointer">>
    BY <2>1, TailIs
  <2>3. Head(Tail(a)) = arg /\ Tail(Tail(a)) = <<"pointer">>
    BY <2>2, TailIs
  <2> HIDE DEF a, s
  <2>4. Item(s, d) = [s EXCEPT !.out = @ \o Convert(d, IF width < 0 THEN d.flags \cup {"left"} ELSE d.flags,
                                                    IF width < 0 THEN -width ELSE width, None, Head(Tail(a))),
                                !.args = Tail(Tail(a))]
    BY <1>1, <1>2, <1>3, <1>4, <2>2, Zenon DEF Item, Directive
  <2>5. Item(s, d) = [s EXCEPT !.out = @ \o conv, !.args = <<"pointer">>]
    BY <1>4, <2>3, <2>4, Zenon DEF FlagsOf, WidthOf
  <2> HIDE DEF conv
  <2> QED
    BY <2>5 DEF s, a, conv, St
<1>5. CASE d.width # Star
  <2>1. a = <<arg, "pointer">>
    BY <1>5 DEF ArgsOf
  <2>2. Head(a) = arg /\ Tail(a) = <<"pointer">>
    BY <2>1, TailIs
  <2> HIDE DEF a, s
  <2>3. d.width = None
    BY <1>2, <1>5
  <2>4. Item(s, d) = [s EXCEPT !.out = @ \o Convert(d, d.flags, None, None, Head(a)), !.args = Tail(a)]
    BY <1>1, <1>2, <1>3, <1>5, <2>3, Zenon DEF Item, Directive
  <2>5. Item(s, d) = [s EXCEPT !.out = @ \o conv, !.args = <<"pointer">>]
    BY <1>5, <2>2, <2>4, Zenon DEF FlagsOf, WidthOf
  <2> HIDE DEF conv
  <2> QED
    BY <2>5 DEF s, a, conv, St
<1> QED
  BY <1>4, <1>5, Zenon

LEMMA FourItems ==
  ASSUME NEW fmt, Len(fmt) = 4, NEW args, NEW s1, NEW s2, NEW s3, NEW s4,
         s1 = Item(St(<<>>, args, <<>>), fmt[1]), s2 = Item(s1, fmt[2]),
         s3 = Item(s2, fmt[3]), s4 = Item(s3, fmt[4])
  PROVE  Ssprintf(fmt, args) =
           [out |-> s4.out, stored |-> s4.stored, ret |-> IF s4.failed THEN -1 ELSE Len(s4.out)]
<1> DEFINE IsAfter(g) == g = [k \in 0 .. Len(fmt) |-> IF k = 0 THEN St(<<>>, args, <<>>) ELSE Item(g[k - 1], fmt[k])]
           after == CHOOSE g : IsAfter(g)
           h == [k \in 0 .. Len(fmt) |-> IF k = 0 THEN St(<<>>, args, <<>>) ELSE IF k = 1 THEN s1
                                         ELSE IF k = 2 THEN s2 ELSE IF k = 3 THEN s3 ELSE s4]
<1>1. /\ h[0] = St(<<>>, args, <<>>) /\ h[1] = s1 /\ h[2] = s2 /\ h[3] = s3 /\ h[4] = s4
      /\ DOMAIN h = 0 .. Len(fmt)
  OBVIOUS
<1>2. \A k \in 0 .. Len(fmt) : k = 0 \/ k = 1 \/ k = 2 \/ k = 3 \/ k = 4
  OBVIOUS
<1>3. h = [k \in 0 .. Len(fmt) |-> h[k]]
  OBVIOUS
<1> HIDE DEF h
<1>4. \A k \in 0 .. Len(fmt) : h[k] = IF k = 0 THEN St(<<>>, args, <<>>) ELSE Item(h[k - 1], fmt[k])
  <2>1. 1 - 1 = 0 /\ 2 - 1 = 1 /\ 3 - 1 = 2 /\ 4 - 1 = 3
    OBVIOUS
  <2> SUFFICES ASSUME NEW k \in 0 .. Len(fmt)
               PROVE  h[k] = IF k = 0 THEN St(<<>>, args, <<>>) ELSE Item(h[k - 1], fmt[k])
    OBVIOUS
  <2> QED
    BY <1>1, <1>2, <2>1
<1>5. IsAfter(h)
  BY <1>3, <1>4
<1>6. IsAfter(after)
  <2> HIDE DEF IsAfter
  <2> QED
    BY <1>5
<1>7. Ssprintf(fmt, args) = [out |-> after[Len(fmt)].out, stored |-> after[Len(fmt)].stored,
                             ret |-> IF after[Len(fmt)].failed THEN -1 ELSE Len(after[Len(fmt)].out)]
  BY DEF Ssprintf, St
<1> HIDE DEF after
<1>8. \A k \in 0 .. Len(fmt) : after[k] = IF k = 0 THEN St(<<>>, args, <<>>) ELSE Item(after[k - 1], fmt[k])
  BY <1>6, Zenon
<1> HIDE DEF IsAfter
<1>9. after[0] = St(<<>>, args, <<>>)
  BY <1>8
<1>10. after[1] = s1
  <2>1. 1 \in 0 .. Len(fmt) /\ 1 - 1 = 0 /\ 1 # 0
    OBVIOUS
  <2> QED
    BY <1>8, <1>9, <2>1
<1>11. after[2] = s2
  <2>1. 2 \in 0 .. Len(fmt) /\ 2 - 1 = 1 /\ 2 # 0
    OBVIOUS
  <2> QED
    BY <1>8, <1>10, <2>1
<1>12. after[3] = s3
  <2>1. 3 \in 0 .. Len(fmt) /\ 3 - 1 = 2 /\ 3 # 0
    OBVIOUS
  <2> QED
    BY <1>8, <1>11, <2>1
<1>13. after[4] = s4
  <2>1. 4 \in 0 .. Len(fmt) /\ 4 - 1 = 3 /\ 4 # 0
    OBVIOUS
  <2> QED
    BY <1>8, <1>12, <2>1
<1> QED
  BY <1>7, <1>13

(* The number that a conversion hands to num.                              *)
SizeOf(d) == CASE d.length = "l" -> Long [] d.length = "h" -> Short [] OTHER -> Int32

LEMMA SizeIs ==
  ASSUME NEW d \in Directives
  PROVE  Long \in Nat /\ 2 <= Long /\ SizeOf(d) \in 1 .. Long
<1>1. /\ Short \in Nat \ {0} /\ Int32 \in Nat \ {0} /\ Long \in Nat \ {0}
      /\ Short <= Int32 /\ 2 * Int32 <= Long
  BY FormatAssumption
<1>2. SizeOf(d) = Long \/ SizeOf(d) = Short \/ SizeOf(d) = Int32
  <2>1. CASE d.length = "l"
    <3>1. d.length # "h"
      BY <2>1
    <3> QED
      BY <2>1, <3>1, Zenon DEF SizeOf
  <2>2. CASE d.length = "h"
    <3>1. d.length # "l"
      BY <2>2
    <3> QED
      BY <2>2, <3>1, Zenon DEF SizeOf
  <2>3. CASE d.length # "l" /\ d.length # "h"
    BY <2>3, Zenon DEF SizeOf
  <2> QED
    BY <2>1, <2>2, <2>3, Zenon
<1> QED
  BY <1>1, <1>2

LEMMA SignedIs ==
  ASSUME NEW size \in 1 .. Long, NEW arg \in Nat
  PROVE  /\ arg % size \in 0 .. size - 1
         /\ AsSigned(arg, size) \in Int /\ AsSigned(arg, size) < size /\ -AsSigned(arg, size) <= size
<1>1. Long \in Nat /\ size \in Nat \ {0}
  BY FormatAssumption
<1>2. PICK m \in 0 .. size - 1 : m = arg % size
  BY <1>1
<1>3. AsSigned(arg, size) = IF m >= size \div 2 THEN m - size ELSE m
  BY <1>2 DEF AsSigned
<1>4. m - size \in Int /\ m - size < size /\ -(m - size) <= size /\ m < size /\ -m <= size
  BY <1>1
<1> QED
  BY <1>1, <1>2, <1>3, <1>4

LEMMA UnsignedIs ==
  ASSUME NEW n \in 0 .. Long - 1
  PROVE  LET u == AsSigned(n, Long)
         IN u \in Int /\ ((u = 0) <=> (n = 0)) /\ u % Long = n
<1>1. Long \in Nat \ {0} /\ 2 <= Long /\ n \in Nat /\ n < Long
  BY FormatAssumption
<1>2. n % Long = n
  BY <1>1
<1>3. AsSigned(n, Long) = IF n >= Long \div 2 THEN n - Long ELSE n
  BY <1>2 DEF AsSigned
<1>4. Long \div 2 >= 1
  BY <1>1
<1>5. (n - Long) % Long = n
  BY <1>1
<1> QED
  BY <1>1, <1>2, <1>3, <1>4, <1>5

LEMMA BaseIs ==
  ASSUME NEW d \in Directives
  PROVE  Base(d.conv) \in Bases /\ (d.conv = "d" => Base(d.conv) = 10)
<1>1. Base(d.conv) = 16 \/ Base(d.conv) = 8 \/ Base(d.conv) = 10
  <2>1. CASE d.conv = "x"
    <3>1. d.conv # "o"
      BY <2>1
    <3> QED
      BY <2>1, <3>1, Zenon DEF Base
  <2>2. CASE d.conv = "o"
    <3>1. d.conv # "x"
      BY <2>2
    <3> QED
      BY <2>2, <3>1, Zenon DEF Base
  <2>3. CASE d.conv # "x" /\ d.conv # "o"
    BY <2>3, Zenon DEF Base
  <2> QED
    BY <2>1, <2>2, <2>3, Zenon
<1>2. ASSUME d.conv = "d" PROVE Base(d.conv) = 10
  <2>1. d.conv # "x" /\ d.conv # "o"
    BY <1>2
  <2> QED
    BY <2>1, Zenon DEF Base
<1> QED
  BY <1>1, <1>2 DEF Bases

LEMMA TextOf ==
  ASSUME NEW b \in Characters, NEW c \in Characters
  PROVE  <<b>> \in Seq(Characters) /\ <<b, c>> \in Seq(Characters)
OBVIOUS

LEMMA Literals ==
  /\ <<>> \in Seq(Characters) /\ <<"0">> \in Seq(Characters) /\ <<"0", "x">> \in Seq(Characters)
  /\ <<"-">> \in Seq(Characters) /\ <<" ">> \in Seq(Characters) /\ <<"+">> \in Seq(Characters)
<1>1. "0" \in Characters
  <2>1. 16 \in Bases
    BY DEF Bases
  <2> QED
    BY <2>1, DigitCharacters
<1>2. " " \in Characters /\ "x" \in Characters /\ "-" \in Characters /\ "+" \in Characters
  BY DEF Characters
<1>3. <<>> \in Seq(Characters)
  OBVIOUS
<1> QED
  BY <1>1, <1>2, <1>3, TextOf, Zenon

LEMMA NumTyped ==
  ASSUME NEW u \in Int, NEW base \in Bases, NEW flags, NEW width \in Int, NEW prec \in Int,
         (IF u < 0 /\ "signed" \in flags THEN -u ELSE u % Long) \in 0 .. Long
  PROVE  Num(u, base, flags, width, prec) \in Seq(Characters)
<1> DEFINE str == NumString(u, base, flags)
           prefix == NumPrefix(base, flags)
           sign == NumSign(u, flags)
           w == width - (Len(str) + Len(prefix) + SignRoom(u, flags))
<1>0. "0" \in Characters /\ " " \in Characters
  <2>1. 16 \in Bases
    BY DEF Bases
  <2>2. "0" \in Characters
    BY <2>1, DigitCharacters
  <2>3. " " \in Characters
    BY DEF Characters
  <2> QED
    BY <2>2, <2>3, Zenon
<1>1. str \in Seq(Characters)
  <2>1. <<"0">> \in Seq(Characters)
    BY Literals, Zenon
  <2>2. CASE u # 0
    <3> DEFINE n == IF u < 0 /\ "signed" \in flags THEN -u ELSE u % Long
    <3>1. n \in 0 .. Long
      OBVIOUS
    <3> HIDE DEF n
    <3>2. DigitsOf(n, base) \in Seq(Characters)
      <4>1. DigitsOf(n, base) \in Seq(DigitsIn(base))
        BY <3>1, DigitsAreRight DEF DigitsRight
      <4> QED
        BY <4>1, DigitCharacters, Zenon
    <3> QED
      BY <2>2, <3>2, Zenon DEF NumString, n
  <2> QED
    BY <2>1, <2>2, Zenon DEF NumString
<1>2. prefix \in Seq(Characters)
  <2>1. <<>> \in Seq(Characters) /\ <<"0", "x">> \in Seq(Characters) /\ <<"0">> \in Seq(Characters)
    BY Literals, Zenon
  <2>2. CASE "prefix" \in flags /\ base = 16
    <3>1. base # 8
      BY <2>2
    <3> QED
      BY <2>1, <2>2, <3>1, Zenon DEF NumPrefix
  <2>3. CASE "prefix" \in flags /\ base = 8
    <3>1. base # 16
      BY <2>3
    <3> QED
      BY <2>1, <2>3, <3>1, Zenon DEF NumPrefix
  <2>4. CASE ~("prefix" \in flags /\ base = 16) /\ ~("prefix" \in flags /\ base = 8)
    BY <2>1, <2>4, Zenon DEF NumPrefix
  <2> QED
    BY <2>2, <2>3, <2>4, Zenon
<1>3. sign \in Seq(Characters)
  <2>1. <<>> \in Seq(Characters) /\ <<"-">> \in Seq(Characters) /\ <<" ">> \in Seq(Characters) /\ <<"+">> \in Seq(Characters)
    BY Literals, Zenon
  <2>2. (u < 0) <=> ~(u >= 0)
    OBVIOUS
  <2>3. CASE u < 0 /\ "signed" \in flags
    BY <2>1, <2>2, <2>3, Zenon DEF NumSign
  <2>4. CASE u >= 0 /\ "space" \in flags
    BY <2>1, <2>2, <2>4, Zenon DEF NumSign
  <2>5. CASE u >= 0 /\ "plus" \in flags /\ "space" \notin flags
    BY <2>1, <2>2, <2>5, Zenon DEF NumSign
  <2>6. CASE ~(u < 0 /\ "signed" \in flags) /\ ~(u >= 0 /\ "space" \in flags)
             /\ ~(u >= 0 /\ "plus" \in flags /\ "space" \notin flags)
    BY <2>1, <2>6, Zenon DEF NumSign
  <2> QED
    BY <2>3, <2>4, <2>5, <2>6, Zenon
<1>4. w \in Int
  <2> HIDE DEF str, prefix
  <2>1. Len(str) \in Nat /\ Len(prefix) \in Nat
    BY <1>1, <1>2
  <2>2. SignRoom(u, flags) \in Int
    BY DEF SignRoom
  <2> QED
    BY <2>1, <2>2
<1>5. Num(u, base, flags, width, prec) = Layout(str, prefix, sign, w, "zero" \in flags, "left" \in flags, prec)
  BY NumIs, Zenon
<1> HIDE DEF str, prefix, sign, w
<1>6. \A condition : \A c \in Characters :
        If(condition, Repeat(w, c)) \in Seq(Characters) /\ Repeat(w, c) \in Seq(Characters)
        /\ Repeat(prec, c) \in Seq(Characters)
  BY <1>4, Literals, RepeatIs, Zenon DEF If, Repeated
<1> DEFINE Join(a, b) == a \o b
<1>7. \A a, b : a \in Seq(Characters) /\ b \in Seq(Characters) => Join(a, b) \in Seq(Characters)
  BY JoinOf
<1> DEFINE a1 == If(~("zero" \in flags) /\ ~("left" \in flags), Repeat(w, " "))
           a2 == If("zero" \in flags, Repeat(w, "0"))
           a3 == If(~("zero" \in flags) /\ "left" \in flags, Repeat(w, " "))
           zeros == Repeat(prec, "0")
<1>8. a1 \in Seq(Characters) /\ a2 \in Seq(Characters) /\ a3 \in Seq(Characters) /\ zeros \in Seq(Characters)
  BY <1>0, <1>6, Zenon
<1>9. Num(u, base, flags, width, prec) =
        Join(Join(Join(Join(Join(Join(a1, sign), prefix), zeros), a2), str), a3)
  BY <1>5, Zenon DEF Layout
<1> HIDE DEF a1, a2, a3, zeros, Join
<1>10. Join(Join(Join(Join(Join(Join(a1, sign), prefix), zeros), a2), str), a3) \in Seq(Characters)
  BY <1>1, <1>2, <1>3, <1>7, <1>8
<1> QED
  BY <1>9, <1>10, Zenon

(* A directive shows its argument.                                         *)
SignFacts(u, v, d, flags) ==
  /\ NumSign(u, flags) = SignFor(v, d.flags)
  /\ SignRoom(u, flags) = Len(SignFor(v, d.flags))

LEMMA SignedSign ==
  ASSUME NEW v \in Int, NEW d \in Directives, NEW flags,
         flags = d.flags \cup {"signed"} \/ flags = (d.flags \cup {"left"}) \cup {"signed"}
  PROVE  SignFacts(v, v, d, flags)
<1>1. /\ "signed" \in flags
      /\ ("plus" \in flags) = ("plus" \in d.flags) /\ ("space" \in flags) = ("space" \in d.flags)
  OBVIOUS
<1>2. ~("plus" \in d.flags /\ "space" \in d.flags)
  BY DirectiveShape
<1>3. v < 0 <=> ~(v >= 0)
  OBVIOUS
<1>4. NumSign(v, flags) = SignFor(v, d.flags)
  <2>1. CASE v < 0
    BY <1>1, <1>3, <2>1, Zenon DEF NumSign, SignFor
  <2>2. CASE v >= 0 /\ "space" \in d.flags
    BY <1>1, <1>2, <1>3, <2>2, Zenon DEF NumSign, SignFor
  <2>3. CASE v >= 0 /\ "space" \notin d.flags /\ "plus" \in d.flags
    BY <1>1, <1>3, <2>3, Zenon DEF NumSign, SignFor
  <2>4. CASE v >= 0 /\ "space" \notin d.flags /\ "plus" \notin d.flags
    BY <1>1, <1>3, <2>4, Zenon DEF NumSign, SignFor
  <2> QED
    BY <1>3, <2>1, <2>2, <2>3, <2>4, Zenon
<1>5. SignRoom(v, flags) = Len(SignFor(v, d.flags))
  <2>1. 10 \in Bases
    BY DEF Bases
  <2>2. Len(SignFor(v, d.flags)) = IF v < 0 \/ "plus" \in d.flags \/ "space" \in d.flags THEN 1 ELSE 0
    BY <2>1, HeadIs
  <2>3. flags \cap {"plus", "space"} # {} <=> "plus" \in d.flags \/ "space" \in d.flags
    BY <1>1, Zenon
  <2>4. SignRoom(v, flags) = IF v < 0 \/ "plus" \in d.flags \/ "space" \in d.flags THEN 1 ELSE 0
    BY <1>1, <2>3, Zenon DEF SignRoom
  <2> QED
    BY <2>2, <2>4, Zenon
<1> QED
  BY <1>4, <1>5 DEF SignFacts

LEMMA UnsignedSign ==
  ASSUME NEW u \in Int, NEW v \in Nat, NEW d \in Directives, NEW flags, d.flags \cap {"plus", "space"} = {},
         flags = d.flags \/ flags = d.flags \cup {"left"}
  PROVE  SignFacts(u, v, d, flags)
<1>1. /\ "signed" \notin flags /\ "plus" \notin flags /\ "space" \notin flags
      /\ "plus" \notin d.flags /\ "space" \notin d.flags
  <2>1. d.flags \subseteq {"zero", "left", "prefix", "plus", "space"}
    BY DirectiveShape
  <2> QED
    BY <2>1
<1>2. NumSign(u, flags) = <<>>
  BY <1>1, Zenon DEF NumSign
<1>3. ~(v < 0)
  OBVIOUS
<1>4. SignFor(v, d.flags) = <<>>
  BY <1>1, <1>3, Zenon DEF SignFor
<1>5. SignRoom(u, flags) = 0
  BY <1>1, Zenon DEF SignRoom
<1>6. Len(<<>>) = 0
  OBVIOUS
<1> QED
  BY <1>2, <1>4, <1>5, <1>6, Zenon DEF SignFacts

ArgOf(d, arg) == IF d.conv = "d" THEN AsSigned(arg, SizeOf(d)) ELSE arg % SizeOf(d)
LeftOf(d, width) == "left" \in d.flags \/ (d.width = Star /\ width < 0)
AskedOf(d, width) == IF d.width # Star THEN 0 ELSE IF width < 0 THEN -width ELSE width
Converted(d, width, arg) == Convert(d, FlagsOf(d, width), WidthOf(d, width), None, arg)

LEMMA SignedConversion ==
  ASSUME NEW d \in Directives, d.conv = "d", NEW width, NEW arg \in Nat
  PROVE  /\ Converted(d, width, arg) =
              Num(ArgOf(d, arg), Base(d.conv), FlagsOf(d, width) \cup {"signed"}, WidthOf(d, width), None)
         /\ Printed(ArgOf(d, arg), ArgOf(d, arg), d, FlagsOf(d, width) \cup {"signed"})
<1> DEFINE v == ArgOf(d, arg)
           flags == FlagsOf(d, width) \cup {"signed"}
<1>1. v = AsSigned(arg, SizeOf(d))
  BY DEF ArgOf
<1>2. Base(d.conv) = 10 /\ Base(d.conv) \in Bases
  BY BaseIs
<1>3. Converted(d, width, arg) = Num(v, Base(d.conv), flags, WidthOf(d, width), None)
  <2>1. d.conv # "s" /\ d.conv # "c" /\ d.conv \notin {"x", "o", "u"} /\ d.conv # "p"
    OBVIOUS
  <2> QED
    BY <1>1, <1>2, <2>1, Zenon DEF Converted, Convert, SizeOf
<1>4. SizeOf(d) \in 1 .. Long /\ Long \in Nat
  BY SizeIs
<1>5. v \in Int /\ v < SizeOf(d) /\ -v <= SizeOf(d)
  BY <1>1, <1>4, SignedIs
<1>6. flags = d.flags \cup {"signed"} \/ flags = (d.flags \cup {"left"}) \cup {"signed"}
  BY Zenon DEF FlagsOf
<1>7. SignFacts(v, v, d, flags)
  <2> HIDE DEF v, flags
  <2> QED
    BY <1>5, <1>6, SignedSign
<1>8. "signed" \in flags /\ ("prefix" \in flags) = ("prefix" \in d.flags) /\ ("zero" \in flags) = ("zero" \in d.flags)
  <2> HIDE DEF flags
  <2> QED
    BY <1>6
<1> HIDE DEF v, flags
<1>9. Magnitude(v) \in 0 .. Long /\ (IF v < 0 THEN -v ELSE v % Long) = Magnitude(v)
  <2>1. CASE v < 0
    BY <1>4, <1>5, <2>1 DEF Magnitude
  <2>2. CASE ~(v < 0)
    <3>1. v \in Nat /\ v < Long
      BY <1>4, <1>5, <2>2
    <3>2. v % Long = v
      BY <1>4, <3>1
    <3> QED
      BY <2>2, <3>1, <3>2, <1>4 DEF Magnitude
  <2> QED
    BY <2>1, <2>2
<1>10. Printed(v, v, d, flags)
  BY <1>2, <1>5, <1>7, <1>8, <1>9, Zenon DEF Printed, SignFacts
<1> QED
  BY <1>3, <1>10 DEF v, flags

LEMMA UnsignedConversion ==
  ASSUME NEW d \in Called, d.conv # "d", NEW width, NEW arg \in Nat
  PROVE  \E u \in Int :
           /\ Converted(d, width, arg) = Num(u, Base(d.conv), FlagsOf(d, width), WidthOf(d, width), None)
           /\ Printed(u, ArgOf(d, arg), d, FlagsOf(d, width))
<1> DEFINE v == ArgOf(d, arg)
           u == AsSigned(v, Long)
           flags == FlagsOf(d, width)
<1>1. v = arg % SizeOf(d)
  BY DEF ArgOf
<1>2. d \in Directives /\ d.flags \cap {"plus", "space"} = {}
  BY DEF Called
<1>3. Base(d.conv) \in Bases
  BY <1>2, BaseIs
<1>4. SizeOf(d) \in 1 .. Long /\ Long \in Nat
  BY <1>2, SizeIs
<1>5. v \in Nat /\ v \in 0 .. Long - 1
  <2>1. PICK size \in 1 .. Long : size = SizeOf(d)
    BY <1>4
  <2>2. arg % size \in 0 .. size - 1
    BY <2>1, SignedIs
  <2>3. v = arg % size
    BY <1>1, <2>1, Zenon
  <2> HIDE DEF v
  <2> QED
    BY <1>4, <2>1, <2>2, <2>3
<1>6. Converted(d, width, arg) = Num(u, Base(d.conv), flags, WidthOf(d, width), None)
  <2>1. d.conv \in {"d", "u", "x", "o"}
    BY <1>2, DirectiveShape, Zenon
  <2>2. d.conv # "s" /\ d.conv # "c" /\ d.conv \in {"x", "o", "u"} /\ d.conv # "p"
    BY <2>1
  <2> QED
    BY <1>1, <2>2, Zenon DEF Converted, Convert, SizeOf
<1>7. u \in Int /\ ((u = 0) <=> (v = 0)) /\ u % Long = v
  <2> HIDE DEF v
  <2> QED
    BY <1>5, UnsignedIs
<1>8. flags = d.flags \/ flags = d.flags \cup {"left"}
  BY Zenon DEF FlagsOf
<1> HIDE DEF u, v, flags
<1>9. SignFacts(u, v, d, flags)
  BY <1>2, <1>5, <1>7, <1>8, UnsignedSign
<1>10. "signed" \notin flags /\ ("prefix" \in flags) = ("prefix" \in d.flags) /\ ("zero" \in flags) = ("zero" \in d.flags)
  <2>1. d.flags \subseteq {"zero", "left", "prefix", "plus", "space"}
    BY <1>2, DirectiveShape
  <2> QED
    BY <1>8, <2>1
<1>11. Magnitude(v) \in 0 .. Long /\ u % Long = Magnitude(v) /\ v \in Int
  BY <1>4, <1>5, <1>7 DEF Magnitude
<1>12. (IF u < 0 /\ "signed" \in flags THEN -u ELSE u % Long) = Magnitude(v)
  BY <1>10, <1>11, Zenon
<1>13. Printed(u, v, d, flags)
  BY <1>3, <1>7, <1>9, <1>10, <1>11, <1>12, Zenon DEF Printed, SignFacts
<1> QED
  BY <1>6, <1>7, <1>13 DEF v, flags

LEMMA ConvertedShows ==
  ASSUME NEW d \in Called, NEW width, d.width = Star => width \in Int, NEW arg \in Nat
  PROVE  /\ Converted(d, width, arg) \in Seq(Characters)
         /\ \/ LeftOf(d, width) /\ "zero" \in d.flags
            \/ Shows(Converted(d, width, arg), ArgOf(d, arg), d, AskedOf(d, width), LeftOf(d, width))
<1> DEFINE v == ArgOf(d, arg)
           w == WidthOf(d, width)
           asked == AskedOf(d, width)
           left == LeftOf(d, width)
           conv == Converted(d, width, arg)
           Given(u, flags) == /\ conv = Num(u, Base(d.conv), flags, w, None) /\ Printed(u, v, d, flags)
                              /\ flags = FlagsOf(d, width) \/ flags = FlagsOf(d, width) \cup {"signed"}
<1>1. d \in Directives
  BY DEF Called
<1>2. \E u, flags : Given(u, flags)
  <2>1. CASE d.conv = "d"
    BY <1>1, <2>1, SignedConversion, Zenon
  <2>2. CASE d.conv # "d"
    BY <2>2, UnsignedConversion, Zenon
  <2> QED
    BY <2>1, <2>2, Zenon
<1> HIDE DEF Given
<1>3. PICK u, flags : Given(u, flags)
  BY <1>2
<1>4. conv = Num(u, Base(d.conv), flags, w, None) /\ Printed(u, v, d, flags)
  BY <1>3 DEF Given
<1>5. w \in Int /\ asked \in Nat /\ asked = IF w > 0 THEN w ELSE 0
  <2>1. CASE d.width = Star
    <3>1. width \in Int /\ w = (IF width < 0 THEN -width ELSE width) /\ asked = (IF width < 0 THEN -width ELSE width)
      BY <2>1, Zenon DEF WidthOf, AskedOf
    <3> HIDE DEF w, asked
    <3> QED
      BY <3>1
  <2>2. CASE d.width # Star
    <3>1. w = None /\ asked = 0
      BY <2>2, Zenon DEF WidthOf, AskedOf
    <3> HIDE DEF w, asked
    <3> QED
      BY <3>1 DEF None
  <2> QED
    BY <2>1, <2>2, Zenon
<1>6. left \in BOOLEAN /\ left = ("left" \in flags)
  <2>1. flags = FlagsOf(d, width) \/ flags = FlagsOf(d, width) \cup {"signed"}
    BY <1>3 DEF Given
  <2>2. ("left" \in flags) = ("left" \in FlagsOf(d, width))
    BY <2>1
  <2>3. CASE d.width = Star /\ width < 0
    <3>1. FlagsOf(d, width) = d.flags \cup {"left"}
      BY <2>3, Zenon DEF FlagsOf
    <3> QED
      BY <2>2, <2>3, <3>1 DEF LeftOf
  <2>4. CASE ~(d.width = Star /\ width < 0)
    <3>1. FlagsOf(d, width) = d.flags
      BY <2>4, Zenon DEF FlagsOf
    <3>2. left <=> "left" \in d.flags
      BY <2>4, Zenon DEF LeftOf
    <3>3. left \in BOOLEAN
      BY DEF LeftOf
    <3> HIDE DEF left
    <3> QED
      BY <2>2, <3>1, <3>2, <3>3
  <2> QED
    BY <2>3, <2>4, Zenon
<1>7. None \in Int /\ None <= 0
  BY DEF None
<1>8. conv \in Seq(Characters)
  <2>1. /\ u \in Int /\ Base(d.conv) \in Bases
        /\ (IF u < 0 /\ "signed" \in flags THEN -u ELSE u % Long) \in 0 .. Long
    BY <1>4, Zenon DEF Printed
  <2> HIDE DEF w
  <2>2. Num(u, Base(d.conv), flags, w, None) \in Seq(Characters)
    BY <1>5, <1>7, <2>1, NumTyped
  <2> QED
    BY <1>4, <2>2, Zenon
<1> HIDE DEF w, asked, left, v, conv
<1>9. CASE ~("zero" \in d.flags /\ left)
  <2>1. Shows(Num(u, Base(d.conv), flags, w, None), v, d, asked, left)
    BY <1>4, <1>5, <1>6, <1>7, <1>9, NumShows
  <2> QED
    BY <1>4, <1>8, <2>1, Zenon DEF w, asked, left, v, conv
<1> QED
  BY <1>8, <1>9, Zenon DEF left, conv

(* What is around the directive stays, and is counted.                     *)
LEMMA AroundIs ==
  ASSUME NEW c \in Seq(Characters), NEW out, out = Append(Append(<<>>, "(") \o c, ")")
  PROVE  /\ Len(out) = Len(Append(<<>>, "(") \o c) + 1
         /\ out[1] = "(" /\ out[Len(out)] = ")"
         /\ SubSeq(out, 2, Len(out) - 1) = c
<1> DEFINE n == Len(c)
           open == Append(<<>>, "(")
           o == open \o c
<1>0. n \in Nat
  OBVIOUS
<1>1. "(" \in Characters /\ ")" \in Characters
  BY DEF Characters
<1>2. open \in Seq(Characters) /\ Len(open) = 1 /\ open[1] = "("
  <2>1. ASSUME NEW x \in Characters
        PROVE  Append(<<>>, x) \in Seq(Characters) /\ Len(Append(<<>>, x)) = 1 /\ Append(<<>>, x)[1] = x
    OBVIOUS
  <2> QED
    BY <1>1, <2>1, Zenon
<1> HIDE DEF open
<1>3. /\ o \in Seq(Characters) /\ Len(o) = 1 + n
      /\ \A k \in 1 .. 1 + n : o[k] = IF k <= 1 THEN open[k] ELSE c[k - 1]
  BY <1>2, JoinOf
<1> HIDE DEF o
<1>4. ASSUME NEW x \in Characters
      PROVE  LET a == Append(o, x)
             IN /\ a \in Seq(Characters) /\ Len(a) = n + 2 /\ a[n + 2] = x
                /\ \A k \in 1 .. 1 + n : a[k] = o[k]
  BY <1>0, <1>3
<1>5. out = Append(o, ")")
  BY DEF o, open
<1>6. /\ out \in Seq(Characters) /\ Len(out) = n + 2 /\ out[n + 2] = ")"
      /\ \A k \in 1 .. 1 + n : out[k] = o[k]
  BY <1>1, <1>4, <1>5, Zenon
<1> HIDE DEF n
<1>7. out[1] = "("
  <2>1. 1 \in 1 .. 1 + n /\ 1 <= 1
    BY <1>0
  <2> QED
    BY <1>2, <1>3, <1>6, <2>1, Zenon
<1>8. SubSeq(out, 2, Len(out) - 1) = c
  <2>1. 1 + n <= Len(out) /\ 1 \in Nat /\ 1 + 1 = 2 /\ Len(out) - 1 = 1 + n
    BY <1>0, <1>6
  <2> DEFINE u == SubSeq(out, 1 + 1, 1 + n)
  <2>2. u \in Seq(Characters) /\ Len(u) = n /\ \A k \in 1 .. n : u[k] = out[1 + k]
    BY <1>0, <1>6, <2>1, SubSeqIs
  <2> HIDE DEF u
  <2>3. ASSUME NEW k \in 1 .. n PROVE u[k] = c[k]
    <3>1. 1 + k \in 1 .. 1 + n /\ ~(1 + k <= 1) /\ (1 + k) - 1 = k
      BY <1>0
    <3>2. out[1 + k] = o[1 + k]
      BY <1>6, <3>1, Zenon
    <3>3. o[1 + k] = c[(1 + k) - 1]
      BY <1>3, <3>1, Zenon
    <3> QED
      BY <2>2, <3>1, <3>2, <3>3, Zenon
  <2>4. u \in Seq(Characters) /\ c \in Seq(Characters) /\ Len(u) = Len(c) /\ \A k \in 1 .. Len(u) : u[k] = c[k]
    BY <2>2, <2>3 DEF n
  <2>5. u = c
    BY <2>4, SeqEqual
  <2> QED
    BY <2>1, <2>5, Zenon DEF u
<1>9. Len(out) = Len(o) + 1
  BY <1>0, <1>3, <1>6
<1> QED
  BY <1>6, <1>7, <1>8, <1>9 DEF o, open

LEMMA CallIsRight ==
  ASSUME NEW d \in Called, NEW width, d.width = Star => width \in Int, NEW arg \in Nat
  PROVE  CallRight(d, width, arg)
<1> DEFINE fmt == <<Plain("("), d, Count, Plain(")")>>
           args == ArgsOf(d, width, arg)
           c == Converted(d, width, arg)
           o1 == Append(<<>>, "(")
           o2 == o1 \o c
           o4 == Append(o2, ")")
           r == Ssprintf(fmt, args)
<1>1. d \in Directives
  BY DEF Called
<1>2. Len(fmt) = 4 /\ fmt[1] = Plain("(") /\ fmt[2] = d /\ fmt[3] = Count /\ fmt[4] = Plain(")")
  OBVIOUS
<1>3. Item(St(<<>>, args, <<>>), fmt[1]) = St(o1, args, <<>>)
  BY <1>2, PlainIs, Zenon
<1>4. Item(St(o1, args, <<>>), fmt[2]) = St(o2, <<"pointer">>, <<>>)
  <2>1. Item(St(o1, args, <<>>), d) = St(o1 \o Converted(d, width, arg), <<"pointer">>, <<>>)
    BY <1>1, DirectiveIs, Zenon DEF Converted
  <2> QED
    BY <1>2, <2>1, Zenon
<1>5. Item(St(o2, <<"pointer">>, <<>>), fmt[3]) = St(o2, Tail(<<"pointer">>), Append(<<>>, Len(o2)))
  BY <1>2, CountIs, Zenon
<1>6. Item(St(o2, Tail(<<"pointer">>), Append(<<>>, Len(o2))), fmt[4]) =
        St(o4, Tail(<<"pointer">>), Append(<<>>, Len(o2)))
  BY <1>2, PlainIs, Zenon
<1> DEFINE s4 == St(o4, Tail(<<"pointer">>), Append(<<>>, Len(o2)))
<1>7. r = [out |-> s4.out, stored |-> s4.stored, ret |-> IF s4.failed THEN -1 ELSE Len(s4.out)]
  <2> HIDE DEF fmt, args, o1, o2, o4
  <2> QED
    BY <1>2, <1>3, <1>4, <1>5, <1>6, FourItems
<1>8. s4.out = o4 /\ s4.stored = Append(<<>>, Len(o2)) /\ s4.failed = FALSE
  <2> HIDE DEF o4, o2
  <2> QED
    BY DEF St
<1>9. r.out = o4 /\ r.stored = Append(<<>>, Len(o2)) /\ r.ret = Len(o4)
  <2> HIDE DEF s4, o4, o2, r
  <2> QED
    BY <1>7, <1>8
<1>10. c \in Seq(Characters)
       /\ (\/ LeftOf(d, width) /\ "zero" \in d.flags
           \/ Shows(c, ArgOf(d, arg), d, AskedOf(d, width), LeftOf(d, width)))
  BY ConvertedShows, Zenon
<1>11. /\ Len(o4) = Len(o2) + 1 /\ o4[1] = "(" /\ o4[Len(o4)] = ")"
       /\ SubSeq(o4, 2, Len(o4) - 1) = c
  <2> HIDE DEF c
  <2> QED
    BY <1>10, AroundIs, Zenon
<1>12. r.stored = <<r.ret - 1>>
  <2>1. Len(o2) \in Nat
    <3>1. o1 \in Seq(Characters)
      <4>1. "(" \in Characters
        BY DEF Characters
      <4>2. \A x \in Characters : Append(<<>>, x) \in Seq(Characters)
        OBVIOUS
      <4> QED
        BY <4>1, <4>2, Zenon
    <3> HIDE DEF c, o1
    <3>2. o2 \in Seq(Characters)
      BY <1>10, <3>1, JoinOf
    <3> HIDE DEF o2
    <3> QED
      BY <3>2
  <2> HIDE DEF o2, o4, r
  <2>2. r.ret - 1 = Len(o2)
    BY <1>9, <1>11, <2>1
  <2>3. \A x : Append(<<>>, x) = <<x>>
    OBVIOUS
  <2> QED
    BY <1>9, <2>2, <2>3, Zenon
<1> HIDE DEF fmt, args, c, o1, o2, o4, s4
<1>13. /\ r.ret = Len(r.out) /\ r.stored = <<r.ret - 1>> /\ r.out[1] = "(" /\ r.out[r.ret] = ")"
       /\ SubSeq(r.out, 2, r.ret - 1) = c
  BY <1>9, <1>11, <1>12, Zenon
<1> HIDE DEF r
<1>14. \/ LeftOf(d, width) /\ "zero" \in d.flags
       \/ Shows(SubSeq(r.out, 2, r.ret - 1), ArgOf(d, arg), d, AskedOf(d, width), LeftOf(d, width))
  BY <1>10, <1>13, Zenon
<1>15. r = Ssprintf(<<Plain("("), d, Count, Plain(")")>>,
                    IF d.width = Star THEN <<width, arg, "pointer">> ELSE <<arg, "pointer">>)
  BY Zenon DEF r, fmt, args, ArgsOf
<1> QED
  BY <1>13, <1>14, <1>15, Zenon DEF CallRight, ArgOf, LeftOf, AskedOf, SizeOf

(* Every directive, with every width and argument that is tried.           *)
LEMMA AllFormatsRight == Formats
<1>1. Widths \subseteq Int /\ Args \subseteq Nat
  BY DirectivesAssumption
<1> SUFFICES ASSUME NEW d \in Called, NEW width \in IF d.width = Star THEN Widths ELSE {None}, NEW arg \in Args
             PROVE  CallRight(d, width, arg)
  BY Zenon DEF Formats
<1>2. d.width = Star => width \in Int
  BY <1>1
<1>3. arg \in Nat
  BY <1>1
<1> QED
  BY <1>2, <1>3, CallIsRight

(* The functions on memory and strings do what the C library promises, for *)
(* words of any number of bytes, memories of any length, and strings and   *)
(* blocks anywhere in them: strlen, which looks at a word at a time, finds *)
(* the first 0 whatever its word holds, a memmove whose blocks overlap     *)
(* reads no byte that it has written, and so on for the others.            *)
THEOREM StringsCorrect == Spec => []StringsRight
<1>1. StringsRight
  BY AllStringsRight DEF StringsRight
<1> QED
  BY <1>1, PTL

(* A number is printed with its own digits and no others, its sign and     *)
(* prefix before them, in a field that is as wide as was asked and padded  *)
(* on the side and with the character the flags say; the characters around *)
(* the directive stay, and the count that %n stores and the one that       *)
(* ssprintf returns are those of the characters printed, for every width,  *)
(* every argument and integers of any size.                                *)
THEOREM FormatsCorrect == Spec => []FormatsRight
<1>1. FormatsRight
  BY AllFormatsRight DEF FormatsRight
<1> QED
  BY <1>1, PTL
=============================================================================
