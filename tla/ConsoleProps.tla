--------------------------- MODULE ConsoleProps ---------------------------
(* What the streams and the screen owe the code that prints.               *)
EXTENDS Console, LibcProps

(* Every variable keeps its type; _x and _y are on the screen.             *)
TypeOK ==
  /\ at \in [{"OUT", "LOG"} -> 0 .. Size]
  /\ DOMAIN mem = 0 .. 2 * Size + 1
  /\ DOMAIN screen.cell = 0 .. Height * Width - 1
  /\ screen.x \in 0 .. Width - 1 /\ screen.y \in 0 .. Height - 1
  /\ intruded \in BOOLEAN

Pending(s) == [k \in 1 .. at[s] |-> mem[Start[s] + k - 1]]

Chars(list) == [k \in DOMAIN list |-> list[k].char]

(* What of the screen's text is from OUT.                                  *)
OutOnly(text, e) == IF e.from = "OUT" THEN Append(text, e.char) ELSE text
Shown == FoldLeft(OutOnly, <<>>, emitted)

(* Every character of OUT that found room in the buffer reaches the screen *)
(* once and in order, whatever the lengths of the lines, the explicit      *)
(* flushes and the other streams' traffic: only the character a full       *)
(* buffer overflows with is lost; and a finished line is on the screen     *)
(* when the call that wrote it returns.                                    *)
OutExact ==
  /\ Shown \o Pending("OUT") = kept
  /\ "newline" \notin ToSet(Pending("OUT"))

(* The log goes out completely and in order, lines longer than its buffer  *)
(* included, and a finished line at once, as long as no line of OUT        *)
(* reached the end of its buffer while a line of the log was under way.    *)
LogIntact ==
  ~intruded => /\ serial \o Pending("LOG") = sent["LOG"]
               /\ "newline" \notin ToSet(Pending("LOG"))

(* The screen shows the last rows of all the text there was: what the      *)
(* loader's console, which does not scroll, would have in the rows up to   *)
(* the one of its cursor if its screen were tall enough.                   *)
Tall == FoldLeft(ConsoleEmit, Cleared(MaxPuts + Height), Chars(emitted))

ScreenIsTail ==
  LET top == IF Tall.y < Height THEN 0 ELSE Tall.y - (Height - 1)
  IN /\ \A i \in DOMAIN screen.cell : screen.cell[i] = Tall.cell[top * Width + i]
     /\ screen.x = Tall.x /\ screen.y = Tall.y - top

ScreenInv == TypeOK /\ ScreenIsTail

(* The numbers of a printf are read back as the ones that were passed, at  *)
(* every size, base, sign, width and justification: a dump that is off by  *)
(* a sign or loses a digit misleads whoever debugs with it.  Widths take   *)
(* their own argument and the counts include every character.              *)
FormatsRight == sent = [s \in Stream |-> <<>>] => Formats

(* The functions on memory and strings that the kernel, the loader and the *)
(* streams rely on do what the C library promises, wherever in a word a    *)
(* string starts and ends and however two blocks overlap; strcpy and       *)
(* strcat when the memory they copy to is cleared, since they copy no      *)
(* terminator, and strstr for all but the empty string.                    *)
StringsRight == sent = [s \in Stream |-> <<>>] => AllStrings
=============================================================================
