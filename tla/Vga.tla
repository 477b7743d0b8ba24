-------------------------------- MODULE Vga --------------------------------
(***************************************************************************)
(* The text screen of the kernel, platform/pc/vga.cc: a record with the    *)
(* cells of video memory, the variables _x and _y, and the cursor position *)
(* the board was told.  Colours are left out.                              *)
(***************************************************************************)
EXTENDS Integers

CONSTANTS
  Width,   \* VGA_WIDTH
  Height,  \* VGA_HEIGHT
  Stop,    \* columns between tab stops (8)
  Byte     \* values of a byte, of which the cursor position takes two

ASSUME VgaAssumption ==
  /\ Width \in Nat \ {0} /\ Height \in Nat \ {0}
  /\ Stop \in Nat \ {0} /\ Byte \in Nat \ {0}

Control == {"back", "tab", "return", "newline"}

(* A screen of so many rows that has been cleared.                         *)
Cleared(rows) ==
  [cell |-> [i \in 0 .. rows * Width - 1 |-> " "], x |-> 0, y |-> 0, cursor |-> 0]

(* The first half of putc: what the character does.  A backspace in column *)
(* 0 does nothing, nor do other control characters.                        *)
Type(s, c) ==
  CASE c = "back" /\ s.x > 0 -> [s EXCEPT !.x = @ - 1]
    [] c = "tab" -> [s EXCEPT !.x = ((@ + Stop) \div Stop) * Stop]
    [] c = "return" -> [s EXCEPT !.x = 0]
    [] c = "newline" -> [s EXCEPT !.x = 0, !.y = @ + 1]
    [] c \notin Control -> [s EXCEPT !.cell[s.y * Width + s.x] = c, !.x = @ + 1]
    [] OTHER -> s

(* The end of the line.                                                    *)
Wrap(s) == IF s.x >= Width THEN [s EXCEPT !.x = 0, !.y = @ + 1] ELSE s

(* scroll; the mutant leaves the last line as it was.                      *)
ScrollUncleared(s) ==
  IF s.y < Height THEN s
  ELSE [s EXCEPT !.cell = [i \in DOMAIN @ |-> IF i + Width \in DOMAIN @ THEN @[i + Width] ELSE @[i]],
                 !.y = Height - 1, !.x = 0]

Scroll(s) ==
  IF s.y < Height THEN s
  ELSE [s EXCEPT !.cell = [i \in DOMAIN @ |-> IF i + Width \in DOMAIN @ THEN @[i + Width] ELSE " "],
                 !.y = Height - 1, !.x = 0]

(* move_cursor: (uint8_t) position >> 8 converts before it shifts, so the  *)
(* high byte is always 0.                                                  *)
MoveCursor(s) ==
  LET low == (s.y * Width + s.x) % Byte
      high == low \div Byte
  IN [s EXCEPT !.cursor = high * Byte + low]

Putc(s, c) == MoveCursor(Scroll(Wrap(Type(s, c))))

(* The loader's console (loader/x86/vga.cc) never scrolls.                 *)
ConsoleEmit(s, c) == MoveCursor(Wrap(Type(s, c)))
=============================================================================
