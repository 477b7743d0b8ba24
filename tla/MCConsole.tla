----------------------------- MODULE MCConsole -----------------------------
(* Buffers of two characters and a screen of two rows of four columns.     *)
EXTENDS ConsoleProps

MCAlphabet ==
  [s \in Stream |-> CASE s = "OUT" -> {"a", "tab", "newline"}
                      [] s = "LOG" -> {"b", "newline"}
                      [] s = "ERR" -> {"c", "back", "return"}]

(* Both signs of every size, the limits among them.                        *)
MCArgs == 0 .. 63
MCWidths == {-4, 2, 5}

(* Memory of three words of two bytes of three bits; it ends with a 0.     *)
MCMemories == {[p \in 0 .. 5 |-> IF p = 5 THEN 0 ELSE m[p]] : m \in [0 .. 4 -> {0, 1, 4, 7}]}
=============================================================================
