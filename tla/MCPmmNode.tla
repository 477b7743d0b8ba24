------------------------------ MODULE MCPmmNode ------------------------------
(* The two arenas platform.cc declares, in small: kmap starts at frame 0   *)
(* and gets any bitmap; arena begins where it ends and has none.  In       *)
(* states before arena is added kmap is the only one, as in meminit().     *)
EXTENDS PmmNodeProps

CONSTANTS kmap, arena   \* the arenas of platform/pc/platform.cc

MCSize == [a \in Arena |-> IF a = kmap THEN 3 ELSE 2]
MCBase == [a \in Arena |-> IF a = kmap THEN 0 ELSE 3]
MCPriority == [a \in Arena |-> IF a = kmap THEN 2 ELSE 1]
MCBitmaps == [a \in Arena |-> IF a = kmap THEN SUBSET (0 .. Size[a] - 1) ELSE {{}}]
=============================================================================
