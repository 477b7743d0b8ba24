------------------------------ MODULE Console ------------------------------
(***************************************************************************)
(* The kernel's output: the three streams of lib/libc/printk.c, buffered   *)
(* by line, on top of core/console.cc, which passes each character to the  *)
(* text screen (Vga) or the serial line.  Formatting is left out: a call   *)
(* of printf is a series of characters put one by one, and any code that   *)
(* prints, an exception handler included, may come in between.             *)
(*                                                                         *)
(* The two buffers are the rows of one array, so that a store behind the   *)
(* first lands in the second; a store behind the second lands in memory    *)
(* nobody here reads.  LOG_ENABLE is on and LOG_ALL_OUTPUT off, as in the  *)
(* default build.                                                          *)
(***************************************************************************)
EXTENDS Vga, SequencesExt

CONSTANTS
  Size,      \* characters in a buffer (512)
  Alphabet,  \* the characters each stream is given
  MaxPuts    \* bound: characters put in a run

Stream == {"OUT", "LOG", "ERR"}
Nul == "0"

(* No printf of the source prints a character 0: none uses %c.             *)
ASSUME ConsoleAssumption ==
  /\ Size \in Nat \ {0} /\ MaxPuts \in Nat /\ DOMAIN Alphabet = Stream
  /\ \A s \in Stream : Nul \notin Alphabet[s]

VARIABLES
  mem,      \* __stream_buffer_org and the two characters behind it
  at,       \* __stream_buffer: the index of the next character in its buffer
  screen,   \* the text screen
  emitted,  \* history: what went to the screen, with the stream it is from
  serial,   \* history: what went to the serial line
  sent,     \* history: what each stream was given
  kept,     \* history: the characters of OUT that found room in its buffer
  intruded  \* history: a store of OUT hit a character of LOG

vars == <<mem, at, screen, emitted, serial, sent, kept, intruded>>

Start == [s \in {"OUT", "LOG"} |-> IF s = "OUT" THEN 0 ELSE Size]

-----------------------------------------------------------------------------
Init ==
  /\ mem = [i \in 0 .. 2 * Size + 1 |-> Nul]
  /\ at = [s \in {"OUT", "LOG"} |-> 0]
  /\ screen = Cleared(Height)
  /\ emitted = <<>> /\ serial = <<>>
  /\ sent = [s \in Stream |-> <<>>] /\ kept = <<>>
  /\ intruded = FALSE

(* The characters from index i up to the terminator.                       *)
TextAt(m, i) ==
  LET n == CHOOSE k \in i .. 2 * Size + 1 :
             m[k] = Nul /\ \A j \in i .. k - 1 : m[j] # Nul
  IN [k \in 1 .. n - i |-> m[i + k - 1]]

Shorter(text, n) == SubSeq(text, 1, IF Len(text) < n THEN Len(text) ELSE n)

(* console_emit for each character.                                        *)
Emit(s, text) ==
  /\ screen' = FoldLeft(Putc, screen, text)
  /\ emitted' = emitted \o [k \in 1 .. Len(text) |-> [from |-> s, char |-> text[k]]]

(* console_log                                                             *)
Send(text) == serial' = serial \o text

(* fflush with n characters in the buffer; the mutants do not set the      *)
(* pointer back, and leave out the terminator.                             *)
NotRewound(s) == [at EXCEPT ![s] = IF @ < Size THEN @ + 1 ELSE @]
Rewound(s) == [at EXCEPT ![s] = 0]
NotTerminated(m, s, n) == m
Terminated(m, s, n) == [m EXCEPT ![Start[s] + n] = Nul]

Fflush(m, s, n) ==
  /\ mem' = Terminated(m, s, n)
  /\ at' = Rewound(s)
  /\ IF s = "OUT"
     THEN Emit("OUT", Shorter(TextAt(mem', 0), Size)) /\ UNCHANGED serial
     ELSE Send(TextAt(mem', Size)) /\ UNCHANGED <<screen, emitted>>

(* A buffer is flushed at the end of a line and when one character more    *)
(* than it has room for was stored.                                        *)
IsFlushed(c, n) == c = "newline" \/ n > Size

(* _stream_out and _stream_log, with the call of fflush.                   *)
Store(s, c) ==
  LET m == [mem EXCEPT ![Start[s] + at[s]] = c]
      n == at[s] + 1
  IN IF IsFlushed(c, n) THEN Fflush(m, s, n)
     ELSE /\ mem' = m
          /\ at' = [at EXCEPT ![s] = n]
          /\ UNCHANGED <<screen, emitted, serial>>

Within == Len(sent["OUT"]) + Len(sent["LOG"]) + Len(sent["ERR"]) < MaxPuts

(* The first character of LOG is overwritten by the last one that fits in  *)
(* OUT's buffer when its terminator follows, the second one character on.  *)
Intrudes(c) ==
  LET n == at["OUT"] + 1
  IN at["LOG"] > 0 /\ n >= Size /\ IsFlushed(c, n)

PutOut(c) ==
  /\ Within
  /\ Store("OUT", c)
  /\ sent' = [sent EXCEPT !["OUT"] = Append(@, c)]
  /\ kept' = IF at["OUT"] < Size THEN Append(kept, c) ELSE kept
  /\ intruded' = (intruded \/ Intrudes(c))

PutLog(c) ==
  /\ Within
  /\ Store("LOG", c)
  /\ sent' = [sent EXCEPT !["LOG"] = Append(@, c)]
  /\ UNCHANGED <<kept, intruded>>

(* _stream_err *)
PutErr(c) ==
  /\ Within
  /\ Emit("ERR", <<c>>)
  /\ sent' = [sent EXCEPT !["ERR"] = Append(@, c)]
  /\ UNCHANGED <<mem, at, serial, kept, intruded>>

(* fflush(STREAM_OUT) of kernel.cc, main.cc and init.cc, in mid-line.      *)
FlushOut ==
  /\ Fflush(mem, "OUT", at["OUT"])
  /\ intruded' = (intruded \/ (at["OUT"] = Size /\ at["LOG"] > 0))
  /\ UNCHANGED <<sent, kept>>

Next ==
  \/ \E c \in Alphabet["OUT"] : PutOut(c)
  \/ \E c \in Alphabet["LOG"] : PutLog(c)
  \/ \E c \in Alphabet["ERR"] : PutErr(c)
  \/ FlushOut

Spec == Init /\ [][Next]_vars
=============================================================================
