------------------------------- MODULE GdbStub -------------------------------
(***************************************************************************)
(* arch/x86/32/i386-stub.c: the debugger stub on a serial line.  The stub  *)
(* reads the line a character at a time; what it writes never waits, so a  *)
(* packet it sends is one item of the line back.  At the other end is a    *)
(* debugger that keeps to the protocol of the file's first comment: it     *)
(* sends a request until it is acknowledged, then waits for the reply and  *)
(* acknowledges that.  The line loses or garbles at most MaxFaults         *)
(* characters.  A register is one byte here and its trace flag is bit 0.   *)
(***************************************************************************)
EXTENDS Integers, FiniteSets, FiniteSetsExt, SequencesExt, TLC

CONSTANTS
  BUFMAX,       \* the size of both buffers
  NUMREGS,      \* registers
  ESP, PC, PS,  \* three of them
  Addr,         \* addresses whose access does not fault
  Vectors,      \* exceptions the program runs into
  Pcs,          \* values of the program counter there
  Requests,     \* what the debugger may ask: [text, put, store], the last two
                \* the registers and the memory it means to change
  MaxRequests,  \* bound: requests in one session
  MaxFaults     \* bound: characters the line spoils

Register == 0 .. NUMREGS - 1

ASSUME GdbStubAssumption ==
  /\ BUFMAX \in Nat /\ BUFMAX > 4 /\ {ESP, PC, PS} \subseteq Register
  /\ Addr \subseteq Nat /\ Pcs \subseteq 0 .. 255
  /\ MaxRequests \in Nat /\ MaxFaults \in Nat

VARIABLES
  pc,            \* "program", or what the stub is waiting for
  inbuf, outbuf, \* remcomInBuffer, remcomOutBuffer
  count, checksum, xmitcsum,   \* locals of getpacket
  ptr,           \* where the command begins in inbuf
  sigval, registers, memory, remote_debug,
  to_stub,       \* characters on their way to the stub
  to_host,       \* characters and packets on their way back
  host,          \* what the debugger is doing
  request,       \* its latest request
  numbered,      \* whether it sends sequence IDs
  asked,         \* requests so far
  runs,          \* history: how often the stub carried out the latest one
  want,          \* history: registers and memory as the debugger has asked
  faults         \* characters spoilt

stub == <<inbuf, count, checksum, xmitcsum, ptr>>
state == <<sigval, registers, memory, remote_debug>>
debugger == <<host, request, numbered, asked, want, faults>>
vars == <<pc, stub, outbuf, state, to_stub, to_host, debugger, runs>>

-----------------------------------------------------------------------------
(* Characters; NUL ends a C string, "bad" is what the line garbled.        *)
hexchars == <<"0", "1", "2", "3", "4", "5", "6", "7", "8", "9",
              "a", "b", "c", "d", "e", "f">>

Place(list, ch) == CHOOSE k \in 1 .. 16 : list[k] = ch
HexValue == [ch \in ToSet(hexchars) |-> Place(hexchars, ch) - 1]

signs == <<"$", "#", "+", ",", "-", ":", "=", "?", "G", "M", "P", "g", "k", "m", "s", "bad">>
codes == <<36, 35, 43, 44, 45, 58, 61, 63, 71, 77, 80, 103, 107, 109, 115, 127>>

Ascii ==
  [ch \in DOMAIN HexValue \cup ToSet(signs) |->
     IF ch \in ToSet(signs) THEN codes[Place(signs, ch)]
     ELSE HexValue[ch] + IF HexValue[ch] < 10 THEN 48 ELSE 87]

(* hex, and the byte that two characters spell in an unsigned char.        *)
Hex(ch) == IF ch \in DOMAIN HexValue THEN HexValue[ch] ELSE -1
Byte(a, b) == (16 * Hex(a) + Hex(b)) % 256
HexOf(byte) == <<hexchars[(byte \div 16) + 1], hexchars[(byte % 16) + 1]>>

(* hexToInt: the number of digits from p on, and their value.              *)
Digits(b, p) == Min({i \in p .. BUFMAX - 1 : Hex(b[i]) < 0}) - p
Number(b, p) ==
  LET upTo[n \in 0 .. Digits(b, p)] == IF n = 0 THEN 0 ELSE 16 * upTo[n - 1] + Hex(b[p + n - 1])
  IN upTo[Digits(b, p)]

(* The C string in a buffer from p on.                                     *)
Text(b, p) ==
  LET end == Min({i \in p .. BUFMAX - 1 : b[i] = "NUL"} \cup {BUFMAX})
  IN [k \in 1 .. end - p |-> b[p + k - 1]]

(* A buffer with characters stored from its beginning.  strcpy of          *)
(* lib/libc/string.c copies strlen(src) characters and so no terminator.   *)
Stored(b, chars) == [i \in DOMAIN b |-> IF i < Len(chars) THEN chars[i + 1] ELSE b[i]]
strcpy(b, chars) == Stored(b, chars)
Terminated(b, chars) == Stored(b, Append(chars, "NUL"))

(* mem2hex of registers; mem2hex and hex2mem of memory stop at the first   *)
(* access that faults.                                                     *)
RegisterHex == FlattenSeq([k \in 1 .. NUMREGS |-> HexOf(registers[k - 1])])
Before(addr, length) == Min({k \in 0 .. length - 1 : addr + k \notin Addr} \cup {length})
MemoryHex(addr, n) == FlattenSeq([k \in 1 .. n |-> HexOf(memory[addr + k - 1])])
FromHex(b, p, k) == Byte(b[p + 2 * k], b[p + 2 * k + 1])

computeSignal(v) ==
  CASE v \in {0, 7} -> 8
    [] v \in {1, 3} -> 5
    [] v \in {4, 5} -> 16
    [] v = 6 -> 4
    [] v \in 9 .. 14 -> 11
    [] OTHER -> 7

(* What the debugger may ask: no character that frames a packet, a sequence*)
(* ID and the terminator have room in the buffer, and the ":" of M, behind *)
(* two numbers, is never where that of a sequence ID is.                   *)
Askable(text) ==
  /\ text \in Seq(DOMAIN Ascii \ {"$", "#", "bad"})
  /\ Len(text) + 5 <= BUFMAX
  /\ \A i \in 1 .. Len(text) : i <= 4 => text[i] # ":"

ASSUME RequestsAssumption == \A r \in Requests : Askable(r.text)

-----------------------------------------------------------------------------
(* The program stops before its first instruction: set_debug_traps ends    *)
(* with a breakpoint.  The buffers are static, so they are zero.           *)
Init ==
  /\ pc = "program"
  /\ inbuf = [i \in 0 .. BUFMAX - 1 |-> "NUL"] /\ outbuf = inbuf
  /\ count = 0 /\ checksum = 0 /\ xmitcsum = 0 /\ ptr = 0
  /\ sigval = 0
  /\ registers = [r \in Register |-> 0] /\ memory = [a \in Addr |-> 0]
  /\ remote_debug = TRUE
  /\ to_stub = <<>> /\ to_host = <<>>
  /\ host = "reply" /\ request = [text |-> <<>>, put |-> <<>>, store |-> <<>>]
  /\ numbered \in BOOLEAN
  /\ asked = 0 /\ runs = 0 /\ faults = 0
  /\ want = [registers |-> registers, memory |-> memory]

(* What goes out: single characters, and packets.                          *)
Char(ch) == [is |-> ch, text |-> <<>>, good |-> TRUE]
Packet(b) == [is |-> "packet", text |-> Text(b, 0), good |-> TRUE]

(* putpacket: the packet goes out, then the stub waits for a "+".  The     *)
(* mutant sends what was in the buffer before.                             *)
PutPacketBefore(b) ==
  /\ outbuf' = b
  /\ to_host' = Append(to_host, Packet(outbuf))
  /\ pc' = "ack"

PutPacket(b) ==
  /\ outbuf' = b
  /\ to_host' = Append(to_host, Packet(b))
  /\ pc' = "ack"

(* What the exception's handler finds in the registers; Addr stands for    *)
(* what the handlers of faults 11, 13 and 14 do while mem_fault_routine is *)
(* set.                                                                    *)
Saved(at) == [registers EXCEPT ![PC] = at]

(* An exception: handle_exception reports the signal and some registers.   *)
Trap(v, at) ==
  /\ pc = "program"
  /\ sigval' = computeSignal(v)
  /\ registers' = Saved(at)
  /\ want' = [want EXCEPT !.registers = registers']
  /\ LET part(r) == <<hexchars[r + 1], ":">> \o HexOf(registers'[r]) \o <<";">>
     IN PutPacket(Terminated(outbuf, <<"T">> \o HexOf(sigval') \o part(ESP) \o part(PC)))
  /\ UNCHANGED <<stub, memory, remote_debug, to_stub, host, request, numbered, asked, runs, faults>>

(* getDebugChar                                                            *)
got == Head(to_stub)

GetDebugChar ==
  /\ to_stub # <<>>
  /\ to_stub' = Tail(to_stub)
  /\ UNCHANGED <<state, debugger, runs>>

(* getpacket: anything before a "$" is ignored.                            *)
Begin == pc' = "data" /\ count' = 0 /\ checksum' = 0 /\ UNCHANGED <<inbuf, xmitcsum, ptr>>

ReadStart ==
  /\ pc = "start"
  /\ GetDebugChar
  /\ IF got = "$" THEN Begin ELSE UNCHANGED <<pc, stub>>
  /\ UNCHANGED <<outbuf, to_host>>

(* The characters of the packet; a "$" begins it again, and one that does  *)
(* not fit in the buffer is given up without an answer.                    *)
ReadData ==
  /\ pc = "data"
  /\ GetDebugChar
  /\ CASE got = "$" -> Begin
       [] got = "#" -> /\ inbuf' = [inbuf EXCEPT ![count] = "NUL"]
                      /\ pc' = "sum1"
                      /\ UNCHANGED <<count, checksum, xmitcsum, ptr>>
       [] OTHER -> /\ checksum' = (checksum + Ascii[got]) % 256
                   /\ count' = count + 1
                   /\ inbuf' = [inbuf EXCEPT ![count] = got,
                        ![count + 1] = IF count' = BUFMAX - 1 THEN "NUL" ELSE @]
                   /\ pc' = IF count' = BUFMAX - 1 THEN "start" ELSE "data"
                   /\ UNCHANGED <<xmitcsum, ptr>>
  /\ UNCHANGED <<outbuf, to_host>>

ReadSum1 ==
  /\ pc = "sum1"
  /\ GetDebugChar
  /\ xmitcsum' = (16 * Hex(got)) % 256
  /\ pc' = "sum2"
  /\ UNCHANGED <<outbuf, to_host, inbuf, count, checksum, ptr>>

(* The checksum decides between "+" and "-".  The mutant takes any packet. *)
SumRightAlways(sum) == sum >= 0
SumRight(sum) == sum = checksum

(* A ":" in the third place of the buffer means that a sequence ID comes   *)
(* before the command.                                                     *)
ReadSum2 ==
  /\ pc = "sum2"
  /\ GetDebugChar
  /\ xmitcsum' = (xmitcsum + Hex(got)) % 256
  /\ IF ~SumRight(xmitcsum')
     THEN /\ to_host' = Append(to_host, Char("-"))
          /\ pc' = "start" /\ UNCHANGED ptr
     ELSE /\ pc' = "command"
          /\ IF inbuf[2] = ":"
             THEN /\ to_host' = to_host \o <<Char("+"), Char(inbuf[0]), Char(inbuf[1])>>
                  /\ ptr' = 3
             ELSE to_host' = Append(to_host, Char("+")) /\ ptr' = 0
  /\ UNCHANGED <<outbuf, inbuf, count, checksum>>

(* Anything but a "+" makes putpacket send its packet once more; for the   *)
(* mutant any character is an acknowledgement.                             *)
ReadAckAny ==
  /\ pc = "ack"
  /\ GetDebugChar
  /\ pc' = "start"
  /\ UNCHANGED <<stub, outbuf, to_host>>

ReadAck ==
  /\ pc = "ack"
  /\ GetDebugChar
  /\ IF got = "+" THEN pc' = "start" /\ UNCHANGED to_host
                 ELSE to_host' = Append(to_host, Packet(outbuf)) /\ UNCHANGED pc
  /\ UNCHANGED <<stub, outbuf>>

-----------------------------------------------------------------------------
(* The commands of handle_exception.  arg is what follows the letter, out  *)
(* the reply's buffer with its first character cleared.                    *)
arg == ptr + 1
out == [outbuf EXCEPT ![0] = "NUL"]

Command(letters) ==
  /\ pc = "command"
  /\ inbuf[ptr] \in letters
  /\ runs' = runs + 1
  /\ UNCHANGED <<stub, sigval, to_stub, debugger>>

Query ==
  /\ Command({"?"})
  /\ PutPacket(Terminated(out, <<"S">> \o HexOf(sigval)))
  /\ UNCHANGED <<registers, memory, remote_debug>>

ToggleDebug ==
  /\ Command({"d"})
  /\ remote_debug' = ~remote_debug
  /\ PutPacket(out)
  /\ UNCHANGED <<registers, memory>>

ReadRegisters ==
  /\ Command({"g"})
  /\ PutPacket(Terminated(out, RegisterHex))
  /\ UNCHANGED <<registers, memory, remote_debug>>

WriteRegisters ==
  /\ Command({"G"})
  /\ registers' = [r \in Register |-> FromHex(inbuf, arg, r)]
  /\ PutPacket(strcpy(out, <<"O", "K">>))
  /\ UNCHANGED <<memory, remote_debug>>

(* Pn=x *)
WriteRegister ==
  /\ Command({"P"})
  /\ LET eq == arg + Digits(inbuf, arg)
         regno == Number(inbuf, arg)
     IN IF eq > arg /\ inbuf[eq] = "=" /\ regno \in Register
        THEN /\ registers' = [registers EXCEPT ![regno] = FromHex(inbuf, eq + 1, 0)]
             /\ PutPacket(strcpy(out, <<"O", "K">>))
        ELSE /\ PutPacket(strcpy(out, <<"E", "0", "1">>))
             /\ UNCHANGED registers
  /\ UNCHANGED <<memory, remote_debug>>

(* The address and the length of m and M, and the place after them.        *)
Comma == arg + Digits(inbuf, arg)
AfterLength == Comma + 1 + Digits(inbuf, Comma + 1)
TwoNumbers == Comma > arg /\ inbuf[Comma] = "," /\ AfterLength > Comma + 1
First == Number(inbuf, arg)
Length == Number(inbuf, Comma + 1)

ReadMemory ==
  /\ Command({"m"})
  /\ LET n == Before(First, Length)
     IN PutPacket(
          IF ~TwoNumbers THEN strcpy(out, <<"E", "0", "1">>)
          ELSE IF n = Length THEN Terminated(out, MemoryHex(First, n))
          ELSE strcpy(Stored(out, MemoryHex(First, n)), <<"E", "0", "3">>))
  /\ UNCHANGED <<registers, memory, remote_debug>>

(* The bytes before one that faults are written.  The mutant begins at the *)
(* colon.                                                                  *)
DataFromColon == AfterLength
DataStart == AfterLength + 1

WriteMemory ==
  /\ Command({"M"})
  /\ IF TwoNumbers /\ inbuf[AfterLength] = ":"
     THEN LET n == Before(First, Length)
          IN /\ memory' = [a \in Addr |-> IF a \in First .. First + n - 1
                                          THEN FromHex(inbuf, DataStart, a - First)
                                          ELSE memory[a]]
             /\ PutPacket(strcpy(out, IF n = Length THEN <<"O", "K">> ELSE <<"E", "0", "3">>))
     ELSE PutPacket(strcpy(out, <<"E", "0", "2">>)) /\ UNCHANGED memory
  /\ UNCHANGED <<registers, remote_debug>>

(* c and s return to the program; there is no reply before the next stop.  *)
ReturnToProg == pc' = "program" /\ UNCHANGED to_host

Resume ==
  /\ Command({"c", "s"})
  /\ LET flags == registers[PS] - (registers[PS] % 2)
     IN registers' = [registers EXCEPT
          ![PC] = IF Digits(inbuf, arg) > 0 THEN Number(inbuf, arg) % 256 ELSE @,
          ![PS] = IF inbuf[ptr] = "s" THEN flags + 1 ELSE flags]
  /\ outbuf' = [i \in DOMAIN outbuf |-> "NUL"]
  /\ ReturnToProg
  /\ UNCHANGED <<memory, remote_debug>>

(* k and what the stub does not know get an empty reply.                   *)
Other ==
  /\ Command((DOMAIN Ascii \cup {"NUL"}) \ {"?", "d", "g", "G", "P", "m", "M", "c", "s"})
  /\ PutPacket(out)
  /\ UNCHANGED <<registers, memory, remote_debug>>

Stub ==
  \/ ReadStart \/ ReadData \/ ReadSum1 \/ ReadSum2 \/ ReadAck
  \/ Query \/ ToggleDebug \/ ReadRegisters \/ WriteRegisters \/ WriteRegister
  \/ ReadMemory \/ WriteMemory \/ Resume \/ Other

-----------------------------------------------------------------------------
(* The debugger.                                                           *)
Sums(text) ==
  LET upTo[n \in 0 .. Len(text)] == IF n = 0 THEN 0 ELSE (upTo[n - 1] + Ascii[text[n]]) % 256
  IN upTo
Sum(text) == Sums(text)[Len(text)]
Frame(text) == <<"$">> \o text \o <<"#">> \o HexOf(Sum(text))
Asked(r) == Frame(IF numbered THEN <<"0", "1", ":">> \o r.text ELSE r.text)

host_only == <<pc, stub, outbuf, state, numbered>>

Ask(r) ==
  /\ host = "idle" /\ asked < MaxRequests
  /\ to_stub' = to_stub \o Asked(r)
  /\ host' = "ack" /\ request' = r /\ asked' = asked + 1 /\ runs' = 0
  /\ want' = [registers |-> r.put @@ want.registers, memory |-> r.store @@ want.memory]
  /\ UNCHANGED <<host_only, to_host, faults>>

(* What comes back: until its request is acknowledged the debugger         *)
(* acknowledges packets, which must be old ones, and ignores the rest.     *)
Sends(chars) == to_stub' = to_stub \o chars

HostRead ==
  /\ host \in {"ack", "reply"} /\ to_host # <<>>
  /\ to_host' = Tail(to_host)
  /\ LET item == Head(to_host)
     IN CASE item.is = "packet" /\ host = "ack" -> Sends(<<"+">>) /\ UNCHANGED host
          [] item.is = "packet" /\ host = "reply" ->
               IF item.good THEN Sends(<<"+">>) /\ host' = "idle"
                            ELSE Sends(<<"-">>) /\ UNCHANGED host
          [] item.is = "+" /\ host = "ack" -> host' = "reply" /\ UNCHANGED to_stub
          [] item.is = "-" /\ host = "ack" -> Sends(Asked(request)) /\ UNCHANGED host
          [] OTHER -> UNCHANGED <<host, to_stub>>
  /\ UNCHANGED <<host_only, request, asked, runs, want, faults>>

(* After a while of silence it repeats the request, or asks for the packet *)
(* again.                                                                  *)
HostTimeout ==
  /\ to_stub = <<>> /\ to_host = <<>> /\ pc \notin {"program", "command"}
  /\ \/ host = "ack" /\ Sends(Asked(request))
     \/ host = "reply" /\ Sends(<<"-">>)
  /\ UNCHANGED <<host_only, to_host, host, request, asked, runs, want, faults>>

(* The line.                                                               *)
Spoilt(item) == IF item.is = "packet" THEN [item EXCEPT !.good = FALSE] ELSE Char("bad")

Fault ==
  /\ faults < MaxFaults
  /\ faults' = faults + 1
  /\ \/ /\ to_stub # <<>> /\ UNCHANGED to_host
        /\ to_stub' \in {Tail(to_stub), <<"bad">> \o Tail(to_stub)}
     \/ /\ to_host # <<>> /\ UNCHANGED to_stub
        /\ to_host' \in {Tail(to_host), <<Spoilt(Head(to_host))>> \o Tail(to_host)}
  /\ UNCHANGED <<host_only, host, request, asked, runs, want>>

(* The program runs into its next exception; set_debug_traps has given     *)
(* each vector its handler.                                                *)
Stop == \E v \in Vectors, at \in Pcs : Trap(v, at)

Next ==
  \/ Stop
  \/ Stub
  \/ HostRead
  \/ HostTimeout
  \/ \E r \in Requests : Ask(r)
  \/ Fault

(* The stub runs with everything else stopped, the debugger reads what     *)
(* comes and does not wait for ever, and the program reaches its next stop.*)
Spec == Init /\ [][Next]_vars /\ WF_vars(HostRead \/ HostTimeout \/ Stop \/ Stub)
=============================================================================
