----------------------------- MODULE GdbStubProps -----------------------------
(* What a debugging session owes the debugger.                             *)
EXTENDS GdbStub

(* Every variable keeps its type.                                          *)
TypeOK ==
  /\ DOMAIN inbuf = 0 .. BUFMAX - 1 /\ DOMAIN outbuf = DOMAIN inbuf
  /\ count \in 0 .. BUFMAX - 1 /\ checksum \in 0 .. 255 /\ xmitcsum \in 0 .. 255
  /\ registers \in [Register -> 0 .. 255] /\ memory \in [Addr -> 0 .. 255]
  /\ ptr \in {0, 3} /\ remote_debug \in BOOLEAN
  /\ pc \in {"program", "start", "data", "sum1", "sum2", "ack", "command"}

(* The stub only carries out what the debugger is waiting for, letter for  *)
(* letter: nothing the line has spoilt, and no late copy of an earlier     *)
(* request.                                                                *)
OnlyAsked ==
  pc = "command" => host \in {"ack", "reply"} /\ Text(inbuf, ptr) = request.text

(* A request is carried out once, and once more for each fault of the line *)
(* (a step is then two steps).                                             *)
OnceEach == runs <= 1 + faults

GdbInv == TypeOK /\ OnlyAsked /\ OnceEach

(* The packet the debugger takes for the reply is the one of its request,  *)
(* not a copy of an earlier one.                                           *)
ReplyIsCurrent ==
  [][host = "reply" /\ host' = "idle" =>
       Head(to_host).text = Text(outbuf, 0) /\ (asked > 0 => runs > 0)]_vars

(* Between requests the registers and the memory are as the debugger has   *)
(* asked since the last stop, whatever was repeated.                       *)
AsAsked ==
  host = "idle" => registers = want.registers /\ memory = want.memory

(* Every request is answered, the line having spoilt a character or not.   *)
Answered == host # "idle" ~> host = "idle"
=============================================================================
