-------------------------------- MODULE Gdb --------------------------------
(***************************************************************************)
(* The debugger stub (application/gdb_stub): its serial line with the ring *)
(* buffer (gdb_hw.c), its packets (gdb_send, gdb_recv) and its commands    *)
(* (gdb_exception, gdb_syscall), with the part of the processor it steers. *)
(*                                                                         *)
(* A character is a record: its kind, and for one of a packet's text or    *)
(* checksum the text it belongs to.  A checksum tells every damage to a    *)
(* text.  Of the registers there are one and the two debug bits of SR, of  *)
(* memory one word, with the copy the instruction cache may hold of it.    *)
(* Packets with a sequence number (gdb.c:261-268) are left out: debuggers  *)
(* have stopped sending them.                                              *)
(***************************************************************************)
EXTENDS Naturals, Sequences

CONSTANTS
  MAX_BUF_SIZE,      \* of a packet's text, and one
  MAX_RX_BUF         \* of the ring buffer

ASSUME GdbAssumption == MAX_BUF_SIZE \in Nat \ {0} /\ MAX_RX_BUF \in Nat \ {0}

NoText == <<>>
Ch(k)        == [kind |-> k, of |-> NoText]
Body(text)   == [i \in DOMAIN text |-> [kind |-> "text", of |-> <<text[i]>>]]
High(text)   == [kind |-> "high", of |-> text]
Low(text)    == [kind |-> "low", of |-> text]
Frame(text)  == <<Ch("$")>> \o Body(text) \o <<Ch("#"), High(text), Low(text)>>
Checks(body, high, low) ==
  high.kind = "high" /\ low.kind = "low" /\ high.of = low.of /\ body = Body(high.of)

CpuType == [step : BOOLEAN, dbgen : BOOLEAN, reg : STRING, mem : STRING, icache : STRING]

-----------------------------------------------------------------------------
(* gdb_hw.c *)

\* one character into the ring, which is empty again when it is full
gdb_pollrx(ring, c) == IF Len(ring) = MAX_RX_BUF - 1 THEN <<>> ELSE Append(ring, c)
Polled(ring, chars) ==
  LET held[i \in 0..Len(chars)] == IF i = 0 THEN ring ELSE gdb_pollrx(held[i - 1], chars[i])
  IN held[Len(chars)]

gdb_flush_cache(cpu) == [cpu EXCEPT !.icache = cpu.mem]

-----------------------------------------------------------------------------
(* gdb.c.  A call maps w = [stub, cpu, out] to what it leaves; out is what *)
(* it has put on the line.                                                 *)

\* the packet goes out again for each character that is not its '+'
gdb_send(w, text, then) ==
  [w EXCEPT !.out = @ \o Frame(text), !.stub.pc = "sent", !.stub.sent = text, !.stub.then = then]
Resend(w) == [w EXCEPT !.out = @ \o Frame(w.stub.sent)]

gdb_recv(w) == [w EXCEPT !.stub.pc = "recv", !.stub.found_start = FALSE, !.stub.inbuffer = <<>>]

\* mutant: a step does not flush the caches
Return_Unflushed(w, stepping) ==
  LET flushed == IF w.stub.flush_caches /\ ~stepping THEN gdb_flush_cache(w.cpu) ELSE w.cpu
  IN [w EXCEPT !.stub.pc = "running", !.stub.flush_caches = FALSE,
               !.cpu = [flushed EXCEPT !.step = @ \/ stepping, !.dbgen = @ \/ stepping]]

\* the end of gdb_exception: the program goes on
Return(w, stepping) ==
  LET flushed == IF w.stub.flush_caches THEN gdb_flush_cache(w.cpu) ELSE w.cpu
  IN [w EXCEPT !.stub.pc = "running", !.stub.flush_caches = FALSE,
               !.cpu = [flushed EXCEPT !.step = @ \/ stepping, !.dbgen = @ \/ stepping]]

Reply(w, text) == gdb_send(w, text, "loop")

\* the command of a valid packet, or none
Command(w, text) ==
  LET is(c) == text # NoText /\ Head(text) = c
  IN CASE is("?") -> Reply(w, <<"S">>)
       [] is("g") -> Reply(w, <<w.cpu.reg>>)
       [] is("G") -> Reply([w EXCEPT !.cpu.reg = text[2], !.cpu.step = FALSE, !.cpu.dbgen = TRUE], <<"OK">>)
       [] is("p") -> Reply(w, IF text[2] = "99" THEN <<"E22">> ELSE <<w.cpu.reg>>)
       [] is("P") -> CASE text[2] = "99" -> Reply(w, <<"E22">>)
                       [] text[2] = "SR" -> Reply([w EXCEPT !.cpu.step = FALSE, !.cpu.dbgen = TRUE], <<"OK">>)
                       [] OTHER          -> Reply([w EXCEPT !.cpu.reg = text[2]], <<"OK">>)
       [] is("m") -> Reply(w, <<w.cpu.mem>>)
       [] is("M") -> Reply([w EXCEPT !.cpu.mem = text[2], !.stub.flush_caches = TRUE], <<"OK">>)
       [] is("c") -> Return(w, FALSE)
       [] is("s") -> Return(w, TRUE)
       [] OTHER   -> Reply(w, NoText)

\* a character for gdb_recv; a text that is too long, or that the checksum does
\* not fit, is no command, and nothing acknowledges or refuses it
Received(w, c) ==
  LET body == w.stub.inbuffer
  IN CASE c.kind = "$" -> [w EXCEPT !.stub.found_start = TRUE, !.stub.inbuffer = <<>>]
       [] c.kind = "#" /\ w.stub.found_start ->
            IF Len(body) + 1 < MAX_BUF_SIZE THEN [w EXCEPT !.stub.pc = "checksum", !.stub.csum_rx = <<>>]
            ELSE Command(w, NoText)
       [] c.kind \notin {"$", "#"} /\ w.stub.found_start /\ Len(body) < MAX_BUF_SIZE - 1 ->
            [w EXCEPT !.stub.inbuffer = Append(@, c)]
       [] OTHER -> w

\* mutant: a command is executed although its checksum is wrong
ChecksumReceived_Unchecked(w, c) ==
  IF w.stub.csum_rx = <<>> THEN [w EXCEPT !.stub.csum_rx = <<c>>]
  ELSE LET high == Head(w.stub.csum_rx)
           good == Checks(w.stub.inbuffer, high, c)
       IN Command(IF good THEN [w EXCEPT !.out = @ \o <<Ch("+")>>] ELSE w,
                  IF good \/ high.kind = "high" THEN high.of ELSE NoText)

\* mutant: every packet is acknowledged
ChecksumReceived_AcksAll(w, c) ==
  IF w.stub.csum_rx = <<>> THEN [w EXCEPT !.stub.csum_rx = <<c>>]
  ELSE LET high == Head(w.stub.csum_rx)
       IN Command([w EXCEPT !.out = @ \o <<Ch("+")>>],
                  IF Checks(w.stub.inbuffer, high, c) THEN high.of ELSE NoText)

ChecksumReceived(w, c) ==
  IF w.stub.csum_rx = <<>> THEN [w EXCEPT !.stub.csum_rx = <<c>>]
  ELSE LET high == Head(w.stub.csum_rx)
       IN IF Checks(w.stub.inbuffer, high, c)
          THEN Command([w EXCEPT !.out = @ \o <<Ch("+")>>], high.of)
          ELSE Command(w, NoText)

\* mutant: a character that is no '+' is ignored
Acknowledged_Waits(w, c) ==
  IF c.kind # "+" THEN w
  ELSE IF w.stub.then = "loop" THEN gdb_recv(w) ELSE [w EXCEPT !.stub.pc = "running"]

\* a character for gdb_send
Acknowledged(w, c) ==
  IF c.kind # "+" THEN Resend(w)
  ELSE IF w.stub.then = "loop" THEN gdb_recv(w) ELSE [w EXCEPT !.stub.pc = "running"]

\* what the stub does with the next character
Takes(w, c) ==
  CASE w.stub.pc = "recv"     -> Received(w, c)
    [] w.stub.pc = "checksum" -> ChecksumReceived(w, c)
    [] w.stub.pc = "sent"     -> Acknowledged(w, c)

\* the start of gdb_exception: T, but for the trap of a standard start
gdb_exception(w) ==
  LET v == [w EXCEPT !.cpu.dbgen = TRUE, !.stub.initial_trap = FALSE]
  IN IF w.stub.initial_trap THEN gdb_recv(v) ELSE gdb_send(v, <<"T">>, "loop")

\* putchar and putstr print on the debugger's console, exit tells it the end
gdb_syscall(w, n) ==
  CASE n \in {1, 2} -> gdb_send(w, <<"O">>, "run")
    [] n = 3        -> gdb_send(w, <<"W">>, "run")
=============================================================================
