----------------------------- MODULE GdbSession -----------------------------
(***************************************************************************)
(* The debugger stub in a session with a debugger, over a serial line that *)
(* may lose or damage characters.                                          *)
(*                                                                         *)
(* The debugger (external) is GDB's remote target: it sends a command      *)
(* until it is acknowledged, takes a packet that comes instead of the '+'  *)
(* off the line and acknowledges it, then waits for the answer, refusing a *)
(* damaged one with '-'.  It waits without limit for the program to stop;  *)
(* its user may then interrupt.                                            *)
(***************************************************************************)
EXTENDS Gdb, FiniteSets

CONSTANTS
  Scenarios      \* the commands of a session, in order, and the mishaps

ASSUME GdbSessionAssumption ==
  \A c \in Scenarios : c \in [commands : Seq(Seq(STRING)), mishaps : Nat, syscalls : Nat]

VARIABLES
  stub, cpu,           \* see Gdb
  ring,                \* the characters polled and not yet read
  uart,                \* the receive register of the UART: at most one
  toStub, toHost,      \* the characters on the line
  host,                \* the debugger
  scenario, mishaps, syscalls,
  resumed,             \* has the program gone on for the debugger's command?
  ackLost              \* has a '+' of the stub been lost, or taken for part of a packet?

device == <<stub, cpu, ring, uart>>
line   == <<toStub, toHost>>
vars   == <<device, line, host, scenario, mishaps, syscalls, resumed, ackLost>>

TypeOK ==
  /\ stub.pc \in {"boot", "running", "recv", "checksum", "sent"}
  /\ Len(stub.inbuffer) < MAX_BUF_SIZE /\ Len(stub.csum_rx) <= 1
  /\ cpu \in CpuType
  /\ Len(ring) < MAX_RX_BUF /\ Len(uart) <= 1
  /\ host.state \in {"off", "idle", "ack", "answer", "over"}

Init ==
  /\ \E t \in BOOLEAN :
       stub = [pc |-> "boot", found_start |-> FALSE, inbuffer |-> <<>>, csum_rx |-> <<>>,
               sent |-> NoText, then |-> "loop", flush_caches |-> FALSE, initial_trap |-> t]
  /\ cpu = [step |-> FALSE, dbgen |-> FALSE, reg |-> "0", mem |-> "0", icache |-> "0"]
  /\ ring = <<>> /\ uart = <<>> /\ toStub = <<>> /\ toHost = <<>>
  /\ scenario \in Scenarios /\ mishaps = 0 /\ syscalls = 0 /\ resumed = FALSE /\ ackLost = FALSE
  /\ host = [state |-> "off", done |-> 0, command |-> NoText, answer |-> NoText,
             frame |-> <<>>, reg |-> "0", mem |-> "0"]

-----------------------------------------------------------------------------
(* The stub *)

arrived == uart \o toStub
World   == [stub |-> stub, cpu |-> cpu, out |-> <<>>]
Least(a, b) == IF a < b THEN a ELSE b
Takeoff(n) == IF n = 0 THEN UNCHANGED <<uart, toStub>>
              ELSE uart' = <<>> /\ toStub' = SubSeq(arrived, n + 1, Len(arrived))
\* the state after a call; while it sends, it polls what arrives: nothing, or a
\* character for each of its own
Becomes(w, held, n) ==
  \E m \in {0, Least(Len(w.out), Len(arrived) - n)} :
    /\ stub' = w.stub /\ cpu' = w.cpu /\ toHost' = toHost \o w.out
    /\ ring' = Polled(held, SubSeq(arrived, n + 1, n + m))
    /\ Takeoff(n + m)

\* gdb_getchar: the next character, or a poll that empties a full ring
Getchar ==
  /\ stub.pc \in {"recv", "checksum", "sent"}
  /\ \E n \in 0..1 :
       /\ n <= Len(arrived)
       /\ LET held == Polled(ring, SubSeq(arrived, 1, n))
          IN IF held # <<>>
             THEN LET w == Takes(World, Head(held))
                  IN /\ Becomes(w, Tail(held), n)
                     /\ resumed' = (resumed \/ (stub.pc = "checksum" /\ w.stub.pc = "running"))
             ELSE n = 1 /\ Becomes(World, held, n) /\ UNCHANGED resumed
  /\ UNCHANGED <<host, scenario, mishaps, syscalls, ackLost>>

Stops(w) == Becomes(w, ring, 0) /\ UNCHANGED <<host, scenario, mishaps, syscalls, resumed, ackLost>>

\* the l.trap of gdb_main
Boot == stub.pc = "boot" /\ Stops(gdb_exception(World))

\* a breakpoint; l.trap leaves the step bit as it is
Trap == stub.pc = "running" /\ Stops(gdb_exception(World))

\* any other instruction clears it, and traps when it was set
StepDone ==
  /\ stub.pc = "running" /\ cpu.step /\ cpu.dbgen
  /\ Stops(gdb_exception([World EXCEPT !.cpu.step = FALSE]))

Syscall ==
  /\ stub.pc = "running" /\ host.state # "over"
  /\ syscalls < scenario.syscalls /\ syscalls' = syscalls + 1
  /\ \E n \in 1..3 : Becomes(gdb_syscall(World, n), ring, 0)
  /\ UNCHANGED <<host, scenario, mishaps, resumed, ackLost>>

\* nobody polls while the program runs: a character takes the place of the last
Overrun ==
  /\ stub.pc \in {"boot", "running"} /\ toStub # <<>>
  /\ uart' = <<Head(toStub)>> /\ toStub' = Tail(toStub)
  /\ UNCHANGED <<stub, cpu, ring, toHost, host, scenario, mishaps, syscalls, resumed, ackLost>>

Stub == Getchar \/ Boot \/ Trap \/ StepDone \/ Syscall \/ Overrun

-----------------------------------------------------------------------------
(* The debugger *)

HostSends(h, chars) ==
  /\ host' = h /\ toStub' = toStub \o chars
  /\ UNCHANGED <<device, scenario, mishaps, syscalls>>

Waits(h) == h.command # NoText /\ Head(h.command) \in {"c", "s"}

\* drops what the stub has sent so far, and acknowledges it
Connect ==
  /\ host.state = "off" /\ stub.pc \in {"recv", "sent"}
  /\ HostSends([host EXCEPT !.state = "idle"], <<Ch("+")>>) /\ toHost' = <<>>
  /\ UNCHANGED <<resumed, ackLost>>

Ask ==
  /\ host.state = "idle" /\ host.done < Len(scenario.commands)
  /\ LET c == scenario.commands[host.done + 1]
     IN HostSends([host EXCEPT !.state = "ack", !.done = @ + 1, !.command = c, !.answer = NoText,
                               !.frame = <<>>,
                               !.mem = IF c[1] = "M" THEN c[2] ELSE @,
                               !.reg = IF c[1] = "G" \/ (c[1] = "P" /\ c[2] \notin {"99", "SR"})
                                       THEN c[2] ELSE @], Frame(c))
  /\ resumed' = FALSE
  /\ UNCHANGED <<toHost, ackLost>>

\* a packet is being read once its '$' has come; it is complete with two
\* characters after the '#'
Complete(f)  == Len(f) >= 4 /\ f[Len(f) - 2].kind = "#"
Intact(f)    == Checks(SubSeq(f, 2, Len(f) - 3), f[Len(f) - 1], f[Len(f)])
TextOf(f)    == f[Len(f)].of

Reading == host.state \in {"ack", "answer"} /\ toHost # <<>>

HostGets ==
  /\ Reading /\ toHost' = Tail(toHost)
  /\ LET c == Head(toHost)
         f == Append(host.frame, c)
         h == [host EXCEPT !.frame = <<>>]
     IN CASE host.frame = <<>> /\ c.kind = "$" -> HostSends([host EXCEPT !.frame = f], <<>>)
          [] host.frame = <<>> /\ c.kind # "$" ->
               HostSends(IF host.state = "ack" /\ c.kind = "+" THEN [host EXCEPT !.state = "answer"]
                         ELSE host, <<>>)
          [] host.frame # <<>> /\ Complete(f) /\ Intact(f) ->
               HostSends(IF host.state = "ack" \/ TextOf(f) = <<"O">> THEN h
                         ELSE [h EXCEPT !.state = IF TextOf(f) = <<"W">> THEN "over" ELSE "idle",
                                        !.answer = TextOf(f)], <<Ch("+")>>)
          [] host.frame # <<>> /\ (IF Complete(f) THEN ~Intact(f) ELSE c.kind = "$") ->
               HostSends(h, IF host.state = "ack" THEN <<>> ELSE <<Ch("-")>>)
          [] host.frame # <<>> /\ ~Complete(f) /\ c.kind # "$" ->
               HostSends([host EXCEPT !.frame = f], <<>>)
  /\ ackLost' = (ackLost \/ (host.frame # <<>> /\ Head(toHost) = Ch("+")))
  /\ UNCHANGED resumed

\* nothing moves any more; the debugger's time limit is far above the line's speed
Quiet == toStub = <<>> /\ toHost = <<>> /\ (stub.pc = "running" \/ ring \o uart = <<>>)

HostTimesOut ==
  /\ Quiet /\ UNCHANGED <<toHost, resumed, ackLost>>
  /\ \/ host.state = "ack" /\ HostSends([host EXCEPT !.frame = <<>>], Frame(host.command))
     \/ /\ host.state = "answer" /\ (~Waits(host) \/ host.frame # <<>>)
        /\ HostSends([host EXCEPT !.frame = <<>>], <<Ch("-")>>)

\* Ctrl-C, a mishap while the program runs: its character is read when it stops
UserInterrupts ==
  /\ Quiet /\ host.state = "answer" /\ Waits(host) /\ host.frame = <<>>
  /\ toStub' = <<Ch("interrupt")>>
  /\ IF stub.pc = "running" THEN mishaps < scenario.mishaps /\ mishaps' = mishaps + 1
     ELSE UNCHANGED mishaps
  /\ UNCHANGED <<device, toHost, host, scenario, syscalls, resumed, ackLost>>

Host == Connect \/ Ask \/ HostGets \/ HostTimesOut \/ UserInterrupts

\* a character is lost, or becomes another; not a '+', which no checksum covers and
\* either end takes for an acknowledgement
Damaged(chars, i, c) == SubSeq(chars, 1, i - 1) \o c \o SubSeq(chars, i + 1, Len(chars))
Damage ==
  /\ mishaps < scenario.mishaps /\ mishaps' = mishaps + 1
  /\ \E c \in {<<>>} \cup {<<Ch(k)>> : k \in {"noise", "$", "#"}} :
       \/ /\ \E i \in DOMAIN toStub : toStub' = Damaged(toStub, i, c)
          /\ UNCHANGED <<toHost, ackLost>>
       \/ \E i \in DOMAIN toHost :
            /\ toHost' = Damaged(toHost, i, c)
            /\ ackLost' = (ackLost \/ toHost[i] = Ch("+"))
            /\ UNCHANGED toStub
  /\ UNCHANGED <<device, host, scenario, syscalls, resumed>>

\* the debugger has read what has come before the stub takes its next step
Next == (~Reading /\ Stub) \/ Host \/ Damage

Spec == Init /\ [][Next]_vars
-----------------------------------------------------------------------------
(* Properties *)

RightAnswer(h) ==
  CASE h.command[1] = "?" -> {<<"S">>}
    [] h.command[1] \in {"g"} -> {<<h.reg>>}
    [] h.command[1] = "m" -> {<<h.mem>>}
    [] h.command[1] \in {"p", "P"} /\ h.command[2] = "99" -> {<<"E22">>}
    [] h.command[1] = "p" /\ h.command[2] # "99" -> {<<h.reg>>}
    [] h.command[1] \in {"G", "M"} \/ (h.command[1] = "P" /\ h.command[2] # "99") -> {<<"OK">>}
    [] h.command[1] \in {"c", "s"} -> {<<"T">>, <<"W">>}
    [] OTHER -> {NoText}

\* The answer the debugger accepts is the one to its command, and tells what the
\* commands before it have written: none is skipped, and no answer is left over
\* on the line for a later command, although gdb_send (gdb.c:182-208) repeats its
\* packet for every character that is not a '+'.
AnswersRight ==
  host.state \in {"idle", "over"} /\ host.done > 0 => host.answer \in RightAnswer(host)

\* The stub changes a register or memory, or lets the program go on, only for the
\* command the debugger waits with, and lets it go on once, unless its '+' was
\* lost: damaged packets (gdb.c:252-284) and the leftovers of repeated ones are
\* never executed.
ExecutesAsked ==
  [][ /\ cpu'.mem # cpu.mem => host.state = "ack" /\ host.command = <<"M", cpu'.mem>>
      /\ cpu'.reg # cpu.reg =>
           host.state = "ack" /\ host.command \in {<<"G", cpu'.reg>>, <<"P", cpu'.reg>>}
      /\ stub.pc = "checksum" /\ stub'.pc = "running" =>
           host.state = "ack" /\ Waits(host) /\ (ackLost \/ ~resumed) ]_vars

\* The program never runs with the debugger's changes half in effect: breakpoints
\* and steps are enabled, and what the debugger has written is what is fetched,
\* whatever it has written to SR (gdb.c:461, 521, 544, 569-577, 592, 608).
ResumesReady ==
  stub.pc = "running" => cpu.dbgen /\ cpu.icache = cpu.mem

Fairness ==
  /\ WF_vars(Getchar) /\ WF_vars(Boot) /\ WF_vars(Trap) /\ WF_vars(Overrun)
  /\ WF_vars(Connect) /\ WF_vars(Ask) /\ WF_vars(HostGets) /\ WF_vars(HostTimesOut)

FairSpec == Spec /\ Fairness

\* Every command is answered, after a finite number of mishaps: no end waits for
\* a '+', a '$' or a digit that the other takes for sent.  There is one exception.
\* A debugger that has let the program go waits for a stop reply without limit, and
\* gdb_send (gdb.c:182-208) waits without limit for the '+' to what it sent: once
\* the reply, or an output on the way to it, is lost, both wait until a user
\* interrupts who need not be there.
BothWait ==
  /\ host.state = "answer" /\ Waits(host) /\ host.frame = <<>>
  /\ stub.pc = "sent" /\ stub.sent \in {<<"O">>, <<"T">>, <<"W">>} /\ Quiet
Answered == host.state \in {"ack", "answer"} ~> host.state \in {"idle", "over"} \/ BothWait
=============================================================================
