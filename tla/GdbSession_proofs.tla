-------------------------- MODULE GdbSession_proofs --------------------------
(***************************************************************************)
(* What the debugger stub owes the program it lets go on, for every        *)
(* session, every size of its buffers, and whatever the line does to the   *)
(* characters; and what it owes the debugger as long as the line does      *)
(* nothing to them.                                                        *)
(***************************************************************************)
EXTENDS GdbSession, WellFoundedInduction, TLAPS

-----------------------------------------------------------------------------
(* The invariant *)

Pcs == {"boot", "running", "recv", "checksum", "sent"}
StubFields == {"pc", "found_start", "inbuffer", "csum_rx", "sent", "then", "flush_caches", "initial_trap"}
CpuFields  == {"step", "dbgen", "reg", "mem", "icache"}

Formed(s, c) ==
  /\ StubFields \subseteq DOMAIN s /\ CpuFields \subseteq DOMAIN c
  /\ s.pc \in Pcs /\ s.flush_caches \in BOOLEAN

\* breakpoints are enabled since the first trap
Enabled(s, c) == s.pc # "boot" => c.dbgen = TRUE

\* what the cache holds of memory is stale only between a write and the end of the
\* exception it was made in
Marked(s, c)  == c.icache = c.mem \/ s.flush_caches = TRUE
Settled(s)    == s.pc \in {"boot", "running"} \/ (s.pc = "sent" /\ s.then # "loop")
                   => s.flush_caches = FALSE

Ready(s, c)   == Formed(s, c) /\ Enabled(s, c) /\ Marked(s, c) /\ Settled(s)

\* of what a call is given, and leaves
Valid(w) == {"stub", "cpu", "out"} \subseteq DOMAIN w /\ Ready(w.stub, w.cpu)

IInv == Ready(stub, cpu)

-----------------------------------------------------------------------------
(* The calls of gdb.c *)

\* A packet of the loop of commands may go out in any exception.
LEMMA Sends ==
  ASSUME NEW w, Valid(w), w.stub.pc # "boot", NEW text
  PROVE  /\ Valid(gdb_send(w, text, "loop"))
         /\ w.stub.flush_caches = FALSE => Valid(gdb_send(w, text, "run"))
  BY DEF Valid, Ready, Formed, Enabled, Marked, Settled, gdb_send, Pcs, StubFields, CpuFields

\* The stub may wait for a command whenever it has taken the program over.
LEMMA Receives ==
  ASSUME NEW w, Valid(w), w.stub.pc # "boot"
  PROVE  Valid(gdb_recv(w))
  BY DEF Valid, Ready, Formed, Enabled, Marked, Settled, gdb_recv, Pcs, StubFields, CpuFields

\* The end of an exception flushes the caches when there is something to flush.
LEMMA Returns ==
  ASSUME NEW w, Valid(w), w.stub.pc # "boot", NEW stepping \in BOOLEAN
  PROVE  Valid(Return(w, stepping))
<1> DEFINE r == Return(w, stepping)
<1>1. /\ {"stub", "cpu", "out"} \subseteq DOMAIN r
      /\ StubFields \subseteq DOMAIN r.stub
      /\ r.stub.pc = "running" /\ r.stub.flush_caches = FALSE
  BY DEF Valid, Ready, Formed, Return, StubFields
<1> DEFINE f == IF w.stub.flush_caches THEN gdb_flush_cache(w.cpu) ELSE w.cpu
           g == [f EXCEPT !.step = @ \/ stepping, !.dbgen = @ \/ stepping]
<1>2. /\ CpuFields \subseteq DOMAIN f
      /\ f.dbgen = TRUE /\ f.icache = f.mem
  BY DEF Valid, Ready, Formed, Enabled, Marked, gdb_flush_cache, CpuFields
<1>3. /\ CpuFields \subseteq DOMAIN g
      /\ g.dbgen = TRUE /\ g.icache = g.mem
  <2> HIDE DEF f
  <2> QED BY <1>2 DEF CpuFields
<1>4. r.cpu = g
  <2>1. r = [w EXCEPT !.stub.pc = "running", !.stub.flush_caches = FALSE, !.cpu = g]
    BY Zenon DEF Return
  <2> HIDE DEF r, g
  <2> QED BY <2>1 DEF Valid
<1> QED
  <2> HIDE DEF r, f, g
  <2> SUFFICES Valid(r)
    BY DEF r
  <2> QED BY <1>1, <1>3, <1>4 DEF Valid, Ready, Formed, Enabled, Marked, Settled, Pcs

\* A write to the registers leaves the debug bits as they should be.
LEMMA Writes ==
  ASSUME NEW w, Valid(w), w.stub.pc # "boot", NEW x
  PROVE  /\ Valid([w EXCEPT !.cpu.reg = x, !.cpu.step = FALSE, !.cpu.dbgen = TRUE])
         /\ Valid([w EXCEPT !.cpu.step = FALSE, !.cpu.dbgen = TRUE])
         /\ Valid([w EXCEPT !.cpu.reg = x])
  BY DEF Valid, Ready, Formed, Enabled, Marked, Settled, Pcs, StubFields, CpuFields

\* A write to memory is marked for the flush.
LEMMA Patches ==
  ASSUME NEW w, Valid(w), w.stub.pc \in {"recv", "checksum"}, NEW x
  PROVE  Valid([w EXCEPT !.cpu.mem = x, !.stub.flush_caches = TRUE])
  BY DEF Valid, Ready, Formed, Enabled, Marked, Settled, Pcs, StubFields, CpuFields

\* Every command leaves the stub ready, whatever its text.
LEMMA Commands ==
  ASSUME NEW w, Valid(w), w.stub.pc \in {"recv", "checksum"}, NEW text
  PROVE  Valid(Command(w, text))
<1> DEFINE is(c) == text # NoText /\ Head(text) = c
<1> DEFINE G == [w EXCEPT !.cpu.reg = text[2], !.cpu.step = FALSE, !.cpu.dbgen = TRUE]
           R == [w EXCEPT !.cpu.step = FALSE, !.cpu.dbgen = TRUE]
           P == [w EXCEPT !.cpu.reg = text[2]]
           M == [w EXCEPT !.cpu.mem = text[2], !.stub.flush_caches = TRUE]
<1>1. /\ Valid(G) /\ Valid(R) /\ Valid(P)
      /\ G.stub.pc # "boot" /\ R.stub.pc # "boot" /\ P.stub.pc # "boot"
  BY Writes DEF Valid
<1>2. Valid(M) /\ M.stub.pc # "boot"
  BY Patches DEF Valid, Ready, Formed, StubFields
<1>3. \A v, t : Valid(v) /\ v.stub.pc # "boot" => Valid(Reply(v, t))
  BY Sends DEF Reply
<1>4. Valid(Return(w, FALSE)) /\ Valid(Return(w, TRUE))
  BY Returns
<1>5. Command(w, text) \in
        {Reply(G, <<"OK">>), Reply(R, <<"OK">>), Reply(P, <<"OK">>), Reply(M, <<"OK">>),
         Return(w, FALSE), Return(w, TRUE)} \/ \E t : Command(w, text) = Reply(w, t)
  BY DEF Command
<1> QED
  <2> HIDE DEF G, R, P, M
  <2> QED BY <1>1, <1>2, <1>3, <1>4, <1>5

\* A character of a packet is stored, or ends it.
LEMMA Characters ==
  ASSUME NEW w, Valid(w), w.stub.pc = "recv", NEW c
  PROVE  Valid(Received(w, c))
<1> DEFINE body == w.stub.inbuffer
           A == [w EXCEPT !.stub.found_start = TRUE, !.stub.inbuffer = <<>>]
           B == [w EXCEPT !.stub.pc = "checksum", !.stub.csum_rx = <<>>]
           D == [w EXCEPT !.stub.inbuffer = Append(@, c)]
<1>1. Valid(A)
  BY DEF Valid, Ready, Formed, Enabled, Marked, Settled, Pcs, StubFields, CpuFields
<1>2. Valid(B)
  BY DEF Valid, Ready, Formed, Enabled, Marked, Settled, Pcs, StubFields, CpuFields
<1>3. Valid(D)
  BY DEF Valid, Ready, Formed, Enabled, Marked, Settled, Pcs, StubFields, CpuFields
<1>4. Valid(Command(w, NoText))
  BY Commands
<1>5. Received(w, c) \in {A, B, D, w, Command(w, NoText)}
  BY DEF Received
<1> QED
  <2> HIDE DEF A, B, D
  <2> QED BY <1>1, <1>2, <1>3, <1>4, <1>5

\* The digits of a checksum are kept, or let the command through.
LEMMA Checksums ==
  ASSUME NEW w, Valid(w), w.stub.pc = "checksum", NEW c
  PROVE  Valid(ChecksumReceived(w, c))
<1> DEFINE A == [w EXCEPT !.stub.csum_rx = <<c>>]
           B == [w EXCEPT !.out = @ \o <<Ch("+")>>]
<1>1. Valid(A)
  BY DEF Valid, Ready, Formed, Enabled, Marked, Settled, Pcs, StubFields, CpuFields
<1>2. Valid(B) /\ B.stub.pc = "checksum"
  BY DEF Valid
<1>3. \A t : Valid(Command(B, t)) /\ Valid(Command(w, t))
  <2> HIDE DEF B
  <2> QED BY <1>2, Commands
<1>4. ChecksumReceived(w, c) = A \/ \E t : ChecksumReceived(w, c) \in {Command(B, t), Command(w, t)}
  BY DEF ChecksumReceived
<1> QED
  <2> HIDE DEF A, B
  <2> QED BY <1>1, <1>3, <1>4

\* An acknowledgement lets the program go on only after a system call, which has
\* written nothing; any other character has the packet sent again.
LEMMA Acknowledgements ==
  ASSUME NEW w, Valid(w), w.stub.pc = "sent", NEW c
  PROVE  Valid(Acknowledged(w, c))
<1>1. Valid(Resend(w))
  BY DEF Valid, Resend
<1>2. Valid(gdb_recv(w))
  BY Receives
<1>3. w.stub.then # "loop" => Valid([w EXCEPT !.stub.pc = "running"])
  BY DEF Valid, Ready, Formed, Enabled, Marked, Settled, Pcs, StubFields, CpuFields
<1> QED BY <1>1, <1>2, <1>3 DEF Acknowledged

\* The stub takes the program over with the debug bits as it needs them.
LEMMA Exceptions ==
  ASSUME NEW w, Valid(w), w.stub.pc \in {"boot", "running"}
  PROVE  Valid(gdb_exception(w))
<1> DEFINE v == [w EXCEPT !.cpu.dbgen = TRUE, !.stub.initial_trap = FALSE]
           u == [v EXCEPT !.stub.pc = "recv"]
<1>1. /\ {"stub", "cpu", "out"} \subseteq DOMAIN v
      /\ StubFields \subseteq DOMAIN v.stub /\ CpuFields \subseteq DOMAIN v.cpu
      /\ v.cpu.dbgen = TRUE /\ v.cpu.icache = v.cpu.mem
      /\ v.stub.flush_caches = FALSE
  BY DEF Valid, Ready, Formed, Marked, Settled, StubFields, CpuFields
<1>2. gdb_exception(w) \in {gdb_recv(v), gdb_send(v, <<"T">>, "loop")}
  BY DEF gdb_exception
<1>3. Valid(gdb_recv(v)) /\ Valid(gdb_send(v, <<"T">>, "loop"))
  <2> HIDE DEF v
  <2> QED BY <1>1 DEF Valid, Ready, Formed, Enabled, Marked, Settled, gdb_recv, gdb_send, Pcs, StubFields, CpuFields
<1> QED
  <2> HIDE DEF v
  <2> QED BY <1>2, <1>3

\* A system call is made by the program, with nothing left to flush.
LEMMA Syscalls ==
  ASSUME NEW w, Valid(w), w.stub.pc = "running", NEW n \in 1..3
  PROVE  Valid(gdb_syscall(w, n))
<1>1. w.stub.flush_caches = FALSE /\ w.stub.pc # "boot"
  BY DEF Valid, Ready, Settled
<1>2. gdb_syscall(w, n) \in {gdb_send(w, <<"O">>, "run"), gdb_send(w, <<"W">>, "run")}
  <2>1. CASE n = 3
    BY <2>1 DEF gdb_syscall
  <2>2. CASE n \in {1, 2}
    BY <2>2 DEF gdb_syscall
  <2> QED BY <2>1, <2>2
<1> QED BY <1>1, <1>2, Sends

\* So every character leaves the stub ready, whatever it is.
LEMMA Takings ==
  ASSUME NEW w, Valid(w), w.stub.pc \in {"recv", "checksum", "sent"}, NEW c
  PROVE  Valid(Takes(w, c))
BY Characters, Checksums, Acknowledgements DEF Takes

-----------------------------------------------------------------------------
(* The steps *)

LEMMA WorldValid == IInv => Valid(World)
BY DEF IInv, Valid, World

LEMMA InitIInv == Init => IInv
BY DEF Init, IInv, Ready, Formed, Enabled, Marked, Settled, Pcs, StubFields, CpuFields

LEMMA StubStep ==
  ASSUME IInv, Stub
  PROVE  IInv'
<1> DEFINE W == World
<1>0. Valid(W) /\ W.stub = stub /\ W.cpu = cpu
  BY WorldValid DEF World
<1>1. \A w, held, n : Becomes(w, held, n) => stub' = w.stub /\ cpu' = w.cpu
  BY DEF Becomes
<1>2. SUFFICES \E w : Valid(w) /\ stub' = w.stub /\ cpu' = w.cpu
  BY DEF Valid, IInv
<1> HIDE DEF W
<1>3. CASE Getchar
  <2>1. \A c : Valid(Takes(World, c))
    BY <1>0, <1>3, Takings DEF Getchar, W
  <2>2. \E w, held, n : Becomes(w, held, n) /\ Valid(w)
    <3>1. PICK n \in 0..1 :
            LET held == Polled(ring, SubSeq(arrived, 1, n))
            IN IF held # <<>>
               THEN LET w == Takes(World, Head(held)) IN Becomes(w, Tail(held), n)
               ELSE Becomes(World, held, n)
      BY <1>3 DEF Getchar
    <3> DEFINE held == Polled(ring, SubSeq(arrived, 1, n))
    <3>2. CASE held # <<>>
      <4>1. Becomes(Takes(World, Head(held)), Tail(held), n)
        BY <3>1, <3>2
      <4> QED BY <4>1, <2>1
    <3>3. CASE held = <<>>
      <4>1. Becomes(World, held, n)
        BY <3>1, <3>3
      <4> QED BY <4>1, <1>0 DEF W
    <3> QED BY <3>2, <3>3
  <2> QED BY <2>2, <1>1
<1>4. CASE Boot \/ Trap
  <2>1. Valid(gdb_exception(World))
    BY <1>0, <1>4, Exceptions DEF Boot, Trap, W
  <2> QED BY <2>1, <1>1, <1>4 DEF Boot, Trap, Stops
<1>5. CASE StepDone
  <2> DEFINE u == [World EXCEPT !.cpu.step = FALSE]
  <2>1. Valid(u) /\ u.stub.pc = "running"
    BY <1>0, <1>5 DEF StepDone, Valid, Ready, Formed, Enabled, Marked, Settled, CpuFields, W
  <2>2. Valid(gdb_exception(u))
    BY <2>1, Exceptions
  <2> QED BY <2>2, <1>1, <1>5 DEF StepDone, Stops
<1>6. CASE Syscall
  <2>1. PICK n \in 1..3 : Becomes(gdb_syscall(World, n), ring, 0)
    BY <1>6 DEF Syscall
  <2>2. Valid(gdb_syscall(World, n))
    BY <1>0, <1>6, Syscalls DEF Syscall, W
  <2> QED BY <2>1, <2>2, <1>1
<1>7. CASE Overrun
  BY <1>0, <1>7 DEF Overrun
<1> QED BY <1>3, <1>4, <1>5, <1>6, <1>7 DEF Stub

LEMMA HostStep ==
  ASSUME IInv, Host \/ Damage
  PROVE  IInv'
<1>1. UNCHANGED <<stub, cpu>>
  <2>1. CASE Connect
    BY <2>1 DEF Connect, HostSends, device
  <2>2. CASE Ask
    BY <2>2 DEF Ask, HostSends, device
  <2>3. CASE HostGets
    <3>1. \E h, chars : HostSends(h, chars)
      BY <2>3 DEF HostGets
    <3> QED BY <3>1 DEF HostSends, device
  <2>4. CASE HostTimesOut
    BY <2>4 DEF HostTimesOut, HostSends, device
  <2>5. CASE UserInterrupts
    BY <2>5 DEF UserInterrupts, device
  <2>6. CASE Damage
    BY <2>6 DEF Damage, device
  <2> QED BY <2>1, <2>2, <2>3, <2>4, <2>5, <2>6 DEF Host
<1> QED BY <1>1 DEF IInv

\* The stub keeps, at every step of every session: debugging enabled since its first
\* trap, and each write to memory marked until the caches are flushed, with no mark
\* left where the program goes on without a flush (gdb.c:461, 521, 544, 569-577).
THEOREM Invariance == Spec => []IInv
<1>1. Init => IInv
  BY InitIInv
<1>2. IInv /\ [Next]_vars => IInv'
  <2>1. ASSUME IInv, Next PROVE IInv'
    BY <2>1, StubStep, HostStep DEF Next
  <2>2. ASSUME IInv, UNCHANGED vars PROVE IInv'
    BY <2>2 DEF vars, device, IInv
  <2> QED BY <2>1, <2>2
<1> QED BY <1>1, <1>2, PTL DEF Spec

\* Whatever the debugger sends and the line does to it, the program never runs with
\* the debugger's changes half in effect (gdb.c:461, 521, 544, 569-577, 592, 608).
THEOREM RunsReady == Spec => []ResumesReady
<1>1. IInv => ResumesReady
  BY DEF IInv, Ready, Formed, Enabled, Marked, Settled, ResumesReady
<1> QED BY <1>1, Invariance, PTL
-----------------------------------------------------------------------------
(* What is executed                                                        *)

\* the commands the debugger has sent in the session so far
Asked == {scenario.commands[i] : i \in 1..host.done}

\* the first digit of a checksum names a text of the debugger's
Kinds == {"$", "#", "+", "-", "text", "high", "low", "noise", "interrupt"}
CharsOf(A) == {c \in [kind : Kinds, of : Seq(STRING)] : c.kind = "high" => c.of \in A}

Finite(s) == s \in Seq({s[i] : i \in DOMAIN s})

HostInv ==
  /\ scenario \in Scenarios
  /\ {"state", "done", "command"} \subseteq DOMAIN host
  /\ host.done \in 0..Len(scenario.commands)
  /\ host.state = "ack" => host.command \in Asked

LineInv ==
  /\ toStub \in Seq(CharsOf(Asked)) /\ uart \in Seq(CharsOf(Asked)) /\ ring \in Seq(CharsOf(Asked))
  /\ stub.csum_rx \in Seq(CharsOf(Asked)) /\ Finite(stub.sent)

AskedInv == IInv /\ HostInv /\ LineInv

\* what a call may do that is given w and leaves r, when A has been asked for
Does(w, r, A) ==
  /\ Finite(r.out) /\ Finite(r.stub.sent) /\ r.stub.csum_rx \in Seq(CharsOf(A))
  /\ r.cpu.mem # w.cpu.mem => \E t \in A : t[1] = "M" /\ t[2] = r.cpu.mem
  /\ r.cpu.reg # w.cpu.reg => \E t \in A : t[1] \in {"G", "P"} /\ t[2] = r.cpu.reg
  /\ w.stub.pc \in {"recv", "checksum"} /\ r.stub.pc = "running" =>
       \E t \in A : t[1] \in {"c", "s"}

\* of what a call is given
Sound(w, A) ==
  Valid(w) /\ Finite(w.out) /\ Finite(w.stub.sent) /\ w.stub.csum_rx \in Seq(CharsOf(A))

-----------------------------------------------------------------------------
(* Characters and sequences of them *)

LEMMA FiniteSeq == ASSUME NEW S, NEW s \in Seq(S) PROVE Finite(s)
BY DEF Finite

LEMMA FiniteLen == ASSUME NEW s, Finite(s) PROVE Len(s) \in Nat
BY DEF Finite

LEMMA FiniteConcat == ASSUME NEW s, NEW t, Finite(s), Finite(t) PROVE Finite(s \o t)
<1> DEFINE S == {s[i] : i \in DOMAIN s} \cup {t[i] : i \in DOMAIN t}
<1>1. s \in Seq(S) /\ t \in Seq(S)
  <2>1. /\ s \in Seq({s[i] : i \in DOMAIN s}) /\ t \in Seq({t[i] : i \in DOMAIN t})
    BY DEF Finite
  <2> QED BY <2>1
<1>2. s \o t \in Seq(S)
  <2> HIDE DEF S
  <2> QED BY <1>1
<1> QED
  <2> HIDE DEF S
  <2> QED BY <1>2, FiniteSeq

LEMMA FiniteFrame == ASSUME NEW text, Finite(text) PROVE Finite(Frame(text))
<1> DEFINE b == Body(text)
<1>1. DOMAIN text = 1..Len(text) /\ Len(text) \in Nat
  BY DEF Finite
<1>2. b = [i \in 1..Len(text) |-> [kind |-> "text", of |-> <<text[i]>>]]
  BY <1>1 DEF Body
<1>3. b \in Seq({b[i] : i \in DOMAIN b})
  BY <1>1, <1>2
<1>4. Finite(<<Ch("$")>>) /\ Finite(b) /\ Finite(<<Ch("#"), High(text), Low(text)>>)
  BY <1>3 DEF Finite
<1> QED
  <2> HIDE DEF b
  <2>1. Finite(<<Ch("$")>> \o b)
    BY <1>4, FiniteConcat
  <2> QED BY <2>1, <1>4, FiniteConcat DEF Frame, b

LEMMA CharsGrow ==
  ASSUME NEW A, NEW B, A \subseteq B
  PROVE  Seq(CharsOf(A)) \subseteq Seq(CharsOf(B))
<1>1. CharsOf(A) \subseteq CharsOf(B)
  BY DEF CharsOf
<1> QED
  <2> SUFFICES ASSUME NEW s \in Seq(CharsOf(A)) PROVE s \in Seq(CharsOf(B))
    OBVIOUS
  <2> QED BY <1>1

\* A packet of the debugger's names its own text and no other.
LEMMA FrameNames ==
  ASSUME NEW A, A \subseteq Seq(STRING), NEW text \in A
  PROVE  Frame(text) \in Seq(CharsOf(A))
<1> DEFINE C == CharsOf(A)
<1>1. text \in Seq(STRING)
  OBVIOUS
<1> DEFINE T == Seq(STRING)
<1>0. \A k \in Kinds, o \in T : (k = "high" => o \in A) => [kind |-> k, of |-> o] \in C
  BY DEF CharsOf
<1>2. Ch("$") \in C /\ Ch("#") \in C /\ High(text) \in C /\ Low(text) \in C
  <2>1. <<>> \in T
    OBVIOUS
  <2> HIDE DEF T, C
  <2> QED BY <1>0, <1>1, <2>1 DEF Ch, High, Low, NoText, T, Kinds
<1>3. \A i \in DOMAIN text : [kind |-> "text", of |-> <<text[i]>>] \in C
  <2> SUFFICES ASSUME NEW i \in DOMAIN text PROVE [kind |-> "text", of |-> <<text[i]>>] \in C
    OBVIOUS
  <2>1. text[i] \in STRING
    BY <1>1
  <2>2. <<text[i]>> \in T
    BY <2>1
  <2> HIDE DEF T, C
  <2> QED BY <1>0, <2>2 DEF Kinds
<1>4. Body(text) \in Seq(C)
  <2> HIDE DEF C
  <2> QED BY <1>1, <1>3 DEF Body
<1> QED
  <2> HIDE DEF C
  <2> SUFFICES Frame(text) \in Seq(C)
    BY DEF C
  <2>1. <<Ch("$")>> \in Seq(C) /\ <<Ch("#"), High(text), Low(text)>> \in Seq(C)
    BY <1>2
  <2> QED BY <2>1, <1>4 DEF Frame

LEMMA PlainChars ==
  ASSUME NEW A, NEW k \in Kinds, k # "high"
  PROVE  Ch(k) \in CharsOf(A) /\ <<Ch(k)>> \in Seq(CharsOf(A))
BY DEF CharsOf, Ch, NoText

LEMMA Cut ==
  ASSUME NEW S, NEW s \in Seq(S), NEW a \in Nat, NEW b \in Nat, b <= Len(s)
  PROVE  SubSeq(s, a + 1, b) \in Seq(S)
OBVIOUS

\* a set of numbers has a least one
LEMMA LeastOf ==
  ASSUME NEW T, T \subseteq Nat, T # {}
  PROVE  \E x \in T : \A y \in T : x <= y
<1> DEFINE R == OpToRel(<, Nat)
<1>1. PICK x \in T : \A y \in T : <<y, x>> \notin R
  <2>1. IsWellFoundedOn(R, Nat)
    BY NatLessThanWellFounded
  <2> HIDE DEF R
  <2> QED BY <2>1, WFMin
<1>2. \A a, b \in Nat : a < b => <<a, b>> \in R
  BY DEF OpToRel
<1> HIDE DEF R
<1>3. \A y \in T : y \in Nat /\ x \in Nat /\ ~(y < x)
  BY <1>1, <1>2
<1>4. \A y \in T : x <= y
  BY <1>3
<1> QED BY <1>4

\* Polling puts characters that have come into the ring, and no others.
LEMMA PolledChars ==
  ASSUME NEW S, NEW r \in Seq(S), NEW chars \in Seq(S)
  PROVE  Polled(r, chars) \in Seq(S)
<1> DEFINE N == Len(chars)
           R == Seq(S)
           Step(g, i) == IF i = 0 THEN r ELSE gdb_pollrx(g[i - 1], chars[i])
           Good(n) == \E g \in [0..n -> R] : \A i \in 0..n : g[i] = Step(g, i)
<1>1. N \in Nat /\ \A i \in 1..N : chars[i] \in S
  OBVIOUS
<1>2. \A q \in R, i \in 1..N : gdb_pollrx(q, chars[i]) \in R
  BY <1>1 DEF gdb_pollrx
<1>3. Good(0)
  <2> DEFINE g == [i \in 0..0 |-> r]
  <2>1. g \in [0..0 -> R] /\ \A i \in 0..0 : g[i] = Step(g, i)
    OBVIOUS
  <2> QED BY <2>1
<1>4. ASSUME NEW n \in Nat, n + 1 <= N, Good(n) PROVE Good(n + 1)
  <2>1. PICK g \in [0..n -> R] : \A i \in 0..n : g[i] = Step(g, i)
    BY <1>4
  <2> DEFINE x == gdb_pollrx(g[n], chars[n + 1])
             h == [i \in 0..(n + 1) |-> IF i = n + 1 THEN x ELSE g[i]]
  <2>2. x \in R
    <3>1. g[n] \in R /\ n + 1 \in 1..N
      BY <2>1, <1>1, <1>4
    <3> QED BY <3>1, <1>2
  <2>3. h \in [0..(n + 1) -> R]
    <3> HIDE DEF x, R
    <3> QED BY <2>1, <2>2
  <2>4. ASSUME NEW i \in 0..(n + 1) PROVE h[i] = Step(h, i)
    <3>1. CASE i = 0
      <4>1. g[0] = r
        BY <2>1
      <4> QED BY <3>1, <4>1
    <3>2. CASE i \in 1..n
      <4>1. g[i] = gdb_pollrx(g[i - 1], chars[i])
        BY <3>2, <2>1
      <4>2. h[i] = g[i] /\ h[i - 1] = g[i - 1]
        <5> HIDE DEF x
        <5> QED BY <3>2
      <4> QED BY <4>1, <4>2, <3>2
    <3>3. CASE i = n + 1
      <4>1. h[i] = x /\ h[i - 1] = g[n]
        <5> HIDE DEF x
        <5> QED BY <3>3
      <4> QED BY <4>1, <3>3
    <3> QED BY <3>1, <3>2, <3>3
  <2> QED
    <3> HIDE DEF h, Step
    <3> QED BY <2>3, <2>4
<1>5. \A n \in 0..N : Good(n)
  <2> DEFINE T == {n \in 0..N : ~Good(n)}
  <2> SUFFICES ASSUME T # {} PROVE FALSE
    <3> HIDE DEF Good
    <3> QED OBVIOUS
  <2>0. T \subseteq Nat
    <3> HIDE DEF Good, N
    <3> QED BY <1>1
  <2>1. PICK n \in T : \A m \in T : n <= m
    <3> HIDE DEF T
    <3> QED BY <2>0, LeastOf
  <2>2. n \in Nat /\ n # 0 /\ n <= N /\ ~Good(n)
    <3> HIDE DEF Good
    <3> QED BY <1>1, <1>3
  <2>3. Good(n - 1)
    <3> HIDE DEF Good
    <3> QED BY <1>1, <2>1, <2>2
  <2>4. Good((n - 1) + 1)
    <3> HIDE DEF Good
    <3>1. n - 1 \in Nat /\ (n - 1) + 1 <= N
      BY <1>1, <2>2
    <3> QED BY <2>3, <3>1, <1>4
  <2>5. (n - 1) + 1 = n
    BY <2>2
  <2> HIDE DEF Good
  <2> QED BY <2>2, <2>4, <2>5
<1> DEFINE F == CHOOSE g : g = [i \in 0..N |-> IF i = 0 THEN r ELSE gdb_pollrx(g[i - 1], chars[i])]
<1>6. \E g : g = [i \in 0..N |-> IF i = 0 THEN r ELSE gdb_pollrx(g[i - 1], chars[i])]
  <2>1. PICK g \in [0..N -> R] : \A i \in 0..N : g[i] = Step(g, i)
    <3>1. N \in 0..N
      BY <1>1
    <3>2. Good(N)
      <4> HIDE DEF Good, N
      <4> QED BY <1>5, <3>1
    <3> QED BY <3>2
  <2>2. g = [i \in 0..N |-> g[i]]
    BY <2>1
  <2>3. g = [i \in 0..N |-> IF i = 0 THEN r ELSE gdb_pollrx(g[i - 1], chars[i])]
    BY <2>1, <2>2
  <2> QED BY <2>3
<1>7. F = [i \in 0..N |-> IF i = 0 THEN r ELSE gdb_pollrx(F[i - 1], chars[i])]
  <2> HIDE DEF N, R
  <2> QED BY <1>6
<1>8. \A i \in 0..N : F[i] = IF i = 0 THEN r ELSE gdb_pollrx(F[i - 1], chars[i])
  <2> HIDE DEF F, N
  <2> QED BY <1>7
<1>9. Polled(r, chars) = F[N]
  BY DEF Polled
<1> HIDE DEF F
<1>10. \A i \in 0..N : F[i] \in R
  <2> DEFINE T == {i \in 0..N : F[i] \notin R}
  <2> SUFFICES ASSUME T # {} PROVE FALSE
    OBVIOUS
  <2>0. T \subseteq Nat
    BY <1>1
  <2>1. PICK i \in T : \A m \in T : i <= m
    <3> HIDE DEF T
    <3> QED BY <2>0, LeastOf
  <2>2. i # 0 /\ i \in 1..N
    <3>1. F[0] \in R
      BY <1>1, <1>8
    <3> QED BY <1>1, <3>1
  <2>3. i - 1 \notin T
    BY <2>1, <2>2
  <2>4. F[i - 1] \in R
    BY <2>2, <2>3
  <2>5. F[i] = gdb_pollrx(F[i - 1], chars[i])
    BY <1>8, <2>2
  <2> QED BY <1>2, <2>2, <2>4, <2>5
<1> QED BY <1>1, <1>9, <1>10

-----------------------------------------------------------------------------
(* What the calls of gdb.c do *)

LEMMA SendDoes ==
  ASSUME NEW w, Valid(w), Finite(w.out), NEW text, Finite(text), NEW then
  PROVE  LET r == gdb_send(w, text, then)
         IN /\ r.cpu = w.cpu /\ r.stub.csum_rx = w.stub.csum_rx
            /\ r.stub.sent = text /\ r.stub.pc = "sent" /\ Finite(r.out)
<1> DEFINE o == w.out \o Frame(text)
<1>1. Finite(o)
  BY FiniteFrame, FiniteConcat
<1>2. gdb_send(w, text, then) =
        [w EXCEPT !.out = o, !.stub.pc = "sent", !.stub.sent = text, !.stub.then = then]
  BY DEF gdb_send
<1> DEFINE r == gdb_send(w, text, then)
<1>3. r.out = o /\ r.cpu = w.cpu
  <2> HIDE DEF o
  <2> QED BY <1>2 DEF Valid
<1>4. r.stub = [w.stub EXCEPT !.pc = "sent", !.sent = text, !.then = then]
  <2> HIDE DEF o
  <2> QED BY <1>2 DEF Valid
<1>5. r.stub.csum_rx = w.stub.csum_rx /\ r.stub.sent = text /\ r.stub.pc = "sent"
  <2> HIDE DEF r
  <2> QED BY <1>4 DEF Valid, Ready, Formed, StubFields
<1> HIDE DEF o, r
<1> SUFFICES /\ r.cpu = w.cpu /\ r.stub.csum_rx = w.stub.csum_rx
             /\ r.stub.sent = text /\ r.stub.pc = "sent" /\ Finite(r.out)
  BY DEF r
<1> QED BY <1>1, <1>3, <1>5

LEMMA OneFinite == ASSUME NEW x PROVE Finite(<<x>>)
BY DEF Finite

LEMMA ReplyDoes ==
  ASSUME NEW A, NEW w, Sound(w, A), NEW text, Finite(text)
  PROVE  LET r == Reply(w, text)
         IN /\ r.cpu = w.cpu /\ r.stub.csum_rx \in Seq(CharsOf(A))
            /\ Finite(r.stub.sent) /\ r.stub.pc = "sent" /\ Finite(r.out)
BY SendDoes DEF Reply, Sound

\* The end of an exception writes neither registers nor memory.
LEMMA ReturnDoes ==
  ASSUME NEW A, NEW w, Sound(w, A), NEW stepping \in BOOLEAN
  PROVE  LET r == Return(w, stepping)
         IN /\ r.cpu.mem = w.cpu.mem /\ r.cpu.reg = w.cpu.reg /\ r.stub.csum_rx = w.stub.csum_rx
            /\ r.stub.sent = w.stub.sent /\ r.out = w.out
<1> DEFINE f == IF w.stub.flush_caches THEN gdb_flush_cache(w.cpu) ELSE w.cpu
           g == [f EXCEPT !.step = @ \/ stepping, !.dbgen = @ \/ stepping]
<1>1. CpuFields \subseteq DOMAIN f /\ f.mem = w.cpu.mem /\ f.reg = w.cpu.reg
  BY DEF Sound, Valid, Ready, Formed, gdb_flush_cache, CpuFields
<1>2. g.mem = w.cpu.mem /\ g.reg = w.cpu.reg
  <2> HIDE DEF f
  <2> QED BY <1>1 DEF CpuFields
<1>3. Return(w, stepping) = [w EXCEPT !.stub.pc = "running", !.stub.flush_caches = FALSE, !.cpu = g]
  BY Zenon DEF Return
<1> HIDE DEF g
<1> QED BY <1>2, <1>3 DEF Sound, Valid, Ready, Formed, StubFields

\* A command writes what its text says, and lets the program go on when it says so.
LEMMA CommandDoes ==
  ASSUME NEW A, NEW w, Sound(w, A), w.stub.pc \in {"recv", "checksum"},
         NEW text \in Seq(STRING), text = NoText \/ text \in A
  PROVE  Does(w, Command(w, text), A)
<1> DEFINE r == Command(w, text)
           is(c) == text # NoText /\ Head(text) = c
           G == [w EXCEPT !.cpu.reg = text[2], !.cpu.step = FALSE, !.cpu.dbgen = TRUE]
           R == [w EXCEPT !.cpu.step = FALSE, !.cpu.dbgen = TRUE]
           P == [w EXCEPT !.cpu.reg = text[2]]
           M == [w EXCEPT !.cpu.mem = text[2], !.stub.flush_caches = TRUE]
           Plain(v) == Does(w, Reply(v, <<"OK">>), A)
<1>1. /\ Sound(G, A) /\ G.cpu.reg = text[2] /\ G.cpu.mem = w.cpu.mem
      /\ Sound(R, A) /\ R.cpu.reg = w.cpu.reg /\ R.cpu.mem = w.cpu.mem
      /\ Sound(P, A) /\ P.cpu.reg = text[2] /\ P.cpu.mem = w.cpu.mem
  <2>1. Valid(G) /\ Valid(R) /\ Valid(P)
    BY Writes DEF Sound
  <2>2. /\ G.out = w.out /\ G.stub = w.stub /\ R.out = w.out /\ R.stub = w.stub
        /\ P.out = w.out /\ P.stub = w.stub
    BY DEF Sound, Valid
  <2>3. /\ G.cpu.reg = text[2] /\ G.cpu.mem = w.cpu.mem /\ R.cpu.reg = w.cpu.reg
        /\ R.cpu.mem = w.cpu.mem /\ P.cpu.reg = text[2] /\ P.cpu.mem = w.cpu.mem
    BY DEF Sound, Valid, Ready, Formed, CpuFields
  <2> HIDE DEF G, R, P
  <2> QED BY <2>1, <2>2, <2>3 DEF Sound
<1>2. Sound(M, A) /\ M.cpu.mem = text[2] /\ M.cpu.reg = w.cpu.reg
  <2>1. Valid(M)
    BY Patches DEF Sound
  <2>2. M.out = w.out /\ M.stub.sent = w.stub.sent /\ M.stub.csum_rx = w.stub.csum_rx
    BY DEF Sound, Valid, Ready, Formed, StubFields
  <2>3. M.cpu.mem = text[2] /\ M.cpu.reg = w.cpu.reg
    BY DEF Sound, Valid, Ready, Formed, CpuFields
  <2> HIDE DEF M
  <2> QED BY <2>1, <2>2, <2>3 DEF Sound
<1>3. \A t : Finite(t) => Does(w, Reply(w, t), A)
  BY ReplyDoes DEF Does
<1>4. text # NoText => text \in A /\ Head(text) = text[1]
  BY DEF NoText
<1>5. \A q \in BOOLEAN : text # NoText /\ Head(text) \in {"c", "s"} => Does(w, Return(w, q), A)
  BY <1>4, ReturnDoes DEF Does, Sound
<1> HIDE DEF G, R, P, M
<1>6. \/ r = Return(w, FALSE) /\ is("c")
      \/ r = Return(w, TRUE) /\ is("s")
      \/ r = Reply(G, <<"OK">>) /\ is("G")
      \/ r = Reply(R, <<"OK">>)
      \/ r = Reply(P, <<"OK">>) /\ is("P")
      \/ r = Reply(M, <<"OK">>) /\ is("M")
      \/ \E x : r = Reply(w, <<x>>)
      \/ r = Reply(w, NoText)
  BY DEF Command, G, R, P, M
<1>7. /\ is("G") => Does(w, Reply(G, <<"OK">>), A)
      /\ Does(w, Reply(R, <<"OK">>), A)
      /\ is("P") => Does(w, Reply(P, <<"OK">>), A)
      /\ is("M") => Does(w, Reply(M, <<"OK">>), A)
  <2>1. is("G") => Does(w, Reply(G, <<"OK">>), A)
    BY <1>1, <1>4, OneFinite, ReplyDoes DEF Does
  <2>2. Does(w, Reply(R, <<"OK">>), A)
    BY <1>1, OneFinite, ReplyDoes DEF Does
  <2>3. is("P") => Does(w, Reply(P, <<"OK">>), A)
    BY <1>1, <1>4, OneFinite, ReplyDoes DEF Does
  <2>4. is("M") => Does(w, Reply(M, <<"OK">>), A)
    BY <1>2, <1>4, OneFinite, ReplyDoes DEF Does
  <2> QED BY <2>1, <2>2, <2>3, <2>4
<1>8. Finite(NoText)
  BY DEF Finite, NoText
<1> HIDE DEF r
<1> SUFFICES Does(w, r, A)
  BY DEF r
<1> QED BY <1>3, <1>5, <1>6, <1>7, <1>8, OneFinite

\* A checksum that fits names the text of a command that was asked for, however the
\* line has mixed the characters of several packets.
LEMMA ChecksumDoes ==
  ASSUME NEW A, A \subseteq Seq(STRING), NEW w, Sound(w, A), w.stub.pc = "checksum",
         NEW c \in CharsOf(A)
  PROVE  Does(w, ChecksumReceived(w, c), A)
<1> DEFINE W1 == [w EXCEPT !.stub.csum_rx = <<c>>]
           B == [w EXCEPT !.out = @ \o <<Ch("+")>>]
           high == Head(w.stub.csum_rx)
           C == CharsOf(A)
<1>1. CASE w.stub.csum_rx = <<>>
  <2>1. ChecksumReceived(w, c) = W1
    BY <1>1 DEF ChecksumReceived
  <2>2. W1.cpu = w.cpu /\ W1.out = w.out /\ W1.stub.sent = w.stub.sent
        /\ W1.stub.csum_rx = <<c>> /\ W1.stub.pc = "checksum"
    BY DEF Sound, Valid, Ready, Formed, StubFields
  <2>3. <<c>> \in Seq(C)
    <3>1. c \in C
      OBVIOUS
    <3> HIDE DEF C
    <3> QED BY <3>1
  <2> HIDE DEF W1
  <2> QED BY <2>1, <2>2, <2>3 DEF Does, Sound
<1>2. CASE w.stub.csum_rx # <<>>
  <2>1. high \in C
    <3> HIDE DEF C
    <3>1. w.stub.csum_rx \in Seq(C)
      BY DEF Sound, C
    <3> QED BY <3>1, <1>2
  <2>2. Finite(<<Ch("+")>>)
    BY OneFinite
  <2>3. Sound(B, A) /\ B.cpu = w.cpu /\ B.stub = w.stub
    <3>1. Finite(B.out)
      BY <2>2, FiniteConcat DEF Sound, Valid
    <3> QED BY <3>1 DEF Sound, Valid
  <2>4. Does(w, Command(w, NoText), A)
    <3>1. NoText \in Seq(STRING)
      BY DEF NoText
    <3> QED BY <3>1, CommandDoes
  <2>5. ASSUME Checks(w.stub.inbuffer, high, c) PROVE Does(w, Command(B, high.of), A)
    <3>1. high.of \in A /\ high.of \in Seq(STRING)
      BY <2>1, <2>5 DEF Checks, CharsOf
    <3> HIDE DEF B, high
    <3>2. Does(B, Command(B, high.of), A)
      BY <3>1, <2>3, CommandDoes
    <3> QED BY <3>2, <2>3 DEF Does
  <2>6. ChecksumReceived(w, c) = IF Checks(w.stub.inbuffer, high, c)
                                 THEN Command(B, high.of) ELSE Command(w, NoText)
    BY <1>2 DEF ChecksumReceived
  <2> HIDE DEF B, high
  <2> QED BY <2>4, <2>5, <2>6
<1> QED BY <1>1, <1>2

\* Of a character outside of a checksum nothing is executed.
LEMMA ReceivedDoes ==
  ASSUME NEW A, A \subseteq Seq(STRING), NEW w, Sound(w, A), w.stub.pc = "recv", NEW c
  PROVE  Does(w, Received(w, c), A)
<1> DEFINE V1 == [w EXCEPT !.stub.found_start = TRUE, !.stub.inbuffer = <<>>]
           V2 == [w EXCEPT !.stub.pc = "checksum", !.stub.csum_rx = <<>>]
           V3 == [w EXCEPT !.stub.inbuffer = Append(@, c)]
<1>1. Received(w, c) \in {V1, V2, V3, w, Command(w, NoText)}
  BY DEF Received
<1>2. <<>> \in Seq(CharsOf(A))
  OBVIOUS
<1>3. Does(w, V1, A)
  BY DEF Does, Sound, Valid, Ready, Formed, StubFields
<1>4. Does(w, V2, A)
  BY <1>2 DEF Does, Sound, Valid, Ready, Formed, StubFields
<1>5. Does(w, V3, A)
  BY DEF Does, Sound, Valid, Ready, Formed, StubFields
<1>6. Does(w, w, A)
  BY DEF Does, Sound
<1>7. Does(w, Command(w, NoText), A)
  <2>1. NoText \in Seq(STRING)
    BY DEF NoText
  <2> QED BY <2>1, CommandDoes
<1> HIDE DEF V1, V2, V3
<1> QED BY <1>1, <1>3, <1>4, <1>5, <1>6, <1>7

LEMMA AcknowledgedDoes ==
  ASSUME NEW A, NEW w, Sound(w, A), w.stub.pc = "sent", NEW c
  PROVE  Does(w, Acknowledged(w, c), A)
<1> DEFINE o == w.out \o Frame(w.stub.sent)
           V == [w EXCEPT !.stub.pc = "running"]
<1>1. Finite(o)
  BY FiniteFrame, FiniteConcat DEF Sound
<1>2. Does(w, Resend(w), A)
  <2>1. Resend(w) = [w EXCEPT !.out = o]
    BY DEF Resend
  <2> HIDE DEF o
  <2> QED BY <1>1, <2>1 DEF Does, Sound, Valid
<1>3. Does(w, gdb_recv(w), A)
  BY DEF Does, Sound, Valid, Ready, Formed, StubFields, gdb_recv
<1>4. Does(w, V, A)
  BY DEF Does, Sound, Valid, Ready, Formed, StubFields
<1>5. Acknowledged(w, c) \in {Resend(w), gdb_recv(w), V}
  BY DEF Acknowledged
<1> HIDE DEF V
<1> QED BY <1>2, <1>3, <1>4, <1>5

LEMMA TakesDoes ==
  ASSUME NEW A, A \subseteq Seq(STRING), NEW w, Sound(w, A),
         w.stub.pc \in {"recv", "checksum", "sent"}, NEW c \in CharsOf(A)
  PROVE  Does(w, Takes(w, c), A)
BY ReceivedDoes, ChecksumDoes, AcknowledgedDoes DEF Takes

\* The program's own traps and calls write nothing.
LEMMA ExceptionDoes ==
  ASSUME NEW A, NEW w, Sound(w, A), w.stub.pc \in {"boot", "running"}
  PROVE  Does(w, gdb_exception(w), A)
<1> DEFINE v == [w EXCEPT !.cpu.dbgen = TRUE, !.stub.initial_trap = FALSE]
<1>1. Sound(v, A) /\ v.cpu.mem = w.cpu.mem /\ v.cpu.reg = w.cpu.reg /\ v.stub.pc = w.stub.pc
  <2>1. v.out = w.out /\ v.stub.sent = w.stub.sent /\ v.stub.csum_rx = w.stub.csum_rx
        /\ v.stub.pc = w.stub.pc
    BY DEF Sound, Valid, Ready, Formed, StubFields
  <2>2. v.cpu.mem = w.cpu.mem /\ v.cpu.reg = w.cpu.reg
    BY DEF Sound, Valid, Ready, Formed, CpuFields
  <2>3. Valid(v)
    BY DEF Sound, Valid, Ready, Formed, Enabled, Marked, Settled, Pcs, StubFields, CpuFields
  <2> HIDE DEF v
  <2> QED BY <2>1, <2>2, <2>3 DEF Sound
<1>2. Finite(<<"T">>)
  BY OneFinite
<1> HIDE DEF v
<1>3. Does(w, gdb_recv(v), A)
  BY <1>1 DEF Does, Sound, Valid, Ready, Formed, StubFields, gdb_recv
<1>4. Does(w, gdb_send(v, <<"T">>, "loop"), A)
  BY <1>1, <1>2, SendDoes DEF Does, Sound
<1>5. gdb_exception(w) \in {gdb_recv(v), gdb_send(v, <<"T">>, "loop")}
  BY DEF gdb_exception, v
<1> QED BY <1>3, <1>4, <1>5

LEMMA SyscallDoes ==
  ASSUME NEW A, NEW w, Sound(w, A), w.stub.pc = "running", NEW n \in 1..3
  PROVE  Does(w, gdb_syscall(w, n), A)
<1>1. gdb_syscall(w, n) \in {gdb_send(w, <<"O">>, "run"), gdb_send(w, <<"W">>, "run")}
  <2>1. CASE n = 3
    BY <2>1 DEF gdb_syscall
  <2>2. CASE n \in {1, 2}
    BY <2>2 DEF gdb_syscall
  <2> QED BY <2>1, <2>2
<1> QED BY <1>1, OneFinite, SendDoes DEF Does, Sound

-----------------------------------------------------------------------------
(* The steps of a session *)

Executes ==
  /\ cpu'.mem # cpu.mem => \E t \in Asked : t[1] = "M" /\ t[2] = cpu'.mem
  /\ cpu'.reg # cpu.reg => \E t \in Asked : t[1] \in {"G", "P"} /\ t[2] = cpu'.reg
  /\ stub.pc \in {"recv", "checksum"} /\ stub'.pc = "running" =>
       \E t \in Asked : t[1] \in {"c", "s"}

LEMMA AskedTexts == ASSUME HostInv PROVE Asked \subseteq Seq(STRING)
<1>1. scenario.commands \in Seq(Seq(STRING)) /\ host.done \in 0..Len(scenario.commands)
  BY GdbSessionAssumption DEF HostInv
<1> QED BY <1>1 DEF Asked

LEMMA InitAsked == Init => AskedInv
<1> SUFFICES ASSUME Init PROVE AskedInv
  OBVIOUS
<1>1. IInv
  BY InitIInv
<1>2. HostInv
  <2>1. scenario \in Scenarios /\ scenario.commands \in Seq(Seq(STRING))
    BY GdbSessionAssumption DEF Init
  <2> QED BY <2>1 DEF Init, HostInv
<1>3. LineInv
  <2>1. stub.csum_rx = <<>> /\ stub.sent = <<>> /\ toStub = <<>> /\ uart = <<>> /\ ring = <<>>
    BY DEF Init, NoText
  <2> QED BY <2>1 DEF LineInv, Finite
<1> QED BY <1>1, <1>2, <1>3 DEF AskedInv

LEMMA WorldSound == AskedInv => Sound(World, Asked) /\ World.stub = stub /\ World.cpu = cpu
BY WorldValid DEF AskedInv, LineInv, Sound, World, Finite

\* Whatever a call does, the characters that wait are the debugger's, or the line's.
LEMMA BecomesLine ==
  ASSUME AskedInv, NEW w, Finite(w.out), NEW held \in Seq(CharsOf(Asked)),
         NEW n \in 0..1, n <= Len(arrived), Becomes(w, held, n)
  PROVE  /\ ring' \in Seq(CharsOf(Asked)) /\ uart' \in Seq(CharsOf(Asked))
         /\ toStub' \in Seq(CharsOf(Asked)) /\ stub' = w.stub /\ cpu' = w.cpu
<1> DEFINE C == CharsOf(Asked)
           a == arrived
<1>1. uart \in Seq(C) /\ toStub \in Seq(C)
  BY DEF AskedInv, LineInv
<1>2. a \in Seq(C)
  <2> HIDE DEF C
  <2> QED BY <1>1 DEF arrived
<1> HIDE DEF C, a
<1>3. Len(w.out) \in Nat /\ Len(a) \in Nat
  BY <1>2, FiniteLen
<1>4. PICK m \in {0, Least(Len(w.out), Len(a) - n)} :
        /\ ring' = Polled(held, SubSeq(a, n + 1, n + m))
        /\ Takeoff(n + m)
  BY DEF Becomes, a
<1>5. m \in Nat /\ n + m <= Len(a)
  BY <1>3, <1>4 DEF Least, a
<1>6. SubSeq(a, n + 1, n + m) \in Seq(C)
  BY <1>2, <1>5
<1>7. ring' \in Seq(C)
  BY <1>4, <1>6, PolledChars DEF C
<1>8. uart' \in Seq(C) /\ toStub' \in Seq(C)
  <2>1. CASE n + m = 0
    BY <1>1, <1>4, <2>1 DEF Takeoff
  <2>2. CASE n + m # 0
    <3>1. uart' = <<>> /\ toStub' = SubSeq(a, (n + m) + 1, Len(a))
      BY <1>4, <2>2 DEF Takeoff, a
    <3>2. SubSeq(a, (n + m) + 1, Len(a)) \in Seq(C)
      BY <1>2, <1>5
    <3> QED BY <3>1, <3>2
  <2> QED BY <2>1, <2>2
<1> QED BY <1>7, <1>8 DEF C, Becomes

\* A call that does no more than it may leaves the session as it should be.
LEMMA CallKeeps ==
  ASSUME AskedInv, UNCHANGED <<host, scenario>>, NEW w, Does(World, w, Asked),
         NEW held \in Seq(CharsOf(Asked)), NEW n \in 0..1, n <= Len(arrived), Becomes(w, held, n)
  PROVE  HostInv' /\ LineInv' /\ Executes
<1>1. Asked' = Asked
  BY DEF Asked
<1>2. /\ ring' \in Seq(CharsOf(Asked)) /\ uart' \in Seq(CharsOf(Asked))
      /\ toStub' \in Seq(CharsOf(Asked)) /\ stub' = w.stub /\ cpu' = w.cpu
  BY BecomesLine DEF Does
<1>3. HostInv'
  BY <1>1 DEF AskedInv, HostInv
<1>4. CharsOf(Asked)' = CharsOf(Asked)
  BY <1>1 DEF CharsOf
<1>5. LineInv'
  BY <1>2, <1>4 DEF LineInv, Does, Finite
<1>6. Executes
  BY <1>2, WorldSound DEF Executes, Does
<1> QED BY <1>3, <1>5, <1>6

LEMMA ArrivedChars == AskedInv => arrived \in Seq(CharsOf(Asked)) /\ Len(arrived) \in Nat
<1> DEFINE C == CharsOf(Asked)
<1> SUFFICES ASSUME AskedInv PROVE arrived \in Seq(C) /\ Len(arrived) \in Nat
  OBVIOUS
<1>1. uart \in Seq(C) /\ toStub \in Seq(C)
  BY DEF AskedInv, LineInv
<1> HIDE DEF C
<1> QED BY <1>1 DEF arrived

LEMMA GetcharExecutes ==
  ASSUME AskedInv, Getchar
  PROVE  HostInv' /\ LineInv' /\ Executes
<1> DEFINE C == CharsOf(Asked)
<1>1. PICK n \in 0..1 :
        /\ n <= Len(arrived)
        /\ LET held == Polled(ring, SubSeq(arrived, 1, n))
           IN IF held # <<>>
              THEN LET w == Takes(World, Head(held)) IN Becomes(w, Tail(held), n)
              ELSE Becomes(World, held, n)
  BY DEF Getchar
<1> DEFINE held == Polled(ring, SubSeq(arrived, 1, n))
<1>2. held \in Seq(C)
  <2>1. arrived \in Seq(C) /\ ring \in Seq(C)
    BY ArrivedChars DEF AskedInv, LineInv
  <2> HIDE DEF C
  <2>2. SubSeq(arrived, 1, n) \in Seq(C)
    BY <1>1, <2>1
  <2> QED BY <2>1, <2>2, PolledChars
<1>3. UNCHANGED <<host, scenario>>
  BY DEF Getchar
<1>4. CASE held # <<>>
  <2>1. Becomes(Takes(World, Head(held)), Tail(held), n)
    BY <1>1, <1>4
  <2> HIDE DEF held
  <2>2. Head(held) \in C /\ Tail(held) \in Seq(C)
    <3> HIDE DEF C
    <3> QED BY <1>2, <1>4
  <2>3. Asked \subseteq Seq(STRING)
    BY AskedTexts DEF AskedInv
  <2>4. Sound(World, Asked) /\ World.stub.pc \in {"recv", "checksum", "sent"}
    BY WorldSound DEF Getchar
  <2>5. Does(World, Takes(World, Head(held)), Asked)
    BY <2>2, <2>3, <2>4, TakesDoes
  <2> QED BY <1>1, <1>3, <2>1, <2>2, <2>5, CallKeeps
<1>5. CASE held = <<>>
  <2>1. Becomes(World, held, n)
    BY <1>1, <1>5
  <2>2. Does(World, World, Asked)
    <3>1. Sound(World, Asked) /\ (World.stub.pc = "running" => World.stub.pc \notin {"recv", "checksum"})
      BY WorldSound
    <3> QED BY <3>1 DEF Does, Sound
  <2> HIDE DEF held
  <2> QED BY <1>1, <1>2, <1>3, <2>1, <2>2, CallKeeps
<1> QED BY <1>4, <1>5

LEMMA StopsExecutes ==
  ASSUME AskedInv, UNCHANGED <<host, scenario>>, NEW w, Does(World, w, Asked), Becomes(w, ring, 0)
  PROVE  HostInv' /\ LineInv' /\ Executes
<1>1. ring \in Seq(CharsOf(Asked)) /\ 0 <= Len(arrived)
  BY ArrivedChars DEF AskedInv, LineInv
<1> QED BY <1>1, CallKeeps

LEMMA StubExecutes ==
  ASSUME AskedInv, Stub
  PROVE  HostInv' /\ LineInv' /\ Executes
<1>0. Sound(World, Asked) /\ World.stub = stub /\ World.cpu = cpu
  BY WorldSound
<1>1. CASE Getchar
  BY <1>1, GetcharExecutes
<1>2. CASE Boot \/ Trap
  <2>1. Does(World, gdb_exception(World), Asked)
    BY <1>0, <1>2, ExceptionDoes DEF Boot, Trap
  <2> QED BY <1>2, <2>1, StopsExecutes DEF Boot, Trap, Stops
<1>3. CASE StepDone
  <2> DEFINE u == [World EXCEPT !.cpu.step = FALSE]
  <2>1. u.out = World.out /\ u.stub = World.stub /\ u.cpu.mem = cpu.mem /\ u.cpu.reg = cpu.reg
    BY <1>0 DEF Sound, Valid, Ready, Formed, CpuFields
  <2>2. Valid(u)
    BY <1>0, <1>3 DEF StepDone, Sound, Valid, Ready, Formed, Enabled, Marked, Settled, CpuFields
  <2>3. Becomes(gdb_exception(u), ring, 0) /\ UNCHANGED <<host, scenario>> /\ stub.pc = "running"
    BY <1>3 DEF StepDone, Stops
  <2> HIDE DEF u
  <2>4. Sound(u, Asked) /\ u.stub.pc = "running"
    BY <1>0, <2>1, <2>2, <2>3 DEF Sound
  <2>5. Does(u, gdb_exception(u), Asked)
    BY <2>4, ExceptionDoes
  <2>6. Does(World, gdb_exception(u), Asked)
    BY <1>0, <2>1, <2>5 DEF Does
  <2> QED BY <2>3, <2>6, StopsExecutes
<1>4. CASE Syscall
  <2>1. PICK n \in 1..3 : Becomes(gdb_syscall(World, n), ring, 0)
    BY <1>4 DEF Syscall
  <2>2. Does(World, gdb_syscall(World, n), Asked)
    BY <1>0, <1>4, SyscallDoes DEF Syscall
  <2> QED BY <1>4, <2>1, <2>2, StopsExecutes DEF Syscall
<1>5. CASE Overrun
  <2> DEFINE C == CharsOf(Asked)
  <2>1. Asked' = Asked
    BY <1>5 DEF Overrun, Asked
  <2>2. C' = C
    BY <2>1 DEF CharsOf
  <2>3. toStub \in Seq(C) /\ toStub # <<>>
    BY <1>5 DEF Overrun, AskedInv, LineInv
  <2>4. <<Head(toStub)>> \in Seq(C) /\ Tail(toStub) \in Seq(C)
    <3> HIDE DEF C
    <3> QED BY <2>3
  <2>5. LineInv'
    BY <1>5, <2>2, <2>4 DEF Overrun, LineInv, AskedInv, Finite
  <2>6. HostInv' /\ Executes
    BY <1>5, <2>1 DEF Overrun, AskedInv, HostInv, Executes
  <2> QED BY <2>5, <2>6
<1> QED BY <1>1, <1>2, <1>3, <1>4, <1>5 DEF Stub

\* The debugger's packets name what it has asked for.
LEMMA Sending ==
  ASSUME AskedInv, HostInv', Asked \subseteq Asked', UNCHANGED <<stub, cpu, ring, uart>>,
         NEW chars \in Seq(CharsOf(Asked)'), toStub' = toStub \o chars
  PROVE  LineInv' /\ Executes
<1> DEFINE C == CharsOf(Asked)
           D == CharsOf(Asked')
<1>1. Seq(C) \subseteq Seq(D)
  BY CharsGrow
<1>2. CharsOf(Asked)' = D
  BY DEF CharsOf
<1>3. toStub \in Seq(D) /\ uart \in Seq(D) /\ ring \in Seq(D) /\ stub.csum_rx \in Seq(D)
  BY <1>1 DEF AskedInv, LineInv
<1>4. toStub' \in Seq(D)
  <2>1. chars \in Seq(D)
    BY <1>2
  <2> HIDE DEF D
  <2> QED BY <1>3, <2>1
<1>5. LineInv'
  BY <1>2, <1>3, <1>4 DEF LineInv, AskedInv, Finite
<1> QED BY <1>5 DEF Executes

\* a step that keeps what the debugger has asked for, and waits for no other '+'
Steady == /\ UNCHANGED scenario
          /\ {"state", "done", "command"} \subseteq DOMAIN host'
          /\ host'.done = host.done
          /\ host'.state = "ack" => host.state = "ack" /\ host'.command = host.command

LEMMA SteadyKeeps == AskedInv /\ Steady => HostInv' /\ Asked' = Asked
<1> SUFFICES ASSUME AskedInv, Steady PROVE HostInv' /\ Asked' = Asked
  OBVIOUS
<1>1. Asked' = Asked
  BY DEF Steady, Asked
<1> QED BY <1>1 DEF Steady, AskedInv, HostInv

LEMMA HostExecutes ==
  ASSUME AskedInv, Host
  PROVE  HostInv' /\ LineInv' /\ Executes
<1> DEFINE C == CharsOf(Asked)'
<1>0. <<>> \in Seq(C) /\ <<Ch("+")>> \in Seq(C) /\ <<Ch("-")>> \in Seq(C) /\ <<Ch("interrupt")>> \in Seq(C)
  <2>1. C = CharsOf(Asked')
    BY DEF CharsOf
  <2>2. <<>> \in Seq(C)
    OBVIOUS
  <2>3. "+" \in Kinds /\ "-" \in Kinds /\ "interrupt" \in Kinds
    BY DEF Kinds
  <2>4. "+" # "high" /\ "-" # "high" /\ "interrupt" # "high"
    OBVIOUS
  <2> HIDE DEF C
  <2> QED BY <2>1, <2>2, <2>3, <2>4, PlainChars
<1>1. ASSUME NEW h, NEW chars \in Seq(C), HostSends(h, chars), Steady
      PROVE  HostInv' /\ LineInv' /\ Executes
  <2>1. HostInv' /\ Asked' = Asked
    BY <1>1, SteadyKeeps
  <2>2. UNCHANGED <<stub, cpu, ring, uart>> /\ toStub' = toStub \o chars
    BY <1>1 DEF HostSends, device
  <2> HIDE DEF C
  <2> QED BY <2>1, <2>2, Sending DEF C
<1> HIDE DEF C
<1>2. CASE Connect
  <2>1. HostSends([host EXCEPT !.state = "idle"], <<Ch("+")>>)
    BY <1>2 DEF Connect
  <2>2. Steady
    BY <2>1 DEF Steady, HostSends, AskedInv, HostInv
  <2> QED BY <1>0, <1>1, <2>1, <2>2
<1>3. CASE Ask
  <2> DEFINE c == scenario.commands[host.done + 1]
  <2>1. PICK h : /\ HostSends(h, Frame(c)) /\ {"state", "done", "command"} \subseteq DOMAIN h
                 /\ h.done = host.done + 1 /\ h.command = c
    <3> DEFINE h == [host EXCEPT !.state = "ack", !.done = @ + 1, !.command = c, !.answer = NoText,
                               !.frame = <<>>,
                               !.mem = IF c[1] = "M" THEN c[2] ELSE @,
                               !.reg = IF c[1] = "G" \/ (c[1] = "P" /\ c[2] \notin {"99", "SR"})
                                       THEN c[2] ELSE @]
    <3>1. HostSends(h, Frame(c))
      BY <1>3 DEF Ask
    <3>2. {"state", "done", "command"} \subseteq DOMAIN h /\ h.done = host.done + 1 /\ h.command = c
      BY DEF AskedInv, HostInv
    <3> HIDE DEF h
    <3> QED BY <3>1, <3>2
  <2>2. host' = h /\ UNCHANGED scenario
    BY <2>1 DEF HostSends
  <2>3. host.done + 1 \in 1..Len(scenario.commands) /\ host.done \in Nat
        /\ scenario.commands \in Seq(Seq(STRING))
    BY <1>3, GdbSessionAssumption DEF Ask, AskedInv, HostInv
  <2>4. Asked \subseteq Asked' /\ c \in Asked'
    BY <2>1, <2>2, <2>3 DEF Asked
  <2> HIDE DEF c
  <2>5. HostInv'
    BY <2>1, <2>2, <2>3, <2>4 DEF HostInv, AskedInv
  <2>6. Frame(c) \in Seq(C)
    <3>1. Asked' \subseteq Seq(STRING)
      <4>1. scenario'.commands \in Seq(Seq(STRING)) /\ host'.done \in 0..Len(scenario'.commands)
        BY <2>5, GdbSessionAssumption DEF HostInv
      <4> QED BY <4>1 DEF Asked
    <3>2. Frame(c) \in Seq(CharsOf(Asked'))
      BY <2>4, <3>1, FrameNames
    <3> QED BY <3>2 DEF C, CharsOf
  <2>7. UNCHANGED <<stub, cpu, ring, uart>> /\ toStub' = toStub \o Frame(c)
    BY <2>1 DEF HostSends, device
  <2> QED BY <2>4, <2>5, <2>6, <2>7, Sending DEF C
<1>4. CASE HostGets
  <2> DEFINE c == Head(toHost)
             f == Append(host.frame, c)
             h == [host EXCEPT !.frame = <<>>]
             Quietly == {host, [host EXCEPT !.frame = f], h,
                         [h EXCEPT !.state = "over", !.answer = TextOf(f)],
                         [h EXCEPT !.state = "idle", !.answer = TextOf(f)],
                         [host EXCEPT !.state = "answer"]}
  <2>1. \E x \in Quietly, chars \in {<<>>, <<Ch("+")>>, <<Ch("-")>>} : HostSends(x, chars)
    BY <1>4 DEF HostGets
  <2>2. PICK x \in Quietly, chars \in {<<>>, <<Ch("+")>>, <<Ch("-")>>} : HostSends(x, chars)
    BY <2>1
  <2>3. /\ {"state", "done", "command"} \subseteq DOMAIN x
        /\ x.done = host.done /\ x.command = host.command
        /\ x.state = "ack" => host.state = "ack"
    <3>1. {"state", "done", "command"} \subseteq DOMAIN host
      BY DEF AskedInv, HostInv
    <3> QED BY <2>2, <3>1
  <2>4. Steady
    BY <2>2, <2>3 DEF Steady, HostSends
  <2> QED BY <1>0, <1>1, <2>2, <2>4
<1>5. CASE HostTimesOut
  <2> DEFINE h == [host EXCEPT !.frame = <<>>]
  <2>1. PICK chars \in {Frame(host.command), <<Ch("-")>>} :
          HostSends(h, chars) /\ (chars = <<Ch("-")>> \/ host.state = "ack")
    BY <1>5 DEF HostTimesOut
  <2>2. Steady
    BY <2>1 DEF Steady, HostSends, AskedInv, HostInv
  <2>3. HostInv' /\ Asked' = Asked
    BY <2>2, SteadyKeeps
  <2>4. chars \in Seq(C)
    <3>1. CASE chars = <<Ch("-")>>
      BY <1>0, <3>1
    <3>2. CASE host.state = "ack" /\ chars = Frame(host.command)
      <4>1. host.command \in Asked /\ Asked \subseteq Seq(STRING)
        BY <3>2, AskedTexts DEF AskedInv, HostInv
      <4>2. chars \in Seq(CharsOf(Asked'))
        BY <2>3, <3>2, <4>1, FrameNames
      <4> QED BY <4>2 DEF C, CharsOf
    <3> QED BY <2>1, <3>1, <3>2
  <2> HIDE DEF h
  <2> QED BY <1>1, <2>1, <2>2, <2>4
<1>6. CASE UserInterrupts
  <2>1. toStub = <<>> /\ toStub' = <<Ch("interrupt")>> /\ UNCHANGED <<stub, cpu, ring, uart>>
    BY <1>6 DEF UserInterrupts, Quiet, device
  <2>2. Steady
    BY <1>6 DEF UserInterrupts, Steady, AskedInv, HostInv
  <2>3. HostInv' /\ Asked' = Asked
    BY <2>2, SteadyKeeps
  <2>4. toStub' = toStub \o <<Ch("interrupt")>>
    BY <2>1
  <2> QED BY <1>0, <2>1, <2>3, <2>4, Sending DEF C
<1> QED BY <1>2, <1>3, <1>4, <1>5, <1>6 DEF Host

\* The line has no digits of its own.
LEMMA DamageExecutes ==
  ASSUME AskedInv, Damage
  PROVE  HostInv' /\ LineInv' /\ Executes
<1> DEFINE C == CharsOf(Asked)
<1>1. Steady /\ UNCHANGED <<stub, cpu, ring, uart>>
  BY DEF Damage, Steady, AskedInv, HostInv, device
<1>2. HostInv' /\ Asked' = Asked
  BY <1>1, SteadyKeeps
<1>3. toStub \in Seq(C)
  BY DEF AskedInv, LineInv
<1>4. PICK c \in {<<>>} \cup {<<Ch(k)>> : k \in {"noise", "$", "#"}} :
        toStub' = toStub \/ \E i \in DOMAIN toStub : toStub' = Damaged(toStub, i, c)
  BY DEF Damage
<1>5. c \in Seq(C)
  <2>1. \A k \in {"noise", "$", "#"} : <<Ch(k)>> \in Seq(C)
    BY PlainChars DEF Kinds
  <2>2. <<>> \in Seq(C)
    OBVIOUS
  <2> HIDE DEF C
  <2> QED BY <2>1, <2>2
<1>6. toStub' \in Seq(C)
  <2> HIDE DEF C
  <2>1. ASSUME NEW i \in DOMAIN toStub PROVE Damaged(toStub, i, c) \in Seq(C)
    <3>1. SubSeq(toStub, 1, i - 1) \in Seq(C) /\ SubSeq(toStub, i + 1, Len(toStub)) \in Seq(C)
      BY <1>3
    <3> HIDE DEF Damaged
    <3> QED BY <1>5, <3>1 DEF Damaged
  <2> QED BY <1>3, <1>4, <2>1
<1>7. CharsOf(Asked)' = C
  BY <1>2 DEF CharsOf
<1>8. LineInv'
  BY <1>1, <1>6, <1>7 DEF LineInv, AskedInv, Finite
<1> QED BY <1>1, <1>2, <1>8 DEF Executes

\* What a checksum's digits name, wherever they are on their way to the stub, is a
\* command the debugger has sent in this session.
THEOREM DigitsNameCommands == Spec => []AskedInv
<1>1. AskedInv /\ [Next]_vars => AskedInv'
  <2>1. ASSUME AskedInv, Next PROVE AskedInv'
    <3>1. IInv'
      BY <2>1, StubStep, HostStep DEF Next, AskedInv
    <3> QED BY <2>1, <3>1, StubExecutes, HostExecutes, DamageExecutes DEF Next, AskedInv
  <2>2. ASSUME AskedInv, UNCHANGED vars PROVE AskedInv'
    <3>1. CharsOf(Asked)' = CharsOf(Asked)
      BY <2>2 DEF vars, CharsOf, Asked
    <3> QED BY <2>2, <3>1 DEF vars, device, line, AskedInv, IInv, HostInv, LineInv, Asked, Finite
  <2> QED BY <2>1, <2>2
<1> QED BY <1>1, InitAsked, PTL DEF Spec

\* The stub writes to a register or memory only what a command of this session says,
\* and lets the program go on only when one asks for it: however many characters the
\* line loses or damages, however its packets are repeated, mixed with each other or
\* cut by the ring buffer, no other command comes out of it (gdb.c:213-289, 490-614).
THEOREM ExecutesOnlyAsked == Spec => [][Executes]_vars
<1>1. AskedInv /\ [Next]_vars => [Executes]_vars
  BY StubExecutes, HostExecutes, DamageExecutes DEF Next
<1> QED BY <1>1, DigitsNameCommands, PTL DEF Spec
-----------------------------------------------------------------------------
(* A session without mishaps *)

\* a command gdb sends that fits the buffer; "O" is no value of a register or of memory
Proper(c) ==
  /\ c \in Seq(STRING) /\ c # <<>> /\ Len(c) + 1 < MAX_BUF_SIZE
  /\ c[1] \in {"G", "p", "P", "M"} => Len(c) = 2 /\ c[2] # "O"

\* the debugger asks such commands only, and the ring holds a character
ProperSessions ==
  /\ MAX_RX_BUF > 1
  /\ \A s \in Scenarios : \A i \in 1..Len(s.commands) : Proper(s.commands[i])

\* the acknowledgement of either end, before what follows it
Opening == <<Ch("+")>>

\* what is left of a packet when so many of its characters have been taken, and those
Left(text, j)  == SubSeq(Frame(text), j + 1, Len(text) + 4)
Taken(text, j) == SubSeq(Frame(text), 1, j)

Cat(s, t) == s \o t
Joins(u, s, t, S) ==
  /\ u \in Seq(S) /\ Len(u) = Len(s) + Len(t)
  /\ \A i \in 1..Len(s) : u[i] = s[i]
  /\ \A i \in 1..Len(t) : u[Len(s) + i] = t[i]
LEMMA CatIs ==
  ASSUME NEW S, NEW s \in Seq(S), NEW t \in Seq(S) PROVE Joins(Cat(s, t), s, t, S)
BY DEF Cat, Joins

\* what a packet is made of
LEMMA FrameIs ==
  ASSUME NEW text, Finite(text)
  PROVE  LET F == Frame(text)
             n == Len(text)
         IN /\ n \in Nat /\ Finite(F) /\ Len(F) = n + 4 /\ F[1] = Ch("$") /\ F[n + 2] = Ch("#")
            /\ F[n + 3] = High(text) /\ F[n + 4] = Low(text)
            /\ Len(Body(text)) = n /\ Finite(Body(text))
            /\ \A i \in 1..n : F[i + 1] = Body(text)[i] /\ F[i + 1].kind = "text"
<1> DEFINE b == Body(text)
           n == Len(text)
           D == {Ch("$"), Ch("#"), High(text), Low(text)} \cup {b[i] : i \in 1..n}
           p == <<Ch("$")>>
           q == <<Ch("#"), High(text), Low(text)>>
<1>1. DOMAIN text = 1..n /\ n \in Nat
  BY DEF Finite
<1>2. b = [i \in 1..n |-> [kind |-> "text", of |-> <<text[i]>>]]
  BY <1>1 DEF Body
<1>3. b \in Seq(D) /\ Len(b) = n /\ \A i \in 1..n : b[i].kind = "text"
  <2>1. \A i \in 1..n : b[i] \in D /\ b[i].kind = "text"
    BY <1>2
  <2>2. b \in [1..n -> D]
    <3> HIDE DEF D
    <3> QED BY <1>2, <2>1
  <2> HIDE DEF D, b
  <2> QED BY <1>1, <2>1, <2>2
<1>4. p \in Seq(D) /\ q \in Seq(D) /\ Len(p) = 1 /\ Len(q) = 3
      /\ p[1] = Ch("$") /\ q[1] = Ch("#") /\ q[2] = High(text) /\ q[3] = Low(text)
  <2>1. {Ch("$"), Ch("#"), High(text), Low(text)} \subseteq D
    OBVIOUS
  <2> HIDE DEF D
  <2> QED BY <2>1
<1> DEFINE F == Frame(text)
           pb == Cat(p, b)
<1>5. F = Cat(pb, q)
  BY DEF Frame, Cat
<1> HIDE DEF D, b, p, q, n, pb, F
<1>6. pb \in Seq(D) /\ Len(pb) = n + 1 /\ pb[1] = Ch("$") /\ \A i \in 1..n : pb[i + 1] = b[i]
  <2>1. /\ pb \in Seq(D) /\ Len(pb) = Len(p) + Len(b)
        /\ \A i \in 1..Len(p) : pb[i] = p[i]
        /\ \A i \in 1..Len(b) : pb[Len(p) + i] = b[i]
    <3>1. p \in Seq(D) /\ b \in Seq(D)
      BY <1>3, <1>4
    <3>2. Joins(pb, p, b, D)
      BY ONLY <3>1, CatIs DEF pb
    <3> QED BY <3>2 DEF Joins
  <2>2. \A i \in 1..n : pb[i + 1] = b[i]
    BY <1>1, <1>3, <1>4, <2>1
  <2> QED BY <1>1, <1>3, <1>4, <2>1, <2>2
<1>8. /\ F \in Seq(D) /\ Len(F) = n + 4
      /\ \A i \in 1..(n + 1) : F[i] = pb[i]
      /\ \A i \in 1..3 : F[(n + 1) + i] = q[i]
  <2>1. /\ F \in Seq(D) /\ Len(F) = Len(pb) + Len(q)
        /\ \A i \in 1..Len(pb) : F[i] = pb[i]
        /\ \A i \in 1..Len(q) : F[Len(pb) + i] = q[i]
    <3>1. pb \in Seq(D) /\ q \in Seq(D)
      BY <1>4, <1>6
    <3>2. Joins(F, pb, q, D)
      BY ONLY <3>1, <1>5, CatIs
    <3> QED BY <3>2 DEF Joins
  <2> QED BY <1>1, <1>4, <1>6, <2>1
<1>9. F[1] = Ch("$") /\ F[n + 2] = Ch("#") /\ F[n + 3] = High(text) /\ F[n + 4] = Low(text)
  <2>2. (n + 1) + 1 = n + 2 /\ (n + 1) + 2 = n + 3 /\ (n + 1) + 3 = n + 4
    BY <1>1
  <2>3. F[1] = pb[1]
    BY <1>1, <1>8
  <2>4. F[(n + 1) + 1] = q[1] /\ F[(n + 1) + 2] = q[2] /\ F[(n + 1) + 3] = q[3]
    BY <1>8
  <2> QED BY <1>4, <1>6, <2>2, <2>3, <2>4
<1>10. \A i \in 1..n : F[i + 1] = b[i]
  BY <1>1, <1>6, <1>8
<1>11. Finite(F) /\ Finite(b)
  BY <1>3, <1>8, FiniteSeq
<1> QED BY <1>1, <1>3, <1>8, <1>9, <1>10, <1>11 DEF F, n, b

\* A packet is taken character by character.
LEMMA LeftIs ==
  ASSUME NEW text, Finite(text), NEW j \in 0..(Len(text) + 3)
  PROVE  /\ Left(text, j) # <<>> /\ Head(Left(text, j)) = Frame(text)[j + 1]
         /\ Tail(Left(text, j)) = Left(text, j + 1)
         /\ Finite(Left(text, j)) /\ Len(Left(text, j)) = Len(text) + 4 - j
         /\ Append(Taken(text, j), Frame(text)[j + 1]) = Taken(text, j + 1)
         /\ Len(Taken(text, j + 1)) = j + 1
         /\ \A i \in 1..(j + 1) : Taken(text, j + 1)[i] = Frame(text)[i]
<1> DEFINE F == Frame(text)
           n == Len(text)
           S == {F[i] : i \in DOMAIN F}
<1>1. n \in Nat /\ Len(F) = n + 4 /\ F \in Seq(S)
  BY FrameIs DEF Finite
<1> HIDE DEF F, n, S
<1>2. j \in Nat /\ j + 1 <= n + 4
  BY <1>1 DEF n
<1>3. SubSeq(F, j + 1, n + 4) \in Seq(S) /\ Len(SubSeq(F, j + 1, n + 4)) = n + 4 - j
      /\ SubSeq(F, j + 1, n + 4) # <<>>
  BY <1>1, <1>2
<1>4. Head(SubSeq(F, j + 1, n + 4)) = F[j + 1]
  BY <1>1, <1>2
<1>5. Tail(SubSeq(F, j + 1, n + 4)) = SubSeq(F, (j + 1) + 1, n + 4)
  BY <1>1, <1>2
<1>6. Append(SubSeq(F, 1, j), F[j + 1]) = SubSeq(F, 1, j + 1) /\ Len(SubSeq(F, 1, j + 1)) = j + 1
      /\ \A i \in 1..(j + 1) : SubSeq(F, 1, j + 1)[i] = F[i]
  BY <1>1, <1>2
<1>7. Finite(SubSeq(F, j + 1, n + 4))
  BY <1>3, FiniteSeq
<1> QED BY <1>3, <1>4, <1>5, <1>6, <1>7 DEF Left, Taken, F, n

LEMMA LeftEnds ==
  ASSUME NEW text, Finite(text)
  PROVE  /\ Left(text, 0) = Frame(text) /\ Left(text, Len(text) + 4) = <<>>
         /\ Taken(text, 0) = <<>> /\ Taken(text, Len(text) + 4) = Frame(text)
<1> DEFINE F == Frame(text)
           n == Len(text)
           S == {F[i] : i \in DOMAIN F}
<1>1. n \in Nat /\ Len(F) = n + 4 /\ F \in Seq(S)
  BY FrameIs DEF Finite
<1> HIDE DEF F, n, S
<1>2. SubSeq(F, 0 + 1, n + 4) = F /\ SubSeq(F, (n + 4) + 1, n + 4) = <<>>
      /\ SubSeq(F, 1, 0) = <<>> /\ SubSeq(F, 1, n + 4) = F
  BY <1>1
<1> QED BY <1>2 DEF Left, Taken, F, n

\* what the stub keeps of a packet's text
LEMMA BodyTaken ==
  ASSUME NEW text, Finite(text)
  PROVE  /\ \A j \in 1..Len(text) :
              /\ Append(SubSeq(Body(text), 1, j - 1), Frame(text)[j + 1]) = SubSeq(Body(text), 1, (j + 1) - 1)
              /\ Len(SubSeq(Body(text), 1, j - 1)) = j - 1
         /\ SubSeq(Body(text), 1, 0) = <<>> /\ SubSeq(Body(text), 1, Len(text)) = Body(text)
         /\ SubSeq(Frame(text), 2, Len(text) + 1) = Body(text)
<1> DEFINE b == Body(text)
           n == Len(text)
           F == Frame(text)
           S == {b[i] : i \in DOMAIN b}
           R == {F[i] : i \in DOMAIN F}
<1>1. n \in Nat /\ Len(b) = n /\ b \in Seq(S) /\ F \in Seq(R) /\ Len(F) = n + 4
      /\ \A i \in 1..n : F[i + 1] = b[i]
  BY FrameIs DEF Finite
<1> HIDE DEF b, n, S, F, R
<1>2. SubSeq(b, 1, 0) = <<>> /\ SubSeq(b, 1, n) = b
  BY <1>1
<1>3. ASSUME NEW j \in 1..n
      PROVE  /\ Append(SubSeq(b, 1, j - 1), b[j]) = SubSeq(b, 1, (j + 1) - 1)
             /\ Len(SubSeq(b, 1, j - 1)) = j - 1
  BY <1>1
<1>4. SubSeq(F, 2, n + 1) = b
  <2> DEFINE g == SubSeq(F, 2, n + 1)
  <2>1. g \in Seq(R) /\ Len(g) = n /\ \A i \in 1..n : g[i] = F[i + 1]
    BY <1>1
  <2> HIDE DEF g
  <2>2. g = b
    BY <1>1, <2>1
  <2> QED BY <2>2 DEF g
<1> QED BY <1>1, <1>2, <1>3, <1>4 DEF b, n, F

\* A ring that is read at once holds what is polled into it.
LEMMA PolledShort ==
  ASSUME NEW r, NEW chars, Len(chars) \in {0, 1}
  PROVE  Polled(r, chars) = IF Len(chars) = 0 THEN r ELSE gdb_pollrx(r, chars[1])
<1> DEFINE N == Len(chars)
           E(g) == [i \in 0..N |-> IF i = 0 THEN r ELSE gdb_pollrx(g[i - 1], chars[i])]
           F == CHOOSE g : g = E(g)
           G == [i \in 0..N |-> IF i = 0 THEN r ELSE gdb_pollrx(r, chars[1])]
<1>1. N \in {0, 1}
  OBVIOUS
<1> HIDE DEF N
<1>2. G = E(G)
  <2>1. \A i \in 0..N : G[i] = IF i = 0 THEN r ELSE gdb_pollrx(G[i - 1], chars[i])
    <3> SUFFICES ASSUME NEW i \in 0..N
                 PROVE  G[i] = IF i = 0 THEN r ELSE gdb_pollrx(G[i - 1], chars[i])
      OBVIOUS
    <3>1. CASE i = 0
      BY <3>1, <1>1
    <3>2. CASE i = 1
      <4>1. G[0] = r /\ G[1] = gdb_pollrx(r, chars[1])
        BY <1>1, <3>2
      <4> HIDE DEF G
      <4> QED BY <4>1, <3>2
    <3> QED BY <3>1, <3>2, <1>1
  <2> QED BY <2>1
<1>3. F = E(F)
  <2> HIDE DEF G, E
  <2> QED BY <1>2
<1>4. \A i \in 0..N : F[i] = IF i = 0 THEN r ELSE gdb_pollrx(F[i - 1], chars[i])
  <2> HIDE DEF F
  <2> QED BY <1>3
<1>5. Polled(r, chars) = F[N]
  BY DEF Polled, N
<1> HIDE DEF F
<1>6. F[0] = r /\ (N = 1 => F[1] = gdb_pollrx(F[0], chars[1]))
  BY <1>1, <1>4
<1> QED BY <1>1, <1>5, <1>6 DEF N

LEMMA PolledIs ==
  /\ \A r : Polled(r, <<>>) = r
  /\ MAX_RX_BUF > 1 => \A c : Polled(<<>>, <<c>>) = <<c>>
<1>1. \A r : Polled(r, <<>>) = r
  <2>1. Len(<<>>) = 0
    OBVIOUS
  <2> QED BY <2>1, PolledShort
<1>2. ASSUME MAX_RX_BUF > 1, NEW c PROVE Polled(<<>>, <<c>>) = <<c>>
  <2>1. Len(<<c>>) = 1 /\ <<c>>[1] = c
    OBVIOUS
  <2>2. Polled(<<>>, <<c>>) = gdb_pollrx(<<>>, <<c>>[1])
    BY <2>1, PolledShort
  <2>3. gdb_pollrx(<<>>, c) = <<c>>
    BY <1>2, GdbAssumption DEF gdb_pollrx
  <2> QED BY <2>1, <2>2, <2>3
<1> QED BY <1>1, <1>2

\* nothing is waiting in the stub's buffers
Calm == ring = <<>> /\ uart = <<>>

LEMMA CalmArrived ==
  ASSUME Calm, Finite(toStub) PROVE arrived = toStub
<1>1. toStub \in Seq({toStub[i] : i \in DOMAIN toStub})
  BY DEF Finite
<1> QED BY <1>1 DEF arrived, Calm

\* What a call leaves when nothing comes while it sends.
LEMMA CalmBecomes ==
  ASSUME Calm, Finite(toStub), NEW w, Len(w.out) \in Nat, NEW n \in 0..1, n <= Len(toStub),
         Becomes(w, <<>>, n), w.out = <<>> \/ Len(toStub) = n
  PROVE  /\ stub' = w.stub /\ cpu' = w.cpu /\ toHost' = Cat(toHost, w.out)
         /\ Calm' /\ toStub' = IF n = 0 THEN toStub ELSE Tail(toStub)
<1> DEFINE S == {toStub[i] : i \in DOMAIN toStub}
<1>1. arrived = toStub /\ toStub \in Seq(S) /\ Len(toStub) \in Nat
  BY CalmArrived DEF Finite
<1>2. PICK m \in {0, Least(Len(w.out), Len(arrived) - n)} :
        /\ stub' = w.stub /\ cpu' = w.cpu /\ toHost' = Cat(toHost, w.out)
        /\ ring' = Polled(<<>>, SubSeq(arrived, n + 1, n + m))
        /\ Takeoff(n + m)
  BY DEF Becomes, Cat
<1>3. m = 0
  <2>1. Least(Len(w.out), Len(toStub) - n) = 0
    <3>1. CASE w.out = <<>>
      <4>1. Len(w.out) = 0
        BY <3>1
      <4> QED BY <4>1, <1>1 DEF Least
    <3>2. CASE Len(toStub) = n
      BY <3>2 DEF Least
    <3> QED BY <3>1, <3>2
  <2> QED BY <1>1, <1>2, <2>1
<1>4. SubSeq(toStub, n + 1, n + m) = <<>>
  <2> HIDE DEF S
  <2> QED BY <1>1, <1>3
<1>5. ring' = <<>>
  BY <1>1, <1>2, <1>4, PolledIs
<1>6. n + m = n
  BY <1>3
<1>7. Takeoff(n)
  BY <1>2, <1>6
<1>8. uart' = <<>> /\ toStub' = IF n = 0 THEN toStub ELSE Tail(toStub)
  <2>1. CASE n = 0
    BY <1>7, <2>1 DEF Takeoff, Calm
  <2>2. CASE n = 1
    <3>1. uart' = <<>> /\ toStub' = SubSeq(toStub, 1 + 1, Len(toStub))
      BY <1>1, <1>7, <2>2 DEF Takeoff
    <3>2. SubSeq(toStub, 1 + 1, Len(toStub)) = Tail(toStub)
      <4> HIDE DEF S
      <4> QED BY <1>1, <2>2
    <3> QED BY <2>2, <3>1, <3>2
  <2> QED BY <2>1, <2>2
<1> QED BY <1>2, <1>5, <1>8 DEF Calm

\* The stub takes the characters one by one, each when it comes.
LEMMA CalmGetchar ==
  ASSUME MAX_RX_BUF > 1, Calm, Finite(toStub), Getchar
  PROVE  /\ toStub # <<>>
         /\ LET w == Takes(World, Head(toStub))
            IN Len(w.out) \in Nat /\ (w.out = <<>> \/ Len(toStub) = 1) =>
                 /\ stub' = w.stub /\ cpu' = w.cpu /\ toHost' = Cat(toHost, w.out)
                 /\ Calm' /\ toStub' = Tail(toStub)
                 /\ resumed' = (resumed \/ (stub.pc = "checksum" /\ w.stub.pc = "running"))
         /\ stub.pc \in {"recv", "checksum", "sent"}
         /\ UNCHANGED <<host, scenario, mishaps, syscalls, ackLost>>
<1>1. arrived = toStub /\ Len(toStub) \in Nat
  BY CalmArrived, FiniteLen
<1>2. PICK n \in 0..1 :
       /\ n <= Len(arrived)
       /\ LET held == Polled(ring, SubSeq(arrived, 1, n))
          IN IF held # <<>>
             THEN LET w == Takes(World, Head(held))
                  IN /\ Becomes(w, Tail(held), n)
                     /\ resumed' = (resumed \/ (stub.pc = "checksum" /\ w.stub.pc = "running"))
             ELSE n = 1 /\ Becomes(World, held, n) /\ UNCHANGED resumed
  BY DEF Getchar
<1>3. n = 1
  <2> SUFFICES ASSUME n = 0 PROVE FALSE
    OBVIOUS
  <2>1. SubSeq(arrived, 1, n) = <<>>
    BY <1>1 DEF Finite
  <2>2. Polled(ring, SubSeq(arrived, 1, n)) = <<>>
    BY <2>1, PolledIs DEF Calm
  <2> QED BY <1>2, <2>2
<1>4. toStub # <<>>
  BY <1>1, <1>2, <1>3
<1>5. SubSeq(arrived, 1, n) = <<Head(toStub)>>
  <2> DEFINE S == {toStub[i] : i \in DOMAIN toStub}
  <2>1. toStub \in Seq(S)
    BY DEF Finite
  <2> HIDE DEF S
  <2>2. Len(toStub) >= 1
    BY <1>1, <1>2, <1>3
  <2>3. Len(SubSeq(toStub, 1, 1)) = 1 /\ SubSeq(toStub, 1, 1)[1] = toStub[1] /\ Head(toStub) = toStub[1]
        /\ SubSeq(toStub, 1, 1) \in Seq(S)
    BY <1>4, <2>1, <2>2
  <2> DEFINE q == SubSeq(toStub, 1, 1)
  <2> HIDE DEF q
  <2>4. q = <<q[1]>>
    <3>1. Len(q) = 1 /\ q \in Seq(S)
      BY <2>3 DEF q
    <3> QED BY <3>1
  <2> QED BY <1>1, <1>3, <2>3, <2>4 DEF q
<1>6. Polled(ring, SubSeq(arrived, 1, n)) = <<Head(toStub)>>
  BY <1>5, PolledIs DEF Calm
<1>7. <<Head(toStub)>> # <<>> /\ Head(<<Head(toStub)>>) = Head(toStub) /\ Tail(<<Head(toStub)>>) = <<>>
  OBVIOUS
<1> DEFINE w == Takes(World, Head(toStub))
<1>8. Becomes(w, <<>>, 1) /\ resumed' = (resumed \/ (stub.pc = "checksum" /\ w.stub.pc = "running"))
  BY <1>2, <1>3, <1>6, <1>7
<1> HIDE DEF w
<1>9. ASSUME Len(w.out) \in Nat, w.out = <<>> \/ Len(toStub) = 1
      PROVE  /\ stub' = w.stub /\ cpu' = w.cpu /\ toHost' = Cat(toHost, w.out)
             /\ Calm' /\ toStub' = Tail(toStub)
  <2>1. 1 \in 0..1 /\ 1 <= Len(toStub)
    BY <1>1, <1>2, <1>3
  <2> QED BY <1>8, <1>9, <2>1, CalmBecomes
<1> QED BY <1>4, <1>8, <1>9 DEF w, Getchar

\* A call that starts with nothing to read.
LEMMA CalmStops ==
  ASSUME Calm, toStub = <<>>, NEW w, Len(w.out) \in Nat, Becomes(w, ring, 0)
  PROVE  /\ stub' = w.stub /\ cpu' = w.cpu /\ toHost' = Cat(toHost, w.out)
         /\ Calm' /\ toStub' = <<>>
<1>1. Finite(toStub) /\ Len(toStub) = 0
  BY DEF Finite
<1>2. Becomes(w, <<>>, 0)
  BY DEF Calm
<1>3. 0 \in 0..1 /\ 0 <= Len(toStub)
  BY <1>1
<1> QED BY <1>1, <1>2, <1>3, CalmBecomes

\* A packet of the stub's.
LEMMA SendIs ==
  ASSUME NEW w, Valid(w), NEW text, NEW then
  PROVE  LET r == gdb_send(w, text, then)
         IN /\ r.out = Cat(w.out, Frame(text)) /\ r.cpu = w.cpu
            /\ r.stub.pc = "sent" /\ r.stub.sent = text /\ r.stub.then = then
            /\ r.stub.initial_trap = w.stub.initial_trap
<1> DEFINE o == Cat(w.out, Frame(text))
           r == gdb_send(w, text, then)
<1>1. r = [w EXCEPT !.out = o, !.stub.pc = "sent", !.stub.sent = text, !.stub.then = then]
  BY DEF gdb_send, Cat
<1> HIDE DEF o, r
<1>2. r.out = o /\ r.cpu = w.cpu /\ r.stub = [w.stub EXCEPT !.pc = "sent", !.sent = text, !.then = then]
  BY <1>1 DEF Valid
<1>3. r.stub.pc = "sent" /\ r.stub.sent = text /\ r.stub.then = then
      /\ r.stub.initial_trap = w.stub.initial_trap
  BY <1>2 DEF Valid, Ready, Formed, StubFields
<1> QED BY <1>2, <1>3 DEF o, r

\* The program goes on with registers and memory as they are.
LEMMA ReturnIs ==
  ASSUME NEW w, Valid(w), NEW stepping \in BOOLEAN
  PROVE  LET r == Return(w, stepping)
         IN /\ r.cpu.mem = w.cpu.mem /\ r.cpu.reg = w.cpu.reg /\ r.out = w.out
            /\ r.stub.pc = "running" /\ r.stub.initial_trap = w.stub.initial_trap
<1> DEFINE f == IF w.stub.flush_caches THEN gdb_flush_cache(w.cpu) ELSE w.cpu
           g == [f EXCEPT !.step = @ \/ stepping, !.dbgen = @ \/ stepping]
<1>1. CpuFields \subseteq DOMAIN f /\ f.mem = w.cpu.mem /\ f.reg = w.cpu.reg
  BY DEF Valid, Ready, Formed, gdb_flush_cache, CpuFields
<1>2. g.mem = w.cpu.mem /\ g.reg = w.cpu.reg
  <2> HIDE DEF f
  <2> QED BY <1>1 DEF CpuFields
<1>3. Return(w, stepping) = [w EXCEPT !.stub.pc = "running", !.stub.flush_caches = FALSE, !.cpu = g]
  BY Zenon DEF Return
<1> HIDE DEF g
<1> QED BY <1>2, <1>3 DEF Valid, Ready, Formed, StubFields

\* how the debugger expects a command to leave the registers and memory
Foresees(h, t, v) ==
  /\ h.mem = IF t[1] = "M" THEN t[2] ELSE v.mem
  /\ h.reg = IF t[1] = "G" \/ (t[1] = "P" /\ t[2] \notin {"99", "SR"}) THEN t[2] ELSE v.reg

\* "O" before a packet's text says that it is for the debugger's console
Plain(v) == v.reg # "O" /\ v.mem # "O"

\* what is left of a command when it has been executed: its answer, or the program
Executed(w, r, h) ==
  /\ r.cpu.reg = h.reg /\ r.cpu.mem = h.mem /\ r.stub.initial_trap = w.stub.initial_trap
  /\ \/ /\ r.stub.pc = "sent" /\ r.stub.then = "loop"
        /\ r.stub.sent \in RightAnswer(h) /\ r.stub.sent # <<"O">> /\ Finite(r.stub.sent)
        /\ r.out = Cat(w.out, Frame(r.stub.sent))
     \/ r.stub.pc = "running" /\ r.out = w.out /\ Waits(h)

LEMMA Replies ==
  ASSUME NEW w, NEW v, NEW h, NEW text, Valid(v),
         v.out = w.out, v.stub.initial_trap = w.stub.initial_trap,
         v.cpu.reg = h.reg, v.cpu.mem = h.mem,
         text \in RightAnswer(h), text # <<"O">>, Finite(text)
  PROVE  Executed(w, Reply(v, text), h)
<1> DEFINE r == Reply(v, text)
<1>1. /\ r.out = Cat(v.out, Frame(text)) /\ r.cpu = v.cpu
      /\ r.stub.pc = "sent" /\ r.stub.sent = text /\ r.stub.then = "loop"
      /\ r.stub.initial_trap = v.stub.initial_trap
  BY SendIs DEF Reply
<1> HIDE DEF r
<1>2. Executed(w, r, h)
  BY <1>1 DEF Executed
<1> QED BY <1>2 DEF r

\* Every command is answered as it should be, or lets the program go on.
LEMMA CommandIs ==
  ASSUME NEW w, Valid(w), w.stub.pc = "checksum", Plain(w.cpu),
         NEW h, Proper(h.command), Foresees(h, h.command, w.cpu)
  PROVE  Executed(w, Command(w, h.command), h) /\ Plain(h)
<1> DEFINE text == h.command
           r == Command(w, text)
           is(c) == text # NoText /\ Head(text) = c
           G == [w EXCEPT !.cpu.reg = text[2], !.cpu.step = FALSE, !.cpu.dbgen = TRUE]
           R == [w EXCEPT !.cpu.step = FALSE, !.cpu.dbgen = TRUE]
           P == [w EXCEPT !.cpu.reg = text[2]]
           M == [w EXCEPT !.cpu.mem = text[2], !.stub.flush_caches = TRUE]
           Alike(v) == v.out = w.out /\ v.stub.initial_trap = w.stub.initial_trap
           k == text[1]
<1>0. text # NoText /\ Head(text) = k /\ Waits(h) = (k \in {"c", "s"})
  BY DEF Proper, NoText, Waits
<1>1. /\ Valid(G) /\ Alike(G) /\ G.cpu.reg = text[2] /\ G.cpu.mem = w.cpu.mem
      /\ Valid(R) /\ Alike(R) /\ R.cpu.reg = w.cpu.reg /\ R.cpu.mem = w.cpu.mem
      /\ Valid(P) /\ Alike(P) /\ P.cpu.reg = text[2] /\ P.cpu.mem = w.cpu.mem
  <2>1. Valid(G) /\ Valid(R) /\ Valid(P)
    BY Writes
  <2>2. Alike(G) /\ Alike(R) /\ Alike(P)
    BY DEF Valid
  <2>3. /\ G.cpu.reg = text[2] /\ G.cpu.mem = w.cpu.mem /\ R.cpu.reg = w.cpu.reg
        /\ R.cpu.mem = w.cpu.mem /\ P.cpu.reg = text[2] /\ P.cpu.mem = w.cpu.mem
    BY DEF Valid, Ready, Formed, CpuFields
  <2> HIDE DEF G, R, P
  <2> QED BY <2>1, <2>2, <2>3
<1>2. Valid(M) /\ Alike(M) /\ M.cpu.mem = text[2] /\ M.cpu.reg = w.cpu.reg
  <2>1. Valid(M)
    BY Patches
  <2>2. Alike(M) /\ M.cpu.mem = text[2] /\ M.cpu.reg = w.cpu.reg
    BY DEF Valid, Ready, Formed, StubFields, CpuFields
  <2> HIDE DEF M
  <2> QED BY <2>1, <2>2
<1>3. Plain(h)
  BY DEF Plain, Foresees, Proper
<1>4. ASSUME NEW v, Valid(v), Alike(v), v.cpu.reg = h.reg, v.cpu.mem = h.mem,
             NEW x, <<x>> \in RightAnswer(h), x # "O"
      PROVE  Executed(w, Reply(v, <<x>>), h)
  <2>1. <<x>> # <<"O">> /\ Finite(<<x>>)
    BY <1>4, OneFinite
  <2> QED BY <1>4, <2>1, Replies
<1> HIDE DEF G, R, P, M
<1>5. CASE k = "?"
  <2>1. r = Reply(w, <<"S">>)
    BY <1>0, <1>5 DEF Command
  <2>2. <<"S">> \in RightAnswer(h) /\ w.cpu.reg = h.reg /\ w.cpu.mem = h.mem
    BY <1>5 DEF RightAnswer, Foresees
  <2> QED BY <1>3, <1>4, <2>1, <2>2
<1>6. CASE k = "g"
  <2>1. r = Reply(w, <<w.cpu.reg>>)
    BY <1>0, <1>6 DEF Command
  <2>2. <<h.reg>> \in RightAnswer(h) /\ w.cpu.reg = h.reg /\ w.cpu.mem = h.mem
    BY <1>6 DEF RightAnswer, Foresees
  <2> QED BY <1>3, <1>4, <2>1, <2>2 DEF Plain
<1>7. CASE k = "G"
  <2>1. r = Reply(G, <<"OK">>)
    BY <1>0, <1>7 DEF Command, G
  <2>2. <<"OK">> \in RightAnswer(h) /\ text[2] = h.reg /\ w.cpu.mem = h.mem
    BY <1>7 DEF RightAnswer, Foresees
  <2> QED BY <1>1, <1>3, <1>4, <2>1, <2>2
<1>8. CASE k = "p"
  <2>1. r = Reply(w, IF text[2] = "99" THEN <<"E22">> ELSE <<w.cpu.reg>>)
    BY <1>0, <1>8 DEF Command
  <2>2. (IF text[2] = "99" THEN <<"E22">> ELSE <<h.reg>>) \in RightAnswer(h)
        /\ w.cpu.reg = h.reg /\ w.cpu.mem = h.mem
    BY <1>8 DEF RightAnswer, Foresees
  <2> QED BY <1>3, <1>4, <2>1, <2>2 DEF Plain
<1>9. CASE k = "P"
  <2>1. CASE text[2] = "99"
    <3>1. r = Reply(w, <<"E22">>)
      BY <1>0, <1>9, <2>1 DEF Command
    <3>2. <<"E22">> \in RightAnswer(h) /\ w.cpu.reg = h.reg /\ w.cpu.mem = h.mem
      BY <1>9, <2>1 DEF RightAnswer, Foresees
    <3> QED BY <1>3, <1>4, <3>1, <3>2
  <2>2. CASE text[2] = "SR"
    <3>1. r = Reply(R, <<"OK">>)
      BY <1>0, <1>9, <2>2 DEF Command, R
    <3>2. <<"OK">> \in RightAnswer(h) /\ w.cpu.reg = h.reg /\ w.cpu.mem = h.mem
      BY <1>9, <2>2 DEF RightAnswer, Foresees
    <3> QED BY <1>1, <1>3, <1>4, <3>1, <3>2
  <2>3. CASE text[2] \notin {"99", "SR"}
    <3>1. r = Reply(P, <<"OK">>)
      BY <1>0, <1>9, <2>3 DEF Command, P
    <3>2. <<"OK">> \in RightAnswer(h) /\ text[2] = h.reg /\ w.cpu.mem = h.mem
      BY <1>9, <2>3 DEF RightAnswer, Foresees
    <3> QED BY <1>1, <1>3, <1>4, <3>1, <3>2
  <2> QED BY <2>1, <2>2, <2>3
<1>10. CASE k = "m"
  <2>1. r = Reply(w, <<w.cpu.mem>>)
    BY <1>0, <1>10 DEF Command
  <2>2. <<h.mem>> \in RightAnswer(h) /\ w.cpu.reg = h.reg /\ w.cpu.mem = h.mem
    BY <1>10 DEF RightAnswer, Foresees
  <2> QED BY <1>3, <1>4, <2>1, <2>2 DEF Plain
<1>11. CASE k = "M"
  <2>1. r = Reply(M, <<"OK">>)
    BY <1>0, <1>11 DEF Command, M
  <2>2. <<"OK">> \in RightAnswer(h) /\ text[2] = h.mem /\ w.cpu.reg = h.reg
    BY <1>11 DEF RightAnswer, Foresees
  <2> QED BY <1>2, <1>3, <1>4, <2>1, <2>2
<1>12. CASE k \in {"c", "s"}
  <2>1. PICK q \in BOOLEAN : r = Return(w, q)
    BY <1>0, <1>12 DEF Command
  <2>2. w.cpu.reg = h.reg /\ w.cpu.mem = h.mem
    BY <1>12 DEF Foresees
  <2>3. LET x == Return(w, q)
        IN x.cpu.mem = w.cpu.mem /\ x.cpu.reg = w.cpu.reg /\ x.out = w.out
           /\ x.stub.pc = "running" /\ x.stub.initial_trap = w.stub.initial_trap
    BY ReturnIs
  <2> QED BY <1>0, <1>3, <1>12, <2>1, <2>2, <2>3 DEF Executed
<1>13. CASE k \notin {"?", "g", "G", "p", "P", "m", "M", "c", "s"}
  <2>1. r = Reply(w, NoText)
    BY <1>0, <1>13 DEF Command
  <2>2. NoText \in RightAnswer(h) /\ w.cpu.reg = h.reg /\ w.cpu.mem = h.mem
    BY <1>13 DEF RightAnswer, Foresees
  <2>3. NoText # <<"O">> /\ Finite(NoText)
    BY DEF NoText, Finite
  <2> QED BY <1>3, <2>1, <2>2, <2>3, Replies
<1> QED BY <1>5, <1>6, <1>7, <1>8, <1>9, <1>10, <1>11, <1>12, <1>13

LEMMA CatEmpty == ASSUME NEW s, Finite(s) PROVE Cat(s, <<>>) = s /\ Cat(<<>>, s) = s
<1> DEFINE S == {s[i] : i \in DOMAIN s}
<1>1. s \in Seq(S)
  BY DEF Finite
<1> HIDE DEF S
<1> QED BY <1>1 DEF Cat

\* an acknowledgement that something follows
LEMMA OpeningIs ==
  ASSUME NEW s, Finite(s)
  PROVE  /\ Cat(Opening, s) # <<>> /\ Head(Cat(Opening, s)) = Ch("+") /\ Tail(Cat(Opening, s)) = s
         /\ Finite(Cat(Opening, s)) /\ Cat(Opening, <<>>) = Opening
<1> DEFINE S == {s[i] : i \in DOMAIN s} \cup {Ch("+")}
           u == Cat(Opening, s)
<1>1. s \in Seq(S) /\ Opening \in Seq(S) /\ Len(Opening) = 1 /\ Opening[1] = Ch("+")
  <2>1. s \in Seq({s[i] : i \in DOMAIN s}) /\ {s[i] : i \in DOMAIN s} \subseteq S
    BY DEF Finite
  <2>2. Opening \in Seq(S) /\ Len(Opening) = 1 /\ Opening[1] = Ch("+")
    BY DEF Opening
  <2> HIDE DEF S
  <2>3. s \in Seq(S)
    BY <2>1
  <2> QED BY <2>2, <2>3
<1> HIDE DEF S, u
<1>2. Joins(u, Opening, s, S)
  BY <1>1, CatIs DEF u
<1>3. u \in Seq(S) /\ Len(u) = 1 + Len(s) /\ u[1] = Ch("+") /\ \A i \in 1..Len(s) : u[1 + i] = s[i]
  BY ONLY <1>1, <1>2 DEF Joins
<1>4. u # <<>> /\ Head(u) = Ch("+")
  BY ONLY <1>1, <1>3
<1> DEFINE t == Tail(u)
<1>5. t \in Seq(S) /\ Len(t) = Len(s) /\ \A i \in 1..Len(s) : t[i] = s[i]
  BY ONLY <1>1, <1>3, <1>4
<1> HIDE DEF t
<1>6. t = s
  BY ONLY <1>1, <1>5
<1>7. Finite(u)
  BY <1>3, FiniteSeq
<1>8. Cat(Opening, <<>>) = Opening
  BY OneFinite, CatEmpty DEF Opening
<1> QED BY <1>4, <1>6, <1>7, <1>8 DEF u, t

LEMMA RecvIs ==
  ASSUME NEW w, Valid(w)
  PROVE  LET r == gdb_recv(w)
         IN /\ r.out = w.out /\ r.cpu = w.cpu /\ r.stub.pc = "recv" /\ r.stub.found_start = FALSE
            /\ r.stub.initial_trap = w.stub.initial_trap
BY DEF gdb_recv, Valid, Ready, Formed, StubFields

\* The first trap may be silent; every other one is told to the debugger.
LEMMA ExceptionIs ==
  ASSUME NEW w, Valid(w), w.out = <<>>
  PROVE  LET r == gdb_exception(w)
         IN /\ r.cpu.reg = w.cpu.reg /\ r.cpu.mem = w.cpu.mem /\ r.stub.initial_trap = FALSE
            /\ \/ r.stub.pc = "sent" /\ r.stub.then = "loop" /\ r.stub.sent = <<"T">>
                  /\ r.out = Frame(<<"T">>)
               \/ r.stub.pc = "recv" /\ r.stub.found_start = FALSE /\ r.out = <<>>
                  /\ w.stub.initial_trap # FALSE
<1> DEFINE v == [w EXCEPT !.cpu.dbgen = TRUE, !.stub.initial_trap = FALSE]
           r == gdb_exception(w)
<1>1. /\ Valid(v) /\ v.out = <<>> /\ v.stub.initial_trap = FALSE
      /\ v.cpu.reg = w.cpu.reg /\ v.cpu.mem = w.cpu.mem
  BY DEF Valid, Ready, Formed, Enabled, Marked, Settled, StubFields, CpuFields
<1>2. \/ r = gdb_recv(v) /\ w.stub.initial_trap # FALSE
      \/ r = gdb_send(v, <<"T">>, "loop")
  BY DEF gdb_exception
<1> HIDE DEF v, r
<1>3. Cat(<<>>, Frame(<<"T">>)) = Frame(<<"T">>)
  BY OneFinite, FrameIs, CatEmpty
<1>4. LET x == gdb_recv(v)
      IN /\ x.out = v.out /\ x.cpu = v.cpu /\ x.stub.pc = "recv" /\ x.stub.found_start = FALSE
         /\ x.stub.initial_trap = v.stub.initial_trap
  BY <1>1, RecvIs
<1>5. LET x == gdb_send(v, <<"T">>, "loop")
      IN /\ x.out = Cat(v.out, Frame(<<"T">>)) /\ x.cpu = v.cpu
         /\ x.stub.pc = "sent" /\ x.stub.sent = <<"T">> /\ x.stub.then = "loop"
         /\ x.stub.initial_trap = v.stub.initial_trap
  BY <1>1, SendIs
<1> QED BY <1>1, <1>2, <1>3, <1>4, <1>5 DEF r

LEMMA SyscallIs ==
  ASSUME NEW w, Valid(w), w.out = <<>>, NEW n \in 1..3
  PROVE  LET r == gdb_syscall(w, n)
         IN /\ r.cpu = w.cpu /\ r.stub.initial_trap = w.stub.initial_trap
            /\ r.stub.pc = "sent" /\ r.stub.then = "run" /\ r.stub.sent \in {<<"O">>, <<"W">>}
            /\ r.out = Frame(r.stub.sent)
<1>1. PICK text \in {<<"O">>, <<"W">>} : gdb_syscall(w, n) = gdb_send(w, text, "run")
  <2>1. CASE n = 3
    BY <2>1 DEF gdb_syscall
  <2>2. CASE n \in {1, 2}
    BY <2>2 DEF gdb_syscall
  <2> QED BY <2>1, <2>2
<1>2. Cat(<<>>, Frame(text)) = Frame(text)
  BY OneFinite, FrameIs, CatEmpty
<1> QED BY <1>1, <1>2, SendIs

HostFields == {"state", "done", "command", "answer", "frame", "reg", "mem"}

\* in every phase of a session to which nothing happens
Basics ==
  /\ Calm /\ HostFields \subseteq DOMAIN host /\ Plain(cpu)
  /\ stub.pc # "boot" => stub.initial_trap = FALSE

\* the debugger knows what the registers and memory hold
Agree == host.reg = cpu.reg /\ host.mem = cpu.mem

\* when it has taken the characters t the stub waits for a packet
Free(t) ==
  \/ t \in {<<>>, Opening} /\ stub.pc = "recv" /\ stub.found_start = FALSE
  \/ t = Opening /\ stub.pc = "sent" /\ stub.then = "loop"

\* the stub has sent a packet, with an answer or from a system call
Tells ==
  /\ stub.pc = "sent" /\ Finite(stub.sent)
  /\ \/ stub.then = "loop" /\ stub.sent \in RightAnswer(host) /\ stub.sent # <<"O">>
     \/ stub.then = "run" /\ stub.sent \in {<<"O">>, <<"W">>} /\ Waits(host)

\* the phases: no debugger yet
Apart ==
  /\ host.state = "off" /\ host.done = 0 /\ toStub = <<>> /\ host.frame = <<>> /\ Agree
  /\ \/ stub.pc = "boot"
     \/ stub.pc = "recv" /\ stub.found_start = FALSE
     \/ stub.pc = "sent" /\ stub.then = "loop"

\* no command is pending
Resting ==
  /\ host.state = "idle" /\ toHost = <<>> /\ host.frame = <<>> /\ Agree /\ Free(toStub)
  /\ host.done > 0 => host.answer \in RightAnswer(host)

\* the command is on its way, and will be obeyed
Owing ==
  /\ host.state = "ack" /\ toHost = <<>> /\ host.frame = <<>>
  /\ ~resumed /\ Proper(host.command) /\ Foresees(host, host.command, cpu)

\* the stub has read nothing of it
Asking == Owing /\ \E t \in {<<>>, Opening} : Free(t) /\ toStub = Cat(t, Frame(host.command))

\* the stub has read j of its characters
Halfway(j) ==
  LET c == host.command
      n == Len(c)
  IN /\ toStub = Left(c, j)
     /\ j <= n + 1 => stub.pc = "recv" /\ stub.found_start = TRUE
                      /\ stub.inbuffer = SubSeq(Body(c), 1, j - 1)
     /\ j > n + 1  => stub.pc = "checksum" /\ stub.inbuffer = Body(c)
                      /\ stub.csum_rx = IF j = n + 2 THEN <<>> ELSE <<High(c)>>

Passing == Owing /\ \E j \in 1..(Len(host.command) + 3) : Halfway(j)

\* the stub has taken it, and the debugger has not read so yet
Acking ==
  /\ host.state = "ack" /\ toStub = <<>> /\ host.frame = <<>> /\ Agree
  /\ \/ Tells /\ stub.then = "loop" /\ toHost = Cat(Opening, Frame(stub.sent))
     \/ stub.pc = "running" /\ Waits(host) /\ toHost = Opening

\* the debugger reads a packet
Telling ==
  /\ host.state = "answer" /\ toStub = <<>> /\ Agree /\ Tells
  /\ \E j \in 0..(Len(stub.sent) + 3) : host.frame = Taken(stub.sent, j) /\ toHost = Left(stub.sent, j)

\* the debugger waits for the program
Going ==
  /\ host.state = "answer" /\ toHost = <<>> /\ host.frame = <<>> /\ Agree /\ Waits(host)
  /\ \/ stub.pc = "running" /\ toStub = <<>>
     \/ stub.pc = "sent" /\ stub.then = "run" /\ toStub = Opening

\* the program has said that it ends
Ended ==
  /\ host.state = "over" /\ host.answer \in RightAnswer(host)
  /\ \/ toStub = <<>> /\ stub.pc \in {"running", "sent", "recv"}
     \/ toStub = Opening /\ stub.pc \in {"sent", "recv"}
  /\ stub.pc = "recv" => stub.found_start = FALSE

Phases == Apart \/ Resting \/ Asking \/ Passing \/ Acking \/ Telling \/ Going \/ Ended
CalmInv == Basics /\ Phases

\* the step that ExecutesAsked allows
Asks ==
  /\ cpu'.mem # cpu.mem => host.state = "ack" /\ host.command = <<"M", cpu'.mem>>
  /\ cpu'.reg # cpu.reg =>
       host.state = "ack" /\ host.command \in {<<"G", cpu'.reg>>, <<"P", cpu'.reg>>}
  /\ stub.pc = "checksum" /\ stub'.pc = "running" =>
       host.state = "ack" /\ Waits(host) /\ (ackLost \/ ~resumed)

\* of every step
Context == ProperSessions /\ AskedInv /\ AskedInv' /\ Basics

LEMMA ContextIs ==
  ASSUME Context
  PROVE  /\ MAX_RX_BUF > 1 /\ Calm /\ Finite(toStub) /\ Valid(World) /\ World.out = <<>>
         /\ World.stub = stub /\ World.cpu = cpu
<1>1. Finite(toStub)
  BY FiniteSeq DEF Context, AskedInv, LineInv
<1> QED BY <1>1, WorldValid DEF Context, AskedInv, Basics, ProperSessions, World

\* The stub does nothing but read.
LEMMA StubReads ==
  ASSUME Basics, Calm', UNCHANGED host, stub.pc # "boot", stub'.initial_trap = stub.initial_trap,
         cpu'.reg = cpu.reg, cpu'.mem = cpu.mem
  PROVE  /\ Basics' /\ (Agree => Agree')
         /\ (stub.pc = "checksum" => stub'.pc # "running") => Asks
BY DEF Basics, Agree, Asks, Plain

\* The debugger's acknowledgement.
LEMMA TakesPlus ==
  ASSUME Context, Getchar, NEW s, Finite(s), toStub = Cat(Opening, s), Free(Opening), toHost = <<>>
  PROVE  /\ stub'.pc = "recv" /\ stub'.found_start = FALSE /\ toStub' = s /\ cpu' = cpu /\ toHost' = <<>>
         /\ Basics' /\ Asks /\ UNCHANGED host /\ (~resumed => ~resumed')
<1> DEFINE w == Takes(World, Head(toStub))
<1>1. Head(toStub) = Ch("+") /\ Tail(toStub) = s /\ Ch("+").kind = "+"
  BY OpeningIs DEF Ch
<1>2. Opening # <<>> /\ stub.pc \in {"recv", "sent"}
  BY DEF Opening, Free
<1>3. w \in {World, gdb_recv(World)} /\ (w = World => stub.pc = "recv" /\ stub.found_start = FALSE)
  <2>1. CASE stub.pc = "recv" /\ stub.found_start = FALSE
    BY <1>1, <2>1, ContextIs DEF Takes, Received
  <2>2. CASE stub.pc = "sent" /\ stub.then = "loop"
    <3>1. w = gdb_recv(World)
      BY <1>1, <2>2, ContextIs DEF Takes, Acknowledged
    <3>2. gdb_recv(World).stub.pc = "recv"
      BY ContextIs, RecvIs
    <3> QED BY <2>2, <3>1, <3>2, ContextIs
  <2> QED BY <2>1, <2>2 DEF Free
<1>4. /\ w.out = <<>> /\ w.cpu = cpu /\ w.stub.pc = "recv" /\ w.stub.found_start = FALSE
      /\ w.stub.initial_trap = stub.initial_trap
  <2> HIDE DEF w
  <2> QED BY <1>3, ContextIs, RecvIs
<1>5. Len(w.out) \in Nat
  BY <1>4
<1> HIDE DEF w
<1>6. /\ stub' = w.stub /\ cpu' = w.cpu /\ toHost' = Cat(toHost, w.out)
      /\ Calm' /\ toStub' = s
      /\ resumed' = (resumed \/ (stub.pc = "checksum" /\ w.stub.pc = "running"))
      /\ UNCHANGED host
  BY <1>1, <1>4, <1>5, ContextIs, CalmGetchar DEF w
<1>7. toHost' = <<>>
  <2>1. Finite(<<>>)
    BY DEF Finite
  <2> QED BY <1>4, <1>6, <2>1, CatEmpty
<1>8. ~resumed => ~resumed'
  BY <1>2, <1>6
<1>9. Basics' /\ Asks
  BY <1>2, <1>4, <1>6 DEF Context, Basics, Asks, Plain
<1> QED BY <1>4, <1>6, <1>7, <1>8, <1>9

\* The stub takes the program over.
LEMMA TakesOver ==
  ASSUME Context, toStub = <<>>, Boot \/ Trap \/ StepDone
  PROVE  /\ toStub' = <<>> /\ UNCHANGED <<host, resumed>> /\ Basics' /\ Asks /\ (Agree => Agree')
         /\ \/ /\ stub'.pc = "sent" /\ stub'.then = "loop" /\ stub'.sent = <<"T">>
               /\ toHost' = Cat(toHost, Frame(<<"T">>))
            \/ stub.pc = "boot" /\ stub'.pc = "recv" /\ stub'.found_start = FALSE
<1>1. PICK u \in {World, [World EXCEPT !.cpu.step = FALSE]} :
        Becomes(gdb_exception(u), ring, 0) /\ UNCHANGED <<host, resumed>>
        /\ (stub.pc = "boot" \/ stub.pc = "running")
  BY DEF Boot, Trap, StepDone, Stops
<1>2. /\ Valid(u) /\ u.out = <<>> /\ u.stub = stub /\ u.cpu.reg = cpu.reg /\ u.cpu.mem = cpu.mem
  BY ContextIs DEF Valid, Ready, Formed, Enabled, Marked, Settled, CpuFields
<1> DEFINE r == gdb_exception(u)
<1>3. /\ r.cpu.reg = cpu.reg /\ r.cpu.mem = cpu.mem /\ r.stub.initial_trap = FALSE
      /\ \/ r.stub.pc = "sent" /\ r.stub.then = "loop" /\ r.stub.sent = <<"T">>
            /\ r.out = Frame(<<"T">>)
         \/ r.stub.pc = "recv" /\ r.stub.found_start = FALSE /\ r.out = <<>>
            /\ stub.initial_trap # FALSE
  BY <1>2, ExceptionIs
<1>4. Len(r.out) \in Nat
  <2>1. Len(Frame(<<"T">>)) \in Nat /\ Len(<<>>) \in Nat
    BY OneFinite, FrameIs, FiniteLen
  <2> HIDE DEF r
  <2> QED BY <1>3, <2>1
<1> HIDE DEF r
<1>5. stub' = r.stub /\ cpu' = r.cpu /\ toHost' = Cat(toHost, r.out) /\ Calm' /\ toStub' = <<>>
  BY <1>1, <1>4, ContextIs, CalmStops DEF r
<1>6. Basics' /\ Asks /\ (Agree => Agree')
  BY <1>1, <1>3, <1>5 DEF Context, Basics, Asks, Agree, Plain
<1> QED BY <1>1, <1>3, <1>5, <1>6 DEF Context, Basics

LEMMA ApartStub == ASSUME Context, Apart, Stub PROVE Apart' /\ Basics' /\ Asks
<1>1. ~Getchar
  BY ContextIs, CalmGetchar DEF Apart
<1>2. Boot
  BY <1>1 DEF Stub, Trap, StepDone, Syscall, Overrun, Apart
<1> QED BY <1>2, TakesOver DEF Apart

LEMMA RestingStub == ASSUME Context, Resting, Stub PROVE Resting' /\ Basics' /\ Asks
<1>1. Getchar
  BY DEF Stub, Boot, Trap, StepDone, Syscall, Overrun, Resting, Free
<1>2. toStub = Opening
  BY <1>1, ContextIs, CalmGetchar DEF Resting, Free
<1>3. Finite(<<>>) /\ toStub = Cat(Opening, <<>>)
  <2>1. Finite(<<>>)
    BY DEF Finite
  <2> QED BY <1>2, <2>1, OpeningIs
<1>4. /\ stub'.pc = "recv" /\ stub'.found_start = FALSE /\ toStub' = <<>> /\ cpu' = cpu /\ toHost' = <<>>
      /\ Basics' /\ Asks /\ UNCHANGED host
  BY <1>1, <1>2, <1>3, TakesPlus DEF Resting
<1> QED BY <1>4 DEF Resting, Free, Agree

LEMMA ProperIs == ASSUME NEW c, Proper(c) PROVE Finite(c) /\ Len(c) \in Nat \ {0} /\ Len(c) + 1 < MAX_BUF_SIZE
BY FiniteSeq DEF Proper

\* A packet's first character, after a last acknowledgement.
LEMMA AskingStub ==
  ASSUME Context, Asking, Stub PROVE (Asking' \/ Passing') /\ Basics' /\ Asks
<1> DEFINE c == host.command
<1>1. Getchar
  BY DEF Stub, Boot, Trap, StepDone, Syscall, Overrun, Asking, Free
<1>2. PICK t \in {<<>>, Opening} : Free(t) /\ toStub = Cat(t, Frame(c))
  BY DEF Asking
<1>3. Proper(c) /\ Finite(c) /\ Len(c) \in Nat \ {0} /\ Finite(Frame(c))
  BY ProperIs, FrameIs DEF Asking, Owing
<1>4. CASE t = Opening
  <2>1. /\ stub'.pc = "recv" /\ stub'.found_start = FALSE /\ toStub' = Frame(c) /\ cpu' = cpu
        /\ toHost' = <<>> /\ Basics' /\ Asks /\ UNCHANGED host /\ (~resumed => ~resumed')
    BY <1>1, <1>2, <1>3, <1>4, TakesPlus DEF Asking, Owing
  <2>2. Owing'
    BY <2>1 DEF Asking, Owing
  <2>3. Free(<<>>)' /\ toStub' = Cat(<<>>, Frame(host'.command))
    BY <1>3, <2>1, CatEmpty DEF Free
  <2> QED BY <2>1, <2>2, <2>3 DEF Asking
<1>5. CASE t = <<>>
  <2>1. toStub = Left(c, 0) /\ stub.pc = "recv" /\ stub.found_start = FALSE
    BY <1>2, <1>3, <1>5, CatEmpty, LeftEnds DEF Free, Opening
  <2>2. Head(toStub) = Frame(c)[0 + 1] /\ Tail(toStub) = Left(c, 0 + 1)
    BY <1>3, <2>1, LeftIs
  <2>3. Head(toStub) = Ch("$") /\ Tail(toStub) = Left(c, 1)
    BY <1>3, <2>2, FrameIs
  <2> DEFINE w == Takes(World, Head(toStub))
  <2>4. w = [World EXCEPT !.stub.found_start = TRUE, !.stub.inbuffer = <<>>]
    BY <2>1, <2>3, ContextIs DEF Takes, Received, Ch
  <2>5. /\ w.out = <<>> /\ w.cpu = cpu /\ w.stub.found_start = TRUE /\ w.stub.inbuffer = <<>>
        /\ w.stub.pc = "recv" /\ w.stub.initial_trap = stub.initial_trap
    <3> HIDE DEF w
    <3> QED BY <2>1, <2>4, ContextIs DEF Valid, Ready, Formed, StubFields
  <2>6. Len(w.out) \in Nat
    BY <2>5
  <2> HIDE DEF w
  <2>7. /\ stub' = w.stub /\ cpu' = w.cpu /\ toHost' = Cat(toHost, w.out)
        /\ Calm' /\ toStub' = Left(c, 1)
        /\ resumed' = (resumed \/ (stub.pc = "checksum" /\ w.stub.pc = "running"))
        /\ UNCHANGED host
    BY <1>1, <2>3, <2>5, <2>6, ContextIs, CalmGetchar DEF w
  <2>8. toHost' = <<>>
    <3>1. Finite(<<>>)
      BY DEF Finite
    <3> QED BY <2>5, <2>7, <3>1, CatEmpty DEF Asking, Owing
  <2>9. Owing'
    BY <2>1, <2>5, <2>7, <2>8 DEF Asking, Owing
  <2>10. Halfway(1)'
    <3>1. SubSeq(Body(c), 1, 1 - 1) = <<>>
      BY <1>3, BodyTaken
    <3>2. host'.command = c /\ 1 <= Len(c) + 1 /\ ~(1 > Len(c) + 1)
      BY <1>3, <2>7
    <3> HIDE DEF c
    <3> QED BY <2>5, <2>7, <3>1, <3>2 DEF Halfway
  <2>11. Basics' /\ Asks
    BY <2>1, <2>5, <2>7, StubReads DEF Context
  <2>12. 1 \in 1..(Len(host'.command) + 3)
    BY <1>3, <2>7
  <2> QED BY <2>9, <2>10, <2>11, <2>12 DEF Passing
<1> QED BY <1>2, <1>4, <1>5

\* A character that is only kept.
LEMMA Keeps ==
  ASSUME Context, Owing, Getchar, NEW j \in 1..(Len(host.command) + 2), toStub = Left(host.command, j),
         NEW w, w = Takes(World, Head(toStub)), w.out = <<>>, w.cpu = cpu, w.stub.pc # "running",
         w.stub.initial_trap = stub.initial_trap
  PROVE  /\ stub' = w.stub /\ toStub' = Left(host.command, j + 1) /\ UNCHANGED host
         /\ Owing' /\ Basics' /\ Asks
<1> DEFINE c == host.command
<1>1. Finite(c) /\ Len(c) \in Nat
  BY ProperIs DEF Owing
<1>2. j \in 0..(Len(c) + 3) /\ Len(w.out) \in Nat
  BY <1>1
<1>3. Tail(toStub) = Left(c, j + 1)
  BY <1>1, <1>2, LeftIs
<1>4. /\ stub' = w.stub /\ cpu' = w.cpu /\ toHost' = Cat(toHost, w.out)
      /\ Calm' /\ toStub' = Left(c, j + 1)
      /\ resumed' = (resumed \/ (stub.pc = "checksum" /\ w.stub.pc = "running"))
      /\ UNCHANGED host /\ stub.pc # "boot"
  BY <1>2, <1>3, ContextIs, CalmGetchar
<1>5. toHost' = <<>>
  <2>1. Finite(<<>>)
    BY DEF Finite
  <2> QED BY <1>4, <2>1, CatEmpty DEF Owing
<1>6. Owing'
  BY <1>4, <1>5 DEF Owing
<1>7. Basics' /\ Asks
  BY <1>4, StubReads DEF Context
<1> QED BY <1>4, <1>6, <1>7

\* Until the last, each character of a packet is kept where it belongs.
LEMMA PassesOn ==
  ASSUME Context, Owing, Getchar, NEW j \in 1..(Len(host.command) + 2), Halfway(j)
  PROVE  Passing' /\ Basics' /\ Asks
<1> DEFINE c == host.command
           n == Len(c)
           w == Takes(World, Head(toStub))
<1>1. Proper(c) /\ Finite(c) /\ n \in Nat \ {0} /\ n + 1 < MAX_BUF_SIZE /\ toStub = Left(c, j)
  BY ProperIs DEF Owing, Halfway
<1>2. j \in Nat /\ 1 <= j /\ j <= n + 2 /\ j \in 0..(n + 3)
  BY <1>1
<1>3. Head(toStub) = Frame(c)[j + 1]
  BY <1>1, <1>2, LeftIs
<1> DEFINE Onward(v) ==
             /\ j + 1 <= n + 1 => v.pc = "recv" /\ v.found_start = TRUE
                                  /\ v.inbuffer = SubSeq(Body(c), 1, (j + 1) - 1)
             /\ j + 1 > n + 1  => v.pc = "checksum" /\ v.inbuffer = Body(c)
                                  /\ v.csum_rx = IF j + 1 = n + 2 THEN <<>> ELSE <<High(c)>>
           Unheard(v) == v.out = <<>> /\ v.cpu = cpu /\ v.stub.pc # "running"
                        /\ v.stub.initial_trap = stub.initial_trap
<1> HIDE DEF c
<1>4. Onward(w.stub) /\ Unheard(w)
  <2>1. CASE j <= n
    <3>1. /\ stub.pc = "recv" /\ stub.found_start = TRUE
          /\ stub.inbuffer = SubSeq(Body(c), 1, j - 1)
      BY <1>1, <1>2, <2>1 DEF Halfway, c
    <3>2. Head(toStub).kind = "text" /\ Len(stub.inbuffer) = j - 1
          /\ Append(stub.inbuffer, Head(toStub)) = SubSeq(Body(c), 1, (j + 1) - 1)
      <4>1. j \in 1..n
        BY <1>2, <2>1
      <4>2. Frame(c)[j + 1] = Body(c)[j] /\ Frame(c)[j + 1].kind = "text"
        BY <1>1, <4>1, FrameIs
      <4>3. /\ Append(SubSeq(Body(c), 1, j - 1), Frame(c)[j + 1]) = SubSeq(Body(c), 1, (j + 1) - 1)
            /\ Len(SubSeq(Body(c), 1, j - 1)) = j - 1
        BY <1>1, <4>1, BodyTaken
      <4> QED BY ONLY <1>3, <3>1, <4>2, <4>3
    <3>3. Len(stub.inbuffer) < MAX_BUF_SIZE - 1
      BY <1>1, <1>2, <2>1, <3>2, GdbAssumption
    <3>4. w = [World EXCEPT !.stub.inbuffer = Append(@, Head(toStub))]
      BY <3>1, <3>2, <3>3, ContextIs DEF Takes, Received
    <3> HIDE DEF w
    <3>5. Unheard(w) /\ w.stub.pc = "recv" /\ w.stub.found_start = TRUE
          /\ w.stub.inbuffer = SubSeq(Body(c), 1, (j + 1) - 1)
      BY <3>1, <3>2, <3>4, ContextIs DEF Valid, Ready, Formed, StubFields
    <3>6. j + 1 <= n + 1 /\ ~(j + 1 > n + 1)
      BY <1>1, <1>2, <2>1
    <3> QED BY <3>5, <3>6
  <2>2. CASE j = n + 1
    <3>1. /\ stub.pc = "recv" /\ stub.found_start = TRUE
          /\ stub.inbuffer = SubSeq(Body(c), 1, n)
      <4>1. j <= n + 1 /\ j - 1 = n
        BY <1>1, <2>2
      <4> QED BY <4>1 DEF Halfway, c
    <3>2. stub.inbuffer = Body(c) /\ Len(stub.inbuffer) = n
      BY <1>1, <3>1, BodyTaken, FrameIs
    <3>3. Head(toStub) = Ch("#") /\ Ch("#").kind = "#"
      <4>1. (n + 1) + 1 = n + 2
        BY <1>1
      <4> QED BY <1>1, <1>3, <2>2, <4>1, FrameIs DEF Ch
    <3>4. w = [World EXCEPT !.stub.pc = "checksum", !.stub.csum_rx = <<>>]
      BY <1>1, <3>1, <3>2, <3>3, ContextIs DEF Takes, Received
    <3> HIDE DEF w
    <3>5. Unheard(w) /\ w.stub.pc = "checksum" /\ w.stub.inbuffer = Body(c) /\ w.stub.csum_rx = <<>>
      BY <3>1, <3>2, <3>4, ContextIs DEF Valid, Ready, Formed, StubFields
    <3>6. ~(j + 1 <= n + 1) /\ j + 1 > n + 1 /\ j + 1 = n + 2
      BY <1>1, <2>2
    <3> QED BY <3>5, <3>6
  <2>3. CASE j = n + 2
    <3>1. stub.pc = "checksum" /\ stub.inbuffer = Body(c) /\ stub.csum_rx = <<>>
      <4>1. j > n + 1
        BY <1>1, <2>3
      <4> QED BY <2>3, <4>1 DEF Halfway, c
    <3>2. Head(toStub) = High(c)
      <4>1. (n + 2) + 1 = n + 3
        BY <1>1
      <4> QED BY <1>1, <1>3, <2>3, <4>1, FrameIs
    <3>3. w = [World EXCEPT !.stub.csum_rx = <<High(c)>>]
      BY <3>1, <3>2, ContextIs DEF Takes, ChecksumReceived
    <3> HIDE DEF w
    <3>4. Unheard(w) /\ w.stub.pc = "checksum" /\ w.stub.inbuffer = Body(c)
          /\ w.stub.csum_rx = <<High(c)>>
      BY <3>1, <3>3, ContextIs DEF Valid, Ready, Formed, StubFields
    <3>5. ~(j + 1 <= n + 1) /\ j + 1 > n + 1 /\ j + 1 # n + 2
      BY <1>1, <2>3
    <3> QED BY <3>4, <3>5
  <2>4. j <= n \/ j = n + 1 \/ j = n + 2
    BY <1>1, <1>2
  <2> HIDE DEF w, n, Onward, Unheard
  <2> QED BY <2>1, <2>2, <2>3, <2>4
<1> HIDE DEF w
<1>5. /\ stub' = w.stub /\ toStub' = Left(c, j + 1) /\ UNCHANGED host
      /\ Owing' /\ Basics' /\ Asks
  BY <1>1, <1>4, Keeps DEF w, c
<1>6. Halfway(j + 1)'
  <2>1. host'.command = c
    BY <1>5 DEF c
  <2> HIDE DEF n
  <2>2. Onward(stub')
    BY <1>4, <1>5
  <2> QED BY <1>5, <2>1, <2>2 DEF Halfway, n
<1>7. j + 1 \in 1..(Len(host'.command) + 3)
  BY <1>1, <1>2, <1>5 DEF c
<1> QED BY <1>5, <1>6, <1>7 DEF Passing

\* The last character of a packet has its command executed.
LEMMA Obeys ==
  ASSUME Context, Owing, Getchar, Halfway(Len(host.command) + 3)
  PROVE  Acking' /\ Basics' /\ Asks
<1> DEFINE c == host.command
           n == Len(c)
           w == Takes(World, Head(toStub))
           B == [World EXCEPT !.out = @ \o <<Ch("+")>>]
<1>1. Proper(c) /\ Finite(c) /\ n \in Nat \ {0} /\ toStub = Left(c, n + 3)
  BY ProperIs DEF Owing, Halfway
<1>2. stub.pc = "checksum" /\ stub.inbuffer = Body(c) /\ stub.csum_rx = <<High(c)>>
  <2>1. n + 3 > n + 1 /\ n + 3 # n + 2
    BY <1>1
  <2> QED BY <2>1 DEF Halfway
<1>3. Head(toStub) = Low(c) /\ Tail(toStub) = <<>> /\ Len(toStub) = 1
  <2>1. n + 3 \in 0..(n + 3) /\ (n + 3) + 1 = n + 4 /\ n + 4 - (n + 3) = 1
    BY <1>1
  <2>2. Head(toStub) = Frame(c)[(n + 3) + 1] /\ Tail(toStub) = Left(c, (n + 3) + 1)
        /\ Len(toStub) = n + 4 - (n + 3)
    BY <1>1, <2>1, LeftIs
  <2>3. Frame(c)[n + 4] = Low(c) /\ Left(c, n + 4) = <<>>
    BY <1>1, FrameIs, LeftEnds
  <2> QED BY ONLY <2>1, <2>2, <2>3
<1>4. B.out = Opening /\ B.stub = stub /\ B.cpu = cpu /\ Valid(B)
  <2>1. <<>> \o <<Ch("+")>> = <<Ch("+")>>
    OBVIOUS
  <2> QED BY <2>1, ContextIs DEF Opening, Valid
<1>5. w = Command(B, c)
  <2>1. Head(stub.csum_rx) = High(c) /\ stub.csum_rx # <<>> /\ High(c).of = c
    BY <1>2 DEF High
  <2>2. Checks(stub.inbuffer, High(c), Low(c))
    BY <1>2 DEF Checks, High, Low
  <2> HIDE DEF B
  <2> QED BY <1>2, <1>3, <2>1, <2>2, ContextIs DEF Takes, ChecksumReceived, B
<1> HIDE DEF B
<1>6. Executed(B, Command(B, c), host)
  BY <1>1, <1>2, <1>4, CommandIs DEF Context, Basics, Owing
<1>7. Executed(B, w, host)
  BY <1>5, <1>6
<1> HIDE DEF w
<1>8. /\ w.cpu.reg = host.reg /\ w.cpu.mem = host.mem /\ w.stub.initial_trap = stub.initial_trap
      /\ \/ /\ w.stub.pc = "sent" /\ w.stub.then = "loop"
            /\ w.stub.sent \in RightAnswer(host) /\ w.stub.sent # <<"O">> /\ Finite(w.stub.sent)
            /\ w.out = Cat(Opening, Frame(w.stub.sent))
         \/ w.stub.pc = "running" /\ w.out = Opening /\ Waits(host)
  BY <1>4, <1>7 DEF Executed
<1>9. Finite(w.out) /\ Len(w.out) \in Nat
  <2>1. Finite(w.out)
    BY <1>8, FrameIs, OpeningIs, OneFinite DEF Opening
  <2> QED BY <2>1, FiniteLen
<1>10. /\ stub' = w.stub /\ cpu' = w.cpu /\ toHost' = Cat(toHost, w.out)
       /\ Calm' /\ toStub' = <<>> /\ UNCHANGED host
  BY <1>3, <1>9, ContextIs, CalmGetchar DEF w
<1>11. toHost' = w.out
  BY <1>9, <1>10, CatEmpty DEF Owing
<1>12. Agree' /\ host'.state = "ack" /\ host'.frame = <<>>
  BY <1>8, <1>10 DEF Agree, Owing
<1>13. Acking'
  BY <1>8, <1>10, <1>11, <1>12 DEF Acking, Tells
<1>14. Basics'
  <2>1. Plain(host)
    BY <1>1, <1>2, <1>4, CommandIs DEF Context, Basics, Owing
  <2> QED BY <1>2, <1>8, <1>10, <2>1 DEF Context, Basics, Plain
<1>15. Asks
  <2>1. Foresees(host, c, cpu) /\ host.state = "ack" /\ ~resumed
    BY DEF Owing
  <2>2. cpu'.mem = host.mem /\ cpu'.reg = host.reg
    BY <1>8, <1>10
  <2>3. cpu'.mem # cpu.mem => c[1] = "M" /\ c[2] = cpu'.mem
    BY <2>1, <2>2 DEF Foresees
  <2>4. cpu'.reg # cpu.reg => c[1] \in {"G", "P"} /\ c[2] = cpu'.reg
    BY <2>1, <2>2 DEF Foresees
  <2>5. c[1] \in {"G", "P", "M"} => c = <<c[1], c[2]>>
    <3>1. c \in Seq(STRING) /\ (c[1] \in {"G", "P", "M"} => Len(c) = 2)
      BY <1>1 DEF Proper
    <3> HIDE DEF c
    <3> QED BY <3>1
  <2>6. stub'.pc = "running" => Waits(host)
    BY <1>8, <1>10
  <2> QED BY <2>1, <2>3, <2>4, <2>5, <2>6 DEF Asks
<1> QED BY <1>13, <1>14, <1>15

LEMMA PassingStub ==
  ASSUME Context, Passing, Stub PROVE (Passing' \/ Acking') /\ Basics' /\ Asks
<1>1. PICK j \in 1..(Len(host.command) + 3) : Halfway(j)
  BY DEF Passing
<1>2. Owing /\ Len(host.command) \in Nat
  BY ProperIs DEF Passing, Owing
<1>3. stub.pc \in {"recv", "checksum"}
  BY <1>1, <1>2 DEF Halfway
<1>4. Getchar
  BY <1>3 DEF Stub, Boot, Trap, StepDone, Syscall, Overrun
<1>5. CASE j <= Len(host.command) + 2
  BY <1>1, <1>2, <1>4, <1>5, PassesOn
<1>6. CASE j = Len(host.command) + 3
  BY <1>1, <1>2, <1>4, <1>6, Obeys
<1> QED BY <1>1, <1>2, <1>5, <1>6

\* The debugger's acknowledgement is all that comes.
LEMMA TakesLast ==
  ASSUME Context, Getchar, toStub \in {<<>>, Opening}, stub.pc \in {"sent", "recv"},
         stub.pc = "recv" => stub.found_start = FALSE
  PROVE  /\ toStub = Opening /\ toStub' = <<>> /\ UNCHANGED <<host, cpu>> /\ Basics' /\ Asks
         /\ \/ stub'.pc = "recv" /\ stub'.found_start = FALSE
            \/ stub'.pc = "running"
         /\ (stub.pc = "sent" /\ stub.then # "loop" => stub'.pc = "running")
         /\ (Finite(toHost) => toHost' = toHost)
<1> DEFINE w == Takes(World, Head(toStub))
<1>1. toStub = Opening
  BY ContextIs, CalmGetchar
<1>2. Head(toStub) = Ch("+") /\ Tail(toStub) = <<>> /\ Ch("+").kind = "+"
  BY <1>1 DEF Ch, Opening
<1>3. \/ w = World /\ stub.pc = "recv"
      \/ w = gdb_recv(World) /\ stub.pc = "sent" /\ stub.then = "loop"
      \/ w = [World EXCEPT !.stub.pc = "running"]
  BY <1>2, ContextIs DEF Takes, Received, Acknowledged
<1>4. /\ w.out = <<>> /\ w.cpu = cpu /\ w.stub.initial_trap = stub.initial_trap
      /\ (w.stub.pc = "recv" /\ w.stub.found_start = FALSE) \/ w.stub.pc = "running"
      /\ (stub.pc = "sent" /\ stub.then # "loop" => w.stub.pc = "running")
  <2> HIDE DEF w
  <2>1. CASE w = World /\ stub.pc = "recv"
    BY <2>1, ContextIs
  <2>2. CASE w = gdb_recv(World) /\ stub.pc = "sent" /\ stub.then = "loop"
    BY <2>2, ContextIs, RecvIs
  <2>3. CASE w = [World EXCEPT !.stub.pc = "running"]
    BY <2>3, ContextIs DEF Valid, Ready, Formed, StubFields
  <2> QED BY <1>3, <2>1, <2>2, <2>3
<1>5. Len(w.out) \in Nat
  BY <1>4
<1> HIDE DEF w
<1>6. stub' = w.stub /\ cpu' = w.cpu /\ toHost' = Cat(toHost, w.out) /\ Calm' /\ toStub' = <<>>
      /\ UNCHANGED host
  BY <1>2, <1>4, <1>5, ContextIs, CalmGetchar DEF w
<1>7. Finite(toHost) => toHost' = toHost
  BY <1>4, <1>6, CatEmpty
<1>8. Basics' /\ Asks
  BY <1>4, <1>6, StubReads DEF Context
<1> QED BY <1>1, <1>4, <1>6, <1>7, <1>8

\* A packet of the stub's when the debugger waits for the program.
LEMMA TellsOf ==
  ASSUME NEW x, host'.state = "answer", toStub' = <<>>, Agree', Tells', host'.frame = <<>>,
         stub'.sent = <<x>>, toHost' = Frame(<<x>>)
  PROVE  Telling'
<1>1. Finite(<<x>>) /\ Len(<<x>>) = 1
  BY OneFinite
<1>2. Taken(<<x>>, 0) = <<>> /\ Left(<<x>>, 0) = Frame(<<x>>)
  BY <1>1, LeftEnds
<1>3. 0 \in 0..(Len(stub'.sent) + 3)
  BY <1>1
<1> QED BY <1>2, <1>3 DEF Telling

LEMMA GoingStub ==
  ASSUME Context, Going, Stub PROVE (Going' \/ Telling') /\ Basics' /\ Asks
<1>1. CASE Getchar
  <2>1. stub.pc = "sent" /\ stub.then = "run" /\ toStub = Opening
    BY <1>1, ContextIs, CalmGetchar DEF Going
  <2>2. Finite(toHost)
    BY DEF Going, Finite
  <2>3. /\ toStub' = <<>> /\ UNCHANGED <<host, cpu>> /\ Basics' /\ Asks
        /\ stub'.pc = "running" /\ toHost' = toHost
    BY <1>1, <2>1, <2>2, TakesLast
  <2> QED BY <2>3 DEF Going, Agree
<1>2. CASE Trap \/ StepDone
  <2>1. stub.pc = "running" /\ toStub = <<>> /\ Agree /\ toHost = <<>>
    BY <1>2 DEF Going, Trap, StepDone
  <2>2. /\ toStub' = <<>> /\ UNCHANGED host /\ Basics' /\ Asks /\ Agree'
        /\ stub'.pc = "sent" /\ stub'.then = "loop" /\ stub'.sent = <<"T">>
        /\ toHost' = Cat(toHost, Frame(<<"T">>))
    BY <1>2, <2>1, TakesOver
  <2>3. toHost' = Frame(<<"T">>)
    BY <2>1, <2>2, OneFinite, FrameIs, CatEmpty
  <2>4. <<"T">> \in RightAnswer(host) /\ <<"T">> # <<"O">> /\ Finite(<<"T">>)
    <3>1. host.command[1] \in {"c", "s"}
      BY DEF Going, Waits
    <3> QED BY <3>1, OneFinite DEF RightAnswer
  <2>5. Tells'
    BY <2>2, <2>4 DEF Tells
  <2>6. host'.state = "answer" /\ host'.frame = <<>>
    BY <2>2 DEF Going
  <2> QED BY <2>2, <2>3, <2>5, <2>6, TellsOf
<1>3. CASE Syscall
  <2>1. PICK n \in 1..3 : Becomes(gdb_syscall(World, n), ring, 0) /\ UNCHANGED host
    BY <1>3 DEF Syscall
  <2>2. stub.pc = "running" /\ toStub = <<>> /\ Agree /\ toHost = <<>>
    BY <1>3 DEF Going, Syscall
  <2> DEFINE r == gdb_syscall(World, n)
  <2>3. /\ r.cpu = cpu /\ r.stub.initial_trap = stub.initial_trap
        /\ r.stub.pc = "sent" /\ r.stub.then = "run" /\ r.stub.sent \in {<<"O">>, <<"W">>}
        /\ r.out = Frame(r.stub.sent)
    BY ContextIs, SyscallIs
  <2> HIDE DEF r
  <2>4. PICK x : r.stub.sent = <<x>> /\ r.out = Frame(<<x>>)
    BY <2>3
  <2>5. Finite(<<x>>) /\ Finite(r.out) /\ Len(r.out) \in Nat
    BY <2>4, OneFinite, FrameIs, FiniteLen
  <2>6. stub' = r.stub /\ cpu' = r.cpu /\ toHost' = Cat(toHost, r.out) /\ Calm' /\ toStub' = <<>>
    BY <2>1, <2>2, <2>5, ContextIs, CalmStops DEF r
  <2>7. toHost' = Frame(<<x>>)
    BY <2>2, <2>4, <2>5, <2>6, CatEmpty
  <2>8. Basics' /\ Asks /\ Agree'
    BY <2>1, <2>2, <2>3, <2>6, StubReads DEF Context
  <2>9. Tells'
    BY <2>1, <2>3, <2>4, <2>5, <2>6 DEF Tells, Going
  <2>10. host'.state = "answer" /\ host'.frame = <<>>
    BY <2>1 DEF Going
  <2> QED BY <2>4, <2>6, <2>7, <2>8, <2>9, <2>10, TellsOf
<1>4. ~Boot /\ ~Overrun
  BY DEF Boot, Overrun, Going
<1> QED BY <1>1, <1>2, <1>3, <1>4 DEF Stub

LEMMA EndedStub ==
  ASSUME Context, Ended, Stub PROVE Ended' /\ Basics' /\ Asks
<1>1. CASE Getchar
  <2>1. stub.pc \in {"sent", "recv"} /\ toStub \in {<<>>, Opening}
    BY <1>1 DEF Getchar, Ended
  <2>2. /\ toStub' = <<>> /\ UNCHANGED host /\ Basics' /\ Asks
        /\ (stub'.pc = "recv" /\ stub'.found_start = FALSE) \/ stub'.pc = "running"
    BY <1>1, <2>1, TakesLast DEF Ended
  <2> QED BY <2>2 DEF Ended
<1>2. CASE Boot \/ Trap \/ StepDone
  <2>1. stub.pc = "running" /\ toStub = <<>>
    BY <1>2 DEF Ended, Boot, Trap, StepDone
  <2>2. toStub' = <<>> /\ UNCHANGED host /\ Basics' /\ Asks /\ stub'.pc = "sent"
    BY <1>2, <2>1, TakesOver
  <2> QED BY <2>2 DEF Ended
<1>3. ~Syscall /\ ~Overrun
  BY DEF Syscall, Overrun, Ended
<1> QED BY <1>1, <1>2, <1>3 DEF Stub

\* While the debugger reads, the stub waits.
LEMMA NobodyReads == Acking \/ Telling => Reading
<1>1. ASSUME Acking PROVE Reading
  <2>1. Opening # <<>>
    BY DEF Opening
  <2>2. Tells => Cat(Opening, Frame(stub.sent)) # <<>>
    BY FrameIs, OpeningIs DEF Tells
  <2> QED BY <1>1, <2>1, <2>2 DEF Acking, Reading
<1>2. ASSUME Telling PROVE Reading
  <2>1. PICK j \in 0..(Len(stub.sent) + 3) : toHost = Left(stub.sent, j)
    BY <1>2 DEF Telling
  <2>2. Finite(stub.sent)
    BY <1>2 DEF Telling, Tells
  <2> QED BY <1>2, <2>1, <2>2, LeftIs DEF Telling, Reading
<1> QED BY <1>1, <1>2

LEMMA StubRuns ==
  ASSUME Context, Phases, ~Reading, Stub PROVE Phases' /\ Basics' /\ Asks
<1>1. ~Acking /\ ~Telling
  BY NobodyReads
<1> QED BY <1>1, ApartStub, RestingStub, AskingStub, PassingStub, GoingStub, EndedStub DEF Phases

LEMMA HostBasics ==
  ASSUME Basics, UNCHANGED device, HostFields \subseteq DOMAIN host'
  PROVE  Basics' /\ Asks
BY DEF Basics, Calm, device, Asks, Plain

LEMMA ApartHost == ASSUME Context, Apart, Host PROVE Resting' /\ Basics' /\ Asks
<1>1. Connect
  BY DEF Host, Ask, HostGets, Reading, HostTimesOut, UserInterrupts, Apart
<1>2. /\ host' = [host EXCEPT !.state = "idle"] /\ toStub' = Cat(<<>>, Opening) /\ toHost' = <<>>
      /\ UNCHANGED device /\ stub.pc \in {"recv", "sent"}
  BY <1>1 DEF Connect, HostSends, Apart, Cat, Opening
<1>3. toStub' = Opening
  BY <1>2, OneFinite, CatEmpty DEF Opening
<1>4. /\ HostFields \subseteq DOMAIN host' /\ host'.state = "idle" /\ host'.done = host.done
      /\ host'.frame = host.frame /\ host'.reg = host.reg /\ host'.mem = host.mem
  BY <1>2 DEF Context, Basics, HostFields
<1>5. Resting'
  BY <1>2, <1>3, <1>4 DEF Apart, Resting, Free, Agree, device
<1> QED BY <1>2, <1>4, <1>5, HostBasics DEF Context

LEMMA RestingHost == ASSUME Context, Resting, Host PROVE Asking' /\ Basics' /\ Asks
<1>1. Ask
  BY DEF Host, Connect, HostGets, Reading, HostTimesOut, UserInterrupts, Resting
<1> DEFINE c == scenario.commands[host.done + 1]
           M == IF c[1] = "M" THEN c[2] ELSE host.mem
           R == IF c[1] = "G" \/ (c[1] = "P" /\ c[2] \notin {"99", "SR"}) THEN c[2] ELSE host.reg
<1>2. Proper(c)
  <2>1. scenario \in Scenarios /\ host.done \in Nat /\ host.done < Len(scenario.commands)
        /\ Len(scenario.commands) \in Nat
    BY <1>1, GdbSessionAssumption DEF Ask, Context, AskedInv, HostInv
  <2>2. host.done + 1 \in 1..Len(scenario.commands)
    BY <2>1
  <2> QED BY <2>1, <2>2 DEF Context, ProperSessions
<1>3. /\ host' = [host EXCEPT !.state = "ack", !.done = @ + 1, !.command = c, !.answer = NoText,
                               !.frame = <<>>, !.mem = M, !.reg = R]
      /\ toStub' = Cat(toStub, Frame(c)) /\ UNCHANGED device /\ resumed' = FALSE /\ UNCHANGED toHost
  BY <1>1 DEF Ask, HostSends, Cat
<1> HIDE DEF c, M, R
<1>4. /\ HostFields \subseteq DOMAIN host' /\ host'.state = "ack" /\ host'.command = c
      /\ host'.frame = <<>> /\ host'.mem = M /\ host'.reg = R
  BY <1>3 DEF Context, Basics, HostFields
<1>5. Foresees(host', c, cpu)
  BY <1>4 DEF M, R, Foresees, Resting, Agree
<1>6. Owing'
  <2>1. ~resumed' /\ toHost' = <<>> /\ cpu' = cpu
    BY <1>3 DEF Resting, device
  <2> QED BY <1>2, <1>4, <1>5, <2>1 DEF Owing
<1>7. Asking'
  <2>1. Free(toStub) /\ toStub \in {<<>>, Opening}
    BY DEF Resting, Free
  <2>2. stub' = stub
    BY <1>3 DEF device
  <2>3. PICK t \in {<<>>, Opening} : Free(t) /\ toStub' = Cat(t, Frame(c))
    BY <1>3, <2>1
  <2>4. Free(t)' /\ toStub' = Cat(t, Frame(host'.command))
    BY <1>4, <2>2, <2>3 DEF Free
  <2> QED BY <1>6, <2>4 DEF Asking, Opening
<1> QED BY <1>3, <1>4, <1>7, HostBasics DEF Context

\* The debugger waits until its command has been taken.
LEMMA OwingHost == ASSUME Context, Asking \/ Passing PROVE ~Host
<1>1. Owing /\ Finite(host.command) /\ Len(host.command) \in Nat
  BY ProperIs DEF Asking, Passing, Owing
<1>2. toStub # <<>>
  <2>1. CASE Asking
    <3>1. PICK t \in {<<>>, Opening} : toStub = Cat(t, Frame(host.command))
      BY <2>1 DEF Asking
    <3>2. Finite(Frame(host.command)) /\ Len(Frame(host.command)) = Len(host.command) + 4
      BY <1>1, FrameIs
    <3>3. Frame(host.command) # <<>>
      BY <1>1, <3>2
    <3> QED BY <3>1, <3>2, <3>3, CatEmpty, OpeningIs
  <2>2. CASE Passing
    <3>1. PICK j \in 1..(Len(host.command) + 3) : toStub = Left(host.command, j)
      BY <2>2 DEF Passing, Halfway
    <3>2. j \in 0..(Len(host.command) + 3)
      BY <1>1
    <3> QED BY <1>1, <3>1, <3>2, LeftIs
  <2> QED BY <2>1, <2>2
<1> QED BY <1>1, <1>2 DEF Owing, Host, Connect, Ask, HostGets, Reading, HostTimesOut, UserInterrupts, Quiet

\* A character for the debugger.
LEMMA Gets ==
  ASSUME HostGets
  PROVE  LET c == Head(toHost)
             f == Append(host.frame, c)
             h == [host EXCEPT !.frame = <<>>]
         IN /\ toHost # <<>> /\ toHost' = Tail(toHost) /\ UNCHANGED resumed
            /\ host.frame = <<>> /\ c.kind = "$" => HostSends([host EXCEPT !.frame = f], <<>>)
            /\ host.frame = <<>> /\ c.kind = "+" /\ host.state = "ack" =>
                 HostSends([host EXCEPT !.state = "answer"], <<>>)
            /\ host.frame # <<>> /\ Complete(f) /\ Intact(f) /\ host.state = "answer" =>
                 HostSends(IF TextOf(f) = <<"O">> THEN h
                           ELSE [h EXCEPT !.state = IF TextOf(f) = <<"W">> THEN "over" ELSE "idle",
                                          !.answer = TextOf(f)], <<Ch("+")>>)
            /\ host.frame # <<>> /\ ~Complete(f) /\ c.kind # "$" => HostSends([host EXCEPT !.frame = f], <<>>)
<1> HIDE DEF Complete, Intact, TextOf, HostSends
<1> QED BY DEF HostGets, Reading

LEMMA AckingHost == ASSUME Context, Acking, Host PROVE (Telling' \/ Going') /\ Basics' /\ Asks
<1>1. toHost # <<>>
  BY NobodyReads DEF Reading
<1>2. HostGets
  BY <1>1 DEF Host, Connect, Ask, HostTimesOut, UserInterrupts, Quiet, Acking
<1>3. Tells => Finite(stub.sent) /\ Finite(Frame(stub.sent))
  BY FrameIs DEF Tells
<1>4. Head(toHost) = Ch("+") /\ Head(toHost).kind = "+"
      /\ \/ stub.pc = "running" /\ Waits(host) /\ Tail(toHost) = <<>>
         \/ Tells /\ stub.then = "loop" /\ Tail(toHost) = Frame(stub.sent)
  <2>1. CASE stub.pc = "running" /\ Waits(host) /\ toHost = Opening
    BY <2>1 DEF Opening, Ch
  <2>2. CASE Tells /\ stub.then = "loop" /\ toHost = Cat(Opening, Frame(stub.sent))
    BY <1>3, <2>2, OpeningIs DEF Ch
  <2> QED BY <2>1, <2>2 DEF Acking
<1>5. HostSends([host EXCEPT !.state = "answer"], <<>>) /\ toHost' = Tail(toHost)
  BY <1>2, <1>4, Gets DEF Acking
<1>6. /\ host' = [host EXCEPT !.state = "answer"] /\ toStub' = Cat(<<>>, <<>>) /\ UNCHANGED device
  BY <1>5 DEF HostSends, Acking, Cat
<1>7. toStub' = <<>>
  <2>1. Finite(<<>>)
    BY DEF Finite
  <2> QED BY <1>6, <2>1, CatEmpty
<1>8. /\ HostFields \subseteq DOMAIN host' /\ host'.state = "answer" /\ host'.command = host.command
      /\ host'.frame = <<>> /\ host'.reg = host.reg /\ host'.mem = host.mem
  BY <1>6 DEF Context, Basics, HostFields, Acking
<1>9. Agree' /\ stub' = stub
  BY <1>6, <1>8 DEF Acking, Agree, device
<1>10. CASE stub.pc = "running" /\ Waits(host) /\ Tail(toHost) = <<>>
  BY <1>5, <1>6, <1>7, <1>8, <1>9, <1>10, HostBasics DEF Going, Waits, Context
<1>11. CASE Tells /\ stub.then = "loop" /\ Tail(toHost) = Frame(stub.sent)
  <2>1. RightAnswer(host') = RightAnswer(host)
    BY <1>8 DEF RightAnswer
  <2>2. Tells'
    BY <1>9, <1>11, <2>1 DEF Tells
  <2>3. Taken(stub.sent, 0) = <<>> /\ Left(stub.sent, 0) = Frame(stub.sent) /\ Len(stub.sent) \in Nat
    BY <1>3, <1>11, LeftEnds, FiniteLen
  <2>4. 0 \in 0..(Len(stub.sent) + 3)
    BY <2>3
  <2> QED BY <1>5, <1>6, <1>7, <1>8, <1>9, <1>11, <2>2, <2>3, <2>4, HostBasics DEF Telling, Context
<1> QED BY <1>4, <1>10, <1>11

\* The debugger has a packet when its last character has come, and not before.
LEMMA Completes ==
  ASSUME NEW text, Finite(text), NEW j \in 1..(Len(text) + 3)
  PROVE  LET f == Append(Taken(text, j), Frame(text)[j + 1])
         IN /\ Taken(text, j) # <<>> /\ f = Taken(text, j + 1)
            /\ j < Len(text) + 3 => ~Complete(f) /\ Frame(text)[j + 1].kind # "$"
            /\ j = Len(text) + 3 => Complete(f) /\ Intact(f) /\ TextOf(f) = text
<1> DEFINE F == Frame(text)
           n == Len(text)
           f == Taken(text, j + 1)
<1>1. n \in Nat /\ j \in 0..(n + 3) /\ j - 1 \in 0..(n + 3) /\ (j - 1) + 1 = j
  BY FiniteLen
<1>2. Append(Taken(text, j), F[j + 1]) = f /\ Len(f) = j + 1 /\ \A i \in 1..(j + 1) : f[i] = F[i]
  BY <1>1, LeftIs
<1>3. Taken(text, j) # <<>>
  <2>1. Len(Taken(text, (j - 1) + 1)) = (j - 1) + 1
    BY <1>1, LeftIs
  <2>2. Len(Taken(text, j)) = j /\ j # 0
    BY <1>1, <2>1
  <2> QED BY <2>2
<1>4. /\ F[1] = Ch("$") /\ F[n + 2] = Ch("#") /\ F[n + 3] = High(text) /\ F[n + 4] = Low(text)
      /\ \A i \in 1..n : F[i + 1].kind = "text"
      /\ Len(F) = n + 4
  BY FrameIs
<1> HIDE DEF f, F, n
<1>5. ASSUME j < n + 3 PROVE ~Complete(f) /\ F[j + 1].kind # "$"
  <2>1. \A i \in 1..n : F[i + 1].kind # "#" /\ F[i + 1].kind # "$"
    BY <1>4
  <2>2. F[1].kind # "#" /\ F[n + 2].kind # "$" /\ F[n + 3].kind # "$"
    BY <1>4 DEF Ch, High
  <2>3. F[j + 1].kind # "$"
    <3>1. CASE j \in 1..n
      BY <2>1, <3>1
    <3>2. CASE j = n + 1
      <4>1. j + 1 = n + 2
        BY <1>1, <3>2
      <4> QED BY <2>2, <4>1
    <3>3. CASE j = n + 2
      <4>1. j + 1 = n + 3
        BY <1>1, <3>3
      <4> QED BY <2>2, <4>1
    <3> QED BY <1>1, <1>5, <3>1, <3>2, <3>3
  <2>4. Len(f) >= 4 => f[Len(f) - 2].kind # "#"
    <3> SUFFICES ASSUME j + 1 >= 4 PROVE f[(j + 1) - 2].kind # "#"
      BY <1>1, <1>2
    <3>1. (j + 1) - 2 \in 1..(j + 1) /\ (j + 1) - 2 = j - 1 /\ (j - 2) + 1 = j - 1 /\ j - 2 \in 1..n
      BY <1>1, <1>5
    <3>2. f[(j + 1) - 2] = F[j - 1]
      BY <1>2, <3>1
    <3>3. F[(j - 2) + 1].kind # "#"
      BY <2>1, <3>1
    <3> QED BY <3>1, <3>2, <3>3
  <2> QED BY <2>3, <2>4 DEF Complete
<1>6. ASSUME j = n + 3 PROVE Complete(f) /\ Intact(f) /\ TextOf(f) = text
  <2>1. f = F
    <3>1. j + 1 = n + 4
      BY <1>1, <1>6
    <3> QED BY <3>1, LeftEnds DEF f, F, n
  <2>2. n + 4 >= 4 /\ (n + 4) - 2 = n + 2 /\ (n + 4) - 1 = n + 3 /\ (n + 4) - 3 = n + 1
    BY <1>1
  <2>3. Complete(f)
    BY <1>4, <2>1, <2>2 DEF Complete, Ch
  <2>4. SubSeq(F, 2, n + 1) = Body(text)
    BY BodyTaken DEF F, n
  <2>5. Intact(f)
    <3>1. Checks(Body(text), High(text), Low(text))
      BY DEF Checks, High, Low
    <3>2. Checks(SubSeq(F, 2, (n + 4) - 3), F[(n + 4) - 1], F[n + 4])
      BY <1>4, <2>2, <2>4, <3>1
    <3> HIDE DEF Checks
    <3> QED BY <1>4, <2>1, <3>2 DEF Intact
  <2>6. TextOf(f) = text
    BY <1>4, <2>1 DEF TextOf, Low
  <2> QED BY <2>3, <2>5, <2>6
<1> QED
  <2> HIDE DEF Complete, Intact, TextOf
  <2> QED BY <1>2, <1>3, <1>5, <1>6 DEF F, n, f

LEMMA TellingHost ==
  ASSUME Context, Telling, Host PROVE (Telling' \/ Going' \/ Resting' \/ Ended') /\ Basics' /\ Asks
<1> DEFINE c == Head(toHost)
           f == Append(host.frame, c)
           h == [host EXCEPT !.frame = <<>>]
           text == stub.sent
           n == Len(text)
<1>1. toHost # <<>>
  BY NobodyReads DEF Reading
<1>2. HostGets
  BY <1>1 DEF Host, Connect, Ask, HostTimesOut, UserInterrupts, Quiet, Telling
<1>3. PICK j \in 0..(n + 3) : host.frame = Taken(text, j) /\ toHost = Left(text, j)
  BY DEF Telling
<1>4. Finite(text) /\ n \in Nat /\ stub.pc = "sent"
  BY FiniteLen DEF Telling, Tells
<1>5. c = Frame(text)[j + 1] /\ Tail(toHost) = Left(text, j + 1) /\ f = Taken(text, j + 1)
  BY <1>3, <1>4, LeftIs
<1>6. j \in Nat /\ j <= n + 3
  BY <1>4
<1>7. HostFields \subseteq DOMAIN host /\ host.state = "answer" /\ toStub = <<>> /\ Agree /\ Tells
  BY DEF Context, Basics, Telling
<1>8. CASE j < n + 3
  <2>1. HostSends([host EXCEPT !.frame = f], <<>>)
    <3>1. CASE j = 0
      <4>1. host.frame = <<>>
        BY <1>3, <1>4, <3>1, LeftEnds
      <4>2. c = Frame(text)[1]
        BY <1>5, <3>1
      <4>3. c.kind = "$"
        BY <1>4, <4>2, FrameIs DEF Ch
      <4> HIDE DEF c
      <4> QED BY <1>2, <4>1, <4>3, Gets DEF c
    <3>2. CASE j # 0
      <4>1. j \in 1..(n + 3)
        BY <1>6, <3>2
      <4>2. Taken(text, j) # <<>> /\ ~Complete(Append(Taken(text, j), Frame(text)[j + 1]))
            /\ Frame(text)[j + 1].kind # "$"
        BY <1>4, <1>8, <4>1, Completes
      <4>3. host.frame # <<>> /\ ~Complete(f) /\ c.kind # "$"
        BY <1>3, <1>5, <4>2
      <4> HIDE DEF c, f
      <4> QED BY <1>2, <4>3, Gets DEF c, f
    <3> QED BY <3>1, <3>2
  <2> HIDE DEF f
  <2>2. host' = [host EXCEPT !.frame = f] /\ toStub' = Cat(<<>>, <<>>) /\ UNCHANGED device
    BY <1>7, <2>1 DEF HostSends, Cat
  <2>3. toStub' = <<>>
    <3>1. Finite(<<>>)
      BY DEF Finite
    <3> QED BY <2>2, <3>1, CatEmpty
  <2>4. toHost' = Left(text, j + 1)
    BY <1>2, <1>5, Gets
  <2>5. /\ HostFields \subseteq DOMAIN host' /\ host'.state = "answer" /\ host'.command = host.command
        /\ host'.frame = f /\ host'.reg = host.reg /\ host'.mem = host.mem
    BY <1>7, <2>2 DEF HostFields
  <2>6. stub' = stub /\ Agree'
    BY <1>7, <2>2, <2>5 DEF device, Agree
  <2>7. Tells'
    <3>1. RightAnswer(host') = RightAnswer(host) /\ Waits(host') = Waits(host)
      BY <2>5 DEF RightAnswer, Waits
    <3> QED BY <1>7, <2>6, <3>1 DEF Tells
  <2>8. j + 1 \in 0..(Len(stub'.sent) + 3)
    BY <1>4, <1>6, <1>8, <2>6
  <2>9. Telling'
    BY <1>5, <2>3, <2>4, <2>5, <2>6, <2>7, <2>8 DEF Telling
  <2> QED BY <2>2, <2>5, <2>9, HostBasics DEF Context
<1>9. CASE j = n + 3
  <2>0. j \in 1..(n + 3)
    BY <1>4, <1>9
  <2>1. host.frame # <<>> /\ Complete(f) /\ Intact(f) /\ TextOf(f) = text
    <3>1. LET g == Append(Taken(text, j), Frame(text)[j + 1])
          IN Taken(text, j) # <<>> /\ Complete(g) /\ Intact(g) /\ TextOf(g) = text
      BY <1>4, <1>9, <2>0, Completes
    <3> HIDE DEF c
    <3> QED BY <1>3, <1>5, <3>1
  <2> DEFINE H == IF text = <<"O">> THEN h
                  ELSE [h EXCEPT !.state = IF text = <<"W">> THEN "over" ELSE "idle", !.answer = text]
  <2>2. HostSends(H, Opening)
    <3>1. HostSends(IF TextOf(f) = <<"O">> THEN h
                    ELSE [h EXCEPT !.state = IF TextOf(f) = <<"W">> THEN "over" ELSE "idle",
                                   !.answer = TextOf(f)], Opening)
      <4> HIDE DEF TextOf, Complete, Intact
      <4> QED BY <1>2, <1>7, <2>1, Gets DEF Opening
    <3> HIDE DEF f
    <3> QED BY <2>1, <3>1
  <2> HIDE DEF H
  <2>3. host' = H /\ toStub' = Cat(<<>>, Opening) /\ UNCHANGED device
    BY <1>7, <2>2 DEF HostSends, Cat
  <2>4. toStub' = Opening
    BY <2>3, OneFinite, CatEmpty DEF Opening
  <2>5. toHost' = <<>>
    <3>1. j + 1 = n + 4
      BY <1>4, <1>9
    <3>2. toHost' = Left(text, n + 4)
      BY <1>2, <1>5, <3>1, Gets
    <3> QED BY <1>4, <3>2, LeftEnds
  <2>6. /\ HostFields \subseteq DOMAIN host' /\ host'.command = host.command /\ host'.frame = <<>>
        /\ host'.reg = host.reg /\ host'.mem = host.mem /\ host'.done = host.done
        /\ text = <<"O">> => host'.state = "answer"
        /\ text # <<"O">> => host'.answer = text /\ host'.state = IF text = <<"W">> THEN "over" ELSE "idle"
    BY <1>7, <2>3 DEF H, HostFields
  <2>7. RightAnswer(host') = RightAnswer(host) /\ Waits(host') = Waits(host)
    BY <2>6 DEF RightAnswer, Waits
  <2>8. stub' = stub /\ Agree'
    BY <1>7, <2>3, <2>6 DEF device, Agree
  <2>9. Basics' /\ Asks
    BY <2>3, <2>6, HostBasics DEF Context
  <2>10. CASE text = <<"O">>
    <3>1. stub.then = "run" /\ Waits(host)
      BY <1>7, <2>10 DEF Tells
    <3>2. Going'
      BY <1>4, <2>4, <2>5, <2>6, <2>7, <2>8, <2>10, <3>1 DEF Going
    <3> QED BY <2>9, <3>2
  <2>11. CASE text # <<"O">>
    <3>1. text \in RightAnswer(host) /\ (text # <<"W">> => stub.then = "loop")
      <4>1. CASE stub.then = "loop" /\ stub.sent \in RightAnswer(host)
        BY <4>1
      <4>2. CASE stub.sent = <<"W">> /\ Waits(host)
        <5>1. host.command[1] \in {"c", "s"}
          BY <4>2 DEF Waits
        <5> QED BY <4>2, <5>1 DEF RightAnswer
      <4> QED BY <1>7, <2>11, <4>1, <4>2 DEF Tells
    <3>2. host'.answer \in RightAnswer(host')
      BY <2>6, <2>7, <2>11, <3>1
    <3>3. CASE text = <<"W">>
      <4>1. host'.state = "over" /\ stub'.pc = "sent"
        BY <1>4, <2>6, <2>8, <2>11, <3>3
      <4>2. Ended'
        BY <2>4, <3>2, <4>1 DEF Ended
      <4> QED BY <2>9, <4>2
    <3>4. CASE text # <<"W">>
      <4>1. host'.state = "idle" /\ stub'.pc = "sent" /\ stub'.then = "loop"
        BY <1>4, <2>6, <2>8, <2>11, <3>1, <3>4
      <4>2. Resting'
        BY <2>4, <2>5, <2>6, <2>8, <3>2, <4>1 DEF Resting, Free, Opening
      <4> QED BY <2>9, <4>2
    <3> QED BY <3>3, <3>4
  <2> QED BY <2>10, <2>11
<1> QED BY <1>6, <1>4, <1>8, <1>9

LEMMA HostRuns ==
  ASSUME Context, Phases, Host, ~(mishaps' = mishaps + 1) PROVE Phases' /\ Basics' /\ Asks
<1>1. CASE Apart
  BY <1>1, ApartHost DEF Phases
<1>2. CASE Resting
  BY <1>2, RestingHost DEF Phases
<1>3. CASE Asking \/ Passing
  BY <1>3, OwingHost
<1>4. CASE Acking
  BY <1>4, AckingHost DEF Phases
<1>5. CASE Telling
  BY <1>5, TellingHost DEF Phases
<1>6. ~Going
  <2>1. Going => stub.pc = "running" \/ toStub # <<>>
    BY DEF Going, Opening
  <2> QED BY <2>1 DEF Going, Host, Connect, Ask, HostGets, Reading, HostTimesOut, UserInterrupts, Quiet
<1>7. ~Ended
  BY DEF Ended, Host, Connect, Ask, HostGets, Reading, HostTimesOut, UserInterrupts
<1> QED BY <1>1, <1>2, <1>3, <1>4, <1>5, <1>6, <1>7 DEF Phases

\* While nothing has happened to the line.
FaultlessInv == mishaps \in Nat /\ (mishaps = 0 => CalmInv)

LEMMA Mishaps ==
  ASSUME Next, mishaps \in Nat
  PROVE  mishaps' \in Nat /\ (mishaps' = mishaps \/ mishaps' = mishaps + 1)
<1>1. CASE Stub
  BY <1>1 DEF Stub, Getchar, Boot, Trap, StepDone, Syscall, Overrun, Stops
<1>2. CASE Host
  <2>1. CASE HostGets
    <3>1. \E h, chars : HostSends(h, chars)
      BY <2>1 DEF HostGets
    <3> QED BY <3>1 DEF HostSends
  <2> QED BY <1>2, <2>1 DEF Host, Connect, Ask, HostTimesOut, UserInterrupts, HostSends
<1>3. CASE Damage
  BY <1>3 DEF Damage
<1> QED BY <1>1, <1>2, <1>3 DEF Next

LEMMA FaultlessStep ==
  ASSUME ProperSessions, AskedInv, AskedInv', FaultlessInv, Next
  PROVE  FaultlessInv' /\ (mishaps' = 0 => Asks)
<1>1. mishaps' \in Nat /\ (mishaps' = mishaps \/ mishaps' = mishaps + 1)
  BY Mishaps DEF FaultlessInv
<1>2. ASSUME mishaps' = 0 PROVE CalmInv' /\ Asks
  <2>1. mishaps = 0 /\ ~(mishaps' = mishaps + 1)
    BY <1>1, <1>2 DEF FaultlessInv
  <2>2. Context /\ Phases
    BY <2>1 DEF FaultlessInv, CalmInv, Context
  <2>3. ~Damage
    BY <2>1 DEF Damage
  <2> QED BY <2>1, <2>2, <2>3, StubRuns, HostRuns DEF Next, CalmInv
<1> QED BY <1>1, <1>2 DEF FaultlessInv

LEMMA FaultlessStutter ==
  ASSUME FaultlessInv, UNCHANGED vars
  PROVE  FaultlessInv'
<1>1. /\ UNCHANGED <<stub, cpu, ring, uart, toStub, toHost, host, resumed, mishaps>>
  BY DEF vars, device, line
<1>2. /\ Basics' = Basics /\ Agree' = Agree /\ Tells' = Tells /\ Owing' = Owing
      /\ \A t : Free(t)' = Free(t)
      /\ \A j : Halfway(j)' = Halfway(j)
  BY <1>1 DEF Basics, Calm, Agree, Tells, Owing, Free, Halfway
<1>3. Phases' = Phases
  BY <1>1, <1>2 DEF Phases, Apart, Resting, Asking, Passing, Acking, Telling, Going, Ended
<1> QED BY <1>1, <1>2, <1>3 DEF FaultlessInv, CalmInv

LEMMA InitFaultless == Init => FaultlessInv
<1> SUFFICES ASSUME Init PROVE FaultlessInv
  OBVIOUS
<1>1. Basics
  BY DEF Init, Basics, Calm, HostFields, Plain
<1>2. Apart
  BY DEF Init, Apart, Agree
<1> QED BY <1>1, <1>2 DEF Init, FaultlessInv, CalmInv, Phases

\* A session to which nothing happens goes from phase to phase: a command is on its
\* way, taken, acknowledged, answered and read, and each end knows in which.
THEOREM Faultless == ASSUME ProperSessions PROVE Spec => []FaultlessInv
<1>1. FaultlessInv /\ AskedInv /\ AskedInv' /\ [Next]_vars => FaultlessInv'
  BY FaultlessStep, FaultlessStutter
<1> QED BY <1>1, InitFaultless, DigitsNameCommands, PTL DEF Spec

\* Every command of a session, of any length and however the program traps and prints
\* meanwhile, has the answer it should have, until the line first loses or damages a
\* character or the user interrupts: none is skipped, and none is taken for another's
\* (gdb.c:182-208, 213-289, 490-614).
THEOREM FaultlessAnswers ==
  ASSUME ProperSessions
  PROVE  Spec => [](mishaps = 0 => AnswersRight)
<1>1. FaultlessInv => (mishaps = 0 => AnswersRight)
  BY DEF FaultlessInv, CalmInv, Phases, Apart, Resting, Asking, Passing, Owing, Acking, Telling, Going,
         Ended, AnswersRight
<1> QED BY <1>1, Faultless, PTL

\* A session to which nothing happens changes a register or memory, or lets the
\* program go on, for the pending command only, and for each command once
\* (gdb.c:213-289, 490-614).
THEOREM FaultlessExecutes ==
  ASSUME ProperSessions
  PROVE  Spec /\ [](mishaps = 0) => ExecutesAsked
<1>1. ProperSessions /\ FaultlessInv /\ AskedInv /\ AskedInv' /\ (mishaps = 0)' /\ [Next]_vars =>
        [ /\ cpu'.mem # cpu.mem => host.state = "ack" /\ host.command = <<"M", cpu'.mem>>
          /\ cpu'.reg # cpu.reg =>
               host.state = "ack" /\ host.command \in {<<"G", cpu'.reg>>, <<"P", cpu'.reg>>}
          /\ stub.pc = "checksum" /\ stub'.pc = "running" =>
               host.state = "ack" /\ Waits(host) /\ (ackLost \/ ~resumed) ]_vars
  BY FaultlessStep DEF Asks
<1> QED BY <1>1, Faultless, DigitsNameCommands, PTL DEF Spec, ExecutesAsked
=============================================================================
