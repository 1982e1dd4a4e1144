------------------------------ MODULE TcpStack ------------------------------
(***************************************************************************)
(* The main loop of the device (application/ibexukIP/eth-main.c) with TCP  *)
(* and the HTTP server, and the devices at the other ends of its           *)
(* connections, over a network that may lose segments:                     *)
(*                                                                         *)
(*   rx     tcp_ip_process_stack: tcp_process_rx for a segment             *)
(*   tcp    process_tcp, socket by socket                                  *)
(*   http   process_http, socket by socket                                 *)
(*   user   an application that connects to a server elsewhere             *)
(*                                                                         *)
(* The remote ends follow RFC 793 as far as the code depends on it: they   *)
(* send a request at a time, repeat what is not acknowledged, acknowledge  *)
(* what arrives in order, ignore segments without an ACK once they are     *)
(* connected, and answer with RST when they have no connection.            *)
(***************************************************************************)
EXTENDS Http, FiniteSets, SequencesExt

CONSTANTS
  Scenarios,     \* what may happen, see ScenarioType
  Texts          \* what may follow GET or HEAD, see RequestRead

ScenarioType ==
  [role : {"client", "server"},   \* the ends ask the HTTP server, or answer the user
   ends : SUBSET Ends,            \* the ends that take part
   opens : Nat,                   \* connections each of them opens
   requests : Nat,                \* requests on a connection, each after the answer to the last
   asks : SUBSET DOMAIN Asked,    \* the requests chosen from
   silent : SUBSET Ends,          \* ends that open a connection and ask nothing
   mishaps : Nat,                 \* segments lost, and calls that find the transmitter busy
   inactive : BOOLEAN,            \* may the HTTP server close an inactive connection?
   patient : BOOLEAN,             \* do the ends neither repeat nor give up?
   hurried : BOOLEAN,             \* do clients close with their request?
   delayed : BOOLEAN,             \* may a request acknowledge the answer to the one before?
   knows : BOOLEAN,               \* does the application know the server's MAC address?
   arps : Nat,                    \* ARP packets the ends send of themselves
   drains : BOOLEAN,              \* is a segment sent out between two sockets of process_tcp?
   timely : BOOLEAN]              \* do timers run out only when the network is empty?

ASSUME TcpStackAssumption == Scenarios # {} /\ \A c \in Scenarios : c \in ScenarioType
ASSUME TextsAssumption == \A text \in Texts : text \in Seq(Byte)

VARIABLES
  tcp, http, rx, arp,  \* see Tcp, Http and Arp
  flags,               \* tcp_response_flags of process_tcp
  user,                \* the application that connects: its state and socket
  pc, turn,            \* where the main loop is
  scenario,            \* what may happen, chosen at the start
  toUs, toPeer,        \* the segments on their way, for each end
  arps,                \* the ARP packets on their way, and how many the ends may still send
  peer,                \* the remote ends
  mishaps              \* how often something has gone wrong

device  == <<tcp, http, rx, arp, flags, user, pc, turn>>
network == <<toUs, toPeer, arps>>
vars    == <<device, scenario, network, peer, mishaps>>

UserStates == {"OPEN_SOCKET", "WAIT_FOR_CONNECTION", "TX_PACKET", "WAIT_FOR_RESPONSE",
               "REQUEST_DISCONNECT", "WAIT_FOR_DISCONNECT", "DONE"}
PeerType ==
  [state : {"closed", "syn_sent", "syn_received", "open", "fin_sent"},
   next : Seqs,          \* the next sequence number to send
   expect : Seqs,        \* the next one expected
   pending : SUBSET {"SYN", "DATA", "FIN"},   \* sent and not acknowledged
   owes : BOOLEAN,       \* an acknowledgement is delayed
   ended : BOOLEAN,      \* the device has sent FIN
   opens : 0..scenario.opens, requests : 0..scenario.requests,
   asked : Seq(DOMAIN Asked),    \* the requests of this connection
   got : Seq(STRING)]            \* the data of this connection

TypeOK ==
  /\ tcp \in TcpType /\ http \in HttpType /\ arp \in ArpType
  /\ arps \in [toUs : SUBSET ArpPackets, toPeer : SUBSET ArpPackets, left : 0..scenario.arps]
  /\ flags \in FlagSets
  /\ user \in [sm : UserStates, socket : Sockets \cup {TCP_INVALID_SOCKET}]
  /\ pc \in {"rx", "tcp", "http", "user"} /\ turn \in Nat
  /\ scenario \in Scenarios
  /\ peer \in [Ends -> PeerType]
  /\ mishaps \in 0..scenario.mishaps

Init ==
  /\ tcp = tcp_initialise /\ http = http_initialise /\ arp = arp_initialise
  /\ rx = Nothing /\ flags = {}
  /\ user = [sm |-> "OPEN_SOCKET", socket |-> TCP_INVALID_SOCKET]
  /\ pc = "rx" /\ turn = 0
  /\ scenario \in Scenarios
  /\ toUs = [e \in Ends |-> <<>>] /\ toPeer = [e \in Ends |-> <<>>]
  /\ arps = [toUs |-> {}, toPeer |-> {}, left |-> scenario.arps]
  /\ peer = [e \in Ends |-> [state |-> "closed", next |-> 0, expect |-> 0, pending |-> {},
                             owes |-> FALSE, ended |-> FALSE, opens |-> 0, requests |-> 0,
                             asked |-> <<>>, got |-> <<>>]]
  /\ mishaps = 0

-----------------------------------------------------------------------------
(* The device *)

World(ok) == [tcp |-> tcp, http |-> http, rx |-> rx, arp |-> arp, ok |-> ok,
              out |-> Nothing, arp_out |-> NoPacket, resp |-> {}, flags |-> flags]
\* may a call find the transmitter ready, or busy?
Ready(ok) == (ok \/ mishaps < scenario.mishaps) /\ mishaps' = IF ok THEN mishaps ELSE mishaps + 1

\* the state after a call, and the segment or the ARP packet it has sent
Sends(h) == IF h.end \in Ends THEN toPeer' = [toPeer EXCEPT ![h.end] = Append(@, h)]
            ELSE UNCHANGED toPeer
SendsArp(p) == IF p.end \in Ends THEN arps' = [arps EXCEPT !.toPeer = @ \cup {p}]
               ELSE UNCHANGED arps
Becomes(w) ==
  /\ tcp' = w.tcp /\ http' = w.http /\ rx' = w.rx /\ arp' = w.arp /\ flags' = w.flags
  /\ Sends(w.out) /\ SendsArp(w.arp_out)
Goto(p, t) == pc' = p /\ turn' = t

\* on to the first socket from t on that process_tcp does not skip
Sweep(t) ==
  LET due == {s \in Sockets : s >= t /\ ~Idle(tcp'.socket[s])}
  IN IF due = {} THEN Goto("http", 0) ELSE Goto("tcp", Lowest(due))

\* a segment comes out of the receiver
Receive(e) ==
  /\ pc = "rx" /\ ~tcp.waiting /\ toUs[e] # <<>>
  /\ \E ok \in BOOLEAN : Ready(ok) /\ Becomes(tcp_process_rx([World(ok) EXCEPT !.rx = Head(toUs[e])]))
  /\ toUs' = [toUs EXCEPT ![e] = Tail(@)]
  /\ Sweep(0)
  /\ UNCHANGED <<user, scenario, peer>>

\* the segment received before still waits
Wait ==
  /\ pc = "rx" /\ tcp.waiting
  /\ \E ok \in BOOLEAN : Ready(ok) /\ Becomes(tcp_process_rx(World(ok)))
  /\ Sweep(0)
  /\ UNCHANGED <<user, scenario, toUs, peer>>

\* arp_process_rx, called while no segment waits
ReceiveArp(p) ==
  /\ pc = "rx" /\ ~tcp.waiting /\ p \in arps.toUs
  /\ LET w == arp_process_rx(World(TRUE), p)
     IN /\ arp' = w.arp
        /\ arps' = [arps EXCEPT !.toUs = @ \ {p},
                                !.toPeer = @ \cup (IF w.arp_out = NoPacket THEN {} ELSE {w.arp_out})]
  /\ UNCHANGED <<tcp, http, rx, flags, user, scenario, toUs, toPeer, peer, mishaps>>
  /\ Sweep(0)

NothingReceived ==
  /\ pc = "rx" /\ ~tcp.waiting /\ \A e \in Ends : toUs[e] = <<>>
  /\ arps.toUs = {}
  /\ UNCHANGED <<tcp, http, rx, arp, flags, user, scenario, network, peer, mishaps>>
  /\ Sweep(0)

Quiet(e) == toUs[e] = <<>> /\ toPeer[e] = <<>> /\ rx.end # e /\ ~peer[e].owes
            /\ \A p \in arps.toUs \cup arps.toPeer : p.end # e

\* the timer of a FIN is still the one of the segment before it
MayExpire(k) ==
  \/ ~scenario.timely
  \/ k.remote \in Ends => Quiet(k.remote)
  \/ k.state = "FIN_WAIT_1" /\ k.retry_count = 0

\* one socket; the pass ends with the last one, or early
process_tcp(expired) ==
  /\ pc = "tcp"
  /\ \E ok \in BOOLEAN :
       LET w    == World(ok)
           stop == StopsAt(w, turn, expired)
           r    == IF stop THEN w ELSE ProcessSocket(w, turn, expired)
       IN /\ IF flags = {} \/ scenario.drains THEN Ready(ok) ELSE ~ok /\ UNCHANGED mishaps
          /\ Becomes(IF stop \/ \A t \in Sockets : t > turn => Idle(r.tcp.socket[t])
                     THEN [r EXCEPT !.flags = {}] ELSE r)
          /\ IF stop THEN Goto("http", 0) ELSE Sweep(turn + 1)
  /\ UNCHANGED <<user, scenario, toUs, peer>>

InTime == process_tcp(FALSE)

Expires ==
  /\ pc = "tcp" /\ Timed(World(TRUE), turn)
  /\ MayExpire(tcp.socket[turn])
  /\ process_tcp(TRUE)

ProcessHttp ==
  /\ pc = "http" /\ turn \in HttpSockets
  /\ \E ok \in BOOLEAN, inactive \in BOOLEAN, fails \in BOOLEAN :
       /\ inactive => scenario.inactive
       /\ fails => http[turn].file # "" /\ Files[http[turn].file].torn
       /\ Ready(ok)
       /\ Becomes(process_http(World(ok), turn, inactive, fails))
  /\ IF turn < NumHttp - 1 THEN Goto("http", turn + 1)
     ELSE Goto(IF scenario.role = "client" THEN "rx" ELSE "user", 0)
  /\ UNCHANGED <<user, scenario, toUs, peer>>

-----------------------------------------------------------------------------
(* The application that connects to a server: a packet, the answer, the    *)
(* end.  It gives up when its own timer has run out.                       *)

UserCalls(w, sm, socket) ==
  /\ pc = "user" /\ Goto("rx", 0)
  /\ Becomes(w) /\ user' = [sm |-> sm, socket |-> socket]
  /\ UNCHANGED <<scenario, toUs, peer>>

UserConnects(e) ==
  /\ user.sm = "OPEN_SOCKET"
  /\ \E ok \in BOOLEAN : Ready(ok) /\
       LET s == FreeSocket(World(ok))
       IN UserCalls(tcp_connect_socket(World(ok), e, scenario.knows),
                    IF s = TCP_INVALID_SOCKET THEN "OPEN_SOCKET" ELSE "WAIT_FOR_CONNECTION", s)

UserGivesUp ==
  /\ user.sm \notin {"OPEN_SOCKET", "DONE"}
  /\ UserCalls(tcp_close_socket(World(TRUE), user.socket), "DONE", TCP_INVALID_SOCKET)
  /\ UNCHANGED mishaps

UserWaits ==
  /\ UNCHANGED mishaps
  /\ LET w == World(TRUE)
         s == user.socket
         r == IF tcp_check_socket_for_rx(w, s) THEN tcp_dump_rx_packet(w) ELSE w
     IN \/ /\ user.sm = "WAIT_FOR_CONNECTION"
           /\ UserCalls(w, IF tcp_is_socket_connected(w, s) THEN "TX_PACKET" ELSE user.sm, s)
        \/ /\ user.sm = "WAIT_FOR_RESPONSE"
           /\ UserCalls(r, CASE ~tcp_is_socket_connected(w, s) -> "WAIT_FOR_DISCONNECT"
                            [] tcp_is_socket_connected(w, s)
                               /\ tcp_does_socket_require_resend_of_last_packet(w, s) -> "TX_PACKET"
                            [] tcp_is_socket_connected(w, s)
                               /\ ~tcp_does_socket_require_resend_of_last_packet(w, s) ->
                                 IF tcp_check_socket_for_rx(w, s) THEN "REQUEST_DISCONNECT" ELSE user.sm, s)
        \/ /\ user.sm = "WAIT_FOR_DISCONNECT"
           /\ IF w.tcp.socket[s].state = "CLOSED"
              THEN UserCalls(w, "DONE", TCP_INVALID_SOCKET) ELSE UserCalls(w, user.sm, s)
        \/ user.sm = "DONE" /\ UserCalls(w, "DONE", s)

UserSends ==
  /\ user.sm = "TX_PACKET"
  /\ \E ok \in BOOLEAN : Ready(ok) /\
       LET w == World(ok)
       IN IF tcp_is_socket_ready_to_tx_new_packet(w, user.socket)
          THEN UserCalls(SendData(w, user.socket, "hello"), "WAIT_FOR_RESPONSE", user.socket)
          ELSE UserCalls(w, IF tcp_is_socket_connected(w, user.socket) THEN user.sm
                            ELSE "WAIT_FOR_DISCONNECT", user.socket)

UserDisconnects ==
  /\ user.sm = "REQUEST_DISCONNECT"
  /\ \E ok \in BOOLEAN : Ready(ok) /\
       UserCalls(tcp_request_disconnect_socket(World(ok), user.socket), "WAIT_FOR_DISCONNECT", user.socket)

User == UserGivesUp \/ UserWaits \/ UserSends \/ UserDisconnects
        \/ \E e \in scenario.ends : UserConnects(e)

Device == (\E e \in Ends : Receive(e)) \/ (\E p \in ArpPackets : ReceiveArp(p)) \/ Wait
          \/ NothingReceived \/ InTime \/ Expires \/ ProcessHttp \/ User

-----------------------------------------------------------------------------
(* The remote ends *)

PeerBecomes(e, p) == peer' = [peer EXCEPT ![e] = p]
\* a segment of the end e; the ports of the device are those of its sockets
PeerPort(e) == IF scenario.role = "client" THEN HTTP_PORT
               ELSE IF user.socket \in Sockets THEN tcp.socket[user.socket].local_port ELSE PortStart
PeerSegment(e, seq, f, d) == Segment(e, PeerPort(e), seq, peer[e].expect, f, d)
PeerSends(e, h) == toUs' = [toUs EXCEPT ![e] = Append(@, h)]
Minus(n, k) == (n + SeqSpace - k) % SeqSpace

\* what is pending, as it is sent first and repeated
Pending(e, p, seq) ==
  CASE p.pending = {"SYN"} /\ p.state = "syn_sent" -> Segment(e, PeerPort(e), seq, 0, {"SYN"}, NoData)
    [] p.pending = {"SYN"} /\ p.state # "syn_sent" ->
         Segment(e, PeerPort(e), seq, p.expect, {"SYN", "ACK"}, NoData)
    [] "DATA" \in p.pending ->
         Segment(e, PeerPort(e), seq, p.expect, {"ACK"} \cup (p.pending \ {"DATA"}),
                 IF scenario.role = "client" THEN Last(p.asked) ELSE "welcome")
    [] p.pending = {"FIN"} -> Segment(e, PeerPort(e), seq, p.expect, {"FIN", "ACK"}, NoData)

\* sends what takes a sequence number, or two
PeerStarts(e, p) ==
  /\ PeerBecomes(e, [p EXCEPT !.next = Plus(@, Cardinality(p.pending)), !.owes = FALSE])
  /\ PeerSends(e, Pending(e, p, p.next))
  /\ UNCHANGED <<device, scenario, toPeer, arps, mishaps>>

PeerOpens(e) ==
  LET p == peer[e]
  IN /\ scenario.role = "client" /\ p.state = "closed" /\ p.opens < scenario.opens
     /\ PeerStarts(e, [p EXCEPT !.state = "syn_sent", !.pending = {"SYN"}, !.opens = @ + 1,
                                !.ended = FALSE, !.requests = 0, !.asked = <<>>, !.got = <<>>])

\* everything asked for so far has arrived
Answer(text) ==
  LET q == Asked[text]
  IN IF q.type \in {"GET", "HEAD"} /\ q.file \in DOMAIN Files THEN Page(q.file, q.type = "HEAD")
     ELSE <<ErrorPage>>
Answers(asked) == FoldLeft(LAMBDA a, text : a \o Answer(text), <<>>, asked)
\* does the server leave the connection open after its answer?
LeavesOpen(text) ==
  LET q == Asked[text]
  IN \/ q.type = "HEAD" /\ q.file \in DOMAIN Files
     \/ q.type = "GET" /\ q.file \in {f \in DOMAIN Files : ~Files[f].html}
Answered(p) == IF scenario.role = "client" THEN p.got = Answers(p.asked) ELSE p.got # <<>>

PeerAsks(e) ==
  LET p == peer[e]
  IN /\ p.state = "open" /\ p.pending = {} /\ ~p.ended /\ e \notin scenario.silent
     /\ p.requests < scenario.requests /\ Answered(p)
     /\ scenario.role = "client" /\ p.asked # <<>> => LeavesOpen(Last(p.asked))
     /\ \E text \in (IF scenario.role = "client" THEN scenario.asks ELSE {"welcome"}) :
          PeerStarts(e, [p EXCEPT !.pending = IF scenario.hurried THEN {"DATA", "FIN"} ELSE {"DATA"},
                                  !.state = IF scenario.hurried THEN "fin_sent" ELSE @,
                                  !.requests = @ + 1,
                                  !.asked = IF scenario.role = "client" THEN Append(@, text) ELSE @])

\* closes when the device has, or when it is content
PeerCloses(e) ==
  LET p == peer[e]
  IN /\ p.state = "open" /\ p.pending = {}
     /\ p.ended \/ e \in scenario.silent
        \/ (scenario.role = "client" /\ p.requests > 0 /\ Answered(p))
     /\ PeerStarts(e, [p EXCEPT !.state = "fin_sent", !.pending = {"FIN"}])

PeerRepeats(e) ==
  /\ ~scenario.patient /\ peer[e].pending # {} /\ peer[e].state # "closed"
  /\ scenario.timely => Quiet(e) /\ ~tcp.waiting
  /\ PeerSends(e, Pending(e, peer[e], Minus(peer[e].next, Cardinality(peer[e].pending))))
  /\ UNCHANGED <<device, scenario, toPeer, arps, peer, mishaps>>

\* an end without an answer forgets the connection
PeerGivesUp(e) ==
  /\ ~scenario.patient /\ peer[e].state # "closed" /\ Quiet(e) /\ (peer[e].pending # {} \/ peer[e].ended)
  /\ PeerBecomes(e, [peer[e] EXCEPT !.state = "closed", !.pending = {}, !.owes = FALSE])
  /\ UNCHANGED <<device, scenario, network, mishaps>>

PeerAcks(e) ==
  /\ peer[e].owes
  /\ PeerBecomes(e, [peer[e] EXCEPT !.owes = FALSE])
  /\ PeerSends(e, PeerSegment(e, peer[e].next, {"ACK"}, NoData))
  /\ UNCHANGED <<device, scenario, toPeer, arps, mishaps>>

\* the receipt of segment h by an end in state p: the end's state after it and
\* whether it acknowledges.  A connected end ignores what has no ACK.
Accepts(p, h) ==
  LET a     == IF "ACK" \in h.flags /\ h.ack = p.next /\ p.pending # {}
               THEN [p EXCEPT !.pending = {}, !.state = IF @ = "syn_received" THEN "open" ELSE @]
               ELSE p
      inseq == h.seq = p.expect /\ "SYN" \notin h.flags
      n     == Length(h) + (IF "FIN" \in h.flags THEN 1 ELSE 0)
      b     == IF ~inseq THEN a
               ELSE [a EXCEPT !.expect = Plus(@, n), !.ended = @ \/ "FIN" \in h.flags,
                              !.got = IF Length(h) > 0 THEN Append(@, h.data) ELSE @]
  IN IF "ACK" \notin h.flags THEN [to |-> p, ack |-> FALSE]
     ELSE [to |-> IF b.state = "fin_sent" /\ b.ended /\ b.pending = {}
                  THEN [b EXCEPT !.state = "closed"] ELSE b,
           ack |-> n > 0 \/ "SYN" \in h.flags]

PeerReceives(e) ==
  LET p == peer[e]
      h == Head(toPeer[e])
      Refuse == PeerSends(e, Segment(e, h.port, h.ack, 0, {"RST"}, NoData)) /\ UNCHANGED peer
      Ignore == UNCHANGED <<toUs, peer>>
      r == Accepts(p, h)
  IN /\ toPeer[e] # <<>> /\ toPeer' = [toPeer EXCEPT ![e] = Tail(@)]
     /\ CASE "RST" \in h.flags ->
               PeerBecomes(e, [p EXCEPT !.state = "closed", !.pending = {}, !.owes = FALSE])
               /\ UNCHANGED toUs
          [] "RST" \notin h.flags /\ p.state = "closed" ->
               IF scenario.role = "server" /\ h.flags = {"SYN"} /\ p.opens < scenario.opens
               THEN LET q == [p EXCEPT !.state = "syn_received", !.pending = {"SYN"},
                                       !.opens = @ + 1, !.expect = Plus(h.seq, 1),
                                       !.next = Plus(@, 1)]
                    IN PeerBecomes(e, q) /\ PeerSends(e, Pending(e, q, p.next))
               ELSE Refuse
          [] "RST" \notin h.flags /\ p.state = "syn_sent" ->
               IF "ACK" \in h.flags /\ h.ack # p.next THEN Refuse
               ELSE IF "SYN" \in h.flags
               THEN LET q == [p EXCEPT !.state = "open", !.pending = {}, !.expect = Plus(h.seq, 1)]
                    IN PeerBecomes(e, q)
                       /\ PeerSends(e, Segment(e, h.port, q.next, q.expect, {"ACK"}, NoData))
               ELSE Ignore
          [] "RST" \notin h.flags /\ p.state \notin {"closed", "syn_sent"} ->
               IF ~r.ack THEN PeerBecomes(e, r.to) /\ UNCHANGED toUs
               ELSE \/ /\ PeerBecomes(e, [r.to EXCEPT !.owes = FALSE])
                       /\ PeerSends(e, Segment(e, h.port, r.to.next, r.to.expect, {"ACK"}, NoData))
                    \/ /\ scenario.delayed /\ Length(h) > 0
                       /\ PeerBecomes(e, [r.to EXCEPT !.owes = TRUE]) /\ UNCHANGED toUs
     /\ UNCHANGED <<device, scenario, arps, mishaps>>

\* an end asks for the device's MAC address, or sends something else
PeerArp(e) ==
  /\ arps.left > 0
  /\ \E op \in {"request", "other"} :
       arps' = [arps EXCEPT !.left = @ - 1, !.toUs = @ \cup {ArpPacket(op, e)}]
  /\ UNCHANGED <<device, scenario, toUs, toPeer, peer, mishaps>>

\* it answers for its own address, and takes an answer
PeerReceivesArp(e) ==
  /\ \E op \in {"request", "response"} :
       /\ ArpPacket(op, e) \in arps.toPeer
       /\ arps' = [arps EXCEPT !.toPeer = @ \ {ArpPacket(op, e)},
                               !.toUs = IF op = "request" THEN @ \cup {ArpPacket("response", e)} ELSE @]
  /\ UNCHANGED <<device, scenario, toUs, toPeer, peer, mishaps>>

Peer(e) == PeerArp(e) \/ PeerReceivesArp(e) \/ PeerOpens(e) \/ PeerAsks(e) \/ PeerCloses(e)
           \/ PeerRepeats(e) \/ PeerGivesUp(e) \/ PeerAcks(e) \/ PeerReceives(e)

Lose(e) ==
  /\ mishaps < scenario.mishaps /\ mishaps' = mishaps + 1
  /\ \/ toUs[e] # <<>> /\ toUs' = [toUs EXCEPT ![e] = Tail(@)] /\ UNCHANGED toPeer
     \/ toPeer[e] # <<>> /\ toPeer' = [toPeer EXCEPT ![e] = Tail(@)] /\ UNCHANGED toUs
  /\ UNCHANGED arps
  /\ UNCHANGED <<device, scenario, peer>>

Next == Device \/ \E e \in scenario.ends : Peer(e) \/ Lose(e)

Spec == Init /\ [][Next]_vars
-----------------------------------------------------------------------------
(* Properties *)

\* a file that cannot be read to its end is cut short by an error page
Torn(p) == \E i \in DOMAIN p.asked : Asked[p.asked[i]].file \in {f \in DOMAIN Files : Files[f].torn}

\* Every request is read by http_process_rx (eth-http.c:336-640) as what it means:
\* which file it asks for, in spite of a leading domain name, escapes and lengths
\* past the buffers, and which inputs the application is given.  The reading does
\* not depend on the state: it is enough that it holds at the start.
RequestRead ==
  tcp = tcp_initialise /\ pc = "rx" =>
    \A type \in {"GET", "HEAD"}, text \in Texts : ReadAsMeant(type, text)

\* What a client has received is, from its start on, what it asked for: no part
\* of a response is left out, repeated or taken from another, although lost
\* segments are sent again (eth-tcp.c:245-302) by a server that keeps no copy
\* and computes the part again from its registers (eth-http.c:1104-1163).
ResponseIntact ==
  scenario.role = "client" => \A e \in Ends :
    \/ IsPrefix(peer[e].got, Answers(peer[e].asked))
    \/ /\ Torn(peer[e]) /\ Last(peer[e].got) = ErrorPage
       /\ IsPrefix(Front(peer[e].got), Answers(peer[e].asked))

\* A client that is told of the end of the connection by the FIN of
\* http's close (eth-http.c:302-313) or of process_tcp has the whole response.
\* (The request of a client that closes with it is dropped, eth-tcp.c:415.)
CompleteAtEnd ==
  scenario.role = "client" /\ ~scenario.hurried => \A e \in Ends :
    peer[e].ended /\ peer[e].state # "closed" /\ ~Torn(peer[e]) => peer[e].got = Answers(peer[e].asked)

\* Two sockets never serve the same connection: tcp_rx_check_for_matches_socket
\* (eth-tcp.c:962-1033) gives a repeated SYN to the socket that has answered it.
OneSocketPerEnd ==
  \A s, t \in Sockets : s # t /\ tcp.socket[s].state \notin {"CLOSED", "LISTEN"}
                              /\ tcp.socket[t].state \notin {"CLOSED", "LISTEN"} =>
    <<tcp.socket[s].remote, tcp.socket[s].local_port>> # <<tcp.socket[t].remote, tcp.socket[t].local_port>>

\* A socket with bytes to read is the active one, and the packet held by the
\* network controller is the one they came in (eth-tcp.c:384-420, 808-838): no
\* close, reset or reuse of the socket leaves its owner reading something else.
AnnouncedIntact ==
  \A s \in Sockets : tcp.socket[s].rx_data_bytes_remaining > 0 =>
    /\ tcp.waiting /\ tcp.active = s
    /\ rx.data # NoData /\ rx.end = tcp.socket[s].remote /\ rx.port = tcp.socket[s].local_port

\* The loop never stops, the network delivers, applications and remote devices
\* have timers of their own, and a socket's timer that is due again and again
\* runs out in the end.  (All else that process_tcp does for a socket it does
\* only after a mishap.)
Due(s) ==
  /\ pc = "tcp" /\ turn = s /\ MayExpire(tcp.socket[s])
  /\ tcp.socket[s].state = "CONNECTION_ESTABLISHED" => tcp.socket[s].awaiting_ack
TimedOut(s) ==
  pc = "tcp" /\ turn = s /\ (tcp'.socket[s] # tcp.socket[s] \/ toPeer' # toPeer)

Fairness ==
  /\ []<><<TRUE>>_<<pc, turn>>
  /\ \A s \in Sockets : []<>Due(s) => []<><<TimedOut(s)>>_vars
  /\ SF_vars(UserGivesUp)
  /\ WF_vars(\E e \in Ends : PeerReceives(e)) /\ SF_vars(\E e \in Ends : PeerGivesUp(e))

FairSpec == Spec /\ Fairness

\* The packet that all reception waits for (eth-tcp.c:384-420, eth-main.c:230)
\* is read or dumped in the end, with one exception.  While a packet owes its
\* sender an answer no socket may send data (eth-tcp.c:1385), and a server that is
\* sending a response reads nothing before it has sent the next part: a next
\* request on its connection that brings the late acknowledgement, or overtakes a
\* lost one, halts reception.  The watchdog of eth-main.c:189-205 is never set.
Deadlocked ==
  /\ tcp.waiting /\ tcp.resp_flags # {}
  /\ tcp.socket[tcp.active].state = "CONNECTION_ESTABLISHED"
  /\ tcp.socket[tcp.active].rx_data_bytes_remaining > 0
  /\ \E h \in HttpSockets : /\ http[h].socket = tcp.active
                            /\ http[h].sm \in ResponseStates \cup ErrorStates
StackServes == tcp.waiting ~> ~tcp.waiting \/ Deadlocked

\* No socket stays for ever in a handshake or in the end of a connection: the
\* retries of process_tcp (eth-tcp.c:227-242, 305-337) run out, although each
\* segment received sets them back to none.
HalfOpen ==
  {s \in Sockets : tcp.socket[s].state \in {"CONNECT_SEND_ARP_REQUEST", "CONNECT_WAIT_ARP_RESPONSE",
                                            "SYN_REQUEST_RECEIVED", "FIN_WAIT_1", "CLOSING", "LAST_ACK_SENT"}}
HalfOpenEnds == HalfOpen # {} ~> HalfOpen = {}
=============================================================================
