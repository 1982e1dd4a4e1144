--------------------------- MODULE TcpStack_proofs ---------------------------
(***************************************************************************)
(* What the TCP sockets owe their owners and the ends of the connections,  *)
(* for every number of sockets, of HTTP sockets and of ends, for every     *)
(* file and request, and for whatever the network loses.                   *)
(***************************************************************************)
EXTENDS TcpStack, SequenceTheorems, WellFoundedInduction, TLAPS

-----------------------------------------------------------------------------
(* Worlds, and what most calls leave alone in them *)

SocketFields == {"state", "local_port", "remote", "rx_data_bytes_remaining", "retry_count",
                 "seq", "ack", "increment", "last_flags", "waiting_command",
                 "ready_for_tx", "awaiting_ack", "had_data", "resend", "is_server"}
TcpFields == {"socket", "waiting", "active", "resp_flags", "resp_socket", "next_seq", "next_port"}
Fields    == {"tcp", "http", "rx", "arp", "ok", "out", "arp_out", "resp", "flags"}

Open == States \ {"CLOSED", "LISTEN"}

Sock(k) == /\ SocketFields \subseteq DOMAIN k
           /\ k.state \in States /\ k.retry_count \in Nat
           /\ k.rx_data_bytes_remaining \in {0, 1}

Formed(w) ==
  /\ Fields \subseteq DOMAIN w /\ TcpFields \subseteq DOMAIN w.tcp
  /\ DOMAIN w.tcp.socket = Sockets /\ w.tcp.resp_socket \in Sockets
  /\ \A s \in Sockets : Sock(Socket(w, s))

\* does socket s have bytes to read?
Has(w, s)   == Socket(w, s).rx_data_bytes_remaining # 0
NoneHas(w)  == \A s \in Sockets : ~Has(w, s)
OnlyHas(w, s) == \A t \in Sockets : Has(w, t) => t = s
Single(w)   == \A s, t \in Sockets : Has(w, s) /\ Has(w, t) => s = t

\* A socket stays in its state, moves on in a connection, or ends.
Goes(k, l) ==
  \/ l.state = k.state
  \/ k.state \in Open /\ l.state \in Open
  \/ l.state = IF l.is_server THEN "LISTEN" ELSE "CLOSED"

\* It keeps its port and its remote end.
Mild(k, l) ==
  /\ l.remote = k.remote /\ l.local_port = k.local_port /\ l.is_server = k.is_server
  /\ Goes(k, l)

\* Its bytes are still where they were, or gone.
Keeps(w, v, s) == Has(v, s) => Has(w, s) /\ v.rx = w.rx

\* Nothing of this happens to it but that.
Same(w, v) == /\ v.tcp.waiting = w.tcp.waiting /\ v.tcp.active = w.tcp.active
              /\ v.tcp.next_port = w.tcp.next_port
Calm(w, v) ==
  /\ Formed(v) /\ Same(w, v)
  /\ \A s \in Sockets : Mild(Socket(w, s), Socket(v, s)) /\ Keeps(w, v, s)

LEMMA MildTrans ==
  ASSUME NEW k, NEW l, NEW m, Mild(k, l), Mild(l, m)
  PROVE  Mild(k, m)
BY DEF Mild, Goes, Open

LEMMA CalmTrans ==
  ASSUME NEW w, NEW v, NEW u, Calm(w, v), Calm(v, u)
  PROVE  Calm(w, u)
<1>1. Formed(u) /\ Same(w, u)
  BY DEF Calm, Same
<1>2. ASSUME NEW s \in Sockets
      PROVE  Mild(Socket(w, s), Socket(u, s)) /\ Keeps(w, u, s)
  <2>1. /\ Mild(Socket(w, s), Socket(v, s)) /\ Mild(Socket(v, s), Socket(u, s))
        /\ Keeps(w, v, s) /\ Keeps(v, u, s)
    BY DEF Calm
  <2> QED BY <2>1, MildTrans DEF Keeps
<1> QED BY <1>1, <1>2 DEF Calm

LEMMA CalmFormed == ASSUME NEW w, NEW v, Calm(w, v) PROVE Formed(v)
BY DEF Calm

LEMMA CalmRefl == ASSUME NEW w, Formed(w) PROVE Calm(w, w)
BY DEF Calm, Same, Mild, Goes, Keeps

LEMMA CalmNone ==
  ASSUME NEW w, NEW v, Calm(w, v)
  PROVE  /\ NoneHas(w) => NoneHas(v)
         /\ Single(w) => Single(v)
BY DEF Calm, NoneHas, Single, Keeps

\* A call that leaves the sockets and the packet alone.
LEMMA CalmAside ==
  ASSUME NEW w, Formed(w), NEW v,
         Fields \subseteq DOMAIN v, TcpFields \subseteq DOMAIN v.tcp,
         v.tcp.socket = w.tcp.socket, v.tcp.resp_socket \in Sockets, v.rx = w.rx, Same(w, v)
  PROVE  Calm(w, v)
BY DEF Calm, Formed, Socket, Mild, Goes, Keeps, Has

\* The socket after a change, and the others.
LEMMA Becoming ==
  ASSUME NEW w, Formed(w), NEW s \in Sockets, NEW k, Sock(k)
  PROVE  /\ Formed(Become(w, s, k)) /\ Same(w, Become(w, s, k))
         /\ Become(w, s, k).rx = w.rx /\ Become(w, s, k).http = w.http
         /\ Socket(Become(w, s, k), s) = k
         /\ \A t \in Sockets \ {s} : Socket(Become(w, s, k), t) = Socket(w, t)
<1> DEFINE v == Become(w, s, k)
<1>1. /\ Fields \subseteq DOMAIN v /\ TcpFields \subseteq DOMAIN v.tcp
      /\ DOMAIN v.tcp.socket = Sockets /\ v.tcp.resp_socket \in Sockets
  BY DEF Formed, Become, Fields, TcpFields
<1>2. v.rx = w.rx /\ v.http = w.http /\ Same(w, v)
  BY DEF Formed, Become, Fields, TcpFields, Same
<1>3. /\ Socket(v, s) = k
      /\ \A t \in Sockets \ {s} : Socket(v, t) = Socket(w, t)
  BY DEF Formed, Become, Fields, TcpFields, Socket
<1> HIDE DEF v
<1>4. \A t \in Sockets : Sock(Socket(v, t))
  BY <1>3 DEF Formed
<1> QED BY <1>1, <1>2, <1>3, <1>4 DEF Formed, Same, v

LEMMA CalmBecome ==
  ASSUME NEW w, Formed(w), NEW s \in Sockets, NEW k, Sock(k), Mild(Socket(w, s), k),
         k.rx_data_bytes_remaining # 0 => Has(w, s)
  PROVE  Calm(w, Become(w, s, k))
<1> DEFINE v == Become(w, s, k)
<1>1. /\ Formed(v) /\ Same(w, v) /\ v.rx = w.rx
      /\ Socket(v, s) = k
      /\ \A t \in Sockets \ {s} : Socket(v, t) = Socket(w, t)
  BY Becoming
<1> HIDE DEF v
<1>2. ASSUME NEW t \in Sockets
      PROVE  Mild(Socket(w, t), Socket(v, t)) /\ Keeps(w, v, t)
  <2>1. CASE t = s
    BY <2>1, <1>1 DEF Keeps, Has
  <2>2. CASE t # s
    BY <2>2, <1>1 DEF Keeps, Has, Mild, Goes
  <2> QED BY <2>1, <2>2
<1>3. Calm(w, v)
  BY <1>1, <1>2 DEF Calm
<1> QED BY <1>3 DEF v

\* A packet that nobody has bytes of may be dumped.
LEMMA CalmDump ==
  ASSUME NEW w, Formed(w), NoneHas(w)
  PROVE  Calm(w, Dump(w)) /\ Dump(w).http = w.http
<1> DEFINE v == Dump(w)
<1>1. /\ Fields \subseteq DOMAIN v /\ v.tcp = w.tcp /\ v.http = w.http
  BY DEF Dump, Formed, Fields
<1> HIDE DEF v
<1> QED BY <1>1 DEF Formed, Calm, Same, Mild, Goes, Keeps, NoneHas, Has, Socket, v

\* The HTTP server's sockets are left alone, too.
Still(w, v) == Calm(w, v) /\ v.http = w.http

LEMMA StillTrans ==
  ASSUME NEW w, NEW v, NEW u, Still(w, v), Still(v, u)
  PROVE  Still(w, u)
BY CalmTrans DEF Still

LEMMA StillBecome ==
  ASSUME NEW w, Formed(w), NEW s \in Sockets, NEW k, Sock(k), Mild(Socket(w, s), k),
         k.rx_data_bytes_remaining # 0 => Has(w, s)
  PROVE  Still(w, Become(w, s, k))
BY CalmBecome, Becoming DEF Still

LEMMA IndexValid ==
  ASSUME NEW s \in Sockets
  PROVE  s # TCP_INVALID_SOCKET
BY TcpAssumption DEF Sockets, TCP_INVALID_SOCKET

-----------------------------------------------------------------------------
(* The functions of eth-tcp.c that an application calls *)

LEMMA Transmits ==
  ASSUME NEW w, Formed(w), NEW h
  PROVE  Still(w, Transmit(w, h))
<1> DEFINE v == Transmit(w, h)
<1>1. /\ Fields \subseteq DOMAIN v /\ v.tcp = w.tcp /\ v.rx = w.rx /\ v.http = w.http
  BY DEF Transmit, Formed, Fields
<1> HIDE DEF v
<1>2. Still(w, v)
  BY <1>1, CalmAside DEF Formed, Same, Still
<1> QED BY <1>2 DEF v

LEMMA Commands ==
  ASSUME NEW w, Formed(w), NEW s \in Sockets, NEW fl
  PROVE  Still(w, tcp_send_command_packet_from_socket(w, s, fl))
<1> DEFINE k == Socket(w, s)
           h == Segment(k.remote, k.local_port, k.seq, k.ack, fl, NoData)
           t == Transmit(w, h)
           a == [k EXCEPT !.waiting_command = fl]
           b == [k EXCEPT !.had_data = FALSE, !.resend = FALSE, !.waiting_command = {},
                          !.last_flags = fl]
<1>1. Sock(k)
  BY DEF Formed
<1>2. /\ Sock(a) /\ Mild(k, a) /\ a.rx_data_bytes_remaining = k.rx_data_bytes_remaining
      /\ Sock(b) /\ Mild(k, b) /\ b.rx_data_bytes_remaining = k.rx_data_bytes_remaining
  <2> HIDE DEF k
  <2> QED BY <1>1 DEF Sock, SocketFields, Mild, Goes
<1>3. Still(w, t) /\ Formed(t)
  BY Transmits DEF Still, Calm
<1>4. Socket(t, s) = k
  BY DEF Transmit, Socket, Formed, Fields
<1>5. Still(w, Become(w, s, a))
  <2> HIDE DEF a
  <2> QED BY <1>2, StillBecome DEF Has
<1>6. Still(w, Become(t, s, b))
  <2>1. Still(t, Become(t, s, b))
    <3> HIDE DEF b, t, k
    <3> QED BY <1>2, <1>3, <1>4, StillBecome DEF Has
  <2> HIDE DEF b, t
  <2> QED BY <2>1, <1>3, StillTrans
<1>7. tcp_send_command_packet_from_socket(w, s, fl) \in {Become(w, s, a), Become(t, s, b)}
  BY DEF tcp_send_command_packet_from_socket
<1> HIDE DEF a, b, t
<1> QED BY <1>5, <1>6, <1>7

LEMMA Resets ==
  ASSUME NEW w, Formed(w), NEW e, NEW p, NEW q, NEW a, NEW fl
  PROVE  Still(w, tcp_send_command_packet_no_socket(w, e, p, q, a, fl))
<1>1. Still(w, w)
  BY CalmRefl DEF Still
<1> QED BY <1>1, Transmits DEF tcp_send_command_packet_no_socket

LEMMA Sending ==
  ASSUME NEW w, Formed(w), NEW s \in Sockets, NEW data
  PROVE  Still(w, SendData(w, s, data))
<1> DEFINE k == IF Socket(w, s).resend THEN Socket(w, s) ELSE Advanced(Socket(w, s))
           h == Segment(k.remote, k.local_port, k.seq, k.ack, {"ACK"}, data)
           t == Transmit(w, h)
           n == Length(h)
           a == [k EXCEPT !.last_flags = {"ACK"}, !.had_data = (data # NoData),
                          !.increment = n, !.ready_for_tx = FALSE,
                          !.awaiting_ack = TRUE, !.resend = FALSE]
<1>1. Sock(k) /\ Mild(Socket(w, s), k)
      /\ k.rx_data_bytes_remaining = Socket(w, s).rx_data_bytes_remaining
  <2>1. Sock(Socket(w, s))
    BY DEF Formed
  <2> QED BY <2>1 DEF Sock, SocketFields, Mild, Goes, Advanced
<1>2. Sock(a) /\ Mild(k, a) /\ a.rx_data_bytes_remaining = k.rx_data_bytes_remaining
  <2> HIDE DEF k, n
  <2> QED BY <1>1 DEF Sock, SocketFields, Mild, Goes
<1>3. Still(w, t) /\ Formed(t)
  BY Transmits DEF Still, Calm
<1>4. Socket(t, s) = Socket(w, s)
  BY DEF Transmit, Socket, Formed, Fields
<1>5. SendData(w, s, data) = Become(t, s, a)
  BY DEF SendData
<1> HIDE DEF a, t, k
<1>6. Mild(Socket(w, s), a)
  BY <1>1, <1>2, MildTrans
<1>7. Still(t, Become(t, s, a))
  BY <1>1, <1>2, <1>3, <1>4, <1>6, StillBecome DEF Has
<1> QED BY <1>3, <1>5, <1>7, StillTrans

\* The bytes a socket has not read go with the packet.
LEMMA Dumping ==
  ASSUME NEW w, Formed(w), NEW s \in Sockets, OnlyHas(w, s)
  PROVE  LET v == Become(Dump(w), s, [Socket(w, s) EXCEPT !.rx_data_bytes_remaining = 0])
         IN Still(w, v) /\ NoneHas(v)
<1> DEFINE d == Dump(w)
           k == Socket(w, s)
           a == [k EXCEPT !.rx_data_bytes_remaining = 0]
           v == Become(d, s, a)
<1>1. /\ Fields \subseteq DOMAIN d /\ d.tcp = w.tcp /\ d.http = w.http
  BY DEF Dump, Formed, Fields
<1>2. Formed(d) /\ Same(w, d) /\ \A t \in Sockets : Socket(d, t) = Socket(w, t)
  <2> HIDE DEF d
  <2> QED BY <1>1 DEF Formed, Same, Socket
<1>3. Sock(a) /\ Mild(k, a) /\ a.rx_data_bytes_remaining = 0
  <2>1. Sock(k)
    BY DEF Formed
  <2> HIDE DEF k
  <2> QED BY <2>1 DEF Sock, SocketFields, Mild, Goes
<1> HIDE DEF d, a
<1>4. /\ Formed(v) /\ Same(d, v) /\ v.http = d.http /\ Socket(v, s) = a
      /\ \A t \in Sockets \ {s} : Socket(v, t) = Socket(d, t)
  BY <1>2, <1>3, Becoming
<1> HIDE DEF v
<1>5. NoneHas(v)
  BY <1>2, <1>3, <1>4 DEF NoneHas, OnlyHas, Has
<1>6. ASSUME NEW t \in Sockets
      PROVE  Mild(Socket(w, t), Socket(v, t)) /\ Keeps(w, v, t)
  <2>1. CASE t = s
    BY <2>1, <1>3, <1>4, <1>5 DEF Keeps, NoneHas
  <2>2. CASE t # s
    BY <2>2, <1>2, <1>4, <1>5 DEF Keeps, NoneHas, Mild, Goes
  <2> QED BY <2>1, <2>2
<1>7. Same(w, v) /\ v.http = w.http
  BY <1>1, <1>2, <1>4 DEF Same
<1> QED BY <1>4, <1>5, <1>6, <1>7 DEF Calm, Still, v, d, a

LEMMA DumpsRemaining ==
  ASSUME NEW w, Formed(w), NEW s \in Sockets, Single(w)
  PROVE  Still(w, DumpRemaining(w, s))
<1>1. Still(w, w)
  BY CalmRefl DEF Still
<1>2. Has(w, s) => OnlyHas(w, s)
  BY DEF Single, OnlyHas
<1> QED BY <1>1, <1>2, Dumping DEF DumpRemaining, Has

\* A connection that is closed listens again if it is a server's.
LEMMA Closes ==
  ASSUME NEW w, Formed(w), NEW s \in Sockets \cup {TCP_INVALID_SOCKET}, Single(w)
  PROVE  Still(w, tcp_close_socket(w, s))
<1>0. Still(w, w)
  BY CalmRefl DEF Still
<1>1. CASE s = TCP_INVALID_SOCKET
  BY <1>0, <1>1 DEF tcp_close_socket
<1>2. CASE s # TCP_INVALID_SOCKET
  <2> DEFINE d == DumpRemaining(w, s)
             k == Socket(d, s)
             state == IF k.is_server THEN "LISTEN" ELSE "CLOSED"
             a == [k EXCEPT !.ready_for_tx = @ \/ k.awaiting_ack, !.awaiting_ack = FALSE,
                            !.resend = @ /\ ~k.awaiting_ack, !.state = state]
  <2>1. Still(w, d) /\ Formed(d)
    BY <1>2, DumpsRemaining DEF Still, Calm
  <2>2. Sock(k)
    <3> HIDE DEF d
    <3> QED BY <1>2, <2>1 DEF Formed
  <2>3. state \in {"LISTEN", "CLOSED"}
    OBVIOUS
  <2>4. /\ SocketFields \subseteq DOMAIN a
        /\ a.retry_count = k.retry_count /\ a.rx_data_bytes_remaining = k.rx_data_bytes_remaining
        /\ a.remote = k.remote /\ a.local_port = k.local_port /\ a.is_server = k.is_server
        /\ a.state = state
    <3> HIDE DEF k, state
    <3> QED BY <2>2 DEF Sock, SocketFields
  <2>5. tcp_close_socket(w, s) = Become(d, s, a)
    BY <1>2, Zenon DEF tcp_close_socket, Released
  <2>6. Sock(a) /\ Mild(k, a)
    <3>1. a.state = IF a.is_server THEN "LISTEN" ELSE "CLOSED"
      BY <2>4
    <3> HIDE DEF a, k, state
    <3> QED BY <2>2, <2>3, <2>4, <3>1 DEF Sock, Mild, Goes, States
  <2>7. a.rx_data_bytes_remaining # 0 => Has(d, s)
    <3> HIDE DEF a
    <3> QED BY <2>4 DEF Has
  <2> HIDE DEF a
  <2>8. Still(d, Become(d, s, a))
    <3> HIDE DEF d
    <3> QED BY <1>2, <2>1, <2>6, <2>7, StillBecome
  <2> HIDE DEF d
  <2> QED BY <2>1, <2>5, <2>8, StillTrans
<1> QED BY <1>1, <1>2

\* A change of state within a connection.
LEMMA Advances ==
  ASSUME NEW w, Formed(w), NEW s \in Sockets, Socket(w, s).state \in Open,
         NEW state \in Open, NEW n
  PROVE  Still(w, Become(w, s, [Socket(w, s) EXCEPT !.state = state, !.increment = n]))
<1> DEFINE k == Socket(w, s)
           a == [k EXCEPT !.state = state, !.increment = n]
<1>1. Sock(k)
  BY DEF Formed
<1>2. Sock(a) /\ Mild(k, a) /\ a.rx_data_bytes_remaining = k.rx_data_bytes_remaining
  <2>1. /\ SocketFields \subseteq DOMAIN a /\ a.state = state
        /\ a.retry_count = k.retry_count /\ a.rx_data_bytes_remaining = k.rx_data_bytes_remaining
        /\ a.remote = k.remote /\ a.local_port = k.local_port /\ a.is_server = k.is_server
    <3> HIDE DEF k
    <3> QED BY <1>1 DEF Sock, SocketFields
  <2>2. k.state \in Open /\ state \in States
    BY DEF Open
  <2> HIDE DEF a, k
  <2> QED BY <1>1, <2>1, <2>2 DEF Sock, Mild, Goes
<1> HIDE DEF a
<1>3. Still(w, Become(w, s, a))
  BY <1>2, StillBecome DEF Has
<1> QED BY <1>3 DEF a

LEMMA ConnectedValid ==
  ASSUME NEW w, NEW s \in Sockets \cup {TCP_INVALID_SOCKET}, tcp_is_socket_connected(w, s)
  PROVE  s \in Sockets /\ Socket(w, s).state \in Open
BY DEF tcp_is_socket_connected, Socket, Open, States

LEMMA Disconnects ==
  ASSUME NEW w, Formed(w), NEW s \in Sockets \cup {TCP_INVALID_SOCKET}, Single(w)
  PROVE  Still(w, tcp_request_disconnect_socket(w, s))
<1>1. CASE ~tcp_is_socket_connected(w, s)
  BY <1>1, Closes DEF tcp_request_disconnect_socket
<1>2. CASE tcp_is_socket_connected(w, s)
  <2> DEFINE d == DumpRemaining(w, s)
             stored == IF w.tcp.waiting THEN w.tcp.resp_flags ELSE {}
             b == [d EXCEPT !.tcp.resp_flags = IF w.tcp.waiting THEN {} ELSE @]
             sent == tcp_send_command_packet_from_socket(b, s, {"FIN", "ACK"} \cup stored)
             r == Become(sent, s, [Socket(sent, s) EXCEPT !.state = "FIN_WAIT_1", !.increment = 1])
  <2>1. s \in Sockets /\ Socket(w, s).state = "CONNECTION_ESTABLISHED"
    BY <1>2, ConnectedValid DEF tcp_is_socket_connected, Socket
  <2>2. Still(w, d) /\ Formed(d)
    BY <2>1, DumpsRemaining DEF Still, Calm
  <2>3. Still(d, b) /\ Formed(b)
    <3> DEFINE f == IF w.tcp.waiting THEN {} ELSE d.tcp.resp_flags
    <3>1. /\ Fields \subseteq DOMAIN b /\ TcpFields \subseteq DOMAIN b.tcp
          /\ b.tcp.socket = d.tcp.socket /\ b.tcp.resp_socket \in Sockets /\ b.rx = d.rx /\ b.http = d.http /\ Same(d, b)
      <4> HIDE DEF d
      <4> QED BY <2>2 DEF Formed, Fields, TcpFields, Same
    <3> HIDE DEF b, d
    <3> QED BY <2>2, <3>1, CalmAside, CalmFormed DEF Still
  <2>4. Still(b, sent) /\ Formed(sent)
    <3> HIDE DEF b
    <3> QED BY <2>1, <2>3, Commands DEF Still, Calm
  <2> HIDE DEF sent, b, d
  <2>5. Still(w, sent)
    BY <2>2, <2>3, <2>4, StillTrans
  <2>6. Socket(sent, s).state \in Open
    <3>1. /\ Socket(d, s).state = Socket(w, s).state
          /\ Socket(b, s).state = Socket(d, s).state
          /\ Socket(sent, s).state = Socket(b, s).state
      <4>1. Socket(d, s).state = Socket(w, s).state
        <5>1. \A x : Socket(Become(Dump(w), s, [Socket(w, s) EXCEPT !.rx_data_bytes_remaining = 0]), s).state = Socket(w, s).state
          BY <2>1 DEF Become, Dump, Socket, Formed, Fields, TcpFields, Sock, SocketFields
        <5> QED BY <5>1 DEF DumpRemaining, d
      <4>2. Socket(b, s).state = Socket(d, s).state
        BY <2>2 DEF b, Socket, Formed, Fields, TcpFields
      <4>3. Socket(sent, s).state = Socket(b, s).state
        BY <2>1, <2>3 DEF sent, tcp_send_command_packet_from_socket, Become, Transmit, Socket, Formed, Fields, TcpFields, Sock, SocketFields
      <4> QED BY <4>1, <4>2, <4>3
    <3> QED BY <2>1, <3>1 DEF Open, States
  <2>7. Still(sent, r)
    BY <2>1, <2>4, <2>6, Advances DEF Open, States
  <2>8. tcp_request_disconnect_socket(w, s) = r
    BY <1>2, Zenon DEF tcp_request_disconnect_socket, MovesTo, r, sent, b, d
  <2> HIDE DEF r
  <2> QED BY <2>5, <2>7, <2>8, StillTrans
<1> QED BY <1>1, <1>2

\* Bytes that are read are dumped, for whoever has them.
LEMMA Reads ==
  ASSUME NEW w, Formed(w), w.tcp.active \in Sockets, OnlyHas(w, w.tcp.active)
  PROVE  Still(w, tcp_dump_rx_packet(w)) /\ NoneHas(tcp_dump_rx_packet(w))
BY Dumping DEF tcp_dump_rx_packet

-----------------------------------------------------------------------------
(* process_tcp: the timers of the sockets *)

LEMMA FlagsAside ==
  ASSUME NEW w, Formed(w), NEW f
  PROVE  Still(w, [w EXCEPT !.flags = f])
<1> DEFINE v == [w EXCEPT !.flags = f]
<1>1. Fields \subseteq DOMAIN v /\ v.tcp = w.tcp /\ v.rx = w.rx /\ v.http = w.http
  BY DEF Formed, Fields
<1> HIDE DEF v
<1>2. Still(w, v)
  BY <1>1, CalmAside DEF Formed, Same, Still
<1> QED BY <1>2 DEF v

\* A change of the bookkeeping of a socket.
LEMMA Counts ==
  ASSUME NEW w, Formed(w), NEW s \in Sockets, NEW n \in Nat, NEW i
  PROVE  /\ Still(w, Become(w, s, [Socket(w, s) EXCEPT !.retry_count = n]))
         /\ Still(w, Become(w, s, [Socket(w, s) EXCEPT !.increment = i]))
<1> DEFINE k == Socket(w, s)
           a == [k EXCEPT !.retry_count = n]
           b == [k EXCEPT !.increment = i]
<1>1. Sock(k)
  BY DEF Formed
<1>2. /\ Sock(a) /\ Mild(k, a) /\ a.rx_data_bytes_remaining = k.rx_data_bytes_remaining
      /\ Sock(b) /\ Mild(k, b) /\ b.rx_data_bytes_remaining = k.rx_data_bytes_remaining
  <2> HIDE DEF k
  <2> QED BY <1>1 DEF Sock, SocketFields, Mild, Goes
<1> HIDE DEF a, b
<1>3. Still(w, Become(w, s, a)) /\ Still(w, Become(w, s, b))
  BY <1>2, StillBecome DEF Has
<1> QED BY <1>3 DEF a, b

LEMMA Repeats ==
  ASSUME NEW w, Formed(w), NEW s \in Sockets,
         Socket(w, s).state = "CONNECTION_ESTABLISHED"
  PROVE  Still(w, EstablishedTimeout(w, s))
<1> DEFINE k == Socket(w, s)
           a == [k EXCEPT !.resend = @ /\ ~k.awaiting_ack, !.awaiting_ack = FALSE,
                          !.state = "FIN_WAIT_1"]
           b == [k EXCEPT !.resend = TRUE, !.awaiting_ack = FALSE, !.ready_for_tx = TRUE]
           c == [k EXCEPT !.retry_count = 0]
           A == Become(w, s, a)
           B == Become(w, s, b)
           C == Become(w, s, c)
<1>1. Sock(k) /\ k.state = "CONNECTION_ESTABLISHED"
  BY DEF Formed
<1>2. Sock(a) /\ Mild(k, a) /\ a.rx_data_bytes_remaining = k.rx_data_bytes_remaining
  <2>1. /\ SocketFields \subseteq DOMAIN a /\ a.state = "FIN_WAIT_1"
        /\ a.retry_count = k.retry_count /\ a.rx_data_bytes_remaining = k.rx_data_bytes_remaining
        /\ a.remote = k.remote /\ a.local_port = k.local_port /\ a.is_server = k.is_server
    <3> HIDE DEF k
    <3> QED BY <1>1 DEF Sock, SocketFields
  <2> HIDE DEF a, k
  <2> QED BY <1>1, <2>1 DEF Sock, Mild, Goes, Open, States
<1>3. Sock(b) /\ Mild(k, b) /\ b.rx_data_bytes_remaining = k.rx_data_bytes_remaining
  <2> HIDE DEF k
  <2> QED BY <1>1 DEF Sock, SocketFields, Mild, Goes
<1>4. Still(w, A) /\ Still(w, B)
  <2> HIDE DEF a, b
  <2> QED BY <1>2, <1>3, StillBecome DEF Has
<1>5. Still(w, C)
  BY Counts
<1> HIDE DEF a, b, c
<1>6. Formed(A) /\ Formed(B) /\ Formed(C)
  BY <1>4, <1>5 DEF Still, Calm
<1> HIDE DEF A, B, C
<1>7. /\ \A f : Still(w, [A EXCEPT !.flags = f])
      /\ \A f : Still(w, [C EXCEPT !.flags = f])
      /\ \A f : Still(w, [w EXCEPT !.flags = f])
  BY <1>4, <1>5, <1>6, FlagsAside, StillTrans
<1>8. \/ EstablishedTimeout(w, s) = B
      \/ \E f : EstablishedTimeout(w, s) \in {[A EXCEPT !.flags = f], [C EXCEPT !.flags = f],
                                               [w EXCEPT !.flags = f]}
  <2>1. k.retry_count > MaxRetries \/ k.retry_count <= MaxRetries
    BY <1>1, TcpAssumption DEF Sock
  <2>2. CASE k.retry_count > MaxRetries
    <3>1. ~(k.retry_count <= MaxRetries)
      BY <1>1, <2>2, TcpAssumption DEF Sock
    <3>2. EstablishedTimeout(w, s) = [A EXCEPT !.flags = {"FIN", "ACK"}]
      BY <2>2, <3>1, Zenon DEF EstablishedTimeout, A, a
    <3> QED BY <3>2
  <2>3. CASE ~(k.retry_count > MaxRetries) /\ k.awaiting_ack /\ ~k.had_data
    <3>1. EstablishedTimeout(w, s) = [w EXCEPT !.flags = k.last_flags]
      BY <2>1, <2>3, Zenon DEF EstablishedTimeout
    <3> QED BY <3>1
  <2>4. CASE ~(k.retry_count > MaxRetries) /\ k.awaiting_ack /\ k.had_data
    <3>1. EstablishedTimeout(w, s) = B
      BY <2>1, <2>4, Zenon DEF EstablishedTimeout, B, b
    <3> QED BY <3>1
  <2>5. CASE ~(k.retry_count > MaxRetries) /\ ~k.awaiting_ack
    <3>1. EstablishedTimeout(w, s) = [C EXCEPT !.flags = {}]
      BY <2>1, <2>5, Zenon DEF EstablishedTimeout, C, c
    <3> QED BY <3>1
  <2> QED BY <2>2, <2>3, <2>4, <2>5
<1> QED BY <1>4, <1>7, <1>8

LEMMA Expiry ==
  ASSUME NEW w, Formed(w), NEW s \in Sockets, Single(w), Timed(w, s)
  PROVE  Still(w, Timeout(w, s))
<1> DEFINE n == IF Socket(w, s).retry_count > MaxRetries THEN Socket(w, s).retry_count
                ELSE Socket(w, s).retry_count + 1
           v == Become(w, s, [Socket(w, s) EXCEPT !.retry_count = n])
           k == Socket(v, s)
           r == IF k.state = "CONNECTION_ESTABLISHED" THEN EstablishedTimeout(v, s)
                ELSE IF k.retry_count > MaxRetries
                     /\ k.state \notin {"SYN_REQUEST_SENT", "CONNECT_WAIT_ARP_RESPONSE"}
                THEN tcp_close_socket(v, s)
                ELSE [v EXCEPT !.flags = Repeated(k.state, v.flags)]
           c == tcp_send_command_packet_from_socket(r, s, r.flags)
           z == Become(c, s, [Socket(c, s) EXCEPT !.increment = 1])
<1>1. n \in Nat
  BY TcpAssumption DEF Formed, Sock
<1>2. Still(w, v) /\ Formed(v) /\ Single(v)
  <2> HIDE DEF n
  <2> QED BY <1>1, Counts, CalmNone DEF Still, Calm
<1>3. Still(v, r) /\ Formed(r)
  <2> HIDE DEF v
  <2>1. CASE k.state = "CONNECTION_ESTABLISHED"
    BY <1>2, <2>1, Repeats DEF Still, Calm
  <2>2. CASE k.state # "CONNECTION_ESTABLISHED"
    BY <1>2, <2>2, Closes, FlagsAside DEF Still, Calm
  <2> QED BY <2>1, <2>2
<1>4. Still(w, r)
  <2> HIDE DEF r, v
  <2> QED BY <1>2, <1>3, StillTrans
<1>5. Still(r, c) /\ Formed(c)
  <2> HIDE DEF r
  <2> QED BY <1>3, Commands DEF Still, Calm
<1>6. Still(c, z)
  <2> HIDE DEF c
  <2> QED BY <1>5, Counts
<1>7. Timeout(w, s) \in {r, c, z}
  BY Zenon DEF Timeout, Retries, OnTimeout, SendAgain, OneNumber
<1> HIDE DEF z, c, r
<1> QED BY <1>4, <1>5, <1>6, <1>7, StillTrans

LEMMA Syns ==
  ASSUME NEW w, Formed(w), NEW s \in Sockets, Socket(w, s).state \in Open
  PROVE  Still(w, tcp_connect_socket_send_syn_request(w, s))
<1> DEFINE c == tcp_send_command_packet_from_socket(w, s, {"SYN"})
<1>1. Still(w, c) /\ Formed(c)
  BY Commands DEF Still, Calm
<1>2. Socket(c, s).state \in Open
  <2>1. Socket(c, s).state = Socket(w, s).state
    BY DEF tcp_send_command_packet_from_socket, Become, Transmit, Socket, Formed, Fields, TcpFields, Sock, SocketFields
  <2> QED BY <2>1
<1> HIDE DEF c
<1>3. Still(c, Become(c, s, [Socket(c, s) EXCEPT !.state = "SYN_REQUEST_SENT", !.increment = 1]))
  BY <1>1, <1>2, Advances DEF Open, States
<1>4. tcp_connect_socket_send_syn_request(w, s) =
        Become(c, s, [Socket(c, s) EXCEPT !.state = "SYN_REQUEST_SENT", !.increment = 1])
  BY DEF tcp_connect_socket_send_syn_request, MovesTo, c
<1> QED BY <1>1, <1>3, <1>4, StillTrans

LEMMA Asks ==
  ASSUME NEW w, Formed(w), NEW s \in Sockets,
         Socket(w, s).state = "CONNECT_SEND_ARP_REQUEST"
  PROVE  LET k == Socket(w, s)
         IN Still(w, Become(arp_resolve_ip_address(w, k.remote), s,
                            [k EXCEPT !.state = "CONNECT_WAIT_ARP_RESPONSE"]))
<1> DEFINE k == Socket(w, s)
           a == [k EXCEPT !.state = "CONNECT_WAIT_ARP_RESPONSE"]
           v == arp_resolve_ip_address(w, k.remote)
<1>1. Sock(k) /\ k.state = "CONNECT_SEND_ARP_REQUEST"
  BY DEF Formed
<1>2. Sock(a) /\ Mild(k, a) /\ a.rx_data_bytes_remaining = k.rx_data_bytes_remaining
  <2>1. /\ SocketFields \subseteq DOMAIN a /\ a.state = "CONNECT_WAIT_ARP_RESPONSE"
        /\ a.retry_count = k.retry_count /\ a.rx_data_bytes_remaining = k.rx_data_bytes_remaining
        /\ a.remote = k.remote /\ a.local_port = k.local_port /\ a.is_server = k.is_server
    <3> HIDE DEF k
    <3> QED BY <1>1 DEF Sock, SocketFields
  <2> HIDE DEF a, k
  <2> QED BY <1>1, <2>1 DEF Sock, Mild, Goes, Open, States
<1>3. /\ Fields \subseteq DOMAIN v /\ v.tcp = w.tcp /\ v.rx = w.rx /\ v.http = w.http
  BY DEF Formed, Fields, arp_resolve_ip_address, arp_tx_packet
<1> HIDE DEF v
<1>4. Still(w, v) /\ Formed(v) /\ Socket(v, s) = k
  BY <1>3, CalmAside DEF Formed, Same, Still, Calm, Socket
<1>5. Still(v, Become(v, s, a))
  <2> HIDE DEF a, k
  <2> QED BY <1>2, <1>4, StillBecome DEF Has
<1> HIDE DEF a
<1> QED BY <1>4, <1>5, StillTrans DEF a, v

LEMMA Timers ==
  ASSUME NEW w, Formed(w), NEW s \in Sockets, Single(w), NEW expired
  PROVE  Still(w, ProcessSocket(w, s, expired))
<1> DEFINE k == Socket(w, s)
<1>0. Still(w, w)
  BY CalmRefl DEF Still
<1>1. CASE Idle(k)
  <2>1. ~Timed(w, s)
    BY <1>1 DEF Timed
  <2> QED BY <1>0, <1>1, <2>1 DEF ProcessSocket
<1>2. CASE ~Idle(k) /\ k.waiting_command # {}
  <2>1. ~Timed(w, s)
    BY <1>2 DEF Timed
  <2> QED BY <1>2, <2>1, Commands DEF ProcessSocket
<1>3. CASE ~Idle(k) /\ k.waiting_command = {} /\ Resolved(w, s)
  <2>1. ~Timed(w, s) /\ k.state = "CONNECT_WAIT_ARP_RESPONSE"
    BY <1>3 DEF Timed, Unresolved, Resolved
  <2>2. k.state \in Open
    BY <2>1 DEF Open, States
  <2>3. ProcessSocket(w, s, expired) = tcp_connect_socket_send_syn_request(w, s)
    BY <1>3, <2>1 DEF ProcessSocket
  <2> QED BY <2>2, <2>3, Syns
<1>4. CASE ~Idle(k) /\ k.waiting_command = {} /\ k.state = "CONNECT_SEND_ARP_REQUEST"
  <2>1. ~Timed(w, s) /\ ~Resolved(w, s)
    BY <1>4 DEF Timed, Unresolved, Resolved
  <2>2. ProcessSocket(w, s, expired) =
          Become(arp_resolve_ip_address(w, k.remote), s, [k EXCEPT !.state = "CONNECT_WAIT_ARP_RESPONSE"])
    BY <1>4, <2>1 DEF ProcessSocket
  <2> QED BY <1>4, <2>2, Asks
<1>5. CASE Timed(w, s)
  <2>1. ~Idle(k) /\ k.waiting_command = {} /\ ~Resolved(w, s) /\ k.state # "CONNECT_SEND_ARP_REQUEST"
    BY <1>5 DEF Timed, Unresolved
  <2>2. ProcessSocket(w, s, expired) \in {Timeout(w, s), w}
    BY <1>5, <2>1 DEF ProcessSocket
  <2> QED BY <1>0, <1>5, <2>2, Expiry
<1> QED BY <1>1, <1>2, <1>3, <1>4, <1>5 DEF Timed, Unresolved

-----------------------------------------------------------------------------
(* The invariant of the sockets *)

\* Only a socket that is used has a server, one in a connection has a remote end,
\* and two that are used differ in their end or their port.
ServersUsed(w) == \A s \in Sockets : Socket(w, s).state = "CLOSED" => ~Socket(w, s).is_server
HaveEnds(w)    == \A s \in Sockets : Socket(w, s).state \in Open => Socket(w, s).remote # NoEnd
Differ(k, l)   == k.local_port # l.local_port \/ k.remote # l.remote
Used(k)        == k.state # "CLOSED"
Apart(w) ==
  \A s, t \in Sockets :
    s # t /\ Used(Socket(w, s)) /\ Used(Socket(w, t))
      /\ Socket(w, s).remote # NoEnd /\ Socket(w, t).remote # NoEnd
    => Differ(Socket(w, s), Socket(w, t))
Conn(w) == ServersUsed(w) /\ HaveEnds(w) /\ Apart(w) /\ w.tcp.next_port \in Int

\* A socket's bytes are those of the packet that waits.
Announced(w, s) ==
  /\ w.tcp.waiting /\ w.tcp.active = s
  /\ w.rx.data # NoData
  /\ w.rx.end = Socket(w, s).remote /\ w.rx.port = Socket(w, s).local_port
Ann(w) ==
  /\ w.tcp.waiting => w.tcp.active \in Sockets
  /\ \A s \in Sockets : Has(w, s) => Announced(w, s)

Good(w) == Formed(w) /\ Conn(w) /\ Ann(w)

\* before an application has connected
HttpOnly(w) == \A s \in Sockets : Used(Socket(w, s)) => Socket(w, s).local_port = HTTP_PORT

LEMMA GoodSingle ==
  ASSUME NEW w, Good(w)
  PROVE  /\ Single(w)
         /\ ~w.tcp.waiting => NoneHas(w)
         /\ w.tcp.waiting => w.tcp.active \in Sockets /\ OnlyHas(w, w.tcp.active)
BY DEF Good, Ann, Announced, Single, NoneHas, OnlyHas

\* A mild change puts no socket to use.
LEMMA MildUsed ==
  ASSUME NEW k, NEW l, Mild(k, l), k.state = "CLOSED" => ~k.is_server
  PROVE  /\ Used(l) => Used(k)
         /\ l.state = "CLOSED" => ~l.is_server
         /\ l.state \in Open => k.state \in Open
BY DEF Mild, Goes, Used, Open

LEMMA CalmConn ==
  ASSUME NEW w, NEW v, Conn(w), Calm(w, v)
  PROVE  Conn(v) /\ (HttpOnly(w) => HttpOnly(v))
<1>1. \A s \in Sockets :
        /\ Socket(v, s).remote = Socket(w, s).remote
        /\ Socket(v, s).local_port = Socket(w, s).local_port
        /\ Used(Socket(v, s)) => Used(Socket(w, s))
        /\ Socket(v, s).state = "CLOSED" => ~Socket(v, s).is_server
        /\ Socket(v, s).state \in Open => Socket(w, s).state \in Open
  <2> TAKE s \in Sockets
  <2>1. Mild(Socket(w, s), Socket(v, s)) /\ (Socket(w, s).state = "CLOSED" => ~Socket(w, s).is_server)
    BY DEF Calm, Conn, ServersUsed
  <2>2. /\ Socket(v, s).remote = Socket(w, s).remote
        /\ Socket(v, s).local_port = Socket(w, s).local_port
    BY <2>1 DEF Mild
  <2> QED BY <2>1, <2>2, MildUsed
<1>2. v.tcp.next_port \in Int
  BY DEF Calm, Same, Conn
<1>3. ServersUsed(v) /\ HaveEnds(v)
  BY <1>1 DEF Conn, ServersUsed, HaveEnds
<1>4. Apart(v)
  BY <1>1 DEF Conn, Apart, Differ
<1>5. HttpOnly(w) => HttpOnly(v)
  BY <1>1 DEF HttpOnly
<1> QED BY <1>2, <1>3, <1>4, <1>5 DEF Conn

LEMMA CalmGood ==
  ASSUME NEW w, NEW v, Good(w), Calm(w, v)
  PROVE  Good(v) /\ (HttpOnly(w) => HttpOnly(v))
<1>1. Formed(v) /\ Conn(v) /\ (HttpOnly(w) => HttpOnly(v))
  BY CalmConn DEF Good, Calm
<1>2. Same(w, v)
  BY DEF Calm
<1>3. ASSUME NEW s \in Sockets, Has(v, s)
      PROVE  Announced(v, s)
  <2>1. Keeps(w, v, s) /\ Mild(Socket(w, s), Socket(v, s))
    BY DEF Calm
  <2>2. Announced(w, s) /\ v.rx = w.rx
    BY <1>3, <2>1 DEF Keeps, Good, Ann
  <2> QED BY <1>2, <2>1, <2>2 DEF Announced, Same, Mild
<1>4. v.tcp.waiting => v.tcp.active \in Sockets
  BY <1>2 DEF Good, Ann, Same
<1> QED BY <1>1, <1>3, <1>4 DEF Good, Ann

-----------------------------------------------------------------------------
(* Opening *)

LEMMA LowestIn == ASSUME NEW S, S \subseteq Nat, S # {} PROVE Lowest(S) \in S
<1> DEFINE R == OpToRel(<, Nat)
<1>1. PICK x \in S : \A y \in S : <<y, x>> \notin R
  <2>1. IsWellFoundedOn(R, Nat)
    BY NatLessThanWellFounded
  <2> HIDE DEF R
  <2> QED BY <2>1, WFMin
<1>2. \A a, b \in Nat : a < b => <<a, b>> \in R
  BY DEF OpToRel
<1> HIDE DEF R
<1>3. \A y \in S : ~(y < x)
  BY <1>1, <1>2
<1>4. \E i \in S : \A j \in S : i <= j
  BY <1>3
<1> QED BY <1>4 DEF Lowest

LEMMA HighestIn ==
  ASSUME NEW n \in Nat, NEW S, S \subseteq 0..n, S # {}
  PROVE  Highest(S) \in S
<1> DEFINE T == {n - i : i \in S}
           R == OpToRel(<, Nat)
<1>1. T \subseteq Nat /\ T # {}
  <2>1. \A i \in S : n - i \in Nat
    OBVIOUS
  <2> QED BY <2>1
<1>2. PICK x \in T : \A y \in T : <<y, x>> \notin R
  <2>1. IsWellFoundedOn(R, Nat)
    BY NatLessThanWellFounded
  <2> HIDE DEF R, T
  <2> QED BY <1>1, <2>1, WFMin
<1>3. \A a, b \in Nat : a < b => <<a, b>> \in R
  BY DEF OpToRel
<1> HIDE DEF R
<1>4. \A j \in S : n - j \in T /\ n - j \in Nat
  OBVIOUS
<1>5. PICK i \in S : x = n - i
  BY <1>2
<1>6. \A j \in S : ~(n - j < n - i)
  <2> HIDE DEF T
  <2> QED BY <1>2, <1>3, <1>4, <1>5
<1>7. \A j \in S : j <= i
  BY <1>6
<1> QED BY <1>7 DEF Highest

LEMMA Numbers == Sockets \subseteq Nat /\ TCP_INVALID_SOCKET \in Nat
BY TcpAssumption DEF Sockets, TCP_INVALID_SOCKET

LEMMA Frees ==
  ASSUME NEW w
  PROVE  /\ FreeSocket(w) \in Sockets \cup {TCP_INVALID_SOCKET}
         /\ FreeSocket(w) # TCP_INVALID_SOCKET =>
              FreeSocket(w) \in Sockets /\ Socket(w, FreeSocket(w)).state = "CLOSED"
<1> DEFINE S == ClosedSockets(w) \cup {TCP_INVALID_SOCKET}
<1>1. S \subseteq Nat /\ S # {}
  BY Numbers DEF ClosedSockets
<1>2. Lowest(S) \in S
  <2> HIDE DEF S
  <2> QED BY <1>1, LowestIn
<1> QED BY <1>2 DEF FreeSocket, ClosedSockets, Socket

\* A change of one socket, apart from the others.
LEMMA GoodBecome ==
  ASSUME NEW w, Good(w), NEW s \in Sockets, NEW k, Sock(k),
         k.rx_data_bytes_remaining = 0,
         k.state = "CLOSED" => ~k.is_server,
         k.state \in Open => k.remote # NoEnd,
         Used(k) /\ k.remote # NoEnd =>
           \A t \in Sockets \ {s} : Used(Socket(w, t)) /\ Socket(w, t).remote # NoEnd =>
                                      Differ(k, Socket(w, t))
  PROVE  /\ Good(Become(w, s, k))
         /\ HttpOnly(w) /\ (Used(k) => k.local_port = HTTP_PORT) => HttpOnly(Become(w, s, k))
<1> DEFINE v == Become(w, s, k)
<1>1. /\ Formed(v) /\ Same(w, v) /\ v.rx = w.rx /\ Socket(v, s) = k
      /\ \A t \in Sockets \ {s} : Socket(v, t) = Socket(w, t)
  BY Becoming DEF Good
<1> HIDE DEF v
<1>2. ServersUsed(v) /\ HaveEnds(v) /\ v.tcp.next_port \in Int
  BY <1>1 DEF Good, Conn, ServersUsed, HaveEnds, Same
<1>3. Apart(v)
  <2> SUFFICES ASSUME NEW a \in Sockets, NEW b \in Sockets, a # b,
                      Used(Socket(v, a)), Used(Socket(v, b)),
                      Socket(v, a).remote # NoEnd, Socket(v, b).remote # NoEnd
               PROVE  Differ(Socket(v, a), Socket(v, b))
    BY DEF Apart
  <2>1. CASE a # s /\ b # s
    BY <1>1, <2>1 DEF Good, Conn, Apart
  <2>2. CASE a = s
    <3>1. Differ(k, Socket(w, b))
      BY <1>1, <2>2
    <3> QED BY <1>1, <2>2, <3>1
  <2>3. CASE b = s
    <3>1. Differ(k, Socket(w, a))
      BY <1>1, <2>3
    <3> QED BY <1>1, <2>3, <3>1 DEF Differ
  <2> QED BY <2>1, <2>2, <2>3
<1>4. Ann(v)
  <2>1. v.tcp.waiting => v.tcp.active \in Sockets
    BY <1>1 DEF Good, Ann, Same
  <2>2. ASSUME NEW t \in Sockets, Has(v, t)
        PROVE  Announced(v, t)
    <3>1. t # s /\ Socket(v, t) = Socket(w, t)
      BY <1>1, <2>2 DEF Has
    <3>2. Announced(w, t)
      BY <2>2, <3>1 DEF Has, Good, Ann
    <3> QED BY <1>1, <3>1, <3>2 DEF Announced, Same
  <2> QED BY <2>1, <2>2 DEF Ann
<1>5. HttpOnly(w) /\ (Used(k) => k.local_port = HTTP_PORT) => HttpOnly(v)
  BY <1>1 DEF HttpOnly
<1> QED BY <1>1, <1>2, <1>3, <1>4, <1>5 DEF Good, Conn, v

LEMMA Listens ==
  ASSUME NEW w, Good(w)
  PROVE  LET v == tcp_open_socket_to_listen(w, HTTP_PORT)
         IN Good(v) /\ (HttpOnly(w) => HttpOnly(v)) /\ v.http = w.http
<1> DEFINE v == tcp_open_socket_to_listen(w, HTTP_PORT)
           s == FreeSocket(w)
           k == [Socket(w, s) EXCEPT
                   !.state = "LISTEN", !.local_port = HTTP_PORT, !.remote = NoEnd,
                   !.rx_data_bytes_remaining = 0, !.ready_for_tx = FALSE,
                   !.awaiting_ack = FALSE, !.resend = FALSE, !.is_server = TRUE,
                   !.waiting_command = {}]
<1>1. CASE s = TCP_INVALID_SOCKET
  BY <1>1 DEF tcp_open_socket_to_listen
<1>2. CASE s # TCP_INVALID_SOCKET
  <2>1. s \in Sockets
    BY <1>2, Frees
  <2>2. Sock(k) /\ k.state = "LISTEN" /\ k.local_port = HTTP_PORT /\ k.remote = NoEnd
        /\ k.rx_data_bytes_remaining = 0
    <3>1. Sock(Socket(w, s))
      BY <2>1 DEF Good, Formed
    <3> HIDE DEF s
    <3> QED BY <3>1 DEF Sock, SocketFields, States
  <2>3. v = Become(w, s, k)
    BY <1>2 DEF tcp_open_socket_to_listen
  <2> HIDE DEF s, k, v
  <2>4. Good(v) /\ (HttpOnly(w) => HttpOnly(v)) /\ v.http = w.http
    BY <2>1, <2>2, <2>3, GoodBecome, Becoming DEF Open, Good
  <2> QED BY <2>4 DEF v
<1> QED BY <1>1, <1>2

\* The port for a connection is none of the server's.
LEMMA FindsPort ==
  ASSUME NEW w, Good(w), HttpOnly(w), NEW s \in Sockets
  PROVE  FreePort(w, s) \in PortStart..PortEnd
<1> DEFINE used == {Socket(w, t).local_port : t \in Sockets \ (ClosedSockets(w) \cup {s})}
           S == (PortStart..PortEnd) \ used
           n == w.tcp.next_port
           Distance(p) == (p - n) % (PortEnd - PortStart + 1)
           D == {Distance(p) : p \in S}
           R == OpToRel(<, Nat)
<1>1. used \subseteq {HTTP_PORT}
  BY DEF HttpOnly, ClosedSockets, Used, Socket
<1>2. PortStart \in S
  <2> HIDE DEF used
  <2> QED BY <1>1, TcpAssumption
<1>3. n \in Int /\ PortEnd - PortStart + 1 \in Nat \ {0}
  BY TcpAssumption DEF Good, Conn
<1>4. \A p \in S : Distance(p) \in Nat
  <2> HIDE DEF n, used
  <2> QED BY <1>3, TcpAssumption
<1>5. D \subseteq Nat /\ D # {}
  <2> HIDE DEF S, Distance
  <2> QED BY <1>2, <1>4
<1>6. PICK x \in D : \A y \in D : <<y, x>> \notin R
  <2>1. IsWellFoundedOn(R, Nat)
    BY NatLessThanWellFounded
  <2> HIDE DEF R, D
  <2> QED BY <1>5, <2>1, WFMin
<1>7. \A a, b \in Nat : a < b => <<a, b>> \in R
  BY DEF OpToRel
<1>8. PICK p \in S : x = Distance(p)
  BY <1>6
<1>9. \A q \in S : Distance(p) <= Distance(q)
  <2> TAKE q \in S
  <2>1. Distance(q) \in D
    OBVIOUS
  <2> HIDE DEF D, R, S, Distance
  <2>2. ~(Distance(q) < Distance(p))
    BY <1>4, <1>5, <1>6, <1>7, <1>8, <2>1
  <2> QED BY <1>4, <2>2
<1>10. FreePort(w, s) = CHOOSE q \in S : \A r \in S : Distance(q) <= Distance(r)
  BY DEF FreePort, Socket
<1>11. FreePort(w, s) \in S
  <2> HIDE DEF S, Distance
  <2> QED BY <1>9, <1>10
<1> QED BY <1>11

\* A call that leaves the sockets, the packet and who reads it alone.
LEMMA GoodAside ==
  ASSUME NEW w, Good(w), NEW v,
         Fields \subseteq DOMAIN v, TcpFields \subseteq DOMAIN v.tcp,
         v.tcp.socket = w.tcp.socket, v.tcp.resp_socket \in Sockets, v.rx = w.rx,
         v.tcp.waiting = w.tcp.waiting, v.tcp.active = w.tcp.active, v.tcp.next_port \in Int
  PROVE  Good(v) /\ (HttpOnly(w) => HttpOnly(v))
<1>1. \A s : Socket(v, s) = Socket(w, s)
  BY DEF Socket
<1>2. Formed(v)
  BY <1>1 DEF Good, Formed
<1>3. Conn(v) /\ (HttpOnly(w) => HttpOnly(v))
  BY <1>1 DEF Good, Conn, ServersUsed, HaveEnds, Apart, HttpOnly
<1>4. Ann(v)
  BY <1>1 DEF Good, Ann, Announced, Has
<1> QED BY <1>2, <1>3, <1>4 DEF Good

LEMMA Connects ==
  ASSUME NEW w, Good(w), HttpOnly(w), NEW e \in Ends, NEW known
  PROVE  LET v == tcp_connect_socket(w, e, known)
         IN Good(v) /\ v.http = w.http /\ (FreeSocket(w) = TCP_INVALID_SOCKET => v = w)
<1> DEFINE v == tcp_connect_socket(w, e, known)
           s == FreeSocket(w)
           p == FreePort(w, s)
           next == NextPort(p)
           seq == Plus(w.tcp.next_seq, 1)
           u == [w EXCEPT !.tcp.next_port = next, !.tcp.next_seq = seq]
           k == [Socket(w, s) EXCEPT
                   !.local_port = p, !.remote = e,
                   !.seq = seq, !.ack = 0, !.increment = 0,
                   !.rx_data_bytes_remaining = 0, !.ready_for_tx = FALSE,
                   !.awaiting_ack = FALSE, !.resend = FALSE,
                   !.is_server = FALSE, !.waiting_command = {}]
           o == Become(u, s, k)
           sent == tcp_send_command_packet_from_socket(o, s, {"SYN"})
<1>1. CASE s = TCP_INVALID_SOCKET
  BY <1>1 DEF tcp_connect_socket
<1>2. CASE s # TCP_INVALID_SOCKET
  <2>1. s \in Sockets /\ Socket(w, s).state = "CLOSED"
    BY <1>2, Frees
  <2>2. p \in PortStart..PortEnd /\ p # HTTP_PORT
    <3> HIDE DEF s
    <3> QED BY <2>1, FindsPort, TcpAssumption DEF p
  <2>3. next \in Int
    <3> HIDE DEF p
    <3> QED BY <2>2, TcpAssumption DEF NextPort
  <2>4. /\ Good(u) /\ HttpOnly(u) /\ u.http = w.http
        /\ \A t : Socket(u, t) = Socket(w, t)
    <3> HIDE DEF next, seq
    <3>1. /\ Fields \subseteq DOMAIN u /\ TcpFields \subseteq DOMAIN u.tcp
          /\ u.tcp.socket = w.tcp.socket /\ u.tcp.resp_socket \in Sockets /\ u.rx = w.rx /\ u.http = w.http
          /\ u.tcp.waiting = w.tcp.waiting /\ u.tcp.active = w.tcp.active
          /\ u.tcp.next_port = next
      BY DEF Good, Formed, Fields, TcpFields
    <3> HIDE DEF u
    <3> QED BY <2>3, <3>1, GoodAside DEF Socket
  <2>5. /\ Sock(k) /\ k.state = "CLOSED" /\ k.local_port = p /\ k.remote = e
        /\ k.is_server = FALSE /\ k.rx_data_bytes_remaining = 0
    <3>1. Sock(Socket(w, s))
      BY <2>1 DEF Good, Formed
    <3> HIDE DEF s, p, seq
    <3> QED BY <2>1, <3>1 DEF Sock, SocketFields
  <2> HIDE DEF s, p, next, seq, u, k
  <2>6. /\ Good(o) /\ HttpOnly(o) /\ o.http = u.http /\ Socket(o, s) = k
        /\ \A t \in Sockets \ {s} : Socket(o, t) = Socket(u, t)
    BY <2>1, <2>4, <2>5, GoodBecome, Becoming DEF Open, Used, Good
  <2> HIDE DEF o
  \* the ports keep the sockets apart, whatever is sent meanwhile
  <2>7. ASSUME NEW x, Still(o, x), NEW state \in Open,
               NEW a, Sock(a), a.state = state, a.rx_data_bytes_remaining = 0,
               a.remote = Socket(x, s).remote, a.local_port = Socket(x, s).local_port
        PROVE  Good(Become(x, s, a)) /\ Become(x, s, a).http = w.http
    <3>1. Good(x) /\ HttpOnly(x) /\ x.http = w.http
      BY <2>4, <2>6, <2>7, CalmGood DEF Still
    <3>2. a.remote = e /\ a.local_port = p
      BY <2>1, <2>5, <2>6, <2>7 DEF Still, Calm, Mild
    <3>3. \A t \in Sockets \ {s} : Used(Socket(x, t)) => Differ(a, Socket(x, t))
      BY <2>2, <3>1, <3>2 DEF HttpOnly, Differ
    <3>4. a.state # "CLOSED" /\ a.remote # NoEnd
      BY <2>7, <3>2, ArpAssumption DEF Open
    <3> QED BY <2>1, <2>7, <3>1, <3>3, <3>4, GoodBecome, Becoming DEF Good
  <2>8. CASE known
    <3> DEFINE a == [Socket(sent, s) EXCEPT !.state = "SYN_REQUEST_SENT", !.increment = 1]
    <3>1. Still(o, sent) /\ Good(sent)
      BY <2>1, <2>6, Commands, CalmGood DEF Good, Still
    <3>2. Socket(sent, s).rx_data_bytes_remaining = 0 /\ Sock(Socket(sent, s))
      BY <2>1, <2>5, <2>6, <3>1 DEF Still, Calm, Keeps, Has, Good, Formed
    <3> HIDE DEF sent
    <3>3. /\ Sock(a) /\ a.state = "SYN_REQUEST_SENT" /\ a.rx_data_bytes_remaining = 0
          /\ a.remote = Socket(sent, s).remote /\ a.local_port = Socket(sent, s).local_port
      BY <3>2 DEF Sock, SocketFields, States
    <3>4. v = Become(sent, s, a)
      <4>1. v = tcp_connect_socket_send_syn_request(o, s)
        BY <1>2, <2>8 DEF tcp_connect_socket, o, s, k, u, p, next, seq
      <4> QED BY <4>1 DEF tcp_connect_socket_send_syn_request, MovesTo, sent
    <3> HIDE DEF a, v
    <3>5. "SYN_REQUEST_SENT" \in Open
      BY DEF Open, States
    <3>6. Good(v) /\ v.http = w.http
      BY <2>7, <3>1, <3>3, <3>4, <3>5
    <3> QED BY <1>2, <3>6 DEF v, s
  <2>9. CASE ~known
    <3> DEFINE a == [Socket(o, s) EXCEPT !.state = "CONNECT_SEND_ARP_REQUEST"]
    <3>1. Still(o, o)
      BY <2>6, CalmRefl DEF Still, Good
    <3>2. Socket(o, s).rx_data_bytes_remaining = 0 /\ Sock(Socket(o, s))
      BY <2>5, <2>6
    <3>3. /\ Sock(a) /\ a.state = "CONNECT_SEND_ARP_REQUEST" /\ a.rx_data_bytes_remaining = 0
          /\ a.remote = Socket(o, s).remote /\ a.local_port = Socket(o, s).local_port
      BY <3>2 DEF Sock, SocketFields, States
    <3>4. v = Become(o, s, a)
      BY <1>2, <2>9 DEF tcp_connect_socket, o, s, k, u, p, next, seq
    <3> HIDE DEF a, v
    <3>5. "CONNECT_SEND_ARP_REQUEST" \in Open
      BY DEF Open, States
    <3>6. Good(v) /\ v.http = w.http
      BY <2>7, <3>1, <3>3, <3>4, <3>5
    <3> QED BY <1>2, <3>6 DEF v, s
  <2> QED BY <2>8, <2>9
<1> QED BY <1>1, <1>2

-----------------------------------------------------------------------------
(* process_tcp_segment: a segment h for socket s *)

\* The segment is for this socket, and nobody has bytes of another.
Ours(w, s, h) ==
  /\ Formed(w) /\ Conn(w) /\ NoneHas(w) /\ s \in Sockets
  /\ Socket(w, s).remote = h.end /\ Socket(w, s).local_port = h.port

\* The segment has been processed: only its own socket may have bytes of it.
Fed(w, v, s, h) ==
  /\ Formed(v) /\ Conn(v) /\ Same(w, v) /\ v.http = w.http
  /\ HttpOnly(w) => HttpOnly(v)
  /\ \A t \in Sockets : Has(v, t) =>
       /\ t = s /\ h.data # NoData /\ v.rx = h
       /\ Socket(v, t).remote = h.end /\ Socket(v, t).local_port = h.port

LEMMA StillOurs ==
  ASSUME NEW w, NEW v, NEW s, NEW h, Ours(w, s, h), Still(w, v)
  PROVE  Ours(v, s, h)
<1>1. Formed(v) /\ Conn(v) /\ NoneHas(v)
  BY CalmConn, CalmNone DEF Ours, Still, Calm
<1>2. Socket(v, s).remote = h.end /\ Socket(v, s).local_port = h.port
  BY DEF Ours, Still, Calm, Mild
<1> QED BY <1>1, <1>2 DEF Ours

LEMMA OursFed ==
  ASSUME NEW w, NEW v, NEW s, NEW h, Ours(w, s, h), Still(w, v)
  PROVE  Fed(w, v, s, h)
<1>1. Ours(v, s, h)
  BY StillOurs
<1> QED BY <1>1, CalmConn DEF Ours, Still, Calm, Fed, NoneHas

LEMMA FedStill ==
  ASSUME NEW w, NEW v, NEW u, NEW s, NEW h, Fed(w, v, s, h), Still(v, u)
  PROVE  Fed(w, u, s, h)
<1>1. Formed(u) /\ Conn(u) /\ (HttpOnly(v) => HttpOnly(u))
  BY CalmConn DEF Fed, Still, Calm
<1>2. Same(w, u) /\ u.http = w.http
  BY DEF Fed, Still, Calm, Same
<1>3. ASSUME NEW t \in Sockets, Has(u, t)
      PROVE  /\ t = s /\ h.data # NoData /\ u.rx = h
             /\ Socket(u, t).remote = h.end /\ Socket(u, t).local_port = h.port
  <2>1. Keeps(v, u, t) /\ Mild(Socket(v, t), Socket(u, t))
    BY DEF Still, Calm
  <2> QED BY <1>3, <2>1 DEF Fed, Keeps, Mild
<1> QED BY <1>1, <1>2, <1>3 DEF Fed

LEMMA StillFed ==
  ASSUME NEW w, NEW v, NEW u, NEW s, NEW h, Ours(w, s, h), Still(w, v), Fed(v, u, s, h)
  PROVE  Fed(w, u, s, h)
<1>1. HttpOnly(w) => HttpOnly(v)
  BY CalmConn DEF Ours, Still
<1>2. Same(w, v) /\ v.http = w.http
  BY DEF Still, Calm
<1> QED BY <1>1, <1>2 DEF Fed, Same

LEMMA OursDump ==
  ASSUME NEW w, NEW s, NEW h, Ours(w, s, h)
  PROVE  Still(w, Dump(w)) /\ Ours(Dump(w), s, h)
<1>1. Still(w, Dump(w))
  BY CalmDump DEF Ours, Still
<1> QED BY <1>1, StillOurs

LEMMA RespAside ==
  ASSUME NEW w, Formed(w), NEW r
  PROVE  Still(w, [w EXCEPT !.resp = r]) /\ [w EXCEPT !.resp = r].rx = w.rx
<1> DEFINE v == [w EXCEPT !.resp = r]
<1>1. Fields \subseteq DOMAIN v /\ v.tcp = w.tcp /\ v.rx = w.rx /\ v.http = w.http
  BY DEF Formed, Fields
<1> HIDE DEF v
<1>2. Still(w, v)
  BY <1>1, CalmAside DEF Formed, Same, Still
<1> QED BY <1>1, <1>2 DEF v

\* Data is left for the socket's owner.
LEMMA Keeping ==
  ASSUME NEW w, NEW s, NEW h, Ours(w, s, h), w.rx = h
  PROVE  Fed(w, Keep(w, s, h), s, h)
<1> DEFINE k == Socket(w, s)
           a == [k EXCEPT !.rx_data_bytes_remaining = Length(h)]
           v == Become(w, s, a)
<1>1. CASE Length(h) = 0
  BY <1>1, OursDump, OursFed DEF Keep
<1>2. CASE Length(h) # 0
  <2>1. Length(h) = 1 /\ h.data # NoData
    BY <1>2 DEF Length
  <2>2. Sock(k)
    BY DEF Ours, Formed
  <2>3. Sock(a) /\ Mild(k, a)
    <3> HIDE DEF k
    <3> QED BY <2>1, <2>2 DEF Sock, SocketFields, Mild, Goes
  <2> HIDE DEF a
  <2>4. /\ Formed(v) /\ Same(w, v) /\ v.rx = w.rx /\ v.http = w.http /\ Socket(v, s) = a
        /\ \A t \in Sockets \ {s} : Socket(v, t) = Socket(w, t)
    BY <2>3, Becoming DEF Ours
  <2> HIDE DEF v
  <2>5. \A t \in Sockets : Mild(Socket(w, t), Socket(v, t))
    BY <2>3, <2>4 DEF Mild, Goes
  <2>6. Conn(v) /\ (HttpOnly(w) => HttpOnly(v))
    <3>1. \A t \in Sockets :
            /\ Socket(v, t).remote = Socket(w, t).remote
            /\ Socket(v, t).local_port = Socket(w, t).local_port
            /\ Used(Socket(v, t)) => Used(Socket(w, t))
            /\ Socket(v, t).state = "CLOSED" => ~Socket(v, t).is_server
            /\ Socket(v, t).state \in Open => Socket(w, t).state \in Open
      <4> TAKE t \in Sockets
      <4>1. Mild(Socket(w, t), Socket(v, t)) /\ (Socket(w, t).state = "CLOSED" => ~Socket(w, t).is_server)
        BY <2>5 DEF Ours, Conn, ServersUsed
      <4>2. /\ Socket(v, t).remote = Socket(w, t).remote
            /\ Socket(v, t).local_port = Socket(w, t).local_port
        BY <4>1 DEF Mild
      <4> QED BY <4>1, <4>2, MildUsed
    <3>2. v.tcp.next_port \in Int
      BY <2>4 DEF Same, Ours, Conn
    <3> QED BY <3>1, <3>2 DEF Ours, Conn, ServersUsed, HaveEnds, Apart, Differ, HttpOnly
  <2>7. ASSUME NEW t \in Sockets, Has(v, t)
        PROVE  /\ t = s /\ v.rx = h
               /\ Socket(v, t).remote = h.end /\ Socket(v, t).local_port = h.port
    <3>1. t = s
      BY <2>4, <2>7 DEF Ours, NoneHas, Has
    <3> QED BY <2>3, <2>4, <3>1 DEF Ours, Mild
  <2>8. Keep(w, s, h) = v
    BY <1>2 DEF Keep, v, a
  <2> QED BY <2>1, <2>4, <2>6, <2>7, <2>8 DEF Fed
<1> QED BY <1>1, <1>2

LEMMA Responds ==
  ASSUME NEW w, Formed(w), NEW s \in Sockets
  PROVE  Still(w, Respond(w, s))
<1> DEFINE r == [w EXCEPT !.tcp.resp_flags = {}]
           q == [r EXCEPT !.tcp.resp_flags = w.resp, !.tcp.resp_socket = s]
           c == tcp_send_command_packet_from_socket(r, s, w.resp)
<1>1. Still(w, r) /\ Formed(r)
  <2>1. /\ Fields \subseteq DOMAIN r /\ TcpFields \subseteq DOMAIN r.tcp
        /\ r.tcp.socket = w.tcp.socket /\ r.tcp.resp_socket \in Sockets /\ r.rx = w.rx /\ r.http = w.http /\ Same(w, r)
    BY DEF Formed, Fields, TcpFields, Same
  <2> HIDE DEF r
  <2> QED BY <2>1, CalmAside DEF Still, Calm
<1>2. Still(r, q)
  <2>1. /\ Fields \subseteq DOMAIN q /\ TcpFields \subseteq DOMAIN q.tcp
        /\ q.tcp.socket = r.tcp.socket /\ q.tcp.resp_socket \in Sockets /\ q.rx = r.rx /\ q.http = r.http /\ Same(r, q)
    <3> HIDE DEF r
    <3> QED BY <1>1 DEF Formed, Fields, TcpFields, Same
  <2> HIDE DEF r, q
  <2> QED BY <1>1, <2>1, CalmAside DEF Still
<1>3. Still(r, c)
  <2> HIDE DEF r
  <2> QED BY <1>1, Commands
<1>4. Respond(w, s) \in {r, q, c}
  BY DEF Respond
<1> HIDE DEF r, q, c
<1> QED BY <1>1, <1>2, <1>3, <1>4, StillTrans

\* A socket of a connection whose bookkeeping changes.
Alike(k, a) ==
  /\ SocketFields \subseteq DOMAIN a
  /\ a.retry_count = k.retry_count /\ a.rx_data_bytes_remaining = k.rx_data_bytes_remaining
  /\ a.remote = k.remote /\ a.local_port = k.local_port /\ a.is_server = k.is_server

LEMMA MovesOn ==
  ASSUME NEW w, NEW s, NEW h, Ours(w, s, h), NEW a, Alike(Socket(w, s), a),
         Socket(w, s).state \in Open, a.state \in Open
  PROVE  LET v == Become(w, s, a)
         IN Still(w, v) /\ Ours(v, s, h) /\ v.rx = w.rx /\ Socket(v, s) = a
<1> DEFINE v == Become(w, s, a)
<1>1. Sock(Socket(w, s)) /\ Formed(w) /\ s \in Sockets
  BY DEF Ours, Formed
<1>2. Sock(a) /\ Mild(Socket(w, s), a)
  BY <1>1 DEF Alike, Sock, Mild, Goes, Open
<1>3. Still(w, v) /\ v.rx = w.rx /\ Socket(v, s) = a
  BY <1>1, <1>2, StillBecome, Becoming DEF Alike, Has
<1> HIDE DEF v
<1>4. Ours(v, s, h)
  BY <1>3, StillOurs
<1> QED BY <1>3, <1>4 DEF v

LEMMA SeqAside ==
  ASSUME NEW w, Formed(w), NEW n
  PROVE  LET v == [w EXCEPT !.tcp.next_seq = n]
         IN Still(w, v) /\ \A s : Socket(v, s) = Socket(w, s)
<1> DEFINE v == [w EXCEPT !.tcp.next_seq = n]
<1>1. /\ Fields \subseteq DOMAIN v /\ TcpFields \subseteq DOMAIN v.tcp
      /\ v.tcp.socket = w.tcp.socket /\ v.tcp.resp_socket \in Sockets /\ v.rx = w.rx
      /\ v.http = w.http /\ Same(w, v)
  BY DEF Formed, Fields, TcpFields, Same
<1> HIDE DEF v
<1>2. Still(w, v)
  BY <1>1, CalmAside DEF Still
<1> QED BY <1>1, <1>2 DEF v, Socket

\* whatever is counted, the socket and the segment are what they were
LEMMA Counting ==
  ASSUME NEW w, NEW s, NEW h, Ours(w, s, h)
  PROVE  LET v == [Counted(w, s) EXCEPT !.resp = {}]
         IN /\ Still(w, v) /\ Ours(v, s, h) /\ v.rx = w.rx
            /\ Socket(v, s).state = Socket(w, s).state
<1> DEFINE k == Socket(w, s)
           a == [Advanced(k) EXCEPT !.retry_count = 0]
           c == Become(w, s, a)
           v == [c EXCEPT !.resp = {}]
<1>1. Sock(k) /\ Formed(w) /\ s \in Sockets
  BY DEF Ours, Formed
<1>2. Sock(a) /\ Mild(k, a) /\ a.rx_data_bytes_remaining = k.rx_data_bytes_remaining
      /\ a.state = k.state
  <2> HIDE DEF k
  <2> QED BY <1>1 DEF Sock, SocketFields, Mild, Goes, Advanced
<1> HIDE DEF a
<1>3. Still(w, c) /\ c.rx = w.rx /\ Socket(c, s) = a /\ Formed(c)
  BY <1>1, <1>2, StillBecome, Becoming DEF Has
<1> HIDE DEF c
<1>4. Still(c, v) /\ v.rx = c.rx
  BY <1>3, RespAside
<1>5. Socket(v, s) = Socket(c, s)
  BY <1>3 DEF Formed, Fields, Socket
<1> HIDE DEF v
<1>6. Still(w, v)
  BY <1>3, <1>4, StillTrans
<1>7. Ours(v, s, h) /\ v.rx = w.rx /\ Socket(v, s).state = Socket(w, s).state
  BY <1>2, <1>3, <1>4, <1>5, <1>6, StillOurs
<1> QED BY <1>6, <1>7 DEF v, c, a, Counted

\* A socket that listened: its connection begins, or it has no remote end yet.
LEMMA FedBecome ==
  ASSUME NEW w, NEW s, NEW h, Ours(w, s, h), Used(Socket(w, s)),
         NEW k, Sock(k), Used(k), k.rx_data_bytes_remaining = 0,
         k.local_port = Socket(w, s).local_port,
         k.remote \in {NoEnd, Socket(w, s).remote},
         k.state \in Open => k.remote # NoEnd
  PROVE  Fed(w, Become(w, s, k), s, h)
<1> DEFINE v == Become(w, s, k)
<1>1. /\ Formed(v) /\ Same(w, v) /\ v.http = w.http /\ Socket(v, s) = k
      /\ \A t \in Sockets \ {s} : Socket(v, t) = Socket(w, t)
  BY Becoming DEF Ours
<1> HIDE DEF v
<1>2. ServersUsed(v) /\ HaveEnds(v) /\ v.tcp.next_port \in Int
  BY <1>1 DEF Ours, Conn, ServersUsed, HaveEnds, Same, Used
<1>3. \A t \in Sockets : /\ Used(Socket(v, t)) => Used(Socket(w, t))
                         /\ Socket(v, t).local_port = Socket(w, t).local_port
                         /\ Socket(v, t).remote # NoEnd => Socket(v, t).remote = Socket(w, t).remote
  BY <1>1
<1>4. Apart(v) /\ (HttpOnly(w) => HttpOnly(v))
  BY <1>3 DEF Ours, Conn, Apart, Differ, HttpOnly
<1>5. \A t \in Sockets : ~Has(v, t)
  BY <1>1 DEF Ours, NoneHas, Has
<1> QED BY <1>1, <1>2, <1>4, <1>5 DEF Fed, Conn, v

\* The arms of process_tcp_segment, one by one.
LEMMA ListensTo ==
  ASSUME NEW w, NEW s, NEW h, Ours(w, s, h), Socket(w, s).state = "LISTEN", h.end # NoEnd
  PROVE  Fed(w, Listening(w, s, h), s, h)
<1> DEFINE syn == "SYN" \in h.flags
           d0 == Dump(w)
           n == Plus(d0.tcp.next_seq, 1)
           e == [d0 EXCEPT !.tcp.next_seq = n]
           next == Plus(w.tcp.next_seq, 1)
           i == IF syn THEN 1 ELSE 0
           ack == Plus(h.seq, Length(h) + 1)
           remote == IF syn THEN h.end ELSE NoEnd
           k == Socket(w, s)
           state == IF syn THEN "SYN_REQUEST_RECEIVED" ELSE k.state
           a == [k EXCEPT !.seq = next, !.increment = i, !.ack = ack, !.remote = remote,
                          !.state = state]
           d == Become(e, s, a)
<1>1. Still(w, d0) /\ Ours(d0, s, h)
  BY OursDump
<1>2. Still(d0, e) /\ \A t : Socket(e, t) = Socket(d0, t)
  <2> HIDE DEF d0, n
  <2> QED BY <1>1, SeqAside DEF Ours
<1>3. \A t : Socket(d0, t) = Socket(w, t)
  BY DEF Dump, Socket, Ours, Formed, Fields
<1> HIDE DEF d0, n, e
<1>4. Still(w, e) /\ Ours(e, s, h) /\ Socket(e, s) = k
  BY <1>1, <1>2, <1>3, StillTrans, StillOurs
<1>5. Sock(k)
  BY DEF Ours, Formed
<1>6. /\ SocketFields \subseteq DOMAIN a /\ a.state = state /\ a.remote = remote
      /\ a.local_port = k.local_port /\ a.retry_count = k.retry_count
      /\ a.rx_data_bytes_remaining = k.rx_data_bytes_remaining
  <2> HIDE DEF k, next, i, ack, remote, state
  <2> QED BY <1>5 DEF Sock, SocketFields
<1>7. state \in {"SYN_REQUEST_RECEIVED", "LISTEN"} /\ (state \in Open => remote = h.end)
      /\ remote \in {NoEnd, h.end} /\ k.remote = h.end /\ k.rx_data_bytes_remaining = 0
  BY DEF Open, Ours, NoneHas, Has
<1> HIDE DEF a, state, remote, k
<1>8. Sock(a) /\ Used(a)
  BY <1>5, <1>6, <1>7 DEF Sock, States, Used
<1>9. Fed(e, d, s, h)
  <2>1. Used(Socket(e, s))
    BY <1>4 DEF k, Used
  <2> QED BY <1>4, <1>6, <1>7, <1>8, <2>1, FedBecome
<1> HIDE DEF d
<1>10. Fed(w, d, s, h) /\ Formed(d)
  BY <1>4, <1>9, StillFed DEF Fed
<1>11. Listening(w, s, h) \in {[d EXCEPT !.resp = {"SYN", "ACK"}],
          tcp_send_command_packet_no_socket(d, h.end, h.port, h.ack, h.seq, {"RST"})}
  <2>1. e = [Dump(w) EXCEPT !.tcp.next_seq = Plus(@, 1)]
    BY DEF e, n, d0
  <2>2. d = Become([Dump(w) EXCEPT !.tcp.next_seq = Plus(@, 1)], s,
                    [Socket(w, s) EXCEPT
                       !.seq = Plus(w.tcp.next_seq, 1), !.increment = IF syn THEN 1 ELSE 0,
                       !.ack = Plus(h.seq, Length(h) + 1),
                       !.remote = IF syn THEN h.end ELSE NoEnd,
                       !.state = IF syn THEN "SYN_REQUEST_RECEIVED" ELSE @])
    BY <2>1 DEF d, a, state, remote, k
  <2> QED BY <2>2, Zenon DEF Listening
<1>12. Still(d, [d EXCEPT !.resp = {"SYN", "ACK"}])
  BY <1>10, RespAside
<1>13. Still(d, tcp_send_command_packet_no_socket(d, h.end, h.port, h.ack, h.seq, {"RST"}))
  BY <1>10, Resets
<1> QED BY <1>10, <1>11, <1>12, <1>13, FedStill

LEMMA Refuses ==
  ASSUME NEW w, NEW s, NEW h, Ours(w, s, h)
  PROVE  Fed(w, WrongAck(w, s, h), s, h)
<1> DEFINE d == Dump(w)
           r == tcp_send_command_packet_no_socket(d, h.end, h.port, h.ack, h.seq, {"RST"})
<1>1. Still(w, d) /\ Formed(d)
  BY OursDump DEF Ours
<1>2. Still(d, r)
  <2> HIDE DEF d
  <2> QED BY <1>1, Resets
<1>3. WrongAck(w, s, h) \in {d, r}
  BY DEF WrongAck
<1> HIDE DEF d, r
<1> QED BY <1>1, <1>2, <1>3, StillTrans, OursFed

LEMMA Completes ==
  ASSUME NEW w, NEW s, NEW h, Ours(w, s, h), w.rx = h,
         Socket(w, s).state = "SYN_REQUEST_RECEIVED"
  PROVE  Fed(w, SynReceived(w, s, h), s, h)
<1> DEFINE k == Socket(w, s)
           ack == Plus(h.seq, Length(h))
           a == [k EXCEPT !.ack = ack, !.state = "CONNECTION_ESTABLISHED"]
           v == Become(w, s, a)
<1>1. CASE "ACK" \notin h.flags
  BY <1>1, OursDump, OursFed DEF SynReceived
<1>2. CASE "ACK" \in h.flags
  <2>1. Sock(k)
    BY DEF Ours, Formed
  <2>2. Alike(k, a) /\ a.state = "CONNECTION_ESTABLISHED"
    <3> HIDE DEF k, ack
    <3> QED BY <2>1 DEF Sock, SocketFields, Alike
  <2>3. k.state \in Open /\ a.state \in Open
    BY <2>2 DEF Open, States
  <2> HIDE DEF a
  <2>4. Still(w, v) /\ Ours(v, s, h) /\ v.rx = h
    BY <2>2, <2>3, MovesOn
  <2>5. SynReceived(w, s, h) = Keep(v, s, h)
    BY <1>2 DEF SynReceived, v, a
  <2> HIDE DEF v
  <2> QED BY <2>4, <2>5, Keeping, StillFed
<1> QED BY <1>1, <1>2

LEMMA Opens ==
  ASSUME NEW w, NEW s, NEW h, Ours(w, s, h), w.rx = h,
         Socket(w, s).state = "SYN_REQUEST_SENT"
  PROVE  Fed(w, SynSent(w, s, h), s, h)
<1> DEFINE k0 == Socket(w, s)
           ack == Plus(h.seq, Length(h) + 1)
           k == [k0 EXCEPT !.ack = ack, !.ready_for_tx = TRUE]
           a == [k EXCEPT !.state = "CONNECTION_ESTABLISHED"]
           seq == Plus(k.seq, 1)
           b == [k EXCEPT !.state = "SYN_REQUEST_RECEIVED", !.seq = seq, !.increment = 0]
           A == [Become(w, s, a) EXCEPT !.resp = {"ACK"}]
           B == [Become(w, s, b) EXCEPT !.resp = {"SYN", "ACK"}]
<1>1. CASE "SYN" \notin h.flags
  BY <1>1, OursDump, OursFed DEF SynSent
<1>2. Sock(k0) /\ k0.state \in Open
  BY DEF Ours, Formed, Open, States
<1>3. Alike(k0, k)
  <2> HIDE DEF k0, ack
  <2> QED BY <1>2 DEF Sock, SocketFields, Alike
<1>4. Alike(k0, a) /\ a.state \in Open /\ Alike(k0, b) /\ b.state \in Open
  <2> HIDE DEF k0, k, seq
  <2> QED BY <1>3 DEF SocketFields, Alike, Open, States
<1>5. ASSUME NEW x, Alike(k0, x), x.state \in Open, NEW f
      PROVE  Fed(w, Keep([Become(w, s, x) EXCEPT !.resp = f], s, h), s, h)
  <2> DEFINE v == Become(w, s, x)
             u == [v EXCEPT !.resp = f]
  <2>1. Still(w, v) /\ Ours(v, s, h) /\ v.rx = h
    BY <1>2, <1>5, MovesOn
  <2> HIDE DEF v
  <2>2. Still(v, u) /\ u.rx = h
    BY <2>1, RespAside DEF Ours
  <2> HIDE DEF u
  <2>3. Still(w, u) /\ Ours(u, s, h)
    BY <2>1, <2>2, StillTrans, StillOurs
  <2>4. Fed(w, Keep(u, s, h), s, h)
    BY <2>2, <2>3, Keeping, StillFed
  <2> QED BY <2>4 DEF u, v
<1>6. CASE "SYN" \in h.flags
  <2>1. SynSent(w, s, h) \in {Keep(A, s, h), Keep(B, s, h)}
    BY <1>6, Zenon DEF SynSent, A, B, a, b, k, ack, k0, seq
  <2>2. Fed(w, Keep(A, s, h), s, h) /\ Fed(w, Keep(B, s, h), s, h)
    <3> HIDE DEF a, b, k0
    <3> QED BY <1>4, <1>5
  <2> HIDE DEF A, B
  <2> QED BY <2>1, <2>2
<1> QED BY <1>1, <1>6

LEMMA Receives ==
  ASSUME NEW w, NEW s, NEW h, Ours(w, s, h), w.rx = h,
         Socket(w, s).state = "CONNECTION_ESTABLISHED"
  PROVE  Fed(w, Established(w, s, h), s, h)
<1> DEFINE k0 == Socket(w, s)
           k == Acknowledged(k0, h)
           ack == Plus(k.ack, 1)
           b == [k EXCEPT !.increment = 1, !.ack = ack, !.state = "LAST_ACK_SENT"]
           f == IF "FIN" \in h.flags THEN b ELSE k
           v == Become(w, s, f)
           r == IF "FIN" \in h.flags THEN {"FIN", "ACK"}
                ELSE IF Length(h) > 0 THEN {"ACK"} ELSE {}
           u == [v EXCEPT !.resp = r]
<1>1. Sock(k0) /\ k0.state = "CONNECTION_ESTABLISHED"
  BY DEF Ours, Formed
<1>2. Alike(k0, k) /\ k.state = "CONNECTION_ESTABLISHED"
  <2> HIDE DEF k0
  <2> QED BY <1>1 DEF Sock, SocketFields, Alike, Acknowledged
<1>3. Alike(k0, b) /\ b.state = "LAST_ACK_SENT"
  <2> HIDE DEF k0, k, ack
  <2> QED BY <1>2 DEF SocketFields, Alike
<1> HIDE DEF k, b, k0
<1>4. Alike(k0, f) /\ f.state \in Open /\ k0.state \in Open
  BY <1>1, <1>2, <1>3 DEF Open, States
<1> HIDE DEF f
<1>5. Still(w, v) /\ Ours(v, s, h) /\ v.rx = h
  BY <1>4, MovesOn DEF k0
<1>6. Established(w, s, h) = Keep(u, s, h)
  BY Zenon DEF Established, u, r, v, f, b, ack, k, k0
<1> HIDE DEF v
<1>7. Still(v, u) /\ u.rx = h
  BY <1>5, RespAside DEF Ours
<1> HIDE DEF u
<1>8. Still(w, u) /\ Ours(u, s, h)
  BY <1>5, <1>7, StillTrans, StillOurs
<1> QED BY <1>6, <1>7, <1>8, Keeping, StillFed

LEMMA OursSingle == ASSUME NEW w, NEW s, NEW h, Ours(w, s, h) PROVE Single(w) /\ Formed(w)
BY DEF Ours, NoneHas, Single

LEMMA LastAcks ==
  ASSUME NEW w, NEW s, NEW h, Ours(w, s, h)
  PROVE  Fed(w, LastAck(w, s, h), s, h)
<1>1. Still(w, Dump(w)) /\ Ours(Dump(w), s, h)
  BY OursDump
<1>2. Still(Dump(w), tcp_close_socket(Dump(w), s))
  BY <1>1, Closes, OursSingle DEF Ours
<1> QED BY <1>1, <1>2, StillTrans, OursFed DEF LastAck

LEMMA Disconnected ==
  ASSUME NEW w, NEW s, NEW h, Ours(w, s, h), Socket(w, s).state = "FIN_WAIT_1"
  PROVE  Fed(w, FinWait1(w, s, h), s, h)
<1> DEFINE d0 == Dump(w)
           e == [d0 EXCEPT !.resp = {"ACK"}]
           k == Socket(w, s)
           ack == Plus(k.ack, 1)
           a == [k EXCEPT !.ack = ack]
           d == Become(e, s, a)
           b == [Socket(d, s) EXCEPT !.state = "CLOSING"]
<1>1. Still(w, d0) /\ Ours(d0, s, h)
  BY OursDump
<1>2. Socket(e, s) = k
  BY DEF Dump, Socket, Ours, Formed, Fields
<1> HIDE DEF d0
<1>3. Still(d0, e)
  BY <1>1, RespAside DEF Ours
<1> HIDE DEF e
<1>4. Still(w, e) /\ Ours(e, s, h)
  BY <1>1, <1>3, StillTrans, StillOurs
<1>5. Sock(k) /\ k.state = "FIN_WAIT_1"
  BY DEF Ours, Formed
<1>6. Alike(k, a) /\ a.state = "FIN_WAIT_1"
  <2> HIDE DEF k, ack
  <2> QED BY <1>5 DEF Sock, SocketFields, Alike
<1> HIDE DEF a, k
<1>7. Still(e, d) /\ Ours(d, s, h) /\ Socket(d, s) = a
  BY <1>2, <1>4, <1>5, <1>6, MovesOn DEF Open, States
<1> HIDE DEF d
<1>8. Still(w, d)
  BY <1>4, <1>7, StillTrans
<1>9. Sock(Socket(d, s))
  BY <1>7 DEF Ours, Formed
<1>10. Still(d, Become(d, s, b))
  <2>1. Alike(Socket(d, s), b) /\ b.state = "CLOSING"
    BY <1>9 DEF Sock, SocketFields, Alike
  <2> HIDE DEF b
  <2> QED BY <1>6, <1>7, <2>1, MovesOn DEF Open, States
<1>11. Still(d, tcp_close_socket(d, s))
  BY <1>7, Closes, OursSingle DEF Ours
<1>12. FinWait1(w, s, h) \in {d0, tcp_close_socket(d, s), Become(d, s, b)}
  <2>1. d = Become([Dump(w) EXCEPT !.resp = {"ACK"}], s, [Socket(w, s) EXCEPT !.ack = Plus(@, 1)])
    BY DEF d, e, d0, a, ack, k
  <2> QED BY <2>1 DEF FinWait1, d0, b
<1> HIDE DEF b
<1> QED BY <1>1, <1>8, <1>10, <1>11, <1>12, StillTrans, OursFed

\* the states from "established" on
LEMMA NextOne ==
  ASSUME NEW w, NEW s, NEW h, Ours(w, s, h), w.rx = h,
         Socket(w, s).state \in Open \ {"SYN_REQUEST_RECEIVED", "SYN_REQUEST_SENT"}
  PROVE  Fed(w, InOrder(w, s, h), s, h)
<1> DEFINE k == Socket(w, s)
           ack == Plus(h.seq, Length(h))
           x == [k EXCEPT !.ack = ack]
           a == Become(w, s, x)
<1>1. Sock(k)
  BY DEF Ours, Formed
<1>2. Alike(k, x) /\ x.state = k.state
  <2> HIDE DEF k, ack
  <2> QED BY <1>1 DEF Sock, SocketFields, Alike
<1> HIDE DEF x
<1>3. Still(w, a) /\ Ours(a, s, h) /\ a.rx = h /\ Socket(a, s).state = k.state
  BY <1>2, MovesOn
<1>4. a = Become(w, s, [Socket(w, s) EXCEPT !.ack = Plus(h.seq, Length(h))])
  BY DEF a, x, k, ack
<1> HIDE DEF a
<1>5. CASE k.state = "CONNECTION_ESTABLISHED"
  <2>1. InOrder(w, s, h) = Established(a, s, h)
    BY <1>4, <1>5 DEF InOrder, k
  <2> QED BY <1>3, <1>5, <2>1, Receives, StillFed
<1>6. CASE k.state \in {"LAST_ACK_SENT", "CLOSING"}
  <2>1. InOrder(w, s, h) = LastAck(a, s, h)
    BY <1>4, <1>6 DEF InOrder, k
  <2> QED BY <1>3, <2>1, LastAcks, StillFed
<1>7. CASE k.state = "FIN_WAIT_1"
  <2>1. InOrder(w, s, h) = FinWait1(a, s, h)
    BY <1>4, <1>7 DEF InOrder, k
  <2> QED BY <1>3, <1>7, <2>1, Disconnected, StillFed
<1>8. CASE k.state \in {"CONNECT_SEND_ARP_REQUEST", "CONNECT_WAIT_ARP_RESPONSE"}
  <2>1. InOrder(w, s, h) = a
    BY <1>4, <1>8 DEF InOrder, k
  <2> QED BY <1>3, <2>1, OursFed
<1> QED BY <1>5, <1>6, <1>7, <1>8 DEF Open, States

\* Every segment for a socket in use
LEMMA Segments ==
  ASSUME NEW w0, NEW s, NEW h, Ours(w0, s, h), w0.rx = h, h.end # NoEnd, Used(Socket(w0, s))
  PROVE  Fed(w0, process_tcp_segment(w0, s, h), s, h)
<1> DEFINE w == [Counted(w0, s) EXCEPT !.resp = {}]
           state == Socket(w, s).state
           out == process_tcp_segment(w0, s, h)
<1>1. Still(w0, w) /\ Ours(w, s, h) /\ w.rx = h /\ state # "CLOSED" /\ state \in States
  <2>1. Still(w0, w) /\ Ours(w, s, h) /\ w.rx = h /\ state = Socket(w0, s).state
    BY Counting
  <2> HIDE DEF w
  <2> QED BY <2>1 DEF Used, Ours, Formed, Sock
<1>2. out =
        CASE state = "LISTEN" -> Respond(Listening(w, s, h), s)
          [] state # "LISTEN" /\ "RST" \in h.flags -> tcp_close_socket(Dump(w), s)
          [] state # "LISTEN" /\ "RST" \notin h.flags ->
               IF Socket(w, s).seq # h.ack /\ "FIN" \notin h.flags THEN Respond(WrongAck(w, s, h), s)
               ELSE IF state = "SYN_REQUEST_RECEIVED" THEN Respond(SynReceived(w, s, h), s)
               ELSE IF state = "SYN_REQUEST_SENT" THEN Respond(SynSent(w, s, h), s)
               ELSE IF h.seq # Socket(w, s).ack THEN Dump(w)
               ELSE Respond(InOrder(w, s, h), s)
  BY Zenon DEF process_tcp_segment
<1> HIDE DEF w, out
<1>3. ASSUME NEW x, Fed(w, x, s, h)
      PROVE  Fed(w, Respond(x, s), s, h)
  <2>1. Formed(x) /\ s \in Sockets
    BY <1>1, <1>3 DEF Fed, Ours
  <2>2. Still(x, Respond(x, s))
    BY <2>1, Responds
  <2> QED BY <1>3, <2>2, FedStill
<1>4. Fed(w, Dump(w), s, h) /\ Ours(Dump(w), s, h)
  BY <1>1, OursDump, OursFed
<1>5. Fed(w, out, s, h)
  <2>1. CASE state = "LISTEN"
    BY <1>1, <1>2, <1>3, <2>1, ListensTo
  <2>2. CASE state # "LISTEN" /\ "RST" \in h.flags
    <3>1. out = tcp_close_socket(Dump(w), s)
      BY <1>2, <2>2
    <3>2. Still(Dump(w), tcp_close_socket(Dump(w), s))
      BY <1>4, Closes, OursSingle DEF Ours
    <3> QED BY <1>4, <3>1, <3>2, FedStill
  <2>3. CASE state # "LISTEN" /\ "RST" \notin h.flags
    <3>1. out =
            IF Socket(w, s).seq # h.ack /\ "FIN" \notin h.flags THEN Respond(WrongAck(w, s, h), s)
            ELSE IF state = "SYN_REQUEST_RECEIVED" THEN Respond(SynReceived(w, s, h), s)
            ELSE IF state = "SYN_REQUEST_SENT" THEN Respond(SynSent(w, s, h), s)
            ELSE IF h.seq # Socket(w, s).ack THEN Dump(w)
            ELSE Respond(InOrder(w, s, h), s)
      BY <1>2, <2>3, Zenon
    <3>2. Fed(w, WrongAck(w, s, h), s, h)
      BY <1>1, Refuses
    <3>3. state = "SYN_REQUEST_RECEIVED" => Fed(w, SynReceived(w, s, h), s, h)
      BY <1>1, Completes
    <3>4. state = "SYN_REQUEST_SENT" => Fed(w, SynSent(w, s, h), s, h)
      BY <1>1, Opens
    <3>5. state \notin {"SYN_REQUEST_RECEIVED", "SYN_REQUEST_SENT"} => Fed(w, InOrder(w, s, h), s, h)
      BY <1>1, <2>3, NextOne DEF Open
    <3> QED BY <1>3, <1>4, <3>1, <3>2, <3>3, <3>4, <3>5
  <2> QED BY <2>1, <2>2, <2>3
<1> QED BY <1>1, <1>5, StillFed DEF out

-----------------------------------------------------------------------------
(* tcp_process_rx *)

\* A call keeps the sockets good, and the HTTP server as it is.
Kept(w, v) == Good(v) /\ v.http = w.http /\ (HttpOnly(w) => HttpOnly(v))

LEMMA StillKept ==
  ASSUME NEW w, NEW v, Good(w), Still(w, v)
  PROVE  Kept(w, v)
BY CalmGood DEF Still, Kept

\* A segment finds the socket of its connection, or one that listens for it.
LEMMA Matches ==
  ASSUME NEW w, Good(w), NoneHas(w), NEW h, h.end # NoEnd,
         NEW s, s = tcp_rx_check_for_matches_socket(w, h), s # TCP_INVALID_SOCKET
  PROVE  LET m == Matched(w, s, h)
         IN /\ Ours(m, s, h) /\ Used(Socket(m, s)) /\ m.rx = w.rx
            /\ Same(w, m) /\ Kept(w, m)
<1> DEFINE m == Matched(w, s, h)
<1>0. Formed(w) /\ Conn(w)
  BY DEF Good
<1>1. CASE Connected(w, h) # {}
  <2>1. s \in Connected(w, h)
    <3>1. Connected(w, h) \subseteq Nat
      BY Numbers DEF Connected, Local
    <3> QED BY <1>1, <3>1, LowestIn DEF tcp_rx_check_for_matches_socket
  <2>2. m = w
    BY <1>1 DEF Matched
  <2> QED BY <1>0, <2>1, <2>2 DEF Connected, Local, Ours, Used, Same, Kept
<1>2. CASE Connected(w, h) = {}
  <2>1. Listeners(w, h) # {} /\ s = Highest(Listeners(w, h))
    BY <1>2 DEF tcp_rx_check_for_matches_socket
  <2>2. s \in Listeners(w, h)
    <3>1. NumSockets - 1 \in Nat /\ Listeners(w, h) \subseteq 0..(NumSockets - 1)
      BY TcpAssumption DEF Listeners, Local, Sockets
    <3> QED BY <2>1, <3>1, HighestIn
  <2>3. s \in Sockets /\ Socket(w, s).state = "LISTEN" /\ Socket(w, s).local_port = h.port
    BY <2>2 DEF Listeners, Local
  <2> DEFINE k == [Socket(w, s) EXCEPT !.remote = h.end, !.rx_data_bytes_remaining = 0,
                                       !.ready_for_tx = TRUE, !.waiting_command = {}]
  <2>4. /\ Sock(k) /\ k.state = "LISTEN" /\ k.local_port = h.port /\ k.remote = h.end
        /\ k.rx_data_bytes_remaining = 0
    <3>1. Sock(Socket(w, s))
      BY <1>0, <2>3 DEF Formed
    <3> QED BY <2>3, <3>1 DEF Sock, SocketFields
  <2>5. m = Become(w, s, k)
    BY <1>2 DEF Matched
  <2> HIDE DEF k, m
  <2>6. \A t \in Sockets : Used(Socket(w, t)) => Differ(k, Socket(w, t))
    BY <1>2, <2>4 DEF Connected, Local, Used, Differ
  <2>7. /\ Formed(m) /\ Same(w, m) /\ m.rx = w.rx /\ m.http = w.http /\ Socket(m, s) = k
        /\ \A t \in Sockets \ {s} : Socket(m, t) = Socket(w, t)
    BY <1>0, <2>3, <2>4, <2>5, Becoming
  <2>8. Good(m) /\ (HttpOnly(w) => HttpOnly(m))
    <3>1. HttpOnly(w) => k.local_port = HTTP_PORT
      BY <2>3, <2>4 DEF HttpOnly, Used
    <3> QED BY <2>3, <2>4, <2>5, <2>6, <3>1, GoodBecome DEF Open
  <2>9. NoneHas(m)
    BY <2>4, <2>7 DEF NoneHas, Has
  <2> QED BY <2>3, <2>4, <2>7, <2>8, <2>9 DEF Ours, Good, Used, Kept, m
<1> QED BY <1>1, <1>2

LEMMA TakesNew ==
  ASSUME NEW w, Good(w), ~w.tcp.waiting, w.rx.end # NoEnd
  PROVE  Kept(w, NewSegment(w))
<1> DEFINE h == w.rx
           s == tcp_rx_check_for_matches_socket(w, h)
           m == Matched(w, s, h)
           p == process_tcp_segment(m, s, h)
           v == [p EXCEPT !.tcp.active = s, !.tcp.waiting = TRUE]
<1>1. NoneHas(w)
  BY GoodSingle
<1>2. CASE s = TCP_INVALID_SOCKET
  <2>1. NewSegment(w) = NoSocket(w, h)
    BY <1>2, Zenon DEF NewSegment
  <2>2. Still(w, Dump(w)) /\ Formed(Dump(w))
    BY <1>1, CalmDump DEF Still, Good, Calm
  <2>3. Still(Dump(w), NoSocket(w, h))
    BY <2>2, Resets DEF NoSocket
  <2> QED BY <2>1, <2>2, <2>3, StillTrans, StillKept
<1>3. CASE s # TCP_INVALID_SOCKET
  <2>1. NewSegment(w) = IF p.rx = Nothing THEN p ELSE v
    BY <1>3, Zenon DEF NewSegment
  <2>2. /\ Ours(m, s, h) /\ Used(Socket(m, s)) /\ m.rx = h /\ Same(w, m) /\ Kept(w, m)
        /\ h.end # NoEnd
    <3> HIDE DEF s
    <3> QED BY <1>1, <1>3, Matches DEF s
  <2> HIDE DEF m, s, h
  <2>3. Fed(m, p, s, h) /\ s \in Sockets
    BY <2>2, Segments DEF Ours
  <2> HIDE DEF p
  <2>4. p.http = w.http /\ (HttpOnly(w) => HttpOnly(p)) /\ ~p.tcp.waiting
    BY <2>2, <2>3 DEF Fed, Kept, Same
  <2>5. CASE p.rx = Nothing
    <3>1. NoneHas(p)
      BY <2>3, <2>5 DEF Fed, NoneHas, Nothing
    <3>2. Good(p)
      BY <2>3, <2>4, <3>1 DEF Good, Fed, Ann, NoneHas
    <3> QED BY <2>1, <2>4, <2>5, <3>2 DEF Kept
  <2>6. CASE p.rx # Nothing
    <3>1. /\ Fields \subseteq DOMAIN v /\ TcpFields \subseteq DOMAIN v.tcp
          /\ v.tcp.socket = p.tcp.socket /\ v.tcp.resp_socket \in Sockets /\ v.rx = p.rx
          /\ v.http = p.http /\ v.tcp.next_port = p.tcp.next_port
          /\ v.tcp.active = s /\ v.tcp.waiting = TRUE
      BY <2>3 DEF Fed, Formed, Fields, TcpFields
    <3> HIDE DEF v
    <3>2. \A t : Socket(v, t) = Socket(p, t)
      BY <3>1 DEF Socket
    <3>3. Formed(v) /\ Conn(v) /\ (HttpOnly(p) => HttpOnly(v))
      BY <2>3, <3>1, <3>2 DEF Fed, Formed, Conn, ServersUsed, HaveEnds, Apart, HttpOnly
    <3>4. Ann(v)
      <4>1. ASSUME NEW t \in Sockets, Has(v, t) PROVE Announced(v, t)
        <5>1. Has(p, t)
          BY <3>2, <4>1 DEF Has
        <5> QED BY <2>3, <3>1, <3>2, <5>1 DEF Fed, Announced
      <4> QED BY <2>3, <3>1, <4>1 DEF Ann
    <3> QED BY <2>1, <2>4, <2>6, <3>1, <3>3, <3>4 DEF Kept, Good
  <2> QED BY <2>5, <2>6
<1> QED BY <1>2, <1>3

LEMMA Finishes ==
  ASSUME NEW w, Good(w), NoneHas(w)
  PROVE  Kept(w, Processed(w))
<1> DEFINE c == tcp_send_command_packet_from_socket(w, w.tcp.resp_socket, w.tcp.resp_flags)
           sent == IF w.tcp.resp_flags = {} THEN w ELSE [c EXCEPT !.tcp.resp_flags = {}]
           v == [sent EXCEPT !.tcp.active = TCP_INVALID_SOCKET, !.tcp.waiting = FALSE]
<1>1. Still(w, c) /\ Formed(c)
  BY Commands DEF Good, Formed, Still, Calm
<1>2. Still(w, sent) /\ Formed(sent)
  <2>1. /\ Fields \subseteq DOMAIN [c EXCEPT !.tcp.resp_flags = {}]
        /\ TcpFields \subseteq DOMAIN [c EXCEPT !.tcp.resp_flags = {}].tcp
        /\ [c EXCEPT !.tcp.resp_flags = {}].tcp.socket = c.tcp.socket
        /\ [c EXCEPT !.tcp.resp_flags = {}].tcp.resp_socket \in Sockets
        /\ [c EXCEPT !.tcp.resp_flags = {}].rx = c.rx
        /\ [c EXCEPT !.tcp.resp_flags = {}].http = c.http
        /\ Same(c, [c EXCEPT !.tcp.resp_flags = {}])
    <3> HIDE DEF c
    <3> QED BY <1>1 DEF Formed, Fields, TcpFields, Same
  <2> HIDE DEF c
  <2>2. Still(c, [c EXCEPT !.tcp.resp_flags = {}])
    BY <1>1, <2>1, CalmAside DEF Still
  <2>3. Still(w, w) /\ Formed(w)
    BY CalmRefl DEF Good, Still
  <2>4. Still(w, [c EXCEPT !.tcp.resp_flags = {}])
    BY <1>1, <2>2, StillTrans
  <2>5. Still(w, sent)
    BY <2>3, <2>4
  <2> QED BY <2>5, CalmFormed DEF Still
<1> HIDE DEF sent
<1>3. NoneHas(sent) /\ Conn(sent) /\ (HttpOnly(w) => HttpOnly(sent))
  BY <1>2, CalmNone, CalmConn DEF Still, Good
<1>4. /\ Fields \subseteq DOMAIN v /\ TcpFields \subseteq DOMAIN v.tcp
      /\ v.tcp.socket = sent.tcp.socket /\ v.tcp.resp_socket \in Sockets /\ v.rx = sent.rx
      /\ v.http = sent.http /\ v.tcp.next_port = sent.tcp.next_port
      /\ v.tcp.waiting = FALSE
  BY <1>2 DEF Formed, Fields, TcpFields
<1> HIDE DEF v
<1>5. \A t : Socket(v, t) = Socket(sent, t)
  BY <1>4 DEF Socket
<1>6. Formed(v) /\ Conn(v) /\ (HttpOnly(sent) => HttpOnly(v))
  BY <1>2, <1>3, <1>4, <1>5 DEF Formed, Conn, ServersUsed, HaveEnds, Apart, HttpOnly
<1>7. Ann(v)
  BY <1>3, <1>4, <1>5 DEF Ann, NoneHas, Has
<1>8. Kept(w, v)
  BY <1>2, <1>3, <1>4, <1>6, <1>7 DEF Kept, Good, Still
<1> QED BY <1>8 DEF Processed, v, sent, c

LEMMA Awaits ==
  ASSUME NEW w, Good(w), w.tcp.waiting
  PROVE  Kept(w, StillWaiting(w))
<1>1. w.tcp.active \in Sockets /\ OnlyHas(w, w.tcp.active) /\ Formed(w)
  BY GoodSingle DEF Good
<1>2. Still(w, tcp_dump_rx_packet(w)) /\ Still(w, w)
  BY <1>1, Reads, CalmRefl DEF Still
<1> QED BY <1>2, StillKept DEF StillWaiting

LEMMA ProcessesRx ==
  ASSUME NEW w, Good(w), ~w.tcp.waiting => w.rx.end # NoEnd
  PROVE  Kept(w, tcp_process_rx(w))
<1>1. CASE ~w.tcp.waiting
  BY <1>1, TakesNew DEF tcp_process_rx
<1>2. CASE w.tcp.waiting /\ Socket(w, w.tcp.active).rx_data_bytes_remaining = 0
  <2>1. NoneHas(w)
    BY <1>2, GoodSingle DEF OnlyHas, NoneHas, Has
  <2> QED BY <1>2, <2>1, Finishes DEF tcp_process_rx
<1>3. CASE w.tcp.waiting /\ Socket(w, w.tcp.active).rx_data_bytes_remaining # 0
  BY <1>3, Awaits DEF tcp_process_rx
<1> QED BY <1>1, <1>2, <1>3

-----------------------------------------------------------------------------
(* The HTTP server *)

HttpFields == {"sm", "socket", "file", "remaining", "sent"}

\* What a socket of the server is about: a response has a file, and a segment of
\* it that has been sent and is not counted yet is one there is.
Served(p) ==
  /\ HttpFields \subseteq DOMAIN p
  /\ p.sm \in HttpStates /\ p.socket \in Sockets \cup {TCP_INVALID_SOCKET}
  /\ p.remaining \in Nat /\ p.sent \in {ErrorSent, NotStarted, 0, 1}
  /\ p.sm \in ResponseStates =>
       p.file \in DOMAIN Files /\ p.sent # ErrorSent /\ (p.sent = 1 => p.remaining > 0)

Serves(w) == DOMAIN w.http = HttpSockets /\ \A h \in HttpSockets : Served(w.http[h])

Fine(w, v) == Good(v) /\ Serves(v) /\ (HttpOnly(w) => HttpOnly(v))

LEMMA FineTrans ==
  ASSUME NEW w, NEW v, NEW u, Fine(w, v), Fine(v, u)
  PROVE  Fine(w, u)
BY DEF Fine

LEMMA FineStill ==
  ASSUME NEW w, NEW v, Good(w), Serves(w), Still(w, v)
  PROVE  Fine(w, v)
<1>1. Kept(w, v)
  BY StillKept
<1> QED BY <1>1 DEF Kept, Fine, Serves

LEMMA FineHttp ==
  ASSUME NEW w, Good(w), Serves(w), NEW h \in HttpSockets, NEW p, Served(p),
         NEW v, Fields \subseteq DOMAIN v, v.tcp = w.tcp, v.rx = w.rx,
         v.http = [w.http EXCEPT ![h] = p]
  PROVE  Fine(w, v) /\ v.http[h] = p /\ \A t : Socket(v, t) = Socket(w, t)
<1>1. TcpFields \subseteq DOMAIN v.tcp /\ v.tcp.resp_socket \in Sockets /\ v.tcp.next_port \in Int
  BY DEF Good, Formed, Conn
<1>2. Good(v) /\ (HttpOnly(w) => HttpOnly(v))
  BY <1>1, GoodAside
<1>3. Serves(v) /\ v.http[h] = p
  BY DEF Serves
<1> QED BY <1>2, <1>3 DEF Fine, Socket

\* one field of the server's socket, or two
LEMMA FineSent ==
  ASSUME NEW w, Good(w), Serves(w), NEW h \in HttpSockets, NEW n,
         n \in {ErrorSent, 0, 1}, n = ErrorSent => w.http[h].sm \notin ResponseStates,
         n = 1 => w.http[h].remaining > 0
  PROVE  LET v == [w EXCEPT !.http[h].sent = n]
         IN /\ Fine(w, v) /\ v.tcp = w.tcp /\ v.rx = w.rx
            /\ v.http[h].socket = w.http[h].socket
            /\ v.http[h].sm = w.http[h].sm
<1> DEFINE v == [w EXCEPT !.http[h].sent = n]
           q == w.http[h]
           p == [q EXCEPT !.sent = n]
<1>1. Served(q) /\ DOMAIN w.http = HttpSockets /\ Fields \subseteq DOMAIN w
  BY DEF Serves, Good, Formed
<1>2. /\ HttpFields \subseteq DOMAIN p /\ p.sent = n
      /\ p.sm = q.sm /\ p.socket = q.socket /\ p.remaining = q.remaining /\ p.file = q.file
  <2> HIDE DEF q
  <2> QED BY <1>1 DEF Served, HttpFields
<1>3. /\ Fields \subseteq DOMAIN v /\ v.tcp = w.tcp /\ v.rx = w.rx
      /\ v.http = [w.http EXCEPT ![h] = p]
  BY <1>1 DEF Fields
<1> HIDE DEF v, p
<1>4. Served(p)
  BY <1>1, <1>2 DEF Served, ErrorSent, NotStarted
<1>5. Fine(w, v)
  BY <1>3, <1>4, FineHttp
<1>6. v.http[h] = p
  BY <1>1, <1>3
<1> QED BY <1>2, <1>3, <1>5, <1>6 DEF v

LEMMA FineState ==
  ASSUME NEW w, Good(w), Serves(w), NEW h \in HttpSockets,
         NEW sm \in HttpStates \ ResponseStates
  PROVE  LET v == State(w, h, sm)
         IN Fine(w, v) /\ v.http[h] = [w.http[h] EXCEPT !.sm = sm] /\ v.tcp = w.tcp /\ v.rx = w.rx
<1> DEFINE v == State(w, h, sm)
           q == w.http[h]
           p == [q EXCEPT !.sm = sm]
<1>1. Served(q) /\ DOMAIN w.http = HttpSockets /\ Fields \subseteq DOMAIN w
  BY DEF Serves, Good, Formed
<1>2. /\ HttpFields \subseteq DOMAIN p /\ p.sm = sm
      /\ p.sent = q.sent /\ p.socket = q.socket /\ p.remaining = q.remaining
  <2> HIDE DEF q
  <2> QED BY <1>1 DEF Served, HttpFields
<1>3. /\ Fields \subseteq DOMAIN v /\ v.tcp = w.tcp /\ v.rx = w.rx
      /\ v.http = [w.http EXCEPT ![h] = p]
  BY <1>1 DEF State, Fields
<1>4. Served(p)
  <2> HIDE DEF p
  <2> QED BY <1>1, <1>2 DEF Served
<1> HIDE DEF v, p
<1>5. Fine(w, v)
  BY <1>3, <1>4, FineHttp
<1>6. v.http[h] = p
  BY <1>1, <1>3
<1> QED BY <1>3, <1>5, <1>6 DEF v, p

LEMMA RequestTypes ==
  ASSUME NEW text \in DOMAIN Asked
  PROVE  Asked[text].type \in {"GET", "HEAD", "UNKNOWN", "BAD"}
<1>1. ReadRequest(Requests[text]).type \in {"GET", "HEAD", "UNKNOWN", "BAD"}
  <2>1. \A type, path, inputs : Wanted(type, path, inputs).type = type
    BY DEF Wanted
  <2>2. ASSUME NEW type \in {"GET", "HEAD"}, NEW path, NEW end, NEW file
        PROVE  ReadUpTo(type, path, end, file).type \in {"GET", "HEAD", "BAD"}
    BY <2>1 DEF ReadUpTo, Bad
  <2>3. ASSUME NEW type \in {"GET", "HEAD"}, NEW path
        PROVE  ReadAfterType(type, path).type \in {"GET", "HEAD", "BAD"}
    BY <2>1, <2>2 DEF ReadAfterType, Bad
  <2> QED
    BY <2>1, <2>3 DEF ReadRequest
<1>2. Asked[text] = Found(ReadRequest(Requests[text]))
  BY AskedAssumption DEF Reading
<1>3. \A q : Found(q).type = q.type
  BY DEF Found
<1> QED BY <1>1, <1>2, <1>3

LEMMA SetsUp ==
  ASSUME NEW w, Good(w), Serves(w), NEW h \in HttpSockets, NEW type, NEW file
  PROVE  Fine(w, http_setup_response(w, h, type, file))
<1> DEFINE v == http_setup_response(w, h, type, file)
           q == w.http[h]
           n == Files[file].length
           sm == IF type = "HEAD" THEN "START_HEAD_RESPONSE" ELSE "START_RESPONSE"
           p == [q EXCEPT !.file = file, !.remaining = n, !.sent = NotStarted, !.sm = sm]
<1>1. Served(q) /\ DOMAIN w.http = HttpSockets /\ Fields \subseteq DOMAIN w
  BY DEF Serves, Good, Formed
<1>2. CASE file \notin DOMAIN Files
  BY <1>2, FineState DEF http_setup_response, HttpStates, ErrorStates, ResponseStates
<1>3. CASE file \in DOMAIN Files
  <2>1. n \in Nat
    BY <1>3, HttpAssumption
  <2>2. sm \in ResponseStates /\ sm \in HttpStates
    BY DEF ResponseStates, HttpStates
  <2>3. /\ HttpFields \subseteq DOMAIN p /\ p.sm = sm /\ p.file = file
        /\ p.sent = NotStarted /\ p.socket = q.socket /\ p.remaining = n
    <3> HIDE DEF q, n, sm
    <3> QED BY <1>1 DEF Served, HttpFields
  <2>4. /\ Fields \subseteq DOMAIN v /\ v.tcp = w.tcp /\ v.rx = w.rx
        /\ v.http = [w.http EXCEPT ![h] = p]
    BY <1>1, <1>3 DEF http_setup_response, Fields
  <2> HIDE DEF p, q, n, sm, v
  <2>5. Served(p)
    BY <1>1, <1>3, <2>1, <2>2, <2>3 DEF Served, NotStarted, ErrorSent
  <2>6. Fine(w, v)
    BY <2>4, <2>5, FineHttp
  <2> QED BY <2>6 DEF v
<1> QED BY <1>2, <1>3

\* A request is read, and dumped in every case.
LEMMA ReadsRequest ==
  ASSUME NEW w, Good(w), Serves(w), NEW h \in HttpSockets, NEW text, w.tcp.waiting
  PROVE  Fine(w, http_process_rx(w, h, text))
<1> DEFINE u == [w EXCEPT !.http[h].sent = 0]
           d == tcp_dump_rx_packet(u)
           q == IF text \in DOMAIN Asked THEN Asked[text] ELSE [type |-> "UNKNOWN", file |-> ""]
           v == http_process_rx(w, h, text)
<1>1. Fine(w, u) /\ u.tcp = w.tcp
  BY FineSent DEF ErrorSent
<1> HIDE DEF u
<1>2. Still(u, d)
  <2>1. Formed(u) /\ u.tcp.active \in Sockets /\ OnlyHas(u, u.tcp.active)
    BY <1>1, GoodSingle DEF Fine, Good
  <2> QED BY <2>1, Reads
<1>3. Fine(w, d) /\ Good(d) /\ Serves(d)
  BY <1>1, <1>2, FineStill, FineTrans DEF Fine
<1>4. q.type \in {"GET", "HEAD", "UNKNOWN", "BAD"}
  BY RequestTypes
<1>5. v = CASE q.type = "UNKNOWN" -> State(d, h, "RETURN_NOT_IMPLEMENTED")
            [] q.type = "BAD"     -> State(d, h, "RETURN_BAD_REQUEST")
            [] q.type \in {"GET", "HEAD"} -> http_setup_response(d, h, q.type, q.file)
  BY Zenon DEF http_process_rx, u
<1> HIDE DEF d, v, q
<1>6. v \in {State(d, h, "RETURN_NOT_IMPLEMENTED"), State(d, h, "RETURN_BAD_REQUEST"),
             http_setup_response(d, h, q.type, q.file)}
  BY <1>4, <1>5
<1>7. /\ Fine(d, State(d, h, "RETURN_NOT_IMPLEMENTED")) /\ Fine(d, State(d, h, "RETURN_BAD_REQUEST"))
      /\ Fine(d, http_setup_response(d, h, q.type, q.file))
  BY <1>3, FineState, SetsUp DEF HttpStates, ErrorStates, ResponseStates
<1> QED BY <1>3, <1>6, <1>7, FineTrans DEF v

\* A packet is sent, and what it was is noted.
LEMMA FineSend ==
  ASSUME NEW w, Good(w), Serves(w), NEW h \in HttpSockets, NEW s \in Sockets, NEW n, NEW data,
         n \in {ErrorSent, 0, 1}, n = ErrorSent => w.http[h].sm \notin ResponseStates,
         n = 1 => w.http[h].remaining > 0
  PROVE  Fine(w, SendData([w EXCEPT !.http[h].sent = n], s, data))
<1> DEFINE u == [w EXCEPT !.http[h].sent = n]
<1>1. Fine(w, u)
  BY FineSent
<1> HIDE DEF u
<1>2. Still(u, SendData(u, s, data))
  BY <1>1, Sending DEF Fine, Good
<1>3. Fine(w, SendData(u, s, data))
  BY <1>1, <1>2, FineStill, FineTrans DEF Fine
<1> QED BY <1>3 DEF u

\* The segment of the file cannot be read.
LEMMA FineFails ==
  ASSUME NEW w, Good(w), Serves(w), NEW h \in HttpSockets, NEW s \in Sockets
  PROVE  LET k == Socket(w, s)
         IN Fine(w, Become([w EXCEPT !.http[h].sent = 0, !.http[h].sm = "RETURN_SERVICE_UNAVAILABLE"], s,
                   [(IF k.resend THEN k ELSE Advanced(k)) EXCEPT !.had_data = FALSE, !.last_flags = {"ACK"}]))
<1> DEFINE k0 == Socket(w, s)
           k == IF k0.resend THEN k0 ELSE Advanced(k0)
           a == [k EXCEPT !.had_data = FALSE, !.last_flags = {"ACK"}]
           u == [w EXCEPT !.http[h].sent = 0, !.http[h].sm = "RETURN_SERVICE_UNAVAILABLE"]
           v == Become(u, s, a)
           q == w.http[h]
           p == [q EXCEPT !.sent = 0, !.sm = "RETURN_SERVICE_UNAVAILABLE"]
<1>1. Served(q) /\ DOMAIN w.http = HttpSockets /\ Fields \subseteq DOMAIN w /\ Sock(k0)
  BY DEF Serves, Good, Formed
<1>2. Served(p)
  <2>1. /\ HttpFields \subseteq DOMAIN p /\ p.sm = "RETURN_SERVICE_UNAVAILABLE" /\ p.sent = 0
        /\ p.socket = q.socket /\ p.remaining = q.remaining
    <3> HIDE DEF q
    <3> QED BY <1>1 DEF Served, HttpFields
  <2> HIDE DEF p, q
  <2> QED BY <1>1, <2>1 DEF Served, HttpStates, ErrorStates, ResponseStates
<1>3. /\ Fields \subseteq DOMAIN u /\ u.tcp = w.tcp /\ u.rx = w.rx
      /\ u.http = [w.http EXCEPT ![h] = p]
  BY <1>1 DEF Fields
<1> HIDE DEF p, u
<1>4. Fine(w, u) /\ Socket(u, s) = k0
  BY <1>2, <1>3, FineHttp
<1>5. Sock(a) /\ Mild(k0, a) /\ a.rx_data_bytes_remaining = k0.rx_data_bytes_remaining
  <2>1. Sock(k) /\ Mild(k0, k) /\ k.rx_data_bytes_remaining = k0.rx_data_bytes_remaining
    <3> HIDE DEF k0
    <3> QED BY <1>1 DEF Sock, SocketFields, Mild, Goes, Advanced
  <2>2. Sock(a) /\ Mild(k, a) /\ a.rx_data_bytes_remaining = k.rx_data_bytes_remaining
    <3> HIDE DEF k
    <3> QED BY <2>1 DEF Sock, SocketFields, Mild, Goes
  <2> HIDE DEF a, k, k0
  <2> QED BY <2>1, <2>2, MildTrans
<1> HIDE DEF a, k0
<1>6. Still(u, v)
  BY <1>4, <1>5, StillBecome DEF Has, Fine, Good
<1> HIDE DEF v
<1>7. Fine(w, v)
  BY <1>4, <1>6, FineStill, FineTrans DEF Fine
<1> QED BY <1>7 DEF v, u, a, k, k0

LEMMA SendsNext ==
  ASSUME NEW w, Good(w), Serves(w), NEW h \in HttpSockets, NEW fails,
         w.http[h].socket \in Sockets, w.http[h].sm \in ResponseStates
  PROVE  Fine(w, SendNext(w, h, fails))
<1> DEFINE p    == w.http[h]
           s    == p.socket
           next == Files[p.file].length - p.remaining + 1
           k    == Socket(w, s)
           part == Part(p.file, next)
           v    == SendNext(w, h, fails)
           A == SendData([w EXCEPT !.http[h].sent = 0], s, Header)
           B == SendData([w EXCEPT !.http[h].sent = 0], s, NoData)
           C == SendData([w EXCEPT !.http[h].sent = 1], s, part)
           D == Become([w EXCEPT !.http[h].sent = 0, !.http[h].sm = "RETURN_SERVICE_UNAVAILABLE"], s,
                   [(IF k.resend THEN k ELSE Advanced(k)) EXCEPT !.had_data = FALSE, !.last_flags = {"ACK"}])
<1>1. Served(p)
  BY DEF Serves
<1> s \in Sockets
  OBVIOUS
<1>0. ErrorSent # 0 /\ ErrorSent # 1
  BY DEF ErrorSent
<1>2. Fine(w, A) /\ Fine(w, B) /\ Fine(w, D)
  <2>1. Fine(w, D)
    <3> HIDE DEF s
    <3> QED BY FineFails
  <2>2. \A data : Fine(w, SendData([w EXCEPT !.http[h].sent = 0], s, data))
    <3> HIDE DEF s
    <3> QED BY <1>0, FineSend
  <2> HIDE DEF s, D
  <2> QED BY <2>1, <2>2
<1>3. p.remaining > 0 => Fine(w, C)
  <2> HIDE DEF part, s
  <2> QED BY <1>0, FineSend
<1> HIDE DEF A, B, C, D
<1>4. CASE p.sm \in {"START_HEAD_RESPONSE", "START_RESPONSE"}
  <2>1. v = A
    BY <1>4 DEF SendNext, A
  <2> QED BY <1>2, <2>1
<1>5. CASE p.sm = "CONTINUE_RESPONSE" /\ p.remaining = 0
  <2>1. v = B
    <3>1. ~(p.sm \in {"START_HEAD_RESPONSE", "START_RESPONSE"}) /\ ~(p.remaining > 0)
      BY <1>5
    <3> QED BY <1>5, <3>1, Zenon DEF SendNext, B
  <2> QED BY <1>2, <2>1
<1>6. CASE p.sm = "CONTINUE_RESPONSE" /\ p.remaining > 0 /\ ~fails
  <2>1. v = C
    <3>1. ~(p.sm \in {"START_HEAD_RESPONSE", "START_RESPONSE"}) /\ p.remaining # 0
      BY <1>1, <1>6 DEF Served
    <3> QED BY <1>6, <3>1, Zenon DEF SendNext, C
  <2> QED BY <1>3, <1>6, <2>1
<1>7. CASE p.sm = "CONTINUE_RESPONSE" /\ p.remaining > 0 /\ fails
  <2>1. v = D
    <3>1. ~(p.sm \in {"START_HEAD_RESPONSE", "START_RESPONSE"}) /\ p.remaining # 0
      BY <1>1, <1>7 DEF Served
    <3> QED BY <1>7, <3>1, Zenon DEF SendNext, D, Socket
  <2> QED BY <1>2, <2>1
<1>8. p.remaining = 0 \/ p.remaining > 0
  BY <1>1 DEF Served
<1> QED BY <1>4, <1>5, <1>6, <1>7, <1>8 DEF ResponseStates

LEMMA CountsPart ==
  ASSUME NEW w, Good(w), Serves(w), NEW h \in HttpSockets, w.http[h].sm \in ResponseStates
  PROVE  LET v == NextPart(w, h)
         IN Fine(w, v) /\ v.http[h].socket = w.http[h].socket
<1> DEFINE q == w.http[h]
           r == q.remaining - q.sent
           v == NextPart(w, h)
<1>1. Served(q) /\ DOMAIN w.http = HttpSockets /\ Fields \subseteq DOMAIN w
  BY DEF Serves, Good, Formed
<1>2. CASE q.sent = NotStarted
  <2>1. v = w
    BY <1>2 DEF NextPart, NotStarted
  <2> QED BY <2>1 DEF Fine
<1>3. CASE q.sent = 0
  <2> DEFINE sm == IF q.sm = "START_HEAD_RESPONSE" THEN "CONNECTED_TO_CLIENT" ELSE "CONTINUE_RESPONSE"
             p == [q EXCEPT !.sm = sm]
  <2>1. v = State(w, h, sm)
    BY <1>3 DEF NextPart, NotStarted
  <2>2. /\ HttpFields \subseteq DOMAIN p /\ p.sm = sm /\ p.sent = 0 /\ p.socket = q.socket
        /\ p.remaining = q.remaining /\ p.file = q.file
    <3> HIDE DEF q, sm
    <3> QED BY <1>1, <1>3 DEF Served, HttpFields
  <2>3. sm \in {"CONNECTED_TO_CLIENT", "CONTINUE_RESPONSE"}
    OBVIOUS
  <2>4. /\ Fields \subseteq DOMAIN v /\ v.tcp = w.tcp /\ v.rx = w.rx
        /\ v.http = [w.http EXCEPT ![h] = p]
    BY <1>1, <2>1 DEF State, Fields
  <2> HIDE DEF p, v, sm
  <2>5. Served(p)
    BY <1>1, <2>2, <2>3 DEF Served, HttpStates, ResponseStates, ErrorSent
  <2>6. Fine(w, v)
    BY <2>4, <2>5, FineHttp
  <2>7. v.http[h] = p
    BY <1>1, <2>4
  <2> QED BY <2>2, <2>6, <2>7 DEF v
<1>4. CASE q.sent = 1
  <2> DEFINE sm == IF r > 0 THEN q.sm ELSE IF Files[q.file].html THEN "CLOSE_CONNECTION"
                                          ELSE "CONNECTED_TO_CLIENT"
             p == [q EXCEPT !.remaining = r, !.sm = sm]
  <2>1. v = [w EXCEPT !.http[h].remaining = r, !.http[h].sm = sm]
    <3>1. v = [w EXCEPT !.http[h].remaining = r,
                        !.http[h].sm = IF r > 0 THEN @
                                       ELSE IF Files[q.file].html THEN "CLOSE_CONNECTION"
                                       ELSE "CONNECTED_TO_CLIENT"]
      <4>1. q.sent > 0 /\ q.sent # NotStarted /\ q.sent # 0
        BY <1>4 DEF NotStarted
      <4> QED BY <4>1, Zenon DEF NextPart
    <3> HIDE DEF r, v
    <3> QED BY <1>1, <3>1 DEF Fields
  <2>2. r \in Nat /\ q.sm \in ResponseStates /\ q.sm \in HttpStates /\ q.file \in DOMAIN Files
        /\ (r = 0 => sm \notin ResponseStates) /\ sm \in HttpStates
    BY <1>1, <1>4 DEF Served, HttpStates, ResponseStates
  <2>3. /\ HttpFields \subseteq DOMAIN p /\ p.sm = sm /\ p.sent = 1 /\ p.socket = q.socket
        /\ p.remaining = r /\ p.file = q.file
    <3> HIDE DEF q, sm, r
    <3> QED BY <1>1, <1>4 DEF Served, HttpFields
  <2>4. /\ Fields \subseteq DOMAIN v /\ v.tcp = w.tcp /\ v.rx = w.rx
        /\ v.http = [w.http EXCEPT ![h] = p]
    <3> HIDE DEF r, sm, v
    <3> QED BY <1>1, <2>1 DEF Fields
  <2> HIDE DEF p, v, sm, r
  <2>5. Served(p)
    BY <1>1, <2>2, <2>3 DEF Served, ErrorSent
  <2>6. Fine(w, v)
    BY <2>4, <2>5, FineHttp
  <2>7. v.http[h] = p
    BY <1>1, <2>4
  <2> QED BY <2>3, <2>6, <2>7 DEF v
<1> QED BY <1>1, <1>2, <1>3, <1>4 DEF Served

LEMMA SendsOn ==
  ASSUME NEW w, Good(w), Serves(w), NEW h \in HttpSockets, NEW resend, NEW fails,
         w.http[h].socket \in Sockets, w.http[h].sm \in ResponseStates
  PROVE  Fine(w, http_transmit_next_response_packet(w, h, resend, fails))
<1> DEFINE n == IF resend THEN w ELSE NextPart(w, h)
<1>1. Fine(w, n) /\ n.http[h].socket = w.http[h].socket
  BY CountsPart DEF Fine
<1>2. http_transmit_next_response_packet(w, h, resend, fails)
        = IF n.http[h].sm \in ResponseStates THEN SendNext(n, h, fails) ELSE n
  BY DEF http_transmit_next_response_packet
<1> HIDE DEF n
<1>3. n.http[h].sm \in ResponseStates => Fine(n, SendNext(n, h, fails))
  BY <1>1, SendsNext DEF Fine
<1> QED BY <1>1, <1>2, <1>3, FineTrans

LEMMA SendsError ==
  ASSUME NEW w, Good(w), Serves(w), NEW h \in HttpSockets, NEW resend,
         w.http[h].socket \in Sockets, w.http[h].sm \in ErrorStates
  PROVE  Fine(w, http_transmit_error_response(w, h, resend))
<1> DEFINE u == [w EXCEPT !.http[h].sent = 0]
           v == [w EXCEPT !.http[h].sent = 0, !.http[h].sm = "CLOSE_CONNECTION"]
           z == SendData([w EXCEPT !.http[h].sent = ErrorSent], w.http[h].socket, ErrorPage)
<1>1. Fine(w, u)
  BY FineSent DEF ErrorSent
<1>2. v = State(u, h, "CLOSE_CONNECTION")
  BY DEF State, Good, Formed, Fields, Serves
<1> HIDE DEF u
<1>3. Fine(u, State(u, h, "CLOSE_CONNECTION"))
  BY <1>1, FineState DEF Fine, HttpStates, ResponseStates, ErrorStates
<1>4. Fine(w, v)
  BY <1>1, <1>2, <1>3, FineTrans
<1>5. Fine(w, z)
  <2>1. w.http[h].sm \notin ResponseStates
    BY DEF ErrorStates, ResponseStates
  <2>2. ErrorSent # 0 /\ ErrorSent # 1
    BY DEF ErrorSent
  <2> DEFINE s == w.http[h].socket
  <2>3. s \in Sockets
    OBVIOUS
  <2> HIDE DEF s
  <2>4. Fine(w, SendData([w EXCEPT !.http[h].sent = ErrorSent], s, ErrorPage))
    BY <2>1, <2>2, <2>3, FineSend
  <2> QED BY <2>4 DEF s
<1>6. http_transmit_error_response(w, h, resend) \in {v, z}
  BY Zenon DEF http_transmit_error_response
<1> HIDE DEF v, z
<1> QED BY <1>4, <1>5, <1>6

LEMMA RespondsHttp ==
  ASSUME NEW w, Good(w), Serves(w), NEW h \in HttpSockets, NEW fails,
         w.http[h].socket \in Sockets, w.http[h].sm \in ResponseStates \cup ErrorStates
  PROVE  Fine(w, Responding(w, h, fails))
<1> DEFINE resend == tcp_does_socket_require_resend_of_last_packet(w, w.http[h].socket)
<1>1. Fine(w, w)
  BY DEF Fine
<1>2. w.http[h].sm \in ErrorStates => Fine(w, http_transmit_error_response(w, h, resend))
  <2> HIDE DEF resend
  <2> QED BY SendsError
<1>3. w.http[h].sm \notin ErrorStates =>
        Fine(w, http_transmit_next_response_packet(w, h, resend, fails))
  <2> HIDE DEF resend
  <2> QED BY SendsOn
<1> QED BY <1>1, <1>2, <1>3 DEF Responding

\* A socket of the server gets a TCP socket that listens, and waits for a client.
LEMMA FineConnect ==
  ASSUME NEW w, Good(w), Serves(w), NEW h \in HttpSockets,
         w.http[h].sm = "WAITING_FOR_CONNECTION"
  PROVE  Fine(w, Connect(w, h))
<1> DEFINE q == w.http[h]
           s == IF q.socket = TCP_INVALID_SOCKET THEN FreeSocket(w) ELSE q.socket
           o == IF q.socket = TCP_INVALID_SOCKET THEN tcp_open_socket_to_listen(w, HTTP_PORT) ELSE w
           sm == IF tcp_is_socket_connected(o, s) THEN "CONNECTED_TO_CLIENT" ELSE q.sm
           p == [q EXCEPT !.socket = s, !.sm = sm]
           v == Connect(w, h)
<1>1. Served(q) /\ q.sm = "WAITING_FOR_CONNECTION" /\ DOMAIN w.http = HttpSockets
  BY DEF Serves
<1>2. Good(o) /\ Serves(o) /\ (HttpOnly(w) => HttpOnly(o)) /\ o.http = w.http
  <2> DEFINE l == tcp_open_socket_to_listen(w, HTTP_PORT)
  <2>1. Good(l) /\ (HttpOnly(w) => HttpOnly(l)) /\ l.http = w.http
    BY Listens
  <2> HIDE DEF l
  <2> QED BY <2>1 DEF Serves, l
<1>3. s \in Sockets \cup {TCP_INVALID_SOCKET}
  BY <1>1, Frees DEF Served
<1>4. v = [o EXCEPT !.http[h].socket = s,
                    !.http[h].sm = IF tcp_is_socket_connected(o, s) THEN "CONNECTED_TO_CLIENT" ELSE @]
  BY Zenon DEF Connect
<1>5. sm \in {"CONNECTED_TO_CLIENT", "WAITING_FOR_CONNECTION"}
  BY <1>1
<1> HIDE DEF s, o
<1>6. /\ Fields \subseteq DOMAIN v /\ v.tcp = o.tcp /\ v.rx = o.rx
      /\ v.http = [o.http EXCEPT ![h] = p]
  <2> HIDE DEF v
  <2> QED BY <1>1, <1>2, <1>4 DEF Good, Formed, Fields
<1>7. HttpFields \subseteq DOMAIN p /\ p.sm = sm /\ p.socket = s
      /\ p.remaining = q.remaining /\ p.sent = q.sent
  <2> HIDE DEF q, sm
  <2> QED BY <1>1 DEF Served, HttpFields
<1> HIDE DEF p, v, sm
<1>8. Served(p)
  BY <1>1, <1>3, <1>5, <1>7 DEF Served, HttpStates, ResponseStates
<1>9. Fine(o, v)
  BY <1>2, <1>6, <1>8, FineHttp
<1> QED BY <1>2, <1>9 DEF Fine, v

LEMMA FineListen ==
  ASSUME NEW w, Good(w), Serves(w), NEW h \in HttpSockets, NEW inactive, NEW text
  PROVE  Fine(w, Listen(w, h, inactive, text))
<1> DEFINE s == w.http[h].socket
           c == tcp_close_socket(w, s)
<1>1. s \in Sockets \cup {TCP_INVALID_SOCKET}
  BY DEF Serves, Served
<1>2. Fine(w, c)
  BY <1>1, Closes, GoodSingle, FineStill DEF Good
<1> HIDE DEF c
<1>3. Fine(w, State(c, h, "WAITING_FOR_CONNECTION"))
  BY <1>2, FineState, FineTrans DEF Fine, HttpStates, ResponseStates
<1>4. w.tcp.waiting => Fine(w, http_process_rx(w, h, text))
  BY ReadsRequest
<1>5. Fine(w, w)
  BY DEF Fine
<1> QED BY <1>3, <1>4, <1>5 DEF Listen, tcp_check_socket_for_rx, c

LEMMA ProcessesHttp ==
  ASSUME NEW w0, Good(w0), Serves(w0), NEW h \in HttpSockets, NEW inactive, NEW fails
  PROVE  Fine(w0, process_http(w0, h, inactive, fails))
<1> DEFINE s == w0.http[h].socket
           z == State(w0, h, "WAITING_FOR_CONNECTION")
           w == IF tcp_is_socket_connected(w0, s) THEN w0 ELSE z
           c == tcp_request_disconnect_socket(w, s)
           v == process_http(w0, h, inactive, fails)
<1>1. Served(w0.http[h])
  BY DEF Serves
<1>2. /\ Fine(w0, w) /\ w.http[h].sm \in HttpStates /\ s \in Sockets \cup {TCP_INVALID_SOCKET}
      /\ \/ w.http[h].sm = "WAITING_FOR_CONNECTION"
         \/ w.http[h].socket = s /\ s \in Sockets
  <2>1. Fine(w0, z) /\ z.http[h] = [w0.http[h] EXCEPT !.sm = "WAITING_FOR_CONNECTION"]
    BY FineState DEF HttpStates, ResponseStates
  <2>2. z.http[h].sm = "WAITING_FOR_CONNECTION"
    BY <1>1, <2>1 DEF Served, HttpFields
  <2>3. Fine(w0, w0) /\ s \in Sockets \cup {TCP_INVALID_SOCKET}
    BY <1>1 DEF Fine, Served
  <2>4. tcp_is_socket_connected(w0, s) => s \in Sockets
    BY <2>3, ConnectedValid
  <2> HIDE DEF z
  <2> QED BY <1>1, <2>1, <2>2, <2>3, <2>4 DEF Served, HttpStates
<1>3. v = CASE w.http[h].sm = "WAITING_FOR_CONNECTION" -> Connect(w, h)
            [] w.http[h].sm = "CONNECTED_TO_CLIENT" -> Listen(w, h, inactive, w.rx.data)
            [] w.http[h].sm \in ResponseStates \cup ErrorStates -> Responding(w, h, fails)
            [] w.http[h].sm = "CLOSE_CONNECTION" -> State(c, h, "WAITING_FOR_CONNECTION")
  BY Zenon DEF process_http
<1> HIDE DEF w, v, z
<1>4. Good(w) /\ Serves(w)
  BY <1>2 DEF Fine
<1>5. CASE w.http[h].sm = "WAITING_FOR_CONNECTION"
  <2>1. v = Connect(w, h)
    BY <1>3, <1>5 DEF ResponseStates, ErrorStates
  <2> QED BY <1>2, <1>4, <1>5, <2>1, FineConnect, FineTrans DEF v
<1>6. CASE w.http[h].sm = "CONNECTED_TO_CLIENT"
  <2>1. v = Listen(w, h, inactive, w.rx.data)
    BY <1>3, <1>6 DEF ResponseStates, ErrorStates
  <2> QED BY <1>2, <1>4, <2>1, FineListen, FineTrans DEF v
<1>7. CASE w.http[h].sm \in ResponseStates \cup ErrorStates
  <2>1. v = Responding(w, h, fails) /\ w.http[h].socket \in Sockets
    BY <1>2, <1>3, <1>7 DEF ResponseStates, ErrorStates
  <2> QED BY <1>2, <1>4, <1>7, <2>1, RespondsHttp, FineTrans DEF v
<1>8. CASE w.http[h].sm = "CLOSE_CONNECTION"
  <2>1. v = State(c, h, "WAITING_FOR_CONNECTION")
    BY <1>3, <1>8 DEF ResponseStates, ErrorStates
  <2>2. Fine(w, c)
    BY <1>2, <1>4, Disconnects, GoodSingle, FineStill DEF Good
  <2> HIDE DEF c
  <2>3. Fine(c, State(c, h, "WAITING_FOR_CONNECTION"))
    BY <2>2, FineState DEF Fine, HttpStates, ResponseStates
  <2> QED BY <1>2, <2>1, <2>2, <2>3, FineTrans DEF v
<1> QED BY <1>2, <1>5, <1>6, <1>7, <1>8 DEF HttpStates

-----------------------------------------------------------------------------
(* The invariant of the system *)

PeerFields == {"state", "next", "expect", "pending", "owes", "ended", "opens", "requests",
               "asked", "got"}
Pendings == {{}, {"SYN"}, {"DATA"}, {"FIN"}, {"DATA", "FIN"}}

\* What is on its way from an end says so.
From(e, q)  == \E S : q \in Seq(S) /\ \A h \in S : h.end = e
Network(q)  == DOMAIN q = Ends /\ \A e \in Ends : From(e, q[e])
Peering(p)  == PeerFields \subseteq DOMAIN p /\ p.pending \in Pendings
Peers(q)    == DOMAIN q = Ends /\ \A e \in Ends : Peering(q[e])

\* An application that has opened a socket has one, and before it has, every
\* socket is the server's.
Owned(u) ==
  /\ u.socket \in Sockets \cup {TCP_INVALID_SOCKET}
  /\ u.sm \notin {"OPEN_SOCKET", "DONE"} => u.socket \in Sockets

IInv ==
  /\ Good(World(TRUE)) /\ Serves(World(TRUE))
  /\ Owned(user) /\ (user.sm = "OPEN_SOCKET" => HttpOnly(World(TRUE)))
  /\ pc = "tcp" => turn \in Sockets
  /\ Network(toUs) /\ Peers(peer)
  /\ scenario \in Scenarios

\* How ready the transmitter is makes no difference.
LEMMA Worlds ==
  ASSUME NEW ok, IInv
  PROVE  /\ Good(World(ok)) /\ Serves(World(ok))
         /\ user.sm = "OPEN_SOCKET" => HttpOnly(World(ok))
         /\ World(ok).tcp = tcp /\ World(ok).rx = rx /\ World(ok).http = http
<1> DEFINE w == World(TRUE)
           v == World(ok)
<1>1. /\ Fields \subseteq DOMAIN v /\ v.tcp = w.tcp /\ v.rx = w.rx /\ v.http = w.http
      /\ v.tcp = tcp /\ v.rx = rx /\ v.http = http
  BY DEF World, Fields
<1>2. Good(w) /\ Serves(w) /\ (user.sm = "OPEN_SOCKET" => HttpOnly(w))
  BY DEF IInv
<1> HIDE DEF w, v
<1>3. TcpFields \subseteq DOMAIN v.tcp /\ v.tcp.resp_socket \in Sockets /\ v.tcp.next_port \in Int
  BY <1>1, <1>2 DEF Good, Formed, Conn
<1>4. Good(v) /\ (HttpOnly(w) => HttpOnly(v))
  BY <1>1, <1>2, <1>3, GoodAside
<1> QED BY <1>1, <1>2, <1>4 DEF Serves, v

\* Where a call lands, it lands well.
LEMMA Lands ==
  ASSUME NEW w, NEW v, Fine(w, v), Becomes(v)
  PROVE  /\ Good(World(TRUE)') /\ Serves(World(TRUE)')
         /\ HttpOnly(w) => HttpOnly(World(TRUE)')
<1> DEFINE u == World(TRUE)'
<1>1. /\ Fields \subseteq DOMAIN u /\ u.tcp = v.tcp /\ u.rx = v.rx /\ u.http = v.http
  BY DEF World, Fields, Becomes
<1>2. Good(v) /\ Serves(v) /\ (HttpOnly(w) => HttpOnly(v))
  BY DEF Fine
<1> HIDE DEF u
<1>3. TcpFields \subseteq DOMAIN u.tcp /\ u.tcp.resp_socket \in Sockets /\ u.tcp.next_port \in Int
  BY <1>1, <1>2 DEF Good, Formed, Conn
<1>4. Good(u) /\ (HttpOnly(v) => HttpOnly(u))
  BY <1>1, <1>2, <1>3, GoodAside
<1>5. Good(u) /\ Serves(u) /\ (HttpOnly(w) => HttpOnly(u))
  BY <1>1, <1>2, <1>4 DEF Serves
<1> QED BY <1>5 DEF u

LEMMA Sweeps ==
  ASSUME NEW t, Sweep(t)
  PROVE  pc' = "tcp" => turn' \in Sockets
<1> DEFINE due == {s \in Sockets : s >= t /\ ~Idle(tcp'.socket[s])}
<1>1. due # {} => Lowest(due) \in due
  <2>1. due \subseteq Nat
    BY Numbers
  <2> HIDE DEF due
  <2> QED BY <2>1, LowestIn
<1>2. pc' = "tcp" => due # {} /\ turn' = Lowest(due)
  BY DEF Sweep, Goto
<1>3. Lowest(due) \in due => Lowest(due) \in Sockets
  OBVIOUS
<1> HIDE DEF due
<1> QED BY <1>1, <1>2, <1>3

LEMMA Takes ==
  ASSUME NEW q, Network(q), NEW e \in Ends, q[e] # <<>>
  PROVE  Head(q[e]).end = e /\ Network([q EXCEPT ![e] = Tail(@)])
<1>1. PICK S : q[e] \in Seq(S) /\ \A h \in S : h.end = e
  BY DEF Network, From
<1>2. Head(q[e]) \in S /\ Tail(q[e]) \in Seq(S)
  BY <1>1
<1>3. From(e, Tail(q[e]))
  BY <1>1, <1>2 DEF From
<1> QED BY <1>1, <1>2, <1>3 DEF Network

LEMMA Puts ==
  ASSUME NEW q, Network(q), NEW e \in Ends, NEW h, h.end = e
  PROVE  Network([q EXCEPT ![e] = Append(@, h)])
<1>1. PICK S : q[e] \in Seq(S) /\ \A g \in S : g.end = e
  BY DEF Network, From
<1> DEFINE T == S \cup {h}
<1>2. Append(q[e], h) \in Seq(T) /\ \A g \in T : g.end = e
  <2>1. q[e] \in Seq(T) /\ h \in T
    BY <1>1
  <2>2. Append(q[e], h) \in Seq(T)
    <3> HIDE DEF T
    <3> QED BY <2>1
  <2> QED BY <1>1, <2>2
<1>3. From(e, Append(q[e], h))
  BY <1>2 DEF From
<1> QED BY <1>3 DEF Network

\* A segment that arrives while none waits.
LEMMA Arrives ==
  ASSUME NEW w, Good(w), Serves(w), ~w.tcp.waiting, NEW h
  PROVE  LET v == [w EXCEPT !.rx = h]
         IN Good(v) /\ Serves(v) /\ (HttpOnly(w) => HttpOnly(v)) /\ v.rx = h /\ v.tcp = w.tcp
<1> DEFINE v == [w EXCEPT !.rx = h]
<1>1. /\ Fields \subseteq DOMAIN v /\ v.tcp = w.tcp /\ v.http = w.http /\ v.rx = h
  BY DEF Good, Formed, Fields
<1> HIDE DEF v
<1>2. \A t : Socket(v, t) = Socket(w, t)
  BY <1>1 DEF Socket
<1>3. NoneHas(w)
  BY GoodSingle
<1>4. Formed(v) /\ Conn(v) /\ (HttpOnly(w) => HttpOnly(v))
  BY <1>1, <1>2 DEF Good, Formed, Conn, ServersUsed, HaveEnds, Apart, HttpOnly
<1>5. Ann(v)
  BY <1>1, <1>2, <1>3 DEF Ann, NoneHas, Has
<1> QED BY <1>1, <1>4, <1>5 DEF Good, Serves, v

-----------------------------------------------------------------------------
(* The steps of the device *)

LEMMA ReceiveKeeps ==
  ASSUME IInv, NEW e \in Ends, Receive(e)
  PROVE  IInv'
<1>1. PICK ok \in BOOLEAN : Becomes(tcp_process_rx([World(ok) EXCEPT !.rx = Head(toUs[e])]))
  BY DEF Receive
<1> DEFINE h == Head(toUs[e])
           w == [World(ok) EXCEPT !.rx = h]
           v == tcp_process_rx(w)
<1>2. ~tcp.waiting /\ toUs[e] # <<>> /\ toUs' = [toUs EXCEPT ![e] = Tail(@)]
      /\ Sweep(0) /\ UNCHANGED <<user, scenario, peer>>
  BY DEF Receive
<1>3. h.end = e /\ Network(toUs')
  BY <1>2, Takes DEF IInv
<1>4. Good(w) /\ Serves(w) /\ w.rx = h /\ (user.sm = "OPEN_SOCKET" => HttpOnly(w))
  BY <1>2, Worlds, Arrives
<1> HIDE DEF w, h
<1>5. Fine(w, v)
  <2>1. w.rx.end # NoEnd
    BY <1>3, <1>4, ArpAssumption
  <2>2. Kept(w, v)
    BY <1>4, <2>1, ProcessesRx
  <2> QED BY <1>4, <2>2 DEF Kept, Fine, Serves
<1> HIDE DEF v
<1>6. Becomes(v)
  BY <1>1 DEF v, w, h
<1>7. /\ Good(World(TRUE)') /\ Serves(World(TRUE)')
      /\ user.sm = "OPEN_SOCKET" => HttpOnly(World(TRUE)')
  BY <1>4, <1>5, <1>6, Lands
<1> QED BY <1>2, <1>3, <1>7, Sweeps DEF IInv

LEMMA WaitKeeps ==
  ASSUME IInv, Wait
  PROVE  IInv'
<1>1. PICK ok \in BOOLEAN : Becomes(tcp_process_rx(World(ok)))
  BY DEF Wait
<1> DEFINE w == World(ok)
           v == tcp_process_rx(w)
<1>2. tcp.waiting /\ Sweep(0) /\ UNCHANGED <<user, scenario, toUs, peer>>
  BY DEF Wait
<1>3. Good(w) /\ Serves(w) /\ w.tcp.waiting /\ (user.sm = "OPEN_SOCKET" => HttpOnly(w))
  BY <1>2, Worlds
<1> HIDE DEF w
<1>4. Fine(w, v)
  <2>1. Kept(w, v)
    BY <1>3, ProcessesRx
  <2> QED BY <1>3, <2>1 DEF Kept, Fine, Serves
<1> HIDE DEF v
<1>5. Becomes(v)
  BY <1>1 DEF v, w
<1>6. /\ Good(World(TRUE)') /\ Serves(World(TRUE)')
      /\ user.sm = "OPEN_SOCKET" => HttpOnly(World(TRUE)')
  BY <1>3, <1>4, <1>5, Lands
<1> QED BY <1>2, <1>6, Sweeps DEF IInv

\* nothing happens to the sockets
LEMMA AsideKeeps ==
  ASSUME IInv, UNCHANGED <<tcp, http, rx>>
  PROVE  /\ Good(World(TRUE)') /\ Serves(World(TRUE)')
         /\ user.sm = "OPEN_SOCKET" => HttpOnly(World(TRUE)')
<1> DEFINE w == World(TRUE)
           u == World(TRUE)'
<1>1. /\ Fields \subseteq DOMAIN u /\ u.tcp = w.tcp /\ u.rx = w.rx /\ u.http = w.http
  BY DEF World, Fields
<1>2. Good(w) /\ Serves(w) /\ (user.sm = "OPEN_SOCKET" => HttpOnly(w))
  BY DEF IInv
<1> HIDE DEF u, w
<1>3. TcpFields \subseteq DOMAIN u.tcp /\ u.tcp.resp_socket \in Sockets /\ u.tcp.next_port \in Int
  BY <1>1, <1>2 DEF Good, Formed, Conn
<1>4. Good(u) /\ (HttpOnly(w) => HttpOnly(u))
  BY <1>1, <1>2, <1>3, GoodAside
<1>5. Good(u) /\ Serves(u) /\ (user.sm = "OPEN_SOCKET" => HttpOnly(u))
  BY <1>1, <1>2, <1>4 DEF Serves
<1> QED BY <1>5 DEF u

LEMMA ReceiveArpKeeps ==
  ASSUME IInv, NEW p, ReceiveArp(p)
  PROVE  IInv'
<1>1. UNCHANGED <<tcp, http, rx, user, scenario, toUs, peer>> /\ Sweep(0)
  BY DEF ReceiveArp
<1> QED BY <1>1, AsideKeeps, Sweeps DEF IInv

LEMMA NothingReceivedKeeps ==
  ASSUME IInv, NothingReceived
  PROVE  IInv'
<1>1. UNCHANGED <<tcp, http, rx, user, scenario, toUs, peer>> /\ Sweep(0)
  BY DEF NothingReceived, network
<1> QED BY <1>1, AsideKeeps, Sweeps DEF IInv

LEMMA ProcessTcpKeeps ==
  ASSUME IInv, NEW expired, process_tcp(expired)
  PROVE  IInv'
<1>1. PICK ok \in BOOLEAN :
        LET w    == World(ok)
            stop == StopsAt(w, turn, expired)
            r    == IF stop THEN w ELSE ProcessSocket(w, turn, expired)
        IN /\ Becomes(IF stop \/ \A t \in Sockets : t > turn => Idle(r.tcp.socket[t])
                      THEN [r EXCEPT !.flags = {}] ELSE r)
           /\ IF stop THEN Goto("http", 0) ELSE Sweep(turn + 1)
  BY DEF process_tcp
<1> DEFINE w    == World(ok)
           stop == StopsAt(w, turn, expired)
           r    == IF stop THEN w ELSE ProcessSocket(w, turn, expired)
           ends == stop \/ \A t \in Sockets : t > turn => Idle(r.tcp.socket[t])
           v    == IF ends THEN [r EXCEPT !.flags = {}] ELSE r
<1>2. Becomes(v) /\ (IF stop THEN Goto("http", 0) ELSE Sweep(turn + 1))
  BY <1>1
<1>3. pc = "tcp" /\ UNCHANGED <<user, scenario, toUs, peer>>
  BY DEF process_tcp
<1>4. Good(w) /\ Serves(w) /\ (user.sm = "OPEN_SOCKET" => HttpOnly(w))
  BY Worlds
<1>5. turn \in Sockets
  BY <1>3 DEF IInv
<1>6. pc' = "tcp" => turn' \in Sockets
  <2>1. Sweep(turn + 1) => (pc' = "tcp" => turn' \in Sockets)
    BY Sweeps
  <2>2. Goto("http", 0) => pc' # "tcp"
    BY DEF Goto
  <2> HIDE DEF stop
  <2> QED BY <1>2, <2>1, <2>2
<1> HIDE DEF w, stop
<1>7. Still(w, r) /\ Formed(r)
  <2>1. Still(w, w)
    BY <1>4, CalmRefl DEF Still, Good
  <2>2. Still(w, ProcessSocket(w, turn, expired))
    BY <1>4, <1>5, Timers, GoodSingle DEF Good
  <2> QED BY <2>1, <2>2, CalmFormed DEF Still
<1> HIDE DEF r, ends
<1>8. Still(w, v)
  BY <1>7, FlagsAside, StillTrans
<1> HIDE DEF v
<1>9. Fine(w, v)
  BY <1>4, <1>8, FineStill
<1>10. /\ Good(World(TRUE)') /\ Serves(World(TRUE)')
       /\ user.sm = "OPEN_SOCKET" => HttpOnly(World(TRUE)')
  BY <1>2, <1>4, <1>9, Lands
<1> QED BY <1>3, <1>6, <1>10 DEF IInv

LEMMA ProcessHttpKeeps ==
  ASSUME IInv, ProcessHttp
  PROVE  IInv'
<1>1. PICK ok \in BOOLEAN, inactive \in BOOLEAN, fails \in BOOLEAN :
        Becomes(process_http(World(ok), turn, inactive, fails))
  BY DEF ProcessHttp
<1> DEFINE w == World(ok)
           v == process_http(w, turn, inactive, fails)
<1>2. turn \in HttpSockets /\ UNCHANGED <<user, scenario, toUs, peer>> /\ pc' # "tcp"
  BY DEF ProcessHttp, Goto
<1>3. Good(w) /\ Serves(w) /\ (user.sm = "OPEN_SOCKET" => HttpOnly(w))
  BY Worlds
<1> HIDE DEF w
<1>4. Fine(w, v)
  BY <1>2, <1>3, ProcessesHttp
<1> HIDE DEF v
<1>5. Becomes(v)
  BY <1>1 DEF v, w
<1>6. /\ Good(World(TRUE)') /\ Serves(World(TRUE)')
      /\ user.sm = "OPEN_SOCKET" => HttpOnly(World(TRUE)')
  BY <1>3, <1>4, <1>5, Lands
<1> QED BY <1>2, <1>6 DEF IInv

-----------------------------------------------------------------------------
(* The steps of the application *)

LEMMA UserCallKeeps ==
  ASSUME IInv, NEW w, Good(w), Serves(w), NEW v, Fine(w, v),
         NEW sm, NEW socket, UserCalls(v, sm, socket),
         socket \in Sockets \cup {TCP_INVALID_SOCKET},
         sm \notin {"OPEN_SOCKET", "DONE"} => socket \in Sockets,
         sm = "OPEN_SOCKET" => HttpOnly(v)
  PROVE  IInv'
<1>1. /\ pc' = "rx" /\ Becomes(v) /\ user' = [sm |-> sm, socket |-> socket]
      /\ UNCHANGED <<scenario, toUs, peer>>
  BY DEF UserCalls, Goto
<1>2. Fine(v, v)
  BY DEF Fine
<1>3. /\ Good(World(TRUE)') /\ Serves(World(TRUE)')
      /\ HttpOnly(v) => HttpOnly(World(TRUE)')
  BY <1>1, <1>2, Lands
<1>4. Owned(user') /\ (user'.sm = "OPEN_SOCKET" => HttpOnly(v))
  BY <1>1 DEF Owned
<1> QED BY <1>1, <1>3, <1>4 DEF IInv

LEMMA UserConnectsKeeps ==
  ASSUME IInv, NEW e \in Ends, UserConnects(e)
  PROVE  IInv'
<1>1. PICK ok \in BOOLEAN :
        LET s == FreeSocket(World(ok))
        IN UserCalls(tcp_connect_socket(World(ok), e, scenario.knows),
                     IF s = TCP_INVALID_SOCKET THEN "OPEN_SOCKET" ELSE "WAIT_FOR_CONNECTION", s)
  BY DEF UserConnects
<1> DEFINE w == World(ok)
           s == FreeSocket(w)
           v == tcp_connect_socket(w, e, scenario.knows)
           sm == IF s = TCP_INVALID_SOCKET THEN "OPEN_SOCKET" ELSE "WAIT_FOR_CONNECTION"
<1>2. UserCalls(v, sm, s)
  BY <1>1
<1>3. user.sm = "OPEN_SOCKET"
  BY DEF UserConnects
<1>4. Good(w) /\ Serves(w) /\ HttpOnly(w)
  BY <1>3, Worlds
<1> HIDE DEF w
<1>5. Good(v) /\ v.http = w.http /\ (s = TCP_INVALID_SOCKET => v = w)
  BY <1>4, Connects
<1>6. s \in Sockets \cup {TCP_INVALID_SOCKET} /\ (s # TCP_INVALID_SOCKET => s \in Sockets)
  BY Frees
<1> HIDE DEF v, s
<1>7. Fine(v, v)
  BY <1>4, <1>5 DEF Fine, Serves
<1>8. sm = "OPEN_SOCKET" => HttpOnly(v)
  BY <1>4, <1>5
<1>9. sm \notin {"OPEN_SOCKET", "DONE"} => s \in Sockets
  BY <1>6
<1> HIDE DEF sm
<1> QED BY <1>2, <1>6, <1>7, <1>8, <1>9, UserCallKeeps DEF Fine

LEMMA UserGivesUpKeeps ==
  ASSUME IInv, UserGivesUp
  PROVE  IInv'
<1> DEFINE w == World(TRUE)
           v == tcp_close_socket(w, user.socket)
<1>1. UserCalls(v, "DONE", TCP_INVALID_SOCKET)
  BY DEF UserGivesUp
<1>2. Good(w) /\ Serves(w) /\ user.socket \in Sockets \cup {TCP_INVALID_SOCKET}
  BY DEF IInv, Owned
<1> HIDE DEF w
<1>3. Fine(w, v)
  BY <1>2, Closes, GoodSingle, FineStill DEF Good
<1> HIDE DEF v
<1> QED BY <1>1, <1>2, <1>3, UserCallKeeps

LEMMA UserWaitsKeeps ==
  ASSUME IInv, UserWaits
  PROVE  IInv'
<1> DEFINE w == World(TRUE)
           s == user.socket
           r == IF tcp_check_socket_for_rx(w, s) THEN tcp_dump_rx_packet(w) ELSE w
           next == CASE ~tcp_is_socket_connected(w, s) -> "WAIT_FOR_DISCONNECT"
                     [] tcp_is_socket_connected(w, s)
                        /\ tcp_does_socket_require_resend_of_last_packet(w, s) -> "TX_PACKET"
                     [] tcp_is_socket_connected(w, s)
                        /\ ~tcp_does_socket_require_resend_of_last_packet(w, s) ->
                          IF tcp_check_socket_for_rx(w, s) THEN "REQUEST_DISCONNECT" ELSE user.sm
<1>1. Good(w) /\ Serves(w) /\ Fine(w, w) /\ Owned(user)
  BY DEF IInv, Fine
<1>2. Fine(w, r)
  <2> HIDE DEF w
  <2>1. tcp_check_socket_for_rx(w, s) => Fine(w, tcp_dump_rx_packet(w))
    <3> HAVE tcp_check_socket_for_rx(w, s)
    <3>1. w.tcp.active \in Sockets /\ OnlyHas(w, w.tcp.active) /\ Formed(w)
      BY <1>1, GoodSingle DEF Good, tcp_check_socket_for_rx
    <3> QED BY <1>1, <3>1, Reads, FineStill
  <2> QED BY <1>1, <2>1
<1>3. CASE user.sm = "WAIT_FOR_CONNECTION"
           /\ UserCalls(w, IF tcp_is_socket_connected(w, s) THEN "TX_PACKET" ELSE user.sm, s)
  <2> HIDE DEF w
  <2> QED BY <1>1, <1>3, UserCallKeeps DEF Owned
<1>4. CASE user.sm = "WAIT_FOR_RESPONSE" /\ UserCalls(r, next, s)
  <2>1. next \in {"WAIT_FOR_DISCONNECT", "TX_PACKET", "REQUEST_DISCONNECT", "WAIT_FOR_RESPONSE"}
    <3> HIDE DEF w, s
    <3> QED BY <1>4
  <2> HIDE DEF w, r, next
  <2> QED BY <1>1, <1>2, <1>4, <2>1, UserCallKeeps DEF Owned
<1>5. CASE user.sm = "WAIT_FOR_DISCONNECT"
           /\ (UserCalls(w, "DONE", TCP_INVALID_SOCKET) \/ UserCalls(w, user.sm, s))
  <2> HIDE DEF w
  <2> QED BY <1>1, <1>5, UserCallKeeps DEF Owned
<1>6. CASE user.sm = "DONE" /\ UserCalls(w, "DONE", s)
  <2> HIDE DEF w
  <2> QED BY <1>1, <1>6, UserCallKeeps DEF Owned
<1>7. \/ user.sm = "WAIT_FOR_CONNECTION"
         /\ UserCalls(w, IF tcp_is_socket_connected(w, s) THEN "TX_PACKET" ELSE user.sm, s)
      \/ user.sm = "WAIT_FOR_RESPONSE" /\ UserCalls(r, next, s)
      \/ user.sm = "WAIT_FOR_DISCONNECT"
         /\ (UserCalls(w, "DONE", TCP_INVALID_SOCKET) \/ UserCalls(w, user.sm, s))
      \/ user.sm = "DONE" /\ UserCalls(w, "DONE", s)
  BY Zenon DEF UserWaits
<1> QED BY <1>3, <1>4, <1>5, <1>6, <1>7

LEMMA UserSendsKeeps ==
  ASSUME IInv, UserSends
  PROVE  IInv'
<1>1. PICK ok \in BOOLEAN :
        LET w == World(ok)
        IN IF tcp_is_socket_ready_to_tx_new_packet(w, user.socket)
           THEN UserCalls(SendData(w, user.socket, "hello"), "WAIT_FOR_RESPONSE", user.socket)
           ELSE UserCalls(w, IF tcp_is_socket_connected(w, user.socket) THEN user.sm
                             ELSE "WAIT_FOR_DISCONNECT", user.socket)
  BY DEF UserSends
<1> DEFINE w == World(ok)
           v == SendData(w, user.socket, "hello")
<1>2. Good(w) /\ Serves(w) /\ user.sm = "TX_PACKET" /\ user.socket \in Sockets
  BY Worlds DEF UserSends, IInv, Owned
<1>3. \/ UserCalls(v, "WAIT_FOR_RESPONSE", user.socket)
      \/ \E sm \in {"TX_PACKET", "WAIT_FOR_DISCONNECT"} : UserCalls(w, sm, user.socket)
  BY <1>1, <1>2
<1> HIDE DEF w
<1>4. Fine(w, v) /\ Fine(w, w)
  BY <1>2, Sending, FineStill DEF Good, Fine
<1> HIDE DEF v
<1>5. CASE UserCalls(v, "WAIT_FOR_RESPONSE", user.socket)
  BY <1>2, <1>4, <1>5, UserCallKeeps
<1>6. ASSUME NEW sm \in {"TX_PACKET", "WAIT_FOR_DISCONNECT"}, UserCalls(w, sm, user.socket)
      PROVE  IInv'
  BY <1>2, <1>4, <1>6, UserCallKeeps
<1> QED BY <1>3, <1>5, <1>6

LEMMA UserDisconnectsKeeps ==
  ASSUME IInv, UserDisconnects
  PROVE  IInv'
<1>1. PICK ok \in BOOLEAN :
        UserCalls(tcp_request_disconnect_socket(World(ok), user.socket), "WAIT_FOR_DISCONNECT", user.socket)
  BY DEF UserDisconnects
<1> DEFINE w == World(ok)
           v == tcp_request_disconnect_socket(w, user.socket)
<1>2. UserCalls(v, "WAIT_FOR_DISCONNECT", user.socket)
  BY <1>1
<1>3. Good(w) /\ Serves(w) /\ user.socket \in Sockets
  BY Worlds DEF UserDisconnects, IInv, Owned
<1> HIDE DEF w
<1>4. Fine(w, v)
  BY <1>3, Disconnects, GoodSingle, FineStill DEF Good
<1> HIDE DEF v
<1> QED BY <1>2, <1>3, <1>4, UserCallKeeps

-----------------------------------------------------------------------------
(* The steps of the remote ends *)

LEMMA PeerSide ==
  ASSUME IInv, UNCHANGED <<device, scenario>>, Network(toUs'), Peers(peer')
  PROVE  IInv'
<1>1. UNCHANGED <<tcp, http, rx, user, pc, turn, scenario>>
  BY DEF device
<1> QED BY <1>1, AsideKeeps DEF IInv

LEMMA PeerChanges ==
  ASSUME Peers(peer), NEW e \in Ends, NEW p, Peering(p), PeerBecomes(e, p)
  PROVE  Peers(peer')
BY DEF Peers, PeerBecomes

LEMMA PeerSegments ==
  ASSUME Network(toUs), NEW e \in Ends, NEW h, h.end = e, PeerSends(e, h)
  PROVE  Network(toUs')
BY Puts DEF PeerSends

LEMMA Ended == ASSUME NEW e, NEW p, NEW s, NEW a, NEW f, NEW d PROVE Segment(e, p, s, a, f, d).end = e
BY DEF Segment

LEMMA Pended ==
  ASSUME NEW e, NEW p, Peering(p), p.pending # {}, NEW seq
  PROVE  Pending(e, p, seq).end = e
<1> DEFINE A == Segment(e, PeerPort(e), seq, 0, {"SYN"}, NoData)
           B == Segment(e, PeerPort(e), seq, p.expect, {"SYN", "ACK"}, NoData)
           C == Segment(e, PeerPort(e), seq, p.expect, {"ACK"} \cup (p.pending \ {"DATA"}),
                        IF scenario.role = "client" THEN Last(p.asked) ELSE "welcome")
           D == Segment(e, PeerPort(e), seq, p.expect, {"FIN", "ACK"}, NoData)
<1>1. A.end = e /\ B.end = e /\ C.end = e /\ D.end = e
  BY Ended
<1>2. Pending(e, p, seq) =
        CASE p.pending = {"SYN"} /\ p.state = "syn_sent" -> A
          [] p.pending = {"SYN"} /\ p.state # "syn_sent" -> B
          [] "DATA" \in p.pending -> C
          [] p.pending = {"FIN"} -> D
  BY Zenon DEF Pending
<1> HIDE DEF A, B, C, D
<1>3. p.pending = {"SYN"} \/ "DATA" \in p.pending \/ p.pending = {"FIN"}
  BY DEF Peering, Pendings
<1> QED BY <1>1, <1>2, <1>3

LEMMA PeerStartsKeeps ==
  ASSUME IInv, NEW e \in Ends, NEW p, Peering(p), p.pending # {}, PeerStarts(e, p)
  PROVE  IInv'
<1>1. /\ PeerBecomes(e, [p EXCEPT !.next = Plus(@, Cardinality(p.pending)), !.owes = FALSE])
      /\ PeerSends(e, Pending(e, p, p.next)) /\ UNCHANGED <<device, scenario>>
  BY DEF PeerStarts
<1>2. Peering([p EXCEPT !.next = Plus(@, Cardinality(p.pending)), !.owes = FALSE])
  <2> DEFINE n == Plus(p.next, Cardinality(p.pending))
  <2>1. Peering([p EXCEPT !.next = n, !.owes = FALSE])
    <3> HIDE DEF n
    <3> QED BY DEF Peering, PeerFields
  <2> QED BY <2>1
<1>3. Peers(peer')
  BY <1>1, <1>2, PeerChanges DEF IInv
<1>4. Network(toUs')
  BY <1>1, Pended, PeerSegments DEF IInv
<1> QED BY <1>1, <1>3, <1>4, PeerSide

LEMMA PeerOpensKeeps ==
  ASSUME IInv, NEW e \in Ends, PeerOpens(e)
  PROVE  IInv'
<1> DEFINE p == peer[e]
           n == p.opens + 1
           q == [p EXCEPT !.state = "syn_sent", !.pending = {"SYN"}, !.opens = n,
                          !.ended = FALSE, !.requests = 0, !.asked = <<>>, !.got = <<>>]
<1>1. Peering(p)
  BY DEF IInv, Peers
<1>2. Peering(q) /\ q.pending # {}
  <2> HIDE DEF p, n
  <2> QED BY <1>1 DEF Peering, PeerFields, Pendings
<1>3. PeerStarts(e, q)
  BY DEF PeerOpens
<1> HIDE DEF q
<1> QED BY <1>2, <1>3, PeerStartsKeeps

LEMMA PeerAsksKeeps ==
  ASSUME IInv, NEW e \in Ends, PeerAsks(e)
  PROVE  IInv'
<1> DEFINE p == peer[e]
           n == p.requests + 1
           pending == IF scenario.hurried THEN {"DATA", "FIN"} ELSE {"DATA"}
           state == IF scenario.hurried THEN "fin_sent" ELSE p.state
           asked(text) == IF scenario.role = "client" THEN Append(p.asked, text) ELSE p.asked
           q(text) == [p EXCEPT !.pending = pending, !.state = state, !.requests = n,
                                !.asked = asked(text)]
<1>1. Peering(p)
  BY DEF IInv, Peers
<1>2. PICK text \in (IF scenario.role = "client" THEN scenario.asks ELSE {"welcome"}) :
        PeerStarts(e, [p EXCEPT !.pending = IF scenario.hurried THEN {"DATA", "FIN"} ELSE {"DATA"},
                                !.state = IF scenario.hurried THEN "fin_sent" ELSE @,
                                !.requests = @ + 1,
                                !.asked = IF scenario.role = "client" THEN Append(@, text) ELSE @])
  BY DEF PeerAsks
<1>3. PeerStarts(e, q(text))
  BY <1>2
<1>4. pending \in Pendings /\ pending # {}
  BY DEF Pendings
<1>5. Peering(q(text)) /\ q(text).pending # {}
  <2> DEFINE a == asked(text)
             b == [p EXCEPT !.pending = pending, !.state = state, !.requests = n, !.asked = a]
  <2>1. Peering(b) /\ b.pending # {}
    <3> HIDE DEF p, n, pending, state, a
    <3> QED BY <1>1, <1>4 DEF Peering, PeerFields
  <2> QED BY <2>1
<1> HIDE DEF q
<1> QED BY <1>3, <1>5, PeerStartsKeeps

LEMMA PeerClosesKeeps ==
  ASSUME IInv, NEW e \in Ends, PeerCloses(e)
  PROVE  IInv'
<1> DEFINE p == peer[e]
           q == [p EXCEPT !.state = "fin_sent", !.pending = {"FIN"}]
<1>1. Peering(p)
  BY DEF IInv, Peers
<1>2. Peering(q) /\ q.pending # {}
  <2> HIDE DEF p
  <2> QED BY <1>1 DEF Peering, PeerFields, Pendings
<1>3. PeerStarts(e, q)
  BY DEF PeerCloses
<1> HIDE DEF q
<1> QED BY <1>2, <1>3, PeerStartsKeeps

LEMMA PeerRepeatsKeeps ==
  ASSUME IInv, NEW e \in Ends, PeerRepeats(e)
  PROVE  IInv'
<1> DEFINE seq == Minus(peer[e].next, Cardinality(peer[e].pending))
<1>1. /\ peer[e].pending # {} /\ PeerSends(e, Pending(e, peer[e], seq))
      /\ UNCHANGED <<device, scenario, peer>>
  BY DEF PeerRepeats
<1> HIDE DEF seq
<1>2. Peering(peer[e])
  BY DEF IInv, Peers
<1>3. Network(toUs')
  BY <1>1, <1>2, Pended, PeerSegments DEF IInv
<1> QED BY <1>1, <1>3, PeerSide DEF IInv

LEMMA PeerGivesUpKeeps ==
  ASSUME IInv, NEW e \in Ends, PeerGivesUp(e)
  PROVE  IInv'
<1> DEFINE p == peer[e]
           q == [p EXCEPT !.state = "closed", !.pending = {}, !.owes = FALSE]
<1>1. Peering(p)
  BY DEF IInv, Peers
<1>2. Peering(q)
  <2> HIDE DEF p
  <2> QED BY <1>1 DEF Peering, PeerFields, Pendings
<1>3. PeerBecomes(e, q) /\ UNCHANGED <<device, scenario, toUs>>
  BY DEF PeerGivesUp, network
<1> HIDE DEF q
<1>4. Peers(peer')
  BY <1>2, <1>3, PeerChanges DEF IInv
<1> QED BY <1>3, <1>4, PeerSide DEF IInv

LEMMA PeerAcksKeeps ==
  ASSUME IInv, NEW e \in Ends, PeerAcks(e)
  PROVE  IInv'
<1> DEFINE p == peer[e]
           q == [p EXCEPT !.owes = FALSE]
<1>1. Peering(p)
  BY DEF IInv, Peers
<1>2. Peering(q)
  <2> HIDE DEF p
  <2> QED BY <1>1 DEF Peering, PeerFields
<1>3. /\ PeerBecomes(e, q) /\ PeerSends(e, PeerSegment(e, p.next, {"ACK"}, NoData))
      /\ UNCHANGED <<device, scenario>>
  BY DEF PeerAcks
<1> HIDE DEF q, p
<1>4. Peers(peer')
  BY <1>2, <1>3, PeerChanges DEF IInv
<1>5. Network(toUs')
  BY <1>3, Ended, PeerSegments DEF IInv, PeerSegment
<1> QED BY <1>3, <1>4, <1>5, PeerSide

LEMMA Accepted ==
  ASSUME NEW p, Peering(p), NEW h
  PROVE  Peering(Accepts(p, h).to) /\ Peering([Accepts(p, h).to EXCEPT !.owes = FALSE])
         /\ Peering([Accepts(p, h).to EXCEPT !.owes = TRUE])
<1> DEFINE opened == IF p.state = "syn_received" THEN "open" ELSE p.state
           x == [p EXCEPT !.pending = {}, !.state = opened]
           a == IF "ACK" \in h.flags /\ h.ack = p.next /\ p.pending # {} THEN x ELSE p
           inseq == h.seq = p.expect /\ "SYN" \notin h.flags
           n == Length(h) + (IF "FIN" \in h.flags THEN 1 ELSE 0)
           expect == Plus(a.expect, n)
           ended == a.ended \/ "FIN" \in h.flags
           got == IF Length(h) > 0 THEN Append(a.got, h.data) ELSE a.got
           y == [a EXCEPT !.expect = expect, !.ended = ended, !.got = got]
           b == IF ~inseq THEN a ELSE y
           z == [b EXCEPT !.state = "closed"]
<1>1. Peering(x)
  <2> HIDE DEF opened
  <2> QED BY DEF Peering, PeerFields, Pendings
<1>2. Peering(a)
  <2> HIDE DEF x
  <2> QED BY <1>1
<1>3. Peering(y)
  <2> HIDE DEF a, expect, ended, got
  <2> QED BY <1>2 DEF Peering, PeerFields
<1>4. Peering(b)
  <2> HIDE DEF a, y, inseq
  <2> QED BY <1>2, <1>3
<1>5. Peering(z)
  <2> HIDE DEF b
  <2> QED BY <1>4 DEF Peering, PeerFields
<1>6. Accepts(p, h).to \in {p, z, b}
  BY DEF Accepts
<1> HIDE DEF z, b
<1>7. Peering(Accepts(p, h).to)
  BY <1>4, <1>5, <1>6
<1> QED BY <1>7 DEF Peering, PeerFields

LEMMA PeerReceivesKeeps ==
  ASSUME IInv, NEW e \in Ends, PeerReceives(e)
  PROVE  IInv'
<1> DEFINE p == peer[e]
           h == Head(toPeer[e])
           r == Accepts(p, h)
           k0 == [p EXCEPT !.state = "closed", !.pending = {}, !.owes = FALSE]
           opens == p.opens + 1
           expect == Plus(h.seq, 1)
           next == Plus(p.next, 1)
           k1 == [p EXCEPT !.state = "syn_received", !.pending = {"SYN"},
                           !.opens = opens, !.expect = expect, !.next = next]
           k2 == [p EXCEPT !.state = "open", !.pending = {}, !.expect = expect]
           k3 == [r.to EXCEPT !.owes = FALSE]
           k4 == [r.to EXCEPT !.owes = TRUE]
           Sent(g) == PeerSends(e, g) /\ g.end = e
<1>1. UNCHANGED <<device, scenario>>
  BY DEF PeerReceives
<1>2. Peering(p) /\ Network(toUs) /\ Peers(peer)
  BY DEF IInv, Peers
<1>3. Peering(k0) /\ Peering(k1) /\ k1.pending # {} /\ Peering(k2)
  <2> HIDE DEF p, opens, expect, next
  <2> QED BY <1>2 DEF Peering, PeerFields, Pendings
<1>4. Peering(r.to) /\ Peering(k3) /\ Peering(k4)
  <2> HIDE DEF p, h
  <2> QED BY <1>2, Accepted
<1>5. /\ \A port, a : Segment(e, port, a, 0, {"RST"}, NoData).end = e
      /\ \A port, a, b : Segment(e, port, a, b, {"ACK"}, NoData).end = e
      /\ Pending(e, k1, p.next).end = e
  <2>1. Pending(e, k1, p.next).end = e
    <3> HIDE DEF k1, p
    <3> QED BY <1>3, Pended
  <2> HIDE DEF k1, p
  <2> QED BY <2>1, Ended
<1>6. /\ UNCHANGED toUs \/ \E g : Sent(g)
      /\ UNCHANGED peer \/ \E k : Peering(k) /\ PeerBecomes(e, k)
  <2> DEFINE Refuse == PeerSends(e, Segment(e, h.port, h.ack, 0, {"RST"}, NoData)) /\ UNCHANGED peer
             Ignore == UNCHANGED <<toUs, peer>>
             Ack(k) == PeerSends(e, Segment(e, h.port, k.next, k.expect, {"ACK"}, NoData))
  <2>1. CASE "RST" \in h.flags
    <3>1. PeerBecomes(e, k0) /\ UNCHANGED toUs
      BY <2>1 DEF PeerReceives
    <3> HIDE DEF k0
    <3> QED BY <1>3, <3>1
  <2>2. CASE "RST" \notin h.flags /\ p.state = "closed"
    <3>1. Refuse \/ (PeerBecomes(e, k1) /\ PeerSends(e, Pending(e, k1, p.next)))
      BY <2>2 DEF PeerReceives
    <3> HIDE DEF k1, p, h
    <3> QED BY <1>3, <1>5, <3>1
  <2>3. CASE "RST" \notin h.flags /\ p.state = "syn_sent"
    <3>1. Refuse \/ Ignore \/ (PeerBecomes(e, k2) /\ Ack(k2))
      BY <2>3 DEF PeerReceives
    <3> HIDE DEF k2, p, h
    <3> QED BY <1>3, <1>5, <3>1
  <2>4. CASE "RST" \notin h.flags /\ p.state \notin {"closed", "syn_sent"}
    <3>1. \/ PeerBecomes(e, r.to) /\ UNCHANGED toUs
          \/ PeerBecomes(e, k3) /\ Ack(r.to)
          \/ PeerBecomes(e, k4) /\ UNCHANGED toUs
      BY <2>4 DEF PeerReceives
    <3> HIDE DEF r, k3, k4, p, h
    <3> QED BY <1>4, <1>5, <3>1
  <2> QED BY <2>1, <2>2, <2>3, <2>4
<1> HIDE DEF Sent
<1>7. Network(toUs')
  <2>1. UNCHANGED toUs => Network(toUs')
    BY <1>2
  <2>2. ASSUME NEW g, Sent(g) PROVE Network(toUs')
    BY <1>2, <2>2, PeerSegments DEF Sent
  <2> QED BY <1>6, <2>1, <2>2
<1>8. Peers(peer')
  <2>1. UNCHANGED peer => Peers(peer')
    BY <1>2
  <2>2. ASSUME NEW k, Peering(k), PeerBecomes(e, k) PROVE Peers(peer')
    BY <1>2, <2>2, PeerChanges
  <2> QED BY <1>6, <2>1, <2>2
<1> QED BY <1>1, <1>7, <1>8, PeerSide

LEMMA PeerKeeps ==
  ASSUME IInv, NEW e \in Ends, Peer(e)
  PROVE  IInv'
<1>1. CASE PeerArp(e) \/ PeerReceivesArp(e)
  <2>1. UNCHANGED <<device, scenario, toUs, peer>>
    BY <1>1 DEF PeerArp, PeerReceivesArp
  <2> QED BY <2>1, PeerSide DEF IInv
<1> QED BY <1>1, PeerOpensKeeps, PeerAsksKeeps, PeerClosesKeeps, PeerRepeatsKeeps,
           PeerGivesUpKeeps, PeerAcksKeeps, PeerReceivesKeeps DEF Peer

LEMMA LoseKeeps ==
  ASSUME IInv, NEW e \in Ends, Lose(e)
  PROVE  IInv'
<1>1. UNCHANGED <<device, scenario, peer>>
      /\ (UNCHANGED toUs \/ (toUs[e] # <<>> /\ toUs' = [toUs EXCEPT ![e] = Tail(@)]))
  BY DEF Lose
<1>2. Network(toUs')
  BY <1>1, Takes DEF IInv
<1> QED BY <1>1, <1>2, PeerSide DEF IInv

-----------------------------------------------------------------------------
(* The theorems *)

LEMMA Begins == ASSUME Init PROVE IInv
<1> DEFINE w == World(TRUE)
<1>1. w.tcp = tcp_initialise /\ w.http = http_initialise /\ Fields \subseteq DOMAIN w
  BY DEF Init, World, Fields
<1> HIDE DEF w
<1>2. /\ TcpFields \subseteq DOMAIN w.tcp /\ DOMAIN w.tcp.socket = Sockets
      /\ w.tcp.waiting = FALSE /\ w.tcp.resp_socket = 0 /\ w.tcp.next_port = PortStart
  BY <1>1 DEF tcp_initialise, TcpFields
<1>3. ASSUME NEW s \in Sockets
      PROVE  /\ Sock(Socket(w, s)) /\ Socket(w, s).state = "CLOSED"
             /\ Socket(w, s).is_server = FALSE /\ Socket(w, s).rx_data_bytes_remaining = 0
  BY <1>1 DEF tcp_initialise, Socket, Sock, SocketFields, States
<1>4. 0 \in Sockets /\ PortStart \in Int
  BY TcpAssumption DEF Sockets
<1>5. Formed(w)
  BY <1>1, <1>2, <1>3, <1>4 DEF Formed
<1>6. Conn(w) /\ HttpOnly(w)
  BY <1>2, <1>3, <1>4 DEF Conn, ServersUsed, HaveEnds, Apart, Used, Open, HttpOnly
<1>7. Ann(w)
  BY <1>2, <1>3 DEF Ann, Has
<1>8. Serves(w)
  <2> DEFINE p == [sm |-> "WAITING_FOR_CONNECTION", socket |-> TCP_INVALID_SOCKET,
                   file |-> "", remaining |-> 0, sent |-> 0]
  <2>1. Served(p)
    BY DEF Served, HttpFields, HttpStates, ResponseStates
  <2>2. http_initialise = [h \in HttpSockets |-> p]
    BY DEF http_initialise
  <2> HIDE DEF p
  <2> QED BY <1>1, <2>1, <2>2 DEF Serves
<1>9. Owned(user) /\ pc # "tcp" /\ scenario \in Scenarios
  BY DEF Init, Owned
<1>10. Network(toUs)
  <2>1. toUs = [e \in Ends |-> <<>>]
    BY DEF Init
  <2>2. \A e : From(e, <<>>)
    <3> TAKE e
    <3> DEFINE S == {}
    <3>1. <<>> \in Seq(S) /\ \A h \in S : h.end = e
      OBVIOUS
    <3> HIDE DEF S
    <3> QED BY <3>1 DEF From
  <2> QED BY <2>1, <2>2 DEF Network
<1>11. Peers(peer)
  BY DEF Init, Peers, Peering, PeerFields, Pendings
<1> QED BY <1>5, <1>6, <1>7, <1>8, <1>9, <1>10, <1>11 DEF IInv, Good, w

LEMMA UserKeeps ==
  ASSUME IInv, User
  PROVE  IInv'
<1>1. scenario.ends \subseteq Ends
  BY TcpStackAssumption DEF IInv, ScenarioType
<1> QED BY <1>1, UserGivesUpKeeps, UserWaitsKeeps, UserSendsKeeps, UserDisconnectsKeeps,
           UserConnectsKeeps DEF User

LEMMA StepKeeps == ASSUME IInv, [Next]_vars PROVE IInv'
<1>1. scenario.ends \subseteq Ends
  BY TcpStackAssumption DEF IInv, ScenarioType
<1>2. CASE Device
  <2>1. CASE InTime \/ Expires
    BY <2>1, ProcessTcpKeeps DEF InTime, Expires
  <2> QED BY <1>2, <2>1, ReceiveKeeps, ReceiveArpKeeps, WaitKeeps, NothingReceivedKeeps,
             ProcessHttpKeeps, UserKeeps DEF Device
<1>3. CASE \E e \in scenario.ends : Peer(e) \/ Lose(e)
  BY <1>1, <1>3, PeerKeeps, LoseKeeps
<1>4. CASE UNCHANGED vars
  <2>1. UNCHANGED <<device, scenario, toUs, peer>>
    BY <1>4 DEF vars, network
  <2> QED BY <2>1, PeerSide DEF IInv
<1> QED BY <1>2, <1>3, <1>4 DEF Next

\* The inductive invariant: the sockets are good (formed, apart, and their bytes
\* those of the packet that waits), the HTTP server's registers are those of a
\* response there is, an application that has opened a socket has one, and the
\* segments on their way come from the end they say (eth-tcp.c, eth-http.c,
\* eth-main.c).
THEOREM Invariance == Spec => []IInv
<1> QED BY Begins, StepKeeps, PTL DEF Spec

\* A socket with bytes to read is the active one, and the packet held by the
\* network controller is the one they came in (eth-tcp.c:384-420, 808-838),
\* whatever is lost, repeated, closed or reset.
THEOREM BytesStay == Spec => []AnnouncedIntact
<1>1. ASSUME IInv PROVE AnnouncedIntact
  <2>1. World(TRUE).tcp = tcp /\ World(TRUE).rx = rx
    BY DEF World
  <2>2. Ann(World(TRUE))
    BY <1>1 DEF IInv, Good
  <2> SUFFICES ASSUME NEW s \in Sockets, tcp.socket[s].rx_data_bytes_remaining > 0
               PROVE  Announced(World(TRUE), s)
    BY <2>1 DEF AnnouncedIntact, Announced, Socket
  <2>3. Socket(World(TRUE), s) = tcp.socket[s]
    BY <2>1 DEF Socket
  <2>4. Sock(Socket(World(TRUE), s))
    BY <1>1 DEF IInv, Good, Formed
  <2>5. tcp.socket[s].rx_data_bytes_remaining # 0
    BY <2>3, <2>4 DEF Sock
  <2>6. Has(World(TRUE), s)
    BY <2>3, <2>5 DEF Has
  <2> QED BY <2>2, <2>6 DEF Ann
<1> QED BY <1>1, Invariance, PTL

\* Two sockets never serve the same connection (eth-tcp.c:962-1033): neither a
\* repeated SYN nor a port that is taken again gives an end two of them.
THEOREM OneSocket == Spec => []OneSocketPerEnd
<1>1. ASSUME IInv PROVE OneSocketPerEnd
  <2>1. World(TRUE).tcp = tcp
    BY DEF World
  <2>2. HaveEnds(World(TRUE)) /\ Apart(World(TRUE)) /\ Formed(World(TRUE))
    BY <1>1 DEF IInv, Good, Conn
  <2> SUFFICES ASSUME NEW s \in Sockets, NEW t \in Sockets, s # t,
                      tcp.socket[s].state \notin {"CLOSED", "LISTEN"},
                      tcp.socket[t].state \notin {"CLOSED", "LISTEN"}
               PROVE  <<tcp.socket[s].remote, tcp.socket[s].local_port>>
                        # <<tcp.socket[t].remote, tcp.socket[t].local_port>>
    BY DEF OneSocketPerEnd
  <2>3. tcp.socket[s].state \in Open /\ tcp.socket[t].state \in Open
    BY <2>1, <2>2 DEF Formed, Sock, Open, Socket
  <2> QED BY <2>1, <2>2, <2>3 DEF HaveEnds, Apart, Used, Open, Differ, Socket
<1> QED BY <1>1, Invariance, PTL

-----------------------------------------------------------------------------
(* Reading a request.  First, numbers *)

\* a set of numbers has a least one
LEMMA LeastOf ==
  ASSUME NEW T, T \subseteq Nat, T # {}
  PROVE  \E x \in T : \A y \in T : x <= y
<1> DEFINE R == OpToRel(<, Nat)
<1>1. PICK x \in T : \A y \in T : <<y, x>> \notin R
  <2>1. IsWellFoundedOn(R, Nat)
    BY NatLessThanWellFounded
  <2> HIDE DEF R
  <2> QED BY <2>1, WFMin
<1>2. \A a, b \in Nat : a < b => <<a, b>> \in R
  BY DEF OpToRel
<1> HIDE DEF R
<1>3. \A y \in T : y \in Nat /\ x \in Nat /\ ~(y < x)
  BY <1>1, <1>2
<1>4. \A y \in T : x <= y
  BY <1>3
<1> QED BY <1>4

LEMMA MinIs ==
  ASSUME NEW T, T \subseteq Nat, T # {}
  PROVE  Min(T) \in T /\ \A y \in T : Min(T) <= y
<1>1. \E x \in T : \A y \in T : x =< y
  BY LeastOf
<1> QED BY <1>1 DEF Min

LEMMA MaxIs ==
  ASSUME NEW n \in Nat, NEW T, T \subseteq 0..n, T # {}
  PROVE  Max(T) \in T /\ \A y \in T : Max(T) >= y
<1> DEFINE U == {n - i : i \in T}
<1>1. U \subseteq Nat /\ U # {}
  <2>1. \A i \in T : n - i \in Nat
    OBVIOUS
  <2> QED BY <2>1
<1>2. PICK x \in U : \A y \in U : x <= y
  <2> HIDE DEF U
  <2> QED BY <1>1, LeastOf
<1>3. PICK i \in T : x = n - i
  OBVIOUS
<1>4. \A j \in T : n - j \in U
  OBVIOUS
<1>5. \A j \in T : i >= j
  <2> SUFFICES ASSUME NEW j \in T PROVE i >= j
    OBVIOUS
  <2>1. x <= n - j
    BY <1>2, <1>4
  <2>2. i \in 0..n /\ j \in 0..n
    OBVIOUS
  <2> HIDE DEF U
  <2> QED BY <1>3, <2>1, <2>2
<1>6. \E a \in T : \A y \in T : a >= y
  BY <1>5
<1> QED BY <1>6 DEF Max

LEMMA MaxUnique ==
  ASSUME NEW T, T \subseteq Nat, NEW m \in T, \A y \in T : y <= m
  PROVE  Max(T) = m
<1>1. \E x \in T : \A y \in T : x >= y
  BY \A y \in T : m >= y
<1>2. Max(T) \in T /\ \A y \in T : Max(T) >= y
  BY <1>1 DEF Max
<1>3. Max(T) >= m /\ Max(T) <= m /\ Max(T) \in Nat /\ m \in Nat
  BY <1>2
<1> QED BY <1>3

LEMMA MinUnique ==
  ASSUME NEW T, T \subseteq Nat, NEW m \in T, \A y \in T : m <= y
  PROVE  Min(T) = m
<1>1. \E x \in T : \A y \in T : x =< y
  BY \A y \in T : m =< y
<1>2. Min(T) \in T /\ \A y \in T : Min(T) =< y
  BY <1>1 DEF Min
<1>3. Min(T) =< m /\ m =< Min(T) /\ Min(T) \in Nat /\ m \in Nat
  BY <1>2
<1> QED BY <1>3

-----------------------------------------------------------------------------
(* Sequences *)

\* what flatten in FlattenSeq computes
FlatTo(F, q, n) == \A i \in 1..n : F[i] = IF i = 1 THEN q[i] ELSE F[i - 1] \o q[i]
Flattens(F, q, S) == F \in [1..Len(q) -> Seq(S)] /\ FlatTo(F, q, Len(q))

LEMMA FlattenExists ==
  ASSUME NEW S, NEW q \in Seq(Seq(S))
  PROVE  \E F : Flattens(F, q, S)
<1> DEFINE N == Len(q)
           R == Seq(S)
           Step(F, i) == F[i] = IF i = 1 THEN q[i] ELSE F[i - 1] \o q[i]
           Right(n) == \E F \in [1..n -> R] : \A i \in 1..n : Step(F, i)
<1>1. N \in Nat /\ \A i \in 1..N : q[i] \in R
  OBVIOUS
<1>2. \A a, b \in R : a \o b \in R
  OBVIOUS
<1>3. Right(0)
  <2> DEFINE F == [i \in 1..0 |-> <<>>]
  <2>1. F \in [1..0 -> R] /\ \A i \in 1..0 : Step(F, i)
    OBVIOUS
  <2> QED BY <2>1
<1>4. ASSUME NEW n \in Nat, n + 1 <= N, Right(n) PROVE Right(n + 1)
  <2>1. PICK F \in [1..n -> R] : \A i \in 1..n : Step(F, i)
    BY <1>4
  <2> DEFINE x == IF n = 0 THEN q[n + 1] ELSE F[n] \o q[n + 1]
             G == [i \in 1..(n + 1) |-> IF i = n + 1 THEN x ELSE F[i]]
  <2>2. x \in R
    <3>1. q[n + 1] \in R
      BY <1>1, <1>4
    <3>2. n # 0 => F[n] \in R
      BY <2>1
    <3> HIDE DEF R
    <3> QED BY <3>1, <3>2, <1>2
  <2>3. G \in [1..(n + 1) -> R]
    <3> HIDE DEF x, R
    <3> QED BY <2>1, <2>2
  <2>4. ASSUME NEW i \in 1..(n + 1) PROVE Step(G, i)
    <3>1. CASE i \in 1..n
      <4>1. Step(F, i)
        BY <3>1, <2>1
      <4>2. G[i] = F[i] /\ (i # 1 => G[i - 1] = F[i - 1])
        <5> HIDE DEF x
        <5> QED BY <3>1
      <4> HIDE DEF G
      <4> QED BY <4>1, <4>2
    <3>2. CASE i = n + 1
      <4>1. G[i] = x /\ (i # 1 => G[i - 1] = F[n])
        <5> HIDE DEF x
        <5> QED BY <3>2
      <4> HIDE DEF G
      <4> QED BY <4>1, <3>2
    <3> QED BY <3>1, <3>2
  <2> QED
    <3> HIDE DEF G, Step
    <3> QED BY <2>3, <2>4
<1>5. \A n \in 0..N : Right(n)
  <2> DEFINE T == {n \in 0..N : ~Right(n)}
  <2> HIDE DEF Right
  <2> SUFFICES ASSUME T # {} PROVE FALSE
    OBVIOUS
  <2>0. T \subseteq Nat
    <3> HIDE DEF N
    <3> QED BY <1>1
  <2>1. PICK n \in T : \A m \in T : n <= m
    <3> HIDE DEF T
    <3> QED BY <2>0, LeastOf
  <2>2. n \in Nat /\ n # 0 /\ n <= N /\ ~Right(n)
    BY <1>1, <1>3
  <2>3. Right(n - 1)
    BY <1>1, <2>1, <2>2
  <2>4. Right((n - 1) + 1)
    <3>1. n - 1 \in Nat /\ (n - 1) + 1 <= N
      BY <1>1, <2>2
    <3> QED BY <2>3, <3>1, <1>4
  <2>5. (n - 1) + 1 = n
    BY <2>2
  <2> QED BY <2>2, <2>4, <2>5
<1>6. Right(N)
  <2>1. N \in 0..N
    BY <1>1
  <2> HIDE DEF Right, N
  <2> QED BY <1>5, <2>1
<1> QED BY <1>6 DEF Flattens, FlatTo

\* and it computes nothing else
LEMMA FlattenUnique ==
  ASSUME NEW q, NEW n \in Nat, NEW F, NEW G, FlatTo(F, q, n), FlatTo(G, q, n)
  PROVE  \A i \in 1..n : F[i] = G[i]
<1> DEFINE T == {i \in 1..n : F[i] # G[i]}
<1> SUFFICES ASSUME T # {} PROVE FALSE
  OBVIOUS
<1>0. T \subseteq Nat
  OBVIOUS
<1>1. PICK i \in T : \A m \in T : i <= m
  <2> HIDE DEF T
  <2> QED BY <1>0, LeastOf
<1>2. i \in 1..n /\ F[i] # G[i]
  OBVIOUS
<1>3. i # 1
  BY <1>2 DEF FlatTo
<1>4. i - 1 \in 1..n /\ i - 1 \notin T
  BY <1>1, <1>2, <1>3
<1>5. F[i - 1] = G[i - 1]
  BY <1>4
<1> QED BY <1>2, <1>3, <1>5 DEF FlatTo

LEMMA FlattenIs ==
  ASSUME NEW S, NEW q \in Seq(Seq(S)), q # <<>>, NEW F, Flattens(F, q, S)
  PROVE  FlattenSeq(q) = F[Len(q)] /\ FlattenSeq(q) \in Seq(S)
<1> DEFINE N == Len(q)
           G == CHOOSE g : g = [i \in 1..N |-> IF i = 1 THEN q[i] ELSE g[i - 1] \o q[i]]
<1>1. N \in Nat \ {0}
  OBVIOUS
<1>2. F = [i \in 1..N |-> IF i = 1 THEN q[i] ELSE F[i - 1] \o q[i]]
  <2>1. F = [i \in 1..N |-> F[i]]
    BY DEF Flattens
  <2> QED BY <2>1 DEF Flattens, FlatTo
<1>3. G = [i \in 1..N |-> IF i = 1 THEN q[i] ELSE G[i - 1] \o q[i]]
  <2> HIDE DEF N
  <2> QED BY <1>2
<1>4. FlattenSeq(q) = G[N]
  BY <1>1 DEF FlattenSeq
<1> HIDE DEF G
<1>5. \A i \in 1..N : F[i] = G[i]
  <2>1. FlatTo(G, q, N)
    <3> HIDE DEF N
    <3> QED BY <1>3 DEF FlatTo
  <2>2. FlatTo(F, q, N)
    BY DEF Flattens
  <2> HIDE DEF N
  <2> QED BY <1>1, <2>1, <2>2, FlattenUnique
<1>6. N \in 1..N
  BY <1>1
<1> QED BY <1>4, <1>5, <1>6 DEF Flattens

LEMMA FlattenEmpty == FlattenSeq(<<>>) = <<>>
BY DEF FlattenSeq

LEMMA FlattenType ==
  ASSUME NEW S, NEW q \in Seq(Seq(S))
  PROVE  FlattenSeq(q) \in Seq(S)
<1>1. CASE q = <<>>
  <2>1. <<>> \in Seq(S)
    OBVIOUS
  <2> QED BY <1>1, <2>1, FlattenEmpty
<1>2. CASE q # <<>>
  BY <1>2, FlattenExists, FlattenIs
<1> QED BY <1>1, <1>2

\* One sequence more is appended to what the others make.
LEMMA FlattenStep ==
  ASSUME NEW S, NEW q \in Seq(Seq(S)), NEW s \in Seq(S)
  PROVE  FlattenSeq(Append(q, s)) = FlattenSeq(q) \o s
<1> DEFINE p == Append(q, s)
           n == Len(q)
<1>1. n \in Nat /\ p \in Seq(Seq(S)) /\ Len(p) = n + 1 /\ p # <<>> /\ p[n + 1] = s
      /\ \A i \in 1..n : p[i] = q[i]
  <2> DEFINE R == Seq(S)
  <2>1. q \in Seq(R) /\ s \in R
    OBVIOUS
  <2> HIDE DEF R
  <2>2. n \in Nat /\ p \in Seq(R) /\ Len(p) = n + 1 /\ p # <<>> /\ p[n + 1] = s
        /\ \A i \in 1..n : p[i] = q[i]
    BY <2>1
  <2> QED BY <2>2 DEF R
<1>2. PICK F : Flattens(F, p, S)
  BY <1>1, FlattenExists
<1> HIDE DEF p
<1>3. FlattenSeq(p) = F[n + 1]
  BY <1>1, <1>2, FlattenIs
<1> HIDE DEF n
<1>4. F[n + 1] = IF n + 1 = 1 THEN s ELSE F[n] \o s
  <2>1. n + 1 \in 1..Len(p) /\ (n + 1) - 1 = n
    BY <1>1
  <2> QED BY <1>1, <1>2, <2>1 DEF Flattens, FlatTo
<1>5. CASE n = 0
  <2>1. q = <<>> /\ <<>> \o s = s
    BY <1>5 DEF n
  <2> QED BY <1>3, <1>4, <1>5, <2>1, FlattenEmpty DEF p
<1>6. CASE n # 0
  <2>1. PICK G : Flattens(G, q, S)
    BY FlattenExists
  <2>2. FlattenSeq(q) = G[n]
    BY <1>6, <2>1, FlattenIs DEF n
  <2>3. \A i \in 1..n : F[i] = G[i]
    <3>1. FlatTo(F, q, n)
      <4>1. \A i \in 1..n : i \in 1..Len(p) /\ p[i] = q[i]
        BY <1>1
      <4> QED BY <1>2, <4>1 DEF Flattens, FlatTo
    <3>2. FlatTo(G, q, n)
      BY <2>1 DEF Flattens, n
    <3> QED BY <1>1, <3>1, <3>2, FlattenUnique
  <2>4. n \in 1..n /\ n + 1 # 1
    BY <1>1, <1>6
  <2> QED BY <1>3, <1>4, <2>2, <2>3, <2>4 DEF p
<1> QED BY <1>5, <1>6

\* A buffer that ignores what does not fit holds the first bytes.
LEMMA FirstIs ==
  ASSUME NEW S, NEW s \in Seq(S), NEW n \in Nat
  PROVE  /\ FirstOf(s, n) = IF Len(s) <= n THEN s ELSE SubSeq(s, 1, n)
         /\ FirstOf(s, n) \in Seq(S)
<1> DEFINE m == Min({n, Len(s)})
<1>1. Len(s) \in Nat
  OBVIOUS
<1>2. m \in {n, Len(s)} /\ m <= n /\ m <= Len(s)
  <2>1. {n, Len(s)} \subseteq Nat
    BY <1>1
  <2> QED BY <2>1, MinIs
<1>3. FirstOf(s, n) = SubSeq(s, 1, m)
  BY DEF FirstOf
<1> HIDE DEF m
<1>4. CASE Len(s) <= n
  <2>1. m = Len(s) /\ SubSeq(s, 1, Len(s)) = s
    BY <1>1, <1>2, <1>4
  <2> QED BY <1>3, <1>4, <2>1
<1>5. CASE ~(Len(s) <= n)
  <2>1. m = n
    BY <1>1, <1>2, <1>5
  <2>2. SubSeq(s, 1, n) \in Seq(S)
    BY <1>1, <1>5
  <2> QED BY <1>3, <1>5, <2>1, <2>2
<1> QED BY <1>4, <1>5

LEMMA PutFirst ==
  ASSUME NEW S, NEW s \in Seq(S), NEW c \in S, NEW n \in Nat
  PROVE  Put(FirstOf(s, n), c, n) = FirstOf(s \o <<c>>, n)
<1> DEFINE t == s \o <<c>>
<1>1. t \in Seq(S) /\ Len(t) = Len(s) + 1 /\ Len(s) \in Nat /\ t = Append(s, c)
  OBVIOUS
<1>2. FirstOf(t, n) = IF Len(t) <= n THEN t ELSE SubSeq(t, 1, n)
  BY <1>1, FirstIs
<1>3. FirstOf(s, n) = IF Len(s) <= n THEN s ELSE SubSeq(s, 1, n)
  BY FirstIs
<1>4. CASE Len(s) < n
  <2>1. FirstOf(s, n) = s /\ FirstOf(t, n) = t
    <3> HIDE DEF t
    <3> QED BY <1>1, <1>2, <1>3, <1>4
  <2>2. Put(s, c, n) = t
    BY <1>1, <1>4 DEF Put
  <2> QED BY <2>1, <2>2
<1>5. CASE Len(s) >= n
  <2>1. SubSeq(t, 1, n) = SubSeq(s, 1, n)
    BY <1>5
  <2>2. Len(s) = n => SubSeq(s, 1, n) = s
    OBVIOUS
  <2>3. Len(SubSeq(s, 1, n)) = n
    BY <1>5
  <2>4. FirstOf(s, n) = SubSeq(s, 1, n)
    BY <1>1, <1>3, <1>5, <2>2
  <2>5. FirstOf(t, n) = SubSeq(s, 1, n)
    BY <1>1, <1>2, <1>5, <2>1
  <2> HIDE DEF t
  <2> QED BY <1>5, <2>3, <2>4, <2>5 DEF Put, t
<1> QED BY <1>1, <1>4, <1>5

LEMMA FirstOfNone == ASSUME NEW n \in Nat PROVE FirstOf(<<>>, n) = <<>>
<1>1. <<>> \in Seq(Nat) /\ Len(<<>>) = 0
  OBVIOUS
<1>2. FirstOf(<<>>, n) = IF Len(<<>>) <= n THEN <<>> ELSE SubSeq(<<>>, 1, n)
  BY <1>1, FirstIs
<1> QED BY <1>1, <1>2

-----------------------------------------------------------------------------
(* The characters of a text *)

\* the characters a text may have
Alphabet(text) == {Character(text, i) : i \in DOMAIN text}

LEMMA AtIn ==
  ASSUME NEW text, NEW i \in DOMAIN text
  PROVE  CharacterAt(text, i) \in Seq(Alphabet(text))
<1>1. Character(text, i) \in Alphabet(text)
  BY DEF Alphabet
<1> HIDE DEF Alphabet
<1> QED BY <1>1 DEF CharacterAt

LEMMA CharactersNone ==
  ASSUME NEW text, NEW from \in Int, NEW to \in Int, to < from
  PROVE  Characters(text, from, to) = <<>>
<1> DEFINE q == [k \in 1..(to - from + 1) |-> CharacterAt(text, from + k - 1)]
<1>1. q = <<>>
  <2>1. 1..(to - from + 1) = {}
    OBVIOUS
  <2> QED BY <2>1
<1> QED BY <1>1, FlattenEmpty DEF Characters

\* One place more adds its character, if it has one.
LEMMA CharactersStep ==
  ASSUME NEW text \in Seq(Byte), NEW from \in 1..(Len(text) + 1), NEW to \in Nat,
         from <= to + 1, to + 1 <= Len(text)
  PROVE  /\ Characters(text, from, to) \in Seq(Alphabet(text))
         /\ Characters(text, from, to + 1) = Characters(text, from, to) \o CharacterAt(text, to + 1)
<1> DEFINE S == Alphabet(text)
           n == to - from + 1
           q == [k \in 1..n |-> CharacterAt(text, from + k - 1)]
           p == [k \in 1..(n + 1) |-> CharacterAt(text, from + k - 1)]
           R == Seq(S)
<1>1. n \in Nat /\ Len(text) \in Nat /\ DOMAIN text = 1..Len(text)
  OBVIOUS
<1>2. \A k \in 1..(n + 1) : from + k - 1 \in DOMAIN text
  BY <1>1
<1>3. \A k \in 1..(n + 1) : CharacterAt(text, from + k - 1) \in R
  <2> SUFFICES ASSUME NEW k \in 1..(n + 1) PROVE CharacterAt(text, from + k - 1) \in R
    OBVIOUS
  <2> QED BY <1>2, AtIn
<1>4. from + (n + 1) - 1 = to + 1
  OBVIOUS
<1>5. Characters(text, from, to) = FlattenSeq(q)
  BY DEF Characters
<1>6. Characters(text, from, to + 1) = FlattenSeq(p)
  <2>1. (to + 1) - from + 1 = n + 1
    OBVIOUS
  <2> QED BY <2>1 DEF Characters
<1>7. q \in Seq(R) /\ p = Append(q, CharacterAt(text, to + 1)) /\ CharacterAt(text, to + 1) \in R
  <2> HIDE DEF n, R
  <2>1. q \in Seq(R)
    <3>1. \A k \in 1..n : k \in 1..(n + 1)
      BY <1>1
    <3>2. \A k \in 1..n : q[k] \in R
      BY <1>3, <3>1
    <3>3. q \in [1..n -> R]
      BY <3>2
    <3> HIDE DEF q
    <3> QED BY <1>1, <3>3
  <2>2. Len(q) = n
    BY <1>1
  <2>3. p[n + 1] = CharacterAt(text, to + 1)
    BY <1>1, <1>4
  <2>4. p = Append(q, CharacterAt(text, to + 1))
    BY <1>1, <1>4, <2>1, <2>2, <2>3
  <2>5. CharacterAt(text, to + 1) \in R
    BY <1>1, <1>3, <1>4
  <2> QED BY <2>1, <2>4, <2>5
<1> HIDE DEF q, p, S, n
<1>8. FlattenSeq(q) \in Seq(S) /\ FlattenSeq(p) = FlattenSeq(q) \o CharacterAt(text, to + 1)
  BY <1>7, FlattenType, FlattenStep
<1> QED BY <1>5, <1>6, <1>8 DEF S

-----------------------------------------------------------------------------
(* A path *)

LEMMA CharValues ==
  /\ Char.null = 0 /\ Char.space = 32 /\ Char.percent = 37 /\ Char.and = 38 /\ Char.plus = 43
  /\ Char.dot = 46 /\ Char.slash = 47 /\ Char.equals = 61 /\ Char.question = 63
BY DEF Char

Slashes(text) == Places(text, Char.slash)
Dots(text)    == Places(text, Char.dot)

\* what of the path has been read with its first n bytes: where its last name has started,
\* the dots behind, the name and the extension
StartsTo(text, n) == Within(NameStarts(text), 1, n)
StartAt(text, n)  == Max(StartsTo(text, n))
DotsTo(text, n)   == Within(Dots(text), StartAt(text, n), n)
DotAt(text, n)    == IF DotsTo(text, n) = {} THEN n + 1 ELSE Min(DotsTo(text, n))
NameTo(text, n)   == FirstOf(Characters(text, StartAt(text, n) + 1, DotAt(text, n) - 1), NameLength)
ExtTo(text, n)    == FirstOf(Characters(text, DotAt(text, n) + 1, n), ExtLength)
DotsPast(text, n) == Within(DotsTo(text, n), DotAt(text, n) + 1, n)

PathState(s) ==
  /\ DOMAIN s = {"name", "ext", "reading", "waiting"}
  /\ s = [name |-> s.name, ext |-> s.ext, reading |-> s.reading, waiting |-> s.waiting]
  /\ s.reading \in BOOLEAN /\ s.waiting \in BOOLEAN

PathRead(text, n, s) ==
  /\ PathState(s)
  /\ StartsTo(text, n) = {} => s.waiting = TRUE /\ Within(Slashes(text), 1, n) = {}
  /\ StartsTo(text, n) # {} =>
       /\ s.waiting = (DotsPast(text, n) # {})
       /\ s.reading = (DotsTo(text, n) = {})
       /\ s.waiting = FALSE => s.name = NameTo(text, n) /\ s.ext = ExtTo(text, n)
       /\ \A j \in Within(Slashes(text), StartAt(text, n) + 1, n) :
            Within(Dots(text), StartAt(text, n), j) = {}

LEMMA PlacesIn ==
  ASSUME NEW text \in Seq(Byte), NEW c
  PROVE  Places(text, c) \subseteq 1..Len(text)
BY DEF Places

LEMMA StartIs ==
  ASSUME NEW text \in Seq(Byte), NEW n \in Nat, StartsTo(text, n) # {}
  PROVE  /\ StartAt(text, n) \in StartsTo(text, n)
         /\ StartAt(text, n) \in Slashes(text) /\ StartAt(text, n) \in 1..n
         /\ StartAt(text, n) \in 1..Len(text)
         /\ \A i \in StartsTo(text, n) : i <= StartAt(text, n)
<1>1. StartsTo(text, n) \subseteq 0..n /\ StartsTo(text, n) \subseteq 1..n
      /\ StartsTo(text, n) \subseteq Slashes(text)
  BY DEF StartsTo, Within, NameStarts, Slashes
<1>2. StartAt(text, n) \in StartsTo(text, n) /\ \A i \in StartsTo(text, n) : StartAt(text, n) >= i
  BY <1>1, MaxIs DEF StartAt
<1>3. Slashes(text) \subseteq 1..Len(text)
  BY PlacesIn DEF Slashes
<1>4. \A i \in StartsTo(text, n) : i <= StartAt(text, n)
  BY <1>1, <1>2
<1> QED BY <1>1, <1>2, <1>3, <1>4

\* A slash starts a name when none has come before, or a dot since the name's start.
LEMMA FirstSlash ==
  ASSUME NEW text \in Seq(Byte), NEW n \in Nat, n + 1 \in Slashes(text),
         Within(Slashes(text), 1, n) = {}
  PROVE  n + 1 \in NameStarts(text)
<1>1. (n + 1) - 1 = n
  OBVIOUS
<1> QED BY <1>1 DEF NameStarts, Slashes

LEMMA SlashAfterDot ==
  ASSUME NEW text \in Seq(Byte), NEW n \in Nat, n + 1 \in Slashes(text),
         NEW st \in Slashes(text), st \in 1..n, Within(Dots(text), st, n) # {},
         \A j \in Within(Slashes(text), st + 1, n) : Within(Dots(text), st, j) = {}
  PROVE  n + 1 \in NameStarts(text)
<1> DEFINE L == Slashes(text)
           D == Dots(text)
<1>1. L \subseteq Nat /\ D \subseteq Nat /\ (n + 1) - 1 = n
  BY PlacesIn DEF Slashes, Dots
<1>2. PICK d \in D : st <= d /\ d <= n
  BY <1>1 DEF Within
<1>3. ASSUME NEW j \in L, j \in 1..n
      PROVE  Within(D, j, n + 1) # {} \/ Within(L, j + 1, n) # {}
  <2>1. CASE j < st
    <3>1. st \in Within(L, j + 1, n)
      BY <1>1, <2>1 DEF Within
    <3> QED BY <3>1
  <2>2. CASE j = st
    <3>1. d \in Within(D, j, n + 1)
      BY <1>1, <1>2, <2>2 DEF Within
    <3> QED BY <3>1
  <2>3. CASE j > st
    <3>1. j \in Within(L, st + 1, n)
      BY <1>1, <1>3, <2>3 DEF Within
    <3>2. Within(D, st, j) = {}
      BY <3>1
    <3>3. ~(d <= j)
      BY <1>1, <1>2, <3>2 DEF Within
    <3>4. d \in Within(D, j, n + 1)
      BY <1>1, <1>2, <1>3, <3>3 DEF Within
    <3> QED BY <3>4
  <2> QED BY <1>1, <1>3, <2>1, <2>2, <2>3
<1>4. \A j \in Within(L, 1, n) : Within(D, j, n + 1) # {} \/ Within(L, j + 1, n) # {}
  BY <1>1, <1>3 DEF Within
<1> QED BY <1>1, <1>4 DEF NameStarts, Slashes, Dots

\* A slash in a name without a dot is one of its characters.
LEMMA SlashInName ==
  ASSUME NEW text \in Seq(Byte), NEW n \in Nat, n + 1 \in Slashes(text),
         NEW st \in Slashes(text), st \in 1..n, Within(Dots(text), st, n + 1) = {}
  PROVE  n + 1 \notin NameStarts(text)
<1> DEFINE L == Slashes(text)
           D == Dots(text)
           T == Within(L, 1, n)
<1>1. L \subseteq Nat /\ D \subseteq Nat /\ (n + 1) - 1 = n
  BY PlacesIn DEF Slashes, Dots
<1>2. T \subseteq 0..n /\ st \in T
  BY <1>1 DEF Within
<1>3. PICK j \in T : \A k \in T : k <= j
  <2> HIDE DEF T
  <2>1. Max(T) \in T /\ \A y \in T : Max(T) >= y
    BY <1>2, MaxIs
  <2>2. \A y \in T : y <= Max(T)
    BY <1>2, <2>1
  <2> QED BY <2>1, <2>2
<1>4. Within(D, j, n + 1) = {}
  <2>1. st <= j /\ j \in Nat
    BY <1>2, <1>3
  <2> QED BY <1>1, <2>1 DEF Within
<1>5. Within(L, j + 1, n) = {}
  <2>1. j \in 1..n
    BY <1>1 DEF Within
  <2>2. ASSUME NEW k \in Within(L, j + 1, n) PROVE FALSE
    <3>1. k \in L /\ k \in (j + 1)..n
      BY DEF Within
    <3>2. k \in T
      BY <1>1, <2>1, <3>1 DEF Within
    <3>3. k <= j
      BY <1>3, <3>2
    <3> QED BY <2>1, <3>1, <3>3
  <2> QED BY <2>2
<1> QED BY <1>1, <1>3, <1>4, <1>5 DEF NameStarts, Slashes, Dots

LEMMA SortOf ==
  ASSUME NEW text \in Seq(Byte), NEW i \in 1..Len(text)
  PROVE  /\ Plain(text, i, Char.slash) <=> i \in Slashes(text)
         /\ Plain(text, i, Char.dot) <=> i \in Dots(text)
         /\ ~(i \in Slashes(text) /\ i \in Dots(text))
         /\ i \in Slashes(text) \/ i \in Dots(text) => ~Swallowed(text, i)
BY CharValues DEF Slashes, Dots, Places, Plain

\* What a buffer makes of one place more.
LEMMA FirstStep ==
  ASSUME NEW text \in Seq(Byte), NEW from \in 1..(Len(text) + 1), NEW to \in Nat,
         from <= to + 1, to + 1 <= Len(text), NEW size \in Nat
  PROVE  FirstOf(Characters(text, from, to + 1), size) =
           IF Swallowed(text, to + 1) THEN FirstOf(Characters(text, from, to), size)
           ELSE Put(FirstOf(Characters(text, from, to), size), Character(text, to + 1), size)
<1> DEFINE X == Characters(text, from, to)
           Y == Characters(text, from, to + 1)
           S == Alphabet(text)
<1>1. X \in Seq(S) /\ Y = X \o CharacterAt(text, to + 1)
  BY CharactersStep
<1>2. Character(text, to + 1) \in S
  <2>1. to + 1 \in DOMAIN text
    OBVIOUS
  <2> QED BY <2>1 DEF Alphabet
<1> HIDE DEF X, Y, S
<1>3. CASE Swallowed(text, to + 1)
  <2>1. Y = X
    BY <1>1, <1>3 DEF CharacterAt
  <2> QED BY <1>3, <2>1 DEF X, Y
<1>4. CASE ~Swallowed(text, to + 1)
  <2>1. Y = X \o <<Character(text, to + 1)>>
    BY <1>1, <1>4 DEF CharacterAt
  <2>2. Put(FirstOf(X, size), Character(text, to + 1), size) = FirstOf(Y, size)
    BY <1>1, <1>2, <2>1, PutFirst
  <2> QED BY <1>4, <2>2 DEF X, Y
<1> QED BY <1>3, <1>4

LEMMA Lengths ==
  /\ NameLength \in Nat /\ NameLength # 0 /\ ExtLength \in Nat /\ ExtLength # 0
  /\ InputLength \in Nat /\ InputLength # 0
BY HttpRequestAssumption

\* A name has just started.
LEMMA NameStarted ==
  ASSUME NEW text \in Seq(Byte), NEW n \in Nat, n + 1 \in NameStarts(text)
  PROVE  PathRead(text, n + 1, NewName)
<1> DEFINE m == n + 1
<1>1. m \in 1..Len(text) /\ m \in Slashes(text)
  BY PlacesIn DEF NameStarts, Slashes
<1>2. m \in StartsTo(text, m) /\ StartsTo(text, m) \subseteq 1..m
  BY <1>1 DEF StartsTo, Within
<1>3. StartAt(text, m) = m
  BY <1>2, MaxUnique DEF StartAt
<1>4. DotsTo(text, m) = {}
  <2>1. m \notin Dots(text)
    BY <1>1, SortOf
  <2> QED BY <1>3, <2>1 DEF DotsTo, Within
<1>5. DotAt(text, m) = m + 1 /\ DotsPast(text, m) = {}
  BY <1>4 DEF DotAt, DotsPast, Within
<1>6. NameTo(text, m) = <<>>
  <2>1. Characters(text, m + 1, (m + 1) - 1) = <<>>
    BY CharactersNone
  <2> QED BY <1>3, <1>5, <2>1, FirstOfNone, Lengths DEF NameTo
<1>7. ExtTo(text, m) = <<>>
  <2>1. Characters(text, (m + 1) + 1, m) = <<>>
    BY CharactersNone
  <2> QED BY <1>5, <2>1, FirstOfNone, Lengths DEF ExtTo
<1>8. Within(Slashes(text), m + 1, m) = {}
  BY DEF Within
<1> HIDE DEF m
<1>9. PathRead(text, m, NewName)
  BY <1>2, <1>3, <1>4, <1>5, <1>6, <1>7, <1>8 DEF PathRead, PathState, NewName
<1> QED BY <1>9 DEF m

\* The place behind starts no name: what is read is still the same one.
LEMMA SameStart ==
  ASSUME NEW text \in Seq(Byte), NEW n \in Nat, n + 1 \notin NameStarts(text)
  PROVE  StartsTo(text, n + 1) = StartsTo(text, n) /\ StartAt(text, n + 1) = StartAt(text, n)
<1>1. StartsTo(text, n + 1) = StartsTo(text, n)
  <2>1. NameStarts(text) \subseteq Nat
    BY PlacesIn DEF NameStarts, Slashes
  <2> QED BY <2>1 DEF StartsTo, Within
<1> QED BY <1>1 DEF StartAt

LEMMA DotAtIs ==
  ASSUME NEW text \in Seq(Byte), NEW n \in Nat, StartsTo(text, n) # {}
  PROVE  /\ DotsTo(text, n) \subseteq 1..n
         /\ DotsTo(text, n) # {} => /\ DotAt(text, n) \in DotsTo(text, n)
                                    /\ \A d \in DotsTo(text, n) : DotAt(text, n) <= d
         /\ DotsTo(text, n) = {} => DotAt(text, n) = n + 1 /\ DotsPast(text, n) = {}
         /\ DotAt(text, n) \in Nat /\ StartAt(text, n) < DotAt(text, n)
<1>1. DotsTo(text, n) \subseteq 1..n /\ DotsTo(text, n) \subseteq Dots(text)
  BY StartIs DEF DotsTo, Within
<1>2. DotsTo(text, n) # {} => Min(DotsTo(text, n)) \in DotsTo(text, n)
                              /\ \A d \in DotsTo(text, n) : Min(DotsTo(text, n)) <= d
  <2>1. DotsTo(text, n) \subseteq Nat
    BY <1>1
  <2> QED BY <2>1, MinIs
<1>3. StartAt(text, n) \in Slashes(text) /\ StartAt(text, n) \in 1..n
      /\ StartAt(text, n) \in 1..Len(text)
  BY StartIs
<1>4. StartAt(text, n) \notin Dots(text)
  BY <1>3, SortOf
<1>5. \A d \in DotsTo(text, n) : StartAt(text, n) < d
  BY <1>1, <1>3, <1>4 DEF DotsTo, Within
<1> QED BY <1>1, <1>2, <1>3, <1>5 DEF DotAt, DotsPast, Within

\* A byte that is neither a dot nor the start of a name is a character of the name or of
\* the extension, or belongs to an escape.
LEMMA LetterRead ==
  ASSUME NEW text \in Seq(Byte), NEW n \in Nat, n + 1 <= Len(text), NEW s,
         PathRead(text, n, s), StartsTo(text, n) # {}, n + 1 \notin NameStarts(text),
         n + 1 \notin Dots(text), n + 1 \in Slashes(text) => DotsTo(text, n) = {}
  PROVE  PathRead(text, n + 1, IF Swallowed(text, n + 1) THEN s
                               ELSE AddCharacter(s, Character(text, n + 1)))
<1> DEFINE m == n + 1
           c == Character(text, m)
           r == IF Swallowed(text, m) THEN s ELSE AddCharacter(s, c)
           st == StartAt(text, n)
           d == DotAt(text, n)
           D == DotsTo(text, n)
<1>1. /\ StartsTo(text, m) = StartsTo(text, n) /\ StartAt(text, m) = st
      /\ st \in 1..n /\ st \in 1..Len(text) /\ st \in Nat
  BY SameStart, StartIs
<1>2. DotsTo(text, m) = D
  <2>1. Dots(text) \subseteq Nat
    BY PlacesIn DEF Dots
  <2> QED BY <1>1, <2>1 DEF DotsTo, Within
<1>3. /\ D \subseteq 1..n
      /\ D # {} => d \in D /\ \A x \in D : d <= x
      /\ D = {} => d = m /\ DotsPast(text, n) = {}
      /\ d \in Nat /\ st < d
  BY DotAtIs
<1>4. DotAt(text, m) = IF D = {} THEN m + 1 ELSE d
  BY <1>2 DEF DotAt
<1>5. (DotsPast(text, m) # {}) = (DotsPast(text, n) # {})
  <2>1. CASE D = {}
    BY <1>2, <2>1 DEF DotsPast, Within
  <2>2. CASE D # {}
    <3>1. DotsPast(text, m) = Within(D, d + 1, m) /\ DotsPast(text, n) = Within(D, d + 1, n)
      BY <1>2, <1>4, <2>2 DEF DotsPast
    <3>2. Within(D, d + 1, m) = Within(D, d + 1, n)
      BY <1>3 DEF Within
    <3> QED BY <3>1, <3>2
  <2> QED BY <2>1, <2>2
<1>6. PathState(r) /\ r.reading = s.reading /\ r.waiting = s.waiting
  <2>1. PathState(s)
    BY DEF PathRead
  <2> QED BY <2>1 DEF PathState, AddCharacter
<1>7. ASSUME s.waiting = FALSE
      PROVE  r.name = NameTo(text, m) /\ r.ext = ExtTo(text, m)
  <2>0. s.name = NameTo(text, n) /\ s.ext = ExtTo(text, n) /\ s.reading = (D = {})
    BY <1>7 DEF PathRead
  <2>1. CASE D = {}
    <3>1. DotAt(text, m) - 1 = m /\ d - 1 = n
      BY <1>3, <1>4, <2>1
    <3>2. NameTo(text, m) = FirstOf(Characters(text, st + 1, m), NameLength)
      BY <1>1, <3>1 DEF NameTo
    <3>3. NameTo(text, n) = FirstOf(Characters(text, st + 1, n), NameLength)
      BY <3>1 DEF NameTo
    <3>4. st + 1 \in 1..(Len(text) + 1) /\ st + 1 <= n + 1
      BY <1>1
    <3>5. FirstOf(Characters(text, st + 1, n + 1), NameLength) =
            IF Swallowed(text, n + 1) THEN FirstOf(Characters(text, st + 1, n), NameLength)
            ELSE Put(FirstOf(Characters(text, st + 1, n), NameLength), c, NameLength)
      BY <3>4, FirstStep, Lengths
    <3>6. r.name = IF Swallowed(text, m) THEN s.name ELSE Put(s.name, c, NameLength)
      BY <1>7, <2>0, <2>1 DEF AddCharacter, PathRead, PathState
    <3>7. r.ext = s.ext
      BY <1>7, <2>0, <2>1 DEF AddCharacter, PathRead, PathState
    <3>8. ExtTo(text, m) = ExtTo(text, n)
      <4>1. Characters(text, (m + 1) + 1, m) = <<>> /\ Characters(text, m + 1, n) = <<>>
        BY CharactersNone
      <4> QED BY <1>3, <1>4, <2>1, <4>1 DEF ExtTo
    <3> HIDE DEF r
    <3> QED BY <2>0, <3>2, <3>3, <3>5, <3>6, <3>7, <3>8
  <2>2. CASE D # {}
    <3>1. DotAt(text, m) = d /\ d \in 1..n
      BY <1>3, <1>4, <2>2
    <3>2. NameTo(text, m) = NameTo(text, n)
      BY <1>1, <3>1 DEF NameTo
    <3>3. ExtTo(text, m) = FirstOf(Characters(text, d + 1, n + 1), ExtLength)
      BY <3>1 DEF ExtTo
    <3>4. d + 1 \in 1..(Len(text) + 1) /\ d + 1 <= n + 1
      BY <3>1
    <3>5. FirstOf(Characters(text, d + 1, n + 1), ExtLength) =
            IF Swallowed(text, n + 1) THEN FirstOf(Characters(text, d + 1, n), ExtLength)
            ELSE Put(FirstOf(Characters(text, d + 1, n), ExtLength), c, ExtLength)
      BY <3>4, FirstStep, Lengths
    <3>6. r.ext = IF Swallowed(text, m) THEN s.ext ELSE Put(s.ext, c, ExtLength)
      BY <1>7, <2>0, <2>2 DEF AddCharacter, PathRead, PathState
    <3>7. r.name = s.name
      BY <1>7, <2>0, <2>2 DEF AddCharacter, PathRead, PathState
    <3>8. ExtTo(text, n) = FirstOf(Characters(text, d + 1, n), ExtLength)
      BY DEF ExtTo
    <3> HIDE DEF r
    <3> QED BY <2>0, <3>2, <3>3, <3>5, <3>6, <3>7, <3>8
  <2> QED BY <2>1, <2>2
<1>8. ASSUME NEW j \in Within(Slashes(text), st + 1, m)
      PROVE  Within(Dots(text), st, j) = {}
  <2>1. j \in Slashes(text) /\ j \in (st + 1)..m
    BY <1>8 DEF Within
  <2>2. CASE j = m
    <3>1. D = {} /\ Within(Dots(text), st, n) = {}
      BY <2>1, <2>2 DEF DotsTo
    <3>2. Dots(text) \subseteq Nat
      BY PlacesIn DEF Dots
    <3> QED BY <2>2, <3>1, <3>2, <1>1 DEF Within
  <2>3. CASE j # m
    <3>1. j \in Within(Slashes(text), st + 1, n)
      BY <1>1, <2>1, <2>3 DEF Within
    <3> QED BY <3>1 DEF PathRead
  <2> QED BY <2>2, <2>3
<1> HIDE DEF r, m
<1>9. PathRead(text, m, r)
  <2>1. s.waiting \in BOOLEAN /\ s.waiting = (DotsPast(text, n) # {}) /\ s.reading = (D = {})
    BY DEF PathRead, PathState
  <2> QED BY <1>1, <1>2, <1>5, <1>6, <1>7, <1>8, <2>1 DEF PathRead
<1> QED BY <1>9 DEF r, m

\* The first dot of a name ends it; with a second there is no name.
LEMMA DotRead ==
  ASSUME NEW text \in Seq(Byte), NEW n \in Nat, n + 1 <= Len(text), NEW s,
         PathRead(text, n, s), StartsTo(text, n) # {}, n + 1 \in Dots(text)
  PROVE  PathRead(text, n + 1, IF s.reading THEN [s EXCEPT !.reading = FALSE, !.ext = <<>>]
                               ELSE [s EXCEPT !.waiting = TRUE])
<1> DEFINE m == n + 1
           r == IF s.reading THEN [s EXCEPT !.reading = FALSE, !.ext = <<>>]
                ELSE [s EXCEPT !.waiting = TRUE]
           st == StartAt(text, n)
           d == DotAt(text, n)
           D == DotsTo(text, n)
           E == DotsTo(text, m)
<1>0. m \notin Slashes(text) /\ m \notin NameStarts(text)
  <2>1. m \in 1..Len(text)
    OBVIOUS
  <2> QED BY <2>1, SortOf DEF NameStarts, Slashes
<1>1. /\ StartsTo(text, m) = StartsTo(text, n) /\ StartAt(text, m) = st
      /\ st \in 1..n /\ st \in 1..Len(text) /\ st \in Nat
  BY <1>0, SameStart, StartIs
<1>2. E = D \cup {m}
  <2>1. Dots(text) \subseteq Nat
    BY PlacesIn DEF Dots
  <2> QED BY <1>1, <2>1 DEF DotsTo, Within
<1>3. /\ D \subseteq 1..n
      /\ D # {} => d \in D /\ \A x \in D : d <= x
      /\ D = {} => d = m /\ DotsPast(text, n) = {}
      /\ d \in Nat /\ st < d
  BY DotAtIs
<1>4. DotAt(text, m) = d
  <2>1. E \subseteq Nat /\ E # {} /\ d \in E /\ \A x \in E : d <= x
    BY <1>2, <1>3
  <2>2. Min(E) = d
    <3> HIDE DEF E, d
    <3> QED BY <2>1, MinUnique
  <2> QED BY <2>1, <2>2 DEF DotAt
<1>5. DotsPast(text, m) = IF D = {} THEN {} ELSE DotsPast(text, m)
  BY <1>2, <1>3, <1>4 DEF DotsPast, Within
<1>6. D # {} => DotsPast(text, m) # {}
  <2> SUFFICES ASSUME D # {} PROVE m \in DotsPast(text, m)
    OBVIOUS
  <2> QED BY <1>2, <1>3, <1>4 DEF DotsPast, Within
<1>7. PathState(s) /\ s.reading = (D = {}) /\ s.waiting = (DotsPast(text, n) # {})
  BY DEF PathRead
<1>8. PathState(r) /\ r.reading = FALSE /\ r.waiting = (D # {})
  BY <1>3, <1>7 DEF PathState, DotsPast, Within
<1>9. ASSUME r.waiting = FALSE
      PROVE  r.name = NameTo(text, m) /\ r.ext = ExtTo(text, m)
  <2>1. D = {} /\ d = m
    BY <1>3, <1>8, <1>9
  <2>2. r.name = s.name /\ r.ext = <<>> /\ s.waiting = FALSE
    BY <1>3, <1>7, <2>1 DEF PathState
  <2>3. s.name = NameTo(text, n)
    BY <2>2 DEF PathRead
  <2>4. NameTo(text, m) = NameTo(text, n)
    BY <1>1, <1>4 DEF NameTo
  <2>5. ExtTo(text, m) = <<>>
    <3>1. Characters(text, m + 1, m) = <<>>
      BY CharactersNone
    <3> QED BY <1>4, <2>1, <3>1, FirstOfNone, Lengths DEF ExtTo
  <2> QED BY <2>2, <2>3, <2>4, <2>5
<1>10. ASSUME NEW j \in Within(Slashes(text), st + 1, m)
       PROVE  Within(Dots(text), st, j) = {}
  <2>1. j \in Slashes(text) /\ j \in (st + 1)..m
    BY <1>10 DEF Within
  <2>2. j \in Within(Slashes(text), st + 1, n)
    BY <1>0, <1>1, <2>1 DEF Within
  <2> QED BY <2>2 DEF PathRead
<1> HIDE DEF r, m
<1>11. PathRead(text, m, r)
  <2>1. E # {}
    BY <1>2
  <2> QED BY <1>1, <1>5, <1>6, <1>8, <1>9, <1>10, <2>1 DEF PathRead
<1> QED BY <1>11 DEF r, m

\* Before the first slash there is no name.
LEMMA NoNameRead ==
  ASSUME NEW text \in Seq(Byte), NEW n \in Nat, n + 1 <= Len(text), NEW s,
         PathRead(text, n, s), StartsTo(text, n) = {}, n + 1 \notin NameStarts(text),
         NEW r, PathState(r), r.waiting = TRUE
  PROVE  PathRead(text, n + 1, r)
<1>1. StartsTo(text, n + 1) = {}
  BY SameStart
<1>2. Within(Slashes(text), 1, n) = {}
  BY DEF PathRead
<1>3. n + 1 \notin Slashes(text)
  BY <1>2, FirstSlash
<1>4. Within(Slashes(text), 1, n + 1) = {}
  <2>1. Slashes(text) \subseteq Nat
    BY PlacesIn DEF Slashes
  <2> QED BY <1>2, <1>3, <2>1 DEF Within
<1> QED BY <1>1, <1>4 DEF PathRead

\* So a byte more is read as it is meant, whichever it is.
LEMMA PathByteRead ==
  ASSUME NEW text \in Seq(Byte), NEW n \in Nat, n + 1 <= Len(text), NEW s,
         PathRead(text, n, s)
  PROVE  PathRead(text, n + 1, ReadPathByte(s, text, n + 1))
<1> DEFINE m == n + 1
           r == ReadPathByte(s, text, m)
           c == Character(text, m)
           A == AddCharacter(s, c)
           R == IF Swallowed(text, m) THEN s ELSE A
           X == [s EXCEPT !.reading = FALSE, !.ext = <<>>]
           Y == [s EXCEPT !.waiting = TRUE]
<1>1. m \in 1..Len(text) /\ PathState(s)
  BY DEF PathRead
<1>2. /\ Plain(text, m, Char.slash) <=> m \in Slashes(text)
      /\ Plain(text, m, Char.dot) <=> m \in Dots(text)
      /\ ~(m \in Slashes(text) /\ m \in Dots(text))
      /\ m \in Slashes(text) \/ m \in Dots(text) => ~Swallowed(text, m)
  BY <1>1, SortOf
<1>3. PathState(X) /\ PathState(Y)
  <2>0. \A a, b, p, q : p \in BOOLEAN /\ q \in BOOLEAN =>
          PathState([name |-> a, ext |-> b, reading |-> p, waiting |-> q])
    BY DEF PathState
  <2>1. PathState(X)
    <3>1. X = [name |-> s.name, ext |-> <<>>, reading |-> FALSE, waiting |-> s.waiting]
      <4>1. DOMAIN X = {"name", "ext", "reading", "waiting"} /\ X.name = s.name /\ X.ext = <<>>
            /\ X.reading = FALSE /\ X.waiting = s.waiting
        BY <1>1 DEF PathState
      <4>2. X = [i \in DOMAIN X |-> X[i]]
        OBVIOUS
      <4> HIDE DEF X
      <4> QED BY <4>1, <4>2
    <3> HIDE DEF X
    <3> QED BY <1>1, <2>0, <3>1 DEF PathState
  <2>2. PathState(Y)
    <3>1. Y = [name |-> s.name, ext |-> s.ext, reading |-> s.reading, waiting |-> TRUE]
      <4>1. DOMAIN Y = {"name", "ext", "reading", "waiting"} /\ Y.name = s.name /\ Y.ext = s.ext
            /\ Y.reading = s.reading /\ Y.waiting = TRUE
        BY <1>1 DEF PathState
      <4>2. Y = [i \in DOMAIN Y |-> Y[i]]
        OBVIOUS
      <4> HIDE DEF Y
      <4> QED BY <4>1, <4>2
    <3> HIDE DEF Y
    <3> QED BY <1>1, <2>0, <3>1 DEF PathState
  <2> QED BY <2>1, <2>2
<1>4. s.waiting = TRUE => X.waiting = TRUE /\ A = s
  BY <1>1 DEF PathState, AddCharacter
<1>5. Y.waiting = TRUE
  BY <1>1 DEF PathState
<1>6. s.reading \in BOOLEAN /\ s.waiting \in BOOLEAN
  BY <1>1 DEF PathState
<1>7. m \in NameStarts(text) => m \in Slashes(text)
  BY DEF NameStarts, Slashes
<1> HIDE DEF A, X, Y
<1>8. r = CASE Swallowed(text, m) -> s
            [] m \in Slashes(text) /\ (s.waiting \/ ~s.reading) -> NewName
            [] m \in Dots(text) /\ s.reading  -> X
            [] m \in Dots(text) /\ ~s.reading -> Y
            [] OTHER -> A
  BY <1>2 DEF ReadPathByte, A, X, Y
<1> SUFFICES PathRead(text, m, r)
  OBVIOUS
<1> HIDE DEF r
<1>9. CASE m \in Slashes(text) /\ (s.waiting \/ ~s.reading)
  <2>1. r = NewName
    BY <1>2, <1>8, <1>9
  <2>2. m \in NameStarts(text)
    <3>1. CASE StartsTo(text, n) = {}
      BY <1>9, <3>1, FirstSlash DEF PathRead
    <3>2. CASE StartsTo(text, n) # {}
      <4>1. DotsTo(text, n) # {}
        BY <1>9, <3>2 DEF PathRead, DotsPast, Within
      <4> QED BY <1>9, <3>2, <4>1, StartIs, SlashAfterDot DEF PathRead, DotsTo
    <3> QED BY <3>1, <3>2
  <2> QED BY <2>1, <2>2, NameStarted
<1>10. CASE m \in Dots(text)
  <2>1. r = IF s.reading THEN X ELSE Y
    BY <1>2, <1>6, <1>8, <1>10
  <2>2. CASE StartsTo(text, n) = {}
    <3>1. r.waiting = TRUE /\ PathState(r)
      BY <1>3, <1>4, <1>5, <2>1, <2>2 DEF PathRead
    <3> QED BY <1>2, <1>7, <1>10, <2>2, <3>1, NoNameRead
  <2>3. CASE StartsTo(text, n) # {}
    BY <1>10, <2>1, <2>3, DotRead DEF X, Y
  <2> QED BY <2>2, <2>3
<1>11. CASE m \notin Dots(text) /\ ~(m \in Slashes(text) /\ (s.waiting \/ ~s.reading))
  <2>1. r = R
    BY <1>2, <1>8, <1>11
  <2>2. CASE StartsTo(text, n) = {}
    <3>1. s.waiting = TRUE /\ r = s
      BY <1>4, <2>1, <2>2 DEF PathRead
    <3>2. m \notin NameStarts(text)
      BY <1>7, <1>11, <3>1
    <3> QED BY <1>1, <2>2, <3>1, <3>2, NoNameRead
  <2>3. CASE StartsTo(text, n) # {}
    <3>1. m \in Slashes(text) => DotsTo(text, n) = {}
      BY <1>6, <1>11, <2>3 DEF PathRead
    <3>2. m \notin NameStarts(text)
      <4> SUFFICES ASSUME m \in Slashes(text) PROVE m \notin NameStarts(text)
        BY <1>7
      <4>1. Within(Dots(text), StartAt(text, n), n) = {}
        BY <3>1 DEF DotsTo
      <4>2. Dots(text) \subseteq Nat
        BY PlacesIn DEF Dots
      <4>3. Within(Dots(text), StartAt(text, n), n + 1) = {}
        BY <1>11, <4>1, <4>2 DEF Within
      <4> QED BY <2>3, <4>3, StartIs, SlashInName
    <3> QED BY <1>11, <2>1, <2>3, <3>1, <3>2, LetterRead DEF A
  <2> QED BY <2>2, <2>3
<1> QED BY <1>9, <1>10, <1>11

\* ReadPath is what its recursion says.
LEMMA ReadPathRuns ==
  ASSUME NEW text \in Seq(Byte), NEW length \in Nat
  PROVE  \E read : /\ read[0] = [NewName EXCEPT !.waiting = TRUE]
                   /\ \A n \in 1..length : read[n] = ReadPathByte(read[n - 1], text, n)
                   /\ ReadPath(text, length) = read[length]
<1> DEFINE start == [NewName EXCEPT !.waiting = TRUE]
           Is(f, n) == /\ DOMAIN f = 0..n /\ f = [i \in 0..n |-> f[i]] /\ f[0] = start
                       /\ \A i \in 1..n : f[i] = ReadPathByte(f[i - 1], text, i)
           Right(n) == \E f : Is(f, n)
<1>1. Right(0)
  <2> DEFINE f == [i \in 0..0 |-> start]
  <2>1. Is(f, 0)
    OBVIOUS
  <2> QED BY <2>1
<1>2. ASSUME NEW n \in Nat, Right(n) PROVE Right(n + 1)
  <2>1. PICK f : Is(f, n)
    BY <1>2
  <2> DEFINE x == ReadPathByte(f[n], text, n + 1)
             g == [i \in 0..(n + 1) |-> IF i = n + 1 THEN x ELSE f[i]]
  <2>2. DOMAIN g = 0..(n + 1) /\ g = [i \in 0..(n + 1) |-> g[i]] /\ g[0] = start
    <3> HIDE DEF x, start
    <3> QED BY <2>1
  <2>3. ASSUME NEW i \in 1..(n + 1) PROVE g[i] = ReadPathByte(g[i - 1], text, i)
    <3>1. CASE i \in 1..n
      <4>1. f[i] = ReadPathByte(f[i - 1], text, i)
        BY <2>1, <3>1
      <4>2. g[i] = f[i] /\ g[i - 1] = f[i - 1]
        <5> HIDE DEF x
        <5> QED BY <3>1
      <4> HIDE DEF g
      <4> QED BY <4>1, <4>2
    <3>2. CASE i = n + 1
      <4>1. g[i] = x /\ g[i - 1] = f[n]
        <5> HIDE DEF x
        <5> QED BY <3>2
      <4> HIDE DEF g
      <4> QED BY <4>1, <3>2
    <3> QED BY <3>1, <3>2
  <2> HIDE DEF g, start
  <2>4. Is(g, n + 1)
    BY <2>2, <2>3
  <2> QED BY <2>4
<1> HIDE DEF Right
<1>3. Right(length)
  <2> DEFINE T == {n \in 0..length : ~Right(n)}
  <2> SUFFICES ASSUME T # {} PROVE FALSE
    OBVIOUS
  <2>0. T \subseteq Nat
    OBVIOUS
  <2>1. PICK n \in T : \A m \in T : n <= m
    <3> HIDE DEF T
    <3> QED BY <2>0, LeastOf
  <2>2. n \in Nat /\ n # 0 /\ n <= length /\ ~Right(n)
    BY <1>1
  <2>3. Right(n - 1)
    BY <2>1, <2>2
  <2>4. Right((n - 1) + 1)
    <3>1. n - 1 \in Nat
      BY <2>2
    <3> QED BY <2>3, <3>1, <1>2
  <2>5. (n - 1) + 1 = n
    BY <2>2
  <2> QED BY <2>2, <2>4, <2>5
<1> DEFINE F == CHOOSE g : g = [n \in 0..length |-> IF n = 0 THEN start
                                                   ELSE ReadPathByte(g[n - 1], text, n)]
<1>4. F = [n \in 0..length |-> IF n = 0 THEN start ELSE ReadPathByte(F[n - 1], text, n)]
  <2>1. PICK f : Is(f, length)
    BY <1>3 DEF Right
  <2>2. f = [n \in 0..length |-> IF n = 0 THEN start ELSE ReadPathByte(f[n - 1], text, n)]
    <3>1. \A n \in 0..length : f[n] = IF n = 0 THEN start ELSE ReadPathByte(f[n - 1], text, n)
      <4> SUFFICES ASSUME NEW n \in 0..length
                   PROVE  f[n] = IF n = 0 THEN start ELSE ReadPathByte(f[n - 1], text, n)
        OBVIOUS
      <4>1. n = 0 \/ n \in 1..length
        OBVIOUS
      <4> HIDE DEF start
      <4> QED BY <2>1, <4>1
    <3>2. f = [n \in 0..length |-> f[n]]
      BY <2>1
    <3> HIDE DEF start, Is
    <3> QED BY <3>1, <3>2
  <2> HIDE DEF start
  <2> QED BY <2>2
<1>5. ReadPath(text, length) = F[length]
  BY DEF ReadPath
<1> HIDE DEF F, start
<1>6. F[0] = start /\ \A n \in 1..length : F[n] = ReadPathByte(F[n - 1], text, n)
  BY <1>4
<1> QED BY <1>5, <1>6 DEF start

\* However long the path, what has been read of it is what it means.
LEMMA PathIsRead ==
  ASSUME NEW text \in Seq(Byte), NEW length \in 0..Len(text)
  PROVE  PathRead(text, length, ReadPath(text, length))
<1>1. PICK read : /\ read[0] = [NewName EXCEPT !.waiting = TRUE]
                  /\ \A n \in 1..length : read[n] = ReadPathByte(read[n - 1], text, n)
                  /\ ReadPath(text, length) = read[length]
  <2>1. length \in Nat
    OBVIOUS
  <2> QED BY <2>1, ReadPathRuns
<1> DEFINE Right(n) == PathRead(text, n, read[n])
<1>2. Right(0)
  <2>1. StartsTo(text, 0) = {} /\ Within(Slashes(text), 1, 0) = {}
    BY DEF StartsTo, Within
  <2>2. PathState(read[0]) /\ read[0].waiting = TRUE
    BY <1>1 DEF PathState, NewName
  <2> QED BY <2>1, <2>2 DEF PathRead
<1>3. ASSUME NEW n \in Nat, n + 1 <= length, Right(n) PROVE Right(n + 1)
  <2>1. n + 1 <= Len(text) /\ read[n + 1] = ReadPathByte(read[n], text, n + 1)
    BY <1>1, <1>3
  <2> QED BY <1>3, <2>1, PathByteRead
<1> HIDE DEF Right
<1>4. Right(length)
  <2> DEFINE T == {n \in 0..length : ~Right(n)}
  <2> SUFFICES ASSUME T # {} PROVE FALSE
    OBVIOUS
  <2>0. T \subseteq Nat
    OBVIOUS
  <2>1. PICK n \in T : \A m \in T : n <= m
    <3> HIDE DEF T
    <3> QED BY <2>0, LeastOf
  <2>2. n \in Nat /\ n # 0 /\ n <= length /\ ~Right(n)
    BY <1>2
  <2>3. Right(n - 1)
    BY <2>1, <2>2
  <2>4. Right((n - 1) + 1)
    <3>1. n - 1 \in Nat /\ (n - 1) + 1 <= length
      BY <2>2
    <3> QED BY <2>3, <3>1, <1>3
  <2>5. (n - 1) + 1 = n
    BY <2>2
  <2> QED BY <2>2, <2>4, <2>5
<1> QED BY <1>1, <1>4 DEF Right

\* So the file is the one the path names.
LEMMA FileIsMeant ==
  ASSUME NEW text \in Seq(Byte), NEW last \in 0..Len(text)
  PROVE  FileRead(ReadPath(text, last)) = PathMeans(text, last)
<1> DEFINE r == ReadPath(text, last)
<1>1. PathRead(text, last, r)
  BY PathIsRead
<1> HIDE DEF r
<1>2. PathMeans(text, last) =
        IF StartsTo(text, last) = {} \/ DotsPast(text, last) # {} THEN "none"
        ELSE IF NameTo(text, last) = <<>> /\ ExtTo(text, last) = <<>> THEN IndexHtm
        ELSE IF NameTo(text, last) = <<>> THEN "none"
        ELSE <<LowerCase(CString(NameTo(text, last), NameLength)),
               LowerCase(CString(ExtTo(text, last), ExtLength + 1))>>
  BY DEF PathMeans, StartsTo, DotsPast, DotAt, DotsTo, StartAt, NameTo, ExtTo, Dots
<1>3. r.waiting \in BOOLEAN
  BY <1>1 DEF PathRead, PathState
<1>4. r.waiting = TRUE <=> StartsTo(text, last) = {} \/ DotsPast(text, last) # {}
  BY <1>1, <1>3 DEF PathRead
<1>5. r.waiting = FALSE => r.name = NameTo(text, last) /\ r.ext = ExtTo(text, last)
  BY <1>1, <1>4 DEF PathRead
<1>6. CASE r.waiting = TRUE
  BY <1>2, <1>4, <1>6 DEF FileRead, r
<1>7. CASE r.waiting = FALSE
  BY <1>2, <1>4, <1>5, <1>7 DEF FileRead, r
<1> QED BY <1>3, <1>6, <1>7

-----------------------------------------------------------------------------
(* The inputs *)

LEMMA SpacedIs ==
  ASSUME NEW text \in Seq(Byte)
  PROVE  /\ Spaced(text) \in Seq(Byte) /\ Len(Spaced(text)) = Len(text)
         /\ \A i \in 1..Len(text) :
              /\ Swallowed(Spaced(text), i) <=> Swallowed(text, i)
              /\ ~Swallowed(text, i) =>
                   Character(Spaced(text), i) = IF Plain(text, i, Char.plus) THEN Char.space
                                                ELSE Character(text, i)
<1> DEFINE t == Spaced(text)
<1>1. t \in Seq(Byte) /\ Len(t) = Len(text)
      /\ \A i \in 1..Len(text) : t[i] = IF Plain(text, i, Char.plus) THEN Char.space ELSE text[i]
  <2>1. Char.space \in Byte
    BY CharValues DEF Byte
  <2>2. t = [i \in 1..Len(text) |-> IF Plain(text, i, Char.plus) THEN Char.space ELSE text[i]]
    BY DEF Spaced
  <2> HIDE DEF t
  <2> QED BY <2>1, <2>2
<1> HIDE DEF t
<1>2. \A i \in 1..Len(text) : Plain(text, i, Char.plus) => text[i] = Char.plus /\ ~Swallowed(text, i)
  BY DEF Plain
<1>3. \A i \in 1..Len(text) : t[i] = Char.percent <=> text[i] = Char.percent
  BY <1>1, <1>2, CharValues
<1>4. ASSUME NEW i \in 1..Len(text), NEW k \in 1..2
      PROVE  Buffered(t, i, k) = Char.percent <=> Buffered(text, i, k) = Char.percent
  <2>1. CASE i > k
    <3>1. i - k \in 1..Len(text)
      BY <2>1
    <3> QED BY <1>3, <2>1, <3>1 DEF Buffered
  <2>2. CASE ~(i > k)
    BY <2>2 DEF Buffered
  <2> QED BY <2>1, <2>2
<1>5. \A i \in 1..Len(text) : /\ Swallowed(t, i) <=> Swallowed(text, i)
                              /\ Escaped(t, i) <=> Escaped(text, i)
  BY <1>3, <1>4 DEF Swallowed, Escaped
<1>6. ASSUME NEW i \in 1..Len(text), ~Swallowed(text, i)
      PROVE  Character(t, i) = IF Plain(text, i, Char.plus) THEN Char.space ELSE Character(text, i)
  <2>1. CASE Escaped(text, i)
    <3>1. i > 2 /\ text[i - 2] = Char.percent
      BY <2>1, CharValues DEF Escaped, Buffered
    <3>2. i - 1 \in 1..Len(text) /\ (i - 1) - 1 = i - 2 /\ i - 1 > 1
      BY <3>1
    <3>3. Swallowed(text, i - 1)
      BY <3>1, <3>2 DEF Swallowed, Buffered
    <3>4. t[i - 1] = text[i - 1] /\ t[i] = text[i] /\ ~Plain(text, i, Char.plus)
      BY <1>1, <2>1, <3>2, <3>3 DEF Plain
    <3> QED BY <1>5, <2>1, <3>4 DEF Character
  <2>2. CASE ~Escaped(text, i)
    BY <1>1, <1>5, <2>2 DEF Character, Plain
  <2> QED BY <2>1, <2>2
<1> QED BY <1>1, <1>5, <1>6 DEF t

Ampersands(text)  == {i \in DOMAIN text : text[i] = Char.and}
Equals(text) == Places(text, Char.equals)
Stops(text) == Spaces(text) \cup Wrong(text)
Inputs(text, n) == FlattenSeq([i \in 1..n |-> InputBefore(text, i)])

\* A part of the inputs with one place more.
LEMMA PartStep ==
  ASSUME NEW text \in Seq(Byte), NEW from \in 1..(Len(text) + 1), NEW to \in Nat,
         from <= to + 1, to + 1 <= Len(text)
  PROVE  InputPart(text, from, to + 1) =
           IF Swallowed(text, to + 1) THEN InputPart(text, from, to)
           ELSE Put(InputPart(text, from, to),
                    IF Plain(text, to + 1, Char.plus) THEN Char.space ELSE Character(text, to + 1),
                    InputLength)
<1> DEFINE t == Spaced(text)
<1>1. t \in Seq(Byte) /\ Len(t) = Len(text)
  BY SpacedIs
<1>2. to + 1 \in 1..Len(text)
  OBVIOUS
<1>3. /\ Swallowed(t, to + 1) <=> Swallowed(text, to + 1)
      /\ ~Swallowed(text, to + 1) =>
           Character(t, to + 1) = IF Plain(text, to + 1, Char.plus) THEN Char.space
                                  ELSE Character(text, to + 1)
  BY <1>2, SpacedIs
<1> HIDE DEF t
<1>4. FirstOf(Characters(t, from, to + 1), InputLength) =
        IF Swallowed(t, to + 1) THEN FirstOf(Characters(t, from, to), InputLength)
        ELSE Put(FirstOf(Characters(t, from, to), InputLength), Character(t, to + 1), InputLength)
  BY <1>1, FirstStep, Lengths
<1> QED BY <1>3, <1>4 DEF InputPart, t

LEMMA PartNone ==
  ASSUME NEW text, NEW from \in Int, NEW to \in Int, to < from
  PROVE  InputPart(text, from, to) = <<>>
BY CharactersNone, FirstOfNone, Lengths DEF InputPart

\* An input starts behind the last '&'.
LEMMA InputStartIs ==
  ASSUME NEW text \in Seq(Byte), NEW n \in Nat, n <= Len(text)
  PROVE  /\ InputStart(text, n + 1) \in 1..(n + 1)
         /\ n + 1 <= Len(text) =>
              InputStart(text, (n + 1) + 1) = IF n + 1 \in Ampersands(text) THEN (n + 1) + 1
                                              ELSE InputStart(text, n + 1)
<1> DEFINE T(m) == {0} \cup {k \in 1..m : text[k] = Char.and}
<1>1. InputStart(text, n + 1) = Max(T(n)) + 1
  <2>1. (n + 1) - 1 = n
    OBVIOUS
  <2> QED BY <2>1 DEF InputStart
<1>2. InputStart(text, (n + 1) + 1) = Max(T(n + 1)) + 1
  <2>1. ((n + 1) + 1) - 1 = n + 1
    OBVIOUS
  <2> QED BY <2>1 DEF InputStart
<1>3. T(n) \subseteq 0..n /\ T(n) # {} /\ T(n + 1) \subseteq 0..(n + 1)
  OBVIOUS
<1>4. Max(T(n)) \in T(n)
  <2> HIDE DEF T
  <2> QED BY <1>3, MaxIs
<1>5. Max(T(n)) \in 0..n
  <2> HIDE DEF T
  <2> QED BY <1>3, <1>4
<1>6. ASSUME n + 1 <= Len(text), n + 1 \in Ampersands(text)
      PROVE  Max(T(n + 1)) = n + 1
  <2>1. n + 1 \in T(n + 1)
    BY <1>6 DEF Ampersands
  <2>2. T(n + 1) \subseteq Nat /\ \A y \in T(n + 1) : y <= n + 1
    OBVIOUS
  <2> HIDE DEF T
  <2> QED BY <2>1, <2>2, MaxUnique
<1>7. ASSUME n + 1 <= Len(text), n + 1 \notin Ampersands(text)
      PROVE  T(n + 1) = T(n)
  <2>1. text[n + 1] # Char.and
    BY <1>7 DEF Ampersands
  <2> QED BY <2>1
<1> HIDE DEF T
<1> QED BY <1>1, <1>2, <1>5, <1>6, <1>7

\* within an input, and behind its end
LEMMA SameInput ==
  ASSUME NEW text \in Seq(Byte), NEW n \in Nat, n + 1 <= Len(text), n + 1 \notin Ampersands(text)
  PROVE  /\ InputStart(text, (n + 1) + 1) = InputStart(text, n + 1)
         /\ InputStart(text, n + 1) \in 1..(n + 1)
<1>1. n <= Len(text)
  OBVIOUS
<1> QED BY <1>1, InputStartIs

InputState(s) ==
  /\ {"name", "value", "reading", "calls", "done", "error"} \subseteq DOMAIN s
  /\ s.reading \in BOOLEAN /\ s.done \in BOOLEAN /\ s.error \in BOOLEAN

\* what has been read of the inputs with their first n bytes
Unstopped(text, n, s) ==
  /\ s.done = FALSE /\ s.error = FALSE
  /\ s.reading = (EqualsIn(text, n + 1) = {})
  /\ s.name = InputName(text, n + 1) /\ s.value = InputValue(text, n + 1)
  /\ s.calls = Inputs(text, n)
Stopped(text, s) ==
  /\ s.done = (Min(Stops(text)) \in Spaces(text)) /\ s.error = ~s.done
  /\ s.calls = Inputs(text, Min(Stops(text)))
InputsRead(text, n, s) ==
  /\ InputState(s)
  /\ Within(Stops(text), 1, n) = {} => Unstopped(text, n, s)
  /\ Within(Stops(text), 1, n) # {} => Stopped(text, s)

LEMMA InputsNone == ASSUME NEW text PROVE Inputs(text, 0) = <<>>
<1> DEFINE q == [i \in 1..0 |-> InputBefore(text, i)]
<1>1. q = <<>>
  OBVIOUS
<1> QED BY <1>1, FlattenEmpty DEF Inputs

LEMMA InputsStep ==
  ASSUME NEW text \in Seq(Byte), NEW n \in Nat
  PROVE  Inputs(text, n + 1) = Inputs(text, n) \o InputBefore(text, n + 1)
         /\ Inputs(text, n) \o <<>> = Inputs(text, n)
         /\ \E T : Inputs(text, n) \in Seq(T)
<1> DEFINE Call(i) == <<CString(InputName(text, i), InputLength), CString(InputValue(text, i), InputLength)>>
           S == {Call(i) : i \in 1..(n + 1)}
           R == Seq(S)
           q == [i \in 1..n |-> InputBefore(text, i)]
           p == [i \in 1..(n + 1) |-> InputBefore(text, i)]
<1>1. \A i \in 1..(n + 1) : InputBefore(text, i) \in R
  <2> SUFFICES ASSUME NEW i \in 1..(n + 1) PROVE InputBefore(text, i) \in R
    OBVIOUS
  <2>1. Call(i) \in S
    OBVIOUS
  <2>2. <<Call(i)>> \in R /\ <<>> \in R
    <3> HIDE DEF S, Call
    <3> QED BY <2>1
  <2> HIDE DEF R
  <2> QED BY <2>2 DEF InputBefore
<1> HIDE DEF R
<1>2. \A i \in 1..n : i \in 1..(n + 1)
  OBVIOUS
<1>3. q \in [1..n -> R]
  BY <1>1, <1>2
<1>4. q \in Seq(R) /\ Len(q) = n
  <2> HIDE DEF q
  <2> QED BY <1>3
<1>5. p = Append(q, InputBefore(text, n + 1)) /\ InputBefore(text, n + 1) \in R
  BY <1>1, <1>4
<1> HIDE DEF q, p, S
<1>6. FlattenSeq(p) = FlattenSeq(q) \o InputBefore(text, n + 1) /\ FlattenSeq(q) \in Seq(S)
  BY <1>4, <1>5, FlattenStep, FlattenType DEF R
<1>7. FlattenSeq(q) \o <<>> = FlattenSeq(q)
  BY <1>6
<1>8. Inputs(text, n) = FlattenSeq(q) /\ Inputs(text, n + 1) = FlattenSeq(p)
  BY DEF Inputs, q, p
<1> QED BY <1>6, <1>7, <1>8

LEMMA PlaceSorts ==
  ASSUME NEW text \in Seq(Byte), NEW m \in 1..Len(text)
  PROVE  /\ m \in Spaces(text) <=> text[m] = Char.space
         /\ m \in Ampersands(text) <=> text[m] = Char.and
         /\ m \in Equals(text) <=> Plain(text, m, Char.equals)
         /\ ~(m \in Spaces(text) /\ m \in Ampersands(text))
         /\ m \in Equals(text) => m \notin Spaces(text) /\ m \notin Ampersands(text)
                                  /\ ~Swallowed(text, m) /\ ~Plain(text, m, Char.plus)
         /\ m \in Wrong(text) <=> m \in Equals(text) /\ EqualsIn(text, m) # {}
BY CharValues DEF Spaces, Ampersands, Equals, Places, Plain, Wrong

\* Where the value of the input before a place starts, seen from a place further on.
LEMMA EqualsStep ==
  ASSUME NEW text \in Seq(Byte), NEW n \in Nat, n + 1 <= Len(text), n + 1 \notin Ampersands(text)
  PROVE  EqualsIn(text, (n + 1) + 1) =
           EqualsIn(text, n + 1) \cup (IF n + 1 \in Equals(text) THEN {n + 1} ELSE {})
<1>1. InputStart(text, (n + 1) + 1) = InputStart(text, n + 1)
      /\ InputStart(text, n + 1) \in 1..(n + 1)
  BY SameInput
<1>2. Equals(text) \subseteq Nat
  BY PlacesIn DEF Equals
<1>3. ((n + 1) + 1) - 1 = n + 1 /\ (n + 1) - 1 = n
  OBVIOUS
<1>4. EqualsIn(text, (n + 1) + 1) = Within(Equals(text), InputStart(text, n + 1), n + 1)
      /\ EqualsIn(text, n + 1) = Within(Equals(text), InputStart(text, n + 1), n)
  BY <1>1, <1>3 DEF EqualsIn, Equals
<1> QED BY <1>1, <1>2, <1>4 DEF Within

LEMMA MiddleIs ==
  ASSUME NEW text \in Seq(Byte), NEW n \in Nat, n <= Len(text)
  PROVE  /\ EqualsIn(text, n + 1) \subseteq InputStart(text, n + 1)..n
         /\ EqualsIn(text, n + 1) = {} => Middle(text, n + 1) = n + 1
         /\ EqualsIn(text, n + 1) # {} =>
              /\ Middle(text, n + 1) \in EqualsIn(text, n + 1)
              /\ \A e \in EqualsIn(text, n + 1) : Middle(text, n + 1) <= e
<1>1. EqualsIn(text, n + 1) \subseteq InputStart(text, n + 1)..n
  BY DEF EqualsIn, Within
<1>2. EqualsIn(text, n + 1) \subseteq Nat
  BY <1>1, InputStartIs
<1> QED BY <1>1, <1>2, MinIs DEF Middle

\* An '&' behind which the next input starts.
LEMMA InputEnded ==
  ASSUME NEW text \in Seq(Byte), NEW n \in Nat, n + 1 <= Len(text), n + 1 \in Ampersands(text)
  PROVE  /\ EqualsIn(text, (n + 1) + 1) = {}
         /\ InputName(text, (n + 1) + 1) = <<>> /\ InputValue(text, (n + 1) + 1) = <<>>
<1> DEFINE m == n + 1
<1>1. InputStart(text, m + 1) = m + 1
  BY InputStartIs
<1>2. EqualsIn(text, m + 1) = {}
  <2>1. (m + 1) - 1 = m
    OBVIOUS
  <2> QED BY <1>1, <2>1 DEF EqualsIn, Within
<1>3. Middle(text, m + 1) = m + 1
  BY <1>2 DEF Middle
<1>4. InputPart(text, m + 1, (m + 1) - 1) = <<>> /\ InputPart(text, (m + 1) + 1, (m + 1) - 1) = <<>>
  BY PartNone
<1> QED BY <1>1, <1>2, <1>3, <1>4 DEF InputName, InputValue

\* A byte inside an input.
LEMMA InputLetter ==
  ASSUME NEW text \in Seq(Byte), NEW n \in Nat, n + 1 <= Len(text),
         n + 1 \notin Ampersands(text), n + 1 \notin Equals(text)
  PROVE  LET m == n + 1
             c == IF Plain(text, m, Char.plus) THEN Char.space ELSE Character(text, m)
         IN /\ EqualsIn(text, m + 1) = EqualsIn(text, m)
            /\ InputName(text, m + 1) = IF Swallowed(text, m) \/ EqualsIn(text, m) # {}
                                        THEN InputName(text, m)
                                        ELSE Put(InputName(text, m), c, InputLength)
            /\ InputValue(text, m + 1) = IF Swallowed(text, m) \/ EqualsIn(text, m) = {}
                                         THEN InputValue(text, m)
                                         ELSE Put(InputValue(text, m), c, InputLength)
<1> DEFINE m == n + 1
           c == IF Plain(text, m, Char.plus) THEN Char.space ELSE Character(text, m)
           st == InputStart(text, m)
           E == EqualsIn(text, m)
           e == Middle(text, m)
<1>1. EqualsIn(text, m + 1) = E
  <2>1. EqualsIn(text, (n + 1) + 1) =
          EqualsIn(text, n + 1) \cup (IF n + 1 \in Equals(text) THEN {n + 1} ELSE {})
    BY EqualsStep
  <2> QED BY <2>1
<1>2. InputStart(text, m + 1) = st /\ st \in 1..m
  BY SameInput
<1>3. /\ E \subseteq st..n
      /\ E = {} => e = m
      /\ E # {} => e \in E
  BY MiddleIs
<1>4. Middle(text, m + 1) = IF E = {} THEN m + 1 ELSE e
  BY <1>1 DEF Middle
<1>5. CASE E = {}
  <2>1. (m + 1) - 1 = m /\ e - 1 = n /\ m - 1 = n
    BY <1>3, <1>5
  <2>2. InputName(text, m + 1) = InputPart(text, st, n + 1)
    BY <1>2, <1>4, <1>5, <2>1 DEF InputName
  <2>3. InputName(text, m) = InputPart(text, st, n)
    BY <2>1 DEF InputName
  <2>4. st \in 1..(Len(text) + 1) /\ st <= n + 1
    BY <1>2
  <2>5. InputPart(text, st, n + 1) = IF Swallowed(text, n + 1) THEN InputPart(text, st, n)
                                     ELSE Put(InputPart(text, st, n), c, InputLength)
    BY <2>4, PartStep
  <2>6. InputValue(text, m + 1) = <<>> /\ InputValue(text, m) = <<>>
    <3>1. InputPart(text, (m + 1) + 1, m) = <<>> /\ InputPart(text, m + 1, n) = <<>>
      BY PartNone
    <3> QED BY <1>3, <1>4, <1>5, <2>1, <3>1 DEF InputValue
  <2> HIDE DEF c, E
  <2> QED BY <1>1, <1>5, <2>2, <2>3, <2>5, <2>6 DEF c, E
<1>6. CASE E # {}
  <2>1. e \in st..n /\ (m + 1) - 1 = m /\ m - 1 = n
    BY <1>3, <1>6
  <2>2. InputName(text, m + 1) = InputName(text, m)
    BY <1>2, <1>4, <1>6 DEF InputName
  <2>3. InputValue(text, m + 1) = InputPart(text, e + 1, n + 1)
    BY <1>4, <1>6, <2>1 DEF InputValue
  <2>4. InputValue(text, m) = InputPart(text, e + 1, n)
    BY <2>1 DEF InputValue
  <2>5. e + 1 \in 1..(Len(text) + 1) /\ e + 1 <= n + 1
    BY <1>2, <2>1
  <2>6. InputPart(text, e + 1, n + 1) = IF Swallowed(text, n + 1) THEN InputPart(text, e + 1, n)
                                        ELSE Put(InputPart(text, e + 1, n), c, InputLength)
    BY <2>5, PartStep
  <2> QED BY <1>1, <1>6, <2>2, <2>3, <2>4, <2>6
<1> QED BY <1>5, <1>6

\* The '=' between a name and its value.
LEMMA InputNamed ==
  ASSUME NEW text \in Seq(Byte), NEW n \in Nat, n + 1 <= Len(text),
         n + 1 \in Equals(text), EqualsIn(text, n + 1) = {}
  PROVE  /\ EqualsIn(text, (n + 1) + 1) # {}
         /\ InputName(text, (n + 1) + 1) = InputName(text, n + 1)
         /\ InputValue(text, (n + 1) + 1) = <<>>
<1> DEFINE m == n + 1
<1>1. m \notin Ampersands(text)
  <2>1. m \in 1..Len(text)
    OBVIOUS
  <2> QED BY <2>1, PlaceSorts
<1>2. EqualsIn(text, m + 1) = {m}
  BY <1>1, EqualsStep
<1>3. Middle(text, m + 1) = m
  <2>1. {m} \subseteq Nat /\ m \in {m} /\ \A y \in {m} : m <= y
    OBVIOUS
  <2>2. Min({m}) = m
    <3> HIDE DEF m
    <3> QED BY <2>1, MinUnique
  <2> QED BY <1>2, <2>2 DEF Middle
<1>4. Middle(text, m) = m
  BY DEF Middle
<1>5. InputStart(text, m + 1) = InputStart(text, m)
  BY <1>1, SameInput
<1>6. InputPart(text, m + 1, (m + 1) - 1) = <<>>
  BY PartNone
<1> QED BY <1>2, <1>3, <1>4, <1>5, <1>6 DEF InputName, InputValue

\* the first place where reading stops
LEMMA FirstStop ==
  ASSUME NEW text \in Seq(Byte), NEW n \in Nat
  PROVE  /\ Stops(text) \subseteq 1..Len(text)
         /\ Within(Stops(text), 1, n) = {} /\ n + 1 \notin Stops(text) =>
              Within(Stops(text), 1, n + 1) = {}
         /\ Within(Stops(text), 1, n) = {} /\ n + 1 \in Stops(text) =>
              Within(Stops(text), 1, n + 1) # {} /\ Min(Stops(text)) = n + 1
         /\ Within(Stops(text), 1, n) # {} => Within(Stops(text), 1, n + 1) # {}
<1>1. Stops(text) \subseteq 1..Len(text)
  <2>1. Wrong(text) \subseteq 1..Len(text)
    BY PlacesIn DEF Wrong
  <2>2. Spaces(text) \subseteq 1..Len(text)
    BY DEF Spaces
  <2> QED BY <2>1, <2>2 DEF Stops
<1>2. Stops(text) \subseteq Nat
  BY <1>1
<1>3. ASSUME Within(Stops(text), 1, n) = {}, n + 1 \in Stops(text)
      PROVE  Min(Stops(text)) = n + 1
  <2>1. \A y \in Stops(text) : n + 1 <= y
    BY <1>1, <1>3 DEF Within
  <2> QED BY <1>2, <1>3, <2>1, MinUnique
<1> QED BY <1>1, <1>3 DEF Within

\* An input is handed over when its end is read.
LEMMA NextDoes ==
  ASSUME NEW text \in Seq(Byte), NEW n \in Nat, n + 1 <= Len(text), NEW s,
         InputState(s), Unstopped(text, n, s), text[n + 1] \in {Char.space, Char.and}
  PROVE  LET r == NextInput(s)
         IN /\ InputState(r) /\ r.name = <<>> /\ r.value = <<>> /\ r.reading = TRUE
            /\ r.calls = Inputs(text, n + 1) /\ r.done = FALSE /\ r.error = FALSE
<1> DEFINE m == n + 1
           r == NextInput(s)
           call == <<CString(InputName(text, m), InputLength), CString(InputValue(text, m), InputLength)>>
<1>1. /\ InputState(r) /\ r.name = <<>> /\ r.value = <<>> /\ r.reading = TRUE
      /\ r.done = FALSE /\ r.error = FALSE
  BY DEF NextInput, InputState, Unstopped
<1>2. r.calls = IF s.name = <<>> THEN s.calls
                ELSE Append(s.calls, <<CString(s.name, InputLength), CString(s.value, InputLength)>>)
  BY DEF NextInput, InputState
<1>3. s.name = InputName(text, m) /\ s.value = InputValue(text, m) /\ s.calls = Inputs(text, n)
  BY DEF Unstopped
<1>4. Inputs(text, m) = Inputs(text, n) \o InputBefore(text, m)
      /\ Inputs(text, n) \o <<>> = Inputs(text, n)
  BY InputsStep
<1>5. InputBefore(text, m) = IF s.name = <<>> THEN <<>> ELSE <<call>>
  BY <1>3 DEF InputBefore
<1>6. r.calls = IF s.name = <<>> THEN Inputs(text, n) ELSE Append(Inputs(text, n), call)
  BY <1>2, <1>3
<1> HIDE DEF call, r
<1>7. Append(Inputs(text, n), call) = Inputs(text, n) \o <<call>>
  <2>2. PICK S : Inputs(text, n) \in Seq(S)
    BY InputsStep
  <2>3. Inputs(text, n) \in Seq(S \cup {call})
    BY <2>2
  <2> QED BY <2>3
<1>8. r.calls = Inputs(text, m)
  BY <1>4, <1>5, <1>6, <1>7
<1> QED BY <1>1, <1>8 DEF r

\* A byte more of the inputs is read as it is meant.
LEMMA InputByteRead ==
  ASSUME NEW text \in Seq(Byte), NEW n \in Nat, n + 1 <= Len(text), NEW s,
         InputsRead(text, n, s)
  PROVE  InputsRead(text, n + 1, IF s.done \/ s.error THEN s ELSE ReadInputByte(s, text, n + 1))
<1> DEFINE m == n + 1
           r == ReadInputByte(s, text, m)
           X == [NextInput(s) EXCEPT !.done = TRUE]
           Q == [s EXCEPT !.reading = FALSE, !.value = <<>>, !.error = ~s.reading]
           P == AddInput(s, Char.space)
           A == AddInput(s, Character(text, m))
           c == IF Plain(text, m, Char.plus) THEN Char.space ELSE Character(text, m)
           E == EqualsIn(text, m)
<1>0. m \in 1..Len(text) /\ InputState(s)
  BY DEF InputsRead
<1>1. /\ m \in Spaces(text) <=> text[m] = Char.space
      /\ m \in Ampersands(text) <=> text[m] = Char.and
      /\ m \in Equals(text) <=> Plain(text, m, Char.equals)
      /\ ~(m \in Spaces(text) /\ m \in Ampersands(text))
      /\ m \in Equals(text) => m \notin Spaces(text) /\ m \notin Ampersands(text)
                               /\ ~Swallowed(text, m) /\ ~Plain(text, m, Char.plus)
      /\ m \in Wrong(text) <=> m \in Equals(text) /\ E # {}
  BY <1>0, PlaceSorts
<1>2. CASE Within(Stops(text), 1, n) # {}
  <2>1. s.done \/ s.error
    BY <1>0, <1>2 DEF InputsRead, Stopped, InputState
  <2>2. Within(Stops(text), 1, n + 1) # {}
    BY <1>2, FirstStop
  <2> QED BY <1>2, <2>1, <2>2 DEF InputsRead
<1>3. CASE Within(Stops(text), 1, n) = {}
  <2>1. Unstopped(text, n, s)
    BY <1>3 DEF InputsRead
  <2>2. s.done = FALSE /\ s.error = FALSE /\ s.reading = (E = {}) /\ s.reading \in BOOLEAN
        /\ s.name = InputName(text, m) /\ s.value = InputValue(text, m) /\ s.calls = Inputs(text, n)
    BY <1>0, <2>1 DEF Unstopped, InputState
  <2>3. SUFFICES InputsRead(text, m, r)
    BY <2>2
  <2>4. Inputs(text, m) = Inputs(text, n) \o InputBefore(text, m)
        /\ Inputs(text, n) \o <<>> = Inputs(text, n)
    BY InputsStep
  <2>5. m \notin Spaces(text) /\ m \notin Ampersands(text) => Inputs(text, m) = Inputs(text, n)
    <3> SUFFICES ASSUME m \notin Spaces(text) /\ m \notin Ampersands(text)
                 PROVE  InputBefore(text, m) = <<>>
      BY <2>4
    <3> QED BY <1>1 DEF InputBefore
  <2>6. m \in Stops(text) <=> m \in Spaces(text) \/ m \in Wrong(text)
    BY DEF Stops
  <2>7. r = CASE m \in Spaces(text) -> X
              [] m \in Ampersands(text) -> NextInput(s)
              [] m \notin Spaces(text) /\ m \notin Ampersands(text) /\ Swallowed(text, m) -> s
              [] m \in Equals(text) -> Q
              [] Plain(text, m, Char.plus) -> P
              [] OTHER -> A
    BY <1>1 DEF ReadInputByte
  <2>8. Plain(text, m, Char.plus) => ~Swallowed(text, m) /\ text[m] = Char.plus
    BY DEF Plain
  <2>9. Plain(text, m, Char.plus) => m \notin Spaces(text) /\ m \notin Ampersands(text)
    BY <1>1, <2>8, CharValues
  <2> HIDE DEF r
  <2>10. CASE m \in Spaces(text)
    <3>1. r = X
      BY <1>1, <2>7, <2>8, <2>9, <2>10
    <3>2. LET v == NextInput(s)
          IN /\ InputState(v) /\ v.calls = Inputs(text, m) /\ v.done = FALSE /\ v.error = FALSE
      BY <1>0, <1>1, <2>1, <2>10, NextDoes
    <3>3. InputState(r) /\ r.calls = Inputs(text, m) /\ r.done = TRUE /\ r.error = FALSE
      <4> DEFINE v == NextInput(s)
      <4> HIDE DEF v
      <4> QED BY <3>1, <3>2 DEF InputState, v
    <3>4. Within(Stops(text), 1, m) # {} /\ Min(Stops(text)) = m
      BY <1>3, <2>6, <2>10, FirstStop
    <3> QED BY <2>10, <3>3, <3>4 DEF InputsRead, Stopped
  <2>11. CASE m \in Ampersands(text)
    <3>1. r = NextInput(s)
      BY <1>1, <2>7, <2>8, <2>9, <2>11
    <3>2. /\ InputState(r) /\ r.name = <<>> /\ r.value = <<>> /\ r.reading = TRUE
          /\ r.calls = Inputs(text, m) /\ r.done = FALSE /\ r.error = FALSE
      BY <1>0, <1>1, <2>1, <2>11, <3>1, NextDoes
    <3>3. Within(Stops(text), 1, m) = {}
      BY <1>1, <1>3, <2>6, <2>11, FirstStop
    <3>4. /\ EqualsIn(text, m + 1) = {}
          /\ InputName(text, m + 1) = <<>> /\ InputValue(text, m + 1) = <<>>
      BY <2>11, InputEnded
    <3> QED BY <3>2, <3>3, <3>4 DEF InputsRead, Unstopped
  <2>12. CASE m \in Equals(text)
    <3>1. r = Q
      BY <1>1, <2>7, <2>8, <2>9, <2>12
    <3>2. InputState(r) /\ r.name = s.name /\ r.value = <<>> /\ r.reading = FALSE
          /\ r.calls = s.calls /\ r.done = FALSE /\ r.error = (E # {})
      <4> HIDE DEF E
      <4> QED BY <1>0, <2>2, <3>1 DEF InputState
    <3>3. Inputs(text, m) = Inputs(text, n)
      BY <1>1, <2>5, <2>12
    <3>4. CASE E = {}
      <4>1. Within(Stops(text), 1, m) = {}
        BY <1>1, <1>3, <2>6, <2>12, <3>4, FirstStop
      <4>2. /\ EqualsIn(text, m + 1) # {} /\ InputName(text, m + 1) = InputName(text, m)
            /\ InputValue(text, m + 1) = <<>>
        BY <2>12, <3>4, InputNamed
      <4> QED BY <2>2, <3>2, <3>3, <3>4, <4>1, <4>2 DEF InputsRead, Unstopped
    <3>5. CASE E # {}
      <4>1. Within(Stops(text), 1, m) # {} /\ Min(Stops(text)) = m
        BY <1>1, <1>3, <2>6, <2>12, <3>5, FirstStop
      <4>2. m \notin Spaces(text)
        BY <1>1, <2>12
      <4>3. r.done = FALSE /\ r.error = TRUE /\ r.calls = Inputs(text, m)
        BY <2>2, <3>2, <3>3, <3>5
      <4>4. Stopped(text, r)
        <5> DEFINE b == Min(Stops(text)) \in Spaces(text)
        <5>1. b = FALSE
          BY <4>1, <4>2
        <5>2. r.calls = Inputs(text, Min(Stops(text)))
          BY <4>1, <4>3
        <5> HIDE DEF m, b
        <5>3. r.done = b /\ r.error = ~r.done
          BY <4>3, <5>1
        <5> QED BY <5>2, <5>3 DEF Stopped, b
      <4>5. ~(Within(Stops(text), 1, m) = {})
        BY <4>1
      <4> HIDE DEF m
      <4> QED BY <3>2, <4>4, <4>5 DEF InputsRead
    <3> QED BY <3>4, <3>5
  <2>13. CASE m \notin Spaces(text) /\ m \notin Ampersands(text) /\ m \notin Equals(text)
    <3>1. r = IF Swallowed(text, m) THEN s ELSE AddInput(s, c)
      BY <2>7, <2>8, <2>13
    <3>2. /\ InputState(r) /\ r.reading = s.reading /\ r.calls = s.calls
          /\ r.done = FALSE /\ r.error = FALSE
          /\ r.name = IF Swallowed(text, m) \/ E # {} THEN s.name ELSE Put(s.name, c, InputLength)
          /\ r.value = IF Swallowed(text, m) \/ E = {} THEN s.value ELSE Put(s.value, c, InputLength)
      <4> HIDE DEF c, E
      <4> QED BY <1>0, <2>2, <3>1 DEF InputState, AddInput
    <3>3. Within(Stops(text), 1, m) = {}
      BY <1>1, <1>3, <2>6, <2>13, FirstStop
    <3>4. /\ EqualsIn(text, m + 1) = E
          /\ InputName(text, m + 1) = IF Swallowed(text, m) \/ E # {} THEN InputName(text, m)
                                      ELSE Put(InputName(text, m), c, InputLength)
          /\ InputValue(text, m + 1) = IF Swallowed(text, m) \/ E = {} THEN InputValue(text, m)
                                       ELSE Put(InputValue(text, m), c, InputLength)
      BY <2>13, InputLetter
    <3>5. Inputs(text, m) = Inputs(text, n)
      BY <2>5, <2>13
    <3> HIDE DEF c, E, m
    <3> QED BY <2>2, <3>2, <3>3, <3>4, <3>5 DEF InputsRead, Unstopped
  <2> QED BY <2>10, <2>11, <2>12, <2>13
<1> QED BY <1>2, <1>3

\* http_process_inputs is what its recursion says.
LEMMA InputsRun ==
  ASSUME NEW text \in Seq(Byte)
  PROVE  \E read :
           /\ read[0] = [name |-> <<>>, value |-> <<>>, reading |-> TRUE, calls |-> <<>>,
                         done |-> FALSE, error |-> FALSE]
           /\ \A n \in 1..Len(text) :
                read[n] = IF read[n - 1].done \/ read[n - 1].error THEN read[n - 1]
                          ELSE ReadInputByte(read[n - 1], text, n)
           /\ http_process_inputs(text) = read[Len(text)]
<1> DEFINE start == [name |-> <<>>, value |-> <<>>, reading |-> TRUE, calls |-> <<>>,
                     done |-> FALSE, error |-> FALSE]
           Step(s, n) == IF s.done \/ s.error THEN s ELSE ReadInputByte(s, text, n)
           length == Len(text)
           Is(f, n) == /\ DOMAIN f = 0..n /\ f = [i \in 0..n |-> f[i]] /\ f[0] = start
                       /\ \A i \in 1..n : f[i] = Step(f[i - 1], i)
           Right(n) == \E f : Is(f, n)
           F == CHOOSE g : g = [n \in 0..length |-> IF n = 0 THEN start ELSE Step(g[n - 1], n)]
<1>0. length \in Nat
  OBVIOUS
<1>5. http_process_inputs(text) = F[length]
  BY DEF http_process_inputs
<1> HIDE DEF F
<1>6. SUFFICES F[0] = start /\ \A n \in 1..length : F[n] = Step(F[n - 1], n)
  BY <1>5
<1> HIDE DEF Step, start, length
<1>1. Right(0)
  <2> DEFINE f == [i \in 0..0 |-> start]
  <2>1. Is(f, 0)
    OBVIOUS
  <2> QED BY <2>1
<1>2. ASSUME NEW n \in Nat, Right(n) PROVE Right(n + 1)
  <2>1. PICK f : Is(f, n)
    BY <1>2
  <2> DEFINE x == Step(f[n], n + 1)
             g == [i \in 0..(n + 1) |-> IF i = n + 1 THEN x ELSE f[i]]
  <2>2. DOMAIN g = 0..(n + 1) /\ g = [i \in 0..(n + 1) |-> g[i]] /\ g[0] = start
    <3> HIDE DEF x
    <3> QED BY <2>1
  <2>3. ASSUME NEW i \in 1..(n + 1) PROVE g[i] = Step(g[i - 1], i)
    <3>1. CASE i \in 1..n
      <4>1. f[i] = Step(f[i - 1], i)
        BY <2>1, <3>1
      <4>2. g[i] = f[i] /\ g[i - 1] = f[i - 1]
        <5> HIDE DEF x
        <5> QED BY <3>1
      <4> HIDE DEF g
      <4> QED BY <4>1, <4>2
    <3>2. CASE i = n + 1
      <4>1. g[i] = x /\ g[i - 1] = f[n]
        <5> HIDE DEF x
        <5> QED BY <3>2
      <4> HIDE DEF g
      <4> QED BY <4>1, <3>2
    <3> QED BY <3>1, <3>2
  <2> HIDE DEF g
  <2>4. Is(g, n + 1)
    BY <2>2, <2>3
  <2> QED BY <2>4
<1> HIDE DEF Right
<1>3. Right(length)
  <2> DEFINE T == {n \in 0..length : ~Right(n)}
  <2> SUFFICES ASSUME T # {} PROVE FALSE
    BY <1>0
  <2>0. T \subseteq Nat
    OBVIOUS
  <2>1. PICK n \in T : \A m \in T : n <= m
    <3> HIDE DEF T
    <3> QED BY <2>0, LeastOf
  <2>2. n \in Nat /\ n # 0 /\ n <= length /\ ~Right(n)
    BY <1>0, <1>1
  <2>3. Right(n - 1)
    BY <1>0, <2>1, <2>2
  <2>4. Right((n - 1) + 1)
    <3>1. n - 1 \in Nat
      BY <2>2
    <3> QED BY <2>3, <3>1, <1>2
  <2>5. (n - 1) + 1 = n
    BY <2>2
  <2> QED BY <2>2, <2>4, <2>5
<1>4. F = [n \in 0..length |-> IF n = 0 THEN start ELSE Step(F[n - 1], n)]
  <2>1. PICK f : Is(f, length)
    BY <1>3 DEF Right
  <2>2. f = [n \in 0..length |-> IF n = 0 THEN start ELSE Step(f[n - 1], n)]
    <3>1. \A n \in 0..length : f[n] = IF n = 0 THEN start ELSE Step(f[n - 1], n)
      <4> SUFFICES ASSUME NEW n \in 0..length
                   PROVE  f[n] = IF n = 0 THEN start ELSE Step(f[n - 1], n)
        OBVIOUS
      <4>1. n = 0 \/ n \in 1..length
        BY <1>0
      <4> QED BY <2>1, <4>1
    <3>2. f = [n \in 0..length |-> f[n]]
      BY <2>1
    <3> HIDE DEF Is
    <3> QED BY <3>1, <3>2
  <2> QED BY <2>2 DEF F
<1> QED BY <1>0, <1>4

\* However long the inputs, what has been read of them is what they mean.
LEMMA InputsAreRead ==
  ASSUME NEW text \in Seq(Byte)
  PROVE  InputsRead(text, Len(text), http_process_inputs(text))
<1> DEFINE length == Len(text)
<1>1. PICK read :
        /\ read[0] = [name |-> <<>>, value |-> <<>>, reading |-> TRUE, calls |-> <<>>,
                      done |-> FALSE, error |-> FALSE]
        /\ \A n \in 1..length :
             read[n] = IF read[n - 1].done \/ read[n - 1].error THEN read[n - 1]
                       ELSE ReadInputByte(read[n - 1], text, n)
        /\ http_process_inputs(text) = read[length]
  BY InputsRun
<1>0. length \in Nat
  OBVIOUS
<1> DEFINE Right(n) == InputsRead(text, n, read[n])
<1>2. Right(0)
  <2>1. Within(Stops(text), 1, 0) = {}
    BY DEF Within
  <2>2. InputStart(text, 0 + 1) = 1
    <3>1. {0} \cup {k \in 1..((0 + 1) - 1) : text[k] = Char.and} = {0}
      OBVIOUS
    <3>2. Max({0}) = 0
      <4>1. {0} \subseteq Nat /\ 0 \in {0} /\ \A y \in {0} : y <= 0
        OBVIOUS
      <4> QED BY <4>1, MaxUnique
    <3> QED BY <3>1, <3>2 DEF InputStart
  <2>3. EqualsIn(text, 0 + 1) = {}
    BY <2>2 DEF EqualsIn, Within
  <2>4. Middle(text, 0 + 1) = 1
    BY <2>3 DEF Middle
  <2>5. InputPart(text, 1, 1 - 1) = <<>> /\ InputPart(text, 1 + 1, (0 + 1) - 1) = <<>>
    BY PartNone
  <2>6. InputName(text, 0 + 1) = <<>> /\ InputValue(text, 0 + 1) = <<>>
    BY <2>2, <2>4, <2>5 DEF InputName, InputValue
  <2>7. Inputs(text, 0) = <<>>
    BY InputsNone
  <2>8. InputState(read[0])
    BY <1>1 DEF InputState
  <2>9. Unstopped(text, 0, read[0])
    <3> DEFINE x == read[0]
    <3>1. /\ x.done = FALSE /\ x.error = FALSE /\ x.reading = TRUE
          /\ x.name = <<>> /\ x.value = <<>> /\ x.calls = <<>>
      BY <1>1
    <3> HIDE DEF x
    <3>2. x.reading = (EqualsIn(text, 0 + 1) = {})
      BY <2>3, <3>1
    <3>3. x.name = InputName(text, 0 + 1) /\ x.value = InputValue(text, 0 + 1)
          /\ x.calls = Inputs(text, 0)
      BY <2>6, <2>7, <3>1
    <3>4. Unstopped(text, 0, x)
      BY <3>1, <3>2, <3>3 DEF Unstopped
    <3> QED BY <3>4 DEF x
  <2> QED BY <2>1, <2>8, <2>9 DEF InputsRead
<1>3. ASSUME NEW n \in Nat, n + 1 <= length, Right(n) PROVE Right(n + 1)
  <2>1. n + 1 \in 1..length /\ (n + 1) - 1 = n
    BY <1>0, <1>3
  <2>2. read[n + 1] = IF read[n].done \/ read[n].error THEN read[n]
                      ELSE ReadInputByte(read[n], text, n + 1)
    BY <1>1, <2>1
  <2> QED BY <1>3, <2>2, InputByteRead
<1> HIDE DEF Right, length
<1>4. Right(length)
  <2> DEFINE T == {n \in 0..length : ~Right(n)}
  <2> SUFFICES ASSUME T # {} PROVE FALSE
    BY <1>0
  <2>0. T \subseteq Nat
    OBVIOUS
  <2>1. PICK n \in T : \A m \in T : n <= m
    <3> HIDE DEF T
    <3> QED BY <2>0, LeastOf
  <2>2. n \in Nat /\ n # 0 /\ n <= length /\ ~Right(n)
    BY <1>0, <1>2
  <2>3. Right(n - 1)
    BY <1>0, <2>1, <2>2
  <2>4. Right((n - 1) + 1)
    <3>1. n - 1 \in Nat /\ (n - 1) + 1 <= length
      BY <1>0, <2>2
    <3> QED BY <2>3, <3>1, <1>3
  <2>5. (n - 1) + 1 = n
    BY <2>2
  <2> QED BY <2>2, <2>4, <2>5
<1> QED BY <1>1, <1>4 DEF Right, length

\* So the application is given the inputs the query means.
LEMMA InputsAreMeant ==
  ASSUME NEW text \in Seq(Byte)
  PROVE  LET r == http_process_inputs(text)
         IN r.done = InputsMean(text).ok /\ r.calls = InputsMean(text).calls
<1> DEFINE r == http_process_inputs(text)
           length == Len(text)
           last == IF Stops(text) = {} THEN length ELSE Min(Stops(text))
<1>1. InputsRead(text, length, r)
  BY InputsAreRead
<1>2. length \in Nat /\ Stops(text) \subseteq 1..length
  BY FirstStop
<1>3. Within(Stops(text), 1, length) = Stops(text)
  BY <1>2 DEF Within
<1>4. InputsMean(text) = [ok |-> last \in Spaces(text), calls |-> Inputs(text, last)]
  BY DEF InputsMean, Stops, Inputs
<1> HIDE DEF r
<1>5. CASE Stops(text) = {}
  <2>1. Unstopped(text, length, r)
    BY <1>1, <1>3, <1>5 DEF InputsRead
  <2>2. r.done = FALSE /\ r.calls = Inputs(text, length)
    BY <2>1 DEF Unstopped
  <2>3. last = length /\ length \notin Spaces(text)
    BY <1>5 DEF Stops
  <2> HIDE DEF last, length
  <2>4. InputsMean(text).ok = (last \in Spaces(text)) /\ InputsMean(text).calls = Inputs(text, last)
    BY <1>4
  <2> DEFINE b == last \in Spaces(text)
  <2>6. InputsMean(text).ok = FALSE
    <3>1. last \notin Spaces(text)
      BY <2>3
    <3>2. b = FALSE
      BY <3>1
    <3>3. InputsMean(text).ok = b
      BY <2>4
    <3> HIDE DEF b
    <3> QED BY <3>2, <3>3
  <2>5. InputsMean(text).ok = FALSE /\ InputsMean(text).calls = Inputs(text, length)
    BY <2>3, <2>4, <2>6
  <2> QED BY <2>2, <2>5 DEF r
<1>6. CASE Stops(text) # {}
  <2>1. Stopped(text, r)
    BY <1>1, <1>3, <1>6 DEF InputsRead
  <2>2. last = Min(Stops(text))
    BY <1>6
  <2> HIDE DEF last, length
  <2>3. r.done = (last \in Spaces(text)) /\ r.calls = Inputs(text, last)
    BY <2>1, <2>2 DEF Stopped
  <2> QED BY <1>4, <2>3 DEF r
<1> QED BY <1>5, <1>6

-----------------------------------------------------------------------------
(* A request *)

\* A part of a sequence, and a byte before a sequence.
LEMMA PartOf ==
  ASSUME NEW S, NEW s \in Seq(S), NEW from \in Nat, NEW to \in Nat, 1 <= from, from <= to, to <= Len(s)
  PROVE  /\ SubSeq(s, from, to) \in Seq(S) /\ Len(SubSeq(s, from, to)) = to - from + 1
         /\ \A i \in 1..(to - from + 1) : SubSeq(s, from, to)[i] = s[from + i - 1]
<1>1. \A i \in from..to : s[i] \in S
  OBVIOUS
<1> QED BY <1>1, SubSeqProperties

Joined(t, w, c, s) == t = w \o <<c>> \o s

LEMMA JoinedIs ==
  ASSUME NEW S, NEW w \in Seq(S), NEW c \in S, NEW s \in Seq(S), NEW t, Joined(t, w, c, s)
  PROVE  /\ t \in Seq(S) /\ Len(t) = Len(w) + 1 + Len(s)
         /\ \A i \in 1..Len(w) : t[i] = w[i]
         /\ t[Len(w) + 1] = c
         /\ \A i \in 1..Len(s) : t[Len(w) + 1 + i] = s[i]
BY DEF Joined

\* What follows the type of a request is read as what it means.
LEMMA AfterTypeIsMeant ==
  ASSUME NEW type \in {"GET", "HEAD"}, NEW path \in Seq(Byte)
  PROVE  ReadAfterType(type, path) = RequestMeans(type, path)
<1> DEFINE end == Min(Delimiters(path))
           query == SubSeq(path, end + 1, Len(path))
           file == FileRead(ReadPath(path, end - 1))
           given == http_process_inputs(query)
           mean == InputsMean(query)
<1>1. CASE Delimiters(path) = {}
  BY <1>1 DEF ReadAfterType, RequestMeans
<1>2. CASE Delimiters(path) # {}
  <2>1. end \in 1..Len(path) /\ path[end] \in {Char.space, Char.question}
    <3>1. Delimiters(path) \subseteq Nat
      BY DEF Delimiters
    <3>2. end \in Delimiters(path)
      BY <1>2, <3>1, MinIs
    <3> HIDE DEF end
    <3> QED BY <3>2 DEF Delimiters
  <2>2. end - 1 \in 0..Len(path) /\ query \in Seq(Byte)
    <3> HIDE DEF end
    <3> QED BY <2>1
  <2>3. file = PathMeans(path, end - 1)
    BY <2>2, FileIsMeant
  <2>4. given.done = mean.ok /\ given.calls = mean.calls
    <3> HIDE DEF query
    <3> QED BY <2>2, InputsAreMeant
  <2>5. ReadAfterType(type, path) = ReadUpTo(type, path, end, file)
    BY <1>2 DEF ReadAfterType
  <2>6. RequestMeans(type, path) = Means(type, path[end], file, mean)
    BY <1>2, <2>3 DEF RequestMeans
  <2>7. ReadUpTo(type, path, end, file) =
          IF file = "none" THEN Bad
          ELSE IF path[end] = Char.space \/ type # "GET" THEN Wanted(type, file, <<>>)
          ELSE Wanted(IF given.done THEN type ELSE "BAD", file, given.calls)
    BY DEF ReadUpTo
  <2> HIDE DEF end, file, given, mean, query
  <2>8. Means(type, path[end], file, mean) =
          IF file = "none" THEN Bad
          ELSE IF path[end] = Char.space \/ type = "HEAD" THEN Wanted(type, file, <<>>)
          ELSE Wanted(IF mean.ok THEN type ELSE "BAD", file, mean.calls)
    BY DEF Means
  <2>9. (type # "GET") <=> (type = "HEAD")
    OBVIOUS
  <2> QED BY <2>4, <2>5, <2>6, <2>7, <2>8, <2>9
<1> QED BY <1>1, <1>2

\* The text begins behind the spaces that follow the type.
LEMMA AfterWord ==
  ASSUME NEW word \in Seq(Byte), NEW text \in Seq(Byte), NEW whole,
         whole = word \o <<Char.space>> \o text,
         Min(WordEnds(whole, GET) \cup WordEnds(whole, HEAD)) = Len(word)
  PROVE  AfterType(whole) = Unspaced(text)
<1> DEFINE L == Len(word)
           P == {i \in DOMAIN text : text[i] # Char.space}
           Q == {i \in (L + 1)..Len(whole) : whole[i] # Char.space}
<1>0. L \in Nat /\ Len(text) \in Nat /\ DOMAIN text = 1..Len(text)
  OBVIOUS
<1>1. /\ whole \in Seq(Byte) /\ Len(whole) = L + 1 + Len(text) /\ whole[L + 1] = Char.space
      /\ \A i \in 1..Len(text) : whole[L + 1 + i] = text[i]
  <2>1. Char.space \in Byte
    BY CharValues DEF Byte
  <2> DEFINE sp == Char.space
  <2> HIDE DEF sp
  <2> QED BY <2>1 DEF sp
<1> HIDE DEF L
<1>2. \A i \in P : L + 1 + i \in Q
  BY <1>0, <1>1
<1>3. \A k \in Q : k - (L + 1) \in P /\ k = L + 1 + (k - (L + 1))
  <2> SUFFICES ASSUME NEW k \in Q PROVE k - (L + 1) \in P /\ k = L + 1 + (k - (L + 1))
    OBVIOUS
  <2>1. k # L + 1
    BY <1>1
  <2>2. k - (L + 1) \in 1..Len(text) /\ k = L + 1 + (k - (L + 1))
    BY <1>0, <1>1, <2>1
  <2> QED BY <1>0, <1>1, <2>2
<1>4. AfterType(whole) = IF Q = {} THEN <<>> ELSE SubSeq(whole, Min(Q), Len(whole))
  BY DEF AfterType, L
<1>5. Unspaced(text) = IF P = {} THEN <<>> ELSE SubSeq(text, Min(P), Len(text))
  BY DEF Unspaced
<1>6. P \subseteq 1..Len(text) /\ P \subseteq Nat /\ Q \subseteq Nat
  BY <1>0
<1> HIDE DEF P, Q
<1>7. CASE P = {}
  BY <1>3, <1>4, <1>5, <1>7
<1>8. CASE P # {}
  <2> DEFINE m == Min(P)
  <2>1. m \in P /\ \A y \in P : m <= y
    BY <1>6, <1>8, MinIs
  <2> HIDE DEF m
  <2>2. Min(Q) = L + 1 + m
    <3>1. L + 1 + m \in Q
      BY <1>2, <2>1
    <3>2. \A k \in Q : L + 1 + m <= k
      <4> SUFFICES ASSUME NEW k \in Q PROVE L + 1 + m <= k
        OBVIOUS
      <4>1. m <= k - (L + 1)
        BY <1>3, <2>1
      <4> QED BY <1>0, <1>6, <2>1, <4>1
    <3> QED BY <1>6, <3>1, <3>2, MinUnique
  <2>3. m \in 1..Len(text)
    BY <1>6, <2>1
  <2>4. SubSeq(whole, L + 1 + m, Len(whole)) = SubSeq(text, m, Len(text))
    <3> DEFINE A == SubSeq(whole, L + 1 + m, Len(whole))
               B == SubSeq(text, m, Len(text))
    <3>1. A \in Seq(Byte) /\ Len(A) = Len(text) - m + 1
          /\ \A i \in 1..Len(A) : A[i] = whole[L + 1 + m + i - 1]
      <4> DEFINE from == L + 1 + m
                 to == Len(whole)
      <4>1. /\ from \in Nat /\ to \in Nat /\ 1 <= from /\ from <= to
            /\ to - from + 1 = Len(text) - m + 1
        BY <1>0, <1>1, <2>3
      <4>2. /\ A \in Seq(Byte) /\ Len(A) = to - from + 1
            /\ \A i \in 1..(to - from + 1) : A[i] = whole[from + i - 1]
        <5>1. whole \in Seq(Byte) /\ to <= Len(whole) /\ A = SubSeq(whole, from, to)
          BY <1>1, <4>1
        <5> HIDE DEF from, to, A
        <5> QED BY <4>1, <5>1, PartOf
      <4> HIDE DEF A, to
      <4> QED BY <4>1, <4>2
    <3>2. B \in Seq(Byte) /\ Len(B) = Len(text) - m + 1
          /\ \A i \in 1..Len(B) : B[i] = text[m + i - 1]
      <4>1. \A i \in m..Len(text) : text[i] \in Byte
        BY <1>0, <2>3
      <4> QED BY <1>0, <2>3, <4>1, SubSeqProperties
    <3> HIDE DEF A, B
    <3>3. \A i \in 1..Len(A) : A[i] = B[i]
      <4> SUFFICES ASSUME NEW i \in 1..Len(A) PROVE A[i] = B[i]
        OBVIOUS
      <4>1. m + i - 1 \in 1..Len(text) /\ L + 1 + m + i - 1 = L + 1 + (m + i - 1)
        BY <1>0, <2>3, <3>1
      <4>2. whole[L + 1 + (m + i - 1)] = text[m + i - 1]
        BY <1>1, <4>1
      <4>3. A[i] = whole[L + 1 + m + i - 1] /\ B[i] = text[m + i - 1]
        BY <3>1, <3>2
      <4> QED BY <4>1, <4>2, <4>3
    <3>4. A = B
      BY <3>1, <3>2, <3>3
    <3> QED BY <3>4 DEF A, B
  <2>5. Q # {}
    BY <1>2, <2>1
  <2> QED BY <1>4, <1>5, <1>8, <2>2, <2>4, <2>5 DEF m
<1> QED BY <1>7, <1>8

\* The word of the type is found where it is.
LEMMA WordFound ==
  ASSUME NEW type \in {"GET", "HEAD"}, NEW text \in Seq(Byte), NEW whole,
         Joined(whole, IF type = "GET" THEN GET ELSE HEAD, Char.space, text)
  PROVE  LET words == WordEnds(whole, GET) \cup WordEnds(whole, HEAD)
             word  == IF type = "GET" THEN GET ELSE HEAD
         IN /\ words # {} /\ Min(words) = Len(word) /\ word \in Seq(Byte)
            /\ Min(words) \in WordEnds(whole, GET) <=> type = "GET"
<1> DEFINE words == WordEnds(whole, GET) \cup WordEnds(whole, HEAD)
<1>0. Char.space \in Byte /\ GET \in Seq(Byte) /\ HEAD \in Seq(Byte) /\ Len(GET) = 3 /\ Len(HEAD) = 4
  BY CharValues DEF Byte, GET, HEAD
<1>1. words \subseteq Nat
  BY <1>0 DEF WordEnds
<1>2. \A i \in WordEnds(whole, GET) : i >= 3 /\ SubSeq(whole, i - 3 + 1, i) = GET
  BY <1>0 DEF WordEnds
<1>3. \A i \in WordEnds(whole, HEAD) : i >= 4
  BY <1>0 DEF WordEnds
<1>4. CASE type = "GET"
  <2> DEFINE sp == Char.space
  <2>1. Joined(whole, GET, sp, text) /\ sp \in Byte
    BY <1>0, <1>4
  <2> HIDE DEF sp
  <2>2. /\ whole \in Seq(Byte) /\ Len(whole) = 4 + Len(text)
        /\ whole[1] = GET[1] /\ whole[2] = GET[2] /\ whole[3] = GET[3]
    <3>1. /\ whole \in Seq(Byte) /\ Len(whole) = Len(GET) + 1 + Len(text)
          /\ \A i \in 1..Len(GET) : whole[i] = GET[i]
      <4>1. GET \in Seq(Byte)
        BY <1>0
      <4> QED BY <2>1, <4>1, JoinedIs
    <3> QED BY <1>0, <3>1
  <2>3. SubSeq(whole, 1, 3) = GET
    BY <1>0, <2>2
  <2>4. 3 \in WordEnds(whole, GET)
    BY <1>0, <2>2, <2>3 DEF WordEnds
  <2>5. Min(words) = 3
    <3>1. 3 \in words /\ \A y \in words : 3 <= y
      BY <1>1, <1>2, <1>3, <2>4
    <3> HIDE DEF words
    <3> QED BY <1>1, <3>1, MinUnique
  <2> QED BY <1>0, <1>4, <2>4, <2>5
<1>5. CASE type = "HEAD"
  <2> DEFINE sp == Char.space
  <2>1. Joined(whole, HEAD, sp, text) /\ sp \in Byte
    BY <1>0, <1>5
  <2> HIDE DEF sp
  <2>2. /\ whole \in Seq(Byte) /\ Len(whole) = 5 + Len(text)
        /\ whole[1] = HEAD[1] /\ whole[2] = HEAD[2] /\ whole[3] = HEAD[3] /\ whole[4] = HEAD[4]
    <3>1. /\ whole \in Seq(Byte) /\ Len(whole) = Len(HEAD) + 1 + Len(text)
          /\ \A i \in 1..Len(HEAD) : whole[i] = HEAD[i]
      <4>1. HEAD \in Seq(Byte)
        BY <1>0
      <4> QED BY <2>1, <4>1, JoinedIs
    <3> QED BY <1>0, <3>1
  <2>3. SubSeq(whole, 1, 4) = HEAD
    BY <1>0, <2>2
  <2>4. 4 \in WordEnds(whole, HEAD)
    BY <1>0, <2>2, <2>3 DEF WordEnds
  <2>5. GET[1] = 71 /\ HEAD[1] = 72 /\ HEAD[2] = 69
    BY DEF GET, HEAD
  <2>6. ASSUME NEW i \in {3, 4} PROVE i \notin WordEnds(whole, GET)
    <3> SUFFICES ASSUME i \in WordEnds(whole, GET) PROVE FALSE
      OBVIOUS
    <3>1. SubSeq(whole, i - 3 + 1, i) = GET
      BY <1>2
    <3>2. SubSeq(whole, i - 3 + 1, i)[1] = whole[i - 3 + 1]
      <4> DEFINE from == i - 3 + 1
      <4>1. /\ from \in Nat /\ i \in Nat /\ 1 <= from /\ from <= i /\ i <= Len(whole)
            /\ 1 \in 1..(i - from + 1) /\ from + 1 - 1 = from
        BY <2>2
      <4> HIDE DEF from
      <4>2. SubSeq(whole, from, i)[1] = whole[from + 1 - 1]
        BY <2>2, <4>1, PartOf
      <4> QED BY <4>1, <4>2 DEF from
    <3>3. i - 3 + 1 \in {1, 2}
      OBVIOUS
    <3> QED BY <2>2, <2>5, <3>1, <3>2, <3>3
  <2>7. Min(words) = 4
    <3>1. 4 \in words
      BY <2>4
    <3>2. \A y \in words : 4 <= y
      <4> SUFFICES ASSUME NEW y \in words PROVE 4 <= y
        OBVIOUS
      <4>1. y \in Nat /\ (y \in WordEnds(whole, GET) => y >= 3 /\ y # 3)
        BY <1>1, <1>2, <2>6
      <4>2. y \in WordEnds(whole, HEAD) => y >= 4
        BY <1>3
      <4> QED BY <4>1, <4>2
    <3> HIDE DEF words
    <3> QED BY <1>1, <3>1, <3>2, MinUnique
  <2>8. 4 \notin WordEnds(whole, GET)
    BY <2>6
  <2> QED BY <1>0, <1>5, <2>4, <2>7, <2>8
<1> QED BY <1>4, <1>5

\* Whatever follows GET or HEAD, the server reads of it, byte after byte, the file
\* and the inputs it means (http_process_rx and http_process_inputs,
\* eth-http.c:336-640, 2233-2383): a text of any length, with any escapes, slashes, dots,
\* '&', '=' and spaces in it.
THEOREM EveryTextRead ==
  ASSUME NEW type \in {"GET", "HEAD"}, NEW text \in Seq(Byte)
  PROVE  ReadAsMeant(type, text)
<1> DEFINE word  == IF type = "GET" THEN GET ELSE HEAD
           whole == word \o <<Char.space>> \o text
           words == WordEnds(whole, GET) \cup WordEnds(whole, HEAD)
<1>1. /\ words # {} /\ Min(words) = Len(word) /\ word \in Seq(Byte)
      /\ Min(words) \in WordEnds(whole, GET) <=> type = "GET"
  <2>1. Joined(whole, word, Char.space, text)
    BY DEF Joined
  <2> QED BY <2>1, WordFound
<1>2. AfterType(whole) = Unspaced(text)
  <2> HIDE DEF word
  <2> QED BY <1>1, AfterWord
<1>3. Unspaced(text) \in Seq(Byte)
  <2> DEFINE P == {i \in DOMAIN text : text[i] # Char.space}
  <2>1. CASE P = {}
    BY <2>1 DEF Unspaced
  <2>2. CASE P # {}
    <3>1. P \subseteq Nat
      OBVIOUS
    <3>2. Min(P) \in P
      <4> HIDE DEF P
      <4> QED BY <2>2, <3>1, MinIs
    <3>3. Min(P) \in 1..Len(text)
      <4> DEFINE x == Min(P)
      <4>1. x \in P
        BY <3>2
      <4> HIDE DEF x
      <4>2. x \in 1..Len(text)
        BY <4>1
      <4> QED BY <4>2 DEF x
    <3>4. Unspaced(text) = SubSeq(text, Min(P), Len(text))
      BY <2>2 DEF Unspaced
    <3> HIDE DEF P
    <3> QED BY <3>3, <3>4
  <2> QED BY <2>1, <2>2
<1>4. ReadRequest(whole) =
        IF words = {} THEN Wanted("UNKNOWN", <<>>, <<>>)
        ELSE ReadAfterType(IF Min(words) \in WordEnds(whole, GET) THEN "GET" ELSE "HEAD",
                           AfterType(whole))
  BY DEF ReadRequest
<1> HIDE DEF whole, words
<1>5. (IF Min(words) \in WordEnds(whole, GET) THEN "GET" ELSE "HEAD") = type
  BY <1>1
<1>6. ReadRequest(whole) = ReadAfterType(type, Unspaced(text))
  BY <1>1, <1>2, <1>4, <1>5
<1>7. ReadRequest(whole) = RequestMeans(type, Unspaced(text))
  BY <1>3, <1>6, AfterTypeIsMeant
<1> QED BY <1>7 DEF whole, ReadAsMeant

\* So every request is read as what it means, from the start on (eth-http.c:336-640).
THEOREM RequestsRead == Spec => []RequestRead
<1>1. RequestRead
  <2> SUFFICES ASSUME NEW type \in {"GET", "HEAD"}, NEW text \in Texts
               PROVE  ReadAsMeant(type, text)
    BY DEF RequestRead
  <2> QED BY EveryTextRead, TextsAssumption
<1> QED BY <1>1, PTL
=============================================================================
