----------------------------- MODULE TcpProcess -----------------------------
(***************************************************************************)
(* The part of application/ibexukIP/eth-tcp.c that the packet loop calls:  *)
(* tcp_process_rx, for every TCP segment and as long as one waits to be    *)
(* read, and process_tcp, for the timers of the sockets.                   *)
(***************************************************************************)
EXTENDS Tcp

-----------------------------------------------------------------------------
(* process_tcp_segment.  The handlers below take and return w with a field *)
(* resp more: the flags to answer with.                                    *)

\* whatever the segment acknowledges, what was sent last is counted now
Counted(w, s) == Become(w, s, [Advanced(Socket(w, s)) EXCEPT !.retry_count = 0])

Listening(w, s, h) ==
  LET syn == "SYN" \in h.flags
      d   == Become([Dump(w) EXCEPT !.tcp.next_seq = Plus(@, 1)], s,
                    [Socket(w, s) EXCEPT
                       !.seq = Plus(w.tcp.next_seq, 1), !.increment = IF syn THEN 1 ELSE 0,
                       !.ack = Plus(h.seq, Length(h) + 1),
                       !.remote = IF syn THEN h.end ELSE NoEnd,
                       !.state = IF syn THEN "SYN_REQUEST_RECEIVED" ELSE @])
  IN IF syn THEN [d EXCEPT !.resp = {"SYN", "ACK"}]
     ELSE tcp_send_command_packet_no_socket(d, h.end, h.port, h.ack, h.seq, {"RST"})

\* data is left with the network controller for the application
Keep(w, s, h) ==
  IF Length(h) = 0 THEN Dump(w)
  ELSE Become(w, s, [Socket(w, s) EXCEPT !.rx_data_bytes_remaining = Length(h)])

SynReceived(w, s, h) ==
  IF "ACK" \notin h.flags THEN Dump(w)
  ELSE Keep(Become(w, s, [Socket(w, s) EXCEPT !.ack = Plus(h.seq, Length(h)),
                                              !.state = "CONNECTION_ESTABLISHED"]), s, h)

SynSent(w, s, h) ==
  LET k == [Socket(w, s) EXCEPT !.ack = Plus(h.seq, Length(h) + 1), !.ready_for_tx = TRUE]
  IN IF "SYN" \notin h.flags THEN Dump(w)
     ELSE IF "ACK" \in h.flags
     THEN Keep([Become(w, s, [k EXCEPT !.state = "CONNECTION_ESTABLISHED"])
                  EXCEPT !.resp = {"ACK"}], s, h)
     ELSE Keep([Become(w, s, [k EXCEPT !.state = "SYN_REQUEST_RECEIVED",
                                       !.seq = Plus(k.seq, 1), !.increment = 0])
                  EXCEPT !.resp = {"SYN", "ACK"}], s, h)

\* an ACK is taken for one of the last packet
Acknowledged(k, h) ==
  IF "ACK" \in h.flags /\ k.awaiting_ack
  THEN [k EXCEPT !.resend = FALSE, !.awaiting_ack = FALSE, !.ready_for_tx = TRUE] ELSE k

Established(w, s, h) ==
  LET k   == Acknowledged(Socket(w, s), h)
      fin == "FIN" \in h.flags
      f   == IF fin THEN [k EXCEPT !.increment = 1, !.ack = Plus(k.ack, 1),
                                   !.state = "LAST_ACK_SENT"] ELSE k
  IN Keep([Become(w, s, f) EXCEPT !.resp = IF fin THEN {"FIN", "ACK"}
                                           ELSE IF Length(h) > 0 THEN {"ACK"} ELSE {}], s, h)

LastAck(w, s, h) ==
  IF "ACK" \in h.flags THEN tcp_close_socket(Dump(w), s) ELSE Dump(w)

FinWait1(w, s, h) ==
  IF "FIN" \notin h.flags THEN Dump(w)
  ELSE LET d == Become([Dump(w) EXCEPT !.resp = {"ACK"}], s, [Socket(w, s) EXCEPT !.ack = Plus(@, 1)])
       IN IF "ACK" \in h.flags THEN tcp_close_socket(d, s)
          ELSE Become(d, s, [Socket(d, s) EXCEPT !.state = "CLOSING"])

\* a segment that acknowledges something else than what has been sent
WrongAck(w, s, h) ==
  IF Socket(w, s).state = "SYN_REQUEST_SENT"
  THEN tcp_send_command_packet_no_socket(Dump(w), h.end, h.port, h.ack, h.seq, {"RST"})
  ELSE Dump(w)

\* in the states from "established" on the segment must be the next one; for a socket
\* that waits for an address it is neither read nor dumped
InOrder(w, s, h) ==
  LET a == Become(w, s, [Socket(w, s) EXCEPT !.ack = Plus(h.seq, Length(h))])
  IN CASE Socket(w, s).state = "CONNECTION_ESTABLISHED" -> Established(a, s, h)
       [] Socket(w, s).state \in {"LAST_ACK_SENT", "CLOSING"} -> LastAck(a, s, h)
       [] Socket(w, s).state = "FIN_WAIT_1" -> FinWait1(a, s, h)
       [] Socket(w, s).state \in {"CONNECT_SEND_ARP_REQUEST", "CONNECT_WAIT_ARP_RESPONSE"} -> a

\* the answer goes out now, or when the application has read the data
Respond(w, s) ==
  LET r == [w EXCEPT !.tcp.resp_flags = {}]
  IN IF w.resp = {} THEN r
     ELSE IF w.rx = Nothing THEN tcp_send_command_packet_from_socket(r, s, w.resp)
     ELSE [r EXCEPT !.tcp.resp_flags = w.resp, !.tcp.resp_socket = s]

\* a reset and a segment out of order leave the stored answer alone
process_tcp_segment(w0, s, h) ==
  LET w     == [Counted(w0, s) EXCEPT !.resp = {}]
      state == Socket(w, s).state
  IN CASE state = "LISTEN" -> Respond(Listening(w, s, h), s)
       [] state # "LISTEN" /\ "RST" \in h.flags -> tcp_close_socket(Dump(w), s)
       [] state # "LISTEN" /\ "RST" \notin h.flags ->
            IF Socket(w, s).seq # h.ack /\ "FIN" \notin h.flags THEN Respond(WrongAck(w, s, h), s)
            ELSE IF state = "SYN_REQUEST_RECEIVED" THEN Respond(SynReceived(w, s, h), s)
            ELSE IF state = "SYN_REQUEST_SENT" THEN Respond(SynSent(w, s, h), s)
            ELSE IF h.seq # Socket(w, s).ack THEN Dump(w)
            ELSE Respond(InOrder(w, s, h), s)

-----------------------------------------------------------------------------
(* tcp_process_rx *)

Local(w, h) == {s \in Sockets : Socket(w, s).state # "CLOSED" /\ Socket(w, s).local_port = h.port}
Connected(w, h) == {s \in Local(w, h) : Socket(w, s).remote = h.end}
Listeners(w, h) == {s \in Local(w, h) : Socket(w, s).state = "LISTEN"}

\* mutant: a listening socket is preferred to the socket of the connection
tcp_rx_check_for_matches_socket_Listen(w, h) ==
  IF Listeners(w, h) # {} THEN Highest(Listeners(w, h))
  ELSE Lowest(Connected(w, h) \cup {TCP_INVALID_SOCKET})

tcp_rx_check_for_matches_socket(w, h) ==
  IF Connected(w, h) # {} THEN Lowest(Connected(w, h))
  ELSE IF Listeners(w, h) # {} THEN Highest(Listeners(w, h))
  ELSE TCP_INVALID_SOCKET

\* a listening socket takes the sender for its remote device before the
\* segment is looked at
Matched(w, s, h) ==
  IF Connected(w, h) # {} THEN w
  ELSE Become(w, s, [Socket(w, s) EXCEPT !.remote = h.end, !.rx_data_bytes_remaining = 0,
                                         !.ready_for_tx = TRUE, !.waiting_command = {}])

NoSocket(w, h) ==
  LET n == Length(h) + (IF h.flags \cap {"SYN", "FIN"} # {} THEN 1 ELSE 0)
  IN tcp_send_command_packet_no_socket(Dump(w), h.end, h.port, Plus(h.ack, n), h.seq, {"RST"})

NewSegment(w) ==
  LET h == w.rx
      s == tcp_rx_check_for_matches_socket(w, h)
      p == process_tcp_segment(Matched(w, s, h), s, h)
  IN IF s = TCP_INVALID_SOCKET THEN NoSocket(w, h)
     ELSE IF p.rx = Nothing THEN p
     ELSE [p EXCEPT !.tcp.active = s, !.tcp.waiting = TRUE]

\* the application has read the data: the stored answer goes out
Processed(w) ==
  LET sent == IF w.tcp.resp_flags = {} THEN w
              ELSE [tcp_send_command_packet_from_socket(w, w.tcp.resp_socket, w.tcp.resp_flags)
                      EXCEPT !.tcp.resp_flags = {}]
  IN [sent EXCEPT !.tcp.active = TCP_INVALID_SOCKET, !.tcp.waiting = FALSE]

\* mutant: data for a connection that has ended waits for ever
StillWaiting_Keep(w) == w

\* nobody will read the data of a connection that has ended
StillWaiting(w) ==
  IF Socket(w, w.tcp.active).state # "CONNECTION_ESTABLISHED" THEN tcp_dump_rx_packet(w) ELSE w

tcp_process_rx(w) ==
  IF ~w.tcp.waiting THEN NewSegment(w)
  ELSE IF Socket(w, w.tcp.active).rx_data_bytes_remaining = 0 THEN Processed(w)
  ELSE StillWaiting(w)

-----------------------------------------------------------------------------
(* process_tcp, for one socket.  Its local variable tcp_response_flags is  *)
(* set to 0 before the first socket only: w.flags.                         *)

Idle(k) == k.rx_data_bytes_remaining > 0 \/ k.state \in {"CLOSED", "LISTEN"}

\* mutant: the data is sent again without asking for it
EstablishedTimeout_NoResend(w, s) ==
  LET k == Socket(w, s)
  IN CASE k.retry_count > MaxRetries ->
            [Become(w, s, [k EXCEPT !.resend = @ /\ ~k.awaiting_ack, !.awaiting_ack = FALSE,
                                    !.state = "FIN_WAIT_1"])
               EXCEPT !.flags = {"FIN", "ACK"}]
       [] k.retry_count <= MaxRetries /\ k.awaiting_ack /\ ~k.had_data ->
            [w EXCEPT !.flags = k.last_flags]
       [] k.retry_count <= MaxRetries /\ k.awaiting_ack /\ k.had_data ->
            Become(w, s, [k EXCEPT !.awaiting_ack = FALSE, !.ready_for_tx = TRUE])
       [] k.retry_count <= MaxRetries /\ ~k.awaiting_ack ->
            [w EXCEPT !.tcp.socket[s].retry_count = 0, !.flags = {}]

\* the last packet is sent again: by the application if it had data; at last
\* the connection is closed
EstablishedTimeout(w, s) ==
  LET k == Socket(w, s)
  IN CASE k.retry_count > MaxRetries ->
            [Become(w, s, [k EXCEPT !.resend = @ /\ ~k.awaiting_ack, !.awaiting_ack = FALSE,
                                    !.state = "FIN_WAIT_1"])
               EXCEPT !.flags = {"FIN", "ACK"}]
       [] k.retry_count <= MaxRetries /\ k.awaiting_ack /\ ~k.had_data ->
            [w EXCEPT !.flags = k.last_flags]
       [] k.retry_count <= MaxRetries /\ k.awaiting_ack /\ k.had_data ->
            Become(w, s, [k EXCEPT !.resend = TRUE, !.awaiting_ack = FALSE, !.ready_for_tx = TRUE])
       [] k.retry_count <= MaxRetries /\ ~k.awaiting_ack ->
            [Become(w, s, [k EXCEPT !.retry_count = 0]) EXCEPT !.flags = {}]

\* what a socket in another state repeats; the one that waits for an address
\* does not ask again, and leaves the flags as they are
Repeated(state, flags) ==
  CASE state = "SYN_REQUEST_SENT"     -> {"SYN"}
    [] state = "SYN_REQUEST_RECEIVED" -> {"SYN", "ACK"}
    [] state \in {"FIN_WAIT_1", "LAST_ACK_SENT"} -> {"FIN"}
    [] state = "CLOSING" -> {"ACK"}
    [] state = "CONNECT_WAIT_ARP_RESPONSE" -> flags

\* the retry is counted, the state says what is repeated; a socket that has given up
\* is closed, but for one that has asked for a connection
Retries(w, s) ==
  Become(w, s, [Socket(w, s) EXCEPT !.retry_count = IF @ > MaxRetries THEN @ ELSE @ + 1])
OnTimeout(w, s) ==
  LET k == Socket(w, s)
  IN IF k.state = "CONNECTION_ESTABLISHED" THEN EstablishedTimeout(w, s)
     ELSE IF k.retry_count > MaxRetries
          /\ k.state \notin {"SYN_REQUEST_SENT", "CONNECT_WAIT_ARP_RESPONSE"}
     THEN tcp_close_socket(w, s)
     ELSE [w EXCEPT !.flags = Repeated(k.state, w.flags)]

\* the flags go out, those that the socket before this one has left if it has set none
OneNumber(w, s) == Become(w, s, [Socket(w, s) EXCEPT !.increment = 1])
SendAgain(w, s) ==
  IF w.flags = {} THEN w
  ELSE IF w.flags = {"ACK"} THEN tcp_send_command_packet_from_socket(w, s, w.flags)
  ELSE OneNumber(tcp_send_command_packet_from_socket(w, s, w.flags), s)

\* mutant: the retries are not counted
Timeout_Forever(w, s) ==
  SendAgain(OnTimeout(Become(w, s, [Socket(w, s) EXCEPT !.retry_count = 1]), s), s)

Timeout(w, s) == SendAgain(OnTimeout(Retries(w, s), s), s)

\* a socket that waits for an address: asked for, or there
Resolved(w, s) ==
  Socket(w, s).state = "CONNECT_WAIT_ARP_RESPONSE" /\ arp_is_resolve_complete(w, Socket(w, s).remote)
Unresolved(w, s) == Socket(w, s).state = "CONNECT_SEND_ARP_REQUEST" \/ Resolved(w, s)

\* does the socket come to the test of its timer?
Timed(w, s) ==
  ~Idle(Socket(w, s)) /\ Socket(w, s).waiting_command = {} /\ ~Unresolved(w, s)

\* the pass over the sockets ends early if the transmitter is busy when a
\* timer has run out
StopsAt(w, s, expired) == Timed(w, s) /\ expired /\ ~w.ok

ProcessSocket(w, s, expired) ==
  LET k == Socket(w, s)
  IN CASE Idle(k) -> w
       [] ~Idle(k) /\ k.waiting_command # {} ->
            tcp_send_command_packet_from_socket(w, s, k.waiting_command)
       [] ~Idle(k) /\ k.waiting_command = {} /\ Resolved(w, s) ->
            tcp_connect_socket_send_syn_request(w, s)
       [] ~Idle(k) /\ k.waiting_command = {} /\ k.state = "CONNECT_SEND_ARP_REQUEST" ->
            Become(arp_resolve_ip_address(w, k.remote), s, [k EXCEPT !.state = "CONNECT_WAIT_ARP_RESPONSE"])
       [] Timed(w, s) -> IF expired /\ w.ok THEN Timeout(w, s) ELSE w
=============================================================================
