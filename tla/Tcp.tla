-------------------------------- MODULE Tcp --------------------------------
(***************************************************************************)
(* TCP sockets (application/ibexukIP/eth-tcp.c), as operators on a record  *)
(* w with the fields                                                       *)
(*                                                                         *)
(*   tcp   the socket table and the segment that waits to be processed     *)
(*   rx    the segment held by the network controller, or Nothing          *)
(*   ok    nic_ok_to_do_tx during this call                                *)
(*   out   the segment this call has transmitted, or Nothing               *)
(*                                                                         *)
(* and whatever else the caller keeps in it.  One segment carries at most  *)
(* one unit of data, which takes one sequence number.  The device at the   *)
(* other end of a connection, its address and its port, is one value, an   *)
(* end.  A socket's timer is not part of the state: TcpStack says when it  *)
(* may have run out.                                                       *)
(***************************************************************************)
EXTENDS Arp, Integers

CONSTANTS
  NumSockets,   \* TCP_NO_OF_AVAILABLE_SOCKETS
  SeqSpace,       \* sequence numbers are modulo this, 2^32 in the code
  MaxRetries,   \* TCP_MAX_NUM_OF_RETRIES
  PortStart, PortEnd   \* TCP_LOCAL_PORT_NUMBER_START and _END

HTTP_PORT == 80

ASSUME TcpAssumption ==
  /\ NumSockets \in 1..255 /\ SeqSpace \in Nat \ {0} /\ MaxRetries \in Nat
  /\ PortStart \in Nat /\ PortEnd \in Nat /\ PortStart <= PortEnd
  /\ HTTP_PORT \notin PortStart..PortEnd

Sockets == 0..(NumSockets - 1)
TCP_INVALID_SOCKET == NumSockets
Ports == {0, HTTP_PORT} \cup PortStart..PortEnd
NoData  == "no data"
Seqs    == 0..(SeqSpace - 1)
Plus(a, b) == (a + b) % SeqSpace

FlagSets == SUBSET {"SYN", "ACK", "FIN", "RST"}
Nothing  == [end |-> NoEnd, port |-> 0, seq |-> 0, ack |-> 0, flags |-> {}, data |-> NoData]
Segment(e, p, s, a, f, d) == [end |-> e, port |-> p, seq |-> s, ack |-> a, flags |-> f, data |-> d]
Length(h) == IF h.data = NoData THEN 0 ELSE 1

States == {"CLOSED", "LISTEN", "SYN_REQUEST_RECEIVED", "CONNECT_SEND_ARP_REQUEST",
           "CONNECT_WAIT_ARP_RESPONSE", "SYN_REQUEST_SENT",
           "CONNECTION_ESTABLISHED", "FIN_WAIT_1", "CLOSING", "LAST_ACK_SENT"}

SocketType ==
  [state : States, local_port : Ports, remote : Ends \cup {NoEnd},
   rx_data_bytes_remaining : 0..1, retry_count : 0..(MaxRetries + 1),
   seq : Seqs, ack : Seqs, increment : 0..1,
   last_flags : FlagSets,
   waiting_command : FlagSets,   \* {} is tx_send_waiting_command = 0
   ready_for_tx : BOOLEAN, awaiting_ack : BOOLEAN, had_data : BOOLEAN, resend : BOOLEAN,
   is_server : BOOLEAN]

TcpType ==
  [socket : [Sockets -> SocketType],
   waiting : BOOLEAN,            \* tcp_rx_packet_is_waiting_to_be_processed
   active : Sockets \cup {TCP_INVALID_SOCKET},
   resp_flags : FlagSets, resp_socket : Sockets,   \* tcp_tx_resp_after_proc_rx_...
   next_seq : Seqs, next_port : PortStart..PortEnd]

tcp_initialise ==
  [socket |-> [s \in Sockets |->
     [state |-> "CLOSED", local_port |-> 0, remote |-> NoEnd,
      rx_data_bytes_remaining |-> 0, retry_count |-> 0, seq |-> 0, ack |-> 0,
      increment |-> 0, last_flags |-> {}, waiting_command |-> {},
      ready_for_tx |-> TRUE, awaiting_ack |-> FALSE, had_data |-> FALSE,
      resend |-> FALSE, is_server |-> FALSE]],
   waiting |-> FALSE, active |-> 0, resp_flags |-> {}, resp_socket |-> 0,
   next_seq |-> 0, next_port |-> PortStart]

Socket(w, s) == w.tcp.socket[s]
\* a change of socket s alone
Become(w, s, k) == [w EXCEPT !.tcp.socket[s] = k]

-----------------------------------------------------------------------------
(* Sending *)

Dump(w) == [w EXCEPT !.rx = Nothing]

\* tcp_setup_tx ... tcp_tx_packet; the transmitter is busy afterwards
Transmit(w, h) == [w EXCEPT !.out = h, !.ok = FALSE]

tcp_send_command_packet_no_socket(w, e, port, seq, ack, flags) ==
  IF w.ok THEN Transmit(w, Segment(e, port, seq, ack, flags, NoData)) ELSE w

\* without a transmitter the command waits for process_tcp; a command that is
\* sent takes the place of what was sent last
tcp_send_command_packet_from_socket(w, s, flags) ==
  LET k == Socket(w, s)
  IN IF ~w.ok THEN Become(w, s, [k EXCEPT !.waiting_command = flags])
     ELSE Become(Transmit(w, Segment(k.remote, k.local_port, k.seq, k.ack, flags, NoData)), s,
                 [k EXCEPT !.had_data = FALSE, !.resend = FALSE, !.waiting_command = {},
                           !.last_flags = flags])

tcp_is_socket_ready_to_tx_new_packet(w, s) ==
  /\ w.ok
  /\ ~(w.tcp.waiting /\ w.tcp.resp_flags # {})
  /\ ~w.tcp.socket[s].awaiting_ack /\ w.tcp.socket[s].ready_for_tx

\* the sequence number moves on
Advanced(k) == [k EXCEPT !.seq = Plus(k.seq, k.increment), !.increment = 0]

\* tcp_setup_socket_tx, the data, tcp_socket_tx_packet.  NoData is a packet of
\* no bytes.
SendData(w, s, data) ==
  LET k == IF Socket(w, s).resend THEN Socket(w, s) ELSE Advanced(Socket(w, s))
      h == Segment(k.remote, k.local_port, k.seq, k.ack, {"ACK"}, data)
  IN Become(Transmit(w, h), s,
            [k EXCEPT !.last_flags = {"ACK"}, !.had_data = (data # NoData),
                      !.increment = Length(h), !.ready_for_tx = FALSE,
                      !.awaiting_ack = TRUE, !.resend = FALSE])

tcp_does_socket_require_resend_of_last_packet(w, s) ==
  w.tcp.socket[s].state # "CLOSED" /\ w.tcp.socket[s].resend

-----------------------------------------------------------------------------
(* Opening and closing *)

Lowest(S) == CHOOSE i \in S : \A j \in S : i <= j
Highest(S) == CHOOSE i \in S : \A j \in S : j <= i
ClosedSockets(w) == {s \in Sockets : w.tcp.socket[s].state = "CLOSED"}

\* the socket the two functions that open one return
FreeSocket(w) == Lowest(ClosedSockets(w) \cup {TCP_INVALID_SOCKET})

tcp_open_socket_to_listen(w, port) ==
  LET s == FreeSocket(w)
  IN IF s = TCP_INVALID_SOCKET THEN w
     ELSE Become(w, s, [Socket(w, s) EXCEPT
                          !.state = "LISTEN", !.local_port = port, !.remote = NoEnd,
                          !.rx_data_bytes_remaining = 0, !.ready_for_tx = FALSE,
                          !.awaiting_ack = FALSE, !.resend = FALSE, !.is_server = TRUE,
                          !.waiting_command = {}])

\* the first port, counting on from the last one used and wrapping round, that
\* no other open socket has
NextPort(p) == IF p = PortEnd THEN PortStart ELSE p + 1
FreePort(w, s) ==
  LET used == {w.tcp.socket[t].local_port : t \in Sockets \ (ClosedSockets(w) \cup {s})}
      Distance(p) == (p - w.tcp.next_port) % (PortEnd - PortStart + 1)
  IN CHOOSE p \in PortStart..PortEnd \ used :
       \A q \in PortStart..PortEnd \ used : Distance(p) <= Distance(q)

\* after a segment that takes a number, a SYN or a FIN
MovesTo(w, s, state) == Become(w, s, [Socket(w, s) EXCEPT !.state = state, !.increment = 1])

tcp_connect_socket_send_syn_request(w, s) ==
  MovesTo(tcp_send_command_packet_from_socket(w, s, {"SYN"}), s, "SYN_REQUEST_SENT")

\* known: the caller knows the MAC address of the remote device
tcp_connect_socket(w, e, known) ==
  LET s == FreeSocket(w)
      p == FreePort(w, s)
      opened == Become([w EXCEPT !.tcp.next_port = NextPort(p), !.tcp.next_seq = Plus(@, 1)], s,
                       [Socket(w, s) EXCEPT
                          !.local_port = p, !.remote = e,
                          !.seq = Plus(w.tcp.next_seq, 1), !.ack = 0, !.increment = 0,
                          !.rx_data_bytes_remaining = 0, !.ready_for_tx = FALSE,
                          !.awaiting_ack = FALSE, !.resend = FALSE,
                          !.is_server = FALSE, !.waiting_command = {}])
  IN IF s = TCP_INVALID_SOCKET THEN w
     ELSE IF known THEN tcp_connect_socket_send_syn_request(opened, s)
     ELSE Become(opened, s, [Socket(opened, s) EXCEPT !.state = "CONNECT_SEND_ARP_REQUEST"])

\* mutant: the packet is dumped, but the socket still counts its bytes
DumpRemaining_Counts(w, s) ==
  IF Socket(w, s).rx_data_bytes_remaining = 0 THEN w ELSE Dump(w)

DumpRemaining(w, s) ==
  IF Socket(w, s).rx_data_bytes_remaining = 0 THEN w
  ELSE Become(Dump(w), s, [Socket(w, s) EXCEPT !.rx_data_bytes_remaining = 0])

\* a server's socket listens again
Released(w, s) ==
  LET k == Socket(w, s)
  IN Become(w, s, [k EXCEPT !.ready_for_tx = @ \/ k.awaiting_ack, !.awaiting_ack = FALSE,
                            !.resend = @ /\ ~k.awaiting_ack,
                            !.state = IF k.is_server THEN "LISTEN" ELSE "CLOSED"])

tcp_close_socket(w, s) ==
  IF s = TCP_INVALID_SOCKET THEN w ELSE Released(DumpRemaining(w, s), s)

tcp_close_socket_from_listen(w, s) ==
  IF s = TCP_INVALID_SOCKET THEN w
  ELSE tcp_close_socket(Become(w, s, [Socket(w, s) EXCEPT !.is_server = FALSE]), s)

tcp_is_socket_connected(w, s) ==
  s # TCP_INVALID_SOCKET /\ w.tcp.socket[s].state = "CONNECTION_ESTABLISHED"

tcp_request_disconnect_socket(w, s) ==
  IF ~tcp_is_socket_connected(w, s) THEN tcp_close_socket(w, s)
  ELSE LET d      == DumpRemaining(w, s)
           stored == IF w.tcp.waiting THEN w.tcp.resp_flags ELSE {}
           sent   == tcp_send_command_packet_from_socket(
                       [d EXCEPT !.tcp.resp_flags = IF w.tcp.waiting THEN {} ELSE @],
                       s, {"FIN", "ACK"} \cup stored)
       IN MovesTo(sent, s, "FIN_WAIT_1")

-----------------------------------------------------------------------------
(* Reading *)

tcp_check_socket_for_rx(w, s) == w.tcp.waiting /\ w.tcp.active = s
tcp_dump_rx_packet(w) ==
  LET s == w.tcp.active
  IN Become(Dump(w), s, [Socket(w, s) EXCEPT !.rx_data_bytes_remaining = 0])
=============================================================================
