-------------------------------- MODULE Dhcp --------------------------------
(***************************************************************************)
(* The DHCP client (application/ibexukIP/eth-dhcp.c), which the main loop  *)
(* calls after it has looked for received packets.  process_dhcp is a      *)
(* function on a record w with the fields                                  *)
(*                                                                         *)
(*   nic, udp   see Udp.tla                                                *)
(*   dhcp       the client's state, socket and timers                      *)
(*   ip         our address and mask, and the flag that they are valid     *)
(*                                                                         *)
(* Timers are counted coarsely: the millisecond timer runs or has run out, *)
(* the lease is LeaseTicks of the once-a-second interrupt.                 *)
(***************************************************************************)
EXTENDS Udp

CONSTANTS
  LeaseTicks,     \* lease time, in ticks
  Mask            \* the configured subnet mask: "subnet", or "host" if all ones

DHCPCLIENT_PORT == "68"

ASSUME DhcpAssumption ==
  /\ LeaseTicks \in Nat \ {0}
  /\ Mask \in {"subnet", "host"}
  /\ DHCPCLIENT_PORT \in Ports

DhcpStates == {"INIT", "DISCOVER", "WAIT_FOR_OFFER_RESPONSE", "REQUEST", "RENEWING",
               "WAIT_FOR_REQUEST_RESPONSE", "BOUND"}

DhcpType == [sm : DhcpStates, socket : Sockets \cup {UDP_INVALID_SOCKET},
             timer_1ms : {0, 1}, renewal : 0..(LeaseTicks + 1), lease : 0..LeaseTicks,
             manual : BOOLEAN]     \* eth_dhcp_using_manual_settings
IpType   == [addr : {"none", "ours"}, mask : {"none", "subnet", "host"}, valid : BOOLEAN]

\* static storage, and dhcp_initialise: the socket variable is 0, a valid one
dhcp_initialise(manual) ==
  [sm |-> "INIT", socket |-> 0, timer_1ms |-> 0, renewal |-> 0, lease |-> 0,
   manual |-> manual]
ip_initialise(manual) ==
  IF manual THEN [addr |-> "ours", mask |-> Mask, valid |-> FALSE]
            ELSE [addr |-> "none", mask |-> "none", valid |-> FALSE]

CloseSocket(w) ==
  [udp_close_socket(w, w.dhcp.socket) EXCEPT !.dhcp.socket = UDP_INVALID_SOCKET]

-----------------------------------------------------------------------------
(* The states of process_dhcp *)

Initialise(w) ==
  LET c == [CloseSocket(w) EXCEPT !.ip.valid = FALSE]
  IN IF w.dhcp.manual THEN c
     ELSE [c EXCEPT !.ip.addr = "none", !.ip.mask = "none", !.dhcp.lease = LeaseTicks,
                    !.dhcp.timer_1ms = 1, !.dhcp.sm = "DISCOVER"]

\* DHCP_DISCOVER, DHCP_REQUEST and DHCP_RENEWING open a socket and send; tx is
\* the answer of udp_setup_tx, a socket that cannot send is closed again
Send(w, tx, next) ==
  LET o == [udp_open_socket(w, BROADCAST, DHCPCLIENT_PORT)
              EXCEPT !.dhcp.socket = FreeSocket(w)]
  IN IF FreeSocket(w) = UDP_INVALID_SOCKET THEN o
     ELSE IF ~tx THEN CloseSocket(o)
     ELSE [o EXCEPT !.dhcp.timer_1ms = 1, !.dhcp.sm = next]

\* mutant: discovery goes on whatever has become of the lease
Discover_NoLease(w, tx) ==
  IF w.dhcp.timer_1ms # 0 THEN w ELSE Send(w, tx, "WAIT_FOR_OFFER_RESPONSE")

Discover(w, tx) ==
  IF w.dhcp.timer_1ms # 0 THEN w
  ELSE IF w.dhcp.lease = 0 THEN [w EXCEPT !.dhcp.sm = "INIT"]
  ELSE Send(w, tx, "WAIT_FOR_OFFER_RESPONSE")

Request(w, tx) ==
  IF w.dhcp.timer_1ms # 0 THEN w ELSE Send(w, tx, "WAIT_FOR_REQUEST_RESPONSE")

\* dhcp_rx_packet reads the message the read pointer stands on; a datagram that
\* was already dumped has no bytes and is taken for an invalid message
Message(w) ==
  IF \/ w.udp.socket[w.dhcp.socket].rx_data_bytes_remaining = 0
     \/ Reading(w.nic) = NoPacket
  THEN "none" ELSE Reading(w.nic).msg

dhcp_rx_packet_ok(w) ==
  \/ Message(w) = "nak"
  \/ w.dhcp.sm = "WAIT_FOR_OFFER_RESPONSE" /\ Message(w) = "offer"
  \/ w.dhcp.sm = "WAIT_FOR_REQUEST_RESPONSE" /\ Message(w) = "ack"

dhcp_rx_packet(w) ==
  LET d == udp_dump_rx_packet(w)
      m == Message(w)
  IN IF ~dhcp_rx_packet_ok(w) THEN d
     ELSE [d EXCEPT !.dhcp.sm = CASE m = "nak" -> "INIT" [] m = "offer" -> "REQUEST"
                                  [] m = "ack" -> "BOUND",
                    !.dhcp.timer_1ms = IF m = "ack" THEN @ ELSE 0,
                    !.dhcp.lease     = IF m = "ack" THEN LeaseTicks ELSE @,
                    !.dhcp.renewal   = IF m = "ack" THEN LeaseTicks \div 2 ELSE @,
                    !.ip.addr        = IF m = "ack" THEN "ours" ELSE @,
                    !.ip.mask        = IF m = "ack" THEN Mask ELSE @]

Retry(w) == [CloseSocket(w) EXCEPT !.dhcp.timer_1ms = 1, !.dhcp.sm = "DISCOVER"]

\* mutant: a client that gives up waiting keeps its socket
Wait_NoClose(w) ==
  IF udp_check_socket_for_rx(w, w.dhcp.socket)
  THEN IF dhcp_rx_packet_ok(w) THEN CloseSocket(dhcp_rx_packet(w))
                               ELSE Retry(dhcp_rx_packet(w))
  ELSE IF w.dhcp.timer_1ms = 0
  THEN [w EXCEPT !.dhcp.timer_1ms = 1, !.dhcp.sm = "DISCOVER"] ELSE w

\* both waiting states: an answer, or the timeout
Wait(w) ==
  IF udp_check_socket_for_rx(w, w.dhcp.socket)
  THEN IF dhcp_rx_packet_ok(w) THEN CloseSocket(dhcp_rx_packet(w))
                               ELSE Retry(dhcp_rx_packet(w))
  ELSE IF w.dhcp.timer_1ms = 0 THEN Retry(w) ELSE w

Bound(w) ==
  LET v == [w EXCEPT !.ip.valid = TRUE]
  IN IF w.dhcp.renewal = 0 THEN [v EXCEPT !.dhcp.sm = "RENEWING"]
     ELSE IF w.dhcp.lease = 0 THEN [v EXCEPT !.dhcp.sm = "INIT"]
     ELSE v

\* the checks made before the state machine runs: manual settings, then the link
Prepare(w, linked) ==
  LET m == IF w.dhcp.manual
           THEN [w EXCEPT !.dhcp.sm = "BOUND", !.dhcp.renewal = LeaseTicks + 1,
                          !.dhcp.lease = LeaseTicks]
           ELSE w
  IN IF linked THEN m ELSE [m EXCEPT !.dhcp.sm = "INIT"]

process_dhcp(w, linked, tx) ==
  LET p == Prepare(w, linked)
  IN CASE p.dhcp.sm = "INIT"     -> Initialise(p)
       [] p.dhcp.sm = "DISCOVER" -> Discover(p, tx)
       [] p.dhcp.sm \in {"REQUEST", "RENEWING"} -> Request(p, tx)
       [] p.dhcp.sm \in {"WAIT_FOR_OFFER_RESPONSE", "WAIT_FOR_REQUEST_RESPONSE"} -> Wait(p)
       [] p.dhcp.sm = "BOUND"    -> Bound(p)
=============================================================================
