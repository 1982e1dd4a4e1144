-------------------------------- MODULE Udp --------------------------------
(***************************************************************************)
(* The receive interface of the network controller as the stack sees it    *)
(* (application/ibexukIP/eth-nic.c) and the UDP sockets                    *)
(* (application/ibexukIP/eth-udp.c), as operators on two values:           *)
(*                                                                         *)
(*   nic  the receive slots, the slot being worked on and the read pointer *)
(*   udp  the socket table and the datagram that waits to be processed     *)
(*                                                                         *)
(* The C functions call each other sequentially in one main loop, so each  *)
(* of them is a function from the values before to the values after; the   *)
(* modules that extend this one make actions of them.  MiniMac.tla models  *)
(* what is below: here a slot is free, holds a whole frame or is held by   *)
(* the stack.                                                              *)
(***************************************************************************)
EXTENDS Integers

CONSTANTS
  NumSlots,          \* MINIMAC_RX_SLOT_COUNT
  NumSockets,        \* UDP_NO_OF_AVAILABLE_SOCKETS
  Ports,             \* the UDP ports in use by this device
  Senders,           \* the remote devices
  MaxLen,            \* longest UDP data area
  ChecksumsEnabled   \* UDP_CHECKSUMS_ENABLED

Slots   == 0..(NumSlots - 1)
NoSlot  == NumSlots                 \* MINIMAC_RX_SLOT_INVALID
Sockets == 0..(NumSockets - 1)
UDP_INVALID_SOCKET == NumSockets
UDP_PORT_NULL      == "null"        \* 0xffff
BROADCAST          == "255.255.255.255"

\* a socket is never opened on the port that marks a closed one, and no remote
\* device has our address or one that stands for none or for all
ASSUME UdpAssumption ==
  /\ NumSlots \in Nat \ {0}
  /\ NumSockets \in 1..255
  /\ UDP_PORT_NULL \notin Ports
  /\ Senders \cap {"none", "ours", BROADCAST} = {}
  /\ MaxLen \in Nat
  /\ ChecksumsEnabled \in BOOLEAN

(***************************************************************************)
(* Frames.  kind: what the dispatcher tells apart; ok: the checksum of the *)
(* protocol inside is right; dst: our address or a broadcast; opts: bytes  *)
(* of IP options; msg: the DHCP message inside, if any.                    *)
(***************************************************************************)
Kinds == {"arp", "icmp", "udp", "otherip", "badip", "unknown", "corrupt"}
Frame == [kind : Kinds, ok : BOOLEAN, dst : {"ours", "broadcast"},
          src : Senders, port : Ports \cup {UDP_PORT_NULL}, len : 0..MaxLen,
          opts : {0, 4}, msg : {"none", "offer", "ack", "nak"}]
NoPacket == [kind |-> "none", ok |-> FALSE, dst |-> "none", src |-> "none",
             port |-> UDP_PORT_NULL, len |-> 0, opts |-> 0, msg |-> "none"]

NicType == [state : [Slots -> {"ready", "data", "disabled"}],
            packet : [Slots -> Frame \cup {NoPacket}],
            rxWorkingSlot : Slots \cup {NoSlot},
            \* rxPointer: the slot it points into, and where, relative to
            \* the first byte of the UDP data
            rxSlot : Slots, rxPointer : Int]
UdpType == [socket : [Sockets -> [local_port : Ports \cup {UDP_PORT_NULL},
                                  remote_ip : Senders \cup {BROADCAST, "none"},
                                  rx_data_bytes_remaining : 0..MaxLen]],
            waiting : BOOLEAN,      \* udp_rx_packet_is_waiting_to_be_processed
            active : Sockets \cup {UDP_INVALID_SOCKET}]

-----------------------------------------------------------------------------
(* The network controller *)

nic_initialise == [state |-> [i \in Slots |-> "ready"],
                   packet |-> [i \in Slots |-> NoPacket],
                   rxWorkingSlot |-> NoSlot, rxSlot |-> 0, rxPointer |-> 0]

Lowest(S) == CHOOSE i \in S : \A j \in S : i <= j

\* the MAC stores a frame into the lowest ready slot
Receive(nic, f) ==
  LET i == Lowest({j \in Slots : nic.state[j] = "ready"})
  IN [nic EXCEPT !.state[i] = "data", !.packet[i] = f]

ReleaseSlot(nic, i) == [nic EXCEPT !.state[i] = "ready", !.packet[i] = NoPacket]

\* the working slot is overwritten by the lowest slot that has a frame, or by
\* "none"; a frame with a wrong frame checksum goes back to the receiver
nic_check_for_rx(nic) ==
  LET full == {i \in Slots : nic.state[i] = "data"}
      i    == Lowest(full)
  IN IF full = {} THEN [nic EXCEPT !.rxWorkingSlot = NoSlot]
     ELSE IF nic.packet[i].kind = "corrupt"
          THEN [ReleaseSlot(nic, i) EXCEPT !.rxWorkingSlot = NoSlot, !.rxSlot = i]
          ELSE [nic EXCEPT !.rxWorkingSlot = i, !.rxSlot = i, !.state[i] = "disabled"]

nic_rx_dump_packet(nic) ==
  IF nic.rxWorkingSlot = NoSlot THEN nic
  ELSE [ReleaseSlot(nic, nic.rxWorkingSlot) EXCEPT !.rxWorkingSlot = NoSlot]

\* the frame that reading goes on in
Reading(nic) == nic.packet[nic.rxSlot]

-----------------------------------------------------------------------------
(* UDP.  The functions below work on w, a record with fields nic and udp   *)
(* (and whatever else the caller keeps in it).                             *)

Dump(w) == [w EXCEPT !.nic = nic_rx_dump_packet(w.nic)]

udp_initialise ==
  [socket |-> [s \in Sockets |-> [local_port |-> UDP_PORT_NULL, remote_ip |-> "none",
                                  rx_data_bytes_remaining |-> 0]],
   waiting |-> FALSE, active |-> 0]

\* udp_open_socket: the socket it returns, and the table after it
FreeSocket(w) ==
  LET free == {s \in Sockets : w.udp.socket[s].local_port = UDP_PORT_NULL}
  IN IF free = {} THEN UDP_INVALID_SOCKET ELSE Lowest(free)

udp_open_socket(w, remote, port) ==
  IF FreeSocket(w) = UDP_INVALID_SOCKET THEN w
  ELSE [w EXCEPT !.udp.socket[FreeSocket(w)].local_port = port,
                 !.udp.socket[FreeSocket(w)].remote_ip = remote]

udp_check_socket_for_rx(w, s) == w.udp.waiting /\ w.udp.active = s

\* the packet is dumped and 0 remaining bytes tell the stack so
udp_dump_rx_packet(w) ==
  [Dump(w) EXCEPT !.udp.socket[w.udp.active].rx_data_bytes_remaining = 0]

\* mutant: a socket with a packet waiting is closed without dumping it
udp_close_socket_NoDump(w, s) ==
  IF s = UDP_INVALID_SOCKET THEN w
  ELSE [w EXCEPT !.udp.socket[s].local_port = UDP_PORT_NULL]

\* the caller's socket variable becomes UDP_INVALID_SOCKET
udp_close_socket(w, s) ==
  IF s = UDP_INVALID_SOCKET THEN w
  ELSE LET d == IF udp_check_socket_for_rx(w, s) THEN udp_dump_rx_packet(w) ELSE w
       IN [d EXCEPT !.udp.socket[s].local_port = UDP_PORT_NULL]

\* udp_read_next_rx_byte and udp_read_rx_array, n <= the bytes remaining
udp_read_rx_array(w, n) ==
  [w EXCEPT !.udp.socket[w.udp.active].rx_data_bytes_remaining = @ - n,
            !.nic.rxPointer = @ + n]

(***************************************************************************)
(* The sender test of udp_rx_check_for_matches_socket.  Its middle term is *)
(* (remote == our_ip) | ~our_subnet_mask: any host bit of the mask makes   *)
(* it true.  ip: our address ("none" is 0.0.0.0, as in the static table)   *)
(* and mask.                                                               *)
(***************************************************************************)
SenderMatches(sock, src, ip) ==
  \/ sock.remote_ip = src
  \/ sock.remote_ip = ip.addr \/ ip.mask # "host"
  \/ sock.remote_ip = BROADCAST

Matching(w, f, ip) ==
  {s \in Sockets : /\ w.udp.socket[s].local_port = f.port
                   /\ SenderMatches(w.udp.socket[s], f.src, ip)}

\* a matching datagram is left in its slot and announced to the application;
\* the checksum's pass over the data ends with nic_move_pointer to a constant
Announce(w, s, f) ==
  [w EXCEPT !.udp.socket[s].remote_ip = IF @ = BROADCAST THEN f.src ELSE @,
            !.udp.socket[s].rx_data_bytes_remaining = f.len,
            !.udp.active = s, !.udp.waiting = TRUE,
            !.nic.rxPointer = IF ChecksumsEnabled THEN 0 - f.opts ELSE 0]

\* udp_process_rx returns 1: the packet has been processed
UdpDone(w, ip) ==
  IF w.udp.waiting
  THEN w.udp.socket[w.udp.active].rx_data_bytes_remaining = 0
  ELSE LET f == Reading(w.nic)
       IN Matching(w, f, ip) = {} \/ (ChecksumsEnabled /\ ~f.ok)

udp_process_rx(w, ip) ==
  IF w.udp.waiting
  THEN IF UdpDone(w, ip)
       THEN [w EXCEPT !.udp.active = UDP_INVALID_SOCKET, !.udp.waiting = FALSE]
       ELSE w
  ELSE IF UdpDone(w, ip) THEN Dump(w)
       ELSE LET f == Reading(w.nic)
            IN Announce(w, Lowest(Matching(w, f, ip)), f)
=============================================================================
