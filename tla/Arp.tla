-------------------------------- MODULE Arp --------------------------------
(***************************************************************************)
(* ARP (application/ibexukIP/eth-arp.c), as operators on a record w with   *)
(* the fields                                                              *)
(*                                                                         *)
(*   arp       arp_last_received_response                                  *)
(*   arp_out   the packet this call has transmitted, or NoPacket           *)
(*                                                                         *)
(* The code is that of the build: with PACKED_STRUCT (main.h.in:129), and  *)
(* with an nic_setup_tx that never refuses (eth-nic.c:194), so that a      *)
(* request is answered in the call that reads it.  Remote devices are on   *)
(* the device's own subnet.                                                *)
(***************************************************************************)
CONSTANT
  Ends      \* remote ends, each with one IP and one MAC address

NoEnd == "0.0.0.0"

ASSUME ArpAssumption == NoEnd \notin Ends

\* "other": another operation, or a request for the address of somebody else
ArpPacket(op, e) == [op |-> op, end |-> e]
ArpPackets == [op : {"request", "response", "other"}, end : Ends]
NoPacket   == ArpPacket("none", NoEnd)

ArpType == [ip : Ends \cup {NoEnd}, mac : Ends \cup {NoEnd}]

arp_initialise == [ip |-> NoEnd, mac |-> NoEnd]

arp_tx_packet(w, op, e) == [w EXCEPT !.arp_out = ArpPacket(op, e)]

arp_resolve_ip_address(w, e) == arp_tx_packet([w EXCEPT !.arp.ip = NoEnd], "request", e)

arp_is_resolve_complete(w, e) == w.arp.ip = e

\* of a response only the MAC address is stored
arp_process_rx(w, p) ==
  CASE p.op = "request"  -> arp_tx_packet(w, "response", p.end)
    [] p.op = "response" -> [w EXCEPT !.arp.mac = p.end]
    [] p.op = "other"    -> w
=============================================================================
