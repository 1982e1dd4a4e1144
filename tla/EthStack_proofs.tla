-------------------------- MODULE EthStack_proofs --------------------------
(***************************************************************************)
(* Proofs about the packet loop with its UDP sockets and DHCP client: a    *)
(* slot is lost on the paths named and no other, an announced datagram     *)
(* stays where it is, and the table of sockets has owners, for any number  *)
(* of slots, sockets, applications and senders.                            *)
(*                                                                         *)
(* Each C function is a function on the record w of the globals, so there  *)
(* is one lemma per function, which says what it does to the parts of w    *)
(* that the invariants are about; the actions then only combine them.      *)
(***************************************************************************)
EXTENDS EthStack, WellFoundedInduction, TLAPS

\* a frame is plain unless it is a datagram for the port that marks a closed socket
Plain(f) == f \in Frame /\ (f.kind = "udp" => f.port # UDP_PORT_NULL)

NoNullDatagrams == \A sc \in Scenarios : \A f \in sc.packets : f.kind = "udp" => f.port # UDP_PORT_NULL

Empty(f) == f.kind = "udp" /\ f.len = 0

\* the link comes up once and stays, and no datagram is for a closed socket
Calm == LinkMayFail = FALSE /\ ~NullDatagrams

WType == [nic : NicType, udp : UdpType, dhcp : DhcpType, ip : IpType]

-----------------------------------------------------------------------------
(* The invariants *)

\* the slot held is disabled, the others that are lost an empty datagram; what
\* slots hold are frames
SlotsInv(n) ==
  /\ n \in NicType
  /\ \A i \in Slots : n.state[i] = "disabled" => n.rxWorkingSlot = i \/ Empty(n.packet[i])
  /\ n.rxWorkingSlot # NoSlot => n.state[n.rxWorkingSlot] = "disabled"
  /\ \A i \in Slots : n.state[i] # "ready" => Plain(n.packet[i])
  /\ n.rxWorkingSlot # NoSlot => n.rxSlot = n.rxWorkingSlot

IsOpen(u, s) == u.socket[s].local_port # UDP_PORT_NULL

\* where the read pointer stands once a datagram has been announced
FirstByte(f) == IF ChecksumsEnabled THEN 0 - f.opts ELSE 0

\* the datagram announced is held until nothing is left to read
WaitingInv(n, u) ==
  /\ u \in UdpType
  /\ \A s \in Sockets : IsOpen(u, s) => u.socket[s].remote_ip # "none"
  /\ u.waiting =>
       /\ u.active \in Sockets
       /\ u.socket[u.active].rx_data_bytes_remaining # 0 => n.rxWorkingSlot # NoSlot
       /\ n.rxWorkingSlot # NoSlot =>
            /\ Reading(n).kind = "udp" /\ Reading(n).port = u.socket[u.active].local_port
            /\ Reading(n).len = u.socket[u.active].rx_data_bytes_remaining
            /\ n.rxPointer = FirstByte(Reading(n))

\* the dispatcher's state says whether a slot is held, but for that of an empty
\* datagram which has been taken for dumped; without a link nothing is open
NothingHeld(n) == n.rxWorkingSlot = NoSlot \/ Empty(Reading(n))

DispatchInv ==
  /\ udp.waiting => sm_ethernet_stack = "UDP"
  /\ ~udp.waiting /\ sm_ethernet_stack \in {"ARP", "IP", "ICMP", "UDP"} => nic.rxWorkingSlot # NoSlot
  /\ sm_ethernet_stack \in {"IDLE", "ICMP_REPLY"} => NothingHeld(nic)
  /\ sm_ethernet_stack = "UDP" /\ ~udp.waiting => Reading(nic).kind = "udp"
  /\ pc # "loop" => sm_ethernet_stack = "IDLE" \/ udp.waiting
  /\ ~nic_is_linked => ~udp.waiting /\ ~ip.valid /\ \A s \in Sockets : ~IsOpen(udp, s)

AppsInv ==
  \A k \in Apps : app[k].sm = "OPEN_SOCKET" <=> app[k].socket = UDP_INVALID_SOCKET

IInv == TypeOK /\ SlotsInv(nic) /\ WaitingInv(nic, udp) /\ DispatchInv /\ AppsInv

Awaiting == {"WAIT_FOR_OFFER_RESPONSE", "WAIT_FOR_REQUEST_RESPONSE"}

\* every open socket is that of one application, or of the client that waits for
\* an answer; its socket variable names no socket otherwise, but for the static
\* 0 before it has run and while settings are manual
Owned(u, d, i, a) ==
  /\ \A k \in Apps : a[k].socket \in Sockets =>
       /\ u.socket[a[k].socket].local_port = AppPort[k]
       /\ \A j \in Apps : a[j].socket = a[k].socket => j = k
       /\ ~(d.sm \in Awaiting /\ d.socket = a[k].socket)
  /\ \A s \in Sockets : IsOpen(u, s) =>
       \/ \E k \in Apps : a[k].socket = s
       \/ d.sm \in Awaiting /\ d.socket = s
  /\ d.manual => d.sm \in {"INIT", "BOUND"}
  /\ \/ d.socket = UDP_INVALID_SOCKET
     \/ d.sm \in Awaiting /\ d.socket \in Sockets /\ IsOpen(u, d.socket)
     \/ d.manual /\ d.sm = "BOUND"
     \/ d.sm = "INIT" /\ ~i.valid /\ \A s \in Sockets : ~IsOpen(u, s)
  /\ d.sm \in Awaiting => d.socket \in Sockets

\* what is said of settings that do not change
OwnerInv == scenario.switches = {} => Owned(udp, dhcp, ip, app)

-----------------------------------------------------------------------------
(* The functions, one by one *)

LEMMA LowestIsIn == ASSUME NEW S, S \subseteq Nat, S # {} PROVE Lowest(S) \in S
<1> DEFINE R == OpToRel(<, Nat)
<1>1. IsWellFoundedOn(R, Nat)
  BY NatLessThanWellFounded
<1>2. PICK x \in S : \A y \in S : <<y, x>> \notin R
  <2> HIDE DEF R
  <2> QED BY <1>1, WFMin
<1>3. \A a, b \in Nat : a < b => <<a, b>> \in R
  BY DEF OpToRel
<1> HIDE DEF R
<1>4. \A y \in S : ~(y < x)
  BY <1>2, <1>3
<1>5. \E i \in S : \A j \in S : i <= j
  BY <1>4
<1> QED
  BY <1>5 DEF Lowest

LEMMA Indices ==
  /\ Slots \subseteq Nat /\ NoSlot \notin Slots
  /\ Sockets \subseteq Nat /\ UDP_INVALID_SOCKET \notin Sockets
BY UdpAssumption DEF Slots, NoSlot, Sockets, UDP_INVALID_SOCKET

\* dumping the packet frees its slot, and only that one
LEMMA DumpKeepsSlots ==
  ASSUME NEW n, SlotsInv(n)
  PROVE  LET d == nic_rx_dump_packet(n)
         IN /\ SlotsInv(d) /\ d.rxWorkingSlot = NoSlot
            /\ d.rxPointer = n.rxPointer
BY Indices DEF SlotsInv, NicType, nic_rx_dump_packet, ReleaseSlot

\* looking for a packet, with none held: it is held now, or none is
LEMMA CheckKeepsSlots ==
  ASSUME NEW n, SlotsInv(n), NothingHeld(n)
  PROVE  SlotsInv(nic_check_for_rx(n))
<1> DEFINE full == {i \in Slots : n.state[i] = "data"}
<1>1. full # {} => Lowest(full) \in full
  BY Indices, LowestIsIn
<1> QED
  BY <1>1, Indices DEF SlotsInv, NicType, NothingHeld, Reading, nic_check_for_rx, ReleaseSlot

LEMMA ReceiveKeepsSlots ==
  ASSUME NEW n, SlotsInv(n), NEW f, Plain(f), \E i \in Slots : n.state[i] = "ready"
  PROVE  /\ SlotsInv(Receive(n, f))
         /\ Receive(n, f).rxWorkingSlot = n.rxWorkingSlot
         /\ Receive(n, f).rxSlot = n.rxSlot /\ Receive(n, f).rxPointer = n.rxPointer
         /\ n.rxWorkingSlot # NoSlot => Reading(Receive(n, f)) = Reading(n)
<1> DEFINE ready == {j \in Slots : n.state[j] = "ready"}
<1>1. Lowest(ready) \in ready
  BY Indices, LowestIsIn
<1> QED
  BY <1>1, Indices DEF SlotsInv, NicType, Receive, Reading, Plain

\* the invariants of the two records that the functions below work on
Sound(w) == w \in WType /\ SlotsInv(w.nic) /\ WaitingInv(w.nic, w.udp)

\* the sockets' ports and peers are as they were, except for those of s
SameBut(v, w, s) ==
  /\ v.udp.waiting = w.udp.waiting /\ v.udp.active = w.udp.active
  /\ \A t \in Sockets \ {s} :
       /\ v.udp.socket[t].local_port = w.udp.socket[t].local_port
       /\ v.udp.socket[t].remote_ip = w.udp.socket[t].remote_ip

\* a socket's entry in the table of u, and u with another one
EntryType == [local_port : Ports \cup {UDP_PORT_NULL},
              remote_ip : Senders \cup {BROADCAST, "none"},
              rx_data_bytes_remaining : 0..MaxLen]
With(u, s, k) == [u EXCEPT !.socket[s] = k]

\* v is u but for the entry of s
Updated(v, u, s, k) ==
  /\ v \in UdpType /\ v.waiting = u.waiting /\ v.active = u.active
  /\ \A t \in Sockets : v.socket[t] = IF t = s THEN k ELSE u.socket[t]

LEMMA WithUpdates ==
  ASSUME NEW u \in UdpType, NEW s \in Sockets, NEW k \in EntryType
  PROVE  Updated(With(u, s, k), u, s, k)
BY DEF UdpType, EntryType, With, Updated

LEMMA EntryHas ==
  ASSUME NEW u \in UdpType, NEW s \in Sockets
  PROVE  u.socket[s] \in EntryType
BY DEF UdpType, EntryType

\* a datagram waits, of which any part may have been read
Dumpable(w) ==
  /\ w \in WType /\ SlotsInv(w.nic) /\ w.udp.waiting /\ w.udp.active \in Sockets
  /\ \A s \in Sockets : IsOpen(w.udp, s) => w.udp.socket[s].remote_ip # "none"

LEMMA SoundIsDumpable == ASSUME NEW w, Sound(w), w.udp.waiting PROVE Dumpable(w)
BY DEF Sound, WaitingInv, Dumpable

\* udp_dump_rx_packet
LEMMA DumpIsSound ==
  ASSUME NEW w, Dumpable(w)
  PROVE  /\ Sound(udp_dump_rx_packet(w))
         /\ SameBut(udp_dump_rx_packet(w), w, UDP_INVALID_SOCKET)
         /\ udp_dump_rx_packet(w).dhcp = w.dhcp /\ udp_dump_rx_packet(w).ip = w.ip
         /\ udp_dump_rx_packet(w).nic.rxWorkingSlot = NoSlot
<1> DEFINE n == nic_rx_dump_packet(w.nic)
           a == w.udp.active
           k == [w.udp.socket[a] EXCEPT !.rx_data_bytes_remaining = 0]
           u == With(w.udp, a, k)
<1>1. SlotsInv(n) /\ n.rxWorkingSlot = NoSlot /\ n \in NicType
  BY DumpKeepsSlots DEF Dumpable, SlotsInv
<1>2. w.udp \in UdpType /\ a \in Sockets
  BY DEF Dumpable, WType
<1>3. w.udp.socket[a] \in EntryType /\ k \in EntryType
  <2>1. 0 \in 0..MaxLen
    BY UdpAssumption
  <2>2. w.udp.socket[a] \in EntryType
    BY <1>2, EntryHas
  <2> QED
    BY <2>1, <2>2 DEF EntryType
<1>4. Updated(u, w.udp, a, k)
  <2> HIDE DEF k
  <2> QED BY <1>2, <1>3, WithUpdates
<1>5. \A t \in Sockets : /\ u.socket[t].local_port = w.udp.socket[t].local_port
                        /\ u.socket[t].remote_ip = w.udp.socket[t].remote_ip
  BY <1>3, <1>4 DEF EntryType, Updated
<1>6. u.socket[a].rx_data_bytes_remaining = 0
  BY <1>2, <1>3, <1>4 DEF EntryType, Updated
<1>7. udp_dump_rx_packet(w) = [w EXCEPT !.nic = n, !.udp = u]
  <2>1. Dump(w) = [w EXCEPT !.nic = n]
    BY DEF Dump
  <2>2. udp_dump_rx_packet(w) = [[w EXCEPT !.nic = n] EXCEPT !.udp = u]
    BY <2>1, <1>2, <1>3 DEF udp_dump_rx_packet, Dumpable, WType, UdpType, With
  <2> QED BY <2>2
<1> HIDE DEF n, u, k
<1>8. WaitingInv(n, u)
  BY <1>1, <1>2, <1>4, <1>5, <1>6 DEF Dumpable, WaitingInv, IsOpen, Updated
<1>9. udp_dump_rx_packet(w) \in WType /\ udp_dump_rx_packet(w).nic = n /\ udp_dump_rx_packet(w).udp = u
      /\ udp_dump_rx_packet(w).dhcp = w.dhcp /\ udp_dump_rx_packet(w).ip = w.ip
  BY <1>1, <1>4, <1>7 DEF Dumpable, WType, Updated
<1> QED
  BY <1>1, <1>4, <1>5, <1>8, <1>9 DEF Sound, SameBut, Updated

\* udp_close_socket: its packet goes with it
LEMMA CloseIsSound ==
  ASSUME NEW w, Sound(w), NEW s \in Sockets \cup {UDP_INVALID_SOCKET}
  PROVE  /\ Sound(udp_close_socket(w, s)) /\ SameBut(udp_close_socket(w, s), w, s)
         /\ udp_close_socket(w, s).dhcp = w.dhcp /\ udp_close_socket(w, s).ip = w.ip
         /\ s \in Sockets => ~IsOpen(udp_close_socket(w, s).udp, s)
         /\ ~(w.udp.waiting /\ w.udp.active = s) => udp_close_socket(w, s).nic = w.nic
         /\ udp_close_socket(w, s).nic = w.nic \/ udp_close_socket(w, s).nic.rxWorkingSlot = NoSlot
<1>1. CASE s = UDP_INVALID_SOCKET
  BY <1>1, Indices DEF udp_close_socket, SameBut
<1>2. CASE s \in Sockets
  <2> DEFINE d == IF udp_check_socket_for_rx(w, s) THEN udp_dump_rx_packet(w) ELSE w
             k == [d.udp.socket[s] EXCEPT !.local_port = UDP_PORT_NULL]
             u == With(d.udp, s, k)
             c == udp_close_socket(w, s)
  <2>1. /\ Sound(d) /\ SameBut(d, w, UDP_INVALID_SOCKET) /\ d.dhcp = w.dhcp /\ d.ip = w.ip
        /\ d.udp.waiting /\ d.udp.active = s => d.nic.rxWorkingSlot = NoSlot
        /\ ~(w.udp.waiting /\ w.udp.active = s) => d = w
        /\ d.nic = w.nic \/ d.nic.rxWorkingSlot = NoSlot
    BY DumpIsSound, SoundIsDumpable DEF udp_check_socket_for_rx, SameBut
  <2>2. c = [d EXCEPT !.udp.socket[s].local_port = UDP_PORT_NULL]
    BY <1>2, Indices DEF udp_close_socket
  <2> HIDE DEF d
  <2>3. d.udp \in UdpType /\ d.udp.socket[s] \in EntryType
    BY <1>2, <2>1, EntryHas DEF Sound, WaitingInv
  <2>4. k \in EntryType
    BY <2>3 DEF EntryType
  <2>5. c = [d EXCEPT !.udp = u]
    BY <1>2, <2>2, <2>3 DEF With, UdpType
  <2>6. Updated(u, d.udp, s, k)
    <3> HIDE DEF k
    <3> QED BY <1>2, <2>3, <2>4, WithUpdates
  <2>7. k.local_port = UDP_PORT_NULL
        /\ k.rx_data_bytes_remaining = d.udp.socket[s].rx_data_bytes_remaining
    BY <2>3 DEF EntryType
  <2> HIDE DEF u, k, c
  <2>8. c \in WType /\ c.nic = d.nic /\ c.udp = u /\ c.dhcp = d.dhcp /\ c.ip = d.ip
    BY <2>1, <2>5, <2>6 DEF Sound, WType, Updated
  <2>9. WaitingInv(d.nic, u)
    BY <1>2, <2>1, <2>6, <2>7 DEF Sound, WaitingInv, IsOpen, Updated
  <2>10. Sound(c) /\ ~IsOpen(c.udp, s) /\ SameBut(c, w, s)
    BY <1>2, <2>1, <2>6, <2>7, <2>8, <2>9, Indices DEF Sound, IsOpen, Updated, SameBut
  <2> QED
    BY <1>2, <2>1, <2>8, <2>10 DEF c
<1> QED
  BY <1>1, <1>2

\* reading some bytes and dumping the rest, the way applications do
LEMMA ReadAndDumpIsSound ==
  ASSUME NEW w, Sound(w), w.udp.waiting,
         NEW n \in 0..w.udp.socket[w.udp.active].rx_data_bytes_remaining
  PROVE  LET d == udp_dump_rx_packet(udp_read_rx_array(w, n))
         IN /\ Sound(d) /\ SameBut(d, w, UDP_INVALID_SOCKET) /\ d.dhcp = w.dhcp /\ d.ip = w.ip
            /\ d.nic.rxWorkingSlot = NoSlot
<1> DEFINE a == w.udp.active
           k == [w.udp.socket[a] EXCEPT !.rx_data_bytes_remaining = @ - n]
           u == With(w.udp, a, k)
           m == [w.nic EXCEPT !.rxPointer = @ + n]
           r == udp_read_rx_array(w, n)
<1>1. w.udp \in UdpType /\ a \in Sockets /\ w.udp.socket[a] \in EntryType
  BY EntryHas DEF Sound, WaitingInv
<1>2. k \in EntryType
  <2>1. w.udp.socket[a].rx_data_bytes_remaining \in 0..MaxLen
    BY <1>1 DEF EntryType
  <2>2. w.udp.socket[a].rx_data_bytes_remaining - n \in 0..MaxLen
    BY <2>1, UdpAssumption
  <2> QED
    BY <1>1, <2>2 DEF EntryType
<1>3. r = [w EXCEPT !.udp = u, !.nic = m]
  BY <1>1 DEF udp_read_rx_array, With, Sound, WType, UdpType
<1>4. Updated(u, w.udp, a, k)
  <2> HIDE DEF k
  <2> QED BY <1>1, <1>2, WithUpdates
<1>5. k.local_port = w.udp.socket[a].local_port /\ k.remote_ip = w.udp.socket[a].remote_ip
  BY <1>1 DEF EntryType
<1>6. SlotsInv(m) /\ m \in NicType
  BY DEF Sound, SlotsInv, NicType
<1> HIDE DEF u, k, m, r
<1>7. r \in WType /\ r.udp = u /\ r.nic = m /\ r.dhcp = w.dhcp /\ r.ip = w.ip
  BY <1>3, <1>4, <1>6 DEF Sound, WType, Updated
<1>8. Dumpable(r) /\ SameBut(r, w, UDP_INVALID_SOCKET)
  <2>1. \A t \in Sockets : /\ u.socket[t].local_port = w.udp.socket[t].local_port
                          /\ u.socket[t].remote_ip = w.udp.socket[t].remote_ip
    BY <1>4, <1>5 DEF Updated
  <2>2. u.waiting /\ u.active \in Sockets /\ u.waiting = w.udp.waiting /\ u.active = w.udp.active
    BY <1>1, <1>4 DEF Updated
  <2> QED
    BY <1>6, <1>7, <2>1, <2>2 DEF Sound, WaitingInv, Dumpable, SameBut, IsOpen
<1>9. QED
  BY <1>7, <1>8, DumpIsSound DEF SameBut, r

\* a datagram that is held waits for an open socket
LEMMA ActiveIsOpen ==
  ASSUME NEW w, Sound(w), w.udp.waiting, w.nic.rxWorkingSlot # NoSlot
  PROVE  IsOpen(w.udp, w.udp.active)
<1>1. Plain(Reading(w.nic))
  BY DEF Sound, SlotsInv, NicType, Reading
<1> QED
  BY <1>1 DEF Sound, WaitingInv, IsOpen, Plain

LEMMA FreeSocketIs ==
  ASSUME NEW w
  PROVE  \/ FreeSocket(w) = UDP_INVALID_SOCKET
         \/ FreeSocket(w) \in Sockets /\ ~IsOpen(w.udp, FreeSocket(w))
<1> DEFINE free == {s \in Sockets : w.udp.socket[s].local_port = UDP_PORT_NULL}
<1>1. free # {} => Lowest(free) \in free
  BY Indices, LowestIsIn
<1> QED
  BY <1>1 DEF FreeSocket, IsOpen

\* udp_open_socket, for a datagram from anyone
LEMMA OpenIsSound ==
  ASSUME NEW w, Sound(w), NEW p \in Ports
  PROVE  LET o == udp_open_socket(w, BROADCAST, p)
             s == FreeSocket(w)
         IN /\ Sound(o) /\ SameBut(o, w, s)
            /\ o.dhcp = w.dhcp /\ o.ip = w.ip /\ o.nic = w.nic
            /\ s \in Sockets =>
                 o.udp.socket[s].local_port = p /\ o.udp.socket[s].remote_ip = BROADCAST
<1> DEFINE s == FreeSocket(w)
           o == udp_open_socket(w, BROADCAST, p)
<1>1. CASE s = UDP_INVALID_SOCKET
  BY <1>1, Indices DEF udp_open_socket, SameBut
<1>2. CASE s # UDP_INVALID_SOCKET
  <2> DEFINE k == [w.udp.socket[s] EXCEPT !.local_port = p, !.remote_ip = BROADCAST]
             u == With(w.udp, s, k)
  <2>1. s \in Sockets /\ ~IsOpen(w.udp, s)
    BY <1>2, FreeSocketIs
  <2>2. w.udp \in UdpType /\ w.udp.socket[s] \in EntryType
    BY <2>1, EntryHas DEF Sound, WaitingInv
  <2>3. k \in EntryType
    BY <2>2 DEF EntryType
  <2>4. o = [w EXCEPT !.udp = u]
    <3>1. o = [w EXCEPT !.udp.socket[s].local_port = p, !.udp.socket[s].remote_ip = BROADCAST]
      BY <1>2 DEF udp_open_socket
    <3> DEFINE v == [w.udp.socket[s] EXCEPT !.local_port = p]
               x == [w EXCEPT !.udp = With(w.udp, s, v)]
    <3> HIDE DEF s
    <3>2. x.udp = With(w.udp, s, v)
      BY DEF Sound, WType
    <3>3. x.udp.socket[s] = v /\ x.udp.socket = [w.udp.socket EXCEPT ![s] = v]
      BY <2>1, <2>2, <3>2 DEF With, UdpType
    <3>4. o = [x EXCEPT !.udp.socket[s].remote_ip = BROADCAST]
      BY <3>1 DEF With
    <3>5. o = [x EXCEPT !.udp = [x.udp EXCEPT !.socket =
                 [x.udp.socket EXCEPT ![s] = [v EXCEPT !.remote_ip = BROADCAST]]]]
      BY <3>3, <3>4
    <3>6. [v EXCEPT !.remote_ip = BROADCAST] = k
      OBVIOUS
    <3>7. [x.udp.socket EXCEPT ![s] = k] = [w.udp.socket EXCEPT ![s] = k]
      BY <3>3, <2>1, <2>2 DEF UdpType
    <3>8. [x.udp EXCEPT !.socket = [w.udp.socket EXCEPT ![s] = k]] = u
      BY <3>2, <2>2 DEF With, UdpType
    <3> QED
      BY <3>5, <3>6, <3>7, <3>8 DEF Sound, WType
  <2>5. Updated(u, w.udp, s, k)
    <3> HIDE DEF k
    <3> QED BY <2>1, <2>2, <2>3, WithUpdates
  <2>6. k.local_port = p /\ k.remote_ip = BROADCAST
        /\ k.rx_data_bytes_remaining = w.udp.socket[s].rx_data_bytes_remaining
    BY <2>2 DEF EntryType
  <2> HIDE DEF u, k, o, s
  <2>7. o \in WType /\ o.nic = w.nic /\ o.udp = u /\ o.dhcp = w.dhcp /\ o.ip = w.ip
    BY <2>4, <2>5 DEF Sound, WType, Updated
  <2>8. w.udp.waiting /\ w.nic.rxWorkingSlot # NoSlot => w.udp.active # s
    BY <2>1, ActiveIsOpen
  <2>9. WaitingInv(w.nic, u)
    BY <2>1, <2>5, <2>6, <2>8 DEF Sound, WaitingInv, IsOpen, Updated, BROADCAST
  <2> QED
    BY <2>1, <2>5, <2>6, <2>7, <2>9 DEF Sound, SameBut, Updated, o, s
<1> QED
  BY <1>1, <1>2

\* a socket takes datagrams from anyone again
LEMMA UnbindIsSound ==
  ASSUME NEW w, Sound(w), NEW s \in Sockets
  PROVE  LET r == [w EXCEPT !.udp.socket[s].remote_ip = BROADCAST]
         IN /\ Sound(r) /\ SameBut(r, w, s) /\ r.dhcp = w.dhcp /\ r.ip = w.ip /\ r.nic = w.nic
            /\ r.udp.socket[s].remote_ip = BROADCAST
            /\ r.udp.socket[s].local_port = w.udp.socket[s].local_port
<1> DEFINE k == [w.udp.socket[s] EXCEPT !.remote_ip = BROADCAST]
           u == With(w.udp, s, k)
           r == [w EXCEPT !.udp.socket[s].remote_ip = BROADCAST]
<1>1. w.udp \in UdpType /\ w.udp.socket[s] \in EntryType
  BY EntryHas DEF Sound, WaitingInv
<1>2. k \in EntryType /\ k.remote_ip = BROADCAST /\ k.local_port = w.udp.socket[s].local_port
      /\ k.rx_data_bytes_remaining = w.udp.socket[s].rx_data_bytes_remaining
  BY <1>1 DEF EntryType
<1>3. r = [w EXCEPT !.udp = u]
  BY <1>1 DEF With, UdpType
<1> HIDE DEF k
<1>4. Updated(u, w.udp, s, k)
  BY <1>1, <1>2, WithUpdates
<1> HIDE DEF u, r
<1>5. r \in WType /\ r.nic = w.nic /\ r.udp = u /\ r.dhcp = w.dhcp /\ r.ip = w.ip
  BY <1>3, <1>4 DEF Sound, WType, Updated
<1>6. WaitingInv(w.nic, u)
  BY <1>2, <1>4 DEF Sound, WaitingInv, IsOpen, Updated, BROADCAST
<1> QED
  BY <1>2, <1>4, <1>5, <1>6 DEF Sound, SameBut, Updated, r

\* udp_process_rx, when a datagram has a socket: it waits for it now
LEMMA AnnounceIsSound ==
  ASSUME NEW w, Sound(w), NEW p, ~w.udp.waiting, ~UdpDone(w, p),
         w.nic.rxWorkingSlot # NoSlot, Reading(w.nic).kind = "udp"
  PROVE  LET x == udp_process_rx(w, p)
             f == Reading(w.nic)
         IN /\ Sound(x) /\ x.udp.waiting
            /\ x.nic.rxWorkingSlot = w.nic.rxWorkingSlot
            /\ x.udp.active \in Matching(w, f, p) /\ IsOpen(w.udp, x.udp.active)
            /\ \A t \in Sockets :
                 /\ x.udp.socket[t].local_port = w.udp.socket[t].local_port
                 /\ x.udp.socket[t].remote_ip =
                      IF t = x.udp.active /\ w.udp.socket[t].remote_ip = BROADCAST
                      THEN f.src ELSE w.udp.socket[t].remote_ip
<1> DEFINE x == udp_process_rx(w, p)
           f == Reading(w.nic)
           s == Lowest(Matching(w, f, p))
           k == [w.udp.socket[s] EXCEPT
                   !.remote_ip = IF @ = BROADCAST THEN f.src ELSE @,
                   !.rx_data_bytes_remaining = f.len]
           u == [With(w.udp, s, k) EXCEPT !.active = s, !.waiting = TRUE]
           n == [w.nic EXCEPT !.rxPointer = FirstByte(f)]
<1>1. Plain(f) /\ f.port # UDP_PORT_NULL
  BY DEF Sound, SlotsInv, NicType, Reading, Plain
<1>2. s \in Matching(w, f, p)
  <2>1. Matching(w, f, p) # {} /\ Matching(w, f, p) \subseteq Nat
    BY Indices DEF UdpDone, Matching
  <2> QED
    BY <2>1, LowestIsIn
<1>3. s \in Sockets /\ w.udp.socket[s].local_port = f.port
  BY <1>2 DEF Matching
<1> HIDE DEF s
<1>4. w.udp \in UdpType /\ w.udp.socket[s] \in EntryType
  BY <1>3, EntryHas DEF Sound, WaitingInv
<1>5. f.src \in Senders /\ f.len \in 0..MaxLen /\ FirstByte(f) \in Int
  BY <1>1, UdpAssumption DEF Plain, Frame, FirstByte
<1>6. k \in EntryType /\ k.local_port = f.port /\ k.rx_data_bytes_remaining = f.len
      /\ k.remote_ip = IF w.udp.socket[s].remote_ip = BROADCAST THEN f.src ELSE w.udp.socket[s].remote_ip
  BY <1>3, <1>4, <1>5 DEF EntryType
<1>7. x = Announce(w, s, f)
  BY DEF udp_process_rx, s
<1> HIDE DEF k, f, x
<1>8. Updated(With(w.udp, s, k), w.udp, s, k)
  BY <1>3, <1>4, <1>6, WithUpdates
<1>9. u \in UdpType /\ u.waiting /\ u.active = s
      /\ \A t \in Sockets : u.socket[t] = IF t = s THEN k ELSE w.udp.socket[t]
  BY <1>3, <1>8 DEF Updated, UdpType
<1>10. SlotsInv(n) /\ n \in NicType /\ n.rxWorkingSlot = w.nic.rxWorkingSlot /\ Reading(n) = f
       /\ n.rxPointer = FirstByte(f)
  BY <1>5 DEF Sound, SlotsInv, NicType, Reading, f
<1>11. x = [w EXCEPT !.udp = u, !.nic = n]
  <2> DEFINE v == [w.udp.socket[s] EXCEPT
                     !.remote_ip = IF @ = BROADCAST THEN f.src ELSE @]
             y == [w EXCEPT !.udp = With(w.udp, s, v)]
             z == [w EXCEPT !.udp = With(w.udp, s, k)]
  <2>1. y.udp = With(w.udp, s, v) /\ z.udp = With(w.udp, s, k)
    BY DEF Sound, WType
  <2>2. y.udp.socket = [w.udp.socket EXCEPT ![s] = v] /\ y.udp.socket[s] = v
    BY <1>3, <1>4, <2>1 DEF With, UdpType
  <2>3. [v EXCEPT !.rx_data_bytes_remaining = f.len] = k
    BY DEF k
  <2>4. [y EXCEPT !.udp.socket[s].rx_data_bytes_remaining = f.len] = z
    <3> HIDE DEF v
    <3>1. [y.udp.socket EXCEPT ![s] = k] = [w.udp.socket EXCEPT ![s] = k]
      BY <2>2, <1>3, <1>4 DEF UdpType
    <3>2. [y.udp EXCEPT !.socket = [w.udp.socket EXCEPT ![s] = k]] = With(w.udp, s, k)
      BY <2>1, <1>4 DEF With, UdpType
    <3>3. [y EXCEPT !.udp.socket[s].rx_data_bytes_remaining = f.len] =
            [y EXCEPT !.udp = [y.udp EXCEPT !.socket = [y.udp.socket EXCEPT ![s] = k]]]
      BY <2>2, <2>3
    <3> QED
      BY <3>1, <3>2, <3>3 DEF Sound, WType
  <2>5. x = [[y EXCEPT !.udp.socket[s].rx_data_bytes_remaining = f.len]
               EXCEPT !.udp.active = s, !.udp.waiting = TRUE,
                      !.nic.rxPointer = FirstByte(f)]
    BY <1>7 DEF Announce, With, FirstByte
  <2>6. x = [z EXCEPT !.udp.active = s, !.udp.waiting = TRUE, !.nic.rxPointer = FirstByte(f)]
    BY <2>4, <2>5
  <2> HIDE DEF y
  <2> QED
    BY <2>1, <2>6 DEF Sound, WType, u, n
<1> HIDE DEF u, n
<1>12. x \in WType /\ x.udp = u /\ x.nic = n
  BY <1>9, <1>10, <1>11 DEF Sound, WType
<1>13. f.src # "none"
  BY <1>5, UdpAssumption
<1>14. WaitingInv(n, u)
  <2>1. Reading(n).kind = "udp"
    BY <1>10 DEF f
  <2>2. \A t \in Sockets : IsOpen(u, t) => u.socket[t].remote_ip # "none"
    <3> SUFFICES ASSUME NEW t \in Sockets, IsOpen(u, t)
                 PROVE  u.socket[t].remote_ip # "none"
      OBVIOUS
    <3>1. CASE t = s
      <4>1. IsOpen(w.udp, s)
        BY <1>3, <1>1 DEF IsOpen, f
      <4> QED
        BY <3>1, <4>1, <1>3, <1>6, <1>9, <1>13 DEF Sound, WaitingInv
    <3>2. CASE t # s
      BY <3>2, <1>9 DEF Sound, WaitingInv, IsOpen
    <3> QED
      BY <3>1, <3>2
  <2>3. n.rxWorkingSlot # NoSlot /\ u.socket[u.active] = k
    BY <1>3, <1>9, <1>10
  <2> QED
    BY <1>3, <1>5, <1>6, <1>9, <1>10, <2>1, <2>2, <2>3 DEF WaitingInv
<1> QED
  BY <1>1, <1>2, <1>3, <1>6, <1>9, <1>10, <1>12, <1>14 DEF Sound, IsOpen, x, f

-----------------------------------------------------------------------------
(* The DHCP client *)

\* the datagram that waits is dumped or stays
Kept(r, w) ==
  /\ r.udp.waiting = w.udp.waiting /\ r.udp.active = w.udp.active
  /\ r.dhcp.manual = w.dhcp.manual
  /\ r.nic = w.nic \/ r.nic.rxWorkingSlot = NoSlot

SamePorts(r, w) ==
  \A s \in Sockets : r.udp.socket[s].local_port = w.udp.socket[s].local_port

\* the client's socket has been closed, and nothing else has been
Closed(r, w) ==
  /\ r.dhcp.socket = UDP_INVALID_SOCKET
  /\ \A s \in Sockets : r.udp.socket[s].local_port =
       IF s = w.dhcp.socket THEN UDP_PORT_NULL ELSE w.udp.socket[s].local_port

LEMMA DhcpTypes ==
  ASSUME NEW w \in WType
  PROVE  w.dhcp \in DhcpType /\ w.dhcp.socket \in Sockets \cup {UDP_INVALID_SOCKET}
BY DEF WType, DhcpType

\* only the client's own variables and our address differ
LEMMA ClientOnly ==
  ASSUME NEW w, Sound(w), NEW r \in WType, r.nic = w.nic, r.udp = w.udp,
         r.dhcp.manual = w.dhcp.manual
  PROVE  Sound(r) /\ Kept(r, w) /\ SamePorts(r, w)
BY DEF Sound, Kept, SamePorts

LEMMA CloseSocketIs ==
  ASSUME NEW w, Sound(w)
  PROVE  LET c == CloseSocket(w)
         IN /\ Sound(c) /\ Kept(c, w) /\ Closed(c, w)
            /\ c.ip = w.ip /\ c.dhcp = [w.dhcp EXCEPT !.socket = UDP_INVALID_SOCKET]
<1> DEFINE s == w.dhcp.socket
           d == udp_close_socket(w, s)
           c == CloseSocket(w)
<1>1. s \in Sockets \cup {UDP_INVALID_SOCKET} /\ w.dhcp \in DhcpType
  BY DhcpTypes DEF Sound
<1>2. /\ Sound(d) /\ SameBut(d, w, s) /\ d.dhcp = w.dhcp /\ d.ip = w.ip
      /\ s \in Sockets => ~IsOpen(d.udp, s)
      /\ ~(w.udp.waiting /\ w.udp.active = s) => d.nic = w.nic
      /\ d.nic = w.nic \/ d.nic.rxWorkingSlot = NoSlot
  BY <1>1, CloseIsSound
<1>3. c = [d EXCEPT !.dhcp.socket = UDP_INVALID_SOCKET]
  BY DEF CloseSocket
<1> HIDE DEF d, c
<1>4. /\ c \in WType /\ c.nic = d.nic /\ c.udp = d.udp /\ c.ip = d.ip
      /\ c.dhcp = [w.dhcp EXCEPT !.socket = UDP_INVALID_SOCKET]
  BY <1>1, <1>2, <1>3 DEF Sound, WType, DhcpType
<1>5. Sound(c)
  BY <1>2, <1>4 DEF Sound
<1>6. c.dhcp.manual = w.dhcp.manual /\ c.dhcp.socket = UDP_INVALID_SOCKET
  BY <1>1, <1>4 DEF DhcpType
<1>7. Kept(c, w)
  BY <1>2, <1>4, <1>6 DEF Kept, SameBut, IsOpen
<1>8. Closed(c, w)
  BY <1>1, <1>2, <1>4, <1>6 DEF Closed, SameBut, IsOpen
<1> QED
  BY <1>2, <1>4, <1>5, <1>7, <1>8 DEF c

\* DHCP_INIT
LEMMA InitialiseIs ==
  ASSUME NEW w, Sound(w)
  PROVE  LET r == Initialise(w)
         IN /\ Sound(r) /\ Kept(r, w) /\ Closed(r, w) /\ ~r.ip.valid
            /\ w.dhcp.manual => r.ip.mask = w.ip.mask /\ r.dhcp.sm = w.dhcp.sm
            /\ ~w.dhcp.manual => r.dhcp.sm = "DISCOVER"
<1> DEFINE c == CloseSocket(w)
           r == Initialise(w)
<1>1. /\ Sound(c) /\ Kept(c, w) /\ Closed(c, w) /\ c.ip = w.ip
      /\ c.dhcp = [w.dhcp EXCEPT !.socket = UDP_INVALID_SOCKET]
  BY CloseSocketIs
<1>2. r = IF w.dhcp.manual THEN [c EXCEPT !.ip.valid = FALSE]
          ELSE [c EXCEPT !.ip.valid = FALSE, !.ip.addr = "none", !.ip.mask = "none",
                  !.dhcp.lease = LeaseTicks, !.dhcp.timer_1ms = 1, !.dhcp.sm = "DISCOVER"]
  BY DEF Initialise
<1>3. c.ip \in IpType /\ c.dhcp \in DhcpType /\ LeaseTicks \in 0..LeaseTicks
  BY <1>1, DhcpAssumption DEF Sound, WType
<1> HIDE DEF c, r
<1>4. CASE w.dhcp.manual
  <2>1. r \in WType /\ r.nic = c.nic /\ r.udp = c.udp /\ r.dhcp = c.dhcp
        /\ r.ip = [c.ip EXCEPT !.valid = FALSE]
    BY <1>1, <1>2, <1>3, <1>4 DEF Sound, WType, IpType
  <2>2. ~r.ip.valid /\ r.ip.mask = w.ip.mask
    BY <1>1, <1>3, <2>1 DEF IpType
  <2>3. r.dhcp.sm = w.dhcp.sm
    BY <1>1, <2>1, DhcpTypes DEF Sound, DhcpType
  <2>4. Sound(r) /\ Kept(r, w) /\ Closed(r, w)
    BY <1>1, <2>1 DEF Sound, Kept, Closed
  <2> QED
    BY <1>4, <2>2, <2>3, <2>4 DEF r
<1>5. CASE ~w.dhcp.manual
  <2> DEFINE d == [c.dhcp EXCEPT !.lease = LeaseTicks, !.timer_1ms = 1, !.sm = "DISCOVER"]
             i == [c.ip EXCEPT !.valid = FALSE, !.addr = "none", !.mask = "none"]
  <2>1. d \in DhcpType /\ d.sm = "DISCOVER" /\ d.socket = c.dhcp.socket /\ d.manual = c.dhcp.manual
    BY <1>3 DEF DhcpType, DhcpStates
  <2>2. i \in IpType /\ ~i.valid
    BY <1>3 DEF IpType
  <2>3. r = [c EXCEPT !.dhcp = d, !.ip = i]
    BY <1>1, <1>2, <1>3, <1>5 DEF Sound, WType, IpType, DhcpType
  <2> HIDE DEF d, i
  <2>4. r \in WType /\ r.nic = c.nic /\ r.udp = c.udp /\ r.dhcp = d /\ r.ip = i
    BY <1>1, <2>1, <2>2, <2>3 DEF Sound, WType
  <2>5. Sound(r) /\ Kept(r, w) /\ Closed(r, w)
    BY <1>1, <2>1, <2>4 DEF Sound, Kept, Closed
  <2> QED
    BY <1>5, <2>1, <2>2, <2>4, <2>5 DEF r
<1> QED
  BY <1>4, <1>5

\* nothing is opened, and the client has no socket; or s is opened for the client
NotSent(r, w) == SamePorts(r, w) /\ r.dhcp.socket = UDP_INVALID_SOCKET /\ r.dhcp.sm = w.dhcp.sm
Sent(r, w, next) ==
  /\ r.dhcp.socket \in Sockets /\ r.dhcp.sm = next
  /\ ~IsOpen(w.udp, r.dhcp.socket) /\ IsOpen(r.udp, r.dhcp.socket)
  /\ \A t \in Sockets \ {r.dhcp.socket} : r.udp.socket[t].local_port = w.udp.socket[t].local_port

\* DHCP_DISCOVER, DHCP_REQUEST, DHCP_RENEWING
LEMMA SendIs ==
  ASSUME NEW w, Sound(w), NEW tx \in BOOLEAN, NEW next \in DhcpStates
  PROVE  LET r == Send(w, tx, next)
         IN /\ Sound(r) /\ Kept(r, w) /\ r.ip = w.ip
            /\ NotSent(r, w) \/ Sent(r, w, next)
<1> DEFINE s == FreeSocket(w)
           q == udp_open_socket(w, BROADCAST, DHCPCLIENT_PORT)
           o == [q EXCEPT !.dhcp.socket = s]
           r == Send(w, tx, next)
<1>1. /\ Sound(q) /\ SameBut(q, w, s) /\ q.dhcp = w.dhcp /\ q.ip = w.ip /\ q.nic = w.nic
      /\ s \in Sockets =>
           q.udp.socket[s].local_port = DHCPCLIENT_PORT /\ q.udp.socket[s].remote_ip = BROADCAST
  BY OpenIsSound, DhcpAssumption
<1>2. \/ s = UDP_INVALID_SOCKET
      \/ s \in Sockets /\ ~IsOpen(w.udp, s)
  BY FreeSocketIs
<1>3. DHCPCLIENT_PORT # UDP_PORT_NULL
  BY DhcpAssumption, UdpAssumption
<1>4. w.dhcp \in DhcpType
  BY DhcpTypes DEF Sound
<1>5. r = IF s = UDP_INVALID_SOCKET THEN o
          ELSE IF ~tx THEN CloseSocket(o)
          ELSE [o EXCEPT !.dhcp.timer_1ms = 1, !.dhcp.sm = next]
  BY DEF Send
<1> HIDE DEF s, q, o, r
<1>6. [w.dhcp EXCEPT !.socket = s] \in DhcpType
  BY <1>2, <1>4 DEF DhcpType
<1>7. /\ o \in WType /\ o.nic = q.nic /\ o.udp = q.udp /\ o.ip = q.ip
      /\ o.dhcp = [w.dhcp EXCEPT !.socket = s]
  BY <1>1, <1>6 DEF Sound, WType, o
<1>8. Sound(o) /\ o.dhcp.socket = s /\ o.dhcp.manual = w.dhcp.manual /\ o.dhcp.sm = w.dhcp.sm
  BY <1>1, <1>4, <1>7 DEF Sound, DhcpType
<1>9. Kept(o, w)
  BY <1>1, <1>2, <1>7, <1>8 DEF Kept, SameBut, IsOpen
<1>10. CASE s = UDP_INVALID_SOCKET
  <2>1. NotSent(o, w)
    BY <1>1, <1>7, <1>8, <1>10, Indices DEF NotSent, SamePorts, SameBut
  <2> QED
    BY <1>1, <1>5, <1>7, <1>8, <1>9, <1>10, <2>1 DEF r
<1>11. CASE s # UDP_INVALID_SOCKET /\ ~tx
  <2> DEFINE c == CloseSocket(o)
  <2>1. /\ Sound(c) /\ Kept(c, o) /\ Closed(c, o)
        /\ c.ip = o.ip /\ c.dhcp = [o.dhcp EXCEPT !.socket = UDP_INVALID_SOCKET]
    BY <1>8, CloseSocketIs
  <2> HIDE DEF c
  <2>2. c.dhcp.sm = w.dhcp.sm
    BY <1>4, <1>7, <2>1 DEF DhcpType
  <2>3. NotSent(c, w)
    BY <1>1, <1>2, <1>7, <1>8, <1>11, <2>1, <2>2 DEF NotSent, Closed, SamePorts, SameBut, IsOpen
  <2>4. Kept(c, w)
    BY <1>9, <2>1 DEF Kept
  <2> QED
    BY <1>1, <1>5, <1>7, <1>11, <2>1, <2>3, <2>4 DEF r, c
<1>12. CASE s # UDP_INVALID_SOCKET /\ tx
  <2> DEFINE d == [o.dhcp EXCEPT !.timer_1ms = 1, !.sm = next]
  <2>1. d \in DhcpType /\ d.socket = s /\ d.sm = next /\ d.manual = w.dhcp.manual
    BY <1>4, <1>6, <1>7 DEF DhcpType
  <2>2. r = [o EXCEPT !.dhcp = d]
    BY <1>4, <1>5, <1>7, <1>12 DEF WType, DhcpType
  <2> HIDE DEF d
  <2>3. r \in WType /\ r.nic = o.nic /\ r.udp = o.udp /\ r.ip = o.ip /\ r.dhcp = d
    BY <1>7, <2>1, <2>2 DEF WType
  <2>4. Sound(r) /\ Kept(r, w)
    BY <1>8, <1>9, <2>1, <2>3 DEF Sound, Kept
  <2>5. Sent(r, w, next)
    BY <1>1, <1>2, <1>3, <1>7, <1>12, <2>1, <2>3 DEF Sent, SameBut, IsOpen
  <2> QED
    BY <1>1, <1>7, <2>3, <2>4, <2>5 DEF r
<1> QED
  BY <1>10, <1>11, <1>12

LEMMA DiscoverIs ==
  ASSUME NEW w, Sound(w), NEW tx \in BOOLEAN
  PROVE  LET r == Discover(w, tx)
         IN /\ Sound(r) /\ Kept(r, w) /\ r.ip = w.ip
            /\ \/ r = w
               \/ SamePorts(r, w) /\ r.dhcp.socket = w.dhcp.socket /\ r.dhcp.sm = "INIT"
               \/ NotSent(r, w)
               \/ Sent(r, w, "WAIT_FOR_OFFER_RESPONSE")
<1>1. CASE w.dhcp.timer_1ms # 0
  BY <1>1 DEF Discover, Kept
<1>2. CASE w.dhcp.timer_1ms = 0 /\ w.dhcp.lease = 0
  <2> DEFINE d == [w.dhcp EXCEPT !.sm = "INIT"]
             r == Discover(w, tx)
  <2>1. d \in DhcpType /\ d.socket = w.dhcp.socket /\ d.sm = "INIT" /\ d.manual = w.dhcp.manual
    BY DhcpTypes DEF Sound, DhcpType, DhcpStates
  <2>2. r = [w EXCEPT !.dhcp = d]
    BY <1>2 DEF Discover
  <2> HIDE DEF d, r
  <2>3. r \in WType /\ r.nic = w.nic /\ r.udp = w.udp /\ r.ip = w.ip /\ r.dhcp = d
    BY <2>1, <2>2 DEF Sound, WType
  <2> QED
    BY <2>1, <2>3, ClientOnly DEF r
<1>3. CASE w.dhcp.timer_1ms = 0 /\ w.dhcp.lease # 0
  <2>1. Discover(w, tx) = Send(w, tx, "WAIT_FOR_OFFER_RESPONSE") /\ "WAIT_FOR_OFFER_RESPONSE" \in DhcpStates
    BY <1>3 DEF Discover, DhcpStates
  <2> QED
    BY <2>1, SendIs
<1> QED
  BY <1>1, <1>2, <1>3

LEMMA RequestIs ==
  ASSUME NEW w, Sound(w), NEW tx \in BOOLEAN
  PROVE  LET r == Request(w, tx)
         IN /\ Sound(r) /\ Kept(r, w) /\ r.ip = w.ip
            /\ r = w \/ NotSent(r, w) \/ Sent(r, w, "WAIT_FOR_REQUEST_RESPONSE")
<1>1. CASE w.dhcp.timer_1ms # 0
  BY <1>1 DEF Request, Kept
<1>2. CASE w.dhcp.timer_1ms = 0
  <2>1. Request(w, tx) = Send(w, tx, "WAIT_FOR_REQUEST_RESPONSE") /\ "WAIT_FOR_REQUEST_RESPONSE" \in DhcpStates
    BY <1>2 DEF Request, DhcpStates
  <2> QED
    BY <2>1, SendIs
<1> QED
  BY <1>1, <1>2

\* dhcp_rx_packet: the message is dumped and says what comes next
LEMMA RxPacketIs ==
  ASSUME NEW w, Sound(w), w.udp.waiting
  PROVE  LET r == dhcp_rx_packet(w)
         IN /\ Sound(r) /\ SameBut(r, w, UDP_INVALID_SOCKET) /\ r.nic.rxWorkingSlot = NoSlot
            /\ r.dhcp.socket = w.dhcp.socket /\ r.dhcp.manual = w.dhcp.manual
            /\ r.ip.valid = w.ip.valid /\ r.ip.mask \in {w.ip.mask, Mask}
            /\ dhcp_rx_packet_ok(w) =>
                 /\ r.dhcp.sm \in {"INIT", "REQUEST", "BOUND"}
                 /\ r.dhcp.sm = "BOUND" => r.ip.mask = Mask
<1> DEFINE d == udp_dump_rx_packet(w)
           r == dhcp_rx_packet(w)
           m == Message(w)
<1>1. /\ Sound(d) /\ SameBut(d, w, UDP_INVALID_SOCKET)
      /\ d.dhcp = w.dhcp /\ d.ip = w.ip /\ d.nic.rxWorkingSlot = NoSlot
  BY DumpIsSound, SoundIsDumpable
<1>2. CASE ~dhcp_rx_packet_ok(w)
  BY <1>1, <1>2 DEF dhcp_rx_packet
<1>3. CASE dhcp_rx_packet_ok(w)
  <2> DEFINE e == [w.dhcp EXCEPT
                     !.sm = CASE m = "nak" -> "INIT" [] m = "offer" -> "REQUEST" [] m = "ack" -> "BOUND",
                     !.timer_1ms = IF m = "ack" THEN @ ELSE 0,
                     !.lease = IF m = "ack" THEN LeaseTicks ELSE @,
                     !.renewal = IF m = "ack" THEN LeaseTicks \div 2 ELSE @]
             i == [w.ip EXCEPT !.addr = IF m = "ack" THEN "ours" ELSE @,
                               !.mask = IF m = "ack" THEN Mask ELSE @]
  <2>1. m \in {"nak", "offer", "ack"}
    BY <1>3 DEF dhcp_rx_packet_ok
  <2>2. w.dhcp \in DhcpType /\ w.ip \in IpType
    BY DEF Sound, WType
  <2>3. LeaseTicks \in 0..LeaseTicks /\ LeaseTicks \div 2 \in 0..(LeaseTicks + 1)
    BY DhcpAssumption
  <2>4. r = [d EXCEPT !.dhcp.sm = CASE m = "nak" -> "INIT" [] m = "offer" -> "REQUEST"
                                  [] m = "ack" -> "BOUND",
                      !.dhcp.timer_1ms = IF m = "ack" THEN @ ELSE 0,
                      !.dhcp.lease     = IF m = "ack" THEN LeaseTicks ELSE @,
                      !.dhcp.renewal   = IF m = "ack" THEN LeaseTicks \div 2 ELSE @,
                      !.ip.addr        = IF m = "ack" THEN "ours" ELSE @,
                      !.ip.mask        = IF m = "ack" THEN Mask ELSE @]
    BY <1>3 DEF dhcp_rx_packet
  <2> HIDE DEF d, r, m
  <2>5. e \in DhcpType /\ e.socket = w.dhcp.socket /\ e.manual = w.dhcp.manual
        /\ e.sm \in {"INIT", "REQUEST", "BOUND"} /\ (e.sm = "BOUND" => m = "ack")
    BY <2>1, <2>2, <2>3 DEF DhcpType, DhcpStates
  <2>6. i \in IpType /\ i.valid = w.ip.valid /\ i.mask \in {w.ip.mask, Mask}
        /\ (m = "ack" => i.mask = Mask)
    BY <2>2, DhcpAssumption DEF IpType
  <2>7. r = [d EXCEPT !.dhcp = e, !.ip = i]
    BY <1>1, <2>1, <2>2, <2>4 DEF Sound, WType, DhcpType, IpType
  <2> HIDE DEF e, i
  <2>8. r \in WType /\ r.nic = d.nic /\ r.udp = d.udp /\ r.dhcp = e /\ r.ip = i
    BY <1>1, <2>5, <2>6, <2>7 DEF Sound, WType
  <2>9. Sound(r) /\ SameBut(r, w, UDP_INVALID_SOCKET) /\ r.nic.rxWorkingSlot = NoSlot
    BY <1>1, <2>8 DEF Sound, SameBut
  <2> QED
    BY <2>5, <2>6, <2>8, <2>9 DEF r
<1> QED
  BY <1>2, <1>3

\* DHCP_WAIT_FOR_OFFER_RESPONSE, DHCP_WAIT_FOR_REQUEST_RESPONSE
LEMMA WaitIs ==
  ASSUME NEW w, Sound(w)
  PROVE  LET r == Wait(w)
         IN /\ Sound(r) /\ Kept(r, w)
            /\ r.ip.valid = w.ip.valid /\ r.ip.mask \in {w.ip.mask, Mask}
            /\ \/ r = w
               \/ /\ Closed(r, w) /\ r.dhcp.sm \in {"DISCOVER", "INIT", "REQUEST", "BOUND"}
                  /\ r.dhcp.sm = "BOUND" => r.ip.mask = Mask
<1> DEFINE s == w.dhcp.socket
<1>1. ASSUME NEW v, Sound(v)
      PROVE  LET r == Retry(v)
             IN /\ Sound(r) /\ Kept(r, v) /\ Closed(r, v) /\ r.ip = v.ip /\ r.dhcp.sm = "DISCOVER"
  <2> DEFINE c == CloseSocket(v)
             r == Retry(v)
             d == [c.dhcp EXCEPT !.timer_1ms = 1, !.sm = "DISCOVER"]
  <2>1. Sound(c) /\ Kept(c, v) /\ Closed(c, v) /\ c.ip = v.ip
    BY <1>1, CloseSocketIs
  <2>2. r = [c EXCEPT !.dhcp.timer_1ms = 1, !.dhcp.sm = "DISCOVER"]
    BY DEF Retry
  <2> HIDE DEF c, r
  <2>3. d \in DhcpType /\ d.socket = c.dhcp.socket /\ d.sm = "DISCOVER" /\ d.manual = c.dhcp.manual
    BY <2>1, DhcpTypes DEF Sound, DhcpType, DhcpStates
  <2>4. r = [c EXCEPT !.dhcp = d]
    BY <2>1, <2>2, DhcpTypes DEF Sound, WType, DhcpType
  <2> HIDE DEF d
  <2>5. r \in WType /\ r.nic = c.nic /\ r.udp = c.udp /\ r.ip = c.ip /\ r.dhcp = d
    BY <2>1, <2>3, <2>4 DEF Sound, WType
  <2> QED
    BY <2>1, <2>3, <2>5 DEF Sound, Kept, Closed, r
<1>2. ASSUME NEW d, Sound(d), SameBut(d, w, UDP_INVALID_SOCKET), d.nic.rxWorkingSlot = NoSlot,
             d.dhcp.socket = s, d.dhcp.manual = w.dhcp.manual, w.udp.waiting, w.udp.active = s,
             NEW r, Kept(r, d), Closed(r, d)
      PROVE  Kept(r, w) /\ Closed(r, w)
  BY <1>2, Indices DEF Sound, WaitingInv, SameBut, Kept, Closed, IsOpen
<1>3. CASE udp_check_socket_for_rx(w, s)
  <2> DEFINE d == dhcp_rx_packet(w)
  <2>1. w.udp.waiting /\ w.udp.active = s
    BY <1>3 DEF udp_check_socket_for_rx
  <2>2. /\ Sound(d) /\ SameBut(d, w, UDP_INVALID_SOCKET) /\ d.nic.rxWorkingSlot = NoSlot
        /\ d.dhcp.socket = s /\ d.dhcp.manual = w.dhcp.manual
        /\ d.ip.valid = w.ip.valid /\ d.ip.mask \in {w.ip.mask, Mask}
        /\ dhcp_rx_packet_ok(w) =>
             /\ d.dhcp.sm \in {"INIT", "REQUEST", "BOUND"}
             /\ d.dhcp.sm = "BOUND" => d.ip.mask = Mask
    BY <2>1, RxPacketIs
  <2>3. CASE dhcp_rx_packet_ok(w)
    <3> DEFINE c == CloseSocket(d)
    <3>1. Wait(w) = c
      BY <1>3, <2>3 DEF Wait
    <3> HIDE DEF d
    <3>2. /\ Sound(c) /\ Kept(c, d) /\ Closed(c, d)
          /\ c.ip = d.ip /\ c.dhcp = [d.dhcp EXCEPT !.socket = UDP_INVALID_SOCKET]
      BY <2>2, CloseSocketIs
    <3>3. c.dhcp.sm = d.dhcp.sm
      BY <2>2, <3>2, DhcpTypes DEF Sound, DhcpType
    <3> HIDE DEF c
    <3>4. Kept(c, w) /\ Closed(c, w)
      BY <1>2, <2>1, <2>2, <3>2
    <3>5. c.dhcp.sm \in {"DISCOVER", "INIT", "REQUEST", "BOUND"} /\ (c.dhcp.sm = "BOUND" => c.ip.mask = Mask)
      <4>1. d.dhcp.sm \in {"INIT", "REQUEST", "BOUND"} /\ (d.dhcp.sm = "BOUND" => d.ip.mask = Mask)
        BY <2>2, <2>3
      <4> QED
        BY <3>2, <3>3, <4>1
    <3>6. c.ip.valid = w.ip.valid /\ c.ip.mask \in {w.ip.mask, Mask}
      BY <2>2, <3>2
    <3> QED
      BY <3>1, <3>2, <3>4, <3>5, <3>6
  <2>4. CASE ~dhcp_rx_packet_ok(w)
    <3> DEFINE c == Retry(d)
    <3>1. Wait(w) = c
      BY <1>3, <2>4 DEF Wait
    <3> HIDE DEF d
    <3>2. Sound(c) /\ Kept(c, d) /\ Closed(c, d) /\ c.ip = d.ip /\ c.dhcp.sm = "DISCOVER"
      BY <2>2, <1>1
    <3> HIDE DEF c
    <3>3. Kept(c, w) /\ Closed(c, w)
      BY <1>2, <2>1, <2>2, <3>2
    <3> QED
      BY <2>2, <3>1, <3>2, <3>3
  <2> QED
    BY <2>3, <2>4
<1>4. CASE ~udp_check_socket_for_rx(w, s) /\ w.dhcp.timer_1ms = 0
  <2>1. Wait(w) = Retry(w)
    BY <1>4 DEF Wait
  <2> QED
    BY <2>1, <1>1
<1>5. CASE ~udp_check_socket_for_rx(w, s) /\ w.dhcp.timer_1ms # 0
  BY <1>5 DEF Wait, Kept
<1> QED
  BY <1>3, <1>4, <1>5

\* DHCP_BOUND
LEMMA BoundIs ==
  ASSUME NEW w, Sound(w), w.dhcp.sm = "BOUND"
  PROVE  LET r == Bound(w)
         IN /\ Sound(r) /\ Kept(r, w) /\ SamePorts(r, w)
            /\ r.ip.mask = w.ip.mask /\ r.dhcp.socket = w.dhcp.socket
            /\ r.dhcp.sm \in {"BOUND", "RENEWING", "INIT"}
            /\ w.dhcp.renewal # 0 /\ w.dhcp.lease # 0 => r.dhcp.sm = "BOUND"
<1> DEFINE i == [w.ip EXCEPT !.valid = TRUE]
           next == IF w.dhcp.renewal = 0 THEN "RENEWING" ELSE IF w.dhcp.lease = 0 THEN "INIT" ELSE "BOUND"
           d == [w.dhcp EXCEPT !.sm = next]
           r == Bound(w)
<1>1. i \in IpType /\ i.mask = w.ip.mask
  BY DEF Sound, WType, IpType
<1>2. d \in DhcpType /\ d.socket = w.dhcp.socket /\ d.sm = next /\ d.manual = w.dhcp.manual
  BY DhcpTypes DEF Sound, DhcpType, DhcpStates
<1>3. [w EXCEPT !.ip.valid = TRUE] = [w EXCEPT !.ip = i]
  OBVIOUS
<1>4. r = [w EXCEPT !.ip = i, !.dhcp = d]
  <2>1. CASE w.dhcp.renewal = 0
    BY <2>1, <1>3 DEF Bound, Sound, WType
  <2>2. CASE w.dhcp.renewal # 0 /\ w.dhcp.lease = 0
    BY <2>2, <1>3 DEF Bound, Sound, WType
  <2>3. CASE w.dhcp.renewal # 0 /\ w.dhcp.lease # 0
    <3>1. r = [w EXCEPT !.ip = i]
      BY <2>3, <1>3 DEF Bound
    <3>2. d = w.dhcp
      BY <2>3, DhcpTypes DEF Sound, DhcpType
    <3> QED
      BY <3>1, <3>2 DEF Sound, WType
  <2> QED
    BY <2>1, <2>2, <2>3
<1>5. next \in {"BOUND", "RENEWING", "INIT"} /\ (w.dhcp.renewal # 0 /\ w.dhcp.lease # 0 => next = "BOUND")
  OBVIOUS
<1> HIDE DEF i, d, r, next
<1>6. r \in WType /\ r.nic = w.nic /\ r.udp = w.udp /\ r.ip = i /\ r.dhcp = d
  BY <1>1, <1>2, <1>4 DEF Sound, WType
<1> QED
  BY <1>1, <1>2, <1>5, <1>6, ClientOnly DEF r

\* manual settings count as bound, and no link starts the client again
LEMMA PrepareIs ==
  ASSUME NEW w, Sound(w), NEW linked \in BOOLEAN
  PROVE  LET p == Prepare(w, linked)
         IN /\ Sound(p) /\ Kept(p, w) /\ p.udp = w.udp /\ p.nic = w.nic /\ p.ip = w.ip
            /\ p.dhcp.socket = w.dhcp.socket
            /\ ~linked => p.dhcp.sm = "INIT"
            /\ linked /\ w.dhcp.manual =>
                 p.dhcp.sm = "BOUND" /\ p.dhcp.renewal # 0 /\ p.dhcp.lease # 0
            /\ linked /\ ~w.dhcp.manual => p = w
<1> DEFINE d == [w.dhcp EXCEPT !.sm = "BOUND", !.renewal = LeaseTicks + 1, !.lease = LeaseTicks]
           e == IF w.dhcp.manual THEN d ELSE w.dhcp
           f == IF linked THEN e ELSE [e EXCEPT !.sm = "INIT"]
           p == Prepare(w, linked)
<1>1. LeaseTicks \in 0..LeaseTicks /\ LeaseTicks + 1 \in 0..(LeaseTicks + 1) /\ LeaseTicks # 0 /\ LeaseTicks + 1 # 0
  BY DhcpAssumption
<1>2. d \in DhcpType /\ d.socket = w.dhcp.socket /\ d.manual = w.dhcp.manual
      /\ d.sm = "BOUND" /\ d.renewal # 0 /\ d.lease # 0
  BY <1>1, DhcpTypes DEF Sound, DhcpType, DhcpStates
<1>3. [w EXCEPT !.dhcp.sm = "BOUND", !.dhcp.renewal = LeaseTicks + 1, !.dhcp.lease = LeaseTicks]
        = [w EXCEPT !.dhcp = d]
  BY DEF Sound, WType
<1> HIDE DEF d
<1>4. e \in DhcpType /\ e.socket = w.dhcp.socket /\ e.manual = w.dhcp.manual
  BY <1>2, DhcpTypes DEF Sound
<1>5. f \in DhcpType /\ f.socket = w.dhcp.socket /\ f.manual = w.dhcp.manual /\ (~linked => f.sm = "INIT")
  BY <1>4 DEF DhcpType, DhcpStates
<1>6. p = [w EXCEPT !.dhcp = f]
  <2>1. (IF w.dhcp.manual THEN [w EXCEPT !.dhcp = d] ELSE w) = [w EXCEPT !.dhcp = e]
    BY DEF Sound, WType
  <2>2. CASE linked
    BY <2>1, <2>2, <1>3 DEF Prepare
  <2>3. CASE ~linked
    <3> HIDE DEF e
    <3>1. p = [[w EXCEPT !.dhcp = e] EXCEPT !.dhcp.sm = "INIT"]
      BY <2>1, <2>3, <1>3 DEF Prepare
    <3> QED
      BY <2>3, <3>1 DEF Sound, WType
  <2> QED
    BY <2>2, <2>3
<1>7. linked /\ w.dhcp.manual => f = d
  OBVIOUS
<1>8. linked /\ ~w.dhcp.manual => f = w.dhcp
  OBVIOUS
<1> HIDE DEF e, f, p
<1>9. p \in WType /\ p.nic = w.nic /\ p.udp = w.udp /\ p.ip = w.ip /\ p.dhcp = f
      /\ (f = w.dhcp => p = w)
  BY <1>5, <1>6 DEF Sound, WType
<1> QED
  BY <1>2, <1>5, <1>7, <1>8, <1>9, ClientOnly DEF p

LEMMA DhcpIs ==
  ASSUME NEW w, Sound(w), NEW linked \in BOOLEAN, NEW tx \in BOOLEAN
  PROVE  LET r == process_dhcp(w, linked, tx)
         IN /\ Sound(r) /\ Kept(r, w)
            /\ ~linked => /\ ~r.ip.valid
                          /\ \A s \in Sockets : IsOpen(r.udp, s) => IsOpen(w.udp, s)
<1> DEFINE p == Prepare(w, linked)
           r == process_dhcp(w, linked, tx)
<1>1. Sound(p) /\ Kept(p, w) /\ p.udp = w.udp /\ (~linked => p.dhcp.sm = "INIT")
  BY PrepareIs
<1>2. p.dhcp.sm \in DhcpStates
  BY <1>1, DhcpTypes DEF Sound, DhcpType
<1> SUFFICES /\ Sound(r) /\ Kept(r, p)
             /\ p.dhcp.sm = "INIT" => /\ ~r.ip.valid
                                      /\ \A s \in Sockets : IsOpen(r.udp, s) => IsOpen(p.udp, s)
  BY <1>1 DEF Kept
<1>3. CASE p.dhcp.sm = "INIT"
  <2>1. r = Initialise(p)
    BY <1>3 DEF process_dhcp
  <2> HIDE DEF p
  <2> QED
    BY <1>1, <2>1, InitialiseIs DEF Closed, IsOpen
<1>4. CASE p.dhcp.sm = "DISCOVER"
  <2>1. r = Discover(p, tx)
    BY <1>4 DEF process_dhcp
  <2> HIDE DEF p
  <2> QED
    BY <1>1, <1>4, <2>1, DiscoverIs
<1>5. CASE p.dhcp.sm \in {"REQUEST", "RENEWING"}
  <2>1. r = Request(p, tx)
    BY <1>5 DEF process_dhcp
  <2> HIDE DEF p
  <2> QED
    BY <1>1, <1>5, <2>1, RequestIs
<1>6. CASE p.dhcp.sm \in Awaiting
  <2>1. r = Wait(p)
    BY <1>6 DEF process_dhcp, Awaiting
  <2> HIDE DEF p
  <2> QED
    BY <1>1, <1>6, <2>1, WaitIs DEF Awaiting
<1>7. CASE p.dhcp.sm = "BOUND"
  <2>1. r = Bound(p)
    BY <1>7 DEF process_dhcp
  <2> HIDE DEF p
  <2> QED
    BY <1>1, <1>7, <2>1, BoundIs
<1> QED
  BY <1>2, <1>3, <1>4, <1>5, <1>6, <1>7 DEF DhcpStates, Awaiting

-----------------------------------------------------------------------------
(* No slot is lost, and what is announced stays *)

LEMMA StackIs == ASSUME IInv PROVE Sound(Stack)
BY DEF IInv, TypeOK, Stack, WType, Sound

LEMMA InitIInv == Init => IInv
<1> SUFFICES ASSUME Init PROVE IInv
  OBVIOUS
<1>1. SlotsInv(nic)
  BY Indices, UdpAssumption DEF Init, nic_initialise, SlotsInv, NicType, Slots
<1>2. udp \in UdpType /\ ~udp.waiting
      /\ \A s \in Sockets : udp.socket[s].local_port = UDP_PORT_NULL
  BY UdpAssumption DEF Init, udp_initialise, UdpType, Sockets
<1>3. WaitingInv(nic, udp)
  BY <1>2 DEF WaitingInv, IsOpen
<1>4. dhcp \in DhcpType
  BY DhcpAssumption, UdpAssumption, EthStackAssumption
     DEF Init, dhcp_initialise, DhcpType, DhcpStates, Sockets
<1>5. ip \in IpType /\ ~ip.valid
  BY DhcpAssumption DEF Init, ip_initialise, IpType
<1>6. TypeOK
  <2>1. turn \in 1..(NumApps + 1)
    BY EthStackAssumption DEF Init
  <2>2. app \in [Apps -> [sm : {"OPEN_SOCKET", "PROCESS_SOCKET", "TX_RESPONSE"},
                       socket : Sockets \cup {UDP_INVALID_SOCKET}]]
    BY DEF Init
  <2> QED
    BY <1>1, <1>2, <1>4, <1>5, <2>1, <2>2 DEF Init, TypeOK, SlotsInv, StackStates
<1>7. DispatchInv
  BY <1>2, <1>5 DEF Init, DispatchInv, IsOpen, nic_initialise, NothingHeld
<1>8. AppsInv
  BY DEF Init, AppsInv
<1> QED
  BY <1>1, <1>3, <1>6, <1>7, <1>8 DEF IInv

\* a step that leaves the sockets alone, and looks for a packet or dumps one
LEMMA LoopIInv ==
  ASSUME IInv, SlotsInv(nic'), UNCHANGED <<udp, dhcp, ip, nic_is_linked, app, turn, scenario>>,
         pc = "loop", pc' \in {"loop", "dhcp"}, sm_ethernet_stack' \in StackStates,
         ~udp.waiting,
         sm_ethernet_stack' \in {"ARP", "IP", "ICMP", "UDP"} => nic'.rxWorkingSlot # NoSlot,
         sm_ethernet_stack' \in {"IDLE", "ICMP_REPLY"} => NothingHeld(nic'),
         sm_ethernet_stack' = "UDP" => Reading(nic').kind = "udp",
         pc' # "loop" => sm_ethernet_stack' = "IDLE"
  PROVE  IInv'
<1>1. TypeOK'
  BY DEF IInv, TypeOK, SlotsInv
<1>2. WaitingInv(nic, udp)' /\ AppsInv'
  BY DEF IInv, WaitingInv, AppsInv, IsOpen
<1>3. DispatchInv'
  BY DEF IInv, DispatchInv, IsOpen
<1> QED
  BY <1>1, <1>2, <1>3 DEF IInv

\* what the dispatcher's state says
LEMMA DispatcherIs ==
  ASSUME IInv
  PROVE  /\ SlotsInv(nic)
         /\ sm_ethernet_stack # "UDP" => ~udp.waiting
         /\ sm_ethernet_stack \in {"IDLE", "ICMP_REPLY"} => NothingHeld(nic)
         /\ sm_ethernet_stack \in {"ARP", "IP", "ICMP"} => nic.rxWorkingSlot # NoSlot
BY DEF IInv, DispatchInv

LEMMA ReceiveIInv ==
  ASSUME IInv, NothingReceived \/ PacketReceived
  PROVE  IInv'
<1> DEFINE n == nic_check_for_rx(nic)
<1>1. sm_ethernet_stack = "IDLE" /\ SlotsInv(n) /\ ~udp.waiting
  BY DispatcherIs, CheckKeepsSlots DEF NothingReceived, PacketReceived, Loop
<1>2. SlotsInv(nic_rx_dump_packet(n)) /\ nic_rx_dump_packet(n).rxWorkingSlot = NoSlot
  BY <1>1, DumpKeepsSlots
<1> HIDE DEF n
<1>3. CASE NothingReceived
  BY <1>1, <1>3, LoopIInv DEF NothingReceived, Loop, NothingHeld, n, StackStates
<1>4. CASE PacketReceived
  <2> DEFINE next == CASE Reading(n).kind = "arp"     -> "ARP"
                       [] Reading(n).kind = "unknown" -> "IDLE"
                       [] OTHER                       -> "IP"
  <2>1. Loop("IDLE", next, TRUE) /\ UNCHANGED udp /\ n.rxWorkingSlot # NoSlot
        /\ nic' = IF Reading(n).kind = "unknown" THEN nic_rx_dump_packet(n) ELSE n
    BY <1>4 DEF PacketReceived, n
  <2>2. next = IF Reading(n).kind = "unknown" THEN "IDLE"
               ELSE IF Reading(n).kind = "arp" THEN "ARP" ELSE "IP"
    OBVIOUS
  <2> HIDE DEF next
  <2>3. /\ UNCHANGED <<udp, dhcp, ip, nic_is_linked, app, turn, scenario>>
        /\ pc = "loop" /\ pc' = "loop" /\ sm_ethernet_stack' = next
    BY <2>1 DEF Loop
  <2>4. CASE Reading(n).kind = "unknown"
    BY <1>1, <1>2, <2>1, <2>2, <2>3, <2>4, LoopIInv DEF StackStates, NothingHeld
  <2>5. CASE Reading(n).kind # "unknown"
    <3>1. nic' = n /\ sm_ethernet_stack' \in {"ARP", "IP"}
      BY <2>1, <2>2, <2>3, <2>5
    <3> QED
      BY <1>1, <2>1, <2>3, <3>1, LoopIInv DEF StackStates
  <2> QED
    BY <2>4, <2>5
<1> QED
  BY <1>3, <1>4

\* the packet is dumped, and the dispatcher has done with it
LEMMA DumpedIInv ==
  ASSUME IInv, ProcessArp \/ BadHeader \/ UnknownProtocol \/ ProcessIcmp
  PROVE  IInv'
<1>1. sm_ethernet_stack \in {"ARP", "IP", "ICMP"} /\ nic' = nic_rx_dump_packet(nic) /\ UNCHANGED udp
      /\ pc = "loop" /\ pc' \in {"loop", "dhcp"}
      /\ UNCHANGED <<dhcp, ip, nic_is_linked, app, turn, scenario>>
      /\ sm_ethernet_stack' \in {"IDLE", "ICMP_REPLY"}
      /\ (pc' # "loop" => sm_ethernet_stack' = "IDLE")
  BY DEF ProcessArp, BadHeader, UnknownProtocol, ProcessIcmp, Loop
<1>2. SlotsInv(nic') /\ nic'.rxWorkingSlot = NoSlot
  BY <1>1, DispatcherIs, DumpKeepsSlots
<1> QED
  BY <1>1, <1>2, DispatcherIs, LoopIInv DEF StackStates, NothingHeld

LEMMA PassedOnIInv ==
  ASSUME IInv, KnownProtocol \/ SendIcmpReply
  PROVE  IInv'
<1>1. /\ UNCHANGED <<nic, udp, dhcp, ip, nic_is_linked, app, turn, scenario>>
      /\ pc = "loop" /\ pc' \in {"loop", "dhcp"}
      /\ \/ sm_ethernet_stack = "IP" /\ pc' = "loop" /\ sm_ethernet_stack' = "ICMP"
         \/ sm_ethernet_stack = "IP" /\ pc' = "loop" /\ sm_ethernet_stack' = "UDP" /\ Reading(nic).kind = "udp"
         \/ sm_ethernet_stack = "ICMP_REPLY" /\ sm_ethernet_stack' = "IDLE"
  BY DEF KnownProtocol, SendIcmpReply, Loop
<1>2. SlotsInv(nic') /\ Reading(nic') = Reading(nic) /\ nic'.rxWorkingSlot = nic.rxWorkingSlot
  BY <1>1, DispatcherIs DEF Reading
<1> QED
  BY <1>1, <1>2, DispatcherIs, LoopIInv DEF StackStates, NothingHeld

LEMMA ProcessUdpIInv ==
  ASSUME IInv, ProcessUdp
  PROVE  IInv'
<1> DEFINE x == udp_process_rx(Stack, ip)
<1>1. Sound(Stack) /\ Stack.nic = nic /\ Stack.udp = udp
  BY StackIs DEF Stack
<1>2. /\ nic' = x.nic /\ udp' = x.udp /\ sm_ethernet_stack = "UDP" /\ pc = "loop" /\ pc' = "dhcp"
      /\ UNCHANGED <<dhcp, ip, nic_is_linked, app, turn, scenario>>
      /\ sm_ethernet_stack' = IF UdpDone(Stack, ip) THEN "IDLE" ELSE "UDP"
  BY DEF ProcessUdp, Loop
<1>3. ASSUME SlotsInv(nic'), WaitingInv(nic', udp'), udp'.waiting <=> sm_ethernet_stack' = "UDP",
             ~udp'.waiting => NothingHeld(nic'),
             ~nic_is_linked => ~udp'.waiting /\ \A s \in Sockets : ~IsOpen(udp', s)
      PROVE  IInv'
  <2>1. TypeOK'
    BY <1>2, <1>3 DEF IInv, TypeOK, SlotsInv, WaitingInv, StackStates
  <2>2. DispatchInv' /\ AppsInv'
    BY <1>2, <1>3 DEF IInv, DispatchInv, AppsInv
  <2> QED
    BY <1>3, <2>1, <2>2 DEF IInv
<1>4. CASE udp.waiting
  <2>1. CASE UdpDone(Stack, ip)
    <3>1. x = [Stack EXCEPT !.udp.active = UDP_INVALID_SOCKET, !.udp.waiting = FALSE]
      BY <1>1, <1>4, <2>1 DEF udp_process_rx
    <3>2. nic' = nic /\ udp' = [udp EXCEPT !.active = UDP_INVALID_SOCKET, !.waiting = FALSE]
      BY <1>2, <3>1 DEF Stack
    <3>3. udp' \in UdpType /\ ~udp'.waiting /\ udp'.socket = udp.socket
      BY <1>1, <3>2 DEF Sound, WaitingInv, UdpType
    <3>4. NothingHeld(nic')
      BY <1>1, <1>4, <2>1, <3>2 DEF UdpDone, Sound, WaitingInv, NothingHeld, Empty
    <3>5. WaitingInv(nic', udp') /\ SlotsInv(nic')
      BY <1>1, <3>2, <3>3 DEF Sound, WaitingInv, IsOpen
    <3>6. nic_is_linked
      BY <1>4 DEF IInv, DispatchInv
    <3> QED
      BY <1>2, <1>3, <2>1, <3>3, <3>4, <3>5, <3>6
  <2>2. CASE ~UdpDone(Stack, ip)
    <3>1. x = Stack
      BY <1>1, <1>4, <2>2 DEF udp_process_rx
    <3>2. nic' = nic /\ udp' = udp
      BY <1>2, <3>1 DEF Stack
    <3>3. nic_is_linked /\ udp.waiting = TRUE
      BY <1>1, <1>4 DEF IInv, DispatchInv, Sound, WaitingInv, UdpType
    <3> QED
      BY <1>1, <1>2, <1>3, <1>4, <2>2, <3>2, <3>3 DEF Sound
  <2> QED
    BY <2>1, <2>2
<1>5. CASE ~udp.waiting
  <2>1. nic.rxWorkingSlot # NoSlot /\ Reading(nic).kind = "udp"
    BY <1>2, <1>5 DEF IInv, DispatchInv
  <2>2. CASE UdpDone(Stack, ip)
    <3>1. x = Dump(Stack)
      BY <1>1, <1>5, <2>2 DEF udp_process_rx
    <3>2. nic' = nic_rx_dump_packet(nic) /\ udp' = udp
      BY <1>1, <1>2, <3>1 DEF Dump, Stack
    <3>3. SlotsInv(nic') /\ nic'.rxWorkingSlot = NoSlot
      BY <1>1, <3>2, DumpKeepsSlots DEF Sound
    <3>4. WaitingInv(nic', udp') /\ udp.waiting = FALSE
      BY <1>1, <1>5, <3>2 DEF Sound, WaitingInv, UdpType
    <3> QED
      BY <1>2, <1>3, <1>5, <2>2, <3>2, <3>3, <3>4 DEF IInv, DispatchInv, NothingHeld
  <2>3. CASE ~UdpDone(Stack, ip)
    <3>1. /\ Sound(x) /\ x.udp.waiting
          /\ x.udp.active \in Matching(Stack, Reading(nic), ip) /\ IsOpen(udp, x.udp.active)
      <4> HIDE DEF x
      <4>1. ~Stack.udp.waiting /\ Stack.nic.rxWorkingSlot # NoSlot /\ Reading(Stack.nic).kind = "udp"
        BY <1>1, <1>5, <2>1
      <4> QED
        BY <1>1, <2>3, <4>1, AnnounceIsSound DEF x
    <3> HIDE DEF x
    <3>2. x.udp.active \in Sockets
      BY <3>1 DEF Matching
    <3>3. nic_is_linked
      BY <3>1, <3>2 DEF IInv, DispatchInv
    <3>4. SlotsInv(nic') /\ WaitingInv(nic', udp') /\ udp'.waiting = TRUE
      BY <1>2, <3>1 DEF Sound, WaitingInv, UdpType
    <3> QED
      BY <1>2, <1>3, <2>3, <3>3, <3>4
  <2> QED
    BY <2>2, <2>3
<1> QED
  BY <1>4, <1>5

\* the rest of the main loop: packets may be dumped, not held
LEMMA OutsideIInv ==
  ASSUME IInv, SlotsInv(nic'), WaitingInv(nic', udp'), dhcp' \in DhcpType, ip' \in IpType,
         UNCHANGED <<sm_ethernet_stack, nic_is_linked, scenario>>,
         app' \in [Apps -> [sm : {"OPEN_SOCKET", "PROCESS_SOCKET", "TX_RESPONSE"},
                           socket : Sockets \cup {UDP_INVALID_SOCKET}]], AppsInv',
         turn' \in 1..(NumApps + 1), pc' \in {"app", "stack"}, pc \in {"dhcp", "app"},
         udp'.waiting = udp.waiting, nic' = nic \/ nic'.rxWorkingSlot = NoSlot,
         ~nic_is_linked => ~ip'.valid /\ \A s \in Sockets : ~IsOpen(udp', s)
  PROVE  IInv'
<1>1. TypeOK'
  BY DEF IInv, TypeOK, SlotsInv, WaitingInv
<1>2. DispatchInv'
  BY DEF IInv, DispatchInv, NothingHeld, Reading
<1> QED
  BY <1>1, <1>2 DEF IInv

LEMMA ProcessDhcpIInv ==
  ASSUME IInv, NEW tx \in BOOLEAN, ProcessDhcp(tx)
  PROVE  IInv'
<1> DEFINE r == process_dhcp(Stack, nic_is_linked, tx)
<1>1. Sound(Stack) /\ Stack.nic = nic /\ Stack.udp = udp
  BY StackIs DEF Stack
<1>2. nic_is_linked \in BOOLEAN
  BY DEF IInv, TypeOK
<1>3. /\ Sound(r) /\ Kept(r, Stack)
      /\ ~nic_is_linked => /\ ~r.ip.valid
                           /\ \A s \in Sockets : IsOpen(r.udp, s) => IsOpen(Stack.udp, s)
  BY <1>1, <1>2, DhcpIs
<1>4. /\ nic' = r.nic /\ udp' = r.udp /\ dhcp' = r.dhcp /\ ip' = r.ip
      /\ pc = "dhcp" /\ pc' = "app" /\ turn' = 1
      /\ UNCHANGED <<sm_ethernet_stack, nic_is_linked, app, scenario>>
  BY DEF ProcessDhcp
<1> HIDE DEF r
<1>5. SlotsInv(nic') /\ WaitingInv(nic', udp') /\ dhcp' \in DhcpType /\ ip' \in IpType
  BY <1>3, <1>4 DEF Sound, WType
<1>6. udp'.waiting = udp.waiting /\ (nic' = nic \/ nic'.rxWorkingSlot = NoSlot)
  BY <1>1, <1>3, <1>4 DEF Kept
<1>7. ~nic_is_linked => ~ip'.valid /\ \A s \in Sockets : ~IsOpen(udp', s)
  BY <1>1, <1>3, <1>4 DEF IInv, DispatchInv
<1>8. AppsInv' /\ app' = app
  BY <1>4 DEF IInv, AppsInv
<1>9. turn' \in 1..(NumApps + 1)
  BY <1>4, EthStackAssumption
<1> QED
  BY <1>4, <1>5, <1>6, <1>7, <1>8, <1>9, OutsideIInv DEF IInv, TypeOK

\* a call of an application, whatever it does with its socket
LEMMA BecomesIInv ==
  ASSUME IInv, NEW k \in Apps, Turn(k), NEW w, Sound(w),
         NEW sm \in {"OPEN_SOCKET", "PROCESS_SOCKET", "TX_RESPONSE"},
         NEW socket \in Sockets \cup {UDP_INVALID_SOCKET},
         sm = "OPEN_SOCKET" <=> socket = UDP_INVALID_SOCKET,
         Becomes(k, w, sm, socket),
         w.udp.waiting = udp.waiting, w.nic = nic \/ w.nic.rxWorkingSlot = NoSlot,
         ~nic_is_linked => \A s \in Sockets : ~IsOpen(w.udp, s)
  PROVE  IInv'
<1>1. /\ nic' = w.nic /\ udp' = w.udp /\ turn' = k + 1 /\ pc' = "app" /\ pc = "app" /\ turn = k
      /\ app' = [app EXCEPT ![k] = [sm |-> sm, socket |-> socket]]
      /\ UNCHANGED <<dhcp, ip, sm_ethernet_stack, nic_is_linked, scenario>>
  BY DEF Becomes, Turn
<1>2. app' \in [Apps -> [sm : {"OPEN_SOCKET", "PROCESS_SOCKET", "TX_RESPONSE"},
                         socket : Sockets \cup {UDP_INVALID_SOCKET}]]
      /\ \A j \in Apps : app'[j] = IF j = k THEN [sm |-> sm, socket |-> socket] ELSE app[j]
  BY <1>1 DEF IInv, TypeOK
<1>3. AppsInv'
  BY <1>2 DEF IInv, AppsInv
<1>4. turn' \in 1..(NumApps + 1)
  BY <1>1, EthStackAssumption DEF Apps
<1>5. SlotsInv(nic') /\ WaitingInv(nic', udp')
  BY <1>1 DEF Sound
<1>6. dhcp' \in DhcpType /\ ip' \in IpType /\ (~nic_is_linked => ~ip'.valid)
  BY <1>1 DEF IInv, TypeOK, DispatchInv
<1> QED
  BY <1>1, <1>2, <1>3, <1>4, <1>5, <1>6, OutsideIInv

LEMMA AppIInv ==
  ASSUME IInv, NEW k \in Apps, App(k)
  PROVE  IInv'
<1> DEFINE s == app[k].socket
<1>1. /\ Sound(Stack) /\ Stack.nic = nic /\ Stack.udp = udp
      /\ s \in Sockets \cup {UDP_INVALID_SOCKET} /\ (app[k].sm = "OPEN_SOCKET" <=> s = UDP_INVALID_SOCKET)
  BY StackIs DEF Stack, IInv, TypeOK, AppsInv
<1>2. ~nic_is_linked => ~Online /\ ~udp.waiting /\ \A t \in Sockets : ~IsOpen(udp, t)
  BY DEF IInv, DispatchInv, Online
<1>3. CASE AppOffline(k)
  <2> DEFINE c == udp_close_socket(Stack, s)
  <2>1. /\ Sound(c) /\ SameBut(c, Stack, s) /\ (s \in Sockets => ~IsOpen(c.udp, s))
        /\ c.nic = nic \/ c.nic.rxWorkingSlot = NoSlot
    BY <1>1, CloseIsSound
  <2>2. Turn(k) /\ Becomes(k, c, "OPEN_SOCKET", UDP_INVALID_SOCKET)
    BY <1>3 DEF AppOffline
  <2> HIDE DEF c
  <2>3. c.udp.waiting = udp.waiting /\ (~nic_is_linked => \A t \in Sockets : ~IsOpen(c.udp, t))
    BY <1>1, <1>2, <2>1 DEF SameBut, IsOpen
  <2> QED
    BY <2>1, <2>2, <2>3, BecomesIInv
<1>4. CASE AppOpens(k)
  <2> DEFINE o == udp_open_socket(Stack, BROADCAST, AppPort[k])
             f == FreeSocket(Stack)
  <2>1. AppPort[k] \in Ports
    BY EthStackAssumption DEF Apps
  <2>2. Sound(o) /\ SameBut(o, Stack, f) /\ o.nic = Stack.nic
    BY <1>1, <2>1, OpenIsSound
  <2>3. f \in Sockets \cup {UDP_INVALID_SOCKET}
    BY FreeSocketIs
  <2>4. Turn(k) /\ Online
        /\ Becomes(k, o, IF f = UDP_INVALID_SOCKET THEN "OPEN_SOCKET" ELSE "PROCESS_SOCKET", f)
    BY <1>4 DEF AppOpens
  <2> HIDE DEF o, f
  <2>5. o.udp.waiting = udp.waiting /\ o.nic = nic
    BY <1>1, <2>2 DEF SameBut
  <2> QED
    BY <1>2, <2>2, <2>3, <2>4, <2>5, BecomesIInv
<1>5. CASE AppProcesses(k)
  <2>1. Turn(k) /\ Online /\ s # UDP_INVALID_SOCKET
    BY <1>1, <1>5 DEF AppProcesses
  <2>2. CASE udp_check_socket_for_rx(Stack, s)
    <3>1. PICK n \in 0..udp.socket[udp.active].rx_data_bytes_remaining :
            Becomes(k, udp_dump_rx_packet(udp_read_rx_array(Stack, n)), "TX_RESPONSE", s)
      BY <1>5, <2>2 DEF AppProcesses
    <3> DEFINE d == udp_dump_rx_packet(udp_read_rx_array(Stack, n))
    <3>2. Stack.udp.waiting /\ n \in 0..Stack.udp.socket[Stack.udp.active].rx_data_bytes_remaining
      BY <1>1, <2>2 DEF udp_check_socket_for_rx
    <3>3. Sound(d) /\ SameBut(d, Stack, UDP_INVALID_SOCKET) /\ d.nic.rxWorkingSlot = NoSlot
      BY <1>1, <3>2, ReadAndDumpIsSound
    <3>4. Becomes(k, d, "TX_RESPONSE", s)
      BY <3>1
    <3> HIDE DEF d
    <3>5. d.udp.waiting = udp.waiting
      BY <1>1, <3>3 DEF SameBut
    <3> QED
      BY <1>1, <1>2, <2>1, <3>3, <3>4, <3>5, BecomesIInv
  <2>3. CASE ~udp_check_socket_for_rx(Stack, s)
    <3>1. Becomes(k, Stack, "PROCESS_SOCKET", s)
      BY <1>5, <2>3 DEF AppProcesses
    <3> QED
      BY <1>1, <1>2, <2>1, <3>1, BecomesIInv
  <2> QED
    BY <2>2, <2>3
<1>6. CASE AppResponds(k)
  <2> DEFINE r == [Stack EXCEPT !.udp.socket[s].remote_ip = BROADCAST]
  <2>1. Turn(k) /\ Online /\ s # UDP_INVALID_SOCKET /\ Becomes(k, r, "PROCESS_SOCKET", s)
    BY <1>1, <1>6 DEF AppResponds
  <2>2. Sound(r) /\ SameBut(r, Stack, s) /\ r.nic = Stack.nic
    BY <1>1, <2>1, UnbindIsSound
  <2> HIDE DEF r
  <2>3. r.udp.waiting = udp.waiting /\ r.nic = nic
    BY <1>1, <2>2 DEF SameBut
  <2> QED
    BY <1>1, <1>2, <2>1, <2>2, <2>3, BecomesIInv
<1>7. CASE AppCannotRespond(k)
  <2>1. Turn(k) /\ Online /\ s # UDP_INVALID_SOCKET /\ Becomes(k, Stack, "TX_RESPONSE", s)
    BY <1>1, <1>7 DEF AppCannotRespond
  <2> QED
    BY <1>1, <1>2, <2>1, BecomesIInv
<1> QED
  BY <1>3, <1>4, <1>5, <1>6, <1>7 DEF App

\* the interrupt handlers, the settings and where the main loop is
LEMMA AroundIInv ==
  ASSUME IInv, LinkMayFail = FALSE,
         ProcessStack \/ MainLoopAgain \/ (\E m \in scenario.switches : Reconfigure(m)) \/ tick_1ms \/ tick_1s
  PROVE  IInv'
<1>1. /\ UNCHANGED <<nic, udp, app, turn, scenario>>
      /\ dhcp' \in DhcpType /\ ip' \in IpType /\ ip'.valid = ip.valid /\ dhcp \in DhcpType /\ ip \in IpType
      /\ nic_is_linked' \in BOOLEAN /\ (nic_is_linked => nic_is_linked')
      /\ \/ pc' = pc /\ sm_ethernet_stack' = sm_ethernet_stack
         \/ pc = "app" /\ pc' = "stack" /\ sm_ethernet_stack' = sm_ethernet_stack
         \/ pc = "stack" /\ pc' = "loop" /\ sm_ethernet_stack' = IF nic_is_linked THEN sm_ethernet_stack ELSE "IDLE"
  <2>1. dhcp \in DhcpType /\ ip \in IpType /\ nic_is_linked \in BOOLEAN
    BY DEF IInv, TypeOK
  <2>2. CASE ProcessStack
    BY <2>1, <2>2 DEF ProcessStack
  <2>3. CASE MainLoopAgain
    BY <2>1, <2>3 DEF MainLoopAgain
  <2>4. CASE \E m \in scenario.switches : Reconfigure(m)
    <3>1. PICK m \in scenario.switches : Reconfigure(m)
      BY <2>4
    <3>2. m \in BOOLEAN
      BY EthStackAssumption DEF IInv, TypeOK
    <3>3. dhcp' \in DhcpType /\ ip' \in IpType /\ ip'.valid = ip.valid
      BY <2>1, <3>1, <3>2, DhcpAssumption DEF Reconfigure, DhcpType, IpType
    <3> QED
      BY <2>1, <3>1, <3>3 DEF Reconfigure
  <2>5. CASE tick_1ms
    <3>1. dhcp' \in DhcpType
      BY <2>1, <2>5 DEF tick_1ms, DhcpType
    <3> QED
      BY <2>1, <2>5, <3>1 DEF tick_1ms
  <2>6. CASE tick_1s
    <3>1. dhcp.renewal \in 0..(LeaseTicks + 1) /\ dhcp.lease \in 0..LeaseTicks
      BY <2>1 DEF DhcpType
    <3>2. /\ (IF dhcp.renewal = 0 THEN 0 ELSE dhcp.renewal - 1) \in 0..(LeaseTicks + 1)
          /\ (IF dhcp.lease = 0 THEN 0 ELSE dhcp.lease - 1) \in 0..LeaseTicks
      BY <3>1, DhcpAssumption
    <3>3. dhcp' = [dhcp EXCEPT !.renewal = IF dhcp.renewal = 0 THEN 0 ELSE dhcp.renewal - 1,
                               !.lease = IF dhcp.lease = 0 THEN 0 ELSE dhcp.lease - 1]
      BY <2>6 DEF tick_1s
    <3>4. dhcp' \in DhcpType
      BY <2>1, <3>2, <3>3 DEF DhcpType
    <3> QED
      BY <2>1, <2>6, <3>4 DEF tick_1s
  <2> QED
    BY <2>2, <2>3, <2>4, <2>5, <2>6
<1>2. WaitingInv(nic, udp)' /\ SlotsInv(nic') /\ AppsInv'
  BY <1>1 DEF IInv, WaitingInv, AppsInv, IsOpen
<1>3. sm_ethernet_stack' = sm_ethernet_stack /\ sm_ethernet_stack' \in StackStates
  BY <1>1 DEF IInv, TypeOK, DispatchInv, StackStates
<1>4. TypeOK'
  BY <1>1, <1>3 DEF IInv, TypeOK
<1>5. DispatchInv'
  <2>1. nic' = nic /\ udp' = udp /\ (~nic_is_linked' => ~nic_is_linked /\ ~ip.valid /\ ~ip'.valid)
    BY <1>1 DEF IInv, TypeOK, DispatchInv
  <2>2. pc' # "loop" => pc # "loop"
    BY <1>1
  <2> QED
    BY <1>3, <2>1, <2>2 DEF IInv, DispatchInv, NothingHeld, IsOpen, Reading
<1> QED
  BY <1>2, <1>4, <1>5 DEF IInv

LEMMA FrameArrivesIInv ==
  ASSUME IInv, ~NullDatagrams, NEW f \in scenario.packets, FrameArrives(f)
  PROVE  IInv'
<1>1. Plain(f)
  BY EthStackAssumption DEF NullDatagrams, Plain, IInv, TypeOK
<1>2. /\ nic' = Receive(nic, f) /\ \E i \in Slots : nic.state[i] = "ready"
      /\ UNCHANGED <<udp, dhcp, ip, sm_ethernet_stack, nic_is_linked, app, pc, turn, scenario>>
  BY DEF FrameArrives
<1>3. /\ SlotsInv(nic') /\ nic'.rxWorkingSlot = nic.rxWorkingSlot /\ nic'.rxPointer = nic.rxPointer
      /\ nic.rxWorkingSlot # NoSlot => Reading(nic') = Reading(nic)
  BY <1>1, <1>2, ReceiveKeepsSlots DEF IInv
<1>4. TypeOK'
  BY <1>2, <1>3 DEF IInv, TypeOK, SlotsInv
<1>5. WaitingInv(nic', udp')
  BY <1>2, <1>3 DEF IInv, WaitingInv, IsOpen
<1>6. DispatchInv' /\ AppsInv'
  BY <1>2, <1>3 DEF IInv, DispatchInv, AppsInv, NothingHeld, IsOpen
<1> QED
  BY <1>3, <1>4, <1>5, <1>6 DEF IInv

LEMMA NextIInv ==
  ASSUME Calm, IInv, [Next]_vars
  PROVE  IInv'
<1>1. CASE UNCHANGED vars
  <2>1. UNCHANGED <<nic, udp, dhcp, ip, sm_ethernet_stack, nic_is_linked, app, pc, turn, scenario>>
    BY <1>1 DEF vars
  <2>2. TypeOK' /\ WaitingInv(nic, udp)' /\ SlotsInv(nic')
    BY <2>1 DEF IInv, TypeOK, WaitingInv, IsOpen
  <2> QED
    BY <2>1, <2>2 DEF IInv, DispatchInv, AppsInv, NothingHeld, IsOpen, Reading
<1>2. CASE Next
  BY <1>2, ReceiveIInv, DumpedIInv, PassedOnIInv, ProcessUdpIInv, ProcessDhcpIInv, AppIInv,
     AroundIInv, FrameArrivesIInv DEF Next, ProcessLoop, Calm
<1> QED
  BY <1>1, <1>2

LEMMA ScenarioIsKept == ASSUME [Next]_vars PROVE scenario' = scenario
BY DEF Next, ProcessLoop, ProcessStack, NothingReceived, PacketReceived, ProcessArp, BadHeader,
       UnknownProtocol, KnownProtocol, ProcessIcmp, SendIcmpReply, ProcessUdp, Loop,
       ProcessDhcp, App, AppOffline, AppOpens, AppProcesses, AppResponds, AppCannotRespond,
       Becomes, MainLoopAgain, Reconfigure, tick_1ms, tick_1s, FrameArrives, vars

(***************************************************************************)
(* The inductive invariant of a network without datagrams for port 0xffff  *)
(* and a link that stays up: a disabled slot is the one held or that of an *)
(* empty datagram, the dispatcher's state says whether one is held, and a  *)
(* datagram that waits for its socket is held until it has been read.      *)
(***************************************************************************)
THEOREM Invariance == Spec => [](Calm => IInv)
<1>1. (Calm => IInv) /\ [Next]_vars => (Calm => IInv)'
  <2> SUFFICES ASSUME Calm => IInv, [Next]_vars, Calm' PROVE IInv'
    OBVIOUS
  <2>1. Calm
    BY ScenarioIsKept DEF Calm, NullDatagrams
  <2> QED
    BY <2>1, NextIInv
<1> QED
  BY InitIInv, <1>1, PTL DEF Spec

-----------------------------------------------------------------------------
(* Which slots can be lost, with links that fail and datagrams for any port *)

NicRecord(n) ==
  n \in [state : [Slots -> {"ready", "data", "disabled"}],
         packet : [Slots -> Frame \cup {NoPacket}],
         rxWorkingSlot : Slots \cup {NoSlot}, rxSlot : Slots, rxPointer : {n.rxPointer}]

\* a slot that is lost holds a datagram, and slots hold what the network sent
HeldInv(n) ==
  /\ NicRecord(n)
  /\ \A i \in Slots : n.state[i] = "disabled" => n.rxWorkingSlot = i \/ n.packet[i].kind = "udp"
  /\ n.rxWorkingSlot # NoSlot => n.state[n.rxWorkingSlot] = "disabled" /\ n.rxSlot = n.rxWorkingSlot
  /\ \A i \in Slots : n.state[i] # "ready" => n.packet[i] \in scenario.packets

DatagramHeld(n) == n.rxWorkingSlot # NoSlot => Reading(n).kind = "udp"

\* the client's variables as a record, in one of its states
IsClient(d) ==
  d \in [sm : DhcpStates, socket : {d.socket}, timer_1ms : {d.timer_1ms},
         renewal : {d.renewal}, lease : {d.lease}, manual : {d.manual}]

LossInv ==
  /\ HeldInv(nic) /\ IsClient(dhcp)
  /\ sm_ethernet_stack \in {"IDLE", "ICMP_REPLY", "UDP"} => DatagramHeld(nic)
  /\ pc # "loop" => sm_ethernet_stack \in {"IDLE", "UDP"}
  /\ scenario \in Scenarios

\* the globals as a record, whatever its fields are
IsW(w) == /\ w \in [nic : {w.nic}, udp : {w.udp}, dhcp : {w.dhcp}, ip : {w.ip}]
          /\ IsClient(w.dhcp)

\* on the way from w to r the packet has been dumped, or is held as before
Yields(r, w) ==
  /\ IsW(r) /\ HeldInv(r.nic)
  /\ \/ r.nic.rxWorkingSlot = NoSlot
     \/ r.nic.rxWorkingSlot = w.nic.rxWorkingSlot /\ Reading(r.nic) = Reading(w.nic)

Good(w) == IsW(w) /\ HeldInv(w.nic)

LEMMA YieldsOn ==
  ASSUME NEW w, NEW v, NEW r, Yields(v, w), Yields(r, v)
  PROVE  Yields(r, w)
BY DEF Yields

LEMMA SameNic ==
  ASSUME NEW w, Good(w), NEW r, IsW(r), r.nic = w.nic
  PROVE  Yields(r, w)
BY DEF Yields, Good

LEMMA NicDumped ==
  ASSUME NEW n, HeldInv(n)
  PROVE  HeldInv(nic_rx_dump_packet(n)) /\ nic_rx_dump_packet(n).rxWorkingSlot = NoSlot
BY Indices DEF HeldInv, NicRecord, nic_rx_dump_packet, ReleaseSlot

LEMMA NicChecked ==
  ASSUME NEW n, HeldInv(n), DatagramHeld(n)
  PROVE  HeldInv(nic_check_for_rx(n))
<1> DEFINE full == {i \in Slots : n.state[i] = "data"}
<1>1. full # {} => Lowest(full) \in full
  BY Indices, LowestIsIn
<1> QED
  BY <1>1, Indices DEF HeldInv, DatagramHeld, Reading, NicRecord, nic_check_for_rx, ReleaseSlot

LEMMA DumpYields ==
  ASSUME NEW w, Good(w)
  PROVE  Yields(udp_dump_rx_packet(w), w)
<1> DEFINE r == udp_dump_rx_packet(w)
<1>1. IsW(r) /\ r.nic = nic_rx_dump_packet(w.nic)
  BY DEF udp_dump_rx_packet, Dump, IsW, Good
<1> QED
  BY <1>1, NicDumped DEF Yields, Good

LEMMA CloseYields ==
  ASSUME NEW w, Good(w), NEW s
  PROVE  Yields(udp_close_socket(w, s), w)
<1> DEFINE d == IF udp_check_socket_for_rx(w, s) THEN udp_dump_rx_packet(w) ELSE w
           c == udp_close_socket(w, s)
<1>1. Yields(d, w)
  BY DumpYields, SameNic DEF Good
<1> HIDE DEF d
<1>2. c = w \/ c = [d EXCEPT !.udp.socket[s].local_port = UDP_PORT_NULL]
  BY DEF udp_close_socket, d
<1> HIDE DEF c
<1>3. c = w \/ (IsW(c) /\ c.nic = d.nic)
  BY <1>1, <1>2 DEF IsW, Yields
<1>4. IsW(w) /\ Good(d)
  BY <1>1 DEF Good, Yields
<1>5. Yields(c, w) \/ Yields(c, d)
  BY <1>3, <1>4, SameNic
<1> QED
  BY <1>1, <1>5, YieldsOn DEF c

LEMMA OpenYields ==
  ASSUME NEW w, Good(w), NEW remote, NEW port
  PROVE  Yields(udp_open_socket(w, remote, port), w)
<1> DEFINE o == udp_open_socket(w, remote, port)
<1>1. IsW(o) /\ o.nic = w.nic
  BY DEF udp_open_socket, IsW, Good
<1> QED
  BY <1>1, SameNic

\* a socket is closed and the client's variables change with it
LEMMA CloseSocketYields ==
  ASSUME NEW w, Good(w)
  PROVE  Yields(CloseSocket(w), w)
<1> DEFINE c == udp_close_socket(w, w.dhcp.socket)
           r == CloseSocket(w)
<1>1. Yields(c, w)
  BY CloseYields
<1>2. r = [c EXCEPT !.dhcp.socket = UDP_INVALID_SOCKET]
  BY DEF CloseSocket
<1> HIDE DEF c, r
<1>3. IsW(r) /\ r.nic = c.nic /\ Good(c)
  BY <1>1, <1>2 DEF IsW, IsClient, Yields, Good
<1> QED
  BY <1>1, <1>3, SameNic, YieldsOn DEF r

LEMMA InitialiseYields ==
  ASSUME NEW w, Good(w)
  PROVE  Yields(Initialise(w), w)
<1> DEFINE v == CloseSocket(w)
           c == [v EXCEPT !.ip.valid = FALSE]
           e == [v.dhcp EXCEPT !.lease = LeaseTicks, !.timer_1ms = 1, !.sm = "DISCOVER"]
           r == Initialise(w)
<1>1. Yields(v, w) /\ Good(v)
  BY CloseSocketYields DEF Yields, Good
<1>2. r = IF w.dhcp.manual THEN c
          ELSE [c EXCEPT !.ip.addr = "none", !.ip.mask = "none", !.dhcp.lease = LeaseTicks,
                         !.dhcp.timer_1ms = 1, !.dhcp.sm = "DISCOVER"]
  BY DEF Initialise
<1> HIDE DEF v, r
<1>3. IsClient(e)
  BY <1>1 DEF Good, IsW, IsClient, DhcpStates
<1>4. IsW(c) /\ c.nic = v.nic /\ c.dhcp = v.dhcp
  BY <1>1 DEF IsW, Good
<1> HIDE DEF c
<1>5. CASE w.dhcp.manual
  BY <1>1, <1>2, <1>4, <1>5, SameNic, YieldsOn DEF r
<1>6. CASE ~w.dhcp.manual
  <2>1. r.dhcp = e /\ r.nic = v.nic
        /\ r \in [nic : {r.nic}, udp : {r.udp}, dhcp : {r.dhcp}, ip : {r.ip}]
    BY <1>2, <1>4, <1>6 DEF IsW
  <2>2. IsW(r)
    BY <1>3, <2>1 DEF IsW
  <2> QED
    BY <1>1, <2>1, <2>2, SameNic, YieldsOn DEF r
<1> QED
  BY <1>5, <1>6

LEMMA SendYields ==
  ASSUME NEW w, Good(w), NEW tx, NEW next \in DhcpStates
  PROVE  Yields(Send(w, tx, next), w)
<1> DEFINE q == udp_open_socket(w, BROADCAST, DHCPCLIENT_PORT)
           o == [q EXCEPT !.dhcp.socket = FreeSocket(w)]
           x == [o EXCEPT !.dhcp.timer_1ms = 1, !.dhcp.sm = next]
           r == Send(w, tx, next)
<1>1. Yields(q, w)
  BY OpenYields
<1>2. r \in {o, CloseSocket(o), x}
  BY DEF Send
<1> HIDE DEF q, r
<1>3. IsW(o) /\ o.nic = q.nic /\ Good(q)
  BY <1>1 DEF IsW, IsClient, Yields, Good
<1> HIDE DEF o
<1>4. Yields(o, w) /\ Good(o)
  BY <1>1, <1>3, SameNic, YieldsOn DEF Good, Yields
<1>5. IsW(x) /\ x.nic = o.nic
  BY <1>3 DEF IsW, IsClient
<1> HIDE DEF x
<1>6. Yields(x, w)
  BY <1>4, <1>5, SameNic, YieldsOn
<1>7. Yields(CloseSocket(o), w)
  BY <1>4, CloseSocketYields, YieldsOn
<1> QED
  BY <1>2, <1>4, <1>6, <1>7 DEF r

LEMMA AskYields ==
  ASSUME NEW w, Good(w), NEW tx
  PROVE  Yields(Discover(w, tx), w) /\ Yields(Request(w, tx), w)
<1>1. Yields(w, w)
  BY SameNic DEF Good
<1>2. ASSUME NEW next \in DhcpStates PROVE Yields(Send(w, tx, next), w)
  BY <1>2, SendYields
<1>3. "WAIT_FOR_OFFER_RESPONSE" \in DhcpStates /\ "WAIT_FOR_REQUEST_RESPONSE" \in DhcpStates
  BY DEF DhcpStates
<1> DEFINE i == [w EXCEPT !.dhcp.sm = "INIT"]
<1>4. IsW(i) /\ i.nic = w.nic
  BY DEF IsW, IsClient, Good, DhcpStates
<1>5. Yields(i, w)
  BY <1>4, SameNic
<1> QED
  BY <1>1, <1>2, <1>3, <1>5 DEF Discover, Request

LEMMA DhcpRxYields ==
  ASSUME NEW w, Good(w)
  PROVE  Yields(dhcp_rx_packet(w), w)
<1> DEFINE d == udp_dump_rx_packet(w)
           r == dhcp_rx_packet(w)
           m == Message(w)
           ack == m = "ack"
           sm == CASE m = "nak" -> "INIT" [] m = "offer" -> "REQUEST" [] m = "ack" -> "BOUND"
<1>1. Yields(d, w) /\ Good(d)
  BY DumpYields DEF Good, Yields
<1>2. CASE ~dhcp_rx_packet_ok(w)
  BY <1>1, <1>2 DEF dhcp_rx_packet
<1>3. CASE dhcp_rx_packet_ok(w)
  <2>1. m \in {"nak", "offer", "ack"}
    BY <1>3 DEF dhcp_rx_packet_ok
  <2>2. r = [d EXCEPT !.dhcp.sm = sm,
                      !.dhcp.timer_1ms = IF ack THEN @ ELSE 0,
                      !.dhcp.lease     = IF ack THEN LeaseTicks ELSE @,
                      !.dhcp.renewal   = IF ack THEN LeaseTicks \div 2 ELSE @,
                      !.ip.addr        = IF ack THEN "ours" ELSE @,
                      !.ip.mask        = IF ack THEN Mask ELSE @]
    BY <1>3 DEF dhcp_rx_packet
  <2>3. sm \in DhcpStates
    BY <2>1 DEF DhcpStates
  <2> HIDE DEF d, r, m, sm, ack
  <2> DEFINE e == [d.dhcp EXCEPT !.sm = sm, !.timer_1ms = IF ack THEN @ ELSE 0,
                                 !.lease = IF ack THEN LeaseTicks ELSE @,
                                 !.renewal = IF ack THEN LeaseTicks \div 2 ELSE @]
             i == [d.ip EXCEPT !.addr = IF ack THEN "ours" ELSE @,
                               !.mask = IF ack THEN Mask ELSE @]
  <2>4. IsClient(e)
    BY <1>1, <2>3 DEF Good, IsW, IsClient
  <2>5. r.dhcp = e /\ r.nic = d.nic
        /\ r \in [nic : {r.nic}, udp : {r.udp}, dhcp : {r.dhcp}, ip : {r.ip}]
    BY <1>1, <2>2 DEF Good, IsW
  <2>6. IsW(r)
    BY <2>4, <2>5 DEF IsW
  <2> QED
    BY <1>1, <2>5, <2>6, SameNic, YieldsOn DEF r
<1> QED
  BY <1>2, <1>3

\* the answer is dumped, or the client gives up, or it goes on waiting
LEMMA WaitYields ==
  ASSUME NEW w, Good(w)
  PROVE  Yields(Wait(w), w)
<1>1. ASSUME NEW v, Good(v) PROVE Yields(Retry(v), v) /\ Yields(CloseSocket(v), v)
  <2> DEFINE c == CloseSocket(v)
             r == Retry(v)
  <2>1. Yields(c, v) /\ Good(c)
    BY <1>1, CloseSocketYields DEF Good, Yields
  <2>2. r = [c EXCEPT !.dhcp.timer_1ms = 1, !.dhcp.sm = "DISCOVER"]
    BY DEF Retry
  <2> HIDE DEF c, r
  <2>3. IsW(r) /\ r.nic = c.nic
    BY <2>1, <2>2 DEF IsW, IsClient, Good, DhcpStates
  <2>4. Yields(r, v)
    BY <2>1, <2>3, SameNic, YieldsOn
  <2> QED
    BY <2>1, <2>4 DEF r, c
<1>2. Yields(dhcp_rx_packet(w), w) /\ Good(dhcp_rx_packet(w))
  BY DhcpRxYields DEF Good, Yields
<1>3. Wait(w) \in {CloseSocket(dhcp_rx_packet(w)), Retry(dhcp_rx_packet(w)), Retry(w), w}
  BY DEF Wait
<1>4. Yields(w, w)
  BY SameNic DEF Good
<1> QED
  BY <1>1, <1>2, <1>3, <1>4, YieldsOn

LEMMA BoundYields ==
  ASSUME NEW w, Good(w)
  PROVE  Yields(Bound(w), w)
<1> DEFINE v == [w EXCEPT !.ip.valid = TRUE]
           r == Bound(w)
<1>1. IsW(v) /\ v.nic = w.nic
  BY DEF IsW, Good
<1>2. r \in {v, [v EXCEPT !.dhcp.sm = "RENEWING"], [v EXCEPT !.dhcp.sm = "INIT"]}
  BY DEF Bound
<1> HIDE DEF v, r
<1>3. IsW(r) /\ r.nic = w.nic
  BY <1>1, <1>2 DEF IsW, IsClient, DhcpStates
<1> QED
  BY <1>3, SameNic DEF r

LEMMA PrepareYields ==
  ASSUME NEW w, Good(w), NEW linked
  PROVE  Yields(Prepare(w, linked), w)
<1> DEFINE b == [w EXCEPT !.dhcp.sm = "BOUND", !.dhcp.renewal = LeaseTicks + 1,
                          !.dhcp.lease = LeaseTicks]
           m == IF w.dhcp.manual THEN b ELSE w
           r == Prepare(w, linked)
<1>1. r \in {m, [m EXCEPT !.dhcp.sm = "INIT"]}
  BY DEF Prepare
<1>2. IsW(b) /\ b.nic = w.nic
  BY DEF IsW, IsClient, Good, DhcpStates
<1> HIDE DEF b, r
<1>3. IsW(m) /\ m.nic = w.nic
  BY <1>2 DEF Good
<1> HIDE DEF m
<1>4. IsW(r) /\ r.nic = w.nic
  BY <1>1, <1>3 DEF IsW, IsClient, DhcpStates
<1> QED
  BY <1>4, SameNic DEF r

LEMMA DhcpYields ==
  ASSUME NEW w, Good(w), NEW linked, NEW tx
  PROVE  Yields(process_dhcp(w, linked, tx), w)
<1> DEFINE p == Prepare(w, linked)
           r == process_dhcp(w, linked, tx)
<1>1. Yields(p, w) /\ Good(p) /\ p.dhcp.sm \in DhcpStates
  BY PrepareYields DEF Yields, Good, IsW, IsClient
<1>2. r \in {Initialise(p), Discover(p, tx), Request(p, tx), Wait(p), Bound(p)}
  BY <1>1 DEF process_dhcp, DhcpStates
<1> HIDE DEF p, r
<1>3. Yields(r, p)
  BY <1>1, <1>2, InitialiseYields, AskYields, WaitYields, BoundYields
<1> QED
  BY <1>1, <1>3, YieldsOn DEF r

\* what the main loop does outside the packet loop
LEMMA OutsideLoss ==
  ASSUME LossInv, NEW w, Yields(w, Stack), nic' = w.nic, IsClient(dhcp'), pc # "loop",
         pc' # "loop", UNCHANGED <<sm_ethernet_stack, scenario>>
  PROVE  LossInv'
<1>1. DatagramHeld(nic) /\ Stack.nic = nic
  BY DEF LossInv, Stack
<1>2. HeldInv(nic) /\ HeldInv(nic') /\ DatagramHeld(nic')
  BY <1>1 DEF LossInv, Yields, DatagramHeld
<1>3. HeldInv(nic)'
  BY <1>2 DEF HeldInv, NicRecord
<1> QED
  BY <1>2, <1>3 DEF LossInv, DatagramHeld, Reading

LEMMA StackIsGood == ASSUME LossInv PROVE Good(Stack) /\ Yields(Stack, Stack) /\ Stack.nic = nic
<1>1. Good(Stack) /\ Stack.nic = nic
  BY DEF LossInv, Stack, Good, IsW
<1> QED
  BY <1>1, SameNic DEF Good

LEMMA AppLoss ==
  ASSUME LossInv, NEW k \in Apps, App(k)
  PROVE  LossInv'
<1>1. Good(Stack) /\ Yields(Stack, Stack)
  BY StackIsGood
<1>2. ASSUME NEW w, NEW sm, NEW socket, Yields(w, Stack), Becomes(k, w, sm, socket), Turn(k)
      PROVE  LossInv'
  <2>1. /\ nic' = w.nic /\ dhcp' = dhcp /\ pc = "app" /\ pc' = "app"
        /\ UNCHANGED <<sm_ethernet_stack, scenario>>
    BY <1>2 DEF Becomes, Turn
  <2>2. IsClient(dhcp')
    BY <2>1 DEF LossInv
  <2> QED
    BY <1>2, <2>1, <2>2, OutsideLoss
<1>3. CASE AppOffline(k)
  BY <1>1, <1>2, <1>3, CloseYields DEF AppOffline
<1>4. CASE AppOpens(k)
  BY <1>1, <1>2, <1>4, OpenYields DEF AppOpens
<1>5. CASE AppProcesses(k)
  <2>1. ASSUME NEW n PROVE Yields(udp_dump_rx_packet(udp_read_rx_array(Stack, n)), Stack)
    <3> DEFINE v == udp_read_rx_array(Stack, n)
    <3>1. IsW(v) /\ v.nic = [Stack.nic EXCEPT !.rxPointer = @ + n]
      BY <1>1 DEF udp_read_rx_array, IsW, Good
    <3> HIDE DEF v
    <3>2. HeldInv(v.nic) /\ v.nic.rxWorkingSlot = Stack.nic.rxWorkingSlot
          /\ Reading(v.nic) = Reading(Stack.nic)
      BY <1>1, <3>1 DEF Good, HeldInv, NicRecord, Reading
    <3>3. Yields(v, Stack) /\ Good(v)
      BY <3>1, <3>2 DEF Yields, Good
    <3> QED
      BY <3>3, DumpYields, YieldsOn DEF v
  <2> QED
    BY <1>1, <1>2, <1>5, <2>1 DEF AppProcesses
<1>6. CASE AppResponds(k)
  <2> DEFINE r == [Stack EXCEPT !.udp.socket[app[k].socket].remote_ip = BROADCAST]
  <2>1. IsW(r) /\ r.nic = Stack.nic
    BY <1>1 DEF Good, IsW
  <2>2. Yields(r, Stack)
    BY <1>1, <2>1, SameNic
  <2> QED
    BY <1>2, <1>6, <2>2 DEF AppResponds
<1>7. CASE AppCannotRespond(k)
  BY <1>1, <1>2, <1>7 DEF AppCannotRespond
<1> QED
  BY <1>3, <1>4, <1>5, <1>6, <1>7 DEF App

LEMMA LoopLoss ==
  ASSUME LossInv, ProcessLoop
  PROVE  LossInv'
<1>1. HeldInv(nic) /\ IsClient(dhcp) /\ scenario \in Scenarios
  BY DEF LossInv
<1>2. UNCHANGED <<dhcp, scenario>>
  BY DEF ProcessLoop, ProcessStack, NothingReceived, PacketReceived, ProcessArp, BadHeader,
     UnknownProtocol, KnownProtocol, ProcessIcmp, SendIcmpReply, ProcessUdp, Loop
<1>3. ASSUME HeldInv(nic'), pc' # "loop" => sm_ethernet_stack' \in {"IDLE", "UDP"},
             sm_ethernet_stack' \in {"IDLE", "ICMP_REPLY", "UDP"} => DatagramHeld(nic')
      PROVE  LossInv'
  <2>1. HeldInv(nic)' /\ (DatagramHeld(nic') => DatagramHeld(nic)')
    BY <1>2, <1>3 DEF HeldInv, NicRecord, DatagramHeld, Reading
  <2> QED
    BY <1>1, <1>2, <1>3, <2>1 DEF LossInv, IsClient
<1>4. nic_rx_dump_packet(nic).rxWorkingSlot = NoSlot /\ HeldInv(nic_rx_dump_packet(nic))
  BY <1>1, NicDumped
<1>5. CASE ProcessStack
  BY <1>1, <1>3, <1>5 DEF ProcessStack, LossInv
<1>6. CASE NothingReceived \/ PacketReceived
  <2> DEFINE n == nic_check_for_rx(nic)
  <2>1. HeldInv(n)
    BY <1>1, <1>6, NicChecked DEF NothingReceived, PacketReceived, Loop, LossInv
  <2>2. HeldInv(nic_rx_dump_packet(n)) /\ nic_rx_dump_packet(n).rxWorkingSlot = NoSlot
    BY <2>1, NicDumped
  <2> HIDE DEF n
  <2>3. CASE NothingReceived
    BY <1>3, <2>1, <2>3 DEF NothingReceived, Loop, DatagramHeld, n
  <2>4. CASE PacketReceived
    <3>1. /\ nic' = IF Reading(n).kind = "unknown" THEN nic_rx_dump_packet(n) ELSE n
          /\ Loop("IDLE", CASE Reading(n).kind = "arp"     -> "ARP"
                            [] Reading(n).kind = "unknown" -> "IDLE"
                            [] OTHER                       -> "IP", TRUE)
      BY <2>4 DEF PacketReceived, n
    <3>2. /\ pc' = "loop"
          /\ sm_ethernet_stack' = IF Reading(n).kind = "unknown" THEN "IDLE"
                                  ELSE IF Reading(n).kind = "arp" THEN "ARP" ELSE "IP"
      BY <3>1 DEF Loop
    <3> QED
      BY <1>3, <2>1, <2>2, <3>1, <3>2 DEF DatagramHeld
  <2> QED
    BY <1>6, <2>3, <2>4
<1>7. CASE ProcessArp \/ BadHeader \/ UnknownProtocol \/ ProcessIcmp
  BY <1>3, <1>4, <1>7 DEF ProcessArp, BadHeader, UnknownProtocol, ProcessIcmp, Loop, DatagramHeld
<1>8. CASE KnownProtocol \/ SendIcmpReply
  BY <1>1, <1>3, <1>8 DEF KnownProtocol, SendIcmpReply, Loop, DatagramHeld, LossInv
<1>9. CASE ProcessUdp
  <2>1. DatagramHeld(nic) /\ sm_ethernet_stack' \in {"IDLE", "UDP"} /\ nic' = udp_process_rx(Stack, ip).nic
    BY <1>9 DEF ProcessUdp, Loop, LossInv
  <2>2. Good(Stack) /\ Stack.nic = nic
    BY StackIsGood
  <2>3. \/ nic' = nic \/ nic' = nic_rx_dump_packet(nic)
        \/ \E p : nic' = [nic EXCEPT !.rxPointer = p]
    BY <2>1, <2>2 DEF udp_process_rx, Announce, Dump, Good, IsW
  <2>4. /\ HeldInv(nic')
        /\ \/ nic'.rxWorkingSlot = NoSlot
           \/ nic'.rxWorkingSlot = nic.rxWorkingSlot /\ Reading(nic') = Reading(nic)
    BY <1>1, <1>4, <2>3 DEF HeldInv, NicRecord, Reading
  <2> QED
    BY <1>3, <2>1, <2>4 DEF DatagramHeld
<1> QED
  BY <1>5, <1>6, <1>7, <1>8, <1>9 DEF ProcessLoop

LEMMA FrameLoss ==
  ASSUME LossInv, NEW f \in scenario.packets, FrameArrives(f)
  PROVE  LossInv'
<1> DEFINE free == {j \in Slots : nic.state[j] = "ready"}
<1>1. Lowest(free) \in free
  BY Indices, LowestIsIn DEF FrameArrives
<1> DEFINE i == Lowest(free)
<1>2. nic' = [nic EXCEPT !.state[i] = "data", !.packet[i] = f]
      /\ UNCHANGED <<dhcp, sm_ethernet_stack, pc, scenario>>
  BY DEF FrameArrives, Receive
<1>3. f \in Frame
  BY EthStackAssumption DEF LossInv
<1> HIDE DEF i
<1>4. i \in Slots /\ nic.state[i] = "ready"
  BY <1>1 DEF i
<1>5. HeldInv(nic)'
  BY <1>2, <1>3, <1>4, Indices DEF LossInv, HeldInv, NicRecord
<1>6. nic'.rxWorkingSlot = nic.rxWorkingSlot
      /\ (nic.rxWorkingSlot # NoSlot => Reading(nic)' = Reading(nic))
  BY <1>2, <1>4 DEF LossInv, HeldInv, NicRecord, Reading
<1> QED
  BY <1>2, <1>5, <1>6 DEF LossInv, DatagramHeld, IsClient

LEMMA LossStep == LossInv /\ [Next]_vars => LossInv'
<1> SUFFICES ASSUME LossInv, [Next]_vars PROVE LossInv'
  OBVIOUS
<1>1. ASSUME UNCHANGED <<nic, sm_ethernet_stack, scenario>>, IsClient(dhcp'),
             pc' # "loop" => pc # "loop"
      PROVE  LossInv'
  BY <1>1 DEF LossInv, HeldInv, NicRecord, DatagramHeld, Reading
<1>2. CASE UNCHANGED vars
  BY <1>1, <1>2 DEF vars, LossInv
<1>3. ASSUME NEW tx \in BOOLEAN, ProcessDhcp(tx) PROVE LossInv'
  <2> DEFINE w == process_dhcp(Stack, nic_is_linked, tx)
  <2>1. Yields(w, Stack)
    BY StackIsGood, DhcpYields
  <2>2. /\ nic' = w.nic /\ dhcp' = w.dhcp /\ pc = "dhcp" /\ pc' = "app"
        /\ UNCHANGED <<sm_ethernet_stack, scenario>>
    BY <1>3 DEF ProcessDhcp
  <2> HIDE DEF w
  <2>3. IsClient(dhcp')
    BY <2>1, <2>2 DEF Yields, IsW
  <2> QED
    BY <2>1, <2>2, <2>3, OutsideLoss
<1>4. CASE MainLoopAgain
  BY <1>1, <1>4 DEF MainLoopAgain, LossInv
<1>5. ASSUME NEW manual, Reconfigure(manual) PROVE LossInv'
  <2>1. IsClient(dhcp')
    BY <1>5 DEF Reconfigure, LossInv, IsClient
  <2> QED
    BY <1>1, <1>5, <2>1 DEF Reconfigure
<1>6. CASE tick_1ms \/ tick_1s
  <2>1. IsClient(dhcp')
    BY <1>6 DEF tick_1ms, tick_1s, LossInv, IsClient
  <2> QED
    BY <1>1, <1>6, <2>1 DEF tick_1ms, tick_1s
<1> QED
  BY <1>2, <1>3, <1>4, <1>5, <1>6, LoopLoss, AppLoss, FrameLoss DEF Next

LEMMA LossHolds == Spec => []LossInv
<1>1. Init => LossInv
  <2> SUFFICES ASSUME Init PROVE LossInv
    OBVIOUS
  <2>1. HeldInv(nic) /\ nic.rxWorkingSlot = NoSlot
    BY Indices, UdpAssumption DEF Init, nic_initialise, HeldInv, NicRecord, Slots
  <2>2. IsClient(dhcp)
    BY DEF Init, dhcp_initialise, IsClient, DhcpStates
  <2> QED
    BY <2>1, <2>2 DEF Init, LossInv, DatagramHeld
<1> QED
  BY <1>1, LossStep, PTL DEF Spec

(***************************************************************************)
(* Every slot is accounted for, with links that come and go, empty         *)
(* datagrams and datagrams for any port: a slot that has gone from the     *)
(* receiver holds the frame the stack works on or a UDP datagram, and      *)
(* where the link stays up and no datagram is for port 0xffff an empty one *)
(* (eth-udp.c:101, :255).  No other path through the dispatcher, the       *)
(* sockets and the DHCP client loses a slot, for any number of them.       *)
(***************************************************************************)
THEOREM SlotsStayAccounted == Spec => []SlotsAccounted
<1>1. LossInv /\ (Calm => IInv) => SlotsAccounted
  <2> SUFFICES ASSUME LossInv, Calm => IInv, NEW i \in Slots, nic.state[i] = "disabled",
                      nic.rxWorkingSlot # i
               PROVE  /\ nic.packet[i].kind = "udp"
                      /\ nic.packet[i].len = 0 \/ LinkMayFail \/ NullDatagrams
    BY DEF SlotsAccounted
  <2>1. nic.packet[i].kind = "udp"
    BY DEF LossInv, HeldInv
  <2>2. Calm => nic.packet[i].len = 0
    BY DEF IInv, SlotsInv, Empty
  <2> QED
    BY <2>1, <2>2, EthStackAssumption DEF Calm
<1> QED
  BY <1>1, LossHolds, Invariance, PTL

(***************************************************************************)
(* A datagram announced by udp_process_rx stays where it is, and the       *)
(* socket it is for stays open, until the application or the client has    *)
(* dumped it, while the link stays up; where checksums move the read       *)
(* pointer, IP options move it too far.                                    *)
(***************************************************************************)
THEOREM AnnouncedStays ==
  ASSUME LinkMayFail = FALSE,
         ChecksumsEnabled => \A sc \in Scenarios : \A f \in sc.packets : f.opts = 0
  PROVE  Spec => []AnnouncedIntact
<1>1. LossInv /\ (Calm => IInv) => AnnouncedIntact
  <2> DEFINE s == udp.socket[udp.active]
             f == Reading(nic)
  <2> SUFFICES ASSUME LossInv, IInv, udp.waiting, s.rx_data_bytes_remaining > 0
               PROVE  /\ nic.rxWorkingSlot = nic.rxSlot
                      /\ f.kind = "udp" /\ f.port = s.local_port
                      /\ f.len = s.rx_data_bytes_remaining
                      /\ nic.rxPointer = 0
    BY DEF AnnouncedIntact, Calm
  <2>1. s.rx_data_bytes_remaining # 0
    OBVIOUS
  <2>2. /\ nic.rxWorkingSlot # NoSlot
        /\ f.kind = "udp" /\ f.port = s.local_port /\ f.len = s.rx_data_bytes_remaining
        /\ nic.rxPointer = FirstByte(f)
    BY <2>1 DEF IInv, WaitingInv
  <2>3. /\ nic.rxWorkingSlot = nic.rxSlot /\ nic.rxSlot \in Slots
        /\ nic.state[nic.rxSlot] # "ready" /\ scenario \in Scenarios
        /\ \A i \in Slots : nic.state[i] # "ready" => nic.packet[i] \in scenario.packets
    BY <2>2 DEF LossInv, HeldInv, NicRecord
  <2>4. f \in scenario.packets /\ f \in Frame
    BY <2>3, EthStackAssumption DEF Reading
  <2>5. FirstByte(f) = 0
    BY <2>3, <2>4 DEF FirstByte, Frame
  <2> QED
    BY <2>2, <2>3, <2>5
<1> QED
  BY <1>1, LossHolds, Invariance, PTL

-----------------------------------------------------------------------------
(* Every socket has one owner *)

SocketVars == [Apps -> [sm : {"OPEN_SOCKET", "PROCESS_SOCKET", "TX_RESPONSE"},
                        socket : Sockets \cup {UDP_INVALID_SOCKET}]]

LEMMA AppPortIs == \A k \in Apps : AppPort[k] \in Ports /\ AppPort[k] # UDP_PORT_NULL
BY EthStackAssumption, UdpAssumption DEF Apps

\* the same sockets are open, and the client does not wait
LEMMA OwnedSame ==
  ASSUME NEW u, NEW v, NEW d, NEW e, NEW i, NEW j, NEW a, Owned(u, d, i, a),
         \A s \in Sockets : v.socket[s].local_port = u.socket[s].local_port,
         d.sm \notin Awaiting, e.sm \notin Awaiting,
         e.manual => e.sm \in {"INIT", "BOUND"},
         \/ e.socket = UDP_INVALID_SOCKET
         \/ e.manual /\ e.sm = "BOUND"
  PROVE  Owned(v, e, j, a)
BY DEF Owned, IsOpen

\* the client gives up its socket
LEMMA OwnedClosed ==
  ASSUME NEW u, NEW v, NEW d, NEW e, NEW i, NEW j, NEW a, Owned(u, d, i, a), d.sm \in Awaiting,
         \A s \in Sockets : v.socket[s].local_port =
             IF s = d.socket THEN UDP_PORT_NULL ELSE u.socket[s].local_port,
         e.sm \notin Awaiting, ~e.manual, e.socket = UDP_INVALID_SOCKET
  PROVE  Owned(v, e, j, a)
BY DEF Owned, IsOpen

\* the client opens a free socket
LEMMA OwnedOpened ==
  ASSUME NEW w, NEW r, NEW a, Owned(w.udp, w.dhcp, w.ip, a), w.dhcp.sm \notin Awaiting,
         NEW next \in Awaiting, Sent(r, w, next), ~r.dhcp.manual
  PROVE  Owned(r.udp, r.dhcp, r.ip, a)
BY AppPortIs DEF Owned, IsOpen, Sent

LEMMA DhcpOwns ==
  ASSUME NEW w, Sound(w), NEW linked \in BOOLEAN, NEW tx \in BOOLEAN, NEW a,
         Owned(w.udp, w.dhcp, w.ip, a), ~linked => \A s \in Sockets : ~IsOpen(w.udp, s)
  PROVE  LET r == process_dhcp(w, linked, tx) IN Owned(r.udp, r.dhcp, r.ip, a)
<1> DEFINE p == Prepare(w, linked)
           r == process_dhcp(w, linked, tx)
<1>1. /\ Sound(p) /\ Kept(p, w) /\ p.udp = w.udp /\ p.nic = w.nic /\ p.ip = w.ip
      /\ p.dhcp.socket = w.dhcp.socket /\ p.dhcp.manual = w.dhcp.manual
      /\ ~linked => p.dhcp.sm = "INIT"
      /\ linked /\ w.dhcp.manual => p.dhcp.sm = "BOUND" /\ p.dhcp.renewal # 0 /\ p.dhcp.lease # 0
      /\ linked /\ ~w.dhcp.manual => p = w
  BY PrepareIs DEF Kept
<1>2. p.dhcp.sm \in DhcpStates
  BY <1>1, DhcpTypes DEF Sound, DhcpType
<1>3. CASE ~linked
  <2>1. r = Initialise(p) /\ p.dhcp.sm = "INIT"
    BY <1>1, <1>3 DEF process_dhcp
  <2> HIDE DEF p, r
  <2>2. /\ Closed(r, p) /\ r.dhcp.manual = p.dhcp.manual
        /\ p.dhcp.manual => r.dhcp.sm = p.dhcp.sm
        /\ ~p.dhcp.manual => r.dhcp.sm = "DISCOVER"
    BY <1>1, <2>1, InitialiseIs DEF Kept
  <2>3. \A s \in Sockets : ~IsOpen(w.udp, s) /\ ~IsOpen(r.udp, s)
    BY <1>1, <1>3, <2>2 DEF Closed, IsOpen
  <2>4. \A k \in Apps : a[k].socket \notin Sockets
    BY <2>3, AppPortIs DEF Owned, IsOpen
  <2> QED
    BY <2>1, <2>2, <2>3, <2>4 DEF Owned, Closed, Awaiting, r
<1>4. CASE linked /\ w.dhcp.manual
  <2>1. r = Bound(p)
    BY <1>1, <1>4 DEF process_dhcp
  <2> HIDE DEF p, r
  <2>2. Kept(r, p) /\ SamePorts(r, p) /\ r.dhcp.socket = w.dhcp.socket /\ r.dhcp.sm = "BOUND"
    BY <1>1, <1>4, <2>1, BoundIs
  <2>3. w.dhcp.sm \notin Awaiting /\ r.dhcp.manual
    BY <1>1, <1>4, <2>2 DEF Owned, Awaiting, Kept
  <2>4. \A s \in Sockets : r.udp.socket[s].local_port = w.udp.socket[s].local_port
    BY <1>1, <2>2 DEF SamePorts
  <2>5. r.dhcp.sm \notin Awaiting
    BY <2>2 DEF Awaiting
  <2> QED
    BY <2>2, <2>3, <2>4, <2>5, OwnedSame DEF r
<1>5. CASE linked /\ ~w.dhcp.manual
  <2>1. p = w
    BY <1>1, <1>5
  <2>2. ASSUME w.dhcp.sm \notin Awaiting, r.dhcp.sm \notin Awaiting, SamePorts(r, w),
               ~r.dhcp.manual, r.dhcp.socket = UDP_INVALID_SOCKET
        PROVE  Owned(r.udp, r.dhcp, r.ip, a)
    <3> HIDE DEF r
    <3> QED
      BY <2>2, OwnedSame DEF SamePorts
  <2>3. w.dhcp.sm \notin Awaiting /\ w.dhcp.sm # "INIT" => w.dhcp.socket = UDP_INVALID_SOCKET
    BY <1>5 DEF Owned
  <2>4. CASE w.dhcp.sm = "INIT"
    <3>1. r = Initialise(w)
      BY <2>1, <2>4 DEF process_dhcp
    <3> HIDE DEF r
    <3>2. Closed(r, w) /\ ~r.dhcp.manual /\ r.dhcp.sm = "DISCOVER"
      BY <1>5, <3>1, InitialiseIs DEF Kept
    <3>3. w.dhcp.socket = UDP_INVALID_SOCKET \/ \A s \in Sockets : ~IsOpen(w.udp, s)
      BY <1>5, <2>4 DEF Owned, Awaiting
    <3>4. SamePorts(r, w)
      BY <3>2, <3>3, Indices DEF Closed, SamePorts, IsOpen
    <3> QED
      BY <2>2, <2>4, <3>2, <3>4 DEF Awaiting, Closed, r
  <2>5. CASE w.dhcp.sm = "DISCOVER"
    <3>1. r = Discover(w, tx)
      BY <2>1, <2>5 DEF process_dhcp
    <3> HIDE DEF r
    <3>2. Kept(r, w)
      BY <3>1, DiscoverIs
    <3>3. \/ r = w
          \/ SamePorts(r, w) /\ r.dhcp.socket = w.dhcp.socket /\ r.dhcp.sm = "INIT"
          \/ NotSent(r, w)
          \/ Sent(r, w, "WAIT_FOR_OFFER_RESPONSE")
      BY <3>1, DiscoverIs
    <3>4. ~r.dhcp.manual /\ w.dhcp.sm \notin Awaiting /\ w.dhcp.socket = UDP_INVALID_SOCKET
      BY <1>5, <2>3, <2>5, <3>2 DEF Kept, Awaiting
    <3>5. CASE Sent(r, w, "WAIT_FOR_OFFER_RESPONSE")
      BY <3>4, <3>5, OwnedOpened DEF Awaiting, r
    <3>6. CASE ~Sent(r, w, "WAIT_FOR_OFFER_RESPONSE")
      BY <2>2, <2>5, <3>3, <3>4, <3>6 DEF Awaiting, NotSent, SamePorts, r
    <3> QED
      BY <3>5, <3>6
  <2>6. CASE w.dhcp.sm \in {"REQUEST", "RENEWING"}
    <3>1. r = Request(w, tx)
      BY <2>1, <2>6 DEF process_dhcp
    <3> HIDE DEF r
    <3>2. Kept(r, w) /\ (r = w \/ NotSent(r, w) \/ Sent(r, w, "WAIT_FOR_REQUEST_RESPONSE"))
      BY <3>1, RequestIs
    <3>3. ~r.dhcp.manual /\ w.dhcp.sm \notin Awaiting /\ w.dhcp.socket = UDP_INVALID_SOCKET
      BY <1>5, <2>3, <2>6, <3>2 DEF Kept, Awaiting
    <3>4. CASE Sent(r, w, "WAIT_FOR_REQUEST_RESPONSE")
      BY <3>3, <3>4, OwnedOpened DEF Awaiting, r
    <3>5. CASE ~Sent(r, w, "WAIT_FOR_REQUEST_RESPONSE")
      BY <2>2, <2>6, <3>2, <3>3, <3>5 DEF Awaiting, NotSent, SamePorts, r
    <3> QED
      BY <3>4, <3>5
  <2>7. CASE w.dhcp.sm \in Awaiting
    <3>1. r = Wait(w)
      BY <2>1, <2>7 DEF process_dhcp, Awaiting
    <3> HIDE DEF r
    <3>2. Kept(r, w) /\ (r = w \/ (Closed(r, w) /\ r.dhcp.sm \in {"DISCOVER", "INIT", "REQUEST", "BOUND"}))
      BY <3>1, WaitIs
    <3>3. CASE r = w
      BY <3>3 DEF r
    <3>4. CASE r # w
      <4>1. Closed(r, w) /\ r.dhcp.sm \notin Awaiting /\ ~r.dhcp.manual
        BY <1>5, <3>2, <3>4 DEF Kept, Awaiting
      <4> QED
        BY <2>7, <4>1, OwnedClosed DEF Closed, r
    <3> QED
      BY <3>3, <3>4
  <2>8. CASE w.dhcp.sm = "BOUND"
    <3>1. r = Bound(w)
      BY <2>1, <2>8 DEF process_dhcp
    <3> HIDE DEF r
    <3>2. /\ Kept(r, w) /\ SamePorts(r, w) /\ r.dhcp.socket = w.dhcp.socket
          /\ r.dhcp.sm \in {"BOUND", "RENEWING", "INIT"}
      BY <2>8, <3>1, BoundIs
    <3>3. w.dhcp.socket = UDP_INVALID_SOCKET /\ ~r.dhcp.manual
      BY <1>5, <2>3, <2>8, <3>2 DEF Kept, Awaiting
    <3> QED
      BY <2>2, <2>8, <3>2, <3>3 DEF Awaiting, r
  <2> QED
    BY <1>2, <2>1, <2>4, <2>5, <2>6, <2>7, <2>8 DEF DhcpStates, Awaiting
<1> QED
  BY <1>3, <1>4, <1>5

\* an application opens a free socket
LEMMA OwnedByApp ==
  ASSUME NEW w, NEW a \in SocketVars, Owned(w.udp, w.dhcp, w.ip, a), w.ip.valid,
         NEW k \in Apps, a[k].socket = UDP_INVALID_SOCKET,
         NEW s \in Sockets, ~IsOpen(w.udp, s), NEW x, NEW b,
         x.udp.socket[s].local_port = AppPort[k], x.dhcp = w.dhcp, x.ip = w.ip,
         \A t \in Sockets \ {s} : x.udp.socket[t].local_port = w.udp.socket[t].local_port,
         \A j \in Apps : b[j].socket = IF j = k THEN s ELSE a[j].socket
  PROVE  Owned(x.udp, x.dhcp, x.ip, b)
<1>1. \A j \in Apps : a[j].socket # s
  BY AppPortIs DEF Owned, IsOpen
<1>2. IsOpen(x.udp, s)
  BY AppPortIs DEF IsOpen
<1>3. \A t \in Sockets \ {s} : IsOpen(x.udp, t) <=> IsOpen(w.udp, t)
  BY DEF IsOpen
<1>4. ~(w.dhcp.sm \in Awaiting /\ w.dhcp.socket = s)
  BY Indices DEF Owned, Awaiting
<1>5. \A j \in Apps : b[j].socket \in Sockets =>
        /\ x.udp.socket[b[j].socket].local_port = AppPort[j]
        /\ \A l \in Apps : b[l].socket = b[j].socket => l = j
        /\ ~(w.dhcp.sm \in Awaiting /\ w.dhcp.socket = b[j].socket)
  BY <1>1, <1>4 DEF Owned
<1>6. ASSUME NEW t \in Sockets, IsOpen(x.udp, t)
      PROVE  \/ \E j \in Apps : b[j].socket = t
             \/ w.dhcp.sm \in Awaiting /\ w.dhcp.socket = t
  <2>1. CASE t = s
    BY <2>1
  <2>2. CASE t # s
    <3>1. IsOpen(w.udp, t)
      BY <1>3, <1>6, <2>2
    <3>2. \A j \in Apps : a[j].socket = t => b[j].socket = t
      BY Indices
    <3> QED
      BY <3>1, <3>2 DEF Owned
  <2> QED
    BY <2>1, <2>2
<1>7. \/ w.dhcp.socket = UDP_INVALID_SOCKET
      \/ w.dhcp.sm \in Awaiting /\ w.dhcp.socket \in Sockets /\ IsOpen(x.udp, w.dhcp.socket)
      \/ w.dhcp.manual /\ w.dhcp.sm = "BOUND"
  BY <1>2, <1>3 DEF Owned
<1> QED
  BY <1>5, <1>6, <1>7 DEF Owned

\* an application closes its socket, if it has one
LEMMA OwnedLessApp ==
  ASSUME NEW w, NEW a \in SocketVars, Owned(w.udp, w.dhcp, w.ip, a),
         NEW k \in Apps, NEW x, NEW b, x.dhcp = w.dhcp, x.ip = w.ip,
         a[k].socket \in Sockets => ~IsOpen(x.udp, a[k].socket),
         \A t \in Sockets \ {a[k].socket} : x.udp.socket[t].local_port = w.udp.socket[t].local_port,
         \A j \in Apps : b[j].socket = IF j = k THEN UDP_INVALID_SOCKET ELSE a[j].socket
  PROVE  Owned(x.udp, x.dhcp, x.ip, b)
<1>1. \A t \in Sockets : t # a[k].socket => (IsOpen(x.udp, t) <=> IsOpen(w.udp, t))
  BY DEF IsOpen
<1>2. \A t \in Sockets : IsOpen(x.udp, t) => t # a[k].socket /\ IsOpen(w.udp, t)
  BY <1>1
<1>3. w.dhcp.sm \in Awaiting /\ w.dhcp.socket \in Sockets => w.dhcp.socket # a[k].socket
  BY DEF Owned
<1>4. b[k].socket \notin Sockets
  BY Indices
<1> QED
  BY <1>1, <1>2, <1>3, <1>4 DEF Owned

LEMMA OwnedKept ==
  ASSUME NEW u, NEW d, NEW i, NEW a, Owned(u, d, i, a), NEW v, NEW e, NEW b,
         \A s \in Sockets : v.socket[s].local_port = u.socket[s].local_port,
         e.sm = d.sm, e.socket = d.socket, e.manual = d.manual,
         \A k \in Apps : b[k].socket = a[k].socket
  PROVE  Owned(v, e, i, b)
BY DEF Owned, IsOpen

LEMMA AppOwns ==
  ASSUME IInv, Owned(udp, dhcp, ip, app), NEW k \in Apps, App(k)
  PROVE  Owned(udp, dhcp, ip, app)'
<1> DEFINE s == app[k].socket
<1>1. /\ Sound(Stack) /\ Stack.nic = nic /\ Stack.udp = udp /\ Stack.dhcp = dhcp /\ Stack.ip = ip
      /\ s \in Sockets \cup {UDP_INVALID_SOCKET} /\ (app[k].sm = "OPEN_SOCKET" <=> s = UDP_INVALID_SOCKET)
      /\ app \in SocketVars
  BY StackIs DEF Stack, IInv, TypeOK, AppsInv, SocketVars
<1>2. ASSUME NEW w, NEW sm, NEW socket, Becomes(k, w, sm, socket)
      PROVE  /\ udp' = w.udp /\ UNCHANGED <<dhcp, ip>>
             /\ \A j \in Apps : app'[j].socket = IF j = k THEN socket ELSE app[j].socket
  BY <1>1, <1>2 DEF Becomes, SocketVars
<1>3. ASSUME NEW w, NEW sm, Becomes(k, w, sm, s),
             \A t \in Sockets : w.udp.socket[t].local_port = udp.socket[t].local_port
      PROVE  Owned(udp, dhcp, ip, app)'
  <2>1. /\ udp' = w.udp /\ dhcp' = dhcp /\ ip' = ip
        /\ \A j \in Apps : app'[j].socket = app[j].socket
    BY <1>2, <1>3
  <2> QED
    BY <1>3, <2>1, OwnedKept
<1>4. CASE AppOffline(k)
  <2> DEFINE c == udp_close_socket(Stack, s)
  <2>1. /\ SameBut(c, Stack, s) /\ c.dhcp = Stack.dhcp /\ c.ip = Stack.ip
        /\ s \in Sockets => ~IsOpen(c.udp, s)
    BY <1>1, CloseIsSound
  <2>2. Becomes(k, c, "OPEN_SOCKET", UDP_INVALID_SOCKET)
    BY <1>4 DEF AppOffline
  <2> HIDE DEF c
  <2>3. /\ udp' = c.udp /\ dhcp' = c.dhcp /\ ip' = c.ip
        /\ \A j \in Apps : app'[j].socket = IF j = k THEN UDP_INVALID_SOCKET ELSE app[j].socket
    BY <1>1, <1>2, <2>1, <2>2
  <2>4. \A t \in Sockets \ {s} : c.udp.socket[t].local_port = Stack.udp.socket[t].local_port
    BY <2>1 DEF SameBut
  <2>5. Owned(c.udp, c.dhcp, c.ip, app')
    BY <1>1, <2>1, <2>3, <2>4, OwnedLessApp
  <2> QED
    BY <2>3, <2>5
<1>5. CASE AppOpens(k)
  <2> DEFINE o == udp_open_socket(Stack, BROADCAST, AppPort[k])
             f == FreeSocket(Stack)
  <2>1. /\ SameBut(o, Stack, f) /\ o.dhcp = Stack.dhcp /\ o.ip = Stack.ip
        /\ f \in Sockets => o.udp.socket[f].local_port = AppPort[k]
    BY <1>1, AppPortIs, OpenIsSound
  <2>2. f = UDP_INVALID_SOCKET \/ (f \in Sockets /\ ~IsOpen(Stack.udp, f))
    BY FreeSocketIs
  <2>3. Online /\ s = UDP_INVALID_SOCKET
        /\ Becomes(k, o, IF f = UDP_INVALID_SOCKET THEN "OPEN_SOCKET" ELSE "PROCESS_SOCKET", f)
    BY <1>1, <1>5 DEF AppOpens
  <2> HIDE DEF o, f
  <2>4. \A t \in Sockets \ {f} : o.udp.socket[t].local_port = Stack.udp.socket[t].local_port
    BY <2>1 DEF SameBut
  <2>5. CASE f = UDP_INVALID_SOCKET
    <3>1. \A t \in Sockets : o.udp.socket[t].local_port = udp.socket[t].local_port
      BY <1>1, <2>4, <2>5, Indices
    <3> QED
      BY <1>3, <2>3, <2>5, <3>1
  <2>6. CASE f \in Sockets
    <3>1. /\ udp' = o.udp /\ dhcp' = o.dhcp /\ ip' = o.ip
          /\ \A j \in Apps : app'[j].socket = IF j = k THEN f ELSE app[j].socket
      BY <1>1, <1>2, <2>1, <2>3
    <3>2. ~IsOpen(Stack.udp, f) /\ o.udp.socket[f].local_port = AppPort[k]
      BY <2>1, <2>2, <2>6, Indices
    <3>3. Owned(o.udp, o.dhcp, o.ip, app')
      BY <1>1, <2>1, <2>3, <2>4, <2>6, <3>1, <3>2, OwnedByApp DEF Online
    <3> QED
      BY <3>1, <3>3
  <2> QED
    BY <2>2, <2>5, <2>6
<1>6. CASE AppProcesses(k)
  <2>1. CASE udp_check_socket_for_rx(Stack, s)
    <3>1. PICK n \in 0..udp.socket[udp.active].rx_data_bytes_remaining :
            Becomes(k, udp_dump_rx_packet(udp_read_rx_array(Stack, n)), "TX_RESPONSE", s)
      BY <1>6, <2>1 DEF AppProcesses
    <3> DEFINE d == udp_dump_rx_packet(udp_read_rx_array(Stack, n))
    <3>2. Stack.udp.waiting /\ n \in 0..Stack.udp.socket[Stack.udp.active].rx_data_bytes_remaining
      BY <1>1, <2>1 DEF udp_check_socket_for_rx
    <3>3. SameBut(d, Stack, UDP_INVALID_SOCKET)
      BY <1>1, <3>2, ReadAndDumpIsSound
    <3>4. Becomes(k, d, "TX_RESPONSE", s)
      BY <3>1
    <3> HIDE DEF d
    <3>5. \A t \in Sockets : d.udp.socket[t].local_port = udp.socket[t].local_port
      BY <1>1, <3>3, Indices DEF SameBut
    <3> QED
      BY <1>3, <3>4, <3>5
  <2>2. CASE ~udp_check_socket_for_rx(Stack, s)
    <3>1. Becomes(k, Stack, "PROCESS_SOCKET", s)
      BY <1>6, <2>2 DEF AppProcesses
    <3> QED
      BY <1>1, <1>3, <3>1
  <2> QED
    BY <2>1, <2>2
<1>7. CASE AppResponds(k)
  <2> DEFINE r == [Stack EXCEPT !.udp.socket[s].remote_ip = BROADCAST]
  <2>1. s \in Sockets /\ Becomes(k, r, "PROCESS_SOCKET", s)
    BY <1>1, <1>7 DEF AppResponds
  <2>2. SameBut(r, Stack, s) /\ r.udp.socket[s].local_port = Stack.udp.socket[s].local_port
    BY <1>1, <2>1, UnbindIsSound
  <2> HIDE DEF r
  <2>3. \A t \in Sockets : r.udp.socket[t].local_port = udp.socket[t].local_port
    BY <1>1, <2>2 DEF SameBut
  <2> QED
    BY <1>3, <2>1, <2>3
<1>8. CASE AppCannotRespond(k)
  <2>1. Becomes(k, Stack, "TX_RESPONSE", s)
    BY <1>8 DEF AppCannotRespond
  <2> QED
    BY <1>1, <1>3, <2>1
<1> QED
  BY <1>4, <1>5, <1>6, <1>7, <1>8 DEF App

\* the packet loop neither opens nor closes a socket
LEMMA LoopKeepsPorts ==
  ASSUME IInv, ProcessLoop
  PROVE  /\ \A s \in Sockets : udp'.socket[s].local_port = udp.socket[s].local_port
         /\ UNCHANGED <<dhcp, ip, app, scenario, turn>>
<1>1. UNCHANGED <<dhcp, ip, app, scenario, turn>>
  BY DEF ProcessLoop, ProcessStack, NothingReceived, PacketReceived, ProcessArp, BadHeader,
         UnknownProtocol, KnownProtocol, ProcessIcmp, SendIcmpReply, ProcessUdp, Loop
<1> SUFFICES \A s \in Sockets : udp'.socket[s].local_port = udp.socket[s].local_port
  BY <1>1
<1>2. CASE ~ProcessUdp
  <2>1. udp' = udp
    BY <1>2 DEF ProcessLoop, ProcessStack, NothingReceived, PacketReceived, ProcessArp, BadHeader,
         UnknownProtocol, KnownProtocol, ProcessIcmp, SendIcmpReply
  <2> QED
    BY <2>1
<1>3. CASE ProcessUdp
  <2> DEFINE x == udp_process_rx(Stack, ip)
  <2>1. udp' = x.udp /\ sm_ethernet_stack = "UDP" /\ Sound(Stack) /\ Stack.nic = nic /\ Stack.udp = udp
    BY <1>3, StackIs DEF ProcessUdp, Loop, Stack
  <2>2. CASE udp.waiting
    <3>1. udp' = udp \/ udp' = [udp EXCEPT !.active = UDP_INVALID_SOCKET, !.waiting = FALSE]
      BY <2>1, <2>2 DEF udp_process_rx, Stack
    <3> QED
      BY <3>1, <2>1 DEF Sound, WaitingInv, UdpType
  <2>3. CASE ~udp.waiting /\ UdpDone(Stack, ip)
    BY <2>1, <2>3 DEF udp_process_rx, Dump
  <2>4. CASE ~udp.waiting /\ ~UdpDone(Stack, ip)
    <3>1. nic.rxWorkingSlot # NoSlot /\ Reading(nic).kind = "udp"
      BY <2>1, <2>4 DEF IInv, DispatchInv
    <3> HIDE DEF x
    <3>2. \A s \in Sockets : x.udp.socket[s].local_port = Stack.udp.socket[s].local_port
      BY <2>1, <2>4, <3>1, AnnounceIsSound DEF x
    <3> QED
      BY <2>1, <3>2
  <2> QED
    BY <2>2, <2>3, <2>4
<1> QED
  BY <1>2, <1>3

LEMMA NextOwnerInv ==
  ASSUME IInv, OwnerInv, [Next]_vars
  PROVE  OwnerInv'
<1>1. scenario' = scenario
  BY LoopKeepsPorts DEF Next, ProcessDhcp, App, AppOffline, AppOpens, AppProcesses, AppResponds,
     AppCannotRespond, Becomes, MainLoopAgain, Reconfigure, tick_1ms, tick_1s, FrameArrives, vars
<1> SUFFICES ASSUME scenario.switches = {} PROVE Owned(udp, dhcp, ip, app)'
  BY <1>1 DEF OwnerInv
<1>2. Owned(udp, dhcp, ip, app)
  BY DEF OwnerInv
<1>3. ASSUME \A s \in Sockets : udp'.socket[s].local_port = udp.socket[s].local_port,
             dhcp'.sm = dhcp.sm, dhcp'.socket = dhcp.socket, dhcp'.manual = dhcp.manual,
             ip' = ip, app' = app
      PROVE  Owned(udp, dhcp, ip, app)'
  BY <1>2, <1>3, OwnedKept
<1>4. CASE UNCHANGED vars
  BY <1>3, <1>4 DEF vars
<1>5. CASE ProcessLoop
  BY <1>3, <1>5, LoopKeepsPorts
<1>6. ASSUME NEW tx \in BOOLEAN, ProcessDhcp(tx)
      PROVE  Owned(udp, dhcp, ip, app)'
  <2> DEFINE r == process_dhcp(Stack, nic_is_linked, tx)
  <2>1. Sound(Stack) /\ Stack.udp = udp /\ Stack.dhcp = dhcp /\ Stack.ip = ip
    BY StackIs DEF Stack
  <2>2. nic_is_linked \in BOOLEAN /\ (~nic_is_linked => \A s \in Sockets : ~IsOpen(udp, s))
    BY DEF IInv, TypeOK, DispatchInv
  <2>3. Owned(r.udp, r.dhcp, r.ip, app)
    BY <1>2, <2>1, <2>2, DhcpOwns
  <2>4. udp' = r.udp /\ dhcp' = r.dhcp /\ ip' = r.ip /\ app' = app
    BY <1>6 DEF ProcessDhcp
  <2> HIDE DEF r
  <2> QED
    BY <2>3, <2>4
<1>7. ASSUME NEW k \in Apps, App(k)
      PROVE  Owned(udp, dhcp, ip, app)'
  BY <1>2, <1>7, AppOwns
<1>8. CASE MainLoopAgain \/ \E f \in scenario.packets : FrameArrives(f)
  BY <1>3, <1>8 DEF MainLoopAgain, FrameArrives
<1>9. CASE tick_1ms \/ tick_1s
  <2>1. dhcp'.sm = dhcp.sm /\ dhcp'.socket = dhcp.socket /\ dhcp'.manual = dhcp.manual
    BY <1>9 DEF tick_1ms, tick_1s, IInv, TypeOK, DhcpType
  <2> QED
    BY <1>3, <1>9, <2>1 DEF tick_1ms, tick_1s
<1> QED
  BY <1>4, <1>5, <1>6, <1>7, <1>8, <1>9 DEF Next

(***************************************************************************)
(* Where the settings do not change, every open socket has one owner, the  *)
(* client that waits for an answer or one application, whose socket        *)
(* variable names it: the table neither leaks nor hands out an entry       *)
(* twice, for any number of sockets and applications.                      *)
(***************************************************************************)
THEOREM SocketsHaveOwners ==
  ASSUME LinkMayFail = FALSE, NoNullDatagrams PROVE Spec => []SocketsOwned
<1>1. Init => OwnerInv
  <2> SUFFICES ASSUME Init, scenario.switches = {} PROVE Owned(udp, dhcp, ip, app)
    BY DEF OwnerInv
  <2>1. \A s \in Sockets : ~IsOpen(udp, s)
    BY DEF Init, udp_initialise, IsOpen
  <2>2. \A k \in Apps : app[k].socket = UDP_INVALID_SOCKET
    BY DEF Init
  <2>3. dhcp.sm = "INIT" /\ ~ip.valid
    BY DEF Init, dhcp_initialise, ip_initialise
  <2> QED
    BY <2>1, <2>2, <2>3, Indices DEF Owned, Awaiting
<1>2. IInv /\ OwnerInv /\ [Next]_vars => OwnerInv'
  BY NextOwnerInv
<1>4. LossInv => Calm
  BY DEF LossInv, Calm, NullDatagrams, NoNullDatagrams
<1>3. IInv /\ OwnerInv => SocketsOwned
  <2> SUFFICES ASSUME IInv, OwnerInv, scenario.switches = {}, NEW s \in Sockets
               PROVE  /\ IsOpen(udp, s) => \E o \in 0..NumApps : Owners(s) = {o}
                      /\ \A k \in Apps : app[k].socket = s => udp.socket[s].local_port = AppPort[k]
    BY DEF SocketsOwned, IsOpen
  <2>1. Owned(udp, dhcp, ip, app) /\ NumApps \in Nat
    BY EthStackAssumption DEF OwnerInv
  <2>2. \A k \in Apps : app[k].socket = s => udp.socket[s].local_port = AppPort[k]
    BY <2>1 DEF Owned
  <2>3. ASSUME IsOpen(udp, s) PROVE \E o \in 0..NumApps : Owners(s) = {o}
    <3> DEFINE waits == dhcp.socket = s /\ dhcp.sm \in {"WAIT_FOR_OFFER_RESPONSE",
                                             "WAIT_FOR_REQUEST_RESPONSE", "INIT"}
    <3>1. waits => dhcp.sm \in Awaiting /\ dhcp.socket = s
      BY <2>1, <2>3, Indices DEF Owned, Awaiting
    <3>2. CASE \E k \in Apps : app[k].socket = s
      <4>1. PICK k \in Apps : app[k].socket = s
        BY <3>2
      <4>2. {j \in Apps : app[j].socket = s} = {k} /\ ~waits
        BY <2>1, <3>1, <4>1 DEF Owned
      <4>3. Owners(s) = {k}
        BY <4>2 DEF Owners
      <4> QED
        BY <2>1, <4>1, <4>3 DEF Apps
    <3>3. CASE \A k \in Apps : app[k].socket # s
      <4>1. waits /\ {j \in Apps : app[j].socket = s} = {}
        BY <2>1, <2>3, <3>3 DEF Owned, Awaiting
      <4>2. Owners(s) = {0}
        BY <4>1 DEF Owners
      <4> QED
        BY <2>1, <4>2
    <3> QED
      BY <3>2, <3>3
  <2> QED
    BY <2>2, <2>3
<1> QED
  BY <1>1, <1>2, <1>3, <1>4, LossHolds, Invariance, PTL DEF Spec
=============================================================================
