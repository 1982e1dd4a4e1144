------------------------------ MODULE EthStack ------------------------------
(***************************************************************************)
(* The application's main loop around the TCP/IP stack                     *)
(* (application/ibexukIP/eth-main.c), in the configuration with ICMP, UDP  *)
(* and DHCP and without TCP:                                               *)
(*                                                                         *)
(*   forever: tcp_ip_process_stack()   the packet loop, then DHCP          *)
(*            the applications that use a UDP socket, one after the other  *)
(*                                                                         *)
(* Around it run the receiver, which fills free slots at any moment, and   *)
(* the interrupt handlers of application/ibexukIP/timers.c, which count    *)
(* the timers down and sample the link.  An application is the example     *)
(* server of eth-udp.h.                                                    *)
(***************************************************************************)
EXTENDS Dhcp, FiniteSets

CONSTANTS
  NumApps,          \* applications in the main loop, application k uses ...
  AppPort,          \* ... the port AppPort[k]
  LinkMayFail,      \* can the link go down again?
  Scenarios         \* what surrounds the stack: one of these in each behaviour

ASSUME EthStackAssumption ==
  /\ NumApps \in Nat
  /\ AppPort \in [1..NumApps -> Ports]
  /\ LinkMayFail \in BOOLEAN
  /\ Scenarios \subseteq
       [packets : SUBSET Frame,         \* the frames the network delivers
        burst : Nat,                    \* bound: frames that wait at a time
        manual : BOOLEAN,               \* the settings at startup: manual, or DHCP
        switches : SUBSET BOOLEAN]      \* those the application may change to

Apps == 1..NumApps

VARIABLES
  nic, udp,            \* see Udp.tla
  dhcp, ip,            \* see Dhcp.tla
  sm_ethernet_stack,
  nic_is_linked,       \* written by the once-a-second interrupt
  app,                 \* each application's state and socket variable
  pc, turn,            \* where the main loop is; the application to run next
  scenario             \* chosen at the start

vars == <<nic, udp, dhcp, ip, sm_ethernet_stack, nic_is_linked, app, pc, turn, scenario>>

StackStates == {"IDLE", "ARP", "IP", "ICMP", "ICMP_REPLY", "UDP"}

TypeOK ==
  /\ nic \in NicType /\ udp \in UdpType
  /\ dhcp \in DhcpType /\ ip \in IpType
  /\ sm_ethernet_stack \in StackStates
  /\ nic_is_linked \in BOOLEAN
  /\ app \in [Apps -> [sm : {"OPEN_SOCKET", "PROCESS_SOCKET", "TX_RESPONSE"},
                       socket : Sockets \cup {UDP_INVALID_SOCKET}]]
  /\ pc \in {"stack", "loop", "dhcp", "app"}
  /\ turn \in 1..(NumApps + 1)
  /\ scenario \in Scenarios

\* tcp_ip_initialise
Init ==
  /\ nic = nic_initialise /\ udp = udp_initialise
  /\ scenario \in Scenarios
  /\ dhcp = dhcp_initialise(scenario.manual) /\ ip = ip_initialise(scenario.manual)
  /\ sm_ethernet_stack = "IDLE"
  /\ nic_is_linked = FALSE
  /\ app = [k \in Apps |-> [sm |-> "OPEN_SOCKET", socket |-> UDP_INVALID_SOCKET]]
  /\ pc = "stack" /\ turn = 1

-----------------------------------------------------------------------------
(* tcp_ip_process_stack *)

\* mutant: the state machine is reset with or without a link
ProcessStack_AlwaysIdle ==
  /\ pc = "stack" /\ pc' = "loop"
  /\ sm_ethernet_stack' = "IDLE"
  /\ UNCHANGED <<nic, udp, dhcp, ip, nic_is_linked, app, turn, scenario>>

\* without a link the state machine is reset
ProcessStack ==
  /\ pc = "stack" /\ pc' = "loop"
  /\ sm_ethernet_stack' = IF nic_is_linked THEN sm_ethernet_stack ELSE "IDLE"
  /\ UNCHANGED <<nic, udp, dhcp, ip, nic_is_linked, app, turn, scenario>>

\* one turn of the loop in state sm; "again" is process_stack_again
Loop(sm, next, again) ==
  /\ pc = "loop" /\ sm_ethernet_stack = sm
  /\ sm_ethernet_stack' = next
  /\ pc' = IF again THEN "loop" ELSE "dhcp"
  /\ UNCHANGED <<dhcp, ip, nic_is_linked, app, turn, scenario>>

NothingReceived ==
  /\ nic_check_for_rx(nic).rxWorkingSlot = NoSlot
  /\ nic' = nic_check_for_rx(nic)
  /\ Loop("IDLE", "IDLE", FALSE)
  /\ UNCHANGED udp

\* the Ethernet header decides; a frame of unknown type is dumped at once
PacketReceived ==
  LET n == nic_check_for_rx(nic)
  IN /\ n.rxWorkingSlot # NoSlot
     /\ nic' = IF Reading(n).kind = "unknown" THEN nic_rx_dump_packet(n) ELSE n
     /\ Loop("IDLE", CASE Reading(n).kind = "arp"     -> "ARP"
                       [] Reading(n).kind = "unknown" -> "IDLE"
                       [] OTHER                       -> "IP", TRUE)
     /\ UNCHANGED udp

\* arp_process_rx always finds nic_setup_tx ready: it is done in one call
ProcessArp ==
  /\ Loop("ARP", "IDLE", FALSE)
  /\ nic' = nic_rx_dump_packet(nic)
  /\ UNCHANGED udp

\* ip_get_header: the destination is ours, a broadcast, or anything while the
\* DHCP client waits for its first address
ForUs(f) ==
  \/ dhcp.sm \in {"WAIT_FOR_OFFER_RESPONSE", "WAIT_FOR_REQUEST_RESPONSE"} /\ ip.addr = "none"
  \/ f.dst = ip.addr
  \/ f.dst = "broadcast"

HeaderOk(f) == f.kind # "badip" /\ ForUs(f)

\* mutant: a bad header is not dumped
BadHeader_NoDump ==
  /\ sm_ethernet_stack = "IP" /\ ~HeaderOk(Reading(nic))
  /\ Loop("IP", "IDLE", FALSE)
  /\ UNCHANGED <<nic, udp>>

BadHeader ==
  /\ sm_ethernet_stack = "IP" /\ ~HeaderOk(Reading(nic))
  /\ nic' = nic_rx_dump_packet(nic)
  /\ Loop("IP", "IDLE", FALSE)
  /\ UNCHANGED udp

UnknownProtocol ==
  /\ sm_ethernet_stack = "IP" /\ HeaderOk(Reading(nic)) /\ Reading(nic).kind = "otherip"
  /\ nic' = nic_rx_dump_packet(nic)
  /\ Loop("IP", "IDLE", FALSE)
  /\ UNCHANGED udp

KnownProtocol ==
  /\ sm_ethernet_stack = "IP" /\ HeaderOk(Reading(nic))
  /\ \/ Reading(nic).kind = "icmp" /\ Loop("IP", "ICMP", TRUE)
     \/ Reading(nic).kind = "udp"  /\ Loop("IP", "UDP", TRUE)
  /\ UNCHANGED <<nic, udp>>

\* icmp_process_received_echo_request, for requests sent to our address only
ProcessIcmp ==
  LET valid == Reading(nic).dst = ip.addr /\ Reading(nic).ok
  IN /\ Loop("ICMP", IF valid THEN "ICMP_REPLY" ELSE "IDLE", valid)
     /\ nic' = nic_rx_dump_packet(nic)
     /\ UNCHANGED udp

SendIcmpReply == Loop("ICMP_REPLY", "IDLE", FALSE) /\ UNCHANGED <<nic, udp>>

Stack == [nic |-> nic, udp |-> udp, dhcp |-> dhcp, ip |-> ip]

ProcessUdp ==
  LET w == udp_process_rx(Stack, ip)
  IN /\ Loop("UDP", IF UdpDone(Stack, ip) THEN "IDLE"
                    ELSE "UDP", FALSE)
     /\ nic' = w.nic /\ udp' = w.udp

ProcessDhcp(tx) ==
  LET w == process_dhcp(Stack, nic_is_linked, tx)
  IN /\ pc = "dhcp" /\ pc' = "app" /\ turn' = 1
     /\ nic' = w.nic /\ udp' = w.udp /\ dhcp' = w.dhcp /\ ip' = w.ip
     /\ UNCHANGED <<sm_ethernet_stack, nic_is_linked, app, scenario>>

ProcessLoop ==
  \/ ProcessStack \/ NothingReceived \/ PacketReceived \/ ProcessArp
  \/ BadHeader \/ UnknownProtocol \/ KnownProtocol
  \/ ProcessIcmp \/ SendIcmpReply \/ ProcessUdp

-----------------------------------------------------------------------------
(* The applications: each turn is one call of the example server *)

Turn(k) == pc = "app" /\ turn = k
Becomes(k, w, sm, socket) ==
  /\ nic' = w.nic /\ udp' = w.udp
  /\ app' = [app EXCEPT ![k] = [sm |-> sm, socket |-> socket]]
  /\ turn' = k + 1
  /\ UNCHANGED <<dhcp, ip, sm_ethernet_stack, nic_is_linked, pc, scenario>>

Online == ip.valid

AppOffline(k) ==
  /\ Turn(k) /\ ~Online
  /\ Becomes(k, udp_close_socket(Stack, app[k].socket), "OPEN_SOCKET", UDP_INVALID_SOCKET)

AppOpens(k) ==
  /\ Turn(k) /\ Online /\ app[k].sm = "OPEN_SOCKET"
  /\ LET s == FreeSocket(Stack)
     IN Becomes(k, udp_open_socket(Stack, BROADCAST, AppPort[k]),
                IF s = UDP_INVALID_SOCKET THEN "OPEN_SOCKET" ELSE "PROCESS_SOCKET", s)

\* some of the bytes are read, then the packet is dumped
AppProcesses(k) ==
  /\ Turn(k) /\ Online /\ app[k].sm = "PROCESS_SOCKET"
  /\ IF udp_check_socket_for_rx(Stack, app[k].socket)
     THEN \E n \in 0..udp.socket[udp.active].rx_data_bytes_remaining :
            Becomes(k, udp_dump_rx_packet(udp_read_rx_array(Stack, n)),
                    "TX_RESPONSE", app[k].socket)
     ELSE Becomes(k, Stack, "PROCESS_SOCKET", app[k].socket)

\* the response, to the device the socket is bound to; then anyone may call
AppResponds(k) ==
  /\ Turn(k) /\ Online /\ app[k].sm = "TX_RESPONSE"
  /\ Becomes(k, [Stack EXCEPT !.udp.socket[app[k].socket].remote_ip = BROADCAST],
             "PROCESS_SOCKET", app[k].socket)

\* udp_setup_tx: not now, try again next time
AppCannotRespond(k) ==
  /\ Turn(k) /\ Online /\ app[k].sm = "TX_RESPONSE"
  /\ Becomes(k, Stack, "TX_RESPONSE", app[k].socket)

App(k) == AppOffline(k) \/ AppOpens(k) \/ AppProcesses(k) \/ AppResponds(k) \/ AppCannotRespond(k)

MainLoopAgain ==
  /\ pc = "app" /\ turn = NumApps + 1 /\ pc' = "stack"
  /\ UNCHANGED <<nic, udp, dhcp, ip, sm_ethernet_stack, nic_is_linked, app, turn, scenario>>

\* the application changes between manual settings and DHCP ("at any time"),
\* and writes its address and mask
Reconfigure(manual) ==
  /\ pc = "app" /\ dhcp.manual # manual
  /\ dhcp' = [dhcp EXCEPT !.manual = manual]
  /\ ip' = IF manual THEN [ip EXCEPT !.addr = "ours", !.mask = Mask] ELSE ip
  /\ UNCHANGED <<nic, udp, sm_ethernet_stack, nic_is_linked, app, pc, turn, scenario>>

-----------------------------------------------------------------------------
(* The interrupt handlers and the network *)

tick_1ms ==
  /\ dhcp.timer_1ms # 0
  /\ dhcp' = [dhcp EXCEPT !.timer_1ms = 0]
  /\ UNCHANGED <<nic, udp, ip, sm_ethernet_stack, nic_is_linked, app, pc, turn, scenario>>

tick_1s ==
  /\ nic_is_linked' \in IF LinkMayFail THEN BOOLEAN ELSE {TRUE}
  /\ dhcp' = [dhcp EXCEPT !.renewal = IF @ = 0 THEN 0 ELSE @ - 1,
                          !.lease   = IF @ = 0 THEN 0 ELSE @ - 1]
  /\ UNCHANGED <<nic, udp, ip, sm_ethernet_stack, app, pc, turn, scenario>>

FrameArrives(f) ==
  /\ \E i \in Slots : nic.state[i] = "ready"
  /\ Cardinality({i \in Slots : nic.state[i] # "ready"}) < scenario.burst
  /\ nic' = Receive(nic, f)
  /\ UNCHANGED <<udp, dhcp, ip, sm_ethernet_stack, nic_is_linked, app, pc, turn, scenario>>

Next ==
  \/ ProcessLoop
  \/ \E tx \in BOOLEAN : ProcessDhcp(tx)
  \/ \E k \in Apps : App(k)
  \/ MainLoopAgain
  \/ \E manual \in scenario.switches : Reconfigure(manual)
  \/ tick_1ms \/ tick_1s
  \/ \E f \in scenario.packets : FrameArrives(f)

Spec == Init /\ [][Next]_vars

(***************************************************************************)
(* The processor runs the main loop; the timers count; the transmitter is  *)
(* ready again and again whenever somebody keeps asking.  Nothing is       *)
(* assumed of the network.                                                 *)
(***************************************************************************)
Fairness ==
  /\ WF_vars(ProcessLoop) /\ WF_vars(MainLoopAgain)
  /\ WF_vars(\E tx \in BOOLEAN : ProcessDhcp(tx)) /\ SF_vars(ProcessDhcp(TRUE))
  /\ \A k \in Apps : WF_vars(App(k)) /\ SF_vars(AppResponds(k))
  /\ WF_vars(tick_1ms) /\ WF_vars(tick_1s)

FairSpec == Spec /\ Fairness

-----------------------------------------------------------------------------
(* Properties *)

(***************************************************************************)
(* A slot that is not with the receiver and holds no unread frame is the   *)
(* one the stack is working on: the driver's dump gives each slot back.    *)
(***************************************************************************)
NoSlotLeaked == \A i \in Slots : nic.state[i] = "disabled" => nic.rxWorkingSlot = i

\* does the network send datagrams to port 0xffff, which marks a closed socket?
NullDatagrams == \E f \in scenario.packets : f.kind = "udp" /\ f.port = UDP_PORT_NULL

(***************************************************************************)
(* The paths on which the code does lose a slot, and no others: an empty   *)
(* datagram is announced with nothing left to read, which is taken for     *)
(* "already dumped" (eth-udp.c:101, :255), and the state machine is reset  *)
(* without a link while a datagram waits (eth-main.c:174); before the      *)
(* first link only one for port 0xffff can wait.  Every other frame's slot *)
(* is given back, whatever path it takes through the dispatcher, and every *)
(* lost slot holds a UDP datagram.                                         *)
(***************************************************************************)
SlotsAccounted ==
  \A i \in Slots : nic.state[i] = "disabled" =>
    \/ nic.rxWorkingSlot = i
    \/ /\ nic.packet[i].kind = "udp"
       /\ nic.packet[i].len = 0 \/ LinkMayFail \/ NullDatagrams

(***************************************************************************)
(* While a datagram is announced to a socket and not yet read, the read    *)
(* pointer is at the first byte of a datagram that was sent to the port of *)
(* that socket and has the announced length.  (A datagram for port 0xffff  *)
(* is announced to a closed socket, which may be opened on another port.)  *)
(***************************************************************************)
AnnouncedIntact ==
  LET s == udp.socket[udp.active]
  IN ~NullDatagrams /\ udp.waiting /\ s.rx_data_bytes_remaining > 0 =>
       /\ nic.rxWorkingSlot = nic.rxSlot
       /\ Reading(nic).kind = "udp" /\ Reading(nic).port = s.local_port
       /\ Reading(nic).len = s.rx_data_bytes_remaining
       /\ nic.rxPointer = 0

(***************************************************************************)
(* Every open socket has exactly one owner, the DHCP client or one of the  *)
(* applications, and every application's socket is open on its port: the   *)
(* table of UDP_NO_OF_AVAILABLE_SOCKETS entries neither leaks nor hands    *)
(* out an entry twice.  (A client that is switched on later closes socket  *)
(* 0, whoever owns it: dhcp_socket is 0 until the client opens one, and    *)
(* eth-dhcp.c:124 takes that for an open socket.)                          *)
(***************************************************************************)
Owners(s) == {k \in Apps : app[k].socket = s}
             \cup (IF dhcp.socket = s /\ dhcp.sm \in {"WAIT_FOR_OFFER_RESPONSE",
                                         "WAIT_FOR_REQUEST_RESPONSE", "INIT"}
                   THEN {0} ELSE {})
SocketsOwned ==
  scenario.switches = {} => \A s \in Sockets :
    /\ udp.socket[s].local_port # UDP_PORT_NULL => \E o \in 0..NumApps : Owners(s) = {o}
    /\ \A k \in Apps : app[k].socket = s => udp.socket[s].local_port = AppPort[k]

(***************************************************************************)
(* The stack comes back to looking for packets, whatever packet it has     *)
(* found and whoever it is for, with one exception: a datagram for port    *)
(* 0xffff matches a closed socket (eth-udp.c:289), and waits there for as  *)
(* long as nobody opens that socket.                                       *)
(***************************************************************************)
Halted == /\ udp.waiting /\ Reading(nic).port = UDP_PORT_NULL
          /\ udp.socket[udp.active].local_port = UDP_PORT_NULL
          /\ udp.socket[udp.active].rx_data_bytes_remaining > 0

StackServes == sm_ethernet_stack # "IDLE" ~> sm_ethernet_stack = "IDLE" \/ Halted

(***************************************************************************)
(* "OUR LEASE HAS EXPIRED - IP SETTINGS NO LONGER VALID": an address is    *)
(* not used for ever after its lease has run out; it is renewed or given   *)
(* up.  Frames that the loop of tcp_ip_process_stack dumps at once can     *)
(* keep it busy for ever (eth-main.c:247); the promise is for a network    *)
(* that lets it return.                                                    *)
(***************************************************************************)
LeaseEnds ==
  []<>(pc # "loop") => (dhcp.lease = 0 /\ ip.valid ~> dhcp.lease > 0 \/ ~ip.valid)
=============================================================================
