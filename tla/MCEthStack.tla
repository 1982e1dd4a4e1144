---------------------------- MODULE MCEthStack ----------------------------
(* Instances of EthStack for TLC: the frames the network may deliver. *)
EXTENDS EthStack

Base == [kind |-> "unknown", ok |-> TRUE, dst |-> "broadcast", src |-> "a",
         port |-> UDP_PORT_NULL, len |-> 0, opts |-> 0, msg |-> "none"]
Other(k)        == [Base EXCEPT !.kind = k]
Ping            == [Base EXCEPT !.kind = "icmp", !.dst = "ours"]
Datagram(s, n)  == [Base EXCEPT !.kind = "udp", !.src = s, !.port = "80", !.len = n]
DhcpMessage(m)  == [Base EXCEPT !.kind = "udp", !.port = DHCPCLIENT_PORT, !.len = 1, !.msg = m]

\* everything the dispatcher tells apart
Dispatched == {Other(k) : k \in Kinds \ {"icmp", "udp"}}
              \cup {Ping, [Ping EXCEPT !.ok = FALSE], Datagram("a", 1), Datagram("b", 1)}
\* what concerns the sockets; frames that end the loop over waiting packets
Ending == {DhcpMessage(m) : m \in {"offer", "ack", "nak", "none"}}
          \cup {Datagram("a", 1), Datagram("b", 1), Other("otherip")}
\* datagrams without data, and for the port that marks a closed socket
ZeroLength == {Datagram("a", 0), Datagram("a", 1), Other("otherip")}
NullPort   == {[Datagram("a", 1) EXCEPT !.port = UDP_PORT_NULL], Datagram("a", 1), Other("otherip")}
\* not part of a run: frames for the configurations the README describes
WithOptions == {Datagram("a", 1), [Datagram("a", 1) EXCEPT !.opts = 4]}
Unknown    == {Other("unknown")}

Manual == [packets |-> Dispatched, burst |-> 1, manual |-> TRUE, switches |-> {FALSE}]
SmallScenarios ==
  {\* DHCP from the start
   [Manual EXCEPT !.packets = Ending, !.manual = FALSE, !.switches = {}],
   \* a changeover from manual settings to DHCP
   Manual,
   \* manual settings, frames that come together
   [Manual EXCEPT !.packets = {Other("otherip"), Ping, Datagram("a", 1), Datagram("b", 1)},
                  !.burst = 2, !.switches = {}],
   \* the datagrams that cost a slot, and those that halt the stack
   [Manual EXCEPT !.packets = ZeroLength, !.burst = 2, !.switches = {}],
   [Manual EXCEPT !.packets = NullPort, !.burst = 2, !.switches = {}]}
LinkLoss == {[Manual EXCEPT !.burst = 2, !.switches = {}]}

OneApp == [k \in 1..1 |-> "80"]
=============================================================================
