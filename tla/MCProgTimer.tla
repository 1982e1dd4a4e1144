---------------------------- MODULE MCProgTimer ----------------------------
(* Instances of ProgTimer for TLC. *)
EXTENDS ProgTimer

\* the tick, the source with number 0 (the UART), another one, and one of the
\* entries that the initialiser of ISRs leaves out
RealTable == <<"tick", "uart", "gpio", "uart">>
=============================================================================
