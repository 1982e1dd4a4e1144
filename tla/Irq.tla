-------------------------------- MODULE Irq --------------------------------
(***************************************************************************)
(* Interrupts: the controller latches events (hdl/soc/intr_periph.v), the  *)
(* CPU takes an interrupt while SR allows it, default_ISR walks a table of *)
(* handlers (application/libhw/irq.c), and the program protects itself     *)
(* with a counted critical section.                                        *)
(*                                                                         *)
(* There is one CPU: while the dispatcher runs the program stands still,   *)
(* but the devices do not.                                                 *)
(***************************************************************************)
EXTENDS Integers, Sequences

CONSTANTS
  Table,       \* the sources of the dispatch table ISRs, in its order; the entries the
               \* initialiser leaves out name the source with number 0
  Handlers     \* what can be installed

Sources == {Table[i] : i \in DOMAIN Table}

ASSUME IrqAssumption ==
  Table \in Seq(Sources) /\ Len(Table) >= 1 /\ "none" \notin Handlers

VARIABLES
  irq_status, irq_mask,       \* the controller's registers, as sets of sources
  gie,                        \* SPR_SR_GIE
  irq_disable_counter,
  ISR,                        \* the handler of each entry of the table
  scan,                       \* the entry default_ISR looks at, 0 outside of it
  interrup_flags,             \* its local variable
  called,                     \* has the entry's handler returned?
  owed                        \* the sources whose flag went up and whose handler has not run since

irqVars == <<irq_status, irq_mask, gie, irq_disable_counter, ISR, scan, interrup_flags, called, owed>>

IrqType ==
  /\ irq_status \subseteq Sources /\ irq_mask \subseteq Sources
  /\ gie \in BOOLEAN
  /\ irq_disable_counter \in 0..2
  /\ ISR \in [DOMAIN Table -> Handlers \cup {"none"}]
  /\ scan \in 0..Len(Table) /\ called \in BOOLEAN
  /\ interrup_flags \subseteq Sources /\ owed \subseteq Sources

\* after reset, before any handler is installed
IrqInit ==
  /\ irq_status = {} /\ irq_mask = {} /\ owed = {}
  /\ gie = FALSE /\ irq_disable_counter = 1
  /\ ISR = [i \in DOMAIN Table |-> "none"]
  /\ scan = 0 /\ interrup_flags = {} /\ called = FALSE

HasHandler(s) == \E i \in DOMAIN Table : Table[i] = s /\ ISR[i] # "none"

-----------------------------------------------------------------------------
(* The controller *)

\* a pulse on the line of source s; while its bit is set another one leaves no trace
Raise(s) ==
  /\ s \notin irq_status
  /\ irq_status' = irq_status \cup {s} /\ owed' = owed \cup {s}
  /\ UNCHANGED <<irq_mask, gie, irq_disable_counter, ISR, scan, interrup_flags, called>>

irq_enable(s) ==
  /\ irq_mask' = irq_mask \cup {s}
  /\ UNCHANGED <<irq_status, gie, irq_disable_counter, ISR, scan, interrup_flags, called, owed>>

-----------------------------------------------------------------------------
(* The dispatcher *)

\* mutant: the exception does not wait for SR
TakeInterrupt_Always ==
  /\ scan = 0 /\ irq_status \cap irq_mask # {}
  /\ scan' = 1
  /\ UNCHANGED <<irq_status, irq_mask, gie, irq_disable_counter, ISR, interrup_flags, called, owed>>

\* the exception clears SR, vector_extint calls default_ISR
TakeInterrupt ==
  /\ scan = 0 /\ gie /\ irq_status \cap irq_mask # {}
  /\ scan' = 1
  /\ UNCHANGED <<irq_status, irq_mask, gie, irq_disable_counter, ISR, interrup_flags, called, owed>>

\* the next entry, or the return with SR restored
NextEntry(i) == IF i < Len(Table) THEN i + 1 ELSE 0

Pending == irq_status \cap irq_mask

SkipEntry ==
  /\ scan # 0 /\ ~called /\ Table[scan] \notin Pending
  /\ interrup_flags' = Pending
  /\ scan' = NextEntry(scan)
  /\ UNCHANGED <<irq_status, irq_mask, gie, irq_disable_counter, ISR, called, owed>>

\* the flags are read and the entry's handler, if it has one, runs to its end
CallEntry ==
  /\ scan # 0 /\ ~called /\ Table[scan] \in Pending
  /\ interrup_flags' = Pending /\ called' = TRUE
  /\ owed' = IF ISR[scan] # "none" THEN owed \ {Table[scan]} ELSE owed
  /\ UNCHANGED <<irq_status, irq_mask, gie, irq_disable_counter, ISR, scan>>

\* mutant: every source that was pending is acknowledged at once
AckEntry_All ==
  /\ scan # 0 /\ called
  /\ irq_status' = irq_status \ interrup_flags /\ called' = FALSE
  /\ scan' = 0
  /\ UNCHANGED <<irq_mask, gie, irq_disable_counter, ISR, interrup_flags, owed>>

\* irq_acknowledge after the handler; the loop ends when the flags it read held no other
AckEntry ==
  /\ scan # 0 /\ called
  /\ irq_status' = irq_status \ {Table[scan]} /\ called' = FALSE
  /\ scan' = IF interrup_flags = {Table[scan]} THEN 0 ELSE NextEntry(scan)
  /\ UNCHANGED <<irq_mask, gie, irq_disable_counter, ISR, interrup_flags, owed>>

-----------------------------------------------------------------------------
(* The critical section, in the program *)

\* or1k_disable_interrupts: first the counter ...
CountCritical ==
  /\ irq_disable_counter' = irq_disable_counter + 1
  /\ UNCHANGED <<irq_status, irq_mask, gie, ISR, scan, interrup_flags, called, owed>>

\* ... then SR, which an interrupt in between leaves as it was
ClearGie ==
  /\ gie' = FALSE
  /\ UNCHANGED <<irq_status, irq_mask, irq_disable_counter, ISR, scan, interrup_flags, called, owed>>

\* mutant: the counter is tested before it is counted down
or1k_enable_interrupts_Before ==
  /\ irq_disable_counter' = IF irq_disable_counter = 0 THEN 0 ELSE irq_disable_counter - 1
  /\ gie' = (gie \/ irq_disable_counter = 0)
  /\ UNCHANGED <<irq_status, irq_mask, ISR, scan, interrup_flags, called, owed>>

\* __or1k_enable_interrupts
or1k_enable_interrupts ==
  /\ irq_disable_counter' = IF irq_disable_counter = 0 THEN 0 ELSE irq_disable_counter - 1
  /\ gie' = (gie \/ irq_disable_counter' = 0)
  /\ UNCHANGED <<irq_status, irq_mask, ISR, scan, interrup_flags, called, owed>>

\* the first entry of source s; set_irq_handler stores into it
EntryOf(s) == CHOOSE i \in DOMAIN Table : Table[i] = s /\ \A j \in 1..(i - 1) : Table[j] # s

StoreHandler(s, h) ==
  /\ ISR' = [ISR EXCEPT ![EntryOf(s)] = h]
  /\ UNCHANGED <<irq_status, irq_mask, gie, irq_disable_counter, scan, interrup_flags, called, owed>>

-----------------------------------------------------------------------------
(* Properties *)

(***************************************************************************)
(* "Acknowledge always after the body of the interrupt" (irq.c:98, in      *)
(* Russian): the flag of a source that has a handler is never cleared      *)
(* before that handler has run for it.  (A pulse that comes while the flag *)
(* is up is one with it; a pulse between the body and the acknowledgement  *)
(* is lost, which the comment accepts.)                                    *)
(***************************************************************************)
NoEventSkipped ==
  [][\A s \in Sources : s \in irq_status /\ s \notin irq_status' /\ HasHandler(s) => s \notin owed]_irqVars

(***************************************************************************)
(* Once the program wants interrupts, an event of an enabled source with a *)
(* handler is served, however the other sources and the program's critical *)
(* sections come and go.                                                   *)
(***************************************************************************)
Served ==
  \A s \in Sources :
    (s \in owed \cap irq_mask /\ HasHandler(s) /\ irq_disable_counter = 0) ~> s \notin owed
=============================================================================
