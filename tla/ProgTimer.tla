----------------------------- MODULE ProgTimer -----------------------------
(***************************************************************************)
(* Software timers (application/libhw/prog_timer.c) and the clock on top   *)
(* of the system tick: a list the tick's handler walks inside the          *)
(* interrupt while the program makes timers, changes them, sets the clock  *)
(* and waits.  Each access of the program to what the handler touches is a *)
(* step of its own, and a 64-bit variable is two words on this CPU.        *)
(***************************************************************************)
EXTENDS Irq

CONSTANTS
  NumTimers,      \* timers the program makes
  Periods,        \* the periods it gives them
  WordBase,       \* values of a word of memory: 2^32
  NewTimes,       \* what the clock may be set to
  MaxClock,       \* bound on the clock
  MaxDelay,       \* the longest delay
  Unmasked,       \* other sources the program installs handlers for
  HeapContents    \* what memory from the heap may contain as a handler

ASSUME ProgTimerAssumption ==
  /\ NumTimers \in Nat /\ Periods \subseteq Nat \ {0}
  /\ WordBase \in Nat \ {0} /\ MaxClock \in Nat /\ MaxClock < WordBase * WordBase
  /\ NewTimes \subseteq 0..MaxClock /\ MaxDelay \in Nat
  /\ "tick" \in Sources /\ Unmasked \subseteq Sources \ {"tick"}
  /\ Handlers = {"progtimer_handler_bottom", "user"}
  /\ HeapContents \subseteq {"none", "garbage"}

VARIABLES
  current_time,
  list,                \* the timers from progtimer_tl_head on
  timer,               \* timer_cnt, timer_rv and handler of each
  pc,                  \* where the program is
  op,                  \* in a critical section: "setclock", or the source that gets a handler
  cur, arg,            \* that call's timer and argument
  start, half,         \* progtimer_delay: start_ticks, and the first word of a read
  wild,                \* has the interrupt called something that is no handler?
  fired, ran,          \* the timers the last tick fired; ticks since each fired or was reset
  waited,              \* ticks since the delay began
  torn                 \* did a tick carry between the two loads of start_ticks?

clockVars   == <<current_time, list, timer, wild, fired, ran>>
programVars == <<pc, op, cur, arg, start, half>>
delayVars   == <<waited, torn>>
vars        == <<irqVars, clockVars, programVars, delayVars>>

Timers == 1..NumTimers
Times  == 0..(WordBase * WordBase - 1)
Unknown == -1        \* the first period of a timer depends on what the memory held
InList(t) == \E i \in DOMAIN list : list[i] = t

TypeOK ==
  /\ IrqType
  /\ current_time \in 0..MaxClock
  /\ list \in Seq(Timers)
  /\ timer \in [Timers -> [timer_cnt : 0..MaxClock, timer_rv : Periods \cup {0},
                           handler : {"set"} \cup HeapContents]]
  /\ pc \in {"start", "idle", "rv", "handler", "mask", "store", "reset", "exit", "enable",
             "start1", "start2", "now1", "now2"}
  /\ op \in {"none", "setclock"} \cup Unmasked
  /\ cur \in 0..NumTimers
  /\ arg \in NewTimes \cup Periods \cup 0..MaxDelay
  /\ start \in Times /\ half \in Times
  /\ wild \in BOOLEAN /\ fired \subseteq Timers
  /\ ran \in [Timers -> -1..MaxClock] /\ waited \in 0..MaxDelay
  /\ torn \in BOOLEAN

Init ==
  /\ IrqInit
  /\ current_time = 0 /\ list = <<>>
  /\ timer \in [Timers -> {[timer_cnt |-> 0, timer_rv |-> 0, handler |-> h] : h \in HeapContents}]
  /\ pc = "start" /\ op = "none" /\ cur = 0 /\ arg = 0 /\ start = 0 /\ half = 0
  /\ wild = FALSE /\ fired = {} /\ ran = [t \in Timers |-> Unknown]
  /\ waited = 0 /\ torn = FALSE

-----------------------------------------------------------------------------
(* The tick's handler *)

\* mutant: the counter is taken to wrap after two words
Interval_Wide(s, e) ==
  IF s <= e THEN e - s ELSE (WordBase * WordBase - 1 - s + e + 1) % (WordBase * WordBase)

\* progtimer_get_interval, in 64-bit arithmetic; the maximum it adds is a word's
Interval(s, e) ==
  IF s <= e THEN e - s ELSE (WordBase - 1 - s + e + 1) % (WordBase * WordBase)

\* mutant: the test for a whole period is strict
Elapsed_Strict(t, now) == Interval(timer[t].timer_cnt, now) > timer[t].timer_rv

Elapsed(t, now) == Interval(timer[t].timer_cnt, now) >= timer[t].timer_rv

\* the whole walk: no step of the program comes between its parts
progtimer_handler_bottom ==
  LET now  == current_time + 1
      due  == {t \in Timers : InList(t) /\ Elapsed(t, now)}
  IN /\ current_time' = now
     /\ timer' = [t \in Timers |-> IF t \in due THEN [timer[t] EXCEPT !.timer_cnt = now] ELSE timer[t]]
     /\ fired' = {t \in due : timer[t].handler = "set"}
     /\ wild' = (wild \/ \E t \in due : timer[t].handler = "garbage")
     /\ ran' = [t \in Timers |-> IF t \in due THEN 0
                                 ELSE IF ran[t] = Unknown THEN Unknown ELSE ran[t] + 1]
     /\ waited' = IF waited < MaxDelay THEN waited + 1 ELSE waited
     /\ UNCHANGED <<list, torn>>

Tick == CallEntry /\ ISR[scan] = "progtimer_handler_bottom" /\ progtimer_handler_bottom
                  /\ UNCHANGED programVars

OtherEntry == CallEntry /\ ISR[scan] # "progtimer_handler_bottom"
                        /\ UNCHANGED <<clockVars, programVars, delayVars>>

Loop == (SkipEntry \/ AckEntry) /\ UNCHANGED <<clockVars, programVars, delayVars>>

Dispatch == Tick \/ OtherEntry \/ Loop

-----------------------------------------------------------------------------
(* The program *)

Running == scan = 0

\* set_irq_handler inside progtimer_init, with interrupts still off
progtimer_init ==
  /\ Running /\ pc = "start" /\ pc' = "idle"
  /\ current_time' = 0
  /\ ISR' = [ISR EXCEPT ![EntryOf("tick")] = "progtimer_handler_bottom"]
  /\ irq_mask' = irq_mask \cup {"tick"}
  /\ UNCHANGED <<irq_status, gie, irq_disable_counter, scan, interrup_flags, called, owed>>
  /\ UNCHANGED <<list, timer, wild, fired, ran, op, cur, arg, start, half, delayVars>>

\* ENABLE_INT, once
EnableInterrupts ==
  /\ Running /\ pc = "idle" /\ irq_disable_counter = 1
  /\ or1k_enable_interrupts
  /\ UNCHANGED <<clockVars, programVars, delayVars>>

\* progtimer_new: malloc_sys gives memory as it is, the timer is linked first ...
progtimer_new(t, p) ==
  /\ Running /\ pc = "idle" /\ t = Len(list) + 1
  /\ list' = <<t>> \o list /\ cur' = t /\ arg' = p /\ pc' = "rv"
  /\ UNCHANGED <<irqVars, current_time, timer, wild, fired, ran, op, start, half, delayVars>>

\* ... then it gets its period ...
StorePeriod ==
  /\ Running /\ pc = "rv" /\ pc' = "handler"
  /\ timer' = [timer EXCEPT ![cur].timer_rv = arg]
  /\ UNCHANGED <<irqVars, current_time, list, wild, fired, ran, op, cur, arg, start, half, delayVars>>

\* ... and its handler
StoreTimerHandler ==
  /\ Running /\ pc = "handler" /\ pc' = "idle"
  /\ timer' = [timer EXCEPT ![cur].handler = "set"]
  /\ cur' = 0 /\ arg' = 0
  /\ UNCHANGED <<irqVars, current_time, list, wild, fired, ran, op, start, half, delayVars>>

\* progtimer_set_timer_interval
progtimer_set_timer_interval(t, p) ==
  /\ Running /\ pc = "idle" /\ InList(t)
  /\ timer' = [timer EXCEPT ![t].timer_rv = p]
  /\ UNCHANGED <<irqVars, current_time, list, wild, fired, ran, programVars, delayVars>>

\* progtimer_setclock and set_irq_handler open with a critical section
EnterCritical(what, a) ==
  /\ Running /\ pc = "idle" /\ pc' = "mask" /\ op' = what /\ arg' = a
  /\ CountCritical
  /\ UNCHANGED <<clockVars, cur, start, half, delayVars>>

MaskInterrupts ==
  /\ Running /\ pc = "mask" /\ pc' = "store"
  /\ ClearGie
  /\ UNCHANGED <<clockVars, op, cur, arg, start, half, delayVars>>

\* progtimer_setclock: the time, then every timer's counter
StoreTime ==
  /\ Running /\ pc = "store" /\ op = "setclock" /\ pc' = "reset"
  /\ current_time' = arg
  /\ UNCHANGED <<irqVars, list, timer, wild, fired, ran, op, cur, arg, start, half, delayVars>>

progtimer_reset_all ==
  /\ Running /\ pc = "reset" /\ pc' = "exit"
  /\ timer' = [t \in Timers |-> IF InList(t) THEN [timer[t] EXCEPT !.timer_cnt = current_time]
                                ELSE timer[t]]
  /\ ran' = [t \in Timers |-> IF InList(t) THEN 0 ELSE ran[t]]
  /\ UNCHANGED <<irqVars, current_time, list, wild, fired, op, cur, arg, start, half, delayVars>>

StoreIrqHandler ==
  /\ Running /\ pc = "store" /\ op \in Unmasked /\ pc' = "exit"
  /\ StoreHandler(op, "user")
  /\ UNCHANGED <<clockVars, op, cur, arg, start, half, delayVars>>

ExitCritical ==
  /\ Running /\ pc = "exit"
  /\ or1k_enable_interrupts
  /\ arg' = 0
  /\ IF op = "setclock" THEN pc' = "idle" /\ op' = "none" ELSE pc' = "enable" /\ op' = op
  /\ UNCHANGED <<clockVars, cur, start, half, delayVars>>

\* a driver that has installed its handler enables its source
EnableSource ==
  /\ Running /\ pc = "enable" /\ pc' = "idle" /\ op' = "none"
  /\ irq_enable(op)
  /\ UNCHANGED <<clockVars, cur, arg, start, half, delayVars>>

-----------------------------------------------------------------------------
(* progtimer_delay *)

HighWord(x) == (x \div WordBase) * WordBase
LowWord(x)  == x % WordBase

\* progtimer_get_ticks, a read of the high word and one of the low word
ReadHigh(from, to) ==
  /\ Running /\ pc = from /\ pc' = to
  /\ half' = HighWord(current_time)
  /\ UNCHANGED <<irqVars, clockVars, op, cur, arg, start, delayVars>>

progtimer_delay(d) ==
  /\ Running /\ pc = "idle" /\ pc' = "start1"
  /\ arg' = d /\ waited' = 0
  /\ UNCHANGED <<irqVars, clockVars, op, cur, start, half, torn>>

StartRead ==
  /\ Running /\ pc = "start2" /\ pc' = "now1"
  /\ start' = half + LowWord(current_time)
  /\ torn' = (HighWord(current_time) # half)
  /\ UNCHANGED <<irqVars, clockVars, op, cur, arg, half, waited>>

StillWaiting(now) == Interval(start, now) < arg

Poll ==
  /\ Running /\ pc = "now2"
  /\ IF StillWaiting(half + LowWord(current_time))
     THEN pc' = "now1" /\ UNCHANGED <<arg, start, half, delayVars>>
     ELSE /\ pc' = "idle" /\ arg' = 0 /\ start' = 0 /\ half' = 0
          /\ waited' = 0 /\ torn' = FALSE
  /\ UNCHANGED <<irqVars, clockVars, op, cur>>

-----------------------------------------------------------------------------

Event(s) == Raise(s) /\ (s = "tick" => current_time < MaxClock)
                     /\ UNCHANGED <<clockVars, programVars, delayVars>>

Interrupt == TakeInterrupt /\ UNCHANGED <<clockVars, programVars, delayVars>>

Program ==
  \/ progtimer_init \/ EnableInterrupts
  \/ \E t \in Timers, p \in Periods : progtimer_new(t, p) \/ progtimer_set_timer_interval(t, p)
  \/ StorePeriod \/ StoreTimerHandler
  \/ \E time \in NewTimes : EnterCritical("setclock", time)
  \/ \E s \in Unmasked \ irq_mask : EnterCritical(s, 0)
  \/ MaskInterrupts \/ StoreTime \/ progtimer_reset_all \/ StoreIrqHandler \/ ExitCritical
  \/ EnableSource
  \/ \E d \in 1..MaxDelay : progtimer_delay(d)
  \/ ReadHigh("start1", "start2") \/ StartRead \/ ReadHigh("now1", "now2") \/ Poll

Next == (\E s \in {"tick"} \cup Unmasked : Event(s)) \/ Interrupt \/ Dispatch \/ Program

Spec == Init /\ [][Next]_vars

\* the CPU runs.  An interrupt line that stays up is seen at one of the many
\* instructions between two critical sections, hence the strong fairness.
FairSpec == Spec /\ SF_vars(Interrupt) /\ WF_vars(Dispatch)
                 /\ WF_vars(MaskInterrupts \/ StoreTime \/ progtimer_reset_all
                            \/ StoreIrqHandler \/ ExitCritical)
                 /\ WF_vars(progtimer_init) /\ WF_vars(EnableInterrupts)
-----------------------------------------------------------------------------
(* Properties *)

(***************************************************************************)
(* Between the ends of a critical section no interrupt runs, wherever the  *)
(* events fall, the one between counting and clearing SR included.         *)
(***************************************************************************)
CriticalHolds == pc \in {"store", "reset", "exit"} => scan = 0

(***************************************************************************)
(* SR and the nesting counter agree: interrupts are on exactly when nobody *)
(* wants them off, from the first ENABLE_INT on.                           *)
(***************************************************************************)
GieMatches ==
  /\ gie => irq_disable_counter = 0 \/ pc = "mask"
  /\ ~gie => irq_disable_counter > 0

(***************************************************************************)
(* A timer fires at the tick that completes its period, not before and not *)
(* after, whatever the program does to the list, the periods and the clock *)
(* between the ticks.  (Its first period depends on what was in memory.)   *)
(***************************************************************************)
PeriodKept ==
  [][Tick => \A t \in Timers :
       InList(t) /\ timer[t].handler = "set" /\ ran[t] # Unknown =>
         (t \in fired' <=> ran[t] + 1 >= timer[t].timer_rv)]_vars

(***************************************************************************)
(* progtimer_delay "Do delay for a given number of timer ticks"            *)
(* (prog_timer.c:235): at least that many ticks pass before it returns,    *)
(* whatever ticks come between its loads, a poll that is torn by the carry *)
(* of the low word included.  Only start_ticks must not be torn: when the  *)
(* carry falls between its two loads the delay begins 2^32 ticks too early *)
(* and ends at once.                                                       *)
(***************************************************************************)
DelayLongEnough == [][pc = "now2" /\ pc' = "idle" => waited >= arg \/ torn]_vars
=============================================================================
