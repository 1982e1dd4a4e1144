-------------------------- MODULE ProgTimer_proofs --------------------------
(***************************************************************************)
(* Proofs about the interrupts and the software timers: the critical       *)
(* sections hold, the nesting counter and SR agree, and the dispatcher     *)
(* acknowledges no event it has not served.                                *)
(***************************************************************************)
EXTENDS ProgTimer, TLAPS

(***************************************************************************)
(* Interrupts are handled only while SR allows them, and SR is off and the *)
(* counter positive inside a critical section.                             *)
(***************************************************************************)
SectionInv ==
  /\ irq_disable_counter \in Nat /\ gie \in BOOLEAN
  /\ scan # 0 => gie
  /\ pc \in {"store", "reset", "exit"} => ~gie
  /\ pc = "mask" => irq_disable_counter > 0
  /\ gie => irq_disable_counter = 0 \/ pc = "mask"
  /\ ~gie => irq_disable_counter > 0

\* the steps that leave SR, the counter and the dispatcher's place alone
Quiet == UNCHANGED <<scan, gie, irq_disable_counter>>

LEMMA SectionInit == Init => SectionInv
<1> SUFFICES ASSUME Init PROVE SectionInv
  OBVIOUS
<1>1. pc = "start" /\ scan = 0 /\ gie = FALSE /\ irq_disable_counter = 1
  BY DEF Init, IrqInit
<1>2. gie \in BOOLEAN /\ ~gie
  BY <1>1
<1> QED
  BY <1>1, <1>2 DEF SectionInv

LEMMA SectionStep == SectionInv /\ [Next]_vars => SectionInv'
<1> SUFFICES ASSUME SectionInv, [Next]_vars PROVE SectionInv'
  OBVIOUS
<1>1. CASE UNCHANGED vars
  BY <1>1 DEF SectionInv, vars, irqVars, programVars
<1>2. ASSUME NEW s, Event(s) PROVE SectionInv'
  BY <1>2 DEF SectionInv, Event, Raise, programVars
<1>3. CASE Interrupt
  BY <1>3 DEF SectionInv, Interrupt, TakeInterrupt, programVars
<1>4. CASE Dispatch
  <2>1. scan # 0
    BY <1>4 DEF Dispatch, Tick, OtherEntry, Loop, SkipEntry, CallEntry, AckEntry
  <2>2. UNCHANGED <<gie, irq_disable_counter, pc>>
    BY <1>4 DEF Dispatch, Tick, OtherEntry, Loop, SkipEntry, CallEntry, AckEntry, programVars
  <2> QED
    BY <2>1, <2>2 DEF SectionInv
<1>5. CASE EnableInterrupts
  <2>1. /\ scan = 0 /\ scan' = scan /\ pc = "idle" /\ pc' = pc
        /\ irq_disable_counter = 1 /\ irq_disable_counter' = 0
    BY <1>5 DEF EnableInterrupts, or1k_enable_interrupts, Running, programVars
  <2>2. gie' = (gie \/ irq_disable_counter' = 0)
    BY <1>5 DEF EnableInterrupts, or1k_enable_interrupts
  <2>3. gie' \in BOOLEAN /\ gie'
    BY <2>1, <2>2
  <2> QED
    BY <2>1, <2>3 DEF SectionInv
<1>6. ASSUME NEW what, NEW a, EnterCritical(what, a) PROVE SectionInv'
  BY <1>6 DEF SectionInv, EnterCritical, CountCritical, Running
<1>7. CASE MaskInterrupts
  <2>1. /\ scan = 0 /\ scan' = scan /\ pc = "mask" /\ pc' = "store"
        /\ irq_disable_counter' = irq_disable_counter
    BY <1>7 DEF MaskInterrupts, ClearGie, Running
  <2>2. gie' \in BOOLEAN /\ ~gie'
    BY <1>7 DEF MaskInterrupts, ClearGie
  <2> QED
    BY <2>1, <2>2 DEF SectionInv
<1>8. CASE ExitCritical
  <2>1. /\ scan = 0 /\ scan' = scan /\ pc = "exit" /\ pc' \in {"idle", "enable"}
        /\ irq_disable_counter > 0 /\ irq_disable_counter' = irq_disable_counter - 1
    BY <1>8 DEF SectionInv, ExitCritical, or1k_enable_interrupts, Running
  <2>2. gie' = (gie \/ irq_disable_counter' = 0)
    BY <1>8 DEF ExitCritical, or1k_enable_interrupts
  <2>3. pc = "exit" => ~gie
    BY DEF SectionInv
  <2>4. gie' \in BOOLEAN /\ (gie' <=> irq_disable_counter' = 0)
    BY <2>1, <2>2, <2>3
  <2>5. irq_disable_counter' \in Nat
    BY <2>1 DEF SectionInv
  <2> QED
    BY <2>1, <2>4, <2>5 DEF SectionInv
<1>9. CASE StoreTime \/ progtimer_reset_all \/ StoreIrqHandler
  <2>1. Quiet /\ pc \in {"store", "reset"} /\ pc' \in {"reset", "exit"}
    BY <1>9 DEF Quiet, StoreTime, progtimer_reset_all, StoreIrqHandler, StoreHandler, irqVars
  <2> QED
    BY <2>1 DEF SectionInv, Quiet
<1>10. CASE progtimer_init \/ StorePeriod \/ StoreTimerHandler \/ EnableSource
  <2>1. Quiet /\ pc \notin {"store", "reset", "exit", "mask"}
           /\ pc' \notin {"store", "reset", "exit", "mask"}
    BY <1>10 DEF Quiet, progtimer_init, StorePeriod, StoreTimerHandler, EnableSource, irq_enable, irqVars
  <2> QED
    BY <2>1 DEF SectionInv, Quiet
<1>11. ASSUME NEW t, NEW p, progtimer_new(t, p) \/ progtimer_set_timer_interval(t, p)
       PROVE  SectionInv'
  <2>1. Quiet /\ pc = "idle" /\ pc' \in {"rv", "idle"}
    BY <1>11 DEF Quiet, progtimer_new, progtimer_set_timer_interval, irqVars, programVars
  <2> QED
    BY <2>1 DEF SectionInv, Quiet
<1>12. CASE \/ \E d \in 1..MaxDelay : progtimer_delay(d)
            \/ ReadHigh("start1", "start2") \/ StartRead \/ ReadHigh("now1", "now2") \/ Poll
  <2>1. Quiet /\ pc \in {"idle", "start1", "start2", "now1", "now2"}
           /\ pc' \in {"idle", "start1", "start2", "now1", "now2"}
    BY <1>12 DEF Quiet, progtimer_delay, ReadHigh, StartRead, Poll, irqVars
  <2> QED
    BY <2>1 DEF SectionInv, Quiet
<1> QED
  BY <1>1, <1>2, <1>3, <1>4, <1>5, <1>6, <1>7, <1>8, <1>9, <1>10, <1>11, <1>12 DEF Next, Program

THEOREM SectionInvariance == Spec => []SectionInv
  BY SectionInit, SectionStep, PTL DEF Spec

(***************************************************************************)
(* No interrupt runs inside a critical section (irq.c:190-218), whatever   *)
(* the dispatch table, the number of timers and the periods.               *)
(***************************************************************************)
THEOREM CriticalAlwaysHolds == Spec => []CriticalHolds
<1>1. SectionInv => CriticalHolds
  BY DEF SectionInv, CriticalHolds
<1> QED
  BY <1>1, SectionInvariance, PTL

(***************************************************************************)
(* SR_GIE and irq_disable_counter agree in every reachable state.          *)
(***************************************************************************)
THEOREM GieAlwaysMatches == Spec => []GieMatches
<1>1. SectionInv => GieMatches
  BY DEF SectionInv, GieMatches
<1> QED
  BY <1>1, SectionInvariance, PTL

-----------------------------------------------------------------------------

\* the sources with a handler have one entry each
UniqueEntries ==
  \A i, j \in DOMAIN Table :
    Table[i] = Table[j] /\ Table[i] \in Unmasked \cup {"tick"} => i = j

(***************************************************************************)
(* From the call of a handler to its acknowledgement the source's flag     *)
(* stays up, so it cannot go up anew after the handler has run.            *)
(***************************************************************************)
ServeInv ==
  /\ scan \in 0..Len(Table) /\ called \in BOOLEAN
  /\ ISR \in [DOMAIN Table -> Handlers \cup {"none"}]
  /\ called => /\ scan # 0 /\ Table[scan] \in irq_status
               /\ ISR[scan] # "none" => Table[scan] \notin owed
  /\ \A i \in DOMAIN Table : ISR[i] # "none" => Table[i] \in Unmasked \cup {"tick"}

LEMMA TableIndices == DOMAIN Table = 1..Len(Table) /\ Len(Table) \in Nat
  BY IrqAssumption

\* under UniqueEntries EntryOf is the entry
LEMMA EntryIsThere ==
  ASSUME UniqueEntries, NEW s \in Unmasked \cup {"tick"}
  PROVE  EntryOf(s) \in DOMAIN Table /\ Table[EntryOf(s)] = s
<1>1. PICK i \in DOMAIN Table : Table[i] = s
  BY ProgTimerAssumption DEF Sources
<1>2. ASSUME NEW j \in 1..(i - 1) PROVE Table[j] # s
  BY <1>1, TableIndices DEF UniqueEntries
<1> QED
  BY <1>1, <1>2 DEF EntryOf

LEMMA ServeInit == Init => ServeInv
<1> SUFFICES ASSUME Init PROVE ServeInv
  OBVIOUS
<1>1. scan = 0 /\ called = FALSE /\ ISR = [i \in DOMAIN Table |-> "none"]
  BY DEF Init, IrqInit
<1>2. called \in BOOLEAN /\ ~called
  BY <1>1
<1> QED
  BY <1>1, <1>2, TableIndices DEF ServeInv

\* a step that stores handler h for source s while the dispatcher is at rest
LEMMA StoreKeepsServeInv ==
  ASSUME UniqueEntries, ServeInv, scan = 0, UNCHANGED <<scan, called>>,
         NEW s \in Unmasked \cup {"tick"}, NEW h \in Handlers,
         ISR' = [ISR EXCEPT ![EntryOf(s)] = h]
  PROVE  ServeInv'
<1>1. EntryOf(s) \in DOMAIN Table /\ Table[EntryOf(s)] = s
  BY EntryIsThere
<1>2. ISR' \in [DOMAIN Table -> Handlers \cup {"none"}]
  BY <1>1 DEF ServeInv
<1>3. \A i \in DOMAIN Table : ISR'[i] # "none" => Table[i] \in Unmasked \cup {"tick"}
  BY <1>1 DEF ServeInv
<1>4. ~called
  BY DEF ServeInv
<1> QED
  BY <1>2, <1>3, <1>4 DEF ServeInv

LEMMA ServeStep == UniqueEntries /\ ServeInv /\ [Next]_vars => ServeInv'
<1> SUFFICES ASSUME UniqueEntries, ServeInv, [Next]_vars PROVE ServeInv'
  OBVIOUS
<1>1. CASE UNCHANGED <<scan, called, ISR, irq_status, owed>>
  BY <1>1 DEF ServeInv
<1>2. ASSUME NEW s, Event(s) PROVE ServeInv'
  <2>1. /\ UNCHANGED <<scan, called, ISR>>
        /\ s \notin irq_status /\ irq_status' = irq_status \cup {s} /\ owed' = owed \cup {s}
    BY <1>2 DEF Event, Raise
  <2> QED
    BY <2>1 DEF ServeInv
<1>3. CASE Interrupt
  <2>1. scan = 0 /\ scan' = 1 /\ UNCHANGED <<called, ISR>>
    BY <1>3 DEF Interrupt, TakeInterrupt
  <2>2. ~called /\ ~called' /\ called' \in BOOLEAN
    BY <2>1 DEF ServeInv
  <2>3. 1 \in 0..Len(Table)
    BY IrqAssumption
  <2> QED
    BY <2>1, <2>2, <2>3 DEF ServeInv
<1>4. ASSUME scan # 0 PROVE NextEntry(scan) \in 0..Len(Table)
  BY <1>4, TableIndices DEF NextEntry, ServeInv
<1>5. CASE SkipEntry
  <2>1. scan # 0 /\ scan' = NextEntry(scan) /\ ~called /\ UNCHANGED <<called, ISR>>
    BY <1>5 DEF SkipEntry
  <2> QED
    BY <2>1, <1>4 DEF ServeInv
<1>6. CASE CallEntry
  <2>1. /\ scan # 0 /\ Table[scan] \in irq_status /\ UNCHANGED <<scan, ISR, irq_status>>
        /\ ISR[scan] # "none" => owed' = owed \ {Table[scan]}
    BY <1>6 DEF CallEntry, Pending
  <2>2. called' \in BOOLEAN
    BY <1>6 DEF CallEntry
  <2> QED
    BY <2>1, <2>2 DEF ServeInv
<1>7. CASE AckEntry
  <2>1. scan # 0 /\ scan' \in {0, NextEntry(scan)} /\ UNCHANGED ISR
    BY <1>7 DEF AckEntry
  <2>2. called' \in BOOLEAN /\ ~called'
    BY <1>7 DEF AckEntry
  <2>3. scan' \in 0..Len(Table)
    BY <2>1, <1>4, TableIndices
  <2> QED
    BY <2>1, <2>2, <2>3 DEF ServeInv
<1>8. CASE progtimer_init
  <2>1. /\ scan = 0 /\ UNCHANGED <<scan, called>>
        /\ ISR' = [ISR EXCEPT ![EntryOf("tick")] = "progtimer_handler_bottom"]
    BY <1>8 DEF progtimer_init, Running
  <2> QED
    BY <2>1, StoreKeepsServeInv, ProgTimerAssumption
<1>9. CASE StoreIrqHandler
  <2>1. /\ scan = 0 /\ UNCHANGED <<scan, called>> /\ op \in Unmasked
        /\ ISR' = [ISR EXCEPT ![EntryOf(op)] = "user"]
    BY <1>9 DEF StoreIrqHandler, StoreHandler, Running
  <2> QED
    BY <2>1, StoreKeepsServeInv, ProgTimerAssumption
<1>10. ASSUME Program PROVE progtimer_init \/ StoreIrqHandler
                            \/ UNCHANGED <<scan, called, ISR, irq_status, owed>>
  BY <1>10
     DEF Program, EnableInterrupts, or1k_enable_interrupts, progtimer_new,
         progtimer_set_timer_interval, StorePeriod, StoreTimerHandler, EnterCritical,
         CountCritical, MaskInterrupts, ClearGie, StoreTime, progtimer_reset_all, ExitCritical,
         EnableSource, irq_enable, progtimer_delay, ReadHigh, StartRead, Poll, irqVars
<1>11. CASE UNCHANGED vars
  BY <1>11, <1>1 DEF vars, irqVars
<1>12. ASSUME Dispatch PROVE SkipEntry \/ CallEntry \/ AckEntry
  BY <1>12 DEF Dispatch, Tick, OtherEntry, Loop
<1> QED
  BY <1>1, <1>2, <1>3, <1>5, <1>6, <1>7, <1>8, <1>9, <1>10, <1>11, <1>12 DEF Next

\* the step of NoEventSkipped
SkipsNoEvent == \A s \in Sources : s \in irq_status /\ s \notin irq_status' /\ HasHandler(s) => s \notin owed

LEMMA ServeSkipsNone == UniqueEntries /\ ServeInv /\ [Next]_vars => SkipsNoEvent
<1> SUFFICES ASSUME UniqueEntries, ServeInv, [Next]_vars,
                    NEW s \in Sources, s \in irq_status, s \notin irq_status', HasHandler(s)
             PROVE  s \notin owed
  BY DEF SkipsNoEvent
<1>1. AckEntry
  BY DEF Next, Event, Raise, Interrupt, TakeInterrupt, Dispatch, Tick, OtherEntry, Loop,
         SkipEntry, CallEntry, Program, progtimer_init, StoreIrqHandler, StoreHandler,
         EnableInterrupts, or1k_enable_interrupts, progtimer_new,
         progtimer_set_timer_interval, StorePeriod, StoreTimerHandler, EnterCritical,
         CountCritical, MaskInterrupts, ClearGie, StoreTime, progtimer_reset_all, ExitCritical,
         EnableSource, irq_enable, progtimer_delay, ReadHigh, StartRead, Poll, irqVars, vars
<1>2. s = Table[scan] /\ scan # 0 /\ called
  BY <1>1 DEF AckEntry
<1>3. PICK i \in DOMAIN Table : Table[i] = s /\ ISR[i] # "none"
  BY DEF HasHandler
<1>4. scan \in DOMAIN Table
  BY <1>2, TableIndices DEF ServeInv
<1>5. i = scan
  BY <1>2, <1>3, <1>4 DEF UniqueEntries, ServeInv
<1> QED
  BY <1>2, <1>3, <1>5 DEF ServeInv

(***************************************************************************)
(* default_ISR (irq.c:90) acknowledges no event it has not served, for     *)
(* every table in which the sources with handlers have one entry.  The     *)
(* UART's source number 0 is in the table twice, where the initialiser     *)
(* stops short of IS_Count, and is outside of this theorem.                *)
(***************************************************************************)
THEOREM NoEventIsSkipped == ASSUME UniqueEntries PROVE Spec => NoEventSkipped
<1>1. ServeInv /\ [Next]_vars => ServeInv'
  BY ServeStep
<1>2. ServeInv /\ [Next]_vars => [SkipsNoEvent]_irqVars
  BY ServeSkipsNone
<1> QED
  BY <1>1, <1>2, ServeInit, PTL DEF Spec, NoEventSkipped, SkipsNoEvent
-----------------------------------------------------------------------------
(* Periods and delays *)

(***************************************************************************)
(* A timer's counter is the time of its last tick, or of the last setting  *)
(* of the clock, and not ahead of the clock but while the clock is being   *)
(* set; a timer that is not linked has never been touched.                 *)
(***************************************************************************)
Linked(t)   == InList(t) /\ timer[t].timer_cnt \in Nat /\ ran[t] \in Int
Unlinked(t) == ~InList(t) /\ timer[t].timer_cnt = 0 /\ ran[t] = Unknown
UpToDate(t) ==
  /\ timer[t].timer_cnt <= current_time
  /\ ran[t] # Unknown => ran[t] = current_time - timer[t].timer_cnt

TimerRecord == [timer_cnt : Nat, timer_rv : Nat, handler : {"set", "none", "garbage"}]

ClockInv ==
  /\ current_time \in Nat /\ arg \in Nat
  /\ list \in Seq(Timers) /\ (pc = "start" => list = <<>>)
  /\ timer \in [Timers -> TimerRecord] /\ ran \in [Timers -> Int]
  /\ \A t \in Timers : Linked(t) \/ Unlinked(t)
  /\ pc # "reset" => \A t \in Timers : Linked(t) => UpToDate(t)

LEMMA ClockInit == Init => ClockInv
<1> SUFFICES ASSUME Init PROVE ClockInv
  OBVIOUS
<1>1. /\ current_time = 0 /\ arg = 0 /\ list = <<>> /\ ran = [t \in Timers |-> Unknown]
      /\ timer \in [Timers -> {[timer_cnt |-> 0, timer_rv |-> 0, handler |-> h] : h \in HeapContents}]
  BY DEF Init
<1>2. \A t \in Timers : ~InList(t)
  BY <1>1 DEF InList
<1>3. \A t \in Timers : timer[t] \in TimerRecord /\ timer[t].timer_cnt = 0
  BY <1>1, ProgTimerAssumption DEF TimerRecord
<1>4. timer \in [Timers -> TimerRecord]
  BY <1>1, <1>3
<1> QED
  BY <1>1, <1>2, <1>3, <1>4 DEF ClockInv, Linked, Unlinked, Unknown

\* The walk of the list at a tick.
LEMMA TickClock ==
  ASSUME ClockInv, SectionInv, Tick
  PROVE  /\ ClockInv'
         /\ \A t \in Timers : InList(t) /\ timer[t].handler = "set" /\ ran[t] # Unknown =>
              (t \in fired' <=> ran[t] + 1 >= timer[t].timer_rv)
<1> DEFINE now == current_time + 1
           due == {t \in Timers : InList(t) /\ Elapsed(t, now)}
<1>1. /\ current_time' = now /\ UNCHANGED <<list, pc, arg>>
      /\ timer' = [t \in Timers |-> IF t \in due THEN [timer[t] EXCEPT !.timer_cnt = now] ELSE timer[t]]
      /\ fired' = {t \in due : timer[t].handler = "set"}
      /\ ran' = [t \in Timers |-> IF t \in due THEN 0
                                  ELSE IF ran[t] = Unknown THEN Unknown ELSE ran[t] + 1]
  BY DEF Tick, progtimer_handler_bottom, programVars
<1>2. pc # "reset"
  BY DEF Tick, CallEntry, SectionInv
<1>3. now \in Nat
  BY DEF ClockInv
<1>4. \A t \in Timers : t \in due => InList(t)
  OBVIOUS
<1>5. ASSUME NEW t \in Timers, InList(t), ran[t] # Unknown
      PROVE  t \in due <=> ran[t] + 1 >= timer[t].timer_rv
  <2>1. /\ timer[t].timer_cnt <= current_time /\ ran[t] = current_time - timer[t].timer_cnt
        /\ timer[t].timer_cnt \in Nat /\ current_time \in Nat
    BY <1>2, <1>5 DEF ClockInv, Linked, Unlinked, UpToDate
  <2>2. Interval(timer[t].timer_cnt, now) = ran[t] + 1
    BY <2>1 DEF Interval
  <2> QED
    BY <1>5, <2>2 DEF Elapsed
<1> HIDE DEF due, now
<1>6. ASSUME NEW t \in Timers
      PROVE  /\ timer'[t] \in TimerRecord /\ ran'[t] \in Int
             /\ Linked(t)' \/ Unlinked(t)'
             /\ Linked(t)' => UpToDate(t)'
  <2>1. timer[t] \in TimerRecord /\ ran[t] \in Int
    BY DEF ClockInv
  <2>2. InList(t)' <=> InList(t)
    BY <1>1 DEF InList
  <2>3. CASE t \in due
    <3>1. timer'[t] = [timer[t] EXCEPT !.timer_cnt = now] /\ ran'[t] = 0
      BY <1>1, <2>3
    <3>2. timer'[t] \in TimerRecord /\ timer'[t].timer_cnt = now
      BY <1>3, <2>1, <3>1 DEF TimerRecord
    <3> QED
      BY <1>1, <1>3, <1>4, <2>2, <2>3, <3>1, <3>2 DEF Linked, UpToDate
  <2>4. CASE t \notin due
    <3>1. timer'[t] = timer[t] /\ ran'[t] = IF ran[t] = Unknown THEN Unknown ELSE ran[t] + 1
      BY <1>1, <2>4
    <3>2. Linked(t) => UpToDate(t)
      BY <1>2 DEF ClockInv
    <3>3. Linked(t) \/ Unlinked(t)
      BY DEF ClockInv
    <3>4. current_time' = current_time + 1 /\ current_time \in Nat
      BY <1>1 DEF now, ClockInv
    <3>5. timer[t].timer_cnt \in Nat
      BY <2>1 DEF TimerRecord
    <3> QED
      BY <2>1, <2>2, <3>1, <3>2, <3>3, <3>4, <3>5 DEF Linked, Unlinked, UpToDate, Unknown
  <2> QED
    BY <2>3, <2>4
<1>7. ClockInv'
  <2>1. DOMAIN timer' = Timers /\ DOMAIN ran' = Timers
    BY <1>1
  <2>2. timer' \in [Timers -> TimerRecord] /\ ran' \in [Timers -> Int]
    <3>1. timer' = [t \in Timers |-> timer'[t]] /\ ran' = [t \in Timers |-> ran'[t]]
      BY <1>1
    <3> QED BY <1>6, <3>1
  <2> QED
    BY <1>1, <1>3, <1>6, <2>2 DEF ClockInv
<1> QED
  BY <1>1, <1>5, <1>7

\* A step that touches neither the clock, the list nor the timers.
LEMMA SameClock ==
  ASSUME ClockInv, UNCHANGED <<current_time, list, timer, ran>>, arg' \in Nat,
         pc' # "start" \/ pc = "start", pc' = "reset" \/ pc # "reset"
  PROVE  ClockInv'
BY DEF ClockInv, Linked, Unlinked, UpToDate, InList

LEMMA ClockStep == ClockInv /\ SectionInv /\ [Next]_vars => ClockInv'
<1> SUFFICES ASSUME ClockInv, SectionInv, [Next]_vars PROVE ClockInv'
  OBVIOUS
<1>1. CASE UNCHANGED vars \/ (\E s \in {"tick"} \cup Unmasked : Event(s)) \/ Interrupt
           \/ OtherEntry \/ Loop
  <2>1. UNCHANGED <<current_time, list, timer, ran, arg, pc>>
    BY <1>1 DEF vars, clockVars, programVars, Event, Interrupt, OtherEntry, Loop
  <2> QED BY <2>1, SameClock DEF ClockInv
<1>2. CASE Tick
  BY <1>2, TickClock
<1>3. CASE progtimer_init
  <2>1. /\ list = <<>> /\ current_time' = 0 /\ pc' = "idle" /\ UNCHANGED <<list, timer, ran, arg>>
    BY <1>3 DEF progtimer_init, ClockInv
  <2>2. \A t \in Timers : ~InList(t) /\ ~InList(t)'
    BY <2>1 DEF InList
  <2> QED
    BY <2>1, <2>2 DEF ClockInv, Linked, Unlinked
<1>4. ASSUME NEW t \in Timers, NEW p \in Periods, progtimer_new(t, p)
      PROVE  ClockInv'
  <2>1. /\ list' = <<t>> \o list /\ UNCHANGED <<current_time, timer, ran>>
        /\ arg' = p /\ pc' = "rv" /\ pc = "idle"
    BY <1>4 DEF progtimer_new
  <2>2. list \in Seq(Timers) /\ list' \in Seq(Timers)
    BY <2>1 DEF ClockInv
  <2>3. \A u \in Timers : InList(u)' <=> u = t \/ InList(u)
    <3>1. /\ Len(list') = Len(list) + 1 /\ list'[1] = t /\ Len(list) \in Nat
          /\ \A i \in 1..Len(list) : list'[i + 1] = list[i]
      BY <2>1, <2>2
    <3>2. \A i \in 1..Len(list') : i = 1 \/ (i - 1 \in 1..Len(list) /\ list'[i] = list[i - 1])
      BY <2>1, <2>2, <3>1
    <3>3. DOMAIN list = 1..Len(list) /\ DOMAIN list' = 1..Len(list')
      BY <2>2
    <3>4. ASSUME NEW u \in Timers, InList(u)
          PROVE  InList(u)'
      <4>1. PICK i \in DOMAIN list : list[i] = u
        BY <3>4 DEF InList
      <4>2. i + 1 \in DOMAIN list' /\ list'[i + 1] = u
        BY <3>1, <3>3, <4>1
      <4> QED BY <4>2 DEF InList
    <3>5. ASSUME NEW u \in Timers, InList(u)', u # t
          PROVE  InList(u)
      <4>1. PICK i \in DOMAIN list' : list'[i] = u
        BY <3>5 DEF InList
      <4>2. i - 1 \in DOMAIN list /\ list[i - 1] = u
        BY <3>1, <3>2, <3>3, <3>5, <4>1
      <4> QED BY <4>2 DEF InList
    <3>6. InList(t)'
      <4>1. 1 \in DOMAIN list' /\ list'[1] = t
        BY <3>1, <3>3
      <4> QED BY <4>1 DEF InList
    <3> QED
      BY <3>4, <3>5, <3>6
  <2>4. ASSUME NEW u \in Timers
        PROVE  (Linked(u)' \/ Unlinked(u)') /\ (Linked(u)' => UpToDate(u)')
    BY <2>1, <2>3 DEF ClockInv, Linked, Unlinked, UpToDate
  <2>5. p \in Nat
    BY ProgTimerAssumption
  <2> QED
    BY <2>1, <2>2, <2>4, <2>5 DEF ClockInv
<1>5. ASSUME NEW t \in Timers, NEW r,
             \/ r \in Nat /\ timer' = [timer EXCEPT ![t].timer_rv = r]
             \/ timer' = [timer EXCEPT ![t].handler = "set"],
             UNCHANGED <<current_time, list, ran>>, arg' \in Nat, pc' # "start", pc # "reset"
      PROVE  ClockInv'
  <2>1. timer \in [Timers -> TimerRecord]
    BY DEF ClockInv
  <2>2. /\ timer' \in [Timers -> TimerRecord]
        /\ \A u \in Timers : timer'[u].timer_cnt = timer[u].timer_cnt
    BY <1>5, <2>1 DEF TimerRecord
  <2> QED
    BY <1>5, <2>2 DEF ClockInv, Linked, Unlinked, UpToDate, InList
<1>6. CASE StorePeriod \/ StoreTimerHandler
  <2>1. CASE cur \in Timers
    <3>1. arg \in Nat
      BY DEF ClockInv
    <3>2. /\ UNCHANGED <<current_time, list, ran>> /\ pc' # "start" /\ pc # "reset" /\ arg' \in Nat
          /\ \/ timer' = [timer EXCEPT ![cur].timer_rv = arg]
             \/ timer' = [timer EXCEPT ![cur].handler = "set"]
      BY <1>6, <3>1 DEF StorePeriod, StoreTimerHandler
    <3> QED
      BY <1>5, <2>1, <3>1, <3>2
  <2>2. CASE cur \notin Timers
    <3>1. timer' = timer
      BY <1>6, <2>2 DEF StorePeriod, StoreTimerHandler, ClockInv
    <3> QED
      BY <1>6, <3>1, SameClock DEF StorePeriod, StoreTimerHandler, ClockInv
  <2> QED BY <2>1, <2>2
<1>7. ASSUME NEW t \in Timers, NEW p \in Periods, progtimer_set_timer_interval(t, p)
      PROVE  ClockInv'
  <2>1. p \in Nat /\ arg \in Nat
    BY ProgTimerAssumption DEF ClockInv
  <2> QED
    BY <1>5, <1>7, <2>1 DEF progtimer_set_timer_interval, programVars
<1>8. CASE StoreTime
  <2>1. current_time' = arg /\ pc' = "reset" /\ UNCHANGED <<list, timer, ran, arg>>
    BY <1>8 DEF StoreTime
  <2> QED
    BY <2>1 DEF ClockInv, Linked, Unlinked, InList
<1>9. CASE progtimer_reset_all
  <2>1. /\ timer' = [t \in Timers |-> IF InList(t) THEN [timer[t] EXCEPT !.timer_cnt = current_time]
                                      ELSE timer[t]]
        /\ ran' = [t \in Timers |-> IF InList(t) THEN 0 ELSE ran[t]]
        /\ pc' = "exit" /\ UNCHANGED <<current_time, list, arg>>
    BY <1>9 DEF progtimer_reset_all
  <2>2. ASSUME NEW t \in Timers
        PROVE  /\ timer'[t] \in TimerRecord /\ ran'[t] \in Int
               /\ Linked(t)' \/ Unlinked(t)'
               /\ Linked(t)' => UpToDate(t)'
    <3>1. timer[t] \in TimerRecord /\ ran[t] \in Int /\ current_time \in Nat
      BY DEF ClockInv
    <3>2. InList(t)' <=> InList(t)
      BY <2>1 DEF InList
    <3>3. CASE InList(t)
      <4>1. timer'[t] = [timer[t] EXCEPT !.timer_cnt = current_time] /\ ran'[t] = 0
        BY <2>1, <3>3
      <4>2. timer'[t] \in TimerRecord /\ timer'[t].timer_cnt = current_time
        BY <3>1, <4>1 DEF TimerRecord
      <4> QED
        BY <2>1, <3>1, <3>2, <3>3, <4>1, <4>2 DEF Linked, UpToDate
    <3>4. CASE ~InList(t)
      <4>1. timer'[t] = timer[t] /\ ran'[t] = ran[t]
        BY <2>1, <3>4
      <4> QED
        BY <3>1, <3>2, <3>4, <4>1 DEF ClockInv, Linked, Unlinked
    <3> QED BY <3>3, <3>4
  <2>3. timer' \in [Timers -> TimerRecord] /\ ran' \in [Timers -> Int]
    <3>1. timer' = [t \in Timers |-> timer'[t]] /\ ran' = [t \in Timers |-> ran'[t]]
      BY <2>1
    <3> QED BY <2>2, <3>1
  <2> QED
    BY <2>1, <2>2, <2>3 DEF ClockInv
<1>10. ASSUME Program
       PROVE  \/ progtimer_init \/ StorePeriod \/ StoreTimerHandler \/ StoreTime \/ progtimer_reset_all
              \/ \E t \in Timers, p \in Periods : progtimer_new(t, p) \/ progtimer_set_timer_interval(t, p)
              \/ /\ UNCHANGED <<current_time, list, timer, ran>> /\ arg' \in Nat
                 /\ pc' # "start" /\ pc # "reset"
  <2>1. arg \in Nat /\ MaxDelay \in Nat /\ NewTimes \subseteq Nat
    BY ProgTimerAssumption DEF ClockInv
  <2>2. CASE EnableInterrupts
    BY <2>1, <2>2 DEF EnableInterrupts, clockVars, programVars
  <2>3. ASSUME NEW what, NEW a \in Nat, EnterCritical(what, a)
        PROVE  /\ UNCHANGED <<current_time, list, timer, ran>> /\ arg' \in Nat
               /\ pc' # "start" /\ pc # "reset"
    BY <2>3 DEF EnterCritical, clockVars
  <2>4. CASE MaskInterrupts \/ StoreIrqHandler \/ ExitCritical \/ EnableSource
    BY <2>1, <2>4 DEF MaskInterrupts, StoreIrqHandler, ExitCritical, EnableSource, clockVars
  <2>5. CASE \/ \E d \in 1..MaxDelay : progtimer_delay(d)
             \/ ReadHigh("start1", "start2") \/ StartRead \/ ReadHigh("now1", "now2") \/ Poll
    BY <2>1, <2>5 DEF progtimer_delay, ReadHigh, StartRead, Poll, clockVars
  <2> QED
    BY <1>10, <2>1, <2>2, <2>3, <2>4, <2>5 DEF Program
<1> QED
  BY <1>1, <1>2, <1>3, <1>4, <1>6, <1>7, <1>8, <1>9, <1>10, SameClock DEF Next, Dispatch

(***************************************************************************)
(* A timer fires at the tick that completes its period, not before and not *)
(* after (prog_timer.c:69-96), whatever the program does to the list, the  *)
(* periods and the clock between the ticks, for any number of timers.      *)
(***************************************************************************)
THEOREM PeriodsAreKept == Spec => PeriodKept
<1>1. ClockInv /\ SectionInv /\ [Next]_vars =>
        [Tick => \A t \in Timers : InList(t) /\ timer[t].handler = "set" /\ ran[t] # Unknown =>
                   (t \in fired' <=> ran[t] + 1 >= timer[t].timer_rv)]_vars
  BY TickClock
<1> QED
  BY <1>1, ClockInit, ClockStep, SectionInvariance, PTL DEF Spec, PeriodKept

\* A number is the sum of its two words, and high words are a whole word apart.
LEMMA Words ==
  ASSUME NEW x \in Nat
  PROVE  /\ HighWord(x) \in Nat /\ LowWord(x) \in Nat /\ LowWord(x) < WordBase
         /\ x = HighWord(x) + LowWord(x)
<1>1. WordBase \in Nat \ {0}
  BY ProgTimerAssumption
<1>2. x \div WordBase \in Nat /\ x % WordBase \in 0..(WordBase - 1)
      /\ x = (x \div WordBase) * WordBase + (x % WordBase)
  BY <1>1
<1>3. (x \div WordBase) * WordBase \in Nat
  BY <1>1, <1>2
<1> QED
  BY <1>1, <1>2, <1>3 DEF HighWord, LowWord

LEMMA WordApart ==
  ASSUME NEW x \in Nat, NEW y \in Nat, x <= y
  PROVE  HighWord(x) = HighWord(y) \/ HighWord(x) + WordBase <= HighWord(y)
<1> DEFINE p == x \div WordBase
           q == y \div WordBase
<1>1. WordBase \in Nat \ {0} /\ p \in Nat /\ q \in Nat
  BY ProgTimerAssumption
<1>2. HighWord(x) = p * WordBase /\ HighWord(y) = q * WordBase
  BY DEF HighWord
<1>3. p * WordBase <= x /\ y < q * WordBase + WordBase
  BY <1>1, <1>2, Words
<1> HIDE DEF p, q
<1>4. ASSUME NEW m \in Nat, NEW n \in Nat, m < n
      PROVE  m * WordBase + WordBase <= n * WordBase
  <2>1. PICK k \in Nat : n = m + 1 + k
    <3>1. n - m - 1 \in Nat /\ n = m + 1 + (n - m - 1)
      BY <1>4
    <3> QED BY <3>1
  <2>2. n * WordBase = m * WordBase + WordBase + k * WordBase
    BY <1>1, <2>1
  <2>3. k * WordBase \in Nat /\ m * WordBase \in Nat
    BY <1>1, <2>1
  <2> QED BY <1>1, <2>2, <2>3
<1>5. p * WordBase \in Nat /\ q * WordBase \in Nat
  BY <1>1
<1>6. ~(q < p)
  BY <1>1, <1>3, <1>4, <1>5
<1>7. CASE p = q
  BY <1>2, <1>7
<1>8. CASE p < q
  BY <1>1, <1>2, <1>4, <1>8
<1> QED
  BY <1>1, <1>6, <1>7, <1>8

(***************************************************************************)
(* The time since s, as a read whose first word is that of t and whose     *)
(* second word is that of now gives it, is never more than has passed: a   *)
(* carry between the two loads makes it less.                              *)
(***************************************************************************)
LEMMA TornReadIsEarly ==
  ASSUME NEW s \in Nat, NEW t \in Nat, NEW now \in Nat, s <= t, t <= now
  PROVE  Interval(s, HighWord(t) + LowWord(now)) <= now - s
<1> DEFINE val == HighWord(t) + LowWord(now)
<1>1. WordBase \in Nat \ {0}
  BY ProgTimerAssumption
<1>2. /\ HighWord(t) \in Nat /\ LowWord(now) \in Nat /\ HighWord(now) \in Nat
      /\ t < HighWord(t) + WordBase /\ now = HighWord(now) + LowWord(now)
  BY <1>1, Words
<1>3. val = now \/ val + WordBase <= now
  BY <1>1, <1>2, WordApart
<1>4. val \in Nat /\ val >= HighWord(t)
  BY <1>2
<1> HIDE DEF val
<1>5. CASE s <= val
  <2>1. Interval(s, val) = val - s
    BY <1>5 DEF Interval
  <2> QED BY <1>1, <1>3, <1>4, <2>1 DEF val
<1>6. CASE ~(s <= val)
  <2>1. Interval(s, val) = (WordBase - 1 - s + val + 1) % (WordBase * WordBase)
    BY <1>6 DEF Interval
  <2>2. val + WordBase <= now
    BY <1>3, <1>4, <1>6
  <2>3. WordBase - 1 - s + val + 1 = WordBase + val - s
    BY <1>1, <1>4
  <2>4. WordBase + val - s \in 0..(WordBase - 1)
    BY <1>1, <1>2, <1>4, <1>6
  <2>5. WordBase * WordBase \in Nat /\ WordBase <= WordBase * WordBase
    BY <1>1
  <2>6. ASSUME NEW a \in Nat, NEW m \in Nat, a < m PROVE a % m = a
    BY <2>6
  <2>7. Interval(s, val) = WordBase + val - s
    BY <1>1, <2>1, <2>3, <2>4, <2>5, <2>6
  <2> QED BY <1>1, <1>4, <2>2, <2>7 DEF val
<1> QED BY <1>5, <1>6

(***************************************************************************)
(* The ticks that a delay has counted are those since it read the clock,   *)
(* up to the longest delay; the first word of a poll is that of a time     *)
(* since then.                                                             *)
(***************************************************************************)
Delaying == pc \in {"start1", "start2", "now1", "now2"}

DelayInv ==
  /\ waited \in Nat
  /\ Delaying => arg <= MaxDelay
  /\ pc \in {"now1", "now2"} /\ ~torn =>
       start \in Nat /\ start <= current_time /\ (waited >= MaxDelay \/ waited >= current_time - start)
  /\ pc = "now2" /\ ~torn =>
       \E t \in Nat : start <= t /\ t <= current_time /\ half = HighWord(t)

\* the steps of the program that are none of a delay's
LEMMA NoDelay ==
  ASSUME DelayInv, pc' \notin {"start1", "start2", "now1", "now2"}, waited' = waited
  PROVE  DelayInv'
BY DEF DelayInv, Delaying

LEMMA DelayStep == DelayInv /\ ClockInv /\ [Next]_vars => DelayInv'
<1> SUFFICES ASSUME DelayInv, ClockInv, [Next]_vars PROVE DelayInv'
  OBVIOUS
<1>0. current_time \in Nat /\ arg \in Nat /\ waited \in Nat /\ MaxDelay \in Nat
  BY ProgTimerAssumption DEF ClockInv, DelayInv
<1>1. CASE UNCHANGED vars \/ (\E s \in {"tick"} \cup Unmasked : Event(s)) \/ Interrupt
           \/ OtherEntry \/ Loop \/ EnableInterrupts
  <2>1. UNCHANGED <<current_time, waited, torn, arg, pc, half, start>>
    BY <1>1 DEF vars, clockVars, programVars, delayVars, Event, Interrupt, OtherEntry, Loop,
                EnableInterrupts
  <2> QED BY <2>1 DEF DelayInv, Delaying
<1>2. CASE Tick
  <2>1. /\ current_time' = current_time + 1 /\ UNCHANGED <<pc, arg, half, start, torn>>
        /\ waited' = IF waited < MaxDelay THEN waited + 1 ELSE waited
    BY <1>2 DEF Tick, progtimer_handler_bottom, programVars
  <2>2. ASSUME NEW t \in Nat, t <= current_time PROVE t <= current_time'
    BY <1>0, <2>1, <2>2
  <2>3. pc = "now2" /\ ~torn => \E t \in Nat : start <= t /\ t <= current_time' /\ half = HighWord(t)
    BY <2>2 DEF DelayInv
  <2>4. waited' \in Nat /\ (waited' >= MaxDelay \/ waited' = waited + 1)
    BY <1>0, <2>1
  <2>5. pc \in {"now1", "now2"} /\ ~torn =>
          start \in Nat /\ start <= current_time' /\ (waited' >= MaxDelay \/ waited' >= current_time' - start)
    BY <1>0, <2>1, <2>4 DEF DelayInv
  <2> QED
    BY <2>1, <2>3, <2>4, <2>5 DEF DelayInv, Delaying
<1>3. ASSUME NEW t \in Timers, NEW p \in Periods, progtimer_new(t, p)
      PROVE  DelayInv'
  BY <1>3, NoDelay DEF progtimer_new, delayVars
<1>4. ASSUME NEW t \in Timers, NEW p \in Periods, progtimer_set_timer_interval(t, p)
      PROVE  DelayInv'
  BY <1>4, NoDelay DEF progtimer_set_timer_interval, programVars, delayVars
<1>5. ASSUME NEW what, NEW a, EnterCritical(what, a)
      PROVE  DelayInv'
  BY <1>5, NoDelay DEF EnterCritical, delayVars
<1>6. CASE progtimer_init \/ StorePeriod \/ StoreTimerHandler
  BY <1>6, NoDelay DEF progtimer_init, StorePeriod, StoreTimerHandler, delayVars
<1>7. CASE MaskInterrupts \/ StoreTime \/ progtimer_reset_all \/ StoreIrqHandler \/ ExitCritical
           \/ EnableSource
  <2>1. waited' = waited /\ pc' \in {"store", "reset", "exit", "idle", "enable"}
    BY <1>7 DEF MaskInterrupts, StoreTime, progtimer_reset_all, StoreIrqHandler, ExitCritical,
                EnableSource, delayVars
  <2> QED BY <2>1, NoDelay
<1>8. ASSUME NEW d \in 1..MaxDelay, progtimer_delay(d)
      PROVE  DelayInv'
  <2>1. arg' = d /\ waited' = 0 /\ pc' = "start1"
    BY <1>8 DEF progtimer_delay
  <2> QED BY <1>0, <2>1 DEF DelayInv, Delaying
<1>9. CASE ReadHigh("start1", "start2") \/ ReadHigh("now1", "now2")
  <2>1. /\ half' = HighWord(current_time) /\ UNCHANGED <<current_time, waited, torn, arg, start>>
        /\ (pc = "start1" /\ pc' = "start2") \/ (pc = "now1" /\ pc' = "now2")
    BY <1>9 DEF ReadHigh, clockVars, delayVars
  <2> QED BY <1>0, <2>1 DEF DelayInv, Delaying
<1>10. CASE StartRead
  <2>1. /\ pc = "start2" /\ pc' = "now1" /\ start' = half + LowWord(current_time)
        /\ UNCHANGED <<current_time, waited, arg>>
    BY <1>10 DEF StartRead, clockVars
  <2>2. torn' = (HighWord(current_time) # half)
    BY <1>10 DEF StartRead
  <2>3. ~torn' => start' = current_time
    <3>1. ~torn' => HighWord(current_time) = half
      BY <2>2
    <3> QED BY <1>0, <2>1, <3>1, Words
  <2> QED
    BY <1>0, <2>1, <2>3 DEF DelayInv, Delaying
<1>11. CASE Poll
  <2>1. CASE pc' = "idle"
    <3>1. waited' = 0
      BY <1>11, <2>1 DEF Poll
    <3> QED BY <2>1, <3>1 DEF DelayInv, Delaying
  <2>2. CASE pc' # "idle"
    <3>1. pc = "now2" /\ pc' = "now1" /\ UNCHANGED <<current_time, waited, torn, arg, start, half>>
      BY <1>11, <2>2 DEF Poll, clockVars, delayVars
    <3> QED BY <3>1 DEF DelayInv, Delaying
  <2> QED BY <2>1, <2>2
<1> QED
  BY <1>1, <1>2, <1>3, <1>4, <1>5, <1>6, <1>7, <1>8, <1>9, <1>10, <1>11 DEF Next, Dispatch, Program

\* The test that ends a delay.
LEMMA DelayEnds ==
  ASSUME DelayInv, ClockInv, [Next]_vars, pc = "now2", pc' = "idle"
  PROVE  waited >= arg \/ torn
<1> SUFFICES ASSUME ~torn PROVE waited >= arg
  OBVIOUS
<1>0. current_time \in Nat /\ arg \in Nat /\ waited \in Nat /\ MaxDelay \in Nat
  BY ProgTimerAssumption DEF ClockInv, DelayInv
<1>1. Poll
  <2>1. CASE UNCHANGED vars \/ (\E s \in {"tick"} \cup Unmasked : Event(s)) \/ Interrupt \/ Dispatch
    BY <2>1 DEF vars, programVars, Event, Interrupt, Dispatch, Tick, OtherEntry, Loop
  <2>2. CASE Program
    BY <2>2 DEF Program, progtimer_init, EnableInterrupts, progtimer_new, progtimer_set_timer_interval,
                StorePeriod, StoreTimerHandler, EnterCritical, MaskInterrupts, StoreTime,
                progtimer_reset_all, StoreIrqHandler, ExitCritical, EnableSource, progtimer_delay,
                ReadHigh, StartRead
  <2> QED BY <2>1, <2>2 DEF Next
<1>2. PICK t \in Nat : start <= t /\ t <= current_time /\ half = HighWord(t)
  BY DEF DelayInv
<1>3. ~StillWaiting(half + LowWord(current_time))
  BY <1>1 DEF Poll
<1>4. start \in Nat /\ start <= current_time /\ arg <= MaxDelay
      /\ (waited >= MaxDelay \/ waited >= current_time - start)
  BY DEF DelayInv, Delaying
<1> DEFINE val == half + LowWord(current_time)
<1>5. Interval(start, val) <= current_time - start
  BY <1>0, <1>2, <1>4, TornReadIsEarly
<1>6. Interval(start, val) \in Int
  <2>1. half \in Nat /\ LowWord(current_time) \in Nat /\ WordBase \in Nat \ {0}
    BY <1>0, <1>2, Words, ProgTimerAssumption
  <2>2. val \in Nat /\ WordBase * WordBase \in Nat \ {0}
    BY <2>1
  <2> HIDE DEF val
  <2>3. WordBase - 1 - start + val + 1 \in Int
    BY <1>4, <2>1, <2>2
  <2>4. ASSUME NEW a \in Int, NEW m \in Nat \ {0} PROVE a % m \in Int
    BY <2>4
  <2> QED BY <1>4, <2>2, <2>3, <2>4 DEF Interval
<1>7. Interval(start, val) >= arg
  BY <1>0, <1>3, <1>6 DEF StillWaiting
<1> HIDE DEF val
<1> QED
  BY <1>0, <1>4, <1>5, <1>6, <1>7

(***************************************************************************)
(* A delay lasts at least as many ticks as it was asked for                *)
(* (prog_timer.c:235-244), whatever interrupts come between the two loads  *)
(* of its reads, carries of the low word included, unless the carry falls  *)
(* into the read of start_ticks: for every word size, clock and delay.     *)
(***************************************************************************)
THEOREM DelaysAreLongEnough == Spec => DelayLongEnough
<1>1. Init => DelayInv
  BY DEF Init, DelayInv, Delaying
<1>2. DelayInv /\ ClockInv /\ [Next]_vars =>
        [pc = "now2" /\ pc' = "idle" => waited >= arg \/ torn]_vars
  BY DelayEnds
<1> QED
  BY <1>1, <1>2, DelayStep, ClockInit, ClockStep, SectionInvariance, PTL DEF Spec, DelayLongEnough
=============================================================================
