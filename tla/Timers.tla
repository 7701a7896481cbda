-------------------------------- MODULE Timers --------------------------------
(***************************************************************************)
(* The devices that know the time: rtc_t (rtc.h), two counters of two words,   *)
(* each with an alarm of two words, and deadline_t (deadline.h), whose loads   *)
(* stall until the time it was given has passed.                              *)
(*                                                                         *)
(* In every cycle of simulator_t::run the MW stage accesses the devices first *)
(* and their tick comes after.  The program consists of main and of an        *)
(* interrupt handler that uses the same registers.  A word has the values     *)
(* 0 .. Word - 1.                                                           *)
(***************************************************************************)
EXTENDS Naturals

CONSTANTS
  Counters,     \* of the rtc, those the program uses: "clock", "usec"
  Delays,       \* the values it stores to the deadline device
  Word,
  Frequency,    \* cycles per microsecond
  MaxCycle      \* bound; below the alarm of an rtc that was never set

VARIABLES
  turn, cycle,
  handling,      \* does the handler run?
  high,          \* High_clock, High_usec
  lowInterrupt,  \* Low_interrupt_clock, Low_interrupt_usec
  interrupt,     \* Interrupt_clock, Interrupt_usec
  lastUsec,      \* Last_usec
  delay,         \* Delay_counter
  stalled,       \* a load from the deadline device waits in MW
  value,         \* the word the last load returned
  readLow,       \* of every counter, who read its low word last and when
  wroteLow,      \* who wrote the low word of its alarm last, and which
  alarm,         \* its last alarm: the time it is set to, was set at, and its rings
  issued, release  \* when the load was issued; the time the last store set

program == <<handling, readLow, wroteLow>>
rtc == <<high, lowInterrupt, interrupt>>
deadline == <<delay, stalled, issued, release>>
vars == <<turn, cycle, program, rtc, lastUsec, alarm, deadline, value>>

LOCAL Low(time) == time % Word
LOCAL High(time) == time \div Word
LOCAL Never == Word * Word - 1
Nobody == [by |-> FALSE, time |-> Never]

\* getCycle, getUSec
Time(k, c) == IF k = "clock" THEN c ELSE c \div Frequency

-----------------------------------------------------------------------------
(* Accesses of the MW stage.                                              *)

MW == turn = "MW" /\ turn' = "tick" /\ UNCHANGED <<cycle, lastUsec>>
Runs == MW /\ ~ stalled

\* The low word latches the high one.
ReadLow(k) ==
  /\ Runs
  /\ value' = Low(Time(k, cycle))
  /\ high' = [high EXCEPT ![k] = High(Time(k, cycle))]
  /\ readLow' = [readLow EXCEPT ![k] = [by |-> handling, time |-> Time(k, cycle)]]
  /\ UNCHANGED <<handling, wroteLow, alarm, lowInterrupt, interrupt, deadline>>

\* Faulty: the high word as it is now.
HighNow(k) == High(Time(k, cycle))

HighWord(k) == high[k]

ReadHigh(k) ==
  /\ Runs
  /\ value' = HighWord(k)
  /\ UNCHANGED <<program, rtc, alarm, deadline>>

WriteLow(k, low) ==
  /\ Runs
  /\ lowInterrupt' = [lowInterrupt EXCEPT ![k] = low]
  /\ wroteLow' = [wroteLow EXCEPT ![k] = [by |-> handling, time |-> low]]
  /\ UNCHANGED <<handling, readLow, alarm, high, interrupt, deadline, value>>

\* The high word sets the alarm.  What was meant is known if no other context wrote
\* its low word in between.
WriteHigh(k, h) ==
  /\ Runs
  /\ interrupt' = [interrupt EXCEPT ![k] = h * Word + lowInterrupt[k]]
  /\ alarm' = [alarm EXCEPT ![k] =
       [known |-> wroteLow[k].by = handling /\ wroteLow[k] # Nobody,
        time |-> h * Word + wroteLow[k].time,
        set |-> cycle, rings |-> 0]]
  /\ UNCHANGED <<program, high, lowInterrupt, deadline, value>>

\* Faulty: the tick of this cycle is not accounted for.
DelayWithoutThisTick(n) == n

\* An unsigned word, without a check: the greatest delay wraps to none.
DelayCounter(n) == (n + 1) % Word

StoreDelay(n) ==
  /\ Runs
  /\ delay' = DelayCounter(n)
  /\ release' = cycle + n + 1
  /\ UNCHANGED <<program, rtc, alarm, stalled, issued, value>>

\* A load is repeated until the counter is 0.
LoadDelay ==
  /\ MW /\ Delays # {}
  /\ stalled' = (delay # 0)
  /\ issued' = IF stalled THEN issued ELSE cycle
  /\ value' = IF delay = 0 THEN 0 ELSE value
  /\ UNCHANGED <<program, rtc, alarm, delay, release>>

\* An interrupt is taken, or its handler returns.
Switch ==
  /\ Runs
  /\ handling' = ~ handling
  /\ UNCHANGED <<readLow, wroteLow, rtc, alarm, deadline, value>>

-----------------------------------------------------------------------------
\* Faulty: an alarm rings in every cycle of its microsecond.
RingsRepeatedly(k) == interrupt[k] = Time(k, cycle)

\* rtc_t::tick, the conditions of its two interrupts.
Rings(k) ==
  /\ interrupt[k] = Time(k, cycle)
  /\ k = "usec" => Time(k, cycle) # lastUsec

\* rtc_t::tick and deadline_t::tick
Tick ==
  /\ turn = "tick" /\ turn' = "MW"
  /\ cycle < MaxCycle /\ cycle' = cycle + 1
  /\ lastUsec' = Time("usec", cycle)
  /\ alarm' = [k \in Counters |->
                 [alarm[k] EXCEPT !.rings = @ + IF Rings(k) THEN 1 ELSE 0]]
  /\ delay' = IF delay > 0 THEN delay - 1 ELSE 0
  /\ UNCHANGED <<program, rtc, stalled, issued, release, value>>

Init ==
  /\ turn = "MW" /\ cycle = 0 /\ handling = FALSE
  /\ high = [k \in Counters |-> 0]
  /\ lowInterrupt = [k \in Counters |-> 0]
  /\ interrupt = [k \in Counters |-> Never]
  /\ lastUsec = 0
  /\ delay = 0 /\ stalled = FALSE /\ value = 0
  /\ readLow = [k \in Counters |-> Nobody]
  /\ wroteLow = [k \in Counters |-> Nobody]
  /\ alarm = [k \in Counters |-> [known |-> FALSE, time |-> Never, set |-> 0, rings |-> 0]]
  /\ issued = 0 /\ release = 0

Next ==
  \/ \E k \in Counters :
       \/ ReadLow(k) \/ ReadHigh(k)
       \/ \E word \in 0 .. Word - 1 : WriteLow(k, word) \/ WriteHigh(k, word)
  \/ \E n \in Delays : StoreDelay(n)
  \/ LoadDelay
  \/ Switch
  \/ Tick

Spec == Init /\ [][Next]_vars

-----------------------------------------------------------------------------
\* A context that reads the low word of a counter and then, whatever has passed, the
\* high one, has the time of the first read, if nobody read the low word in between.
ReadsOneTime ==
  \A k \in Counters :
    ReadHigh(k) /\ readLow[k] # Nobody /\ readLow[k].by = handling =>
      value' * Word + Low(readLow[k].time) = readLow[k].time

\* Had the time of the alarm come before this cycle?  Microsecond 0 has begun with the
\* run.
LOCAL Come(k, c) ==
  \/ c > 0 /\ alarm[k].time <= Time(k, c - 1)
  \/ k = "usec" /\ alarm[k].time = 0

\* An alarm that one context has set rings once when its time comes, and never if it
\* had come before.
RingsOnce ==
  \A k \in Counters :
    alarm[k].known /\ turn = "MW" =>
      alarm[k].rings = IF Come(k, cycle) /\ ~ Come(k, alarm[k].set) THEN 1 ELSE 0

\* "A load to the device will stall the processor for the number of ticks left in the
\* device" (deadline.h:37): it returns when the time that was stored has come, or at
\* once if it has passed.
WaitsExactly ==
  LoadDelay /\ ~ stalled' =>
    cycle = IF release > issued' THEN release ELSE issued'
LoadsWaitExactly == [][WaitsExactly]_vars
=============================================================================
