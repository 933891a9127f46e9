----------------------------- MODULE LedPatterns -----------------------------
(***************************************************************************)
(* What the tasks of the LED worker do to the two LEDs: the patterns of    *)
(* hal/src/led.c, as the writes hal/src/PWM.c makes to the device files    *)
(* duty_cycle, period and enable of a LED, one write a step.  The queue    *)
(* and the worker are those of LedQueue; here a task gets its pattern when *)
(* the worker takes it, and is shown when the pattern's last write is      *)
(* done.  doorMod_cli.c also runs one pattern on the main thread ("not     *)
(* queued"), beside whatever the worker is showing.                        *)
(*                                                                         *)
(* Times are in microseconds.  Sleeps are the time between two steps.      *)
(***************************************************************************)
EXTENDS LedQueue, FiniteSets

CONSTANTS
    MaxFaults,       \* bound: how often a device file cannot be opened
    MaxDirect,       \* bound: patterns main shows itself, 0 or 1
    MayBeMissing,    \* the LEDs PWM_export may fail for
    LeftFlashing     \* the LEDs an earlier run of the program may have left on

Leds == {"red", "green"}

ASSUME PatternAssumption ==
    /\ MaxFaults \in Nat /\ MaxDirect \in Nat
    /\ MayBeMissing \subseteq Leds /\ LeftFlashing \subseteq Leds

VARIABLES
    leds,      \* LED -> what its device files hold
    missing,   \* the LEDs that have no device files
    todo,      \* thread -> the calls its pattern has still to make
    shows,     \* the pattern the worker took last
    direct,    \* how many patterns main has begun itself
    faults,    \* bound: opens that failed although the file is there
    spoilt,    \* history: one of them failed during the pattern in shows
    wide       \* history: green's pulse was too wide for a steady light's period
               \* when the worker took that pattern

hardware == <<leds, missing>>
pattern == <<shows, direct, wide>>
pvars == <<vars, hardware, todo, pattern, faults, spoilt>>
Threads == {"worker", "main"}

-----------------------------------------------------------------------------
(* PWM.c.  A call is a list of writes, what is written instead of the rest *)
(* when a file cannot be opened, and the frequency the LED is to get.      *)

Write(led, file, value) == [led |-> led, file |-> file, value |-> value]
Disable(led) == Write(led, "enable", 0)

Clamped(hz) == IF hz > 500 THEN 500 ELSE hz
Period(hz) == 1000000 \div Clamped(hz)
Duty(hz, percent) == (Period(hz) * percent) \div 100

SetFrequency(led, hz, percent) ==
    << Disable(led), Write(led, "period", Period(hz)),
       Write(led, "duty_cycle", Duty(hz, percent)), Write(led, "enable", 1) >>

\* PWM_disable; LED_set_green_steady; LED_blink_red_n, which sleeps before its
\* last write; and the endless flashing of LED_status_*, switched off when
\* PWM_setFrequency fails.
Off(led) == [hz |-> 0, writes |-> <<Disable(led)>>, otherwise |-> <<>>]
Steady(led, percent) ==
    [hz |-> 1000, writes |-> SetFrequency(led, 1000, percent), otherwise |-> <<>>]
MutantBlink(led, hz, percent) ==
    [hz |-> hz, writes |-> SetFrequency(led, hz, percent), otherwise |-> <<>>]
Blink(led, hz, percent) ==
    [hz |-> hz, writes |-> Append(SetFrequency(led, hz, percent), Disable(led)), otherwise |-> <<>>]
Flash(led) == [hz |-> 2, writes |-> SetFrequency(led, 2, 50), otherwise |-> <<Disable(led)>>]

\* What the driver takes: the pulse fits into the period, and a running LED has
\* a period.  A refused write shows in fclose, whose result is not looked at.
Accepts(led, write) ==
    CASE write.file = "period"     -> write.value > 0 /\ write.value >= led.duty_cycle
      [] write.file = "duty_cycle" -> write.value <= led.period
      [] write.file = "enable"     -> write.value = 0 \/ led.period > 0

-----------------------------------------------------------------------------
(* led.c: the pattern of each task, and of main's network error.           *)

Succeeded(percent) == <<Blink("red", 7, 90), Steady("green", percent)>>
Refused == <<Off("green"), Off("red"), Blink("red", 10, 90), Flash("red")>>

Pattern ==
    [ BLINK_RED      |-> <<Blink("red", 2, 50)>>,
      HUB_SUCCESS    |-> <<Steady("green", 50)>>,
      HUB_FAILURE    |-> <<Blink("red", 10, 90)>>,
      NETWORK_ERROR  |-> <<Flash("green")>>,
      DOOR_ERROR     |-> <<Flash("red")>>,
      LOCK_SUCCESS   |-> <<Off("green")>> \o Succeeded(30),
      UNLOCK_SUCCESS |-> <<Off("green"), Off("red")>> \o Succeeded(30),
      LOCK_FAILURE   |-> Refused,
      UNLOCK_FAILURE |-> Refused ]

Kinds == DOMAIN Pattern
Blank == [enable |-> 0, period |-> 0, duty_cycle |-> 0]
Flashing == [enable |-> 1, period |-> Period(2), duty_cycle |-> Duty(2, 50)]

LedInit ==
    /\ leds \in {f \in [Leds -> {Blank, Flashing}] :
                    \A l \in Leds \ LeftFlashing : f[l] = Blank}
    /\ missing \in SUBSET MayBeMissing
    /\ todo = [t \in Threads |-> <<>>]
    /\ shows = "none" /\ direct = 0 /\ wide = FALSE
    /\ faults = 0 /\ spoilt = FALSE

PatternInit == Init /\ LedInit

-----------------------------------------------------------------------------
Busy(t) == todo[t] # <<>>
Call(t) == Head(todo[t])
Write1(t) == Head(Call(t).writes)

\* The thread goes on with what is left of its call, or with its next call.
GoOn(t, writes, otherwise) ==
    todo' = [todo EXCEPT ![t] =
                IF writes = <<>> THEN Tail(@)
                ELSE <<[Head(@) EXCEPT !.writes = writes, !.otherwise = otherwise]>> \o Tail(@)]

\* PWM_setFrequency has made its last write and returns true.
FrequencySet(t) == Write1(t).file = "enable" /\ Write1(t).value = 1

WriteFile(t) ==
    /\ Busy(t)
    /\ LET w == Write1(t) IN
       /\ w.led \notin missing
       /\ leds' = IF Accepts(leds[w.led], w)
                  THEN [leds EXCEPT ![w.led][w.file] = w.value] ELSE leds
    /\ GoOn(t, Tail(Call(t).writes), Call(t).otherwise)
    /\ UNCHANGED <<vars, missing, pattern, faults, spoilt>>

\* fopen fails.  PWM_setFrequency gives up, unless it was at PWM_enable, whose
\* result it does not look at; its caller does what it does otherwise.
OpenFails(t) ==
    /\ Busy(t)
    /\ \/ Write1(t).led \in missing /\ UNCHANGED <<faults, spoilt>>
       \/ /\ Write1(t).led \notin missing /\ faults < MaxFaults
          /\ faults' = faults + 1 /\ spoilt' = TRUE
    /\ GoOn(t, IF FrequencySet(t)
               THEN Tail(Call(t).writes) ELSE Call(t).otherwise, <<>>)
    /\ UNCHANGED <<vars, hardware, pattern>>

-----------------------------------------------------------------------------
(* The worker: LedQueue's steps, with the pattern in the place of the time *)
(* it takes to show a task.                                                *)

Take ==
    /\ WorkerTake
    /\ \E kind \in Kinds :
          /\ shows' = kind
          /\ todo' = [todo EXCEPT !["worker"] = Pattern[kind]]
    /\ spoilt' = (spoilt /\ Busy("main"))
    /\ wide' = (leds["green"].duty_cycle > Period(1000))
    /\ UNCHANGED <<hardware, direct, faults>>

Still == UNCHANGED <<hardware, todo, pattern, faults, spoilt>>

Shown == WorkerShown /\ ~Busy("worker") /\ Still

WorkerStep == Take \/ Shown \/ (WorkerWait /\ Still) \/ (WorkerExit /\ Still)

\* door_reporting_start returned false: main shows LED_status_network_error.
ShowDirectly ==
    /\ main = "up" /\ direct < MaxDirect
    /\ direct' = direct + 1
    /\ todo' = [todo EXCEPT !["main"] = Pattern["NETWORK_ERROR"]]
    /\ UNCHANGED <<vars, hardware, shows, wide, faults, spoilt>>

\* main comes to the shutdown when it has shown its own pattern.
MayShutDown == ~Busy("main")

PatternNext ==
    \/ \E t \in Threads : WriteFile(t) \/ OpenFails(t)
    \/ WorkerStep \/ ShowDirectly
    \/ (InitAgain \/ InitCreates \/ InitFails \/ Joined) /\ Still
    \/ (ShutdownIdle \/ Shutdown) /\ MayShutDown /\ Still
    \/ (Enqueue \/ SpuriousWakeup) /\ Still

(***************************************************************************)
(* Fairness as in LedQueue; a thread that shows a pattern is scheduled.    *)
(***************************************************************************)
PatternSpec ==
    /\ PatternInit /\ [][PatternNext]_pvars
    /\ WF_pvars(WorkerStep)
    /\ WF_pvars(Joined /\ Still)
    /\ \A t \in Threads : WF_pvars(WriteFile(t) \/ OpenFails(t))

-----------------------------------------------------------------------------
\* What the comments of led.c promise of each pattern once it is shown: the
\* LEDs it leaves flashing at 2 Hz, the LED it leaves on steadily, and the LEDs
\* it leaves off.  HUB_SUCCESS is not among them: led.c:26 and led.c:202 promise
\* two red flashes at 7 Hz, and led.c:203 lights green.
Success == {"LOCK_SUCCESS", "UNLOCK_SUCCESS"}
Failed == {"LOCK_FAILURE", "UNLOCK_FAILURE"}
FlashingAfter(kind) ==
    (IF kind \in Failed \cup {"DOOR_ERROR"} THEN {"red"} ELSE {})
        \cup (IF kind = "NETWORK_ERROR" THEN {"green"} ELSE {})
SteadyAfter(kind) == IF kind \in Success THEN {"green"} ELSE {}
LitAfter(kind) == FlashingAfter(kind) \cup SteadyAfter(kind)
DarkAfter(kind) ==
    (IF kind \in Success \cup {"BLINK_RED", "HUB_FAILURE"} THEN {"red"} ELSE {})
        \cup (IF kind \in Failed /\ direct = 0 THEN {"green"} ELSE {})

AtRest == worker \in {"loop", "waiting", "done"} /\ ~Busy("main") /\ shows # "none"
Alone(l) == l = "red" \/ direct = 0

\* Whatever was shown before, whichever pattern failed half way, and however
\* main's own pattern came in between: when the LEDs rest, they tell the
\* outcome of the newest task that was shown (LED by LED, if one is missing).
\* What is lit has a pulse that fits its period; where main had no part in it,
\* a LED that is to flash does so at 2 Hz, and green is steady: its pulse is the
\* one asked for, and so is its period unless the pulse it had before was wider
\* than that period (then PWM_setFrequency leaves the old one: FrequencyAsAsked).
ShowsTheOutcome ==
    AtRest /\ ~spoilt =>
        /\ \A l \in LitAfter(shows) \ missing :
              leds[l].enable = 1 /\ leds[l].duty_cycle \in 1 .. leds[l].period
        /\ \A l \in DarkAfter(shows) \ missing : leds[l].enable = 0
        /\ \A l \in FlashingAfter(shows) \ missing : Alone(l) =>
              leds[l].period = Period(2) /\ leds[l].duty_cycle = Duty(2, 50)
        /\ \A l \in SteadyAfter(shows) \ missing : Alone(l) =>
              /\ leds[l].duty_cycle = Duty(1000, 30)
              /\ wide \/ leds[l].period = Period(1000)

\* PWM.c promises that the "period can shrink safely": when PWM_setFrequency
\* returns true the LED has the frequency it was asked for.
FrequencyAsAsked ==
    [][\A t \in Threads : WriteFile(t) /\ FrequencySet(t) =>
          leds'[Write1(t).led].period = Period(Call(t).hz)]_pvars
=============================================================================
