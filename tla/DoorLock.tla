------------------------------ MODULE DoorLock ------------------------------
(***************************************************************************)
(* The door module program (doorMod_cli): lockDoor, unlockDoor and         *)
(* get_door_status of app/src/doorMod.c, the stepper motor they drive      *)
(* (hal/src/StepperMotor.c), the two threads that call them with no lock   *)
(* between them, and the shutdown of the program.                          *)
(*                                                                         *)
(*   "cli"  main of app/src/doorMod_cli.c, which obeys the terminal, and   *)
(*          at the end runs door_reporting_stop and doorMod_cleanup;       *)
(*   "cmd"  door_cmd_thread of hal/src/door_udp.c, which hands each        *)
(*          COMMAND datagram to app_command_handler and sends FEEDBACK.    *)
(*                                                                         *)
(* A step of the motor, a reading of the sensor and a decision are steps   *)
(* of their own, so the threads interleave wherever the code lets them.    *)
(* The ultrasonic distance is an input: "closed" (below the threshold),    *)
(* "open", or "error" (-1).  LED tasks and UDP reports leave no trace in   *)
(* this state: modules LedQueue and DoorReport hold what they change.         *)
(***************************************************************************)
EXTENDS Naturals, FiniteSets

CONSTANTS
    FullCircle,    \* degrees in a turn: 360
    StepsPerRev,   \* STEPS_PER_REV: 4096
    Movers,        \* the threads whose user asks for LOCK and UNLOCK
    Reporting,     \* main's reporting_running: what door_reporting_start returned
    MaxFaults      \* bound: how many times a motor pin write fails

Threads == {"cli", "cmd"}
Steps == 0 .. StepsPerRev - 1

\* StepperMotor_GetPosition rounds down to a degree, StepperMotor_Rotate
\* rounds a degree to the nearest step.
Degrees(step) == (step * FullCircle) \div StepsPerRev
TargetStep(degrees) == (degrees * StepsPerRev + FullCircle \div 2) \div FullCircle

LockedDegrees == FullCircle \div 2      \* STEPPER_LOCKED_POSITION
UnlockedDegrees == 0                    \* STEPPER_UNLOCKED_POSITION
LockedStep == TargetStep(LockedDegrees)
UnlockedStep == TargetStep(UnlockedDegrees)

ASSUME MotorAssumption ==
    /\ FullCircle \in Nat /\ StepsPerRev \in Nat /\ StepsPerRev > 0
    /\ LockedStep \in Steps /\ UnlockedStep = 0
    /\ LockedStep # UnlockedStep
    /\ \A p \in Steps : Degrees(p) \in Nat
    /\ Degrees(LockedStep) = LockedDegrees
    /\ Degrees(UnlockedStep) = UnlockedDegrees
    /\ LockedDegrees # UnlockedDegrees
ASSUME BoundsAssumption == 
    /\ Movers \subseteq Threads /\ Reporting \in BOOLEAN /\ MaxFaults \in Nat

DoorStates == {"LOCKED", "UNLOCKED", "OPEN", "UNKNOWN"}
Distances == {"closed", "open", "error"}

VARIABLES
    pos,        \* current_step_position
    known,      \* __last_known_door.state
    pc,         \* thread -> where it is
    request,    \* thread -> the operation it runs
    dist,       \* thread -> the distance it has read
    state,      \* thread -> its Door_t: main's door, or the handler's d
    left,       \* thread -> steps its rotation has still to make
    outcome,    \* thread -> what its last rotation returned
    running,    \* g_cmd_running
    faults      \* bound: pin writes that have failed

vars == <<pos, known, pc, request, dist, state, left, outcome, running, faults>>

Idle == [cli |-> "prompt", cmd |-> "recv"]

Init ==
    /\ pos = 0 /\ known = "UNKNOWN"
    /\ pc = Idle
    /\ request = [t \in Threads |-> "none"]
    /\ dist = [t \in Threads |-> "error"]
    /\ state = [t \in Threads |-> "UNKNOWN"]
    /\ left = [t \in Threads |-> 0]
    /\ outcome = [t \in Threads |-> "none"]
    /\ running = TRUE /\ faults = 0

Goto(t, where) == pc' = [pc EXCEPT ![t] = where]
Conclude(t, s) == state' = [state EXCEPT ![t] = s]

IsLocked == Degrees(pos) = LockedDegrees
IsUnlocked == Degrees(pos) = UnlockedDegrees

-----------------------------------------------------------------------------
(* The requests.  The terminal offers l, u and s; a COMMAND datagram says  *)
(* LOCK, UNLOCK, STATUS or something else, which is echoed and no more.    *)

First == [LOCK |-> "sample", UNLOCK |-> "check", STATUS |-> "measure", ECHO |-> "reply"]

Allowed(t) == {"STATUS"} \cup (IF t \in Movers THEN {"LOCK", "UNLOCK"} ELSE {})

Type(r) ==
    /\ pc["cli"] = "prompt" /\ r \in Allowed("cli")
    /\ request' = [request EXCEPT !["cli"] = r]
    /\ Goto("cli", First[r])
    /\ UNCHANGED <<pos, known, dist, state, left, outcome, running, faults>>

\* recvfrom returns a COMMAND for this module: a fresh Door_t, in state UNKNOWN.
Receive(r) ==
    /\ pc["cmd"] = "recv" /\ r \in Allowed("cmd") \cup {"ECHO"}
    /\ request' = [request EXCEPT !["cmd"] = r]
    /\ Conclude("cmd", "UNKNOWN")
    /\ Goto("cmd", First[r])
    /\ UNCHANGED <<pos, known, dist, left, outcome, running, faults>>

\* After a datagram, its own or one it ignores, door_cmd_thread tests
\* g_cmd_running; door_udp_init2 gives the socket no receive timeout, so
\* nothing else makes recvfrom return.
AfterDatagram == IF running THEN "recv" ELSE "ended"

Ignore ==
    /\ pc["cmd"] = "recv"
    /\ Goto("cmd", AfterDatagram)
    /\ UNCHANGED <<pos, known, request, dist, state, left, outcome, running, faults>>

-----------------------------------------------------------------------------
(* lockDoor *)

\* avgDistanceSample, before anything else.
Sample(t) ==
    /\ pc[t] = "sample"
    /\ \E d \in Distances : dist' = [dist EXCEPT ![t] = d]
    /\ Goto(t, "lock")
    /\ UNCHANGED <<pos, known, request, state, left, outcome, running, faults>>

MayThrow(t) == dist[t] = "closed"

LockDecide(t) ==
    /\ pc[t] = "lock"
    /\ \/ IsLocked /\ Goto(t, "report") /\ UNCHANGED state
       \/ ~IsLocked /\ MayThrow(t) /\ Goto(t, "rotate") /\ UNCHANGED state
       \/ /\ ~IsLocked /\ ~MayThrow(t) /\ Goto(t, "report")
          /\ Conclude(t, IF dist[t] = "open" THEN "OPEN" ELSE "UNKNOWN")
    /\ dist' = [dist EXCEPT ![t] = "error"]
    /\ UNCHANGED <<pos, known, request, left, outcome, running, faults>>

-----------------------------------------------------------------------------
(* unlockDoor *)

UnlockCheck(t) ==
    /\ pc[t] = "check"
    /\ Goto(t, IF IsUnlocked THEN "report" ELSE "measure")
    /\ UNCHANGED <<pos, known, request, dist, state, left, outcome, running, faults>>

\* get_distance, in unlockDoor and in get_door_status.
Measure(t) ==
    /\ pc[t] = "measure"
    /\ \E d \in Distances : dist' = [dist EXCEPT ![t] = d]
    /\ Goto(t, IF request[t] = "UNLOCK" THEN "unlock" ELSE "status")
    /\ UNCHANGED <<pos, known, request, state, left, outcome, running, faults>>

\* A bolt that is not at the locked position counts as drawn back unless the
\* last state reported was LOCKED; a failed reading counts as a closed door.
UnlockDecide(t) ==
    /\ pc[t] = "unlock"
    /\ \/ /\ known = "LOCKED" \/ IsLocked
          /\ Goto(t, "rotate") /\ UNCHANGED state
       \/ /\ known # "LOCKED" /\ ~IsLocked
          /\ Goto(t, "report")
          /\ Conclude(t, IF dist[t] = "open" THEN "OPEN" ELSE "UNLOCKED")
    /\ dist' = [dist EXCEPT ![t] = "error"]
    /\ UNCHANGED <<pos, known, request, left, outcome, running, faults>>

(* get_door_status *)
StatusDecide(t) ==
    /\ pc[t] = "status"
    /\ \/ IsLocked /\ Conclude(t, "LOCKED")
       \/ ~IsLocked /\ dist[t] = "closed" /\ Conclude(t, "UNLOCKED")
       \/ ~IsLocked /\ dist[t] = "open" /\ Conclude(t, "OPEN")
       \/ ~IsLocked /\ dist[t] = "error" /\ UNCHANGED state
    /\ dist' = [dist EXCEPT ![t] = "error"]
    /\ Goto(t, "report")
    /\ UNCHANGED <<pos, known, request, left, outcome, running, faults>>

-----------------------------------------------------------------------------
(* StepperMotor_Rotate: the number of steps is computed once, from the     *)
(* position at the start; each step writes the pins, then moves the count. *)

Target(t) == IF request[t] = "UNLOCK" THEN UnlockedStep ELSE LockedStep

MutantShortestWay(t) ==
    IF Target(t) >= pos THEN Target(t) - pos ELSE pos - Target(t)
MutantNoWrap(t) == IF Target(t) >= pos THEN Target(t) - pos ELSE 0
MutantOneStepMore(t) == (Target(t) + StepsPerRev - pos + 1) % StepsPerRev
StepsNeeded(t) == (Target(t) + StepsPerRev - pos) % StepsPerRev

Rotate(t) ==
    /\ pc[t] = "rotate"
    /\ left' = [left EXCEPT ![t] = StepsNeeded(t)]
    /\ Goto(t, "turning")
    /\ UNCHANGED <<pos, known, request, dist, state, outcome, running, faults>>

Turning(t) == pc[t] = "turning"
MutantNextStep == pos + 1
NextStep == (pos + 1) % StepsPerRev

\* Two threads that turn the motor at once race on current_step_position: the
\* increment of one may be lost.
Positions(t) ==
    {NextStep} \cup (IF \E u \in Threads \ {t} : Turning(u) THEN {pos} ELSE {})

Step(t) ==
    /\ Turning(t) /\ left[t] > 0
    /\ pos' \in Positions(t)
    /\ left' = [left EXCEPT ![t] = left[t] - 1]
    /\ UNCHANGED <<known, pc, request, dist, state, outcome, running, faults>>

\* Where a rotation returns to: lockDoor and unlockDoor report next,
\* doorMod_cleanup goes on to stop the reporting a second time.
AfterRotation(t) == IF request[t] = "QUIT" THEN "stop2" ELSE "report"

Arrived == [LOCK |-> "LOCKED", UNLOCK |-> "UNLOCKED"]

RotateDone(t) ==
    /\ Turning(t) /\ left[t] = 0
    /\ outcome' = [outcome EXCEPT ![t] = "ok"]
    /\ IF request[t] = "QUIT" THEN UNCHANGED state ELSE Conclude(t, Arrived[request[t]])
    /\ Goto(t, AfterRotation(t))
    /\ UNCHANGED <<pos, known, request, dist, left, running, faults>>

\* A pin write fails: Rotate returns false where it stands and the caller
\* leaves the Door_t as it was.
RotateFails(t) ==
    /\ Turning(t) /\ left[t] > 0 /\ faults < MaxFaults
    /\ faults' = faults + 1
    /\ outcome' = [outcome EXCEPT ![t] = "failed"]
    /\ left' = [left EXCEPT ![t] = 0]
    /\ Goto(t, AfterRotation(t))
    /\ UNCHANGED <<pos, known, request, dist, state, running>>

-----------------------------------------------------------------------------
(* report_door_state_udp, and the end of an operation.                     *)

MutantReport(t) ==
    /\ pc[t] = "report"
    /\ \/ known' = state[t] /\ Goto(t, "reply")
       \/ UNCHANGED known /\ Goto(t, "recv")
    /\ UNCHANGED <<pos, request, dist, state, left, outcome, running, faults>>

Report(t) ==
    /\ pc[t] = "report"
    /\ \/ known' = state[t]      \* sent: update_last_known_state
       \/ UNCHANGED known        \* the sensor failed: nothing sent, nothing kept
    /\ Goto(t, "reply")
    /\ UNCHANGED <<pos, request, dist, state, left, outcome, running, faults>>

AfterReply(t) == IF t = "cli" THEN "prompt" ELSE AfterDatagram

\* The word of FEEDBACK: the state that STATUS found, or the command's own word,
\* whatever became of it.
Feedback == IF request["cmd"] = "STATUS" THEN state["cmd"] ELSE request["cmd"]

\* The handler sends FEEDBACK; the terminal gets its prompt back.
Reply(t) ==
    /\ pc[t] = "reply"
    /\ request' = [request EXCEPT ![t] = "none"]
    /\ outcome' = [outcome EXCEPT ![t] = "none"]
    /\ Goto(t, AfterReply(t))
    /\ UNCHANGED <<pos, known, dist, state, left, running, faults>>

-----------------------------------------------------------------------------
(* The end of main: door_reporting_stop, doorMod_cleanup.                  *)

Quit ==
    /\ pc["cli"] = "prompt"
    /\ request' = [request EXCEPT !["cli"] = "QUIT"]
    /\ running' = (running /\ ~Reporting)
    /\ Goto("cli", "stopping")
    /\ UNCHANGED <<pos, known, dist, state, left, outcome, faults>>

MutantMayCleanUp == TRUE

\* Only a program whose reporting started waits for g_cmd_thread here.
CommandThreadGone == pc["cmd"] = "ended"
MayCleanUp == Reporting => CommandThreadGone

\* doorMod_cleanup turns the bolt to 180 degrees, the locked position, unless it
\* reads as unlocked.
Cleanup ==
    /\ pc["cli"] = "stopping" /\ MayCleanUp
    /\ Goto("cli", IF IsUnlocked THEN "stop2" ELSE "rotate")
    /\ UNCHANGED <<pos, known, request, dist, state, left, outcome, running, faults>>

\* doorMod_cleanup calls door_reporting_stop, mostly for the second time, and
\* joins a heartbeat thread that is gone or never was: POSIX leaves that
\* undefined, and the call returns or the process dies.
StopAgain ==
    /\ pc["cli"] = "stop2"
    /\ \/ Goto("cli", "crashed") /\ UNCHANGED running
       \/ Goto("cli", "closing") /\ running' = FALSE
    /\ UNCHANGED <<pos, known, request, dist, state, left, outcome, faults>>

\* door_udp_close joins the command thread, if that is still to do.
Exit ==
    /\ pc["cli"] = "closing" /\ CommandThreadGone
    /\ Goto("cli", "exited")
    /\ UNCHANGED <<pos, known, request, dist, state, left, outcome, running, faults>>

-----------------------------------------------------------------------------
Operate(t) ==
    \/ Sample(t) \/ LockDecide(t)
    \/ UnlockCheck(t) \/ Measure(t) \/ UnlockDecide(t) \/ StatusDecide(t)
    \/ Rotate(t) \/ Step(t) \/ RotateDone(t) \/ RotateFails(t)
    \/ Report(t) \/ Reply(t)

Input ==
    \/ \E r \in DOMAIN First : Type(r) \/ Receive(r)
    \/ Ignore \/ Quit

Shutdown == Cleanup \/ StopAgain \/ Exit

Next == Input \/ Shutdown \/ \E t \in Threads : Operate(t)

(***************************************************************************)
(* Fairness: the kernel runs a thread that can go on.  Nobody has to type, *)
(* send a datagram or quit.                                                *)
(***************************************************************************)
Spec ==
    /\ Init /\ [][Next]_vars
    /\ \A t \in Threads : WF_vars(Operate(t))
    /\ WF_vars(Shutdown)

-----------------------------------------------------------------------------
Places == {"prompt", "recv", "sample", "lock", "check", "measure", "unlock", "status",
           "rotate", "turning", "report", "reply", "ended",
           "stopping", "stop2", "closing", "exited", "crashed"}

\* Every variable has its type: the position never leaves the circle.
TypeOK ==
    /\ pos \in Steps /\ known \in DoorStates
    /\ pc \in [Threads -> Places]
    /\ request \in [Threads -> {"LOCK", "UNLOCK", "STATUS", "ECHO", "QUIT", "none"}]
    /\ dist \in [Threads -> Distances]
    /\ state \in [Threads -> DoorStates]
    /\ left \in [Threads -> Steps]
    /\ outcome \in [Threads -> {"none", "ok", "failed"}]
    /\ running \in BOOLEAN /\ faults \in 0 .. MaxFaults

\* A rotation of lockDoor or unlockDoor that returned true left the bolt on its
\* target, and it is still there when the operation reports and replies.  The
\* steps are counted from a position read once, so this is about who else moves
\* the motor meanwhile.  Nothing is said of the clean-up's rotation: doorMod.c:334
\* calls it "Unlock door on cleanup" and line 335 turns to the locked position.
RotationReached ==
    \A t \in Threads : outcome[t] = "ok" /\ request[t] # "QUIT" => pos = Target(t)

\* The motor is never driven by two threads at once: the final rotation of
\* doorMod_cleanup waits for the command thread and any rotation it is in.
OneThreadTurns == Cardinality({t \in Threads : Turning(t)}) <= 1

\* As long as no pin write has failed the bolt rests on one of its two
\* positions: nothing but a fault can leave it half way.
RestsOnTarget ==
    faults = 0 /\ (\A t \in Threads : ~Turning(t)) => pos \in {UnlockedStep, LockedStep}

\* When the handler replies, FEEDBACK to STATUS says LOCKED exactly when the bolt
\* is in the locked position, whatever faults stopped it half way before.  What a
\* LOCK or an UNLOCK concluded, and reports to the hub, is as true: LOCKED only of
\* a locked bolt, UNLOCKED never of one.  (UNLOCKED does not say that the bolt is
\* all the way back.  FEEDBACK to LOCK and UNLOCK says nothing of the bolt: it is
\* sent with the door open, too, where door_udp_handler.c:19 says that its word
\* "means "lock command completed"".)
ReplyIsTrue ==
    pc["cmd"] = "reply" =>
        /\ request["cmd"] = "STATUS" => (Feedback = "LOCKED" <=> IsLocked)
        /\ state["cmd"] = "LOCKED" => IsLocked
        /\ state["cmd"] = "UNLOCKED" => ~IsLocked

\* Every COMMAND the thread takes up ends with FEEDBACK and with the thread
\* back at recvfrom or at its end, whatever the sensor and the motor do.
Answered == request["cmd"] # "none" ~> request["cmd"] = "none" /\ pc["cmd"] \in {"recv", "ended"}

\* door_udp.c:391: the command listener is stopped "so the thread can exit on
\* its recv timeout", hence door_udp_close and the program's exit end.
StopReturns == pc["cli"] = "stopping" ~> pc["cli"] \in {"exited", "crashed"}
=============================================================================
