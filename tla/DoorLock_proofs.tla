--------------------------- MODULE DoorLock_proofs ---------------------------
(***************************************************************************)
(* Proofs about the door module, for every motor and every number of pin   *)
(* faults: the types whoever asks for motion, and what the motor does and  *)
(* the replies say under the use that keeps it safe: one of the two users, *)
(* at the terminal or at the hub, asks to lock and unlock.                 *)
(***************************************************************************)
EXTENDS DoorLock, FiniteSetTheorems, TLAPS

\* One thread moves the bolt while the program runs.
OneMover == Movers = {"cmd"} /\ Reporting = TRUE

\* The terminal's thread turns the motor only at the very end, when the
\* command thread is gone.
CliInv ==
    /\ request["cli"] \in {"STATUS", "QUIT", "none"}
    /\ pc["cli"] \in {"rotate", "turning", "stop2", "closing", "exited", "crashed"}
            => request["cli"] = "QUIT" /\ pc["cmd"] = "ended"
    /\ request["cli"] # "QUIT"
            => pc["cli"] \in {"prompt", "measure", "status", "report", "reply"}
               /\ outcome["cli"] = "none"
    /\ request["cli"] = "QUIT"
            => pc["cli"] \in {"stopping", "rotate", "turning", "stop2", "closing", "exited", "crashed"}
    /\ pc["cli"] \in {"stopping", "rotate", "turning"} => outcome["cli"] = "none"

\* What the command thread does, by where it is.
CmdInv ==
    /\ pc["cmd"] \in {"sample", "lock"} => request["cmd"] = "LOCK"
    /\ pc["cmd"] \in {"check", "unlock"} => request["cmd"] = "UNLOCK"
    /\ pc["cmd"] = "measure" => request["cmd"] \in {"UNLOCK", "STATUS"}
    /\ pc["cmd"] = "status" => request["cmd"] = "STATUS"
    /\ pc["cmd"] \in {"rotate", "turning"} => request["cmd"] \in {"LOCK", "UNLOCK"}
    /\ pc["cmd"] \in {"report"} => request["cmd"] \in {"LOCK", "UNLOCK", "STATUS"}
    /\ pc["cmd"] = "reply" => request["cmd"] \in {"LOCK", "UNLOCK", "STATUS", "ECHO"}
    /\ pc["cmd"] \in {"recv", "ended", "sample", "lock", "check", "measure", "unlock",
                      "status", "rotate", "turning", "report", "reply"}
    /\ pc["cmd"] \notin {"report", "reply"} => outcome["cmd"] = "none"
    /\ pc["cmd"] \notin {"report", "reply", "recv", "ended"} => state["cmd"] = "UNKNOWN"

\* The steps a rotation has left lead to its target.
TurnInv ==
    \A t \in Threads : Turning(t) =>
        pos + left[t] = Target(t) \/ pos + left[t] = Target(t) + StepsPerRev

\* Every rotation that returned true, the clean-up's with them, ended on the
\* target it had counted its steps to.
Reached == \A t \in Threads : outcome[t] = "ok" => pos = Target(t)

\* What the command thread has concluded about the bolt, before it replies.
StateInv ==
    pc["cmd"] \in {"report", "reply"} =>
        /\ state["cmd"] = "LOCKED" => IsLocked
        /\ state["cmd"] = "UNLOCKED" => ~IsLocked
        /\ request["cmd"] = "STATUS" /\ IsLocked => state["cmd"] = "LOCKED"

IInv == TypeOK /\ CliInv /\ CmdInv /\ TurnInv /\ Reached /\ RestsOnTarget /\ StateInv

-----------------------------------------------------------------------------
\* The steps counted at the start of a rotation lead to its target.
LEMMA StepsLeadToTarget ==
    ASSUME NEW p \in Steps, NEW goal \in Steps
    PROVE  LET n == (goal + StepsPerRev - p) % StepsPerRev
           IN  n \in Steps /\ (p + n = goal \/ p + n = goal + StepsPerRev)
  <1> DEFINE x == goal + StepsPerRev - p
  <1>1. StepsPerRev \in Nat /\ StepsPerRev > 0
    BY MotorAssumption
  <1>2. x \in Nat /\ x > 0 /\ x < 2 * StepsPerRev
    BY <1>1 DEF Steps
  <1>3. x % StepsPerRev = IF x < StepsPerRev THEN x ELSE x - StepsPerRev
    <2> HIDE DEF x
    <2>1. CASE x < StepsPerRev  BY <1>1, <1>2, <2>1, SMT
    <2>2. CASE x >= StepsPerRev BY <1>1, <1>2, <2>2, SMT
    <2> QED BY <1>1, <1>2, <2>1, <2>2
  <1> QED BY <1>1, <1>2, <1>3 DEF Steps

\* The position after a step is again on the circle.
LEMMA NextStepValue ==
    ASSUME pos \in Steps
    PROVE  /\ NextStep \in Steps
           /\ NextStep = IF pos = StepsPerRev - 1 THEN 0 ELSE pos + 1
  <1>1. StepsPerRev \in Nat /\ StepsPerRev > 0
    BY MotorAssumption
  <1>2. CASE pos = StepsPerRev - 1
    BY <1>1, <1>2, SMT DEF NextStep, Steps
  <1>3. CASE pos # StepsPerRev - 1
    BY <1>1, <1>3, SMT DEF NextStep, Steps
  <1> QED BY <1>2, <1>3

LEMMA TargetIsStep == ASSUME NEW t \in Threads PROVE Target(t) \in Steps /\ Target(t) < StepsPerRev
  BY MotorAssumption DEF Target, Steps

-----------------------------------------------------------------------------
LEMMA InitIInv == OneMover /\ Init => IInv
  BY MotorAssumption, BoundsAssumption
     DEF Init, IInv, TypeOK, CliInv, CmdInv, TurnInv, Reached, RestsOnTarget, StateInv,
         Idle, Threads, Steps, Turning, DoorStates, Places, Distances

\* Commands, terminal input and the quit.
LEMMA InputIInv == OneMover /\ IInv /\ Input => IInv'
  <1> SUFFICES ASSUME OneMover, IInv, Input PROVE IInv'
    OBVIOUS
  <1> USE MotorAssumption, BoundsAssumption
  <1>1. ASSUME NEW r \in DOMAIN First, Type(r) PROVE IInv'
    BY <1>1
       DEF Type, Allowed, First, Goto, OneMover,
           IInv, TypeOK, CliInv, CmdInv, TurnInv, Reached, RestsOnTarget, StateInv,
           Threads, Turning, Target, Places, IsLocked, IsUnlocked
  <1>2. ASSUME NEW r \in DOMAIN First, Receive(r) PROVE IInv'
    BY <1>2
       DEF Receive, Allowed, First, Goto, Conclude, OneMover, DoorStates,
           IInv, TypeOK, CliInv, CmdInv, TurnInv, Reached, RestsOnTarget, StateInv,
           Threads, Turning, Target, Places, IsLocked, IsUnlocked
  <1>3. CASE Ignore
    BY <1>3
       DEF Ignore, AfterDatagram, Goto,
           IInv, TypeOK, CliInv, CmdInv, TurnInv, Reached, RestsOnTarget, StateInv,
           Threads, Turning, Target, Places, IsLocked, IsUnlocked
  <1>4. CASE Quit
    BY <1>4
       DEF Quit, Goto,
           IInv, TypeOK, CliInv, CmdInv, TurnInv, Reached, RestsOnTarget, StateInv,
           Threads, Turning, Target, Places, IsLocked, IsUnlocked
  <1> QED BY <1>1, <1>2, <1>3, <1>4 DEF Input

-----------------------------------------------------------------------------
\* The decisions: what each concludes about the bolt is what it reads.
LEMMA DecideIInv ==
    ASSUME OneMover, IInv, NEW t \in Threads,
           Sample(t) \/ LockDecide(t) \/ UnlockCheck(t) \/ Measure(t) \/ UnlockDecide(t) \/ StatusDecide(t)
    PROVE  IInv'
  <1> USE MotorAssumption, BoundsAssumption
  <1>1. CASE Sample(t)
    BY <1>1
       DEF Sample, Goto, Distances,
           IInv, TypeOK, CliInv, CmdInv, TurnInv, Reached, RestsOnTarget, StateInv,
           Threads, Turning, Target, Places, IsLocked, IsUnlocked
  <1>2. CASE LockDecide(t)
    BY <1>2
       DEF LockDecide, MayThrow, Goto, Conclude, Distances, DoorStates,
           IInv, TypeOK, CliInv, CmdInv, TurnInv, Reached, RestsOnTarget, StateInv,
           Threads, Turning, Target, Places, IsLocked, IsUnlocked
  <1>3. CASE UnlockCheck(t)
    BY <1>3
       DEF UnlockCheck, Goto,
           IInv, TypeOK, CliInv, CmdInv, TurnInv, Reached, RestsOnTarget, StateInv,
           Threads, Turning, Target, Places, IsLocked, IsUnlocked
  <1>4. CASE Measure(t)
    BY <1>4
       DEF Measure, Goto, Distances,
           IInv, TypeOK, CliInv, CmdInv, TurnInv, Reached, RestsOnTarget, StateInv,
           Threads, Turning, Target, Places, IsLocked, IsUnlocked
  <1>5. CASE UnlockDecide(t)
    BY <1>5
       DEF UnlockDecide, Goto, Conclude, Distances, DoorStates,
           IInv, TypeOK, CliInv, CmdInv, TurnInv, Reached, RestsOnTarget, StateInv,
           Threads, Turning, Target, Places, IsLocked, IsUnlocked
  <1>6. CASE StatusDecide(t)
    BY <1>6
       DEF StatusDecide, Goto, Conclude, Distances, DoorStates,
           IInv, TypeOK, CliInv, CmdInv, TurnInv, Reached, RestsOnTarget, StateInv,
           Threads, Turning, Target, Places, IsLocked, IsUnlocked
  <1> QED BY <1>1, <1>2, <1>3, <1>4, <1>5, <1>6

\* Only one of the two threads can be turning.
LEMMA TurnsAlone ==
    ASSUME CliInv, CmdInv, NEW t \in Threads, Turning(t)
    PROVE  \A u \in Threads : Turning(u) => u = t
  BY DEF CliInv, CmdInv, Threads, Turning

\* The motor: a rotation that ends on its target rests there.
LEMMA TurnIInv ==
    ASSUME OneMover, IInv, NEW t \in Threads,
           Rotate(t) \/ Step(t) \/ RotateDone(t) \/ RotateFails(t)
    PROVE  IInv'
  <1> USE MotorAssumption, BoundsAssumption
  <1>1. CASE Rotate(t)
    <2>1. pos \in Steps /\ Target(t) \in Steps
      BY TargetIsStep DEF IInv, TypeOK
    <2>2. /\ StepsNeeded(t) \in Steps
          /\ \/ pos + StepsNeeded(t) = Target(t)
             \/ pos + StepsNeeded(t) = Target(t) + StepsPerRev
      BY <2>1, StepsLeadToTarget DEF StepsNeeded
    <2> HIDE DEF StepsNeeded
    <2> QED
      BY <1>1, <2>2
         DEF Rotate, Goto, IInv, TypeOK, CliInv, CmdInv, TurnInv, Reached, RestsOnTarget,
             StateInv, Threads, Turning, Target, Places, IsLocked, IsUnlocked
  <1>2. CASE Step(t)
    <2>1. pos' = NextStep
      BY <1>2, TurnsAlone DEF Step, Positions, IInv
    <2>2. NextStep \in Steps /\ NextStep = IF pos = StepsPerRev - 1 THEN 0 ELSE pos + 1
      BY NextStepValue DEF IInv, TypeOK
    <2>3. left[t] \in Nat /\ left[t] > 0 /\ left[t] < StepsPerRev
          /\ Target(t) \in Nat /\ Target(t) < StepsPerRev /\ pos \in Nat /\ pos < StepsPerRev
      BY <1>2, TargetIsStep DEF Step, IInv, TypeOK, Steps
    <2>4. \/ pos + left[t] = Target(t)
          \/ pos + left[t] = Target(t) + StepsPerRev
      BY <1>2 DEF Step, IInv, TurnInv
    <2>5. /\ left[t] - 1 \in Steps
          /\ \/ NextStep + (left[t] - 1) = Target(t)
             \/ NextStep + (left[t] - 1) = Target(t) + StepsPerRev
      BY <2>2, <2>3, <2>4, SMT DEF Steps
    <2>6. \A u \in Threads : Turning(u) => u = t
      BY <1>2, TurnsAlone DEF Step, IInv
    <2> HIDE DEF NextStep
    <2>7. TypeOK' /\ CliInv' /\ CmdInv'
      BY <1>2, <2>1, <2>2, <2>5
         DEF Step, IInv, TypeOK, CliInv, CmdInv, Threads, Places
    <2>8. TurnInv'
      BY <1>2, <2>1, <2>5, <2>6
         DEF Step, IInv, TypeOK, TurnInv, Turning, Target
    <2>9. Reached'
      <3>1. \A u \in Threads : outcome[u] # "ok"
        BY <1>2 DEF Step, IInv, CliInv, CmdInv, Turning, Threads
      <3> QED BY <1>2, <3>1 DEF Step, Reached
    <2>10. RestsOnTarget'
      BY <1>2 DEF Step, RestsOnTarget, Turning
    <2>11. StateInv'
      BY <1>2 DEF Step, Turning, IInv, CliInv, CmdInv, StateInv, Threads
    <2> QED BY <2>7, <2>8, <2>9, <2>10, <2>11 DEF IInv
  <1>3. CASE RotateDone(t)
    <2>1. pos = Target(t)
      BY <1>3, TargetIsStep, SMT DEF RotateDone, IInv, TypeOK, TurnInv, Steps, Turning
    <2>2. TypeOK' /\ CliInv' /\ CmdInv' /\ TurnInv'
      BY <1>3
         DEF RotateDone, Goto, Conclude, AfterRotation, Arrived, IInv, TypeOK, CliInv, CmdInv,
             TurnInv, Threads, Turning, Target, Places, DoorStates
    <2>3. Reached' /\ RestsOnTarget'
      BY <1>3, <2>1
         DEF RotateDone, Goto, AfterRotation, IInv, TypeOK, Reached, RestsOnTarget,
             Threads, Turning, Target
    <2>4. StateInv'
      <3>1. CASE t = "cmd"
        BY <1>3, <2>1, <3>1
           DEF RotateDone, Conclude, Arrived, IInv, TypeOK, CmdInv, StateInv, Turning, Target,
               IsLocked, IsUnlocked, Threads
      <3>2. CASE t = "cli"
        BY <1>3, <3>2
           DEF RotateDone, Goto, AfterRotation, IInv, TypeOK, CliInv, StateInv, Turning,
               IsLocked, IsUnlocked, Threads
      <3> QED BY <3>1, <3>2 DEF Threads
    <2> QED BY <2>2, <2>3, <2>4 DEF IInv
  <1>4. CASE RotateFails(t)
    BY <1>4
       DEF RotateFails, Goto, AfterRotation,
           IInv, TypeOK, CliInv, CmdInv, TurnInv, Reached, RestsOnTarget, StateInv,
           Threads, Turning, Target, Places, Steps, IsLocked, IsUnlocked
  <1> QED BY <1>1, <1>2, <1>3, <1>4

\* The end of an operation, and the end of the program.
LEMMA EndIInv ==
    ASSUME OneMover, IInv, (\E t \in Threads : Report(t) \/ Reply(t)) \/ Shutdown
    PROVE  IInv'
  <1> USE MotorAssumption, BoundsAssumption
  <1>1. ASSUME NEW t \in Threads, Report(t) PROVE IInv'
    BY <1>1
       DEF Report, Goto,
           IInv, TypeOK, CliInv, CmdInv, TurnInv, Reached, RestsOnTarget, StateInv,
           Threads, Turning, Target, Places, IsLocked, IsUnlocked
  <1>2. ASSUME NEW t \in Threads, Reply(t) PROVE IInv'
    BY <1>2
       DEF Reply, Goto, AfterReply, AfterDatagram,
           IInv, TypeOK, CliInv, CmdInv, TurnInv, Reached, RestsOnTarget, StateInv,
           Threads, Turning, Target, Places, IsLocked, IsUnlocked
  <1>3. CASE Cleanup
    BY <1>3
       DEF Cleanup, MayCleanUp, CommandThreadGone, OneMover, Goto,
           IInv, TypeOK, CliInv, CmdInv, TurnInv, Reached, RestsOnTarget, StateInv,
           Threads, Turning, Target, Places, IsLocked, IsUnlocked
  <1>4. CASE StopAgain
    BY <1>4
       DEF StopAgain, Goto,
           IInv, TypeOK, CliInv, CmdInv, TurnInv, Reached, RestsOnTarget, StateInv,
           Threads, Turning, Target, Places, IsLocked, IsUnlocked
  <1>5. CASE Exit
    BY <1>5
       DEF Exit, Goto,
           IInv, TypeOK, CliInv, CmdInv, TurnInv, Reached, RestsOnTarget, StateInv,
           Threads, Turning, Target, Places, IsLocked, IsUnlocked
  <1> QED BY <1>1, <1>2, <1>3, <1>4, <1>5 DEF Shutdown

\* Nothing depends on a variable that a stuttering step could change.
LEMMA StutterIInv == IInv /\ UNCHANGED vars => IInv'
  BY DEF vars, IInv, TypeOK, CliInv, CmdInv, TurnInv, Reached, RestsOnTarget, StateInv,
         Turning, Target, IsLocked, IsUnlocked

\* The invariant holds in every state of every behaviour in which one thread
\* moves the bolt.
THEOREM Invariant == ASSUME OneMover PROVE Spec => []IInv
  <1>1. Init => IInv
    BY InitIInv
  <1>2. IInv /\ [Next]_vars => IInv'
    <2> SUFFICES ASSUME IInv, [Next]_vars PROVE IInv'
      OBVIOUS
    <2>1. CASE Input    BY <2>1, InputIInv
    <2>2. CASE Shutdown BY <2>2, EndIInv
    <2>3. ASSUME NEW t \in Threads, Operate(t) PROVE IInv'
      BY <2>3, DecideIInv, TurnIInv, EndIInv DEF Operate
    <2>4. CASE UNCHANGED vars BY <2>4, StutterIInv
    <2> QED BY <2>1, <2>2, <2>3, <2>4 DEF Next
  <1> QED BY <1>1, <1>2, PTL DEF Spec

\* When app_command_handler replies, a STATUS says LOCKED exactly when the bolt is
\* locked, and what a LOCK or UNLOCK concluded, and reported, is no claim against
\* the bolt: for any number of pin faults.
THEOREM RepliesAreTrue == ASSUME OneMover PROVE Spec => []ReplyIsTrue
  <1>1. IInv => ReplyIsTrue BY DEF IInv, StateInv, ReplyIsTrue, Feedback
  <1> QED BY <1>1, Invariant, PTL

\* No two threads turn when one that turns does so alone.
LEMMA AloneIsOne ==
    ASSUME \A t, u \in Threads : Turning(t) /\ Turning(u) => u = t
    PROVE  OneThreadTurns
  <1> DEFINE T == {t \in Threads : Turning(t)}
  <1>1. CASE T = {}
    BY <1>1, FS_EmptySet DEF OneThreadTurns
  <1>2. CASE T # {}
    <2>1. PICK t \in Threads : Turning(t)
      BY <1>2
    <2>2. T = {t}
      BY <2>1
    <2>3. Cardinality(T) = 1
      BY <2>2, FS_Singleton
    <2> QED BY <2>3 DEF OneThreadTurns
  <1> QED BY <1>1, <1>2

-----------------------------------------------------------------------------
(* Any number of movers: two rotations at once included.                   *)

\* What a thread is asked to do goes with where it is.
AskedInv ==
    \A t \in Threads :
        /\ pc[t] \in {"sample", "lock"} => request[t] = "LOCK"
        /\ pc[t] \in {"check", "unlock"} => request[t] = "UNLOCK"
        /\ pc[t] = "measure" => request[t] \in {"UNLOCK", "STATUS"}
        /\ pc[t] \in {"rotate", "turning"} => request[t] \in {"LOCK", "UNLOCK", "QUIT"}
        /\ pc[t] = "stopping" => request[t] = "QUIT"

TypeInv == TypeOK /\ AskedInv

LEMMA InputTypeInv == TypeInv /\ Input => TypeInv'
  <1> SUFFICES ASSUME TypeInv, Input PROVE TypeInv'
    OBVIOUS
  <1>1. ASSUME NEW r \in DOMAIN First, Type(r) PROVE TypeInv'
    BY <1>1 DEF Type, Allowed, First, Goto, TypeInv, TypeOK, AskedInv, Threads, Places
  <1>2. ASSUME NEW r \in DOMAIN First, Receive(r) PROVE TypeInv'
    BY <1>2 DEF Receive, Allowed, First, Goto, Conclude, TypeInv, TypeOK, AskedInv, Threads, Places,
                DoorStates
  <1>3. CASE Ignore
    BY <1>3 DEF Ignore, AfterDatagram, Goto, TypeInv, TypeOK, AskedInv, Threads, Places
  <1>4. CASE Quit
    <2>1. running' \in BOOLEAN
      BY <1>4, BoundsAssumption, Zenon DEF Quit, TypeInv, TypeOK
    <2> QED BY <1>4, <2>1 DEF Quit, Goto, TypeInv, TypeOK, AskedInv, Threads, Places
  <1> QED BY <1>1, <1>2, <1>3, <1>4 DEF Input

LEMMA DecideTypeInv ==
    ASSUME TypeInv, NEW t \in Threads,
           Sample(t) \/ LockDecide(t) \/ UnlockCheck(t) \/ Measure(t) \/ UnlockDecide(t) \/ StatusDecide(t)
    PROVE  TypeInv'
  <1>1. CASE Sample(t)
    BY <1>1 DEF Sample, Goto, Distances, TypeInv, TypeOK, AskedInv, Places
  <1>2. CASE LockDecide(t)
    BY <1>2 DEF LockDecide, Goto, Conclude, Distances, DoorStates, TypeInv, TypeOK, AskedInv, Places
  <1>3. CASE UnlockCheck(t)
    BY <1>3 DEF UnlockCheck, Goto, TypeInv, TypeOK, AskedInv, Places
  <1>4. CASE Measure(t)
    BY <1>4 DEF Measure, Goto, Distances, TypeInv, TypeOK, AskedInv, Places
  <1>5. CASE UnlockDecide(t)
    BY <1>5 DEF UnlockDecide, Goto, Conclude, Distances, DoorStates, TypeInv, TypeOK, AskedInv, Places
  <1>6. CASE StatusDecide(t)
    BY <1>6 DEF StatusDecide, Goto, Conclude, Distances, DoorStates, TypeInv, TypeOK, AskedInv, Places
  <1> QED BY <1>1, <1>2, <1>3, <1>4, <1>5, <1>6

\* A step of one thread that another undoes leaves the position on the circle.
LEMMA TurnTypeInv ==
    ASSUME TypeInv, NEW t \in Threads,
           Rotate(t) \/ Step(t) \/ RotateDone(t) \/ RotateFails(t) \/ Report(t) \/ Reply(t)
    PROVE  TypeInv'
  <1>1. CASE Rotate(t)
    <2>1. StepsNeeded(t) \in Steps
      BY TargetIsStep, StepsLeadToTarget DEF StepsNeeded, TypeInv, TypeOK
    <2> HIDE DEF StepsNeeded
    <2> QED BY <1>1, <2>1 DEF Rotate, Goto, TypeInv, TypeOK, AskedInv, Places
  <1>2. CASE Step(t)
    <2>1. NextStep \in Steps /\ pos \in Steps
      BY NextStepValue DEF TypeInv, TypeOK
    <2>2. pos' \in Steps
      BY <1>2, <2>1 DEF Step, Positions
    <2>3. left[t] - 1 \in Steps
      BY <1>2, MotorAssumption DEF Step, TypeInv, TypeOK, Steps
    <2> QED BY <1>2, <2>2, <2>3 DEF Step, TypeInv, TypeOK, AskedInv
  <1>3. CASE RotateDone(t)
    BY <1>3 DEF RotateDone, Goto, Conclude, AfterRotation, Arrived, Turning, DoorStates,
                TypeInv, TypeOK, AskedInv, Places
  <1>4. CASE RotateFails(t)
    BY <1>4, MotorAssumption, BoundsAssumption
       DEF RotateFails, Goto, AfterRotation, Turning, Steps, TypeInv, TypeOK, AskedInv, Places
  <1>5. CASE Report(t) \/ Reply(t)
    BY <1>5 DEF Report, Reply, Goto, AfterReply, AfterDatagram, TypeInv, TypeOK, AskedInv, Places
  <1> QED BY <1>1, <1>2, <1>3, <1>4, <1>5

LEMMA ShutdownTypeInv == TypeInv /\ Shutdown => TypeInv'
  <1> SUFFICES ASSUME TypeInv, Shutdown PROVE TypeInv'
    OBVIOUS
  <1>1. running' \in BOOLEAN
    BY Zenon DEF Shutdown, Cleanup, StopAgain, Exit, TypeInv, TypeOK
  <1>2. CASE Cleanup
    <2>1. request["cli"] = "QUIT"
      BY <1>2 DEF Cleanup, TypeInv, AskedInv, Threads
    <2> QED BY <1>1, <1>2, <2>1 DEF Cleanup, Goto, TypeInv, TypeOK, AskedInv, Places, Threads
  <1>3. CASE StopAgain \/ Exit
    BY <1>1, <1>3 DEF StopAgain, Exit, Goto, TypeInv, TypeOK, AskedInv, Places, Threads
  <1> QED BY <1>2, <1>3 DEF Shutdown

\* Every variable keeps its type, and the position never leaves the circle,
\* though both threads turn the motor at once and undo each other's steps.
THEOREM TypeCorrect == Spec => []TypeOK
  <1>1. Init => TypeInv
    BY MotorAssumption, BoundsAssumption
       DEF Init, Idle, TypeInv, TypeOK, AskedInv, Threads, Steps, DoorStates, Places, Distances
  <1>2. TypeInv /\ [Next]_vars => TypeInv'
    <2> SUFFICES ASSUME TypeInv, [Next]_vars PROVE TypeInv'
      OBVIOUS
    <2>1. CASE Input    BY <2>1, InputTypeInv
    <2>2. CASE Shutdown BY <2>2, ShutdownTypeInv
    <2>3. ASSUME NEW t \in Threads, Operate(t) PROVE TypeInv'
      BY <2>3, DecideTypeInv, TurnTypeInv DEF Operate
    <2>4. CASE UNCHANGED vars
      BY <2>4 DEF vars, TypeInv, TypeOK, AskedInv
    <2> QED BY <2>1, <2>2, <2>3, <2>4 DEF Next
  <1> QED BY <1>1, <1>2, PTL DEF Spec, TypeInv

-----------------------------------------------------------------------------
(* The other way to have one mover: only the terminal's user asks for      *)
(* motion, or nobody does.  Whether the reporting started does not matter, *)
(* for the command thread never turns the motor.                           *)

TerminalMover == Movers \subseteq {"cli"}

\* The command thread does not turn; a rotation of the terminal's leads to its
\* target, and what it returned is kept until the operation is over.
TerminalInv ==
    /\ pc["cmd"] \in {"recv", "ended", "measure", "status", "report", "reply"}
    /\ request["cmd"] \in {"none", "STATUS", "ECHO"} /\ outcome["cmd"] = "none"
    /\ outcome["cli"] # "none" =>
          \/ pc["cli"] \in {"report", "reply"}
          \/ pc["cli"] \in {"stop2", "closing", "exited", "crashed"} /\ request["cli"] = "QUIT"
    /\ pc["cli"] \in {"stop2", "closing", "exited", "crashed"} => request["cli"] = "QUIT"

TerminalIInv == TypeInv /\ TerminalInv /\ TurnInv /\ Reached /\ RestsOnTarget

LEMMA TerminalInput == TerminalMover /\ TerminalIInv /\ Input => TerminalIInv'
  <1> SUFFICES ASSUME TerminalMover, TerminalIInv, Input PROVE TerminalIInv'
    OBVIOUS
  <1>1. TypeInv'
    BY InputTypeInv DEF TerminalIInv
  <1>2. ASSUME NEW r \in DOMAIN First, Type(r) PROVE TerminalIInv'
    BY <1>1, <1>2
       DEF Type, Allowed, First, Goto, TerminalIInv, TerminalInv, TurnInv, Reached,
           RestsOnTarget, TypeInv, TypeOK, Threads, Turning, Target
  <1>3. ASSUME NEW r \in DOMAIN First, Receive(r) PROVE TerminalIInv'
    <2>1. r \in {"STATUS", "ECHO"}
      BY <1>3 DEF Receive, Allowed, TerminalMover
    <2> QED
      BY <1>1, <1>3, <2>1
         DEF Receive, First, Goto, Conclude, TerminalIInv, TerminalInv, TurnInv, Reached,
             RestsOnTarget, TypeInv, TypeOK, Threads, Turning, Target
  <1>4. CASE Ignore \/ Quit
    BY <1>1, <1>4
       DEF Ignore, AfterDatagram, Quit, Goto, TerminalIInv, TerminalInv, TurnInv,
           Reached, RestsOnTarget, TypeInv, TypeOK, Threads, Turning, Target
  <1> QED BY <1>2, <1>3, <1>4 DEF Input

LEMMA TerminalDecides ==
    ASSUME TerminalIInv, NEW t \in Threads,
           Sample(t) \/ LockDecide(t) \/ UnlockCheck(t) \/ Measure(t) \/ UnlockDecide(t) \/ StatusDecide(t)
    PROVE  TerminalIInv'
  <1>1. TypeInv' /\ TypeOK /\ AskedInv
    BY DecideTypeInv DEF TerminalIInv, TypeInv
  <1>2. /\ UNCHANGED <<pos, request, left, outcome, faults>>
        /\ \A u \in Threads : u # t => pc'[u] = pc[u]
        /\ pc[t] \in {"sample", "lock", "check", "measure", "unlock", "status"}
        /\ pc'[t] \in {"lock", "report", "rotate", "measure", "unlock", "status"}
        /\ pc[t] = "measure" => pc'[t] \in {"unlock", "status"} /\ (pc'[t] = "unlock" => request[t] = "UNLOCK")
        /\ pc[t] = "status" => pc'[t] = "report"
    BY <1>1 DEF Sample, LockDecide, UnlockCheck, Measure, UnlockDecide, StatusDecide, Goto, TypeOK
  <1>3. TerminalInv'
    BY <1>2 DEF TerminalIInv, TerminalInv, Threads
  <1>4. TurnInv' /\ Reached' /\ RestsOnTarget'
    BY <1>2 DEF TerminalIInv, TurnInv, Reached, RestsOnTarget, Turning, Target
  <1> QED BY <1>1, <1>3, <1>4 DEF TerminalIInv

\* The terminal's rotations: nobody else moves the bolt meanwhile.
LEMMA TerminalTurns ==
    ASSUME TerminalIInv, NEW t \in Threads,
           Rotate(t) \/ Step(t) \/ RotateDone(t) \/ RotateFails(t)
    PROVE  TerminalIInv'
  <1>1. TypeInv' /\ TypeOK /\ AskedInv
    BY TurnTypeInv DEF TerminalIInv, TypeInv
  <1>2. /\ t = "cli" /\ outcome["cli"] = "none" /\ outcome["cmd"] = "none"
        /\ pc["cmd"] \notin {"rotate", "turning"}
    BY DEF TerminalIInv, TerminalInv, Rotate, Step, RotateDone, RotateFails, Turning, Threads
  <1>3. /\ pos \in Steps /\ Target(t) \in Steps /\ left[t] \in Steps
        /\ StepsPerRev \in Nat /\ StepsPerRev > 0
    BY <1>1, TargetIsStep, MotorAssumption DEF TypeOK
  <1>4. CASE Rotate(t)
    <2>1. /\ StepsNeeded(t) \in Steps
          /\ \/ pos + StepsNeeded(t) = Target(t)
             \/ pos + StepsNeeded(t) = Target(t) + StepsPerRev
      BY <1>3, StepsLeadToTarget DEF StepsNeeded
    <2> HIDE DEF StepsNeeded
    <2>2. /\ pos' = pos /\ left'[t] = StepsNeeded(t) /\ pc' = [pc EXCEPT ![t] = "turning"]
          /\ UNCHANGED <<request, outcome, faults>>
      BY <1>1, <1>4 DEF Rotate, Goto, TypeOK
    <2>3. TerminalInv' /\ TurnInv' /\ Reached' /\ RestsOnTarget'
      BY <1>1, <1>2, <2>1, <2>2
         DEF TerminalIInv, TerminalInv, TurnInv, Reached, RestsOnTarget, TypeOK, Turning,
             Target, Threads
    <2> QED BY <1>1, <2>3 DEF TerminalIInv
  <1>5. CASE Step(t)
    <2>1. pos' = NextStep /\ left'[t] = left[t] - 1 /\ UNCHANGED <<pc, request, outcome, faults>>
          /\ left[t] > 0 /\ Turning(t)
      BY <1>1, <1>2, <1>5 DEF Step, Positions, TypeOK, Threads, Turning
    <2>2. NextStep = IF pos = StepsPerRev - 1 THEN 0 ELSE pos + 1
      BY <1>3, NextStepValue
    <2>3. pos + left[t] = Target(t) \/ pos + left[t] = Target(t) + StepsPerRev
      BY <2>1 DEF TerminalIInv, TurnInv
    <2> HIDE DEF NextStep
    <2>4. pos' + left'[t] = Target(t) \/ pos' + left'[t] = Target(t) + StepsPerRev
      <3> DEFINE l == left[t]
                 g == Target(t)
      <3>1. l \in Steps /\ g \in Steps /\ l > 0 /\ (pos + l = g \/ pos + l = g + StepsPerRev)
        BY <1>3, <2>1, <2>3
      <3> HIDE DEF l, g
      <3>2. pos' + (l - 1) = g \/ pos' + (l - 1) = g + StepsPerRev
        BY <1>3, <2>1, <2>2, <3>1 DEF Steps
      <3> QED BY <2>1, <3>2 DEF l, g
    <2>5. TerminalInv' /\ TurnInv' /\ Reached' /\ RestsOnTarget'
      BY <1>2, <2>1, <2>4
         DEF TerminalIInv, TerminalInv, TurnInv, Reached, RestsOnTarget, Turning,
             Target, Threads
    <2> QED BY <1>1, <2>5 DEF TerminalIInv
  <1>6. CASE RotateDone(t)
    <2>1. pos = Target(t)
      BY <1>3, <1>6 DEF RotateDone, TerminalIInv, TurnInv, Steps
    <2>2. /\ pos' = pos /\ outcome' = [outcome EXCEPT ![t] = "ok"]
          /\ pc' = [pc EXCEPT ![t] = AfterRotation(t)] /\ UNCHANGED <<request, faults>>
      BY <1>6 DEF RotateDone, Goto
    <2>3. TerminalInv' /\ TurnInv' /\ Reached' /\ RestsOnTarget'
      <3>1. /\ pc'["cli"] = AfterRotation(t) /\ pc'["cmd"] = pc["cmd"]
            /\ outcome'["cli"] = "ok" /\ outcome'["cmd"] = "none"
        BY <1>1, <1>2, <2>2 DEF TypeOK, Threads
      <3>2. AfterRotation(t) \in {"stop2", "report"}
            /\ (AfterRotation(t) = "stop2" <=> request["cli"] = "QUIT")
        BY <1>2 DEF AfterRotation
      <3> QED
        BY <1>1, <1>2, <2>1, <2>2, <3>1, <3>2
           DEF TerminalIInv, TerminalInv, TurnInv, Reached, RestsOnTarget, Turning,
               Target, Threads
    <2> QED BY <1>1, <2>3 DEF TerminalIInv
  <1>7. CASE RotateFails(t)
    <2>1. /\ pos' = pos /\ outcome' = [outcome EXCEPT ![t] = "failed"] /\ faults' = faults + 1
          /\ pc' = [pc EXCEPT ![t] = AfterRotation(t)] /\ request' = request
      BY <1>7 DEF RotateFails, Goto
    <2>2. faults' # 0
      BY <1>1, <2>1, BoundsAssumption DEF TypeOK
    <2>3. /\ pc'["cli"] = AfterRotation(t) /\ pc'["cmd"] = pc["cmd"]
          /\ outcome'["cli"] = "failed" /\ outcome'["cmd"] = "none"
      BY <1>1, <1>2, <2>1 DEF TypeOK, Threads
    <2>4. AfterRotation(t) \in {"stop2", "report"}
          /\ (AfterRotation(t) = "stop2" <=> request["cli"] = "QUIT")
      BY <1>2 DEF AfterRotation
    <2>5. TerminalInv' /\ TurnInv' /\ Reached' /\ RestsOnTarget'
      BY <1>2, <2>1, <2>2, <2>3, <2>4
         DEF TerminalIInv, TerminalInv, TurnInv, Reached, RestsOnTarget, Turning, Threads
    <2> QED BY <1>1, <2>5 DEF TerminalIInv
  <1> QED BY <1>4, <1>5, <1>6, <1>7

LEMMA TerminalEnds ==
    ASSUME TerminalIInv, (\E t \in Threads : Report(t) \/ Reply(t)) \/ Shutdown
    PROVE  TerminalIInv'
  <1>1. ASSUME NEW t \in Threads, Report(t) \/ Reply(t) PROVE TerminalIInv'
    <2>1. TypeInv'
      BY <1>1, TurnTypeInv DEF TerminalIInv
    <2> QED
      BY <1>1, <2>1
         DEF Report, Reply, Goto, AfterReply, AfterDatagram, TerminalIInv, TerminalInv, TurnInv,
             Reached, RestsOnTarget, TypeInv, TypeOK, Threads, Turning, Target
  <1>2. CASE Shutdown
    <2>1. TypeInv' /\ AskedInv
      BY <1>2, ShutdownTypeInv DEF TerminalIInv, TypeInv
    <2> QED
      BY <1>2, <2>1
         DEF Shutdown, Cleanup, StopAgain, Exit, Goto, AskedInv, TerminalIInv, TerminalInv, TurnInv,
             Reached, RestsOnTarget, TypeInv, TypeOK, Threads, Turning, Target
  <1> QED BY <1>1, <1>2

\* The invariant holds while only the terminal's user asks for motion, whether
\* or not the reporting started.
THEOREM TerminalInvariant == ASSUME TerminalMover PROVE Spec => []TerminalIInv
  <1>1. Init => TerminalIInv
    BY MotorAssumption, BoundsAssumption
       DEF Init, Idle, TerminalIInv, TerminalInv, TypeInv, TypeOK, AskedInv, TurnInv, Reached,
           RestsOnTarget, Turning, Threads, Steps, DoorStates, Places, Distances
  <1>2. TerminalIInv /\ [Next]_vars => TerminalIInv'
    <2> SUFFICES ASSUME TerminalIInv, [Next]_vars PROVE TerminalIInv'
      OBVIOUS
    <2>1. CASE Input    BY <2>1, TerminalInput
    <2>2. CASE Shutdown BY <2>2, TerminalEnds
    <2>3. ASSUME NEW t \in Threads, Operate(t) PROVE TerminalIInv'
      BY <2>3, TerminalDecides, TerminalTurns, TerminalEnds DEF Operate
    <2>4. CASE UNCHANGED vars
      BY <2>4 DEF vars, TerminalIInv, TerminalInv, TypeInv, TypeOK, AskedInv, TurnInv,
                  Reached, RestsOnTarget, Turning, Target
    <2> QED BY <2>1, <2>2, <2>3, <2>4 DEF Next
  <1> QED BY <1>1, <1>2, PTL DEF Spec

-----------------------------------------------------------------------------
\* With one mover, either of the two, StepperMotor_Rotate returns true only with
\* the bolt on its target, and there it stays until the operation has replied.
THEOREM RotationsReachTheirTarget ==
    ASSUME OneMover \/ TerminalMover PROVE Spec => []RotationReached
  <1>1. (IInv => RotationReached) /\ (TerminalIInv => RotationReached)
    BY DEF IInv, TerminalIInv, Reached, RotationReached
  <1>2. CASE OneMover
    BY <1>1, <1>2, Invariant, PTL
  <1>3. CASE TerminalMover
    BY <1>1, <1>3, TerminalInvariant, PTL
  <1> QED BY <1>2, <1>3

\* With one mover and without a pin fault the bolt rests on one of its two
\* positions.
THEOREM TheBoltRestsOnTarget ==
    ASSUME OneMover \/ TerminalMover PROVE Spec => []RestsOnTarget
  <1>1. (IInv => RestsOnTarget) /\ (TerminalIInv => RestsOnTarget)
    BY DEF IInv, TerminalIInv
  <1>2. CASE OneMover
    BY <1>1, <1>2, Invariant, PTL
  <1>3. CASE TerminalMover
    BY <1>1, <1>3, TerminalInvariant, PTL
  <1> QED BY <1>2, <1>3

\* With one mover the final rotation of doorMod_cleanup never overlaps another.
THEOREM OneThreadTurnsAlways ==
    ASSUME OneMover \/ TerminalMover PROVE Spec => []OneThreadTurns
  <1>1. IInv => OneThreadTurns
    BY AloneIsOne, TurnsAlone DEF IInv
  <1>2. TerminalIInv => OneThreadTurns
    BY AloneIsOne DEF TerminalIInv, TerminalInv, Turning, Threads
  <1>3. CASE OneMover
    BY <1>1, <1>3, Invariant, PTL
  <1>4. CASE TerminalMover
    BY <1>2, <1>4, TerminalInvariant, PTL
  <1> QED BY <1>3, <1>4
=============================================================================
