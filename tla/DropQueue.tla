----------------------------- MODULE DropQueue -----------------------------
(***************************************************************************)
(* What the LED task queue promises its callers, with no ring, no lock and *)
(* no thread: a queue of at most Capacity tasks in the order they were     *)
(* enqueued, where a task that finds the queue full pushes out the oldest  *)
(* one, and one consumer that shows a task at a time.  Tasks are numbered  *)
(* in the order of the calls that enqueue them.                            *)
(***************************************************************************)
EXTENDS Naturals, Sequences

CONSTANT Capacity

VARIABLES pending,   \* the tasks waiting, oldest first
          shown,     \* the task being shown on the LEDs, 0 when none is
          calls      \* how many tasks were enqueued so far

vars == <<pending, shown, calls>>

Init == pending = <<>> /\ shown = 0 /\ calls = 0

Enqueue ==
    /\ calls' = calls + 1
    /\ pending' = Append(IF Len(pending) = Capacity THEN Tail(pending) ELSE pending,
                         calls + 1)
    /\ UNCHANGED shown

Take ==
    /\ shown = 0 /\ pending # <<>>
    /\ shown' = Head(pending)
    /\ pending' = Tail(pending)
    /\ UNCHANGED calls

Finish == shown # 0 /\ shown' = 0 /\ UNCHANGED <<pending, calls>>

Next == Enqueue \/ Take \/ Finish

Spec == Init /\ [][Next]_vars
=============================================================================
