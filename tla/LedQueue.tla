------------------------------ MODULE LedQueue ------------------------------
(***************************************************************************)
(* The LED worker of hal/src/led_worker.c: a ring of QueueSize slots that  *)
(* any thread fills under g_q_mutex and one worker thread empties.  Each   *)
(* critical section is one action, because nothing blocks inside one but   *)
(* pthread_cond_wait; showing a task, and the join in the shutdown, happen *)
(* outside the lock and are steps of their own.                            *)
(*                                                                         *)
(* The nine LED_enqueue_* functions differ only in the task they store, so *)
(* a task is the number of the call that enqueued it.                      *)
(***************************************************************************)
EXTENDS Naturals, Sequences

CONSTANTS QueueSize,   \* LED_QUEUE_SIZE, 32 in the code
          MaxCalls     \* bound: how many tasks are enqueued in one behaviour

ASSUME QueueSizeAssumption == QueueSize \in Nat /\ QueueSize >= 2
ASSUME MaxCallsAssumption == MaxCalls \in Nat

VARIABLES
    queue,      \* g_queue: slot -> task, 0 in a slot never written
    head,       \* g_q_head, next slot to pop
    tail,       \* g_q_tail, next slot to push
    running,    \* g_worker_running
    worker,     \* where worker_fn is: "none" before it is created
    task,       \* worker_fn's t, 0 when it holds none
    main,       \* where the thread that starts and stops the worker is
    calls,      \* history: how many tasks were enqueued
    mark        \* history: the value of calls when the shutdown began

vars == <<queue, head, tail, running, worker, task, main, calls, mark>>

Slots == 0 .. QueueSize - 1
Tasks == 0 .. MaxCalls
MutantNoWrap(slot) == slot + 1
After(slot) == (slot + 1) % QueueSize

\* The tasks waiting in the ring q from head h to tail t, oldest first.
CountOf(h, t) == IF t >= h THEN t - h ELSE t + QueueSize - h
SlotOf(h, i) == (h + i - 1) % QueueSize
ContentsOf(q, h, t) == [i \in 1 .. CountOf(h, t) |-> q[SlotOf(h, i)]]

Contents == ContentsOf(queue, head, tail)

-----------------------------------------------------------------------------
Init ==
    /\ queue = [s \in Slots |-> 0]
    /\ head = 0 /\ tail = 0
    /\ running = FALSE
    /\ worker = "none" /\ task = 0
    /\ main = "boot" /\ calls = 0 /\ mark = 0

MutantNoBroadcast == UNCHANGED worker

\* pthread_cond_broadcast: the worker is the only thread that ever waits.
Broadcast == worker' = IF worker = "waiting" THEN "loop" ELSE worker

(***************************************************************************)
(* LED_worker_init.  initializeDoorSystem calls it through LED_init and    *)
(* main calls it again; a second call finds the worker running.            *)
(***************************************************************************)
Started == [boot |-> "again", again |-> "up"]

InitAgain ==
    /\ main \in {"boot", "again"} /\ running
    /\ main' = Started[main]
    /\ UNCHANGED <<queue, head, tail, running, worker, task, calls, mark>>

InitCreates ==
    /\ main \in {"boot", "again"} /\ ~running
    /\ running' = TRUE /\ worker' = "loop"
    /\ main' = Started[main]
    /\ UNCHANGED <<queue, head, tail, task, calls, mark>>

\* pthread_create fails: the flag is taken back and the caller continues.
InitFails ==
    /\ main \in {"boot", "again"} /\ ~running
    /\ main' = Started[main]
    /\ UNCHANGED <<queue, head, tail, running, worker, task, calls, mark>>

(***************************************************************************)
(* LED_enqueue_*: queue_push, and when it reports a full ring, the head    *)
(* moves past the oldest task and the push is repeated.                    *)
(***************************************************************************)
MutantNeverFull == head
HeadAfterPush == IF After(tail) = head THEN After(head) ELSE head

Enqueue ==
    /\ calls < MaxCalls
    /\ calls' = calls + 1
    /\ queue' = [queue EXCEPT ![tail] = calls + 1]
    /\ head' = HeadAfterPush
    /\ tail' = After(tail)
    /\ Broadcast
    /\ UNCHANGED <<running, task, main, mark>>

-----------------------------------------------------------------------------
(* worker_fn.  Its "queue_pop failed" branch is dead: the pop runs in the  *)
(* critical section that has just seen the ring not empty.                 *)

WorkerWait ==
    /\ worker = "loop" /\ head = tail /\ running
    /\ worker' = "waiting"
    /\ UNCHANGED <<queue, head, tail, running, task, main, calls, mark>>

\* pthread_cond_wait may return with no broadcast.
SpuriousWakeup ==
    /\ worker = "waiting"
    /\ worker' = "loop"
    /\ UNCHANGED <<queue, head, tail, running, task, main, calls, mark>>

WorkerTake ==
    /\ worker = "loop" /\ head # tail
    /\ task' = queue[head]
    /\ head' = After(head)
    /\ worker' = "showing"
    /\ UNCHANGED <<queue, tail, running, main, calls, mark>>

WorkerShown ==
    /\ worker = "showing"
    /\ task' = 0 /\ worker' = "loop"
    /\ UNCHANGED <<queue, head, tail, running, main, calls, mark>>

MutantExitAtOnce == ~running
MayExit == ~running /\ head = tail

WorkerExit ==
    /\ worker = "loop" /\ MayExit
    /\ worker' = "done"
    /\ UNCHANGED <<queue, head, tail, running, task, main, calls, mark>>

-----------------------------------------------------------------------------
(* LED_worker_shutdown, called once, by doorMod_cleanup. *)

ShutdownIdle ==
    /\ main = "up" /\ ~running
    /\ main' = "down" /\ mark' = calls
    /\ UNCHANGED <<queue, head, tail, running, worker, task, calls>>

MutantShutdown ==
    /\ main = "up" /\ running
    /\ running' = FALSE
    /\ main' = "joining" /\ mark' = calls
    /\ UNCHANGED <<queue, head, tail, worker, task, calls>>

Shutdown ==
    /\ main = "up" /\ running
    /\ running' = FALSE
    /\ Broadcast
    /\ main' = "joining" /\ mark' = calls
    /\ UNCHANGED <<queue, head, tail, task, calls>>

Joined ==
    /\ main = "joining" /\ worker = "done"
    /\ main' = "down"
    /\ UNCHANGED <<queue, head, tail, running, worker, task, calls, mark>>

-----------------------------------------------------------------------------
Worker == WorkerWait \/ WorkerTake \/ WorkerShown \/ WorkerExit
Main == InitAgain \/ InitCreates \/ InitFails \/ ShutdownIdle \/ Shutdown \/ Joined

Next == Main \/ Enqueue \/ Worker \/ SpuriousWakeup

(***************************************************************************)
(* Fairness: the kernel schedules the worker, and a join returns when the  *)
(* thread has ended.  Nothing obliges a caller to enqueue or to shut down, *)
(* and a spurious wakeup is never owed.                                    *)
(***************************************************************************)
Spec == Init /\ [][Next]_vars /\ WF_vars(Worker) /\ WF_vars(Joined)

-----------------------------------------------------------------------------
\* Every variable has its type; head and tail are always slots of the ring.
TypeOK ==
    /\ queue \in [Slots -> Tasks]
    /\ head \in Slots /\ tail \in Slots
    /\ running \in BOOLEAN
    /\ worker \in {"none", "loop", "waiting", "showing", "done"}
    /\ task \in Tasks
    /\ main \in {"boot", "again", "up", "joining", "down"}
    /\ calls \in 0 .. MaxCalls
    /\ mark \in 0 .. MaxCalls

\* The worker is asleep only while there is nothing to do: a task or a
\* shutdown that arrives between its test of the ring and its wait is not
\* missed (the test, the wait and both broadcasts hold g_q_mutex).
NoLostWakeup == worker = "waiting" => running /\ head = tail

\* LED_worker_shutdown returns only when every task enqueued before it was
\* called has been shown or pushed out by a later one: none is still waiting,
\* none is half shown.
ShutdownDrains ==
    main = "down" /\ worker # "none" =>
        task = 0 /\ \A i \in DOMAIN Contents : Contents[i] > mark

\* LED_worker_shutdown returns: its broadcast reaches a worker that sleeps, and
\* the worker gets through the tasks that are left.
ShutdownReturns == main = "joining" ~> main = "down"

\* The ring is the abstract queue: nothing is lost, repeated or reordered but
\* for the oldest of QueueSize - 1 waiting tasks when another one arrives.
Abstract == INSTANCE DropQueue
                WITH Capacity <- QueueSize - 1, pending <- Contents, shown <- task
DropsOnlyTheOldest == Abstract!Spec
=============================================================================
