--------------------------- MODULE LedQueue_proofs ---------------------------
(***************************************************************************)
(* Proofs about the LED task queue for every ring size and every number of *)
(* enqueued tasks: the type invariant, the absence of lost wakeups, the    *)
(* drain of the shutdown, and the refinement of DropQueue; and about the   *)
(* patterns the worker and main show: the LEDs come to tell the outcome of *)
(* the newest task, for any number of failing writes and of patterns that  *)
(* main shows itself.                                                      *)
(***************************************************************************)
EXTENDS LedPatterns, SequenceTheorems, TLAPS

\* The slots that hold a waiting task: h up to, and without, t.
InRing(h, t, s) == IF h <= t THEN h <= s /\ s < t ELSE h <= s \/ s < t
Occupied(s) == InRing(head, tail, s)

\* A waiting task is one that was enqueued.
RingInv == \A s \in Slots : Occupied(s) => queue[s] \in 1 .. calls

\* The worker holds a task exactly while it shows it.
TaskInv == task # 0 <=> worker = "showing"

\* How the thread that starts and stops the worker relates to the worker.
LifeInv ==
    /\ running => worker \in {"loop", "waiting", "showing"} /\ main \in {"again", "up"}
    /\ main \in {"boot", "again", "up"} /\ ~running => worker = "none"
    /\ main = "boot" => ~running
    /\ main = "joining" => worker # "none"
    /\ main = "down" => worker \in {"none", "done"}
    /\ mark <= calls

\* Once the worker has ended, only tasks enqueued after the shutdown wait.
DoneInv ==
    worker = "done" => \A s \in Slots : Occupied(s) => queue[s] > mark

IInv == TypeOK /\ NoLostWakeup /\ RingInv /\ TaskInv /\ LifeInv /\ DoneInv

-----------------------------------------------------------------------------
(* Arithmetic of the ring.                                                 *)

\* Modulo the ring size, a number below twice the size loses it at most once.
LEMMA Wrap ==
    ASSUME NEW x \in Nat, x < 2 * QueueSize
    PROVE  x % QueueSize = IF x < QueueSize THEN x ELSE x - QueueSize
  <1>1. CASE x < QueueSize  BY <1>1, QueueSizeAssumption, SMT
  <1>2. CASE x >= QueueSize BY <1>2, QueueSizeAssumption, SMT
  <1> QED BY <1>1, <1>2, QueueSizeAssumption

\* The slot after a slot is a slot: the next one, or the first after the last.
LEMMA AfterSlot ==
    ASSUME NEW s \in Slots
    PROVE  /\ After(s) \in Slots
           /\ After(s) = IF s = QueueSize - 1 THEN 0 ELSE s + 1
  BY QueueSizeAssumption, Wrap DEF After, Slots

-----------------------------------------------------------------------------
LEMMA InitIInv == Init => IInv
  <1> SUFFICES ASSUME Init PROVE IInv
    OBVIOUS
  <1>1. TypeOK
    <2>1. running \in BOOLEAN
      BY Zenon DEF Init
    <2> QED BY <2>1, QueueSizeAssumption, MaxCallsAssumption, SMT DEF Init, TypeOK, Slots, Tasks
  <1>2. RingInv
    BY QueueSizeAssumption DEF Init, RingInv, Occupied, InRing, Slots
  <1>3. NoLostWakeup /\ TaskInv /\ DoneInv
    BY DEF Init, NoLostWakeup, TaskInv, DoneInv
  <1>4. LifeInv
    <2>1. ~running /\ main = "boot" /\ worker = "none" /\ mark <= calls
      BY SMT DEF Init
    <2> QED BY <2>1, Zenon DEF LifeInv
  <1> QED BY <1>1, <1>2, <1>3, <1>4 DEF IInv

\* Enqueue stores the new task behind the others and keeps them all, but for
\* the oldest one when the ring was full.
LEMMA EnqueueIInv == IInv /\ Enqueue => IInv'
  <1> SUFFICES ASSUME IInv, Enqueue PROVE IInv'
    OBVIOUS
  <1> USE QueueSizeAssumption, MaxCallsAssumption
  <1>1. /\ head \in Slots /\ tail \in Slots /\ calls \in Nat /\ mark \in Nat
        /\ queue \in [Slots -> Tasks]
    BY DEF IInv, TypeOK
  <1>2. /\ After(head) \in Slots /\ After(tail) \in Slots
        /\ After(head) = IF head = QueueSize - 1 THEN 0 ELSE head + 1
        /\ After(tail) = IF tail = QueueSize - 1 THEN 0 ELSE tail + 1
    BY <1>1, AfterSlot
  <1>3. \A s \in Slots : Occupied(s)' => s = tail \/ Occupied(s)
    BY <1>1, <1>2 DEF Enqueue, HeadAfterPush, Occupied, InRing, Slots
  <1>4. \A s \in Slots : queue'[s] = IF s = tail THEN calls + 1 ELSE queue[s]
    BY <1>1 DEF Enqueue
  <1>5. worker' = IF worker = "waiting" THEN "loop" ELSE worker
    BY DEF Enqueue, Broadcast
  <1>6. TypeOK'
    BY <1>1, <1>2, <1>5 DEF IInv, TypeOK, Enqueue, HeadAfterPush, Slots, Tasks
  <1>7. RingInv'
    BY <1>1, <1>3, <1>4 DEF IInv, RingInv, Enqueue
  <1>8. DoneInv'
    <2> SUFFICES ASSUME worker' = "done", NEW s \in Slots, Occupied(s)'
                 PROVE  queue'[s] > mark'
      BY DEF DoneInv
    <2>1. worker = "done" /\ mark' = mark /\ mark <= calls
      BY <1>5 DEF Enqueue, IInv, LifeInv
    <2>2. CASE s = tail
      BY <2>1, <2>2, <1>1, <1>4
    <2>3. CASE s # tail
      BY <2>1, <2>3, <1>3, <1>4 DEF IInv, DoneInv
    <2> QED BY <2>2, <2>3
  <1>9. NoLostWakeup' /\ TaskInv' /\ LifeInv'
    BY <1>1, <1>5 DEF IInv, NoLostWakeup, TaskInv, LifeInv, Enqueue
  <1> QED BY <1>6, <1>7, <1>8, <1>9 DEF IInv

\* The worker's steps.
LEMMA WorkerIInv == IInv /\ (Worker \/ SpuriousWakeup) => IInv'
  <1> SUFFICES ASSUME IInv, Worker \/ SpuriousWakeup PROVE IInv'
    OBVIOUS
  <1> USE QueueSizeAssumption, MaxCallsAssumption
  <1>1. CASE WorkerTake
    <2>1. /\ head \in Slots /\ tail \in Slots /\ After(head) \in Slots
          /\ After(head) = IF head = QueueSize - 1 THEN 0 ELSE head + 1
      BY AfterSlot DEF IInv, TypeOK
    <2>2. Occupied(head) /\ \A s \in Slots : Occupied(s)' => Occupied(s)
      BY <1>1, <2>1 DEF WorkerTake, Occupied, InRing, Slots
    <2>3. task' \in 1 .. calls
      BY <1>1, <2>1, <2>2 DEF WorkerTake, IInv, RingInv
    <2> QED
      BY <1>1, <2>1, <2>2, <2>3
         DEF WorkerTake, IInv, TypeOK, NoLostWakeup, RingInv, TaskInv, LifeInv, DoneInv
  <1>2. CASE WorkerWait \/ WorkerShown \/ SpuriousWakeup
    BY <1>2 DEF WorkerWait, WorkerShown, SpuriousWakeup, IInv, TypeOK, NoLostWakeup,
                RingInv, TaskInv, LifeInv, DoneInv, Occupied, InRing, Tasks
  <1>3. CASE WorkerExit
    BY <1>3 DEF WorkerExit, MayExit, IInv, TypeOK, NoLostWakeup,
                RingInv, TaskInv, LifeInv, DoneInv, Occupied, InRing, Slots
  <1> QED BY <1>1, <1>2, <1>3 DEF Worker

\* The steps of the thread that starts and stops the worker.
LEMMA MainIInv == IInv /\ Main => IInv'
  <1> SUFFICES ASSUME IInv, Main PROVE IInv'
    OBVIOUS
  <1>1. CASE InitAgain \/ InitCreates \/ InitFails
    <2>1. main' \in {"again", "up"} /\ UNCHANGED <<queue, head, tail, task, calls, mark>>
      BY <1>1 DEF InitAgain, InitCreates, InitFails, Started
    <2>2. \/ running' = running /\ worker' = worker
          \/ ~running /\ running' /\ worker = "none" /\ worker' = "loop"
      BY <1>1 DEF InitAgain, InitCreates, InitFails, IInv, LifeInv
    <2>3. worker' # "done"
      BY <1>1, <2>2 DEF InitAgain, InitCreates, InitFails, IInv, LifeInv
    <2>4. LifeInv'
      BY <1>1, <2>1, <2>2 DEF InitAgain, InitCreates, InitFails, IInv, TypeOK, LifeInv
    <2> QED
      BY <2>1, <2>2, <2>3, <2>4
         DEF IInv, TypeOK, NoLostWakeup, RingInv, TaskInv, DoneInv, Occupied, InRing
  <1>2. CASE ShutdownIdle \/ Joined
    BY <1>2 DEF ShutdownIdle, Joined, IInv, TypeOK, NoLostWakeup,
                RingInv, TaskInv, LifeInv, DoneInv, Occupied, InRing
  <1>3. CASE Shutdown
    <2>1. /\ running /\ ~running' /\ worker \in {"loop", "waiting", "showing"}
          /\ worker' \in {"loop", "showing"} /\ (worker' = "showing" <=> worker = "showing")
          /\ main' = "joining" /\ mark' = calls
          /\ UNCHANGED <<queue, head, tail, task, calls>>
      BY <1>3 DEF Shutdown, Broadcast, IInv, LifeInv
    <2> HIDE DEF Shutdown
    <2>2. TypeOK' /\ NoLostWakeup'
      BY <2>1, <1>3 DEF IInv, TypeOK, NoLostWakeup, Shutdown
    <2>3. RingInv' /\ TaskInv' /\ DoneInv'
      BY <2>1 DEF IInv, RingInv, TaskInv, DoneInv, Occupied, InRing
    <2>4. LifeInv'
      BY <2>1 DEF IInv, TypeOK, LifeInv
    <2> QED BY <2>2, <2>3, <2>4 DEF IInv
  <1> QED BY <1>1, <1>2, <1>3 DEF Main

LEMMA NextIInv == IInv /\ [Next]_vars => IInv'
  <1> SUFFICES ASSUME IInv, [Next]_vars PROVE IInv'
    OBVIOUS
  <1>1. CASE UNCHANGED vars
    BY <1>1 DEF vars, IInv, TypeOK, NoLostWakeup, RingInv, TaskInv, LifeInv, DoneInv,
                Occupied, InRing
  <1> QED BY <1>1, EnqueueIInv, WorkerIInv, MainIInv DEF Next

\* The inductive invariant holds in every reachable state of the queue.
THEOREM Invariant == Spec => []IInv
  BY InitIInv, NextIInv, PTL DEF Spec

\* The type of every variable, and that both indices stay inside the ring.
THEOREM TypeCorrect == Spec => []TypeOK
  BY Invariant, PTL DEF IInv

\* The worker never sleeps on a task or on a shutdown: the wakeup that goes
\* with each of them cannot be lost, whatever the ring size.
THEOREM WakeupsAreNotLost == Spec => []NoLostWakeup
  BY Invariant, PTL DEF IInv

-----------------------------------------------------------------------------
(* The ring read as a sequence.                                            *)

\* Position i of the sequence is a slot that holds a waiting task.
LEMMA Positions ==
    ASSUME NEW h \in Slots, NEW t \in Slots
    PROVE  /\ CountOf(h, t) \in 0 .. QueueSize - 1
           /\ \A i \in 1 .. CountOf(h, t) :
                /\ SlotOf(h, i) \in Slots
                /\ InRing(h, t, SlotOf(h, i))
                /\ SlotOf(h, i) = IF h + i - 1 < QueueSize THEN h + i - 1
                                                          ELSE h + i - 1 - QueueSize
  <1> USE QueueSizeAssumption
  <1>1. CountOf(h, t) \in 0 .. QueueSize - 1
    BY DEF CountOf, Slots
  <1>2. ASSUME NEW i \in 1 .. CountOf(h, t)
        PROVE  SlotOf(h, i) = IF h + i - 1 < QueueSize THEN h + i - 1
                                                       ELSE h + i - 1 - QueueSize
    <2> DEFINE x == h + i - 1
    <2>1. x \in Nat /\ x < 2 * QueueSize
      BY <1>1 DEF Slots
    <2>2. SlotOf(h, i) = x % QueueSize
      BY DEF SlotOf
    <2>3. SlotOf(h, i) = IF x < QueueSize THEN x ELSE x - QueueSize
      <3> HIDE DEF x
      <3> QED BY <2>1, <2>2, Wrap
    <2> QED BY <2>3, <1>1 DEF Slots
  <1>3. ASSUME NEW i \in 1 .. CountOf(h, t)
        PROVE  SlotOf(h, i) \in Slots /\ InRing(h, t, SlotOf(h, i))
    BY <1>2 DEF CountOf, Slots, InRing
  <1> QED BY <1>1, <1>2, <1>3

\* The waiting tasks form a sequence.
LEMMA ContentsType ==
    ASSUME NEW q \in [Slots -> Tasks], NEW h \in Slots, NEW t \in Slots
    PROVE  /\ ContentsOf(q, h, t) \in Seq(Tasks)
           /\ Len(ContentsOf(q, h, t)) = CountOf(h, t)
           /\ \A i \in 1 .. CountOf(h, t) : ContentsOf(q, h, t)[i] = q[SlotOf(h, i)]
  <1>1. CountOf(h, t) \in Nat
    BY Positions
  <1>2. ContentsOf(q, h, t) \in [1 .. CountOf(h, t) -> Tasks]
    BY Positions DEF ContentsOf
  <1>3. ContentsOf(q, h, t) \in Seq(Tasks)
    <2> DEFINE n == CountOf(h, t)
    <2>1. n \in Nat /\ ContentsOf(q, h, t) \in [1 .. n -> Tasks]
      BY <1>1, <1>2
    <2> HIDE DEF n
    <2> QED BY <2>1, SeqDef, Zenon
  <1>4. Len(ContentsOf(q, h, t)) = CountOf(h, t)
    BY <1>1, <1>2, <1>3, LenProperties
  <1> QED BY <1>3, <1>4 DEF ContentsOf

\* Moving the head past a waiting task removes the first of the sequence.
LEMMA PopIsTail ==
    ASSUME NEW q \in [Slots -> Tasks], NEW h \in Slots, NEW t \in Slots, h # t
    PROVE  /\ ContentsOf(q, h, t) # <<>>
           /\ Head(ContentsOf(q, h, t)) = q[h]
           /\ ContentsOf(q, After(h), t) = Tail(ContentsOf(q, h, t))
  <1> DEFINE old == ContentsOf(q, h, t)
             new == ContentsOf(q, After(h), t)
             m == CountOf(After(h), t)
  <1> USE QueueSizeAssumption
  <1>1. After(h) \in Slots /\ After(h) = IF h = QueueSize - 1 THEN 0 ELSE h + 1
    BY AfterSlot
  <1>2. /\ old \in Seq(Tasks) /\ Len(old) = CountOf(h, t)
        /\ \A i \in 1 .. CountOf(h, t) : old[i] = q[SlotOf(h, i)]
    BY ContentsType
  <1>3. /\ new \in Seq(Tasks) /\ Len(new) = m
        /\ \A i \in 1 .. m : new[i] = q[SlotOf(After(h), i)]
    <2> DEFINE g == After(h)
    <2>1. g \in Slots
      BY <1>1
    <2> HIDE DEF g
    <2>2. /\ ContentsOf(q, g, t) \in Seq(Tasks)
          /\ Len(ContentsOf(q, g, t)) = CountOf(g, t)
          /\ \A i \in 1 .. CountOf(g, t) : ContentsOf(q, g, t)[i] = q[SlotOf(g, i)]
      BY <2>1, ContentsType, Zenon
    <2> QED BY <2>2 DEF g
  <1>4. m \in Nat /\ CountOf(h, t) = m + 1
    BY <1>1 DEF CountOf, Slots
  <1>5. SlotOf(h, 1) = h
    BY <1>4, Positions DEF Slots
  <1>6. ASSUME NEW i \in 1 .. m PROVE SlotOf(After(h), i) = SlotOf(h, i + 1)
    <2>1. i + 1 \in 1 .. CountOf(h, t)
      BY <1>4
    <2>2. SlotOf(h, i + 1) = IF h + i < QueueSize THEN h + i ELSE h + i - QueueSize
      <3>1. \A j \in 1 .. CountOf(h, t) : SlotOf(h, j) = IF h + j - 1 < QueueSize
                                             THEN h + j - 1 ELSE h + j - 1 - QueueSize
        BY Positions
      <3>2. i \in Nat /\ h \in Nat
        BY <1>4 DEF Slots
      <3> QED BY <2>1, <3>1, <3>2
    <2>3. SlotOf(After(h), i) = IF After(h) + i - 1 < QueueSize
                                THEN After(h) + i - 1 ELSE After(h) + i - 1 - QueueSize
      BY <1>1, Positions
    <2>4. i \in Nat /\ h \in 0 .. QueueSize - 1
      BY <1>4 DEF Slots
    <2>5. CASE h = QueueSize - 1
      BY <1>1, <2>2, <2>3, <2>4, <2>5, <1>4 DEF CountOf, Slots
    <2>6. CASE h # QueueSize - 1
      BY <1>1, <2>2, <2>3, <2>4, <2>6
    <2> QED BY <2>5, <2>6
  <1> HIDE DEF old, new, m
  <1>7. old # <<>>
    BY <1>2, <1>4
  <1>8. Head(old) = q[h]
    BY <1>2, <1>4, <1>5
  <1>9. new = Tail(old)
    <2>1. /\ Tail(old) \in Seq(Tasks) /\ Len(Tail(old)) = m
          /\ \A i \in 1 .. m : Tail(old)[i] = old[i + 1]
      BY <1>2, <1>4, <1>7, HeadTailProperties
    <2>2. \A i \in 1 .. m : Tail(old)[i] = new[i]
      BY <1>2, <1>3, <1>4, <1>6, <2>1
    <2> QED BY <1>3, <2>1, <2>2, SeqEqual
  <1> QED BY <1>7, <1>8, <1>9 DEF old, new

IsWrite(p, q, t, x) == p = [q EXCEPT ![t] = x]
Appends(p, q, h, t, x) == ContentsOf(p, h, After(t)) = Append(ContentsOf(q, h, t), x)

\* A push into a ring that is not full appends to the sequence.
LEMMA PushIsAppend ==
    ASSUME NEW q \in [Slots -> Tasks], NEW p \in [Slots -> Tasks],
           NEW h \in Slots, NEW t \in Slots, NEW x \in Tasks,
           IsWrite(p, q, t, x), After(t) # h
    PROVE  Appends(p, q, h, t, x)
  <1> DEFINE old == ContentsOf(q, h, t)
             new == ContentsOf(p, h, After(t))
             m == CountOf(h, t)
  <1> USE QueueSizeAssumption
  <1>1. After(t) \in Slots /\ After(t) = IF t = QueueSize - 1 THEN 0 ELSE t + 1
    BY AfterSlot
  <1>2. /\ p \in [Slots -> Tasks]
        /\ \A s \in Slots : p[s] = IF s = t THEN x ELSE q[s]
    BY DEF IsWrite
  <1>3. m \in Nat /\ CountOf(h, After(t)) = m + 1
    BY <1>1 DEF CountOf, Slots
  <1>4. /\ old \in Seq(Tasks) /\ Len(old) = m
        /\ \A i \in 1 .. m : old[i] = q[SlotOf(h, i)]
    BY ContentsType
  <1>5. /\ new \in Seq(Tasks) /\ Len(new) = m + 1
        /\ \A i \in 1 .. m + 1 : new[i] = p[SlotOf(h, i)]
    <2>1. \A u \in Slots :
              /\ ContentsOf(p, h, u) \in Seq(Tasks)
              /\ Len(ContentsOf(p, h, u)) = CountOf(h, u)
              /\ \A i \in 1 .. CountOf(h, u) : ContentsOf(p, h, u)[i] = p[SlotOf(h, i)]
      BY <1>2, ContentsType
    <2> QED BY <1>1, <1>3, <2>1
  <1>6. \A i \in 1 .. m : SlotOf(h, i) \in Slots /\ SlotOf(h, i) # t
    <2> TAKE i \in 1 .. m
    <2>1. SlotOf(h, i) \in Slots /\ InRing(h, t, SlotOf(h, i))
      BY Positions
    <2>2. ~InRing(h, t, t)
      BY DEF InRing, Slots
    <2> QED BY <2>1, <2>2
  <1>7. SlotOf(h, m + 1) = t
    <2>1. \A i \in 1 .. m + 1 : SlotOf(h, i) = IF h + i - 1 < QueueSize
                                              THEN h + i - 1 ELSE h + i - 1 - QueueSize
      BY <1>1, <1>3, Positions
    <2>2. h \in 0 .. QueueSize - 1 /\ t \in 0 .. QueueSize - 1 /\ m + 1 \in 1 .. m + 1
      BY <1>3 DEF Slots
    <2>3. m = IF t >= h THEN t - h ELSE t + QueueSize - h
      BY DEF CountOf
    <2> HIDE DEF m
    <2> QED BY <2>1, <2>2, <2>3, <1>3
  <1> HIDE DEF old, new, m
  <1>8. \A i \in 1 .. m : new[i] = old[i]
    BY <1>2, <1>3, <1>4, <1>5, <1>6
  <1>9. new[m + 1] = x
    BY <1>2, <1>3, <1>5, <1>7
  <1>10. /\ Append(old, x) \in Seq(Tasks) /\ Len(Append(old, x)) = m + 1
         /\ \A i \in 1 .. m + 1 : Append(old, x)[i] = IF i = m + 1 THEN x ELSE old[i]
    BY <1>3, <1>4, AppendProperties
  <1>11. new = Append(old, x)
    BY <1>3, <1>5, <1>8, <1>9, <1>10, SeqEqual
  <1> QED BY <1>11 DEF Appends, new, old

-----------------------------------------------------------------------------
\* A worker that has ended left only tasks enqueued after the shutdown.
LEMMA Drains == IInv => ShutdownDrains
  <1> SUFFICES ASSUME IInv, main = "down", worker # "none",
                      NEW i \in DOMAIN Contents
               PROVE  task = 0 /\ Contents[i] > mark
    BY DEF ShutdownDrains, IInv, LifeInv, TaskInv
  <1>1. worker = "done" /\ task = 0
    BY DEF IInv, LifeInv, TaskInv
  <1>2. i \in 1 .. CountOf(head, tail) /\ Contents[i] = queue[SlotOf(head, i)]
    BY DEF Contents, ContentsOf
  <1>3. SlotOf(head, i) \in Slots /\ Occupied(SlotOf(head, i))
    BY <1>2, Positions DEF IInv, TypeOK, Occupied
  <1> QED BY <1>1, <1>2, <1>3 DEF IInv, DoneInv

\* When LED_worker_shutdown has returned, whatever was enqueued before it was
\* called has been shown or was pushed out of the ring.
THEOREM ShutdownDrainsAlways == Spec => []ShutdownDrains
  BY Drains, Invariant, PTL

-----------------------------------------------------------------------------
(* The ring implements DropQueue.                                          *)

\* Every step of the ring is a step of the abstract queue or a stutter of it.
LEMMA StepSimulation ==
    ASSUME IInv, [Next]_vars
    PROVE  [Abstract!Next]_(Abstract!vars)
  <1>1. /\ head \in Slots /\ tail \in Slots /\ calls \in Nat
        /\ queue \in [Slots -> Tasks]
    BY DEF IInv, TypeOK
  <1>2. CASE Enqueue
    <2>1. /\ calls + 1 \in Tasks
          /\ queue' = [queue EXCEPT ![tail] = calls + 1]
          /\ tail' = After(tail)
      BY <1>1, <1>2, MaxCallsAssumption DEF Enqueue, Tasks
    <2>2. Len(Contents) = CountOf(head, tail)
      BY <1>1, ContentsType DEF Contents
    <2>3. After(tail) = head <=> CountOf(head, tail) = QueueSize - 1
      <3>1. After(tail) = IF tail = QueueSize - 1 THEN 0 ELSE tail + 1
        BY <1>1, AfterSlot
      <3> QED BY <1>1, <3>1, QueueSizeAssumption DEF CountOf, Slots
    <2>4. ASSUME NEW h \in Slots, After(tail) # h
          PROVE  ContentsOf(queue', h, After(tail)) = Append(ContentsOf(queue, h, tail), calls + 1)
      <3>1. queue' \in [Slots -> Tasks] /\ IsWrite(queue', queue, tail, calls + 1)
        BY <1>1, <2>1 DEF IsWrite
      <3>2. Appends(queue', queue, h, tail, calls + 1)
        BY <1>1, <2>1, <2>4, <3>1, PushIsAppend, Zenon
      <3> QED BY <3>2 DEF Appends
    <2>6. Contents' = Append(IF Len(Contents) = QueueSize - 1 THEN Tail(Contents)
                                                              ELSE Contents, calls + 1)
      <3>1. CASE After(tail) = head
        <4>1. /\ head' = After(head) /\ After(head) \in Slots
              /\ After(tail) # After(head) /\ head # tail
          <5>1. /\ After(head) \in Slots
                /\ After(tail) = IF tail = QueueSize - 1 THEN 0 ELSE tail + 1
                /\ After(head) = IF head = QueueSize - 1 THEN 0 ELSE head + 1
            BY <1>1, AfterSlot
          <5>2. head' = After(head)
            BY <1>2, <3>1 DEF Enqueue, HeadAfterPush
          <5>3. head \in 0 .. QueueSize - 1 /\ tail \in 0 .. QueueSize - 1
            BY <1>1 DEF Slots
          <5>4. After(tail) # After(head)
            BY <3>1, <5>1, <5>3, QueueSizeAssumption
          <5>5. head # tail
            BY <3>1, <5>1, <5>3, QueueSizeAssumption
          <5> QED BY <5>1, <5>2, <5>4, <5>5
        <4>2. \A h \in Slots : After(tail) # h =>
                 ContentsOf(queue', h, After(tail))
                     = Append(ContentsOf(queue, h, tail), calls + 1)
          BY <2>4
        <4>3. ContentsOf(queue, After(head), tail) = Tail(Contents)
          BY <1>1, <4>1, PopIsTail DEF Contents
        <4> QED BY <2>1, <2>2, <2>3, <3>1, <4>1, <4>2, <4>3 DEF Contents
      <3>2. CASE After(tail) # head
        <4>1. head' = head
          BY <1>2, <3>2 DEF Enqueue, HeadAfterPush
        <4>2. ContentsOf(queue', head, After(tail)) = Append(Contents, calls + 1)
          BY <1>1, <2>4, <3>2 DEF Contents
        <4> QED BY <2>1, <2>2, <2>3, <3>2, <4>1, <4>2 DEF Contents
      <3> QED BY <3>1, <3>2
    <2>5. calls' = calls + 1 /\ task' = task
      BY <1>2 DEF Enqueue
    <2>7. Abstract!Enqueue
      BY <2>5, <2>6 DEF Abstract!Enqueue
    <2> QED BY <2>7 DEF Abstract!Next
  <1>3. CASE WorkerTake
    <2>1. /\ head # tail /\ head' = After(head) /\ task' = queue[head]
          /\ UNCHANGED <<queue, tail, calls>> /\ task = 0
      BY <1>3 DEF WorkerTake, IInv, TaskInv
    <2>2. Contents # <<>> /\ task' = Head(Contents) /\ Contents' = Tail(Contents)
      BY <1>1, <2>1, PopIsTail DEF Contents
    <2>3. Abstract!Take
      BY <2>1, <2>2 DEF Abstract!Take
    <2> QED BY <2>3 DEF Abstract!Next
  <1>4. CASE WorkerShown
    <2>1. task # 0 /\ task' = 0 /\ UNCHANGED <<queue, head, tail, calls>>
      BY <1>4 DEF WorkerShown, IInv, TaskInv
    <2>2. Abstract!Finish
      BY <2>1 DEF Abstract!Finish, Contents
    <2> QED BY <2>2 DEF Abstract!Next
  <1>5. CASE \/ Main \/ WorkerWait \/ WorkerExit \/ SpuriousWakeup \/ UNCHANGED vars
    <2>1. UNCHANGED <<queue, head, tail, task, calls>>
      BY <1>5 DEF Main, InitAgain, InitCreates, InitFails, ShutdownIdle, Shutdown, Joined,
                  WorkerWait, WorkerExit, SpuriousWakeup, vars
    <2> QED BY <2>1 DEF Abstract!vars, Contents
  <1> QED BY <1>2, <1>3, <1>4, <1>5 DEF Next, Worker

\* The ring is empty at first.
LEMMA InitSimulation == Init => Abstract!Init
  <1> SUFFICES ASSUME Init PROVE Abstract!Init
    OBVIOUS
  <1>1. head = 0 /\ tail = 0 /\ task = 0 /\ calls = 0
    BY DEF Init
  <1>2. CountOf(head, tail) = 0
    BY <1>1 DEF CountOf
  <1>3. Contents = <<>>
    BY <1>2 DEF Contents, ContentsOf
  <1> QED BY <1>1, <1>3 DEF Abstract!Init

\* The ring of led_worker.c is a queue that keeps the order of the calls and
\* loses nothing but the oldest task when it is full.
THEOREM Refinement == Spec => DropsOnlyTheOldest
  <1>1. IInv /\ [Next]_vars => [Abstract!Next]_(Abstract!vars)
    BY StepSimulation
  <1> QED BY <1>1, InitSimulation, Invariant, PTL DEF Spec, DropsOnlyTheOldest, Abstract!Spec

-----------------------------------------------------------------------------
(* LedPatterns: the inductive invariant of the patterns.                   *)

\* A write of led.c, and a call with its writes, all of them to one LED.
Slow == Period(2)
Writes == [led : Leds, file : {"enable", "period", "duty_cycle"}, value : 0 .. Slow]
WriteOK(w) == w \in Writes /\ IF w.file = "enable" THEN w.value \in {0, 1} ELSE w.value > 0

Calls == [hz : Nat, writes : Seq(Writes), otherwise : Seq(Writes)]
LedOf(c) == c.writes[1].led
ListOK(ws, l) == ws \in Seq(Writes) /\ \A i \in 1 .. Len(ws) : WriteOK(ws[i]) /\ ws[i].led = l
CallOK(c) ==
    c \in Calls /\ c.writes # <<>> /\ ListOK(c.writes, LedOf(c)) /\ ListOK(c.otherwise, LedOf(c))
CallsOK(s) == s \in Seq(Calls) /\ \A i \in 1 .. Len(s) : CallOK(s[i])

\* What is left of PWM_setFrequency, and what ends with the LED switched off.
IsOn(w, l) == w = Write(l, "enable", 1)
IsDuty(w, l) == w = Write(l, "duty_cycle", w.value)
IsPeriod(w, l) == w = Write(l, "period", w.value)
Lights(ws, l) ==
    \/ Len(ws) = 1 /\ IsOn(ws[1], l)
    \/ Len(ws) = 2 /\ IsDuty(ws[1], l) /\ IsOn(ws[2], l)
    \/ Len(ws) = 3 /\ IsPeriod(ws[1], l) /\ IsDuty(ws[2], l) /\ IsOn(ws[3], l)
                   /\ ws[2].value <= ws[1].value
    \/ Len(ws) = 4 /\ ws[1] = Disable(l) /\ IsPeriod(ws[2], l) /\ IsDuty(ws[3], l) /\ IsOn(ws[4], l)
                   /\ ws[3].value <= ws[2].value
Darkens(ws, l) == Len(ws) > 0 /\ ws[Len(ws)] = Disable(l)

\* The driver will take what is left: the pulse fits, and there is one.
Ready(led, ws) ==
    /\ Len(ws) = 2 => ws[1].value <= led.period
    /\ Len(ws) = 1 => led.duty_cycle > 0

\* A call not yet begun, or the one being made, leaves LED l lit, or dark.
Whole(c, l, lit) == IF lit THEN Lights(c.writes, l) /\ Len(c.writes) = 4 ELSE Darkens(c.writes, l)
Begun(c, led, l, lit) ==
    IF lit THEN Lights(c.writes, l) /\ Ready(led, c.writes) ELSE Darkens(c.writes, l)
Shows(led, busy, l, lit) ==
    IF lit THEN led.duty_cycle > 0 /\ (led.enable = 1 \/ (l = "green" /\ busy)) ELSE led.enable = 0

\* Of the calls s, the last for LED l settles it: a later one, the first one, or
\* it was made, and the LED is as it should be but for what main is writing.
LastFrom(k, s, i, l) == i \in k .. Len(s) /\ LedOf(s[i]) = l /\ \A j \in k .. Len(s) : j > i => LedOf(s[j]) # l
Promises(k, s, l, lit) == \E i \in k .. Len(s) : LastFrom(k, s, i, l) /\ Whole(s[i], l, lit)
ByFirst(s, led, l, lit) ==
    /\ s # <<>> /\ LedOf(s[1]) = l /\ Begun(s[1], led, l, lit)
    /\ \A j \in 2 .. Len(s) : LedOf(s[j]) # l
Done(s, led, busy, l, lit) == Shows(led, busy, l, lit) /\ \A j \in 1 .. Len(s) : LedOf(s[j]) # l
Settles(s, led, busy, l, lit) ==
    Promises(2, s, l, lit) \/ ByFirst(s, led, l, lit) \/ Done(s, led, busy, l, lit)

\* Each LED comes to tell the outcome of the pattern in shows.
OutcomeInv ==
    ~spoilt => \A l \in Leds \ missing :
        /\ l \in LitAfter(shows) => Settles(todo["worker"], leds[l], Busy("main"), l, TRUE)
        /\ l \in DarkAfter(shows) => Settles(todo["worker"], leds[l], Busy("main"), l, FALSE)

\* What the driver keeps, and what a thread has to do.
HardwareInv ==
    /\ leds \in [Leds -> [enable : {0, 1}, period : Nat, duty_cycle : Nat]]
    /\ \A l \in Leds : leds[l].duty_cycle <= leds[l].period /\ leds[l].period <= Slow
HistoryInv ==
    /\ direct \in Nat /\ spoilt \in BOOLEAN /\ shows \in Kinds \cup {"none"}
    /\ shows = "none" => todo["worker"] = <<>>
TodoInv ==
    /\ todo \in [Threads -> Seq(Calls)] /\ \A t \in Threads : CallsOK(todo[t])
    /\ todo["worker"] # <<>> => worker = "showing"

\* main flashes green, or switches it off because it could not.
Flashes(ws) ==
    /\ Lights(ws, "green")
    /\ \A i \in 1 .. Len(ws) : ws[i].file = "period" => ws[i].value = Slow
    /\ Len(ws) \in {1, 2} /\ "green" \notin missing => leds["green"].period > 0
MainInv ==
    /\ direct = 0 => todo["main"] = <<>>
    /\ todo["main"] # <<>> =>
          /\ Len(todo["main"]) = 1
          /\ LET ws == todo["main"][1].writes IN
             \/ Flashes(ws) /\ todo["main"][1].otherwise = <<Disable("green")>>
             \/ ws = <<Disable("green")>> /\ todo["main"][1].otherwise = <<>>
                /\ (spoilt \/ "green" \in missing)

\* What is left of PWM_setFrequency, for the period P and the pulse D.
SetsRate(ws, l, P, D) ==
    \/ Len(ws) = 1 /\ ws[1].file = "enable"
    \/ Len(ws) = 2 /\ ws[1] = Write(l, "duty_cycle", D) /\ ws[2].file = "enable"
    \/ Len(ws) = 3 /\ ws[1] = Write(l, "period", P) /\ ws[2] = Write(l, "duty_cycle", D)
                   /\ ws[3].file = "enable"
    \/ Len(ws) = 4 /\ ws[1].file = "enable" /\ ws[2] = Write(l, "period", P)
                   /\ ws[3] = Write(l, "duty_cycle", D) /\ ws[4].file = "enable"

\* The LED has the rate (its period, too, where that is exact), or the driver
\* will take what is left to write of it.
HasRate(d, P, D, exact) == d.duty_cycle = D /\ (exact => d.period = P)
TakesRate(d, k, P, D, exact) ==
    /\ k = 1 => HasRate(d, P, D, exact)
    /\ k = 2 => d.period >= P /\ (exact => d.period = P)
    /\ k > 2 /\ exact => d.duty_cycle <= P
OnlyEnables(ws) == \A i \in 1 .. Len(ws) : ws[i].file = "enable"

\* The last of the calls s gives LED l its rate, and nothing before it makes the
\* pulse too wide for a period that is not the longest; or it was made.
RateComes(s, d, l, P, D, exact) ==
    /\ LedOf(s[Len(s)]) = l /\ SetsRate(s[Len(s)].writes, l, P, D)
    /\ TakesRate(d, Len(s[Len(s)].writes), P, D, exact)
    /\ Len(s) > 1 => Len(s[Len(s)].writes) = 4
    /\ P # Slow => \A i \in 1 .. Len(s) :
          i < Len(s) /\ LedOf(s[i]) = l => OnlyEnables(s[i].writes)
Rated(s, d, l, P, D, exact) ==
    IF s = <<>> THEN HasRate(d, P, D, exact) ELSE RateComes(s, d, l, P, D, exact)

\* The rates of led.c: flashing at 2 Hz, and steady.
FlashPulse == Duty(2, 50)
SteadyPeriod == Period(1000)
SteadyPulse == Duty(1000, 30)

\* Each LED that main leaves alone comes to the rate of the pattern in shows.
RateInv ==
    ~spoilt => \A l \in Leds \ missing : Alone(l) =>
        /\ l \in FlashingAfter(shows) =>
              Rated(todo["worker"], leds[l], l, Slow, FlashPulse, TRUE)
        /\ l \in SteadyAfter(shows) =>
              Rated(todo["worker"], leds[l], l, SteadyPeriod, SteadyPulse, ~wide)

PatternInv ==
    IInv /\ HardwareInv /\ HistoryInv /\ TodoInv /\ OutcomeInv /\ MainInv /\ RateInv


-----------------------------------------------------------------------------
(* PWM.c.                                                                  *)

\* A sequence is empty when its length is 0.
LEMMA NonEmpty == ASSUME NEW S, NEW s \in Seq(S) PROVE s # <<>> <=> Len(s) > 0
  <1>1. ASSUME s = <<>> PROVE ~ (Len(s) > 0)
    <2>1. Len(<<>>) = 0
      BY EmptySeq
    <2> QED BY <1>1, <2>1
  <1>2. s # <<>> => Len(s) > 0
    BY EmptySeq
  <1> QED BY <1>1, <1>2

\* The periods and pulses of led.c.
LEMMA Times ==
    /\ Slow \in Nat /\ Slow > 0
    /\ Period(2) = Slow /\ Duty(2, 50) \in 1 .. Period(2)
    /\ Period(7) \in 1 .. Slow /\ Duty(7, 90) \in 1 .. Period(7)
    /\ Period(10) \in 1 .. Slow /\ Duty(10, 90) \in 1 .. Period(10)
    /\ Period(1000) \in 1 .. Slow
    /\ Duty(1000, 30) \in 1 .. Period(1000) /\ Duty(1000, 50) \in 1 .. Period(1000)
  <1>1. /\ Period(2) = 500000 /\ Period(7) = 142857 /\ Period(10) = 100000 /\ Period(1000) = 2000
    BY SMT DEF Period, Clamped
  <1>2. /\ Duty(2, 50) = 250000 /\ Duty(7, 90) = 128571 /\ Duty(10, 90) = 90000
        /\ Duty(1000, 30) = 600 /\ Duty(1000, 50) = 1000
    BY SMT DEF Duty, Period, Clamped
  <1> QED BY <1>1, <1>2, SMT DEF Slow

\* What one write makes of an LED, accepted or not.
Took(d, e, w) ==
    /\ w.file = "enable" =>
          /\ e.period = d.period /\ e.duty_cycle = d.duty_cycle
          /\ w.value = 0 => e.enable = 0
          /\ w.value = 1 /\ d.period > 0 => e.enable = 1
    /\ w.file = "period" =>
          /\ e.enable = d.enable /\ e.duty_cycle = d.duty_cycle /\ e.period >= w.value
          /\ d.duty_cycle <= w.value => e.period = w.value
    /\ w.file = "duty_cycle" =>
          /\ e.enable = d.enable /\ e.period = d.period
          /\ e.duty_cycle \in {d.duty_cycle, w.value}
          /\ w.value <= d.period => e.duty_cycle = w.value

LEMMA WriteFacts ==
    ASSUME HardwareInv, NEW w, WriteOK(w),
           leds' = IF Accepts(leds[w.led], w) THEN [leds EXCEPT ![w.led][w.file] = w.value] ELSE leds
    PROVE  /\ HardwareInv'
           /\ \A l \in Leds : l # w.led => leds'[l] = leds[l]
           /\ Took(leds[w.led], leds'[w.led], w)
  <1> DEFINE l == w.led
             d == leds[l]
             v == w.value
  <1>1. /\ l \in Leds /\ v \in Nat /\ v <= Slow /\ Slow \in Nat
        /\ w.file \in {"enable", "period", "duty_cycle"}
    BY Times DEF WriteOK, Writes
  <1>2. /\ d \in [enable : {0, 1}, period : Nat, duty_cycle : Nat]
        /\ d.duty_cycle <= d.period /\ d.period <= Slow
    BY <1>1 DEF HardwareInv
  <1>3. CASE ~ Accepts(d, w)
    <2>1. leds' = leds
      BY <1>3
    <2>2. HardwareInv'
      BY <2>1 DEF HardwareInv
    <2>3. w.file = "enable" => ~ (v = 0) /\ ~ (d.period > 0)
      BY <1>3 DEF Accepts
    <2>4. w.file = "period" => d.period >= v /\ ~ (d.duty_cycle <= v)
      BY <1>1, <1>2, <1>3 DEF Accepts, WriteOK
    <2>5. w.file = "duty_cycle" => ~ (v <= d.period)
      BY <1>3 DEF Accepts
    <2> QED BY <2>1, <2>2, <2>3, <2>4, <2>5 DEF Took
  <1>4. CASE Accepts(d, w)
    <2> DEFINE e == [d EXCEPT ![w.file] = v]
    <2>1. leds' = [leds EXCEPT ![l] = e]
      BY <1>4
    <2>2. /\ w.file = "enable" => e = [d EXCEPT !.enable = v]
          /\ w.file = "period" => e = [d EXCEPT !.period = v]
          /\ w.file = "duty_cycle" => e = [d EXCEPT !.duty_cycle = v]
      OBVIOUS
    <2>3. /\ w.file = "enable" => v \in {0, 1}
          /\ w.file = "period" => v >= d.duty_cycle
          /\ w.file = "duty_cycle" => v <= d.period
      BY <1>4 DEF Accepts, WriteOK
    <2> HIDE DEF e, d
    <2>4. /\ e \in [enable : {0, 1}, period : Nat, duty_cycle : Nat]
          /\ e.duty_cycle <= e.period /\ e.period <= Slow
          /\ w.file = "enable" => e.enable = v /\ e.period = d.period /\ e.duty_cycle = d.duty_cycle
          /\ w.file = "period" => e.period = v /\ e.enable = d.enable /\ e.duty_cycle = d.duty_cycle
          /\ w.file = "duty_cycle" => e.duty_cycle = v /\ e.enable = d.enable /\ e.period = d.period
      BY <1>1, <1>2, <2>2, <2>3
    <2>5. HardwareInv' /\ leds'[l] = e /\ \A m \in Leds : m # l => leds'[m] = leds[m]
      BY <1>1, <2>1, <2>4 DEF HardwareInv
    <2> QED BY <1>1, <1>2, <2>3, <2>4, <2>5 DEF d, Took
  <1> QED BY <1>3, <1>4

\* The writes of PWM_setFrequency light the LED.
LEMMA SettingFacts ==
    ASSUME NEW l \in Leds, NEW h, NEW p,
           Period(h) \in 1 .. Slow, Duty(h, p) \in 1 .. Period(h)
    PROVE  /\ ListOK(SetFrequency(l, h, p), l) /\ Len(SetFrequency(l, h, p)) = 4
           /\ Lights(SetFrequency(l, h, p), l) /\ SetFrequency(l, h, p)[1].led = l
           /\ SetFrequency(l, h, p)[2].value = Period(h)
           /\ \A i \in 1 .. 4 : SetFrequency(l, h, p)[i].file = "period" => i = 2
  <1> DEFINE P == Period(h)
             D == Duty(h, p)
             W == << Disable(l), Write(l, "period", P), Write(l, "duty_cycle", D), Write(l, "enable", 1) >>
  <1>1. W = SetFrequency(l, h, p)
    BY DEF SetFrequency
  <1>2. Slow \in Nat /\ Slow >= 1
    BY Times
  <1>3. P \in 1 .. Slow /\ D \in 1 .. P
    OBVIOUS
  <1> HIDE DEF P, D
  <1>4. /\ WriteOK(Disable(l)) /\ WriteOK(Write(l, "period", P))
        /\ WriteOK(Write(l, "duty_cycle", D)) /\ WriteOK(Write(l, "enable", 1))
    BY <1>2, <1>3 DEF WriteOK, Writes, Disable, Write
  <1>5. /\ W \in Seq(Writes) /\ Len(W) = 4
        /\ W[1] = Disable(l) /\ W[2] = Write(l, "period", P)
        /\ W[3] = Write(l, "duty_cycle", D) /\ W[4] = Write(l, "enable", 1)
    BY <1>4 DEF WriteOK
  <1>6. \A i \in 1 .. 4 : i = 1 \/ i = 2 \/ i = 3 \/ i = 4
    OBVIOUS
  <1> HIDE DEF W
  <1>7. ListOK(W, l)
    <2>1. /\ W[1].led = l /\ W[2].led = l /\ W[3].led = l /\ W[4].led = l
      BY <1>5 DEF Disable, Write
    <2>2. \A i \in 1 .. 4 : WriteOK(W[i]) /\ W[i].led = l
      BY <1>4, <1>5, <1>6, <2>1
    <2> QED BY <1>5, <2>2 DEF ListOK
  <1>8. Lights(W, l)
    BY <1>3, <1>5 DEF Lights, IsOn, IsDuty, IsPeriod, Write
  <1>9. /\ W[1].led = l /\ W[2].value = P
        /\ \A i \in 1 .. 4 : W[i].file = "period" => i = 2
    BY <1>5, <1>6 DEF Write, Disable
  <1> QED BY <1>1, <1>5, <1>7, <1>8, <1>9 DEF P


-----------------------------------------------------------------------------
(* led.c: the calls, and what each pattern promises.                       *)

LEMMA OffFacts ==
    ASSUME NEW l \in Leds
    PROVE  /\ ListOK(<<Disable(l)>>, l) /\ ListOK(<<>>, l)
           /\ CallOK(Off(l)) /\ LedOf(Off(l)) = l /\ Darkens(Off(l).writes, l)
  <1> DEFINE w == Disable(l)
  <1>1. WriteOK(w) /\ w \in Writes /\ w.led = l
    BY Times DEF WriteOK, Writes, Disable, Write
  <1> HIDE DEF w
  <1>2. /\ <<w>> \in Seq(Writes) /\ Len(<<w>>) = 1 /\ <<w>>[1] = w /\ <<w>> # <<>>
    BY <1>1
  <1>3. ListOK(<<w>>, l)
    BY <1>1, <1>2 DEF ListOK
  <1>4. ListOK(<<>>, l)
    BY DEF ListOK
  <1> DEFINE c == [hz |-> 0, writes |-> <<w>>, otherwise |-> <<>>]
  <1>5. Off(l) = c
    BY DEF Off, w
  <1>6. c.writes = <<w>> /\ c.otherwise = <<>> /\ c.hz = 0
    OBVIOUS
  <1>7. c \in Calls
    BY <1>2 DEF Calls
  <1> HIDE DEF c
  <1>8. LedOf(c) = l
    BY <1>1, <1>2, <1>6 DEF LedOf
  <1>9. CallOK(c)
    BY <1>2, <1>3, <1>4, <1>6, <1>7, <1>8 DEF CallOK
  <1>10. Darkens(c.writes, l)
    BY <1>2, <1>6 DEF Darkens, w
  <1> QED BY <1>3, <1>4, <1>5, <1>8, <1>9, <1>10 DEF w

LEMMA SetFacts ==
    ASSUME NEW l \in Leds, NEW h, NEW p, NEW z \in Nat, NEW o,
           Period(h) \in 1 .. Slow, Duty(h, p) \in 1 .. Period(h), ListOK(o, l),
           NEW c, c = [hz |-> z, writes |-> SetFrequency(l, h, p), otherwise |-> o]
    PROVE  CallOK(c) /\ LedOf(c) = l /\ Lights(c.writes, l) /\ Len(c.writes) = 4
  <1> DEFINE W == SetFrequency(l, h, p)
  <1>1. ListOK(W, l) /\ Len(W) = 4 /\ Lights(W, l) /\ W[1].led = l
    BY SettingFacts
  <1>2. c = [hz |-> z, writes |-> W, otherwise |-> o]
    OBVIOUS
  <1> HIDE DEF W
  <1>5. W \in Seq(Writes) /\ o \in Seq(Writes) /\ W # <<>>
    <2>1. W \in Seq(Writes) /\ o \in Seq(Writes)
      BY <1>1 DEF ListOK
    <2>2. Len(W) > 0
      BY <1>1
    <2>3. W # <<>>
      BY <2>1, <2>2, NonEmpty, Zenon
    <2> QED BY <2>1, <2>3, Zenon
  <1>3. c.writes = W /\ c.otherwise = o /\ c \in Calls
    BY <1>2, <1>5 DEF Calls
  <1>4. LedOf(c) = l
    BY <1>1, <1>3 DEF LedOf
  <1> QED BY <1>1, <1>3, <1>4, <1>5 DEF CallOK

LEMMA BlinkFacts ==
    ASSUME NEW l \in Leds, NEW h \in Nat, NEW p,
           Period(h) \in 1 .. Slow, Duty(h, p) \in 1 .. Period(h)
    PROVE  CallOK(Blink(l, h, p)) /\ LedOf(Blink(l, h, p)) = l /\ Darkens(Blink(l, h, p).writes, l)
  <1> DEFINE W == SetFrequency(l, h, p)
             w == Disable(l)
             V == Append(W, w)
             c == [hz |-> h, writes |-> V, otherwise |-> <<>>]
  <1>1. ListOK(W, l) /\ Len(W) = 4 /\ W[1].led = l
    BY SettingFacts
  <1>2. WriteOK(w) /\ w \in Writes /\ w.led = l
    BY Times DEF WriteOK, Writes, Disable, Write
  <1>3. ListOK(<<>>, l) /\ Blink(l, h, p) = c
    BY OffFacts DEF Blink
  <1> HIDE DEF W, w
  <1>4. /\ V \in Seq(Writes) /\ Len(V) = 5 /\ V # <<>>
        /\ \A i \in 1 .. 5 : V[i] = IF i = 5 THEN w ELSE W[i]
    <2>1. W \in Seq(Writes)
      BY <1>1 DEF ListOK
    <2>2. /\ V \in Seq(Writes) /\ Len(V) = Len(W) + 1
          /\ \A i \in 1 .. Len(W) : V[i] = W[i]
          /\ V[Len(W) + 1] = w
      BY <1>2, <2>1, AppendProperties
    <2> HIDE DEF V
    <2>3. V \in Seq(Writes) /\ Len(V) = 5 /\ V[5] = w /\ \A i \in 1 .. 4 : V[i] = W[i]
      BY <1>1, <2>2
    <2>4. \A i \in 1 .. 5 : i = 5 \/ i \in 1 .. 4
      OBVIOUS
    <2>5. V # <<>>
      <3>1. Len(V) > 0 /\ V \in Seq(Writes)
        BY <2>3
      <3> QED BY <3>1, NonEmpty, Zenon
    <2>6. \A i \in 1 .. 5 : V[i] = IF i = 5 THEN w ELSE W[i]
      BY <2>3, <2>4
    <2> QED BY <2>3, <2>5, <2>6
  <1> HIDE DEF V
  <1>5. ListOK(V, l) /\ V[1].led = l /\ V[5] = w
    BY <1>1, <1>2, <1>4 DEF ListOK
  <1>6. c.writes = V /\ c.otherwise = <<>> /\ c \in Calls
    <2>1. <<>> \in Seq(Writes)
      OBVIOUS
    <2> QED BY <1>4, <2>1 DEF Calls
  <1> HIDE DEF c
  <1>7. LedOf(c) = l
    BY <1>5, <1>6 DEF LedOf
  <1>8. CallOK(c)
    BY <1>3, <1>4, <1>5, <1>6, <1>7 DEF CallOK
  <1>9. Darkens(c.writes, l)
    <2>1. w = Disable(l)
      BY DEF w
    <2>2. Darkens(V, l)
      BY <1>4, <1>5, <2>1 DEF Darkens
    <2> QED BY <1>6, <2>2
  <1> QED BY <1>3, <1>7, <1>8, <1>9

\* The calls of the patterns, and the LEDs they leave lit or dark.
LEMMA CallFacts ==
    /\ \A l \in Leds : CallOK(Off(l)) /\ LedOf(Off(l)) = l /\ Whole(Off(l), l, FALSE)
    /\ \A l \in Leds : CallOK(Flash(l)) /\ LedOf(Flash(l)) = l /\ Whole(Flash(l), l, TRUE)
    /\ \A l \in Leds, p \in {30, 50} :
          CallOK(Steady(l, p)) /\ LedOf(Steady(l, p)) = l /\ Whole(Steady(l, p), l, TRUE)
    /\ \A l \in Leds : CallOK(Blink(l, 2, 50)) /\ LedOf(Blink(l, 2, 50)) = l
                       /\ Whole(Blink(l, 2, 50), l, FALSE)
    /\ \A l \in Leds, h \in {7, 10} : CallOK(Blink(l, h, 90)) /\ LedOf(Blink(l, h, 90)) = l
                                      /\ Whole(Blink(l, h, 90), l, FALSE)
  <1>1. ASSUME NEW l \in Leds PROVE CallOK(Off(l)) /\ LedOf(Off(l)) = l /\ Whole(Off(l), l, FALSE)
    BY OffFacts DEF Whole
  <1>2. ASSUME NEW l \in Leds
        PROVE  CallOK(Flash(l)) /\ LedOf(Flash(l)) = l /\ Whole(Flash(l), l, TRUE)
    <2>1. Period(2) \in 1 .. Slow
      BY Times
    <2>2. ListOK(<<Disable(l)>>, l)
      BY OffFacts
    <2> QED BY <2>1, <2>2, Times, SetFacts DEF Flash, Whole
  <1>3. ASSUME NEW l \in Leds, NEW p \in {30, 50}
        PROVE  CallOK(Steady(l, p)) /\ LedOf(Steady(l, p)) = l /\ Whole(Steady(l, p), l, TRUE)
    <2>3. ListOK(<<>>, l)
      BY OffFacts
    <2>1. Period(1000) \in 1 .. Slow /\ Duty(1000, p) \in 1 .. Period(1000)
      BY Times
    <2>2. 1000 \in Nat
      BY SMT
    <2> QED BY <2>1, <2>2, <2>3, SetFacts, SMT DEF Steady, Whole
  <1>4. ASSUME NEW l \in Leds
        PROVE  CallOK(Blink(l, 2, 50)) /\ LedOf(Blink(l, 2, 50)) = l /\ Whole(Blink(l, 2, 50), l, FALSE)
    <2>1. Period(2) \in 1 .. Slow
      BY Times
    <2> QED BY <2>1, Times, BlinkFacts DEF Whole
  <1>5. ASSUME NEW l \in Leds, NEW h \in {7, 10}
        PROVE  CallOK(Blink(l, h, 90)) /\ LedOf(Blink(l, h, 90)) = l /\ Whole(Blink(l, h, 90), l, FALSE)
    BY Times, BlinkFacts DEF Whole
  <1> QED BY <1>1, <1>2, <1>3, <1>4, <1>5


LEMMA JoinsThree ==
    ASSUME NEW a \in Calls, NEW b \in Calls, NEW c \in Calls
    PROVE  <<a>> \o <<b, c>> = <<a, b, c>>
  <1> HIDE DEF Calls
  <1>0. <<a>> \in Seq(Calls) /\ <<b, c>> \in Seq(Calls) /\ <<a, b, c>> \in Seq(Calls)
    OBVIOUS
  <1> DEFINE s == <<a>>
             t == <<b, c>>
             u == <<a, b, c>>
  <1>1. /\ s \o t \in Seq(Calls) /\ Len(s \o t) = Len(s) + Len(t)
        /\ \A i \in 1 .. Len(s) + Len(t) : (s \o t)[i] = IF i <= Len(s) THEN s[i] ELSE t[i - Len(s)]
    <2> HIDE DEF s, t
    <2>1. s \in Seq(Calls) /\ t \in Seq(Calls)
      BY <1>0 DEF s, t
    <2> QED BY <2>1, ConcatProperties, Zenon
  <1>2. Len(s) = 1 /\ s[1] = a /\ Len(t) = 2 /\ t[1] = b /\ t[2] = c
    OBVIOUS
  <1>3. Len(u) = 3 /\ u[1] = a /\ u[2] = b /\ u[3] = c /\ u \in Seq(Calls)
    BY <1>0
  <1> HIDE DEF s, t, u
  <1>4. \A i \in 1 .. 3 : i = 1 \/ i = 2 \/ i = 3
    OBVIOUS
  <1>5. \A i \in 1 .. 3 : (s \o t)[i] = u[i]
    BY <1>1, <1>2, <1>3, <1>4
  <1>6. s \o t = u
    BY <1>1, <1>2, <1>3, <1>5, SeqEqual
  <1> QED BY <1>6 DEF s, t, u

LEMMA JoinsFour ==
    ASSUME NEW a \in Calls, NEW b \in Calls, NEW c \in Calls, NEW d \in Calls
    PROVE  <<a, b>> \o <<c, d>> = <<a, b, c, d>>
  <1> HIDE DEF Calls
  <1>0. <<a, b>> \in Seq(Calls) /\ <<c, d>> \in Seq(Calls) /\ <<a, b, c, d>> \in Seq(Calls)
    OBVIOUS
  <1> DEFINE s == <<a, b>>
             t == <<c, d>>
             u == <<a, b, c, d>>
  <1>1. /\ s \o t \in Seq(Calls) /\ Len(s \o t) = Len(s) + Len(t)
        /\ \A i \in 1 .. Len(s) + Len(t) : (s \o t)[i] = IF i <= Len(s) THEN s[i] ELSE t[i - Len(s)]
    <2> HIDE DEF s, t
    <2>1. s \in Seq(Calls) /\ t \in Seq(Calls)
      BY <1>0 DEF s, t
    <2> QED BY <2>1, ConcatProperties, Zenon
  <1>2. Len(s) = 2 /\ s[1] = a /\ s[2] = b /\ Len(t) = 2 /\ t[1] = c /\ t[2] = d
    OBVIOUS
  <1>3. Len(u) = 4 /\ u[1] = a /\ u[2] = b /\ u[3] = c /\ u[4] = d /\ u \in Seq(Calls)
    BY <1>0
  <1> HIDE DEF s, t, u
  <1>4. \A i \in 1 .. 4 : i = 1 \/ i = 2 \/ i = 3 \/ i = 4
    OBVIOUS
  <1>5. \A i \in 1 .. 4 : (s \o t)[i] = u[i]
    BY <1>1, <1>2, <1>3, <1>4
  <1>6. s \o t = u
    BY <1>1, <1>2, <1>3, <1>5, SeqEqual
  <1> QED BY <1>6 DEF s, t, u

LEMMA PatternTable ==
    /\ Kinds = {"BLINK_RED", "HUB_SUCCESS", "HUB_FAILURE", "NETWORK_ERROR", "DOOR_ERROR",
                "LOCK_SUCCESS", "UNLOCK_SUCCESS", "LOCK_FAILURE", "UNLOCK_FAILURE"}
    /\ Pattern["BLINK_RED"] = <<Blink("red", 2, 50)>>
    /\ Pattern["HUB_SUCCESS"] = <<Steady("green", 50)>>
    /\ Pattern["HUB_FAILURE"] = <<Blink("red", 10, 90)>>
    /\ Pattern["NETWORK_ERROR"] = <<Flash("green")>>
    /\ Pattern["DOOR_ERROR"] = <<Flash("red")>>
    /\ Pattern["LOCK_SUCCESS"] = <<Off("green"), Blink("red", 7, 90), Steady("green", 30)>>
    /\ Pattern["UNLOCK_SUCCESS"] =
          <<Off("green"), Off("red"), Blink("red", 7, 90), Steady("green", 30)>>
    /\ Pattern["LOCK_FAILURE"] = <<Off("green"), Off("red"), Blink("red", 10, 90), Flash("red")>>
    /\ Pattern["UNLOCK_FAILURE"] = <<Off("green"), Off("red"), Blink("red", 10, 90), Flash("red")>>
  <1>1. Kinds = {"BLINK_RED", "HUB_SUCCESS", "HUB_FAILURE", "NETWORK_ERROR", "DOOR_ERROR",
                "LOCK_SUCCESS", "UNLOCK_SUCCESS", "LOCK_FAILURE", "UNLOCK_FAILURE"}
    BY DEF Kinds, Pattern
  <1>2. /\ Pattern["BLINK_RED"] = <<Blink("red", 2, 50)>>
        /\ Pattern["HUB_SUCCESS"] = <<Steady("green", 50)>>
        /\ Pattern["HUB_FAILURE"] = <<Blink("red", 10, 90)>>
        /\ Pattern["NETWORK_ERROR"] = <<Flash("green")>>
        /\ Pattern["DOOR_ERROR"] = <<Flash("red")>>
    BY DEF Pattern
  <1>3. /\ Off("green") \in Calls /\ Off("red") \in Calls
        /\ Blink("red", 7, 90) \in Calls /\ Steady("green", 30) \in Calls
    BY CallFacts DEF CallOK, Leds
  <1>5. Succeeded(30) = <<Blink("red", 7, 90), Steady("green", 30)>>
    BY DEF Succeeded
  <1>6. Pattern["LOCK_SUCCESS"] = <<Off("green")>> \o Succeeded(30)
    BY DEF Pattern
  <1>7. Pattern["UNLOCK_SUCCESS"] = <<Off("green"), Off("red")>> \o Succeeded(30)
    BY DEF Pattern
  <1>9. Pattern["LOCK_SUCCESS"] = <<Off("green"), Blink("red", 7, 90), Steady("green", 30)>>
    <2> DEFINE a == Off("green")
               b == Blink("red", 7, 90)
               c == Steady("green", 30)
    <2>1. a \in Calls /\ b \in Calls /\ c \in Calls
      BY <1>3
    <2>2. Pattern["LOCK_SUCCESS"] = <<a>> \o <<b, c>>
      BY <1>5, <1>6
    <2> HIDE DEF a, b, c
    <2>3. <<a>> \o <<b, c>> = <<a, b, c>>
      BY <2>1, JoinsThree
    <2> QED BY <2>2, <2>3 DEF a, b, c
  <1>10. Pattern["UNLOCK_SUCCESS"] =
            <<Off("green"), Off("red"), Blink("red", 7, 90), Steady("green", 30)>>
    <2> DEFINE a == Off("green")
               b == Off("red")
               c == Blink("red", 7, 90)
               d == Steady("green", 30)
    <2>1. a \in Calls /\ b \in Calls /\ c \in Calls /\ d \in Calls
      BY <1>3
    <2>2. Pattern["UNLOCK_SUCCESS"] = <<a, b>> \o <<c, d>>
      BY <1>5, <1>7
    <2> HIDE DEF a, b, c, d
    <2>3. <<a, b>> \o <<c, d>> = <<a, b, c, d>>
      BY <2>1, JoinsFour
    <2> QED BY <2>2, <2>3 DEF a, b, c, d
  <1>8. /\ Pattern["LOCK_FAILURE"] = <<Off("green"), Off("red"), Blink("red", 10, 90), Flash("red")>>
        /\ Pattern["UNLOCK_FAILURE"] = <<Off("green"), Off("red"), Blink("red", 10, 90), Flash("red")>>
    BY DEF Pattern, Refused
  <1> QED BY <1>1, <1>2, <1>8, <1>9, <1>10


LEMMA PromiseAt ==
    ASSUME NEW s, NEW i \in 1 .. Len(s), NEW l, NEW lit, LedOf(s[i]) = l, Whole(s[i], l, lit),
           \A j \in 1 .. Len(s) : j > i => LedOf(s[j]) # l
    PROVE  Promises(1, s, l, lit)
  BY Zenon DEF Promises, LastFrom

LEMMA OneCall ==
    ASSUME NEW c, CallOK(c), NEW s, s = <<c>>
    PROVE  /\ CallsOK(s) /\ s # <<>>
           /\ \A l, lit : LedOf(c) = l /\ Whole(c, l, lit) => Promises(1, s, l, lit)
  <1>1. c \in Calls
    BY DEF CallOK
  <1>2. s \in Seq(Calls) /\ Len(s) = 1 /\ s[1] = c
    <2> HIDE DEF Calls
    <2> QED BY <1>1
  <1>3. CallsOK(s) /\ s # <<>>
    <2>1. \A i \in 1 .. 1 : i = 1
      OBVIOUS
    <2>2. s # <<>>
      BY <1>2
    <2> QED BY <1>2, <2>1, <2>2 DEF CallsOK
  <1>4. ASSUME NEW l, NEW lit, LedOf(c) = l, Whole(c, l, lit) PROVE Promises(1, s, l, lit)
    <2>1. 1 \in 1 .. Len(s) /\ \A j \in 1 .. Len(s) : ~ (j > 1)
      BY <1>2
    <2>2. LedOf(s[1]) = l /\ Whole(s[1], l, lit)
      BY <1>2, <1>4, Zenon
    <2> QED BY <2>1, <2>2, PromiseAt, Zenon
  <1> QED BY <1>3, <1>4

LEMMA ThreeCalls ==
    ASSUME NEW a, NEW b, NEW c, CallOK(a), CallOK(b), CallOK(c), NEW s, s = <<a, b, c>>
    PROVE  /\ CallsOK(s) /\ s # <<>>
           /\ \A l, lit : LedOf(c) = l /\ Whole(c, l, lit) => Promises(1, s, l, lit)
           /\ \A l, lit : LedOf(b) = l /\ Whole(b, l, lit) /\ LedOf(c) # l => Promises(1, s, l, lit)
  <1>1. a \in Calls /\ b \in Calls /\ c \in Calls
    BY DEF CallOK
  <1>2. s \in Seq(Calls) /\ Len(s) = 3 /\ s[1] = a /\ s[2] = b /\ s[3] = c
    <2> HIDE DEF Calls
    <2> QED BY <1>1
  <1>3. CallsOK(s) /\ s # <<>>
    <2>1. \A i \in 1 .. 3 : i = 1 \/ i = 2 \/ i = 3
      OBVIOUS
    <2>2. s # <<>>
      BY <1>2
    <2> QED BY <1>2, <2>1, <2>2 DEF CallsOK
  <1>4. ASSUME NEW l, NEW lit, LedOf(c) = l, Whole(c, l, lit) PROVE Promises(1, s, l, lit)
    <2>1. 3 \in 1 .. Len(s) /\ \A j \in 1 .. Len(s) : ~ (j > 3)
      BY <1>2
    <2>2. LedOf(s[3]) = l /\ Whole(s[3], l, lit)
      BY <1>2, <1>4, Zenon
    <2> QED BY <2>1, <2>2, PromiseAt, Zenon
  <1>5. ASSUME NEW l, NEW lit, LedOf(b) = l, Whole(b, l, lit), LedOf(c) # l
        PROVE  Promises(1, s, l, lit)
    <2>1. 2 \in 1 .. Len(s) /\ \A j \in 1 .. Len(s) : j > 2 => j = 3
      BY <1>2
    <2>2. LedOf(s[2]) = l /\ Whole(s[2], l, lit) /\ LedOf(s[3]) # l
      BY <1>2, <1>5, Zenon
    <2> QED BY <2>1, <2>2, PromiseAt, Zenon
  <1> QED BY <1>3, <1>4, <1>5

LEMMA FourCalls ==
    ASSUME NEW a, NEW b, NEW c, NEW d, CallOK(a), CallOK(b), CallOK(c), CallOK(d),
           NEW s, s = <<a, b, c, d>>
    PROVE  /\ CallsOK(s) /\ s # <<>>
           /\ \A l, lit : LedOf(d) = l /\ Whole(d, l, lit) => Promises(1, s, l, lit)
           /\ \A l, lit : LedOf(c) = l /\ Whole(c, l, lit) /\ LedOf(d) # l => Promises(1, s, l, lit)
           /\ \A l, lit : LedOf(a) = l /\ Whole(a, l, lit) /\ LedOf(b) # l /\ LedOf(c) # l /\ LedOf(d) # l
                              => Promises(1, s, l, lit)
  <1>1. a \in Calls /\ b \in Calls /\ c \in Calls /\ d \in Calls
    BY DEF CallOK
  <1>2. s \in Seq(Calls) /\ Len(s) = 4 /\ s[1] = a /\ s[2] = b /\ s[3] = c /\ s[4] = d
    <2> HIDE DEF Calls
    <2> QED BY <1>1
  <1>3. CallsOK(s) /\ s # <<>>
    <2>1. \A i \in 1 .. 4 : i = 1 \/ i = 2 \/ i = 3 \/ i = 4
      OBVIOUS
    <2>2. s # <<>>
      BY <1>2
    <2> QED BY <1>2, <2>1, <2>2 DEF CallsOK
  <1>4. ASSUME NEW l, NEW lit, LedOf(d) = l, Whole(d, l, lit) PROVE Promises(1, s, l, lit)
    <2>1. 4 \in 1 .. Len(s) /\ \A j \in 1 .. Len(s) : ~ (j > 4)
      BY <1>2
    <2>2. LedOf(s[4]) = l /\ Whole(s[4], l, lit)
      BY <1>2, <1>4, Zenon
    <2> QED BY <2>1, <2>2, PromiseAt, Zenon
  <1>5. ASSUME NEW l, NEW lit, LedOf(c) = l, Whole(c, l, lit), LedOf(d) # l
        PROVE  Promises(1, s, l, lit)
    <2>1. 3 \in 1 .. Len(s) /\ \A j \in 1 .. Len(s) : j > 3 => j = 4
      BY <1>2
    <2>2. LedOf(s[3]) = l /\ Whole(s[3], l, lit) /\ LedOf(s[4]) # l
      BY <1>2, <1>5, Zenon
    <2> QED BY <2>1, <2>2, PromiseAt, Zenon
  <1>6. ASSUME NEW l, NEW lit, LedOf(a) = l, Whole(a, l, lit), LedOf(b) # l, LedOf(c) # l, LedOf(d) # l
        PROVE  Promises(1, s, l, lit)
    <2>1. 1 \in 1 .. Len(s) /\ \A j \in 1 .. Len(s) : j > 1 => j = 2 \/ j = 3 \/ j = 4
      BY <1>2
    <2>2. LedOf(s[1]) = l /\ Whole(s[1], l, lit) /\ LedOf(s[2]) # l /\ LedOf(s[3]) # l /\ LedOf(s[4]) # l
      BY <1>2, <1>6, Zenon
    <2> QED BY <2>1, <2>2, PromiseAt, Zenon
  <1> QED BY <1>3, <1>4, <1>5, <1>6

LEMMA NamedCalls ==
    /\ \A l \in Leds : CallOK(Off(l)) /\ LedOf(Off(l)) = l /\ Whole(Off(l), l, FALSE)
    /\ \A l \in Leds : CallOK(Flash(l)) /\ LedOf(Flash(l)) = l /\ Whole(Flash(l), l, TRUE)
    /\ LET c == Steady("green", 30) IN CallOK(c) /\ LedOf(c) = "green" /\ Whole(c, "green", TRUE)
    /\ LET c == Steady("green", 50) IN CallOK(c) /\ LedOf(c) = "green" /\ Whole(c, "green", TRUE)
    /\ LET c == Blink("red", 2, 50) IN CallOK(c) /\ LedOf(c) = "red" /\ Whole(c, "red", FALSE)
    /\ LET c == Blink("red", 7, 90) IN CallOK(c) /\ LedOf(c) = "red" /\ Whole(c, "red", FALSE)
    /\ LET c == Blink("red", 10, 90) IN CallOK(c) /\ LedOf(c) = "red" /\ Whole(c, "red", FALSE)
    /\ "green" \in Leds /\ "red" \in Leds
  <1>1. "green" \in Leds /\ "red" \in Leds
    BY DEF Leds
  <1> HIDE DEF Leds
  <1>2. 30 \in {30, 50} /\ 50 \in {30, 50} /\ 7 \in {7, 10} /\ 10 \in {7, 10}
    OBVIOUS
  <1> QED BY <1>1, <1>2, CallFacts, Zenon

\* What led.c promises of a pattern is what its calls do.
LEMMA PatternPromises ==
    ASSUME NEW kind \in Kinds
    PROVE  /\ CallsOK(Pattern[kind]) /\ Pattern[kind] # <<>>
           /\ \A l \in LitAfter(kind) : l \in Leds /\ Promises(1, Pattern[kind], l, TRUE)
           /\ \A l \in DarkAfter(kind) : l \in Leds /\ Promises(1, Pattern[kind], l, FALSE)
  <1> DEFINE s == Pattern[kind]
  <1>1. "green" \in Leds /\ "red" \in Leds /\ "green" # "red"
    BY DEF Leds
  <1>2. CASE kind \in {"BLINK_RED", "HUB_FAILURE"}
    <2>1. PICK c : s = <<c>> /\ CallOK(c) /\ LedOf(c) = "red" /\ Whole(c, "red", FALSE)
      <3>1. CASE kind = "BLINK_RED"
        BY <3>1, PatternTable, NamedCalls, Zenon
      <3>2. CASE kind = "HUB_FAILURE"
        BY <3>2, PatternTable, NamedCalls, Zenon
      <3> QED BY <1>2, <3>1, <3>2
    <2>2. CallsOK(s) /\ s # <<>> /\ Promises(1, s, "red", FALSE)
      BY <2>1, OneCall, Zenon
    <2>3. LitAfter(kind) = {} /\ DarkAfter(kind) = {"red"}
      BY <1>2 DEF LitAfter, FlashingAfter, SteadyAfter, DarkAfter, Success, Failed
    <2> QED BY <1>1, <2>2, <2>3
  <1>3. CASE kind = "NETWORK_ERROR"
    <2>1. PICK c : s = <<c>> /\ CallOK(c) /\ LedOf(c) = "green" /\ Whole(c, "green", TRUE)
      BY <1>3, PatternTable, NamedCalls, Zenon
    <2>2. CallsOK(s) /\ s # <<>> /\ Promises(1, s, "green", TRUE)
      BY <2>1, OneCall, Zenon
    <2>3. LitAfter(kind) = {"green"} /\ DarkAfter(kind) = {}
      BY <1>3 DEF LitAfter, FlashingAfter, SteadyAfter, DarkAfter, Success, Failed
    <2> QED BY <1>1, <2>2, <2>3
  <1>8. CASE kind = "HUB_SUCCESS"
    <2>1. PICK c : s = <<c>> /\ CallOK(c)
      BY <1>8, PatternTable, NamedCalls, Zenon
    <2>2. CallsOK(s) /\ s # <<>>
      BY <2>1, OneCall, Zenon
    <2>3. LitAfter(kind) = {} /\ DarkAfter(kind) = {}
      BY <1>8 DEF LitAfter, FlashingAfter, SteadyAfter, DarkAfter, Success, Failed
    <2> QED BY <2>2, <2>3
  <1>4. CASE kind = "DOOR_ERROR"
    <2>1. PICK c : s = <<c>> /\ CallOK(c) /\ LedOf(c) = "red" /\ Whole(c, "red", TRUE)
      BY <1>4, PatternTable, NamedCalls, Zenon
    <2>2. CallsOK(s) /\ s # <<>> /\ Promises(1, s, "red", TRUE)
      BY <2>1, OneCall, Zenon
    <2>3. LitAfter(kind) = {"red"} /\ DarkAfter(kind) = {}
      BY <1>4 DEF LitAfter, FlashingAfter, SteadyAfter, DarkAfter, Success, Failed
    <2> QED BY <1>1, <2>2, <2>3
  <1>5. CASE kind = "LOCK_SUCCESS"
    <2>1. PICK a, b, c : /\ s = <<a, b, c>> /\ CallOK(a) /\ CallOK(b) /\ CallOK(c)
                         /\ LedOf(b) = "red" /\ Whole(b, "red", FALSE)
                         /\ LedOf(c) = "green" /\ Whole(c, "green", TRUE)
      <3> DEFINE x == Off("green")
                 y == Blink("red", 7, 90)
                 z == Steady("green", 30)
      <3>1. s = <<x, y, z>>
        BY <1>5, PatternTable
      <3>2. /\ CallOK(x) /\ CallOK(y) /\ CallOK(z) /\ LedOf(y) = "red" /\ Whole(y, "red", FALSE)
            /\ LedOf(z) = "green" /\ Whole(z, "green", TRUE)
        BY NamedCalls
      <3> HIDE DEF x, y, z
      <3> QED BY <3>1, <3>2, Zenon
    <2>2. CallsOK(s) /\ s # <<>> /\ Promises(1, s, "green", TRUE) /\ Promises(1, s, "red", FALSE)
      BY <1>1, <2>1, ThreeCalls, Zenon
    <2>3. LitAfter(kind) = {"green"} /\ DarkAfter(kind) = {"red"}
      BY <1>5 DEF LitAfter, FlashingAfter, SteadyAfter, DarkAfter, Success, Failed
    <2> QED BY <1>1, <2>2, <2>3
  <1>6. CASE kind = "UNLOCK_SUCCESS"
    <2>1. PICK a, b, c, d : /\ s = <<a, b, c, d>> /\ CallOK(a) /\ CallOK(b) /\ CallOK(c) /\ CallOK(d)
                            /\ LedOf(c) = "red" /\ Whole(c, "red", FALSE)
                            /\ LedOf(d) = "green" /\ Whole(d, "green", TRUE)
      <3> DEFINE w == Off("green")
                 x == Off("red")
                 y == Blink("red", 7, 90)
                 z == Steady("green", 30)
      <3>1. s = <<w, x, y, z>>
        BY <1>6, PatternTable
      <3>2. /\ CallOK(w) /\ CallOK(x) /\ CallOK(y) /\ CallOK(z) /\ LedOf(y) = "red" /\ Whole(y, "red", FALSE)
            /\ LedOf(z) = "green" /\ Whole(z, "green", TRUE)
        BY NamedCalls
      <3> HIDE DEF w, x, y, z
      <3> QED BY <3>1, <3>2, Zenon
    <2>2. CallsOK(s) /\ s # <<>> /\ Promises(1, s, "green", TRUE) /\ Promises(1, s, "red", FALSE)
      BY <1>1, <2>1, FourCalls, Zenon
    <2>3. LitAfter(kind) = {"green"} /\ DarkAfter(kind) = {"red"}
      BY <1>6 DEF LitAfter, FlashingAfter, SteadyAfter, DarkAfter, Success, Failed
    <2> QED BY <1>1, <2>2, <2>3
  <1>7. CASE kind \in {"LOCK_FAILURE", "UNLOCK_FAILURE"}
    <2>1. PICK a, b, c, d : /\ s = <<a, b, c, d>> /\ CallOK(a) /\ CallOK(b) /\ CallOK(c) /\ CallOK(d)
                            /\ LedOf(a) = "green" /\ Whole(a, "green", FALSE)
                            /\ LedOf(b) = "red" /\ LedOf(c) = "red"
                            /\ LedOf(d) = "red" /\ Whole(d, "red", TRUE)
      <3> DEFINE w == Off("green")
                 x == Off("red")
                 y == Blink("red", 10, 90)
                 z == Flash("red")
      <3>1. s = <<w, x, y, z>>
        BY <1>7, PatternTable
      <3>2. /\ CallOK(w) /\ CallOK(x) /\ CallOK(y) /\ CallOK(z)
            /\ LedOf(w) = "green" /\ Whole(w, "green", FALSE) /\ LedOf(x) = "red"
            /\ LedOf(y) = "red" /\ LedOf(z) = "red" /\ Whole(z, "red", TRUE)
        BY NamedCalls
      <3> HIDE DEF w, x, y, z
      <3> QED BY <3>1, <3>2, Zenon
    <2>2. CallsOK(s) /\ s # <<>> /\ Promises(1, s, "green", FALSE) /\ Promises(1, s, "red", TRUE)
      BY <1>1, <2>1, FourCalls, Zenon
    <2>3. LitAfter(kind) = {"red"} /\ DarkAfter(kind) \subseteq {"green"}
      BY <1>7 DEF LitAfter, FlashingAfter, SteadyAfter, DarkAfter, Success, Failed
    <2> QED BY <1>1, <2>2, <2>3
  <1> QED BY <1>2, <1>3, <1>4, <1>5, <1>6, <1>7, <1>8, PatternTable


-----------------------------------------------------------------------------
(* What the worker has still to do, as it does it.                         *)

LEMMA TailFacts ==
    ASSUME NEW s, CallsOK(s), s # <<>>
    PROVE  /\ CallsOK(Tail(s)) /\ Len(s) \in Nat /\ Len(s) > 0 /\ Len(Tail(s)) = Len(s) - 1
           /\ \A i \in 1 .. Len(Tail(s)) : i + 1 \in 2 .. Len(s) /\ Tail(s)[i] = s[i + 1]
           /\ CallOK(s[1])
  <1> DEFINE t == Tail(s)
  <1>1. s \in Seq(Calls)
    BY DEF CallsOK
  <1> HIDE DEF Calls
  <1>2. /\ t \in Seq(Calls) /\ Len(t) = Len(s) - 1
        /\ \A i \in 1 .. Len(t) : t[i] = s[i + 1]
    BY <1>1, HeadTailProperties
  <1>3. Len(s) \in Nat /\ Len(s) > 0
    BY <1>1, NonEmpty, LenProperties
  <1> HIDE DEF t
  <1>4. \A i \in 1 .. Len(t) : i + 1 \in 2 .. Len(s) /\ t[i] = s[i + 1]
    BY <1>2, <1>3
  <1>5. \A i \in 2 .. Len(s) : i \in 1 .. Len(s)
    BY <1>3
  <1>6. \A i \in 1 .. Len(t) : CallOK(t[i])
    BY <1>4, <1>5, Zenon DEF CallsOK
  <1>7. 1 \in 1 .. Len(s)
    BY <1>3
  <1>8. CallOK(s[1])
    BY <1>7 DEF CallsOK
  <1>9. CallsOK(t)
    BY <1>2, <1>6, Zenon DEF CallsOK
  <1> QED BY <1>2, <1>3, <1>4, <1>8, <1>9 DEF t

\* A pattern not begun settles what it promises.
LEMMA PromisesSettle ==
    ASSUME NEW s, CallsOK(s), s # <<>>, NEW l, NEW lit \in BOOLEAN, Promises(1, s, l, lit),
           NEW led, NEW busy
    PROVE  Settles(s, led, busy, l, lit)
  <1>1. Len(s) \in Nat
    BY TailFacts
  <1>2. PICK i \in 1 .. Len(s) : LastFrom(1, s, i, l) /\ Whole(s[i], l, lit)
    BY DEF Promises
  <1>3. \A j \in 2 .. Len(s) : j \in 1 .. Len(s)
    BY <1>1
  <1>4. CASE i = 1
    <2>1. \A j \in 2 .. Len(s) : LedOf(s[j]) # l
      BY <1>1, <1>2, <1>4 DEF LastFrom
    <2>2. Begun(s[1], led, l, lit)
      <3>1. ~ (4 = 2) /\ ~ (4 = 1)
        OBVIOUS
      <3> QED BY <1>2, <1>4, <3>1, Zenon DEF Begun, Whole, Ready
    <2> QED BY <1>2, <1>4, <2>1, <2>2, Zenon DEF Settles, ByFirst, LastFrom
  <1>5. CASE i # 1
    <2>1. i \in 2 .. Len(s)
      BY <1>1, <1>5
    <2>2. Promises(2, s, l, lit)
      BY <1>2, <1>3, <2>1, Zenon DEF Promises, LastFrom
    <2> QED BY <2>2, Zenon DEF Settles
  <1> QED BY <1>4, <1>5

\* What a later call promises is what the rest promises.
LEMMA TailPromises ==
    ASSUME NEW s, CallsOK(s), s # <<>>, NEW l, NEW lit, Promises(2, s, l, lit)
    PROVE  Promises(1, Tail(s), l, lit) /\ Tail(s) # <<>>
  <1> DEFINE t == Tail(s)
  <1>1. /\ CallsOK(t) /\ Len(s) \in Nat /\ Len(t) = Len(s) - 1
        /\ \A i \in 1 .. Len(t) : i + 1 \in 2 .. Len(s) /\ t[i] = s[i + 1]
    BY TailFacts
  <1> HIDE DEF t
  <1>2. PICK i \in 2 .. Len(s) : LastFrom(2, s, i, l) /\ Whole(s[i], l, lit)
    BY DEF Promises
  <1> DEFINE k == i - 1
  <1>3. k \in 1 .. Len(t) /\ k + 1 = i /\ t[k] = s[i]
    BY <1>1, <1>2
  <1>4. \A j \in 1 .. Len(t) : j > k => LedOf(t[j]) # l
    <2> TAKE j \in 1 .. Len(t)
    <2>1. j > k => j + 1 > i /\ j + 1 \in 2 .. Len(s) /\ t[j] = s[j + 1]
      BY <1>1, <1>2
    <2> QED BY <1>2, <2>1 DEF LastFrom
  <1> HIDE DEF k
  <1>5. Promises(1, t, l, lit)
    BY <1>2, <1>3, <1>4, Zenon DEF Promises, LastFrom
  <1>6. t # <<>>
    BY <1>1, <1>3, NonEmpty DEF CallsOK
  <1> QED BY <1>5, <1>6 DEF t

\* The first call is over.
LEMMA FirstDone ==
    ASSUME NEW s, CallsOK(s), s # <<>>, NEW l, NEW lit \in BOOLEAN, NEW led, NEW new, NEW busy,
           Settles(s, led, busy, l, lit),
           LedOf(s[1]) # l => new = led,
           LedOf(s[1]) = l /\ Begun(s[1], led, l, lit) => Shows(new, busy, l, lit)
    PROVE  Settles(Tail(s), new, busy, l, lit)
  <1> DEFINE t == Tail(s)
  <1>1. /\ CallsOK(t) /\ Len(s) \in Nat /\ Len(t) = Len(s) - 1 /\ Len(s) > 0
        /\ \A i \in 1 .. Len(t) : i + 1 \in 2 .. Len(s) /\ t[i] = s[i + 1]
    BY TailFacts
  <1>2. CASE Promises(2, s, l, lit)
    <2>1. Promises(1, t, l, lit) /\ t # <<>>
      BY <1>2, TailPromises
    <2> HIDE DEF t
    <2>2. Settles(t, new, busy, l, lit)
      BY <1>1, <2>1, PromisesSettle
    <2> QED BY <2>2 DEF t
  <1> HIDE DEF t
  <1>3. CASE ByFirst(s, led, l, lit)
    <2>1. \A j \in 1 .. Len(t) : LedOf(t[j]) # l
      BY <1>1, <1>3 DEF ByFirst
    <2> QED BY <1>3, <2>1, Zenon DEF t, ByFirst, Settles, Done
  <1>4. CASE Done(s, led, busy, l, lit)
    <2>1. \A j \in 1 .. Len(t) : LedOf(t[j]) # l
      <3>1. \A j \in 2 .. Len(s) : j \in 1 .. Len(s)
        BY <1>1
      <3> QED BY <1>1, <1>4, <3>1, Zenon DEF Done
    <2>2. LedOf(s[1]) # l
      <3>1. 1 \in 1 .. Len(s)
        BY <1>1
      <3> QED BY <1>4, <3>1 DEF Done
    <2> QED BY <1>4, <2>1, <2>2, Zenon DEF t, Settles, Done
  <1> QED BY <1>2, <1>3, <1>4 DEF Settles

\* The first call goes on.
LEMMA FirstGoesOn ==
    ASSUME NEW s, CallsOK(s), s # <<>>, NEW t, t # <<>>, Len(t) = Len(s),
           LedOf(t[1]) = LedOf(s[1]), \A j \in 2 .. Len(s) : t[j] = s[j],
           NEW l, NEW lit \in BOOLEAN, NEW led, NEW new, NEW busy,
           Settles(s, led, busy, l, lit),
           LedOf(s[1]) # l => new = led,
           LedOf(s[1]) = l /\ Begun(s[1], led, l, lit) => Begun(t[1], new, l, lit)
    PROVE  Settles(t, new, busy, l, lit)
  <1>1. Len(s) \in Nat /\ Len(s) > 0
    BY TailFacts
  <1>2. CASE Promises(2, s, l, lit)
    <2>1. PICK i \in 2 .. Len(s) : LastFrom(2, s, i, l) /\ Whole(s[i], l, lit)
      BY <1>2 DEF Promises
    <2>2. LastFrom(2, t, i, l)
      BY <2>1 DEF LastFrom
    <2>3. i \in 2 .. Len(t) /\ t[i] = s[i]
      BY <2>1
    <2>4. Promises(2, t, l, lit)
      BY <2>1, <2>2, <2>3, Zenon DEF Promises
    <2> QED BY <2>4, Zenon DEF Settles
  <1>3. CASE ByFirst(s, led, l, lit)
    <2>1. ByFirst(t, new, l, lit)
      BY <1>3, Zenon DEF ByFirst
    <2> QED BY <2>1, Zenon DEF Settles
  <1>4. CASE Done(s, led, busy, l, lit)
    <2>1. 1 \in 1 .. Len(s) /\ \A j \in 1 .. Len(s) : j = 1 \/ j \in 2 .. Len(s)
      BY <1>1
    <2>2. LedOf(s[1]) # l /\ new = led
      BY <1>4, <2>1 DEF Done
    <2>3. \A j \in 1 .. Len(t) : LedOf(t[j]) # l
      BY <1>4, <2>1, <2>2, Zenon DEF Done
    <2> QED BY <1>4, <2>2, <2>3, Zenon DEF Settles, Done
  <1> QED BY <1>2, <1>3, <1>4 DEF Settles

\* A type of LEDs, as the driver keeps them.
LedOK(d) ==
    /\ d.period \in Nat /\ d.duty_cycle \in Nat /\ d.duty_cycle <= d.period

\* The next write of the call that settles an LED.
LEMMA NextWrite ==
    ASSUME NEW c, CallOK(c), NEW l, LedOf(c) = l, NEW lit \in BOOLEAN, NEW d, NEW e, NEW busy,
           LedOK(d), LedOK(e), Begun(c, d, l, lit), Took(d, e, c.writes[1])
    PROVE  /\ Tail(c.writes) = <<>> => Shows(e, busy, l, lit)
           /\ \A b : Tail(c.writes) # <<>> /\ b.writes = Tail(c.writes) => Begun(b, e, l, lit)
  <1> DEFINE ws == c.writes
             w == ws[1]
             t == Tail(ws)
  <1>1. ws \in Seq(Writes) /\ ws # <<>>
    BY DEF CallOK, ListOK
  <1>2. /\ Len(ws) \in Nat /\ Len(ws) > 0 /\ t \in Seq(Writes) /\ Len(t) = Len(ws) - 1
        /\ \A i \in 1 .. Len(t) : t[i] = ws[i + 1]
        /\ t # <<>> <=> Len(t) > 0
    <2> HIDE DEF ws, Writes
    <2>1. /\ t \in Seq(Writes) /\ Len(t) = Len(ws) - 1
          /\ \A i \in 1 .. Len(t) : t[i] = ws[i + 1]
      BY <1>1, HeadTailProperties
    <2> HIDE DEF t
    <2> QED BY <1>1, <2>1, NonEmpty, LenProperties
  <1>3. \A i \in 1 .. Len(ws) : WriteOK(ws[i]) /\ ws[i].led = l
    BY DEF CallOK, ListOK
  <1> HIDE DEF ws, t
  <1>4. CASE lit
    <2>1. Lights(ws, l) /\ Ready(d, ws)
      BY <1>4 DEF Begun, ws
    <2>2. CASE Len(ws) = 1
      <3>1. w = Write(l, "enable", 1) /\ d.duty_cycle > 0
        BY <2>1, <2>2 DEF Lights, IsOn, Ready
      <3>2. w.file = "enable" /\ w.value = 1
        BY <3>1 DEF Write
      <3>3. e.enable = 1 /\ e.duty_cycle > 0
        BY <3>1, <3>2 DEF Took, LedOK, ws
      <3>4. Shows(e, busy, l, lit) /\ ~ (t # <<>>)
        BY <1>2, <1>4, <2>2, <3>3 DEF Shows
      <3> QED BY <3>4 DEF t, ws
    <2>3. CASE Len(ws) = 2
      <3>1. IsDuty(w, l) /\ IsOn(ws[2], l) /\ w.value <= d.period
        BY <2>1, <2>3 DEF Lights, Ready
      <3>2. w.file = "duty_cycle"
        BY <3>1 DEF Write, IsDuty
      <3>3. w.value > 0
        BY <1>2, <1>3, <3>2 DEF WriteOK
      <3>4. e.duty_cycle > 0
        BY <3>1, <3>2, <3>3 DEF Took, ws
      <3>5. Len(t) = 1 /\ t[1] = ws[2]
        BY <1>2, <2>3
      <3>6. Lights(t, l) /\ Ready(e, t) /\ t # <<>>
        <4>1. Lights(t, l)
          BY <3>1, <3>5, Zenon DEF Lights
        <4>2. Ready(e, t)
          BY <3>4, <3>5 DEF Ready
        <4>4. Len(t) > 0
          BY <3>5
        <4>3. t # <<>>
          BY <1>2, <4>4, Zenon
        <4> QED BY <4>1, <4>2, <4>3
      <3> QED BY <1>4, <3>6 DEF t, ws, Begun
    <2>4. CASE Len(ws) = 3
      <3>1. IsPeriod(w, l) /\ IsDuty(ws[2], l) /\ IsOn(ws[3], l) /\ ws[2].value <= w.value
        BY <2>1, <2>4 DEF Lights
      <3>2. w.file = "period"
        BY <3>1 DEF Write, IsPeriod
      <3>3. e.period >= w.value
        BY <3>2 DEF Took, ws
      <3>4. w.value \in Nat /\ ws[2].value \in Nat
        <4>1. WriteOK(w) /\ WriteOK(ws[2])
          BY <1>2, <1>3, <2>4
        <4> QED BY <4>1, Times DEF WriteOK, Writes
      <3>5. Len(t) = 2 /\ t[1] = ws[2] /\ t[2] = ws[3]
        BY <1>2, <2>4
      <3>6. ws[2].value <= e.period
        BY <3>1, <3>3, <3>4 DEF LedOK
      <3>7. Lights(t, l) /\ Ready(e, t) /\ t # <<>>
        <4>1. Lights(t, l)
          BY <3>1, <3>5, Zenon DEF Lights
        <4>2. Ready(e, t)
          BY <3>5, <3>6 DEF Ready
        <4>4. Len(t) > 0
          BY <3>5
        <4>3. t # <<>>
          BY <1>2, <4>4, Zenon
        <4> QED BY <4>1, <4>2, <4>3
      <3> QED BY <1>4, <3>7 DEF t, ws, Begun
    <2>5. CASE Len(ws) = 4
      <3>1. IsPeriod(ws[2], l) /\ IsDuty(ws[3], l) /\ IsOn(ws[4], l) /\ ws[3].value <= ws[2].value
        BY <2>1, <2>5 DEF Lights
      <3>2. Len(t) = 3 /\ t[1] = ws[2] /\ t[2] = ws[3] /\ t[3] = ws[4]
        BY <1>2, <2>5
      <3>3. Lights(t, l) /\ Ready(e, t) /\ t # <<>>
        <4>1. Lights(t, l)
          BY <3>1, <3>2, Zenon DEF Lights
        <4>2. Ready(e, t)
          BY <3>2 DEF Ready
        <4>4. Len(t) > 0
          BY <3>2
        <4>3. t # <<>>
          BY <1>2, <4>4, Zenon
        <4> QED BY <4>1, <4>2, <4>3
      <3> QED BY <1>4, <3>3 DEF t, ws, Begun
    <2> QED BY <2>1, <2>2, <2>3, <2>4, <2>5 DEF Lights
  <1>5. CASE ~lit
    <2>1. ws[Len(ws)] = Disable(l)
      BY <1>5 DEF Begun, Darkens, ws
    <2>2. CASE Len(ws) = 1
      <3>1. w.file = "enable" /\ w.value = 0
        BY <2>1, <2>2 DEF Disable, Write
      <3>2. e.enable = 0
        BY <3>1 DEF Took, ws
      <3>3. Shows(e, busy, l, lit) /\ ~ (t # <<>>)
        BY <1>2, <1>5, <2>2, <3>2 DEF Shows
      <3> QED BY <3>3 DEF t, ws
    <2>3. CASE Len(ws) # 1
      <3>1. Len(t) > 0 /\ Len(t) \in 1 .. Len(t) /\ Len(t) + 1 = Len(ws)
        BY <1>2, <2>3
      <3>2. t[Len(t)] = ws[Len(ws)]
        BY <1>2, <3>1
      <3>3. Darkens(t, l) /\ t # <<>>
        BY <1>2, <2>1, <3>1, <3>2 DEF Darkens
      <3> QED BY <1>5, <3>3 DEF t, ws, Begun
    <2> QED BY <2>2, <2>3
  <1> QED BY <1>4, <1>5

\* A write of main's flashing leaves an LED that is or comes to be lit as it is.
LEMMA OtherWrite ==
    ASSUME NEW s, CallsOK(s), NEW d, NEW e, NEW busy, NEW after, NEW w,
           LedOK(d), LedOK(e), WriteOK(w), w.file = "period" => w.value = Slow, Took(d, e, w),
           Settles(s, d, busy, "green", TRUE), after \/ e.enable = 1
    PROVE  Settles(s, e, after, "green", TRUE)
  <1>1. w.value \in Nat /\ w.file \in {"enable", "period", "duty_cycle"}
    BY Times DEF WriteOK, Writes
  <1>2. d.duty_cycle > 0 => e.duty_cycle > 0
    BY <1>1 DEF Took, WriteOK, LedOK
  <1>3. e.period >= d.period \/ e.period >= Slow
    BY <1>1 DEF Took, LedOK
  <1>4. CASE Promises(2, s, "green", TRUE)
    BY <1>4, Zenon DEF Settles
  <1>5. CASE ByFirst(s, d, "green", TRUE)
    <2> DEFINE ws == s[1].writes
    <2>1. Len(ws) = 2 => ws[1].value \in Nat /\ ws[1].value <= Slow
      <3>1. CallOK(s[1])
        BY <1>5, TailFacts DEF ByFirst
      <3>2. Len(ws) = 2 => WriteOK(ws[1])
        BY <3>1 DEF CallOK, ListOK
      <3> QED BY <3>2, Times DEF WriteOK, Writes
    <2>2. Ready(d, ws) /\ Lights(ws, "green")
      BY <1>5 DEF ByFirst, Begun
    <2>3. Ready(e, ws)
      BY <1>2, <1>3, <2>1, <2>2, Times DEF Ready, LedOK
    <2>4. ByFirst(s, e, "green", TRUE)
      BY <1>5, <2>2, <2>3, Zenon DEF ByFirst, Begun
    <2> QED BY <2>4, Zenon DEF Settles
  <1>6. CASE Done(s, d, busy, "green", TRUE)
    <2>1. Done(s, e, after, "green", TRUE)
      BY <1>2, <1>6, Zenon DEF Done, Shows
    <2> QED BY <2>1, Zenon DEF Settles
  <1> QED BY <1>4, <1>5, <1>6 DEF Settles


-----------------------------------------------------------------------------
(* LedPatterns: its steps.                                                 *)

\* The call a thread makes, and its next write.
LEMMA CallNow ==
    ASSUME TodoInv, NEW t \in Threads, Busy(t)
    PROVE  /\ CallsOK(todo[t]) /\ todo[t] # <<>>
           /\ Call(t) = todo[t][1] /\ CallOK(Call(t))
           /\ Write1(t) = Call(t).writes[1] /\ WriteOK(Write1(t)) /\ Write1(t).led = LedOf(Call(t))
           /\ Write1(t).led \in Leds
  <1> DEFINE s == todo[t]
             c == s[1]
             ws == c.writes
  <1>1. CallsOK(s) /\ s # <<>>
    BY DEF TodoInv, Busy
  <1>2. s \in Seq(Calls)
    BY <1>1 DEF CallsOK
  <1>3. Call(t) = c /\ CallOK(c)
    <2>1. Head(s) = s[1]
      BY <1>1, <1>2
    <2> QED BY <1>1, <2>1, TailFacts DEF Call
  <1>4. ws \in Seq(Writes) /\ ws # <<>> /\ ListOK(ws, LedOf(c))
    BY <1>3 DEF CallOK, ListOK
  <1>5. Head(ws) = ws[1] /\ 1 \in 1 .. Len(ws)
    <2> HIDE DEF ws, Writes
    <2>1. Len(ws) \in Nat /\ Len(ws) > 0
      BY <1>4, NonEmpty, LenProperties
    <2> QED BY <1>4, <2>1
  <1>6. Write1(t) = ws[1]
    BY <1>3, <1>5 DEF Write1
  <1>7. WriteOK(ws[1]) /\ ws[1].led = LedOf(c)
    BY <1>4, <1>5 DEF ListOK
  <1>8. ws[1].led \in Leds
    BY <1>7 DEF WriteOK, Writes
  <1> QED BY <1>1, <1>3, <1>6, <1>7, <1>8

LEMMA GoOnFacts ==
    ASSUME TodoInv, NEW t \in Threads, Busy(t), NEW ws, NEW ow, GoOn(t, ws, ow),
           ListOK(ws, LedOf(todo[t][1])), ListOK(ow, LedOf(todo[t][1]))
    PROVE  /\ todo' \in [Threads -> Seq(Calls)] /\ \A u \in Threads : u # t => todo'[u] = todo[u]
           /\ CallsOK(todo'[t])
           /\ ws = <<>> => todo'[t] = Tail(todo[t])
           /\ ws # <<>> =>
                 /\ todo'[t] # <<>> /\ Len(todo'[t]) = Len(todo[t])
                 /\ LedOf(todo'[t][1]) = LedOf(todo[t][1])
                 /\ todo'[t][1].writes = ws /\ todo'[t][1].otherwise = ow
                 /\ \A j \in 2 .. Len(todo[t]) : todo'[t][j] = todo[t][j]
  <1> DEFINE s == todo[t]
             c == [Head(s) EXCEPT !.writes = ws, !.otherwise = ow]
             r == Tail(s)
             n == IF ws = <<>> THEN r ELSE <<c>> \o r
             l == LedOf(s[1])
  <1>1. /\ CallsOK(s) /\ s # <<>> /\ Head(s) = s[1] /\ CallOK(s[1])
        /\ todo \in [Threads -> Seq(Calls)]
    BY CallNow DEF Call, TodoInv
  <1>2. todo' = [todo EXCEPT ![t] = n]
    BY DEF GoOn
  <1>3. /\ CallsOK(r) /\ Len(s) \in Nat /\ Len(s) > 0 /\ Len(r) = Len(s) - 1
        /\ \A i \in 1 .. Len(r) : i + 1 \in 2 .. Len(s) /\ r[i] = s[i + 1]
    BY <1>1, TailFacts
  <1>4. ASSUME ws # <<>>
        PROVE  /\ <<c>> \o r \in Seq(Calls) /\ Len(<<c>> \o r) = Len(s) /\ CallOK(c)
               /\ (<<c>> \o r)[1] = c
               /\ \A j \in 2 .. Len(s) : (<<c>> \o r)[j] = s[j]
               /\ c.writes = ws /\ c.otherwise = ow /\ LedOf(c) = l
    <2>1. s[1] \in Calls /\ ws \in Seq(Writes) /\ ow \in Seq(Writes)
      BY <1>1 DEF CallOK, ListOK
    <2>2. c \in Calls /\ c.writes = ws /\ c.otherwise = ow
      <3> DEFINE h == Head(s)
      <3>1. h \in Calls
        BY <1>1, <2>1
      <3> HIDE DEF h
      <3> DEFINE c1 == [h EXCEPT !.writes = ws]
                 c2 == [c1 EXCEPT !.otherwise = ow]
      <3>2. c1 \in Calls /\ c1.writes = ws
        BY <2>1, <3>1 DEF Calls
      <3> HIDE DEF c1
      <3>3. c2 \in Calls /\ c2.writes = ws /\ c2.otherwise = ow
        BY <2>1, <3>2 DEF Calls
      <3>4. c = c2
        BY DEF h, c1
      <3> QED BY <3>3, <3>4
    <2> HIDE DEF c
    <2>3. ws[1].led = l
      <3>1. Len(ws) \in Nat /\ Len(ws) > 0
        BY <1>4, <2>1, NonEmpty, LenProperties
      <3> QED BY <3>1 DEF ListOK
    <2>4. LedOf(c) = l
      BY <2>2, <2>3 DEF LedOf
    <2>5. CallOK(c)
      <3> HIDE DEF l
      <3>1. ListOK(ws, l) /\ ListOK(ow, l)
        BY DEF l
      <3> QED BY <1>4, <2>2, <2>4, <3>1, Zenon DEF CallOK
    <2>6. /\ <<c>> \o r \in Seq(Calls) /\ Len(<<c>> \o r) = 1 + Len(r)
          /\ \A i \in 1 .. 1 + Len(r) : (<<c>> \o r)[i] = IF i <= 1 THEN c ELSE r[i - 1]
      <3> DEFINE a == <<c>>
      <3> HIDE DEF r, Calls
      <3>1. a \in Seq(Calls) /\ r \in Seq(Calls) /\ Len(a) = 1 /\ a[1] = c
        BY <1>3, <2>2 DEF CallsOK
      <3> HIDE DEF a
      <3>2. /\ a \o r \in Seq(Calls) /\ Len(a \o r) = Len(a) + Len(r)
            /\ \A i \in 1 .. Len(a) + Len(r) : (a \o r)[i] = IF i <= Len(a) THEN a[i] ELSE r[i - Len(a)]
        BY <3>1, ConcatProperties, Zenon
      <3>3. Len(r) \in Nat
        BY <3>1, LenProperties
      <3>4. \A i \in 1 .. 1 + Len(r) : i <= 1 => i = 1
        BY <3>3
      <3>5. \A i \in 1 .. 1 + Len(r) : (a \o r)[i] = IF i <= 1 THEN c ELSE r[i - 1]
        BY <3>1, <3>2, <3>4
      <3> QED BY <3>1, <3>2, <3>5 DEF a
    <2> DEFINE q == <<c>> \o r
    <2> HIDE DEF q, r
    <2>7. /\ q \in Seq(Calls) /\ Len(q) = Len(s) /\ q[1] = c
          /\ \A j \in 2 .. Len(s) : q[j] = s[j]
      <3>1. /\ q \in Seq(Calls) /\ Len(q) = 1 + Len(r)
            /\ \A i \in 1 .. 1 + Len(r) : q[i] = IF i <= 1 THEN c ELSE r[i - 1]
        BY <2>6 DEF q
      <3>2. \A j \in 2 .. Len(s) : j \in 1 .. 1 + Len(r) /\ ~ (j <= 1) /\ j - 1 \in 1 .. Len(r) /\ (j - 1) + 1 = j
        BY <1>3
      <3> HIDE DEF s
      <3>3. \A j \in 2 .. Len(s) : r[j - 1] = s[j]
        BY <1>3, <3>2
      <3> QED BY <1>3, <3>1, <3>2, <3>3
    <2> QED BY <2>2, <2>4, <2>5, <2>7 DEF q
  <1> HIDE DEF c
  <1>5. n \in Seq(Calls) /\ todo'[t] = n
    BY <1>1, <1>2, <1>3, <1>4 DEF CallsOK
  <1>6. todo' \in [Threads -> Seq(Calls)] /\ \A u \in Threads : u # t => todo'[u] = todo[u]
    <2> HIDE DEF n
    <2> QED BY <1>1, <1>2, <1>5
  <1>7. CASE ws = <<>>
    BY <1>3, <1>5, <1>6, <1>7
  <1>8. CASE ws # <<>>
    <2> DEFINE q == <<c>> \o r
    <2>1. /\ q \in Seq(Calls) /\ Len(q) = Len(s) /\ CallOK(c) /\ q[1] = c
          /\ \A j \in 2 .. Len(s) : q[j] = s[j]
          /\ c.writes = ws /\ c.otherwise = ow /\ LedOf(c) = l
      BY <1>4, <1>8
    <2>2. todo'[t] = q
      BY <1>5, <1>8
    <2> HIDE DEF q, s
    <2>3. q # <<>>
      BY <1>3, <2>1, NonEmpty
    <2>4. CallsOK(q)
      <3>1. \A i \in 1 .. Len(s) : i = 1 \/ i \in 2 .. Len(s)
        BY <1>3
      <3> QED BY <1>1, <2>1, <3>1, Zenon DEF CallsOK
    <2>5. todo' \in [Threads -> Seq(Calls)] /\ \A u \in Threads : u # t => todo'[u] = todo[u]
      BY <1>6
    <2> QED BY <1>8, <2>1, <2>2, <2>3, <2>4, <2>5 DEF s
  <1> QED BY <1>7, <1>8


\* Every step of the patterns is a step of the queue, or leaves it alone.
LEMMA PatternStep == PatternNext => [Next]_vars
  <1> SUFFICES ASSUME PatternNext PROVE [Next]_vars
    OBVIOUS
  <1>1. CASE \E t \in Threads : WriteFile(t) \/ OpenFails(t)
    BY <1>1 DEF WriteFile, OpenFails
  <1>2. CASE WorkerStep
    BY <1>2 DEF WorkerStep, Take, Shown, Next, Worker
  <1>3. CASE ShowDirectly
    BY <1>3 DEF ShowDirectly
  <1>4. CASE InitAgain \/ InitCreates \/ InitFails \/ Joined \/ ShutdownIdle \/ Shutdown
    BY <1>4, Zenon DEF Next, Main
  <1>5. CASE Enqueue \/ SpuriousWakeup
    BY <1>5, Zenon DEF Next
  <1> QED BY <1>1, <1>2, <1>3, <1>4, <1>5, Zenon DEF PatternNext

\* What is left of a list of writes.
LEMMA ListTail ==
    ASSUME NEW ws, NEW l, ListOK(ws, l), ws # <<>>
    PROVE  /\ ListOK(Tail(ws), l) /\ Len(ws) \in Nat /\ Len(ws) > 0
           /\ Len(Tail(ws)) = Len(ws) - 1
           /\ \A i \in 1 .. Len(Tail(ws)) : Tail(ws)[i] = ws[i + 1]
           /\ Tail(ws) # <<>> <=> Len(ws) > 1
  <1> DEFINE t == Tail(ws)
  <1>1. ws \in Seq(Writes)
    BY DEF ListOK
  <1> HIDE DEF Writes
  <1>2. /\ t \in Seq(Writes) /\ Len(t) = Len(ws) - 1
        /\ \A i \in 1 .. Len(t) : t[i] = ws[i + 1]
    BY <1>1, HeadTailProperties
  <1>3. Len(ws) \in Nat /\ Len(ws) > 0
    BY <1>1, NonEmpty, LenProperties
  <1> HIDE DEF t
  <1>4. \A i \in 1 .. Len(t) : i + 1 \in 1 .. Len(ws)
    BY <1>2, <1>3
  <1>5. ListOK(t, l)
    BY <1>2, <1>4, Zenon DEF ListOK
  <1>6. t # <<>> <=> Len(t) > 0
    BY <1>2, NonEmpty
  <1>7. t # <<>> <=> Len(ws) > 1
    BY <1>2, <1>3, <1>6
  <1> QED BY <1>2, <1>3, <1>5, <1>7 DEF t

\* One write less: what lights the LED still does.
LEMMA LightsTail ==
    ASSUME NEW ws, NEW l, ListOK(ws, l), Lights(ws, l), Len(ws) > 1
    PROVE  Lights(Tail(ws), l)
  <1> DEFINE t == Tail(ws)
  <1>1. ws \in Seq(Writes)
    BY DEF ListOK
  <1>2. ws # <<>>
    <2> HIDE DEF Writes
    <2> QED BY <1>1, NonEmpty, LenProperties
  <1>3. /\ Len(ws) \in Nat /\ Len(t) = Len(ws) - 1
        /\ \A i \in 1 .. Len(t) : t[i] = ws[i + 1]
    BY <1>2, ListTail
  <1> HIDE DEF t
  <1>4. CASE Len(ws) = 2
    <2>1. Len(t) = 1 /\ t[1] = ws[2]
      BY <1>3, <1>4
    <2>2. IsOn(ws[2], l)
      BY <1>4 DEF Lights
    <2> QED BY <2>1, <2>2, Zenon DEF Lights, t
  <1>5. CASE Len(ws) = 3
    <2>1. Len(t) = 2 /\ t[1] = ws[2] /\ t[2] = ws[3]
      BY <1>3, <1>5
    <2>2. IsDuty(ws[2], l) /\ IsOn(ws[3], l)
      BY <1>5 DEF Lights
    <2> QED BY <2>1, <2>2, Zenon DEF Lights, t
  <1>6. CASE Len(ws) = 4
    <2>1. Len(t) = 3 /\ t[1] = ws[2] /\ t[2] = ws[3] /\ t[3] = ws[4]
      BY <1>3, <1>6
    <2>2. IsPeriod(ws[2], l) /\ IsDuty(ws[3], l) /\ IsOn(ws[4], l) /\ ws[3].value <= ws[2].value
      BY <1>6 DEF Lights
    <2> QED BY <2>1, <2>2, Zenon DEF Lights, t
  <1>7. Len(ws) = 2 \/ Len(ws) = 3 \/ Len(ws) = 4
    BY DEF Lights
  <1> QED BY <1>4, <1>5, <1>6, <1>7

\* The bookkeeping of the calls, whichever thread goes on.
LEMMA GoOnInv ==
    ASSUME TodoInv, HistoryInv, NEW t \in Threads, Busy(t), NEW ws, NEW ow, GoOn(t, ws, ow),
           ListOK(ws, LedOf(todo[t][1])), ListOK(ow, LedOf(todo[t][1])),
           worker' = worker, pattern' = pattern, spoilt' \in BOOLEAN
    PROVE  TodoInv' /\ HistoryInv'
  <1>1. /\ todo' \in [Threads -> Seq(Calls)] /\ \A u \in Threads : u # t => todo'[u] = todo[u]
        /\ CallsOK(todo'[t])
    BY GoOnFacts
  <1>2. "worker" \in Threads
    BY DEF Threads
  <1>3. todo'["worker"] # <<>> => todo["worker"] # <<>>
    BY <1>1, <1>2, Zenon DEF Busy
  <1>4. \A u \in Threads : CallsOK(todo'[u])
    BY <1>1, Zenon DEF TodoInv
  <1>5. TodoInv'
    BY <1>1, <1>3, <1>4, Zenon DEF TodoInv
  <1>6. shows' = shows /\ direct' = direct
    BY DEF pattern
  <1>7. shows = "none" => todo'["worker"] = <<>>
    BY <1>1, <1>2, <1>3, Zenon DEF HistoryInv
  <1>8. HistoryInv'
    BY <1>6, <1>7, Zenon DEF HistoryInv
  <1> QED BY <1>5, <1>8

\* The red LED does not depend on what main is doing; the green one may rely
\* on main only while it is busy.
LEMMA BusyFacts ==
    ASSUME NEW s, NEW d, NEW b, NEW c, NEW l, NEW lit \in BOOLEAN, Settles(s, d, b, l, lit),
           l # "green" \/ (b => c)
    PROVE  Settles(s, d, c, l, lit)
  BY Zenon DEF Settles, Done, Shows

\* A LED as HardwareInv has it.
LEMMA LedType ==
    ASSUME HardwareInv, NEW l \in Leds
    PROVE  LedOK(leds[l])
  BY DEF HardwareInv, LedOK


\* A write, by either thread.
LEMMA WriteStep ==
    ASSUME PatternInv, NEW t \in Threads, WriteFile(t)
    PROVE  LET c == todo[t][1]
               w == c.writes[1]
               r == Tail(c.writes)
           IN /\ CallsOK(todo[t]) /\ todo[t] # <<>> /\ CallOK(c) /\ WriteOK(w)
              /\ w.led = LedOf(c) /\ w.led \in Leds \ missing
              /\ \A l \in Leds : l # w.led => leds'[l] = leds[l]
              /\ Took(leds[w.led], leds'[w.led], w)
              /\ HardwareInv' /\ TodoInv' /\ HistoryInv'
              /\ \A u \in Threads : u # t => todo'[u] = todo[u]
              /\ r = <<>> => todo'[t] = Tail(todo[t])
              /\ r # <<>> =>
                    /\ todo'[t] # <<>> /\ Len(todo'[t]) = Len(todo[t])
                    /\ LedOf(todo'[t][1]) = LedOf(c)
                    /\ todo'[t][1].writes = r /\ todo'[t][1].otherwise = c.otherwise
                    /\ \A j \in 2 .. Len(todo[t]) : todo'[t][j] = todo[t][j]
  <1> DEFINE c == todo[t][1]
             w == c.writes[1]
             r == Tail(c.writes)
  <1>1. HardwareInv /\ HistoryInv /\ TodoInv /\ Busy(t)
    BY DEF PatternInv, WriteFile
  <1>2. /\ CallsOK(todo[t]) /\ todo[t] # <<>> /\ Call(t) = c /\ CallOK(c)
        /\ Write1(t) = w /\ WriteOK(w) /\ w.led = LedOf(c) /\ w.led \in Leds
    BY <1>1, CallNow
  <1> HIDE DEF c, w, r
  <1>3. /\ w.led \notin missing
        /\ leds' = IF Accepts(leds[w.led], w) THEN [leds EXCEPT ![w.led][w.file] = w.value] ELSE leds
        /\ GoOn(t, r, c.otherwise)
        /\ worker' = worker /\ pattern' = pattern /\ spoilt' = spoilt
    BY <1>2, Zenon DEF WriteFile, r, vars
  <1>4. /\ HardwareInv' /\ \A l \in Leds : l # w.led => leds'[l] = leds[l]
        /\ Took(leds[w.led], leds'[w.led], w)
    BY <1>1, <1>2, <1>3, WriteFacts
  <1>5. ListOK(c.writes, LedOf(c)) /\ ListOK(c.otherwise, LedOf(c)) /\ c.writes # <<>>
    BY <1>2, Zenon DEF CallOK
  <1>6. ListOK(r, LedOf(c))
    BY <1>5, ListTail DEF r
  <1>7. spoilt' \in BOOLEAN
    BY <1>1, <1>3, Zenon DEF HistoryInv
  <1>8. TodoInv' /\ HistoryInv'
    BY <1>1, <1>3, <1>5, <1>6, <1>7, GoOnInv, Zenon DEF c
  <1> DEFINE o == c.otherwise
  <1>9. GoOn(t, r, o) /\ ListOK(o, LedOf(c))
    BY <1>3, <1>5
  <1> HIDE DEF o
  <1>10. /\ \A u \in Threads : u # t => todo'[u] = todo[u]
         /\ r = <<>> => todo'[t] = Tail(todo[t])
         /\ r # <<>> =>
              /\ todo'[t] # <<>> /\ Len(todo'[t]) = Len(todo[t])
              /\ LedOf(todo'[t][1]) = LedOf(c)
              /\ todo'[t][1].writes = r /\ todo'[t][1].otherwise = o
              /\ \A j \in 2 .. Len(todo[t]) : todo'[t][j] = todo[t][j]
    BY <1>1, <1>6, <1>9, GoOnFacts DEF c
  <1> QED BY <1>2, <1>3, <1>4, <1>8, <1>10, Zenon DEF c, w, r, o

\* A write of the worker.
LEMMA WorkerWrites ==
    ASSUME PatternInv, WriteFile("worker")
    PROVE  HardwareInv' /\ HistoryInv' /\ TodoInv' /\ OutcomeInv' /\ MainInv'
  <1> DEFINE s == todo["worker"]
             c == s[1]
             w == c.writes[1]
             r == Tail(c.writes)
             n == todo'["worker"]
             busy == Busy("main")
  <1>1. /\ CallsOK(s) /\ s # <<>> /\ CallOK(c) /\ WriteOK(w)
        /\ w.led = LedOf(c) /\ w.led \in Leds \ missing
        /\ \A l \in Leds : l # w.led => leds'[l] = leds[l]
        /\ Took(leds[w.led], leds'[w.led], w)
        /\ HardwareInv' /\ TodoInv' /\ HistoryInv'
        /\ todo'["main"] = todo["main"]
        /\ r = <<>> => n = Tail(s)
        /\ r # <<>> =>
              /\ n # <<>> /\ Len(n) = Len(s) /\ LedOf(n[1]) = LedOf(c)
              /\ n[1].writes = r
              /\ \A j \in 2 .. Len(s) : n[j] = s[j]
    <2>1. "worker" \in Threads /\ "main" \in Threads /\ "main" # "worker"
      BY DEF Threads
    <2> QED BY <2>1, WriteStep, Zenon
  <1>2. /\ missing' = missing /\ shows' = shows /\ direct' = direct /\ spoilt' = spoilt
        /\ busy' = busy
    BY <1>1 DEF WriteFile, pattern, Busy
  <1>3. HardwareInv /\ OutcomeInv /\ MainInv
    BY DEF PatternInv
  <1> HIDE DEF s, c, w, r, n, busy
  <1>4. ASSUME NEW l \in Leds, NEW lit \in BOOLEAN, Settles(s, leds[l], busy, l, lit)
        PROVE  Settles(n, leds'[l], busy, l, lit)
    <2> DEFINE d == leds[l]
               e == leds'[l]
    <2>1. LedOK(d) /\ LedOK(e)
      <3>1. LedOK(d)
        BY <1>3, LedType
      <3>2. LedOK(e)
        BY <1>1 DEF HardwareInv, LedOK
      <3> QED BY <3>1, <3>2
    <2>2. LedOf(s[1]) # l => e = d
      BY <1>1 DEF c
    <2>3. ASSUME LedOf(s[1]) = l, Begun(s[1], d, l, lit)
          PROVE  /\ r = <<>> => Shows(e, busy, l, lit)
                 /\ r # <<>> => Begun(n[1], e, l, lit)
      <3>1. Took(d, e, w) /\ CallOK(c) /\ LedOf(c) = l /\ Begun(c, d, l, lit)
        BY <1>1, <2>3 DEF c
      <3> HIDE DEF d, e
      <3>2. /\ r = <<>> => Shows(e, busy, l, lit)
            /\ \A b : r # <<>> /\ b.writes = r => Begun(b, e, l, lit)
        BY <2>1, <3>1, NextWrite DEF w, r
      <3> QED BY <1>1, <3>2, Zenon
    <2>4. Settles(s, d, busy, l, lit)
      BY <1>4
    <2> HIDE DEF d, e
    <2>5. CASE r = <<>>
      <3>1. Settles(Tail(s), e, busy, l, lit)
        BY <1>1, <2>2, <2>3, <2>4, <2>5, FirstDone
      <3> QED BY <1>1, <2>5, <3>1 DEF e
    <2>6. CASE r # <<>>
      <3>1. Settles(n, e, busy, l, lit)
        BY <1>1, <2>2, <2>3, <2>4, <2>6, FirstGoesOn DEF c
      <3> QED BY <3>1 DEF e
    <2> QED BY <2>5, <2>6
  <1>5. OutcomeInv'
    <2> SUFFICES ASSUME ~spoilt', NEW l \in Leds \ missing'
                 PROVE  /\ l \in LitAfter(shows') => Settles(n, leds'[l], busy', l, TRUE)
                        /\ l \in DarkAfter(shows)' => Settles(n, leds'[l], busy', l, FALSE)
      BY DEF OutcomeInv, n, busy
    <2>1. DarkAfter(shows)' = DarkAfter(shows)
      BY <1>2 DEF DarkAfter
    <2>2. /\ l \in LitAfter(shows) => Settles(s, leds[l], busy, l, TRUE)
          /\ l \in DarkAfter(shows) => Settles(s, leds[l], busy, l, FALSE)
      BY <1>2, <1>3, Zenon DEF OutcomeInv, s, busy
    <2> QED BY <1>2, <1>4, <2>1, <2>2, Zenon
  <1>6. leds["green"].period > 0 => leds'["green"].period > 0
    <2>1. "green" \in Leds
      BY DEF Leds
    <2>2. CASE w.led # "green"
      BY <1>1, <2>1, <2>2
    <2>3. CASE w.led = "green"
      <3> DEFINE d == leds["green"]
                 e == leds'["green"]
      <3>1. Took(d, e, w) /\ e.period \in Nat /\ d.period \in Nat
        BY <1>1, <1>3, <2>1, <2>3 DEF HardwareInv
      <3>2. w.file \in {"enable", "period", "duty_cycle"}
        BY <1>1 DEF WriteOK, Writes
      <3>3. w.file = "period" => w.value \in Nat /\ w.value > 0
        BY <1>1, Times DEF WriteOK, Writes
      <3> HIDE DEF d, e
      <3>4. d.period > 0 => e.period > 0
        BY <3>1, <3>2, <3>3 DEF Took
      <3> QED BY <3>4 DEF d, e
    <2> QED BY <2>2, <2>3
  <1>7. MainInv'
    <2>1. \A ws : Flashes(ws) => Flashes(ws)'
      BY <1>2, <1>6, Zenon DEF Flashes
    <2> DEFINE m == todo["main"]
    <2>2. todo'["main"] = m
      BY <1>1
    <2>3. /\ direct = 0 => m = <<>>
          /\ m # <<>> =>
                /\ Len(m) = 1
                /\ \/ Flashes(m[1].writes) /\ m[1].otherwise = <<Disable("green")>>
                   \/ m[1].writes = <<Disable("green")>> /\ m[1].otherwise = <<>>
                      /\ (spoilt \/ "green" \in missing)
      BY <1>3 DEF MainInv
    <2> HIDE DEF m
    <2>4. Flashes(m[1].writes) => Flashes(todo["main"][1].writes)'
      BY <2>1, <2>2, Zenon
    <2> QED BY <1>2, <2>2, <2>3, <2>4, Zenon DEF MainInv
  <1> QED BY <1>1, <1>5, <1>7


\* What main's own flashing has still to write.
LEMMA FlashingNow ==
    ASSUME PatternInv, Busy("main")
    PROVE  LET c == todo["main"][1] IN
           /\ CallsOK(todo["main"]) /\ todo["main"] # <<>>
           /\ Len(todo["main"]) = 1 /\ Tail(todo["main"]) = <<>>
           /\ direct # 0 /\ CallOK(c) /\ ListOK(c.writes, LedOf(c)) /\ ListOK(c.otherwise, LedOf(c))
           /\ c.writes # <<>> /\ Len(c.writes) \in Nat /\ Len(c.writes) > 0
           /\ LedOf(c) = "green" /\ Write1("main") = c.writes[1]
           /\ Call("main") = c
           /\ \/ Flashes(c.writes) /\ c.otherwise = <<Disable("green")>>
              \/ c.writes = <<Disable("green")>> /\ c.otherwise = <<>>
                 /\ (spoilt \/ "green" \in missing)
  <1> DEFINE m == todo["main"]
             c == m[1]
  <1>1. TodoInv /\ MainInv /\ "main" \in Threads /\ m # <<>>
    BY DEF PatternInv, Threads, Busy
  <1>2. CallsOK(m) /\ CallOK(c) /\ Call("main") = c /\ Write1("main") = c.writes[1]
    BY <1>1, CallNow
  <1>3. ListOK(c.writes, LedOf(c)) /\ ListOK(c.otherwise, LedOf(c)) /\ c.writes # <<>>
    BY <1>2 DEF CallOK
  <1>4. Len(c.writes) \in Nat /\ Len(c.writes) > 0
    <2> HIDE DEF c
    <2> QED BY <1>3, ListTail
  <1>5. /\ direct # 0 /\ Len(m) = 1
        /\ \/ Flashes(c.writes) /\ c.otherwise = <<Disable("green")>>
           \/ c.writes = <<Disable("green")>> /\ c.otherwise = <<>>
              /\ (spoilt \/ "green" \in missing)
    BY <1>1, Zenon DEF MainInv
  <1>6. Tail(m) = <<>>
    <2> HIDE DEF m
    <2>1. CallsOK(Tail(m)) /\ Len(Tail(m)) = 0
      BY <1>1, <1>2, <1>5, TailFacts
    <2>2. Tail(m) \in Seq(Calls)
      BY <2>1, Zenon DEF CallsOK
    <2> DEFINE u == Tail(m)
    <2>3. u \in Seq(Calls) /\ Len(u) = 0
      BY <2>1, <2>2
    <2> HIDE DEF Calls, u
    <2>4. ~ (Len(u) > 0)
      BY <2>3
    <2> QED BY <2>3, <2>4, NonEmpty DEF u
  <1>7. LedOf(c) = "green"
    <2>1. CASE Flashes(c.writes)
      <3> HIDE DEF c
      <3>1. Lights(c.writes, "green")
        BY <2>1 DEF Flashes
      <3> QED BY <3>1 DEF Lights, IsOn, IsDuty, IsPeriod, Write, Disable, LedOf
    <2>2. CASE c.writes = <<Disable("green")>>
      <3> HIDE DEF c
      <3> QED BY <2>2 DEF Disable, Write, LedOf
    <2> QED BY <1>5, <2>1, <2>2
  <1> QED BY <1>1, <1>2, <1>3, <1>4, <1>5, <1>6, <1>7, Zenon

\* The next write of main's flashing, and what is left of it.
LEMMA FlashesOn ==
    ASSUME NEW ws, ListOK(ws, "green"), Flashes(ws)
    PROVE  LET w == ws[1]
               r == Tail(ws)
           IN /\ w.file = "period" => w.value = Slow
              /\ Len(ws) = 1 => w = Write("green", "enable", 1)
              /\ w.file = "enable" /\ w.value = 1 => Len(ws) = 1
              /\ Len(ws) = 2 => w.file = "duty_cycle"
              /\ Len(ws) = 3 => w.file = "period"
              /\ Len(ws) \in {1, 2, 3, 4}
              /\ Len(ws) # 1 => Lights(r, "green") /\ Len(r) = Len(ws) - 1
              /\ Len(ws) # 1 => \A i \in 1 .. Len(r) : r[i].file = "period" => r[i].value = Slow
  <1> DEFINE w == ws[1]
             r == Tail(ws)
  <1>1. /\ Lights(ws, "green")
        /\ \A i \in 1 .. Len(ws) : ws[i].file = "period" => ws[i].value = Slow
    BY DEF Flashes
  <1>2. Len(ws) \in {1, 2, 3, 4}
    BY <1>1 DEF Lights
  <1>3. ws # <<>>
    <2>1. ws \in Seq(Writes) /\ Len(ws) > 0
      BY <1>2 DEF ListOK
    <2> HIDE DEF Writes
    <2> QED BY <2>1, NonEmpty
  <1>4. Len(r) = Len(ws) - 1 /\ \A i \in 1 .. Len(r) : r[i] = ws[i + 1]
    BY <1>3, ListTail
  <1>5. Len(ws) # 1 => Lights(r, "green")
    BY <1>1, <1>2, LightsTail
  <1> HIDE DEF r
  <1>6. \A i \in 1 .. Len(r) : r[i].file = "period" => r[i].value = Slow
    BY <1>1, <1>2, <1>4
  <1>7. w.file = "period" => w.value = Slow
    BY <1>1, <1>2
  <1>8. /\ Len(ws) = 1 => w = Write("green", "enable", 1)
        /\ w.file = "enable" /\ w.value = 1 => Len(ws) = 1
        /\ Len(ws) = 2 => w.file = "duty_cycle"
        /\ Len(ws) = 3 => w.file = "period"
    <2>1. Len(ws) = 1 => w = Write("green", "enable", 1)
      BY <1>1 DEF Lights, IsOn
    <2>2. Len(ws) = 2 => w.file = "duty_cycle"
      BY <1>1 DEF Lights, IsDuty, Write
    <2>3. Len(ws) = 3 => w.file = "period"
      BY <1>1 DEF Lights, IsPeriod, Write
    <2>4. Len(ws) = 4 => w.value = 0
      BY <1>1 DEF Lights, Disable, Write
    <2>5. w.file = "enable" /\ w.value = 1 => Len(ws) = 1
      BY <1>2, <2>2, <2>3, <2>4
    <2> QED BY <2>1, <2>2, <2>3, <2>5
  <1> QED BY <1>2, <1>4, <1>5, <1>6, <1>7, <1>8 DEF r

\* A write of main's flashing.
LEMMA MainWrites ==
    ASSUME PatternInv, WriteFile("main")
    PROVE  HardwareInv' /\ HistoryInv' /\ TodoInv' /\ OutcomeInv' /\ MainInv'
  <1> DEFINE m == todo["main"]
             c == m[1]
             w == c.writes[1]
             r == Tail(c.writes)
             n == todo'["main"]
             s == todo["worker"]
             d == leds["green"]
             e == leds'["green"]
  <1>1. /\ CallOK(c) /\ WriteOK(w)
        /\ w.led = LedOf(c) /\ w.led \in Leds \ missing
        /\ \A l \in Leds : l # w.led => leds'[l] = leds[l]
        /\ Took(leds[w.led], leds'[w.led], w)
        /\ HardwareInv' /\ TodoInv' /\ HistoryInv'
        /\ todo'["worker"] = s
        /\ r = <<>> => n = Tail(m)
        /\ r # <<>> =>
              /\ n # <<>> /\ Len(n) = Len(m)
              /\ n[1].writes = r /\ n[1].otherwise = c.otherwise
    <2>1. "worker" \in Threads /\ "main" \in Threads /\ "main" # "worker"
      BY DEF Threads
    <2> QED BY <2>1, WriteStep, Zenon
  <1>2. Busy("main")
    BY DEF WriteFile
  <1>3. /\ Len(m) = 1 /\ Tail(m) = <<>> /\ direct # 0
        /\ ListOK(c.writes, LedOf(c)) /\ c.writes # <<>>
        /\ LedOf(c) = "green"
        /\ \/ Flashes(c.writes) /\ c.otherwise = <<Disable("green")>>
           \/ c.writes = <<Disable("green")>> /\ c.otherwise = <<>>
              /\ (spoilt \/ "green" \in missing)
    BY <1>2, FlashingNow, Zenon
  <1>4. /\ missing' = missing /\ shows' = shows /\ direct' = direct /\ spoilt' = spoilt
    BY DEF WriteFile, pattern
  <1>5. HardwareInv /\ OutcomeInv /\ MainInv /\ TodoInv
    BY DEF PatternInv
  <1>6. /\ "green" \in Leds \ missing /\ Took(d, e, w) /\ LedOK(d) /\ LedOK(e)
        /\ \A l \in Leds : l # "green" => leds'[l] = leds[l]
    <2>1. "green" \in Leds \ missing /\ Took(d, e, w)
      BY <1>1, <1>3
    <2>2. LedOK(d)
      BY <1>5, <2>1, LedType
    <2>3. LedOK(e)
      BY <1>1, <2>1 DEF HardwareInv, LedOK
    <2> QED BY <1>1, <1>3, <2>1, <2>2, <2>3
  <1>7. /\ Len(c.writes) \in Nat /\ Len(c.writes) > 0 /\ (r # <<>> <=> Len(c.writes) > 1)
    <2> HIDE DEF c
    <2> QED BY <1>3, ListTail
  <1>8. CASE Flashes(c.writes) /\ c.otherwise = <<Disable("green")>>
    <2>1. /\ w.file = "period" => w.value = Slow
          /\ Len(c.writes) = 1 => w = Write("green", "enable", 1)
          /\ Len(c.writes) = 2 => w.file = "duty_cycle"
          /\ Len(c.writes) = 3 => w.file = "period"
          /\ Len(c.writes) \in {1, 2, 3, 4}
          /\ Len(c.writes) # 1 => Lights(r, "green") /\ Len(r) = Len(c.writes) - 1
          /\ Len(c.writes) # 1 => \A i \in 1 .. Len(r) : r[i].file = "period" => r[i].value = Slow
      <3> HIDE DEF c
      <3> QED BY <1>3, <1>8, FlashesOn
    <2>2. Len(c.writes) \in {1, 2} => d.period > 0
      BY <1>6, <1>8 DEF Flashes
    <2> DEFINE ws == c.writes
    <2>3. /\ Len(ws) = 1 => w = Write("green", "enable", 1)
          /\ Len(ws) = 2 => w.file = "duty_cycle"
          /\ Len(ws) = 3 => w.file = "period" /\ w.value = Slow
      BY <2>1
    <2> HIDE DEF m, c, w, r, n, s, d, e, ws
    <2>4. /\ Len(ws) = 1 => e.enable = 1
          /\ Len(ws) \in {2, 3} => e.period > 0
      <3>1. CASE Len(ws) = 1
        BY <1>6, <2>2, <2>3, <3>1 DEF Took, Write, ws
      <3>2. CASE Len(ws) = 2
        BY <1>6, <2>2, <2>3, <3>2 DEF Took, ws
      <3>3. CASE Len(ws) = 3
        BY <1>6, <2>3, <3>3, Times DEF Took, LedOK
      <3> QED BY <3>1, <3>2, <3>3
    <2>5. Busy("main")' \/ e.enable = 1
      <3>1. Len(ws) = 1 \/ Len(ws) > 1
        <4> DEFINE k == Len(ws)
        <4>1. k \in Nat /\ k > 0
          BY <1>7, Zenon DEF ws
        <4> HIDE DEF k
        <4>2. k = 1 \/ k > 1
          BY <4>1
        <4> QED BY <4>2 DEF k
      <3>2. Len(ws) > 1 => todo'["main"] # <<>>
        BY <1>1, <1>7, Zenon DEF ws, n
      <3> QED BY <2>4, <3>1, <3>2, Zenon DEF Busy
    <2>6. OutcomeInv'
      <3> SUFFICES ASSUME ~spoilt', NEW l \in Leds \ missing'
                   PROVE  /\ l \in LitAfter(shows') => Settles(s, leds'[l], Busy("main")', l, TRUE)
                          /\ l \in DarkAfter(shows)' => Settles(s, leds'[l], Busy("main")', l, FALSE)
        BY <1>1 DEF OutcomeInv
      <3>1. DarkAfter(shows)' = DarkAfter(shows)
        BY <1>4 DEF DarkAfter
      <3>2. /\ l \in LitAfter(shows) => Settles(s, leds[l], Busy("main"), l, TRUE)
            /\ l \in DarkAfter(shows) => Settles(s, leds[l], Busy("main"), l, FALSE)
        BY <1>4, <1>5, Zenon DEF OutcomeInv, s
      <3>3. CASE l # "green"
        <4>1. leds'[l] = leds[l]
          BY <1>6, <3>3
        <4> QED BY <1>4, <3>1, <3>2, <3>3, <4>1, BusyFacts, Zenon
      <3>4. CASE l = "green"
        <4>1. l \notin DarkAfter(shows)
          BY <1>3, <3>4 DEF DarkAfter, Success
        <4>2. CallsOK(s)
          BY <1>5 DEF TodoInv, Threads, s
        <4> DEFINE busy == Busy("main")
                   after == Busy("main")'
        <4>3. Settles(s, d, busy, "green", TRUE) => Settles(s, e, after, "green", TRUE)
          <5>1. after \/ e.enable = 1
            BY <2>5
          <5> HIDE DEF busy, after
          <5> QED BY <1>1, <1>6, <2>1, <4>2, <5>1, OtherWrite
        <4> QED BY <1>4, <3>1, <3>2, <3>4, <4>1, <4>3 DEF d, e
      <3> QED BY <3>3, <3>4
    <2>7. MainInv'
      <3>1. CASE r = <<>>
        <4>1. todo'["main"] = <<>>
          BY <1>1, <1>3, <3>1 DEF n
        <4> QED BY <4>1 DEF MainInv
      <3>2. CASE r # <<>>
        <4>1. /\ n # <<>> /\ Len(n) = 1
              /\ n[1].writes = r /\ n[1].otherwise = <<Disable("green")>>
          BY <1>1, <1>3, <1>8, <3>2
        <4>2. Len(ws) # 1
          <5>1. Len(ws) > 1
            BY <1>7, <3>2, Zenon DEF ws
          <5> DEFINE k == Len(ws)
          <5>2. k > 1
            BY <5>1
          <5> HIDE DEF k
          <5>3. k # 1
            BY <5>2
          <5> QED BY <5>3 DEF k
        <4>3. /\ Lights(r, "green") /\ Len(r) = Len(ws) - 1 /\ Len(ws) \in {1, 2, 3, 4}
              /\ \A i \in 1 .. Len(r) : r[i].file = "period" => r[i].value = Slow
          BY <2>1, <4>2, Zenon DEF ws
        <4>4. Len(r) \in {1, 2} => e.period > 0
          <5> DEFINE k == Len(ws)
                     j == Len(r)
          <5>1. k \in {1, 2, 3, 4} /\ j = k - 1 /\ (k \in {2, 3} => e.period > 0)
            BY <2>4, <4>3
          <5> HIDE DEF k, j
          <5> QED BY <5>1 DEF j
        <4>5. Flashes(todo["main"][1].writes)'
          <5>1. Flashes(todo["main"][1].writes)' <=>
                   /\ Lights(r, "green")
                   /\ \A i \in 1 .. Len(r) : r[i].file = "period" => r[i].value = Slow
                   /\ Len(r) \in {1, 2} /\ "green" \notin missing' => e.period > 0
            BY <4>1, Zenon DEF Flashes, e, n
          <5> QED BY <4>3, <4>4, <5>1, Zenon
        <4> QED BY <1>3, <1>4, <4>1, <4>5, Zenon DEF MainInv, n
      <3> QED BY <3>1, <3>2
    <2> QED BY <1>1, <2>6, <2>7
  <1>9. CASE c.writes = <<Disable("green")>> /\ c.otherwise = <<>>
             /\ (spoilt \/ "green" \in missing)
    <2>1. spoilt'
      BY <1>4, <1>6, <1>9
    <2>2. Len(c.writes) = 1
      BY <1>9
    <2> HIDE DEF m, c, w, r, n, s, d, e
    <2>3. todo'["main"] = <<>>
      BY <1>1, <1>3, <1>7, <2>2 DEF n
    <2> QED BY <1>1, <2>1, <2>3, Zenon DEF OutcomeInv, MainInv
  <1> QED BY <1>3, <1>8, <1>9


\* A file the worker cannot open: its LED is missing, or the pattern is spoilt.
LEMMA WorkerFails ==
    ASSUME PatternInv, OpenFails("worker")
    PROVE  HardwareInv' /\ HistoryInv' /\ TodoInv' /\ OutcomeInv' /\ MainInv'
  <1> DEFINE s == todo["worker"]
             c == s[1]
             r == IF FrequencySet("worker") THEN Tail(c.writes) ELSE c.otherwise
             n == todo'["worker"]
             busy == Busy("main")
  <1>1. HardwareInv /\ HistoryInv /\ TodoInv /\ OutcomeInv /\ MainInv /\ Busy("worker")
        /\ "worker" \in Threads /\ "main" \in Threads /\ "main" # "worker"
    BY DEF PatternInv, OpenFails, Threads
  <1>2. /\ CallsOK(s) /\ s # <<>> /\ Call("worker") = c /\ CallOK(c)
        /\ Write1("worker").led = LedOf(c) /\ LedOf(c) \in Leds
    BY <1>1, CallNow
  <1>3. ListOK(c.writes, LedOf(c)) /\ ListOK(c.otherwise, LedOf(c)) /\ c.writes # <<>>
    BY <1>2, Zenon DEF CallOK
  <1>4. ListOK(r, LedOf(c)) /\ ListOK(<<>>, LedOf(c))
    <2> HIDE DEF c
    <2>1. ListOK(Tail(c.writes), LedOf(c))
      BY <1>3, ListTail
    <2> QED BY <1>2, <1>3, <2>1, OffFacts
  <1>5. /\ GoOn("worker", r, <<>>) /\ UNCHANGED <<vars, hardware, pattern>>
        /\ (LedOf(c) \in missing /\ spoilt' = spoilt) \/ spoilt' = TRUE
    <2> HIDE DEF c
    <2> QED BY <1>2, Zenon DEF OpenFails
  <1>6. /\ leds' = leds /\ missing' = missing /\ shows' = shows /\ direct' = direct
        /\ worker' = worker /\ pattern' = pattern
    BY <1>5 DEF vars, hardware, pattern
  <1>7. spoilt' \in BOOLEAN
    BY <1>1, <1>5, Zenon DEF HistoryInv
  <1> HIDE DEF r
  <1>8. TodoInv' /\ HistoryInv'
    BY <1>1, <1>4, <1>5, <1>6, <1>7, GoOnInv, Zenon
  <1>9. /\ todo'["main"] = todo["main"]
        /\ r = <<>> => n = Tail(s)
        /\ r # <<>> =>
              /\ n # <<>> /\ Len(n) = Len(s) /\ LedOf(n[1]) = LedOf(c)
              /\ \A j \in 2 .. Len(s) : n[j] = s[j]
    <2> DEFINE o == <<>>
    <2>1. GoOn("worker", r, o) /\ ListOK(o, LedOf(c))
      BY <1>4, <1>5
    <2> HIDE DEF o
    <2> QED BY <1>1, <1>4, <2>1, GoOnFacts
  <1> HIDE DEF s, c, n, busy
  <1>10. OutcomeInv'
    <2> SUFFICES ASSUME ~spoilt', NEW l \in Leds \ missing'
                 PROVE  /\ l \in LitAfter(shows') => Settles(n, leds'[l], busy', l, TRUE)
                        /\ l \in DarkAfter(shows)' => Settles(n, leds'[l], busy', l, FALSE)
      BY DEF OutcomeInv, n, busy
    <2>1. DarkAfter(shows)' = DarkAfter(shows)
      BY <1>6 DEF DarkAfter
    <2>2. LedOf(c) # l /\ ~spoilt
      <3>1. LedOf(c) \in missing /\ spoilt' = spoilt
        BY <1>5, Zenon
      <3>2. l \notin missing
        BY <1>6, Zenon
      <3>3. ~spoilt
        BY <3>1, Zenon
      <3> QED BY <3>1, <3>2, <3>3, Zenon
    <2>3. /\ l \in LitAfter(shows) => Settles(s, leds[l], busy, l, TRUE)
          /\ l \in DarkAfter(shows) => Settles(s, leds[l], busy, l, FALSE)
      BY <1>1, <1>6, <2>2, Zenon DEF OutcomeInv, s, busy
    <2>4. busy' = busy
      BY <1>9 DEF busy, Busy
    <2>5. ASSUME NEW lit \in BOOLEAN, Settles(s, leds[l], busy, l, lit)
          PROVE  Settles(n, leds[l], busy, l, lit)
      <3>1. CASE r = <<>>
        <4>1. Settles(Tail(s), leds[l], busy, l, lit)
          BY <1>2, <2>2, <2>5, FirstDone, Zenon DEF c
        <4> QED BY <1>9, <3>1, <4>1
      <3>2. CASE r # <<>>
        <4>1. LedOf(s[1]) # l
          BY <2>2 DEF c
        <4>2. LedOf(n[1]) = LedOf(s[1]) /\ n # <<>> /\ Len(n) = Len(s)
              /\ \A j \in 2 .. Len(s) : n[j] = s[j]
          BY <1>9, <3>2 DEF c
        <4> DEFINE d == leds[l]
        <4>3. Settles(s, d, busy, l, lit)
          BY <2>5
        <4> HIDE DEF d
        <4>4. Settles(n, d, busy, l, lit)
          BY <1>2, <4>1, <4>2, <4>3, FirstGoesOn
        <4> QED BY <4>4 DEF d
      <3> QED BY <3>1, <3>2
    <2> QED BY <1>6, <2>1, <2>3, <2>4, <2>5, Zenon
  <1>11. MainInv'
    <2>1. \A ws : Flashes(ws) => Flashes(ws)'
      BY <1>6, Zenon DEF Flashes
    <2>2. spoilt => spoilt'
      BY <1>5, Zenon
    <2> DEFINE m == todo["main"]
    <2>3. todo'["main"] = m
      BY <1>9
    <2>4. /\ direct = 0 => m = <<>>
          /\ m # <<>> =>
                /\ Len(m) = 1
                /\ \/ Flashes(m[1].writes) /\ m[1].otherwise = <<Disable("green")>>
                   \/ m[1].writes = <<Disable("green")>> /\ m[1].otherwise = <<>>
                      /\ (spoilt \/ "green" \in missing)
      BY <1>1 DEF MainInv
    <2> HIDE DEF m
    <2>5. Flashes(m[1].writes) => Flashes(todo["main"][1].writes)'
      BY <2>1, <2>3, Zenon
    <2> QED BY <1>6, <2>2, <2>3, <2>4, <2>5, Zenon DEF MainInv
  <1>12. HardwareInv'
    BY <1>1, <1>6, Zenon DEF HardwareInv
  <1> QED BY <1>8, <1>10, <1>11, <1>12

\* A file main cannot open: green is missing, or what is shown is spoilt.
LEMMA MainFails ==
    ASSUME PatternInv, OpenFails("main")
    PROVE  HardwareInv' /\ HistoryInv' /\ TodoInv' /\ OutcomeInv' /\ MainInv'
  <1> DEFINE m == todo["main"]
             c == m[1]
             w == c.writes[1]
             r == IF FrequencySet("main") THEN Tail(c.writes) ELSE c.otherwise
             n == todo'["main"]
             s == todo["worker"]
  <1>1. HardwareInv /\ HistoryInv /\ TodoInv /\ OutcomeInv /\ MainInv /\ Busy("main")
        /\ "worker" \in Threads /\ "main" \in Threads /\ "main" # "worker"
    BY DEF PatternInv, OpenFails, Threads
  <1>2. /\ CallsOK(m) /\ m # <<>> /\ Len(m) = 1 /\ Tail(m) = <<>> /\ direct # 0
        /\ ListOK(c.writes, LedOf(c)) /\ ListOK(c.otherwise, LedOf(c)) /\ c.writes # <<>>
        /\ Len(c.writes) \in Nat /\ Len(c.writes) > 0
        /\ LedOf(c) = "green" /\ Write1("main") = w /\ Call("main") = c
        /\ \/ Flashes(c.writes) /\ c.otherwise = <<Disable("green")>>
           \/ c.writes = <<Disable("green")>> /\ c.otherwise = <<>>
              /\ (spoilt \/ "green" \in missing)
    BY <1>1, FlashingNow, Zenon
  <1>3. ListOK(Tail(c.writes), LedOf(c)) /\ (Tail(c.writes) # <<>> <=> Len(c.writes) > 1)
    <2> HIDE DEF c
    <2> QED BY <1>2, ListTail
  <1>4. ListOK(r, LedOf(c)) /\ ListOK(<<>>, LedOf(c))
    <2>1. "green" \in Leds
      BY DEF Leds
    <2> HIDE DEF c
    <2> QED BY <1>2, <1>3, <2>1, OffFacts
  <1>5. w.led = "green"
    BY <1>2 DEF LedOf
  <1>6. /\ GoOn("main", r, <<>>) /\ UNCHANGED <<vars, hardware, pattern>>
        /\ ("green" \in missing /\ spoilt' = spoilt) \/ spoilt' = TRUE
    <2> HIDE DEF c, w
    <2> QED BY <1>2, <1>5, Zenon DEF OpenFails
  <1>7. /\ leds' = leds /\ missing' = missing /\ shows' = shows /\ direct' = direct
        /\ worker' = worker /\ pattern' = pattern
    BY <1>6 DEF vars, hardware, pattern
  <1>8. spoilt' \in BOOLEAN
    BY <1>1, <1>6, Zenon DEF HistoryInv
  <1>9. FrequencySet("main") <=> w.file = "enable" /\ w.value = 1
    BY <1>2, Zenon DEF FrequencySet
  <1>10. r = <<>> \/ r = <<Disable("green")>>
    <2>1. CASE Flashes(c.writes) /\ c.otherwise = <<Disable("green")>>
      <3>1. w.file = "enable" /\ w.value = 1 => Len(c.writes) = 1
        <4> HIDE DEF c
        <4> QED BY <1>2, <2>1, FlashesOn
      <3> DEFINE k == Len(c.writes)
      <3>2. k = 1 => ~ (k > 1)
        OBVIOUS
      <3> HIDE DEF c, w
      <3>3. FrequencySet("main") => Tail(c.writes) = <<>>
        BY <1>3, <1>9, <3>1, <3>2, Zenon
      <3> QED BY <2>1, <3>3, Zenon
    <2>2. CASE c.writes = <<Disable("green")>> /\ c.otherwise = <<>>
      <3>1. w.value = 0
        <4> HIDE DEF c
        <4> QED BY <2>2 DEF Disable, Write
      <3> HIDE DEF c
      <3>2. ~FrequencySet("main")
        BY <1>9, <3>1
      <3> QED BY <2>2, <3>2, Zenon
    <2> QED BY <1>2, <2>1, <2>2, Zenon
  <1> HIDE DEF r
  <1>11. TodoInv' /\ HistoryInv'
    BY <1>1, <1>4, <1>6, <1>7, <1>8, GoOnInv, Zenon
  <1>12. /\ todo'["worker"] = s
         /\ r = <<>> => n = <<>>
         /\ r # <<>> =>
               n # <<>> /\ Len(n) = 1 /\ n[1].writes = r /\ n[1].otherwise = <<>>
    <2> DEFINE o == <<>>
    <2>1. GoOn("main", r, o) /\ ListOK(o, LedOf(c))
      BY <1>4, <1>6
    <2> HIDE DEF o
    <2>2. /\ todo'["worker"] = s
          /\ r = <<>> => n = Tail(m)
          /\ r # <<>> =>
                n # <<>> /\ Len(n) = Len(m) /\ n[1].writes = r /\ n[1].otherwise = o
      BY <1>1, <1>4, <2>1, GoOnFacts
    <2> QED BY <1>2, <2>2, Zenon DEF o
  <1> HIDE DEF m, c, w, n, s
  <1>13. OutcomeInv'
    <2> SUFFICES ASSUME ~spoilt', NEW l \in Leds \ missing'
                 PROVE  /\ l \in LitAfter(shows') => Settles(s, leds'[l], Busy("main")', l, TRUE)
                        /\ l \in DarkAfter(shows)' => Settles(s, leds'[l], Busy("main")', l, FALSE)
      BY <1>12 DEF OutcomeInv
    <2>1. DarkAfter(shows)' = DarkAfter(shows)
      BY <1>7 DEF DarkAfter
    <2>2. l # "green" /\ ~spoilt
      <3>1. "green" \in missing /\ spoilt' = spoilt
        BY <1>6, Zenon
      <3>2. l \notin missing
        BY <1>7, Zenon
      <3>3. ~spoilt
        BY <3>1, Zenon
      <3> QED BY <3>1, <3>2, <3>3, Zenon
    <2>3. /\ l \in LitAfter(shows) => Settles(s, leds[l], Busy("main"), l, TRUE)
          /\ l \in DarkAfter(shows) => Settles(s, leds[l], Busy("main"), l, FALSE)
      BY <1>1, <1>7, <2>2, Zenon DEF OutcomeInv, s
    <2> QED BY <1>7, <2>1, <2>2, <2>3, BusyFacts, Zenon
  <1>14. MainInv'
    <2>1. spoilt' \/ "green" \in missing'
      BY <1>6, <1>7, Zenon
    <2>2. direct' # 0
      BY <1>2, <1>7
    <2> QED BY <1>10, <1>12, <2>1, <2>2, Zenon DEF MainInv, n
  <1>15. HardwareInv'
    BY <1>1, <1>7, Zenon DEF HardwareInv
  <1> QED BY <1>11, <1>13, <1>14, <1>15


\* The worker takes a task and begins its pattern.
LEMMA TakeStep ==
    ASSUME PatternInv, Take
    PROVE  HardwareInv' /\ HistoryInv' /\ TodoInv' /\ OutcomeInv' /\ MainInv'
  <1>1. HardwareInv /\ HistoryInv /\ TodoInv /\ OutcomeInv /\ MainInv
    BY DEF PatternInv
  <1>2. PICK kind \in Kinds :
           shows' = kind /\ todo' = [todo EXCEPT !["worker"] = Pattern[kind]]
    BY DEF Take
  <1>3. /\ worker' = "showing" /\ leds' = leds /\ missing' = missing /\ direct' = direct
        /\ spoilt' = (spoilt /\ Busy("main"))
    BY DEF Take, WorkerTake, hardware
  <1> DEFINE p == Pattern[kind]
             m == todo["main"]
  <1>4. /\ CallsOK(p) /\ p # <<>>
        /\ \A l \in LitAfter(kind) : l \in Leds /\ Promises(1, p, l, TRUE)
        /\ \A l \in DarkAfter(kind) : l \in Leds /\ Promises(1, p, l, FALSE)
    BY PatternPromises
  <1> HIDE DEF p
  <1>5. /\ todo'["worker"] = p /\ todo'["main"] = m
        /\ todo' \in [Threads -> Seq(Calls)] /\ \A u \in Threads : CallsOK(todo'[u])
    <2>1. todo \in [Threads -> Seq(Calls)] /\ \A u \in Threads : CallsOK(todo[u])
      BY <1>1 DEF TodoInv
    <2>2. p \in Seq(Calls) /\ todo' = [todo EXCEPT !["worker"] = p]
      BY <1>2, <1>4 DEF CallsOK, p
    <2>3. "worker" \in Threads /\ "main" \in Threads /\ "worker" # "main"
      BY DEF Threads
    <2>4. /\ todo'["worker"] = p /\ todo'["main"] = m
          /\ todo' \in [Threads -> Seq(Calls)]
          /\ \A u \in Threads : todo'[u] = p \/ todo'[u] = todo[u]
      BY <2>1, <2>2, <2>3
    <2> QED BY <1>4, <2>1, <2>4, Zenon
  <1>6. TodoInv'
    BY <1>3, <1>5, Zenon DEF TodoInv
  <1>7. HistoryInv'
    <2>1. kind # "none"
      BY PatternTable
    <2>2. spoilt' \in BOOLEAN
      BY <1>1, <1>3, Zenon DEF HistoryInv
    <2> QED BY <1>1, <1>2, <1>3, <2>1, <2>2, Zenon DEF HistoryInv
  <1>8. OutcomeInv'
    <2> SUFFICES ASSUME NEW l \in Leds \ missing'
                 PROVE  /\ l \in LitAfter(shows') => Settles(p, leds'[l], Busy("main")', l, TRUE)
                        /\ l \in DarkAfter(shows)' => Settles(p, leds'[l], Busy("main")', l, FALSE)
      BY <1>5 DEF OutcomeInv
    <2>1. DarkAfter(shows)' = DarkAfter(kind) /\ LitAfter(shows') = LitAfter(kind)
      BY <1>2, <1>3 DEF DarkAfter
    <2> DEFINE d == leds'[l]
               b == Busy("main")'
    <2> HIDE DEF d, b
    <2>2. l \in LitAfter(kind) => Settles(p, d, b, l, TRUE)
      BY <1>4, PromisesSettle
    <2>3. l \in DarkAfter(kind) => Settles(p, d, b, l, FALSE)
      BY <1>4, PromisesSettle
    <2> QED BY <2>1, <2>2, <2>3 DEF d, b
  <1>9. MainInv'
    <2>1. \A ws : Flashes(ws) => Flashes(ws)'
      BY <1>3, Zenon DEF Flashes
    <2>2. /\ direct = 0 => m = <<>>
          /\ m # <<>> =>
                /\ Len(m) = 1
                /\ \/ Flashes(m[1].writes) /\ m[1].otherwise = <<Disable("green")>>
                   \/ m[1].writes = <<Disable("green")>> /\ m[1].otherwise = <<>>
                      /\ (spoilt \/ "green" \in missing)
      BY <1>1 DEF MainInv
    <2>3. m # <<>> /\ spoilt => spoilt'
      BY <1>3, Zenon DEF Busy
    <2> HIDE DEF m
    <2>4. Flashes(m[1].writes) => Flashes(todo["main"][1].writes)'
      BY <1>5, <2>1, Zenon
    <2> QED BY <1>3, <1>5, <2>2, <2>3, <2>4, Zenon DEF MainInv
  <1>10. HardwareInv'
    BY <1>1, <1>3, Zenon DEF HardwareInv
  <1> QED BY <1>6, <1>7, <1>8, <1>9, <1>10

\* main begins its own pattern.
LEMMA DirectStep ==
    ASSUME PatternInv, ShowDirectly
    PROVE  HardwareInv' /\ HistoryInv' /\ TodoInv' /\ OutcomeInv' /\ MainInv'
  <1>1. HardwareInv /\ HistoryInv /\ TodoInv /\ OutcomeInv /\ MainInv
    BY DEF PatternInv
  <1> DEFINE p == Pattern["NETWORK_ERROR"]
             c == Flash("green")
             s == todo["worker"]
  <1>2. p = <<c>> /\ CallsOK(p) /\ p # <<>>
    <2>1. "NETWORK_ERROR" \in Kinds
      BY PatternTable
    <2> QED BY <2>1, PatternTable, PatternPromises
  <1>3. /\ worker' = worker /\ leds' = leds /\ missing' = missing /\ shows' = shows
        /\ spoilt' = spoilt /\ direct' = direct + 1
        /\ todo' = [todo EXCEPT !["main"] = p]
    BY DEF ShowDirectly, hardware, vars
  <1>4. direct' \in Nat /\ direct' # 0
    BY <1>1, <1>3 DEF HistoryInv
  <1>5. /\ Flashes(c.writes)' /\ c.otherwise = <<Disable("green")>>
    <2> DEFINE ws == SetFrequency("green", 2, 50)
    <2>1. c.writes = ws /\ c.otherwise = <<Disable("green")>>
      BY DEF Flash
    <2>2. /\ Lights(ws, "green") /\ Len(ws) = 4 /\ ws[2].value = Period(2)
          /\ \A i \in 1 .. 4 : ws[i].file = "period" => i = 2
      <3>1. "green" \in Leds
        BY DEF Leds
      <3>2. Period(2) \in 1 .. Slow /\ Duty(2, 50) \in 1 .. Period(2)
        BY Times
      <3> QED BY <3>1, <3>2, SettingFacts
    <2> HIDE DEF ws
    <2>3. \A i \in 1 .. Len(ws) : ws[i].file = "period" => ws[i].value = Slow
      BY <2>2, Times
    <2>4. ~ (Len(ws) \in {1, 2})
      BY <2>2
    <2> QED BY <2>1, <2>2, <2>3, <2>4, Zenon DEF Flashes
  <1> HIDE DEF p, c
  <1>6. /\ todo'["main"] = p /\ todo'["worker"] = s
        /\ todo' \in [Threads -> Seq(Calls)] /\ \A u \in Threads : CallsOK(todo'[u])
    <2>1. todo \in [Threads -> Seq(Calls)] /\ \A u \in Threads : CallsOK(todo[u])
      BY <1>1 DEF TodoInv
    <2>2. p \in Seq(Calls)
      BY <1>2 DEF CallsOK
    <2>3. "worker" \in Threads /\ "main" \in Threads /\ "worker" # "main"
      BY DEF Threads
    <2>4. /\ todo'["main"] = p /\ todo'["worker"] = s
          /\ todo' \in [Threads -> Seq(Calls)]
          /\ \A u \in Threads : todo'[u] = p \/ todo'[u] = todo[u]
      BY <1>3, <2>1, <2>2, <2>3
    <2> QED BY <1>2, <2>1, <2>4, Zenon
  <1> HIDE DEF s
  <1>7. TodoInv'
    BY <1>1, <1>3, <1>6, Zenon DEF TodoInv, s
  <1>8. HistoryInv'
    BY <1>1, <1>3, <1>4, <1>6, Zenon DEF HistoryInv, s
  <1>9. OutcomeInv'
    <2> SUFFICES ASSUME ~spoilt', NEW l \in Leds \ missing'
                 PROVE  /\ l \in LitAfter(shows') => Settles(s, leds'[l], Busy("main")', l, TRUE)
                        /\ l \in DarkAfter(shows)' => Settles(s, leds'[l], Busy("main")', l, FALSE)
      BY <1>6 DEF OutcomeInv
    <2>1. DarkAfter(shows)' \subseteq DarkAfter(shows)
      BY <1>3, <1>4 DEF DarkAfter
    <2>2. /\ l \in LitAfter(shows) => Settles(s, leds[l], Busy("main"), l, TRUE)
          /\ l \in DarkAfter(shows) => Settles(s, leds[l], Busy("main"), l, FALSE)
      BY <1>1, <1>3, Zenon DEF OutcomeInv, s
    <2>3. Busy("main")'
      BY <1>2, <1>6, Zenon DEF Busy
    <2> QED BY <1>3, <2>1, <2>2, <2>3, BusyFacts, Zenon
  <1>10. MainInv'
    <2>1. /\ Len(p) = 1 /\ p[1] = c
      BY <1>2
    <2>2. Flashes(todo["main"][1].writes)'
      BY <1>5, <1>6, <2>1, Zenon
    <2> QED BY <1>4, <1>5, <1>6, <2>1, <2>2, Zenon DEF MainInv
  <1>11. HardwareInv'
    BY <1>1, <1>3, Zenon DEF HardwareInv
  <1> QED BY <1>7, <1>8, <1>9, <1>10, <1>11

\* A step that leaves the LEDs and the calls alone.
LEMMA StillStep ==
    ASSUME PatternInv, Still, todo["worker"] # <<>> => worker' = worker
    PROVE  HardwareInv' /\ HistoryInv' /\ TodoInv' /\ OutcomeInv' /\ MainInv'
  <1>1. HardwareInv /\ HistoryInv /\ TodoInv /\ OutcomeInv /\ MainInv
    BY DEF PatternInv
  <1>2. /\ leds' = leds /\ missing' = missing /\ todo' = todo /\ shows' = shows
        /\ direct' = direct /\ spoilt' = spoilt
    BY DEF Still, hardware, pattern
  <1>3. HardwareInv' /\ HistoryInv' /\ TodoInv'
    BY <1>1, <1>2, Zenon DEF HardwareInv, HistoryInv, TodoInv
  <1>4. OutcomeInv'
    <2>1. DarkAfter(shows)' = DarkAfter(shows) /\ Busy("main")' = Busy("main")
      BY <1>2 DEF DarkAfter, Busy
    <2> QED BY <1>1, <1>2, <2>1, Zenon DEF OutcomeInv
  <1>5. MainInv'
    BY <1>1, <1>2, Zenon DEF MainInv, Flashes
  <1> QED BY <1>3, <1>4, <1>5

\* The steps of LedQueue, but for the one that takes a task.
LEMMA QueueStep ==
    ASSUME PatternInv,
           \/ Shown \/ (WorkerWait /\ Still) \/ (WorkerExit /\ Still)
           \/ (InitAgain \/ InitCreates \/ InitFails \/ Joined) /\ Still
           \/ (ShutdownIdle \/ Shutdown) /\ MayShutDown /\ Still
           \/ (Enqueue \/ SpuriousWakeup) /\ Still
    PROVE  Still /\ (todo["worker"] # <<>> => worker' = worker)
  <1>1. todo["worker"] # <<>> => worker = "showing"
    BY DEF PatternInv, TodoInv
  <1>2. Still
    BY Zenon DEF Shown
  <1>3. CASE Shown
    BY <1>3 DEF Shown, Busy
  <1>4. CASE WorkerWait \/ WorkerExit \/ SpuriousWakeup
    BY <1>1, <1>2, <1>4 DEF WorkerWait, WorkerExit, SpuriousWakeup
  <1>5. CASE InitAgain \/ InitFails \/ Joined \/ ShutdownIdle
    BY <1>2, <1>5 DEF InitAgain, InitFails, Joined, ShutdownIdle
  <1>6. CASE InitCreates
    <2>1. worker = "none"
      BY <1>6 DEF PatternInv, IInv, LifeInv, InitCreates
    <2> QED BY <1>1, <1>2, <2>1
  <1>7. CASE Shutdown \/ Enqueue
    <2>1. Broadcast
      BY <1>7 DEF Shutdown, Enqueue
    <2> QED BY <1>1, <1>2, <2>1 DEF Broadcast
  <1> QED BY <1>2, <1>3, <1>4, <1>5, <1>6, <1>7, Zenon

\* The calls of led.c that set a rate: the last ones of their patterns.
LEMMA RateCalls ==
    /\ \A l \in Leds : LET ws == Flash(l).writes IN
          SetsRate(ws, l, Slow, FlashPulse) /\ Len(ws) = 4
    /\ LET ws == Steady("green", 30).writes IN
          SetsRate(ws, "green", SteadyPeriod, SteadyPulse) /\ Len(ws) = 4
    /\ OnlyEnables(Off("green").writes)
  <1>1. ASSUME NEW l \in Leds, NEW h, NEW p
        PROVE  LET ws == SetFrequency(l, h, p) IN
               SetsRate(ws, l, Period(h), Duty(h, p)) /\ Len(ws) = 4
    <2> DEFINE P == Period(h)
               D == Duty(h, p)
               W == << Disable(l), Write(l, "period", P), Write(l, "duty_cycle", D), Write(l, "enable", 1) >>
    <2>1. W = SetFrequency(l, h, p)
      BY DEF SetFrequency
    <2> HIDE DEF P, D
    <2>2. /\ Len(W) = 4 /\ W[1] = Disable(l) /\ W[2] = Write(l, "period", P)
          /\ W[3] = Write(l, "duty_cycle", D) /\ W[4] = Write(l, "enable", 1)
      OBVIOUS
    <2> HIDE DEF W
    <2>3. W[1].file = "enable" /\ W[4].file = "enable"
      BY <2>2 DEF Disable, Write
    <2> QED BY <2>1, <2>2, <2>3, Zenon DEF SetsRate, P, D
  <1>2. "green" \in Leds
    BY DEF Leds
  <1>3. ASSUME NEW l \in Leds
        PROVE  LET ws == Flash(l).writes IN SetsRate(ws, l, Slow, FlashPulse) /\ Len(ws) = 4
    <2>1. Flash(l).writes = SetFrequency(l, 2, 50)
      BY DEF Flash
    <2> QED BY <1>1, <2>1 DEF Slow, FlashPulse
  <1>4. LET ws == Steady("green", 30).writes IN
        SetsRate(ws, "green", SteadyPeriod, SteadyPulse) /\ Len(ws) = 4
    <2>1. Steady("green", 30).writes = SetFrequency("green", 1000, 30)
      BY DEF Steady
    <2> QED BY <1>1, <1>2, <2>1 DEF SteadyPeriod, SteadyPulse
  <1>5. OnlyEnables(Off("green").writes)
    BY DEF OnlyEnables, Off, Disable, Write
  <1> QED BY <1>3, <1>4, <1>5

\* A pattern not begun, whose last call sets the rate.
LEMMA RateBegins ==
    ASSUME NEW s, NEW n \in Nat, n > 0, Len(s) = n, s # <<>>, NEW c, s[n] = c,
           NEW l, NEW P, NEW D, NEW d, NEW exact,
           LedOf(c) = l, SetsRate(c.writes, l, P, D), Len(c.writes) = 4,
           exact => d.duty_cycle <= P,
           P # Slow => \A i \in 1 .. n : i < n /\ LedOf(s[i]) = l => OnlyEnables(s[i].writes)
    PROVE  Rated(s, d, l, P, D, exact)
  <1>1. TakesRate(d, 4, P, D, exact)
    BY DEF TakesRate
  <1> QED BY <1>1, Zenon DEF Rated, RateComes

\* What the patterns come to, once they are taken.
LEMMA PatternRates ==
    ASSUME NEW kind \in Kinds, NEW d, LedOK(d), d.period <= Slow
    PROVE  /\ \A l \in FlashingAfter(kind) : Rated(Pattern[kind], d, l, Slow, FlashPulse, TRUE)
           /\ \A l \in SteadyAfter(kind) : \A exact :
                 (exact => d.duty_cycle <= SteadyPeriod)
                    => Rated(Pattern[kind], d, l, SteadyPeriod, SteadyPulse, exact)
  <1>7. d.duty_cycle <= Slow
    BY Times DEF LedOK
  <1>1. CASE kind = "NETWORK_ERROR"
    <2> DEFINE c == Flash("green")
    <2>1. Pattern[kind] = <<c>> /\ LedOf(c) = "green" /\ SetsRate(c.writes, "green", Slow, FlashPulse)
          /\ Len(c.writes) = 4
      <3>1. Pattern[kind] = <<c>>
        BY <1>1, PatternTable, Zenon
      <3> QED BY <3>1, NamedCalls, RateCalls, Zenon
    <2> HIDE DEF c
    <2>2. FlashingAfter(kind) = {"green"} /\ SteadyAfter(kind) = {}
      BY <1>1 DEF FlashingAfter, SteadyAfter, Success, Failed
    <2> DEFINE s == <<c>>
    <2>3. Len(s) = 1 /\ s[1] = c /\ s # <<>> /\ 1 \in Nat /\ 1 > 0
      OBVIOUS
    <2> HIDE DEF s
    <2>4. Rated(s, d, "green", Slow, FlashPulse, TRUE)
      BY <1>7, <2>1, <2>3, RateBegins, Zenon
    <2> QED BY <2>1, <2>2, <2>4 DEF s
  <1>2. CASE kind = "DOOR_ERROR"
    <2> DEFINE c == Flash("red")
    <2>1. Pattern[kind] = <<c>> /\ LedOf(c) = "red" /\ SetsRate(c.writes, "red", Slow, FlashPulse)
          /\ Len(c.writes) = 4
      BY <1>2, PatternTable, NamedCalls, RateCalls
    <2> HIDE DEF c
    <2>2. FlashingAfter(kind) = {"red"} /\ SteadyAfter(kind) = {}
      BY <1>2 DEF FlashingAfter, SteadyAfter, Success, Failed
    <2> DEFINE s == <<c>>
    <2>3. Len(s) = 1 /\ s[1] = c /\ s # <<>> /\ 1 \in Nat /\ 1 > 0
      OBVIOUS
    <2> HIDE DEF s
    <2>4. Rated(s, d, "red", Slow, FlashPulse, TRUE)
      BY <1>7, <2>1, <2>3, RateBegins, Zenon
    <2> QED BY <2>1, <2>2, <2>4 DEF s
  <1>3. CASE kind \in {"LOCK_FAILURE", "UNLOCK_FAILURE"}
    <2> DEFINE a == Off("green")
               b == Off("red")
               x == Blink("red", 10, 90)
               c == Flash("red")
    <2>1. Pattern[kind] = <<a, b, x, c>> /\ LedOf(c) = "red" /\ SetsRate(c.writes, "red", Slow, FlashPulse)
          /\ Len(c.writes) = 4
      BY <1>3, PatternTable, NamedCalls, RateCalls
    <2> HIDE DEF a, b, x, c
    <2>2. FlashingAfter(kind) = {"red"} /\ SteadyAfter(kind) = {}
      BY <1>3 DEF FlashingAfter, SteadyAfter, Success, Failed
    <2> DEFINE s == <<a, b, x, c>>
    <2>3. Len(s) = 4 /\ s[4] = c /\ s # <<>> /\ 4 \in Nat /\ 4 > 0
      OBVIOUS
    <2> HIDE DEF s
    <2>4. Rated(s, d, "red", Slow, FlashPulse, TRUE)
      BY <1>7, <2>1, <2>3, RateBegins, Zenon
    <2> QED BY <2>1, <2>2, <2>4 DEF s
  <1>4. CASE kind = "LOCK_SUCCESS"
    <2> DEFINE a == Off("green")
               x == Blink("red", 7, 90)
               c == Steady("green", 30)
               P == SteadyPeriod
               D == SteadyPulse
    <2>1. /\ Pattern[kind] = <<a, x, c>> /\ LedOf(c) = "green" /\ SetsRate(c.writes, "green", P, D)
          /\ Len(c.writes) = 4 /\ OnlyEnables(a.writes) /\ LedOf(x) = "red"
      BY <1>4, PatternTable, NamedCalls, RateCalls
    <2> HIDE DEF a, x, c, P, D
    <2>2. FlashingAfter(kind) = {} /\ SteadyAfter(kind) = {"green"}
      BY <1>4 DEF FlashingAfter, SteadyAfter, Success, Failed
    <2> DEFINE s == <<a, x, c>>
    <2>3. Len(s) = 3 /\ s[1] = a /\ s[2] = x /\ s[3] = c /\ s # <<>> /\ 3 \in Nat /\ 3 > 0
      OBVIOUS
    <2> HIDE DEF s
    <2>4. \A i \in 1 .. 3 : i < 3 /\ LedOf(s[i]) = "green" => OnlyEnables(s[i].writes)
      <3>1. \A i \in 1 .. 3 : i < 3 => i = 1 \/ i = 2
        OBVIOUS
      <3>2. "red" # "green"
        OBVIOUS
      <3> QED BY <2>1, <2>3, <3>1, <3>2, Zenon
    <2>5. ASSUME NEW exact, exact => d.duty_cycle <= P PROVE Rated(s, d, "green", P, D, exact)
      BY <2>1, <2>3, <2>4, <2>5, RateBegins, Zenon
    <2> QED BY <2>1, <2>2, <2>5 DEF s, P, D
  <1>5. CASE kind = "UNLOCK_SUCCESS"
    <2> DEFINE a == Off("green")
               b == Off("red")
               x == Blink("red", 7, 90)
               c == Steady("green", 30)
               P == SteadyPeriod
               D == SteadyPulse
    <2>1. /\ Pattern[kind] = <<a, b, x, c>> /\ LedOf(c) = "green" /\ SetsRate(c.writes, "green", P, D)
          /\ Len(c.writes) = 4 /\ OnlyEnables(a.writes) /\ LedOf(b) = "red" /\ LedOf(x) = "red"
      BY <1>5, PatternTable, NamedCalls, RateCalls
    <2> HIDE DEF a, b, x, c, P, D
    <2>2. FlashingAfter(kind) = {} /\ SteadyAfter(kind) = {"green"}
      BY <1>5 DEF FlashingAfter, SteadyAfter, Success, Failed
    <2> DEFINE s == <<a, b, x, c>>
    <2>3. /\ Len(s) = 4 /\ s[1] = a /\ s[2] = b /\ s[3] = x /\ s[4] = c /\ s # <<>>
          /\ 4 \in Nat /\ 4 > 0
      OBVIOUS
    <2> HIDE DEF s
    <2>4. \A i \in 1 .. 4 : i < 4 /\ LedOf(s[i]) = "green" => OnlyEnables(s[i].writes)
      <3>1. \A i \in 1 .. 4 : i < 4 => i = 1 \/ i = 2 \/ i = 3
        OBVIOUS
      <3>2. "red" # "green"
        OBVIOUS
      <3> QED BY <2>1, <2>3, <3>1, <3>2, Zenon
    <2>5. ASSUME NEW exact, exact => d.duty_cycle <= P PROVE Rated(s, d, "green", P, D, exact)
      BY <2>1, <2>3, <2>4, <2>5, RateBegins, Zenon
    <2> QED BY <2>1, <2>2, <2>5 DEF s, P, D
  <1>6. CASE kind \in {"BLINK_RED", "HUB_SUCCESS", "HUB_FAILURE"}
    <2>1. FlashingAfter(kind) = {} /\ SteadyAfter(kind) = {}
      BY <1>6 DEF FlashingAfter, SteadyAfter, Success, Failed
    <2> QED BY <2>1
  <1>8. kind \in {"BLINK_RED", "HUB_SUCCESS", "HUB_FAILURE", "NETWORK_ERROR", "DOOR_ERROR",
                 "LOCK_SUCCESS", "UNLOCK_SUCCESS", "LOCK_FAILURE", "UNLOCK_FAILURE"}
    BY PatternTable
  <1>9. \/ kind \in {"BLINK_RED", "HUB_SUCCESS", "HUB_FAILURE"} \/ kind = "NETWORK_ERROR"
        \/ kind = "DOOR_ERROR" \/ kind = "LOCK_SUCCESS" \/ kind = "UNLOCK_SUCCESS"
        \/ kind \in {"LOCK_FAILURE", "UNLOCK_FAILURE"}
    BY <1>8
  <1> QED BY <1>1, <1>2, <1>3, <1>4, <1>5, <1>6, <1>9, Zenon

\* The next write of the call that sets the rate, when it is the only one left.
LEMMA RateWrite ==
    ASSUME NEW ws, NEW l, ListOK(ws, l), ws # <<>>, NEW P \in Nat, NEW D \in Nat, D <= P,
           NEW d, NEW e, LedOK(d), LedOK(e), NEW exact, Took(d, e, ws[1]),
           SetsRate(ws, l, P, D), TakesRate(d, Len(ws), P, D, exact)
    PROVE  /\ Tail(ws) = <<>> => HasRate(e, P, D, exact)
           /\ Tail(ws) # <<>> => SetsRate(Tail(ws), l, P, D)
                                 /\ TakesRate(e, Len(Tail(ws)), P, D, exact)
  <1> DEFINE t == Tail(ws)
             w == ws[1]
  <1>1. /\ Len(ws) \in Nat /\ Len(ws) > 0 /\ Len(t) = Len(ws) - 1
        /\ \A i \in 1 .. Len(t) : t[i] = ws[i + 1]
        /\ t # <<>> <=> Len(ws) > 1
    BY ListTail
  <1> HIDE DEF t, w
  <1>2. CASE Len(ws) = 1
    <2>1. w.file = "enable" /\ HasRate(d, P, D, exact)
      BY <1>2 DEF SetsRate, TakesRate, w
    <2>2. e.period = d.period /\ e.duty_cycle = d.duty_cycle
      BY <2>1 DEF Took, w
    <2>3. HasRate(e, P, D, exact) /\ t = <<>>
      BY <1>1, <1>2, <2>1, <2>2 DEF HasRate
    <2> QED BY <2>3 DEF t
  <1>3. CASE Len(ws) = 2
    <2>1. /\ w = Write(l, "duty_cycle", D) /\ ws[2].file = "enable"
          /\ d.period >= P /\ (exact => d.period = P)
      BY <1>3 DEF SetsRate, TakesRate, w
    <2>2. w.file = "duty_cycle" /\ w.value = D
      BY <2>1 DEF Write
    <2>3. D <= d.period
      BY <2>1 DEF LedOK
    <2>4. e.period = d.period /\ e.duty_cycle = D
      BY <2>2, <2>3 DEF Took, w
    <2>5. Len(t) = 1 /\ t[1] = ws[2] /\ t # <<>>
      BY <1>1, <1>3
    <2>6. SetsRate(t, l, P, D)
      BY <2>1, <2>5, Zenon DEF SetsRate
    <2>7. TakesRate(e, 1, P, D, exact)
      <3>1. HasRate(e, P, D, exact)
        BY <2>1, <2>4, Zenon DEF HasRate
      <3>2. ~ (1 = 2) /\ ~ (1 > 2)
        OBVIOUS
      <3> QED BY <3>1, <3>2, Zenon DEF TakesRate
    <2> QED BY <2>5, <2>6, <2>7, Zenon DEF t
  <1>4. CASE Len(ws) = 3
    <2>1. /\ w = Write(l, "period", P) /\ ws[2] = Write(l, "duty_cycle", D) /\ ws[3].file = "enable"
          /\ exact => d.duty_cycle <= P
      BY <1>4 DEF SetsRate, TakesRate, w
    <2>2. w.file = "period" /\ w.value = P
      BY <2>1 DEF Write
    <2>3. e.period >= P /\ (d.duty_cycle <= P => e.period = P)
      BY <2>2 DEF Took, w
    <2>5. Len(t) = 2 /\ t[1] = ws[2] /\ t[2] = ws[3] /\ t # <<>>
      BY <1>1, <1>4
    <2>6. SetsRate(t, l, P, D)
      BY <2>1, <2>5, Zenon DEF SetsRate
    <2>7. TakesRate(e, 2, P, D, exact)
      <3>1. ~ (2 = 1) /\ ~ (2 > 2)
        OBVIOUS
      <3> QED BY <2>1, <2>3, <3>1, Zenon DEF TakesRate
    <2> QED BY <2>5, <2>6, <2>7, Zenon DEF t
  <1>5. CASE Len(ws) = 4
    <2>1. /\ w.file = "enable" /\ ws[2] = Write(l, "period", P) /\ ws[3] = Write(l, "duty_cycle", D)
          /\ ws[4].file = "enable" /\ (exact => d.duty_cycle <= P)
      BY <1>5 DEF SetsRate, TakesRate, w
    <2>2. e.duty_cycle = d.duty_cycle
      BY <2>1 DEF Took, w
    <2>5. Len(t) = 3 /\ t[1] = ws[2] /\ t[2] = ws[3] /\ t[3] = ws[4] /\ t # <<>>
      BY <1>1, <1>5
    <2>6. SetsRate(t, l, P, D)
      BY <2>1, <2>5, Zenon DEF SetsRate
    <2>7. TakesRate(e, 3, P, D, exact)
      <3>1. ~ (3 = 1) /\ ~ (3 = 2)
        OBVIOUS
      <3> QED BY <2>1, <2>2, <3>1, Zenon DEF TakesRate
    <2> QED BY <2>5, <2>6, <2>7, Zenon DEF t
  <1> QED BY <1>2, <1>3, <1>4, <1>5 DEF SetsRate

\* A step of the worker's pattern: the first of its calls goes on with the writes
\* q, or is over.  Where it is a call for LED l, it has made its next write.
LEMMA RateStep ==
    ASSUME NEW s, CallsOK(s), s # <<>>, NEW n, CallsOK(n), NEW q,
           q = <<>> => n = Tail(s),
           q # <<>> => /\ n # <<>> /\ Len(n) = Len(s) /\ LedOf(n[1]) = LedOf(s[1])
                       /\ n[1].writes = q /\ \A j \in 2 .. Len(s) : n[j] = s[j],
           NEW l, NEW P \in Nat, NEW D \in Nat, D <= P,
           NEW d, NEW e, LedOK(d), LedOK(e), e.period <= Slow, NEW exact,
           LedOf(s[1]) # l => e = d,
           LedOf(s[1]) = l => q = Tail(s[1].writes) /\ Took(d, e, s[1].writes[1]),
           Rated(s, d, l, P, D, exact)
    PROVE  Rated(n, e, l, P, D, exact)
  <1> DEFINE N == Len(s)
             c == s[1]
             ws == s[N].writes
  <1>1. /\ N \in Nat /\ N > 0 /\ CallOK(c)
        /\ Len(Tail(s)) = N - 1
        /\ \A i \in 1 .. Len(Tail(s)) : i + 1 \in 2 .. N /\ Tail(s)[i] = s[i + 1]
    BY TailFacts
  <1>2. /\ LedOf(s[N]) = l /\ SetsRate(ws, l, P, D) /\ TakesRate(d, Len(ws), P, D, exact)
        /\ N > 1 => Len(ws) = 4
        /\ P # Slow => \A i \in 1 .. N : i < N /\ LedOf(s[i]) = l => OnlyEnables(s[i].writes)
    BY Zenon DEF Rated, RateComes
  <1>3. ListOK(c.writes, LedOf(c)) /\ c.writes # <<>>
    BY <1>1 DEF CallOK
  <1> HIDE DEF N
  <1>4. CASE N = 1
    <2>1. ws = c.writes /\ LedOf(c) = l /\ q = Tail(ws) /\ Took(d, e, ws[1])
      BY <1>2, <1>4
    <2>2. ListOK(ws, l) /\ ws # <<>>
      BY <1>3, <2>1
    <2> HIDE DEF ws, c
    <2>3. /\ q = <<>> => HasRate(e, P, D, exact)
          /\ q # <<>> => SetsRate(q, l, P, D) /\ TakesRate(e, Len(q), P, D, exact)
      BY <1>2, <2>1, <2>2, RateWrite
    <2>4. CASE q = <<>>
      <3>1. n = Tail(s)
        BY <2>4
      <3>2. Len(n) = 0
        BY <1>1, <1>4, <3>1
      <3>3. n = <<>>
        <4>1. ~ (Len(n) > 0) /\ n \in Seq(Calls)
          BY <3>2 DEF CallsOK
        <4> QED BY <4>1, NonEmpty, Zenon
      <3> QED BY <2>3, <2>4, <3>3, Zenon DEF Rated
    <2>5. CASE q # <<>>
      <3>1. n # <<>> /\ Len(n) = 1 /\ LedOf(n[1]) = l /\ n[1].writes = q
        BY <1>4, <2>1, <2>5 DEF N, c
      <3>2. ~ (Len(n) > 1) /\ ~ \E i \in 1 .. Len(n) : i < Len(n)
        BY <3>1
      <3>3. RateComes(n, e, l, P, D, exact)
        BY <2>3, <2>5, <3>1, <3>2, Zenon DEF RateComes
      <3> QED BY <3>1, <3>3, Zenon DEF Rated
    <2> QED BY <2>4, <2>5
  <1>5. CASE N > 1
    <2>1. 1 \in 1 .. N /\ 1 < N /\ N \in 2 .. N
      BY <1>1, <1>5
    <2>2. Len(ws) = 4 /\ (exact => d.duty_cycle <= P)
      BY <1>2, <1>5 DEF TakesRate
    <2>3. exact => e.duty_cycle <= P
      <3>1. CASE P = Slow
        <4>1. e.duty_cycle <= Slow
          <5>1. Slow \in Nat
            BY Times
          <5>2. e.duty_cycle \in Nat /\ e.period \in Nat /\ e.duty_cycle <= e.period
            BY Zenon DEF LedOK
          <5> QED BY <5>1, <5>2
        <4> QED BY <3>1, <4>1
      <3>2. CASE P # Slow /\ LedOf(c) = l
        <4>1. OnlyEnables(c.writes)
          BY <1>2, <2>1, <3>2, Zenon
        <4>2. 1 \in 1 .. Len(c.writes)
          <5> HIDE DEF c
          <5>1. Len(c.writes) \in Nat /\ Len(c.writes) > 0
            BY <1>3, ListTail
          <5> QED BY <5>1
        <4>3. c.writes[1].file = "enable"
          BY <4>1, <4>2 DEF OnlyEnables
        <4>4. e.duty_cycle = d.duty_cycle
          BY <3>2, <4>3 DEF Took
        <4> QED BY <2>2, <4>4
      <3>3. CASE LedOf(c) # l
        BY <2>2, <3>3
      <3> QED BY <3>1, <3>2, <3>3
    <2>4. TakesRate(e, Len(ws), P, D, exact)
      <3>1. ~ (4 = 1) /\ ~ (4 = 2)
        OBVIOUS
      <3> QED BY <2>2, <2>3, <3>1, Zenon DEF TakesRate
    <2>5. CASE q = <<>>
      <3>1. /\ n = Tail(s) /\ Len(n) = N - 1 /\ Len(n) \in 1 .. Len(n) /\ Len(n) + 1 = N
            /\ \A i \in 1 .. Len(n) : i + 1 \in 1 .. N /\ (i < Len(n) => i + 1 < N)
        BY <1>1, <1>5, <2>5
      <3>2. \A i \in 1 .. Len(n) : n[i] = s[i + 1]
        BY <1>1, <3>1
      <3>3. n[Len(n)] = s[N]
        BY <3>1, <3>2
      <3>4. n # <<>>
        <4>1. Len(n) > 0
          BY <3>1
        <4>2. n \in Seq(Calls)
          BY DEF CallsOK
        <4> QED BY <4>1, <4>2, NonEmpty, Zenon
      <3>5. P # Slow => \A i \in 1 .. Len(n) : i < Len(n) /\ LedOf(n[i]) = l => OnlyEnables(n[i].writes)
        BY <1>2, <3>1, <3>2, Zenon
      <3>6. RateComes(n, e, l, P, D, exact)
        BY <1>2, <2>2, <2>4, <3>3, <3>5, Zenon DEF RateComes
      <3> QED BY <3>4, <3>6, Zenon DEF Rated
    <2>6. CASE q # <<>>
      <3>1. /\ n # <<>> /\ Len(n) = N /\ LedOf(n[1]) = LedOf(c)
            /\ n[1].writes = q /\ \A j \in 2 .. N : n[j] = s[j]
        BY <2>6 DEF N
      <3>2. n[N] = s[N]
        BY <2>1, <3>1
      <3>3. \A i \in 1 .. N : i = 1 \/ i \in 2 .. N
        BY <1>1
      <3>4. LedOf(c) = l /\ OnlyEnables(c.writes) => OnlyEnables(q)
        <4> DEFINE v == c.writes
        <4>1. v # <<>> /\ ListOK(v, LedOf(c))
          BY <1>3
        <4> HIDE DEF v
        <4>2. /\ Len(v) \in Nat /\ Len(Tail(v)) = Len(v) - 1
              /\ \A i \in 1 .. Len(Tail(v)) : Tail(v)[i] = v[i + 1]
          BY <4>1, ListTail
        <4>3. \A i \in 1 .. Len(Tail(v)) : i + 1 \in 1 .. Len(v)
          BY <4>2
        <4>4. OnlyEnables(v) => OnlyEnables(Tail(v))
          BY <4>2, <4>3, Zenon DEF OnlyEnables
        <4> QED BY <4>4 DEF v
      <3>5. P # Slow => \A i \in 1 .. N : i < N /\ LedOf(n[i]) = l => OnlyEnables(n[i].writes)
        <4> SUFFICES ASSUME P # Slow, NEW i \in 1 .. N, i < N, LedOf(n[i]) = l
                     PROVE  OnlyEnables(n[i].writes)
          OBVIOUS
        <4>1. CASE i = 1
          BY <1>2, <2>1, <3>1, <3>4, <4>1, Zenon
        <4>2. CASE i \in 2 .. N
          BY <1>2, <3>1, <4>2, Zenon
        <4> QED BY <3>3, <4>1, <4>2
      <3>6. RateComes(n, e, l, P, D, exact)
        BY <1>2, <2>2, <2>4, <3>1, <3>2, <3>5, Zenon DEF RateComes
      <3> QED BY <3>1, <3>6, Zenon DEF Rated
    <2> QED BY <2>5, <2>6
  <1> QED BY <1>1, <1>4, <1>5

\* RateInv in the next state, whichever thread went on or took a task.
LEMMA RateNext ==
    ASSUME PatternInv, [PatternNext]_pvars, HardwareInv', TodoInv'
    PROVE  RateInv'
  <1> DEFINE s == todo["worker"]
             n == todo'["worker"]
  <1>1. HardwareInv /\ HistoryInv /\ TodoInv /\ MainInv /\ RateInv
        /\ "worker" \in Threads /\ "main" \in Threads /\ "main" # "worker"
    BY DEF PatternInv, Threads
  <1>2. \A l \in Leds : LedOK(leds[l]) /\ LedOK(leds'[l]) /\ leds'[l].period <= Slow
    BY <1>1 DEF HardwareInv, LedOK
  <1>3. /\ FlashPulse \in Nat /\ FlashPulse <= Slow /\ Slow \in Nat
        /\ SteadyPeriod \in Nat /\ SteadyPulse \in Nat /\ SteadyPulse <= SteadyPeriod
    BY Times DEF FlashPulse, SteadyPeriod, SteadyPulse
  <1>4. CASE Take
    <2>1. PICK kind \in Kinds :
             shows' = kind /\ todo' = [todo EXCEPT !["worker"] = Pattern[kind]]
      BY <1>4 DEF Take
    <2>2. /\ leds' = leds /\ missing' = missing /\ direct' = direct
          /\ wide' = (leds["green"].duty_cycle > SteadyPeriod)
      BY <1>4 DEF Take, hardware, SteadyPeriod
    <2>3. n = Pattern[kind]
      <3> DEFINE p == Pattern[kind]
      <3> HIDE DEF p
      <3>1. todo' = [todo EXCEPT !["worker"] = p]
        BY <2>1 DEF p
      <3>2. n = p
        BY <1>1, <3>1 DEF TodoInv
      <3> QED BY <3>2 DEF p
    <2>4. ~wide' => leds'["green"].duty_cycle <= SteadyPeriod
      <3> DEFINE x == leds["green"].duty_cycle
                 P == SteadyPeriod
      <3>1. x \in Nat /\ P \in Nat
        BY <1>2, <1>3 DEF LedOK, Leds
      <3> HIDE DEF x, P
      <3>2. ~ (x > P) => x <= P
        BY <3>1
      <3> QED BY <2>2, <3>2 DEF x, P
    <2>5. \A l \in Leds : l \in FlashingAfter(kind) =>
             Rated(n, leds'[l], l, Slow, FlashPulse, TRUE)
      <3> SUFFICES ASSUME NEW l \in Leds, l \in FlashingAfter(kind)
                   PROVE  Rated(n, leds'[l], l, Slow, FlashPulse, TRUE)
        OBVIOUS
      <3> DEFINE d == leds'[l]
      <3>1. LedOK(d) /\ d.period <= Slow
        BY <1>2
      <3> HIDE DEF d
      <3>2. Rated(Pattern[kind], d, l, Slow, FlashPulse, TRUE)
        BY <3>1, PatternRates, Zenon
      <3> QED BY <2>3, <3>2 DEF d
    <2>6. \A l \in Leds : l \in SteadyAfter(kind) =>
             Rated(n, leds'[l], l, SteadyPeriod, SteadyPulse, ~wide')
      <3> SUFFICES ASSUME NEW l \in Leds, l \in SteadyAfter(kind)
                   PROVE  Rated(n, leds'[l], l, SteadyPeriod, SteadyPulse, ~wide')
        OBVIOUS
      <3>1. l = "green"
        BY DEF SteadyAfter
      <3> DEFINE d == leds'[l]
                 ex == ~wide'
      <3>2. LedOK(d) /\ d.period <= Slow /\ (ex => d.duty_cycle <= SteadyPeriod)
        BY <1>2, <2>4, <3>1
      <3> HIDE DEF d, ex
      <3>3. Rated(Pattern[kind], d, l, SteadyPeriod, SteadyPulse, ex)
        BY <3>2, PatternRates, Zenon
      <3> QED BY <2>3, <3>3 DEF d, ex
    <2> HIDE DEF n
    <2>7. shows' = kind /\ FlashingAfter(shows)' = FlashingAfter(kind)
          /\ SteadyAfter(shows)' = SteadyAfter(kind)
      BY <2>1 DEF FlashingAfter, SteadyAfter
    <2> QED BY <2>5, <2>6, <2>7, Zenon DEF RateInv, n
  <1>5. ASSUME UNCHANGED <<missing, shows, direct, wide>>, spoilt => spoilt',
               \A l \in Leds \ missing, P \in Nat, D \in Nat : \A exact :
                  ~spoilt' /\ Alone(l) /\ D <= P /\ Rated(s, leds[l], l, P, D, exact)
                     => Rated(n, leds'[l], l, P, D, exact)
        PROVE  RateInv'
    <2> SUFFICES ASSUME ~spoilt', NEW l \in Leds \ missing', Alone(l)'
                 PROVE  /\ l \in FlashingAfter(shows)' =>
                              Rated(n, leds'[l], l, Slow, FlashPulse, TRUE)
                        /\ l \in SteadyAfter(shows)' =>
                              Rated(n, leds'[l], l, SteadyPeriod, SteadyPulse, ~wide')
      BY Zenon DEF RateInv, n
    <2>1. /\ ~spoilt /\ l \in Leds \ missing /\ Alone(l) /\ wide' = wide
          /\ FlashingAfter(shows)' = FlashingAfter(shows) /\ SteadyAfter(shows)' = SteadyAfter(shows)
      BY <1>5, Zenon DEF Alone, FlashingAfter, SteadyAfter
    <2>2. /\ l \in FlashingAfter(shows) => Rated(s, leds[l], l, Slow, FlashPulse, TRUE)
          /\ l \in SteadyAfter(shows) =>
                Rated(s, leds[l], l, SteadyPeriod, SteadyPulse, ~wide)
      BY <1>1, <2>1, Zenon DEF RateInv, s
    <2> HIDE DEF s, n
    <2>3. \A P \in Nat, D \in Nat : \A exact :
             D <= P /\ Rated(s, leds[l], l, P, D, exact) => Rated(n, leds'[l], l, P, D, exact)
      BY <1>5, <2>1, Zenon
    <2> QED BY <1>3, <2>1, <2>2, <2>3, Zenon
  <1>6. CASE WriteFile("worker")
    <2> DEFINE q == Tail(s[1].writes)
    <2>1. /\ CallsOK(s) /\ s # <<>> /\ s[1].writes[1].led = LedOf(s[1])
          /\ LedOf(s[1]) \in Leds
          /\ \A l \in Leds : l # LedOf(s[1]) => leds'[l] = leds[l]
          /\ Took(leds[LedOf(s[1])], leds'[LedOf(s[1])], s[1].writes[1])
          /\ q = <<>> => n = Tail(s)
          /\ q # <<>> => /\ n # <<>> /\ Len(n) = Len(s) /\ LedOf(n[1]) = LedOf(s[1])
                         /\ n[1].writes = q /\ \A j \in 2 .. Len(s) : n[j] = s[j]
      BY <1>1, <1>6, WriteStep, Zenon
    <2>2. CallsOK(n)
      BY <1>1 DEF TodoInv
    <2>3. UNCHANGED <<missing, shows, direct, wide, spoilt>>
      BY <1>6 DEF WriteFile, pattern
    <2> HIDE DEF s, n, q
    <2>4. ASSUME NEW l \in Leds, NEW P \in Nat, NEW D \in Nat, NEW exact,
                 D <= P, Rated(s, leds[l], l, P, D, exact)
          PROVE  Rated(n, leds'[l], l, P, D, exact)
      <3> DEFINE d == leds[l]
                 e == leds'[l]
      <3>1. /\ LedOK(d) /\ LedOK(e) /\ e.period <= Slow
            /\ LedOf(s[1]) # l => e = d
            /\ LedOf(s[1]) = l => q = Tail(s[1].writes) /\ Took(d, e, s[1].writes[1])
            /\ Rated(s, d, l, P, D, exact)
        BY <1>2, <2>1, <2>4 DEF q
      <3> HIDE DEF d, e
      <3>2. Rated(n, e, l, P, D, exact)
        BY <2>1, <2>2, <2>4, <3>1, RateStep
      <3> QED BY <3>2 DEF e
    <2> QED BY <1>5, <2>3, <2>4, Zenon DEF s, n
  <1>7. CASE OpenFails("worker")
    <2> DEFINE c == s[1]
               q == IF FrequencySet("worker") THEN Tail(c.writes) ELSE c.otherwise
    <2>1. /\ CallsOK(s) /\ s # <<>> /\ Call("worker") = c /\ CallOK(c)
          /\ Write1("worker").led = LedOf(c) /\ LedOf(c) \in Leds /\ Busy("worker")
      <3>1. Busy("worker")
        BY <1>7 DEF OpenFails
      <3> QED BY <1>1, <3>1, CallNow
    <2>2. ListOK(c.writes, LedOf(c)) /\ ListOK(c.otherwise, LedOf(c)) /\ c.writes # <<>>
      BY <2>1, Zenon DEF CallOK
    <2>3. ListOK(q, LedOf(c)) /\ ListOK(<<>>, LedOf(c))
      <3> HIDE DEF c
      <3>1. ListOK(Tail(c.writes), LedOf(c))
        BY <2>2, ListTail
      <3> QED BY <2>1, <2>2, <3>1, OffFacts
    <2>4. /\ GoOn("worker", q, <<>>) /\ UNCHANGED <<vars, hardware, pattern>>
          /\ (LedOf(c) \in missing /\ spoilt' = spoilt) \/ spoilt' = TRUE
      <3> HIDE DEF c
      <3> QED BY <1>7, <2>1, Zenon DEF OpenFails
    <2>5. leds' = leds /\ UNCHANGED <<missing, shows, direct, wide>>
      BY <2>4 DEF hardware, pattern
    <2>6. /\ q = <<>> => n = Tail(s)
          /\ q # <<>> => /\ n # <<>> /\ Len(n) = Len(s) /\ LedOf(n[1]) = LedOf(s[1])
                         /\ n[1].writes = q /\ \A j \in 2 .. Len(s) : n[j] = s[j]
      <3> DEFINE o == <<>>
      <3>1. GoOn("worker", q, o) /\ ListOK(o, LedOf(c))
        BY <2>3, <2>4
      <3> HIDE DEF o, q
      <3> QED BY <1>1, <2>1, <2>3, <3>1, GoOnFacts
    <2>7. CallsOK(n) /\ (spoilt => spoilt')
      BY <1>1, <2>4 DEF TodoInv
    <2> HIDE DEF s, n, q, c
    <2>8. ASSUME NEW l \in Leds \ missing, NEW P \in Nat, NEW D \in Nat, NEW exact,
                 ~spoilt', D <= P, Rated(s, leds[l], l, P, D, exact)
          PROVE  Rated(n, leds'[l], l, P, D, exact)
      <3> DEFINE d == leds[l]
                 e == leds'[l]
      <3>1. LedOf(s[1]) # l
        BY <2>4, <2>8 DEF c
      <3>2. /\ LedOK(d) /\ LedOK(e) /\ e.period <= Slow /\ e = d
            /\ Rated(s, d, l, P, D, exact)
        BY <1>2, <2>5, <2>8
      <3> HIDE DEF d, e
      <3>3. Rated(n, e, l, P, D, exact)
        BY <2>1, <2>6, <2>7, <2>8, <3>1, <3>2, RateStep
      <3> QED BY <3>3 DEF e
    <2> QED BY <1>5, <2>5, <2>7, <2>8, Zenon DEF s, n
  <1>8. CASE WriteFile("main") \/ OpenFails("main")
    <2>1. Busy("main") /\ TodoInv
      BY <1>1, <1>8 DEF WriteFile, OpenFails
    <2>2. /\ LedOf(todo["main"][1]) = "green" /\ direct # 0
          /\ Write1("main") = todo["main"][1].writes[1]
      BY <2>1, FlashingNow
    <2>3. Write1("main").led = "green"
      BY <2>2 DEF LedOf
    <2>4. /\ UNCHANGED <<missing, shows, direct, wide>> /\ (spoilt => spoilt')
          /\ \A l \in Leds : l # "green" => leds'[l] = leds[l]
      <3>1. CASE WriteFile("main")
        <4>1. UNCHANGED <<missing, shows, direct, wide, spoilt>>
          BY <3>1 DEF WriteFile, pattern
        <4>2. \A l \in Leds : l # todo["main"][1].writes[1].led => leds'[l] = leds[l]
          BY <1>1, <3>1, WriteStep, Zenon
        <4> QED BY <2>2, <2>3, <4>1, <4>2, Zenon
      <3>2. CASE OpenFails("main")
        <4>1. leds' = leds /\ UNCHANGED <<missing, shows, direct, wide>>
          BY <3>2 DEF OpenFails, hardware, pattern
        <4>2. spoilt => spoilt'
          BY <3>2, Zenon DEF OpenFails
        <4> QED BY <4>1, <4>2
      <3> QED BY <1>8, <3>1, <3>2
    <2>5. n = s
      <3>1. CASE WriteFile("main")
        BY <1>1, <3>1, WriteStep, Zenon
      <3>2. CASE OpenFails("main")
        <4>1. PICK x : todo' = [todo EXCEPT !["main"] = x]
          BY <3>2, Zenon DEF OpenFails, GoOn
        <4> QED BY <1>1, <4>1 DEF TodoInv
      <3> QED BY <1>8, <3>1, <3>2
    <2>6. \A l \in Leds : Alone(l) => leds'[l] = leds[l]
      BY <2>2, <2>4 DEF Alone
    <2> HIDE DEF s, n
    <2> QED BY <1>5, <2>4, <2>5, <2>6, Zenon DEF s, n
  <1>9. CASE ShowDirectly
    <2>1. /\ UNCHANGED <<missing, shows, wide, spoilt, leds>> /\ direct' = direct + 1
          /\ todo' = [todo EXCEPT !["main"] = Pattern["NETWORK_ERROR"]]
      BY <1>9 DEF ShowDirectly, hardware
    <2>2. n = s
      <3> DEFINE x == Pattern["NETWORK_ERROR"]
      <3> HIDE DEF x
      <3>1. todo' = [todo EXCEPT !["main"] = x]
        BY <2>1 DEF x
      <3> QED BY <1>1, <3>1 DEF TodoInv
    <2>3. direct' # 0
      BY <1>1, <2>1 DEF HistoryInv
    <2> HIDE DEF s, n
    <2>4. \A l \in Leds : Alone(l)' => Alone(l)
      BY <2>3 DEF Alone
    <2>5. FlashingAfter(shows)' = FlashingAfter(shows) /\ SteadyAfter(shows)' = SteadyAfter(shows)
      BY <2>1 DEF FlashingAfter, SteadyAfter
    <2> QED BY <1>1, <2>1, <2>2, <2>4, <2>5, Zenon DEF RateInv, s, n
  <1>10. CASE Still
    <2>1. leds' = leds /\ todo' = todo /\ UNCHANGED <<missing, shows, direct, wide, spoilt>>
      BY <1>10 DEF Still, hardware, pattern
    <2> QED BY <1>5, <2>1, Zenon
  <1>11. CASE UNCHANGED pvars
    BY <1>10, <1>11 DEF pvars, Still
  <1>12. \A t \in Threads : t = "worker" \/ t = "main"
    BY DEF Threads
  <1> QED BY <1>4, <1>6, <1>7, <1>8, <1>9, <1>10, <1>11, <1>12, Zenon
          DEF PatternNext, WorkerStep, Shown

LEMMA PatternInvInit == PatternInit => PatternInv
  <1> SUFFICES ASSUME PatternInit PROVE PatternInv
    OBVIOUS
  <1>1. IInv
    BY InitIInv DEF PatternInit
  <1>2. /\ leds \in [Leds -> {Blank, Flashing}] /\ todo = [t \in Threads |-> <<>>]
        /\ shows = "none" /\ direct = 0 /\ spoilt = FALSE
    BY DEF PatternInit, LedInit
  <1>3. HardwareInv
    <2> DEFINE Type == [enable : {0, 1}, period : Nat, duty_cycle : Nat]
    <2>1. Blank \in Type /\ Blank.duty_cycle <= Blank.period
      BY DEF Blank
    <2>2. Flashing \in Type /\ Flashing.duty_cycle <= Flashing.period /\ Flashing.period <= Slow
      BY Times DEF Flashing
    <2>3. Blank.period <= Slow
      BY Times DEF Blank
    <2> QED BY <1>2, <2>1, <2>2, <2>3, Zenon DEF HardwareInv
  <1>4. /\ \A t \in Threads : todo[t] = <<>>
        /\ todo \in [Threads -> Seq(Calls)] /\ "worker" \in Threads /\ "main" \in Threads
    BY <1>2 DEF Threads
  <1>5. HistoryInv /\ MainInv
    <2>1. direct \in Nat
      BY <1>2
    <2> QED BY <1>2, <1>4, <2>1, Zenon DEF HistoryInv, MainInv
  <1>6. TodoInv
    <2>1. CallsOK(<<>>)
      BY DEF CallsOK
    <2> QED BY <1>4, <2>1, Zenon DEF TodoInv
  <1>7. /\ LitAfter(shows) = {} /\ DarkAfter(shows) = {}
        /\ FlashingAfter(shows) = {} /\ SteadyAfter(shows) = {}
    BY <1>2 DEF LitAfter, FlashingAfter, SteadyAfter, DarkAfter, Success, Failed
  <1>8. OutcomeInv
    BY <1>7, Zenon DEF OutcomeInv
  <1>9. RateInv
    BY <1>7, Zenon DEF RateInv
  <1> QED BY <1>1, <1>3, <1>5, <1>6, <1>8, <1>9 DEF PatternInv

LEMMA PatternInvNext == PatternInv /\ [PatternNext]_pvars => PatternInv'
  <1> SUFFICES ASSUME PatternInv, [PatternNext]_pvars PROVE PatternInv'
    OBVIOUS
  <1>1. IInv'
    <2>1. [Next]_vars
      BY PatternStep, Zenon DEF pvars
    <2> QED BY <2>1, NextIInv DEF PatternInv
  <1>2. HardwareInv' /\ HistoryInv' /\ TodoInv' /\ OutcomeInv' /\ MainInv'
    <2>1. CASE UNCHANGED pvars
      <3>1. Still /\ worker' = worker
        BY <2>1 DEF pvars, Still, vars
      <3> QED BY <3>1, StillStep
    <2>2. CASE \E t \in Threads : WriteFile(t) \/ OpenFails(t)
      <3>1. \A t \in Threads : t = "worker" \/ t = "main"
        BY DEF Threads
      <3> QED BY <2>2, <3>1, WorkerWrites, WorkerFails, MainWrites, MainFails, Zenon
    <2>3. CASE Take
      BY <2>3, TakeStep
    <2>4. CASE ShowDirectly
      BY <2>4, DirectStep
    <2>5. CASE \/ Shown \/ (WorkerWait /\ Still) \/ (WorkerExit /\ Still)
               \/ (InitAgain \/ InitCreates \/ InitFails \/ Joined) /\ Still
               \/ (ShutdownIdle \/ Shutdown) /\ MayShutDown /\ Still
               \/ (Enqueue \/ SpuriousWakeup) /\ Still
      BY <2>5, QueueStep, StillStep, Zenon
    <2> QED BY <2>1, <2>2, <2>3, <2>4, <2>5, Zenon DEF PatternNext, WorkerStep
  <1>3. RateInv'
    BY <1>2, RateNext
  <1> QED BY <1>1, <1>2, <1>3 DEF PatternInv

\* Whichever patterns are shown, fail or overlap, the state of led.c and PWM.c
\* keeps to the inductive invariant.
THEOREM PatternInvariant == PatternSpec => []PatternInv
  BY PatternInvInit, PatternInvNext, PTL DEF PatternSpec

\* When the LEDs rest, the LEDs that the newest task is to leave on are on with
\* a pulse that fits, and those it is to leave off are off: whatever was shown
\* before, whatever main flashed meanwhile, and whichever LED is missing.  A LED
\* main left alone has the rate of led.c, but for the period of a steady green
\* whose pulse was too wide for it before.
THEOREM OutcomeAlwaysShown == PatternSpec => []ShowsTheOutcome
  <1>1. PatternInv => ShowsTheOutcome
    <2> SUFFICES ASSUME PatternInv, AtRest, ~spoilt
                 PROVE  /\ \A l \in LitAfter(shows) \ missing :
                              leds[l].enable = 1 /\ leds[l].duty_cycle \in 1 .. leds[l].period
                        /\ \A l \in DarkAfter(shows) \ missing : leds[l].enable = 0
                        /\ \A l \in FlashingAfter(shows) \ missing : Alone(l) =>
                              leds[l].period = Period(2) /\ leds[l].duty_cycle = Duty(2, 50)
                        /\ \A l \in SteadyAfter(shows) \ missing : Alone(l) =>
                              /\ leds[l].duty_cycle = Duty(1000, 30)
                              /\ wide \/ leds[l].period = Period(1000)
      BY DEF ShowsTheOutcome
    <2>1. HardwareInv /\ TodoInv /\ OutcomeInv /\ RateInv
      BY DEF PatternInv
    <2>2. todo["worker"] = <<>> /\ ~Busy("main")
      BY <2>1 DEF AtRest, TodoInv
    <2>3. LitAfter(shows) \subseteq Leds /\ DarkAfter(shows) \subseteq Leds
      BY DEF LitAfter, FlashingAfter, SteadyAfter, DarkAfter, Leds
    <2>4. ASSUME NEW d, NEW l, NEW lit \in BOOLEAN, Settles(<<>>, d, Busy("main"), l, lit)
          PROVE  IF lit THEN d.duty_cycle > 0 /\ d.enable = 1 ELSE d.enable = 0
      <3>1. ~Promises(2, <<>>, l, lit)
        BY DEF Promises
      <3>2. Shows(d, Busy("main"), l, lit)
        BY <2>4, <3>1, Zenon DEF Settles, ByFirst, Done
      <3> QED BY <2>2, <3>2, Zenon DEF Shows
    <2>5. ASSUME NEW l \in LitAfter(shows) \ missing
          PROVE  leds[l].enable = 1 /\ leds[l].duty_cycle \in 1 .. leds[l].period
      <3> DEFINE d == leds[l]
      <3>1. l \in Leds /\ Settles(<<>>, d, Busy("main"), l, TRUE)
        BY <2>1, <2>2, <2>3 DEF OutcomeInv
      <3>2. LedOK(d)
        BY <2>1, <3>1, LedType
      <3> HIDE DEF d
      <3>3. d.duty_cycle > 0 /\ d.enable = 1
        BY <2>4, <3>1, Zenon
      <3>4. d.duty_cycle \in 1 .. d.period
        BY <3>2, <3>3 DEF LedOK
      <3> QED BY <3>3, <3>4 DEF d
    <2>6. ASSUME NEW l \in DarkAfter(shows) \ missing
          PROVE  leds[l].enable = 0
      <3>1. l \in Leds /\ Settles(<<>>, leds[l], Busy("main"), l, FALSE)
        BY <2>1, <2>2, <2>3 DEF OutcomeInv
      <3> QED BY <2>4, <3>1, Zenon
    <2>7. ASSUME NEW l \in FlashingAfter(shows) \ missing, Alone(l)
          PROVE  leds[l].period = Period(2) /\ leds[l].duty_cycle = Duty(2, 50)
      <3>1. l \in Leds
        BY DEF FlashingAfter, Leds
      <3>2. Rated(<<>>, leds[l], l, Slow, FlashPulse, TRUE)
        BY <2>1, <2>2, <2>7, <3>1, Zenon DEF RateInv
      <3> QED BY <3>2, Zenon DEF Rated, HasRate, Slow, FlashPulse
    <2>8. ASSUME NEW l \in SteadyAfter(shows) \ missing, Alone(l)
          PROVE  leds[l].duty_cycle = Duty(1000, 30) /\ (wide \/ leds[l].period = Period(1000))
      <3>1. l \in Leds
        BY DEF SteadyAfter, Leds
      <3>2. Rated(<<>>, leds[l], l, SteadyPeriod, SteadyPulse, ~wide)
        BY <2>1, <2>2, <2>8, <3>1, Zenon DEF RateInv
      <3>3. leds[l].duty_cycle = SteadyPulse /\ (wide \/ leds[l].period = SteadyPeriod)
        BY <3>2, Zenon DEF Rated, HasRate
      <3> QED BY <3>3 DEF SteadyPeriod, SteadyPulse
    <2> QED BY <2>5, <2>6, <2>7, <2>8, Zenon
  <1> QED BY <1>1, PatternInvariant, PTL

\* The queue keeps what it promises while patterns are shown and while main
\* shows one of its own.
THEOREM QueueUnderPatterns == PatternSpec => [](TypeOK /\ NoLostWakeup /\ ShutdownDrains)
  <1>1. PatternInv => TypeOK /\ NoLostWakeup /\ ShutdownDrains
    BY Drains DEF PatternInv, IInv
  <1> QED BY <1>1, PatternInvariant, PTL

\* With the patterns, too, the ring loses nothing but its oldest task.
THEOREM PatternsRefine == PatternSpec => DropsOnlyTheOldest
  <1>1. PatternInit => Abstract!Init
    BY InitSimulation DEF PatternInit
  <1>2. PatternInv /\ [PatternNext]_pvars => [Abstract!Next]_(Abstract!vars)
    <2> SUFFICES ASSUME PatternInv, [PatternNext]_pvars PROVE [Abstract!Next]_(Abstract!vars)
      OBVIOUS
    <2>1. IInv /\ [Next]_vars
      BY PatternStep, Zenon DEF PatternInv, pvars
    <2> QED BY <2>1, StepSimulation
  <1> QED BY <1>1, <1>2, PatternInvariant, PTL DEF PatternSpec, DropsOnlyTheOldest, Abstract!Spec
=============================================================================
