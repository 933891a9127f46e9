----------------------------- MODULE DoorReport -----------------------------
(***************************************************************************)
(* How the hub learns the state of a door: door_udp_update                 *)
(* (hal/src/door_udp.c) called by the threads of the door module with no   *)
(* lock between them, the two UDP channels to the hub, and what an EVENT   *)
(* or a HEARTBEAT leaves in the hub's entry (handle_line of                *)
(* hal/src/hub_udp.c).                                                     *)
(*                                                                         *)
(*   "beat"       heartbeat_worker of app/src/doorMod.c, again and again;  *)
(*   the others   threads that run lockDoor, unlockDoor or                 *)
(*                get_door_status, which end with report_door_state_udp.   *)
(*                                                                         *)
(* The program starts and stops as in DoorStart, which runs here first;    *)
(* the threads report while they are alive.  A reading of the ultrasonic   *)
(* sensor takes up to 120 ms, polled between sleeps and with no lock       *)
(* against another thread's, and so may be wrong.                          *)
(*                                                                         *)
(* The door leaf and the bolt are the environment here: the leaf is moved  *)
(* by hand, the bolt by the motor (module DoorLock).                       *)
(***************************************************************************)
EXTENDS DoorStart

CONSTANTS
    Reporters,     \* the threads that report
    MaxChanges,    \* bound: how often the leaf or the bolt moves
    MaxErrors,     \* bound: how often the ultrasonic sensor is wrong or gives -1
    MaxQueue       \* bound: datagrams waiting in a channel, more are lost

ASSUME BoundsAssumption ==
    "beat" \in Reporters /\ MaxChanges \in Nat /\ MaxErrors \in Nat /\ MaxQueue \in Nat

VARIABLES
    open, locked,    \* the leaf and the bolt
    pc,              \* thread -> where it is in its report
    distance,        \* thread -> the distance it read
    sawLocked,       \* thread -> d1_locked
    prev,            \* g_prev_valid, g_prev_d0_open, g_prev_d1_locked
    due,             \* a heartbeat period has passed since g_last_heartbeat_ms
    dueAt,           \* thread -> had it passed when the thread read the clock
    notif, beats,    \* datagrams on their way to the hub's two ports
    view,            \* the hub's d0_open, d0_locked, d1_open, d1_locked
    changes, errors  \* bounds: moves and sensor errors so far

door == <<open, locked, changes>>
channels == <<notif, beats>>
local == <<distance, sawLocked, errors>>
vars == <<program, open, locked, pc, distance, sawLocked, prev, due, dueAt, notif, beats, view,
          changes, errors>>

Unheard == [d0_open |-> FALSE, d0_locked |-> FALSE, d1_open |-> FALSE, d1_locked |-> FALSE]

Init ==
    /\ StartInit
    /\ open \in BOOLEAN /\ locked = FALSE
    /\ pc = [t \in Reporters |-> "idle"]
    /\ distance = [t \in Reporters |-> "none"] /\ sawLocked = [t \in Reporters |-> FALSE]
    /\ prev = [valid |-> FALSE, open |-> FALSE, locked |-> FALSE]
    /\ due = FALSE /\ dueAt = [t \in Reporters |-> FALSE]
    /\ notif = <<>> /\ beats = <<>>
    /\ view = Unheard
    /\ changes = 0 /\ errors = 0

Goto(t, where) == pc' = [pc EXCEPT ![t] = where]

\* The threads that run; main, when it is a reporter, runs its terminal.
Runs(t) == t \in alive \/ (t \notin {"beat", "cmd"} /\ stage = "run" /\ tty # -1)

\* The thread is done with its report, and ends if it was told to.
Leave(t) ==
    /\ alive' = IF Told(t) THEN alive \ {t} ELSE alive
    /\ UNCHANGED <<stage, exported, lineFd, fds, tty, sock, startFaults>>

\* The update returns, and its arguments are gone.
Return(t) ==
    /\ Leave(t)
    /\ Goto(t, "idle")
    /\ distance' = [distance EXCEPT ![t] = "none"]
    /\ sawLocked' = [sawLocked EXCEPT ![t] = FALSE]
    /\ UNCHANGED errors

MutantSent(channel, m) == {Append(channel, m)}

\* sendto: the datagram waits at the hub, or is lost on the way.  Nothing sent
\* while the program ends is followed any further.
Sent(channel, m) ==
    IF Len(channel) < MaxQueue /\ ~Ending THEN {channel, Append(channel, m)} ELSE {channel}

-----------------------------------------------------------------------------
MoveLeaf ==
    /\ ~Ending /\ changes < MaxChanges /\ changes' = changes + 1
    /\ open' = ~open
    /\ UNCHANGED <<program, locked, pc, local, prev, due, dueAt, channels, view>>

MoveBolt ==
    /\ ~Ending /\ changes < MaxChanges /\ changes' = changes + 1
    /\ locked' = ~locked
    /\ UNCHANGED <<program, open, pc, local, prev, due, dueAt, channels, view>>

PeriodPasses ==
    /\ ~Ending /\ prev.valid /\ ~due /\ due' = TRUE
    /\ UNCHANGED <<program, door, pc, local, prev, dueAt, channels, view>>

-----------------------------------------------------------------------------
(* report_door_state_udp and heartbeat_worker, up to door_udp_update.      *)

Leaf == IF open THEN "open" ELSE "closed"

ReadDistance(t) ==
    /\ Runs(t) /\ pc[t] = "idle"
    /\ distance' = [distance EXCEPT ![t] = Leaf]
    /\ Goto(t, "bolt")
    /\ UNCHANGED <<program, door, sawLocked, errors, prev, due, dueAt, channels, view>>

\* A pulse that is missed gives -1; one that is seen late, or past its end, is too
\* short or too long.  At -1 report_door_state_udp returns; heartbeat_worker
\* goes on.
ReadWrong(t) ==
    /\ Runs(t) /\ pc[t] = "idle"
    /\ errors < MaxErrors /\ errors' = errors + 1
    /\ \E d \in {"open", "closed", "error"} \ {Leaf} :
          \/ /\ d # "error" \/ t = "beat"
             /\ distance' = [distance EXCEPT ![t] = d] /\ Goto(t, "bolt")
             /\ UNCHANGED program
          \/ /\ d = "error" /\ t # "beat"
             /\ Leave(t) /\ UNCHANGED <<distance, pc>>
    /\ UNCHANGED <<door, sawLocked, prev, due, dueAt, channels, view>>

\* door_udp_update returns at once if there is no socket.
ReadBolt(t) ==
    /\ pc[t] = "bolt"
    /\ \/ /\ sock # -1
          /\ sawLocked' = [sawLocked EXCEPT ![t] = locked]
          /\ dueAt' = [dueAt EXCEPT ![t] = due]
          /\ Goto(t, IF prev.valid THEN "door" ELSE "first")
          /\ UNCHANGED <<program, distance, errors>>
       \/ sock = -1 /\ Return(t) /\ UNCHANGED dueAt
    /\ UNCHANGED <<door, prev, due, channels, view>>

\* recvfrom returned with another datagram, or heartbeat_worker was told before
\* its first sleep.
LeaveIdle(t) ==
    /\ t \in alive /\ Told(t) /\ pc[t] = "idle"
    /\ Leave(t)
    /\ UNCHANGED <<door, pc, local, prev, due, dueAt, channels, view>>

-----------------------------------------------------------------------------
(* door_udp_update                                                         *)

\* -1 is below the threshold: a failed reading counts as a closed door.
SawOpen(t) == distance[t] = "open"

Beat(t) == [open |-> SawOpen(t), locked |-> sawLocked[t]]
Seen(t) == [valid |-> TRUE, open |-> SawOpen(t), locked |-> sawLocked[t]]
Event(what, state) == [what |-> what, state |-> state]

\* g_last_heartbeat_ms = t: nobody who read the clock before is due any more.
ClockRestarts == due' = FALSE /\ dueAt' = [t \in Reporters |-> FALSE]

\* The first update since the start sends a heartbeat whatever the clock says.
FirstUpdate(t) ==
    /\ pc[t] = "first"
    /\ prev' = Seen(t)
    /\ ClockRestarts
    /\ beats' \in Sent(beats, Beat(t))
    /\ Return(t)
    /\ UNCHANGED <<door, notif, view>>

NotifyDoor(t) ==
    /\ pc[t] = "door"
    /\ \/ /\ SawOpen(t) # prev.open
          /\ notif' \in Sent(notif, Event("DOOR", SawOpen(t)))
       \/ /\ SawOpen(t) = prev.open
          /\ UNCHANGED <<notif>>
    /\ Goto(t, "lock")
    /\ UNCHANGED <<program, door, local, prev, due, dueAt, beats, view>>

NotifyLock(t) ==
    /\ pc[t] = "lock"
    /\ IF sawLocked[t] # prev.locked
       THEN notif' \in Sent(notif, Event("LOCK", sawLocked[t]))
       ELSE UNCHANGED notif
    /\ Goto(t, "beat")
    /\ UNCHANGED <<program, door, local, prev, due, dueAt, beats, view>>

MutantHeartbeat(t) ==
    /\ pc[t] = "beat"
    /\ \/ /\ dueAt[t] /\ Beat(t) # [open |-> prev.open, locked |-> prev.locked]
          /\ beats' \in Sent(beats, Beat(t))
          /\ ClockRestarts
       \/ /\ ~dueAt[t] \/ Beat(t) = [open |-> prev.open, locked |-> prev.locked]
          /\ UNCHANGED <<beats, due, dueAt>>
    /\ Goto(t, "save")
    /\ UNCHANGED <<program, door, local, prev, notif, view>>

Heartbeat(t) ==
    /\ pc[t] = "beat"
    /\ \/ /\ dueAt[t]
          /\ beats' \in Sent(beats, Beat(t))
          /\ ClockRestarts
       \/ /\ ~dueAt[t]
          /\ UNCHANGED <<beats, due, dueAt>>
    /\ Goto(t, "save")
    /\ UNCHANGED <<program, door, local, prev, notif, view>>

Save(t) ==
    /\ pc[t] = "save"
    /\ prev' = Seen(t)
    /\ Return(t)
    /\ UNCHANGED <<door, due, dueAt, channels, view>>

-----------------------------------------------------------------------------
(* handle_line at the hub, as far as the door's state goes.                *)

\* "HEARTBEAT D0=<door>,<lock> D1=<door>,<lock>"
OnBeat(b) == [d0_open |-> b.open, d0_locked |-> b.locked,
              d1_open |-> b.open, d1_locked |-> b.locked]

\* "EVENT D0 DOOR <state>" and "EVENT D1 LOCK <state>"
OnEvent(e) ==
    CASE e.what = "DOOR" -> [view EXCEPT !.d0_open = e.state]
      [] e.what = "LOCK" -> [view EXCEPT !.d1_locked = e.state]
      [] e.what = "HELLO" -> view

HubEvent ==
    /\ notif # <<>>
    /\ view' = OnEvent(Head(notif)) /\ notif' = Tail(notif)
    /\ UNCHANGED <<program, door, pc, local, prev, due, dueAt, beats>>

HubHeartbeat ==
    /\ beats # <<>>
    /\ view' = OnBeat(Head(beats)) /\ beats' = Tail(beats)
    /\ UNCHANGED <<program, door, pc, local, prev, due, dueAt, notif>>

-----------------------------------------------------------------------------
(* DoorStart, and what door_udp_init2 and door_udp_close do to the         *)
(* reports: HELLO goes the way of the events, the next update is the first.*)

Elsewhere == UNCHANGED <<door, pc, local, due, dueAt, beats, view>>

StartSocket ==
    /\ OpenSocket
    /\ notif' \in Sent(notif, Event("HELLO", FALSE))
    /\ UNCHANGED prev /\ Elsewhere

StopSocket ==
    /\ CloseSocket
    /\ prev' = [prev EXCEPT !.valid = FALSE]
    /\ UNCHANGED notif /\ Elsewhere

\* The user quits, or there is no terminal: from here on the hub is not
\* followed, and what is on its way to it is dropped.
Unfollowed ==
    /\ notif' = <<>> /\ beats' = <<>> /\ view' = Unheard
    /\ due' = FALSE /\ dueAt' = [t \in Reporters |-> FALSE]
    /\ UNCHANGED <<door, pc, local, prev>>

QuitIdle ==
    /\ Quit /\ \A t \in Reporters \ {"beat", "cmd"} : pc[t] = "idle"
    /\ Unfollowed

StartBeat ==
    /\ StartHeartbeat
    /\ IF Ending' THEN Unfollowed ELSE UNCHANGED <<prev, notif>> /\ Elsewhere

Main ==
    \/ /\ ExportPin \/ PinFails \/ PinsReady \/ OpenTty \/ NoSocket \/ StartListener
          \/ StopListening
       /\ UNCHANGED <<prev, notif>> /\ Elsewhere
    \/ StartSocket \/ StartBeat \/ QuitIdle \/ StopSocket

Update(t) ==
    ReadBolt(t) \/ FirstUpdate(t) \/ NotifyDoor(t) \/ NotifyLock(t) \/ Heartbeat(t) \/ Save(t)

Report(t) == ReadDistance(t) \/ ReadWrong(t) \/ Update(t)

Next ==
    \/ MoveLeaf \/ MoveBolt \/ PeriodPasses \/ Main
    \/ \E t \in Reporters : Report(t) \/ LeaveIdle(t)
    \/ HubEvent \/ HubHeartbeat

(***************************************************************************)
(* Fairness: heartbeat_worker loops for ever, periods pass, the hub reads  *)
(* its heartbeats; and of heartbeats sent again and again, not every one   *)
(* is lost.  An event, or another thread in the middle of a report, may    *)
(* stay where it is for ever.                                              *)
(***************************************************************************)
BeatArrives == \E t \in Reporters : Heartbeat(t) /\ beats' # beats

Spec ==
    /\ Init /\ [][Next]_vars
    /\ WF_vars(Report("beat")) /\ WF_vars(PeriodPasses) /\ WF_vars(HubHeartbeat)
    /\ SF_vars(BeatArrives)

-----------------------------------------------------------------------------
Bits == [d0_open : BOOLEAN, d0_locked : BOOLEAN, d1_open : BOOLEAN, d1_locked : BOOLEAN]

\* Every variable has its type; the channels hold what they may.
TypeOK ==
    /\ StartTypeOK
    /\ open \in BOOLEAN /\ locked \in BOOLEAN
    /\ pc \in [Reporters -> {"idle", "bolt", "first", "door", "lock", "beat", "save"}]
    /\ distance \in [Reporters -> {"none", "open", "closed", "error"}]
    /\ sawLocked \in [Reporters -> BOOLEAN]
    /\ prev \in [valid : BOOLEAN, open : BOOLEAN, locked : BOOLEAN]
    /\ due \in BOOLEAN /\ dueAt \in [Reporters -> BOOLEAN]
    /\ notif \in Seq([what : {"DOOR", "LOCK", "HELLO"}, state : BOOLEAN]) /\ Len(notif) <= MaxQueue
    /\ beats \in Seq([open : BOOLEAN, locked : BOOLEAN]) /\ Len(beats) <= MaxQueue
    /\ view \in Bits
    /\ changes \in 0 .. MaxChanges /\ errors \in 0 .. MaxErrors

\* Every line in use, the terminal and the socket are behind the descriptor kept
\* for them, although the exports close descriptor 0 time and again and the
\* stop closes the socket: nobody reads, turns the motor or sends by a number
\* that is closed or that is somebody else's by now.
DescriptorsAreOwned ==
    /\ \A i \in 1 .. exported : fds[lineFd[Lines[i]]] = Lines[i]
    /\ tty # -1 => fds[tty] = "tty"
    /\ \A t \in Reporters :
          pc[t] \in {"first", "door", "lock", "beat", "save"} => sock # -1 /\ fds[sock] = "socket"

\* While the program reports and once the door rests, the hub comes to show it as
\* it is, on all four flags, and stays with it: whatever events were lost,
\* doubled or stale because the threads raced in door_udp_update, and whatever
\* a wrong reading made of the door, the heartbeats put right.
Reporting == stage = "run" /\ "beat" \in alive /\ sock # -1
True == view = OnBeat([open |-> open, locked |-> locked])
ViewConverges == <>[]Reporting => <>[]True
=============================================================================
