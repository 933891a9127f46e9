------------------------------ MODULE DoorStart ------------------------------
(***************************************************************************)
(* The door program from its start to its end, as the main thread of       *)
(* app/src/doorMod_cli.c goes through it: the GPIO lines of the sensor and *)
(* the motor (hal/src/GPIO.c), the terminal, door_reporting_start with     *)
(* door_udp_init2 (app/src/doorMod.c, hal/src/door_udp.c), and the stop.   *)
(* What the threads do once they run is in DoorReport.                     *)
(*                                                                         *)
(* All of it hands out and closes file descriptors of one process, where   *)
(* a new one always gets the lowest number that is free.  gpio_fds holds   *)
(* 0, not -1, for every line but (0, 0), so each first export closes       *)
(* descriptor 0 whoever owns it: the first one closes stdin.               *)
(***************************************************************************)
EXTENDS Integers, Sequences, FiniteSets

CONSTANTS
    MaxStartFaults,   \* bound: how many calls of the start fail
    MaxFd             \* the last file descriptor

\* The order in which init_hc_sr04 and StepperMotor_Init export their pins.
Lines == <<"TRIG", "ECHO", "IN1", "IN2", "IN3", "IN4">>
LineNames == {Lines[i] : i \in DOMAIN Lines}

ASSUME StartAssumption == MaxStartFaults \in Nat /\ MaxFd \in Nat /\ MaxFd > Len(Lines) + 5

VARIABLES
    stage,       \* where main is
    exported,    \* how many of Lines are in_use
    lineFd,      \* gpio_fds: line -> line_fd
    fds,         \* file descriptor -> what it is open on, or "closed"
    tty, sock,   \* the terminal and g_sock, -1 if there is none
    alive,       \* the command listener and the heartbeat thread, if running
    startFaults  \* bound: calls that failed

program == <<stage, exported, lineFd, fds, tty, sock, alive, startFaults>>
Standard == [n \in 0 .. MaxFd |-> CASE n = 0 -> "stdin" [] n \in {1, 2} -> "std" [] OTHER -> "closed"]

StartInit ==
    /\ stage = "pins" /\ exported = 0
    /\ lineFd = [l \in LineNames |-> 0]
    /\ fds = Standard
    /\ tty = -1 /\ sock = -1
    /\ alive = {} /\ startFaults = 0

Lowest(f) == CHOOSE n \in DOMAIN f : f[n] = "closed" /\ \A m \in 0 .. (n - 1) : f[m] # "closed"
Closed(f, n) == [f EXCEPT ![n] = "closed"]
Opened(f, what) == [f EXCEPT ![Lowest(f)] = what]

Fails == startFaults < MaxStartFaults /\ startFaults' = startFaults + 1
Succeeds == UNCHANGED startFaults

-----------------------------------------------------------------------------
MutantStored(f, line, fd) == Closed(f, fd)

\* gpio_line_init keeps the new descriptor, "close existing if any" first.
Stored(f, line, fd) == IF lineFd[line] >= 0 THEN Closed(f, lineFd[line]) ELSE f

\* gpio_line_init: the chip is opened, gives the line, and is closed.
ExportPin ==
    /\ stage = "pins" /\ exported < Len(Lines)
    /\ LET line == Lines[exported + 1]
           chip == Lowest(fds)
           withChip == Opened(fds, "chip")
           fd == Lowest(withChip)
       IN /\ fds' = Stored(Closed(Opened(withChip, line), chip), line, fd)
          /\ lineFd' = [lineFd EXCEPT ![line] = fd]
    /\ exported' = exported + 1
    /\ UNCHANGED <<stage, tty, sock, alive, startFaults>>

\* A line cannot be had or written: initializeDoorSystem fails, and main ends.
PinFails ==
    /\ stage = "pins" /\ Fails
    /\ stage' = "failed"
    /\ UNCHANGED <<exported, lineFd, fds, tty, sock, alive>>

\* The trigger and the motor's pins are low.
PinsReady ==
    /\ stage = "pins" /\ exported = Len(Lines)
    /\ stage' = "tty"
    /\ UNCHANGED <<exported, lineFd, fds, tty, sock, alive, startFaults>>

OpenTty ==
    /\ stage = "tty" /\ stage' = "udp"
    /\ \/ Succeeds /\ tty' = Lowest(fds) /\ fds' = Opened(fds, "tty")
       \/ Fails /\ UNCHANGED <<tty, fds>>
    /\ UNCHANGED <<exported, lineFd, sock, alive>>

-----------------------------------------------------------------------------
(* door_reporting_start.  It goes on when door_udp_init2 fails.            *)

OpenSocket ==
    /\ stage = "udp" /\ Succeeds
    /\ sock' = Lowest(fds) /\ fds' = Opened(fds, "socket")
    /\ stage' = "listen"
    /\ UNCHANGED <<exported, lineFd, tty, alive>>

\* socket, inet_pton or bind failed; a socket that was made is closed.
NoSocket ==
    /\ stage = "udp" /\ Fails
    /\ stage' = "beat"
    /\ UNCHANGED <<exported, lineFd, fds, tty, sock, alive>>

\* Without its listener door_udp_init2 fails, but g_sock stays open.
StartListener ==
    /\ stage = "listen" /\ stage' = "beat"
    /\ \/ Succeeds /\ alive' = alive \cup {"cmd"}
       \/ Fails /\ UNCHANGED alive
    /\ UNCHANGED <<exported, lineFd, fds, tty, sock>>

\* Without a terminal the loop of main is over before it begins.
StartHeartbeat ==
    /\ stage = "beat" /\ stage' = IF tty = -1 THEN "stopping" ELSE "run"
    /\ \/ Succeeds /\ alive' = alive \cup {"beat"}
       \/ Fails /\ UNCHANGED alive
    /\ UNCHANGED <<exported, lineFd, fds, tty, sock>>

-----------------------------------------------------------------------------
(* The end, when the user quits.                                           *)

Quit ==
    /\ stage = "run" /\ stage' = "stopping"
    /\ fds' = Closed(fds, tty) /\ tty' = -1
    /\ UNCHANGED <<exported, lineFd, sock, alive, startFaults>>

\* door_reporting_stop has joined the heartbeat thread.
StopListening ==
    /\ stage = "stopping" /\ "beat" \notin alive
    /\ stage' = "closing"
    /\ UNCHANGED <<exported, lineFd, fds, tty, sock, alive, startFaults>>

\* door_udp_close has joined the listener.  The second door_reporting_stop, of
\* doorMod_cleanup, finds nothing left to close.
CloseSocket ==
    /\ stage = "closing" /\ "cmd" \notin alive
    /\ stage' = "done"
    /\ fds' = IF sock = -1 THEN fds ELSE Closed(fds, sock)
    /\ sock' = -1
    /\ UNCHANGED <<exported, lineFd, tty, alive, startFaults>>

Ending == stage \in {"stopping", "closing", "done"}

\* __heartbeat_running or g_cmd_running is 0.
Told(t) ==
    \/ t = "beat" /\ Ending
    \/ t = "cmd" /\ stage \in {"closing", "done"}

StartTypeOK ==
    /\ stage \in {"pins", "failed", "tty", "udp", "listen", "beat", "run", "stopping", "closing", "done"}
    /\ exported \in 0 .. Len(Lines)
    /\ lineFd \in [LineNames -> 0 .. MaxFd]
    /\ fds \in [0 .. MaxFd -> LineNames \cup {"stdin", "std", "tty", "socket", "closed"}]
    /\ tty \in -1 .. MaxFd /\ sock \in -1 .. MaxFd
    /\ alive \subseteq {"beat", "cmd"} /\ startFaults \in 0 .. MaxStartFaults
=============================================================================
