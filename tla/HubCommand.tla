----------------------------- MODULE HubCommand -----------------------------
(***************************************************************************)
(* Commands of the hub itself: hub_udp_send_command (hal/src/hub_udp.c),   *)
(* which the HTTP API calls, its acknowledgement by the FEEDBACK that      *)
(* handle_line records, and the door module that answers.                  *)
(*                                                                         *)
(* One door module, known to the hub with an address (module HubTables     *)
(* says when it is).  The network is UDP: a datagram that was sent may be  *)
(* taken any number of times, never, late or out of order.  The Node       *)
(* server sends commands to the same module through the hub, numbered by a *)
(* counter of its own, and the hub itself may die and be started again     *)
(* (systemd, Restart=on-failure).                                          *)
(* The LED tasks a call leaves behind are module LedQueue's.               *)
(***************************************************************************)
EXTENDS Naturals

CONSTANTS
    Callers,      \* the threads that call hub_udp_send_command
    Actions,      \* the actions that are echoed in their FEEDBACK: LOCK, UNLOCK
    Status,       \* the action answered as STATUS_<STATE>
    Told,         \* STATUS_<STATE>
    None,         \* no action
    Retries,      \* ACK_RETRIES
    MaxId,        \* bound: calls in a life of the hub
    MaxNodeId,    \* bound: commands in a life of the Node server
    MaxRestarts   \* bound: how often the hub and the Node server are started again

ASSUME BoundsAssumption ==
    Retries \in Nat /\ MaxId \in Nat /\ MaxNodeId \in Nat /\ MaxRestarts \in Nat
ASSUME ActionsAssumption ==
    Status \notin Actions /\ Told \notin Actions \cup {Status} /\ None \notin Actions \cup {Status}

Wanted == Actions \cup {Status}

VARIABLES
    next,       \* g_next_cmdid
    feedback,   \* the door's last_feedback_cmdid and last_feedback_action
    pc,         \* caller -> idle, send or wait
    want,       \* caller -> action
    cmdid,      \* caller -> cmdid
    attempt,    \* caller -> attempt
    result,     \* caller -> what its last call returned
    net,        \* every datagram sent to the door and to the hub so far
    nodeNext,   \* the Node server's cmdCounter
    restarts,   \* bound: restarts so far
    foreign,    \* history: the highest id that this life of the hub did not issue
    executed    \* history: caller -> did the door execute its action during its call

vars == <<next, feedback, pc, want, cmdid, attempt, result, net, nodeNext, restarts,
          foreign, executed>>

Command(id, a) == [kind |-> "COMMAND", id |-> id, action |-> a]
Feedback(id, a) == [kind |-> "FEEDBACK", id |-> id, action |-> a]
Nothing == Feedback(0, None)

Larger(m, n) == IF m > n THEN m ELSE n

Init ==
    /\ next = 1 /\ feedback = Nothing
    /\ pc = [c \in Callers |-> "idle"] /\ want = [c \in Callers |-> None]
    /\ cmdid = [c \in Callers |-> 0] /\ attempt = [c \in Callers |-> 0]
    /\ result = [c \in Callers |-> "none"]
    /\ net = {}
    /\ nodeNext = 1 /\ restarts = 0 /\ foreign = 0
    /\ executed = [c \in Callers |-> FALSE]

-----------------------------------------------------------------------------
(* hub_udp_send_command *)

Fresh == next

\* Up to the first sendto: a fresh id, under the mutex.
Call(c, a) ==
    /\ pc[c] = "idle" /\ next <= MaxId
    /\ pc' = [pc EXCEPT ![c] = "send"]
    /\ want' = [want EXCEPT ![c] = a]
    /\ cmdid' = [cmdid EXCEPT ![c] = Fresh]
    /\ next' = Fresh + 1
    /\ attempt' = [attempt EXCEPT ![c] = 0]
    /\ result' = [result EXCEPT ![c] = "none"]
    /\ executed' = [executed EXCEPT ![c] = FALSE]
    /\ UNCHANGED <<feedback, net, nodeNext, restarts, foreign>>

MutantNextAttempt(c) ==
    /\ UNCHANGED attempt
    /\ pc' = [pc EXCEPT ![c] = "send"]
    /\ UNCHANGED result

MutantOneMore(c) ==
    /\ attempt' = [attempt EXCEPT ![c] = @ + 1]
    /\ \/ /\ attempt[c] <= Retries
          /\ pc' = [pc EXCEPT ![c] = "send"]
          /\ UNCHANGED result
       \/ /\ attempt[c] > Retries
          /\ pc' = [pc EXCEPT ![c] = "idle"]
          /\ result' = [result EXCEPT ![c] = "failed"]

\* An attempt has failed: the next one, or the end of the call.
NextAttempt(c) ==
    /\ attempt' = [attempt EXCEPT ![c] = @ + 1]
    /\ \/ /\ attempt[c] < Retries
          /\ pc' = [pc EXCEPT ![c] = "send"]
          /\ UNCHANGED result
       \/ /\ attempt[c] >= Retries
          /\ pc' = [pc EXCEPT ![c] = "idle"]
          /\ result' = [result EXCEPT ![c] = "failed"]

Send(c) ==
    /\ pc[c] = "send"
    /\ net' = net \cup {Command(cmdid[c], want[c])}
    /\ pc' = [pc EXCEPT ![c] = "wait"]
    /\ UNCHANGED <<next, feedback, want, cmdid, attempt, result, nodeNext, restarts, foreign, executed>>

\* socket or sendto fails.
SendFails(c) ==
    /\ pc[c] = "send"
    /\ NextAttempt(c)
    /\ UNCHANGED <<next, feedback, want, cmdid, net, nodeNext, restarts, foreign, executed>>

MutantReached(c) == TRUE
Reached(c) == feedback.id >= cmdid[c]
Agrees(c) == feedback.action = want[c]

\* The wait is over, by a broadcast or because the answer was there before:
\* the mutex is held from the test of last_feedback_cmdid to the comparison.
Answered(c) ==
    /\ pc[c] = "wait" /\ Reached(c)
    /\ \/ /\ Agrees(c)
          /\ pc' = [pc EXCEPT ![c] = "idle"]
          /\ result' = [result EXCEPT ![c] = "acked"]
          /\ UNCHANGED attempt
       \/ /\ ~Agrees(c)
          /\ NextAttempt(c)
    /\ UNCHANGED <<next, feedback, want, cmdid, net, nodeNext, restarts, foreign, executed>>

\* ETIMEDOUT after ACK_TIMEOUT_MS.
TimesOut(c) ==
    /\ pc[c] = "wait" /\ ~Reached(c)
    /\ NextAttempt(c)
    /\ UNCHANGED <<next, feedback, want, cmdid, net, nodeNext, restarts, foreign, executed>>

-----------------------------------------------------------------------------
(* The hub's udp_thread: handle_line of a FEEDBACK overwrites whatever     *)
(* FEEDBACK it knew and broadcasts.                                        *)

HandleFeedback(m) ==
    /\ m.kind = "FEEDBACK"
    /\ feedback' = m
    /\ UNCHANGED <<next, pc, want, cmdid, attempt, result, net, nodeNext, restarts, foreign, executed>>

(* The door module: door_cmd_thread and app_command_handler.               *)
Echo(a) == IF a = Status THEN Told ELSE a

Execute(m) ==
    /\ m.kind = "COMMAND"
    /\ executed' = [c \in Callers |-> executed[c] \/ (pc[c] # "idle" /\ want[c] = m.action)]
    /\ net' = net \cup {Feedback(m.id, Echo(m.action))}
    /\ UNCHANGED <<next, feedback, pc, want, cmdid, attempt, result, nodeNext, restarts, foreign>>

-----------------------------------------------------------------------------
\* The Node server's sendCommand, forwarded by the hub under the id it came with.
NodeCommand(a) ==
    /\ nodeNext <= MaxNodeId
    /\ net' = net \cup {Command(nodeNext, a)}
    /\ nodeNext' = nodeNext + 1
    /\ foreign' = Larger(foreign, nodeNext)
    /\ UNCHANGED <<next, feedback, pc, want, cmdid, attempt, result, restarts, executed>>

NodeRestarts ==
    /\ restarts < MaxRestarts
    /\ restarts' = restarts + 1
    /\ nodeNext' = 1
    /\ UNCHANGED <<next, feedback, pc, want, cmdid, attempt, result, net, foreign, executed>>

\* The hub dies with the calls in it and starts anew with an empty table.
HubRestarts ==
    /\ restarts < MaxRestarts
    /\ restarts' = restarts + 1
    /\ next' = 1 /\ feedback' = Nothing
    /\ pc' = [c \in Callers |-> "idle"]
    /\ result' = [c \in Callers |-> "none"]
    /\ foreign' = Larger(foreign, next - 1)
    /\ UNCHANGED <<want, cmdid, attempt, net, nodeNext, executed>>

-----------------------------------------------------------------------------
CallerSteps(c) == Send(c) \/ SendFails(c) \/ Answered(c) \/ TimesOut(c)

Next ==
    \/ \E c \in Callers : CallerSteps(c) \/ \E a \in Wanted : Call(c, a)
    \/ \E m \in net : HandleFeedback(m) \/ Execute(m)
    \/ \E a \in Wanted : NodeCommand(a)
    \/ NodeRestarts \/ HubRestarts

(***************************************************************************)
(* Fairness: a caller goes on, and its wait ends by itself (its timeout).  *)
(* The network and the door owe nothing.                                   *)
(***************************************************************************)
Spec == Init /\ [][Next]_vars /\ \A c \in Callers : WF_vars(CallerSteps(c))

-----------------------------------------------------------------------------
Messages == [kind : {"COMMAND"}, id : Nat, action : Wanted]
            \cup [kind : {"FEEDBACK"}, id : Nat, action : Actions \cup {Told}]

\* Every variable has its type; no call makes more attempts than it may.
TypeOK ==
    /\ next \in Nat \ {0} /\ nodeNext \in Nat /\ restarts \in Nat /\ foreign \in Nat
    /\ feedback \in Messages \cup {Nothing} /\ feedback.kind = "FEEDBACK"
    /\ pc \in [Callers -> {"idle", "send", "wait"}]
    /\ want \in [Callers -> Wanted \cup {None}]
    /\ cmdid \in [Callers -> Nat]
    /\ attempt \in [Callers -> 0 .. Retries + 1]
    /\ \A c \in Callers : pc[c] # "idle" => attempt[c] <= Retries
    /\ result \in [Callers -> {"none", "acked", "failed"}]
    /\ net \subseteq Messages
    /\ executed \in [Callers -> BOOLEAN]

\* As long as the ids of others, Node's and an earlier hub's, are below its
\* own, a call that returns true has had its action executed by the door after
\* it began: late, lost, doubled and reordered datagrams cannot fake an answer.
AckMeansExecuted ==
    \A c \in Callers : result[c] = "acked" /\ foreign < cmdid[c] => executed[c]

\* Every call returns, whatever the network does.
CallsReturn == \A c \in Callers : pc[c] # "idle" ~> pc[c] = "idle"

\* http_api.c:244: "hub_udp_send_command blocks until ACK or timeout": a call
\* that returns true has seen its command acknowledged, hence executed.
BlocksUntilAck == \A c \in Callers : result[c] = "acked" => executed[c]
=============================================================================
