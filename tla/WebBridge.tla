------------------------------ MODULE WebBridge ------------------------------
(***************************************************************************)
(* A command of the web client: sendCommand and get-door-info of the Node  *)
(* server (gui/lib/door_server.js), its pending map and timers, the table  *)
(* in which the hub (hal/src/hub_udp.c) remembers which client to relay a  *)
(* FEEDBACK to, and the door that answers.                                 *)
(*                                                                         *)
(* The network loses, doubles, delays and reorders.  The Node server and   *)
(* the hub may be started again, and the hub numbers its own commands with *)
(* a counter of its own (module HubCommand).  The port of a Node server is *)
(* new in each of its lives (bind(0)), so its life stands for its address. *)
(***************************************************************************)
EXTENDS Naturals, Sequences

CONSTANTS
    Modules,        \* the door modules
    MaxPending,     \* HUB_MAX_PENDING_CMDS
    MaxId,          \* bound: requests in a life of the Node server
    MaxOthers,      \* bound: restarts, and commands of the hub itself, together
    MaxRegistered   \* bound: how many COMMANDs the hub forwards

ASSUME BoundsAssumption ==
    /\ MaxPending \in Nat \ {0}
    /\ MaxId \in Nat /\ MaxOthers \in Nat /\ MaxRegistered \in Nat

VARIABLES
    requests,    \* the requests of this life, by id: [kind, module]; cmdCounter is one more
    sending,     \* ids whose send has not called back
    pending,     \* ids in the pending map
    timers,      \* ids whose timer runs
    answers,     \* id -> what its client was told
    life,        \* the life of the Node server
    net,         \* every datagram sent so far
    table,       \* g_pending_cmds
    clock,       \* now_ms: one later with every registration
    own,         \* g_next_cmdid
    others,      \* bound: restarts and own commands so far
    executed,    \* history: <<life, id>> of the requests a door executed
    foreign      \* history: ids in use by the hub itself or by earlier lives

node == <<requests, sending, pending, timers, answers, life>>
hub == <<table, clock, own>>
vars == <<node, net, hub, others, executed, foreign>>

Kinds == {"socket", "info"}   \* sendCommand with a socket; get-door-info
Slots == 0 .. MaxPending - 1
Free == [id |-> 0, module |-> "", client |-> 0, issued |-> 0]
Own == 0                      \* the origin of the hub's own commands

\* Datagrams.  A door cannot see the origin of a COMMAND: it is there for "executed".
ToHub(n, id, m) == [kind |-> "COMMAND", to |-> "hub", origin |-> n, id |-> id, module |-> m]
ToDoor(n, id, m) == [ToHub(n, id, m) EXCEPT !.to = "door"]
Answer(id, m) == [kind |-> "FEEDBACK", to |-> "hub", origin |-> 0, id |-> id, module |-> m]
Relayed(n, id, m) == [Answer(id, m) EXCEPT !.to = "node", !.origin = n]

Init ==
    /\ requests = <<>> /\ answers = <<>>
    /\ sending = {} /\ pending = {} /\ timers = {}
    /\ life = 1 /\ net = {}
    /\ table = [i \in Slots |-> Free] /\ clock = 0 /\ own = 1
    /\ others = 0 /\ executed = {} /\ foreign = {}

-----------------------------------------------------------------------------
(* The Node server: one thread, one handler after the other.               *)

Tell(id, what) == answers' = [answers EXCEPT ![id] = Append(@, what)]
Track(id) == pending' = pending \cup {id} /\ timers' = timers \cup {id}
Forget(id) == pending' = pending \ {id} /\ timers' = timers \ {id}

\* sendCommand tracks the request in the callback of send, get-door-info at once.
Request(kind, m) ==
    /\ Len(requests) < MaxId
    /\ requests' = Append(requests, [kind |-> kind, module |-> m])
    /\ answers' = Append(answers, <<>>)
    /\ LET id == Len(requests) + 1 IN
       /\ sending' = sending \cup {id}
       /\ IF kind = "info" THEN Track(id) ELSE UNCHANGED <<pending, timers>>
    /\ UNCHANGED <<life, net, hub, others, executed, foreign>>

Datagram(id) == ToHub(life, id, requests[id].module)

\* The datagram goes out, after the look-up of HUB_HOST.
Leaves(id) ==
    /\ id \in sending
    /\ net' = net \cup {Datagram(id)}
    /\ UNCHANGED <<node, hub, others, executed, foreign>>

MutantSent(id) ==
    /\ id \in sending /\ Datagram(id) \in net
    /\ sending' = sending \ {id}
    /\ IF requests[id].kind = "socket"
       THEN pending' = pending \cup {id} /\ UNCHANGED timers ELSE UNCHANGED <<pending, timers>>
    /\ UNCHANGED <<requests, answers, life, net, hub, others, executed, foreign>>

\* send calls back: nothing orders that before the 'message' of the FEEDBACK.
Sent(id) ==
    /\ id \in sending /\ Datagram(id) \in net
    /\ sending' = sending \ {id}
    /\ IF requests[id].kind = "socket" THEN Track(id) ELSE UNCHANGED <<pending, timers>>
    /\ UNCHANGED <<requests, answers, life, net, hub, others, executed, foreign>>

\* send calls back with an error, maybe later than the timer of get-door-info.
SendFails(id) ==
    /\ id \in sending /\ Datagram(id) \notin net
    /\ sending' = sending \ {id}
    /\ Forget(id)
    /\ Tell(id, "error")
    /\ UNCHANGED <<requests, life, net, hub, others, executed, foreign>>

MutantTimesOut(id) ==
    /\ id \in timers
    /\ timers' = timers \ {id} /\ UNCHANGED pending
    /\ Tell(id, "error")
    /\ UNCHANGED <<requests, sending, life, net, hub, others, executed, foreign>>

\* PENDING_TIMEOUT_MS are over.
TimesOut(id) ==
    /\ id \in timers
    /\ Forget(id)
    /\ Tell(id, "error")
    /\ UNCHANGED <<requests, sending, life, net, hub, others, executed, foreign>>

Found(m) == m.id \in pending

\* The 'message' handler, for FEEDBACK with a pending entry; without one, it is
\* only broadcast to all clients.
NodeFeedback(m) ==
    /\ m.to = "node" /\ m.origin = life /\ Found(m)
    /\ Forget(m.id)
    /\ Tell(m.id, "feedback")
    /\ UNCHANGED <<requests, sending, life, net, hub, others, executed, foreign>>

Another == others < MaxOthers /\ others' = others + 1

NodeRestarts ==
    /\ Another
    /\ life' = life + 1
    /\ requests' = <<>> /\ answers' = <<>>
    /\ sending' = {} /\ pending' = {} /\ timers' = {}
    /\ foreign' = foreign \cup DOMAIN requests
    /\ UNCHANGED <<net, hub, executed>>

-----------------------------------------------------------------------------
(* The hub's udp_thread.                                                   *)

IsFirst(i, S) == i \in S /\ \A j \in S : i <= j

FreeSlots == {i \in Slots : table[i].id = 0}
Oldest == {i \in Slots : \A j \in Slots : table[i].issued <= table[j].issued}

Newest == {i \in Slots : \A j \in Slots : table[i].issued >= table[j].issued}
MutantVictims == IF FreeSlots # {} THEN FreeSlots ELSE Newest

\* register_client_command takes the first free slot, or else the oldest.
Victims == IF FreeSlots # {} THEN FreeSlots ELSE Oldest

ForwardCommand(m) ==
    /\ m.kind = "COMMAND" /\ m.to = "hub"
    /\ clock < MaxRegistered /\ clock' = clock + 1
    /\ \E i \in Slots :
        /\ IsFirst(i, Victims)
        /\ table' = [table EXCEPT ![i] = [id |-> m.id, module |-> m.module,
                                          client |-> m.origin, issued |-> clock']]
    /\ net' = net \cup {ToDoor(m.origin, m.id, m.module)}
    /\ UNCHANGED <<node, own, others, executed, foreign>>

Clients(m) == {i \in Slots : table[i].id = m.id /\ table[i].module = m.module}

MutantRelayFeedback(m) ==
    /\ m.kind = "FEEDBACK" /\ m.to = "hub"
    /\ \E i \in Slots :
        /\ table[i].id # 0 /\ table[i].module = m.module
        /\ table' = [table EXCEPT ![i] = Free]
        /\ net' = net \cup {Relayed(table[i].client, table[i].id, m.module)}
    /\ UNCHANGED <<node, clock, own, others, executed, foreign>>

\* get_and_clear_client_cmd; a FEEDBACK nobody waits for is not relayed.
RelayFeedback(m) ==
    /\ m.kind = "FEEDBACK" /\ m.to = "hub"
    /\ \E i \in Slots :
        /\ IsFirst(i, Clients(m))
        /\ table' = [table EXCEPT ![i] = Free]
        /\ net' = net \cup {Relayed(table[i].client, m.id, m.module)}
    /\ UNCHANGED <<node, clock, own, others, executed, foreign>>

\* hub_udp_send_command, for the HTTP API: its FEEDBACK takes the same way.
OwnCommand(m) ==
    /\ Another /\ own' = own + 1
    /\ net' = net \cup {ToDoor(Own, own, m)}
    /\ foreign' = foreign \cup {own}
    /\ UNCHANGED <<node, table, clock, executed>>

MutantHubRestarts ==
    /\ Another
    /\ table' = [i \in Slots |-> Free] /\ own' = 0
    /\ UNCHANGED <<node, net, clock, executed, foreign>>

HubRestarts ==
    /\ Another
    /\ table' = [i \in Slots |-> Free] /\ own' = 1
    /\ UNCHANGED <<node, net, clock, executed, foreign>>

\* The door: app_command_handler.
Execute(m) ==
    /\ m.to = "door"
    /\ executed' = executed \cup {<<m.origin, m.id>>}
    /\ net' = net \cup {Answer(m.id, m.module)}
    /\ UNCHANGED <<node, hub, others, foreign>>

-----------------------------------------------------------------------------
Callback(id) == Sent(id) \/ SendFails(id)

Next ==
    \/ \E kind \in Kinds, m \in Modules : Request(kind, m)
    \/ \E id \in sending : Leaves(id) \/ Callback(id)
    \/ \E id \in timers : TimesOut(id)
    \/ \E d \in net : NodeFeedback(d) \/ ForwardCommand(d) \/ RelayFeedback(d) \/ Execute(d)
    \/ \E m \in Modules : OwnCommand(m)
    \/ NodeRestarts \/ HubRestarts

(***************************************************************************)
(* Fairness: Node runs its callbacks, and its timers when they are due.    *)
(* The network, the hub and the door owe nothing.                          *)
(***************************************************************************)
Ids == 1 .. MaxId
Spec ==
    /\ Init /\ [][Next]_vars
    /\ \A id \in Ids : WF_vars(Callback(id)) /\ WF_vars(TimesOut(id))

-----------------------------------------------------------------------------
Datagrams == [kind : {"COMMAND", "FEEDBACK"}, to : {"hub", "door", "node"}, origin : Nat,
              id : Nat \ {0}, module : Modules]

\* Every variable has its type; what is sending, pending or timed was asked.
TypeOK ==
    /\ requests \in Seq([kind : Kinds, module : Modules])
    /\ answers \in Seq(Seq({"feedback", "error"})) /\ Len(answers) = Len(requests)
    /\ sending \subseteq DOMAIN requests
    /\ pending \subseteq DOMAIN requests /\ timers \subseteq DOMAIN requests
    /\ life \in Nat \ {0} /\ net \subseteq Datagrams
    /\ table \in [Slots -> [id : Nat, module : Modules \cup {""}, client : Nat, issued : Nat]]
    /\ clock \in Nat /\ own \in Nat \ {0}
    /\ others \in Nat
    /\ executed \subseteq Nat \X (Nat \ {0}) /\ foreign \subseteq Nat \ {0}

\* A client is told one thing about a request, however timer, callback of send
\* and doubled FEEDBACK fall: but for get-door-info, which says null a second
\* time if its send fails after its timer.
AnsweredOnce ==
    \A id \in DOMAIN answers :
        \/ Len(answers[id]) <= 1
        \/ requests[id].kind = "info" /\ answers[id] = <<"error", "error">>

\* A client told of FEEDBACK had its command executed by the door, as long as
\* nobody else, the hub itself or an earlier Node server, has used its id.
FeedbackMeansExecuted ==
    \A id \in DOMAIN answers \ foreign :
        (\E n \in DOMAIN answers[id] : answers[id][n] = "feedback") => <<life, id>> \in executed

\* Every request is answered in the end, by a FEEDBACK or by an error, unless
\* the Node server is started again.
RequestsSettle ==
    \A id \in Ids : (id \in DOMAIN answers) ~>
        \/ id \notin DOMAIN answers
        \/ answers[id] # <<>>

\* The hub forgets a client that still waits only when all its slots are taken,
\* and then never one that waits for less time than another.
EvictsOnlyTheOldest ==
    [][\A i \in Slots :
        table[i].id # 0 /\ table'[i].id # 0 /\ table'[i] # table[i] =>
            \A j \in Slots : table[j].id # 0 /\ table[j].issued >= table[i].issued]_vars
=============================================================================
