------------------------------ MODULE WebClient ------------------------------
(***************************************************************************)
(* The pages of gui/web_control.js: each keeps what it last heard of a     *)
(* door, offers LOCK or UNLOCK by it, and asks for the STATUS again and    *)
(* again; gui/lib/door_server.js tells every page of every FEEDBACK.       *)
(*                                                                         *)
(* Between a page and the door lie the Node server, the hub and two UDP    *)
(* hops (module WebBridge): here a request or an answer is in flight,      *)
(* arrives in any order, or is lost.  Who asked is not kept: the page that *)
(* gets its own copy of an answer is any page, or none.  One door stands   *)
(* for D1 to D3, which share nothing.  The door obeys as in DoorLock, with *)
(* no motor fault.  A second request or answer like one in flight is lost. *)
(***************************************************************************)
EXTENDS Naturals, Sequences, FiniteSets

CONSTANTS
    Pages,         \* the open web pages
    MaxPolls,      \* maxPolls, 20 in the code
    MaxClicks,     \* bound: clicks on the buttons
    MaxMoves,      \* bound: how often the leaf is opened or closed by hand
    MaxErrors,     \* bound: how often the ultrasonic sensor gives -1
    MaxAnswers     \* bound: answers in flight, more are lost

ASSUME PollsAssumption == MaxPolls \in Nat \ {0}
ASSUME BoundsAssumption ==
    MaxClicks \in Nat /\ MaxMoves \in Nat /\ MaxErrors \in Nat /\ MaxAnswers \in Nat

VARIABLES
    open, locked,     \* the leaf and the bolt
    requests,         \* actions on their way to the door
    answers,          \* FEEDBACK actions on their way to the Node server
    inbox,            \* page -> socket.io events it has not handled yet
    cache,            \* page -> its doorStates entry
    enabled,          \* page -> the button is not disabled
    loops,            \* page -> its pollStatus loops: what each waits for
    reported,         \* history: the bolt's states the door has answered with
    clicks, moves, errors

door == <<open, locked, moves, errors>>
page == <<cache, enabled, loops>>
vars == <<open, locked, requests, answers, inbox, cache, enabled, loops, reported,
          clicks, moves, errors>>

Statuses == {"STATUS_LOCKED", "STATUS_UNLOCKED", "STATUS_OPEN", "STATUS_UNKNOWN"}
Requests == {"LOCK", "UNLOCK", "STATUS"}
Bolted == {"STATUS_LOCKED", "STATUS_UNLOCKED"}
Answers == Statuses \cup {"LOCK", "UNLOCK"}
Known == {"null", "true", "false"}
Events == [via : {"door-feedback", "command-feedback"}, action : Answers]
Loops == [want : {"true", "false"}, polls : 1 .. MaxPolls]

Init ==
    /\ open \in BOOLEAN /\ locked \in BOOLEAN /\ (locked => ~open)
    /\ requests = {"STATUS"} /\ answers = {}
    /\ inbox = [p \in Pages |-> <<>>]
    /\ cache = [p \in Pages |-> [doorOpen |-> "null", lockLocked |-> "null"]]
    /\ enabled = [p \in Pages |-> TRUE]
    /\ loops = [p \in Pages |-> {}]
    /\ reported = {} /\ clicks = 0 /\ moves = 0 /\ errors = 0

-----------------------------------------------------------------------------
(* The door: a hand on the leaf, and app_command_handler.                  *)

MoveLeaf ==
    /\ moves < MaxMoves /\ moves' = moves + 1
    /\ open' = ~open
    /\ UNCHANGED <<locked, requests, answers, inbox, page, reported, clicks, errors>>

MutantAnswered(a) == answers' = answers \cup {a}

\* FEEDBACK is sent.
Answered(a) ==
    answers' = IF Cardinality(answers) < MaxAnswers THEN answers \cup {a} ELSE answers

DoLock ==
    /\ "LOCK" \in requests /\ requests' = requests \ {"LOCK"}
    /\ locked' = (locked \/ ~open)
    /\ Answered("LOCK")
    /\ UNCHANGED <<open, moves, errors, inbox, page, reported, clicks>>

DoUnlock ==
    /\ "UNLOCK" \in requests /\ requests' = requests \ {"UNLOCK"}
    /\ locked' = FALSE
    /\ Answered("UNLOCK")
    /\ UNCHANGED <<open, moves, errors, inbox, page, reported, clicks>>

Status ==
    CASE locked  -> "STATUS_LOCKED"
      [] ~locked /\ ~open -> "STATUS_UNLOCKED"
      [] ~locked /\ open  -> "STATUS_OPEN"

DoStatus ==
    /\ "STATUS" \in requests /\ requests' = requests \ {"STATUS"}
    /\ Answered(Status) /\ reported' = reported \cup ({Status} \cap Bolted)
    /\ UNCHANGED <<door, inbox, page, clicks>>

\* The sensor fails: a lock is refused, a status is not known.
SensorFails ==
    /\ errors < MaxErrors /\ errors' = errors + 1 /\ ~locked
    /\ \/ /\ "LOCK" \in requests /\ requests' = requests \ {"LOCK"}
          /\ Answered("LOCK")
       \/ /\ "STATUS" \in requests /\ requests' = requests \ {"STATUS"}
          /\ Answered("STATUS_UNKNOWN")
    /\ UNCHANGED <<open, locked, moves, inbox, page, reported, clicks>>

LoseRequest(a) ==
    /\ a \in requests /\ requests' = requests \ {a}
    /\ UNCHANGED <<door, answers, inbox, page, reported, clicks>>

-----------------------------------------------------------------------------
(* door_server.js: the page that asked is told first, if it still waits,   *)
(* then every page is told twice.                                          *)

Event(via, action) == [via |-> via, action |-> action]
Broadcast(a) == <<Event("door-feedback", a), Event("command-feedback", a)>>

NodeTells(a) ==
    /\ a \in answers /\ answers' = answers \ {a}
    /\ \A p \in Pages : inbox[p] = <<>>
    /\ \E asker \in SUBSET Pages :
          /\ Cardinality(asker) <= 1
          /\ inbox' = [p \in Pages |->
                          IF p \in asker THEN <<Event("command-feedback", a)>> \o Broadcast(a)
                          ELSE Broadcast(a)]
    /\ UNCHANGED <<door, requests, page, reported, clicks>>

LoseAnswer(a) ==
    /\ a \in answers /\ answers' = answers \ {a}
    /\ UNCHANGED <<door, requests, inbox, page, reported, clicks>>

-----------------------------------------------------------------------------
(* web_control.js                                                          *)

\* applyStatusStateToDoor: OPEN leaves the lock as it was last heard of.
Applied(c, status) ==
    CASE status = "STATUS_LOCKED"   -> [doorOpen |-> "false", lockLocked |-> "true"]
      [] status = "STATUS_UNLOCKED" -> [doorOpen |-> "false", lockLocked |-> "false"]
      [] status = "STATUS_OPEN"     -> [c EXCEPT !.doorOpen = "true"]
      [] status = "STATUS_UNKNOWN"  -> [doorOpen |-> "null", lockLocked |-> "null"]

\* updateUIForModule: the button works if the door is known to be closed.
Enabled(c) == c.doorOpen = "false" /\ c.lockLocked # "null"

Handled(p) == inbox' = [inbox EXCEPT ![p] = Tail(@)]

\* STATUS_* by either event: the cache, and the button with it.
HearStatus(p) ==
    /\ inbox[p] # <<>> /\ Head(inbox[p]).action \in Statuses
    /\ LET c == Applied(cache[p], Head(inbox[p]).action) IN
       /\ cache' = [cache EXCEPT ![p] = c]
       /\ enabled' = [enabled EXCEPT ![p] = Enabled(c)]
    /\ Handled(p)
    /\ UNCHANGED <<door, requests, answers, loops, reported, clicks>>

MutantHearCompletion(p) ==
    /\ inbox[p] # <<>> /\ Head(inbox[p]).action \notin Statuses
    /\ Head(inbox[p]).via = "command-feedback"
    /\ LET lock == IF Head(inbox[p]).action = "LOCK" THEN "true" ELSE "false" IN
       /\ cache' = [cache EXCEPT ![p].lockLocked = lock]
       /\ enabled' = [enabled EXCEPT ![p] = Enabled(cache'[p])]
    /\ Handled(p)
    /\ UNCHANGED <<door, requests, answers, loops, reported, clicks>>

\* LOCK or UNLOCK as command-feedback: no word of it is a state, only the
\* button is drawn again.
HearCompletion(p) ==
    /\ inbox[p] # <<>> /\ Head(inbox[p]).action \notin Statuses
    /\ Head(inbox[p]).via = "command-feedback"
    /\ enabled' = [enabled EXCEPT ![p] = Enabled(cache[p])]
    /\ Handled(p)
    /\ UNCHANGED <<door, requests, answers, cache, loops, reported, clicks>>

\* LOCK or UNLOCK as door-feedback: a pollStatus loop asks for the first time.
BeginPolling(p) ==
    /\ inbox[p] # <<>> /\ Head(inbox[p]).action \notin Statuses
    /\ Head(inbox[p]).via = "door-feedback"
    /\ loops' = [loops EXCEPT ![p] = @ \cup
                    {[want |-> IF Head(inbox[p]).action = "LOCK" THEN "true" ELSE "false",
                      polls |-> 1]}]
    /\ requests' = requests \cup {"STATUS"}
    /\ Handled(p)
    /\ UNCHANGED <<door, answers, cache, enabled, reported, clicks>>

MutantPollDone(p, l) == cache[p].lockLocked = l.want
PollDone(p, l) == cache[p].lockLocked = l.want \/ l.polls >= MaxPolls

\* Half a second later the loop looks at the cache, and asks again or ends.
PollAgain(p) ==
    /\ \E l \in loops[p] :
          \/ /\ PollDone(p, l)
             /\ loops' = [loops EXCEPT ![p] = @ \ {l}]
             /\ UNCHANGED requests
          \/ /\ ~PollDone(p, l)
             /\ loops' = [loops EXCEPT ![p] = (@ \ {l}) \cup
                             {[l EXCEPT !.polls = IF @ < MaxPolls THEN @ + 1 ELSE @]}]
             /\ requests' = requests \cup {"STATUS"}
    /\ UNCHANGED <<door, answers, inbox, cache, enabled, reported, clicks>>

\* setInterval: every page asks every three seconds.
Ask ==
    /\ requests' = requests \cup {"STATUS"}
    /\ UNCHANGED <<door, answers, inbox, page, reported, clicks>>

Toggle(c) == IF c.lockLocked = "true" THEN "UNLOCK" ELSE "LOCK"

\* toggleDoor.  A page that has heard nothing yet has its button enabled, and
\* asks for a LOCK.
Click(p) ==
    /\ enabled[p] /\ cache[p].doorOpen # "true"
    /\ clicks < MaxClicks /\ clicks' = clicks + 1
    /\ requests' = requests \cup {Toggle(cache[p])}
    /\ UNCHANGED <<door, answers, inbox, page, reported>>

-----------------------------------------------------------------------------
Door == DoLock \/ DoUnlock \/ DoStatus \/ SensorFails
Hear(p) == HearStatus(p) \/ HearCompletion(p) \/ BeginPolling(p)

Next ==
    \/ MoveLeaf \/ Door \/ Ask
    \/ \E a \in Requests : LoseRequest(a)
    \/ \E a \in Answers : NodeTells(a) \/ LoseAnswer(a)
    \/ \E p \in Pages : Hear(p) \/ PollAgain(p) \/ Click(p)

(***************************************************************************)
(* Fairness: timers fire and pages handle their events; of a status asked  *)
(* for again and again, not every request and not every answer is lost.    *)
(* A LOCK or an UNLOCK may stay on its way for ever.                       *)
(***************************************************************************)
Spec ==
    /\ Init /\ [][Next]_vars
    /\ WF_vars(Ask)
    /\ \A p \in Pages : WF_vars(Hear(p)) /\ WF_vars(PollAgain(p))
    /\ WF_vars(\E a \in Answers : NodeTells(a) \/ LoseAnswer(a))
    /\ SF_vars(DoStatus /\ answers' # answers)
    /\ SF_vars(\E a \in Statuses : NodeTells(a))

-----------------------------------------------------------------------------
\* Every variable has its type.
TypeOK ==
    /\ open \in BOOLEAN /\ locked \in BOOLEAN
    /\ requests \subseteq Requests
    /\ answers \subseteq Answers /\ Cardinality(answers) <= MaxAnswers
    /\ inbox \in [Pages -> Seq(Events)] /\ \A p \in Pages : Len(inbox[p]) <= 3
    /\ cache \in [Pages -> [doorOpen : Known, lockLocked : Known]]
    /\ enabled \in [Pages -> BOOLEAN]
    /\ loops \in [Pages -> SUBSET Loops]
    /\ reported \subseteq Bolted
    /\ clicks \in 0 .. MaxClicks /\ moves \in 0 .. MaxMoves /\ errors \in 0 .. MaxErrors

\* A button that works shows a lock the door has reported, whatever mixture of
\* completions, old, doubled and lost answers a page has heard: that a LOCK or
\* an UNLOCK was answered is never taken for the state of the bolt.
EnabledMeansReported ==
    \A p \in Pages : enabled[p] /\ cache[p].doorOpen = "false" =>
        (IF cache[p].lockLocked = "true" THEN "STATUS_LOCKED" ELSE "STATUS_UNLOCKED") \in reported

\* When nobody touches the door any more, every page comes to show it as it is,
\* and stays with it; the lock of an open door is not shown anew.
Shows(p) ==
    CASE locked           -> cache[p] = [doorOpen |-> "false", lockLocked |-> "true"]
      [] ~locked /\ ~open -> cache[p] = [doorOpen |-> "false", lockLocked |-> "false"]
      [] ~locked /\ open  -> cache[p].doorOpen = "true"
CacheConverges == <>[](\A p \in Pages : Shows(p) /\ loops[p] = {})
=============================================================================
