----------------------------- MODULE HubTables -----------------------------
(***************************************************************************)
(* What the hub knows of its door modules (hal/src/hub_udp.c): the door    *)
(* table, the endpoint table, the event history and the offline check.     *)
(*                                                                         *)
(* udp_thread is the only writer: it drains a socket, handling one line at *)
(* a time under g_mutex, and then checks every door for silence, one slot  *)
(* after the other.  Lines are what the door modules and the Node server   *)
(* send.  The rest of a door's entry lives elsewhere: what a FEEDBACK      *)
(* leaves there and what a COMMAND registers in module HubCommand, what an *)
(* EVENT or a HEARTBEAT says of the door in module DoorReport.             *)
(***************************************************************************)
EXTENDS Naturals, Sequences, FiniteSets

CONSTANTS
    Ids,            \* module names, as datagrams carry them
    Stored,         \* what the tables keep of a name: its first 15 characters
    Addrs,          \* addresses a module may send from
    None,           \* no name, no address
    MaxDoors,       \* HUB_MAX_DOORS
    MaxModules,     \* HUB_MAX_MODULES
    MaxHistory,     \* HUB_MAX_HISTORY
    Timeout,        \* HUB_OFFLINE_TIMEOUT_MS
    MaxTime,        \* bound: the clock stops here
    MaxLines        \* bound: how many lines arrive

ASSUME SizesAssumption ==
    /\ MaxDoors \in Nat /\ MaxDoors > 0
    /\ MaxModules \in Nat
    /\ MaxHistory \in Nat /\ MaxHistory > 0
    /\ Timeout \in Nat /\ MaxTime \in Nat /\ MaxLines \in Nat
ASSUME NamesAssumption ==
    /\ None \notin Ids /\ None \notin Addrs
    /\ Stored \in [Ids -> Ids] /\ \A id \in Ids : Stored[Stored[id]] = Stored[id]

Slots == 1 .. MaxDoors
Ended == MaxDoors + 1
Kinds == {"HEARTBEAT", "REPORT", "FEEDBACK", "COMMAND"}   \* REPORT: EVENT, HELLO, any other

\* A line of the history: which module was said to come or go, or None when
\* the line only records that some datagram came.
Line(word, id) == [word |-> word, id |-> id]
Traffic == Line("traffic", None)
Turns(id) == {Line("OFFLINE", id), Line("ONLINE", id)}
Lines == {Traffic, Line("untracked", None)} \cup UNION {Turns(id) : id \in Ids}

VARIABLES
    doors,       \* g_doors: slot -> [id, beat, offline, addr]; id is None when not known
    endpoints,   \* g_endpoints[0 .. g_num_endpoints - 1]
    hist,        \* [ring, head, count]: g_history, g_hist_head, g_hist_count
    now,         \* now_ms
    scan,        \* 0: at the sockets; a slot: the check is at it; Ended: the thread is gone
    asof,        \* the now of the check under way, 0 when none is
    stopping,    \* g_stopping
    received     \* bound: lines received

vars == <<doors, endpoints, hist, now, scan, asof, stopping, received>>

NoDoor == [id |-> None, beat |-> 0, offline |-> FALSE, addr |-> None]

\* hub_udp_init; the monotonic clock counts from the boot of the machine.
Init ==
    /\ doors = [i \in Slots |-> NoDoor]
    /\ endpoints = <<>>
    /\ hist = [ring |-> [i \in 0 .. MaxHistory - 1 |-> Traffic], head |-> 0, count |-> 0]
    /\ now \in 0 .. MaxTime
    /\ scan = 0 /\ asof = 0 /\ stopping = FALSE /\ received = 0

-----------------------------------------------------------------------------
(* The helpers of handle_line.                                             *)

\* A lookup compares what is stored with the whole name: a name that was cut
\* is found in no slot and in no endpoint.
Known(id) == {i \in Slots : doors[i].id = id}

IsFirst(i, S) == i \in S /\ \A j \in S : i <= j

MutantPlace(id, i) == IsFirst(i, Known(None))

MutantReuse(id, i) ==
    IsFirst(i, IF Known(id) # {} THEN Known(id)
               ELSE IF Known(None) # {} THEN Known(None) ELSE Slots)

\* find_or_create_door returns slot i: the first known by that name, or else
\* the first that is free.
Place(id, i) == IsFirst(i, IF Known(id) # {} THEN Known(id) ELSE Known(None))
Untracked(id) == Known(id) = {} /\ Known(None) = {}

Entered(i, id) == IF doors[i].id = id THEN doors[i] ELSE [NoDoor EXCEPT !.id = Stored[id]]

MutantUpdated(id, from) ==
    IF \E k \in DOMAIN endpoints : endpoints[k].id = id THEN endpoints
    ELSE IF Len(endpoints) >= MaxModules THEN endpoints
    ELSE Append(endpoints, [id |-> Stored[id], addr |-> from])

\* hub_update_endpoint: the first entry by that name, or a new one if there is room.
Updated(id, from) ==
    IF \E k \in DOMAIN endpoints : endpoints[k].id = id
    THEN [k \in DOMAIN endpoints |->
            IF IsFirst(k, {j \in DOMAIN endpoints : endpoints[j].id = id})
            THEN [id |-> id, addr |-> from] ELSE endpoints[k]]
    ELSE IF Len(endpoints) >= MaxModules THEN endpoints
    ELSE Append(endpoints, [id |-> Stored[id], addr |-> from])

MutantWrite(h, line) ==
    [ring |-> [h.ring EXCEPT ![h.head] = line],
     head |-> (h.head + 1) % MaxHistory,
     count |-> h.count + 1]

\* add_history
Write(h, line) ==
    [ring |-> [h.ring EXCEPT ![h.head] = line],
     head |-> (h.head + 1) % MaxHistory,
     count |-> IF h.count < MaxHistory THEN h.count + 1 ELSE h.count]

MutantStart(h) == 0
Start(h) == (h.head + MaxHistory - h.count) % MaxHistory
NthLine(h, k) == h.ring[(Start(h) + k - 1) % MaxHistory]

\* hub_udp_get_history
GetHistory(h, max) == [k \in 1 .. (IF h.count < max THEN h.count ELSE max) |-> NthLine(h, k)]

-----------------------------------------------------------------------------
(* udp_thread *)

\* handle_line for a module that finds no room in the door table: it may
\* still get an endpoint, and leaves a line in the history.
HandleUntracked(id) ==
    /\ Untracked(id)
    /\ hist' = Write(hist, Line("untracked", None))
    /\ UNCHANGED doors

\* A FEEDBACK writes a second line, and a HEARTBEAT alone moves last_heartbeat_ms.
HandleTracked(id, kind, from) ==
    \E i \in Slots :
        /\ Place(id, i)
        /\ doors' = [doors EXCEPT ![i] =
                        [Entered(i, id) EXCEPT
                            !.addr = IF kind = "COMMAND" THEN @ ELSE from,
                            !.beat = IF kind = "HEARTBEAT" THEN now ELSE @]]
        /\ hist' = IF kind = "FEEDBACK" THEN Write(Write(hist, Traffic), Traffic)
                   ELSE Write(hist, Traffic)

\* A COMMAND comes from the Node server, everything else from the module.
HandleLine(id, kind, from) ==
    /\ scan = 0 /\ received < MaxLines
    /\ received' = received + 1
    /\ endpoints' = IF kind = "COMMAND" THEN endpoints ELSE Updated(id, from)
    /\ HandleUntracked(id) \/ HandleTracked(id, kind, from)
    /\ UNCHANGED <<now, scan, asof, stopping>>

\* The sockets are empty, or select has waited for its second.
CheckBegin ==
    /\ scan = 0
    /\ scan' = 1 /\ asof' = now
    /\ UNCHANGED <<doors, endpoints, hist, now, stopping, received>>

MutantAfterSlot == IF scan + 1 >= MaxDoors THEN 0 ELSE scan + 1
MutantNeverEnds == IF scan = MaxDoors THEN 0 ELSE scan + 1
AfterSlot == IF scan < MaxDoors THEN scan + 1 ELSE IF stopping THEN Ended ELSE 0

Overdue(d, t) == t > d.beat + Timeout

MutantTurn(flag, word) ==
    /\ doors[scan].offline # flag
    /\ doors' = [doors EXCEPT ![scan].offline = flag]
    /\ hist' = IF flag THEN Write(hist, Line(word, doors[scan].id)) ELSE hist

\* The slot under check changes sides, with a line that says so.
Turn(flag, word) ==
    /\ doors[scan].offline # flag
    /\ doors' = [doors EXCEPT ![scan].offline = flag]
    /\ hist' = Write(hist, Line(word, doors[scan].id))

\* One turn of the loop of check_offline_modules.
CheckSlot ==
    /\ scan \in Slots
    /\ LET d == doors[scan] IN
       \/ d.id # None /\ Overdue(d, asof) /\ Turn(TRUE, "OFFLINE")
       \/ d.id # None /\ ~Overdue(d, asof) /\ Turn(FALSE, "ONLINE")
       \/ /\ d.id = None \/ (d.offline <=> Overdue(d, asof))
          /\ UNCHANGED <<doors, hist>>
    /\ scan' = AfterSlot
    /\ asof' = IF scan < MaxDoors THEN asof ELSE 0
    /\ UNCHANGED <<endpoints, now, stopping, received>>

Tick ==
    /\ now < MaxTime
    /\ now' = now + 1
    /\ UNCHANGED <<doors, endpoints, hist, scan, asof, stopping, received>>

\* hub_udp_shutdown: the thread sees g_stopping when it is round its loop.
Shutdown ==
    /\ ~stopping
    /\ stopping' = TRUE
    /\ UNCHANGED <<doors, endpoints, hist, now, scan, asof, received>>

Next ==
    \/ \E id \in Ids, kind \in Kinds, from \in Addrs : HandleLine(id, kind, from)
    \/ CheckBegin \/ CheckSlot \/ Tick \/ Shutdown

(***************************************************************************)
(* Fairness: the thread gets round to its check, because the sockets do    *)
(* run empty, and the check goes on once begun.                            *)
(***************************************************************************)
Spec == Init /\ [][Next]_vars /\ WF_vars(CheckBegin) /\ WF_vars(CheckSlot)

-----------------------------------------------------------------------------
\* Every variable has its type; both tables and the ring stay in bounds.
TypeOK ==
    /\ doors \in [Slots -> [id : Ids \cup {None}, beat : Nat, offline : BOOLEAN,
                            addr : Addrs \cup {None}]]
    /\ endpoints \in Seq([id : Ids, addr : Addrs]) /\ Len(endpoints) <= MaxModules
    /\ hist \in [ring : [0 .. MaxHistory - 1 -> Lines], head : 0 .. MaxHistory - 1,
                 count : 0 .. MaxHistory]
    /\ now \in Nat /\ asof \in Nat /\ asof <= now
    /\ scan \in 0 .. Ended /\ stopping \in BOOLEAN /\ received \in 0 .. MaxLines

\* The names that stand for one module in the tables: they are stored whole and
\* no longer name is cut to them.  The module of a longer name is a new one at
\* every datagram (its slots and endpoints are twins), and fills the tables the
\* others share, which hub_udp.c:20 calls "max distinct door modules to track".
Plain == {id \in Ids : \A n \in Ids : Stored[n] = id <=> n = id}

\* The two tables that say where a module is agree, if its name is its own:
\* hub_udp_send_command goes by the door's last_addr, a forwarded COMMAND by the
\* endpoint.  They part only when the endpoint table had no room for the module.
AddressesAgree ==
    \A i \in Slots : doors[i].id \in Plain /\ doors[i].addr # None =>
        \/ \E k \in DOMAIN endpoints : endpoints[k] = [id |-> doors[i].id, addr |-> doors[i].addr]
        \/ /\ Len(endpoints) = MaxModules
           /\ \A k \in DOMAIN endpoints : endpoints[k].id # doors[i].id

\* A name that is its own has one slot and one endpoint, so that a lookup, which
\* takes the first, speaks of all the hub knows of that module, whatever longer
\* names do to the tables around it.
NoTwins ==
    /\ \A i, j \in Slots : doors[i].id \in Plain /\ doors[i].id = doors[j].id => i = j
    /\ \A k, n \in DOMAIN endpoints :
           endpoints[k].id \in Plain /\ endpoints[k].id = endpoints[n].id => k = n

\* A slot never changes hands, which hub_udp_send_command relies on: it keeps
\* its pointer into g_doors while it sleeps with the mutex released.
SlotsKeepTheirModule ==
    [][\A i \in Slots : doors[i].id # None => doors'[i].id = doors[i].id]_vars

\* The history tells the story the flags tell: the last line in it about the
\* absence or return of a module with a name of its own is the one its flag
\* shows now.
HistoryMatchesFlags ==
    \A i \in Slots : \A k \in 1 .. hist.count : doors[i].id \in Plain =>
        LET told == {n \in 1 .. hist.count : NthLine(hist, n) \in Turns(doors[i].id)}
        IN  k \in told /\ (\A n \in told : n <= k) =>
                (doors[i].offline <=> NthLine(hist, k).word = "OFFLINE")

\* A module that stays silent is shown offline in the end.
Silent(i) == doors[i].id # None /\ now > doors[i].beat + Timeout
SilenceShows == \A i \in Slots :
    Silent(i) /\ ~stopping ~> doors[i].offline \/ ~Silent(i) \/ stopping

\* hub_udp_shutdown returns: the thread it joins comes to its end.
ShutdownReturns == stopping ~> scan = Ended

\* The ring holds the last MaxHistory lines in the order they were written.
\* (Asked for fewer than it holds, hub_udp_get_history gives the oldest of them.)
Kept == GetHistory(hist, MaxHistory)
Recent == INSTANCE RecentLog WITH Capacity <- MaxHistory, Doubled <- {Traffic}, log <- Kept
HistoryIsRecent == Recent!Spec
=============================================================================
