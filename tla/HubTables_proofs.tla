-------------------------- MODULE HubTables_proofs --------------------------
(***************************************************************************)
(* Proofs about the hub's tables, for every number of modules, slots,      *)
(* endpoints and lines.                                                    *)
(***************************************************************************)
EXTENDS HubTables, SequenceTheorems, TLAPS

Endpoint == [id : Ids, addr : Addrs]

\* The two halves of NoTwins, each about one table.
OneSlotEach ==
    \A i, j \in Slots : doors[i].id \in Plain /\ doors[i].id = doors[j].id => i = j
OneEndpointEach(e) == \A k, n \in DOMAIN e : e[k].id \in Plain /\ e[k].id = e[n].id => k = n

IInv == TypeOK /\ NoTwins /\ AddressesAgree

\* A name of its own is stored whole, and no other name is stored as one.
LEMMA PlainNames ==
    ASSUME NEW id \in Ids
    PROVE  /\ Stored[id] \in Ids
           /\ id \in Plain => Stored[id] = id
           /\ Stored[id] \in Plain => Stored[id] = id
           /\ None \notin Plain
  <1>1. Stored[id] \in Ids
    BY NamesAssumption
  <1> QED BY <1>1, NamesAssumption DEF Plain

-----------------------------------------------------------------------------
(* hub_update_endpoint *)

\* Where there are entries by the name, no other entry changes and no name does;
\* the one entry of a name of its own is the one that changes.
LEMMA UpdatedInPlace ==
    ASSUME endpoints \in Seq(Endpoint), OneEndpointEach(endpoints),
           NEW id \in Ids, NEW from \in Addrs,
           \E n \in DOMAIN endpoints : endpoints[n].id = id
    PROVE  LET e == Updated(id, from) IN
           /\ e \in Seq(Endpoint) /\ Len(e) = Len(endpoints) /\ DOMAIN e = DOMAIN endpoints
           /\ \A k \in DOMAIN endpoints :
                /\ e[k].id = endpoints[k].id
                /\ endpoints[k].id # id => e[k] = endpoints[k]
                /\ id \in Plain /\ endpoints[k].id = id => e[k] = [id |-> id, addr |-> from]
  <1> DEFINE S == {j \in DOMAIN endpoints : endpoints[j].id = id}
             entry == [id |-> id, addr |-> from]
             e == Updated(id, from)
             n == Len(endpoints)
  <1>1. e = [k \in DOMAIN endpoints |-> IF IsFirst(k, S) THEN entry ELSE endpoints[k]]
    BY DEF Updated
  <1>2. /\ entry \in Endpoint /\ entry.id = id
        /\ n \in Nat /\ DOMAIN endpoints = 1 .. n
        /\ \A k \in 1 .. n : endpoints[k] \in Endpoint
    <2>1. entry \in Endpoint /\ entry.id = id
      BY DEF Endpoint
    <2>2. n \in Nat /\ DOMAIN endpoints = 1 .. n /\ \A k \in 1 .. n : endpoints[k] \in Endpoint
      BY LenProperties, ElementOfSeq
    <2> QED BY <2>1, <2>2
  <1>3. \A k : IsFirst(k, S) => k \in DOMAIN endpoints /\ endpoints[k].id = id
    BY DEF IsFirst
  <1>4. ASSUME id \in Plain, NEW k \in DOMAIN endpoints, endpoints[k].id = id
        PROVE  IsFirst(k, S)
    <2>1. S = {k}
      BY <1>4 DEF OneEndpointEach
    <2>2. k \in Nat
      BY <1>2
    <2> HIDE DEF S
    <2> QED BY <2>1, <2>2 DEF IsFirst
  <1> HIDE DEF S, entry, e, n
  <1>5. \A k \in 1 .. n : e[k] = IF IsFirst(k, S) THEN entry ELSE endpoints[k]
    BY <1>1, <1>2
  <1>6. e \in [1 .. n -> Endpoint]
    BY <1>1, <1>2
  <1>7. e \in Seq(Endpoint) /\ Len(e) = n /\ DOMAIN e = 1 .. n
    <2>1. e \in Seq(Endpoint)
      <3>1. Seq(Endpoint) = UNION {[1 .. m -> Endpoint] : m \in Nat}
        BY SeqDef, Zenon
      <3> QED BY <1>2, <1>6, <3>1, Zenon
    <2>2. DOMAIN e = 1 .. n
      BY <1>6
    <2> QED BY <1>2, <2>1, <2>2, LenProperties
  <1>8. \A k \in DOMAIN endpoints :
            /\ e[k].id = endpoints[k].id
            /\ endpoints[k].id # id => e[k] = endpoints[k]
            /\ id \in Plain /\ endpoints[k].id = id => e[k] = entry
    BY <1>2, <1>3, <1>4, <1>5
  <1> QED BY <1>2, <1>7, <1>8 DEF e, n, entry

\* What holds of the endpoint table after a line of a module: it is still a
\* table without twins and in bounds, it has the module's address or no room if
\* the name is its own, and the entries of the other modules are untouched.
EndpointsKept(e, id, from) ==
    /\ e \in Seq(Endpoint) /\ Len(e) <= MaxModules
    /\ OneEndpointEach(e)
    /\ id \in Plain =>
          \/ \E k \in DOMAIN e : e[k] = [id |-> id, addr |-> from]
          \/ Len(e) = MaxModules /\ \A k \in DOMAIN e : e[k].id # id
    /\ \A k \in DOMAIN endpoints : endpoints[k].id # id => k \in DOMAIN e /\ e[k] = endpoints[k]
    /\ \A k \in DOMAIN e :
          e[k].id \in Plain /\ e[k].id # id => k \in DOMAIN endpoints /\ e[k] = endpoints[k]
    /\ Len(endpoints) = MaxModules => Len(e) = MaxModules

LEMMA UpdatedKeeps ==
    ASSUME endpoints \in Seq(Endpoint), Len(endpoints) <= MaxModules, OneEndpointEach(endpoints),
           NEW id \in Ids, NEW from \in Addrs
    PROVE  EndpointsKept(Updated(id, from), id, from)
  <1> DEFINE entry == [id |-> id, addr |-> from]
  <1>0. entry \in Endpoint /\ MaxModules \in Nat
    BY SizesAssumption DEF Endpoint
  <1>1. CASE \E n \in DOMAIN endpoints : endpoints[n].id = id
    <2> DEFINE e == Updated(id, from)
    <2>1. /\ e \in Seq(Endpoint) /\ Len(e) = Len(endpoints) /\ DOMAIN e = DOMAIN endpoints
          /\ \A k \in DOMAIN endpoints :
               /\ e[k].id = endpoints[k].id
               /\ endpoints[k].id # id => e[k] = endpoints[k]
               /\ id \in Plain /\ endpoints[k].id = id => e[k] = entry
      BY <1>1, UpdatedInPlace
    <2> HIDE DEF e, entry
    <2>2. OneEndpointEach(e)
      BY <2>1 DEF OneEndpointEach
    <2>3. id \in Plain => \E k \in DOMAIN e : e[k] = entry
      BY <1>1, <2>1
    <2> QED BY <2>1, <2>2, <2>3 DEF EndpointsKept, e, entry
  <1>2. CASE /\ \A n \in DOMAIN endpoints : endpoints[n].id # id
             /\ Len(endpoints) >= MaxModules
    <2>1. Updated(id, from) = endpoints
      BY <1>2 DEF Updated
    <2>2. Len(endpoints) = MaxModules
      BY <1>0, <1>2
    <2> QED BY <1>2, <2>1, <2>2 DEF EndpointsKept
  <1>3. CASE /\ \A n \in DOMAIN endpoints : endpoints[n].id # id
             /\ Len(endpoints) < MaxModules
    <2> DEFINE new == [id |-> Stored[id], addr |-> from]
               e == Append(endpoints, new)
    <2>0. new \in Endpoint /\ new.id = Stored[id]
      BY PlainNames DEF Endpoint
    <2>1. Updated(id, from) = e
      BY <1>0, <1>3 DEF Updated
    <2>2. /\ e \in Seq(Endpoint) /\ Len(e) = Len(endpoints) + 1
          /\ DOMAIN e = 1 .. Len(endpoints) + 1 /\ DOMAIN endpoints = 1 .. Len(endpoints)
          /\ Len(endpoints) \in Nat
      BY <2>0
    <2>3. /\ \A k \in DOMAIN endpoints : e[k] = endpoints[k]
          /\ e[Len(endpoints) + 1] = new
      BY <2>0
    <2>4. /\ id \in Plain => new = entry /\ new.id = id
          /\ new.id \in Plain => new.id = id
      BY PlainNames
    <2> HIDE DEF e, new, entry
    <2>5. \A k \in DOMAIN e : k \in DOMAIN endpoints \/ k = Len(endpoints) + 1
      BY <2>2
    <2>6. OneEndpointEach(e)
      BY <1>3, <2>2, <2>3, <2>4, <2>5 DEF OneEndpointEach
    <2>7. id \in Plain => \E k \in DOMAIN e : e[k] = entry
      BY <2>2, <2>3, <2>4
    <2>8. \A k \in DOMAIN endpoints : endpoints[k].id # id => k \in DOMAIN e /\ e[k] = endpoints[k]
      BY <2>2, <2>3
    <2>9. \A k \in DOMAIN e :
              e[k].id \in Plain /\ e[k].id # id => k \in DOMAIN endpoints /\ e[k] = endpoints[k]
      BY <2>3, <2>4, <2>5
    <2>10. Len(e) <= MaxModules /\ Len(endpoints) # MaxModules
      <3> DEFINE n == Len(endpoints)
      <3>1. n \in Nat /\ MaxModules \in Nat /\ n < MaxModules /\ Len(e) = n + 1
        BY <1>0, <1>3, <2>2
      <3> HIDE DEF n
      <3>2. Len(e) <= MaxModules /\ n # MaxModules
        BY <3>1
      <3> QED BY <3>2 DEF n
    <2> QED
      BY <2>1, <2>2, <2>6, <2>7, <2>8, <2>9, <2>10 DEF EndpointsKept, entry
  <1>4. Len(endpoints) \in Nat
    OBVIOUS
  <1> QED BY <1>0, <1>1, <1>2, <1>3, <1>4

-----------------------------------------------------------------------------
(* add_history *)

History == [ring : [0 .. MaxHistory - 1 -> Lines], head : 0 .. MaxHistory - 1,
            count : 0 .. MaxHistory]

\* A line keeps the ring a ring: the head comes round, the count stops at its size.
LEMMA WriteKeepsRing ==
    ASSUME NEW h \in History, NEW line \in Lines
    PROVE  Write(h, line) \in History
  <1> DEFINE n == h.head
             c == h.count
  <1>1. MaxHistory \in Nat /\ MaxHistory > 0
    BY SizesAssumption
  <1>2. n \in 0 .. MaxHistory - 1 /\ c \in 0 .. MaxHistory /\ h.ring \in [0 .. MaxHistory - 1 -> Lines]
    BY DEF History
  <1>3. [h.ring EXCEPT ![n] = line] \in [0 .. MaxHistory - 1 -> Lines]
    BY <1>2
  <1>4. (n + 1) % MaxHistory \in 0 .. MaxHistory - 1
    <2> HIDE DEF n
    <2> QED BY <1>1, <1>2, SMT
  <1>5. (IF c < MaxHistory THEN c + 1 ELSE c) \in 0 .. MaxHistory
    <2> HIDE DEF c
    <2> QED BY <1>1, <1>2, SMT
  <1> QED BY <1>3, <1>4, <1>5 DEF Write, History

LEMMA TrafficIsLine == Traffic \in Lines /\ Line("untracked", None) \in Lines
  BY DEF Lines

-----------------------------------------------------------------------------
(* find_or_create_door *)

\* The slot it returns is the module's own, or a free one that nobody of that
\* name has.
LEMMA PlaceIsOwn ==
    ASSUME OneSlotEach, NEW id \in Ids, NEW i \in Slots, Place(id, i)
    PROVE  /\ doors[i].id \in {id, None}
           /\ id \in Plain => \A j \in Slots : doors[j].id = id => j = i
  <1>1. CASE Known(id) # {}
    <2>1. doors[i].id = id
      BY <1>1 DEF Place, IsFirst, Known
    <2> QED BY <2>1 DEF OneSlotEach
  <1>2. CASE Known(id) = {}
    <2>1. doors[i].id = None
      BY <1>2 DEF Place, IsFirst, Known
    <2> QED BY <1>2, <2>1 DEF Known
  <1> QED BY <1>1, <1>2

-----------------------------------------------------------------------------
Door == [id : Ids \cup {None}, beat : Nat, offline : BOOLEAN, addr : Addrs \cup {None}]

LEMMA EnteredIsDoor ==
    ASSUME doors \in [Slots -> Door], NEW id \in Ids, NEW i \in Slots
    PROVE  /\ Entered(i, id) \in Door
           /\ Entered(i, id).id = IF doors[i].id = id THEN id ELSE Stored[id]
           /\ Entered(i, id).addr = IF doors[i].id = id THEN doors[i].addr ELSE None
  BY PlainNames DEF Entered, Door, NoDoor

LEMMA InitIInv == Init => IInv
  <1> SUFFICES ASSUME Init PROVE IInv
    OBVIOUS
  <1> USE SizesAssumption, NamesAssumption
  <1>1. TypeOK
    <2>1. NoDoor \in Door
      BY DEF NoDoor, Door
    <2>2. doors \in [Slots -> Door]
      BY <2>1 DEF Init
    <2>3. hist \in History
      BY TrafficIsLine DEF Init, History
    <2>4. 0 \in 0 .. Ended
      BY DEF Ended
    <2>5. endpoints \in Seq(Endpoint) /\ Len(endpoints) <= MaxModules
      BY DEF Init
    <2>6. now \in Nat /\ asof \in Nat /\ asof <= now
      BY DEF Init
    <2>7. scan \in 0 .. Ended
      BY <2>4 DEF Init
    <2>8. stopping \in BOOLEAN
      BY DEF Init
    <2>9. received \in 0 .. MaxLines
      <3>1. 0 \in 0 .. MaxLines
        OBVIOUS
      <3> QED BY <3>1 DEF Init
    <2> QED BY <2>2, <2>3, <2>5, <2>6, <2>7, <2>8, <2>9 DEF TypeOK, Door, History, Endpoint
  <1>2. NoTwins
    BY DEF Init, NoTwins, NoDoor, Plain
  <1>3. AddressesAgree
    BY DEF Init, AddressesAgree, NoDoor
  <1> QED BY <1>1, <1>2, <1>3 DEF IInv


\* What a line leaves in the endpoint table, whoever sent it.
LEMMA HandleLineEndpoints ==
    ASSUME IInv, NEW id \in Ids, NEW kind \in Kinds, NEW from \in Addrs, HandleLine(id, kind, from)
    PROVE  /\ endpoints' \in Seq(Endpoint) /\ Len(endpoints') <= MaxModules
           /\ OneEndpointEach(endpoints')
           /\ kind # "COMMAND" /\ id \in Plain =>
                \/ \E k \in DOMAIN endpoints' : endpoints'[k] = [id |-> id, addr |-> from]
                \/ Len(endpoints') = MaxModules /\ \A k \in DOMAIN endpoints' : endpoints'[k].id # id
           /\ kind = "COMMAND" => endpoints' = endpoints
           /\ \A k \in DOMAIN endpoints :
                endpoints[k].id # id => k \in DOMAIN endpoints' /\ endpoints'[k] = endpoints[k]
           /\ \A k \in DOMAIN endpoints' :
                endpoints'[k].id \in Plain /\ endpoints'[k].id # id =>
                    k \in DOMAIN endpoints /\ endpoints'[k] = endpoints[k]
           /\ Len(endpoints) = MaxModules => Len(endpoints') = MaxModules
  <1>1. /\ endpoints \in Seq(Endpoint) /\ Len(endpoints) <= MaxModules
        /\ OneEndpointEach(endpoints)
    BY DEF IInv, TypeOK, NoTwins, OneEndpointEach, Endpoint
  <1>2. CASE kind = "COMMAND"
    <2>1. endpoints' = endpoints
      BY <1>2 DEF HandleLine
    <2> QED BY <1>1, <1>2, <2>1
  <1>3. CASE kind # "COMMAND"
    <2>1. endpoints' = Updated(id, from)
      BY <1>3 DEF HandleLine
    <2>2. EndpointsKept(Updated(id, from), id, from)
      BY <1>1, UpdatedKeeps
    <2> QED BY <1>3, <2>1, <2>2 DEF EndpointsKept
  <1> QED BY <1>2, <1>3

\* What a line leaves in the door table: only the module's own slot is touched.
LEMMA HandleLineDoors ==
    ASSUME IInv, NEW id \in Ids, NEW kind \in Kinds, NEW from \in Addrs, HandleLine(id, kind, from)
    PROVE  /\ doors' \in [Slots -> Door] /\ hist' \in History
           /\ \A j \in Slots :
                \/ doors'[j] = doors[j] /\ (id \in Plain => doors[j].id # id)
                \/ /\ doors[j].id \in {id, None}
                   /\ doors'[j].id = IF doors[j].id = id THEN id ELSE Stored[id]
                   /\ id \in Plain => /\ \A n \in Slots : doors[n].id = id => n = j
                                      /\ \A n \in Slots : doors'[n].id = id => n = j
                   /\ doors'[j].addr = IF kind # "COMMAND" THEN from
                                       ELSE IF doors[j].id = id THEN doors[j].addr ELSE None
  <1>1. /\ doors \in [Slots -> Door] /\ hist \in History /\ now \in Nat /\ OneSlotEach
    BY DEF IInv, TypeOK, NoTwins, OneSlotEach, Door, History
  <1>2. CASE HandleUntracked(id)
    <2>1. hist' \in History
      BY <1>1, <1>2, WriteKeepsRing, TrafficIsLine DEF HandleUntracked
    <2> QED BY <1>1, <1>2, <2>1 DEF HandleUntracked, Untracked, Known
  <1>3. CASE HandleTracked(id, kind, from)
    <2> DEFINE entry(i) == [Entered(i, id) EXCEPT
                              !.addr = IF kind = "COMMAND" THEN @ ELSE from,
                              !.beat = IF kind = "HEARTBEAT" THEN now ELSE @]
    <2>1. PICK i \in Slots : Place(id, i) /\ doors' = [doors EXCEPT ![i] = entry(i)]
      BY <1>3 DEF HandleTracked
    <2>2. hist' \in History
      BY <1>1, <1>3, WriteKeepsRing, TrafficIsLine DEF HandleTracked
    <2>3. /\ entry(i) \in Door
          /\ entry(i).id = IF doors[i].id = id THEN id ELSE Stored[id]
          /\ entry(i).addr = IF kind # "COMMAND" THEN from
                             ELSE IF doors[i].id = id THEN doors[i].addr ELSE None
      <3> DEFINE e == Entered(i, id)
                 a == IF kind = "COMMAND" THEN e.addr ELSE from
                 b == IF kind = "HEARTBEAT" THEN now ELSE e.beat
      <3>1. /\ e \in Door
            /\ e.id = IF doors[i].id = id THEN id ELSE Stored[id]
            /\ e.addr = IF doors[i].id = id THEN doors[i].addr ELSE None
        BY <1>1, EnteredIsDoor
      <3>2. a \in Addrs \cup {None} /\ b \in Nat
        <4> HIDE DEF e
        <4> QED BY <1>1, <3>1 DEF Door
      <3>3. entry(i) = [e EXCEPT !.addr = a, !.beat = b]
        OBVIOUS
      <3> HIDE DEF e, a, b, entry
      <3>4. entry(i) \in Door /\ entry(i).id = e.id /\ entry(i).addr = a
        BY <3>1, <3>2, <3>3 DEF Door
      <3> QED BY <3>1, <3>4 DEF a
    <2> HIDE DEF entry
    <2>4. doors' \in [Slots -> Door]
      BY <1>1, <2>1, <2>3
    <2>5. /\ doors[i].id \in {id, None}
          /\ id \in Plain => \A j \in Slots : doors[j].id = id => j = i
      BY <1>1, <2>1, PlaceIsOwn
    <2>6. \A j \in Slots : doors'[j] = IF j = i THEN entry(i) ELSE doors[j]
      BY <1>1, <2>1
    <2>7. id \in Plain => \A j \in Slots : doors'[j].id = id => j = i
      BY <2>5, <2>6
    <2> QED BY <2>2, <2>3, <2>4, <2>5, <2>6, <2>7
  <1> QED BY <1>2, <1>3 DEF HandleLine

LEMMA HandleLineIInv ==
    ASSUME IInv, NEW id \in Ids, NEW kind \in Kinds, NEW from \in Addrs, HandleLine(id, kind, from)
    PROVE  IInv'
  <1>1. TypeOK'
    <2>1. endpoints' \in Seq(Endpoint) /\ Len(endpoints') <= MaxModules
      BY HandleLineEndpoints
    <2>2. doors' \in [Slots -> Door] /\ hist' \in History
      BY HandleLineDoors
    <2> QED BY <2>1, <2>2, SizesAssumption
            DEF IInv, TypeOK, HandleLine, Endpoint, Door, History
  <1>2. NoTwins'
    <2>1. OneEndpointEach(endpoints')
      BY HandleLineEndpoints
    <2>2. OneSlotEach'
      <3> SUFFICES ASSUME NEW i \in Slots, NEW j \in Slots,
                          doors'[i].id \in Plain, doors'[i].id = doors'[j].id
                   PROVE  i = j
        BY DEF OneSlotEach
      <3>1. CASE doors'[i].id = id
        <4>1. \A n \in Slots : doors'[n].id = id => n = i
          BY <3>1, HandleLineDoors
        <4>2. doors'[j].id = id
          BY <3>1
        <4> QED BY <4>1, <4>2
      <3>2. CASE doors'[i].id # id
        <4>1. doors'[i] = doors[i] /\ doors'[j] = doors[j]
          BY <3>2, HandleLineDoors, PlainNames
        <4> QED BY <4>1 DEF IInv, NoTwins
      <3> QED BY <3>1, <3>2
    <2> QED BY <2>1, <2>2 DEF NoTwins, OneEndpointEach, OneSlotEach
  <1>3. AddressesAgree'
    <2> SUFFICES ASSUME NEW i \in Slots, doors'[i].id \in Plain, doors'[i].addr # None
                 PROVE  \/ \E k \in DOMAIN endpoints' :
                             endpoints'[k] = [id |-> doors'[i].id, addr |-> doors'[i].addr]
                        \/ /\ Len(endpoints') = MaxModules
                           /\ \A k \in DOMAIN endpoints' : endpoints'[k].id # doors'[i].id
      BY DEF AddressesAgree
    <2>1. CASE doors'[i] = doors[i] /\ doors[i].id # id
      <3>1. \/ \E k \in DOMAIN endpoints :
                 endpoints[k] = [id |-> doors[i].id, addr |-> doors[i].addr]
            \/ /\ Len(endpoints) = MaxModules
               /\ \A k \in DOMAIN endpoints : endpoints[k].id # doors[i].id
        BY <2>1 DEF IInv, AddressesAgree
      <3>2. CASE \E k \in DOMAIN endpoints :
                   endpoints[k] = [id |-> doors[i].id, addr |-> doors[i].addr]
        BY <2>1, <3>2, HandleLineEndpoints
      <3>3. CASE /\ Len(endpoints) = MaxModules
                 /\ \A k \in DOMAIN endpoints : endpoints[k].id # doors[i].id
        BY <2>1, <3>3, HandleLineEndpoints
      <3> QED BY <3>1, <3>2, <3>3
    <2>2. CASE doors'[i].id = id /\ kind # "COMMAND" /\ doors'[i].addr = from
      BY <2>2, HandleLineEndpoints
    <2>3. CASE doors'[i].id = id /\ kind = "COMMAND" /\ doors[i].id = id /\ doors'[i].addr = doors[i].addr
      BY <2>3, HandleLineEndpoints DEF IInv, AddressesAgree
    <2> QED BY <2>1, <2>2, <2>3, HandleLineDoors, PlainNames
  <1> QED BY <1>1, <1>2, <1>3 DEF IInv

\* The offline check changes flags and writes lines, and nothing else.
LEMMA CheckSlotDoors ==
    ASSUME IInv, CheckSlot
    PROVE  /\ doors' \in [Slots -> Door] /\ hist' \in History
           /\ \A j \in Slots : doors'[j].id = doors[j].id /\ doors'[j].addr = doors[j].addr
  <1>1. /\ doors \in [Slots -> Door] /\ hist \in History /\ scan \in Slots
    BY DEF IInv, TypeOK, Door, History, CheckSlot
  <1>2. ASSUME NEW flag \in BOOLEAN, NEW word \in {"OFFLINE", "ONLINE"},
               doors[scan].id # None, Turn(flag, word)
        PROVE  /\ doors' \in [Slots -> Door] /\ hist' \in History
               /\ \A j \in Slots : doors'[j].id = doors[j].id /\ doors'[j].addr = doors[j].addr
    <2>1. Line(word, doors[scan].id) \in Lines
      BY <1>1, <1>2 DEF Lines, Turns, Door
    <2>2. hist' \in History
      BY <1>1, <1>2, <2>1, WriteKeepsRing DEF Turn
    <2> QED BY <1>1, <1>2, <2>2 DEF Turn, Door
  <1> QED BY <1>1, <1>2 DEF CheckSlot

LEMMA OtherStepsIInv ==
    ASSUME IInv, CheckBegin \/ CheckSlot \/ Tick \/ Shutdown \/ UNCHANGED vars
    PROVE  IInv'
  <1> USE SizesAssumption
  <1>1. CASE CheckBegin
    BY <1>1 DEF CheckBegin, IInv, TypeOK, NoTwins, AddressesAgree, Slots, Ended
  <1>2. CASE CheckSlot
    <2>1. /\ doors' \in [Slots -> Door] /\ hist' \in History
          /\ \A j \in Slots : doors'[j].id = doors[j].id /\ doors'[j].addr = doors[j].addr
      BY <1>2, CheckSlotDoors
    <2>2. scan' \in 0 .. Ended
      BY <1>2 DEF CheckSlot, AfterSlot, Slots, Ended
    <2>3. asof' \in Nat /\ asof' <= now' /\ now' = now /\ endpoints' = endpoints
          /\ stopping' = stopping /\ received' = received
      BY <1>2 DEF CheckSlot, IInv, TypeOK
    <2>4. TypeOK'
      BY <2>1, <2>2, <2>3 DEF IInv, TypeOK, Door, History
    <2>5. NoTwins'
      BY <2>1, <2>3 DEF IInv, NoTwins
    <2>6. AddressesAgree'
      BY <2>1, <2>3 DEF IInv, AddressesAgree
    <2> QED BY <2>4, <2>5, <2>6 DEF IInv
  <1>3. CASE Tick
    <2>1. now' \in Nat /\ asof' \in Nat /\ asof' <= now'
      BY <1>3 DEF Tick, IInv, TypeOK
    <2>2. TypeOK'
      BY <1>3, <2>1 DEF Tick, IInv, TypeOK
    <2>3. NoTwins' /\ AddressesAgree'
      BY <1>3 DEF Tick, IInv, NoTwins, AddressesAgree
    <2> QED BY <2>2, <2>3 DEF IInv
  <1>4. CASE Shutdown
    BY <1>4 DEF Shutdown, IInv, TypeOK, NoTwins, AddressesAgree
  <1>5. CASE UNCHANGED vars
    BY <1>5 DEF vars, IInv, TypeOK, NoTwins, AddressesAgree
  <1> QED BY <1>1, <1>2, <1>3, <1>4, <1>5

-----------------------------------------------------------------------------
\* The three facts hold together in every state the hub can reach.
THEOREM Invariant == Spec => []IInv
  <1>1. Init => IInv
    BY InitIInv
  <1>2. IInv /\ [Next]_vars => IInv'
    BY HandleLineIInv, OtherStepsIInv DEF Next
  <1> QED BY <1>1, <1>2, PTL DEF Spec

\* Every variable has its type: the tables and the ring stay in bounds,
\* whatever number of modules speak.
THEOREM TypeCorrect == Spec => []TypeOK
  <1>1. IInv => TypeOK BY DEF IInv
  <1> QED BY <1>1, Invariant, PTL

\* A name that is stored whole, and to which no longer name is cut, has one slot
\* in the door table and one entry in the endpoint table: longer names may fill
\* the tables, but never make a twin of it.
THEOREM NoTwinsEver == Spec => []NoTwins
  <1>1. IInv => NoTwins BY DEF IInv
  <1> QED BY <1>1, Invariant, PTL

\* The hub's own commands and the ones it forwards go to the same address for a
\* module with a name of its own, as long as the endpoint table had room for it.
THEOREM AddressesAlwaysAgree == Spec => []AddressesAgree
  <1>1. IInv => AddressesAgree BY DEF IInv
  <1> QED BY <1>1, Invariant, PTL

\* The pointer hub_udp_send_command keeps while the mutex is released still
\* points at the entry of its module.
THEOREM SlotsAlwaysKeepTheirModule == Spec => SlotsKeepTheirModule
  <1> DEFINE Keep == \A i \in Slots : doors[i].id # None => doors'[i].id = doors[i].id
  <1>1. IInv /\ [Next]_vars => [Keep]_vars
    <2> SUFFICES ASSUME IInv, Next PROVE Keep
      OBVIOUS
    <2>1. ASSUME NEW id \in Ids, NEW kind \in Kinds, NEW from \in Addrs, HandleLine(id, kind, from)
          PROVE  Keep
      BY <2>1, HandleLineDoors
    <2>2. CASE CheckSlot
      BY <2>2, CheckSlotDoors
    <2>3. CASE CheckBegin \/ Tick \/ Shutdown
      BY <2>3 DEF CheckBegin, Tick, Shutdown
    <2> QED BY <2>1, <2>2, <2>3 DEF Next
  <1> QED BY <1>1, Invariant, PTL DEF Spec, SlotsKeepTheirModule

-----------------------------------------------------------------------------
(* The ring as the sequence of the lines it holds, oldest first.           *)

Position(h, k) == (Start(h) + k - 1) % MaxHistory

\* Modulo the ring size, a number below twice the size loses it at most once.
LEMMA Wrap ==
    ASSUME NEW x \in Nat, x < 2 * MaxHistory
    PROVE  x % MaxHistory = IF x < MaxHistory THEN x ELSE x - MaxHistory
  <1>1. CASE x < MaxHistory  BY <1>1, SizesAssumption, SMT
  <1>2. CASE x >= MaxHistory BY <1>2, SizesAssumption, SMT
  <1> QED BY <1>1, <1>2, SizesAssumption

\* The oldest line is as many slots before the head as there are lines.
LEMMA StartOfRing ==
    ASSUME NEW h \in History
    PROVE  /\ h.head \in 0 .. MaxHistory - 1 /\ h.count \in 0 .. MaxHistory
           /\ Start(h) \in 0 .. MaxHistory - 1
           /\ Start(h) = IF h.head < h.count THEN h.head + MaxHistory - h.count ELSE h.head - h.count
  <1> DEFINE d == h.head
             c == h.count
             x == d + MaxHistory - c
  <1>1. d \in 0 .. MaxHistory - 1 /\ c \in 0 .. MaxHistory
    BY DEF History
  <1>2. Start(h) = x % MaxHistory
    BY DEF Start
  <1> HIDE DEF d, c
  <1>3. x \in Nat /\ x < 2 * MaxHistory
    BY <1>1, SizesAssumption
  <1> HIDE DEF x
  <1>4. Start(h) = IF x < MaxHistory THEN x ELSE x - MaxHistory
    BY <1>2, <1>3, Wrap
  <1>5. Start(h) = IF d < c THEN d + MaxHistory - c ELSE d - c
    BY <1>1, <1>4, SizesAssumption DEF x
  <1>6. Start(h) \in 0 .. MaxHistory - 1
    BY <1>1, <1>5, SizesAssumption
  <1> QED BY <1>1, <1>5, <1>6 DEF d, c

LEMMA PositionInRing ==
    ASSUME NEW h \in History, NEW k \in 1 .. MaxHistory
    PROVE  /\ Position(h, k) \in 0 .. MaxHistory - 1
           /\ Position(h, k) = IF Start(h) + k - 1 < MaxHistory THEN Start(h) + k - 1
                               ELSE Start(h) + k - 1 - MaxHistory
  <1> DEFINE x == Start(h) + k - 1
  <1>1. Start(h) \in 0 .. MaxHistory - 1
    BY StartOfRing
  <1>2. x \in Nat /\ x < 2 * MaxHistory
    BY <1>1, SizesAssumption
  <1>3. Position(h, k) = x % MaxHistory
    BY DEF Position
  <1> HIDE DEF x
  <1>4. Position(h, k) = IF x < MaxHistory THEN x ELSE x - MaxHistory
    BY <1>2, <1>3, Wrap
  <1> QED BY <1>1, <1>2, <1>4, SizesAssumption DEF x

LEMMA HistorySequence ==
    ASSUME NEW h \in History
    PROVE  /\ GetHistory(h, MaxHistory) \in Seq(Lines)
           /\ Len(GetHistory(h, MaxHistory)) = h.count
           /\ \A k \in 1 .. h.count : GetHistory(h, MaxHistory)[k] = h.ring[Position(h, k)]
  <1> DEFINE n == h.count
             g == GetHistory(h, MaxHistory)
  <1>1. n \in Nat /\ n <= MaxHistory /\ MaxHistory \in Nat
    BY StartOfRing, SizesAssumption
  <1>2. g = [k \in 1 .. (IF n < MaxHistory THEN n ELSE MaxHistory) |-> h.ring[Position(h, k)]]
    BY DEF GetHistory, NthLine, Position
  <1>3. h.ring \in [0 .. MaxHistory - 1 -> Lines]
    BY DEF History
  <1> HIDE DEF g, n
  <1>4. (IF n < MaxHistory THEN n ELSE MaxHistory) = n
    BY <1>1
  <1>5. g = [k \in 1 .. n |-> h.ring[Position(h, k)]]
    BY <1>2, <1>4
  <1>6. \A k \in 1 .. n : h.ring[Position(h, k)] \in Lines
    <2>1. \A k \in 1 .. n : k \in 1 .. MaxHistory
      BY <1>1
    <2>2. \A k \in 1 .. n : Position(h, k) \in 0 .. MaxHistory - 1
      BY <2>1, PositionInRing
    <2> QED BY <1>3, <2>2
  <1>7. g \in [1 .. n -> Lines]
    BY <1>5, <1>6
  <1>8. g \in Seq(Lines)
    BY <1>1, <1>7, SeqDef, Zenon
  <1>9. Len(g) = n
    BY <1>1, <1>7, <1>8, LenProperties
  <1> QED BY <1>5, <1>8, <1>9 DEF g, n

\* add_history writes at the end of the sequence: a full ring loses its oldest line.
Rewritten(h, line) ==
    GetHistory(Write(h, line), MaxHistory) = Recent!Written(GetHistory(h, MaxHistory), line)

LEMMA WriteIsWritten ==
    ASSUME NEW h \in History, NEW line \in Lines
    PROVE  Rewritten(h, line)
  <1> DEFINE w == Write(h, line)
             old == GetHistory(h, MaxHistory)
             new == GetHistory(w, MaxHistory)
             d == h.head
             c == h.count
  <1> USE SizesAssumption
  <1>1. /\ w \in History
        /\ w.head = (d + 1) % MaxHistory
        /\ w.count = IF c < MaxHistory THEN c + 1 ELSE c
        /\ w.ring = [h.ring EXCEPT ![d] = line]
    BY WriteKeepsRing DEF Write
  <1>2. d \in 0 .. MaxHistory - 1 /\ c \in 0 .. MaxHistory
    BY StartOfRing
  <1>3. \A s \in 0 .. MaxHistory - 1 : w.ring[s] = IF s = d THEN line ELSE h.ring[s]
    BY <1>1 DEF History
  <1>4. w.head = IF d + 1 < MaxHistory THEN d + 1 ELSE 0
    <2> DEFINE x == d + 1
    <2> HIDE DEF d
    <2>1. x \in Nat /\ x < 2 * MaxHistory
      BY <1>2
    <2>2. w.head = x % MaxHistory
      BY <1>1
    <2> HIDE DEF x
    <2>3. w.head = IF x < MaxHistory THEN x ELSE x - MaxHistory
      BY <2>1, <2>2, Wrap
    <2> QED BY <1>2, <2>3 DEF x
  <1>5. /\ Start(h) = IF d < c THEN d + MaxHistory - c ELSE d - c
        /\ Start(w) = IF w.head < w.count THEN w.head + MaxHistory - w.count ELSE w.head - w.count
    BY <1>1, StartOfRing
  <1>6. /\ old \in Seq(Lines) /\ Len(old) = c
        /\ \A k \in 1 .. c : old[k] = h.ring[Position(h, k)]
    BY HistorySequence
  <1>7. /\ new \in Seq(Lines) /\ Len(new) = w.count
        /\ \A k \in 1 .. w.count : new[k] = w.ring[Position(w, k)]
    BY <1>1, HistorySequence
  <1>8. \A k \in 1 .. MaxHistory :
            /\ Position(h, k) \in 0 .. MaxHistory - 1 /\ Position(w, k) \in 0 .. MaxHistory - 1
            /\ Position(h, k) = IF Start(h) + k - 1 < MaxHistory THEN Start(h) + k - 1
                                ELSE Start(h) + k - 1 - MaxHistory
            /\ Position(w, k) = IF Start(w) + k - 1 < MaxHistory THEN Start(w) + k - 1
                                ELSE Start(w) + k - 1 - MaxHistory
    BY <1>1, PositionInRing
  <1> HIDE DEF w, old, new, d, c
  <1>9. CASE c < MaxHistory
    <2>1. w.count = c + 1 /\ Start(w) = Start(h)
      BY <1>1, <1>2, <1>4, <1>5, <1>9
    <2>2. \A k \in 1 .. c : Position(w, k) = Position(h, k) /\ Position(h, k) # d
      BY <1>2, <1>5, <1>8, <1>9, <2>1
    <2>3. c + 1 \in 1 .. MaxHistory /\ Position(w, c + 1) = d
      BY <1>2, <1>5, <1>8, <1>9, <2>1
    <2>4. \A k \in 1 .. c : new[k] = old[k]
      <3> TAKE k \in 1 .. c
      <3>1. k \in 1 .. MaxHistory /\ k \in 1 .. c + 1
        BY <1>2
      <3>2. new[k] = w.ring[Position(w, k)]
        BY <1>7, <2>1, <3>1
      <3> QED BY <1>3, <1>6, <1>8, <2>2, <3>1, <3>2
    <2>5. new[c + 1] = line
      <3>1. new[c + 1] = w.ring[Position(w, c + 1)]
        BY <1>2, <1>7, <2>1
      <3> QED BY <1>2, <1>3, <2>3, <3>1
    <2>6. /\ Append(old, line) \in Seq(Lines) /\ Len(Append(old, line)) = c + 1
          /\ \A k \in 1 .. c : Append(old, line)[k] = old[k]
          /\ Append(old, line)[c + 1] = line
      BY <1>6, AppendProperties
    <2>7. \A k \in 1 .. c + 1 : k \in 1 .. c \/ k = c + 1
      BY <1>2
    <2>8. new = Append(old, line)
      <3>1. \A k \in 1 .. Len(new) : new[k] = Append(old, line)[k]
        BY <1>7, <2>1, <2>4, <2>5, <2>6, <2>7
      <3> QED BY <1>7, <2>1, <2>6, <3>1, SeqEqual
    <2> QED BY <1>2, <1>6, <1>9, <2>8 DEF Rewritten, Recent!Written, old, new, w
  <1>10. CASE c = MaxHistory
    <2> DEFINE t == Tail(old)
               m == MaxHistory - 1
    <2>1. w.count = MaxHistory /\ Start(h) = d /\ Start(w) = w.head
      BY <1>1, <1>2, <1>4, <1>5, <1>10
    <2>2. \A k \in 1 .. m : Position(w, k) = Position(h, k + 1) /\ Position(h, k + 1) # d
      <3> TAKE k \in 1 .. m
      <3>1. k \in 1 .. MaxHistory /\ k + 1 \in 1 .. MaxHistory
        OBVIOUS
      <3>2. Position(w, k) = IF w.head + k - 1 < MaxHistory THEN w.head + k - 1
                             ELSE w.head + k - 1 - MaxHistory
        BY <1>8, <2>1, <3>1
      <3>3. Position(h, k + 1) = IF d + (k + 1) - 1 < MaxHistory THEN d + (k + 1) - 1
                                 ELSE d + (k + 1) - 1 - MaxHistory
        BY <1>8, <2>1, <3>1
      <3> QED BY <1>2, <1>4, <3>1, <3>2, <3>3
    <2>3. Position(w, MaxHistory) = d
      <3>1. MaxHistory \in 1 .. MaxHistory
        OBVIOUS
      <3>2. Position(w, MaxHistory) = IF w.head + MaxHistory - 1 < MaxHistory
                                      THEN w.head + MaxHistory - 1
                                      ELSE w.head + MaxHistory - 1 - MaxHistory
        BY <1>8, <2>1, <3>1
      <3> QED BY <1>2, <1>4, <3>2
    <2>4. old # <<>>
      BY <1>6, <1>10
    <2>5. /\ t \in Seq(Lines) /\ Len(t) = m
          /\ \A k \in 1 .. m : t[k] = old[k + 1]
      BY <1>6, <1>10, <2>4, HeadTailProperties
    <2> HIDE DEF t
    <2>6. \A k \in 1 .. m : new[k] = t[k]
      <3> TAKE k \in 1 .. m
      <3>1. k \in 1 .. MaxHistory /\ k + 1 \in 1 .. MaxHistory
        OBVIOUS
      <3>2. new[k] = w.ring[Position(w, k)] /\ old[k + 1] = h.ring[Position(h, k + 1)]
        BY <1>6, <1>7, <1>10, <2>1, <3>1
      <3> QED BY <1>3, <1>8, <2>2, <2>5, <3>1, <3>2
    <2>7. new[MaxHistory] = line
      <3>1. new[MaxHistory] = w.ring[Position(w, MaxHistory)]
        BY <1>7, <2>1
      <3> QED BY <1>2, <1>3, <2>3, <3>1
    <2>8. /\ Append(t, line) \in Seq(Lines) /\ Len(Append(t, line)) = m + 1
          /\ \A k \in 1 .. m : Append(t, line)[k] = t[k]
          /\ Append(t, line)[m + 1] = line
      BY <2>5, AppendProperties
    <2>9. new = Append(t, line)
      <3>1. \A k \in 1 .. MaxHistory : k \in 1 .. m \/ k = m + 1
        OBVIOUS
      <3>2. m + 1 = MaxHistory
        OBVIOUS
      <3>3. \A k \in 1 .. Len(new) : new[k] = Append(t, line)[k]
        BY <1>7, <2>1, <2>6, <2>7, <2>8, <3>1, <3>2
      <3> QED BY <1>7, <2>1, <2>8, <3>2, <3>3, SeqEqual
    <2> QED BY <1>6, <1>10, <2>9 DEF Rewritten, Recent!Written, old, new, w, t
  <1> QED BY <1>2, <1>9, <1>10

-----------------------------------------------------------------------------
(* The ring implements RecentLog.                                          *)

\* What one step of the hub does to the history.
LEMMA HistorySteps ==
    ASSUME IInv, [Next]_vars
    PROVE  \/ hist' = hist
           \/ \E line \in Lines : hist' = Write(hist, line)
           \/ hist' = Write(Write(hist, Traffic), Traffic)
  <1>1. ASSUME NEW id \in Ids, NEW kind \in Kinds, NEW from \in Addrs, HandleLine(id, kind, from)
        PROVE  \/ \E line \in Lines : hist' = Write(hist, line)
               \/ hist' = Write(Write(hist, Traffic), Traffic)
    BY <1>1, TrafficIsLine DEF HandleLine, HandleUntracked, HandleTracked
  <1>2. ASSUME CheckSlot
        PROVE  hist' = hist \/ \E line \in Lines : hist' = Write(hist, line)
    <2>1. ASSUME NEW flag, NEW word \in {"OFFLINE", "ONLINE"},
                 doors[scan].id # None, Turn(flag, word)
          PROVE  \E line \in Lines : hist' = Write(hist, line)
      <3>1. doors[scan].id \in Ids
        BY <1>2, <2>1 DEF CheckSlot, IInv, TypeOK
      <3>2. Line(word, doors[scan].id) \in Lines
        BY <3>1 DEF Lines, Turns
      <3> QED BY <2>1, <3>2 DEF Turn
    <2> QED BY <1>2, <2>1 DEF CheckSlot
  <1>3. CASE CheckBegin \/ Tick \/ Shutdown \/ UNCHANGED vars
    BY <1>3 DEF CheckBegin, Tick, Shutdown, vars
  <1> QED BY <1>1, <1>2, <1>3 DEF Next

\* add_history and hub_udp_get_history keep the last MaxHistory lines, in the
\* order they were written.
THEOREM HistoryRefinement == Spec => HistoryIsRecent
  <1>1. Init => Recent!Init
    <2> SUFFICES ASSUME Init PROVE Kept = <<>>
      BY DEF Recent!Init
    <2>1. hist \in History /\ hist.count = 0
      BY InitIInv DEF IInv, TypeOK, History, Init
    <2>2. Kept \in Seq(Lines) /\ Len(Kept) = 0
      BY <2>1, HistorySequence DEF Kept
    <2> QED BY <2>2
  <1>2. IInv /\ [Next]_vars => [Recent!Next]_Kept
    <2> SUFFICES ASSUME IInv, [Next]_vars PROVE Recent!Next \/ Kept' = Kept
      OBVIOUS
    <2>1. hist \in History
      BY DEF IInv, TypeOK, History
    <2>2. CASE hist' = hist
      BY <2>2 DEF Kept
    <2>3. ASSUME NEW line \in Lines, hist' = Write(hist, line) PROVE Recent!WriteOne
      <3>1. Rewritten(hist, line)
        BY <2>1, WriteIsWritten
      <3>2. Kept' = Recent!Written(Kept, line)
        BY <2>3, <3>1 DEF Rewritten, Kept
      <3> QED BY <3>2 DEF Recent!WriteOne
    <2>4. CASE hist' = Write(Write(hist, Traffic), Traffic)
      <3> DEFINE h == Write(hist, Traffic)
      <3>1. h \in History /\ Rewritten(hist, Traffic)
        BY <2>1, TrafficIsLine, WriteIsWritten, WriteKeepsRing
      <3> HIDE DEF h
      <3>2. Rewritten(h, Traffic)
        BY <3>1, TrafficIsLine, WriteIsWritten
      <3>3. Kept' = Recent!Written(Recent!Written(Kept, Traffic), Traffic)
        BY <2>4, <3>1, <3>2 DEF Rewritten, Kept, h
      <3>4. Recent!WriteTwo
        BY <3>3 DEF Recent!WriteTwo
      <3> QED BY <3>4 DEF Recent!Next
    <2> QED BY <2>2, <2>3, <2>4, HistorySteps DEF Recent!Next
  <1> QED BY <1>1, <1>2, Invariant, PTL DEF Spec, HistoryIsRecent, Recent!Spec

-----------------------------------------------------------------------------
(* What the history tells about a module.                                  *)

Told(log, id) == {n \in DOMAIN log : log[n] \in Turns(id)}
Matches(log, id, flag) ==
    \A k \in Told(log, id) :
        (\A n \in Told(log, id) : n <= k) => (flag <=> log[k].word = "OFFLINE")

\* A module the history tells of is one the door table knows.
OnlyOfKnown ==
    \A id \in Ids : Told(Kept, id) # {} => \E i \in Slots : doors[i].id = id
FlagsInv ==
    \A i \in Slots : doors[i].id \in Plain => Matches(Kept, doors[i].id, doors[i].offline)
StoryInv == OnlyOfKnown /\ FlagsInv

\* A line more: the others keep their order, each at its place or one before it.
Shifted(w, s, line, d) ==
    /\ d \in {0, 1} /\ Len(w) = Len(s) + 1 - d
    /\ w[Len(w)] = line /\ Len(w) > 0
    /\ \A k \in 1 .. Len(w) - 1 : k + d \in 1 .. Len(s) /\ w[k] = s[k + d]

LEMMA WrittenShifts ==
    ASSUME NEW s \in Seq(Lines), NEW line \in Lines
    PROVE  /\ Recent!Written(s, line) \in Seq(Lines)
           /\ \E d \in {0, 1} : Shifted(Recent!Written(s, line), s, line, d)
  <1>1. MaxHistory \in Nat /\ MaxHistory > 0 /\ Len(s) \in Nat
    BY SizesAssumption, LenProperties
  <1>2. CASE Len(s) = MaxHistory
    <2> DEFINE t == Tail(s)
               w == Append(t, line)
               n == Len(s)
    <2>1. s # <<>>
      BY <1>1, <1>2
    <2>2. t \in Seq(Lines) /\ Len(t) = n - 1 /\ \A k \in 1 .. n - 1 : t[k] = s[k + 1]
      BY <2>1, HeadTailProperties
    <2> HIDE DEF t
    <2>3. /\ w \in Seq(Lines) /\ Len(w) = Len(t) + 1
          /\ w[Len(t) + 1] = line /\ \A k \in 1 .. Len(t) : w[k] = t[k]
      BY <2>2, AppendProperties
    <2>4. Recent!Written(s, line) = w
      BY <1>2 DEF Recent!Written, t
    <2>5. n \in Nat /\ n > 0
      BY <1>1, <1>2
    <2> HIDE DEF w
    <2>6. Len(w) = n /\ w[n] = line
      BY <2>2, <2>3, <2>5
    <2>7. \A k \in 1 .. n - 1 : k + 1 \in 1 .. n /\ w[k] = s[k + 1]
      BY <2>2, <2>3, <2>5
    <2> HIDE DEF n
    <2>8. Shifted(w, s, line, 1)
      BY <2>5, <2>6, <2>7 DEF Shifted, n
    <2> QED BY <2>3, <2>4, <2>8
  <1>3. CASE Len(s) # MaxHistory
    <2> DEFINE w == Append(s, line)
               n == Len(s)
    <2>1. /\ w \in Seq(Lines) /\ Len(w) = n + 1
          /\ w[n + 1] = line /\ \A k \in 1 .. n : w[k] = s[k]
      BY AppendProperties
    <2>2. Recent!Written(s, line) = w
      BY <1>3 DEF Recent!Written
    <2> HIDE DEF w
    <2>3. \A k \in 1 .. Len(w) - 1 : k + 0 \in 1 .. n /\ w[k] = s[k + 0]
      BY <1>1, <2>1
    <2>4. Shifted(w, s, line, 0)
      BY <1>1, <2>1, <2>3 DEF Shifted
    <2> QED BY <2>1, <2>2, <2>4
  <1> QED BY <1>2, <1>3

\* A line about something else changes nothing of what is told about a module.
LEMMA OtherLine ==
    ASSUME NEW s \in Seq(Lines), NEW line \in Lines, NEW id, NEW flag, line \notin Turns(id)
    PROVE  LET w == Recent!Written(s, line) IN
           /\ Told(w, id) # {} => Told(s, id) # {}
           /\ Matches(s, id, flag) => Matches(w, id, flag)
  <1> DEFINE w == Recent!Written(s, line)
  <1>1. w \in Seq(Lines) /\ \E d \in {0, 1} : Shifted(w, s, line, d)
    BY WrittenShifts
  <1>2. PICK d \in {0, 1} : Shifted(w, s, line, d)
    BY <1>1
  <1> HIDE DEF w
  <1>3. DOMAIN w = 1 .. Len(w) /\ DOMAIN s = 1 .. Len(s) /\ Len(s) \in Nat
    BY <1>1, LenProperties
  <1>4. \A k \in Told(w, id) : k \in Nat /\ k + d \in Told(s, id) /\ w[k] = s[k + d]
    <2> TAKE k \in Told(w, id)
    <2>1. k \in 1 .. Len(w) /\ w[k] \in Turns(id)
      BY <1>3 DEF Told
    <2>2. k # Len(w)
      BY <1>2, <2>1 DEF Shifted
    <2>3. k \in 1 .. Len(w) - 1 /\ k \in Nat
      BY <1>2, <1>3, <2>1, <2>2 DEF Shifted
    <2>4. k + d \in 1 .. Len(s) /\ w[k] = s[k + d]
      BY <1>2, <2>3 DEF Shifted
    <2> QED BY <1>3, <2>1, <2>3, <2>4 DEF Told
  <1>5. \A n \in Told(s, id) : n \in Nat /\ (n - d \in Told(w, id) \/ n = d)
    <2> TAKE n \in Told(s, id)
    <2>1. n \in 1 .. Len(s) /\ s[n] \in Turns(id)
      BY <1>3 DEF Told
    <2>2. CASE n = d
      BY <2>1, <2>2
    <2>3. CASE n # d
      <3>1. n - d \in 1 .. Len(w) - 1 /\ n - d + d = n
        BY <1>2, <1>3, <2>1, <2>3 DEF Shifted
      <3>2. w[n - d] = s[n] /\ n - d \in DOMAIN w
        BY <1>2, <1>3, <3>1 DEF Shifted
      <3> QED BY <2>1, <3>1, <3>2 DEF Told
    <2> QED BY <2>2, <2>3
  <1>6. Told(w, id) # {} => Told(s, id) # {}
    BY <1>4
  <1>7. ASSUME Matches(s, id, flag) PROVE Matches(w, id, flag)
    <2> SUFFICES ASSUME NEW k \in Told(w, id), \A n \in Told(w, id) : n <= k
                 PROVE  flag <=> w[k].word = "OFFLINE"
      BY DEF Matches
    <2>1. k \in Nat /\ k + d \in Told(s, id) /\ w[k] = s[k + d]
      BY <1>4
    <2>2. \A n \in Told(s, id) : n <= k + d
      BY <1>5, <2>1
    <2>3. flag <=> s[k + d].word = "OFFLINE"
      BY <1>7, <2>1, <2>2, Zenon DEF Matches
    <2> QED BY <2>1, <2>3, Zenon
  <1> QED BY <1>6, <1>7, Zenon DEF w

\* A line about a module is the last one about it.
LEMMA OwnLine ==
    ASSUME NEW s \in Seq(Lines), NEW line \in Lines, NEW id, NEW flag,
           line \in Turns(id), flag <=> line.word = "OFFLINE"
    PROVE  Matches(Recent!Written(s, line), id, flag)
  <1> DEFINE w == Recent!Written(s, line)
  <1>1. w \in Seq(Lines) /\ \E d \in {0, 1} : Shifted(w, s, line, d)
    BY WrittenShifts
  <1> HIDE DEF w
  <1>2. DOMAIN w = 1 .. Len(w) /\ Len(w) \in Nat
    BY <1>1, LenProperties
  <1>3. w[Len(w)] = line /\ Len(w) > 0
    BY <1>1 DEF Shifted
  <1>4. Len(w) \in Told(w, id)
    BY <1>2, <1>3 DEF Told
  <1>5. ASSUME NEW k \in Told(w, id), \A n \in Told(w, id) : n <= k
        PROVE  flag <=> w[k].word = "OFFLINE"
    <2>1. k \in 1 .. Len(w) /\ Len(w) <= k
      BY <1>2, <1>4, <1>5 DEF Told
    <2>2. w[k] = line
      BY <1>2, <1>3, <2>1
    <2> QED BY <2>2, Zenon
  <1> QED BY <1>5, Zenon DEF Matches, w

-----------------------------------------------------------------------------
\* A line that says of no module that it is gone or back.
Quiet(line) == line \in Lines /\ \A id : line \notin Turns(id)

LEMMA QuietLines == Quiet(Traffic) /\ Quiet(Line("untracked", None))
  BY TrafficIsLine DEF Quiet, Turns, Line, Traffic

\* Received lines leave what the history tells of absence and return as it was.
LEMMA HandleLineStory ==
    ASSUME IInv, NEW id \in Ids, NEW kind \in Kinds, NEW from \in Addrs, HandleLine(id, kind, from)
    PROVE  /\ \A x : Told(Kept', x) # {} => Told(Kept, x) # {}
           /\ \A x, flag : Matches(Kept, x, flag) => Matches(Kept', x, flag)
  <1>1. hist \in History /\ Kept \in Seq(Lines)
    BY HistorySequence DEF IInv, TypeOK, History, Kept
  <1>2. ASSUME NEW line, Quiet(line), hist' = Write(hist, line)
        PROVE  /\ \A x : Told(Kept', x) # {} => Told(Kept, x) # {}
               /\ \A x, flag : Matches(Kept, x, flag) => Matches(Kept', x, flag)
    <2>1. Rewritten(hist, line)
      BY <1>1, <1>2, WriteIsWritten DEF Quiet
    <2>2. Kept' = Recent!Written(Kept, line)
      BY <1>2, <2>1 DEF Rewritten, Kept
    <2> QED BY <1>1, <1>2, <2>2, OtherLine DEF Quiet
  <1>3. ASSUME hist' = Write(Write(hist, Traffic), Traffic)
        PROVE  /\ \A x : Told(Kept', x) # {} => Told(Kept, x) # {}
               /\ \A x, flag : Matches(Kept, x, flag) => Matches(Kept', x, flag)
    <2> DEFINE h == Write(hist, Traffic)
               m == GetHistory(h, MaxHistory)
    <2>1. h \in History /\ Rewritten(hist, Traffic)
      BY <1>1, TrafficIsLine, WriteIsWritten, WriteKeepsRing
    <2> HIDE DEF h
    <2>2. Rewritten(h, Traffic) /\ m \in Seq(Lines)
      BY <2>1, TrafficIsLine, WriteIsWritten, HistorySequence
    <2>3. m = Recent!Written(Kept, Traffic) /\ Kept' = Recent!Written(m, Traffic)
      BY <1>3, <2>1, <2>2 DEF Rewritten, Kept, h
    <2> HIDE DEF m
    <2>4. Traffic \in Lines /\ \A x : Traffic \notin Turns(x)
      BY QuietLines DEF Quiet
    <2>5. /\ \A x : Told(m, x) # {} => Told(Kept, x) # {}
          /\ \A x, flag : Matches(Kept, x, flag) => Matches(m, x, flag)
      BY <1>1, <2>3, <2>4, OtherLine
    <2>6. /\ \A x : Told(Kept', x) # {} => Told(m, x) # {}
          /\ \A x, flag : Matches(m, x, flag) => Matches(Kept', x, flag)
      BY <2>2, <2>3, <2>4, OtherLine
    <2> QED BY <2>5, <2>6
  <1> QED BY <1>2, <1>3, QuietLines DEF HandleLine, HandleUntracked, HandleTracked

\* A line leaves the flags alone; a module new to the door table is online.
LEMMA HandleLineFlags ==
    ASSUME IInv, NEW id \in Ids, NEW kind \in Kinds, NEW from \in Addrs, HandleLine(id, kind, from),
           NEW j \in Slots
    PROVE  \/ doors'[j].id = doors[j].id /\ doors'[j].offline = doors[j].offline
           \/ /\ doors[j].id = None /\ doors'[j].id = Stored[id]
              /\ id \in Plain => \A n \in Slots : doors[n].id # id
  <1>1. doors \in [Slots -> Door] /\ OneSlotEach
    BY DEF IInv, TypeOK, NoTwins, OneSlotEach, Door
  <1>2. CASE HandleUntracked(id)
    BY <1>2 DEF HandleUntracked
  <1>3. CASE HandleTracked(id, kind, from)
    <2>1. PICK i \in Slots :
              /\ Place(id, i)
              /\ doors' = [doors EXCEPT ![i] =
                     [Entered(i, id) EXCEPT
                         !.addr = IF kind = "COMMAND" THEN @ ELSE from,
                         !.beat = IF kind = "HEARTBEAT" THEN now ELSE @]]
      BY <1>3 DEF HandleTracked
    <2>2. /\ doors[i].id \in {id, None}
          /\ id \in Plain => \A n \in Slots : doors[n].id = id => n = i
      BY <1>1, <2>1, PlaceIsOwn
    <2>3. CASE j # i
      BY <1>1, <2>1, <2>3
    <2>4. CASE j = i
      <3>1. /\ Entered(i, id) \in Door
            /\ Entered(i, id).id = IF doors[i].id = id THEN id ELSE Stored[id]
        BY <1>1, EnteredIsDoor
      <3>2. doors'[i].id = Entered(i, id).id /\ doors'[i].offline = Entered(i, id).offline
        BY <1>1, <2>1, <3>1 DEF Door
      <3>3. CASE doors[i].id = id
        BY <2>4, <3>2, <3>3 DEF Entered
      <3>4. CASE doors[i].id # id
        BY <2>2, <2>4, <3>1, <3>2, <3>4
      <3> QED BY <3>3, <3>4
    <2> QED BY <2>3, <2>4
  <1> QED BY <1>2, <1>3 DEF HandleLine

LEMMA HandleLineKeepsStory ==
    ASSUME IInv, StoryInv,
           NEW id \in Ids, NEW kind \in Kinds, NEW from \in Addrs, HandleLine(id, kind, from)
    PROVE  StoryInv'
  <1>1. /\ \A x : Told(Kept', x) # {} => Told(Kept, x) # {}
        /\ \A x, flag : Matches(Kept, x, flag) => Matches(Kept', x, flag)
    BY HandleLineStory
  <1>2. OnlyOfKnown'
    <2> SUFFICES ASSUME NEW x \in Ids, Told(Kept', x) # {} PROVE \E i \in Slots : doors'[i].id = x
      BY DEF OnlyOfKnown
    <2>1. PICK i \in Slots : doors[i].id = x
      BY <1>1 DEF StoryInv, OnlyOfKnown
    <2>2. doors'[i].id = x
      BY <2>1, HandleLineFlags, NamesAssumption
    <2> QED BY <2>2
  <1>3. FlagsInv'
    <2> SUFFICES ASSUME NEW j \in Slots, doors'[j].id \in Plain
                 PROVE  Matches(Kept', doors'[j].id, doors'[j].offline)
      BY DEF FlagsInv
    <2>1. CASE doors'[j].id = doors[j].id /\ doors'[j].offline = doors[j].offline
      BY <1>1, <2>1, Zenon DEF StoryInv, FlagsInv
    <2>2. CASE /\ doors'[j].id = Stored[id]
               /\ id \in Plain => \A n \in Slots : doors[n].id # id
      <3>1. doors'[j].id = id /\ id \in Plain
        BY <2>2, PlainNames
      <3>2. Told(Kept', id) = {}
        BY <1>1, <2>2, <3>1 DEF StoryInv, OnlyOfKnown
      <3> QED BY <3>1, <3>2, Zenon DEF Matches
    <2> QED BY <2>1, <2>2, HandleLineFlags
  <1> QED BY <1>2, <1>3 DEF StoryInv

\* A module changes sides together with the line that says so; no other does.
LEMMA TurnKeepsStory ==
    ASSUME IInv, StoryInv, scan \in Slots, doors[scan].id # None,
           NEW flag \in BOOLEAN, NEW word \in {"OFFLINE", "ONLINE"},
           flag <=> word = "OFFLINE", Turn(flag, word)
    PROVE  StoryInv'
  <1> DEFINE me == doors[scan].id
             line == Line(word, me)
  <1>1. hist \in History /\ Kept \in Seq(Lines) /\ doors \in [Slots -> Door]
    BY HistorySequence DEF IInv, TypeOK, History, Kept, Door
  <1>2. me \in Ids /\ line \in Turns(me) /\ line.word = word
    BY <1>1 DEF Door, Turns, Line
  <1>3. line \in Lines /\ \A x : x # me => line \notin Turns(x)
    BY <1>2 DEF Lines, Turns, Line
  <1>4. hist' = Write(hist, line) /\ doors' = [doors EXCEPT ![scan].offline = flag]
    BY DEF Turn
  <1>5. \A j \in Slots : doors'[j].id = doors[j].id /\ (j # scan => doors'[j] = doors[j])
    BY <1>1, <1>4 DEF Door
  <1>6. doors'[scan].offline = flag
    BY <1>1, <1>4 DEF Door
  <1> HIDE DEF line, me
  <1>7. Kept' = Recent!Written(Kept, line)
    <2>1. Rewritten(hist, line)
      BY <1>1, <1>3, WriteIsWritten
    <2> QED BY <1>4, <2>1 DEF Rewritten, Kept
  <1>8. \A x : x # me => /\ Told(Kept', x) # {} => Told(Kept, x) # {}
                        /\ \A f : Matches(Kept, x, f) => Matches(Kept', x, f)
    BY <1>1, <1>3, <1>7, OtherLine
  <1>9. Matches(Kept', me, flag)
    <2>1. flag <=> line.word = "OFFLINE"
      BY <1>2, Zenon
    <2> QED BY <1>1, <1>2, <1>3, <1>7, <2>1, OwnLine
  <1>10. OnlyOfKnown'
    <2> SUFFICES ASSUME NEW x \in Ids, Told(Kept', x) # {} PROVE \E i \in Slots : doors'[i].id = x
      BY DEF OnlyOfKnown
    <2>1. CASE x = me
      BY <1>5, <2>1 DEF me
    <2>2. CASE x # me
      BY <1>5, <1>8, <2>2 DEF StoryInv, OnlyOfKnown
    <2> QED BY <2>1, <2>2
  <1>11. FlagsInv'
    <2> SUFFICES ASSUME NEW j \in Slots, doors'[j].id \in Plain
                 PROVE  Matches(Kept', doors'[j].id, doors'[j].offline)
      BY DEF FlagsInv
    <2>1. CASE j = scan
      BY <1>5, <1>6, <1>9, <2>1, Zenon DEF me
    <2>2. CASE j # scan
      <3>1. doors[j].id # me /\ doors'[j] = doors[j]
        BY <1>5, <2>2 DEF me, IInv, NoTwins
      <3>2. Matches(Kept, doors[j].id, doors[j].offline)
        <4>1. doors[j].id \in Plain
          BY <3>1
        <4> QED BY <4>1, Zenon DEF StoryInv, FlagsInv
      <3> QED BY <1>8, <3>1, <3>2, Zenon
    <2> QED BY <2>1, <2>2
  <1> QED BY <1>10, <1>11 DEF StoryInv

LEMMA StepKeepsStory == IInv /\ StoryInv /\ [Next]_vars => StoryInv'
  <1> SUFFICES ASSUME IInv, StoryInv, [Next]_vars PROVE StoryInv'
    OBVIOUS
  <1>1. ASSUME NEW id \in Ids, NEW kind \in Kinds, NEW from \in Addrs, HandleLine(id, kind, from)
        PROVE  StoryInv'
    BY <1>1, HandleLineKeepsStory
  <1>2. ASSUME UNCHANGED <<doors, hist>> PROVE StoryInv'
    BY <1>2 DEF StoryInv, OnlyOfKnown, FlagsInv, Kept
  <1>3. CASE CheckSlot
    <2>1. scan \in Slots
      BY <1>3 DEF CheckSlot
    <2>2. CASE doors[scan].id # None /\ Turn(TRUE, "OFFLINE")
      BY <2>1, <2>2, TurnKeepsStory
    <2>3. CASE doors[scan].id # None /\ Turn(FALSE, "ONLINE")
      BY <2>1, <2>3, TurnKeepsStory
    <2>4. CASE UNCHANGED <<doors, hist>>
      BY <1>2, <2>4
    <2> QED BY <1>3, <2>2, <2>3, <2>4 DEF CheckSlot
  <1>4. CASE CheckBegin \/ Tick \/ Shutdown \/ UNCHANGED vars
    BY <1>2, <1>4 DEF CheckBegin, Tick, Shutdown, vars
  <1> QED BY <1>1, <1>3, <1>4 DEF Next

\* The last line of the history about the absence or return of a module with a
\* name of its own is the one its flag shows: check_offline_modules changes both, handle_line neither.
THEOREM HistoryAlwaysMatchesFlags == Spec => []HistoryMatchesFlags
  <1>1. Init => StoryInv
    <2> SUFFICES ASSUME Init PROVE StoryInv
      OBVIOUS
    <2>1. hist \in History /\ hist.count = 0
      BY InitIInv DEF IInv, TypeOK, History, Init
    <2>2. Kept = <<>>
      <3>1. Kept \in Seq(Lines) /\ Len(Kept) = 0
        BY <2>1, HistorySequence DEF Kept
      <3> QED BY <3>1
    <2>3. \A id : Told(Kept, id) = {}
      BY <2>2 DEF Told
    <2> QED BY <2>3, Zenon DEF StoryInv, OnlyOfKnown, FlagsInv, Matches
  <1>2. IInv /\ StoryInv => HistoryMatchesFlags
    <2> SUFFICES ASSUME IInv, FlagsInv, NEW i \in Slots, NEW k \in 1 .. hist.count,
                        doors[i].id \in Plain
                 PROVE  LET told == {n \in 1 .. hist.count : NthLine(hist, n) \in Turns(doors[i].id)}
                        IN  k \in told /\ (\A n \in told : n <= k) =>
                                (doors[i].offline <=> NthLine(hist, k).word = "OFFLINE")
      BY DEF HistoryMatchesFlags, StoryInv
    <2>1. hist \in History
      BY DEF IInv, TypeOK, History
    <2>2. /\ DOMAIN Kept = 1 .. hist.count
          /\ \A n \in 1 .. hist.count : Kept[n] = NthLine(hist, n)
      BY <2>1, HistorySequence, LenProperties DEF Kept, NthLine, Position
    <2>3. Told(Kept, doors[i].id) = {n \in 1 .. hist.count : NthLine(hist, n) \in Turns(doors[i].id)}
      BY <2>2 DEF Told
    <2>4. Matches(Kept, doors[i].id, doors[i].offline)
      BY DEF FlagsInv
    <2> QED BY <2>2, <2>3, <2>4, Zenon DEF Matches
  <1> QED BY <1>1, <1>2, StepKeepsStory, Invariant, PTL DEF Spec
=============================================================================
