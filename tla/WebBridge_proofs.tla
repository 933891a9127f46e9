-------------------------- MODULE WebBridge_proofs --------------------------
(***************************************************************************)
(* Proofs about the way of a web client's command, for every number of     *)
(* modules, relay slots, requests and restarts: types, one answer for each *)
(* request, what an answer means, and which client the hub forgets.        *)
(***************************************************************************)
EXTENDS WebBridge, SequenceTheorems, TLAPS

\* An id is in the pending map exactly while its timer runs.
TimersInv == timers = pending

\* What a client can have been told while its request is pending or being sent:
\* nothing, but for get-door-info, whose timer or FEEDBACK may be first.
Early(id) ==
    /\ requests[id].kind = "info"
    /\ \/ answers[id] = <<"error">>
       \/ answers[id] = <<"feedback">> /\ Datagram(id) \in net
AnswersInv ==
    /\ \A id \in pending : answers[id] = <<>>
    /\ \A id \in sending : answers[id] = <<>> \/ Early(id)
    /\ \A id \in sending \cap pending : requests[id].kind = "info"

\* An id that this life of the Node server stands behind: it was asked for, and
\* its datagram did go out.
Left(id) == id \in DOMAIN requests /\ Datagram(id) \in net

\* Who is behind each datagram and each entry of the hub's table.
OriginInv ==
    /\ \A m \in net : m.origin <= life
    /\ \A m \in net : m.kind = "COMMAND" /\ m.to = "hub" /\ m.origin = life =>
                          m.id \in DOMAIN requests /\ m = Datagram(m.id)
    /\ \A m \in net : m.to \in {"door", "node"} /\ m.origin = life => Left(m.id)
    /\ \A i \in Slots : table[i].client <= life
    /\ \A i \in Slots : table[i].id # 0 /\ table[i].client = life => Left(table[i].id)

\* An id nobody else has used is executed on behalf of this life's request only.
Executed(id) == id \in foreign \/ <<life, id>> \in executed
ExecutedInv ==
    /\ \A m \in net : m.to = "door" => m.kind = "COMMAND"
    /\ \A m \in net : m.kind = "COMMAND" /\ m.origin # life => m.id \in foreign
    /\ \A m \in net : m.kind = "FEEDBACK" /\ m.to = "hub" => Executed(m.id)
    /\ \A m \in net : m.to = "node" /\ m.origin = life => Executed(m.id)
    /\ \A e \in executed : e[1] <= life /\ (e[1] = life => e[2] \in DOMAIN requests)

IInv ==
    /\ TypeOK /\ TimersInv /\ AnswersInv /\ OriginInv /\ ExecutedInv
    /\ AnsweredOnce /\ FeedbackMeansExecuted

-----------------------------------------------------------------------------
(* Datagrams, and the sequences of the Node server.                        *)

RequestRecord == [kind : Kinds, module : Modules]
Told == {"feedback", "error"}
Entry == [id : Nat, module : Modules \cup {""}, client : Nat, issued : Nat]

LEMMA DatagramFields ==
    ASSUME NEW n \in Nat, NEW id \in Nat \ {0}, NEW m \in Modules
    PROVE  /\ {ToHub(n, id, m), ToDoor(n, id, m), Answer(id, m), Relayed(n, id, m)} \subseteq Datagrams
           /\ ToDoor(n, id, m) = [kind |-> "COMMAND", to |-> "door", origin |-> n,
                                  id |-> id, module |-> m]
           /\ Relayed(n, id, m) = [kind |-> "FEEDBACK", to |-> "node", origin |-> n,
                                   id |-> id, module |-> m]
  <1>1. ToHub(n, id, m) \in Datagrams /\ Answer(id, m) \in Datagrams
    BY DEF ToHub, Answer, Datagrams
  <1>2. ToDoor(n, id, m) = [kind |-> "COMMAND", to |-> "door", origin |-> n,
                            id |-> id, module |-> m]
    BY DEF ToHub, ToDoor
  <1>3. Relayed(n, id, m) = [kind |-> "FEEDBACK", to |-> "node", origin |-> n,
                             id |-> id, module |-> m]
    <2> DEFINE a == Answer(id, m)
               r == [a EXCEPT !.to = "node"]
    <2>1. r = [kind |-> "FEEDBACK", to |-> "node", origin |-> 0, id |-> id, module |-> m]
      BY DEF Answer
    <2>2. Relayed(n, id, m) = [r EXCEPT !.origin = n]
      BY DEF Relayed
    <2> HIDE DEF r
    <2> QED BY <2>1, <2>2
  <1>4. ToDoor(n, id, m) \in Datagrams /\ Relayed(n, id, m) \in Datagrams
    BY <1>2, <1>3 DEF Datagrams
  <1> QED BY <1>1, <1>2, <1>3, <1>4

\* One answer for each request: both sequences have the same positions.
LEMMA Positions ==
    ASSUME TypeOK
    PROVE  /\ DOMAIN requests = 1 .. Len(requests) /\ DOMAIN answers = 1 .. Len(requests)
           /\ Len(requests) \in Nat
           /\ \A id \in DOMAIN requests : /\ requests[id] \in RequestRecord
                                          /\ answers[id] \in Seq(Told)
                                          /\ id \in Nat \ {0}
                                          /\ Datagram(id) \in Datagrams
  <1>1. requests \in Seq(RequestRecord) /\ answers \in Seq(Seq(Told)) /\ Len(answers) = Len(requests)
    BY DEF TypeOK, RequestRecord, Told
  <1>2. /\ DOMAIN requests = 1 .. Len(requests) /\ DOMAIN answers = 1 .. Len(requests)
        /\ Len(requests) \in Nat
    BY <1>1, LenProperties
  <1>3. \A id \in DOMAIN requests : /\ requests[id] \in RequestRecord
                                    /\ answers[id] \in Seq(Told)
                                    /\ id \in Nat \ {0}
    BY <1>1, <1>2, ElementOfSeq
  <1>4. \A id \in DOMAIN requests : requests[id].module \in Modules /\ life \in Nat
    BY <1>3 DEF RequestRecord, TypeOK
  <1>5. \A id \in DOMAIN requests : Datagram(id) \in Datagrams
    BY <1>3, <1>4, DatagramFields DEF Datagram
  <1> QED BY <1>2, <1>3, <1>5

\* A client is told: one more word in its own answers.
LEMMA TellFacts ==
    ASSUME TypeOK, NEW id \in DOMAIN requests, NEW what \in Told, Tell(id, what)
    PROVE  /\ answers' \in Seq(Seq(Told)) /\ Len(answers') = Len(answers)
           /\ DOMAIN answers' = DOMAIN answers
           /\ answers'[id] = Append(answers[id], what)
           /\ \A j \in DOMAIN answers : j # id => answers'[j] = answers[j]
  <1>1. answers \in Seq(Seq(Told)) /\ id \in DOMAIN answers /\ answers[id] \in Seq(Told)
    BY Positions DEF TypeOK, Told
  <1>2. Append(answers[id], what) \in Seq(Told)
    BY <1>1, AppendProperties
  <1> HIDE DEF Told
  <1>3. answers' = [answers EXCEPT ![id] = Append(answers[id], what)]
    BY DEF Tell
  <1>4. answers' \in Seq(Seq(Told)) /\ Len(answers') = Len(answers)
    BY <1>1, <1>2, <1>3, ExceptSeq, LenProperties
  <1>5. DOMAIN answers' = DOMAIN answers /\ answers'[id] = Append(answers[id], what)
    BY <1>1, <1>3
  <1>6. \A j \in DOMAIN answers : j # id => answers'[j] = answers[j]
    BY <1>1, <1>3
  <1> QED BY <1>4, <1>5, <1>6

\* What most steps need of the types.
LEMMA Types ==
    ASSUME TypeOK
    PROVE  /\ net \subseteq Datagrams /\ table \in [Slots -> Entry]
           /\ life \in Nat /\ 0 < life
           /\ clock \in Nat /\ own \in Nat \ {0} /\ others \in Nat
           /\ executed \subseteq Nat \X (Nat \ {0}) /\ foreign \subseteq Nat \ {0}
           /\ Free.id = 0 /\ Free.client = 0
  <1>1. /\ net \subseteq Datagrams /\ table \in [Slots -> Entry] /\ life \in Nat \ {0}
        /\ clock \in Nat /\ own \in Nat \ {0} /\ others \in Nat
        /\ executed \subseteq Nat \X (Nat \ {0}) /\ foreign \subseteq Nat \ {0}
    BY DEF TypeOK, Entry
  <1>2. Free.id = 0 /\ Free.client = 0
    BY DEF Free
  <1> QED BY <1>1, <1>2

-----------------------------------------------------------------------------
LEMMA InitIInv == Init => IInv
  <1> SUFFICES ASSUME Init PROVE IInv
    OBVIOUS
  <1> USE BoundsAssumption DEF Init
  <1>1. TypeOK
    <2>1. Free \in Entry
      BY DEF Free, Entry
    <2>2. table \in [Slots -> Entry]
      BY <2>1
    <2>3. /\ requests \in Seq([kind : Kinds, module : Modules])
          /\ answers \in Seq(Seq({"feedback", "error"})) /\ Len(answers) = Len(requests)
      BY EmptySeq
    <2>4. /\ sending \subseteq DOMAIN requests /\ pending \subseteq DOMAIN requests
          /\ timers \subseteq DOMAIN requests
          /\ net \subseteq Datagrams /\ executed \subseteq Nat \X (Nat \ {0})
          /\ foreign \subseteq Nat \ {0}
      OBVIOUS
    <2>5. life \in Nat \ {0} /\ clock \in Nat /\ own \in Nat \ {0} /\ others \in Nat
      OBVIOUS
    <2> QED BY <2>2, <2>3, <2>4, <2>5, Zenon DEF TypeOK, Entry
  <1>2. TimersInv /\ AnswersInv
    BY DEF TimersInv, AnswersInv
  <1>3. OriginInv
    <2>1. \A i \in Slots : table[i].client = 0 /\ table[i].id = 0
      BY DEF Free
    <2>2. net = {} /\ life = 1
      OBVIOUS
    <2> QED BY <2>1, <2>2 DEF OriginInv
  <1>4. ExecutedInv
    BY DEF ExecutedInv
  <1>5. AnsweredOnce /\ FeedbackMeansExecuted
    BY DEF AnsweredOnce, FeedbackMeansExecuted
  <1> QED BY <1>1, <1>2, <1>3, <1>4, <1>5 DEF IInv

-----------------------------------------------------------------------------
(* Steps on one side only.                                                 *)

\* The hub and the door change nothing of the Node server, and what they send
\* or execute stays sent and executed.
LEMMA HubSide ==
    ASSUME IInv, UNCHANGED node, net \subseteq net', executed \subseteq executed',
           foreign \subseteq foreign'
    PROVE  /\ TimersInv' /\ AnswersInv' /\ AnsweredOnce' /\ FeedbackMeansExecuted'
           /\ \A id : Left(id) => Left(id)'
           /\ \A id : Executed(id) => Executed(id)'
           /\ \A id : Datagram(id)' = Datagram(id)
  <1> USE DEF node
  <1>1. \A id : Datagram(id)' = Datagram(id)
    BY DEF Datagram
  <1>2. TimersInv'
    BY DEF IInv, TimersInv
  <1>3. \A id : Early(id) => Early(id)'
    BY <1>1 DEF Early
  <1>4. AnswersInv'
    BY <1>3 DEF IInv, AnswersInv
  <1>5. AnsweredOnce'
    BY DEF IInv, AnsweredOnce
  <1>6. FeedbackMeansExecuted'
    BY DEF IInv, FeedbackMeansExecuted
  <1>7. \A id : Left(id) => Left(id)'
    BY <1>1 DEF Left
  <1>8. \A id : Executed(id) => Executed(id)'
    BY DEF Executed
  <1> QED BY <1>1, <1>2, <1>4, <1>5, <1>6, <1>7, <1>8

\* The callbacks and timers of the Node server send nothing.
LEMMA NodeSide ==
    ASSUME IInv, UNCHANGED <<requests, life, net, table, executed, foreign>>
    PROVE  OriginInv' /\ ExecutedInv'
  <1>1. \A id : Datagram(id)' = Datagram(id)
    BY DEF Datagram
  <1>2. \A id : (Left(id) <=> Left(id)') /\ (Executed(id) <=> Executed(id)')
    BY <1>1 DEF Left, Executed
  <1>3. OriginInv'
    BY <1>1, <1>2 DEF IInv, OriginInv
  <1>4. ExecutedInv'
    BY <1>2 DEF IInv, ExecutedInv
  <1> QED BY <1>3, <1>4

-----------------------------------------------------------------------------
(* The hub and the door.                                                   *)

LEMMA ForwardIInv ==
    ASSUME IInv, NEW m \in net, ForwardCommand(m)
    PROVE  IInv'
  <1> USE DEF hub
  <1>1. /\ m \in Datagrams /\ m.kind = "COMMAND" /\ m.to = "hub"
        /\ UNCHANGED <<node, own, others, executed, foreign>>
        /\ net' = net \cup {ToDoor(m.origin, m.id, m.module)}
        /\ clock' = clock + 1
    BY DEF ForwardCommand, IInv, TypeOK
  <1>2. m.origin \in Nat /\ m.id \in Nat \ {0} /\ m.module \in Modules
    BY <1>1 DEF Datagrams
  <1> DEFINE d == ToDoor(m.origin, m.id, m.module)
             e == [id |-> m.id, module |-> m.module, client |-> m.origin, issued |-> clock']
  <1>3. d \in Datagrams /\ d.kind = "COMMAND" /\ d.to = "door" /\ d.origin = m.origin /\ d.id = m.id
    BY <1>2, DatagramFields
  <1>4. PICK i \in Slots : table' = [table EXCEPT ![i] = e]
    BY DEF ForwardCommand
  <1>5. e \in Entry /\ clock' \in Nat
    <2>1. clock \in Nat
      BY DEF IInv, TypeOK
    <2>2. clock' \in Nat
      BY <1>1, <2>1
    <2> QED BY <1>2, <2>2 DEF Entry
  <1>6. table \in [Slots -> Entry]
    BY DEF IInv, TypeOK, Entry
  <1>7. TypeOK'
    <2>1. table' \in [Slots -> Entry]
      BY <1>4, <1>5, <1>6
    <2>2. net' \subseteq Datagrams
      BY <1>1, <1>3 DEF IInv, TypeOK
    <2> QED BY <1>1, <1>5, <2>1, <2>2 DEF node, Entry, IInv, TypeOK
  <1>8. /\ TimersInv' /\ AnswersInv' /\ AnsweredOnce' /\ FeedbackMeansExecuted'
        /\ \A id : Left(id) => Left(id)'
        /\ \A id : Executed(id) => Executed(id)'
        /\ \A id : Datagram(id)' = Datagram(id)
    BY <1>1, HubSide
  <1>9. m.origin <= life /\ (m.origin = life => Left(m.id))
    BY <1>1 DEF IInv, OriginInv, Left
  <1> HIDE DEF d, e
  <1>10. OriginInv'
    <2>1. \A j \in Slots : table'[j] = IF j = i THEN e ELSE table[j]
      BY <1>4, <1>6
    <2>2. e.client = m.origin /\ e.id = m.id
      BY DEF e
    <2>3. net' = net \cup {d} /\ life' = life /\ requests' = requests
      BY <1>1 DEF d, node
    <2>4. \A n \in net' : n.origin <= life'
      BY <1>3, <1>9, <2>3 DEF IInv, OriginInv
    <2>5. \A n \in net' : n.kind = "COMMAND" /\ n.to = "hub" /\ n.origin = life' =>
                          n.id \in DOMAIN requests' /\ n = Datagram(n.id)'
      BY <1>3, <1>8, <2>3 DEF IInv, OriginInv
    <2>6. \A n \in net' : n.to \in {"door", "node"} /\ n.origin = life' => Left(n.id)'
      BY <1>3, <1>8, <1>9, <2>3 DEF IInv, OriginInv
    <2>7. \A j \in Slots : table'[j].client <= life'
      BY <1>9, <2>1, <2>2, <2>3 DEF IInv, OriginInv
    <2>8. \A j \in Slots : table'[j].id # 0 /\ table'[j].client = life' => Left(table[j].id)'
      BY <1>8, <1>9, <2>1, <2>2, <2>3 DEF IInv, OriginInv
    <2> QED BY <2>4, <2>5, <2>6, <2>7, <2>8 DEF OriginInv
  <1>11. ExecutedInv'
    <2>1. net' = net \cup {d} /\ UNCHANGED <<life, requests, executed, foreign>>
      BY <1>1 DEF d, node
    <2>2. m.origin # life => m.id \in foreign
      BY <1>1 DEF IInv, ExecutedInv
    <2>3. \A n \in net' : n.kind = "COMMAND" /\ n.origin # life' => n.id \in foreign'
      BY <1>3, <2>1, <2>2 DEF IInv, ExecutedInv
    <2>4. \A n \in net' : n.kind = "FEEDBACK" /\ n.to = "hub" => Executed(n.id)'
      BY <1>3, <1>8, <2>1 DEF IInv, ExecutedInv
    <2>5. \A n \in net' : n.to = "node" /\ n.origin = life' => Executed(n.id)'
      BY <1>3, <1>8, <2>1 DEF IInv, ExecutedInv
    <2>6. \A n \in net' : n.to = "door" => n.kind = "COMMAND"
      BY <1>3, <2>1 DEF IInv, ExecutedInv
    <2> QED BY <2>1, <2>3, <2>4, <2>5, <2>6 DEF IInv, ExecutedInv
  <1> QED BY <1>7, <1>8, <1>10, <1>11 DEF IInv

LEMMA RelayIInv ==
    ASSUME IInv, NEW m \in net, RelayFeedback(m)
    PROVE  IInv'
  <1> USE DEF hub
  <1>1. PICK i \in Slots :
            /\ IsFirst(i, Clients(m))
            /\ table' = [table EXCEPT ![i] = Free]
            /\ net' = net \cup {Relayed(table[i].client, m.id, m.module)}
    BY DEF RelayFeedback
  <1>2. /\ m \in Datagrams /\ m.kind = "FEEDBACK" /\ m.to = "hub"
        /\ UNCHANGED <<node, clock, own, others, executed, foreign>>
        /\ table[i].id = m.id
    BY <1>1 DEF RelayFeedback, IsFirst, Clients, IInv, TypeOK
  <1>3. table \in [Slots -> Entry]
    BY DEF IInv, TypeOK, Entry
  <1>4. table[i].client \in Nat /\ m.id \in Nat \ {0} /\ m.module \in Modules
    BY <1>2, <1>3 DEF Datagrams, Entry
  <1> DEFINE d == Relayed(table[i].client, m.id, m.module)
  <1>5. /\ d \in Datagrams /\ d.kind = "FEEDBACK" /\ d.to = "node"
        /\ d.origin = table[i].client /\ d.id = m.id
    BY <1>4, DatagramFields
  <1>6. TypeOK'
    <2>1. table' \in [Slots -> Entry]
      BY <1>1, <1>3 DEF Free, Entry
    <2>2. net' \subseteq Datagrams
      BY <1>1, <1>5 DEF IInv, TypeOK
    <2> QED BY <1>2, <2>1, <2>2 DEF node, Entry, IInv, TypeOK
  <1>7. /\ TimersInv' /\ AnswersInv' /\ AnsweredOnce' /\ FeedbackMeansExecuted'
        /\ \A id : Left(id) => Left(id)'
        /\ \A id : Executed(id) => Executed(id)'
        /\ \A id : Datagram(id)' = Datagram(id)
    BY <1>1, <1>2, HubSide
  <1>8. d.origin <= life /\ (d.origin = life => Left(m.id))
    BY <1>2, <1>4, <1>5 DEF IInv, OriginInv
  <1>9. Executed(m.id)
    BY <1>2 DEF IInv, ExecutedInv
  <1>10. net' = net \cup {d} /\ UNCHANGED <<life, requests, executed, foreign>>
    BY <1>1, <1>2 DEF node
  <1> HIDE DEF d
  <1>11. OriginInv'
    <2>1. \A j \in Slots : table'[j] = IF j = i THEN Free ELSE table[j]
      BY <1>1, <1>3
    <2>2. \A n \in net' : n.origin <= life'
      BY <1>8, <1>10 DEF IInv, OriginInv
    <2>3. \A n \in net' : n.kind = "COMMAND" /\ n.to = "hub" /\ n.origin = life' =>
                          n.id \in DOMAIN requests' /\ n = Datagram(n.id)'
      BY <1>5, <1>7, <1>10 DEF IInv, OriginInv
    <2>4. \A n \in net' : n.to \in {"door", "node"} /\ n.origin = life' => Left(n.id)'
      BY <1>5, <1>7, <1>8, <1>10 DEF IInv, OriginInv
    <2>5. \A j \in Slots : table'[j].client <= life'
      BY <1>10, <2>1, Types DEF IInv, OriginInv
    <2>6. \A j \in Slots : table'[j].id # 0 /\ table'[j].client = life' => Left(table[j].id)' /\ table'[j] = table[j]
      BY <1>7, <1>10, <2>1, Types DEF IInv, OriginInv
    <2> QED BY <2>2, <2>3, <2>4, <2>5, <2>6 DEF OriginInv
  <1>12. ExecutedInv'
    BY <1>5, <1>7, <1>9, <1>10 DEF IInv, ExecutedInv
  <1> QED BY <1>6, <1>7, <1>11, <1>12 DEF IInv

LEMMA OwnCommandIInv ==
    ASSUME IInv, NEW m \in Modules, OwnCommand(m)
    PROVE  IInv'
  <1> DEFINE d == ToDoor(Own, own, m)
  <1>1. /\ own \in Nat \ {0} /\ life \in Nat \ {0} /\ others \in Nat
    BY DEF IInv, TypeOK
  <1>2. d \in Datagrams /\ d.kind = "COMMAND" /\ d.to = "door" /\ d.origin = 0 /\ d.id = own
    BY <1>1, DatagramFields DEF Own
  <1>3. /\ net' = net \cup {d} /\ foreign' = foreign \cup {own} /\ own' = own + 1
        /\ others' = others + 1
        /\ UNCHANGED <<node, table, clock, executed>>
    BY DEF OwnCommand, Another
  <1> HIDE DEF d
  <1>4. TypeOK'
    <2>1. net' \subseteq Datagrams /\ foreign' \subseteq Nat \ {0} /\ own' \in Nat \ {0} /\ others' \in Nat
      BY <1>1, <1>2, <1>3, Types DEF IInv
    <2> QED BY <1>3, <2>1 DEF node, IInv, TypeOK
  <1>5. /\ TimersInv' /\ AnswersInv' /\ AnsweredOnce' /\ FeedbackMeansExecuted'
        /\ \A id : Left(id) => Left(id)'
        /\ \A id : Executed(id) => Executed(id)'
        /\ \A id : Datagram(id)' = Datagram(id)
    BY <1>3, HubSide
  <1>6. OriginInv'
    BY <1>1, <1>2, <1>3, <1>5 DEF node, IInv, OriginInv
  <1>7. ExecutedInv'
    BY <1>1, <1>2, <1>3, <1>5 DEF node, IInv, ExecutedInv
  <1> QED BY <1>4, <1>5, <1>6, <1>7 DEF IInv

LEMMA HubRestartsIInv ==
    ASSUME IInv, HubRestarts
    PROVE  IInv'
  <1>1. /\ table' = [i \in Slots |-> Free] /\ own' = 1 /\ others' = others + 1
        /\ UNCHANGED <<node, net, clock, executed, foreign>>
    BY DEF HubRestarts, Another
  <1>2. TypeOK'
    <2>1. table' \in [Slots -> Entry]
      BY <1>1 DEF Free, Entry
    <2>2. others' \in Nat /\ own' \in Nat \ {0}
      BY <1>1, Types DEF IInv
    <2> QED BY <1>1, <2>1, <2>2 DEF node, Entry, IInv, TypeOK
  <1>3. /\ TimersInv' /\ AnswersInv' /\ AnsweredOnce' /\ FeedbackMeansExecuted'
        /\ \A id : Left(id) => Left(id)'
        /\ \A id : Executed(id) => Executed(id)'
        /\ \A id : Datagram(id)' = Datagram(id)
    BY <1>1, HubSide
  <1>4. OriginInv'
    <2>1. \A i \in Slots : table'[i].client = 0 /\ table'[i].id = 0
      BY <1>1 DEF Free
    <2>2. 0 <= life
      BY Types DEF IInv
    <2> QED BY <1>1, <1>3, <2>1, <2>2 DEF node, IInv, OriginInv
  <1>5. ExecutedInv'
    BY <1>1, <1>3 DEF node, IInv, ExecutedInv
  <1> QED BY <1>2, <1>3, <1>4, <1>5 DEF IInv

LEMMA ExecuteIInv ==
    ASSUME IInv, NEW m \in net, Execute(m)
    PROVE  IInv'
  <1> DEFINE d == Answer(m.id, m.module)
  <1>1. /\ m \in Datagrams /\ m.to = "door"
        /\ executed' = executed \cup {<<m.origin, m.id>>} /\ net' = net \cup {d}
        /\ UNCHANGED <<node, hub, others, foreign>>
    BY DEF Execute, IInv, TypeOK
  <1>2. m.origin \in Nat /\ m.id \in Nat \ {0} /\ m.module \in Modules
    BY <1>1 DEF Datagrams
  <1>3. /\ d \in Datagrams /\ d.kind = "FEEDBACK" /\ d.to = "hub" /\ d.origin = 0 /\ d.id = m.id
    BY <1>2, DatagramFields DEF Answer
  <1> HIDE DEF d
  <1>4. TypeOK'
    <2>1. net' \subseteq Datagrams /\ executed' \subseteq Nat \X (Nat \ {0})
      BY <1>1, <1>2, <1>3, Types DEF IInv
    <2> QED BY <1>1, <2>1 DEF node, hub, IInv, TypeOK
  <1>5. /\ TimersInv' /\ AnswersInv' /\ AnsweredOnce' /\ FeedbackMeansExecuted'
        /\ \A id : Left(id) => Left(id)'
        /\ \A id : Executed(id) => Executed(id)'
        /\ \A id : Datagram(id)' = Datagram(id)
    BY <1>1, HubSide
  <1>6. OriginInv'
    <2>1. 0 <= life
      BY Types DEF IInv
    <2>2. UNCHANGED <<table, life, requests>>
      BY <1>1 DEF node, hub
    <2> QED BY <1>1, <1>3, <1>5, <2>1, <2>2 DEF IInv, OriginInv
  <1>7. m.origin <= life /\ (m.origin = life => m.id \in DOMAIN requests)
    BY <1>1 DEF IInv, OriginInv, Left
  <1>8. Executed(m.id)'
    <2>1. CASE m.origin = life
      BY <1>1, <2>1 DEF node, Executed
    <2>2. CASE m.origin # life
      BY <1>1, <2>2 DEF Executed, IInv, ExecutedInv
    <2> QED BY <2>1, <2>2
  <1>9. ExecutedInv'
    <2>1. UNCHANGED <<life, requests, foreign>>
      BY <1>1 DEF node
    <2>2. \A e \in executed' : e[1] <= life' /\ (e[1] = life' => e[2] \in DOMAIN requests')
      BY <1>1, <1>7, <2>1 DEF IInv, ExecutedInv
    <2>3. \A n \in net' : n.kind = "FEEDBACK" /\ n.to = "hub" => Executed(n.id)'
      BY <1>1, <1>3, <1>5, <1>8 DEF IInv, ExecutedInv
    <2> QED BY <1>1, <1>3, <1>5, <2>1, <2>2, <2>3 DEF IInv, ExecutedInv
  <1> QED BY <1>4, <1>5, <1>6, <1>9 DEF IInv

-----------------------------------------------------------------------------
(* The Node server.                                                        *)

\* The first word a client is told, and the second one.
LEMMA Words ==
    ASSUME NEW what \in Told
    PROVE  /\ Append(<<>>, what) = <<what>> /\ Len(<<what>>) = 1
           /\ Append(<<what>>, what) = <<what, what>>
  <1>1. Append(<<>>, what) = <<what>> /\ Len(<<what>>) = 1
    OBVIOUS
  <1>2. Append(<<what>>, what) = <<what, what>>
    <2> DEFINE s == Append(<<what>>, what)
               t == <<what, what>>
    <2>1. <<what>> \in Seq(Told) /\ t \in Seq(Told) /\ Len(t) = 2
      OBVIOUS
    <2>2. s \in Seq(Told) /\ Len(s) = 2
      BY <2>1, AppendProperties
    <2>3. s[1] = what /\ s[2] = what /\ t[1] = what /\ t[2] = what
      BY <2>1, AppendProperties
    <2> HIDE DEF s, t
    <2>4. \A i \in 1 .. Len(s) : s[i] = t[i]
      BY <2>2, <2>3
    <2> QED BY <2>1, <2>2, <2>4, SeqEqual DEF s, t
  <1> QED BY <1>1, <1>2

\* A request is settled: by its timer, an error of send, or a FEEDBACK.  It
\* was told nothing yet, or only what get-door-info is told by its timer.
LEMMA SettleIInv ==
    ASSUME IInv, NEW id \in DOMAIN requests, NEW what \in Told,
           Forget(id), Tell(id, what), sending' \subseteq sending,
           UNCHANGED <<requests, life, net, hub, others, executed, foreign>>,
           \/ answers[id] = <<>>
           \/ /\ id \notin sending' /\ requests[id].kind = "info"
              /\ answers[id] = <<"error">> /\ what = "error",
           id \in sending' => requests[id].kind = "info" /\ (what = "feedback" => Datagram(id) \in net),
           what = "feedback" => Executed(id)
    PROVE  IInv'
  <1>1. /\ answers' \in Seq(Seq(Told)) /\ Len(answers') = Len(answers)
        /\ DOMAIN answers' = DOMAIN answers
        /\ answers'[id] = Append(answers[id], what)
        /\ \A j \in DOMAIN answers : j # id => answers'[j] = answers[j]
    BY TellFacts DEF IInv
  <1>2. /\ DOMAIN requests = 1 .. Len(requests) /\ DOMAIN answers = DOMAIN requests
    BY Positions DEF IInv
  <1>3. answers'[id] = <<what>> \/ (id \notin sending' /\ requests[id].kind = "info"
                                    /\ answers'[id] = <<"error", "error">> /\ what = "error")
    BY <1>1, Words
  <1>4. /\ pending' = pending \ {id} /\ timers' = timers \ {id}
        /\ sending \subseteq DOMAIN requests /\ pending \subseteq DOMAIN requests
        /\ timers \subseteq DOMAIN requests
    BY DEF Forget, IInv, TypeOK
  <1>5. \A j : Datagram(j)' = Datagram(j)
    BY DEF Datagram
  <1>6. TypeOK'
    BY <1>1, <1>4 DEF Told, hub, IInv, TypeOK
  <1>7. TimersInv'
    BY <1>4 DEF IInv, TimersInv
  <1>8. AnswersInv'
    <2>1. \A j \in pending' : answers'[j] = <<>>
      BY <1>1, <1>2, <1>4 DEF IInv, AnswersInv
    <2>2. ASSUME NEW j \in sending' PROVE answers'[j] = <<>> \/ Early(j)'
      <3>1. CASE j = id
        BY <1>3, <1>5, <2>2, <3>1 DEF Early, Told
      <3>2. CASE j # id
        <4>1. answers'[j] = answers[j] /\ j \in sending
          BY <1>1, <1>2, <1>4, <2>2, <3>2
        <4> QED BY <1>5, <4>1 DEF IInv, AnswersInv, Early
      <3> QED BY <3>1, <3>2
    <2>3. \A j \in sending' \cap pending' : requests'[j].kind = "info"
      BY <1>4 DEF IInv, AnswersInv
    <2> QED BY <2>1, <2>2, <2>3 DEF AnswersInv
  <1>9. OriginInv' /\ ExecutedInv'
    BY NodeSide DEF hub
  <1>10. AnsweredOnce'
    <2> SUFFICES ASSUME NEW j \in DOMAIN answers'
                 PROVE  \/ Len(answers'[j]) <= 1
                        \/ requests'[j].kind = "info" /\ answers'[j] = <<"error", "error">>
      BY DEF AnsweredOnce
    <2>1. CASE j = id
      BY <1>3, <2>1, Words
    <2>2. CASE j # id
      BY <1>1, <2>2 DEF IInv, AnsweredOnce
    <2> QED BY <2>1, <2>2
  <1>11. FeedbackMeansExecuted'
    <2> SUFFICES ASSUME NEW j \in DOMAIN answers' \ foreign', NEW n \in DOMAIN answers'[j],
                        answers'[j][n] = "feedback"
                 PROVE  <<life', j>> \in executed'
      BY DEF FeedbackMeansExecuted
    <2>1. CASE j = id
      <3>1. what = "feedback"
        BY <1>3, <2>1
      <3> QED BY <2>1, <3>1 DEF Executed
    <2>2. CASE j # id
      BY <1>1, <2>2 DEF IInv, FeedbackMeansExecuted
    <2> QED BY <2>1, <2>2
  <1> QED BY <1>6, <1>7, <1>8, <1>9, <1>10, <1>11 DEF IInv

LEMMA TimesOutIInv ==
    ASSUME IInv, NEW id \in timers, TimesOut(id)
    PROVE  IInv'
  <1>1. id \in DOMAIN requests /\ id \in pending /\ answers[id] = <<>>
    BY DEF IInv, TypeOK, TimersInv, AnswersInv
  <1>2. id \in sending => requests[id].kind = "info"
    BY <1>1 DEF IInv, AnswersInv
  <1>3. /\ Forget(id) /\ Tell(id, "error") /\ "error" \in Told
        /\ UNCHANGED <<requests, sending, life, net, hub, others, executed, foreign>>
    BY DEF TimesOut, Told
  <1> QED BY <1>1, <1>2, <1>3, SettleIInv

LEMMA SendFailsIInv ==
    ASSUME IInv, NEW id \in sending, SendFails(id)
    PROVE  IInv'
  <1>1. /\ Forget(id) /\ Tell(id, "error") /\ "error" \in Told
        /\ sending' = sending \ {id} /\ Datagram(id) \notin net
        /\ UNCHANGED <<requests, life, net, hub, others, executed, foreign>>
    BY DEF SendFails, Told
  <1>2. id \in DOMAIN requests
    BY DEF IInv, TypeOK
  <1>3. answers[id] = <<>> \/ (requests[id].kind = "info" /\ answers[id] = <<"error">>)
    BY <1>1 DEF IInv, AnswersInv, Early
  <1> QED BY <1>1, <1>2, <1>3, SettleIInv

LEMMA NodeFeedbackIInv ==
    ASSUME IInv, NEW m \in net, NodeFeedback(m)
    PROVE  IInv'
  <1>1. /\ m.to = "node" /\ m.origin = life /\ m.id \in pending
        /\ Forget(m.id) /\ Tell(m.id, "feedback") /\ "feedback" \in Told
        /\ UNCHANGED <<requests, sending, life, net, hub, others, executed, foreign>>
    BY DEF NodeFeedback, Found, Told
  <1>2. /\ m.id \in DOMAIN requests /\ answers[m.id] = <<>>
        /\ m.id \in sending => requests[m.id].kind = "info"
    BY <1>1 DEF IInv, TypeOK, AnswersInv
  <1>3. Datagram(m.id) \in net /\ Executed(m.id)
    BY <1>1 DEF IInv, OriginInv, Left, ExecutedInv
  <1> QED BY <1>1, <1>2, <1>3, SettleIInv

\* send has called back: a request with a socket is tracked from here on.
LEMMA SentIInv ==
    ASSUME IInv, NEW id \in sending, Sent(id)
    PROVE  IInv'
  <1>1. /\ sending' = sending \ {id} /\ Datagram(id) \in net
        /\ UNCHANGED <<requests, answers, life, net, hub, others, executed, foreign>>
        /\ \/ requests[id].kind = "socket" /\ Track(id)
           \/ requests[id].kind # "socket" /\ UNCHANGED <<pending, timers>>
    BY DEF Sent
  <1>2. id \in DOMAIN requests /\ (answers[id] = <<>> \/ Early(id))
    BY DEF IInv, TypeOK, AnswersInv
  <1>3. /\ pending' = pending \/ (pending' = pending \cup {id} /\ answers[id] = <<>>)
        /\ timers' = pending' /\ pending \subseteq pending'
    BY <1>1, <1>2 DEF Track, Early, IInv, TimersInv
  <1>4. TypeOK'
    BY <1>1, <1>2, <1>3 DEF hub, IInv, TypeOK
  <1>5. \A j : Early(j) => Early(j)'
    BY <1>1 DEF Early, Datagram
  <1>6. TimersInv'
    BY <1>3 DEF TimersInv
  <1>7. AnswersInv'
    BY <1>1, <1>3, <1>5 DEF IInv, AnswersInv
  <1>8. OriginInv' /\ ExecutedInv'
    BY <1>1, NodeSide DEF hub
  <1>9. AnsweredOnce' /\ FeedbackMeansExecuted'
    BY <1>1 DEF IInv, AnsweredOnce, FeedbackMeansExecuted
  <1> QED BY <1>4, <1>6, <1>7, <1>8, <1>9 DEF IInv

\* The datagram of a request goes out: it is this life's, and for the hub.
LEMMA LeavesIInv ==
    ASSUME IInv, NEW id \in sending, Leaves(id)
    PROVE  IInv'
  <1> DEFINE d == Datagram(id)
  <1>1. /\ net' = net \cup {d}
        /\ UNCHANGED <<node, hub, others, executed, foreign>>
    BY DEF Leaves
  <1>2. id \in DOMAIN requests
    BY DEF IInv, TypeOK
  <1>3. /\ d \in Datagrams /\ d.kind = "COMMAND" /\ d.to = "hub" /\ d.origin = life /\ d.id = id
    BY <1>2, Positions DEF IInv, Datagram, ToHub
  <1>4. TypeOK'
    BY <1>1, <1>3 DEF node, hub, IInv, TypeOK
  <1>5. /\ TimersInv' /\ AnswersInv' /\ AnsweredOnce' /\ FeedbackMeansExecuted'
        /\ \A j : Left(j) => Left(j)'
        /\ \A j : Executed(j) => Executed(j)'
        /\ \A j : Datagram(j)' = Datagram(j)
    BY <1>1, HubSide
  <1>6. d = Datagram(d.id) /\ life <= life /\ UNCHANGED <<life, requests, table>>
    BY <1>1, <1>3, Types DEF IInv, node, hub
  <1> HIDE DEF d
  <1>7. OriginInv'
    BY <1>1, <1>2, <1>3, <1>5, <1>6 DEF IInv, OriginInv
  <1>8. ExecutedInv'
    BY <1>1, <1>3, <1>5, <1>6 DEF IInv, ExecutedInv
  <1> QED BY <1>4, <1>5, <1>7, <1>8 DEF IInv

\* A new request has the next id: nothing was told, sent or noted for it yet.
LEMMA RequestIInv ==
    ASSUME IInv, NEW kind \in Kinds, NEW m \in Modules, Request(kind, m)
    PROVE  IInv'
  <1> DEFINE id == Len(requests) + 1
             r == [kind |-> kind, module |-> m]
  <1>1. /\ requests' = Append(requests, r) /\ answers' = Append(answers, <<>>)
        /\ sending' = sending \cup {id}
        /\ UNCHANGED <<life, net, hub, others, executed, foreign>>
        /\ \/ kind = "info" /\ Track(id)
           \/ UNCHANGED <<pending, timers>>
    BY DEF Request
  <1>2. /\ requests \in Seq(RequestRecord) /\ answers \in Seq(Seq(Told))
        /\ Len(answers) = Len(requests) /\ r \in RequestRecord /\ <<>> \in Seq(Told)
    BY EmptySeq DEF RequestRecord, Told, IInv, TypeOK
  <1>3. /\ DOMAIN requests = 1 .. Len(requests) /\ DOMAIN answers = DOMAIN requests
        /\ Len(requests) \in Nat
    BY Positions DEF IInv
  <1> HIDE DEF r
  <1>4. /\ requests' \in Seq(RequestRecord) /\ Len(requests') = Len(requests) + 1
        /\ \A j \in 1 .. Len(requests) : requests'[j] = requests[j]
        /\ requests'[id] = r
    BY <1>1, <1>2, AppendProperties
  <1>5. /\ answers' \in Seq(Seq(Told)) /\ Len(answers') = Len(answers) + 1
        /\ \A j \in 1 .. Len(answers) : answers'[j] = answers[j]
        /\ answers'[id] = <<>>
    BY <1>1, <1>2, AppendProperties
  <1>6. /\ DOMAIN requests' = 1 .. Len(requests') /\ DOMAIN answers' = 1 .. Len(answers')
    BY <1>4, <1>5, LenProperties
  <1>7. /\ DOMAIN requests' = DOMAIN requests \cup {id} /\ DOMAIN answers' = DOMAIN answers \cup {id}
        /\ id \notin DOMAIN requests
    BY <1>2, <1>3, <1>4, <1>5, <1>6
  <1>8. /\ sending \subseteq DOMAIN requests /\ pending \subseteq DOMAIN requests
        /\ timers = pending
    BY DEF IInv, TypeOK, TimersInv
  <1>9. timers' = pending' /\ (pending' = pending \/ (kind = "info" /\ pending' = pending \cup {id}))
    BY <1>1, <1>8 DEF Track
  <1>10. \A j \in DOMAIN requests : /\ requests'[j] = requests[j] /\ answers'[j] = answers[j]
                                    /\ Datagram(j)' = Datagram(j)
    BY <1>1, <1>2, <1>3, <1>4, <1>5 DEF Datagram
  <1> HIDE DEF id
  <1>11. TypeOK'
    <2>1. requests' \in Seq([kind : Kinds, module : Modules])
          /\ answers' \in Seq(Seq({"feedback", "error"})) /\ Len(answers') = Len(requests')
      BY <1>2, <1>4, <1>5 DEF RequestRecord, Told
    <2>2. /\ sending' \subseteq DOMAIN requests' /\ pending' \subseteq DOMAIN requests'
          /\ timers' \subseteq DOMAIN requests'
      BY <1>1, <1>7, <1>8, <1>9
    <2>3. /\ life' \in Nat \ {0} /\ net' \subseteq Datagrams
          /\ table' \in [Slots -> [id : Nat, module : Modules \cup {""}, client : Nat, issued : Nat]]
          /\ clock' \in Nat /\ own' \in Nat \ {0} /\ others' \in Nat
          /\ executed' \subseteq Nat \X (Nat \ {0}) /\ foreign' \subseteq Nat \ {0}
      BY <1>1 DEF hub, IInv, TypeOK
    <2> QED BY <2>1, <2>2, <2>3 DEF TypeOK
  <1>12. TimersInv'
    BY <1>9 DEF TimersInv
  <1>13. AnswersInv'
    <2>1. \A j \in pending' : answers'[j] = <<>>
      BY <1>5, <1>8, <1>9, <1>10 DEF IInv, AnswersInv
    <2>2. \A j \in DOMAIN requests : Early(j) => Early(j)'
      BY <1>1, <1>10 DEF Early
    <2>3. \A j \in sending' : answers'[j] = <<>> \/ Early(j)'
      BY <1>1, <1>5, <1>8, <1>10, <2>2 DEF IInv, AnswersInv
    <2>4. requests'[id].kind = kind
      BY <1>4 DEF id, r
    <2>5. \A j \in sending' \cap pending' : requests'[j].kind = "info"
      BY <1>1, <1>7, <1>8, <1>9, <1>10, <2>4 DEF IInv, AnswersInv
    <2> QED BY <2>1, <2>3, <2>5 DEF AnswersInv
  <1>14. \A j : Left(j) => Left(j)'
    BY <1>1, <1>7, <1>10 DEF Left
  <1>15. OriginInv'
    BY <1>1, <1>7, <1>10, <1>14 DEF hub, IInv, OriginInv
  <1>16. ExecutedInv'
    BY <1>1, <1>7 DEF Executed, IInv, ExecutedInv
  <1>17. AnsweredOnce' /\ FeedbackMeansExecuted'
    <2>1. Len(<<>>) = 0 /\ DOMAIN <<>> = {}
      OBVIOUS
    <2>2. Len(answers'[id]) <= 1 /\ DOMAIN (answers'[id]) = {}
      BY <1>5, <2>1
    <2>3. AnsweredOnce'
      BY <1>3, <1>7, <1>10, <2>2 DEF IInv, AnsweredOnce
    <2>4. FeedbackMeansExecuted'
      BY <1>1, <1>3, <1>7, <1>10, <2>2 DEF IInv, FeedbackMeansExecuted
    <2> QED BY <2>3, <2>4
  <1> QED BY <1>11, <1>12, <1>13, <1>15, <1>16, <1>17 DEF IInv

\* The next life has asked for nothing; what is still under way is not its own.
LEMMA NodeRestartsIInv ==
    ASSUME IInv, NodeRestarts
    PROVE  IInv'
  <1>1. /\ life' = life + 1 /\ requests' = <<>> /\ answers' = <<>>
        /\ sending' = {} /\ pending' = {} /\ timers' = {}
        /\ foreign' = foreign \cup DOMAIN requests /\ others' = others + 1
        /\ UNCHANGED <<net, hub, executed>>
    BY DEF NodeRestarts, Another
  <1>2. /\ net \subseteq Datagrams /\ table \in [Slots -> Entry] /\ life \in Nat /\ others \in Nat
        /\ foreign \subseteq Nat \ {0} /\ DOMAIN requests \subseteq Nat \ {0}
    BY Types, Positions DEF IInv
  <1>3. TypeOK'
    <2>1. /\ requests' \in Seq([kind : Kinds, module : Modules])
          /\ answers' \in Seq(Seq({"feedback", "error"})) /\ Len(answers') = Len(requests')
      BY <1>1, EmptySeq
    <2>2. /\ life' \in Nat \ {0} /\ others' \in Nat
      BY <1>1, <1>2
    <2>3. foreign' \subseteq Nat \ {0}
      BY <1>1, <1>2, Zenon
    <2>4. /\ net' \subseteq Datagrams /\ executed' \subseteq Nat \X (Nat \ {0})
          /\ table' \in [Slots -> [id : Nat, module : Modules \cup {""}, client : Nat, issued : Nat]]
          /\ clock' \in Nat /\ own' \in Nat \ {0}
      BY <1>1 DEF hub, IInv, TypeOK
    <2> QED BY <1>1, <2>1, <2>2, <2>3, <2>4 DEF TypeOK
  <1>4. TimersInv' /\ AnswersInv' /\ AnsweredOnce' /\ FeedbackMeansExecuted'
    BY <1>1 DEF TimersInv, AnswersInv, AnsweredOnce, FeedbackMeansExecuted
  <1>5. \A m \in net : m.origin \in Nat /\ m.origin <= life
    BY <1>2 DEF IInv, OriginInv, Datagrams
  <1>6. \A i \in Slots : table[i].client \in Nat /\ table[i].client <= life
    BY <1>2 DEF IInv, OriginInv, Entry
  <1>7. UNCHANGED <<net, table, executed>>
    BY <1>1 DEF hub
  <1>8. OriginInv'
    <2>1. \A m \in net' : m.origin <= life' /\ m.origin # life'
      BY <1>1, <1>2, <1>5, <1>7
    <2>2. \A i \in Slots : table'[i].client <= life' /\ table'[i].client # life'
      BY <1>1, <1>2, <1>6, <1>7
    <2> QED BY <2>1, <2>2 DEF OriginInv
  <1>9. ExecutedInv'
    <2>1. \A m \in net' : m.kind = "COMMAND" => m.id \in foreign'
      <3> SUFFICES ASSUME NEW m \in net, m.kind = "COMMAND" PROVE m.id \in foreign'
        BY <1>7
      <3>1. CASE m.origin # life
        BY <1>1, <3>1 DEF IInv, ExecutedInv
      <3>2. CASE m.origin = life
        <4>1. m.to \in {"hub", "door", "node"}
          BY <1>2 DEF Datagrams
        <4>2. m.id \in DOMAIN requests
          BY <3>2, <4>1 DEF IInv, OriginInv, Left
        <4> QED BY <1>1, <4>2
      <3> QED BY <3>1, <3>2
    <2>2. \A id : Executed(id) => Executed(id)'
      <3> SUFFICES ASSUME NEW id, <<life, id>> \in executed PROVE id \in foreign'
        BY <1>1 DEF Executed
      <3>1. id \in DOMAIN requests
        BY DEF IInv, ExecutedInv
      <3> QED BY <1>1, <3>1
    <2>3. \A m \in net' : m.origin # life'
      BY <1>1, <1>2, <1>5, <1>7
    <2>4. \A e \in executed' : e[1] <= life' /\ e[1] # life'
      <3> SUFFICES ASSUME NEW e \in executed PROVE e[1] <= life + 1 /\ e[1] # life + 1
        BY <1>1, <1>7
      <3>1. e[1] \in Nat
        BY Types DEF IInv
      <3> QED BY <1>2, <3>1 DEF IInv, ExecutedInv
    <2> QED BY <1>7, <2>1, <2>2, <2>3, <2>4 DEF IInv, ExecutedInv
  <1> QED BY <1>3, <1>4, <1>8, <1>9 DEF IInv

-----------------------------------------------------------------------------
LEMMA StepIInv == IInv /\ [Next]_vars => IInv'
  <1> SUFFICES ASSUME IInv, [Next]_vars PROVE IInv'
    OBVIOUS
  <1>1. ASSUME NEW kind \in Kinds, NEW m \in Modules, Request(kind, m) PROVE IInv'
    BY <1>1, RequestIInv
  <1>2. ASSUME NEW id \in sending, Leaves(id) \/ Callback(id) PROVE IInv'
    BY <1>2, LeavesIInv, SentIInv, SendFailsIInv DEF Callback
  <1>3. ASSUME NEW id \in timers, TimesOut(id) PROVE IInv'
    BY <1>3, TimesOutIInv
  <1>4. ASSUME NEW d \in net,
               NodeFeedback(d) \/ ForwardCommand(d) \/ RelayFeedback(d) \/ Execute(d)
        PROVE  IInv'
    BY <1>4, NodeFeedbackIInv, ForwardIInv, RelayIInv, ExecuteIInv
  <1>5. ASSUME NEW m \in Modules, OwnCommand(m) PROVE IInv'
    BY <1>5, OwnCommandIInv
  <1>6. CASE NodeRestarts
    BY <1>6, NodeRestartsIInv
  <1>7. CASE HubRestarts
    BY <1>7, HubRestartsIInv
  <1>8. CASE UNCHANGED vars
    <2>1. UNCHANGED <<node, net, hub, others, executed, foreign>>
      BY <1>8 DEF vars
    <2>2. TypeOK'
      BY <2>1 DEF node, hub, IInv, TypeOK
    <2>3. TimersInv' /\ AnswersInv' /\ AnsweredOnce' /\ FeedbackMeansExecuted'
      BY <2>1, HubSide
    <2>4. OriginInv' /\ ExecutedInv'
      BY <2>1, NodeSide DEF node, hub
    <2> QED BY <2>2, <2>3, <2>4 DEF IInv
  <1> QED BY <1>1, <1>2, <1>3, <1>4, <1>5, <1>6, <1>7, <1>8 DEF Next

\* What holds all the way of a command: from the client's request over the
\* hub's table and the door to the answer.
THEOREM Invariant == Spec => []IInv
  <1> QED BY InitIInv, StepIInv, PTL DEF Spec

\* Every variable has its type; what is sending, pending or timed was asked.
THEOREM TypeCorrect == Spec => []TypeOK
  <1>1. IInv => TypeOK
    BY DEF IInv
  <1> QED BY <1>1, Invariant, PTL

\* A client is told one thing about a request (sendCommand, get-door-info and
\* the 'message' handler of door_server.js), but for get-door-info, which may
\* say null twice.
THEOREM ClientsAreAnsweredOnce == Spec => []AnsweredOnce
  <1>1. IInv => AnsweredOnce
    BY DEF IInv
  <1> QED BY <1>1, Invariant, PTL

\* A client told of FEEDBACK had its command executed by the door, unless the
\* hub itself or an earlier Node server used the same id.
THEOREM FeedbackAlwaysMeansExecuted == Spec => []FeedbackMeansExecuted
  <1>1. IInv => FeedbackMeansExecuted
    BY DEF IInv
  <1> QED BY <1>1, Invariant, PTL

-----------------------------------------------------------------------------
\* One client more in the table: in a free slot, or where the oldest was.
Evicts(i) == table[i].id # 0 /\ table'[i].id # 0 /\ table'[i] # table[i]
LeavesOlder(i) == \A j \in Slots : table[j].id # 0 /\ table[j].issued >= table[i].issued

LEMMA ForwardEvicts ==
    ASSUME TypeOK, NEW m \in net, ForwardCommand(m), NEW i \in Slots, Evicts(i)
    PROVE  LeavesOlder(i)
  <1>1. PICK k \in Slots : /\ k \in Victims
                           /\ table' = [table EXCEPT ![k] = [id |-> m.id, module |-> m.module,
                                                  client |-> m.origin, issued |-> clock']]
    BY DEF ForwardCommand, IsFirst
  <1>2. i = k
    BY <1>1, Types DEF Evicts
  <1>3. FreeSlots = {} /\ i \in Oldest
    BY <1>1, <1>2 DEF Victims, FreeSlots, Evicts
  <1>4. \A j \in Slots : table[j].id # 0 /\ table[i].issued <= table[j].issued
    BY <1>3 DEF FreeSlots, Oldest
  <1>5. \A j \in Slots : table[j].issued \in Nat
    BY Types DEF Entry
  <1> QED BY <1>4, <1>5 DEF LeavesOlder

\* register_client_command overwrites an entry that still waits for its FEEDBACK
\* only when no slot is free, and then one that nobody has waited longer than.
THEOREM OnlyTheOldestIsEvicted == Spec => EvictsOnlyTheOldest
  <1> DEFINE A == \A i \in Slots : Evicts(i) => LeavesOlder(i)
  <1>1. TypeOK /\ [Next]_vars => [A]_vars
    <2> SUFFICES ASSUME TypeOK, Next, NEW i \in Slots, Evicts(i) PROVE LeavesOlder(i)
      OBVIOUS
    <2>1. table' # table
      BY DEF Evicts
    <2>2. ASSUME NEW d \in net, RelayFeedback(d) PROVE FALSE
      <3>1. PICK k \in Slots : table' = [table EXCEPT ![k] = Free]
        BY <2>2 DEF RelayFeedback
      <3> QED BY <3>1, Types DEF Evicts
    <2>3. ~HubRestarts
      BY Types DEF HubRestarts, Evicts
    <2>4. \E d \in net : ForwardCommand(d)
      BY <2>1, <2>2, <2>3
         DEF Next, hub, Request, Callback, Leaves, Sent, SendFails, TimesOut, NodeFeedback,
             Execute, OwnCommand, NodeRestarts
    <2> QED BY <2>4, ForwardEvicts
  <1>2. [A]_vars => [\A i \in Slots :
                        table[i].id # 0 /\ table'[i].id # 0 /\ table'[i] # table[i] =>
                        \A j \in Slots : table[j].id # 0 /\ table[j].issued >= table[i].issued]_vars
    BY DEF Evicts, LeavesOlder
  <1> HIDE DEF A
  <1> QED BY <1>1, <1>2, TypeCorrect, PTL DEF Spec, EvictsOnlyTheOldest
=============================================================================
