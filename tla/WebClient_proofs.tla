-------------------------- MODULE WebClient_proofs --------------------------
(***************************************************************************)
(* Proofs about the web pages, for every number of pages, polls, clicks,   *)
(* requests and answers: the types, and that a button that works shows a   *)
(* lock the door has reported.                                             *)
(***************************************************************************)
EXTENDS WebClient, SequenceTheorems, FiniteSetTheorems, TLAPS

\* What the door has said of its bolt is in "reported", wherever it has got to.
ReportedInv ==
    /\ answers \cap Bolted \subseteq reported
    /\ \A p \in Pages : \A n \in DOMAIN inbox[p] :
          inbox[p][n].action \in Bolted => inbox[p][n].action \in reported

\* A page's entry shows a lock only as reported, and a door that it shows
\* closed has one.
Backed(c) ==
    /\ c.lockLocked = "true" => "STATUS_LOCKED" \in reported
    /\ c.lockLocked = "false" => "STATUS_UNLOCKED" \in reported
    /\ c.doorOpen = "false" => c.lockLocked # "null"
CacheInv == \A p \in Pages : Backed(cache[p])

IInv == TypeOK /\ ReportedInv /\ CacheInv

-----------------------------------------------------------------------------
LEMMA InitIInv == Init => IInv
  <1> SUFFICES ASSUME Init PROVE IInv
    OBVIOUS
  <1> USE BoundsAssumption, PollsAssumption DEF Init
  <1>1. TypeOK
    <2>1. open \in BOOLEAN /\ locked \in BOOLEAN /\ enabled \in [Pages -> BOOLEAN]
      BY Zenon
    <2>2. requests \subseteq Requests /\ reported \subseteq Bolted
      BY DEF Requests
    <2>3. answers \subseteq Answers /\ Cardinality(answers) <= MaxAnswers
      BY FS_EmptySet
    <2>4. inbox \in [Pages -> Seq(Events)] /\ \A p \in Pages : Len(inbox[p]) <= 3
      BY EmptySeq
    <2>5. cache \in [Pages -> [doorOpen : Known, lockLocked : Known]] /\ loops \in [Pages -> SUBSET Loops]
      BY DEF Known
    <2>6. clicks \in 0 .. MaxClicks /\ moves \in 0 .. MaxMoves /\ errors \in 0 .. MaxErrors
      OBVIOUS
    <2> QED BY <2>1, <2>2, <2>3, <2>4, <2>5, <2>6, Zenon DEF TypeOK
  <1>2. ReportedInv
    BY DEF ReportedInv
  <1>3. CacheInv
    BY DEF CacheInv, Backed
  <1> QED BY <1>1, <1>2, <1>3 DEF IInv

-----------------------------------------------------------------------------
(* Answers in flight.                                                      *)

LEMMA AnswersFinite ==
    ASSUME answers \subseteq Answers
    PROVE  IsFiniteSet(answers) /\ Cardinality(answers) \in Nat
  <1> DEFINE A == ((((({} \cup {"STATUS_LOCKED"}) \cup {"STATUS_UNLOCKED"}) \cup {"STATUS_OPEN"})
                    \cup {"STATUS_UNKNOWN"}) \cup {"LOCK"}) \cup {"UNLOCK"}
  <1>1. Answers = A
    BY DEF Answers, Statuses
  <1>2. IsFiniteSet(A)
    <2>1. \A S, x : IsFiniteSet(S) => IsFiniteSet(S \cup {x})
      BY FS_AddElement
    <2> QED BY <2>1, FS_EmptySet, Zenon
  <1> HIDE DEF A
  <1> QED BY <1>1, <1>2, FS_Subset, FS_CardinalityType

\* FEEDBACK is one answer more, or none when too many are in flight.
LEMMA AnsweredFacts ==
    ASSUME answers \subseteq Answers, Cardinality(answers) <= MaxAnswers,
           NEW a \in Answers, Answered(a)
    PROVE  /\ answers' \subseteq Answers /\ Cardinality(answers') <= MaxAnswers
           /\ answers' \subseteq answers \cup {a}
  <1>1. IsFiniteSet(answers) /\ Cardinality(answers) \in Nat /\ MaxAnswers \in Nat
    BY AnswersFinite, BoundsAssumption
  <1>2. CASE Cardinality(answers) < MaxAnswers
    <2>1. answers' = answers \cup {a}
      BY <1>2 DEF Answered
    <2>2. Cardinality(answers \cup {a}) = IF a \in answers THEN Cardinality(answers)
                                          ELSE Cardinality(answers) + 1
      BY <1>1, FS_AddElement
    <2> QED BY <1>1, <1>2, <2>1, <2>2
  <1>3. CASE ~(Cardinality(answers) < MaxAnswers)
    <2>1. answers' = answers
      BY <1>3 DEF Answered
    <2> QED BY <2>1
  <1> QED BY <1>2, <1>3

\* An answer that arrives or is lost is in flight no more.
LEMMA AnswerLeaves ==
    ASSUME answers \subseteq Answers, Cardinality(answers) <= MaxAnswers,
           NEW a, answers' = answers \ {a}
    PROVE  answers' \subseteq Answers /\ Cardinality(answers') <= MaxAnswers
  <1>1. IsFiniteSet(answers) /\ Cardinality(answers) \in Nat /\ MaxAnswers \in Nat
    BY AnswersFinite, BoundsAssumption
  <1>2. Cardinality(answers \ {a}) \in Nat /\ Cardinality(answers \ {a}) <= Cardinality(answers)
    BY <1>1, FS_RemoveElement, FS_Subset, FS_CardinalityType
  <1> QED BY <1>1, <1>2

-----------------------------------------------------------------------------
(* Events at the pages.                                                    *)

Boxes(b) == b \in [Pages -> Seq(Events)] /\ \A p \in Pages : Len(b[p]) <= 3

\* Every event a page gets of an answer carries that answer.
LEMMA BroadcastFacts ==
    ASSUME NEW a \in Answers, NEW b,
           b = Broadcast(a) \/ b = <<Event("command-feedback", a)>> \o Broadcast(a)
    PROVE  /\ b \in Seq(Events) /\ Len(b) <= 3
           /\ \A n \in DOMAIN b : b[n].action = a
  <1> DEFINE one == <<Event("command-feedback", a)>>
             two == Broadcast(a)
  <1>1. /\ Event("command-feedback", a) \in Events /\ Event("door-feedback", a) \in Events
        /\ Event("command-feedback", a).action = a /\ Event("door-feedback", a).action = a
    BY DEF Event, Events
  <1>2. /\ one \in Seq(Events) /\ Len(one) = 1 /\ one[1].action = a
        /\ two \in Seq(Events) /\ Len(two) = 2 /\ two[1].action = a /\ two[2].action = a
    BY <1>1 DEF Broadcast
  <1> HIDE DEF one, two
  <1>3. /\ one \o two \in Seq(Events) /\ Len(one \o two) = 3
        /\ \A n \in 1 .. 3 : (one \o two)[n] = IF n <= 1 THEN one[n] ELSE two[n - 1]
    <2>1. /\ one \o two \in Seq(Events) /\ Len(one \o two) = Len(one) + Len(two)
          /\ \A n \in 1 .. Len(one) + Len(two) :
                (one \o two)[n] = IF n <= Len(one) THEN one[n] ELSE two[n - Len(one)]
      BY <1>2, ConcatProperties, Zenon
    <2> QED BY <1>2, <2>1
  <1>4. CASE b = two
    <2>1. DOMAIN b = 1 .. 2
      BY <1>2, <1>4, LenProperties
    <2>2. \A n \in 1 .. 2 : n = 1 \/ n = 2
      OBVIOUS
    <2>3. \A n \in DOMAIN b : b[n].action = a
      BY <1>2, <1>4, <2>1, <2>2, Zenon
    <2>4. b \in Seq(Events) /\ Len(b) = 2
      BY <1>2, <1>4
    <2> QED BY <2>3, <2>4
  <1>5. CASE b = one \o two
    <2> DEFINE c == one \o two
    <2>1. c \in Seq(Events) /\ Len(c) = 3
      BY <1>3
    <2>2. DOMAIN c = 1 .. 3
      BY <2>1, LenProperties
    <2>3. \A n \in 1 .. 3 : n = 1 \/ n = 2 \/ n = 3
      OBVIOUS
    <2>4. c[1] = one[1] /\ c[2] = two[1] /\ c[3] = two[2]
      BY <1>3
    <2> HIDE DEF c
    <2>5. \A n \in DOMAIN c : c[n].action = a
      BY <1>2, <2>2, <2>3, <2>4
    <2> QED BY <1>5, <2>1, <2>5 DEF c
  <1> QED BY <1>4, <1>5 DEF one, two

\* A page handles its first event; the others are those it had.
LEMMA HandledFacts ==
    ASSUME Boxes(inbox), NEW p \in Pages, inbox[p] # <<>>, Handled(p)
    PROVE  /\ Boxes(inbox')
           /\ Head(inbox[p]) \in Events
           /\ \E n \in DOMAIN inbox[p] : inbox[p][n] = Head(inbox[p])
           /\ \A q \in Pages : \A n \in DOMAIN inbox'[q] :
                  \E k \in DOMAIN inbox[q] : inbox'[q][n] = inbox[q][k]
  <1> DEFINE s == inbox[p]
             t == Tail(s)
  <1>1. s \in Seq(Events) /\ s # <<>> /\ Len(s) <= 3
    BY DEF Boxes
  <1>2. inbox' = [inbox EXCEPT ![p] = t]
    BY DEF Handled
  <1> HIDE DEF s
  <1>3. /\ Head(s) \in Events /\ t \in Seq(Events) /\ Len(t) = Len(s) - 1
        /\ \A i \in 1 .. Len(t) : t[i] = s[i + 1]
        /\ Head(s) = s[1]
    BY <1>1, HeadTailProperties
  <1> HIDE DEF t
  <1>4. Len(s) \in Nat /\ Len(s) > 0 /\ DOMAIN s = 1 .. Len(s) /\ DOMAIN t = 1 .. Len(t)
    BY <1>1, <1>3, LenProperties, EmptySeq
  <1>5. 1 \in DOMAIN s /\ Head(s) = s[1]
    BY <1>3, <1>4
  <1>6. \A n \in DOMAIN t : n + 1 \in DOMAIN s /\ t[n] = s[n + 1]
    BY <1>3, <1>4
  <1>7. Len(t) <= 3
    BY <1>1, <1>3, <1>4
  <1>8. \A q \in Pages : inbox'[q] = IF q = p THEN t ELSE inbox[q]
    BY <1>2 DEF Boxes
  <1>9. Boxes(inbox')
    BY <1>2, <1>3, <1>7 DEF Boxes
  <1> QED BY <1>3, <1>5, <1>6, <1>8, <1>9 DEF s

-----------------------------------------------------------------------------
(* Steps that leave the pages alone.                                       *)

LEMMA DoorSide ==
    ASSUME IInv, UNCHANGED <<inbox, cache, enabled, loops>>,
           open' \in BOOLEAN, locked' \in BOOLEAN, requests' \subseteq Requests,
           answers' \subseteq Answers, Cardinality(answers') <= MaxAnswers,
           reported \subseteq reported', reported' \subseteq Bolted,
           answers' \cap Bolted \subseteq reported',
           clicks' \in 0 .. MaxClicks, moves' \in 0 .. MaxMoves, errors' \in 0 .. MaxErrors
    PROVE  IInv'
  <1>1. TypeOK'
    BY Zenon DEF IInv, TypeOK
  <1>2. ReportedInv'
    BY DEF IInv, ReportedInv
  <1>3. CacheInv'
    BY DEF IInv, CacheInv, Backed
  <1> QED BY <1>1, <1>2, <1>3 DEF IInv

LEMMA OneMore ==
    ASSUME NEW max \in Nat, NEW n \in 0 .. max, n < max
    PROVE  n + 1 \in 0 .. max
  OBVIOUS

LEMMA DoorIInv ==
    ASSUME IInv, MoveLeaf \/ Door
    PROVE  IInv'
  <1> USE BoundsAssumption
  <1>1. /\ open \in BOOLEAN /\ locked \in BOOLEAN /\ requests \subseteq Requests
        /\ answers \subseteq Answers /\ Cardinality(answers) <= MaxAnswers
        /\ reported \subseteq Bolted /\ answers \cap Bolted \subseteq reported
        /\ clicks \in 0 .. MaxClicks /\ moves \in 0 .. MaxMoves /\ errors \in 0 .. MaxErrors
    BY Zenon DEF IInv, TypeOK, ReportedInv
  <1>2. {"LOCK", "UNLOCK", "STATUS_UNKNOWN"} \subseteq Answers \ Bolted
    BY DEF Answers, Bolted, Statuses
  <1>3. CASE MoveLeaf
    <2>1. /\ open' \in BOOLEAN
          /\ UNCHANGED <<locked, requests, answers, inbox, cache, enabled, loops, reported, clicks, errors>>
      BY <1>1, <1>3, Zenon DEF MoveLeaf, page
    <2>2. moves' \in 0 .. MaxMoves
      BY <1>1, <1>3, OneMore DEF MoveLeaf
    <2> QED BY <1>1, <2>1, <2>2, DoorSide
  <1>4. CASE DoLock \/ DoUnlock
    <2>1. /\ locked' \in BOOLEAN
          /\ UNCHANGED <<open, moves, errors, inbox, cache, enabled, loops, reported, clicks>>
      BY <1>1, <1>4, Zenon DEF DoLock, DoUnlock, page
    <2>2. requests' \subseteq Requests
      BY <1>1, <1>4 DEF DoLock, DoUnlock
    <2>3. \E a \in {"LOCK", "UNLOCK"} : Answered(a)
      BY <1>4 DEF DoLock, DoUnlock
    <2>4. /\ answers' \subseteq Answers /\ Cardinality(answers') <= MaxAnswers
          /\ answers' \cap Bolted \subseteq reported
      BY <1>1, <1>2, <2>3, AnsweredFacts
    <2> QED BY <1>1, <2>1, <2>2, <2>4, DoorSide
  <1>5. CASE DoStatus
    <2>1. UNCHANGED <<open, locked, moves, errors, inbox, cache, enabled, loops, clicks>>
      BY <1>5 DEF DoStatus, page, door
    <2>2. /\ requests' \subseteq Requests
          /\ Answered(Status) /\ reported' = reported \cup ({Status} \cap Bolted)
      BY <1>1, <1>5 DEF DoStatus
    <2>3. Status \in Answers
      BY <1>1 DEF Status, Answers, Statuses
    <2>4. /\ answers' \subseteq Answers /\ Cardinality(answers') <= MaxAnswers
          /\ answers' \subseteq answers \cup {Status}
      BY <1>1, <2>2, <2>3, AnsweredFacts
    <2>5. reported \subseteq reported' /\ reported' \subseteq Bolted /\ answers' \cap Bolted \subseteq reported'
      BY <1>1, <2>2, <2>4
    <2> QED BY <1>1, <2>1, <2>2, <2>4, <2>5, DoorSide
  <1>6. CASE SensorFails
    <2>1. UNCHANGED <<open, locked, moves, inbox, cache, enabled, loops, reported, clicks>>
      BY <1>6 DEF SensorFails, page
    <2>2. errors' \in 0 .. MaxErrors
      BY <1>1, <1>6, OneMore DEF SensorFails
    <2>3. requests' \subseteq Requests /\ \E a \in {"LOCK", "STATUS_UNKNOWN"} : Answered(a)
      BY <1>1, <1>6 DEF SensorFails
    <2>4. /\ answers' \subseteq Answers /\ Cardinality(answers') <= MaxAnswers
          /\ answers' \cap Bolted \subseteq reported
      BY <1>1, <1>2, <2>3, AnsweredFacts
    <2> QED BY <1>1, <2>1, <2>2, <2>3, <2>4, DoorSide
  <1> QED BY <1>3, <1>4, <1>5, <1>6 DEF Door

\* Requests and answers that are made, lost or asked for again.
LEMMA WayIInv ==
    ASSUME IInv,
           \/ Ask
           \/ \E a \in Requests : LoseRequest(a)
           \/ \E a \in Answers : LoseAnswer(a)
           \/ \E p \in Pages : Click(p)
    PROVE  IInv'
  <1> USE BoundsAssumption
  <1>1. /\ open \in BOOLEAN /\ locked \in BOOLEAN /\ requests \subseteq Requests
        /\ answers \subseteq Answers /\ Cardinality(answers) <= MaxAnswers
        /\ reported \subseteq Bolted /\ answers \cap Bolted \subseteq reported
        /\ clicks \in 0 .. MaxClicks /\ moves \in 0 .. MaxMoves /\ errors \in 0 .. MaxErrors
    BY Zenon DEF IInv, TypeOK, ReportedInv
  <1>2. CASE Ask \/ \E a \in Requests : LoseRequest(a)
    <2>1. /\ requests' \subseteq Requests
          /\ UNCHANGED <<open, locked, answers, inbox, cache, enabled, loops, reported, clicks, moves, errors>>
      BY <1>1, <1>2 DEF Ask, LoseRequest, door, page, Requests
    <2> QED BY <1>1, <2>1, DoorSide
  <1>3. ASSUME NEW a \in Answers, LoseAnswer(a) PROVE IInv'
    <2>1. /\ answers' = answers \ {a}
          /\ UNCHANGED <<open, locked, requests, inbox, cache, enabled, loops, reported, clicks, moves, errors>>
      BY <1>3 DEF LoseAnswer, door, page
    <2>2. answers' \subseteq Answers /\ Cardinality(answers') <= MaxAnswers
      BY <1>1, <2>1, AnswerLeaves
    <2>3. answers' \cap Bolted \subseteq reported
      BY <1>1, <2>1
    <2> QED BY <1>1, <2>1, <2>2, <2>3, DoorSide
  <1>4. ASSUME NEW p \in Pages, Click(p) PROVE IInv'
    <2>1. /\ requests' \subseteq Requests
          /\ UNCHANGED <<open, locked, answers, inbox, cache, enabled, loops, reported, moves, errors>>
      BY <1>1, <1>4 DEF Click, Toggle, door, page, Requests
    <2>2. clicks' \in 0 .. MaxClicks
      BY <1>1, <1>4, OneMore DEF Click
    <2> QED BY <1>1, <2>1, <2>2, DoorSide
  <1> QED BY <1>2, <1>3, <1>4

-----------------------------------------------------------------------------
(* Steps at the pages.                                                     *)

\* The Node server sends every page an answer that was in flight.
LEMMA NodeTellsIInv ==
    ASSUME IInv, NEW a \in Answers, NodeTells(a)
    PROVE  IInv'
  <1>1. /\ a \in answers /\ answers' = answers \ {a}
        /\ UNCHANGED <<open, locked, requests, cache, enabled, loops, reported, clicks, moves, errors>>
    BY DEF NodeTells, door, page
  <1>2. PICK asker \in SUBSET Pages :
            inbox' = [p \in Pages |->
                        IF p \in asker THEN <<Event("command-feedback", a)>> \o Broadcast(a)
                        ELSE Broadcast(a)]
    BY DEF NodeTells
  <1>3. \A p \in Pages : inbox'[p] = Broadcast(a) \/ inbox'[p] = <<Event("command-feedback", a)>> \o Broadcast(a)
    BY <1>2
  <1>4. \A p \in Pages : /\ inbox'[p] \in Seq(Events) /\ Len(inbox'[p]) <= 3
                        /\ \A n \in DOMAIN inbox'[p] : inbox'[p][n].action = a
    BY <1>3, BroadcastFacts
  <1>5. inbox' \in [Pages -> Seq(Events)]
    BY <1>2, <1>4
  <1>6. answers' \subseteq Answers /\ Cardinality(answers') <= MaxAnswers
    BY <1>1, AnswerLeaves DEF IInv, TypeOK
  <1>7. TypeOK'
    BY <1>1, <1>4, <1>5, <1>6, Zenon DEF IInv, TypeOK
  <1>8. ReportedInv'
    BY <1>1, <1>4 DEF IInv, ReportedInv
  <1>9. CacheInv'
    BY <1>1 DEF IInv, CacheInv, Backed
  <1> QED BY <1>7, <1>8, <1>9 DEF IInv

Entry == [doorOpen : Known, lockLocked : Known]

LEMMA PageSide ==
    ASSUME IInv, UNCHANGED <<open, locked, answers, reported, clicks, moves, errors>>,
           requests' \subseteq Requests, Boxes(inbox'),
           \A q \in Pages : \A n \in DOMAIN inbox'[q] :
               \E k \in DOMAIN inbox[q] : inbox'[q][n] = inbox[q][k],
           cache' \in [Pages -> Entry], enabled' \in [Pages -> BOOLEAN],
           loops' \in [Pages -> SUBSET Loops],
           CacheInv'
    PROVE  IInv'
  <1>1. TypeOK'
    BY Zenon DEF IInv, TypeOK, Boxes, Entry
  <1>2. ReportedInv'
    BY DEF IInv, ReportedInv
  <1> QED BY <1>1, <1>2 DEF IInv

\* A status is shown as reported; that the door is open leaves the lock as it was.
LEMMA AppliedBacked ==
    ASSUME NEW c \in Entry, Backed(c), NEW status \in Statuses,
           status \in Bolted => status \in reported
    PROVE  Applied(c, status) \in Entry /\ Backed(Applied(c, status))
  <1>1. Known = {"null", "true", "false"}
    BY DEF Known
  <1>2. CASE status = "STATUS_LOCKED"
    BY <1>1, <1>2 DEF Applied, Entry, Backed, Bolted
  <1>3. CASE status = "STATUS_UNLOCKED"
    BY <1>1, <1>3 DEF Applied, Entry, Backed, Bolted
  <1>4. CASE status = "STATUS_OPEN"
    <2>1. Applied(c, status) = [c EXCEPT !.doorOpen = "true"]
      BY <1>4 DEF Applied
    <2> QED BY <1>1, <2>1 DEF Entry, Backed
  <1>5. CASE status = "STATUS_UNKNOWN"
    BY <1>1, <1>5 DEF Applied, Entry, Backed
  <1> QED BY <1>2, <1>3, <1>4, <1>5 DEF Statuses

LEMMA HearIInv ==
    ASSUME IInv, NEW p \in Pages, Hear(p)
    PROVE  IInv'
  <1> USE PollsAssumption
  <1>1. /\ Boxes(inbox) /\ cache \in [Pages -> Entry] /\ enabled \in [Pages -> BOOLEAN]
        /\ loops \in [Pages -> SUBSET Loops] /\ requests \subseteq Requests
    BY Zenon DEF IInv, TypeOK, Boxes, Entry
  <1>2. inbox[p] # <<>> /\ Handled(p)
    BY DEF Hear, HearStatus, HearCompletion, BeginPolling
  <1>3. /\ Boxes(inbox')
        /\ Head(inbox[p]) \in Events
        /\ \E n \in DOMAIN inbox[p] : inbox[p][n] = Head(inbox[p])
        /\ \A q \in Pages : \A n \in DOMAIN inbox'[q] :
                \E k \in DOMAIN inbox[q] : inbox'[q][n] = inbox[q][k]
    BY <1>1, <1>2, HandledFacts
  <1>4. Head(inbox[p]).action \in Bolted => Head(inbox[p]).action \in reported
    BY <1>3 DEF IInv, ReportedInv
  <1>5. CASE HearStatus(p)
    <2> DEFINE c == Applied(cache[p], Head(inbox[p]).action)
    <2>1. /\ Head(inbox[p]).action \in Statuses
          /\ cache' = [cache EXCEPT ![p] = c] /\ enabled' = [enabled EXCEPT ![p] = Enabled(c)]
          /\ UNCHANGED <<open, locked, moves, errors, requests, answers, loops, reported, clicks>>
      BY <1>5 DEF HearStatus, door
    <2>2. c \in Entry /\ Backed(c)
      BY <1>1, <1>4, <2>1, AppliedBacked DEF IInv, CacheInv
    <2> HIDE DEF c
    <2>3. cache' \in [Pages -> Entry]
      BY <1>1, <2>1, <2>2
    <2>4. enabled' \in [Pages -> BOOLEAN]
      <3>1. Enabled(c) \in BOOLEAN
        BY Zenon DEF Enabled
      <3> QED BY <1>1, <2>1, <3>1, Zenon
    <2>5. CacheInv'
      <3>1. \A q \in Pages : cache'[q] = IF q = p THEN c ELSE cache[q]
        BY <1>1, <2>1
      <3> QED BY <2>1, <2>2, <3>1 DEF IInv, CacheInv, Backed
    <2> QED BY <1>1, <1>3, <2>1, <2>3, <2>4, <2>5, PageSide
  <1>6. CASE HearCompletion(p)
    <2>1. /\ enabled' = [enabled EXCEPT ![p] = Enabled(cache[p])]
          /\ UNCHANGED <<open, locked, moves, errors, requests, answers, cache, loops, reported, clicks>>
      BY <1>6 DEF HearCompletion, door
    <2>2. enabled' \in [Pages -> BOOLEAN]
      <3>1. Enabled(cache[p]) \in BOOLEAN
        BY Zenon DEF Enabled
      <3> QED BY <1>1, <2>1, <3>1, Zenon
    <2>3. CacheInv'
      BY <2>1 DEF IInv, CacheInv, Backed
    <2> QED BY <1>1, <1>3, <2>1, <2>2, <2>3, PageSide
  <1>7. CASE BeginPolling(p)
    <2> DEFINE l == [want |-> IF Head(inbox[p]).action = "LOCK" THEN "true" ELSE "false",
                     polls |-> 1]
    <2>1. /\ loops' = [loops EXCEPT ![p] = loops[p] \cup {l}]
          /\ requests' = requests \cup {"STATUS"}
          /\ UNCHANGED <<open, locked, moves, errors, answers, cache, enabled, reported, clicks>>
      BY <1>7 DEF BeginPolling, door
    <2>2. l \in Loops
      BY DEF Loops
    <2> HIDE DEF l
    <2>3. loops' \in [Pages -> SUBSET Loops] /\ requests' \subseteq Requests
      BY <1>1, <2>1, <2>2 DEF Requests
    <2>4. CacheInv'
      BY <2>1 DEF IInv, CacheInv, Backed
    <2> QED BY <1>1, <1>3, <2>1, <2>3, <2>4, PageSide
  <1> QED BY <1>5, <1>6, <1>7 DEF Hear

LEMMA PollAgainIInv ==
    ASSUME IInv, NEW p \in Pages, PollAgain(p)
    PROVE  IInv'
  <1> USE PollsAssumption
  <1>1. /\ Boxes(inbox) /\ cache \in [Pages -> Entry] /\ enabled \in [Pages -> BOOLEAN]
        /\ loops \in [Pages -> SUBSET Loops] /\ requests \subseteq Requests
    BY Zenon DEF IInv, TypeOK, Boxes, Entry
  <1>2. UNCHANGED <<open, locked, moves, errors, answers, inbox, cache, enabled, reported, clicks>>
    BY DEF PollAgain, door
  <1>3. PICK l \in loops[p] :
            \/ loops' = [loops EXCEPT ![p] = loops[p] \ {l}] /\ UNCHANGED requests
            \/ /\ loops' = [loops EXCEPT ![p] = (loops[p] \ {l}) \cup
                                {[l EXCEPT !.polls = IF @ < MaxPolls THEN @ + 1 ELSE @]}]
               /\ requests' = requests \cup {"STATUS"}
    BY DEF PollAgain
  <1>4. [l EXCEPT !.polls = IF @ < MaxPolls THEN @ + 1 ELSE @] \in Loops
    <2>1. l \in Loops
      BY <1>1
    <2> QED BY <2>1 DEF Loops
  <1>5. loops' \in [Pages -> SUBSET Loops] /\ requests' \subseteq Requests
    BY <1>1, <1>3, <1>4 DEF Requests
  <1>6. CacheInv'
    BY <1>2 DEF IInv, CacheInv, Backed
  <1>7. Boxes(inbox') /\ cache' \in [Pages -> Entry] /\ enabled' \in [Pages -> BOOLEAN]
    BY <1>1, <1>2, Zenon
  <1>8. \A q \in Pages : \A n \in DOMAIN inbox'[q] : \E k \in DOMAIN inbox[q] : inbox'[q][n] = inbox[q][k]
    BY <1>2
  <1> QED BY <1>2, <1>5, <1>6, <1>7, <1>8, PageSide

-----------------------------------------------------------------------------
LEMMA StepIInv == IInv /\ [Next]_vars => IInv'
  <1> SUFFICES ASSUME IInv, [Next]_vars PROVE IInv'
    OBVIOUS
  <1>1. CASE MoveLeaf \/ Door
    BY <1>1, DoorIInv
  <1>2. CASE \/ Ask
             \/ \E a \in Requests : LoseRequest(a)
             \/ \E a \in Answers : LoseAnswer(a)
             \/ \E p \in Pages : Click(p)
    BY <1>2, WayIInv
  <1>3. ASSUME NEW a \in Answers, NodeTells(a) PROVE IInv'
    BY <1>3, NodeTellsIInv
  <1>4. ASSUME NEW p \in Pages, Hear(p) \/ PollAgain(p) PROVE IInv'
    BY <1>4, HearIInv, PollAgainIInv
  <1>5. CASE UNCHANGED vars
    <2>1. UNCHANGED <<open, locked, requests, answers, inbox, cache, enabled, loops, reported,
                      clicks, moves, errors>>
      BY <1>5 DEF vars
    <2>2. /\ TypeOK
          /\ answers \cap Bolted \subseteq reported
      BY DEF IInv, ReportedInv
    <2> QED BY <2>1, <2>2, DoorSide, Zenon DEF TypeOK
  <1> QED BY <1>1, <1>2, <1>3, <1>4, <1>5 DEF Next

\* What the pages show goes back to what the door has reported.
THEOREM Invariant == Spec => []IInv
  <1> QED BY InitIInv, StepIInv, PTL DEF Spec

\* Every variable has its type; no page has more than one answer's events to handle.
THEOREM TypeCorrect == Spec => []TypeOK
  <1>1. IInv => TypeOK
    BY DEF IInv
  <1> QED BY <1>1, Invariant, PTL

\* A button of web_control.js that works shows a lock the door has reported: no
\* FEEDBACK of a LOCK or an UNLOCK, late, doubled or from another page, gets there.
THEOREM EnabledAlwaysMeansReported == Spec => []EnabledMeansReported
  <1>1. IInv => EnabledMeansReported
    <2> SUFFICES ASSUME IInv, NEW p \in Pages, cache[p].doorOpen = "false"
                 PROVE  (IF cache[p].lockLocked = "true" THEN "STATUS_LOCKED" ELSE "STATUS_UNLOCKED")
                            \in reported
      BY DEF EnabledMeansReported
    <2>1. cache[p].lockLocked \in {"null", "true", "false"}
      BY DEF IInv, TypeOK, Known
    <2>2. Backed(cache[p])
      BY DEF IInv, CacheInv
    <2> QED BY <2>1, <2>2 DEF Backed
  <1> QED BY <1>1, Invariant, PTL
=============================================================================
