-------------------------- MODULE HubCommand_proofs --------------------------
(***************************************************************************)
(* Proofs about the hub's own commands, for every set of callers and       *)
(* actions, every number of attempts, and any number of restarts.          *)
(***************************************************************************)
EXTENDS HubCommand, TLAPS

Known(m) == m \in net \/ m = feedback

\* The hub knows where each id came from: its own counter, or somebody else's.
IdsAccounted ==
    /\ \A m \in Messages : Known(m) => m.id < next \/ m.id <= foreign
    /\ \A c \in Callers : pc[c] # "idle" => cmdid[c] < next

\* A FEEDBACK that would satisfy a call under way comes from an execution
\* since the call began.
AnswersAreDeserved ==
    \A c \in Callers : \A m \in Messages :
        /\ pc[c] # "idle" /\ foreign < cmdid[c]
        /\ Known(m) /\ m.kind = "FEEDBACK"
        /\ m.id >= cmdid[c] /\ m.action = want[c]
        => executed[c]

\* A call under way knows what it asks for.
AsksSomething == \A c \in Callers : pc[c] # "idle" => want[c] \in Wanted

IInv == TypeOK /\ IdsAccounted /\ AnswersAreDeserved /\ AsksSomething /\ AckMeansExecuted

-----------------------------------------------------------------------------
LEMMA LargerFacts ==
    ASSUME NEW m \in Nat, NEW n \in Nat
    PROVE  Larger(m, n) \in Nat /\ Larger(m, n) >= m /\ Larger(m, n) >= n
  BY DEF Larger

LEMMA InitIInv == Init => IInv
  BY BoundsAssumption, ActionsAssumption
     DEF Init, IInv, TypeOK, IdsAccounted, AnswersAreDeserved, AsksSomething, AckMeansExecuted,
         Known, Nothing, Feedback, Messages, Wanted

LEMMA CallIInv ==
    ASSUME IInv, NEW c \in Callers, NEW a \in Wanted, Call(c, a)
    PROVE  IInv'
  <1> USE BoundsAssumption, ActionsAssumption
  <1>1. TypeOK'
    BY DEF Call, Fresh, IInv, TypeOK
  <1>2. IdsAccounted'
    BY DEF Call, Fresh, IInv, TypeOK, IdsAccounted, Known, Messages
  <1>3. AnswersAreDeserved'
    BY DEF Call, Fresh, IInv, TypeOK, IdsAccounted, AnswersAreDeserved, Known, Messages
  <1>4. AsksSomething' /\ AckMeansExecuted'
    BY DEF Call, Fresh, IInv, TypeOK, AsksSomething, AckMeansExecuted
  <1> QED BY <1>1, <1>2, <1>3, <1>4 DEF IInv

\* An attempt that fails changes nothing the other parts speak of but pc and result.
LEMMA NextAttemptFacts ==
    ASSUME TypeOK, NEW c \in Callers, pc[c] # "idle", NextAttempt(c)
    PROVE  /\ attempt' \in [Callers -> 0 .. Retries + 1]
           /\ pc' \in [Callers -> {"idle", "send", "wait"}]
           /\ result' \in [Callers -> {"none", "acked", "failed"}]
           /\ \A d \in Callers : pc'[d] # "idle" => pc[d] # "idle" /\ attempt'[d] <= Retries
           /\ \A d \in Callers : result'[d] = "acked" => result[d] = "acked"
  <1> USE BoundsAssumption
  <1>1. attempt[c] \in Nat /\ attempt[c] <= Retries
    BY DEF TypeOK
  <1>2. CASE attempt[c] < Retries
    BY <1>1, <1>2 DEF NextAttempt, TypeOK
  <1>3. CASE attempt[c] >= Retries
    BY <1>1, <1>3 DEF NextAttempt, TypeOK
  <1> QED BY <1>1, <1>2, <1>3

LEMMA CallerIInv ==
    ASSUME IInv, NEW c \in Callers, CallerSteps(c)
    PROVE  IInv'
  <1> USE BoundsAssumption, ActionsAssumption
  <1>1. CASE Send(c)
    <2>1. Command(cmdid[c], want[c]) \in Messages
      BY <1>1 DEF Send, IInv, TypeOK, AsksSomething, Command, Messages
    <2>2. TypeOK'
      BY <1>1, <2>1 DEF Send, IInv, TypeOK
    <2>3. IdsAccounted'
      <3>1. \A m \in Messages : Known(m)' => Known(m) \/ m = Command(cmdid[c], want[c])
        BY <1>1 DEF Send, Known
      <3>2. Command(cmdid[c], want[c]).id < next
        BY <1>1 DEF Send, IInv, IdsAccounted, Command
      <3>3. \A m \in Messages : Known(m)' => m.id < next \/ m.id <= foreign
        BY <3>1, <3>2 DEF IInv, IdsAccounted
      <3>4. \A d \in Callers : pc'[d] # "idle" => pc[d] # "idle"
        BY <1>1 DEF Send, IInv, TypeOK
      <3> QED BY <1>1, <3>3, <3>4 DEF Send, IInv, IdsAccounted
    <2>4. AnswersAreDeserved'
      <3>1. \A m \in Messages : m.kind = "FEEDBACK" /\ Known(m)' => Known(m)
        BY <1>1 DEF Send, Known, Command
      <3>2. \A d \in Callers : pc'[d] # "idle" => pc[d] # "idle"
        BY <1>1 DEF Send, IInv, TypeOK
      <3> QED BY <1>1, <3>1, <3>2 DEF Send, IInv, AnswersAreDeserved
    <2>5. AsksSomething' /\ AckMeansExecuted'
      BY <1>1 DEF Send, IInv, TypeOK, AsksSomething, AckMeansExecuted
    <2> QED BY <2>2, <2>3, <2>4, <2>5 DEF IInv
  <1>2. ASSUME pc[c] # "idle", NextAttempt(c),
               UNCHANGED <<next, feedback, want, cmdid, net, nodeNext, restarts, foreign, executed>>
        PROVE  IInv'
    <2>1. TypeOK'
      BY <1>2, NextAttemptFacts DEF IInv, TypeOK
    <2>2. \A d \in Callers : pc'[d] # "idle" => pc[d] # "idle"
      BY <1>2, NextAttemptFacts DEF IInv
    <2>3. \A m : Known(m)' <=> Known(m)
      BY <1>2 DEF Known
    <2>4. IdsAccounted' /\ AnswersAreDeserved' /\ AsksSomething'
      BY <1>2, <2>2, <2>3 DEF IInv, IdsAccounted, AnswersAreDeserved, AsksSomething
    <2>5. AckMeansExecuted'
      BY <1>2, NextAttemptFacts DEF IInv, AckMeansExecuted
    <2> QED BY <2>1, <2>4, <2>5 DEF IInv
  <1>3. CASE SendFails(c)
    BY <1>2, <1>3 DEF SendFails
  <1>4. CASE TimesOut(c)
    BY <1>2, <1>4 DEF TimesOut
  <1>5. CASE Answered(c) /\ ~Agrees(c)
    BY <1>2, <1>5 DEF Answered
  <1>6. CASE Answered(c) /\ Agrees(c)
    <2>1. /\ pc[c] = "wait" /\ Reached(c) /\ Agrees(c)
          /\ pc' = [pc EXCEPT ![c] = "idle"] /\ result' = [result EXCEPT ![c] = "acked"]
          /\ UNCHANGED <<next, feedback, want, cmdid, attempt, net, nodeNext, restarts, foreign, executed>>
      BY <1>6 DEF Answered
    <2>2. TypeOK'
      BY <2>1 DEF IInv, TypeOK
    <2>3. \A d \in Callers : pc'[d] # "idle" => pc[d] # "idle"
      BY <2>1 DEF IInv, TypeOK
    <2>4. \A m : Known(m)' <=> Known(m)
      BY <2>1 DEF Known
    <2>5. IdsAccounted' /\ AnswersAreDeserved' /\ AsksSomething'
      BY <2>1, <2>3, <2>4 DEF IInv, IdsAccounted, AnswersAreDeserved, AsksSomething
    <2>6. foreign < cmdid[c] => executed[c]
      <3>1. feedback \in Messages
        <4>1. want[c] \in Wanted
          BY <2>1 DEF IInv, AsksSomething
        <4>2. feedback.action # None
          BY <2>1, <4>1 DEF Agrees, Wanted
        <4>3. Nothing.action = None
          BY DEF Nothing, Feedback
        <4> QED BY <4>2, <4>3 DEF IInv, TypeOK
      <3> QED BY <2>1, <3>1 DEF Reached, Agrees, Known, IInv, TypeOK, AnswersAreDeserved
    <2>7. AckMeansExecuted'
      BY <2>1, <2>6 DEF IInv, TypeOK, AckMeansExecuted
    <2> QED BY <2>2, <2>5, <2>7 DEF IInv
  <1> QED BY <1>1, <1>3, <1>4, <1>5, <1>6 DEF CallerSteps

\* The hub takes up a FEEDBACK that was sent before.
LEMMA FeedbackIInv ==
    ASSUME IInv, NEW m \in net, HandleFeedback(m)
    PROVE  IInv'
  <1>1. m \in Messages /\ m.kind = "FEEDBACK"
    BY DEF HandleFeedback, IInv, TypeOK
  <1>2. TypeOK'
    BY <1>1 DEF HandleFeedback, IInv, TypeOK
  <1>3. \A n : Known(n)' => Known(n)
    BY DEF HandleFeedback, Known
  <1>4. IdsAccounted' /\ AnswersAreDeserved'
    BY <1>3 DEF HandleFeedback, IInv, IdsAccounted, AnswersAreDeserved
  <1>5. AsksSomething' /\ AckMeansExecuted'
    BY DEF HandleFeedback, IInv, AsksSomething, AckMeansExecuted
  <1> QED BY <1>2, <1>4, <1>5 DEF IInv

\* The door answers what it executes, at once credited to the calls that want it.
LEMMA ExecuteIInv ==
    ASSUME IInv, NEW m \in net, Execute(m)
    PROVE  IInv'
  <1> DEFINE f == Feedback(m.id, Echo(m.action))
  <1> USE ActionsAssumption
  <1>1. m \in Messages /\ m.kind = "COMMAND" /\ m.id \in Nat /\ m.action \in Wanted
    BY DEF Execute, IInv, TypeOK, Messages
  <1>2. f \in Messages /\ f.id = m.id /\ f.kind = "FEEDBACK"
    BY <1>1 DEF Feedback, Echo, Messages, Wanted
  <1>3. \A a \in Wanted : f.action = a => a = m.action
    BY <1>1 DEF Feedback, Echo, Wanted
  <1>4. /\ net' = net \cup {f}
        /\ executed' = [c \in Callers |-> executed[c] \/ (pc[c] # "idle" /\ want[c] = m.action)]
        /\ UNCHANGED <<next, feedback, pc, want, cmdid, attempt, result, nodeNext, restarts, foreign>>
    BY DEF Execute
  <1> HIDE DEF f
  <1>5. /\ \A c \in Callers : executed[c] => executed'[c]
        /\ \A c \in Callers : pc[c] # "idle" /\ want[c] = m.action => executed'[c]
        /\ executed' \in [Callers -> BOOLEAN]
    BY <1>4, Zenon DEF IInv, TypeOK
  <1>6. TypeOK'
    BY <1>2, <1>4, <1>5 DEF IInv, TypeOK
  <1>7. \A n \in Messages : Known(n)' => Known(n) \/ n = f
    BY <1>4 DEF Known
  <1>8. IdsAccounted'
    <2>1. Known(m) /\ (m.id < next \/ m.id <= foreign)
      BY <1>1 DEF Known, IInv, IdsAccounted
    <2> QED BY <1>2, <1>4, <1>7, <2>1 DEF IInv, IdsAccounted
  <1>9. AnswersAreDeserved'
    <2> SUFFICES ASSUME NEW c \in Callers, NEW n \in Messages,
                        pc[c] # "idle", foreign < cmdid[c], Known(n)', n.kind = "FEEDBACK",
                        n.id >= cmdid[c], n.action = want[c]
                 PROVE  executed'[c]
      BY <1>4, Zenon DEF AnswersAreDeserved
    <2>1. CASE Known(n)
      <3>1. executed[c]
        BY <2>1 DEF IInv, AnswersAreDeserved
      <3> QED BY <1>5, <3>1
    <2>2. CASE n = f
      <3>1. want[c] = m.action
        BY <1>3, <2>2 DEF IInv, AsksSomething
      <3> QED BY <1>5, <3>1
    <2> QED BY <1>7, <2>1, <2>2
  <1>10. AsksSomething' /\ AckMeansExecuted'
    BY <1>4, <1>5 DEF IInv, AsksSomething, AckMeansExecuted
  <1> QED BY <1>6, <1>8, <1>9, <1>10 DEF IInv

\* The others: their ids count as foreign before they are on the network.
LEMMA OthersIInv ==
    ASSUME IInv, (\E a \in Wanted : NodeCommand(a)) \/ NodeRestarts \/ HubRestarts
    PROVE  IInv'
  <1> USE ActionsAssumption
  <1>1. ASSUME NEW a \in Wanted, NodeCommand(a) PROVE IInv'
    <2>1. Command(nodeNext, a) \in Messages
      BY DEF Command, Messages, IInv, TypeOK
    <2>2. foreign' \in Nat /\ foreign' >= foreign /\ foreign' >= nodeNext
      BY <1>1, LargerFacts DEF NodeCommand, IInv, TypeOK
    <2>3. TypeOK'
      BY <1>1, <2>1, <2>2 DEF NodeCommand, IInv, TypeOK
    <2>4. \A m \in Messages : Known(m)' => Known(m) \/ m = Command(nodeNext, a)
      BY <1>1 DEF NodeCommand, Known
    <2>5. IdsAccounted'
      <3>1. \A m \in Messages : Known(m)' => m.id < next \/ m.id <= foreign'
        <4> SUFFICES ASSUME NEW m \in Messages, Known(m)' PROVE m.id < next \/ m.id <= foreign'
          OBVIOUS
        <4>1. CASE Known(m)
          BY <2>2, <4>1 DEF IInv, IdsAccounted, TypeOK, Messages
        <4>2. CASE m = Command(nodeNext, a)
          BY <2>2, <4>2 DEF Command
        <4> QED BY <2>4, <4>1, <4>2
      <3> QED BY <1>1, <3>1 DEF NodeCommand, IInv, IdsAccounted
    <2>6. AnswersAreDeserved'
      <3> SUFFICES ASSUME NEW c \in Callers, NEW m \in Messages,
                          pc[c] # "idle", foreign' < cmdid[c], Known(m)', m.kind = "FEEDBACK",
                          m.id >= cmdid[c], m.action = want[c]
                   PROVE  executed[c]
        BY <1>1, Zenon DEF NodeCommand, AnswersAreDeserved
      <3>1. Known(m)
        BY <2>4 DEF Command
      <3>2. foreign < cmdid[c]
        BY <2>2 DEF IInv, TypeOK
      <3> QED BY <3>1, <3>2 DEF IInv, AnswersAreDeserved
    <2>7. AsksSomething'
      BY <1>1 DEF NodeCommand, IInv, AsksSomething
    <2>8. AckMeansExecuted'
      <3>1. \A c \in Callers : foreign' < cmdid[c] => foreign < cmdid[c]
        BY <2>2 DEF IInv, TypeOK
      <3> QED BY <1>1, <3>1 DEF NodeCommand, IInv, AckMeansExecuted
    <2> QED BY <2>3, <2>5, <2>6, <2>7, <2>8 DEF IInv
  <1>2. CASE NodeRestarts
    BY <1>2
       DEF NodeRestarts, IInv, TypeOK, IdsAccounted, AnswersAreDeserved, AsksSomething,
           AckMeansExecuted, Known
  <1>3. CASE HubRestarts
    <2>1. \A c \in Callers : pc'[c] = "idle" /\ result'[c] = "none"
      BY <1>3 DEF HubRestarts
    <2>2. foreign' \in Nat /\ foreign' >= foreign /\ foreign' >= next - 1
      <3>1. next - 1 \in Nat /\ foreign \in Nat
        BY DEF IInv, TypeOK
      <3> QED BY <1>3, <3>1, LargerFacts DEF HubRestarts
    <2>3. TypeOK'
      <3>1. /\ pc' \in [Callers -> {"idle", "send", "wait"}]
            /\ result' \in [Callers -> {"none", "acked", "failed"}]
        BY <1>3 DEF HubRestarts
      <3>2. next' = 1 /\ restarts' \in Nat
        BY <1>3 DEF HubRestarts, IInv, TypeOK
      <3>3. feedback' = Nothing /\ Nothing.kind = "FEEDBACK"
        BY <1>3 DEF HubRestarts, Nothing, Feedback
      <3> QED BY <1>3, <2>1, <2>2, <3>1, <3>2, <3>3 DEF HubRestarts, IInv, TypeOK
    <2>4. \A m \in Messages : Known(m)' => m.id <= foreign'
      <3> SUFFICES ASSUME NEW m \in Messages, Known(m)' PROVE m.id <= foreign'
        OBVIOUS
      <3>1. CASE m \in net
        <4>1. m.id < next \/ m.id <= foreign
          BY <3>1 DEF Known, IInv, IdsAccounted
        <4> QED BY <2>2, <4>1 DEF IInv, TypeOK, Messages
      <3>2. CASE m = Nothing
        BY <2>2, <3>2 DEF Nothing, Feedback
      <3> QED BY <1>3, <3>1, <3>2 DEF Known, HubRestarts
    <2>5. IdsAccounted' /\ AnswersAreDeserved' /\ AsksSomething' /\ AckMeansExecuted'
      BY <2>1, <2>4 DEF IdsAccounted, AnswersAreDeserved, AsksSomething, AckMeansExecuted
    <2> QED BY <2>3, <2>5 DEF IInv
  <1> QED BY <1>1, <1>2, <1>3

-----------------------------------------------------------------------------
\* The invariant holds in every state the hub, the door and the network reach.
THEOREM Invariant == Spec => []IInv
  <1>1. Init => IInv
    BY InitIInv
  <1>2. IInv /\ [Next]_vars => IInv'
    <2> SUFFICES ASSUME IInv, [Next]_vars PROVE IInv'
      OBVIOUS
    <2>1. ASSUME NEW c \in Callers, NEW a \in Wanted, Call(c, a) PROVE IInv'
      BY <2>1, CallIInv
    <2>2. ASSUME NEW c \in Callers, CallerSteps(c) PROVE IInv'
      BY <2>2, CallerIInv
    <2>3. ASSUME NEW m \in net, HandleFeedback(m) \/ Execute(m) PROVE IInv'
      BY <2>3, FeedbackIInv, ExecuteIInv
    <2>4. CASE (\E a \in Wanted : NodeCommand(a)) \/ NodeRestarts \/ HubRestarts
      BY <2>4, OthersIInv
    <2>5. CASE UNCHANGED vars
      BY <2>5
         DEF vars, IInv, TypeOK, IdsAccounted, AnswersAreDeserved, AsksSomething,
             AckMeansExecuted, Known
    <2> QED BY <2>1, <2>2, <2>3, <2>4, <2>5 DEF Next
  <1> QED BY <1>1, <1>2, PTL DEF Spec

\* Every variable has its type, and no call makes more attempts than it may.
THEOREM TypeCorrect == Spec => []TypeOK
  <1>1. IInv => TypeOK BY DEF IInv
  <1> QED BY <1>1, Invariant, PTL

\* While the ids of others are below its own, hub_udp_send_command returns true
\* only after the door executed the action, during the call.
THEOREM AckAlwaysMeansExecuted == Spec => []AckMeansExecuted
  <1>1. IInv => AckMeansExecuted BY DEF IInv
  <1> QED BY <1>1, Invariant, PTL
=============================================================================
