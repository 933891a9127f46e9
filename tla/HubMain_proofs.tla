--------------------------- MODULE HubMain_proofs ---------------------------
(***************************************************************************)
(* Proofs about the hub program, for every number of messages, connections *)
(* and changes of the status: types, the lifetime of what the threads use, *)
(* who operates the local door, and the delivery of the messages.          *)
(***************************************************************************)
EXTENDS HubMain, SequenceTheorems, TLAPS

One(b) == IF b THEN 1 ELSE 0

\* The calls to curl_global_init with no curl_global_cleanup yet: of
\* app_discord_start, of the monitor, of the webhook while it has its URL, and
\* of the hub.
Books ==
    One(main # "discord") + One(given /\ main \notin {"discord", "webhook", "monitor"})
        + One(url) + One(main \in {"console", "joinHub"})

CurlInv ==
    /\ main # "discord" => curl > 0
    /\ main # "exited" => curl = Books

\* How the webhook's worker relates to the main thread that starts and stops it.
Stopped == {"stopHttp", "joinHttp", "menu", "door"}
WorkerInv ==
    /\ main \in {"discord", "webhook"} => worker = "none"
    /\ main \in {"webhook", "monitor"} => given
    /\ worker = "none" => ~running /\ ~url /\ queue = <<>> /\ sent = 0
    /\ running => url /\ worker # "done"
    /\ worker \in {"loop", "waiting", "sending"} => url
    /\ worker = "done" => ~running /\ queue = <<>>
    /\ main \in {"stopWebhook", "joinWorker"} => url
    /\ main = "joinWorker" => ~running
    /\ main \in Stopped => ~running /\ worker \in {"none", "done"}

\* Every message is where it belongs: delivered, in the worker's hands or in
\* the list, in the order of the calls.
InHand == One(worker = "sending")
DeliveryInv ==
    /\ \A i \in 1 .. Len(delivered) : delivered[i] = i
    /\ worker = "sending" => holds = Len(delivered) + 1
    /\ \A j \in 1 .. Len(queue) : queue[j] = Len(delivered) + InHand + j
    /\ sent = Len(delivered) + InHand + Len(queue)

\* How the server thread and the other threads relate to main.
ThreadsInv ==
    /\ main \notin {"joinHttp", "menu", "door", "exited"} => (serving <=> http # "none")
    /\ main \in {"menu", "door"} => http \in {"none", "done"}
    /\ main = "discord" => alert = "none" /\ udp = "none"

IInv == TypeOK /\ CurlInv /\ WorkerInv /\ DeliveryInv /\ ThreadsInv

-----------------------------------------------------------------------------
LEMMA InitIInv == Init => IInv
  <1> SUFFICES ASSUME Init PROVE IInv
    OBVIOUS
  <1> USE HubMainAssumption, MaxMessagesAssumption DEF Init, WebhookInit
  <1>1. TypeOK
    <2>1. WebhookTypeOK
      <3>1. running \in BOOLEAN /\ url \in BOOLEAN
        OBVIOUS
      <3>2. /\ queue \in Seq(Messages) /\ delivered \in Seq(Messages)
            /\ tail = IF queue = <<>> THEN 0 ELSE queue[Len(queue)]
        OBVIOUS
      <3>3. holds \in 0 .. MaxMessages /\ sent \in 0 .. MaxMessages
        OBVIOUS
      <3> QED BY <3>1, <3>2, <3>3, Zenon DEF WebhookTypeOK
    <2>2. given \in BOOLEAN /\ stopping \in BOOLEAN /\ serving \in BOOLEAN
      OBVIOUS
    <2>3. /\ curl \in 0 .. 4 /\ text \in 0 .. MaxHeard /\ last \in 0 .. MaxHeard
          /\ status \in 0 .. MaxHeard /\ requests \in 0 .. MaxRequests
      OBVIOUS
    <2> QED BY <2>1, <2>2, <2>3 DEF TypeOK
  <1>2. CurlInv
    BY DEF CurlInv, Books, One
  <1>3. WorkerInv
    BY DEF WorkerInv, Stopped
  <1>4. DeliveryInv
    BY DEF DeliveryInv, InHand, One
  <1>5. ThreadsInv
    BY DEF ThreadsInv
  <1> QED BY <1>1, <1>2, <1>3, <1>4, <1>5 DEF IInv

-----------------------------------------------------------------------------
(* The webhook's list.                                                     *)

\* queue_tail is NULL exactly when the list is empty, so a message always goes
\* to the end.
LEMMA EnqueueAppends ==
    ASSUME WebhookTypeOK, NEW m \in Messages, Enqueue(m)
    PROVE  queue' = Append(queue, m) /\ tail' = m
  <1>1. CASE queue = <<>>
    BY <1>1 DEF Enqueue, WebhookTypeOK
  <1>2. CASE queue # <<>>
    <2>1. queue[Len(queue)] \in Messages
      BY <1>2, LenProperties, EmptySeq DEF WebhookTypeOK
    <2>2. tail # 0
      BY <1>2, <2>1, MaxMessagesAssumption DEF WebhookTypeOK, Messages
    <2> QED BY <2>2 DEF Enqueue
  <1> QED BY <1>1, <1>2

\* hub_webhook_send keeps the list in order and every message where it belongs.
LEMMA SendKeepsOrder ==
    ASSUME WebhookTypeOK, WorkerInv, DeliveryInv, WebhookSend
    PROVE  WebhookTypeOK' /\ DeliveryInv'
  <1> USE MaxMessagesAssumption
  <1>1. CASE UNCHANGED webhook
    BY <1>1 DEF webhook, WebhookTypeOK, DeliveryInv, InHand
  <1>2. CASE /\ running /\ sent < MaxMessages
             /\ Enqueue(sent + 1)
             /\ sent' = sent + 1
             /\ UNCHANGED <<running, url, holds, delivered>>
    <2>1. sent + 1 \in Messages /\ sent \in Nat
      BY <1>2 DEF WebhookTypeOK, Messages
    <2>2. queue' = Append(queue, sent + 1) /\ tail' = sent + 1
      BY <1>2, <2>1, EnqueueAppends
    <2>3. /\ queue' \in Seq(Messages) /\ Len(queue') = Len(queue) + 1
          /\ queue'[Len(queue')] = sent + 1
          /\ \A j \in 1 .. Len(queue) : queue'[j] = queue[j]
          /\ Len(queue) \in Nat
      BY <2>1, <2>2, AppendProperties, LenProperties DEF WebhookTypeOK
    <2>4. worker' = Signalled /\ worker \in {"none", "loop", "waiting", "sending", "done"}
      BY <1>2 DEF Enqueue, WebhookTypeOK
    <2>5. WebhookTypeOK'
      <3>1. tail' = IF queue' = <<>> THEN 0 ELSE queue'[Len(queue')]
        BY <2>2, <2>3
      <3>2. worker' \in {"none", "loop", "waiting", "sending", "done"}
        BY <2>4 DEF Signalled
      <3>3. running' \in BOOLEAN /\ url' \in BOOLEAN
        BY <1>2 DEF WebhookTypeOK
      <3>4. sent' \in 0 .. MaxMessages
        BY <1>2, <2>1 DEF Messages
      <3> QED BY <1>2, <2>3, <3>1, <3>2, <3>3, <3>4 DEF WebhookTypeOK
    <2>6. (worker' = "sending") = (worker = "sending")
      BY <2>4 DEF Signalled
    <2>7. DeliveryInv'
      <3>1. InHand' = InHand /\ InHand \in Nat /\ Len(delivered) \in Nat
        BY <2>6, LenProperties DEF InHand, One, WebhookTypeOK
      <3>2. /\ sent = Len(delivered) + InHand + Len(queue)
            /\ \A j \in 1 .. Len(queue) : queue[j] = Len(delivered) + InHand + j
        BY DEF DeliveryInv
      <3>3. sent' = Len(delivered') + InHand' + Len(queue')
        BY <1>2, <2>1, <2>3, <3>1, <3>2
      <3>4. \A j \in 1 .. Len(queue') : queue'[j] = Len(delivered') + InHand' + j
        BY <1>2, <2>1, <2>3, <3>1, <3>2
      <3>5. worker' = "sending" => holds' = Len(delivered') + 1
        BY <1>2, <2>6 DEF DeliveryInv
      <3>6. \A i \in 1 .. Len(delivered') : delivered'[i] = i
        BY <1>2 DEF DeliveryInv
      <3> QED BY <3>3, <3>4, <3>5, <3>6 DEF DeliveryInv
    <2> QED BY <2>5, <2>7
  <1> QED BY <1>1, <1>2 DEF WebhookSend

\* So does the worker, when it takes the head of the list and when it has sent it.
LEMMA WorkerKeepsOrder ==
    ASSUME WebhookTypeOK, WorkerInv, DeliveryInv,
           WorkerWait \/ WorkerTake \/ WorkerSent \/ WorkerExit \/ SpuriousWakeup
    PROVE  WebhookTypeOK' /\ DeliveryInv'
  <1> USE MaxMessagesAssumption
  <1>0. Len(delivered) \in Nat /\ Len(queue) \in Nat /\ sent \in 0 .. MaxMessages
    BY LenProperties DEF WebhookTypeOK
  <1>1. CASE WorkerWait \/ WorkerExit \/ SpuriousWakeup
    <2>1. /\ UNCHANGED <<queue, tail, running, url, holds, sent, delivered>>
          /\ worker' \in {"loop", "waiting", "done"} /\ worker # "sending"
      BY <1>1 DEF WorkerWait, WorkerExit, SpuriousWakeup
    <2> QED BY <2>1 DEF WebhookTypeOK, DeliveryInv, InHand, One
  <1>2. CASE WorkerTake
    <2>1. /\ Head(queue) = queue[1] /\ Len(queue) >= 1 /\ Head(queue) \in Messages
          /\ Tail(queue) \in Seq(Messages) /\ Len(Tail(queue)) = Len(queue) - 1
          /\ \A j \in 1 .. Len(queue) - 1 : Tail(queue)[j] = queue[j + 1]
      BY <1>2, HeadTailProperties, LenProperties, EmptySeq DEF WorkerTake, WebhookTypeOK
    <2>2. /\ queue' = Tail(queue) /\ holds' = Head(queue) /\ tail' = TailOf(Tail(queue))
          /\ worker' = "sending" /\ worker = "loop"
          /\ UNCHANGED <<running, url, sent, delivered>>
      BY <1>2 DEF WorkerTake
    <2>3. WebhookTypeOK'
      <3>1. tail' = IF queue' = <<>> THEN 0 ELSE queue'[Len(queue')]
        <4>1. CASE Tail(queue) = <<>>
          BY <4>1, <2>2 DEF TailOf
        <4>2. CASE Tail(queue) # <<>>
          <5>1. Len(Tail(queue)) >= 1
            BY <4>2, <2>1, LenProperties, EmptySeq
          <5>2. Tail(queue)[Len(queue) - 1] = queue[Len(queue)]
            BY <5>1, <2>1, <1>0
          <5>3. tail = queue[Len(queue)] /\ tail' = tail
            BY <4>2, <1>2, <2>2 DEF WorkerTake, WebhookTypeOK, TailOf
          <5> QED BY <4>2, <5>2, <5>3, <2>1, <2>2
        <4> QED BY <4>1, <4>2
      <3>2. holds' \in 0 .. MaxMessages
        BY <2>1, <2>2 DEF Messages
      <3>3. running' \in BOOLEAN /\ url' \in BOOLEAN
        BY <2>2 DEF WebhookTypeOK
      <3> QED BY <2>1, <2>2, <3>1, <3>2, <3>3 DEF WebhookTypeOK
    <2>4. DeliveryInv'
      <3>1. InHand = 0 /\ InHand' = 1
        BY <2>2 DEF InHand, One
      <3>2. /\ sent = Len(delivered) + Len(queue)
            /\ \A j \in 1 .. Len(queue) : queue[j] = Len(delivered) + j
        BY <1>0, <3>1 DEF DeliveryInv
      <3>3. sent' = Len(delivered') + InHand' + Len(queue')
        BY <1>0, <2>1, <2>2, <3>1, <3>2
      <3>4. \A j \in 1 .. Len(queue') : queue'[j] = Len(delivered') + InHand' + j
        BY <1>0, <2>1, <2>2, <3>1, <3>2
      <3>5. holds' = Len(delivered') + 1
        BY <1>0, <2>1, <2>2, <3>2
      <3>6. \A i \in 1 .. Len(delivered') : delivered'[i] = i
        BY <2>2 DEF DeliveryInv
      <3> QED BY <3>3, <3>4, <3>5, <3>6 DEF DeliveryInv
    <2> QED BY <2>3, <2>4
  <1>3. CASE WorkerSent
    <2>1. /\ delivered' = Append(delivered, holds) /\ holds' = 0
          /\ worker = "sending" /\ worker' = "loop"
          /\ UNCHANGED <<queue, tail, running, url, sent>>
      BY <1>3 DEF WorkerSent, WorkerInv
    <2>2. InHand = 1 /\ InHand' = 0 /\ holds = Len(delivered) + 1
      BY <2>1 DEF InHand, One, DeliveryInv
    <2>3. /\ sent = Len(delivered) + 1 + Len(queue)
          /\ \A j \in 1 .. Len(queue) : queue[j] = Len(delivered) + 1 + j
      BY <2>2 DEF DeliveryInv
    <2>4. holds \in Messages
      BY <1>0, <2>2, <2>3 DEF Messages
    <2>5. /\ delivered' \in Seq(Messages) /\ Len(delivered') = Len(delivered) + 1
          /\ delivered'[Len(delivered) + 1] = holds
          /\ \A i \in 1 .. Len(delivered) : delivered'[i] = delivered[i]
      BY <2>1, <2>4, AppendProperties DEF WebhookTypeOK
    <2>6. WebhookTypeOK'
      BY <2>1, <2>5 DEF WebhookTypeOK
    <2>7. DeliveryInv'
      <3>1. sent' = Len(delivered') + InHand' + Len(queue')
        BY <1>0, <2>1, <2>2, <2>3, <2>5
      <3>2. \A j \in 1 .. Len(queue') : queue'[j] = Len(delivered') + InHand' + j
        BY <1>0, <2>1, <2>2, <2>3, <2>5
      <3>3. \A i \in 1 .. Len(delivered') : delivered'[i] = i
        BY <1>0, <2>2, <2>5 DEF DeliveryInv
      <3> QED BY <2>1, <3>1, <3>2, <3>3 DEF DeliveryInv
    <2> QED BY <2>6, <2>7
  <1> QED BY <1>1, <1>2, <1>3

-----------------------------------------------------------------------------
(* One lemma for each group of actions.                                    *)

\* A step that leaves the webhook and its worker alone.
LEMMA WebhookStays ==
    ASSUME WebhookTypeOK, DeliveryInv, UNCHANGED webhook
    PROVE  WebhookTypeOK' /\ DeliveryInv'
  BY DEF webhook, WebhookTypeOK, DeliveryInv, InHand

\* How high the books of libcurl are while there is something left to start or
\* to stop.
LEMMA BooksBound ==
    ASSUME IInv
    PROVE  /\ curl \in 0 .. 4
           /\ main \notin {"console", "joinHub", "exited"} => curl <= 3
           /\ main # "discord" => curl > 0
  BY DEF IInv, TypeOK, WebhookTypeOK, CurlInv, Books, One

\* main starts the parts: libcurl's books are kept, whichever part fails to start.
LEMMA StartsIInv ==
    ASSUME IInv, Starts
    PROVE  IInv'
  <1> USE DEF GoTo, DiscordStart, alerts, hub, api, webhook
  <1>1. CASE StartDiscord
    <2> USE <1>1 DEF StartDiscord
    <2>0. WebhookTypeOK' /\ DeliveryInv'
      BY WebhookStays DEF IInv, TypeOK
    <2>1. TypeOK'
      BY <2>0, BooksBound DEF IInv, TypeOK
    <2>2. CurlInv'
      BY DEF IInv, TypeOK, WebhookTypeOK, WorkerInv, CurlInv, Books, One
    <2>3. WorkerInv'
      BY DEF IInv, WorkerInv, Stopped
    <2>4. ThreadsInv'
      BY DEF IInv, ThreadsInv
    <2> QED BY <2>0, <2>1, <2>2, <2>3, <2>4 DEF IInv
  <1>2. CASE InitWebhook
    <2> USE <1>2 DEF InitWebhook
    <2>0. WebhookTypeOK' /\ DeliveryInv'
      <3>1. CASE WebhookStarts
        <4>1. worker = "none"
          BY DEF IInv, WorkerInv
        <4> QED BY <3>1, <4>1
                DEF WebhookStarts, IInv, TypeOK, WebhookTypeOK, DeliveryInv, InHand, One
      <3>2. CASE UNCHANGED webhook
        BY <3>2, WebhookStays DEF IInv, TypeOK
      <3> QED BY <3>1, <3>2
    <2>1. TypeOK'
      BY <2>0, BooksBound DEF IInv, TypeOK
    <2>2. CurlInv'
      BY DEF IInv, TypeOK, WebhookTypeOK, WorkerInv, CurlInv, Books, WebhookStarts, One
    <2>3. WorkerInv'
      BY DEF IInv, WorkerInv, Stopped, WebhookStarts
    <2>4. ThreadsInv'
      BY DEF IInv, ThreadsInv
    <2> QED BY <2>0, <2>1, <2>2, <2>3, <2>4 DEF IInv
  <1>3. CASE StartDoorAlertMonitor
    <2> USE <1>3 DEF StartDoorAlertMonitor
    <2>0. WebhookTypeOK' /\ DeliveryInv'
      BY WebhookStays DEF IInv, TypeOK
    <2>1. TypeOK'
      BY <2>0, BooksBound DEF IInv, TypeOK
    <2>2. CurlInv'
      BY DEF IInv, TypeOK, WebhookTypeOK, WorkerInv, CurlInv, Books, One
    <2>3. WorkerInv'
      BY DEF IInv, WorkerInv, Stopped
    <2>4. ThreadsInv'
      BY DEF IInv, ThreadsInv
    <2> QED BY <2>0, <2>1, <2>2, <2>3, <2>4 DEF IInv
  <1>4. CASE StartHttpApi
    <2> USE <1>4 DEF StartHttpApi
    <2>0. WebhookTypeOK' /\ DeliveryInv'
      BY WebhookStays DEF IInv, TypeOK
    <2>1. TypeOK'
      BY <2>0, BooksBound DEF IInv, TypeOK
    <2>2. CurlInv'
      BY DEF IInv, TypeOK, WebhookTypeOK, WorkerInv, CurlInv, Books, One
    <2>3. WorkerInv'
      BY DEF IInv, WorkerInv, Stopped
    <2>4. ThreadsInv'
      BY DEF IInv, ThreadsInv
    <2> QED BY <2>0, <2>1, <2>2, <2>3, <2>4 DEF IInv
  <1>5. CASE InitHub
    <2> USE <1>5 DEF InitHub
    <2>0. WebhookTypeOK' /\ DeliveryInv'
      BY WebhookStays DEF IInv, TypeOK
    <2>1. TypeOK'
      <3>1. curl' \in 0 .. 4
        BY BooksBound
      <3>2. udp' \in {"none", "loop", "alerting", "done"} /\ status' \in 0 .. MaxHeard
        BY HubMainAssumption DEF IInv, TypeOK
      <3>3. stopping' \in BOOLEAN
        BY DEF IInv, TypeOK
      <3>4. main' \in {"console", "exited"}
        OBVIOUS
      <3> QED BY <2>0, <3>1, <3>2, <3>3, <3>4 DEF IInv, TypeOK
    <2>2. CurlInv'
      BY DEF IInv, TypeOK, WebhookTypeOK, WorkerInv, CurlInv, Books, One
    <2>3. WorkerInv'
      BY DEF IInv, WorkerInv, Stopped
    <2>4. ThreadsInv'
      BY DEF IInv, ThreadsInv
    <2> QED BY <2>0, <2>1, <2>2, <2>3, <2>4 DEF IInv
  <1> QED BY <1>1, <1>2, <1>3, <1>4, <1>5 DEF Starts

\* main runs the console, stops the parts and ends in the menu.
LEMMA ConsoleIInv ==
    ASSUME IInv, Ask \/ Quit \/ OperateDoor \/ DoorOperated \/ Exit
    PROVE  IInv'
  <1> USE DEF GoTo, alerts, hub, api, webhook
  <1>1. CASE Ask
    <2> USE <1>1 DEF Ask
    <2>0. WebhookTypeOK' /\ DeliveryInv'
      BY SendKeepsOrder DEF IInv, TypeOK
    <2>1. TypeOK'
      BY <2>0, BooksBound DEF IInv, TypeOK
    <2>2. CurlInv'
      BY DEF IInv, TypeOK, WebhookTypeOK, WorkerInv, CurlInv, Books, WebhookSend, One
    <2>3. WorkerInv'
      BY DEF IInv, WorkerInv, Stopped, WebhookSend, Enqueue, Signalled
    <2>4. ThreadsInv'
      BY DEF IInv, ThreadsInv
    <2> QED BY <2>0, <2>1, <2>2, <2>3, <2>4 DEF IInv
  <1>2. CASE Quit
    <2> USE <1>2 DEF Quit
    <2>0. WebhookTypeOK' /\ DeliveryInv'
      BY WebhookStays DEF IInv, TypeOK
    <2>1. TypeOK'
      BY <2>0, BooksBound DEF IInv, TypeOK
    <2>2. CurlInv'
      BY DEF IInv, TypeOK, WebhookTypeOK, WorkerInv, CurlInv, Books, One
    <2>3. WorkerInv'
      BY DEF IInv, WorkerInv, Stopped
    <2>4. ThreadsInv'
      BY DEF IInv, ThreadsInv
    <2> QED BY <2>0, <2>1, <2>2, <2>3, <2>4 DEF IInv
  <1>3. CASE OperateDoor
    <2> USE <1>3 DEF OperateDoor
    <2>0. WebhookTypeOK' /\ DeliveryInv'
      BY WebhookStays DEF IInv, TypeOK
    <2>1. TypeOK'
      BY <2>0, BooksBound DEF IInv, TypeOK
    <2>2. CurlInv'
      BY DEF IInv, TypeOK, WebhookTypeOK, WorkerInv, CurlInv, Books, One
    <2>3. WorkerInv'
      BY DEF IInv, WorkerInv, Stopped
    <2>4. ThreadsInv'
      BY DEF IInv, ThreadsInv
    <2> QED BY <2>0, <2>1, <2>2, <2>3, <2>4 DEF IInv
  <1>4. CASE DoorOperated
    <2> USE <1>4 DEF DoorOperated
    <2>0. WebhookTypeOK' /\ DeliveryInv'
      BY WebhookStays DEF IInv, TypeOK
    <2>1. TypeOK'
      BY <2>0, BooksBound DEF IInv, TypeOK
    <2>2. CurlInv'
      BY DEF IInv, TypeOK, WebhookTypeOK, WorkerInv, CurlInv, Books, One
    <2>3. WorkerInv'
      BY DEF IInv, WorkerInv, Stopped
    <2>4. ThreadsInv'
      BY DEF IInv, ThreadsInv
    <2> QED BY <2>0, <2>1, <2>2, <2>3, <2>4 DEF IInv
  <1>5. CASE Exit
    <2> USE <1>5 DEF Exit
    <2>0. WebhookTypeOK' /\ DeliveryInv'
      BY WebhookStays DEF IInv, TypeOK
    <2>1. TypeOK'
      BY <2>0, BooksBound DEF IInv, TypeOK
    <2>2. CurlInv'
      BY DEF IInv, TypeOK, WebhookTypeOK, WorkerInv, CurlInv, Books, One
    <2>3. WorkerInv'
      BY DEF IInv, WorkerInv, Stopped
    <2>4. ThreadsInv'
      BY DEF IInv, ThreadsInv
    <2> QED BY <2>0, <2>1, <2>2, <2>3, <2>4 DEF IInv
  <1> QED BY <1>1, <1>2, <1>3, <1>4, <1>5

LEMMA StopsIInv ==
    ASSUME IInv, Stops
    PROVE  IInv'
  <1> USE DEF GoTo, DiscordCleanup, alerts, hub, api, webhook
  <1>1. CASE HubJoined
    <2> USE <1>1 DEF HubJoined
    <2>0. WebhookTypeOK' /\ DeliveryInv'
      BY WebhookStays DEF IInv, TypeOK
    <2>1. TypeOK'
      BY <2>0, BooksBound DEF IInv, TypeOK
    <2>2. CurlInv'
      BY DEF IInv, TypeOK, WebhookTypeOK, WorkerInv, CurlInv, Books, One
    <2>3. WorkerInv'
      <3>1. CASE url
        BY <3>1 DEF IInv, WorkerInv, Stopped
      <3>2. CASE ~url
        <4>1. main' = "stopHttp" /\ ~running /\ worker \in {"none", "done"}
          BY <3>2 DEF IInv, TypeOK, WebhookTypeOK, WorkerInv
        <4> QED BY <4>1 DEF IInv, WorkerInv, Stopped
      <3> QED BY <3>1, <3>2
    <2>4. ThreadsInv'
      BY DEF IInv, ThreadsInv
    <2> QED BY <2>0, <2>1, <2>2, <2>3, <2>4 DEF IInv
  <1>2. CASE StopWebhook
    <2> USE <1>2 DEF StopWebhook
    <2>0. WebhookTypeOK' /\ DeliveryInv'
      BY DEF WebhookStops, Signalled, IInv, TypeOK, WebhookTypeOK, DeliveryInv, InHand, One
    <2>1. TypeOK'
      BY <2>0, BooksBound DEF IInv, TypeOK
    <2>2. CurlInv'
      BY DEF IInv, TypeOK, WebhookTypeOK, WorkerInv, CurlInv, Books, WebhookStops, One
    <2>3. WorkerInv'
      BY DEF IInv, WorkerInv, Stopped, WebhookStops, Signalled
    <2>4. ThreadsInv'
      BY DEF IInv, ThreadsInv
    <2> QED BY <2>0, <2>1, <2>2, <2>3, <2>4 DEF IInv
  <1>3. CASE WorkerJoined
    <2> USE <1>3 DEF WorkerJoined
    <2>0. WebhookTypeOK' /\ DeliveryInv'
      <3>1. worker = "done" /\ queue = <<>> /\ queue' = <<>> /\ tail' = 0 /\ url' = FALSE
            /\ UNCHANGED <<running, worker, holds, sent, delivered>>
        BY DEF WebhookFreed, IInv, WorkerInv
      <3> QED BY <3>1 DEF IInv, TypeOK, WebhookTypeOK, DeliveryInv, InHand
    <2>1. TypeOK'
      BY <2>0, BooksBound DEF IInv, TypeOK
    <2>2. CurlInv'
      BY DEF IInv, TypeOK, WebhookTypeOK, WorkerInv, CurlInv, Books, WebhookFreed, One
    <2>3. WorkerInv'
      BY DEF IInv, WorkerInv, Stopped, WebhookFreed
    <2>4. ThreadsInv'
      BY DEF IInv, ThreadsInv
    <2> QED BY <2>0, <2>1, <2>2, <2>3, <2>4 DEF IInv
  <1>4. CASE StopHttpApi
    <2> USE <1>4 DEF StopHttpApi
    <2>0. WebhookTypeOK' /\ DeliveryInv'
      BY WebhookStays DEF IInv, TypeOK
    <2>1. TypeOK'
      BY <2>0, BooksBound DEF IInv, TypeOK
    <2>2. CurlInv'
      BY DEF IInv, TypeOK, WebhookTypeOK, WorkerInv, CurlInv, Books, One
    <2>3. WorkerInv'
      BY DEF IInv, WorkerInv, Stopped
    <2>4. ThreadsInv'
      BY DEF IInv, ThreadsInv
    <2> QED BY <2>0, <2>1, <2>2, <2>3, <2>4 DEF IInv
  <1>5. CASE HttpJoined
    <2> USE <1>5 DEF HttpJoined, ServerGone
    <2>0. WebhookTypeOK' /\ DeliveryInv'
      BY WebhookStays DEF IInv, TypeOK
    <2>1. TypeOK'
      BY <2>0, BooksBound DEF IInv, TypeOK
    <2>2. CurlInv'
      BY DEF IInv, TypeOK, WebhookTypeOK, WorkerInv, CurlInv, Books, One
    <2>3. WorkerInv'
      BY DEF IInv, WorkerInv, Stopped
    <2>4. ThreadsInv'
      BY DEF IInv, ThreadsInv
    <2> QED BY <2>0, <2>1, <2>2, <2>3, <2>4 DEF IInv
  <1> QED BY <1>1, <1>2, <1>3, <1>4, <1>5 DEF Stops

\* The other threads leave main and libcurl alone.
LEMMA ThreadsIInv ==
    ASSUME IInv, main # "exited",
           \/ OfWorker \/ Wakeup
           \/ Hear \/ UdpAlerted \/ UdpExit \/ AlertPoll \/ AlertSent
           \/ Accept \/ ServerExit \/ AnswerAtOnce \/ Dispatch \/ Replied
    PROVE  IInv'
  <1>1. CASE OfWorker \/ Wakeup
    <2>1. WorkerWait \/ WorkerTake \/ WorkerSent \/ WorkerExit \/ SpuriousWakeup
      BY <1>1 DEF OfWorker, Wakeup
    <2>2. UNCHANGED <<alerts, hub, api, given, main, curl>>
      BY <1>1 DEF OfWorker, Wakeup
    <2>3. UNCHANGED url
      BY <2>1 DEF WorkerWait, WorkerTake, WorkerSent, WorkerExit, SpuriousWakeup
    <2>4. WebhookTypeOK' /\ DeliveryInv'
      BY <2>1, WorkerKeepsOrder DEF IInv, TypeOK
    <2>5. TypeOK'
      BY <2>2, <2>4 DEF alerts, hub, api, IInv, TypeOK
    <2>6. CurlInv'
      BY <2>2, <2>3 DEF IInv, CurlInv, Books
    <2>7. WorkerInv'
      <3>1. CASE WorkerWait \/ SpuriousWakeup
        BY <2>2, <3>1 DEF WorkerWait, SpuriousWakeup, IInv, WorkerInv, Stopped
      <3>2. CASE WorkerTake
        BY <2>2, <3>2 DEF WorkerTake, IInv, WorkerInv, Stopped
      <3>3. CASE WorkerSent
        BY <2>2, <3>3 DEF WorkerSent, IInv, WorkerInv, Stopped
      <3>4. CASE WorkerExit
        BY <2>2, <3>4 DEF WorkerExit, WorkerMayExit, IInv, WorkerInv, Stopped
      <3> QED BY <2>1, <3>1, <3>2, <3>3, <3>4
    <2>8. ThreadsInv'
      BY <2>2 DEF alerts, hub, api, IInv, ThreadsInv
    <2> QED BY <2>4, <2>5, <2>6, <2>7, <2>8 DEF IInv
  <1>2. CASE \/ Hear \/ UdpAlerted \/ UdpExit \/ AlertPoll \/ AlertSent
             \/ Accept \/ ServerExit \/ AnswerAtOnce \/ Dispatch \/ Replied
    <2> USE DEF alerts, hub, api
    <2>1. UNCHANGED <<webhook, given, main, curl>>
      BY <1>2 DEF Hear, UdpAlerted, UdpExit, AlertPoll, AlertSent, Accept, ServerExit,
                  AnswerAtOnce, Dispatch, Replied
    <2>2. WebhookTypeOK' /\ DeliveryInv'
      BY <2>1, WebhookStays DEF IInv, TypeOK
    <2>3. CurlInv' /\ WorkerInv'
      BY <2>1 DEF webhook, IInv, CurlInv, Books, WorkerInv
    <2>4. CASE Hear \/ UdpAlerted \/ UdpExit
      <3>1. /\ udp' \in {"loop", "alerting", "done"} /\ udp # "none"
            /\ status' \in 0 .. MaxHeard
            /\ UNCHANGED <<alerts, api, stopping>>
        BY <2>4, HubMainAssumption DEF Hear, UdpAlerted, UdpExit, IInv, TypeOK
      <3>2. TypeOK'
        BY <2>1, <2>2, <3>1 DEF IInv, TypeOK
      <3>3. ThreadsInv'
        BY <2>1, <3>1 DEF IInv, ThreadsInv
      <3> QED BY <2>2, <2>3, <3>2, <3>3 DEF IInv
    <2>5. CASE AlertPoll \/ AlertSent
      <3>1. /\ alert' \in {"poll", "sending"} /\ alert # "none"
            /\ text' \in 0 .. MaxHeard /\ last' \in 0 .. MaxHeard
            /\ UNCHANGED <<hub, api>>
        BY <2>5 DEF AlertPoll, AlertSent, ToldText, IInv, TypeOK
      <3>2. TypeOK'
        BY <2>1, <2>2, <3>1 DEF IInv, TypeOK
      <3>3. ThreadsInv'
        BY <2>1, <3>1 DEF IInv, ThreadsInv
      <3> QED BY <2>2, <2>3, <3>2, <3>3 DEF IInv
    <2>6. CASE Accept \/ ServerExit \/ AnswerAtOnce \/ Dispatch \/ Replied
      <3>1. /\ http' \in {"accept", "recv", "door", "command", "done"}
            /\ http \in {"accept", "recv", "door", "command"}
            /\ requests' \in 0 .. MaxRequests
            /\ UNCHANGED <<alerts, hub, serving>>
        BY <2>6, HubMainAssumption
           DEF Accept, ServerExit, AnswerAtOnce, Dispatch, Replied, IInv, TypeOK
      <3>2. TypeOK'
        BY <2>1, <2>2, <3>1 DEF IInv, TypeOK
      <3>3. ThreadsInv'
        BY <2>1, <3>1 DEF IInv, ThreadsInv
      <3> QED BY <2>2, <2>3, <3>2, <3>3 DEF IInv
    <2> QED BY <1>2, <2>4, <2>5, <2>6
  <1> QED BY <1>1, <1>2

-----------------------------------------------------------------------------
\* The inductive invariant holds in every reachable state of the hub program.
THEOREM Invariant == Spec => []IInv
  <1>1. Init => IInv
    BY InitIInv
  <1>2. IInv /\ [Next]_vars => IInv'
    <2>1. ASSUME IInv, Next PROVE IInv'
      BY <2>1, StartsIInv, ConsoleIInv, StopsIInv, ThreadsIInv DEF Next
    <2>2. ASSUME IInv, UNCHANGED vars PROVE IInv'
      BY <2>2, WebhookStays DEF vars, webhook, alerts, hub, api, IInv, TypeOK, CurlInv, Books,
                                WorkerInv, ThreadsInv
    <2> QED BY <2>1, <2>2
  <1> QED BY <1>1, <1>2, PTL DEF Spec

\* Every variable has its type: libcurl is never initialised more than four
\* times over, and queue_tail is the end of the list.
THEOREM TypeCorrect == Spec => []TypeOK
  <1>1. IInv => TypeOK BY DEF IInv
  <1> QED BY <1>1, Invariant, PTL

\* Whatever fails to start and whenever the user quits, libcurl is initialised
\* and the URL is there while a thread sends.
THEOREM ResourcesAlwaysOutliveUsers == Spec => []ResourcesOutliveUsers
  <1>1. IInv => ResourcesOutliveUsers
    BY DEF IInv, CurlInv, WorkerInv, ThreadsInv, ResourcesOutliveUsers
  <1> QED BY <1>1, Invariant, PTL

\* The menu and the HTTP thread never operate the local door at the same time.
THEOREM OneThreadAlwaysOperates == Spec => []OneThreadOperates
  <1>1. IInv => OneThreadOperates
    BY DEF IInv, ThreadsInv, OneThreadOperates
  <1> QED BY <1>1, Invariant, PTL

\* After hub_webhook_shutdown, all messages of the console were handed to
\* libcurl, once and in the order they were sent.
THEOREM MessagesAlwaysDelivered == Spec => []MessagesDelivered
  <1>1. IInv => MessagesDelivered
    <2> SUFFICES ASSUME IInv, main \in Stopped
                 PROVE  delivered = [i \in 1 .. sent |-> i]
      BY DEF MessagesDelivered, Stopped
    <2>1. queue = <<>> /\ worker # "sending"
      BY DEF IInv, WorkerInv
    <2>2. sent = Len(delivered) /\ delivered \in Seq(Messages)
      BY <2>1, LenProperties DEF IInv, DeliveryInv, InHand, One, TypeOK, WebhookTypeOK
    <2>3. delivered = [i \in 1 .. Len(delivered) |-> delivered[i]]
      BY <2>2, LenProperties
    <2> QED BY <2>2, <2>3 DEF IInv, DeliveryInv
  <1> QED BY <1>1, Invariant, PTL
=============================================================================
