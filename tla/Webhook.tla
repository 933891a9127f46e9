------------------------------ MODULE Webhook ------------------------------
(***************************************************************************)
(* The webhook queue of hal/src/system_webhook.c: an unbounded linked list *)
(* of messages under queue_lock, and one worker thread that sends them.    *)
(* The actions constrain the variables of this module only: HubMain, which *)
(* extends it, says when the main thread takes its steps and keeps the     *)
(* books of libcurl.                                                       *)
(*                                                                         *)
(* Only the main thread calls hub_webhook_send and hub_webhook_shutdown,   *)
(* so the two critical sections of a send (is it running, then enqueue)    *)
(* are one action.  A message is the number of the call that sent it.      *)
(***************************************************************************)
EXTENDS Naturals, Sequences

CONSTANT MaxMessages    \* bound: messages enqueued in one behaviour

ASSUME MaxMessagesAssumption == MaxMessages \in Nat

VARIABLES
    queue,      \* the list from queue_head on, oldest message first
    tail,       \* queue_tail: the last message, 0 for NULL
    running,    \* running
    url,        \* g_webhook_url # NULL
    worker,     \* where worker is: "none" before it is created
    holds,      \* the message worker has dequeued and not yet freed, 0 for none
    sent,       \* history: how many messages were enqueued
    delivered   \* history: the messages handed to libcurl, in order

webhook == <<queue, tail, running, url, worker, holds, sent, delivered>>

Messages == 1 .. MaxMessages

WebhookInit ==
    /\ queue = <<>> /\ tail = 0
    /\ running = FALSE /\ url = FALSE
    /\ worker = "none" /\ holds = 0
    /\ sent = 0 /\ delivered = <<>>

\* hub_webhook_init with a URL; a start that fails leaves everything as it was.
WebhookStarts ==
    /\ url' = TRUE /\ running' = TRUE /\ worker' = "loop"
    /\ UNCHANGED <<queue, tail, holds, sent, delivered>>

\* pthread_cond_signal, on a condition only the worker waits for.
MutantSignalled == worker
Signalled == IF worker = "waiting" THEN "loop" ELSE worker

\* enqueue_msg: m is linked behind queue_tail, or becomes the head.
Enqueue(m) ==
    /\ queue' = IF tail = 0 THEN <<m>> ELSE Append(queue, m)
    /\ tail' = m
    /\ worker' = Signalled

\* hub_webhook_send
WebhookSend ==
    \/ /\ running /\ sent < MaxMessages
       /\ Enqueue(sent + 1)
       /\ sent' = sent + 1
       /\ UNCHANGED <<running, url, holds, delivered>>
    \/ /\ ~running
       /\ UNCHANGED webhook

-----------------------------------------------------------------------------
(* worker and dequeue_msg *)

WorkerWait ==
    /\ worker = "loop" /\ running /\ queue = <<>>
    /\ worker' = "waiting"
    /\ UNCHANGED <<queue, tail, running, url, holds, sent, delivered>>

\* pthread_cond_wait may return with no signal.
SpuriousWakeup ==
    /\ worker = "waiting"
    /\ worker' = "loop"
    /\ UNCHANGED <<queue, tail, running, url, holds, sent, delivered>>

\* queue_tail after the head was unlinked and q is left.
MutantTailOf(q) == tail
TailOf(q) == IF q = <<>> THEN 0 ELSE tail

WorkerTake ==
    /\ worker = "loop" /\ queue # <<>>
    /\ holds' = Head(queue)
    /\ queue' = Tail(queue)
    /\ tail' = TailOf(Tail(queue))
    /\ worker' = "sending"
    /\ UNCHANGED <<running, url, sent, delivered>>

\* sendDiscordAlert returns, whether or not the message got through.
WorkerSent ==
    /\ worker = "sending"
    /\ delivered' = IF url THEN Append(delivered, holds) ELSE delivered
    /\ holds' = 0 /\ worker' = "loop"
    /\ UNCHANGED <<queue, tail, running, url, sent>>

MutantExitAtOnce == ~running
WorkerMayExit == ~running /\ queue = <<>>

WorkerExit ==
    /\ worker = "loop" /\ WorkerMayExit
    /\ worker' = "done"
    /\ UNCHANGED <<queue, tail, running, url, holds, sent, delivered>>

-----------------------------------------------------------------------------
(* hub_webhook_shutdown, up to the join and after it *)

WebhookStops ==
    /\ running' = FALSE
    /\ worker' = Signalled
    /\ UNCHANGED <<queue, tail, url, holds, sent, delivered>>

WebhookFreed ==
    /\ worker = "done"
    /\ queue' = <<>> /\ tail' = 0 /\ url' = FALSE
    /\ UNCHANGED <<running, worker, holds, sent, delivered>>

-----------------------------------------------------------------------------
WebhookTypeOK ==
    /\ queue \in Seq(Messages)
    /\ tail = IF queue = <<>> THEN 0 ELSE queue[Len(queue)]
    /\ running \in BOOLEAN /\ url \in BOOLEAN
    /\ worker \in {"none", "loop", "waiting", "sending", "done"}
    /\ holds \in 0 .. MaxMessages /\ sent \in 0 .. MaxMessages
    /\ delivered \in Seq(Messages)
=============================================================================
