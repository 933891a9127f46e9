------------------------------ MODULE HubMain ------------------------------
(***************************************************************************)
(* The hub program of app/src/door_system.c: its main thread starts the    *)
(* webhook, the alert monitor, the HTTP API and the UDP hub, runs the      *)
(* console, stops what it started and ends in a menu that operates a local *)
(* door.  Beside it run the webhook's worker (Webhook), the alert thread   *)
(* of app/src/discord_alert.c, the server thread of app/src/http_api.c and *)
(* udp_thread of hal/src/hub_udp.c.                                        *)
(*                                                                         *)
(* status stands for the text door_alert_provider makes of the door's      *)
(* flags and its last heartbeat; 0 while the hub does not know the module. *)
(* udp_thread holds g_mutex while it sends an alert of its own, so whoever *)
(* asks the hub for a status waits for that.                               *)
(***************************************************************************)
EXTENDS Webhook

CONSTANTS MaxRequests,  \* bound: connections to the HTTP API
          MaxHeard      \* bound: datagrams that change the status

ASSUME HubMainAssumption == MaxRequests \in Nat /\ MaxHeard \in Nat

VARIABLES
    given,      \* whether a webhook URL was given, by argument or environment
    main,       \* where the main thread is
    curl,       \* how often libcurl was initialised and not cleaned up
    alert,      \* where doorAlertThread is: "none" before it is created
    text,       \* its m: the text it is sending
    last,       \* its last_msg, 0 for NULL
    udp,        \* where udp_thread is: "none" before it is created
    stopping,   \* g_stopping
    status,     \* the hub's tables, as far as the alert's text shows them
    http,       \* where server_loop is: "none" before it is created
    serving,    \* server_running, and whether its socket listens
    requests    \* how many connections were accepted

alerts == <<alert, text, last>>
hub == <<udp, stopping, status>>
api == <<http, serving, requests>>
vars == <<webhook, alerts, hub, api, given, main, curl>>

Init ==
    /\ WebhookInit
    /\ given \in BOOLEAN
    /\ main = "discord" /\ curl = 0
    /\ alert = "none" /\ text = 0 /\ last = 0
    /\ udp = "none" /\ stopping = FALSE /\ status = 0
    /\ http = "none" /\ serving = FALSE /\ requests = 0

MutexFree == udp # "alerting"

\* curl_global_init and curl_global_cleanup count their calls.
MutantDiscordStart == 1
DiscordStart == curl + 1
DiscordCleanup == IF curl = 0 THEN 0 ELSE curl - 1

-----------------------------------------------------------------------------
(* main, as it starts the parts.  Each of them may fail to start: the      *)
(* program goes on without it, or ends if it is the UDP hub.               *)

GoTo(from, to) == main = from /\ main' = to

StartDiscord ==
    /\ GoTo("discord", IF given THEN "webhook" ELSE "http")
    /\ curl' = DiscordStart
    /\ UNCHANGED <<webhook, alerts, hub, api, given>>

InitWebhook ==
    /\ GoTo("webhook", "monitor")
    /\ \/ WebhookStarts /\ curl' = DiscordStart
       \/ UNCHANGED <<webhook, curl>>
    /\ UNCHANGED <<alerts, hub, api, given>>

StartDoorAlertMonitor ==
    /\ GoTo("monitor", "http")
    /\ curl' = DiscordStart
    /\ alert' \in {"poll", "none"}
    /\ UNCHANGED <<webhook, text, last, hub, api, given>>

StartHttpApi ==
    /\ GoTo("http", "udp")
    /\ \/ serving' = TRUE /\ http' = "accept"
       \/ UNCHANGED <<serving, http>>
    /\ UNCHANGED <<webhook, alerts, hub, requests, given, curl>>

InitHub ==
    /\ curl' = DiscordStart
    /\ \/ /\ GoTo("udp", "console")
          /\ udp' = "loop" /\ stopping' = FALSE /\ status' = 0
       \/ /\ GoTo("udp", "exited")
          /\ UNCHANGED hub
    /\ UNCHANGED <<webhook, alerts, api, given>>

Starts ==
    \/ StartDiscord \/ InitWebhook \/ StartDoorAlertMonitor \/ StartHttpApi \/ InitHub

\* The console's "s" and "h": they read the hub's tables and tell the webhook.
Ask ==
    /\ main = "console" /\ MutexFree
    /\ WebhookSend
    /\ UNCHANGED <<alerts, hub, api, given, main, curl>>

-----------------------------------------------------------------------------
(* main, as it stops the parts, in the order of the source.                *)

\* hub_udp_shutdown up to the join.
Quit ==
    /\ GoTo("console", "joinHub")
    /\ stopping' = TRUE
    /\ UNCHANGED <<webhook, alerts, udp, status, api, given, curl>>

\* hub_udp_shutdown from the join on.
HubJoined ==
    /\ udp = "done"
    /\ GoTo("joinHub", IF url THEN "stopWebhook" ELSE "stopHttp")
    /\ curl' = DiscordCleanup
    /\ UNCHANGED <<webhook, alerts, hub, api, given>>

StopWebhook ==
    /\ GoTo("stopWebhook", "joinWorker")
    /\ WebhookStops
    /\ UNCHANGED <<alerts, hub, api, given, curl>>

WorkerJoined ==
    /\ GoTo("joinWorker", "stopHttp")
    /\ WebhookFreed
    /\ curl' = DiscordCleanup
    /\ UNCHANGED <<alerts, hub, api, given>>

\* http_api_stop up to the join; shutdown(2) of the socket ends an accept.
StopHttpApi ==
    /\ GoTo("stopHttp", IF serving THEN "joinHttp" ELSE "menu")
    /\ serving' = FALSE
    /\ UNCHANGED <<webhook, alerts, hub, http, requests, given, curl>>

MutantServerGone == TRUE
ServerGone == http = "done"

HttpJoined ==
    /\ ServerGone
    /\ GoTo("joinHttp", "menu")
    /\ UNCHANGED <<webhook, alerts, hub, api, given, curl>>

Stops == HubJoined \/ StopWebhook \/ WorkerJoined \/ StopHttpApi \/ HttpJoined

\* The menu: lockDoor, unlockDoor or get_door_status on the local door.
OperateDoor ==
    /\ GoTo("menu", "door")
    /\ UNCHANGED <<webhook, alerts, hub, api, given, curl>>

DoorOperated ==
    /\ GoTo("door", "menu")
    /\ UNCHANGED <<webhook, alerts, hub, api, given, curl>>

\* main returns, which ends every thread.
Exit ==
    /\ GoTo("menu", "exited")
    /\ UNCHANGED <<webhook, alerts, hub, api, given, curl>>

-----------------------------------------------------------------------------
(* udp_thread.  An EVENT may have it send an alert, and it holds g_mutex   *)
(* for as long as that takes.  It tests g_stopping between two rounds.     *)

Hear ==
    /\ udp = "loop" /\ status < MaxHeard
    /\ status' = status + 1
    /\ udp' \in {"loop", "alerting"}
    /\ UNCHANGED <<webhook, alerts, stopping, api, given, main, curl>>

UdpAlerted ==
    /\ udp = "alerting"
    /\ udp' = "loop"
    /\ UNCHANGED <<webhook, alerts, stopping, status, api, given, main, curl>>

UdpExit ==
    /\ udp = "loop" /\ stopping
    /\ udp' = "done"
    /\ UNCHANGED <<webhook, alerts, stopping, status, api, given, main, curl>>

-----------------------------------------------------------------------------
(* doorAlertThread.  Nobody calls stopDoorAlertMonitor.                    *)

AlertPoll ==
    /\ alert = "poll" /\ MutexFree
    /\ status # 0 /\ status # last
    /\ text' = status /\ alert' = "sending"
    /\ UNCHANGED <<webhook, last, hub, api, given, main, curl>>

\* What last_msg becomes when the sending is over.
MutantToldText == status
ToldText == text

AlertSent ==
    /\ alert = "sending"
    /\ last' = ToldText /\ alert' = "poll"
    /\ UNCHANGED <<webhook, text, hub, api, given, main, curl>>

-----------------------------------------------------------------------------
(* server_loop and handle_client: one connection after the other.          *)

Accept ==
    /\ http = "accept" /\ serving /\ requests < MaxRequests
    /\ http' = "recv" /\ requests' = requests + 1
    /\ UNCHANGED <<webhook, alerts, hub, serving, given, main, curl>>

\* The thread ends when the socket is shut down, and at any other error of
\* accept but EINTR; server_running is left alone.
ServerExit ==
    /\ http = "accept"
    /\ http' = "done"
    /\ UNCHANGED <<webhook, alerts, hub, serving, requests, given, main, curl>>

\* A request is answered at once: it is no good, or it is for a status or a
\* module the hub can answer for from its tables.
AnswerAtOnce ==
    /\ http = "recv" /\ MutexFree
    /\ http' = "accept"
    /\ UNCHANGED <<webhook, alerts, hub, serving, requests, given, main, curl>>

\* A command for the local module, and a status of it the hub does not have,
\* operate the door on this thread; a command for a module the hub knows
\* goes through hub_udp_send_command, which waits for its feedback.
Dispatch ==
    /\ http = "recv"
    /\ \/ http' = "door"
       \/ /\ status # 0 /\ MutexFree
          /\ http' = "command"
    /\ UNCHANGED <<webhook, alerts, hub, serving, requests, given, main, curl>>

Replied ==
    /\ http = "door" \/ (http = "command" /\ MutexFree)
    /\ http' = "accept"
    /\ UNCHANGED <<webhook, alerts, hub, serving, requests, given, main, curl>>

-----------------------------------------------------------------------------
OfWorker ==
    /\ WorkerWait \/ WorkerTake \/ WorkerSent \/ WorkerExit
    /\ UNCHANGED <<alerts, hub, api, given, main, curl>>

Wakeup ==
    /\ SpuriousWakeup
    /\ UNCHANGED <<alerts, hub, api, given, main, curl>>

Next ==
    /\ main # "exited"
    /\ \/ Starts \/ Ask \/ Quit \/ Stops
       \/ OperateDoor \/ DoorOperated \/ Exit
       \/ OfWorker \/ Wakeup
       \/ Hear \/ UdpAlerted \/ UdpExit
       \/ AlertPoll \/ AlertSent
       \/ Accept \/ ServerExit \/ AnswerAtOnce \/ Dispatch \/ Replied

\* Threads that can go on do.  That a connection is answered at once or
\* dispatched takes a client that sends something or hangs up: recv has no
\* timeout.  Nobody has to quit, and a server may wait for ever in accept
\* as long as its socket listens.
Alive == main # "exited"
Fairness ==
    /\ WF_vars(Alive /\ Stops)
    /\ WF_vars(Alive /\ OfWorker)
    /\ WF_vars(Alive /\ (UdpAlerted \/ UdpExit))
    /\ WF_vars(Alive /\ (AlertPoll \/ AlertSent))
    /\ WF_vars(Alive /\ ~serving /\ ServerExit)
    /\ WF_vars(Alive /\ (AnswerAtOnce \/ Dispatch \/ Replied))

Spec == Init /\ [][Next]_vars /\ Fairness

-----------------------------------------------------------------------------
\* Every variable keeps its type, and queue_tail is the last message of the
\* list, or NULL when the list is empty.
TypeOK ==
    /\ WebhookTypeOK
    /\ given \in BOOLEAN /\ curl \in 0 .. 4
    /\ main \in {"discord", "webhook", "monitor", "http", "udp", "console", "joinHub",
                 "stopWebhook", "joinWorker", "stopHttp", "joinHttp", "menu", "door", "exited"}
    /\ alert \in {"none", "poll", "sending"}
    /\ text \in 0 .. MaxHeard /\ last \in 0 .. MaxHeard /\ status \in 0 .. MaxHeard
    /\ udp \in {"none", "loop", "alerting", "done"} /\ stopping \in BOOLEAN
    /\ http \in {"none", "accept", "recv", "door", "command", "done"}
    /\ serving \in BOOLEAN /\ requests \in 0 .. MaxRequests

\* What the stopping of one part frees, no thread of another part still uses:
\* libcurl stays initialised while the worker, the alert thread (which is never
\* stopped) or udp_thread sends, and the worker's URL outlives its sending.
ResourcesOutliveUsers ==
    /\ worker = "sending" => url /\ curl > 0
    /\ alert = "sending" => curl > 0
    /\ udp = "alerting" => curl > 0

\* The HTTP thread and the menu never operate the local door at the same time:
\* lockDoor and unlockDoor take no lock, only http_api_stop's join keeps them apart.
OneThreadOperates == ~(main = "door" /\ http = "door")

\* Once hub_webhook_shutdown has returned, every message the console sent while
\* the webhook ran was handed to libcurl, once and in order.
MessagesDelivered ==
    main \in {"stopHttp", "joinHttp", "menu", "door"} =>
        delivered = [i \in 1 .. sent |-> i]

\* "q" on the console gets to the menu: each of the three shutdowns finds its
\* thread, asleep, sending or in the middle of a request, and joins it.
QuitReturns == main = "joinHub" ~> main \in {"menu", "door", "exited"}

\* The alert thread tells the last change of the status, also one that came
\* while it was sending, and also after the hub was shut down.
AlertsCatchUp ==
    alert # "none" ~> ((alert = "poll" /\ text = status) \/ main = "exited")
=============================================================================
