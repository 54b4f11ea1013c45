------------------------------ MODULE Lifecycle ------------------------------
(***************************************************************************)
(* The bot's process from its start to its end, again and again on one     *)
(* database and one registration with Telegram: migrate, then the webhook  *)
(* (_run_webhook) or polling (_run_polling), until a signal or a failure.  *)
(* The file's schema and Telegram's record of the webhook outlive the      *)
(* process; the rest ends with it.  pc is the await the process is at.     *)
(***************************************************************************)
EXTENDS Naturals, Sequences

CONSTANTS
    Transport,      \* what WEBHOOK_URL may choose at a start
    MaxTroubles     \* bound: signals, failures and kills

ASSUME TransportAssumption == Transport \subseteq {"webhook", "polling"}
ASSUME TroubleAssumption == MaxTroubles \in Nat

VARIABLES
    schema,     \* tables and indices in the database file
    registered, \* Telegram delivers to the webhook
    pc,
    transport,  \* the transport of this start
    step,       \* the next statement of migrate
    listening,  \* the HTTP server is up
    polling,    \* start_polling's task
    catcher,    \* who handles SIGTERM and SIGINT
    shutdown,   \* shutdown_event is set
    exit,       \* how the last process ended
    troubles

process == <<pc, transport, step, listening, polling, catcher, shutdown, exit>>
vars == <<schema, registered, process, troubles>>

Table(t) == [name |-> t, needs |-> {}]
Index(i, t) == [name |-> i, needs |-> {t}]

\* The statements in their order.  SQLite lets a table refer to one that is
\* not there yet; an index needs its table.
SCHEMA ==
    << Table("categories"), Table("products"), Table("carts"), Table("orders"),
       Table("payments"), Table("product_deliveries"), Table("keys"),
       Index("idx_orders_user_status", "orders"),
       Index("idx_keys_product_used", "keys"),
       Index("idx_payments_external", "payments") >>

Names == {SCHEMA[i].name : i \in DOMAIN SCHEMA}

Label == {"down", "migrate", "listen", "unhook", "hook", "metrics", "wait",
          "unhook again", "stop polling", "cleanup"}

TypeOK ==
    /\ schema \subseteq Names
    /\ registered \in BOOLEAN
    /\ pc \in Label
    /\ transport \in {"webhook", "polling"}
    /\ step \in 1..Len(SCHEMA) + 1
    /\ listening \in BOOLEAN
    /\ polling \in {"off", "starting", "on", "ended"}
    /\ catcher \in {"nobody", "main", "aiogram"}
    /\ shutdown \in BOOLEAN
    /\ exit \in {"none", "ok", "error"}
    /\ troubles \in 0..MaxTroubles

Init ==
    /\ schema = {}
    /\ registered \in BOOLEAN
    /\ pc = "down"
    /\ transport \in Transport
    /\ step = 1
    /\ listening = FALSE
    /\ polling = "off"
    /\ catcher = "nobody"
    /\ shutdown = FALSE
    /\ exit = "none"
    /\ troubles = 0

\* The process is gone, and with it whatever it held.
Ends(how) ==
    /\ pc' = "down"
    /\ step' = 1
    /\ listening' = FALSE
    /\ polling' = "off"
    /\ catcher' = "nobody"
    /\ shutdown' = FALSE
    /\ exit' = how
    /\ UNCHANGED transport

GoTo(label) == pc' = label /\ UNCHANGED <<transport, step, exit>>

-----------------------------------------------------------------------------
(* main                                                                    *)

\* Mutant: a file that has tables is taken for migrated.
StartUnlessNew(t) ==
    /\ pc = "down"
    /\ pc' = "migrate"
    /\ transport' = t
    /\ step' = IF schema = {} THEN 1 ELSE Len(SCHEMA) + 1
    /\ exit' = "none"
    /\ UNCHANGED <<schema, registered, listening, polling, catcher, shutdown, troubles>>

Start(t) ==
    /\ pc = "down"
    /\ pc' = "migrate"
    /\ transport' = t
    /\ exit' = "none"
    /\ UNCHANGED <<schema, registered, step, listening, polling, catcher, shutdown, troubles>>

\* Mutants: CREATE without IF NOT EXISTS; a statement after the last.
MigrateNewOnly ==
    /\ pc = "migrate"
    /\ step <= Len(SCHEMA)
    /\ LET new == SCHEMA[step] IN
        IF new.needs \subseteq schema /\ new.name \notin schema
        THEN /\ schema' = schema \cup {new.name}
             /\ step' = step + 1
             /\ UNCHANGED <<pc, transport, listening, polling, catcher, shutdown, exit>>
        ELSE /\ Ends("error")
             /\ UNCHANGED schema
    /\ UNCHANGED <<registered, troubles>>
MigrateTooFar ==
    /\ pc = "migrate"
    /\ step <= Len(SCHEMA) + 1
    /\ schema' = IF step \in DOMAIN SCHEMA THEN schema \cup {SCHEMA[step].name} ELSE schema
    /\ step' = step + 1
    /\ UNCHANGED <<registered, pc, transport, listening, polling, catcher, shutdown, exit, troubles>>

\* CREATE ... IF NOT EXISTS.  The driver begins no transaction for it, so each
\* statement is in the file when it has been executed.
Migrate ==
    /\ pc = "migrate"
    /\ step <= Len(SCHEMA)
    /\ LET new == SCHEMA[step] IN
        IF new.needs \subseteq schema
        THEN /\ schema' = schema \cup {new.name}
             /\ step' = step + 1
             /\ UNCHANGED <<pc, transport, listening, polling, catcher, shutdown, exit>>
        ELSE /\ Ends("error")
             /\ UNCHANGED schema
    /\ UNCHANGED <<registered, troubles>>

\* Routers, middlewares and signal handlers; nothing awaits.
SetUp ==
    /\ pc = "migrate"
    /\ step > Len(SCHEMA)
    /\ catcher' = "main"
    /\ GoTo(IF transport = "webhook" THEN "listen" ELSE "unhook")
    /\ UNCHANGED <<schema, registered, listening, polling, shutdown, troubles>>

-----------------------------------------------------------------------------
(* _run_webhook and _run_polling                                           *)

\* Mutant: the site is not started.
ListenLater ==
    /\ pc = "listen"
    /\ GoTo("unhook")
    /\ UNCHANGED <<schema, registered, listening, polling, catcher, shutdown, troubles>>

Listen ==
    /\ pc = "listen"
    /\ listening' = TRUE
    /\ GoTo("unhook")
    /\ UNCHANGED <<schema, registered, polling, catcher, shutdown, troubles>>

\* Mutant: polling leaves the webhook alone.
UnhookForWebhook ==
    /\ pc = "unhook"
    /\ registered' = (transport = "polling" /\ registered)
    /\ GoTo(IF transport = "webhook" THEN "hook" ELSE "metrics")
    /\ UNCHANGED <<schema, listening, polling, catcher, shutdown, troubles>>

\* What Telegram keeps for the bot is dropped here, too.
Unhook ==
    /\ pc = "unhook"
    /\ registered' = FALSE
    /\ GoTo(IF transport = "webhook" THEN "hook" ELSE "metrics")
    /\ UNCHANGED <<schema, listening, polling, catcher, shutdown, troubles>>

\* Mutant: the event is created only now.
HookForgettingSignal ==
    /\ pc = "hook"
    /\ registered' = TRUE
    /\ shutdown' = FALSE
    /\ GoTo("wait")
    /\ UNCHANGED <<schema, listening, polling, catcher, troubles>>

Hook ==
    /\ pc = "hook"
    /\ registered' = TRUE
    /\ GoTo("wait")
    /\ UNCHANGED <<schema, listening, polling, catcher, shutdown, troubles>>

\* start_metrics_server, and both tasks are created.
ServeMetrics ==
    /\ pc = "metrics"
    /\ listening' = TRUE
    /\ polling' = "starting"
    /\ GoTo("wait")
    /\ UNCHANGED <<schema, registered, catcher, shutdown, troubles>>

\* aiogram's start_polling takes the signals over.
PollingStarts ==
    /\ polling = "starting"
    /\ polling' = "on"
    /\ catcher' = "aiogram"
    /\ UNCHANGED <<schema, registered, pc, transport, step, listening, shutdown, exit, troubles>>

\* Mutant: out without deleting the webhook.
StopWaitingOnly ==
    /\ pc = "wait"
    /\ shutdown
    /\ transport = "polling" => polling = "ended"
    /\ GoTo(IF transport = "webhook" THEN "cleanup" ELSE "stop polling")
    /\ UNCHANGED <<schema, registered, listening, polling, catcher, shutdown, troubles>>

\* asyncio.wait waits for polling and for the event.
StopWaiting ==
    /\ pc = "wait"
    /\ shutdown
    /\ transport = "polling" => polling = "ended"
    /\ GoTo(IF transport = "webhook" THEN "unhook again" ELSE "stop polling")
    /\ UNCHANGED <<schema, registered, listening, polling, catcher, shutdown, troubles>>

UnhookAgain ==
    /\ pc = "unhook again"
    /\ registered' = FALSE
    /\ GoTo("cleanup")
    /\ UNCHANGED <<schema, listening, polling, catcher, shutdown, troubles>>

\* Polling has ended by itself by now, and aiogram's stop_polling raises when it
\* is not started: the session is not closed, and cleanup is skipped.
StopPolling ==
    /\ pc = "stop polling"
    /\ Ends("error")
    /\ UNCHANGED <<schema, registered, troubles>>

Cleanup ==
    /\ pc = "cleanup"
    /\ Ends("ok")
    /\ UNCHANGED <<schema, registered, troubles>>

\* Updates come to the handlers.
Receives ==
    \/ transport = "webhook" /\ registered /\ listening
    \/ polling = "on"

-----------------------------------------------------------------------------
(* From outside                                                            *)

Trouble == troubles < MaxTroubles /\ troubles' = troubles + 1

\* To main's handler it is the event; aiogram's stops polling if it is on.
\* With nobody to handle it, it kills: see Fails.
Signal ==
    /\ Trouble
    /\ \/ /\ catcher = "main"
          /\ shutdown' = TRUE
          /\ UNCHANGED polling
       \/ /\ catcher = "aiogram"
          /\ polling' = IF polling = "on" THEN "ended" ELSE polling
          /\ UNCHANGED shutdown
    /\ UNCHANGED <<schema, registered, pc, transport, step, listening, catcher, exit>>

\* start_polling raises; its task keeps the exception to itself.
PollingDies ==
    /\ Trouble
    /\ polling \in {"starting", "on"}
    /\ polling' = "ended"
    /\ UNCHANGED <<schema, registered, pc, transport, step, listening, catcher, shutdown, exit>>

\* What is awaited raises, or the process is killed.  A Telegram call that
\* gave no answer may have been carried out.
Fails ==
    /\ Trouble
    /\ pc # "down"
    /\ registered' \in CASE pc \in {"unhook", "unhook again"} -> {registered, FALSE}
                         [] pc = "hook" -> {registered, TRUE}
                         [] OTHER -> {registered}
    /\ Ends("error")
    /\ UNCHANGED schema

\* A start whose configuration validate refuses: nothing is touched.
Refuse ==
    /\ Trouble
    /\ pc = "down"
    /\ exit' = "error"
    /\ transport' \in Transport
    /\ UNCHANGED <<schema, registered, pc, step, listening, polling, catcher, shutdown>>

-----------------------------------------------------------------------------
Step ==
    \/ Migrate
    \/ SetUp
    \/ Listen
    \/ Unhook
    \/ Hook
    \/ ServeMetrics
    \/ PollingStarts
    \/ StopWaiting
    \/ UnhookAgain
    \/ StopPolling
    \/ Cleanup

Next ==
    \/ \E t \in Transport : Start(t)
    \/ Step
    \/ Refuse
    \/ Signal
    \/ PollingDies
    \/ Fails

Spec == Init /\ [][Next]_vars

\* The event loop goes on, and "restart: always" starts the container again.
\* As troubles are bounded, Telegram and the database answer in the end.
FairSpec == Spec /\ WF_vars(Step) /\ WF_vars(\E t \in Transport : Start(t))

-----------------------------------------------------------------------------
(* Properties.                                                             *)

\* Whenever an update can reach a handler, by a webhook an earlier process left
\* registered too, migrate has completed the schema, wherever it was cut off.
HandlersFindTheSchema == Receives => schema = Names

\* From the time the process talks to Telegram until it ends, a webhook that is
\* registered is listened to: set_webhook comes after the server is up, and
\* the server goes down after delete_webhook.
RegisteredIsServed ==
    registered /\ pc \notin {"down", "migrate", "listen"} /\ transport = "webhook" => listening

\* Telegram refuses getUpdates while a webhook is registered: polling runs
\* without one, also after a webhook bot that was killed.
PollsWithoutWebhook == polling \in {"starting", "on"} => ~registered

\* A process that ends in order leaves no webhook behind that nobody serves.
OrderlyExitUnregisters == exit = "ok" /\ transport = "webhook" => ~registered

\* A signal that main's handler caught ends a webhook bot, at whatever await it
\* came: none is forgotten.
SignalEndsWebhook == shutdown /\ transport = "webhook" ~> pc = "down"

\* Whatever went wrong before, a bot that stays on the webhook ends up serving
\* it: no half-made schema and no leftover webhook makes every start fail.
EventuallyServes ==
    <>[](transport = "webhook") => <>[](pc = "wait" /\ registered /\ listening)
=============================================================================
