------------------------------ MODULE Bot_proofs ------------------------------
(***************************************************************************)
(* The process keeps its schema, its webhook and its transport in order    *)
(* (Lifecycle), and what its middleware promises (Throttling), over any    *)
(* number of starts, failures and kills.                                   *)
(***************************************************************************)
EXTENDS Bot, Throttling_proofs

-----------------------------------------------------------------------------
(* The process.                                                            *)

\* Where each transport's code runs.
WebhookLabel == {"listen", "hook", "unhook again"}
PollingLabel == {"metrics", "stop polling"}

\* migrate is done before anything else is begun, and what it has executed
\* in this process is in the file.
SchemaInv ==
    /\ \A i \in 1..step - 1 : SCHEMA[i].name \in schema
    /\ pc = "down" => step = 1
    /\ pc \notin {"down", "migrate"} => schema = Names

\* The server and the polling task exist only in the part of the code that is
\* after their start, and in the process that started them.
ServiceInv ==
    /\ pc \in {"down", "migrate", "listen"} => listening = FALSE
    /\ pc \notin {"wait", "stop polling", "cleanup"} => polling = "off"
    /\ pc \in WebhookLabel => transport = "webhook"
    /\ pc \in PollingLabel => transport = "polling"
    /\ polling # "off" => transport = "polling"
    /\ transport = "webhook" /\ pc \notin {"down", "migrate", "listen"} => listening = TRUE

\* Who may be registered with Telegram, and what an ended process left.
WebhookInv ==
    /\ transport = "polling" /\ pc \in PollingLabel \cup {"wait"} => registered = FALSE
    /\ pc = "cleanup" => registered = FALSE
    /\ pc # "down" => exit = "none"
    /\ exit = "ok" => registered = FALSE

\* The inductive invariant: what is served, registered and migrated follows
\* from the await main is at.
LifecycleInv == TypeOK /\ SchemaInv /\ ServiceInv /\ WebhookInv

\* The script of migrate has an end.
LEMMA SchemaLength == Len(SCHEMA) = 10 /\ DOMAIN SCHEMA = 1..10
BY DEF SCHEMA

\* The count of troubles stays within its bound.
LEMMA TroubleStays == troubles \in 0..MaxTroubles /\ Trouble => troubles' \in 0..MaxTroubles
BY TroubleAssumption DEF Trouble

\* The first start finds whatever an earlier bot left registered.
LEMMA LifecycleInit == Init => LifecycleInv
<1> SUFFICES ASSUME Init PROVE LifecycleInv
  OBVIOUS
<1>1. 1 \in 1..Len(SCHEMA) + 1 /\ 0 \in 0..MaxTroubles
  BY SchemaLength, TroubleAssumption
<1>2. transport \in {"webhook", "polling"}
  BY TransportAssumption DEF Init
<1>3. TypeOK
  BY <1>1, <1>2 DEF Init, TypeOK, Label
<1>4. SchemaInv
  BY DEF Init, SchemaInv
<1>5. ServiceInv /\ WebhookInv
  BY DEF Init, ServiceInv, WebhookInv, WebhookLabel, PollingLabel
<1> QED
  BY <1>3, <1>4, <1>5 DEF LifecycleInv

\* A statement of migrate, or the end of a process it fails in.
LEMMA MigrateKeeps == LifecycleInv /\ Migrate => LifecycleInv'
<1> SUFFICES ASSUME LifecycleInv, Migrate PROVE LifecycleInv'
  OBVIOUS
<1>1. pc = "migrate" /\ step \in 1..10 /\ SCHEMA[step].name \in Names
  BY SchemaLength DEF Migrate, LifecycleInv, TypeOK, Names
<1>2. TypeOK'
  <2>1. step' \in 1..Len(SCHEMA) + 1
    BY <1>1, SchemaLength DEF Migrate, LifecycleInv, TypeOK, Ends
  <2>2. schema' \subseteq Names
    BY <1>1 DEF Migrate, LifecycleInv, TypeOK
  <2> QED
    BY <2>1, <2>2 DEF Migrate, LifecycleInv, TypeOK, Ends, Label
<1>3. SchemaInv'
  BY <1>1 DEF Migrate, LifecycleInv, SchemaInv, Ends
<1>4. ServiceInv' /\ WebhookInv'
  BY <1>1 DEF Migrate, LifecycleInv, ServiceInv, WebhookInv, Ends, WebhookLabel, PollingLabel
<1> QED
  BY <1>2, <1>3, <1>4 DEF LifecycleInv

\* When the last statement is executed the schema is whole.
LEMMA SetUpKeeps == LifecycleInv /\ SetUp => LifecycleInv'
<1> SUFFICES ASSUME LifecycleInv, SetUp PROVE LifecycleInv'
  OBVIOUS
<1>1. pc = "migrate" /\ step = 11 /\ schema \subseteq Names
  BY SchemaLength DEF SetUp, LifecycleInv, TypeOK
<1>2. schema = Names
  BY <1>1, SchemaLength DEF LifecycleInv, SchemaInv, Names
<1>3. TypeOK'
  BY DEF SetUp, LifecycleInv, TypeOK, GoTo, Label
<1>4. SchemaInv'
  BY <1>2 DEF SetUp, LifecycleInv, SchemaInv, GoTo
<1>5. ServiceInv' /\ WebhookInv'
  BY <1>1 DEF SetUp, LifecycleInv, TypeOK, ServiceInv, WebhookInv, GoTo, WebhookLabel, PollingLabel
<1> QED
  BY <1>3, <1>4, <1>5 DEF LifecycleInv

\* The steps of _run_webhook and _run_polling.
LEMMA RunKeeps ==
    ASSUME LifecycleInv,
           Listen \/ Unhook \/ Hook \/ ServeMetrics \/ PollingStarts \/ StopWaiting
           \/ UnhookAgain
    PROVE  LifecycleInv'
<1>1. TypeOK'
  BY DEF LifecycleInv, TypeOK, Label, Listen, Unhook, Hook, ServeMetrics, PollingStarts,
     StopWaiting, UnhookAgain, GoTo
<1>2. SchemaInv'
  BY DEF LifecycleInv, SchemaInv, Listen, Unhook, Hook, ServeMetrics, PollingStarts,
     StopWaiting, UnhookAgain, GoTo
<1>3. ServiceInv'
  BY DEF LifecycleInv, TypeOK, ServiceInv, Listen, Unhook, Hook, ServeMetrics, PollingStarts,
     StopWaiting, UnhookAgain, GoTo, WebhookLabel, PollingLabel
<1>4. WebhookInv'
  BY DEF LifecycleInv, TypeOK, ServiceInv, WebhookInv, Listen, Unhook, Hook, ServeMetrics,
     PollingStarts, StopWaiting, UnhookAgain, GoTo,
     WebhookLabel, PollingLabel
<1> QED
  BY <1>1, <1>2, <1>3, <1>4 DEF LifecycleInv

\* A start, and the ends of a process.
LEMMA StartAndEndKeep ==
    ASSUME LifecycleInv,
           (\E t \in Transport : Start(t)) \/ StopPolling \/ Cleanup \/ Fails \/ Refuse
    PROVE  LifecycleInv'
<1>1. TypeOK'
  <2>1. step' \in 1..Len(SCHEMA) + 1
    <3>1. step' = step \/ step' = 1
      BY DEF Start, StopPolling, Cleanup, Fails, Refuse, Ends
    <3> QED
      BY <3>1, SchemaLength DEF LifecycleInv, TypeOK
  <2>2. troubles' \in 0..MaxTroubles
    BY TroubleStays DEF LifecycleInv, TypeOK, Start, StopPolling, Cleanup, Fails, Refuse
  <2>3. registered' \in BOOLEAN
    BY DEF LifecycleInv, TypeOK, Start, StopPolling, Cleanup, Fails, Refuse
  <2> QED
    BY <2>1, <2>2, <2>3, TransportAssumption
    DEF LifecycleInv, TypeOK, Label, Start, StopPolling, Cleanup, Fails, Refuse, Ends
<1>2. SchemaInv'
  <2>1. schema' = schema
    BY DEF Start, StopPolling, Cleanup, Fails, Refuse
  <2>2. CASE \E t \in Transport : Start(t)
    BY <2>1, <2>2 DEF LifecycleInv, SchemaInv, Start
  <2>3. CASE StopPolling \/ Cleanup \/ Fails
    <3>1. pc' = "down" /\ step' = 1
      BY <2>3 DEF StopPolling, Cleanup, Fails, Ends
    <3> QED
      BY <3>1 DEF SchemaInv
  <2>4. CASE Refuse
    BY <2>4 DEF LifecycleInv, SchemaInv, Refuse
  <2> QED
    BY <2>2, <2>3, <2>4
<1>3. ServiceInv'
  BY DEF LifecycleInv, ServiceInv, Start, StopPolling, Cleanup, Fails, Refuse, Ends,
         WebhookLabel, PollingLabel
<1>4. WebhookInv'
  BY DEF LifecycleInv, WebhookInv, Start, StopPolling, Cleanup, Fails, Refuse, Ends, PollingLabel
<1> QED
  BY <1>1, <1>2, <1>3, <1>4 DEF LifecycleInv

\* A signal, and the end of polling, change nothing that is served.
LEMMA TroubleKeeps == LifecycleInv /\ (Signal \/ PollingDies) => LifecycleInv'
<1> SUFFICES ASSUME LifecycleInv, Signal \/ PollingDies PROVE LifecycleInv'
  OBVIOUS
<1>1. TypeOK'
  <2>1. troubles' \in 0..MaxTroubles
    BY TroubleStays DEF LifecycleInv, TypeOK, Signal, PollingDies
  <2> QED
    BY <2>1 DEF LifecycleInv, TypeOK, Signal, PollingDies
<1>2. SchemaInv' /\ ServiceInv' /\ WebhookInv'
  BY DEF LifecycleInv, SchemaInv, ServiceInv, WebhookInv, Signal, PollingDies
<1> QED
  BY <1>1, <1>2 DEF LifecycleInv

\* Whenever it is started, and however it ended before, the process is in
\* order: the inductive invariant of Lifecycle.
THEOREM ProcessIsInOrder == Spec => []LifecycleInv
<1>1. LifecycleInv /\ [Next]_vars => LifecycleInv'
  <2>1. LifecycleInv /\ UNCHANGED vars => LifecycleInv'
    BY DEF vars, process, LifecycleInv, TypeOK, SchemaInv, ServiceInv, WebhookInv
  <2> QED
    BY <2>1, MigrateKeeps, SetUpKeeps, RunKeeps, StartAndEndKeep, TroubleKeeps DEF Next, Step
<1> QED
  BY LifecycleInit, <1>1, PTL DEF Spec

-----------------------------------------------------------------------------
(* The bot is such a process.                                              *)

\* What the middleware does with messages and time does not move the process.
THEOREM BotLives == BotSpec => Spec
<1>1. BotInit => Init
  BY DEF BotInit
<1>2. [BotNext]_botVars => [Next]_vars
  BY DEF BotNext, botVars, StartProcess, StepProcess, TroubleProcess, HandleMessage,
     PassTime, Next
<1> QED
  BY <1>1, <1>2, PTL DEF BotSpec, Spec

\* Before an update can reach a handler the schema is complete, wherever an
\* earlier migrate was cut off.
THEOREM SchemaComesFirst == BotSpec => []HandlersFindTheSchema
<1>1. LifecycleInv => HandlersFindTheSchema
  BY DEF LifecycleInv, TypeOK, SchemaInv, ServiceInv, HandlersFindTheSchema, Receives
<1> QED
  BY <1>1, BotLives, ProcessIsInOrder, PTL

\* A webhook that is registered while the process runs is listened to.
THEOREM WebhookIsServed == BotSpec => []RegisteredIsServed
<1>1. LifecycleInv => RegisteredIsServed
  BY DEF LifecycleInv, TypeOK, ServiceInv, RegisteredIsServed
<1> QED
  BY <1>1, BotLives, ProcessIsInOrder, PTL

\* No getUpdates is sent while a webhook is registered, whoever registered it.
THEOREM PollingHasNoRival == BotSpec => []PollsWithoutWebhook
<1>1. LifecycleInv => PollsWithoutWebhook
  BY DEF LifecycleInv, TypeOK, ServiceInv, WebhookInv, PollsWithoutWebhook, PollingLabel
<1> QED
  BY <1>1, BotLives, ProcessIsInOrder, PTL

\* A process that ended in order left no webhook behind.
THEOREM EndsUnregistered == BotSpec => []OrderlyExitUnregisters
<1>1. LifecycleInv => OrderlyExitUnregisters
  BY DEF LifecycleInv, TypeOK, WebhookInv, OrderlyExitUnregisters
<1> QED
  BY <1>1, BotLives, ProcessIsInOrder, PTL

-----------------------------------------------------------------------------
(* And to its middleware, what Throttling says.                            *)

\* Whatever the process does, to its middleware it is a message, time that
\* passes, an end, or nothing.
LEMMA StepThrottles == [BotNext]_botVars => [ThrottlingNext]_clocks
<1> SUFFICES ASSUME [BotNext]_botVars PROVE [ThrottlingNext]_clocks
  OBVIOUS
<1>1. ASSUME Memory PROVE [ThrottlingNext]_clocks
  BY <1>1 DEF Memory, ThrottlingNext
<1>2. CASE StartProcess \/ StepProcess \/ TroubleProcess
  BY <1>1, <1>2 DEF StartProcess, StepProcess, TroubleProcess
<1>3. CASE HandleMessage
  BY <1>3 DEF HandleMessage, ThrottlingNext
<1>4. CASE PassTime
  BY <1>4 DEF PassTime, ThrottlingNext
<1>5. CASE UNCHANGED botVars
  BY <1>5 DEF botVars
<1> QED
  BY <1>2, <1>3, <1>4, <1>5 DEF BotNext

\* The bot, started, killed and restarted in any way, is a behaviour of the
\* middleware alone: Throttling is what Bot implements of it.
THEOREM BotThrottles == BotSpec => ThrottlingSpec
<1>1. BotInit => ThrottlingInit
  BY DEF BotInit
<1> QED
  BY <1>1, StepThrottles, PTL DEF BotSpec, ThrottlingSpec

\* The bot silences nobody for longer than the interval and what the clock
\* was set back.
THEOREM BotHearsEverybody == BotSpec => []HeardAfterQuiet
  BY BotThrottles, NobodyIsSilenced, PTL

\* It leaves nobody without an apology for longer than its interval and what
\* the clock was set back.
THEOREM BotIgnoresNobody == BotSpec => []NotLongSilent
  BY BotThrottles, NobodyIsIgnored, PTL

\* It answers no storm of messages with a storm of its own.
THEOREM BotKeepsItsPace == BotSpec => []SpacedOut
  BY BotThrottles, StormsAreSpacedOut, PTL

\* Every variable of the bot keeps its type.
THEOREM BotTypeCorrect == BotSpec => []BotTypeOK
<1>1. LifecycleInv /\ ClockInv => BotTypeOK
  BY DEF LifecycleInv, ClockInv, BotTypeOK
<1> QED
  BY <1>1, BotLives, ProcessIsInOrder, BotThrottles, ClocksAgree, PTL
=============================================================================
