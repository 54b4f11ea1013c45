--------------------------------- MODULE Bot ---------------------------------
(***************************************************************************)
(* The bot's process (Lifecycle) with the throttling of its messages       *)
(* (Throttling): a message reaches the middleware only while the process   *)
(* is served updates, and what the middleware remembers ends with the      *)
(* process, however it ends.  The clock is the machine's and goes on.      *)
(***************************************************************************)
EXTENDS Lifecycle, Throttling

botVars == <<vars, clocks>>

BotTypeOK == TypeOK /\ ClocksOK

BotInit == Init /\ ThrottlingInit

\* What becomes of the middleware's memory in a step of the process.
Memory == IF pc # "down" /\ pc' = "down" THEN Forget ELSE UNCHANGED clocks

StartProcess == (\E t \in Transport : Start(t)) /\ Memory
StepProcess == Step /\ Memory
TroubleProcess == (Refuse \/ Signal \/ PollingDies \/ Fails) /\ Memory

HandleMessage == Receives /\ Message /\ UNCHANGED vars
PassTime == (Tick \/ ClockSetBack) /\ UNCHANGED vars

BotNext ==
    \/ StartProcess
    \/ StepProcess
    \/ TroubleProcess
    \/ HandleMessage
    \/ PassTime

\* As for Lifecycle; nobody has to write, and the clock may stand still.
BotSpec == BotInit /\ [][BotNext]_botVars /\ WF_botVars(StepProcess) /\ WF_botVars(StartProcess)
=============================================================================
