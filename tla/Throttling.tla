------------------------------ MODULE Throttling ------------------------------
(***************************************************************************)
(* ThrottlingMiddleware (core/throttling.py): a user's message is dropped  *)
(* when the last one that was let through is too recent, and the drop is   *)
(* answered with an apology unless the last apology is.  How recent is a   *)
(* difference of two readings of the wall clock, which may be set back, so *)
(* the difference may be negative.  Both times are in memory.              *)
(*                                                                         *)
(* A stamp is represented by its age on the clock, now - stamp.  An        *)
(* unknown user's stamp is 0.0, as old as can be told apart from.          *)
(***************************************************************************)
EXTENDS Integers

CONSTANTS
    User,
    MinInterval,        \* ticks between two messages of a user
    ApologyInterval,    \* ticks between two apologies to a user
    MaxSetBack          \* bound: ticks the clock is set back in all

ASSUME IntervalAssumption ==
    /\ MinInterval \in Nat \ {0}
    /\ ApologyInterval \in Nat \ {0}
    /\ MaxSetBack \in Nat

VARIABLES
    sinceMessage,   \* now - _last_message[u]
    sinceApology,   \* now - _last_apology[u]
    setBack,        \* what the clock was set back so far
    quiet,          \* history: time since u was last let through
    unsorry,        \* history: time since u was last sent an apology
    pace,           \* history: time between u's last two messages let through
    gap             \* history: time between the last two apologies to u

stamps == <<sinceMessage, sinceApology>>
histories == <<quiet, unsorry, pace, gap>>
clocks == <<stamps, setBack, histories>>

\* No comparison tells greater ages apart, even when the clock is set back.
MessageHorizon == MinInterval + MaxSetBack
ApologyHorizon == ApologyInterval + MaxSetBack
Capped(age, horizon) == IF age < horizon THEN age ELSE horizon

ClocksOK ==
    /\ sinceMessage \in [User -> -MaxSetBack..MessageHorizon]
    /\ sinceApology \in [User -> -MaxSetBack..ApologyHorizon]
    /\ setBack \in 0..MaxSetBack
    /\ quiet \in [User -> 0..MessageHorizon]
    /\ unsorry \in [User -> 0..ApologyHorizon]
    /\ pace \in [User -> 0..MinInterval]
    /\ gap \in [User -> 0..ApologyInterval]

\* Nobody has sent a message.
ThrottlingInit ==
    /\ sinceMessage = [u \in User |-> MessageHorizon]
    /\ sinceApology = [u \in User |-> ApologyHorizon]
    /\ setBack = 0
    /\ quiet = [u \in User |-> MessageHorizon]
    /\ unsorry = [u \in User |-> ApologyHorizon]
    /\ pace = [u \in User |-> MinInterval]
    /\ gap = [u \in User |-> ApologyInterval]

-----------------------------------------------------------------------------
LetThrough(u) ==
    /\ sinceMessage[u] >= MinInterval
    /\ sinceMessage' = [sinceMessage EXCEPT ![u] = 0]
    /\ quiet' = [quiet EXCEPT ![u] = 0]
    /\ pace' = [pace EXCEPT ![u] = Capped(quiet[u], MinInterval)]
    /\ UNCHANGED <<sinceApology, setBack, unsorry, gap>>

Apologise(u) ==
    /\ sinceApology' = [sinceApology EXCEPT ![u] = 0]
    /\ unsorry' = [unsorry EXCEPT ![u] = 0]
    /\ gap' = [gap EXCEPT ![u] = Capped(unsorry[u], ApologyInterval)]

\* Mutants: a dropped message counts as the last one; every drop counts as an
\* apology; an apology does not count.
DropAndCount(u) ==
    /\ sinceMessage[u] < MinInterval
    /\ IF sinceApology[u] >= ApologyInterval
       THEN Apologise(u) ELSE UNCHANGED <<sinceApology, unsorry, gap>>
    /\ sinceMessage' = [sinceMessage EXCEPT ![u] = 0]
    /\ UNCHANGED <<setBack, quiet, pace>>
DropAndStamp(u) ==
    /\ sinceMessage[u] < MinInterval
    /\ IF sinceApology[u] >= ApologyInterval
       THEN Apologise(u)
       ELSE sinceApology' = [sinceApology EXCEPT ![u] = 0] /\ UNCHANGED <<unsorry, gap>>
    /\ UNCHANGED <<sinceMessage, setBack, quiet, pace>>
DropUnstamped(u) ==
    /\ sinceMessage[u] < MinInterval
    /\ unsorry' = [unsorry EXCEPT ![u] = 0]
    /\ gap' = [gap EXCEPT ![u] = Capped(unsorry[u], ApologyInterval)]
    /\ UNCHANGED <<stamps, setBack, quiet, pace>>

\* The apology counts before it is sent, whether or not it can be.
Drop(u) ==
    /\ sinceMessage[u] < MinInterval
    /\ IF sinceApology[u] >= ApologyInterval
       THEN Apologise(u) ELSE UNCHANGED <<sinceApology, unsorry, gap>>
    /\ UNCHANGED <<sinceMessage, setBack, quiet, pace>>

Message == \E u \in User : LetThrough(u) \/ Drop(u)

Tick ==
    /\ sinceMessage' = [u \in User |-> Capped(sinceMessage[u] + 1, MessageHorizon)]
    /\ sinceApology' = [u \in User |-> Capped(sinceApology[u] + 1, ApologyHorizon)]
    /\ quiet' = [u \in User |-> Capped(quiet[u] + 1, MessageHorizon)]
    /\ unsorry' = [u \in User |-> Capped(unsorry[u] + 1, ApologyHorizon)]
    /\ UNCHANGED <<setBack, pace, gap>>

ClockSetBack ==
    /\ setBack < MaxSetBack
    /\ setBack' = setBack + 1
    /\ sinceMessage' = [u \in User |-> sinceMessage[u] - 1]
    /\ sinceApology' = [u \in User |-> sinceApology[u] - 1]
    /\ UNCHANGED histories

\* The process ends, and the next one knows nobody.
Forget ==
    /\ sinceMessage' = [u \in User |-> MessageHorizon]
    /\ sinceApology' = [u \in User |-> ApologyHorizon]
    /\ quiet' = [u \in User |-> MessageHorizon]
    /\ unsorry' = [u \in User |-> ApologyHorizon]
    /\ pace' = [u \in User |-> MinInterval]
    /\ gap' = [u \in User |-> ApologyInterval]
    /\ UNCHANGED setBack

ThrottlingNext ==
    \/ Message
    \/ Tick
    \/ ClockSetBack
    \/ Forget

ThrottlingSpec == ThrottlingInit /\ [][ThrottlingNext]_clocks

-----------------------------------------------------------------------------
(* Properties.  A process and its successor know nothing of each other, so *)
(* these are about what one process does.                                  *)

\* A user's message is dropped only if another was let through less than the
\* interval ago, and what the clock was set back: whoever keeps writing is
\* heard every so often, as drops do not prolong the wait.
HeardAfterQuiet ==
    \A u \in User : sinceMessage[u] < MinInterval => quiet[u] < MinInterval + setBack

\* A message is dropped without a word only if the user was sent an apology
\* less than its interval ago, and what the clock was set back.
NotLongSilent ==
    \A u \in User :
        sinceMessage[u] < MinInterval /\ sinceApology[u] < ApologyInterval =>
            unsorry[u] < ApologyInterval + setBack

\* However the clock is set back, no user is let through twice within the
\* interval or sent two apologies within theirs: a storm of messages is not
\* answered by a storm of apologies.
SpacedOut == \A u \in User : pace[u] >= MinInterval /\ gap[u] >= ApologyInterval
=============================================================================
