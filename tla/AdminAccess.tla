----------------------------- MODULE AdminAccess -----------------------------
(***************************************************************************)
(* A message on its way through the bot to the admin's handlers: handler   *)
(* selection, ThrottlingMiddleware, RetryMiddleware, and the dialogue      *)
(* behind /admin with the shared AdminGate.                                *)
(*                                                                         *)
(* Each message is handled by a task.  It is given its handler when it     *)
(* arrives, by its text and the dialogue state of its user at that time;   *)
(* nothing here keeps aiogram from running other tasks before the handler, *)
(* so the model lets them.  From the throttling decision to the answer the *)
(* handler sends no await changes state, so that much is one step.  All    *)
(* state here is in memory and a restart forgets it: the dialogue state    *)
(* too, as the Dispatcher is given no storage.                             *)
(***************************************************************************)
EXTENDS Naturals, FiniteSets, Sequences, SequencesExt

CONSTANTS
    User,
    Configured,     \* ADMIN_IDS
    Task,
    MaxRetries,     \* RetryMiddleware's max_retries: attempts, not repeats
    MaxGuesses,     \* wrong guesses that exhaust the gate's window
    MaxMessages,    \* bound: messages in all
    NULL

ASSUME ConfiguredAssumption == Configured \subseteq User /\ NULL \notin User
ASSUME LimitAssumption ==
    /\ MaxRetries \in Nat \ {0}
    /\ MaxGuesses \in Nat \ {0}
    /\ MaxMessages \in Nat

VARIABLES
    waiting,    \* users in AdminAuth.waiting_password
    failures,   \* failures[u]: the gate's wrong attempts in the window, oldest
                \*   first, each as the number of the message that made it
    authorised, \* users the gate has authorised
    recent,     \* users with a message let through within min_interval
    sorry,      \* users apologised to within APOLOGY_INTERVAL
    pc,         \* pc[t]: what task t is about to do
    who,        \* who[t]: the sender, or NULL
    handler,    \* handler[t]: the handler selected, or NULL
    right,      \* right[t]: whether the text is the password
    number,     \* number[t]: the message's number, 0 for none
    attempt,    \* attempt[t]: attempts that failed
    sent,       \* messages so far
    shown       \* users who were sent an admin list since the start

gate == <<failures, authorised>>
throttle == <<recent, sorry>>
task == <<pc, who, handler, right, number, attempt>>
vars == <<waiting, gate, throttle, task, sent, shown>>

Handler == {"cmd_start", "cmd_admin", "check_password", "show_list", "store"}

TypeOK ==
    /\ waiting \subseteq User
    /\ failures \in [User -> Seq(1..MaxMessages)]
    /\ authorised \subseteq User
    /\ recent \subseteq User
    /\ sorry \subseteq User
    /\ pc \in [Task -> {"idle", "received", "again", "answer", "apologise"}]
    /\ who \in [Task -> User \cup {NULL}]
    /\ handler \in [Task -> Handler \cup {NULL}]
    /\ right \in [Task -> BOOLEAN]
    /\ number \in [Task -> 0..MaxMessages]
    /\ attempt \in [Task -> 0..MaxRetries - 1]
    /\ sent \in 0..MaxMessages
    /\ shown \subseteq User
    /\ \A t \in Task : pc[t] # "idle" <=> who[t] # NULL

Init ==
    /\ waiting = {}
    /\ failures = [u \in User |-> <<>>]
    /\ authorised = {}
    /\ recent = {}
    /\ sorry = {}
    /\ pc = [t \in Task |-> "idle"]
    /\ who = [t \in Task |-> NULL]
    /\ handler = [t \in Task |-> NULL]
    /\ right = [t \in Task |-> FALSE]
    /\ number = [t \in Task |-> 0]
    /\ attempt = [t \in Task |-> 0]
    /\ sent = 0
    /\ shown = {}

-----------------------------------------------------------------------------
(* The gate, from its tests and its use.                                   *)

IsAdmin(u) == u \in Configured \cup authorised

IsThrottled(u) == Len(failures[u]) >= MaxGuesses

Authorize(u, good, n) ==
    IF good
    THEN /\ authorised' = authorised \cup {u}
         /\ failures' = [failures EXCEPT ![u] = <<>>]
    ELSE /\ failures' = [failures EXCEPT ![u] = Append(@, n)]
         /\ UNCHANGED authorised

-----------------------------------------------------------------------------
(* A message arrives.                                                      *)

Text == {"/start", "/admin", "admin button", "store button", "password", "other"}

\* The store's router comes first, /admin before the dialogue, and the dialogue
\* before the admin's buttons: while it waits, a button's text is a guess.
Selected(u, text) ==
    CASE text = "/start" -> "cmd_start"
      [] text = "store button" -> "store"
      [] text = "/admin" -> "cmd_admin"
      [] text \in {"admin button", "password", "other"} /\ u \in waiting -> "check_password"
      [] text = "admin button" /\ u \notin waiting -> "show_list"
      [] OTHER -> NULL

\* Without a handler for it nothing happens to a message, not even throttling.
Receive(t, u, text) ==
    /\ pc[t] = "idle"
    /\ sent < MaxMessages
    /\ Selected(u, text) # NULL
    /\ sent' = sent + 1
    /\ pc' = [pc EXCEPT ![t] = "received"]
    /\ who' = [who EXCEPT ![t] = u]
    /\ handler' = [handler EXCEPT ![t] = Selected(u, text)]
    /\ right' = [right EXCEPT ![t] = text = "password"]
    /\ number' = [number EXCEPT ![t] = sent + 1]
    /\ UNCHANGED <<waiting, gate, throttle, attempt, shown>>

GoTo(t, label) == pc' = [pc EXCEPT ![t] = label] /\ UNCHANGED <<who, handler, right, number>>

Finish(t) ==
    /\ pc' = [pc EXCEPT ![t] = "idle"]
    /\ who' = [who EXCEPT ![t] = NULL]
    /\ handler' = [handler EXCEPT ![t] = NULL]
    /\ right' = [right EXCEPT ![t] = FALSE]
    /\ number' = [number EXCEPT ![t] = 0]
    /\ attempt' = [attempt EXCEPT ![t] = 0]

\* Too soon after the last message let through: dropped, with an apology
\* unless there was one lately.
Drop(t) ==
    /\ pc[t] = "received"
    /\ who[t] \in recent
    /\ IF who[t] \in sorry
       THEN Finish(t) /\ UNCHANGED sorry
       ELSE GoTo(t, "apologise") /\ sorry' = sorry \cup {who[t]} /\ UNCHANGED attempt
    /\ UNCHANGED <<waiting, gate, recent, sent, shown>>

\* The first attempt passes the throttling, the later ones are inside it.
Attempt(t, h) ==
    /\ handler[t] = h
    /\ \/ /\ pc[t] = "received"
          /\ who[t] \notin recent
          /\ recent' = recent \cup {who[t]}
       \/ /\ pc[t] = "again"
          /\ UNCHANGED recent
    /\ UNCHANGED <<sorry, sent, shown>>

-----------------------------------------------------------------------------
(* The handlers, up to the answer they send.                               *)

CmdAdmin(t) ==
    /\ Attempt(t, "cmd_admin")
    /\ waiting' = waiting \cup {who[t]}
    /\ GoTo(t, "answer")
    /\ UNCHANGED <<gate, attempt>>

\* Mutant: every guess goes to the gate.
CheckPasswordAlways(t) ==
    /\ Attempt(t, "check_password")
    /\ Authorize(who[t], right[t], number[t])
    /\ waiting' = waiting \ {who[t]}
    /\ GoTo(t, "answer")
    /\ UNCHANGED attempt

CheckPassword(t) ==
    /\ Attempt(t, "check_password")
    /\ IF IsThrottled(who[t])
       THEN UNCHANGED gate
       ELSE Authorize(who[t], right[t], number[t])
    /\ waiting' = waiting \ {who[t]}
    /\ GoTo(t, "answer")
    /\ UNCHANGED attempt

\* Mutant: anybody may see.
ShowListToAnybody(t) ==
    /\ Attempt(t, "show_list")
    /\ GoTo(t, "answer")
    /\ UNCHANGED <<waiting, gate, attempt>>

\* list_products, list_orders, sales_stats and list_categories alike.
ShowList(t) ==
    /\ Attempt(t, "show_list")
    /\ IF IsAdmin(who[t]) THEN GoTo(t, "answer") /\ UNCHANGED attempt ELSE Finish(t)
    /\ UNCHANGED <<waiting, gate>>

CmdStart(t) ==
    /\ Attempt(t, "cmd_start")
    /\ waiting' = waiting \ {who[t]}
    /\ GoTo(t, "answer")
    /\ UNCHANGED <<gate, attempt>>

\* show_catalog, show_cart and my_orders read tables and answer.
Store(t) ==
    /\ Attempt(t, "store")
    /\ GoTo(t, "answer")
    /\ UNCHANGED <<waiting, gate, attempt>>

-----------------------------------------------------------------------------
(* The answer.                                                             *)

Answered(t) ==
    /\ pc[t] \in {"answer", "apologise"}
    /\ shown' = IF pc[t] = "answer" /\ handler[t] = "show_list"
                THEN shown \cup {who[t]}
                ELSE shown
    /\ Finish(t)
    /\ UNCHANGED <<waiting, gate, throttle, sent>>

\* Mutants: one attempt too many; attempts that are not counted.
RetryOnceMore(t) ==
    /\ pc[t] = "answer"
    /\ IF attempt[t] + 1 > MaxRetries
       THEN Finish(t)
       ELSE GoTo(t, "again") /\ attempt' = [attempt EXCEPT ![t] = @ + 1]
    /\ UNCHANGED <<waiting, gate, throttle, sent, shown>>
RetryForever(t) ==
    /\ pc[t] = "answer"
    /\ GoTo(t, "again")
    /\ UNCHANGED <<waiting, gate, throttle, attempt, sent, shown>>

\* TelegramRetryAfter or TelegramNetworkError: the handler runs again from its
\* beginning, after a pause, until it has been tried max_retries times.
Retry(t) ==
    /\ pc[t] = "answer"
    /\ IF attempt[t] + 1 >= MaxRetries
       THEN Finish(t)
       ELSE GoTo(t, "again") /\ attempt' = [attempt EXCEPT ![t] = @ + 1]
    /\ UNCHANGED <<waiting, gate, throttle, sent, shown>>

\* Any other exception, or any at all of an apology, ends at the error handler.
Raise(t) ==
    /\ pc[t] \in {"answer", "apologise"}
    /\ Finish(t)
    /\ UNCHANGED <<waiting, gate, throttle, sent, shown>>

-----------------------------------------------------------------------------
(* Time passes, and the process is restarted.                              *)

IntervalPasses(u) ==
    /\ u \in recent
    /\ recent' = recent \ {u}
    /\ UNCHANGED <<waiting, gate, sorry, task, sent, shown>>

ApologyIntervalPasses(u) ==
    /\ u \in sorry
    /\ sorry' = sorry \ {u}
    /\ UNCHANGED <<waiting, gate, recent, task, sent, shown>>

\* The oldest attempt leaves the gate's window.
AttemptExpires(u) ==
    /\ failures[u] # <<>>
    /\ failures' = [failures EXCEPT ![u] = Tail(@)]
    /\ UNCHANGED <<waiting, authorised, throttle, task, sent, shown>>

Restart ==
    /\ waiting' = {}
    /\ failures' = [u \in User |-> <<>>]
    /\ authorised' = {}
    /\ recent' = {}
    /\ sorry' = {}
    /\ pc' = [t \in Task |-> "idle"]
    /\ who' = [t \in Task |-> NULL]
    /\ handler' = [t \in Task |-> NULL]
    /\ right' = [t \in Task |-> FALSE]
    /\ number' = [t \in Task |-> 0]
    /\ attempt' = [t \in Task |-> 0]
    /\ shown' = {}
    /\ UNCHANGED sent

-----------------------------------------------------------------------------
Handle(t) ==
    \/ Drop(t)
    \/ CmdStart(t)
    \/ CmdAdmin(t)
    \/ CheckPassword(t)
    \/ ShowList(t)
    \/ Store(t)
    \/ Answered(t)
    \/ Retry(t)
    \/ Raise(t)

Next ==
    \/ \E t \in Task, u \in User, text \in Text : Receive(t, u, text)
    \/ \E t \in Task : Handle(t)
    \/ \E u \in User :
        \/ IntervalPasses(u)
        \/ ApologyIntervalPasses(u)
        \/ AttemptExpires(u)
    \/ Restart

Spec == Init /\ [][Next]_vars

\* A task goes on when what it awaits is over: a pause, or a Telegram call,
\* which succeeds or raises.  Nothing says that it ever succeeds.
FairSpec == Spec /\ \A t \in Task : WF_vars(Handle(t))

-----------------------------------------------------------------------------
(* Properties.                                                             *)

\* The admin's lists go to configured admins and to users who gave the right
\* password in a dialogue since the start, however messages overlap.
OnlyAdminsSeeLists == \A u \in shown : IsAdmin(u)

\* The gate never compares more wrong guesses in its window than the limit:
\* concurrent guesses and retried handlers do not get past the check for it.
GuessesAreBounded == \A u \in User : Len(failures[u]) <= MaxGuesses

\* While a user's window is exhausted no password of theirs is accepted, not
\* even by a message that was already on its way when it filled up.
RefusedInTheWindow ==
    [][\A u \in User : IsThrottled(u) /\ u \notin authorised => u \notin authorised']_vars

\* Only as many wrong guesses as the limit exhaust a user's window.
GuessesExhaustTheWindow ==
    \A u \in User : IsThrottled(u) => Cardinality(ToSet(failures[u])) >= MaxGuesses

\* Every message is answered, dropped or given up: nothing is retried for ever.
EveryMessageEnds == \A t \in Task : pc[t] # "idle" ~> pc[t] = "idle"
=============================================================================
