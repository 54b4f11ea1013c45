------------------------- MODULE AdminAccess_proofs -------------------------
(***************************************************************************)
(* Proofs about AdminAccess, for any number of users and tasks and any     *)
(* limits: who is shown the admin's lists, and what a user who guesses the *)
(* password is refused, however the handlers of messages overlap and are   *)
(* retried.                                                                *)
(***************************************************************************)
EXTENDS AdminAccess, TLAPS

\* A message on its way has its number: what the gate keeps of a wrong guess is
\* the number of a message that was sent.
Numbered == \A t \in Task : pc[t] # "idle" => number[t] # 0

\* A list is on its way to an admin only: the check was made when the handler
\* ran, and nobody loses the authorisation before the process ends.
ListsGoToAdmins ==
    \A t \in Task : pc[t] = "answer" /\ handler[t] = "show_list" => IsAdmin(who[t])

AccessInv ==
    /\ TypeOK
    /\ Numbered
    /\ ListsGoToAdmins
    /\ OnlyAdminsSeeLists
    /\ GuessesAreBounded

-----------------------------------------------------------------------------
(* What one handler does to the gate and to a user's failures.             *)

\* A task that is about to do something handles a message of a user.
LEMMA SenderIsUser ==
    ASSUME TypeOK, NEW t \in Task, pc[t] # "idle"
    PROVE  who[t] \in User
  BY ConfiguredAssumption DEF TypeOK

\* A wrong guess adds one failure, a right one takes them all away; nobody else
\* is touched.
LEMMA GateKeepsFailures ==
    ASSUME TypeOK, Numbered, GuessesAreBounded,
           NEW t \in Task, CheckPassword(t)
    PROVE  /\ failures' \in [User -> Seq(1..MaxMessages)]
           /\ authorised' \subseteq User
           /\ authorised \subseteq authorised'
           /\ GuessesAreBounded'
  <1> DEFINE u == who[t]
  <1>1. pc[t] # "idle"
    BY DEF CheckPassword, Attempt
  <1>2. u \in User
    BY <1>1, SenderIsUser
  <1>3. number[t] \in 1..MaxMessages
    BY <1>1, LimitAssumption DEF TypeOK, Numbered
  <1>4. failures \in [User -> Seq(1..MaxMessages)] /\ authorised \subseteq User
    BY DEF TypeOK
  <1>5. CASE IsThrottled(u)
    <2>1. failures' = failures /\ authorised' = authorised
      BY <1>5 DEF CheckPassword, gate
    <2> QED
      BY <2>1, <1>4 DEF GuessesAreBounded
  <1>6. CASE ~ IsThrottled(u)
    <2>1. Authorize(u, right[t], number[t])
      BY <1>6 DEF CheckPassword
    <2>2. CASE right[t]
      <3>1. failures' = [failures EXCEPT ![u] = <<>>] /\ authorised' = authorised \cup {u}
        BY <2>1, <2>2 DEF Authorize
      <3>2. <<>> \in Seq(1..MaxMessages) /\ Len(<<>>) = 0
        OBVIOUS
      <3> QED
        BY <3>1, <3>2, <1>2, <1>4, LimitAssumption DEF GuessesAreBounded
    <2>3. CASE ~ right[t]
      <3> DEFINE s == Append(failures[u], number[t])
      <3>1. failures' = [failures EXCEPT ![u] = s] /\ authorised' = authorised
        BY <2>1, <2>3 DEF Authorize
      <3>2. s \in Seq(1..MaxMessages) /\ Len(s) = Len(failures[u]) + 1
        BY <1>2, <1>3, <1>4
      <3>3. Len(s) <= MaxGuesses
        <4>1. Len(failures[u]) \in Nat /\ Len(failures[u]) < MaxGuesses
          BY <1>2, <1>4, <1>6, LimitAssumption DEF IsThrottled
        <4> QED
          BY <4>1, <3>2, LimitAssumption
      <3> HIDE DEF s
      <3> QED
        BY <3>1, <3>2, <3>3, <1>2, <1>4 DEF GuessesAreBounded
    <2> QED
      BY <2>2, <2>3
  <1> QED
    BY <1>5, <1>6

\* When a failure leaves the window a user has one less.
LEMMA WindowMovesOn ==
    ASSUME TypeOK, GuessesAreBounded, NEW u \in User, AttemptExpires(u)
    PROVE  failures' \in [User -> Seq(1..MaxMessages)] /\ GuessesAreBounded'
  <1> DEFINE s == Tail(failures[u])
  <1>1. failures \in [User -> Seq(1..MaxMessages)] /\ failures[u] # <<>>
    BY DEF TypeOK, AttemptExpires
  <1>2. failures' = [failures EXCEPT ![u] = s]
    BY DEF AttemptExpires
  <1>3. s \in Seq(1..MaxMessages) /\ Len(s) = Len(failures[u]) - 1
    BY <1>1
  <1>4. Len(failures[u]) \in Nat /\ Len(failures[u]) <= MaxGuesses
    BY <1>1 DEF GuessesAreBounded
  <1>5. Len(s) <= MaxGuesses
    BY <1>3, <1>4, LimitAssumption
  <1> HIDE DEF s
  <1> QED
    BY <1>1, <1>2, <1>3, <1>5 DEF GuessesAreBounded

-----------------------------------------------------------------------------
(* Type correctness, and the numbers of the messages.                      *)

LEMMA InitAccess == Init => AccessInv
  <1> SUFFICES ASSUME Init PROVE AccessInv
    OBVIOUS
  <1>1. TypeOK
    BY LimitAssumption, ConfiguredAssumption DEF Init, TypeOK
  <1>2. Numbered /\ ListsGoToAdmins /\ OnlyAdminsSeeLists
    BY DEF Init, Numbered, ListsGoToAdmins, OnlyAdminsSeeLists
  <1>3. GuessesAreBounded
    BY LimitAssumption DEF Init, GuessesAreBounded
  <1> QED
    BY <1>1, <1>2, <1>3 DEF AccessInv

\* A task that finishes is idle, and its message forgotten.
LEMMA FinishTypes ==
    ASSUME TypeOK, Numbered, NEW t \in Task, Finish(t)
    PROVE  /\ pc' \in [Task -> {"idle", "received", "again", "answer", "apologise"}]
           /\ who' \in [Task -> User \cup {NULL}]
           /\ handler' \in [Task -> Handler \cup {NULL}]
           /\ right' \in [Task -> BOOLEAN]
           /\ number' \in [Task -> 0..MaxMessages]
           /\ attempt' \in [Task -> 0..MaxRetries - 1]
           /\ \A s \in Task : pc'[s] # "idle" <=> who'[s] # NULL
           /\ Numbered'
  BY LimitAssumption DEF TypeOK, Numbered, Finish

\* A task that goes on keeps its message.
LEMMA GoToTypes ==
    ASSUME TypeOK, Numbered, NEW t \in Task, pc[t] # "idle",
           NEW label \in {"again", "answer", "apologise"}, GoTo(t, label)
    PROVE  /\ pc' \in [Task -> {"idle", "received", "again", "answer", "apologise"}]
           /\ who' \in [Task -> User \cup {NULL}]
           /\ handler' \in [Task -> Handler \cup {NULL}]
           /\ right' \in [Task -> BOOLEAN]
           /\ number' \in [Task -> 0..MaxMessages]
           /\ \A s \in Task : pc'[s] # "idle" <=> who'[s] # NULL
           /\ Numbered'
  BY DEF TypeOK, Numbered, GoTo

LEMMA ReceiveTypes ==
    ASSUME TypeOK, Numbered, NEW t \in Task, NEW u \in User, NEW text \in Text,
           Receive(t, u, text)
    PROVE  TypeOK' /\ Numbered'
  <1>1. Selected(u, text) \in Handler
    BY DEF Receive, Selected, Text, Handler
  <1>2. sent + 1 \in 1..MaxMessages
    BY LimitAssumption DEF TypeOK, Receive
  <1>3. (text = "password") \in BOOLEAN
    OBVIOUS
  <1>4. u # NULL
    BY ConfiguredAssumption
  <1>5. TypeOK'
    BY <1>1, <1>2, <1>3, <1>4 DEF TypeOK, Receive, gate, throttle
  <1>6. Numbered'
    BY <1>2 DEF TypeOK, Numbered, Receive
  <1> QED
    BY <1>5, <1>6

\* The first attempt of a handler opens the interval of its user.
LEMMA AttemptTypes ==
    ASSUME TypeOK, NEW t \in Task, NEW h, Attempt(t, h)
    PROVE  /\ pc[t] # "idle"
           /\ who[t] \in User
           /\ recent' \subseteq User
           /\ sorry' \subseteq User
           /\ sent' \in 0..MaxMessages
           /\ shown' \subseteq User
           /\ shown' = shown
  <1>1. pc[t] # "idle"
    BY DEF Attempt
  <1>2. who[t] \in User
    BY <1>1, SenderIsUser
  <1> QED
    BY <1>1, <1>2 DEF Attempt, TypeOK

LEMMA HandlerTypes ==
    ASSUME AccessInv, NEW t \in Task,
           \/ CmdStart(t) \/ CmdAdmin(t) \/ CheckPassword(t) \/ ShowList(t) \/ Store(t)
    PROVE  TypeOK' /\ Numbered'
  <1> USE DEF AccessInv
  <1>1. CASE CmdStart(t)
    <2>1. Attempt(t, "cmd_start") /\ GoTo(t, "answer")
      BY <1>1 DEF CmdStart
    <2> QED
      BY <1>1, <2>1, AttemptTypes, GoToTypes DEF CmdStart, TypeOK, gate
  <1>2. CASE CmdAdmin(t)
    <2>1. Attempt(t, "cmd_admin") /\ GoTo(t, "answer")
      BY <1>2 DEF CmdAdmin
    <2> QED
      BY <1>2, <2>1, AttemptTypes, GoToTypes DEF CmdAdmin, TypeOK, gate
  <1>3. CASE CheckPassword(t)
    <2>1. Attempt(t, "check_password") /\ GoTo(t, "answer")
      BY <1>3 DEF CheckPassword
    <2>2. waiting' \subseteq User /\ attempt' = attempt
      BY <1>3 DEF CheckPassword, TypeOK
    <2> QED
      BY <1>3, <2>1, <2>2, AttemptTypes, GoToTypes, GateKeepsFailures DEF TypeOK
  <1>4. CASE ShowList(t)
    <2>1. Attempt(t, "show_list") /\ waiting' = waiting /\ gate' = gate
      BY <1>4 DEF ShowList
    <2>2. CASE Finish(t)
      BY <2>1, <2>2, AttemptTypes, FinishTypes DEF TypeOK, gate
    <2>3. CASE GoTo(t, "answer") /\ attempt' = attempt
      BY <2>1, <2>3, AttemptTypes, GoToTypes DEF TypeOK, gate
    <2> QED
      BY <1>4, <2>2, <2>3 DEF ShowList
  <1>5. CASE Store(t)
    <2>1. Attempt(t, "store") /\ GoTo(t, "answer")
      BY <1>5 DEF Store
    <2> QED
      BY <1>5, <2>1, AttemptTypes, GoToTypes DEF Store, TypeOK, gate
  <1> QED
    BY <1>1, <1>2, <1>3, <1>4, <1>5

LEMMA EndTypes ==
    ASSUME AccessInv, NEW t \in Task,
           Drop(t) \/ Answered(t) \/ Retry(t) \/ Raise(t)
    PROVE  TypeOK' /\ Numbered'
  <1> USE DEF AccessInv
  <1>1. pc[t] # "idle"
    BY DEF Drop, Answered, Retry, Raise
  <1>2. who[t] \in User
    BY <1>1, SenderIsUser
  <1>3. CASE Drop(t)
    <2>1. waiting' = waiting /\ gate' = gate /\ recent' = recent /\ sent' = sent /\ shown' = shown
      BY <1>3 DEF Drop
    <2>2. CASE Finish(t) /\ sorry' = sorry
      BY <2>1, <2>2, FinishTypes DEF TypeOK, gate
    <2>3. CASE GoTo(t, "apologise") /\ sorry' = sorry \cup {who[t]} /\ attempt' = attempt
      BY <2>1, <2>3, <1>1, <1>2, GoToTypes DEF TypeOK, gate
    <2> QED
      BY <1>3, <2>2, <2>3 DEF Drop
  <1>4. CASE Answered(t)
    BY <1>2, <1>4, FinishTypes DEF Answered, TypeOK, gate, throttle
  <1>5. CASE Retry(t)
    <2>1. waiting' = waiting /\ gate' = gate /\ throttle' = throttle /\ sent' = sent /\ shown' = shown
      BY <1>5 DEF Retry
    <2>2. CASE Finish(t)
      BY <2>1, <2>2, FinishTypes DEF TypeOK, gate, throttle
    <2>3. CASE /\ ~ attempt[t] + 1 >= MaxRetries
               /\ GoTo(t, "again")
               /\ attempt' = [attempt EXCEPT ![t] = @ + 1]
      <3>1. attempt[t] + 1 \in 0..MaxRetries - 1
        BY <2>3, LimitAssumption DEF TypeOK
      <3>2. attempt' \in [Task -> 0..MaxRetries - 1]
        BY <2>3, <3>1 DEF TypeOK
      <3> QED
        BY <2>1, <2>3, <3>2, <1>1, GoToTypes DEF TypeOK, gate, throttle
    <2> QED
      BY <1>5, <2>2, <2>3 DEF Retry
  <1>6. CASE Raise(t)
    BY <1>6, FinishTypes DEF Raise, TypeOK, gate, throttle
  <1> QED
    BY <1>3, <1>4, <1>5, <1>6

LEMMA StepTypes == AccessInv /\ [Next]_vars => TypeOK' /\ Numbered'
  <1> SUFFICES ASSUME AccessInv, [Next]_vars PROVE TypeOK' /\ Numbered'
    OBVIOUS
  <1>1. ASSUME NEW t \in Task, NEW u \in User, NEW text \in Text, Receive(t, u, text)
        PROVE  TypeOK' /\ Numbered'
    BY <1>1, ReceiveTypes DEF AccessInv
  <1>2. ASSUME NEW t \in Task, Handle(t)
        PROVE  TypeOK' /\ Numbered'
    BY <1>2, HandlerTypes, EndTypes DEF Handle
  <1>3. ASSUME NEW u \in User, IntervalPasses(u) \/ ApologyIntervalPasses(u)
        PROVE  TypeOK' /\ Numbered'
    BY <1>3 DEF AccessInv, TypeOK, Numbered, IntervalPasses, ApologyIntervalPasses,
                gate, task
  <1>4. ASSUME NEW u \in User, AttemptExpires(u)
        PROVE  TypeOK' /\ Numbered'
    BY <1>4, WindowMovesOn DEF AccessInv, TypeOK, Numbered, AttemptExpires, throttle, task
  <1>5. CASE Restart
    BY <1>5, LimitAssumption, ConfiguredAssumption DEF AccessInv, TypeOK, Numbered, Restart
  <1>6. CASE UNCHANGED vars
    BY <1>6 DEF AccessInv, TypeOK, Numbered, vars, gate, throttle, task
  <1> QED
    BY <1>1, <1>2, <1>3, <1>4, <1>5, <1>6 DEF Next

-----------------------------------------------------------------------------
(* Who sees the lists.                                                     *)

\* Until the process ends nobody loses the authorisation.
LEMMA AuthorisationStays ==
    ASSUME AccessInv, Next
    PROVE  Restart \/ authorised \subseteq authorised'
  <1>1. ASSUME NEW t \in Task, Handle(t) PROVE authorised \subseteq authorised'
    <2>1. CASE CheckPassword(t)
      BY <2>1, GateKeepsFailures DEF AccessInv
    <2>2. CASE ~ CheckPassword(t)
      BY <1>1, <2>2 DEF Handle, Drop, CmdStart, CmdAdmin, ShowList, Store,
                        Answered, Retry, Raise, gate
    <2> QED
      BY <2>1, <2>2
  <1> QED
    BY <1>1 DEF Next, Receive, IntervalPasses, ApologyIntervalPasses, AttemptExpires, gate

\* A task's message and label change in a step of the task's only, or when the
\* process is restarted.
LEMMA OthersWait ==
    ASSUME AccessInv, NEW t \in Task, NEW s \in Task, s # t, Handle(t)
    PROVE  pc'[s] = pc[s] /\ handler'[s] = handler[s] /\ who'[s] = who[s]
  BY DEF AccessInv, TypeOK, Handle, Drop, CmdStart, CmdAdmin, CheckPassword, ShowList, Store,
         Answered, Retry, Raise, Finish, GoTo

\* A handler that ends with a list to send ran for an admin.
LEMMA ListIsForAnAdmin ==
    ASSUME AccessInv, NEW t \in Task, Handle(t),
           pc'[t] = "answer", handler'[t] = "show_list"
    PROVE  IsAdmin(who[t]) /\ who'[t] = who[t]
  <1>1. pc \in [Task -> {"idle", "received", "again", "answer", "apologise"}]
    BY DEF AccessInv, TypeOK
  <1>2. ~ Finish(t)
    BY <1>1 DEF Finish
  <1>3. ~ GoTo(t, "again") /\ ~ GoTo(t, "apologise")
    BY <1>1 DEF GoTo
  <1>4. CmdStart(t) \/ CmdAdmin(t) \/ CheckPassword(t) \/ ShowList(t) \/ Store(t)
    BY <1>2, <1>3 DEF Handle, Drop, Answered, Retry, Raise
  <1>5. GoTo(t, "answer")
    BY <1>2, <1>4 DEF CmdStart, CmdAdmin, CheckPassword, ShowList, Store
  <1>6. handler[t] = "show_list" /\ who'[t] = who[t]
    BY <1>5 DEF GoTo
  <1>7. ShowList(t)
    BY <1>4, <1>6 DEF CmdStart, CmdAdmin, CheckPassword, Store, Attempt
  <1> QED
    BY <1>2, <1>6, <1>7 DEF ShowList

LEMMA StepListsGoToAdmins == AccessInv /\ [Next]_vars => ListsGoToAdmins'
  <1> SUFFICES ASSUME AccessInv, [Next]_vars PROVE ListsGoToAdmins'
    OBVIOUS
  <1> USE DEF ListsGoToAdmins, IsAdmin
  <1>0. pc \in [Task -> {"idle", "received", "again", "answer", "apologise"}]
        /\ ListsGoToAdmins
    BY DEF AccessInv, TypeOK
  <1>1. ASSUME NEW t \in Task, NEW u \in User, NEW text \in Text, Receive(t, u, text)
        PROVE  ListsGoToAdmins'
    BY <1>0, <1>1 DEF AccessInv, TypeOK, Receive, gate
  <1>2. ASSUME NEW t \in Task, Handle(t)
        PROVE  ListsGoToAdmins'
    <2>1. ASSUME NEW s \in Task, pc'[s] = "answer", handler'[s] = "show_list"
          PROVE  who'[s] \in Configured \cup authorised'
      <3>0. authorised \subseteq authorised' \/ Restart
        BY <1>2, AuthorisationStays DEF Next
      <3>1. ~ Restart
        BY <2>1 DEF Restart
      <3>2. CASE s = t
        BY <3>0, <3>1, <3>2, <1>2, <2>1, ListIsForAnAdmin
      <3>3. CASE s # t
        BY <3>0, <3>1, <3>3, <1>0, <1>2, <2>1, OthersWait
      <3> QED
        BY <3>2, <3>3
    <2> QED
      BY <2>1
  <1>3. ASSUME NEW u \in User,
               IntervalPasses(u) \/ ApologyIntervalPasses(u) \/ AttemptExpires(u)
        PROVE  ListsGoToAdmins'
    BY <1>0, <1>3 DEF IntervalPasses, ApologyIntervalPasses, AttemptExpires, gate, task
  <1>4. CASE Restart
    BY <1>4 DEF Restart
  <1>5. CASE UNCHANGED vars
    BY <1>0, <1>5 DEF vars, gate, task
  <1> QED
    BY <1>1, <1>2, <1>3, <1>4, <1>5 DEF Next

LEMMA StepOnlyAdmins == AccessInv /\ [Next]_vars => OnlyAdminsSeeLists'
  <1> SUFFICES ASSUME AccessInv, [Next]_vars PROVE OnlyAdminsSeeLists'
    OBVIOUS
  <1>1. CASE Restart
    BY <1>1 DEF Restart, OnlyAdminsSeeLists
  <1>2. CASE UNCHANGED vars
    BY <1>2 DEF vars, gate, AccessInv, OnlyAdminsSeeLists, IsAdmin
  <1>3. ASSUME Next, ~ Restart PROVE OnlyAdminsSeeLists'
    <2>1. authorised \subseteq authorised'
      BY <1>3, AuthorisationStays
    <2>2. ASSUME NEW u \in shown' PROVE u \in shown \/ IsAdmin(u)
      <3>1. CASE \E t \in Task : Answered(t)
        BY <3>1, <2>2 DEF Answered, AccessInv, ListsGoToAdmins
      <3>2. CASE ~ \E t \in Task : Answered(t)
        BY <1>3, <2>2, <3>2 DEF Next, Handle, Receive, Drop, CmdStart, CmdAdmin, CheckPassword,
           ShowList, Store, Attempt, Retry, Raise, IntervalPasses, ApologyIntervalPasses,
           AttemptExpires
      <3> QED
        BY <3>1, <3>2
    <2> QED
      BY <2>1, <2>2 DEF AccessInv, OnlyAdminsSeeLists, IsAdmin
  <1> QED
    BY <1>1, <1>2, <1>3

-----------------------------------------------------------------------------
(* The gate's window.                                                      *)

LEMMA StepGuesses == AccessInv /\ [Next]_vars => GuessesAreBounded'
  <1> SUFFICES ASSUME AccessInv, [Next]_vars PROVE GuessesAreBounded'
    OBVIOUS
  <1>1. CASE Restart
    BY <1>1, LimitAssumption DEF Restart, GuessesAreBounded
  <1>2. ASSUME NEW t \in Task, CheckPassword(t) PROVE GuessesAreBounded'
    BY <1>2, GateKeepsFailures DEF AccessInv
  <1>3. ASSUME NEW u \in User, AttemptExpires(u) PROVE GuessesAreBounded'
    BY <1>3, WindowMovesOn DEF AccessInv
  <1>4. ASSUME ~ Restart,
               ~ \E t \in Task : CheckPassword(t),
               ~ \E u \in User : AttemptExpires(u)
        PROVE  failures' = failures
    BY <1>4 DEF Next, Handle, Receive, Drop, CmdStart, CmdAdmin, ShowList, Store, Answered,
                Retry, Raise, IntervalPasses, ApologyIntervalPasses, vars, gate
  <1> QED
    BY <1>1, <1>2, <1>3, <1>4 DEF AccessInv, GuessesAreBounded

\* A user whose window is exhausted is authorised by no step.
LEMMA StepRefuses ==
    ASSUME AccessInv, [Next]_vars, NEW u \in User, IsThrottled(u), u \notin authorised
    PROVE  u \notin authorised'
  <1>1. ASSUME NEW t \in Task, CheckPassword(t) PROVE u \notin authorised'
    <2>1. CASE IsThrottled(who[t])
      BY <1>1, <2>1 DEF CheckPassword, gate
    <2>2. CASE ~ IsThrottled(who[t])
      BY <1>1, <2>2 DEF CheckPassword, Authorize
    <2> QED
      BY <2>1, <2>2
  <1>2. CASE ~ \E t \in Task : CheckPassword(t)
    BY <1>2 DEF Next, Handle, Receive, Drop, CmdStart, CmdAdmin, ShowList, Store, Answered,
                Retry, Raise, IntervalPasses, ApologyIntervalPasses, AttemptExpires, Restart,
                vars, gate
  <1> QED
    BY <1>1, <1>2

-----------------------------------------------------------------------------
LEMMA AccessHolds == Spec => []AccessInv
  <1>1. AccessInv /\ [Next]_vars => AccessInv'
    BY StepTypes, StepListsGoToAdmins, StepOnlyAdmins, StepGuesses DEF AccessInv
  <1> QED
    BY InitAccess, <1>1, PTL DEF Spec

\* The variables have the types they are meant to have in every reachable state:
\* a task is idle just when it handles nobody's message, and no handler is
\* started more than MaxRetries times.
THEOREM AccessTypeCorrect == Spec => []TypeOK
  <1>1. AccessInv => TypeOK
    BY DEF AccessInv
  <1> QED
    BY <1>1, AccessHolds, PTL

\* The admin's lists are sent to configured admins and to users the gate has
\* authorised since the start, whatever was retried or handled at the same time:
\* list_products and its like look at the gate themselves.
THEOREM AdminsSeeLists == Spec => []OnlyAdminsSeeLists
  <1>1. AccessInv => OnlyAdminsSeeLists
    BY DEF AccessInv
  <1> QED
    BY <1>1, AccessHolds, PTL

\* The gate's window never holds more wrong guesses than the limit, as nothing
\* is awaited between the check of the window and the comparison.
THEOREM WindowIsBounded == Spec => []GuessesAreBounded
  <1>1. AccessInv => GuessesAreBounded
    BY DEF AccessInv
  <1> QED
    BY <1>1, AccessHolds, PTL

\* No password of a user is accepted while the user's window is exhausted,
\* neither by a message that was on its way nor by a retry.
THEOREM ExhaustedWindowRefuses == Spec => RefusedInTheWindow
  <1>1. AccessInv /\ [Next]_vars =>
            [\A u \in User : IsThrottled(u) /\ u \notin authorised => u \notin authorised']_vars
    BY StepRefuses
  <1> QED
    BY <1>1, AccessHolds, PTL DEF Spec, RefusedInTheWindow
=============================================================================
