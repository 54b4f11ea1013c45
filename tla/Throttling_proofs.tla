-------------------------- MODULE Throttling_proofs --------------------------
(***************************************************************************)
(* What ThrottlingMiddleware promises, for all intervals, users and clocks *)
(* that are set back.                                                      *)
(***************************************************************************)
EXTENDS Throttling, TLAPS

\* The time that passed since an event of u is at least its age on the clock
\* and exceeds it by no more than what the clock was set back.
Agrees(age, passed) == age <= passed /\ passed <= age + setBack

\* The inductive invariant.  None of the properties is inductive: they say
\* nothing of how the clock's ages are related to the time that passed.
ClockInv ==
    /\ ClocksOK
    /\ \A u \in User :
        /\ Agrees(sinceMessage[u], quiet[u])
        /\ Agrees(sinceApology[u], unsorry[u])
        /\ pace[u] = MinInterval
        /\ gap[u] = ApologyInterval

\* A process that has seen no message satisfies it.
LEMMA ClockInvInit == ThrottlingInit => ClockInv
  BY IntervalAssumption DEF ThrottlingInit, ClockInv, ClocksOK, Agrees, MessageHorizon, ApologyHorizon

\* A message that is let through was preceded by a full interval.
LEMMA LetThroughKeeps ==
    ASSUME ClockInv, NEW u \in User, LetThrough(u)
    PROVE  ClockInv'
<1>1. quiet[u] >= MinInterval /\ quiet[u] \in Nat /\ Capped(quiet[u], MinInterval) = MinInterval
  BY IntervalAssumption DEF ClockInv, ClocksOK, Agrees, LetThrough, Capped, MessageHorizon
<1>2. ClocksOK'
  BY <1>1, IntervalAssumption DEF ClockInv, ClocksOK, LetThrough, MessageHorizon, ApologyHorizon
<1>3. ASSUME NEW v \in User
      PROVE  /\ Agrees(sinceMessage[v], quiet[v])'
             /\ Agrees(sinceApology[v], unsorry[v])'
             /\ pace'[v] = MinInterval
             /\ gap'[v] = ApologyInterval
  BY <1>1, IntervalAssumption DEF ClockInv, ClocksOK, LetThrough, Agrees, MessageHorizon
<1> QED
  BY <1>2, <1>3 DEF ClockInv

\* An apology was preceded by its interval.
LEMMA DropKeeps ==
    ASSUME ClockInv, NEW u \in User, Drop(u)
    PROVE  ClockInv'
<1>1. CASE sinceApology[u] >= ApologyInterval
  <2>1. unsorry[u] >= ApologyInterval /\ Capped(unsorry[u], ApologyInterval) = ApologyInterval
    BY <1>1, IntervalAssumption DEF ClockInv, ClocksOK, Agrees, Capped, ApologyHorizon
  <2>2. ClocksOK'
    BY <1>1, <2>1, IntervalAssumption
    DEF ClockInv, ClocksOK, Drop, Apologise, MessageHorizon, ApologyHorizon
  <2>3. ASSUME NEW v \in User
        PROVE  /\ Agrees(sinceMessage[v], quiet[v])'
               /\ Agrees(sinceApology[v], unsorry[v])'
               /\ pace'[v] = MinInterval
               /\ gap'[v] = ApologyInterval
    BY <1>1, <2>1, IntervalAssumption DEF ClockInv, ClocksOK, Drop, Apologise, Agrees, ApologyHorizon
  <2> QED
    BY <2>2, <2>3 DEF ClockInv
<1>2. CASE ~ (sinceApology[u] >= ApologyInterval)
  BY <1>2 DEF ClockInv, ClocksOK, Drop, Agrees
<1> QED
  BY <1>1, <1>2

\* Time passes alike for the clock and for those who wait; at the horizon the
\* one that comes first waits for the other.
LEMMA TickKeeps ==
    ASSUME ClockInv, Tick
    PROVE  ClockInv'
<1>1. ClocksOK'
  BY IntervalAssumption DEF ClockInv, ClocksOK, Tick, Capped, MessageHorizon, ApologyHorizon
<1>2. ASSUME NEW v \in User
      PROVE  /\ Agrees(sinceMessage[v], quiet[v])'
             /\ Agrees(sinceApology[v], unsorry[v])'
             /\ pace'[v] = MinInterval
             /\ gap'[v] = ApologyInterval
  BY IntervalAssumption
  DEF ClockInv, ClocksOK, Tick, Agrees, Capped, MessageHorizon, ApologyHorizon
<1> QED
  BY <1>1, <1>2 DEF ClockInv

\* Setting the clock back takes from its ages what it adds to setBack.
LEMMA ClockSetBackKeeps ==
    ASSUME ClockInv, ClockSetBack
    PROVE  ClockInv'
<1>1. ClocksOK'
  BY IntervalAssumption
  DEF ClockInv, ClocksOK, ClockSetBack, histories, Agrees, MessageHorizon, ApologyHorizon
<1>2. ASSUME NEW v \in User
      PROVE  /\ Agrees(sinceMessage[v], quiet[v])'
             /\ Agrees(sinceApology[v], unsorry[v])'
             /\ pace'[v] = MinInterval
             /\ gap'[v] = ApologyInterval
  BY IntervalAssumption
  DEF ClockInv, ClocksOK, ClockSetBack, histories, Agrees, MessageHorizon, ApologyHorizon
<1> QED
  BY <1>1, <1>2 DEF ClockInv

\* The next process starts with ages and times that agree.
LEMMA ForgetKeeps ==
    ASSUME ClockInv, Forget
    PROVE  ClockInv'
  BY IntervalAssumption DEF ClockInv, ClocksOK, Forget, Agrees, MessageHorizon, ApologyHorizon

\* Every step keeps it.
LEMMA ClockInvNext == ClockInv /\ [ThrottlingNext]_clocks => ClockInv'
<1> SUFFICES ASSUME ClockInv, [ThrottlingNext]_clocks PROVE ClockInv'
  OBVIOUS
<1>1. CASE Message
  BY <1>1, LetThroughKeeps, DropKeeps DEF Message
<1>2. CASE Tick
  BY <1>2, TickKeeps
<1>3. CASE ClockSetBack
  BY <1>3, ClockSetBackKeeps
<1>4. CASE Forget
  BY <1>4, ForgetKeeps
<1>5. CASE UNCHANGED clocks
  BY <1>5 DEF ClockInv, ClocksOK, Agrees, clocks, stamps, histories
<1> QED
  BY <1>1, <1>2, <1>3, <1>4, <1>5 DEF ThrottlingNext

\* Ages on the clock and the time that passed never differ by more than what
\* the clock was set back.
THEOREM ClocksAgree == ThrottlingSpec => []ClockInv
  BY ClockInvInit, ClockInvNext, PTL DEF ThrottlingSpec

\* ThrottlingMiddleware drops a message only within the interval, and what the
\* clock was set back, after another was let through.
THEOREM NobodyIsSilenced == ThrottlingSpec => []HeardAfterQuiet
<1>1. ClockInv => HeardAfterQuiet
  BY IntervalAssumption DEF ClockInv, ClocksOK, Agrees, HeardAfterQuiet, MessageHorizon
<1> QED
  BY <1>1, ClocksAgree, PTL

\* It drops one without a word only within the interval, and what the clock
\* was set back, after an apology.
THEOREM NobodyIsIgnored == ThrottlingSpec => []NotLongSilent
<1>1. ClockInv => NotLongSilent
  BY IntervalAssumption DEF ClockInv, ClocksOK, Agrees, NotLongSilent, ApologyHorizon
<1> QED
  BY <1>1, ClocksAgree, PTL

\* It lets no two messages through, and sends no two apologies, within the
\* interval, however the clock is set back.
THEOREM StormsAreSpacedOut == ThrottlingSpec => []SpacedOut
<1>1. ClockInv => SpacedOut
  <2> SUFFICES ASSUME ClockInv, NEW u \in User
              PROVE  pace[u] >= MinInterval /\ gap[u] >= ApologyInterval
    BY DEF SpacedOut
  <2>1. pace[u] = MinInterval /\ gap[u] = ApologyInterval
    BY DEF ClockInv
  <2>2. MinInterval \in Int /\ ApologyInterval \in Int
    BY IntervalAssumption
  <2> QED
    BY <2>1, <2>2
<1> QED
  BY <1>1, ClocksAgree, PTL
=============================================================================
