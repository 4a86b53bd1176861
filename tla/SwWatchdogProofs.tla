-------------------------- MODULE SwWatchdogProofs --------------------------
(***************************************************************************)
(* A stalled thread is found out by the end of the second period, for any  *)
(* number of threads and whatever the unlocked increments do to the resets.*)
(***************************************************************************)
EXTENDS SwWatchdog, TLAPS

\* A thread in which nothing moved in the last whole period nor since.
Still(t) == quiet[t] >= 1 /\ moves[t] = 0
Stalled(t) == quiet[t] >= 2 /\ moves[t] = 0

\* An increment under way is of this period, or late.
Underway == \A t \in Thread : tpc[t] # "move" => moves[t] > 0 \/ t \in late

\* A still thread has no increment left that could undo a reset.
NoneUnderway == \A t \in Thread : Still(t) => tpc[t] = "move"

\* So its counter stays cleared,
Cleared ==
  \A t \in Thread : Still(t) /\ (mpc = "wait" \/ (mpc \in {"check", "reset"} /\ t < mi))
                      => WatchDog[t] = 0

\* and is found cleared at the next wake,
FoundZero == \A t \in Thread : Stalled(t) => WatchDog[t] = 0

\* when the loop reports it and main leaves.
Reported ==
  \A t \in Thread : Stalled(t) /\ ((mpc \in {"check", "reset"} /\ t < mi) \/ (mpc = "reset" /\ t = mi))
                      => fDie
Leaves == mpc = "wait" => ~fDie

IInv == /\ TypeOK /\ Underway /\ NoneUnderway /\ Cleared /\ FoundZero
        /\ Reported /\ Leaves /\ StallCaught

USE ThreadsAssumption, CountAssumption

\* The types, for every number of threads.
LEMMA TypeStep == TypeOK /\ [Next]_vars => TypeOK'
<1> SUFFICES ASSUME TypeOK, [Next]_vars PROVE TypeOK'
  OBVIOUS
<1>a. \A n \in Nat : Succ(n) \in Nat
  BY DEF Succ
<1>b. 0 \in Thread /\ \A t \in Thread : t \in Nat /\ (t + 1 < Threads => t + 1 \in Thread)
  BY DEF Thread
<1> USE DEF TypeOK, Zero, mainVars, threadVars, clockVars
<1>1. CASE Wake
  <2>1. quiet' \in [Thread -> Nat]
    BY <1>1, <1>a DEF Wake
  <2> QED
    BY <1>1, <1>b, <2>1 DEF Wake
<1>2. CASE Check
  BY <1>2 DEF Check
<1>3. CASE Reset
  BY <1>3, <1>b DEF Reset, Onward
<1>4. ASSUME NEW t \in Thread, Move(t) PROVE TypeOK'
  BY <1>4 DEF Move
<1>5. ASSUME NEW t \in Thread, Load(t) PROVE TypeOK'
  BY <1>5 DEF Load
<1>6. ASSUME NEW t \in Thread, Store(t) PROVE TypeOK'
  BY <1>6, <1>a DEF Store
<1>7. CASE UNCHANGED vars
  BY <1>7 DEF vars
<1> QED
  BY <1>1, <1>2, <1>3, <1>4, <1>5, <1>6, <1>7 DEF Next, Dead

\* Each step keeps the rest of the invariant; only a wake makes a thread still or
\* stalled, and it waits for the late increments.
LEMMA InvStep == IInv /\ [Next]_vars => IInv'
<1> SUFFICES ASSUME IInv, [Next]_vars PROVE IInv'
  OBVIOUS
<1>0. TypeOK /\ TypeOK'
  BY TypeStep DEF IInv
<1>b. 0 \in Thread /\ \A t \in Thread : t \in Nat /\ t < Threads
  BY DEF Thread
<1> USE DEF Still, Stalled, mainVars, threadVars, clockVars
<1> DEFINE Rest == /\ Underway /\ NoneUnderway /\ Cleared /\ FoundZero
                   /\ Reported /\ Leaves /\ StallCaught
<1>i. Rest
  BY DEF IInv
<1> HIDE DEF Rest
<1>1. CASE Wake
  <2> USE <1>0, <1>b, <1>1, <1>i DEF Wake, Rest, TypeOK, Zero, Succ
  <2>1. \A t \in Thread : quiet'[t] >= 1 => moves[t] = 0 /\ tpc[t] = "move"
    BY DEF Underway
  <2>2. \A t \in Thread : quiet'[t] >= 2 => quiet[t] >= 1 /\ moves[t] = 0
    OBVIOUS
  <2>3. Underway' /\ NoneUnderway'
    BY <2>1 DEF Underway, NoneUnderway
  <2>4. FoundZero'
    BY <2>2 DEF FoundZero, Cleared
  <2>5. Cleared' /\ Reported' /\ Leaves' /\ StallCaught'
    BY DEF Cleared, Reported, Leaves, StallCaught
  <2> QED
    BY <2>3, <2>4, <2>5, <1>0 DEF IInv
<1>2. CASE Check
  <2> USE <1>0, <1>b, <1>2, <1>i DEF Check, Rest, TypeOK
  <2>1. Underway' /\ NoneUnderway' /\ Cleared' /\ FoundZero' /\ Leaves' /\ StallCaught'
    BY DEF Underway, NoneUnderway, Cleared, FoundZero, Leaves, StallCaught
  <2>2. Reported'
    BY DEF Reported, FoundZero
  <2> QED
    BY <2>1, <2>2, <1>0 DEF IInv
<1>3. CASE Reset
  <2> USE <1>0, <1>b, <1>3, <1>i DEF Reset, Onward, Rest, TypeOK
  <2>1. Underway' /\ NoneUnderway' /\ FoundZero'
    BY DEF Underway, NoneUnderway, FoundZero
  <2>2. Cleared'
    BY DEF Cleared
  <2>a. ASSUME NEW t \in Thread, Stalled(t), t <= mi PROVE fDie
    BY <2>a DEF Reported
  <2>3. Reported' /\ Leaves'
    BY <2>a DEF Reported, Leaves
  <2>4. StallCaught'
    BY <2>a DEF StallCaught
  <2> QED
    BY <2>1, <2>2, <2>3, <2>4, <1>0 DEF IInv
<1>4. ASSUME NEW u \in Thread, Move(u) PROVE IInv'
  <2> USE <1>0, <1>b, <1>4, <1>i DEF Move, Rest, TypeOK
  <2>1. moves'[u] > 0 /\ \A t \in Thread \ {u} : moves'[t] = moves[t] /\ tpc'[t] = tpc[t]
    OBVIOUS
  <2>2. Underway' /\ NoneUnderway'
    BY <2>1 DEF Underway, NoneUnderway
  <2>3. Cleared' /\ FoundZero'
    BY <2>1 DEF Cleared, FoundZero
  <2>4. Reported' /\ Leaves' /\ StallCaught'
    BY <2>1 DEF Reported, Leaves, StallCaught
  <2> QED
    BY <2>2, <2>3, <2>4 DEF IInv
<1>5. ASSUME NEW u \in Thread, Load(u) PROVE IInv'
  BY <1>0, <1>5, <1>i DEF IInv, Rest, Load, TypeOK, Underway, NoneUnderway, Cleared, FoundZero,
     Reported, Leaves, StallCaught
<1>6. ASSUME NEW u \in Thread, Store(u) PROVE IInv'
  <2> USE <1>0, <1>b, <1>6, <1>i DEF Store, Rest, TypeOK
  <2>1. ~Still(u) /\ \A t \in Thread \ {u} : WatchDog'[t] = WatchDog[t] /\ tpc'[t] = tpc[t]
    BY DEF NoneUnderway
  <2>2. Underway' /\ NoneUnderway'
    BY <2>1 DEF Underway, NoneUnderway
  <2>3. Cleared' /\ FoundZero'
    BY <2>1 DEF Cleared, FoundZero
  <2>4. Reported' /\ Leaves' /\ StallCaught'
    BY DEF Reported, Leaves, StallCaught
  <2> QED
    BY <2>2, <2>3, <2>4 DEF IInv
<1>7. CASE UNCHANGED vars
  BY <1>0, <1>7, <1>i DEF IInv, Rest, vars, Underway, NoneUnderway, Cleared, FoundZero,
     Reported, Leaves, StallCaught
<1> QED
  BY <1>1, <1>2, <1>3, <1>4, <1>5, <1>6, <1>7 DEF Next, Dead

\* Two whole periods without a block, and main does not wait for a third: the
\* increment that a reset has overtaken is done before the next wake.
THEOREM StallCaughtCorrect == Spec => []StallCaught
<1>1. Init => IInv
  <2> SUFFICES ASSUME Init PROVE IInv
    OBVIOUS
  <2>1. TypeOK
    <3>1. 0 \in Thread
      BY DEF Thread
    <3>2. Zero \in [Thread -> Nat] /\ \A t \in Thread : Zero[t] <= MaxMoves
      BY DEF Zero
    <3>3. tpc \in [Thread -> {"move", "load", "store"}]
      BY DEF Init
    <3> QED
      BY <3>1, <3>2, <3>3 DEF Init, TypeOK
  <2>2. Underway /\ NoneUnderway /\ Cleared /\ FoundZero /\ Reported /\ StallCaught
    BY DEF Init, Underway, NoneUnderway, Cleared, FoundZero, Reported, StallCaught, Still, Stalled, Zero
  <2>3. Leaves
    BY DEF Init, Leaves
  <2> QED
    BY <2>1, <2>2, <2>3 DEF IInv
<1>2. IInv => StallCaught
  BY DEF IInv
<1> QED
  BY <1>1, <1>2, InvStep, PTL DEF Spec
=============================================================================
