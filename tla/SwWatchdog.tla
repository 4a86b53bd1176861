----------------------------- MODULE SwWatchdog -----------------------------
(***************************************************************************)
(* The watchdog of socketwrapper at the grain of its memory accesses: each *)
(* worker thread does ++WatchDog after a block, a load and a store, while  *)
(* main's loop, run with -w, tests and clears the counters, with neither   *)
(* lock nor interlocked access.  SocketWrapper takes both as one step.     *)
(***************************************************************************)
EXTENDS Integers

CONSTANTS Threads,   \* worker threads are 0 .. Threads - 1
          MaxMoves,  \* bound on the blocks a thread moves between two wakes
          MaxCount   \* bound on the counters: only 0, 1 and 2 are told apart

ASSUME ThreadsAssumption == Threads \in Nat \ {0} /\ MaxMoves \in Nat
ASSUME CountAssumption   == MaxCount \in Nat /\ MaxCount >= 2

Thread == 0 .. Threads - 1

VARIABLES mpc,       \* main: "wait", "check", "reset", "dead"
          mi,        \* its loop index
          fDie,
          tpc,       \* each thread: "move" a block, "load", "store"
          reg,       \* what it has loaded
          WatchDog,
          moves,     \* blocks moved since main last woke
          stalled,   \* threads main has reported as stalled
          lastMoves, \* blocks moved in the period that ended with that wake
          quiet,     \* whole periods on end in which nothing was moved
          late         \* threads in the middle of an increment since then

mainVars   == <<mpc, mi, fDie, stalled>>
threadVars == <<tpc, reg>>
clockVars  == <<lastMoves, quiet, late>>
vars == <<mainVars, threadVars, WatchDog, moves, clockVars>>

\* One more, up to the bound.
Succ(n) == IF n < MaxCount THEN n + 1 ELSE n

Zero == [t \in Thread |-> 0]

Init ==
  /\ mpc = "wait" /\ mi = 0 /\ fDie = FALSE /\ stalled = {}
  /\ tpc = [t \in Thread |-> "move"] /\ reg = Zero
  /\ WatchDog = Zero /\ moves = Zero /\ lastMoves = Zero
  /\ quiet = Zero /\ late = {}

\* WriteFile or send has taken the block.
Move(t) ==
  /\ tpc[t] = "move" /\ moves[t] < MaxMoves
  /\ moves' = [moves EXCEPT ![t] = @ + 1]
  /\ tpc' = [tpc EXCEPT ![t] = "load"]
  /\ UNCHANGED <<mainVars, reg, WatchDog, clockVars>>

Load(t) ==
  /\ tpc[t] = "load"
  /\ reg' = [reg EXCEPT ![t] = WatchDog[t]]
  /\ tpc' = [tpc EXCEPT ![t] = "store"]
  /\ UNCHANGED <<mainVars, WatchDog, moves, clockVars>>

Store(t) ==
  /\ tpc[t] = "store"
  /\ WatchDog' = [WatchDog EXCEPT ![t] = Succ(reg[t])]
  /\ tpc' = [tpc EXCEPT ![t] = "move"] /\ late' = late \ {t}
  /\ UNCHANGED <<mainVars, reg, moves, lastMoves, quiet>>

\* WaitForMultipleObjects times out.  TIMEOUT (a minute) outlasts the increment
\* of a thread that runs at THREAD_PRIORITY_TIME_CRITICAL.
Wake ==
  /\ mpc = "wait" /\ late = {}
  /\ mpc' = "check" /\ mi' = 0
  /\ lastMoves' = moves /\ moves' = Zero
  /\ quiet' = [t \in Thread |-> IF moves[t] = 0 THEN Succ(quiet[t]) ELSE 0]
  /\ late' = {t \in Thread : tpc[t] # "move"}
  /\ UNCHANGED <<fDie, stalled, threadVars, WatchDog>>

\* if( 0==info[i].WatchDog ) fDie = true.
Check ==
  /\ mpc = "check"
  /\ IF WatchDog[mi] = 0
     THEN fDie' = TRUE /\ stalled' = stalled \cup {mi}
     ELSE UNCHANGED <<fDie, stalled>>
  /\ mpc' = "reset"
  /\ UNCHANGED <<mi, threadVars, WatchDog, moves, clockVars>>

\* To the next worker thread; after the last one, to the wait or out of the loop.
Onward == IF mi + 1 < Threads THEN mi' = mi + 1 /\ mpc' = "check"
          ELSE mi' = 0 /\ mpc' = IF fDie THEN "dead" ELSE "wait"

\* Faulty variant: the counter is not cleared.
ResetNothing ==
  /\ mpc = "reset"
  /\ Onward
  /\ UNCHANGED <<fDie, stalled, threadVars, WatchDog, moves, clockVars>>

\* info[i].WatchDog = 0, and on to the next step or the next wait.
Reset ==
  /\ mpc = "reset"
  /\ WatchDog' = [WatchDog EXCEPT ![mi] = 0]
  /\ Onward
  /\ UNCHANGED <<fDie, stalled, threadVars, moves, clockVars>>

\* The tidy part stops the threads.
Dead == mpc = "dead" /\ UNCHANGED vars

Next == \/ Wake \/ Check \/ Reset \/ Dead
        \/ mpc # "dead" /\ \E t \in Thread : Move(t) \/ Load(t) \/ Store(t)

Spec == Init /\ [][Next]_vars

-----------------------------------------------------------------------------
(* Properties. *)

TypeOK ==
  /\ mpc \in {"wait", "check", "reset", "dead"} /\ mi \in Thread /\ fDie \in BOOLEAN
  /\ tpc \in [Thread -> {"move", "load", "store"}]
  /\ reg \in [Thread -> Nat] /\ WatchDog \in [Thread -> Nat] /\ moves \in [Thread -> Nat]
  /\ lastMoves \in [Thread -> Nat] /\ quiet \in [Thread -> Nat]
  /\ stalled \subseteq Thread /\ late \subseteq Thread
  /\ \A t \in Thread : moves[t] <= MaxMoves

\* A thread that moves nothing is found out by the end of the second period, for
\* all that an increment may undo a reset: main waits a third time only when the
\* thread has meanwhile moved a block.
StallCaught ==
  mpc = "wait" => \A t \in Thread : quiet[t] >= 2 => moves[t] > 0
=============================================================================
