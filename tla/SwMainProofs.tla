---------------------------- MODULE SwMainProofs ----------------------------
(***************************************************************************)
(* socketwrapper's set-up: it writes inside the table, and a table it has  *)
(* completed is the chain of stages that the pumps and taps run.  For      *)
(* every command line, every set of options and every size of the table.   *)
(***************************************************************************)
EXTENDS SwMain, GetOptProofs, FiniteSetTheorems

-----------------------------------------------------------------------------
(* The bounds of the table. *)

\* The command whose #PIPE# the named pipe belongs to has been dealt with, or is
\* the one being dealt with.
Owner == named => \E j \in 1 .. numProcesses :
                     Commands[j] /\ (IF pc \in {"pipe", "output"} THEN j <= i + 1 ELSE j <= i)

NamedMade == IF named THEN 1 ELSE 0

\* Where the set-up is in the table while it is in the loop.
InLoop == /\ i < numProcesses
          /\ numSteps = InThreads + i + NamedMade
          /\ Owner

BoundInv ==
  /\ Commands \in Seq(BOOLEAN) \ {<<>>}
  /\ inputPort \in BOOLEAN /\ outputPort \in BOOLEAN /\ named \in BOOLEAN
  /\ pc \in {"input", "command", "pipe", "output", "built", "tidy"}
  /\ i \in Nat /\ numSteps \in Nat /\ top \in Nat
  /\ pc = "input"   => i = 0 /\ numSteps = 0 /\ top = 0 /\ ~named
  /\ pc \in {"command", "pipe", "output"} => InLoop
  /\ pc \in {"command", "pipe"} => top <= numSteps
  /\ pc = "output"  => /\ top <= numSteps + 1
                       /\ IsLast /\ ~outputPort => top <= numSteps
  /\ pc \in {"built", "tidy"} => top < Wanted

LEMMA Numbers ==
  ASSUME BoundInv
  PROVE  /\ numProcesses \in Nat \ {0}
         /\ InThreads \in {0, 1} /\ OutThreads \in {0, 1} /\ NamedMade \in {0, 1}
         /\ inputPort <=> InThreads = 1
         /\ outputPort <=> OutThreads = 1
         /\ named <=> NamedMade = 1
         /\ NamedThreads \in {0, 1, 2}
         /\ Wanted = numProcesses + InThreads + OutThreads + NamedThreads
         /\ Wanted \in Nat
<1>1. numProcesses \in Nat \ {0}
  BY DEF BoundInv, numProcesses
<1>2. /\ InThreads \in {0, 1} /\ OutThreads \in {0, 1} /\ NamedMade \in {0, 1}
      /\ inputPort <=> InThreads = 1
      /\ outputPort <=> OutThreads = 1
      /\ named <=> NamedMade = 1
  BY DEF BoundInv, InThreads, OutThreads, NamedMade
<1>3. NamedThreads \in {0, 1, 2}
  BY DEF NamedThreads
<1> QED
  BY <1>1, <1>2, <1>3 DEF Wanted

\* The named pipes asked for are at least those made.
LEMMA Share ==
  ASSUME BoundInv, InLoop
  PROVE  /\ NamedMade <= NamedThreads
         /\ Commands[i + 1] /\ pc = "command" => NamedMade + 1 <= NamedThreads
<1>1. numProcesses \in Nat /\ i + 1 \in 1 .. numProcesses
  BY Numbers DEF InLoop, BoundInv
<1>2. named => HasPipe
  BY DEF InLoop, Owner, HasPipe
<1>3. Commands[i + 1] => HasPipe
  BY <1>1 DEF HasPipe
<1>4. ASSUME named, Commands[i + 1], pc = "command" PROVE HasSecond
  <2>1. PICK j \in 1 .. numProcesses : Commands[j] /\ j <= i
    BY <1>4 DEF InLoop, Owner
  <2>2. j < i + 1
    BY <1>1, <2>1 DEF BoundInv
  <2> QED
    BY <1>1, <1>4, <2>1, <2>2 DEF HasSecond
<1>5. HasPipe => NamedThreads \in {1, 2}
  BY DEF NamedThreads
<1>6. HasSecond => NamedThreads = 2
  BY DEF NamedThreads
<1> QED
  BY <1>2, <1>3, <1>4, <1>5, <1>6, Numbers

LEMMA SameArgs ==
  ASSUME UNCHANGED args
  PROVE  /\ Wanted' = Wanted /\ numProcesses' = numProcesses
         /\ InThreads' = InThreads /\ OutThreads' = OutThreads
  BY DEF args, Wanted, numProcesses, InThreads, OutThreads, NamedThreads, HasPipe, HasSecond

LEMMA BoundInit == Init => BoundInv
<1> SUFFICES ASSUME Init PROVE BoundInv
  OBVIOUS
<1>1. Commands \in Seq(BOOLEAN) \ {<<>>}
  BY CommandAssumption, Zenon DEF Init
<1>2. /\ inputPort \in BOOLEAN /\ outputPort \in BOOLEAN
      /\ named = FALSE /\ pc = "input" /\ i = 0 /\ numSteps = 0 /\ top = 0
  BY DEF Init
<1> QED
  BY <1>1, <1>2 DEF BoundInv

LEMMA BoundNext == BoundInv /\ [Next]_vars => BoundInv'
<1> SUFFICES ASSUME BoundInv, [Next]_vars PROVE BoundInv'
  OBVIOUS
<1>1. CASE ConnectInput
  <2>1. UNCHANGED args
    BY <1>1 DEF ConnectInput
  <2>2. InLoop' /\ top' <= numSteps'
    BY <1>1, <2>1, Numbers, SameArgs
    DEF BoundInv, ConnectInput, Touch, InLoop, Owner, NamedMade
  <2> QED
    BY <1>1, <2>1, <2>2 DEF BoundInv, ConnectInput, Touch, args
<1>2. CASE ConnectInputFails
  BY <1>2, Numbers, SameArgs DEF BoundInv, ConnectInputFails, GotoTidy, args
<1>3. CASE AddCommand
  <2>1. InLoop' /\ top' <= numSteps'
    <3>1. UNCHANGED args /\ UNCHANGED <<i, numSteps, named>> /\ pc = "command" /\ pc' = "pipe"
      BY <1>3 DEF AddCommand
    <3>2. Owner'
      BY <3>1, SameArgs DEF BoundInv, InLoop, Owner, args
    <3> QED
      BY <1>3, <3>1, <3>2, SameArgs DEF BoundInv, AddCommand, Touch, InLoop, NamedMade
  <2> QED
    BY <1>3, <2>1 DEF BoundInv, AddCommand, Touch, args
<1>4. CASE AddNamedCommand
  <2>1. InLoop' /\ top' <= numSteps'
    <3>1. /\ UNCHANGED args /\ UNCHANGED i /\ pc = "command" /\ pc' = "pipe"
          /\ ~named /\ named' /\ numSteps' = numSteps + 1 /\ Commands[i + 1]
          /\ top' <= numSteps'
      BY <1>4 DEF BoundInv, AddNamedCommand, Touch
    <3>2. i + 1 \in 1 .. numProcesses
      BY <3>1, Numbers DEF BoundInv, InLoop
    <3>3. Owner'
      BY <3>1, <3>2, SameArgs DEF BoundInv, Owner, args
    <3> QED
      BY <3>1, <3>3, Numbers, SameArgs DEF BoundInv, InLoop, NamedMade
  <2> QED
    BY <1>4, <2>1 DEF BoundInv, AddNamedCommand, Touch, args
<1>5. CASE AddCommandFails
  <2>1. numSteps < Wanted /\ top <= numSteps
    BY <1>5, Numbers, Share DEF BoundInv, AddCommandFails, InLoop
  <2> QED
    BY <1>5, <2>1, SameArgs DEF BoundInv, AddCommandFails, GotoTidy, Touch, args
<1>6. CASE AddNamedCommandFails
  <2>1. numSteps + 1 < Wanted /\ top <= numSteps
    BY <1>6, Numbers, Share DEF BoundInv, AddNamedCommandFails, InLoop
  <2> QED
    BY <1>6, <2>1, SameArgs DEF BoundInv, AddNamedCommandFails, GotoTidy, Touch, args
<1>7. CASE ConnectNext
  <2>1. InLoop'
    <3>1. UNCHANGED args /\ UNCHANGED <<i, numSteps, named>> /\ pc = "pipe" /\ pc' = "output"
      BY <1>7 DEF ConnectNext
    <3>2. Owner'
      BY <3>1, SameArgs DEF BoundInv, InLoop, Owner, args
    <3> QED
      BY <3>1, <3>2, SameArgs DEF BoundInv, InLoop, NamedMade
  <2>2. top' <= numSteps' + 1 /\ (IsLast' /\ ~outputPort' => top' <= numSteps')
    BY <1>7, SameArgs DEF BoundInv, ConnectNext, IsLast, Touch, args
  <2> QED
    BY <1>7, <2>1, <2>2 DEF BoundInv, ConnectNext, Touch, args
<1>8. CASE ConnectNextFails
  <2>1. top < Wanted
    BY <1>8, Numbers, Share DEF BoundInv, ConnectNextFails, InLoop
  <2> QED
    BY <1>8, <2>1, SameArgs DEF BoundInv, ConnectNextFails, GotoTidy, args
<1>9. CASE ConnectOutput
  <2>1. CASE IsLast
    <3>1. top' < Wanted
      BY <1>9, <2>1, Numbers, Share DEF BoundInv, ConnectOutput, IsLast, Touch, InLoop
    <3> QED
      BY <1>9, <2>1, <3>1, SameArgs DEF BoundInv, ConnectOutput, Touch, args
  <2>2. CASE ~IsLast
    <3>1. /\ UNCHANGED args /\ UNCHANGED <<named, top>> /\ pc = "output" /\ pc' = "command"
          /\ i' = i + 1 /\ numSteps' = numSteps + 1
      BY <1>9, <2>2 DEF ConnectOutput
    <3>2. Owner'
      BY <3>1, SameArgs DEF BoundInv, InLoop, Owner, args
    <3>3. InLoop' /\ top' <= numSteps'
      BY <2>2, <3>1, <3>2, Numbers, SameArgs DEF BoundInv, IsLast, InLoop, NamedMade
    <3> QED
      BY <3>1, <3>3 DEF BoundInv, args
  <2> QED
    BY <2>1, <2>2
<1>10. CASE ConnectOutputFails
  <2>1. numSteps + 1 < Wanted
    BY <1>10, Numbers, Share DEF BoundInv, ConnectOutputFails, IsLast, InLoop
  <2> QED
    BY <1>10, <2>1, SameArgs DEF BoundInv, ConnectOutputFails, GotoTidy, Touch, args
<1>11. CASE Done \/ UNCHANGED vars
  <2>1. UNCHANGED vars
    BY <1>11 DEF Done
  <2> QED
    BY <2>1, SameArgs DEF BoundInv, vars, args, InLoop, NamedMade, Owner, IsLast
<1> QED
  BY <1>1, <1>2, <1>3, <1>4, <1>5, <1>6, <1>7, <1>8, <1>9, <1>10, <1>11 DEF Next

LEMMA BoundImplies == BoundInv => InBounds
<1> SUFFICES ASSUME BoundInv, Wanted <= MAX_STEPS PROVE top < MAX_STEPS
  BY DEF InBounds
<1>1. top < Wanted
  <2>1. CASE pc = "input"
    BY <2>1, Numbers DEF BoundInv
  <2>2. CASE pc \in {"command", "pipe", "output"}
    BY <2>2, Numbers, Share DEF BoundInv, InLoop, IsLast
  <2> QED
    BY <2>1, <2>2 DEF BoundInv
<1> QED
  BY <1>1, Numbers, StepsAssumption DEF BoundInv

\* Every path of the set-up writes inside info and hChild when the command line
\* asks for at most MAX_STEPS entries.
THEOREM BoundsCorrect == Spec => []InBounds
<1>1. Init => BoundInv
  BY BoundInit
<1>2. BoundInv /\ [Next]_vars => BoundInv'
  BY BoundNext
<1>3. BoundInv => InBounds
  BY BoundImplies
<1> QED
  BY <1>1, <1>2, <1>3, PTL DEF Spec

-----------------------------------------------------------------------------
(* The table.  While it is built, the stages in Linked have their input, those *)
(* in Described have their command or are threads, and those below numSteps    *)
(* are complete.                                                               *)

Entries == IF pc \in {"pipe", "output"} THEN numSteps + 1 ELSE numSteps
Linked == 0 .. (IF pc = "output" /\ (~IsLast \/ outputPort) THEN numSteps + 1
                ELSE IF pc = "built" THEN numSteps - 1 ELSE numSteps)
Described == 0 .. Entries - 1

Kinds   == {"null", "insock", "outsock", "pipe", "stdin", "stdout", "stderr", "named", "invalid"}
Handles == [kind : Kinds, n : Nat]
Stage   == [fIsWorkerThread : BOOLEAN, fInputIsNamed : BOOLEAN, fOutputIsSocket : BOOLEAN,
            command : Nat, hInput : Handles, hOutput : Handles]

\* Commands that have their stage.
Placed == IF pc \in {"pipe", "output"} THEN i + 1 ELSE i

\* The entries behind those described have nothing but an input.
Fresh(n) == /\ ~info[n].fIsWorkerThread /\ ~info[n].fInputIsNamed /\ ~info[n].fOutputIsSocket
            /\ info[n].command = 0 /\ info[n].hOutput.kind = "null"

FromPipe(n)  == info[n].hInput.kind = "pipe" /\ info[n].hInput = info[n - 1].hOutput
FromNamed(n) == /\ info[n].hInput.kind = "named" /\ info[n].fInputIsNamed
                /\ info[n - 1].hOutput.kind = "stderr"

\* Inputs are linked to the entry before and are all different: a new pipe has a
\* number above all others, and the named pipe is made once.
Inputs ==
  /\ info[0].hInput.kind = IF inputPort THEN "insock" ELSE "stdin"
  /\ \A n \in Linked \ {0} : FromPipe(n) \/ FromNamed(n)
  /\ \A n \in Linked : /\ info[n].hInput.kind = "pipe" => info[n].hInput.n <= nPipes
                       /\ info[n].hInput.kind = "named" => named
  /\ \A k, l \in Linked : info[k].hInput = info[l].hInput => k = l

\* What a described entry is.
Role(n) ==
  /\ info[n].fIsWorkerThread <=> info[n].command = 0
  /\ info[n].fInputIsNamed => n > 0 /\ info[n - 1].command > 0 /\ Commands[info[n - 1].command]
  /\ info[n].hOutput.kind = "outsock" => info[n].fIsWorkerThread
  /\ info[n].hInput.kind = "insock" => info[n].fIsWorkerThread
  /\ info[n].fOutputIsSocket <=> pc = "built" /\ outputPort /\ n = numSteps - 1
Roles == \A n \in Described : Role(n)

\* What a complete entry writes to, and what the current one has so far.
Outputs ==
  /\ \A n \in 0 .. numSteps - 1 :
       info[n].fIsWorkerThread => info[n].hOutput.kind \in {"pipe", "stdout", "outsock"}
  /\ pc = "pipe" => info[numSteps].hOutput.kind = "null"
  /\ pc = "output" => info[numSteps].hOutput.kind = IF IsLast /\ ~outputPort THEN "null" ELSE "pipe"
  /\ pc = "built" => info[numSteps - 1].hOutput.kind = IF outputPort THEN "outsock" ELSE "stdout"

\* The first d entries hold the commands 1 to e in their order; f says which.
Ordered(f, d, e) ==
  /\ \A n \in 0 .. d - 1 : f[n] \in 0 .. e
  /\ \A j \in 1 .. e : \E n \in 0 .. d - 1 : f[n] = j
  /\ \A k, l \in 0 .. d - 1 : k < l /\ f[l] # 0 => f[k] < f[l]
CommandOf == [n \in Index |-> info[n].command]
Order == Ordered(CommandOf, Entries, Placed)

TableInv ==
  /\ pc = "input" => info = [n \in Index |-> ZeroStage] /\ nPipes = 0
  /\ pc \in {"command", "pipe", "output", "built"} =>
       /\ info \in [Index -> Stage] /\ nPipes \in Nat
       /\ \A n \in Index : n >= Entries => Fresh(n)
       /\ Inputs /\ Roles /\ Outputs /\ Order
  /\ pc = "built" => i = numProcesses /\ numSteps > 0 /\ numSteps - 1 \in Index

SetUpInv == BoundInv /\ TableInv

\* While the set-up is in its loop, the entries it touches are in the table.
LEMMA IndexRange ==
  ASSUME BoundInv, InLoop
  PROVE  /\ i \in Nat /\ numProcesses \in Nat /\ numSteps \in Nat
         /\ \A n \in 0 .. numSteps + 1 : n \in Index
         /\ \A n \in Index : n \in Nat
<1>1. /\ numProcesses \in Nat \ {0} /\ InThreads \in {0, 1} /\ NamedMade \in {0, 1}
      /\ i \in Nat /\ numSteps \in Nat
  BY Numbers DEF BoundInv
<1>2. numSteps + 1 <= 2 * numProcesses + 2
  BY <1>1 DEF InLoop
<1> QED
  BY <1>1, <1>2 DEF Index

LEMMA ZeroTable == ZeroStage \in Stage /\ \A n \in Nat : Handle("pipe", n) \in Handles
  BY DEF ZeroStage, Stage, Handle, Handles, Kinds, Null

\* Another command, or a thread, behind those there are.
LEMMA OrderGrows ==
  ASSUME NEW f, NEW g, NEW d \in Nat, NEW e \in Nat, Ordered(f, d, e),
         \A n \in 0 .. d - 1 : g[n] = f[n]
  PROVE  /\ Ordered(g, d, e)
         /\ g[d] = e + 1 => Ordered(g, d + 1, e + 1)
         /\ g[d] = 0 => Ordered(g, d + 1, e)
<1>1. Ordered(g, d, e)
  BY DEF Ordered
<1>2. \A n \in 0 .. (d + 1) - 1 : n = d \/ n \in 0 .. d - 1
  OBVIOUS
<1>3. d \in 0 .. (d + 1) - 1 /\ \A n \in 0 .. d - 1 : n \in 0 .. (d + 1) - 1
  OBVIOUS
<1>4. ASSUME g[d] = e + 1 PROVE Ordered(g, d + 1, e + 1)
  <2>1. \A n \in 0 .. (d + 1) - 1 : g[n] \in 0 .. e + 1
    BY <1>1, <1>2, <1>4 DEF Ordered
  <2>2. \A j \in 1 .. e + 1 : \E n \in 0 .. (d + 1) - 1 : g[n] = j
    <3> SUFFICES ASSUME NEW j \in 1 .. e + 1 PROVE \E n \in 0 .. (d + 1) - 1 : g[n] = j
      OBVIOUS
    <3>1. CASE j = e + 1
      BY <1>3, <1>4, <3>1
    <3>2. CASE j \in 1 .. e
      BY <1>1, <1>3, <3>2 DEF Ordered
    <3> QED
      BY <3>1, <3>2
  <2>3. \A k, l \in 0 .. (d + 1) - 1 : k < l /\ g[l] # 0 => g[k] < g[l]
    <3> SUFFICES ASSUME NEW k \in 0 .. (d + 1) - 1, NEW l \in 0 .. (d + 1) - 1,
                        k < l, g[l] # 0
                 PROVE  g[k] < g[l]
      OBVIOUS
    <3>1. k \in 0 .. d - 1 /\ g[k] \in 0 .. e
      BY <1>1 DEF Ordered
    <3>2. CASE l = d
      BY <1>4, <3>1, <3>2
    <3>3. CASE l \in 0 .. d - 1
      BY <1>1, <3>1, <3>3 DEF Ordered
    <3> QED
      BY <1>2, <3>2, <3>3
  <2> QED
    BY <2>1, <2>2, <2>3 DEF Ordered
<1>5. ASSUME g[d] = 0 PROVE Ordered(g, d + 1, e)
  <2>1. \A n \in 0 .. (d + 1) - 1 : g[n] \in 0 .. e
    BY <1>1, <1>2, <1>5 DEF Ordered
  <2>2. \A j \in 1 .. e : \E n \in 0 .. (d + 1) - 1 : g[n] = j
    BY <1>1, <1>3 DEF Ordered
  <2>3. \A k, l \in 0 .. (d + 1) - 1 : k < l /\ g[l] # 0 => g[k] < g[l]
    <3> SUFFICES ASSUME NEW k \in 0 .. (d + 1) - 1, NEW l \in 0 .. (d + 1) - 1,
                        k < l, g[l] # 0
                 PROVE  g[k] < g[l]
      OBVIOUS
    <3>1. k \in 0 .. d - 1 /\ l \in 0 .. d - 1
      BY <1>2, <1>5
    <3> QED
      BY <1>1, <3>1 DEF Ordered
  <2> QED
    BY <2>1, <2>2, <2>3 DEF Ordered
<1> QED
  BY <1>1, <1>4, <1>5

\* The links stay when the entries keep their inputs and all but the last their
\* outputs; a new link is to a pipe made for it.
LEMMA InputsGrow ==
  ASSUME NEW m \in Nat, NEW mm \in Nat, Linked = 0 .. m, Linked' = 0 .. mm,
         nPipes \in Nat, nPipes' \in Nat, nPipes <= nPipes', named => named',
         UNCHANGED inputPort, Inputs,
         \A n \in 0 .. m : /\ info'[n].hInput = info[n].hInput
                           /\ info'[n].fInputIsNamed = info[n].fInputIsNamed
                           /\ n < m => info'[n].hOutput = info[n].hOutput,
         \A n \in 0 .. m : info[n].hInput.n \in Nat,
         mm = m \/ /\ mm = m + 1
                   /\ (FromPipe(mm) \/ FromNamed(mm))'
                   /\ \/ info'[mm].hInput = Handle("pipe", nPipes + 1) /\ nPipes + 1 <= nPipes'
                      \/ info'[mm].hInput = Handle("named", 0) /\ ~named /\ named'
  PROVE  Inputs'
<1>1. \A n \in 0 .. mm : (n = mm /\ mm = m + 1) \/ n \in 0 .. m
  OBVIOUS
<1>2. info'[0].hInput.kind = IF inputPort' THEN "insock" ELSE "stdin"
  BY DEF Inputs
<1>3. ASSUME NEW n \in Linked' \ {0} PROVE (FromPipe(n) \/ FromNamed(n))'
  <2>1. CASE n \in 0 .. m
    <3>1. n - 1 \in 0 .. m /\ n - 1 < m /\ n \in Linked \ {0}
      BY <1>3, <2>1
    <3>2. FromPipe(n) \/ FromNamed(n)
      BY <3>1 DEF Inputs
    <3> QED
      BY <2>1, <3>1, <3>2 DEF FromPipe, FromNamed
  <2>2. CASE n = mm /\ mm = m + 1
    BY <2>2
  <2> QED
    BY <1>1, <2>1, <2>2
<1>4. ASSUME NEW n \in Linked'
      PROVE  /\ info'[n].hInput.kind = "pipe" => info'[n].hInput.n <= nPipes'
             /\ info'[n].hInput.kind = "named" => named'
  <2>1. CASE n \in 0 .. m
    BY <2>1 DEF Inputs
  <2>2. CASE n = mm /\ mm = m + 1
    BY <2>2 DEF Handle
  <2> QED
    BY <1>1, <2>1, <2>2
<1>5. ASSUME NEW n \in 0 .. m, mm = m + 1 PROVE info'[n].hInput # info'[mm].hInput
  <2>1. /\ info[n].hInput.kind = "pipe" => info[n].hInput.n <= nPipes
        /\ info[n].hInput.kind = "named" => named
        /\ info[n].hInput.n \in Nat /\ info'[n].hInput = info[n].hInput
    BY DEF Inputs
  <2>2. CASE info'[mm].hInput = Handle("pipe", nPipes + 1)
    <3>1. info'[mm].hInput.kind = "pipe" /\ info'[mm].hInput.n = nPipes + 1
      BY <2>2 DEF Handle
    <3> QED
      BY <2>1, <3>1
  <2>3. CASE info'[mm].hInput = Handle("named", 0) /\ ~named
    <3>1. info'[mm].hInput.kind = "named"
      BY <2>3 DEF Handle
    <3> QED
      BY <2>1, <2>3, <3>1
  <2> QED
    BY <1>5, <2>2, <2>3
<1>6. ASSUME NEW k \in Linked', NEW l \in Linked', info'[k].hInput = info'[l].hInput
      PROVE  k = l
  <2>1. CASE k \in 0 .. m /\ l \in 0 .. m
    BY <1>6, <2>1 DEF Inputs
  <2>2. CASE k \in 0 .. m /\ l = mm /\ mm = m + 1
    BY <1>5, <1>6, <2>2
  <2>3. CASE l \in 0 .. m /\ k = mm /\ mm = m + 1
    BY <1>5, <1>6, <2>3
  <2>4. CASE k = mm /\ l = mm
    BY <2>4
  <2> QED
    BY <1>1, <2>1, <2>2, <2>3, <2>4
<1> QED
  BY <1>2, <1>3, <1>4, <1>6 DEF Inputs

\* What holds whenever the set-up is in its loop.
LoopState ==
  /\ InLoop /\ Inputs /\ Roles /\ Outputs /\ Order
  /\ \A n \in Index : n >= Entries => Fresh(n)
  /\ i \in Nat /\ numProcesses \in Nat /\ numSteps \in Nat /\ nPipes \in Nat
  /\ \A n \in 0 .. numSteps + 1 : n \in Index
  /\ \A n \in Index : n \in Nat
  /\ info \in [Index -> Stage]
  /\ \A n \in Index : info[n].hInput.n \in Nat

LEMMA LoopFacts ==
  ASSUME SetUpInv, pc \in {"command", "pipe", "output"}
  PROVE  LoopState
<1>1. InLoop
  BY DEF SetUpInv, BoundInv
<1>2. info \in [Index -> Stage]
  BY DEF SetUpInv, TableInv
<1>3. \A n \in Index : info[n].hInput.n \in Nat
  BY <1>2 DEF Stage, Handles
<1> QED
  BY <1>1, <1>2, <1>3, IndexRange DEF SetUpInv, TableInv, LoopState

\* A described entry keeps its role when nothing but its output is written, and
\* that not with the socket.
LEMMA RoleKept ==
  ASSUME NEW n \in Nat, Role(n), pc # "built", UNCHANGED Commands,
         pc' = "built" /\ outputPort' => n # numSteps' - 1,
         info'[n].fIsWorkerThread = info[n].fIsWorkerThread,
         info'[n].fInputIsNamed = info[n].fInputIsNamed,
         info'[n].fOutputIsSocket = info[n].fOutputIsSocket,
         info'[n].command = info[n].command,
         info'[n].hInput = info[n].hInput,
         info'[n].hOutput = info[n].hOutput \/ info'[n].hOutput.kind # "outsock",
         n > 0 => info'[n - 1].command = info[n - 1].command
  PROVE  Role(n)'
  BY DEF Role

\* A command's input is not the socket: that is in the hands of the thread before.
LEMMA CommandInput ==
  ASSUME SetUpInv, pc = "command"
  PROVE  info[numSteps].hInput.kind # "insock"
<1>1. LoopState
  BY LoopFacts
<1>2. Linked = 0 .. numSteps
  BY DEF Linked
<1>3. CASE numSteps = 0
  <2>1. ~inputPort
    BY <1>1, <1>3, Numbers DEF InLoop, SetUpInv, LoopState
  <2> QED
    BY <1>1, <1>3, <2>1 DEF LoopState, Inputs
<1>4. CASE numSteps # 0
  <2>1. numSteps \in Linked \ {0}
    BY <1>1, <1>2, <1>4 DEF LoopState
  <2> QED
    BY <1>1, <2>1 DEF LoopState, Inputs, FromPipe, FromNamed
<1> QED
  BY <1>3, <1>4

LEMMA AddCommandTable == SetUpInv /\ AddCommand => TableInv'
<1> SUFFICES ASSUME SetUpInv, AddCommand PROVE TableInv'
  OBVIOUS
<1> USE DEF LoopState
<1>1. /\ pc = "command" /\ pc' = "pipe"
      /\ UNCHANGED <<i, numSteps, nPipes, named, Commands, inputPort, outputPort>>
      /\ Index' = Index
  BY DEF AddCommand, args, numProcesses, Index
<1>2. LoopState
  BY <1>1, LoopFacts
<1>3. /\ info' \in [Index -> Stage]
      /\ \A n \in Index : n # numSteps => info'[n] = info[n]
      /\ info'[numSteps].hInput = info[numSteps].hInput
      /\ info'[numSteps].hOutput = info[numSteps].hOutput
      /\ info'[numSteps].fIsWorkerThread = info[numSteps].fIsWorkerThread
      /\ info'[numSteps].fInputIsNamed = info[numSteps].fInputIsNamed
      /\ info'[numSteps].fOutputIsSocket = info[numSteps].fOutputIsSocket
      /\ info'[numSteps].command = i + 1
  BY <1>2 DEF AddCommand, Stage
<1>4. /\ Linked = 0 .. numSteps /\ Linked' = 0 .. numSteps
      /\ Entries = numSteps /\ Entries' = numSteps + 1
      /\ Placed = i /\ Placed' = i + 1
  BY <1>1 DEF Linked, Entries, Placed
<1>5. Fresh(numSteps) /\ numSteps \in Index
  BY <1>2, <1>4
<1>6. Inputs'
  <2>1. \A n \in 0 .. numSteps : /\ info'[n].hInput = info[n].hInput
                                 /\ info'[n].fInputIsNamed = info[n].fInputIsNamed
                                 /\ n < numSteps => info'[n].hOutput = info[n].hOutput
    BY <1>2, <1>3
  <2>2. \A n \in 0 .. numSteps : info[n].hInput.n \in Nat
    BY <1>2
  <2> QED
    BY <1>1, <1>2, <1>4, <2>1, <2>2, InputsGrow
<1>7. Roles'
  <2> SUFFICES ASSUME NEW n \in 0 .. numSteps PROVE Role(n)'
    BY <1>1, <1>4, <1>2 DEF Roles, Described
  <2>1. CASE n < numSteps
    <3>1. n \in Described /\ n \in Index /\ n \in Nat /\ info'[n] = info[n]
      BY <1>2, <1>3, <1>4, <2>1 DEF Described
    <3>2. Role(n)
      BY <1>2, <3>1 DEF Roles
    <3>3. n > 0 => info'[n - 1].command = info[n - 1].command
      BY <1>2, <1>3, <2>1
    <3> QED
      BY <1>1, <3>1, <3>2, <3>3, RoleKept
  <2>2. CASE n = numSteps
    BY <1>1, <1>2, <1>3, <1>5, <2>2, CommandInput DEF Role, Fresh
  <2> QED
    BY <1>2, <2>1, <2>2
<1>8. Outputs'
  BY <1>1, <1>2, <1>3, <1>5 DEF Outputs, Fresh
<1>9. Order'
  <2> DEFINE f == CommandOf
             g == CommandOf'
  <2>1. \A n \in 0 .. numSteps - 1 : g[n] = f[n]
    BY <1>1, <1>2, <1>3 DEF CommandOf
  <2>2. g[numSteps] = i + 1
    BY <1>1, <1>3, <1>5 DEF CommandOf
  <2>3. Ordered(f, numSteps, i)
    BY <1>2, <1>4 DEF Order
  <2> HIDE DEF f, g
  <2>4. Ordered(g, numSteps + 1, i + 1)
    BY <1>2, <2>1, <2>2, <2>3, OrderGrows
  <2> QED
    BY <1>4, <2>4 DEF Order, g
<1>10. \A n \in Index' : n >= Entries' => Fresh(n)'
  BY <1>1, <1>2, <1>3, <1>4 DEF Fresh
<1> QED
  BY <1>1, <1>2, <1>3, <1>6, <1>7, <1>8, <1>9, <1>10 DEF TableInv

LEMMA AddNamedCommandTable == SetUpInv /\ AddNamedCommand => TableInv'
<1> SUFFICES ASSUME SetUpInv, AddNamedCommand PROVE TableInv'
  OBVIOUS
<1> USE DEF LoopState
<1>1. /\ pc = "command" /\ pc' = "pipe" /\ numSteps' = numSteps + 1
      /\ ~named /\ named' /\ Commands[i + 1]
      /\ UNCHANGED <<i, nPipes, Commands, inputPort, outputPort>>
      /\ Index' = Index
  BY DEF AddNamedCommand, args, numProcesses, Index
<1>2. LoopState
  BY <1>1, LoopFacts
<1>3. PICK k \in Nat : k = numSteps
  BY <1>2
<1> DEFINE t == k + 1
<1>4. /\ Linked = 0 .. k /\ Linked' = 0 .. t
      /\ Entries = k /\ Entries' = t + 1
      /\ Placed = i /\ Placed' = i + 1
  BY <1>1, <1>3 DEF Linked, Entries, Placed
<1>5. /\ k \in Nat /\ t \in Nat /\ k \in Index /\ t \in Index /\ Fresh(k) /\ Fresh(t)
      /\ t = k + 1 /\ t - 1 = k /\ k # t
  BY <1>2, <1>4, <1>3
<1>6. Handle("stderr", 0) \in Handles /\ Handle("named", 0) \in Handles
      /\ Handle("stderr", 0).kind = "stderr" /\ Handle("named", 0).kind = "named"
  BY DEF Handle, Handles, Kinds
<1>7. info' = [info EXCEPT ![k].command = i + 1,
                           ![k].hOutput = Handle("stderr", 0),
                           ![t].hInput = Handle("named", 0),
                           ![t].fIsWorkerThread = TRUE,
                           ![t].fInputIsNamed = TRUE]
  BY <1>3 DEF AddNamedCommand
<1>8. info \in [Index -> Stage] /\ i + 1 \in Nat
  BY <1>2
<1> HIDE DEF t
<1>9. /\ info' \in [Index -> Stage]
      /\ \A n \in Index : n # k /\ n # t => info'[n] = info[n]
      /\ info'[k].hInput = info[k].hInput
      /\ info'[k].hOutput = Handle("stderr", 0)
      /\ info'[k].fIsWorkerThread = info[k].fIsWorkerThread
      /\ info'[k].fInputIsNamed = info[k].fInputIsNamed
      /\ info'[k].fOutputIsSocket = info[k].fOutputIsSocket
      /\ info'[k].command = i + 1
      /\ info'[t].hInput = Handle("named", 0)
      /\ info'[t].hOutput = info[t].hOutput
      /\ info'[t].fIsWorkerThread = TRUE
      /\ info'[t].fInputIsNamed = TRUE
      /\ info'[t].fOutputIsSocket = info[t].fOutputIsSocket
      /\ info'[t].command = info[t].command
  BY <1>7, <1>8, <1>5, <1>6 DEF Stage
<1>10. Inputs'
  <2>1. \A n \in 0 .. k : /\ info'[n].hInput = info[n].hInput
                          /\ info'[n].fInputIsNamed = info[n].fInputIsNamed
                          /\ n < k => info'[n].hOutput = info[n].hOutput
    BY <1>2, <1>5, <1>9, <1>3
  <2>2. \A n \in 0 .. k : info[n].hInput.n \in Nat
    BY <1>2, <1>3
  <2>3. FromNamed(t)'
    BY <1>5, <1>6, <1>9 DEF FromNamed
  <2>4. nPipes \in Nat /\ nPipes' \in Nat /\ nPipes <= nPipes' /\ Inputs
    BY <1>1, <1>2
  <2>5. info'[t].hInput = Handle("named", 0) /\ ~named /\ named' /\ inputPort' = inputPort
    BY <1>1, <1>9
  <2> QED
    BY <1>4, <1>5, <2>1, <2>2, <2>3, <2>4, <2>5, InputsGrow
<1>11. Roles'
  <2> SUFFICES ASSUME NEW n \in 0 .. t PROVE Role(n)'
    BY <1>4, <1>5 DEF Roles, Described
  <2>1. CASE n < k
    <3>1. n \in Described /\ n \in Index /\ n \in Nat /\ info'[n] = info[n]
      BY <1>2, <1>4, <1>5, <1>9, <2>1, <1>3 DEF Described
    <3>2. Role(n)
      BY <1>2, <3>1 DEF Roles
    <3>3. n > 0 => info'[n - 1].command = info[n - 1].command
      BY <1>2, <1>5, <1>9, <2>1, <1>3
    <3> QED
      BY <1>1, <3>1, <3>2, <3>3, RoleKept
  <2>2. CASE n = k
    BY <1>1, <1>2, <1>5, <1>6, <1>9, <2>2, CommandInput, <1>3 DEF Role, Fresh
  <2>3. CASE n = t
    <3>1. n > 0 /\ n - 1 = k
      BY <1>5, <2>3
    <3> QED
      BY <1>1, <1>2, <1>5, <1>6, <1>9, <2>3, <3>1 DEF Role, Fresh
  <2> QED
    BY <1>5, <2>1, <2>2, <2>3
<1>12. Outputs'
  <2>1. info'[t].hOutput.kind = "null"
    BY <1>5, <1>9 DEF Fresh
  <2>2. ASSUME NEW n \in 0 .. k, info'[n].fIsWorkerThread
        PROVE  info'[n].hOutput.kind \in {"pipe", "stdout", "outsock"}
    BY <1>2, <1>5, <1>9, <2>2, <1>3 DEF Outputs, Fresh
  <2>3. numSteps' = t /\ t - 1 = k
    BY <1>1, <1>5, <1>3
  <2> QED
    BY <1>1, <2>1, <2>2, <2>3 DEF Outputs
<1>13. Order'
  <2> DEFINE f == CommandOf
             g == CommandOf'
  <2>1. \A n \in 0 .. k - 1 : g[n] = f[n]
    BY <1>1, <1>2, <1>5, <1>9, <1>3 DEF CommandOf
  <2>2. g[k] = i + 1 /\ g[t] = 0
    BY <1>1, <1>5, <1>9 DEF CommandOf, Fresh
  <2>3. Ordered(f, k, i)
    BY <1>2, <1>4 DEF Order
  <2> HIDE DEF f, g
  <2>4. Ordered(g, t, i + 1)
    BY <1>2, <1>5, <2>1, <2>2, <2>3, OrderGrows
  <2>5. Ordered(g, t + 1, i + 1)
    <3>1. i + 1 \in Nat /\ \A n \in 0 .. t - 1 : g[n] = g[n]
      BY <1>2
    <3> QED
      BY <1>5, <2>2, <2>4, <3>1, OrderGrows
  <2> QED
    BY <1>4, <2>5 DEF Order, g
<1>14. \A n \in Index' : n >= Entries' => Fresh(n)'
  BY <1>1, <1>2, <1>4, <1>5, <1>9 DEF Fresh
<1> QED
  BY <1>1, <1>2, <1>9, <1>10, <1>11, <1>12, <1>13, <1>14 DEF TableInv

LEMMA ConnectInputTable == SetUpInv /\ ConnectInput => TableInv'
<1> SUFFICES ASSUME SetUpInv, ConnectInput PROVE TableInv'
  OBVIOUS
<1>1. /\ pc = "input" /\ pc' = "command" /\ i = 0 /\ i' = 0 /\ numSteps = 0 /\ nPipes = 0
      /\ UNCHANGED <<Commands, inputPort, outputPort>>
      /\ Index' = Index
  BY DEF SetUpInv, BoundInv, TableInv, ConnectInput, args, numProcesses, Index
<1>2. 0 \in Index /\ 1 \in Index /\ \A n \in Index : n \in Nat
  BY Numbers DEF SetUpInv, Index
<1>3. info = [n \in Index |-> ZeroStage]
  BY <1>1 DEF SetUpInv, TableInv
<1>4. info \in [Index -> Stage]
  BY <1>3, ZeroTable
<1>5. \A n \in Index : Fresh(n)
  BY <1>3 DEF Fresh, ZeroStage, Null, Handle
<1>6. Placed' = 0 /\ Entries' = numSteps' /\ Linked' = 0 .. numSteps'
  BY <1>1 DEF Placed, Entries, Linked
<1>7. CASE inputPort
  <2>1. Handle("pipe", 1) \in Handles /\ Handle("insock", 0) \in Handles
        /\ Handle("pipe", 1).kind = "pipe" /\ Handle("pipe", 1).n = 1
        /\ Handle("insock", 0).kind = "insock"
    BY DEF Handle, Handles, Kinds
  <2>2. /\ info' = WithPipe([info EXCEPT ![0].hInput = Handle("insock", 0),
                                         ![0].fIsWorkerThread = TRUE], 0)
        /\ nPipes' = 1 /\ numSteps' = 1
    BY <1>1, <1>7 DEF ConnectInput
  <2>3. info' = [[info EXCEPT ![0].hInput = Handle("insock", 0), ![0].fIsWorkerThread = TRUE]
                 EXCEPT ![1].hInput = Handle("pipe", 1), ![0].hOutput = Handle("pipe", 1)]
    BY <1>1, <2>2 DEF WithPipe
  <2>4. /\ info' \in [Index -> Stage]
        /\ \A n \in Index : n # 0 /\ n # 1 => info'[n] = info[n]
        /\ info'[0].hInput = Handle("insock", 0) /\ info'[0].hOutput = Handle("pipe", 1)
        /\ info'[0].fIsWorkerThread /\ info'[0].command = info[0].command
        /\ info'[0].fInputIsNamed = info[0].fInputIsNamed
        /\ info'[0].fOutputIsSocket = info[0].fOutputIsSocket
        /\ info'[1].hInput = Handle("pipe", 1) /\ info'[1].hOutput = info[1].hOutput
        /\ info'[1].fIsWorkerThread = info[1].fIsWorkerThread
        /\ info'[1].command = info[1].command
        /\ info'[1].fInputIsNamed = info[1].fInputIsNamed
        /\ info'[1].fOutputIsSocket = info[1].fOutputIsSocket
    BY <1>2, <1>4, <2>1, <2>3 DEF Stage
  <2>5. Linked' = {0, 1} /\ Described' = {0} /\ 0 .. numSteps' - 1 = {0}
    BY <1>6, <2>2 DEF Described
  <2>6. Inputs'
    <3>1. info'[0].hInput.kind = "insock" /\ info'[1].hInput.kind = "pipe"
          /\ info'[1].hInput.n = 1 /\ info'[0].hInput # info'[1].hInput
      BY <2>1, <2>4
    <3>2. FromPipe(1)'
      BY <2>4, <3>1 DEF FromPipe
    <3>3. \A n \in Linked' \ {0} : n = 1
      BY <2>5
    <3>4. \A k, l \in Linked' : info'[k].hInput = info'[l].hInput => k = l
      BY <2>5, <3>1
    <3>5. \A n \in Linked' : /\ info'[n].hInput.kind = "pipe" => info'[n].hInput.n <= nPipes'
                             /\ info'[n].hInput.kind = "named" => named'
      BY <2>2, <2>5, <3>1
    <3> QED
      BY <1>1, <1>7, <3>1, <3>2, <3>3, <3>4, <3>5 DEF Inputs
  <2>7. Roles'
    <3>1. Role(0)'
      BY <1>1, <1>2, <1>5, <2>1, <2>4 DEF Role, Fresh
    <3> QED
      BY <2>5, <3>1 DEF Roles
  <2>8. Outputs'
    BY <1>1, <2>1, <2>4, <2>5 DEF Outputs
  <2>9. Order'
    <3>1. CommandOf'[0] = 0
      BY <1>1, <1>2, <1>5, <2>4 DEF CommandOf, Fresh
    <3> HIDE DEF CommandOf
    <3>2. Ordered(CommandOf, 1, 0)'
      BY <3>1 DEF Ordered
    <3> QED
      BY <1>6, <2>2, <3>2 DEF Order
  <2>10. \A n \in Index' : n >= Entries' => Fresh(n)'
    <3> SUFFICES ASSUME NEW n \in Index, n >= 1 PROVE Fresh(n)'
      BY <1>1, <1>6, <2>2
    <3>1. CASE n = 1
      BY <1>2, <1>5, <2>4, <3>1 DEF Fresh
    <3>2. CASE n # 1
      <4>1. n # 0 /\ info'[n] = info[n]
        BY <1>2, <2>4, <3>2
      <4> QED
        BY <1>5, <4>1 DEF Fresh
    <3> QED
      BY <3>1, <3>2
  <2> QED
    BY <1>1, <2>2, <2>4, <2>6, <2>7, <2>8, <2>9, <2>10 DEF TableInv
<1>8. CASE ~inputPort
  <2>1. Handle("stdin", 0) \in Handles /\ Handle("stdin", 0).kind = "stdin"
    BY DEF Handle, Handles, Kinds
  <2>2. /\ info' = [info EXCEPT ![0].hInput = Handle("stdin", 0)]
        /\ nPipes' = 0 /\ numSteps' = 0
    BY <1>1, <1>8 DEF ConnectInput
  <2>3. /\ info' \in [Index -> Stage]
        /\ \A n \in Index : n # 0 => info'[n] = info[n]
        /\ info'[0].hInput = Handle("stdin", 0) /\ info'[0].hOutput = info[0].hOutput
        /\ info'[0].fIsWorkerThread = info[0].fIsWorkerThread
        /\ info'[0].command = info[0].command
        /\ info'[0].fInputIsNamed = info[0].fInputIsNamed
        /\ info'[0].fOutputIsSocket = info[0].fOutputIsSocket
    BY <1>2, <1>4, <2>1, <2>2 DEF Stage
  <2>4. Linked' = {0} /\ Described' = {} /\ 0 .. numSteps' - 1 = {}
    BY <1>6, <2>2 DEF Described
  <2>5. Inputs'
    BY <1>1, <1>8, <2>1, <2>2, <2>3, <2>4 DEF Inputs
  <2>6. Roles' /\ Outputs'
    BY <1>1, <2>4 DEF Roles, Outputs
  <2>7. Order'
    <3> HIDE DEF CommandOf
    <3>1. Ordered(CommandOf, 0, 0)'
      BY DEF Ordered
    <3> QED
      BY <1>6, <2>2, <3>1 DEF Order
  <2>8. \A n \in Index' : Fresh(n)'
    <3> SUFFICES ASSUME NEW n \in Index PROVE Fresh(n)'
      BY <1>1
    <3>1. CASE n = 0
      BY <1>2, <1>5, <2>3, <3>1 DEF Fresh
    <3>2. CASE n # 0
      <4>1. info'[n] = info[n]
        BY <2>3, <3>2
      <4> QED
        BY <1>5, <4>1 DEF Fresh
    <3> QED
      BY <3>1, <3>2
  <2> QED
    BY <1>1, <2>2, <2>3, <2>5, <2>6, <2>7, <2>8 DEF TableInv
<1> QED
  BY <1>7, <1>8

LEMMA ConnectNextTable == SetUpInv /\ ConnectNext => TableInv'
<1> SUFFICES ASSUME SetUpInv, ConnectNext PROVE TableInv'
  OBVIOUS
<1> USE DEF LoopState
<1>1. /\ pc = "pipe" /\ pc' = "output"
      /\ UNCHANGED <<i, numSteps, named, Commands, inputPort, outputPort>>
      /\ Index' = Index /\ IsLast' = IsLast
  BY DEF ConnectNext, args, numProcesses, Index, IsLast
<1>2. LoopState
  BY <1>1, LoopFacts
<1>3. PICK k \in Nat : k = numSteps
  BY <1>2
<1> DEFINE t == k + 1
<1>4. /\ Linked = 0 .. k /\ Entries = t /\ Entries' = t
      /\ Linked' = 0 .. (IF ~IsLast \/ outputPort THEN t ELSE k)
      /\ Placed = i + 1 /\ Placed' = i + 1
      /\ Described = 0 .. k /\ Described' = 0 .. k
  BY <1>1, <1>3 DEF Linked, Entries, Placed, Described
<1>5. /\ k \in Nat /\ t \in Nat /\ k \in Index /\ t \in Index
      /\ t = k + 1 /\ t - 1 = k /\ k # t /\ nPipes \in Nat
      /\ \A n \in 0 .. k : n \in Index /\ n \in Nat /\ info[n].hInput.n \in Nat
  BY <1>2, <1>3
<1> HIDE DEF t
<1>6. /\ info[k].hOutput.kind = "null"
      /\ \A n \in 0 .. k - 1 :
           info[n].fIsWorkerThread => info[n].hOutput.kind \in {"pipe", "stdout", "outsock"}
  BY <1>1, <1>2, <1>3 DEF Outputs
<1>7. CASE ~IsLast \/ outputPort
  <2> DEFINE p == Handle("pipe", nPipes + 1)
  <2>1. p \in Handles /\ p.kind = "pipe"
    BY <1>5 DEF Handle, Handles, Kinds
  <2>2. nPipes' = nPipes + 1 /\ info' = [info EXCEPT ![t].hInput = p, ![k].hOutput = p]
    BY <1>3, <1>7 DEF ConnectNext, WithPipe, t
  <2> HIDE DEF p
  <2>3. /\ info' \in [Index -> Stage]
        /\ \A n \in Index : n # k /\ n # t => info'[n] = info[n]
        /\ info'[k].hInput = info[k].hInput /\ info'[k].hOutput = p
        /\ info'[t].hInput = p /\ info'[t].hOutput = info[t].hOutput
        /\ \A n \in Index : /\ info'[n].fIsWorkerThread = info[n].fIsWorkerThread
                            /\ info'[n].fInputIsNamed = info[n].fInputIsNamed
                            /\ info'[n].fOutputIsSocket = info[n].fOutputIsSocket
                            /\ info'[n].command = info[n].command
    BY <1>2, <1>5, <2>1, <2>2 DEF Stage
  <2>4. Inputs'
    <3>1. \A n \in 0 .. k : /\ info'[n].hInput = info[n].hInput
                            /\ info'[n].fInputIsNamed = info[n].fInputIsNamed
                            /\ n < k => info'[n].hOutput = info[n].hOutput
      BY <1>5, <2>3
    <3>2. FromPipe(t)'
      BY <1>5, <2>1, <2>3 DEF FromPipe
    <3>3. nPipes' \in Nat /\ nPipes <= nPipes' /\ nPipes + 1 <= nPipes' /\ Inputs
          /\ named' = named /\ inputPort' = inputPort
      BY <1>1, <1>2, <1>5, <2>2
    <3>4. info'[t].hInput = Handle("pipe", nPipes + 1) /\ Linked' = 0 .. t
      BY <1>4, <1>7, <2>3 DEF p
    <3> QED
      BY <1>4, <1>5, <3>1, <3>2, <3>3, <3>4, InputsGrow
  <2>5. Roles'
    <3> SUFFICES ASSUME NEW n \in 0 .. k PROVE Role(n)'
      BY <1>4 DEF Roles
    <3>1. /\ n \in Described /\ n \in Nat /\ Role(n)
          /\ n > 0 => n - 1 \in Index
      BY <1>2, <1>4, <1>5 DEF Roles
    <3>2. info'[n].hInput = info[n].hInput
          /\ (info'[n].hOutput = info[n].hOutput \/ info'[n].hOutput.kind # "outsock")
      BY <1>5, <2>1, <2>3
    <3> QED
      BY <1>1, <1>5, <2>3, <3>1, <3>2, RoleKept
  <2>6. Outputs'
    <3>1. ASSUME NEW n \in 0 .. k - 1, info'[n].fIsWorkerThread
          PROVE  info'[n].hOutput.kind \in {"pipe", "stdout", "outsock"}
      BY <1>5, <1>6, <2>3, <3>1
    <3> QED
      BY <1>1, <1>3, <1>7, <2>1, <2>3, <3>1 DEF Outputs
  <2>7. Order'
    <3>1. CommandOf' = CommandOf
      BY <1>1, <2>3 DEF CommandOf
    <3> QED
      BY <1>2, <1>4, <3>1 DEF Order
  <2>8. \A n \in Index' : n >= Entries' => Fresh(n)'
    <3> SUFFICES ASSUME NEW n \in Index, n >= t PROVE Fresh(n)'
      BY <1>1, <1>4
    <3>1. Fresh(n) /\ n # k
      BY <1>2, <1>4, <1>5
    <3>2. info'[n].hOutput = info[n].hOutput
      BY <1>5, <2>3, <3>1
    <3> QED
      BY <2>3, <3>1, <3>2 DEF Fresh
  <2> QED
    BY <1>1, <1>5, <2>2, <2>3, <2>4, <2>5, <2>6, <2>7, <2>8 DEF TableInv
<1>8. CASE ~(~IsLast \/ outputPort)
  <2>1. info' = info /\ nPipes' = nPipes /\ Linked' = 0 .. k
    BY <1>4, <1>8 DEF ConnectNext
  <2>2. Inputs'
    BY <1>1, <1>2, <1>4, <1>5, <2>1, InputsGrow
  <2>3. Roles'
    BY <1>1, <1>2, <1>4, <2>1 DEF Roles, Role
  <2>4. Outputs'
    BY <1>1, <1>3, <1>6, <1>8, <2>1 DEF Outputs
  <2>5. Order'
    <3>1. CommandOf' = CommandOf
      BY <1>1, <2>1 DEF CommandOf
    <3> QED
      BY <1>2, <1>4, <3>1 DEF Order
  <2>6. \A n \in Index' : n >= Entries' => Fresh(n)'
    BY <1>1, <1>2, <1>4, <2>1 DEF Fresh
  <2> QED
    BY <1>1, <1>2, <2>1, <2>2, <2>3, <2>4, <2>5, <2>6 DEF TableInv
<1> QED
  BY <1>7, <1>8

LEMMA ConnectOutputTable == SetUpInv /\ ConnectOutput => TableInv'
<1> SUFFICES ASSUME SetUpInv, ConnectOutput PROVE TableInv'
  OBVIOUS
<1> USE DEF LoopState
<1>1. /\ pc = "output" /\ i' = i + 1
      /\ UNCHANGED <<nPipes, named, Commands, inputPort, outputPort>>
      /\ Index' = Index /\ numProcesses' = numProcesses
  BY DEF ConnectOutput, args, numProcesses, Index
<1>2. LoopState
  BY <1>1, LoopFacts
<1>3. PICK k \in Nat : k = numSteps
  BY <1>2
<1> DEFINE t == k + 1
<1>4. /\ Linked = 0 .. (IF ~IsLast \/ outputPort THEN t ELSE k)
      /\ Entries = t /\ Placed = i + 1 /\ Placed' = i + 1
      /\ Described = 0 .. k
  BY <1>1, <1>2, <1>3 DEF Linked, Entries, Placed, Described, ConnectOutput
<1>5. /\ k \in Nat /\ t \in Nat /\ k \in Index /\ t \in Index
      /\ t = k + 1 /\ t - 1 = k /\ k # t /\ nPipes \in Nat
      /\ \A n \in 0 .. t : n \in Index /\ n \in Nat /\ info[n].hInput.n \in Nat
  BY <1>2, <1>3
<1> HIDE DEF t
<1>6. /\ info[k].hOutput.kind = IF IsLast /\ ~outputPort THEN "null" ELSE "pipe"
      /\ \A n \in 0 .. k - 1 :
           info[n].fIsWorkerThread => info[n].hOutput.kind \in {"pipe", "stdout", "outsock"}
  BY <1>1, <1>2, <1>3 DEF Outputs
<1>7. IsLast => i' = numProcesses' /\ pc' = "built"
  BY <1>1, <1>2 DEF IsLast, ConnectOutput
<1>8. Linked = 0 .. k => \A n \in 0 .. k : n # k => n < k
  BY <1>5
<1>9. CASE IsLast /\ outputPort
  <2> DEFINE h == Handle("outsock", 0)
  <2>1. h \in Handles /\ h.kind = "outsock"
    BY DEF Handle, Handles, Kinds
  <2>2. /\ info' = [info EXCEPT ![t].fIsWorkerThread = TRUE,
                                ![t].fOutputIsSocket = TRUE, ![t].hOutput = h]
        /\ numSteps' = t + 1
    BY <1>3, <1>9 DEF ConnectOutput, t
  <2> HIDE DEF h
  <2>3. /\ info' \in [Index -> Stage]
        /\ \A n \in Index : n # t => info'[n] = info[n]
        /\ info'[t].hInput = info[t].hInput /\ info'[t].hOutput = h
        /\ info'[t].fIsWorkerThread /\ info'[t].fOutputIsSocket
        /\ info'[t].fInputIsNamed = info[t].fInputIsNamed
        /\ info'[t].command = info[t].command
    BY <1>2, <1>5, <2>1, <2>2 DEF Stage
  <2>4. pc' = "built" /\ Linked' = 0 .. t /\ Linked = 0 .. t /\ Entries' = t + 1
        /\ Described' = 0 .. t /\ numSteps' - 1 = t /\ Fresh(t)
    BY <1>2, <1>4, <1>5, <1>7, <1>9, <2>2 DEF Linked, Entries, Described
  <2>5. Inputs'
    <3>1. \A n \in 0 .. t : /\ info'[n].hInput = info[n].hInput
                            /\ info'[n].fInputIsNamed = info[n].fInputIsNamed
                            /\ n < t => info'[n].hOutput = info[n].hOutput
      BY <1>5, <2>3
    <3>2. nPipes' \in Nat /\ nPipes <= nPipes' /\ Inputs /\ named' = named /\ inputPort' = inputPort
      BY <1>1, <1>2, <1>5
    <3> QED
      BY <1>5, <2>4, <3>1, <3>2, InputsGrow
  <2>6. Roles'
    <3> SUFFICES ASSUME NEW n \in 0 .. t PROVE Role(n)'
      BY <2>4 DEF Roles
    <3>1. CASE n \in 0 .. k
      <4>1. /\ n \in Described /\ n \in Nat /\ Role(n) /\ info'[n] = info[n]
            /\ n > 0 => info'[n - 1] = info[n - 1]
            /\ n # numSteps' - 1
        BY <1>2, <1>4, <1>5, <2>3, <2>4, <3>1 DEF Roles
      <4> QED
        BY <1>1, <4>1, RoleKept
    <3>2. CASE n = t
      BY <1>1, <1>5, <1>9, <2>1, <2>3, <2>4, <3>2 DEF Role, Fresh
    <3> QED
      BY <1>5, <3>1, <3>2
  <2>7. Outputs'
    <3>1. ASSUME NEW n \in 0 .. t, info'[n].fIsWorkerThread
          PROVE  info'[n].hOutput.kind \in {"pipe", "stdout", "outsock"}
      <4>1. CASE n = t
        BY <2>1, <2>3, <4>1
      <4>2. CASE n = k
        BY <1>5, <1>6, <1>9, <2>3, <4>2
      <4>3. CASE n \in 0 .. k - 1
        BY <1>5, <1>6, <2>3, <3>1, <4>3
      <4> QED
        BY <1>5, <4>1, <4>2, <4>3
    <3> QED
      BY <1>1, <1>9, <2>1, <2>3, <2>4, <3>1 DEF Outputs
  <2>8. Order'
    <3> DEFINE f == CommandOf
               g == CommandOf'
    <3>1. \A n \in 0 .. t - 1 : g[n] = f[n]
      BY <1>1, <1>5, <2>3 DEF CommandOf
    <3>2. g[t] = 0
      BY <1>1, <1>5, <2>3, <2>4 DEF CommandOf, Fresh
    <3>3. Ordered(f, t, i + 1) /\ i + 1 \in Nat
      BY <1>2, <1>4 DEF Order
    <3> HIDE DEF f, g
    <3>4. Ordered(g, t + 1, i + 1)
      BY <1>5, <3>1, <3>2, <3>3, OrderGrows
    <3> QED
      BY <1>4, <2>4, <3>4 DEF Order, g
  <2>9. \A n \in Index' : n >= Entries' => Fresh(n)'
    <3> SUFFICES ASSUME NEW n \in Index, n >= t + 1 PROVE Fresh(n)'
      BY <1>1, <2>4
    <3>1. n \in Nat
      BY <1>2
    <3>2. n # t /\ n >= t
      BY <1>5, <3>1
    <3>3. Fresh(n)
      BY <1>2, <1>4, <3>2
    <3> QED
      BY <2>3, <3>2, <3>3 DEF Fresh
  <2>10. numSteps' > 0 /\ numSteps' - 1 \in Index'
    BY <1>1, <1>5, <2>2, <2>4
  <2> QED
    BY <1>1, <1>5, <1>7, <1>9, <2>3, <2>4, <2>5, <2>6, <2>7, <2>8, <2>9, <2>10 DEF TableInv
<1>10. CASE ~(IsLast /\ outputPort)
  <2>1. /\ numSteps' = t
        /\ pc' = IF IsLast THEN "built" ELSE "command"
        /\ Linked' = Linked /\ Entries' = t /\ Described' = 0 .. k
        /\ Linked = 0 .. (IF IsLast THEN k ELSE t)
    BY <1>3, <1>4, <1>5, <1>10 DEF ConnectOutput, Linked, Entries, Described, t
  <2> DEFINE h == Handle("stdout", 0)
  <2>2. h \in Handles /\ h.kind = "stdout"
    BY DEF Handle, Handles, Kinds
  <2>3. info' = IF IsLast THEN [info EXCEPT ![k].hOutput = h] ELSE info
    BY <1>3, <1>10 DEF ConnectOutput
  <2> HIDE DEF h
  <2>4. /\ info' \in [Index -> Stage]
        /\ \A n \in Index : n # k => info'[n] = info[n]
        /\ info'[k].hOutput = IF IsLast THEN h ELSE info[k].hOutput
        /\ \A n \in Index : /\ info'[n].hInput = info[n].hInput
                            /\ info'[n].fIsWorkerThread = info[n].fIsWorkerThread
                            /\ info'[n].fInputIsNamed = info[n].fInputIsNamed
                            /\ info'[n].fOutputIsSocket = info[n].fOutputIsSocket
                            /\ info'[n].command = info[n].command
    BY <1>2, <1>5, <2>2, <2>3 DEF Stage
  <2>5. Inputs'
    <3> DEFINE last == IF IsLast THEN k ELSE t
    <3>6. last \in {k, t} /\ Linked = 0 .. last /\ (last = t => ~IsLast)
      BY <1>5, <2>1
    <3> HIDE DEF last
    <3>1. PICK m \in {k, t} : Linked = 0 .. m /\ (m = t => ~IsLast)
      BY <3>6
    <3>2. \A n \in 0 .. m : /\ info'[n].hInput = info[n].hInput
                            /\ info'[n].fInputIsNamed = info[n].fInputIsNamed
                            /\ n < m => info'[n].hOutput = info[n].hOutput
      BY <1>5, <2>4, <3>1
    <3>3. \A n \in 0 .. m : info[n].hInput.n \in Nat
      BY <1>5, <3>1
    <3>4. nPipes' \in Nat /\ nPipes <= nPipes' /\ Inputs /\ named' = named /\ inputPort' = inputPort
      BY <1>1, <1>2, <1>5
    <3>5. m \in Nat /\ Linked' = 0 .. m
      BY <1>5, <2>1, <3>1
    <3> QED
      BY <1>5, <3>1, <3>2, <3>3, <3>4, <3>5, InputsGrow
  <2>6. Roles'
    <3> SUFFICES ASSUME NEW n \in 0 .. k PROVE Role(n)'
      BY <2>1 DEF Roles
    <3>1. /\ n \in Described /\ n \in Nat /\ n \in Index /\ Role(n)
          /\ n > 0 => n - 1 \in Index
      BY <1>2, <1>4, <1>5 DEF Roles
    <3>2. info'[n].hOutput = info[n].hOutput \/ info'[n].hOutput.kind # "outsock"
      BY <2>2, <2>4, <3>1
    <3>3. ~(pc' = "built" /\ outputPort')
      BY <1>1, <1>10, <2>1
    <3> QED
      BY <1>1, <2>4, <3>1, <3>2, <3>3, RoleKept
  <2>7. Outputs'
    <3>1. ASSUME NEW n \in 0 .. k, info'[n].fIsWorkerThread
          PROVE  info'[n].hOutput.kind \in {"pipe", "stdout", "outsock"}
      <4>1. CASE n = k
        BY <1>6, <1>10, <2>2, <2>4, <4>1
      <4>2. CASE n \in 0 .. k - 1
        BY <1>5, <1>6, <2>4, <3>1, <4>2
      <4> QED
        BY <1>5, <4>1, <4>2
    <3>2. numSteps' - 1 = k /\ pc' # "pipe" /\ pc' # "output"
      BY <1>5, <2>1
    <3>3. pc' = "built" => ~outputPort' /\ info'[k].hOutput.kind = "stdout"
      BY <1>1, <1>10, <2>1, <2>2, <2>4
    <3> QED
      BY <3>1, <3>2, <3>3 DEF Outputs
  <2>8. Order'
    <3>1. CommandOf' = CommandOf
      BY <1>1, <2>4 DEF CommandOf
    <3> QED
      BY <1>2, <1>4, <2>1, <3>1 DEF Order
  <2>9. \A n \in Index' : n >= Entries' => Fresh(n)'
    <3> SUFFICES ASSUME NEW n \in Index, n >= t PROVE Fresh(n)'
      BY <1>1, <2>1
    <3>1. n # k /\ Fresh(n)
      BY <1>2, <1>4, <1>5
    <3> QED
      BY <2>4, <3>1 DEF Fresh
  <2>10. pc' = "built" => i' = numProcesses' /\ numSteps' > 0 /\ numSteps' - 1 \in Index'
    BY <1>1, <1>5, <1>7, <2>1
  <2>11. pc' # "input"
    BY <2>1
  <2> QED
    BY <1>1, <1>5, <2>4, <2>5, <2>6, <2>7, <2>8, <2>9, <2>10, <2>11 DEF TableInv
<1> QED
  BY <1>9, <1>10

LEMMA SetUpInit == Init => SetUpInv
<1>1. Init => BoundInv
  BY BoundInit
<1>2. Init => TableInv
  BY DEF Init, TableInv
<1> QED
  BY <1>1, <1>2 DEF SetUpInv

LEMMA SetUpNext == SetUpInv /\ [Next]_vars => SetUpInv'
<1> SUFFICES ASSUME SetUpInv, [Next]_vars PROVE SetUpInv'
  OBVIOUS
<1>1. BoundInv'
  BY BoundNext DEF SetUpInv
<1>2. TableInv'
  <2>1. CASE \/ ConnectInputFails \/ AddCommandFails \/ AddNamedCommandFails
             \/ ConnectNextFails \/ ConnectOutputFails
    <3>1. pc' = "tidy"
      BY <2>1 DEF ConnectInputFails, AddCommandFails, AddNamedCommandFails,
                  ConnectNextFails, ConnectOutputFails, GotoTidy
    <3> QED
      BY <3>1 DEF TableInv
  <2>2. CASE Done \/ UNCHANGED vars
    <3>1. UNCHANGED vars
      BY <2>2 DEF Done
    <3> QED
      BY <3>1 DEF SetUpInv, TableInv, vars, args, numProcesses, Index, Entries, Linked, Described,
                  Placed, IsLast, Fresh, FromPipe, FromNamed, Inputs, Role, Roles, Outputs,
                  CommandOf, Order
  <2> QED
    BY <2>1, <2>2, ConnectInputTable, AddCommandTable, AddNamedCommandTable,
       ConnectNextTable, ConnectOutputTable
    DEF Next
<1> QED
  BY <1>1, <1>2 DEF SetUpInv

LEMMA SetUpShows == SetUpInv => Chained /\ Runnable /\ CommandsInOrder
<1> SUFFICES ASSUME SetUpInv, Built PROVE Chained /\ Runnable /\ CommandsInOrder
  BY DEF Chained, Runnable, CommandsInOrder
<1>1. /\ pc = "built" /\ i = numProcesses /\ i \in Nat /\ numSteps \in Nat /\ numSteps > 0
      /\ numSteps - 1 \in Index /\ info \in [Index -> Stage]
      /\ Inputs /\ Roles /\ Outputs /\ Order
  BY DEF Built, SetUpInv, BoundInv, TableInv
<1>2. Table = 0 .. numSteps - 1 /\ Linked = Table /\ Described = Table /\ Entries = numSteps
      /\ Placed = numProcesses
  BY <1>1 DEF Table, Linked, Described, Entries, Placed
<1>3. /\ \A n \in Table : n \in Nat /\ n \in Index
      /\ \A n \in Table \ {0} : n - 1 \in Table
  BY <1>1, <1>2 DEF Index
<1>4. Chained
  <2>1. info[0].hInput.kind = IF inputPort THEN "insock" ELSE "stdin"
    BY <1>1 DEF Inputs
  <2>2. info[numSteps - 1].hOutput.kind = IF outputPort THEN "outsock" ELSE "stdout"
    BY <1>1 DEF Outputs
  <2>3. ASSUME NEW k \in Table \ {0}
        PROVE  \/ /\ info[k].hInput = info[k - 1].hOutput
                  /\ info[k].hInput.kind = "pipe"
               \/ /\ info[k].hInput.kind = "named" /\ info[k].fInputIsNamed
                  /\ info[k - 1].hOutput.kind = "stderr"
    BY <1>1, <1>2 DEF Inputs, FromPipe, FromNamed
  <2>4. \A k, l \in Table : info[k].hInput = info[l].hInput => k = l
    BY <1>1, <1>2 DEF Inputs
  <2> QED
    BY <2>1, <2>2, <2>3, <2>4 DEF Chained
<1>5. Runnable
  <2> SUFFICES ASSUME NEW k \in Table
               PROVE  /\ info[k].fIsWorkerThread <=> info[k].command = 0
                      /\ {info[k].hInput.kind, info[k].hOutput.kind} \cap {"insock", "outsock"} # {}
                           => info[k].fIsWorkerThread
                      /\ info[k].fOutputIsSocket <=> (outputPort /\ k = numSteps - 1)
                      /\ info[k].fInputIsNamed => k > 0 /\ Commands[info[k - 1].command]
                      /\ info[k].fIsWorkerThread => info[k].hOutput.kind \in {"pipe", "stdout", "outsock"}
    BY DEF Runnable
  <2>1. Role(k)
    BY <1>1, <1>2 DEF Roles
  <2>2. info[k].hInput.kind # "outsock"
    <3>1. CASE k = 0
      BY <1>1, <3>1 DEF Inputs
    <3>2. CASE k # 0
      BY <1>1, <1>2, <3>2 DEF Inputs, FromPipe, FromNamed
    <3> QED
      BY <3>1, <3>2
  <2>3. info[k].fIsWorkerThread => info[k].hOutput.kind \in {"pipe", "stdout", "outsock"}
    BY <1>1, <1>2 DEF Outputs
  <2> QED
    BY <1>1, <2>1, <2>2, <2>3 DEF Role
<1>6. CommandsInOrder
  <2>1. \A n \in Table : CommandOf[n] = info[n].command
    BY <1>3 DEF CommandOf
  <2>2. /\ \A n \in Table : info[n].command \in 0 .. numProcesses
        /\ \A j \in 1 .. numProcesses : \E n \in Table : info[n].command = j
        /\ \A k, l \in Table : k < l /\ info[l].command # 0 => info[k].command < info[l].command
    <3> HIDE DEF CommandOf, Table
    <3>1. Ordered(CommandOf, numSteps, numProcesses)
      BY <1>1, <1>2 DEF Order
    <3> QED
      BY <1>2, <2>1, <3>1 DEF Ordered
  <2>3. numProcesses \in Nat
    BY <1>1
  <2>4. {info[k].command : k \in Table} \ {0} = 1 .. numProcesses
    BY <2>2, <2>3
  <2> QED
    BY <2>2, <2>4 DEF CommandsInOrder
<1> QED
  BY <1>4, <1>5, <1>6

LEMMA SetUpAlways == Spec => []SetUpInv
  BY SetUpInit, SetUpNext, PTL DEF Spec

\* The stages of a table that the set-up completes form one chain from the input
\* to the output, for every number of commands, wherever their #PIPE#s are.
THEOREM ChainedCorrect == Spec => []Chained
  BY SetUpAlways, SetUpShows, PTL

\* Each of them is one that the pumps and the taps can run.
THEOREM RunnableCorrect == Spec => []Runnable
  BY SetUpAlways, SetUpShows, PTL

\* Each command of the line has one of them, in the order of the line.
THEOREM CommandsInOrderCorrect == Spec => []CommandsInOrder
  BY SetUpAlways, SetUpShows, PTL

-----------------------------------------------------------------------------
(* The whole of main up to the table: what getopt and strtok hand over is what *)
(* the set-up begins with, and it does not begin without a command.            *)

Before == {"options", "winsock", "count", "usage"}
SettingUp == {"input", "command", "pipe", "output", "built", "tidy"}

MainInv ==
  /\ OptInv
  /\ inputPort \in BOOLEAN /\ outputPort \in BOOLEAN
  /\ Commands \in Seq(BOOLEAN) /\ cuts \in Nat
  /\ pc \in Before \cup SettingUp \cup {"empty"}
  /\ pc \in Before => i = 0 /\ numSteps = 0 /\ nPipes = 0 /\ top = 0 /\ ~named /\ named \in BOOLEAN
  /\ pc \in SettingUp /\ numProcesses > 0 => SetUpInv
  /\ numProcesses = 0 => /\ pc \in Before \cup {"input", "command", "tidy", "empty"}
                         /\ top \in 0 .. 1
                         /\ pc = "input" => numSteps = 0 /\ top = 0
  /\ numProcesses > 0 => pc \in SettingUp

LEMMA MainInitInv == MainInit => MainInv
<1> SUFFICES ASSUME MainInit PROVE MainInv
  OBVIOUS
<1>1. OptInv
  BY OptInitInv DEF MainInit
<1>2. /\ Commands = <<>> /\ numProcesses = 0 /\ inputPort = FALSE /\ outputPort = FALSE
      /\ cuts = 0 /\ pc = "options" /\ i = 0 /\ numSteps = 0 /\ nPipes = 0 /\ top = 0 /\ named = FALSE
  BY DEF MainInit, numProcesses
<1>3. Commands \in Seq(BOOLEAN)
  BY <1>2
<1>4. pc \in Before /\ pc \notin SettingUp
  BY <1>2 DEF Before, SettingUp
<1>5. inputPort \in BOOLEAN /\ outputPort \in BOOLEAN
  BY <1>2, Zenon
<1>6. ~named /\ named \in BOOLEAN
  BY <1>2, Zenon
<1>7. cuts \in Nat
  BY <1>2
<1>8. top \in 0 .. 1
  BY <1>2
<1>9. ~(numProcesses > 0)
  BY <1>2
<1> QED
  BY <1>1, <1>2, <1>3, <1>4, <1>5, <1>6, <1>7, <1>8, <1>9 DEF MainInv

\* What a step of the options leaves alone.
LEMMA OptionInv == MainInv /\ (Option \/ Winsock) => MainInv'
<1> SUFFICES ASSUME MainInv, Option \/ Winsock PROVE MainInv'
  OBVIOUS
<1>1. /\ pc \in {"options", "winsock"} /\ pc' \in Before
      /\ UNCHANGED <<Commands, i, numSteps, nPipes, named, top, cuts>>
  BY DEF Option, Winsock, Before, setupVars, lineVars, args
<1>2. OptInv'
  <2>1. [getopt]_optVars
    BY DEF Option, Winsock
  <2> QED
    BY <2>1, OptNextInv DEF MainInv
<1>3. inputPort' \in BOOLEAN /\ outputPort' \in BOOLEAN
  <2>1. CASE Option
    <3>1. /\ inputPort' = IF c' = "i" THEN IsPort(optarg') ELSE inputPort
          /\ outputPort' = IF c' = "o" THEN IsPort(optarg') ELSE outputPort
      BY <2>1 DEF Option
    <3>2. IsPort(optarg') \in BOOLEAN /\ inputPort \in BOOLEAN /\ outputPort \in BOOLEAN
      BY DEF IsPort, MainInv
    <3> QED
      BY <3>1, <3>2, Zenon
  <2>2. CASE Winsock
    BY <2>2 DEF Winsock, args, MainInv
  <2> QED
    BY <2>1, <2>2
<1>4. numProcesses = 0 /\ numProcesses' = 0 /\ pc \in Before
  <2>1. numProcesses \in Nat
    BY DEF MainInv, numProcesses
  <2>2. pc \in Before /\ pc \notin SettingUp
    BY <1>1 DEF Before, SettingUp
  <2> QED
    BY <1>1, <2>1, <2>2 DEF MainInv, numProcesses
<1>5. pc' \notin SettingUp /\ pc' # "input"
  BY <1>1 DEF Before, SettingUp
<1> QED
  BY <1>1, <1>2, <1>3, <1>4, <1>5 DEF MainInv

\* strtok has cut the last command: the table is empty, and so is what is written.
LEMMA StrtokInv == MainInv /\ Strtok => MainInv'
<1> SUFFICES ASSUME MainInv, Strtok PROVE MainInv'
  OBVIOUS
<1>1. /\ pc = "count" /\ UNCHANGED <<inputPort, outputPort, i, numSteps, nPipes, named, top>>
      /\ UNCHANGED optVars
  BY DEF Strtok
<1>2. OptInv'
  BY <1>1, OptNextInv DEF MainInv
<1>3. /\ pc \in Before /\ inputPort' \in BOOLEAN /\ outputPort' \in BOOLEAN
      /\ i' = 0 /\ numSteps' = 0 /\ nPipes' = 0 /\ top' = 0 /\ ~named' /\ named' \in BOOLEAN
      /\ cuts \in Nat /\ Commands \in Seq(BOOLEAN)
  BY <1>1 DEF MainInv, Before
<1>4. numProcesses = 0
  <2>1. numProcesses \in Nat /\ pc \notin SettingUp
    BY <1>1, <1>3 DEF numProcesses, SettingUp
  <2> QED
    BY <2>1 DEF MainInv
<1>5. CASE UNCHANGED <<Commands, pc>> /\ cuts' = cuts + 1
  <2>1. numProcesses' = 0 /\ pc' = "count" /\ cuts' \in Nat
    BY <1>1, <1>3, <1>4, <1>5 DEF numProcesses
  <2> QED
    BY <1>2, <1>3, <1>5, <2>1 DEF MainInv, Before, SettingUp
<1>6. CASE /\ Commands' = [n \in 1 .. cuts |-> \E k \in DOMAIN Text(n) : Text(n)[k] = "#"]
           /\ info' = [n \in Index' |-> ZeroStage]
           /\ pc' = "input" /\ cuts' = cuts
  <2>1. Commands' \in Seq(BOOLEAN) /\ numProcesses' = cuts
    <3> DEFINE f(n) == \E k \in DOMAIN Text(n) : Text(n)[k] = "#"
    <3>1. \A n : f(n) \in BOOLEAN
      OBVIOUS
    <3> HIDE DEF f
    <3>2. Commands' = [n \in 1 .. cuts |-> f(n)]
      BY <1>6 DEF f
    <3>3. Commands' \in [1 .. cuts -> BOOLEAN]
      BY <3>1, <3>2, Zenon
    <3> QED
      BY <1>3, <3>3 DEF numProcesses
  <2>2. ASSUME cuts > 0 PROVE SetUpInv'
    <3>1. Commands' # <<>>
      BY <1>3, <2>1, <2>2 DEF numProcesses
    <3>2. BoundInv'
      BY <1>3, <1>6, <2>1, <3>1 DEF BoundInv
    <3>3. TableInv'
      BY <1>3, <1>6 DEF TableInv
    <3> QED
      BY <3>2, <3>3 DEF SetUpInv
  <2> QED
    BY <1>2, <1>3, <1>6, <2>1, <2>2 DEF MainInv, Before, SettingUp
<1>7. \/ UNCHANGED <<Commands, pc>> /\ cuts' = cuts + 1
      \/ /\ Commands' = [n \in 1 .. cuts |-> \E k \in DOMAIN Text(n) : Text(n)[k] = "#"]
         /\ info' = [n \in Index' |-> ZeroStage]
         /\ pc' = "input" /\ cuts' = cuts
  BY Zenon DEF Strtok, lineVars
<1> QED
  BY <1>5, <1>6, <1>7

LEMMA MainSetUpInv == MainInv /\ SetUp => MainInv'
<1> SUFFICES ASSUME MainInv, SetUp PROVE MainInv'
  OBVIOUS
<1>1. Next /\ UNCHANGED <<optVars, cuts>> /\ (numProcesses > 0 \/ pc = "input")
  BY DEF SetUp, lineVars
<1>2. OptInv'
  BY <1>1, OptNextInv DEF MainInv
<1>3. UNCHANGED <<Commands, inputPort, outputPort>> /\ numProcesses' = numProcesses
  BY <1>1 DEF Next, ConnectInput, ConnectInputFails, AddCommand, AddNamedCommand,
              AddCommandFails, AddNamedCommandFails, ConnectNext, ConnectNextFails,
              ConnectOutput, ConnectOutputFails, Done, vars, args, numProcesses
<1>4. inputPort' \in BOOLEAN /\ outputPort' \in BOOLEAN /\ Commands' \in Seq(BOOLEAN) /\ cuts' \in Nat
      /\ numProcesses \in Nat
  BY <1>1, <1>3 DEF MainInv, numProcesses
<1>5. CASE numProcesses > 0
  <2>1. SetUpInv'
    BY <1>1, <1>5, SetUpNext DEF MainInv
  <2>2. pc' \in SettingUp
    BY <2>1 DEF SetUpInv, BoundInv, SettingUp
  <2>3. pc' \notin Before
    BY <2>2 DEF SettingUp, Before
  <2> QED
    BY <1>2, <1>3, <1>4, <1>5, <2>1, <2>2, <2>3 DEF MainInv
<1>6. CASE numProcesses = 0
  <2>1. pc = "input" /\ numSteps = 0 /\ top = 0
    BY <1>1, <1>6 DEF MainInv
  <2>2. ConnectInput \/ ConnectInputFails
    BY <1>1, <2>1 DEF Next, AddCommand, AddNamedCommand, AddCommandFails, AddNamedCommandFails,
                      ConnectNext, ConnectNextFails, ConnectOutput, ConnectOutputFails, Done
  <2>3. pc' \in {"command", "tidy"} /\ top' \in 0 .. 1
    BY <2>1, <2>2 DEF ConnectInput, ConnectInputFails, GotoTidy, Touch
  <2> QED
    BY <1>2, <1>3, <1>4, <1>6, <2>3 DEF MainInv, Before, SettingUp
<1> QED
  BY <1>4, <1>5, <1>6

LEMMA MainNextInv == MainInv /\ [MainNext]_mainVars => MainInv'
<1> SUFFICES ASSUME MainInv, [MainNext]_mainVars PROVE MainInv'
  OBVIOUS
<1>1. CASE NoCommand
  <2>1. /\ pc = "command" /\ pc' = "empty" /\ numProcesses = 0 /\ numProcesses' = 0
        /\ UNCHANGED <<Commands, inputPort, outputPort, top, cuts>> /\ UNCHANGED optVars
    BY <1>1 DEF NoCommand, args, setupVars, lineVars, numProcesses
  <2>2. OptInv'
    BY <2>1, OptNextInv DEF MainInv
  <2> QED
    BY <2>1, <2>2 DEF MainInv, Before, SettingUp
<1>2. CASE MainEnded \/ UNCHANGED mainVars
  <2>1. UNCHANGED optVars /\ UNCHANGED vars /\ UNCHANGED cuts
    BY <1>2 DEF MainEnded, mainVars, lineVars
  <2>2. OptInv'
    BY <2>1, OptNextInv DEF MainInv
  <2>3. SetUpInv => SetUpInv'
    BY <2>1, SetUpNext
  <2> QED
    BY <2>1, <2>2, <2>3 DEF MainInv, vars, args, numProcesses
<1> QED
  BY <1>1, <1>2, OptionInv, StrtokInv, MainSetUpInv DEF MainNext

LEMMA MainShows == MainInv => Chained /\ Runnable /\ CommandsInOrder /\ ReadsInside
<1> SUFFICES ASSUME MainInv PROVE Chained /\ Runnable /\ CommandsInOrder /\ ReadsInside
  OBVIOUS
<1>1. ReadsInside
  BY DEF MainInv, OptInv
<1>2. Built => SetUpInv
  <2>1. numProcesses \in Nat
    BY DEF MainInv, numProcesses
  <2> QED
    BY <2>1 DEF MainInv, Built, Before, SettingUp
<1>3. ~Built => Chained /\ Runnable /\ CommandsInOrder
  BY DEF Chained, Runnable, CommandsInOrder
<1> QED
  BY <1>1, <1>2, <1>3, SetUpShows

LEMMA MainAlways == MainSpec => []MainInv
  BY MainInitInv, MainNextInv, PTL DEF MainSpec

\* From argv to the table: whatever the words, the options among them and the text
\* of -c, getopt reads inside the words, and a table that the set-up completes is
\* a chain of runnable stages with the commands of the line in their order.
THEOREM MainCorrect == MainSpec => [](Chained /\ Runnable /\ CommandsInOrder /\ ReadsInside)
  BY MainAlways, MainShows, PTL

\* From argv to the table, too, the set-up writes inside the table if it has room
\* for what the line asks for: of the two entries that an argument with no
\* command needs, only one is counted by Wanted.
THEOREM MainBoundsCorrect ==
  ASSUME MAX_STEPS > 1
  PROVE  MainSpec => []InBounds
<1>1. MainInv => InBounds
  <2> SUFFICES ASSUME MainInv PROVE InBounds
    OBVIOUS
  <2>1. numProcesses \in Nat /\ MAX_STEPS \in Nat
    BY StepsAssumption DEF MainInv, numProcesses
  <2>2. CASE numProcesses = 0
    <3>1. top \in 0 .. 1
      BY <2>2 DEF MainInv
    <3> QED
      BY <2>1, <3>1 DEF InBounds
  <2>3. CASE numProcesses > 0
    BY <2>3, BoundImplies DEF MainInv, SetUpInv
  <2> QED
    BY <2>1, <2>2, <2>3
<1> QED
  BY <1>1, MainAlways, PTL

-----------------------------------------------------------------------------
(* What the options of the line say. *)

\* main calls getopt until it says EOF, and no longer.
OptionsInv == ReadInv /\ (pc = "options" => c # EOF)

LEMMA OptionsNextInv == OptionsInv /\ [MainNext]_mainVars => OptionsInv'
<1> SUFFICES ASSUME OptionsInv, [MainNext]_mainVars PROVE OptionsInv'
  OBVIOUS
<1>1. CASE Option
  <2>1. ReadInv'
    BY <1>1, ReadNextInv DEF Option, OptionsInv
  <2>2. pc' = "options" => c' # EOF
    BY <1>1 DEF Option
  <2> QED
    BY <2>1, <2>2 DEF OptionsInv
<1>2. CASE Winsock \/ Strtok \/ NoCommand \/ SetUp \/ MainEnded \/ UNCHANGED mainVars
  <2>1. UNCHANGED optVars /\ (pc' = "options" => pc = "options")
    BY <1>2 DEF Winsock, Strtok, NoCommand, SetUp, MainEnded, mainVars, vars, Next, ConnectInput,
                ConnectInputFails, AddCommand, AddNamedCommand, AddCommandFails,
                AddNamedCommandFails, ConnectNext, ConnectNextFails, ConnectOutput,
                ConnectOutputFails, Done, GotoTidy
  <2>2. ReadInv'
    BY <2>1, ReadKept DEF OptionsInv
  <2> QED
    BY <2>1, <2>2 DEF OptionsInv, optVars
<1> QED
  BY <1>1, <1>2 DEF MainNext

\* What main hears of getopt is what the words say: each option of the line once,
\* in order and with its own argument, for every command line and every set of
\* options; and when getopt has ended, optind names the first operand.
THEOREM OptionsReadCorrect == MainSpec => []OptionsRead
<1>1. MainInit => OptionsInv
  BY ReadInitInv DEF MainInit, OptionsInv, OptInit, NUL, EOF
<1>2. OptionsInv => OptionsRead
  BY ReadShows DEF OptionsInv
<1> QED
  BY <1>1, <1>2, OptionsNextInv, PTL DEF MainSpec

-----------------------------------------------------------------------------
(* The tokens of a text. *)

LEMMA TokenFacts ==
  ASSUME NEW s \in Seq(Character), NEW t \in TokensIn(s)
  PROVE  /\ t[1] \in 1 .. Len(s) /\ t[2] \in 1 .. Len(s) /\ t[1] <= t[2] /\ t = <<t[1], t[2]>>
         /\ IsBar(s, t[1] - 1) /\ IsBar(s, t[2] + 1) /\ \A k \in t[1] .. t[2] : ~IsBar(s, k)
BY DEF TokensIn

LEMMA TokenStarts == ASSUME NEW s \in Seq(Character), NEW t \in TokensIn(s) PROVE t[1] \in Nat
BY TokenFacts

LEMMA TokensFinite ==
  ASSUME NEW s \in Seq(Character), NEW S \in SUBSET TokensIn(s)
  PROVE  IsFiniteSet(S)
<1>1. Len(s) \in Nat
  OBVIOUS
<1>2. IsFiniteSet(1 .. Len(s))
  BY <1>1, FS_Interval
<1>3. IsFiniteSet((1 .. Len(s)) \X (1 .. Len(s)))
  BY <1>2, FS_Product
<1>4. S \in SUBSET ((1 .. Len(s)) \X (1 .. Len(s)))
  BY DEF TokensIn
<1> QED
  BY <1>3, <1>4, FS_Subset

\* Between two tokens there is a bar.
LEMMA TokensApart ==
  ASSUME NEW s \in Seq(Character), NEW t \in TokensIn(s), NEW u \in TokensIn(s)
  PROVE  /\ t[1] < u[1] => t[2] + 1 < u[1]
         /\ t[1] = u[1] => t = u
<1>1. /\ t[1] \in 1 .. Len(s) /\ t[2] \in 1 .. Len(s) /\ t[1] <= t[2] /\ t = <<t[1], t[2]>>
      /\ IsBar(s, t[1] - 1) /\ IsBar(s, t[2] + 1) /\ \A k \in t[1] .. t[2] : ~IsBar(s, k)
  BY TokenFacts
<1>2. /\ u[1] \in 1 .. Len(s) /\ u[2] \in 1 .. Len(s) /\ u[1] <= u[2] /\ u = <<u[1], u[2]>>
      /\ IsBar(s, u[1] - 1) /\ IsBar(s, u[2] + 1) /\ \A k \in u[1] .. u[2] : ~IsBar(s, k)
  BY TokenFacts
<1>3. ASSUME t[1] < u[1] PROVE t[2] + 1 < u[1]
  <2>1. u[1] - 1 \notin t[1] .. t[2]
    BY <1>1, <1>2
  <2>2. u[1] # t[2] + 1
    <3>1. u[1] \in u[1] .. u[2]
      BY <1>2
    <3> QED
      BY <1>1, <1>2, <3>1
  <2> QED
    BY <1>1, <1>2, <1>3, <2>1, <2>2
<1>4. ASSUME t[1] = u[1] PROVE t = u
  <2>1. t[2] + 1 \notin u[1] .. u[2] /\ u[2] + 1 \notin t[1] .. t[2]
    BY <1>1, <1>2
  <2>2. t[2] = u[2]
    BY <1>1, <1>2, <1>4, <2>1
  <2> QED
    BY <1>1, <1>2, <1>4, <2>2
<1> QED
  BY <1>3, <1>4

\* What is no bar belongs to a token.
LEMMA TokenAround ==
  ASSUME NEW s \in Seq(Character), NEW k \in 1 .. Len(s), ~IsBar(s, k)
  PROVE  \E t \in TokensIn(s) : t[1] <= k /\ k <= t[2]
<1> DEFINE Behind1 == {j \in k .. Len(s) + 1 : IsBar(s, j)}
           Ahead1  == {d \in 0 .. k : IsBar(s, k - d)}
<1>1. Len(s) \in Nat /\ k \in Nat /\ k <= Len(s)
  OBVIOUS
<1>2. PICK e \in Behind1 : \A j \in Behind1 : e <= j
  <2>1. Behind1 \in SUBSET Nat /\ Len(s) + 1 \in Behind1
    BY <1>1 DEF IsBar
  <2> HIDE DEF Behind1
  <2> QED
    BY <2>1, Least
<1>3. PICK d \in Ahead1 : \A j \in Ahead1 : d <= j
  <2>1. Ahead1 \in SUBSET Nat /\ k \in Ahead1
    BY <1>1 DEF IsBar
  <2> HIDE DEF Ahead1
  <2> QED
    BY <2>1, Least
<1>4. e \in k + 1 .. Len(s) + 1 /\ IsBar(s, e)
  <2>1. e # k
    BY <1>2
  <2> QED
    BY <1>1, <1>2, <2>1
<1>5. d \in 1 .. k /\ IsBar(s, k - d)
  <2>1. k - 0 = k
    BY <1>1
  <2>2. d # 0
    BY <1>3, <2>1
  <2> QED
    BY <1>1, <1>3, <2>2
<1>6. \A j \in k .. e - 1 : ~IsBar(s, j)
  <2> SUFFICES ASSUME NEW j \in k .. e - 1, IsBar(s, j) PROVE FALSE
    OBVIOUS
  <2>1. j \in Behind1
    BY <1>1, <1>4
  <2>2. e <= j
    <3> HIDE DEF Behind1
    <3> QED
      BY <1>2, <2>1
  <2> QED
    BY <1>4, <2>2
<1>7. \A j \in k - d + 1 .. k : ~IsBar(s, j)
  <2> SUFFICES ASSUME NEW j \in k - d + 1 .. k, IsBar(s, j) PROVE FALSE
    OBVIOUS
  <2>1. k - j \in Ahead1
    <3>1. k - j \in 0 .. k /\ k - (k - j) = j
      BY <1>1, <1>5
    <3> QED
      BY <3>1
  <2>2. d <= k - j
    <3> HIDE DEF Ahead1
    <3> QED
      BY <1>3, <2>1
  <2> QED
    BY <1>1, <1>5, <2>2
<1> DEFINE a == k - d + 1
           z == e - 1
<1>8. /\ a \in 1 .. Len(s) /\ z \in 1 .. Len(s) /\ a <= k /\ k <= z /\ a - 1 = k - d /\ z + 1 = e
      /\ \A j \in a .. z : j \in k .. e - 1 \/ j \in k - d + 1 .. k
  BY <1>1, <1>4, <1>5
<1>9. <<a, z>> \in TokensIn(s)
  <2> HIDE DEF a, z
  <2> QED
    BY <1>1, <1>4, <1>5, <1>6, <1>7, <1>8 DEF TokensIn
<1> QED
  <2> DEFINE t == <<a, z>>
  <2>1. t[1] <= k /\ k <= t[2]
    BY <1>8
  <2> QED
    BY <1>9, <2>1

\* The token before a token, if it is not the first.
LEMMA TokenBefore ==
  ASSUME NEW s \in Seq(Character), NEW t \in TokensIn(s),
         NEW v \in TokensIn(s), v[1] < t[1]
  PROVE  \E p \in TokensIn(s) : /\ p[1] < t[1]
                                /\ \A u \in TokensIn(s) : u[1] < t[1] => u[1] <= p[1]
<1> DEFINE Gaps == {t[1] - u[1] : u \in {w \in TokensIn(s) : w[1] < t[1]}}
<1>1. PICK g \in Gaps : \A h \in Gaps : g <= h
  <2>1. Gaps \in SUBSET Nat
    BY TokenFacts
  <2>2. t[1] - v[1] \in Gaps
    OBVIOUS
  <2> HIDE DEF Gaps
  <2> QED
    BY <2>1, <2>2, Least
<1>2. PICK p \in TokensIn(s) : p[1] < t[1] /\ g = t[1] - p[1]
  BY <1>1
<1>3. ASSUME NEW u \in TokensIn(s), u[1] < t[1] PROVE u[1] <= p[1]
  <2>1. t[1] - u[1] \in Gaps
    BY <1>3
  <2>2. t[1] - p[1] <= t[1] - u[1]
    <3> HIDE DEF Gaps
    <3> QED
      BY <1>1, <1>2, <2>1
  <2>3. t[1] \in Nat /\ p[1] \in Nat /\ u[1] \in Nat
    BY TokenStarts
  <2> QED
    BY <2>2, <2>3
<1> QED
  BY <1>2, <1>3

LEMMA RankFirst ==
  ASSUME NEW s \in Seq(Character), NEW t \in TokensIn(s),
         \A u \in TokensIn(s) : ~(u[1] < t[1])
  PROVE  Rank(s, t) = 1
<1>1. {u \in TokensIn(s) : u[1] <= t[1]} = {t}
  <2>1. ASSUME NEW u \in TokensIn(s), u[1] <= t[1] PROVE u = t
    <3>1. u[1] = t[1]
      <4>1. t[1] \in Nat /\ u[1] \in Nat
        BY TokenStarts
      <4> QED
        BY <2>1, <4>1
    <3> QED
      BY <3>1, TokensApart
  <2>2. t[1] <= t[1]
    BY TokenFacts
  <2> QED
    BY <2>1, <2>2
<1> QED
  BY <1>1, FS_Singleton DEF Rank

LEMMA RankNext ==
  ASSUME NEW s \in Seq(Character), NEW t \in TokensIn(s), NEW p \in TokensIn(s), p[1] < t[1],
         \A u \in TokensIn(s) : u[1] < t[1] => u[1] <= p[1]
  PROVE  Rank(s, t) = Rank(s, p) + 1 /\ Rank(s, p) \in Nat
<1> DEFINE S == {u \in TokensIn(s) : u[1] <= p[1]}
<1>1. S \in SUBSET TokensIn(s) /\ t \notin S
  <2>1. t[1] \in Nat /\ p[1] \in Nat
    BY TokenStarts
  <2> QED
    BY <2>1
<1>2. {u \in TokensIn(s) : u[1] <= t[1]} = S \cup {t}
  <2>1. ASSUME NEW u \in TokensIn(s) PROVE u[1] <= t[1] <=> u[1] <= p[1] \/ u = t
    <3>1. t[1] \in Nat /\ p[1] \in Nat /\ u[1] \in Nat
      BY TokenStarts
    <3>2. u[1] = t[1] => u = t
      BY TokensApart
    <3> QED
      BY <3>1, <3>2
  <2> QED
    BY <2>1
<1>3. IsFiniteSet(S)
  BY <1>1, TokensFinite
<1>4. Cardinality(S) \in Nat
  BY <1>3, FS_CardinalityType
<1>5. Cardinality(S \cup {t}) = Cardinality(S) + 1
  <2> HIDE DEF S
  <2> QED
    BY <1>1, <1>3, FS_AddElement
<1> QED
  BY <1>2, <1>4, <1>5 DEF Rank

-----------------------------------------------------------------------------
(* strtok cuts the tokens out one by one. *)

\* A search finds the first.
LEMMA FirstFound ==
  ASSUME NEW S \in SUBSET Nat, NEW k \in Nat, NEW n \in S, k <= n
  PROVE  \E j \in k .. n : j \in S /\ \A l \in k .. j - 1 : l \notin S
<1> DEFINE From == {j \in S : k <= j}
<1>1. PICK j \in From : \A m \in From : j <= m
  <2>1. From \in SUBSET Nat /\ n \in From
    OBVIOUS
  <2> HIDE DEF From
  <2> QED
    BY <2>1, Least
<1>2. j \in k .. n /\ j \in S
  BY <1>1
<1>3. ASSUME NEW l \in k .. j - 1 PROVE l \notin S
  <2>1. l \in S => l \in From
    OBVIOUS
  <2>2. l \notin From
    <3> HIDE DEF From
    <3> QED
      BY <1>1, <1>2
  <2> QED
    BY <2>1, <2>2
<1> QED
  BY <1>2, <1>3

Bytes == Character \cup {NUL}
SkipBars(k)   == First(k, LAMBDA ch : ch # "|")
SkipBlanks(k) == First(k, LAMBDA ch : ch # Blank)
TokenEnd(k)   == First(k, LAMBDA ch : ch \in {"|", NUL})

\* The 0 at the end of the memory ends every search.
LEMMA Searches ==
  ASSUME mem \in Seq(Bytes), NEW k \in 1 .. Len(mem), mem[Len(mem)] = NUL
  PROVE  /\ SkipBars(k) \in k .. Len(mem) /\ mem[SkipBars(k)] # "|"
         /\ \A l \in k .. SkipBars(k) - 1 : mem[l] = "|"
         /\ TokenEnd(k) \in k .. Len(mem) /\ mem[TokenEnd(k)] \in {"|", NUL}
         /\ \A l \in k .. TokenEnd(k) - 1 : mem[l] \notin {"|", NUL}
         /\ SkipBlanks(k) \in k .. Len(mem) /\ mem[SkipBlanks(k)] # Blank
         /\ \A l \in k .. SkipBlanks(k) - 1 : mem[l] = Blank
         /\ StrEnd(k) \in k .. Len(mem) /\ mem[StrEnd(k)] = NUL
         /\ \A l \in k .. StrEnd(k) - 1 : mem[l] # NUL
<1>1. Len(mem) \in Nat /\ k \in Nat /\ 1 <= k /\ k <= Len(mem)
  OBVIOUS
<1>0. mem[Len(mem)] \in {"|", NUL} /\ mem[Len(mem)] # "|" /\ mem[Len(mem)] # Blank
  BY Zenon DEF NUL, Blank
<1> DEFINE Found(S) == \E j \in k .. Len(mem) : j \in S /\ \A l \in k .. j - 1 : l \notin S
<1>2. ASSUME NEW S \in SUBSET (1 .. Len(mem)), Len(mem) \in S PROVE Found(S)
  <2>1. S \in SUBSET Nat /\ k \in Nat /\ k <= Len(mem)
    BY <1>1
  <2> QED
    BY <1>2, <2>1, FirstFound
<1>3. SkipBars(k) \in k .. Len(mem) /\ mem[SkipBars(k)] # "|"
      /\ \A l \in k .. SkipBars(k) - 1 : mem[l] = "|"
  <2> DEFINE S == {j \in 1 .. Len(mem) : mem[j] # "|"}
  <2>1. Found(S)
    <3>1. S \in SUBSET (1 .. Len(mem)) /\ Len(mem) \in S
      BY <1>0, <1>1
    <3> HIDE DEF S, Found
    <3> QED
      BY <1>2, <3>1
  <2> HIDE DEF S
  <2>2. \A j \in k .. Len(mem) : j \in S <=> mem[j] # "|"
    BY <1>1 DEF S
  <2>3. \E j \in k .. Len(mem) : mem[j] # "|" /\ \A l \in k .. j - 1 : ~(mem[l] # "|")
    <3>1. PICK j \in k .. Len(mem) : j \in S /\ \A l \in k .. j - 1 : l \notin S
      BY <2>1
    <3>2. \A l \in k .. j - 1 : l \in k .. Len(mem)
      BY <1>1
    <3> QED
      BY <2>2, <3>1, <3>2
  <2> QED
    BY <2>3 DEF SkipBars, First
<1>4. TokenEnd(k) \in k .. Len(mem) /\ mem[TokenEnd(k)] \in {"|", NUL}
      /\ \A l \in k .. TokenEnd(k) - 1 : mem[l] \notin {"|", NUL}
  <2> DEFINE S == {j \in 1 .. Len(mem) : mem[j] \in {"|", NUL}}
  <2>1. Found(S)
    <3>1. S \in SUBSET (1 .. Len(mem)) /\ Len(mem) \in S
      BY <1>0, <1>1
    <3> HIDE DEF S, Found
    <3> QED
      BY <1>2, <3>1
  <2> HIDE DEF S
  <2>2. \A j \in k .. Len(mem) : j \in S <=> mem[j] \in {"|", NUL}
    BY <1>1 DEF S
  <2>3. \E j \in k .. Len(mem) : mem[j] \in {"|", NUL} /\ \A l \in k .. j - 1 : ~(mem[l] \in {"|", NUL})
    <3>1. PICK j \in k .. Len(mem) : j \in S /\ \A l \in k .. j - 1 : l \notin S
      BY <2>1
    <3>2. \A l \in k .. j - 1 : l \in k .. Len(mem)
      BY <1>1
    <3> QED
      BY <2>2, <3>1, <3>2
  <2> QED
    BY <2>3 DEF TokenEnd, First
<1>5. SkipBlanks(k) \in k .. Len(mem) /\ mem[SkipBlanks(k)] # Blank
      /\ \A l \in k .. SkipBlanks(k) - 1 : mem[l] = Blank
  <2> DEFINE S == {j \in 1 .. Len(mem) : mem[j] # Blank}
  <2>1. Found(S)
    <3>1. S \in SUBSET (1 .. Len(mem)) /\ Len(mem) \in S
      BY <1>0, <1>1
    <3> HIDE DEF S, Found
    <3> QED
      BY <1>2, <3>1
  <2> HIDE DEF S
  <2>2. \A j \in k .. Len(mem) : j \in S <=> mem[j] # Blank
    BY <1>1 DEF S
  <2>3. \E j \in k .. Len(mem) : mem[j] # Blank /\ \A l \in k .. j - 1 : ~(mem[l] # Blank)
    <3>1. PICK j \in k .. Len(mem) : j \in S /\ \A l \in k .. j - 1 : l \notin S
      BY <2>1
    <3>2. \A l \in k .. j - 1 : l \in k .. Len(mem)
      BY <1>1
    <3> QED
      BY <2>2, <3>1, <3>2
  <2> QED
    BY <2>3 DEF SkipBlanks, First
<1>6. StrEnd(k) \in k .. Len(mem) /\ mem[StrEnd(k)] = NUL
      /\ \A l \in k .. StrEnd(k) - 1 : mem[l] # NUL
  <2> DEFINE S == {j \in 1 .. Len(mem) : mem[j] = NUL}
  <2>1. Found(S)
    <3>1. S \in SUBSET (1 .. Len(mem)) /\ Len(mem) \in S
      BY <1>0, <1>1
    <3> HIDE DEF S, Found
    <3> QED
      BY <1>2, <3>1
  <2> HIDE DEF S
  <2>2. \A j \in k .. Len(mem) : j \in S <=> mem[j] = NUL
    BY <1>1 DEF S
  <2>3. \E j \in k .. Len(mem) : mem[j] = NUL /\ \A l \in k .. j - 1 : ~(mem[l] = NUL)
    <3>1. PICK j \in k .. Len(mem) : j \in S /\ \A l \in k .. j - 1 : l \notin S
      BY <2>1
    <3>2. \A l \in k .. j - 1 : l \in k .. Len(mem)
      BY <1>1
    <3> QED
      BY <2>2, <3>1, <3>2
  <2> QED
    BY <2>3 DEF StrEnd, First
<1> QED
  BY <1>3, <1>4, <1>5, <1>6

\* The memory is the text, but that the ends of the tokens of S are cut out.
Cut(S) ==
  /\ command.text \in Seq(Character) /\ mem \in Seq(Bytes) /\ Len(mem) = Len(command.text) + 1
  /\ \A j \in 1 .. Len(mem) :
       mem[j] = IF j = Len(mem) \/ \E t \in S : t[2] + 1 = j THEN NUL ELSE command.text[j]
  /\ cuts = Cardinality(S)

\* While strtok runs, the tokens before save are; in the end all are.
Cutting == /\ save \in 1 .. Len(mem)
           /\ save = Len(mem) \/ IsBar(command.text, save - 1)
           /\ Cut({t \in Tokens : t[2] < save})
AllCut  == Cut(Tokens)

\* Where strtok goes on the memory is still the text.
LEMMA NotYetCut ==
  ASSUME Cutting
  PROVE  /\ Len(command.text) \in Nat /\ mem[Len(mem)] = NUL
         /\ \A k \in save .. Len(mem) - 1 : mem[k] = command.text[k] /\ command.text[k] \in Character
         /\ \A t \in Tokens : t[2] < save \/ (t[1] >= save /\ save < Len(mem) /\ IsBar(command.text, save - 1))
<1> DEFINE s == command.text
<1>1. s \in Seq(Character) /\ Len(mem) = Len(s) + 1 /\ Len(s) \in Nat /\ save \in 1 .. Len(mem)
  BY DEF Cutting, Cut
<1>2. mem[Len(mem)] = NUL
  BY <1>1 DEF Cutting, Cut
<1>3. ASSUME NEW t \in Tokens, ~(t[2] < save)
      PROVE  t[1] >= save /\ save < Len(mem) /\ IsBar(s, save - 1)
  <2>1. /\ t[1] \in 1 .. Len(s) /\ t[2] \in 1 .. Len(s)
        /\ \A k \in t[1] .. t[2] : ~IsBar(s, k)
    BY <1>1, TokenFacts DEF Tokens
  <2>2. save < Len(mem) /\ IsBar(s, save - 1)
    BY <1>1, <1>3, <2>1 DEF Cutting
  <2>3. save - 1 \notin t[1] .. t[2]
    BY <2>1, <2>2
  <2> QED
    BY <1>1, <1>3, <2>1, <2>2, <2>3
<1>4. ASSUME NEW k \in save .. Len(mem) - 1 PROVE mem[k] = s[k] /\ s[k] \in Character
  <2>1. ASSUME NEW t \in Tokens, t[2] < save, t[2] + 1 = k PROVE FALSE
    <3>1. /\ t[1] \in 1 .. Len(s) /\ t[2] \in 1 .. Len(s) /\ t[1] <= t[2]
          /\ \A l \in t[1] .. t[2] : ~IsBar(s, l)
      BY <1>1, TokenFacts DEF Tokens
    <3>2. t[2] = save - 1 /\ save # Len(mem)
      BY <1>1, <1>4, <2>1, <3>1
    <3>3. IsBar(s, save - 1) /\ t[2] \in t[1] .. t[2]
      BY <3>1, <3>2 DEF Cutting
    <3> QED
      BY <3>1, <3>2, <3>3
  <2>2. k # Len(mem) /\ k \in 1 .. Len(mem) /\ k \in 1 .. Len(s)
    BY <1>1
  <2>3. mem[k] = s[k]
    BY <2>1, <2>2 DEF Cutting, Cut
  <2> QED
    BY <1>1, <2>2, <2>3
<1> QED
  BY <1>1, <1>2, <1>3, <1>4

\* One round of strtok cuts out the next token, or finds that none is left.
LEMMA StrtokCut ==
  ASSUME Cutting, Strtok
  PROVE  (pc' = "count" /\ Cutting') \/ (pc' = "input" /\ AllCut')
<1> DEFINE s == command.text
           N == Len(mem)
           from == SkipBars(save)
           end == TokenEnd(from)
           S == {u \in Tokens : u[2] < save}
<1>1. /\ s \in Seq(Character) /\ mem \in Seq(Bytes) /\ N = Len(s) + 1 /\ save \in 1 .. N
      /\ \A j \in 1 .. N : mem[j] = IF j = N \/ \E u \in S : u[2] + 1 = j THEN NUL ELSE s[j]
      /\ cuts = Cardinality(S)
  BY DEF Cutting, Cut
<1>2. /\ Len(s) \in Nat /\ mem[N] = NUL
      /\ \A k \in save .. N - 1 : mem[k] = s[k] /\ s[k] \in Character
      /\ \A u \in Tokens : u[2] < save \/ (u[1] >= save /\ save < N /\ IsBar(s, save - 1))
  BY NotYetCut
<1>3. from \in save .. N /\ mem[from] # "|" /\ \A l \in save .. from - 1 : mem[l] = "|"
  BY <1>1, <1>2, Searches
<1>4. /\ command' = command /\ s' = s /\ Tokens' = Tokens /\ pc = "count"
      /\ \/ mem[from] = NUL /\ pc' = "input" /\ mem' = mem /\ save' = save /\ cuts' = cuts
         \/ /\ mem[from] # NUL /\ pc' = pc
            /\ mem' = [mem EXCEPT ![end] = NUL]
            /\ save' = IF mem[end] = NUL THEN end ELSE end + 1
            /\ cuts' = cuts + 1
  <2>1. command' = command /\ pc = "count"
    BY DEF Strtok
  <2>2. \/ mem[from] = NUL /\ pc' = "input" /\ mem' = mem /\ save' = save /\ cuts' = cuts
        \/ /\ mem[from] # NUL /\ pc' = pc
           /\ mem' = [mem EXCEPT ![end] = NUL]
           /\ save' = IF mem[end] = NUL THEN end ELSE end + 1
           /\ cuts' = cuts + 1
    BY DEF Strtok, SkipBars, TokenEnd, lineVars
  <2> QED
    BY <2>1, <2>2 DEF Tokens
\* A token that is left begins where the search ends, or behind.
<1>5. ASSUME NEW u \in Tokens, ~(u[2] < save) PROVE u[1] >= from
  <2>1. /\ u[1] \in 1 .. Len(s) /\ u[1] <= u[2] /\ u[1] >= save
        /\ \A k \in u[1] .. u[2] : ~IsBar(s, k)
    BY <1>1, <1>2, <1>5, TokenFacts DEF Tokens
  <2>2. u[2] \in Nat
    BY <1>1, TokenFacts DEF Tokens
  <2>3. ~IsBar(s, u[1])
    <3>1. u[1] \in u[1] .. u[2]
      BY <2>1, <2>2
    <3> QED
      BY <2>1, <3>1
  <2>4. u[1] \in save .. N - 1
    BY <1>1, <1>2, <2>1
  <2>5. mem[u[1]] # "|"
    BY <1>2, <2>3, <2>4 DEF IsBar
  <2> HIDE DEF N, s, from
  <2> QED
    BY <1>2, <1>3, <2>4, <2>5
<1>6. CASE mem[from] = NUL
  <2>1. from = N
    <3>1. ASSUME from \in save .. N - 1 PROVE FALSE
      BY <1>2, <1>6, <3>1 DEF Character
    <3> HIDE DEF from, N, s
    <3> QED
      BY <1>1, <1>2, <1>3, <3>1
  <2>2. S = Tokens
    <3>1. ASSUME NEW u \in Tokens PROVE u[2] < save
      <4>1. u[1] \in 1 .. Len(s)
        BY <1>1, TokenFacts DEF Tokens
      <4>2. ~(u[1] >= from)
        BY <1>1, <1>2, <2>1, <4>1
      <4> QED
        BY <1>5, <4>2
    <3> QED
      BY <3>1
  <2>3. mem' = mem /\ cuts' = cuts /\ pc' = "input"
    BY <1>4, <1>6
  <2>4. AllCut
    BY <2>2 DEF Cutting, AllCut
  <2> QED
    BY <1>4, <2>3, <2>4 DEF AllCut, Cut
<1>7. CASE mem[from] # NUL
  <2>1. from \in save .. N - 1
    <3> HIDE DEF from, N, s
    <3> QED
      BY <1>1, <1>2, <1>3, <1>7
  <2>2. /\ end \in from .. N /\ mem[end] \in {"|", NUL}
        /\ \A l \in from .. end - 1 : mem[l] \notin {"|", NUL}
    <3>1. from \in 1 .. N
      BY <1>1, <2>1
    <3> HIDE DEF from
    <3> QED
      BY <1>1, <1>2, <3>1, Searches
  <2>3. end # from
    BY <1>3, <1>7, <2>2
  <2> DEFINE t == <<from, end - 1>>
  <2>4. end \in from + 1 .. N /\ from \in 1 .. Len(s) /\ end - 1 \in 1 .. Len(s)
    <3> HIDE DEF from, end, N, s
    <3> QED
      BY <1>1, <1>2, <2>1, <2>2, <2>3
  <2>5. mem[end] = NUL <=> end = N
    <3>1. ASSUME end # N PROVE mem[end] \in Character
      <4>1. end \in save .. N - 1
        <5> HIDE DEF from, end, N, s
        <5> QED
          BY <1>1, <1>2, <2>1, <2>4, <3>1
      <4> QED
        BY <1>2, <4>1
    <3> QED
      BY <1>2, <3>1 DEF Character
  <2>6. IsBar(s, end)
    <3>1. ASSUME end # N PROVE s[end] = "|"
      <4>1. end \in save .. N - 1
        <5> HIDE DEF from, end, N, s
        <5> QED
          BY <1>1, <1>2, <2>1, <2>4, <3>1
      <4>2. mem[end] # NUL
        BY <2>5, <3>1
      <4> QED
        BY <1>2, <2>2, <4>1, <4>2
    <3> QED
      BY <1>1, <3>1 DEF IsBar
  <2>7. IsBar(s, from - 1)
    <3>1. CASE from = save
      <4>1. save # N
        <5> HIDE DEF from, N
        <5> QED
          BY <1>1, <1>2, <2>1, <3>1
      <4> QED
        BY <3>1, <4>1 DEF Cutting
    <3>2. CASE from # save
      <4>1. from - 1 \in save .. from - 1 /\ from - 1 \in save .. N - 1
        <5> HIDE DEF from, N, s
        <5> QED
          BY <1>1, <1>2, <2>1, <3>2
      <4> QED
        BY <1>2, <1>3, <4>1 DEF IsBar
    <3> QED
      BY <3>1, <3>2
  <2>8. \A k \in from .. end - 1 : ~IsBar(s, k)
    <3> SUFFICES ASSUME NEW k \in from .. end - 1 PROVE ~IsBar(s, k)
      OBVIOUS
    <3>1. k \in save .. N - 1 /\ k # 0 /\ k # Len(s) + 1
      <4> HIDE DEF from, end, N, s
      <4> QED
        BY <1>1, <1>2, <2>1, <2>4
    <3>2. mem[k] # "|"
      BY <2>2
    <3> QED
      BY <1>2, <3>1, <3>2 DEF IsBar
  <2>9. t \in Tokens /\ t[1] = from /\ t[2] = end - 1 /\ t[2] + 1 = end
    <3>1. t \in (1 .. Len(s)) \X (1 .. Len(s)) /\ t[1] = from /\ t[2] = end - 1
      BY <2>4
    <3>2. from <= end - 1 /\ end - 1 + 1 = end
      <4> HIDE DEF from, end, N, s
      <4> QED
        BY <2>4
    <3> HIDE DEF from, end
    <3> QED
      BY <2>6, <2>7, <2>8, <3>1, <3>2 DEF Tokens, TokensIn
  <2>10. /\ mem' = [mem EXCEPT ![end] = NUL] /\ cuts' = cuts + 1 /\ pc' = "count"
         /\ save' = IF mem[end] = NUL THEN end ELSE end + 1
    BY <1>4, <1>7
  <2>11. /\ save' \in {end, end + 1} /\ save' \in 1 .. N
         /\ (save' = N \/ IsBar(s, save' - 1))
    <3>1. CASE mem[end] = NUL
      <4> HIDE DEF from, end, N, s
      <4> QED
        BY <1>1, <1>2, <2>4, <2>5, <2>10, <3>1
    <3>2. CASE mem[end] # NUL
      <4>1. save' = end + 1 /\ end # N /\ save' - 1 = end
        <5> HIDE DEF from, end, N, s
        <5> QED
          BY <1>1, <1>2, <2>4, <2>5, <2>10, <3>2
      <4> HIDE DEF from, end, N, s
      <4> QED
        BY <1>1, <1>2, <2>4, <2>6, <4>1
    <3> QED
      BY <3>1, <3>2
  <2>12. \A u \in Tokens : u[2] < save' <=> u \in S \cup {t}
    <3> SUFFICES ASSUME NEW u \in Tokens PROVE u[2] < save' <=> u[2] < save \/ u = t
      OBVIOUS
    <3>1. u[1] \in Nat /\ u[2] \in Nat /\ u[1] <= u[2]
      BY <1>1, TokenFacts DEF Tokens
    <3>2. ASSUME ~(u[2] < save), u # t PROVE u[1] > end
      <4>1. u[1] >= from
        BY <1>5, <3>2
      <4>2. t[1] < u[1] => t[2] + 1 < u[1]
        <5> HIDE DEF t
        <5> QED
          BY <1>1, <2>9, TokensApart DEF Tokens
      <4>3. t[1] = u[1] => t = u
        <5> HIDE DEF t
        <5> QED
          BY <1>1, <2>9, TokensApart DEF Tokens
      <4>4. from \in Nat /\ end \in Nat
        BY <2>4
      <4> HIDE DEF t, from, end
      <4> QED
        BY <2>9, <3>1, <3>2, <4>1, <4>2, <4>3, <4>4
    <3>3. save \in Nat /\ end \in Nat /\ save <= end
      <4> HIDE DEF from, end, N, s
      <4> QED
        BY <1>1, <1>2, <2>1, <2>4
    <3> HIDE DEF t, from, end
    <3> QED
      BY <2>9, <2>11, <3>1, <3>2, <3>3
  <2>13. {u \in Tokens : u[2] < save'} = S \cup {t} /\ t \notin S
    <3>1. ~(t[2] < save)
      <4> HIDE DEF t, from, end, N, s
      <4> QED
        BY <1>1, <1>2, <2>1, <2>4, <2>9
    <3>2. S \cup {t} \in SUBSET Tokens
      BY <2>9
    <3> HIDE DEF t
    <3> QED
      BY <2>12, <3>1, <3>2
  <2>14. cuts' = Cardinality(S \cup {t})
    <3>1. IsFiniteSet(S)
      BY <1>1, TokensFinite DEF Tokens
    <3> HIDE DEF S, t
    <3> QED
      BY <1>1, <2>10, <2>13, <3>1, FS_AddElement
  <2>15. /\ mem' \in Seq(Bytes) /\ Len(mem') = N
         /\ \A j \in 1 .. N : mem'[j] = IF j = end THEN NUL ELSE mem[j]
    <3>1. NUL \in Bytes
      BY DEF Bytes
    <3>2. end \in 1 .. N /\ N \in Nat
      BY <1>1, <2>4
    <3> HIDE DEF end
    <3>3. Len(mem') = N /\ mem' \in Seq(Bytes)
      BY <1>1, <2>10, <3>1, <3>2
    <3>4. \A j \in 1 .. N : mem'[j] = IF j = end THEN NUL ELSE mem[j]
      BY <1>1, <2>10
    <3> QED
      BY <3>3, <3>4
  <2>16. \A j \in 1 .. N :
           mem'[j] = IF j = N \/ \E u \in S \cup {t} : u[2] + 1 = j THEN NUL ELSE s[j]
    <3> SUFFICES ASSUME NEW j \in 1 .. N
                 PROVE  mem'[j] = IF j = N \/ \E u \in S \cup {t} : u[2] + 1 = j THEN NUL ELSE s[j]
      OBVIOUS
    <3>1. (\E u \in S \cup {t} : u[2] + 1 = j) <=> (j = end \/ \E u \in S : u[2] + 1 = j)
      <4> HIDE DEF S, t, end
      <4> QED
        BY <2>9
    <3> HIDE DEF S, t, end
    <3> QED
      BY <1>1, <2>15, <3>1
  <2> DEFINE Gone == {u \in Tokens : u[2] < save'}
  <2>17. /\ Gone = S \cup {t} /\ {u \in Tokens' : u[2] < save'} = Gone
         /\ cuts' = Cardinality(Gone)
         /\ \A j \in 1 .. N : mem'[j] = IF j = N \/ \E u \in Gone : u[2] + 1 = j THEN NUL ELSE s[j]
    <3>1. {u \in Tokens' : u[2] < save'} = Gone
      BY <1>4
    <3>2. Gone = S \cup {t}
      BY <2>13
    <3> HIDE DEF S, t, Gone
    <3> QED
      BY <2>14, <2>16, <3>1, <3>2
  <2> HIDE DEF Gone
  <2>18. Cutting'
    BY <1>1, <1>4, <2>11, <2>15, <2>17 DEF Cutting, Cut
  <2> QED
    BY <2>10, <2>18
<1> QED
  BY <1>6, <1>7

-----------------------------------------------------------------------------
(* The walk finds the tokens that strtok has cut out.                      *)

\* Where the n-th command begins, if the one before it begins at prev.
NextPlace(n, prev) ==
  LET from == IF n = 1 THEN 1 ELSE StrEnd(prev) + 1
  IN IF from > Len(mem) THEN from ELSE SkipBlanks(from)

LEMMA PlaceExists ==
  ASSUME NEW len \in Nat
  PROVE  \E place : place = [n \in 1 .. len |-> NextPlace(n, place[n - 1])]
<1> DEFINE Walk(v, l) == [n \in 1 .. l |-> NextPlace(n, v[n - 1])]
           Not == {l \in Nat : ~ \E v : v = Walk(v, l)}
<1>1. SUFFICES ASSUME len \in Not PROVE FALSE
  OBVIOUS
<1>2. PICK l \in Not : \A m \in Not : l <= m
  <2>1. Not \in SUBSET Nat
    OBVIOUS
  <2> HIDE DEF Not
  <2> QED
    BY <1>1, <2>1, Least
<1>3. PICK w : l # 0 => w = Walk(w, l - 1)
  <2>1. CASE l = 0
    BY <2>1
  <2>2. CASE l # 0
    <3>1. l - 1 \in Nat /\ ~(l <= l - 1)
      BY <2>2
    <3>2. l - 1 \notin Not
      <4> HIDE DEF Not
      <4> QED
        BY <1>2, <3>1
    <3>3. \E v : v = Walk(v, l - 1)
      <4> HIDE DEF Walk
      <4> QED
        BY <3>1, <3>2
    <3> QED
      BY <3>3
  <2> QED
    BY <2>1, <2>2
<1>4. ASSUME NEW n \in 1 .. l PROVE NextPlace(n, w[n - 1]) = NextPlace(n, Walk(w, l)[n - 1])
  <2>1. CASE n = 1
    BY <2>1 DEF NextPlace
  <2>2. CASE n # 1
    <3>1. n - 1 \in 1 .. l - 1 /\ n - 1 \in 1 .. l /\ l # 0
      BY <2>2
    <3>2. w[n - 1] = Walk(w, l - 1)[n - 1]
      BY <1>3, <3>1
    <3>3. w[n - 1] = Walk(w, l)[n - 1]
      BY <3>1, <3>2
    <3> HIDE DEF Walk
    <3> QED
      BY <3>3
  <2> QED
    BY <2>1, <2>2
<1>5. Walk(w, l) = Walk(Walk(w, l), l)
  BY <1>4
<1>6. l \notin Not
  <2> HIDE DEF Walk
  <2> QED
    BY <1>5
<1> QED
  BY <1>2, <1>6

LEMMA PlaceDef ==
  ASSUME Len(mem) \in Nat, NEW n \in 1 .. Len(mem) + 1
  PROVE  Place[n] = NextPlace(n, Place[n - 1])
<1>1. \E place : place = [k \in 1 .. Len(mem) + 1 |-> NextPlace(k, place[k - 1])]
  BY PlaceExists
<1>2. Place = [k \in 1 .. Len(mem) + 1 |-> NextPlace(k, Place[k - 1])]
  BY <1>1 DEF Place, NextPlace, SkipBlanks
<1> HIDE DEF Place
<1> QED
  BY <1>2

\* The same, from one step of the walk to the next.
LEMMA PlaceAfter ==
  ASSUME Len(mem) \in Nat, NEW n, n \in 1 .. Len(mem)
  PROVE  Place[n + 1] = NextPlace(n + 1, Place[n])
<1> DEFINE m == n + 1
<1>1. m \in 1 .. Len(mem) + 1 /\ m - 1 = n
  OBVIOUS
<1> HIDE DEF m
<1>2. Place[m] = NextPlace(m, Place[m - 1])
  BY <1>1, PlaceDef
<1>3. Place[m] = NextPlace(m, Place[n])
  BY <1>1, <1>2
<1> QED
  BY <1>3 DEF m

\* From behind the tokens before it, or from the beginning, the walk comes to the
\* end of the token: before it there are only bars of empty commands and blanks.
LEMMA WalkTo ==
  ASSUME AllCut, NEW t \in Tokens, NEW b \in 1 .. t[1],
         \A u \in Tokens : u[1] < t[1] => u[2] + 1 < b
  PROVE  /\ \A k \in b .. t[1] - 1 : command.text[k] = "|"
         /\ \A k \in b .. t[2] : mem[k] = command.text[k]
         /\ SkipBlanks(b) \in b .. t[2] + 1
         /\ \A k \in b .. SkipBlanks(b) - 1 : command.text[k] = Blank
         /\ StrEnd(SkipBlanks(b)) = t[2] + 1
<1> DEFINE s == command.text
           N == Len(mem)
<1>1. /\ s \in Seq(Character) /\ mem \in Seq(Bytes) /\ N = Len(s) + 1 /\ Len(s) \in Nat
      /\ \A j \in 1 .. N : mem[j] = IF j = N \/ \E u \in Tokens : u[2] + 1 = j THEN NUL ELSE s[j]
  BY DEF AllCut, Cut
<1>2. /\ t[1] \in 1 .. Len(s) /\ t[2] \in 1 .. Len(s) /\ t[1] <= t[2]
      /\ \A k \in t[1] .. t[2] : ~IsBar(s, k)
  BY <1>1, TokenFacts DEF Tokens
<1>3. ASSUME NEW k \in b .. t[1] - 1 PROVE s[k] = "|"
  <2>1. k \in 1 .. Len(s) /\ k # 0 /\ k # Len(s) + 1
    BY <1>1, <1>2
  <2>2. ASSUME ~IsBar(s, k) PROVE FALSE
    <3>1. PICK v \in Tokens : v[1] <= k /\ k <= v[2]
      BY <1>1, <2>1, <2>2, TokenAround DEF Tokens
    <3>2. v[1] \in Nat /\ v[2] \in Nat
      BY <1>1, TokenFacts DEF Tokens
    <3>3. v[1] < t[1]
      BY <1>2, <3>1, <3>2
    <3> QED
      BY <3>1, <3>2, <3>3
  <2> QED
    BY <2>1, <2>2 DEF IsBar
<1>4. ASSUME NEW k \in b .. t[2] PROVE mem[k] = s[k] /\ s[k] \in Character /\ k \in 1 .. N
  <2>1. k \in 1 .. Len(s) /\ k \in 1 .. N /\ k # N
    BY <1>1, <1>2
  <2>2. ASSUME NEW u \in Tokens, u[2] + 1 = k PROVE FALSE
    <3>1. u[1] \in Nat /\ u[2] \in Nat /\ u[1] <= u[2] /\ IsBar(s, u[2] + 1)
      BY <1>1, TokenFacts DEF Tokens
    <3>2. k \notin t[1] .. t[2]
      BY <1>2, <2>2, <3>1
    <3>3. u[1] < t[1]
      BY <1>2, <2>2, <3>1, <3>2
    <3> QED
      BY <1>2, <2>2, <3>1, <3>3
  <2> QED
    BY <1>1, <2>1, <2>2
<1>5. mem[t[2] + 1] = NUL /\ mem[N] = NUL /\ t[2] + 1 \in 1 .. N /\ b \in 1 .. N /\ b <= t[2] + 1
  <2>1. t[2] + 1 \in 1 .. N /\ N \in 1 .. N /\ b \in 1 .. N /\ b <= t[2] + 1
    BY <1>1, <1>2
  <2> QED
    BY <1>1, <2>1
<1>6. /\ SkipBlanks(b) \in b .. N /\ \A k \in b .. SkipBlanks(b) - 1 : mem[k] = Blank
  BY <1>1, <1>5, Searches
<1>7. NUL # Blank
  BY Zenon DEF NUL, Blank
<1>8. SkipBlanks(b) \in b .. t[2] + 1
  <2>1. t[2] + 1 \notin b .. SkipBlanks(b) - 1
    BY <1>5, <1>6, <1>7
  <2> QED
    BY <1>1, <1>2, <1>5, <1>6, <2>1
<1>9. \A k \in b .. SkipBlanks(b) - 1 : s[k] = Blank
  <2>1. \A k \in b .. SkipBlanks(b) - 1 : k \in b .. t[2]
    BY <1>2, <1>8
  <2> QED
    BY <1>4, <1>6, <2>1
<1> DEFINE a == SkipBlanks(b)
<1>10. StrEnd(a) = t[2] + 1
  <2>1. a \in 1 .. N
    BY <1>1, <1>6
  <2> HIDE DEF a
  <2>2. /\ StrEnd(a) \in a .. N /\ mem[StrEnd(a)] = NUL
        /\ \A l \in a .. StrEnd(a) - 1 : mem[l] # NUL
    BY <1>1, <1>5, <2>1, Searches
  <2>3. t[2] + 1 \notin a .. StrEnd(a) - 1
    BY <1>5, <2>2
  <2>4. StrEnd(a) \notin b .. t[2]
    BY <1>4, <2>2 DEF Character
  <2>5. a \in b .. t[2] + 1
    BY <1>8 DEF a
  <2> QED
    BY <1>1, <1>2, <2>2, <2>3, <2>4, <2>5
<1> QED
  BY <1>3, <1>4, <1>8, <1>9, <1>10

\* The walk comes to a token from behind the tokens before it.
Walked(t) ==
  LET n == Rank(command.text, t)
  IN /\ n \in 1 .. t[1]
     /\ StrEnd(Place[n]) = t[2] + 1
     /\ \E b \in 1 .. t[1] : /\ \A u \in Tokens : u[1] < t[1] => u[2] + 1 < b
                            /\ Place[n] = SkipBlanks(b)

LEMMA WalkedFirst ==
  ASSUME AllCut, NEW t \in Tokens, \A u \in Tokens : ~(u[1] < t[1])
  PROVE  Walked(t)
<1>1. command.text \in Seq(Character) /\ Len(mem) \in Nat /\ Len(mem) # 0
  BY DEF AllCut, Cut
<1>2. Rank(command.text, t) = 1
  BY <1>1, RankFirst DEF Tokens
<1>3. t[1] \in Nat /\ 1 \in 1 .. t[1]
  BY <1>1, TokenFacts DEF Tokens
<1>4. Place[1] = SkipBlanks(1)
  <2>1. 1 \in 1 .. Len(mem) + 1 /\ ~(1 > Len(mem))
    BY <1>1
  <2>2. Place[1] = NextPlace(1, Place[1 - 1])
    BY <1>1, <2>1, PlaceDef
  <2> QED
    BY <2>1, <2>2 DEF NextPlace
<1>5. StrEnd(SkipBlanks(1)) = t[2] + 1
  BY <1>3, WalkTo
<1> QED
  BY <1>2, <1>3, <1>4, <1>5 DEF Walked

LEMMA WalkedNext ==
  ASSUME AllCut, NEW t \in Tokens, NEW p \in Tokens, p[1] < t[1], Walked(p),
         \A u \in Tokens : u[1] < t[1] => u[1] <= p[1]
  PROVE  Walked(t)
<1> DEFINE s == command.text
           n == Rank(s, p)
           b == p[2] + 2
<1>1. s \in Seq(Character) /\ Len(mem) \in Nat /\ Len(mem) = Len(s) + 1
  BY DEF AllCut, Cut
<1>2. /\ t[1] \in 1 .. Len(s) /\ p[1] \in 1 .. Len(s) /\ p[2] \in 1 .. Len(s)
  BY <1>1, TokenFacts DEF Tokens
<1>3. p[2] + 1 < t[1]
  BY <1>1, TokensApart DEF Tokens
<1>4. Rank(s, t) = n + 1 /\ n \in 1 .. p[1] /\ StrEnd(Place[n]) = p[2] + 1
  <2>1. Rank(s, t) = n + 1
    BY <1>1, RankNext DEF Tokens
  <2> QED
    BY <2>1 DEF Walked
<1>5. ASSUME NEW u \in Tokens, u[1] < t[1] PROVE u[2] + 1 < b
  <2>1. u[1] <= p[1] /\ u[1] \in Nat /\ u[2] \in Nat
    BY <1>1, <1>5, TokenFacts DEF Tokens
  <2>2. CASE u[1] = p[1]
    <3>1. u = p
      BY <1>1, <2>2, TokensApart DEF Tokens
    <3> QED
      BY <1>2, <3>1
  <2>3. CASE u[1] < p[1]
    <3>1. u[2] + 1 < p[1] /\ p[1] <= p[2]
      BY <1>1, <2>3, TokensApart, TokenFacts DEF Tokens
    <3> QED
      BY <1>2, <2>1, <3>1
  <2> QED
    BY <1>2, <2>1, <2>2, <2>3
<1>6. b \in 1 .. t[1] /\ n + 1 \in 1 .. t[1] /\ n \in 1 .. Len(mem) /\ n + 1 # 1
      /\ ~(b > Len(mem)) /\ p[2] + 1 + 1 = b
  <2> HIDE DEF n
  <2> QED
    BY <1>1, <1>2, <1>3, <1>4
<1>7. Place[n + 1] = SkipBlanks(b)
  <2> HIDE DEF n, b
  <2>1. Place[n + 1] = NextPlace(n + 1, Place[n])
    BY <1>1, <1>6, PlaceAfter
  <2> QED
    BY <1>4, <1>6, <2>1 DEF NextPlace
<1>8. StrEnd(SkipBlanks(b)) = t[2] + 1
  <2> HIDE DEF b
  <2> QED
    BY <1>5, <1>6, WalkTo
<1> HIDE DEF n, b
<1> QED
  BY <1>4, <1>5, <1>6, <1>7, <1>8 DEF Walked

\* By induction on where the tokens begin: the walk comes to every token.
LEMMA AllWalked == ASSUME AllCut, NEW v \in Tokens PROVE Walked(v)
<1> DEFINE Not == {u[1] : u \in {w \in Tokens : ~Walked(w)}}
<1>1. command.text \in Seq(Character)
  BY DEF AllCut, Cut
<1>2. SUFFICES ASSUME v[1] \in Not PROVE FALSE
  OBVIOUS
<1>3. PICK m \in Not : \A k \in Not : m <= k
  <2>1. Not \in SUBSET Nat
    BY <1>1, TokenStarts DEF Tokens
  <2> HIDE DEF Not
  <2> QED
    BY <1>2, <2>1, Least
<1>4. PICK t \in Tokens : ~Walked(t) /\ m = t[1]
  BY <1>3
<1>5. PICK u \in Tokens : u[1] < t[1]
  BY <1>4, WalkedFirst
<1>6. PICK p \in Tokens : p[1] < t[1] /\ \A w \in Tokens : w[1] < t[1] => w[1] <= p[1]
  BY <1>1, <1>5, TokenBefore DEF Tokens
<1>7. Walked(p)
  <2>1. p[1] \in Nat /\ t[1] \in Nat
    BY <1>1, TokenStarts DEF Tokens
  <2>2. p[1] \notin Not
    <3> HIDE DEF Not
    <3> QED
      BY <1>3, <1>4, <1>6, <2>1
  <2> QED
    BY <2>2
<1> QED
  BY <1>4, <1>6, <1>7, WalkedNext

\* Blanks and bars are left out from the front, whatever is behind.
LEMMA StripFrom ==
  ASSUME NEW z \in Seq(Bytes), NEW a \in Nat \ {0}, NEW e \in 0 .. Len(z), NEW q \in a .. e + 1,
         q <= e => z[q] \notin {Blank, "|"},
         \A l \in a .. q - 1 : z[l] \in {Blank, "|"}
  PROVE  Stripped(SubSeq(z, a, e), 1) = SubSeq(z, q, e)
<1> DEFINE x == SubSeq(z, a, e)
           skip == q - a + 1
           Skips(j) == /\ j <= Len(x) => x[j] \notin {Blank, "|"}
                       /\ \A l \in 1 .. j - 1 : x[l] \in {Blank, "|"}
<1>1. /\ Len(z) \in Nat /\ a \in Nat /\ 1 <= a /\ e \in Nat /\ e <= Len(z)
      /\ q \in Nat /\ a <= q /\ q <= e + 1
  OBVIOUS
<1>2. x \in Seq(Bytes) /\ Len(x) = e - a + 1 /\ \A j \in 1 .. e - a + 1 : x[j] = z[a + j - 1]
  BY <1>1
<1>3. skip \in 1 .. Len(x) + 1 /\ Skips(skip)
  <2>1. skip \in 1 .. Len(x) + 1 /\ a + skip - 1 = q
    <3> HIDE DEF x
    <3> QED
      BY <1>1, <1>2
  <2>2. skip <= Len(x) => x[skip] \notin {Blank, "|"}
    <3> SUFFICES ASSUME skip <= Len(x) PROVE x[skip] \notin {Blank, "|"}
      OBVIOUS
    <3>1. skip \in 1 .. e - a + 1 /\ q <= e
      <4> HIDE DEF x
      <4> QED
        BY <1>1, <1>2, <2>1
    <3>2. x[skip] = z[a + skip - 1]
      <4> HIDE DEF x, skip
      <4> QED
        BY <1>2, <3>1
    <3> HIDE DEF x, skip
    <3> QED
      BY <2>1, <3>1, <3>2
  <2>3. ASSUME NEW l \in 1 .. skip - 1 PROVE x[l] \in {Blank, "|"}
    <3>1. l \in 1 .. e - a + 1 /\ a + l - 1 \in a .. q - 1
      BY <1>1
    <3>2. x[l] = z[a + l - 1]
      <4> HIDE DEF x, skip
      <4> QED
        BY <1>2, <3>1
    <3> HIDE DEF x, skip
    <3> QED
      BY <3>1, <3>2
  <2> QED
    BY <2>1, <2>2, <2>3
<1>4. ASSUME NEW j \in 1 .. Len(x) + 1, Skips(j) PROVE j = skip
  <2>1. ~(j < skip)
    <3> SUFFICES ASSUME j < skip PROVE FALSE
      OBVIOUS
    <3>1. j \in 1 .. skip - 1 /\ j <= Len(x)
      <4> HIDE DEF x
      <4> QED
        BY <1>1, <1>2, <1>3
    <3> HIDE DEF x, skip
    <3> QED
      BY <1>3, <1>4, <3>1
  <2>2. ~(skip < j)
    <3> SUFFICES ASSUME skip < j PROVE FALSE
      OBVIOUS
    <3>1. skip \in 1 .. j - 1 /\ skip <= Len(x)
      <4> HIDE DEF x
      <4> QED
        BY <1>1, <1>2, <1>3
    <3> HIDE DEF x, skip
    <3> QED
      BY <1>3, <1>4, <3>1
  <2>3. j \in Int /\ skip \in Int
    BY <1>1
  <2> HIDE DEF x, skip
  <2> QED
    BY <2>1, <2>2, <2>3
<1>5. Stripped(x, 1) = SubSeq(x, skip, Len(x))
  <2>1. skip = CHOOSE j \in 1 .. Len(x) + 1 : Skips(j)
    <3> HIDE DEF x, skip, Skips
    <3> QED
      BY <1>3, <1>4
  <2>2. Stripped(x, 1) = SubSeq(x, CHOOSE j \in 1 .. Len(x) + 1 : Skips(j), Len(x))
    <3> HIDE DEF x, skip
    <3> QED
      BY DEF Stripped
  <2> HIDE DEF x, skip, Skips
  <2> QED
    BY <2>1, <2>2
<1>6. SubSeq(x, skip, Len(x)) = SubSeq(z, q, e)
  <2>1. /\ skip \in 1 .. Len(x) + 1 /\ Len(x) - skip + 1 = e - q + 1 /\ e - q + 1 \in Nat
        /\ \A j \in 1 .. e - q + 1 : /\ skip + j - 1 \in 1 .. e - a + 1
                                     /\ a + (skip + j - 1) - 1 = q + j - 1
    <3> HIDE DEF x
    <3> QED
      BY <1>1, <1>2
  <2> DEFINE l == SubSeq(x, skip, Len(x))
             r == SubSeq(z, q, e)
             len == e - q + 1
  <2> HIDE DEF x, skip
  <2>2. /\ SubSeq(x, skip, Len(x)) \in Seq(Bytes) /\ Len(SubSeq(x, skip, Len(x))) = e - q + 1
        /\ \A j \in 1 .. e - q + 1 : SubSeq(x, skip, Len(x))[j] = x[skip + j - 1]
    BY <1>1, <1>2, <2>1
  <2>3. /\ SubSeq(z, q, e) \in Seq(Bytes) /\ Len(SubSeq(z, q, e)) = e - q + 1
        /\ \A j \in 1 .. e - q + 1 : SubSeq(z, q, e)[j] = z[q + j - 1]
    BY <1>1, <2>1
  <2>4. \A j \in 1 .. e - q + 1 : SubSeq(x, skip, Len(x))[j] = SubSeq(z, q, e)[j]
    BY <1>2, <2>1, <2>2, <2>3
  <2>5. /\ l \in Seq(Bytes) /\ r \in Seq(Bytes) /\ Len(l) = len /\ Len(r) = len
        /\ \A j \in 1 .. len : l[j] = r[j]
    BY <2>2, <2>3, <2>4
  <2> HIDE DEF l, r, len
  <2>6. l = r
    BY <2>5
  <2> QED
    BY <2>6 DEF l, r
<1> QED
  BY <1>5, <1>6

\* A difference, where the prover has to be told that it is one of numbers.
LEMMA OneBack == ASSUME NEW k \in Int, NEW x, x = k + 1 PROVE x - 1 = k
OBVIOUS

\* What the walk finds of a token is what the text says, bars and blanks aside.
LEMMA TokenFound ==
  ASSUME AllCut, NEW t \in Tokens
  PROVE  LET n == Rank(command.text, t)
         IN /\ Place[n] <= Len(mem)
            /\ Stripped(Text(n), 1) = Stripped(SubSeq(command.text, t[1], t[2]), 1)
<1> DEFINE s == command.text
           n == Rank(s, t)
           a == Place[n]
           e == t[2]
           Skip(k) == s[k] \in {Blank, "|"}
<1>1. s \in Seq(Character) /\ s \in Seq(Bytes) /\ mem \in Seq(Bytes) /\ Len(mem) = Len(s) + 1 /\ Len(s) \in Nat
  BY DEF AllCut, Cut, Bytes
<1>2. t[1] \in 1 .. Len(s) /\ e \in 1 .. Len(s) /\ t[1] <= e
  BY <1>1, TokenFacts DEF Tokens
<1>3. PICK b \in 1 .. t[1] : (\A u \in Tokens : u[1] < t[1] => u[2] + 1 < b) /\ a = SkipBlanks(b)
  BY AllWalked DEF Walked
<1>4. /\ \A k \in b .. t[1] - 1 : s[k] = "|"
      /\ \A k \in b .. e : mem[k] = s[k]
      /\ a \in b .. e + 1
      /\ \A k \in b .. a - 1 : s[k] = Blank
      /\ StrEnd(a) = e + 1
  <2> HIDE DEF a
  <2> QED
    BY <1>3, WalkTo
<1>5. PICK q \in t[1] .. e + 1 : /\ q <= e => ~Skip(q)
                                 /\ \A l \in t[1] .. q - 1 : Skip(l)
  <2> DEFINE S == {k \in 1 .. e + 1 : k = e + 1 \/ ~Skip(k)}
  <2>1. S \in SUBSET Nat /\ t[1] \in Nat /\ e + 1 \in S /\ t[1] <= e + 1
    BY <1>2
  <2>2. PICK q \in t[1] .. e + 1 : q \in S /\ \A l \in t[1] .. q - 1 : l \notin S
    <3> HIDE DEF S, e
    <3> QED
      BY <2>1, FirstFound
  <2>3. q <= e => ~Skip(q)
    BY <1>2, <2>2
  <2>4. ASSUME NEW l \in t[1] .. q - 1 PROVE Skip(l)
    <3>1. l \in 1 .. e + 1
      BY <1>2, <2>2
    <3>2. l \notin S
      BY <2>2
    <3> QED
      BY <3>1, <3>2
  <2> QED
    BY <2>3, <2>4
<1> HIDE DEF n, a, e
<1>6. /\ a \in Nat \ {0} /\ a <= q /\ q \in a .. e + 1 /\ e \in 0 .. Len(mem) /\ e \in 0 .. Len(s)
      /\ t[1] \in Nat \ {0} /\ a <= Len(mem) /\ b <= a
  <2>1. ASSUME q < a PROVE FALSE
    <3>1. q \in b .. a - 1 /\ q <= e
      BY <1>2, <1>4, <2>1
    <3>2. Skip(q)
      BY <1>4, <3>1
    <3> QED
      BY <1>5, <3>1, <3>2
  <2> QED
    BY <1>1, <1>2, <1>4, <2>1
<1>7. \A l \in a .. q - 1 : Skip(l) /\ l \in b .. e
  <2> SUFFICES ASSUME NEW l \in a .. q - 1 PROVE Skip(l) /\ l \in b .. e
    OBVIOUS
  <2>1. l \in b .. e
    BY <1>2, <1>6
  <2>2. l \in b .. t[1] - 1 \/ l \in t[1] .. q - 1
    BY <1>2, <2>1
  <2> QED
    BY <1>4, <1>5, <2>1, <2>2
<1>8. Stripped(SubSeq(mem, a, e), 1) = SubSeq(mem, q, e)
  <2>1. q <= e => mem[q] \notin {Blank, "|"}
    <3>1. q <= e => q \in b .. e
      BY <1>2, <1>6
    <3> QED
      BY <1>4, <1>5, <3>1
  <2>2. \A l \in a .. q - 1 : mem[l] \in {Blank, "|"}
    BY <1>4, <1>7
  <2> QED
    BY <1>1, <1>6, <2>1, <2>2, StripFrom
<1>9. Stripped(SubSeq(s, t[1], e), 1) = SubSeq(s, q, e)
  BY <1>1, <1>2, <1>5, <1>6, StripFrom
<1>10. SubSeq(mem, q, e) = SubSeq(s, q, e)
  <2>1. /\ q \in Nat \ {0} /\ q <= e + 1 /\ e - q + 1 \in Nat
        /\ \A j \in 1 .. e - q + 1 : q + j - 1 \in b .. e
    BY <1>2, <1>6
  <2>2. /\ SubSeq(mem, q, e) \in Seq(Bytes) /\ Len(SubSeq(mem, q, e)) = e - q + 1
        /\ \A j \in 1 .. e - q + 1 : SubSeq(mem, q, e)[j] = mem[q + j - 1]
    BY <1>1, <1>6, <2>1
  <2>3. /\ SubSeq(s, q, e) \in Seq(Bytes) /\ Len(SubSeq(s, q, e)) = e - q + 1
        /\ \A j \in 1 .. e - q + 1 : SubSeq(s, q, e)[j] = s[q + j - 1]
    BY <1>1, <1>6, <2>1
  <2>4. \A j \in 1 .. e - q + 1 : SubSeq(mem, q, e)[j] = SubSeq(s, q, e)[j]
    BY <1>4, <2>1, <2>2, <2>3
  <2> QED
    BY <2>2, <2>3, <2>4
<1>11. Text(n) = SubSeq(mem, a, e)
  <2>1. StrEnd(Place[n]) = e + 1 /\ Place[n] = a
    BY <1>4 DEF a
  <2>2. StrEnd(Place[n]) - 1 = e
    BY <1>2, <2>1, OneBack
  <2> QED
    BY <2>1, <2>2 DEF Text
<1> QED
  BY <1>6, <1>8, <1>9, <1>10, <1>11 DEF n, a, e

-----------------------------------------------------------------------------
(* From the options to the commands. *)

\* What holds of the text of -c before strtok, while it runs, and behind it.
FoundInv ==
  /\ OptionsInv /\ command.text \in Seq(Character)
  /\ pc \in {"options", "winsock"} => save = 1 /\ cuts = 0
  /\ pc = "count" => Cutting
  /\ pc \notin {"options", "winsock", "usage", "count"} => AllCut

LEMMA FoundInitInv == MainInit => FoundInv
<1> SUFFICES ASSUME MainInit PROVE FoundInv
  OBVIOUS
<1>1. OptionsInv
  BY ReadInitInv DEF MainInit, OptionsInv, OptInit, NUL, EOF
<1>2. command.text = <<>> /\ save = 1 /\ cuts = 0 /\ pc = "options"
  BY DEF MainInit
<1> QED
  BY <1>1, <1>2 DEF FoundInv

\* Before strtok the memory is the text.
LEMMA WinsockFound ==
  ASSUME FoundInv, Winsock PROVE pc' = "count" => Cutting'
<1> DEFINE s == command.text
<1>1. /\ s \in Seq(Character) /\ save = 1 /\ cuts = 0 /\ mem' = Append(s, NUL)
      /\ UNCHANGED <<command, save, cuts>>
  BY DEF FoundInv, Winsock
<1>2. Tokens' = Tokens
  BY <1>1 DEF Tokens
<1>3. {t \in Tokens : t[2] < 1} = {}
  BY <1>1, TokenFacts DEF Tokens
<1>4. /\ mem' \in Seq(Bytes) /\ Len(mem') = Len(s) + 1 /\ Len(s) \in Nat
      /\ \A j \in 1 .. Len(s) + 1 : mem'[j] = IF j = Len(s) + 1 THEN NUL ELSE s[j]
  <2>1. s \in Seq(Bytes) /\ NUL \in Bytes /\ Len(s) \in Nat
    BY <1>1 DEF Bytes
  <2> HIDE DEF s
  <2> QED
    BY <1>1, <2>1
<1>5. {t \in Tokens' : t[2] < save'} = {}
  BY <1>1, <1>2, <1>3
<1>6. 0 = Cardinality({})
  BY FS_EmptySet
<1>7. Cut({t \in Tokens : t[2] < save})'
  BY <1>1, <1>4, <1>5, <1>6 DEF Cut
<1>8. IsBar(s, 1 - 1)
  BY DEF IsBar
<1> QED
  BY <1>1, <1>4, <1>7, <1>8 DEF Cutting

LEMMA FoundNextInv == FoundInv /\ [MainNext]_mainVars => FoundInv'
<1> SUFFICES ASSUME FoundInv, [MainNext]_mainVars PROVE FoundInv'
  OBVIOUS
<1>1. OptionsInv'
  BY OptionsNextInv DEF FoundInv
<1>2. CASE Option
  <2>1. command'.text \in Seq(Character)
    <3>1. optarg' \in Seq(Character)
      BY <1>1 DEF OptionsInv, ReadInv
    <3>2. command' = [given |-> TRUE, text |-> optarg'] \/ command' = command
      BY <1>2 DEF Option
    <3> QED
      BY <3>1, <3>2 DEF FoundInv
  <2>2. pc = "options" /\ pc' \in {"usage", "winsock", "options"} /\ UNCHANGED <<save, cuts>>
    BY <1>2 DEF Option, lineVars
  <2> QED
    BY <1>1, <2>1, <2>2 DEF FoundInv
<1>3. CASE Winsock
  <2>1. pc = "winsock" /\ pc' \in {"count", "usage"} /\ UNCHANGED command
    BY <1>3 DEF Winsock
  <2>2. pc' = "count" => Cutting'
    BY <1>3, WinsockFound
  <2> QED
    BY <1>1, <2>1, <2>2 DEF FoundInv
<1>4. CASE Strtok
  <2>1. pc = "count" /\ UNCHANGED command
    BY <1>4 DEF Strtok
  <2>2. (pc' = "count" /\ Cutting') \/ (pc' = "input" /\ AllCut')
    BY <1>4, <2>1, StrtokCut DEF FoundInv
  <2> QED
    BY <1>1, <2>1, <2>2 DEF FoundInv
<1>5. CASE NoCommand \/ SetUp
  <2>1. UNCHANGED <<command, mem, cuts>>
    BY <1>5 DEF NoCommand, SetUp, lineVars
  <2>2. pc \notin {"options", "winsock", "usage", "count"} /\ pc' \notin {"options", "winsock", "usage", "count"}
    BY <1>5 DEF NoCommand, SetUp, Next, ConnectInput, ConnectInputFails, AddCommand,
                AddNamedCommand, AddCommandFails, AddNamedCommandFails, ConnectNext,
                ConnectNextFails, ConnectOutput, ConnectOutputFails, Done, GotoTidy, vars
  <2>3. AllCut'
    BY <2>1, <2>2 DEF FoundInv, AllCut, Cut, Tokens
  <2> QED
    BY <1>1, <2>1, <2>2, <2>3 DEF FoundInv
<1>6. CASE MainEnded \/ UNCHANGED mainVars
  <2>1. UNCHANGED <<command, mem, save, cuts, pc>>
    BY <1>6 DEF MainEnded, mainVars, lineVars, vars
  <2> QED
    BY <1>1, <2>1 DEF FoundInv, Cutting, AllCut, Cut, Tokens
<1> QED
  BY <1>2, <1>3, <1>4, <1>5, <1>6 DEF MainNext

\* The walk by strlen and the count by strtok agree for every text of -c, with
\* empty commands, blanks and bars anywhere: as many commands are counted as the
\* text has, the walk finds the n-th of them at its n-th step, and it stays inside
\* the string.
THEOREM CommandsFoundCorrect == MainSpec => []CommandsFound
<1>1. FoundInv => CommandsFound
  <2> SUFFICES ASSUME FoundInv, pc \notin {"options", "winsock", "count", "usage"}
               PROVE  /\ cuts = Cardinality(Tokens)
                      /\ \A t \in Tokens :
                           LET n == Rank(command.text, t)
                           IN /\ Place[n] <= Len(mem)
                              /\ Stripped(Text(n), 1)
                                   = Stripped(SubSeq(command.text, t[1], t[2]), 1)
    BY DEF CommandsFound
  <2>1. AllCut
    BY DEF FoundInv
  <2> QED
    BY <2>1, TokenFound DEF AllCut, Cut
<1> QED
  BY <1>1, FoundInitInv, FoundNextInv, PTL DEF MainSpec
=============================================================================
