------------------------ MODULE SocketWrapperProofs ------------------------
(***************************************************************************)
(* Proofs about SocketWrapper, for every number of steps, every assignment *)
(* of worker threads and named pipes, every bound and every set of faults: *)
(* its types and its waits; then the blocks a pipeline holds, which are in *)
(* order; that nothing survives the exit; and that it implements Relay.    *)
(***************************************************************************)
EXTENDS SocketWrapper, SequenceTheorems, WellFoundedInduction, TLAPS

USE DEF Step, Child, Link, Pipe, Main, NoStep, Junk,
        mainVars, flowVars, envVars, holdVars, vars

-----------------------------------------------------------------------------
(* Typing. *)

\* Moving a block keeps links and buffers sequences of numbers.
LEMMA TakeType ==
  ASSUME TypeOK, NEW i \in Step, pipe[i] # <<>>, Take(i)
  PROVE  /\ pipe' \in [Link -> Seq(Nat)]
         /\ buf' \in [Step -> Seq(Nat)]
         /\ nBlocks' \in [Step -> Nat]
<1>1. i \in Link /\ pipe[i] \in Seq(Nat) /\ buf[i] \in Seq(Nat)
  BY StepAssumption DEF TypeOK
<1>2. Head(pipe[i]) \in Nat /\ Tail(pipe[i]) \in Seq(Nat)
  BY <1>1, HeadTailProperties
<1>3. Append(buf[i], Head(pipe[i])) \in Seq(Nat)
  BY <1>1, <1>2, AppendProperties
<1>4. pipe' = [pipe EXCEPT ![i] = Tail(pipe[i])]
      /\ buf' = [buf EXCEPT ![i] = Append(buf[i], Head(pipe[i]))]
      /\ nBlocks' = [nBlocks EXCEPT ![i] = nBlocks[i] + 1]
  BY DEF Take
<1>5. pipe' \in [Link -> Seq(Nat)]
  BY <1>1, <1>2, <1>4 DEF TypeOK
<1>6. buf' \in [Step -> Seq(Nat)]
  BY <1>3, <1>4 DEF TypeOK
<1>7. nBlocks' \in [Step -> Nat]
  BY <1>4 DEF TypeOK
<1> QED BY <1>5, <1>6, <1>7

LEMMA GiveType ==
  ASSUME TypeOK, NEW i \in Step, buf[i] # <<>>, Give(i)
  PROVE  /\ pipe' \in [Link -> Seq(Nat)]
         /\ buf' \in [Step -> Seq(Nat)]
<1>1. i + 1 \in Link /\ pipe[i + 1] \in Seq(Nat) /\ buf[i] \in Seq(Nat)
  BY StepAssumption DEF TypeOK
<1>2. Head(buf[i]) \in Nat /\ Tail(buf[i]) \in Seq(Nat)
  BY <1>1, HeadTailProperties
<1>3. Append(pipe[i + 1], Head(buf[i])) \in Seq(Nat)
  BY <1>1, <1>2, AppendProperties
<1>4. pipe' = [pipe EXCEPT ![i + 1] = Append(pipe[i + 1], Head(buf[i]))]
      /\ buf' = [buf EXCEPT ![i] = Tail(buf[i])]
  BY DEF Give
<1>5. pipe' \in [Link -> Seq(Nat)]
  BY <1>1, <1>3, <1>4 DEF TypeOK
<1>6. buf' \in [Step -> Seq(Nat)]
  BY <1>2, <1>4 DEF TypeOK
<1> QED BY <1>5, <1>6
\* A thread holds one block at most, and one exactly between its read and its
\* write.  (A write of nothing would not type.)
BufferFits(i) ==
  /\ Len(buf[i]) <= 1
  /\ st[i] = "write" => buf[i] # <<>>
  /\ st[i] \in {"idle", "start", "connect", "read"} => buf[i] = <<>>

ThreadBuffers == \A i \in Worker : BufferFits(i)

\* Main has not started the threads its loop has yet to reach.
PumpsAhead == mpc = "pumps" => \A i \in Worker : i >= mi => st[i] = "idle"

TypeInv == TypeOK /\ ThreadBuffers /\ PumpsAhead

\* Only stage i changes.
LEMMA OneBuffer ==
  ASSUME TypeInv, NEW i \in Step, i \in Worker => BufferFits(i)',
         \A j \in Step \ {i} : buf'[j] = buf[j] /\ st'[j] = st[j]
  PROVE  ThreadBuffers'
<1> SUFFICES ASSUME NEW j \in Worker PROVE BufferFits(j)'
  BY DEF ThreadBuffers
<1>1. CASE j = i
  BY <1>1
<1>2. CASE j # i
  BY <1>2, StepAssumption DEF TypeInv, ThreadBuffers, BufferFits
<1> QED BY <1>1, <1>2

\* The state of stage i changes, and no buffer does.
LEMMA OneState ==
  ASSUME TypeInv, NEW i \in Step, UNCHANGED buf,
         NEW s \in {"start", "connect", "read", "flush", "run", "ended", "killed"},
         st' = [st EXCEPT ![i] = s],
         i \in Worker /\ s \in {"start", "connect", "read"} => buf[i] = <<>>
  PROVE  ThreadBuffers'
<1>1. st'[i] = s /\ \A j \in Step \ {i} : st'[j] = st[j]
  BY DEF TypeInv, TypeOK
<1>2. i \in Worker => Len(buf[i]) <= 1
  BY DEF TypeInv, ThreadBuffers, BufferFits
<1>3. i \in Worker => BufferFits(i)'
  BY <1>1, <1>2, EmptySeq DEF BufferFits
<1> QED BY <1>1, <1>3, OneBuffer

LEMMA SameBuffers ==
  ASSUME TypeInv, UNCHANGED <<buf, st>>
  PROVE  ThreadBuffers'
BY DEF TypeInv, ThreadBuffers, BufferFits

LEMMA InitType == Init => TypeInv
<1> SUFFICES ASSUME Init PROVE TypeInv
  OBVIOUS
<1>1. <<>> \in Seq(Nat) /\ Len(<<>>) = 0
  OBVIOUS
<1>2. TypeOK
  BY <1>1, StepAssumption, BoundAssumption DEF Init, TypeOK
<1>3. ThreadBuffers /\ PumpsAhead
  BY <1>1, StepAssumption DEF Init, ThreadBuffers, BufferFits, PumpsAhead
<1> QED BY <1>2, <1>3 DEF TypeInv

\* A step of a thread.
LEMMA ThreadType ==
  ASSUME TypeInv, NEW i \in Worker, ThreadStep(i)
  PROVE  TypeInv'
<1>0a. i \in Step /\ i \in Link
  BY StepAssumption
<1>0b. TypeOK /\ BufferFits(i)
  BY DEF TypeInv, ThreadBuffers
<1>0c. pipe[i] \in Seq(Nat) /\ buf[i] \in Seq(Nat)
  BY <1>0a, <1>0b DEF TypeOK
<1>0. i \in Step /\ TypeOK /\ BufferFits(i) /\ pipe[i] \in Seq(Nat) /\ buf[i] \in Seq(Nat)
  BY <1>0a, <1>0b, <1>0c
<1>1. CASE ThreadConnect(i)
  <2>1. TypeOK'
    BY <1>0, <1>1 DEF ThreadConnect, TypeOK
  <2>2. ThreadBuffers'
    BY <1>0, <1>1, OneState DEF ThreadConnect, BufferFits
  <2> QED BY <1>0, <1>1, <2>1, <2>2 DEF TypeInv, PumpsAhead, ThreadConnect, TypeOK
<1>2. CASE ThreadConnected(i)
  <2>1. TypeOK'
    BY <1>0, <1>2 DEF ThreadConnected, TypeOK
  <2>2. ThreadBuffers'
    BY <1>0, <1>2, OneState DEF ThreadConnected, BufferFits
  <2> QED BY <1>0, <1>2, <2>1, <2>2 DEF TypeInv, PumpsAhead, ThreadConnected, TypeOK
<1>3. CASE ThreadRead(i)
  <2>1. /\ pipe' \in [Link -> Seq(Nat)]
        /\ buf' \in [Step -> Seq(Nat)]
        /\ nBlocks' \in [Step -> Nat]
    BY <1>0, <1>3, TakeType DEF ThreadRead
  <2>2. TypeOK'
    BY <1>0, <1>3, <2>1 DEF ThreadRead, TypeOK
  <2>3. buf[i] = <<>> /\ pipe[i] # <<>>
    BY <1>0, <1>3 DEF ThreadRead, BufferFits
  <2>4. buf' = [buf EXCEPT ![i] = Append(buf[i], Head(pipe[i]))]
    BY <1>3 DEF ThreadRead, Take
  <2>5. Len(buf'[i]) = 1 /\ buf'[i] # <<>>
    BY <1>0, <2>3, <2>4, HeadTailProperties, AppendProperties, EmptySeq DEF TypeOK
  <2>6. st' = [st EXCEPT ![i] = "write"]
    BY <1>3 DEF ThreadRead
  <2>7. BufferFits(i)'
    BY <1>0, <2>5, <2>6 DEF BufferFits, TypeOK
  <2>8. ThreadBuffers'
    BY <1>0, <2>4, <2>6, <2>7, OneBuffer DEF TypeOK
  <2> QED BY <1>0, <1>3, <2>2, <2>8 DEF TypeInv, PumpsAhead, ThreadRead, TypeOK
<1>4. CASE ThreadReadEnds(i)
  <2>1. TypeOK'
    BY <1>0, <1>4 DEF ThreadReadEnds, TypeOK
  <2>2. ThreadBuffers'
    BY <1>0, <1>4, OneState DEF ThreadReadEnds
  <2> QED BY <1>0, <1>4, <2>1, <2>2 DEF TypeInv, PumpsAhead, ThreadReadEnds, TypeOK
<1>5. CASE ThreadWrite(i)
  <2>0. buf[i] # <<>> /\ Len(buf[i]) <= 1
    BY <1>0, <1>5 DEF ThreadWrite, BufferFits
  <2>1. /\ pipe' \in [Link -> Seq(Nat)]
        /\ buf' \in [Step -> Seq(Nat)]
    BY <1>0, <1>5, <2>0, GiveType DEF ThreadWrite
  <2>2a. WatchDog' \in [Step -> Nat]
    <3>1. WatchDog' = [WatchDog EXCEPT ![i] = WatchDog[i] + 1]
      BY <1>5 DEF ThreadWrite
    <3>2. WatchDog \in [Step -> Nat]
      BY <1>0 DEF TypeOK
    <3> QED BY <1>0, <3>1, <3>2
  <2>2b. st' \in [Step -> {"idle", "start", "connect", "read", "write", "flush",
                          "run", "ended", "killed"}]
    BY <1>0, <1>5 DEF ThreadWrite, TypeOK
  <2>2. TypeOK'
    BY <1>0, <1>5, <2>1, <2>2a, <2>2b DEF ThreadWrite, TypeOK
  <2>3. buf' = [buf EXCEPT ![i] = Tail(buf[i])]
    BY <1>5 DEF ThreadWrite, Give
  <2>4. Tail(buf[i]) \in Seq(Nat) /\ Len(Tail(buf[i])) = 0
    <3>1. Len(buf[i]) \in Nat \ {0}
      BY <1>0, <2>0, EmptySeq
    <3>2. Tail(buf[i]) \in Seq(Nat) /\ Len(Tail(buf[i])) = Len(buf[i]) - 1
      BY <1>0, <2>0, HeadTailProperties
    <3>3. \A n \in Nat \ {0} : n <= 1 => n - 1 = 0
      OBVIOUS
    <3>4. Len(buf[i]) - 1 = 0
      BY <2>0, <3>1, <3>3, Zenon
    <3> QED BY <3>2, <3>4
  <2>5. buf'[i] = <<>> /\ Len(buf'[i]) = 0
    BY <1>0, <2>3, <2>4, EmptySeq DEF TypeOK
  <2>6. st' = [st EXCEPT ![i] = "read"]
    BY <1>5 DEF ThreadWrite
  <2>7. BufferFits(i)'
    BY <1>0, <2>5, <2>6 DEF BufferFits, TypeOK
  <2>8. ThreadBuffers'
    BY <1>0, <2>3, <2>6, <2>7, OneBuffer DEF TypeOK
  <2> QED BY <1>0, <1>5, <2>2, <2>8 DEF TypeInv, PumpsAhead, ThreadWrite, TypeOK
<1>6. CASE ThreadWriteFails(i)
  <2>1. TypeOK'
    BY <1>0, <1>6 DEF ThreadWriteFails, TypeOK
  <2>2. ThreadBuffers'
    BY <1>0, <1>6, OneState DEF ThreadWriteFails
  <2> QED BY <1>0, <1>6, <2>1, <2>2 DEF TypeInv, PumpsAhead, ThreadWriteFails, TypeOK
<1>7. CASE ThreadFlush(i)
  <2>1. TypeOK'
    BY <1>0, <1>7 DEF ThreadFlush, CloseOutput, TypeOK
  <2>2. ThreadBuffers'
    BY <1>0, <1>7, OneState DEF ThreadFlush
  <2> QED BY <1>0, <1>7, <2>1, <2>2 DEF TypeInv, PumpsAhead, ThreadFlush, TypeOK
<1> QED BY <1>1, <1>2, <1>3, <1>4, <1>5, <1>6, <1>7 DEF ThreadStep

\* A step of a helper command.
LEMMA ChildType ==
  ASSUME TypeInv, NEW i \in Child, ChildStep(i)
  PROVE  TypeInv'
<1>0. i \in Step /\ i \notin Worker /\ TypeOK
  BY DEF TypeInv
<1>1. CASE ChildOpen(i)
  <2>1. i + 1 \in Named /\ i + 1 \in Pipe
    BY <1>1, StepAssumption DEF ChildOpen, HasOutput
  <2>2. TypeOK'
    BY <1>0, <1>1, <2>1 DEF ChildOpen, TypeOK
  <2>3. ThreadBuffers'
    BY <1>1, SameBuffers DEF ChildOpen
  <2> QED BY <1>1, <2>2, <2>3 DEF TypeInv, PumpsAhead, ChildOpen
<1>2. CASE ChildRead(i)
  <2>1. /\ pipe' \in [Link -> Seq(Nat)]
        /\ buf' \in [Step -> Seq(Nat)]
        /\ nBlocks' \in [Step -> Nat]
    BY <1>0, <1>2, TakeType DEF ChildRead
  <2>2. TypeOK'
    BY <1>2, <1>0, <2>1 DEF ChildRead, TypeOK
  <2>3. \A j \in Step \ {i} : buf'[j] = buf[j] /\ st'[j] = st[j]
    BY <1>0, <1>2 DEF ChildRead, Take, TypeOK
  <2>4. ThreadBuffers'
    BY <1>0, <2>3, OneBuffer
  <2> QED BY <1>2, <2>2, <2>4 DEF TypeInv, PumpsAhead, ChildRead
<1>3. CASE ChildWrite(i)
  <2>1. /\ pipe' \in [Link -> Seq(Nat)]
        /\ buf' \in [Step -> Seq(Nat)]
    BY <1>0, <1>3, GiveType DEF ChildWrite, WantsOutput
  <2>2. TypeOK'
    BY <1>3, <1>0, <2>1 DEF ChildWrite, TypeOK
  <2>3. \A j \in Step \ {i} : buf'[j] = buf[j] /\ st'[j] = st[j]
    BY <1>0, <1>3 DEF ChildWrite, Give, TypeOK
  <2>4. ThreadBuffers'
    BY <1>0, <2>3, OneBuffer
  <2> QED BY <1>3, <2>2, <2>4 DEF TypeInv, PumpsAhead, ChildWrite
<1>4. CASE ChildExit(i)
  <2>1. TypeOK'
    BY <1>0, <1>4 DEF ChildExit, LetGo, TypeOK
  <2>2. ThreadBuffers'
    BY <1>0, <1>4, OneState DEF ChildExit
  <2> QED BY <1>0, <1>4, <2>1, <2>2, StepAssumption DEF TypeInv, PumpsAhead, ChildExit, TypeOK
<1> QED BY <1>1, <1>2, <1>3, <1>4 DEF ChildStep

LEMMA AdvanceType ==
  ASSUME mi \in Step, NEW next, Advance(next)
  PROVE  mi' \in Step /\ \/ mpc' = mpc /\ mi' = mi + 1
                         \/ mpc' = next /\ mi' = 0
BY StepAssumption DEF Advance

\* A step of the main thread or of the heap.
LEMMA MainType ==
  ASSUME TypeInv, MainStep \/ HeapCrash
  PROVE  TypeInv'
<1>0. mi \in Step /\ TypeOK /\ mi \in Int
  BY DEF TypeInv, TypeOK
<1>1. CASE StartThread
  <2> DEFINE s == IF mi \in Named THEN "start" ELSE "read"
  <2>1. /\ mi' \in Step
        /\ \/ mpc' = mpc /\ mi' = mi + 1
           \/ mpc' = "taps"
    BY <1>0, <1>1, AdvanceType DEF StartThread
  <2>2. TypeOK'
    BY <1>0, <1>1, <2>1 DEF StartThread, TypeOK
  <2>3. buf[mi] = <<>>
    BY <1>0, <1>1 DEF StartThread, TypeInv, PumpsAhead, ThreadBuffers, BufferFits
  <2>4. ThreadBuffers'
    BY <1>0, <1>1, <2>3, OneState DEF StartThread
  <2>5. PumpsAhead'
    BY <1>0, <1>1, <2>1, StepAssumption DEF StartThread, TypeInv, PumpsAhead, TypeOK
  <2> QED BY <2>2, <2>4, <2>5 DEF TypeInv
<1>2. CASE StartThreadFails
  <2> DEFINE s == IF mi \in Named THEN "start" ELSE "read"
  <2>1. /\ mi' \in Step
        /\ \/ mpc' = mpc /\ mi' = mi + 1 /\ st' = st
           \/ mpc' \in {"taps", "tidy"}
        /\ deadstep' \in Step \cup {NoStep}
    <3>1. CASE GotoTidy
      BY <3>1, StepAssumption DEF GotoTidy
    <3>2. CASE Advance("taps") /\ UNCHANGED <<deadstep, st>>
      BY <1>0, <3>2, AdvanceType DEF TypeOK
    <3> QED BY <1>2, <3>1, <3>2 DEF StartThreadFails
  <2>2. st' = st \/ st' = [st EXCEPT ![mi] = s]
    BY <1>2 DEF StartThreadFails
  <2>3. TypeOK'
    BY <1>0, <1>2, <2>1, <2>2 DEF StartThreadFails, TypeOK
  <2>4. buf[mi] = <<>>
    BY <1>0, <1>2 DEF StartThreadFails, TypeInv, PumpsAhead, ThreadBuffers, BufferFits
  <2>5. ThreadBuffers'
    BY <1>0, <1>2, <2>2, <2>4, OneState, SameBuffers DEF StartThreadFails, flowVars
  <2>6. PumpsAhead'
    BY <1>0, <1>2, <2>1, StepAssumption DEF StartThreadFails, TypeInv, PumpsAhead
  <2> QED BY <2>3, <2>5, <2>6 DEF TypeInv
<1>3. CASE StartChild
  <2>1. mi' \in Step /\ (mpc' = mpc \/ mpc' = "monitor")
    BY <1>0, <1>3, AdvanceType DEF StartChild
  <2>2. writers' \in [Pipe -> SUBSET (Child \cup {Main})]
    BY <1>0, <1>3 DEF StartChild, Inherit, CloseOutput, TypeOK
  <2>3. TypeOK'
    BY <1>0, <1>3, <2>1, <2>2 DEF StartChild, TypeOK
  <2>4. ThreadBuffers'
    BY <1>0, <1>3, OneState DEF StartChild
  <2> QED BY <1>3, <2>1, <2>3, <2>4 DEF TypeInv, PumpsAhead, StartChild
<1>4. CASE StartChildFails
  <2>0. mi' \in Step /\ mpc' = "tidy" /\ deadstep' \in Step \cup {NoStep}
    BY <1>4, StepAssumption DEF StartChildFails, GotoTidy
  <2>1. TypeOK'
    BY <1>0, <1>4, <2>0 DEF StartChildFails, TypeOK
  <2>2. ThreadBuffers'
    BY <1>4, SameBuffers DEF StartChildFails
  <2> QED BY <1>4, <2>1, <2>2 DEF TypeInv, PumpsAhead, StartChildFails, GotoTidy
<1>5. CASE PassOver
  <2>1. /\ mi' \in Step /\ mpc' \in {mpc, "taps", "monitor"}
        /\ mpc' = "pumps" => mpc = "pumps" /\ mi' = mi + 1
    BY <1>0, <1>5, AdvanceType DEF PassOver
  <2>2. TypeOK'
    BY <1>5, <1>0, <2>1 DEF PassOver, TypeOK
  <2>3. ThreadBuffers'
    BY <1>5, SameBuffers DEF PassOver
  <2>4. PumpsAhead'
    BY <1>0, <1>5, <2>1, StepAssumption DEF PassOver, TypeInv, PumpsAhead
  <2> QED BY <2>2, <2>3, <2>4 DEF TypeInv
<1>6. CASE MonitorWakes
  <2>1. deadstep' \in Step \cup {NoStep} /\ 0 \in Step
    BY <1>6, StepAssumption DEF MonitorWakes
  <2>2. TypeOK'
    BY <1>0, <1>6, <2>1 DEF MonitorWakes, ResetWatchDogs, TypeOK
  <2>3. ThreadBuffers'
    BY <1>6, SameBuffers DEF MonitorWakes
  <2> QED BY <1>6, <2>2, <2>3 DEF TypeInv, PumpsAhead, MonitorWakes
<1>7. CASE MonitorTimesOut
  <2>1. TypeOK'
    BY <1>0, <1>7 DEF MonitorTimesOut, ResetWatchDogs, TypeOK
  <2>2. ThreadBuffers'
    BY <1>7, SameBuffers DEF MonitorTimesOut
  <2> QED BY <1>7, <2>1, <2>2 DEF TypeInv, PumpsAhead, MonitorTimesOut
<1>8. CASE TidyThread
  <2>1. mi' \in Step /\ (mpc' = mpc \/ mpc' = "reap")
    BY <1>0, <1>8, AdvanceType DEF TidyThread
  <2>2. TypeOK'
    BY <1>0, <1>8, <2>1 DEF TidyThread, TypeOK
  <2>3. ThreadBuffers'
    BY <1>8, SameBuffers DEF TidyThread
  <2> QED BY <1>8, <2>1, <2>2, <2>3 DEF TypeInv, PumpsAhead, TidyThread
<1>9. CASE TidyChild
  <2>1. mi' \in Step /\ (mpc' = mpc \/ mpc' = "reap")
    BY <1>0, <1>9, AdvanceType DEF TidyChild
  <2>2. st' = st \/ st' = [st EXCEPT ![mi] = "killed"]
    BY <1>9 DEF TidyChild
  <2>3. writers' \in [Pipe -> SUBSET (Child \cup {Main})]
    BY <1>0, <1>9 DEF TidyChild, LetGo, TypeOK
  <2>4. TypeOK'
    BY <1>0, <1>9, <2>1, <2>2, <2>3 DEF TidyChild, TypeOK
  <2>5. ThreadBuffers'
    BY <1>0, <1>9, <2>2, OneState, SameBuffers DEF TidyChild
  <2> QED BY <1>9, <2>1, <2>4, <2>5 DEF TypeInv, PumpsAhead, TidyChild
<1>10. CASE Reap
  <2>1. mi' \in Step /\ (mpc' = mpc \/ mpc' = "flush")
    BY <1>0, <1>10, AdvanceType DEF Reap
  <2>2. st' = st \/ st' = [st EXCEPT ![mi] = "killed"]
    BY <1>10 DEF Reap
  <2>4. TypeOK'
    BY <1>0, <1>10, <2>1, <2>2 DEF Reap, TypeOK
  <2>5. ThreadBuffers'
    BY <1>0, <1>10, <2>2, OneState, SameBuffers DEF Reap
  <2> QED BY <1>10, <2>1, <2>4, <2>5 DEF TypeInv, PumpsAhead, Reap
<1>11. CASE HeapCrash
  <2>a. mi' \in Step /\ mpc' = "exited"
    BY <1>11, StepAssumption DEF HeapCrash
  <2>b. writers' \in [Pipe -> SUBSET (Child \cup {Main})]
    BY <1>0, <1>11 DEF HeapCrash, LetGo, TypeOK
  <2>c. st' \in [Step -> {"idle", "start", "connect", "read", "write", "flush",
                         "run", "ended", "killed"}]
    BY <1>0, <1>11 DEF HeapCrash, TypeOK
  <2>1. TypeOK'
    BY <1>0, <1>11, <2>a, <2>b, <2>c DEF HeapCrash, TypeOK
  <2>2. \A i \in Worker : buf'[i] = buf[i] /\ st'[i] \in {st[i], "killed"}
    BY <1>11, StepAssumption DEF HeapCrash
  <2>3. ThreadBuffers'
    BY <2>2 DEF TypeInv, ThreadBuffers, BufferFits
  <2> QED BY <1>11, <2>1, <2>3 DEF TypeInv, PumpsAhead, HeapCrash
<1>12. CASE FlushOutput
  <2>1. writers' \in [Pipe -> SUBSET (Child \cup {Main})]
    BY <1>0, <1>12 DEF FlushOutput, LetGo, TypeOK
  <2>2. TypeOK'
    BY <1>0, <1>12, <2>1 DEF FlushOutput, TypeOK
  <2>3. ThreadBuffers'
    BY <1>12, SameBuffers DEF FlushOutput
  <2> QED BY <1>12, <2>2, <2>3 DEF TypeInv, PumpsAhead, FlushOutput
<1> QED BY <1>1, <1>2, <1>3, <1>4, <1>5, <1>6, <1>7, <1>8, <1>9, <1>10, <1>11, <1>12
        DEF MainStep

LEMMA EnvironmentType ==
  ASSUME TypeInv, Environment
  PROVE  TypeInv'
<1>0. TypeOK
  BY DEF TypeInv
<1>1. CASE SourceSends
  <2>1. 0 \in Link /\ pipe[0] \in Seq(Nat) /\ sent + 1 \in Nat
    BY <1>0, StepAssumption, BoundAssumption DEF TypeOK
  <2>2. Append(pipe[0], sent + 1) \in Seq(Nat)
    BY <2>1, AppendProperties
  <2>3. pipe' = [pipe EXCEPT ![0] = Append(pipe[0], sent + 1)]
    BY <1>1 DEF SourceSends
  <2>4. pipe' \in [Link -> Seq(Nat)]
    BY <1>0, <2>1, <2>2, <2>3 DEF TypeOK
  <2>5. sent' \in 0 .. MaxBlocks
    BY <1>0, <1>1, BoundAssumption DEF SourceSends, TypeOK
  <2>6. TypeOK'
    BY <1>0, <1>1, <2>4, <2>5 DEF SourceSends, TypeOK
  <2>7. ThreadBuffers'
    BY <1>1, SameBuffers DEF SourceSends
  <2> QED BY <1>1, <2>6, <2>7 DEF TypeInv, PumpsAhead, SourceSends
<1>2. CASE SourceCloses
  <2>1. ThreadBuffers'
    BY <1>2, SameBuffers DEF SourceCloses
  <2> QED BY <1>0, <1>2, <2>1 DEF TypeInv, PumpsAhead, SourceCloses, TypeOK
<1>3. CASE SinkCloses
  <2>1. ThreadBuffers'
    BY <1>3, SameBuffers DEF SinkCloses
  <2> QED BY <1>0, <1>3, <2>1 DEF TypeInv, PumpsAhead, SinkCloses, TypeOK
<1>5. CASE SinkReads
  <2>1. ThreadBuffers'
    BY <1>5, SameBuffers DEF SinkReads
  <2> QED BY <1>0, <1>5, <2>1 DEF TypeInv, PumpsAhead, SinkReads, TypeOK
<1>4. ASSUME NEW i \in Worker, HeapReuse(i)
      PROVE  TypeInv'
  <2>0. i \in Step
    BY StepAssumption
  <2>1. <<Junk>> \in Seq(Nat) /\ Len(<<Junk>>) = 1 /\ <<Junk>> # <<>>
    OBVIOUS
  <2>2. buf' = [buf EXCEPT ![i] = <<Junk>>] /\ st' = st /\ buf[i] # <<>>
    BY <1>4 DEF HeapReuse
  <2>3. buf' \in [Step -> Seq(Nat)]
    BY <1>0, <2>1, <2>2 DEF TypeOK
  <2>4. BufferFits(i)'
    BY <1>0, <2>0, <2>1, <2>2 DEF TypeInv, ThreadBuffers, BufferFits, TypeOK
  <2>5. ThreadBuffers'
    BY <1>0, <2>0, <2>2, <2>4, OneBuffer DEF TypeOK
  <2> QED BY <1>0, <1>4, <2>3, <2>5 DEF TypeInv, PumpsAhead, HeapReuse, TypeOK
<1> QED BY <1>1, <1>2, <1>3, <1>4, <1>5 DEF Environment

LEMMA NextType == TypeInv /\ [Next]_vars => TypeInv'
<1> SUFFICES ASSUME TypeInv, [Next]_vars PROVE TypeInv'
  OBVIOUS
<1>1. CASE MainStep \/ HeapCrash
  BY <1>1, MainType
<1>2. CASE \E i \in Step : StageStep(i)
  BY <1>2, ThreadType, ChildType DEF StageStep
<1>3. CASE Environment
  BY <1>3, EnvironmentType
<1>4. CASE UNCHANGED vars
  BY <1>4 DEF TypeInv, TypeOK, ThreadBuffers, BufferFits, PumpsAhead
<1> QED BY <1>1, <1>2, <1>3, <1>4 DEF Next, Exited

\* The inductive invariant behind the typing: a thread holds at most the one block
\* its state speaks of, and main passes the table in order.
THEOREM TypeInvariant == Spec => []TypeInv
BY InitType, NextType, PTL DEF Spec

\* Every variable keeps its type: in particular the loops of main stay within
\* the stage table.
THEOREM TypeCorrect == Spec => []TypeOK
BY TypeInvariant, PTL DEF TypeInv
-----------------------------------------------------------------------------
(* Who holds the write end of a pipe. *)

\* OnlyUpstreamHolds speaks of the monitor loop.  Before it, main still holds
\* the pipes of the children it has yet to start; a child it starts inherits
\* those, and they are its own output and the ones further downstream.
UpstreamOf(k) ==
  /\ \A p \in writers[k] : p = Main \/ p < k
  /\ (mpc = "taps" /\ k <= mi) \/ mpc = "monitor" => Main \notin writers[k]

UpstreamInv == \A k \in Pipe : k - 1 \in Child => UpstreamOf(k)

LEMMA UpstreamHolds == TypeOK /\ UpstreamInv => OnlyUpstreamHolds
<1> SUFFICES ASSUME TypeOK, UpstreamInv, mpc = "monitor",
                    NEW k \in Pipe, k - 1 \in Child, NEW p \in writers[k]
             PROVE  p \in 0 .. k - 1
  BY DEF OnlyUpstreamHolds
<1>1. p # Main /\ p < k
  BY DEF UpstreamInv, UpstreamOf
<1>2. p \in Step /\ k \in Int
  BY <1>1 DEF TypeOK
<1> QED BY <1>1, <1>2, StepAssumption

\* Handles are only closed, and main does not go on with its loops.
LEMMA HandlesClosed ==
  ASSUME UpstreamInv, \A k \in Pipe : writers'[k] \subseteq writers[k],
         \/ UNCHANGED <<mpc, mi>>
         \/ mpc = "monitor" /\ mpc' = "monitor"
         \/ mpc' \notin {"taps", "monitor"}
         \/ mpc' = "taps" /\ mi' = 0
  PROVE  UpstreamInv'
<1> SUFFICES ASSUME NEW k \in Pipe, k - 1 \in Child
             PROVE  UpstreamOf(k)'
  BY DEF UpstreamInv
<1>1. UpstreamOf(k) /\ writers'[k] \subseteq writers[k] /\ ~(k <= 0)
  BY DEF UpstreamInv
<1>2. \A p \in writers'[k] : p = Main \/ p < k
  BY <1>1 DEF UpstreamOf
<1>3. (mpc' = "taps" /\ k <= mi') \/ mpc' = "monitor" => Main \notin writers[k]
  BY <1>1 DEF UpstreamOf
<1> QED BY <1>1, <1>2, <1>3 DEF UpstreamOf

LEMMA StageUpstream ==
  ASSUME TypeInv, UpstreamInv, NEW i \in Step, StageStep(i)
  PROVE  UpstreamInv'
<1>0. TypeOK
  BY DEF TypeInv
<1>1. UNCHANGED <<mpc, mi>>
  BY DEF StageStep, ThreadStep, ThreadConnect, ThreadConnected, ThreadRead,
         ThreadReadEnds, ThreadWrite, ThreadWriteFails, ThreadFlush,
         ChildStep, ChildOpen, ChildRead, ChildWrite, ChildExit
<1>2. CASE \A k \in Pipe : writers'[k] \subseteq writers[k]
  BY <1>1, <1>2, HandlesClosed
<1>3. CASE ThreadStep(i)
  <2>1. writers' = writers \/ writers' = CloseOutput(writers, Main, i + 1)
    BY <1>3 DEF ThreadStep, ThreadConnect, ThreadConnected, ThreadRead,
         ThreadReadEnds, ThreadWrite, ThreadWriteFails, ThreadFlush
  <2>2. \A k \in Pipe : writers'[k] \subseteq writers[k]
    BY <2>1 DEF CloseOutput
  <2> QED BY <1>2, <2>2
<1>4. CASE ChildOpen(i)
  <2>1. writers' = [writers EXCEPT ![i + 1] = writers[i + 1] \cup {i}]
    BY <1>4 DEF ChildOpen
  <2>2. SUFFICES ASSUME NEW k \in Pipe, k - 1 \in Child
                 PROVE  UpstreamOf(k)'
    BY DEF UpstreamInv
  <2>3. UpstreamOf(k)
    BY <2>2 DEF UpstreamInv
  <2>4. writers'[k] = IF k = i + 1 THEN writers[k] \cup {i} ELSE writers[k]
    BY <1>0, <2>1 DEF TypeOK
  <2>5. k = i + 1 => i < k
    OBVIOUS
  <2>6. i # Main
    BY StepAssumption
  <2> QED BY <1>1, <2>3, <2>4, <2>5, <2>6 DEF UpstreamOf
<1>5. CASE ChildRead(i) \/ ChildWrite(i) \/ ChildExit(i)
  <2>1. writers' = writers \/ writers' = LetGo(writers, i)
    BY <1>5 DEF ChildRead, ChildWrite, ChildExit
  <2>2. \A k \in Pipe : writers'[k] \subseteq writers[k]
    BY <2>1 DEF LetGo
  <2> QED BY <1>2, <2>2
<1> QED BY <1>3, <1>4, <1>5 DEF StageStep, ChildStep

LEMMA MainUpstream ==
  ASSUME TypeInv, UpstreamInv, MainStep \/ HeapCrash
  PROVE  UpstreamInv'
<1>0. mi \in Step /\ TypeOK /\ mi \in Int
  BY DEF TypeInv, TypeOK
<1>1. CASE StartThread \/ StartThreadFails
  <2>1. mpc' \in {"pumps", "tidy"} \/ (mpc' = "taps" /\ mi' = 0)
    BY <1>1 DEF StartThread, StartThreadFails, Advance, GotoTidy
  <2>2. writers' = writers
    BY <1>1 DEF StartThread, StartThreadFails
  <2> QED BY <2>1, <2>2, HandlesClosed
<1>2. CASE StartChild
  <2>1. mpc = "taps" /\ mi \in Child /\ mi \notin Worker
    BY <1>2 DEF StartChild
  <2>2. \/ mpc' = "taps" /\ mi' = mi + 1
        \/ mpc' = "monitor" /\ mi + 1 >= NumSteps
    BY <1>0, <1>2, StepAssumption DEF StartChild, Advance
  <2>3. SUFFICES ASSUME NEW k \in Pipe, k - 1 \in Child
                 PROVE  UpstreamOf(k)'
    BY DEF UpstreamInv
  <2>4. /\ writers'[k] \subseteq writers[k] \cup {mi}
        /\ Main \notin writers[k] => writers'[k] \subseteq writers[k]
        /\ k = mi + 1 => Main \notin writers'[k]
    <3>1. writers'[k] = IF k = mi + 1 THEN Inherit(writers, mi)[k] \ {Main}
                                      ELSE Inherit(writers, mi)[k]
      BY <1>2 DEF StartChild, CloseOutput
    <3>2. Inherit(writers, mi)[k] = IF Main \in writers[k] THEN writers[k] \cup {mi}
                                                          ELSE writers[k]
      BY DEF Inherit
    <3> QED BY <3>1, <3>2
  <2>5. UpstreamOf(k)
    BY <2>3 DEF UpstreamInv
  <2>6. CASE k <= mi
    BY <2>1, <2>4, <2>5, <2>6 DEF UpstreamOf
  <2>7. CASE k > mi
    <3>1. \A p \in writers'[k] : p = Main \/ p < k
      BY <2>4, <2>5, <2>7 DEF UpstreamOf
    <3>2. (mpc' = "taps" /\ k <= mi') \/ mpc' = "monitor" => k = mi + 1
      BY <1>0, <2>2, <2>7, StepAssumption
    <3> QED BY <2>4, <3>1, <3>2 DEF UpstreamOf
  <2> QED BY <1>0, <2>6, <2>7
<1>3. CASE PassOver
  <2>1. writers' = writers
    BY <1>3 DEF PassOver
  <2>2. CASE mpc = "pumps"
    <3>1. mpc' = "pumps" \/ (mpc' = "taps" /\ mi' = 0)
      BY <1>3, <2>2 DEF PassOver, Advance
    <3> QED BY <2>1, <3>1, HandlesClosed
  <2>3. CASE mpc = "taps"
    <3>1. /\ mi \in Worker
          /\ \/ mpc' = "taps" /\ mi' = mi + 1
             \/ mpc' = "monitor" /\ mi + 1 >= NumSteps
      BY <1>0, <1>3, <2>3, StepAssumption DEF PassOver, Advance
    <3>2. ASSUME NEW k \in Pipe, k - 1 \in Child
          PROVE  UpstreamOf(k)'
      <4>1. k # mi + 1
        BY <1>0, <3>1, <3>2
      <4>2. (mpc' = "taps" /\ k <= mi') \/ mpc' = "monitor" => k <= mi
        BY <1>0, <3>1, <4>1, StepAssumption
      <4> QED BY <2>1, <2>3, <3>2, <4>2 DEF UpstreamInv, UpstreamOf
    <3> QED BY <3>2 DEF UpstreamInv
  <2> QED BY <1>3, <2>2, <2>3 DEF PassOver
<1>4. CASE StartChildFails \/ MonitorWakes \/ MonitorTimesOut
  <2>1. writers' = writers
    BY <1>4 DEF StartChildFails, MonitorWakes, MonitorTimesOut
  <2>2. mpc' = "tidy" \/ (mpc = "monitor" /\ mpc' = "monitor")
    BY <1>4 DEF StartChildFails, GotoTidy, MonitorWakes, MonitorTimesOut
  <2> QED BY <2>1, <2>2, HandlesClosed
<1>5. CASE TidyThread \/ TidyChild \/ Reap \/ FlushOutput \/ HeapCrash
  <2>1. \A k \in Pipe : writers'[k] \subseteq writers[k]
    BY <1>5 DEF TidyThread, TidyChild, Reap, FlushOutput, HeapCrash, LetGo
  <2>2. mpc' \notin {"taps", "monitor"}
    BY <1>5 DEF TidyThread, TidyChild, Reap, FlushOutput, HeapCrash, Advance
  <2> QED BY <2>1, <2>2, HandlesClosed
<1> QED BY <1>1, <1>2, <1>3, <1>4, <1>5 DEF MainStep

\* In the monitor loop the pipe a child writes is held open by processes
\* upstream of its reader only, so end of file travels down the pipeline.
THEOREM UpstreamCorrect == Spec => []OnlyUpstreamHolds
<1>1. Init => UpstreamInv
  BY StepAssumption DEF Init, UpstreamInv, UpstreamOf
<1>2. TypeInv /\ UpstreamInv /\ [Next]_vars => UpstreamInv'
  <2> SUFFICES ASSUME TypeInv, UpstreamInv, [Next]_vars PROVE UpstreamInv'
    OBVIOUS
  <2>1. CASE MainStep \/ HeapCrash
    BY <2>1, MainUpstream
  <2>2. CASE \E i \in Step : StageStep(i)
    BY <2>2, StageUpstream
  <2>3. CASE Environment
    BY <2>3, HandlesClosed
       DEF Environment, SourceSends, SourceCloses, SinkCloses, SinkReads, HeapReuse
  <2>4. CASE UNCHANGED vars
    BY <2>4, HandlesClosed
  <2> QED BY <2>1, <2>2, <2>3, <2>4 DEF Next, Exited
<1>3. TypeInv /\ UpstreamInv => OnlyUpstreamHolds
  BY UpstreamHolds DEF TypeInv
<1> QED BY <1>1, <1>2, <1>3, TypeInvariant, PTL DEF Spec
-----------------------------------------------------------------------------
(* Why main leaves the monitor loop, and what the tidy part makes of it. *)

\* What has ended stays so, but for the stages main has yet to start.
LEMMA EndedStays ==
  ASSUME TypeInv, [Next]_vars, mpc \notin {"pumps", "taps"}, NEW k \in Step, Ended(k)
  PROVE  Ended(k)'
<1>1. st[k] \in {"ended", "killed"} /\ st \in [Step -> {"idle", "start", "connect", "read",
                                           "write", "flush", "run", "ended", "killed"}]
  BY DEF Ended, TypeInv, TypeOK
<1> SUFFICES st'[k] \in {"ended", "killed"}
  BY DEF Ended
<1>2. CASE MainStep \/ HeapCrash
  <2>1. \/ st' = st
        \/ st' = [st EXCEPT ![mi] = "killed"]
        \/ st' = [i \in Step |-> IF i \in Worker /\ Live(i) THEN "killed" ELSE st[i]]
    BY <1>2 DEF MainStep, StartThread, StartThreadFails, StartChild, StartChildFails,
                PassOver, MonitorWakes, MonitorTimesOut, TidyThread, TidyChild, Reap, FlushOutput, HeapCrash
  <2> QED BY <1>1, <2>1
<1>3. ASSUME NEW i \in Step, StageStep(i) PROVE st'[k] \in {"ended", "killed"}
  <2>1. CASE ThreadStep(i)
    <3>1. st[i] \notin {"ended", "killed"} /\ st' = [st EXCEPT ![i] = st'[i]]
      BY <1>1, <2>1
      DEF ThreadStep, ThreadConnect, ThreadConnected, ThreadRead,
          ThreadReadEnds, ThreadWrite, ThreadWriteFails, ThreadFlush
    <3> QED BY <1>1, <3>1
  <2>2. CASE ChildStep(i)
    <3>1. st' = st \/ (st[i] = "run" /\ st' = [st EXCEPT ![i] = "ended"])
      BY <2>2 DEF ChildStep, ChildOpen, ChildRead, ChildWrite, ChildExit, IsDone, WantsOutput
    <3> QED BY <1>1, <3>1
  <2> QED BY <1>3, <2>1, <2>2 DEF StageStep
<1>4. CASE Environment \/ UNCHANGED vars
  <2>1. st' = st
    BY <1>4 DEF Environment, SourceSends, SourceCloses, SinkCloses, SinkReads, HeapReuse
  <2> QED BY <1>1, <2>1
<1> QED BY <1>2, <1>3, <1>4 DEF Next, Exited

\* A start that succeeds has left deadstep alone; the monitor loop sets it to a step
\* that has ended, or to the NoStep of a wait that failed.
DeadInv ==
  /\ mpc \in {"pumps", "taps", "monitor"} => deadstep = NoStep
  /\ mpc = "tidy" /\ deadstep # NoStep => Ended(deadstep)

\* If no start fails in a way that jumps to tidy, the short wait is used only when
\* the last stage has stopped, whatever else fails.  (The jumps leave deadstep
\* as it is on the stack.)
THEOREM BriefCorrect ==
  ASSUME Faults \cap {"malloc", "priority", "process"} = {}
  PROVE  Spec => []BriefOnlyWhenOutputStopped
<1>1. Init => DeadInv
  BY DEF Init, DeadInv
<1>2. TypeInv /\ DeadInv /\ [Next]_vars => DeadInv'
  <2> SUFFICES ASSUME TypeInv, DeadInv, [Next]_vars PROVE DeadInv'
    OBVIOUS
  <2>1. CASE MonitorWakes
    BY <2>1 DEF MonitorWakes, DeadInv, Ended
  <2>2. CASE StartThread \/ StartThreadFails \/ StartChild \/ StartChildFails \/ PassOver
    <3>1. deadstep' = deadstep /\ mpc \in {"pumps", "taps"} /\ mpc' \in {"pumps", "taps", "monitor"}
      BY <2>2 DEF StartThread, StartThreadFails, StartChild, StartChildFails, PassOver, Advance
    <3> QED BY <3>1 DEF DeadInv
  <2>3. CASE MonitorTimesOut
    BY <2>3 DEF MonitorTimesOut, DeadInv
  <2>4. CASE TidyThread \/ TidyChild \/ Reap \/ FlushOutput \/ HeapCrash
    <3>1. deadstep' = deadstep /\ mpc' \notin {"pumps", "taps", "monitor"}
          /\ (mpc' = "tidy" => mpc = "tidy")
      BY <2>4 DEF TidyThread, TidyChild, Reap, FlushOutput, HeapCrash, Advance
    <3>2. deadstep \in Step \cup {NoStep}
      BY DEF TypeInv, TypeOK
    <3> QED BY <3>1, <3>2, EndedStays DEF DeadInv
  <2>5. CASE (\E i \in Step : StageStep(i)) \/ Environment \/ UNCHANGED vars
    <3>1. UNCHANGED <<mpc, deadstep>>
      BY <2>5
      DEF StageStep, ThreadStep, ThreadConnect, ThreadConnected, ThreadRead,
          ThreadReadEnds, ThreadWrite, ThreadWriteFails, ThreadFlush,
          ChildStep, ChildOpen, ChildRead, ChildWrite, ChildExit,
          Environment, SourceSends, SourceCloses, SinkCloses, SinkReads, HeapReuse
    <3>2. deadstep \in Step \cup {NoStep}
      BY DEF TypeInv, TypeOK
    <3> QED BY <3>1, <3>2, EndedStays DEF DeadInv
  <2> QED BY <2>1, <2>2, <2>3, <2>4, <2>5 DEF Next, MainStep, Exited
<1>3. TypeInv /\ DeadInv => BriefOnlyWhenOutputStopped
  <2> SUFFICES ASSUME TypeInv, DeadInv, mpc = "tidy", Brief PROVE Ended(NumSteps - 1)
    BY DEF BriefOnlyWhenOutputStopped
  <2>1. deadstep = NumSteps - 1 /\ deadstep # NoStep
    BY StepAssumption DEF Brief, TypeInv, TypeOK
  <2> QED BY <2>1 DEF DeadInv
<1> QED BY <1>1, <1>2, <1>3, TypeInvariant, PTL DEF Spec

\* Without -w only a stage that has ended, or never began, takes main out of its
\* monitor loop: silence of the source does not.
THEOREM PauseCorrect ==
  ASSUME ~WatchdogEnabled
  PROVE  Spec => PauseIsHarmless
<1>1. TypeInv /\ [Next]_vars =>
        [mpc = "monitor" /\ mpc' = "tidy" => \E i \in Step : ~Live(i)]_vars
  <2> SUFFICES ASSUME TypeInv, Next, mpc = "monitor", mpc' = "tidy"
               PROVE  \E i \in Step : ~Live(i)
    OBVIOUS
  <2>1. CASE MonitorWakes
    BY <2>1 DEF MonitorWakes, Live, Ended
  <2>2. CASE ~MonitorWakes
    <3>1. mpc' # "tidy"
      BY <2>2
      DEF Next, MainStep, StartThread, StartThreadFails, StartChild, StartChildFails,
          PassOver, MonitorTimesOut, TidyThread, TidyChild, Reap, FlushOutput, HeapCrash, Exited,
          StageStep, ThreadStep, ThreadConnect, ThreadConnected, ThreadRead,
          ThreadReadEnds, ThreadWrite, ThreadWriteFails, ThreadFlush,
          ChildStep, ChildOpen, ChildRead, ChildWrite, ChildExit,
          Environment, SourceSends, SourceCloses, SinkCloses, SinkReads, HeapReuse
    <3> QED BY <3>1
  <2> QED BY <2>1, <2>2
<1> QED BY <1>1, TypeInvariant, PTL DEF Spec, PauseIsHarmless

-----------------------------------------------------------------------------
(* Runs of consecutive blocks. *)

\* A run without its first block is a run, and its first block is the next one.
LEMMA RunTail ==
  ASSUME NEW s \in Seq(Nat), NEW n \in Nat, NEW d \in BOOLEAN,
         s # <<>>, Run(s, n, d)
  PROVE  /\ Tail(s) \in Seq(Nat) /\ Len(Tail(s)) = Len(s) - 1
         /\ Head(s) \in Nat
         /\ Head(s) = n + 1 \/ (d /\ Head(s) = Junk)
         /\ Run(Tail(s), n + 1, d)
<1>1. /\ Head(s) \in Nat /\ Tail(s) \in Seq(Nat) /\ Len(Tail(s)) = Len(s) - 1
      /\ \A j \in 1 .. Len(Tail(s)) : Tail(s)[j] = s[j + 1]
  BY HeadTailProperties
<1>2. Len(s) \in Nat \ {0} /\ Head(s) = s[1]
  BY EmptySeq
<1>3. Head(s) = n + 1 \/ (d /\ Head(s) = Junk)
  BY <1>2 DEF Run
<1>4. ASSUME NEW j \in 1 .. Len(Tail(s))
      PROVE  Tail(s)[j] = n + 1 + j \/ (d /\ Tail(s)[j] = Junk)
  <2>1. j + 1 \in 1 .. Len(s) /\ j \in Nat
    BY <1>1, <1>2
  <2>2. s[j + 1] = n + (j + 1) \/ (d /\ s[j + 1] = Junk)
    BY <2>1 DEF Run
  <2>3. Tail(s)[j] = s[j + 1]
    BY <1>1
  <2> QED BY <2>1, <2>2, <2>3
<1> QED BY <1>1, <1>3, <1>4 DEF Run

\* A run with the next block after it is a run.
LEMMA RunAppend ==
  ASSUME NEW s \in Seq(Nat), NEW n \in Nat, NEW d \in BOOLEAN, NEW x \in Nat,
         Run(s, n, d), x = n + Len(s) + 1 \/ (d /\ x = Junk)
  PROVE  /\ Append(s, x) \in Seq(Nat) /\ Len(Append(s, x)) = Len(s) + 1
         /\ Run(Append(s, x), n, d)
<1>1. /\ Append(s, x) \in Seq(Nat) /\ Len(Append(s, x)) = Len(s) + 1
      /\ \A j \in 1 .. Len(s) : Append(s, x)[j] = s[j]
      /\ Append(s, x)[Len(s) + 1] = x
  BY AppendProperties
<1>2. Len(s) \in Nat
  BY LenProperties
<1>3. ASSUME NEW j \in 1 .. Len(Append(s, x))
      PROVE  Append(s, x)[j] = n + j \/ (d /\ Append(s, x)[j] = Junk)
  <2>1. CASE j \in 1 .. Len(s)
    BY <1>1, <2>1 DEF Run
  <2>2. CASE j = Len(s) + 1
    BY <1>1, <1>2, <2>2
  <2> QED BY <1>1, <1>2, <2>1, <2>2
<1> QED BY <1>1, <1>3 DEF Run

-----------------------------------------------------------------------------
(* Order and conservation. *)

\* No stage has read more than the source gave.  (InOrder implies it, but only
\* by induction along the pipeline; as part of the invariant it needs none.)
OrderInv == InOrder /\ \A i \in Step : nBlocks[i] <= sent

LEMMA OrderFacts ==
  ASSUME TypeInv, OrderInv, NEW i \in Step
  PROVE  /\ i \in Int /\ i + 1 \in Link /\ i \in Link /\ i # NumSteps
         /\ Taken(i) = nBlocks[i] /\ nBlocks[i] \in Nat
         /\ Taken(i + 1) \in Nat /\ Made(i) \in Nat
         /\ pipe[i] \in Seq(Nat) /\ pipe[i + 1] \in Seq(Nat) /\ buf[i] \in Seq(Nat)
         /\ Len(pipe[i]) \in Nat /\ Len(pipe[i + 1]) \in Nat /\ Len(buf[i]) \in Nat
         /\ nBlocks[i] = Made(i) + Len(buf[i]) /\ nBlocks[i] <= sent
         /\ Run(pipe[i], Taken(i), Damaged) /\ Run(pipe[i + 1], Taken(i + 1), Damaged)
         /\ Run(buf[i], Made(i), Damaged)
         /\ Damaged \in BOOLEAN /\ sent \in Nat
<1>1. i \in Int /\ i + 1 \in Link /\ i \in Link /\ i # NumSteps
      /\ (i + 1 # NumSteps => i + 1 \in Step)
  BY StepAssumption
<1>2. pipe[i] \in Seq(Nat) /\ pipe[i + 1] \in Seq(Nat) /\ buf[i] \in Seq(Nat)
      /\ nBlocks[i] \in Nat /\ (i + 1 # NumSteps => nBlocks[i + 1] \in Nat)
  <2>1. /\ pipe \in [Link -> Seq(Nat)] /\ buf \in [Step -> Seq(Nat)]
        /\ nBlocks \in [Step -> Nat]
    BY DEF TypeInv, TypeOK
  <2> QED BY <1>1, <2>1
<1>3. Taken(i) = nBlocks[i] /\ Taken(i + 1) \in Nat
  BY <1>1, <1>2 DEF Taken
<1>4. Len(pipe[i]) \in Nat /\ Len(pipe[i + 1]) \in Nat /\ Len(buf[i]) \in Nat
  BY <1>2, LenProperties
<1>5. Made(i) \in Nat
  BY <1>3, <1>4 DEF Made
<1>6. nBlocks[i] = Made(i) + Len(buf[i]) /\ nBlocks[i] <= sent
  BY DEF OrderInv, InOrder
<1>7. Run(pipe[i], Taken(i), Damaged) /\ Run(pipe[i + 1], Taken(i + 1), Damaged)
      /\ Run(buf[i], Made(i), Damaged)
  BY <1>1 DEF OrderInv, InOrder
<1>8. Damaged \in BOOLEAN /\ sent \in Nat
  BY BoundAssumption DEF Damaged, TypeInv, TypeOK
<1> QED BY <1>1, <1>2, <1>3, <1>4, <1>5, <1>6, <1>7, <1>8
\* Stage i takes the next block of its link.
LEMMA TakeOrder ==
  ASSUME TypeInv, OrderInv, NEW i \in Step, pipe[i] # <<>>, Take(i),
         UNCHANGED <<sent, freed>>
  PROVE  OrderInv'
<1>0. /\ Taken(i) \in Nat /\ Taken(i + 1) \in Nat /\ Made(i) \in Nat /\ nBlocks[i] = Taken(i)
      /\ pipe[i] \in Seq(Nat) /\ pipe[i + 1] \in Seq(Nat) /\ buf[i] \in Seq(Nat)
      /\ Len(pipe[i]) \in Nat /\ Len(pipe[i + 1]) \in Nat /\ Len(buf[i]) \in Nat
      /\ nBlocks[i] = Made(i) + Len(buf[i])
      /\ Run(buf[i], Made(i), Damaged) /\ Damaged \in BOOLEAN
  BY OrderFacts
<1> DEFINE x == Head(pipe[i])
<1>1. /\ pipe' = [pipe EXCEPT ![i] = Tail(pipe[i])]
      /\ buf' = [buf EXCEPT ![i] = Append(buf[i], x)]
      /\ nBlocks' = [nBlocks EXCEPT ![i] = nBlocks[i] + 1]
  BY DEF Take
<1>2. /\ pipe \in [Link -> Seq(Nat)] /\ buf \in [Step -> Seq(Nat)]
      /\ nBlocks \in [Step -> Nat]
  BY DEF TypeInv, TypeOK
<1>3. i \in Link /\ i # NumSteps /\ i \in Int /\ 0 \in Link /\ 0 \in Step /\ NumSteps # 0
  BY StepAssumption
<1>4. Damaged' = Damaged
  BY DEF Damaged
<1>5. /\ pipe'[i] = Tail(pipe[i]) /\ buf'[i] = Append(buf[i], x)
      /\ nBlocks'[i] = nBlocks[i] + 1
      /\ \A k \in Link \ {i} : pipe'[k] = pipe[k]
      /\ \A j \in Step \ {i} : buf'[j] = buf[j] /\ nBlocks'[j] = nBlocks[j]
  BY <1>1, <1>2, <1>3
<1>6. Taken(i)' = Taken(i) + 1 /\ \A k \in Link \ {i} : Taken(k)' = Taken(k)
  <2>1. \A k \in Link : k = NumSteps \/ k \in Step
    BY StepAssumption
  <2> QED BY <1>3, <1>5, <2>1 DEF Taken
<1>7. \A j \in Step : Made(j)' = Made(j)
  <2>1. ASSUME NEW j \in Step PROVE Made(j)' = Made(j)
    <3>1. j + 1 \in Link
      BY StepAssumption
    <3>2. CASE j + 1 # i
      BY <1>5, <1>6, <3>1, <3>2 DEF Made
    <3>3. CASE j + 1 = i
      <4>1. Len(Tail(pipe[i])) = Len(pipe[i]) - 1
        BY <1>2, <1>3, HeadTailProperties
      <4>2. Made(j) = Taken(i) + Len(pipe[i]) /\ Made(j)' = Taken(i)' + Len(pipe'[i])
        BY <3>3 DEF Made
      <4>3. Made(j)' = (Taken(i) + 1) + (Len(pipe[i]) - 1)
        BY <1>5, <1>6, <4>1, <4>2
      <4>4. \A a, b \in Nat : (a + 1) + (b - 1) = a + b
        OBVIOUS
      <4>5. (Taken(i) + 1) + (Len(pipe[i]) - 1) = Taken(i) + Len(pipe[i])
        BY <1>0, <4>4
      <4> QED BY <4>2, <4>3, <4>5, Zenon
    <3> QED BY <3>2, <3>3
  <2> QED BY <2>1
<1>8. /\ Tail(pipe[i]) \in Seq(Nat) /\ Len(Tail(pipe[i])) = Len(pipe[i]) - 1
      /\ x \in Nat
      /\ x = Taken(i) + 1 \/ (Damaged /\ x = Junk)
      /\ Run(Tail(pipe[i]), Taken(i) + 1, Damaged)
  BY OrderFacts, RunTail
<1>9. /\ Len(Append(buf[i], x)) = Len(buf[i]) + 1
      /\ Run(Append(buf[i], x), Made(i), Damaged)
  <2>1. x = Made(i) + Len(buf[i]) + 1 \/ (Damaged /\ x = Junk)
    BY <1>8, <1>0
  <2> QED BY <1>8, <2>1, <1>0, RunAppend
<1>10. (sent = Taken(0) + Len(pipe[0]))'
  <2>1. sent = Taken(0) + Len(pipe[0])
    BY DEF OrderInv, InOrder
  <2>2. CASE i = 0
    <3>1. Taken(0)' + Len(pipe'[0]) = (Taken(0) + 1) + (Len(pipe[0]) - 1)
      BY <1>5, <1>6, <1>8, <2>2
    <3>2. Taken(0) \in Nat /\ Len(pipe[0]) \in Nat
      BY <1>0, <2>2
    <3> QED BY <2>1, <3>1, <3>2
  <2>3. CASE i # 0
    BY <1>3, <1>5, <1>6, <2>1, <2>3
  <2> QED BY <2>2, <2>3
<1>11. ASSUME NEW j \in Step
       PROVE  (nBlocks[j] = Made(j) + Len(buf[j]))' /\ Run(buf[j], Made(j), Damaged)'
  <2>1. nBlocks[j] = Made(j) + Len(buf[j]) /\ Run(buf[j], Made(j), Damaged)
    BY OrderFacts
  <2>2. CASE j = i
    <3>1. Made(i)' = Made(i)
      BY <1>7
    <3>2. Len(buf'[i]) = Len(buf[i]) + 1 /\ Run(buf'[i], Made(i), Damaged)
      BY <1>5, <1>9
    <3>3. nBlocks'[i] = Made(i) + (Len(buf[i]) + 1)
      BY <1>0, <1>5
    <3> QED BY <1>4, <2>2, <3>1, <3>2, <3>3
  <2>3. CASE j # i
    BY <1>4, <1>5, <1>7, <2>1, <2>3
  <2> QED BY <2>2, <2>3
<1>12. ASSUME NEW k \in Link
       PROVE  Run(pipe[k], Taken(k), Damaged)'
  <2>1. CASE k = i
    BY <1>4, <1>5, <1>6, <1>8, <2>1
  <2>2. CASE k # i
    BY <1>4, <1>5, <1>6, <2>2 DEF OrderInv, InOrder
  <2> QED BY <2>1, <2>2
<1>13. ASSUME NEW j \in Step PROVE (nBlocks[j] <= sent)'
  <2>1. nBlocks[j] <= sent
    BY DEF OrderInv
  <2>2. CASE j # i
    BY <1>5, <2>1, <2>2
  <2>3. CASE j = i
    <3>1. Len(pipe[i]) \in Nat \ {0}
      BY <1>2, <1>3, EmptySeq
    <3>2. CASE i = 0
      BY <1>5, <2>3, <3>1, <3>2, OrderFacts DEF OrderInv, InOrder
    <3>3. CASE i # 0
      <4>1. i - 1 \in Step /\ (i - 1) + 1 = i
        BY <1>3, <3>3, StepAssumption
      <4>2. Made(i - 1) = Taken(i) + Len(pipe[i])
        BY <4>1 DEF Made
      <4>3. nBlocks[i - 1] = Made(i - 1) + Len(buf[i - 1]) /\ nBlocks[i - 1] <= sent
            /\ Len(buf[i - 1]) \in Nat /\ nBlocks[i - 1] \in Nat /\ Made(i - 1) \in Nat
        BY <4>1, OrderFacts
      <4>4. Taken(i) = nBlocks[i] /\ nBlocks[i] \in Nat /\ sent \in Nat
        BY OrderFacts
      <4>5. nBlocks[i] + 1 <= sent
        BY <3>1, <4>2, <4>3, <4>4
      <4> QED BY <1>5, <2>3, <4>5
    <3> QED BY <3>2, <3>3
  <2> QED BY <2>2, <2>3
<1> QED BY <1>10, <1>11, <1>12, <1>13 DEF OrderInv, InOrder

\* Stage i gives its first block to the link behind it.
LEMMA GiveOrder ==
  ASSUME TypeInv, OrderInv, NEW i \in Step, buf[i] # <<>>, Give(i),
         UNCHANGED <<sent, freed, nBlocks>>
  PROVE  OrderInv'
<1>0. /\ Taken(i) \in Nat /\ Taken(i + 1) \in Nat /\ Made(i) \in Nat /\ nBlocks[i] = Taken(i)
      /\ pipe[i] \in Seq(Nat) /\ pipe[i + 1] \in Seq(Nat) /\ buf[i] \in Seq(Nat)
      /\ Len(pipe[i]) \in Nat /\ Len(pipe[i + 1]) \in Nat /\ Len(buf[i]) \in Nat
      /\ nBlocks[i] = Made(i) + Len(buf[i])
      /\ Run(buf[i], Made(i), Damaged) /\ Damaged \in BOOLEAN
  BY OrderFacts
<1> DEFINE x == Head(buf[i])
<1>1. /\ pipe' = [pipe EXCEPT ![i + 1] = Append(pipe[i + 1], x)]
      /\ buf' = [buf EXCEPT ![i] = Tail(buf[i])]
  BY DEF Give
<1>2. /\ pipe \in [Link -> Seq(Nat)] /\ buf \in [Step -> Seq(Nat)]
  BY DEF TypeInv, TypeOK
<1>3. i + 1 \in Link /\ i \in Int /\ 0 \in Link /\ 0 # i + 1
  BY StepAssumption
<1>4. Damaged' = Damaged
  BY DEF Damaged
<1>5. /\ pipe'[i + 1] = Append(pipe[i + 1], x) /\ buf'[i] = Tail(buf[i])
      /\ \A k \in Link \ {i + 1} : pipe'[k] = pipe[k]
      /\ \A j \in Step \ {i} : buf'[j] = buf[j]
  BY <1>1, <1>2, <1>3
<1>6. \A k \in Link : Taken(k)' = Taken(k)
  BY DEF Taken
<1>8. /\ Tail(buf[i]) \in Seq(Nat) /\ Len(Tail(buf[i])) = Len(buf[i]) - 1
      /\ x \in Nat
      /\ x = Made(i) + 1 \/ (Damaged /\ x = Junk)
      /\ Run(Tail(buf[i]), Made(i) + 1, Damaged)
  BY OrderFacts, RunTail
<1>9. /\ Len(Append(pipe[i + 1], x)) = Len(pipe[i + 1]) + 1
      /\ Run(Append(pipe[i + 1], x), Taken(i + 1), Damaged)
  <2>1. x = Taken(i + 1) + Len(pipe[i + 1]) + 1 \/ (Damaged /\ x = Junk)
    BY <1>8 DEF Made
  <2> QED BY <1>8, <2>1, OrderFacts, RunAppend
<1>7. Made(i)' = Made(i) + 1 /\ \A j \in Step \ {i} : Made(j)' = Made(j)
  <2>1. Made(i)' = Made(i) + 1
    <3>1. Taken(i + 1) \in Nat /\ Len(pipe[i + 1]) \in Nat
      BY OrderFacts
    <3> QED BY <1>3, <1>5, <1>6, <1>9, <3>1 DEF Made
  <2>2. ASSUME NEW j \in Step \ {i} PROVE Made(j)' = Made(j)
    <3>1. j + 1 \in Link \ {i + 1}
      BY <1>3, StepAssumption
    <3> QED BY <1>5, <1>6, <3>1 DEF Made
  <2> QED BY <2>1, <2>2
<1>10. (sent = Taken(0) + Len(pipe[0]))'
  BY <1>3, <1>5, <1>6 DEF OrderInv, InOrder
<1>11. ASSUME NEW j \in Step
       PROVE  (nBlocks[j] = Made(j) + Len(buf[j]))' /\ Run(buf[j], Made(j), Damaged)'
  <2>1. nBlocks[j] = Made(j) + Len(buf[j]) /\ Run(buf[j], Made(j), Damaged)
    BY OrderFacts
  <2>2. CASE j = i
    <3>1. Made(i)' = Made(i) + 1
      BY <1>7
    <3>2. Len(buf'[i]) = Len(buf[i]) - 1 /\ Run(buf'[i], Made(i) + 1, Damaged)
      BY <1>5, <1>8
    <3>3. nBlocks[i] = (Made(i) + 1) + (Len(buf[i]) - 1)
      BY <1>0
    <3> QED BY <1>4, <2>2, <3>1, <3>2, <3>3
  <2>3. CASE j # i
    BY <1>4, <1>5, <1>7, <2>1, <2>3
  <2> QED BY <2>2, <2>3
<1>12. ASSUME NEW k \in Link
       PROVE  Run(pipe[k], Taken(k), Damaged)'
  <2>1. CASE k = i + 1
    BY <1>3, <1>4, <1>5, <1>6, <1>9, <2>1
  <2>2. CASE k # i + 1
    BY <1>4, <1>5, <1>6, <2>2 DEF OrderInv, InOrder
  <2> QED BY <2>1, <2>2
<1>13. ASSUME NEW j \in Step PROVE (nBlocks[j] <= sent)'
  BY DEF OrderInv
<1> QED BY <1>10, <1>11, <1>12, <1>13 DEF OrderInv, InOrder
\* Nothing moves; main may free a buffer.
LEMMA SameOrder ==
  ASSUME OrderInv, UNCHANGED <<sent, pipe, buf, nBlocks>>, freed \subseteq freed'
  PROVE  OrderInv'
<1>1. Damaged => Damaged'
  BY DEF Damaged
<1>2. \A k \in Link : Taken(k)' = Taken(k)
  BY DEF Taken
<1>3. \A i \in Step : Made(i)' = Made(i)
  BY <1>2, StepAssumption DEF Made
<1>4. ASSUME NEW s, NEW n, Run(s, n, Damaged) PROVE Run(s, n, Damaged')
  BY <1>1, <1>4 DEF Run
<1>5. (sent = Taken(0) + Len(pipe[0]))'
  BY <1>2, StepAssumption DEF OrderInv, InOrder
<1>6. ASSUME NEW k \in Link PROVE Run(pipe[k], Taken(k), Damaged)'
  BY <1>2, <1>4 DEF OrderInv, InOrder
<1>7. ASSUME NEW i \in Step
      PROVE  Run(buf[i], Made(i), Damaged)' /\ (nBlocks[i] = Made(i) + Len(buf[i]))'
             /\ (nBlocks[i] <= sent)'
  BY <1>3, <1>4 DEF OrderInv, InOrder
<1> QED BY <1>5, <1>6, <1>7 DEF OrderInv, InOrder

LEMMA StageOrder ==
  ASSUME TypeInv, OrderInv, NEW i \in Step, StageStep(i)
  PROVE  OrderInv'
<1>1. CASE ThreadRead(i)
  BY <1>1, TakeOrder DEF ThreadRead
<1>2. CASE ThreadWrite(i) /\ i \in Worker
  <2>1. buf[i] # <<>>
    BY <1>2 DEF ThreadWrite, TypeInv, ThreadBuffers, BufferFits
  <2> QED BY <1>2, <2>1, GiveOrder DEF ThreadWrite
<1>3. CASE ChildRead(i)
  BY <1>3, TakeOrder DEF ChildRead
<1>4. CASE ChildWrite(i)
  BY <1>4, GiveOrder DEF ChildWrite, WantsOutput
<1>5. CASE \/ ThreadConnect(i) \/ ThreadConnected(i) \/ ThreadReadEnds(i)
           \/ ThreadWriteFails(i) \/ ThreadFlush(i)
  BY <1>5, SameOrder DEF ThreadConnect, ThreadConnected, ThreadReadEnds,
                         ThreadWriteFails, ThreadFlush
<1>6. CASE ChildOpen(i) \/ ChildExit(i)
  BY <1>6, SameOrder DEF ChildOpen, ChildExit
<1> QED BY <1>1, <1>2, <1>3, <1>4, <1>5, <1>6 DEF StageStep, ThreadStep, ChildStep

LEMMA MainOrder ==
  ASSUME OrderInv, MainStep \/ HeapCrash
  PROVE  OrderInv'
BY SameOrder DEF MainStep, StartThread, StartThreadFails, StartChild, StartChildFails,
     PassOver, MonitorWakes, MonitorTimesOut, TidyThread, TidyChild, Reap, FlushOutput, HeapCrash

LEMMA EnvironmentOrder ==
  ASSUME TypeInv, OrderInv, Environment
  PROVE  OrderInv'
<1>1. CASE SourceCloses \/ SinkCloses \/ SinkReads
  BY <1>1, SameOrder DEF SourceCloses, SinkCloses, SinkReads
<1>2. CASE SourceSends
  <2>0. 0 \in Step /\ 0 \in Link
    BY StepAssumption
  <2>1. /\ sent' = sent + 1
        /\ pipe' = [pipe EXCEPT ![0] = Append(pipe[0], sent + 1)]
        /\ UNCHANGED <<buf, nBlocks, freed>>
    BY <1>2 DEF SourceSends
  <2>2. /\ Taken(0) \in Nat /\ pipe[0] \in Seq(Nat) /\ Len(pipe[0]) \in Nat
        /\ Run(pipe[0], Taken(0), Damaged) /\ Damaged \in BOOLEAN /\ sent \in Nat
    BY <2>0, OrderFacts
  <2>3. sent = Taken(0) + Len(pipe[0])
    BY DEF OrderInv, InOrder
  <2>4. /\ Len(Append(pipe[0], sent + 1)) = Len(pipe[0]) + 1
        /\ Run(Append(pipe[0], sent + 1), Taken(0), Damaged)
    BY <2>2, <2>3, RunAppend
  <2>5. pipe'[0] = Append(pipe[0], sent + 1) /\ \A k \in Link \ {0} : pipe'[k] = pipe[k]
    BY <2>0, <2>1 DEF TypeInv, TypeOK
  <2>6. Damaged' = Damaged /\ \A k \in Link : Taken(k)' = Taken(k)
    BY <2>1 DEF Damaged, Taken
  <2>7. \A i \in Step : Made(i)' = Made(i)
    <3>1. \A i \in Step : i + 1 \in Link \ {0}
      BY StepAssumption
    <3> QED BY <2>5, <2>6, <3>1 DEF Made
  <2>8. (sent = Taken(0) + Len(pipe[0]))'
    BY <2>0, <2>1, <2>2, <2>3, <2>4, <2>5, <2>6
  <2>9. ASSUME NEW k \in Link PROVE Run(pipe[k], Taken(k), Damaged)'
    <3>1. CASE k = 0
      BY <2>0, <2>4, <2>5, <2>6, <3>1
    <3>2. CASE k # 0
      BY <2>5, <2>6, <3>2 DEF OrderInv, InOrder
    <3> QED BY <3>1, <3>2
  <2>10. ASSUME NEW i \in Step
         PROVE  Run(buf[i], Made(i), Damaged)' /\ (nBlocks[i] = Made(i) + Len(buf[i]))'
                /\ (nBlocks[i] <= sent)'
    <3>1. nBlocks[i] <= sent /\ nBlocks[i] \in Nat
      BY OrderFacts
    <3> QED BY <2>1, <2>2, <2>6, <2>7, <3>1 DEF OrderInv, InOrder
  <2> QED BY <2>8, <2>9, <2>10 DEF OrderInv, InOrder
<1>3. ASSUME NEW i \in Worker, HeapReuse(i)
      PROVE  OrderInv'
  <2>0. i \in Step /\ Damaged
    BY <1>3, StepAssumption DEF HeapReuse, Damaged
  <2>1. UNCHANGED <<pipe, nBlocks, sent, freed>> /\ buf' = [buf EXCEPT ![i] = <<Junk>>]
    BY <1>3 DEF HeapReuse, envVars
  <2>2. /\ buf'[i] = <<Junk>> /\ \A j \in Step \ {i} : buf'[j] = buf[j]
    BY <2>0, <2>1 DEF TypeInv, TypeOK
  <2>3. Len(buf[i]) = 1
    <3>1. Len(buf[i]) \in Nat \ {0}
      BY <1>3, <2>0, EmptySeq DEF HeapReuse, TypeInv, TypeOK
    <3>2. Len(buf[i]) <= 1
      BY DEF TypeInv, ThreadBuffers, BufferFits
    <3>3. \A n \in Nat \ {0} : n <= 1 => n = 1
      OBVIOUS
    <3> QED BY <3>1, <3>2, <3>3, Zenon
  <2>4. Damaged' = TRUE /\ Damaged = TRUE
    BY <2>0, <2>1 DEF Damaged
  <2>5. \A k \in Link : Taken(k)' = Taken(k)
    BY <2>1 DEF Taken
  <2>6. \A j \in Step : Made(j)' = Made(j)
    BY <2>1, <2>5, StepAssumption DEF Made
  <2>7. \A n : Run(<<Junk>>, n, TRUE) /\ Len(<<Junk>>) = 1
    BY DEF Run
  <2>8. (sent = Taken(0) + Len(pipe[0]))' /\ \A k \in Link : Run(pipe[k], Taken(k), Damaged)'
    <3>1. 0 \in Link
      BY StepAssumption
    <3>2. (sent = Taken(0) + Len(pipe[0]))'
      BY <2>1, <2>5, <3>1 DEF OrderInv, InOrder
    <3>3. ASSUME NEW k \in Link PROVE Run(pipe[k], Taken(k), Damaged)'
      BY <2>1, <2>4, <2>5 DEF OrderInv, InOrder
    <3> QED BY <3>2, <3>3
  <2>9. ASSUME NEW j \in Step
        PROVE  Run(buf[j], Made(j), Damaged)' /\ (nBlocks[j] = Made(j) + Len(buf[j]))'
               /\ (nBlocks[j] <= sent)'
    <3>1. CASE j = i
      BY <2>1, <2>2, <2>3, <2>4, <2>6, <2>7, <3>1 DEF OrderInv, InOrder
    <3>2. CASE j # i
      BY <2>1, <2>2, <2>4, <2>6, <3>2 DEF OrderInv, InOrder
    <3> QED BY <3>1, <3>2
  <2> QED BY <2>8, <2>9 DEF OrderInv, InOrder
<1> QED BY <1>1, <1>2, <1>3 DEF Environment

LEMMA OrderInvariant == Spec => []OrderInv
<1>1. Init => OrderInv
  <2> SUFFICES ASSUME Init PROVE OrderInv
    OBVIOUS
  <2>1. /\ \A k \in Link : pipe[k] = <<>> /\ Taken(k) = 0
        /\ \A i \in Step : buf[i] = <<>> /\ nBlocks[i] = 0 /\ i + 1 \in Link
        /\ sent = 0 /\ 0 \in Link
    BY StepAssumption DEF Init, Taken
  <2>2. Len(<<>>) = 0 /\ \A n, d : Run(<<>>, n, d)
    BY DEF Run
  <2> QED BY <2>1, <2>2 DEF OrderInv, InOrder, Made
<1>2. TypeInv /\ OrderInv /\ [Next]_vars => OrderInv'
  <2> SUFFICES ASSUME TypeInv, OrderInv, [Next]_vars PROVE OrderInv'
    OBVIOUS
  <2>1. CASE UNCHANGED vars
    BY <2>1, SameOrder
  <2> QED BY <2>1, StageOrder, MainOrder, EnvironmentOrder DEF Next, Exited
<1> QED BY <1>1, <1>2, TypeInvariant, PTL DEF Spec

\* Whatever fails and whichever wait expires, no block is lost within a pipe,
\* doubled or overtaken; only memory used after its free can change one.
THEOREM OrderCorrect == Spec => []InOrder
<1>1. OrderInv => InOrder
  BY DEF OrderInv
<1> QED BY <1>1, OrderInvariant, PTL
-----------------------------------------------------------------------------
(* Delivery.  A pipeline of commands, with at most a thread behind the last one *)
(* to feed the output socket, delivers everything when nothing fails and the    *)
(* waits are long enough.  (A command behind a thread does not: see             *)
(* SwTruncation.)                                                               *)

Undisturbed == /\ Faults = {} /\ Patient /\ ~WatchdogEnabled
               /\ Named = {} /\ Worker \subseteq {NumSteps - 1}

\* Without named pipes no thread connects, and nothing closes the sink.
States == /\ \A i \in Child : st[i] \in {"idle", "run", "ended", "killed"}
          /\ \A i \in Worker : st[i] \in {"idle", "read", "write", "flush", "ended", "killed"}
          /\ sinkOpen

\* The stages main has yet to start are those that are idle.
Unstarted(i) == \/ mpc = "pumps" /\ (i \in Child \/ i >= mi)
                \/ mpc = "taps" /\ i \in Child /\ i >= mi
Started == \A i \in Step : st[i] = "idle" <=> Unstarted(i)

\* A pipe is held by its writer, or by main in its name, and by no one who does not
\* run upstream of its reader.
HeldBy(k) == /\ \A p \in writers[k] \ {Main} : p < k /\ st[p] = "run"
             /\ Main \in writers[k] <=> st[k - 1] = "idle"
             /\ st[k - 1] = "run" => k - 1 \in writers[k]
Holders == \A k \in Pipe : HeldBy(k)

\* A stage ends when all is written that came from upstream.
Drained(i) == /\ pipe[i] = <<>> /\ buf[i] = <<>>
              /\ IF i = 0 THEN ~srcOpen ELSE Ended(i - 1)
Drains == \A i \in Step : st[i] \in {"flush", "ended", "killed"} => Drained(i)

\* So the first stage is the first to end, main waits for the stages in the order
\* of the pipeline, and no wait expires.
Finished ==
  /\ mpc = "tidy" => deadstep = 0 /\ ~srcOpen /\ \A i \in Step : i < mi => Ended(i)
  /\ mpc \in {"reap", "flush", "exited"} => \A i \in Step : Ended(i)

DeliveryInv == States /\ Started /\ Holders /\ Drains /\ Finished

\* A set of stages that is not empty has a first and a last one.
LEMMA FirstStage ==
  ASSUME NEW S \in SUBSET Nat, S # {}
  PROVE  \E n \in S : \A m \in S : n <= m
<1> DEFINE Less == OpToRel(<, Nat)
<1>1. \A x, y \in Nat : y < x => <<y, x>> \in Less
  BY DEF OpToRel
<1>2. IsWellFoundedOn(Less, Nat)
  BY NatLessThanWellFounded
<1> HIDE DEF Less
<1>3. PICK n \in S : \A m \in S : <<m, n>> \notin Less
  BY <1>2, WFMin
<1>4. \A m \in S : ~(m < n)
  BY <1>1, <1>3
<1> QED BY <1>4

LEMMA LastStage ==
  ASSUME NEW S \in SUBSET Step, S # {}
  PROVE  \E n \in S : \A m \in S : m <= n
<1> DEFINE T == {NumSteps - 1 - n : n \in S}
<1>1. T \in SUBSET Nat /\ T # {}
  <2>1. NumSteps \in Nat /\ \A n \in S : n \in 0 .. NumSteps - 1
    BY StepAssumption
  <2>2. \A n \in S : NumSteps - 1 - n \in Nat
    BY <2>1
  <2> QED BY <2>2
<1>2. PICK t \in T : \A u \in T : t <= u
  BY <1>1, FirstStage
<1>3. PICK n \in S : t = NumSteps - 1 - n
  OBVIOUS
<1>4. ASSUME NEW m \in S PROVE m <= n
  <2>1. NumSteps - 1 - m \in T
    OBVIOUS
  <2>2. t <= NumSteps - 1 - m
    BY <1>2, <2>1
  <2> QED BY <1>3, <2>2, StepAssumption
<1> QED BY <1>4

\* End of file says that the stage before has ended, and is there when all before
\* have.
LEMMA EofTold ==
  ASSUME Undisturbed, TypeInv, DeliveryInv, NEW i \in Step, AtEof(i)
  PROVE  pipe[i] = <<>> /\ IF i = 0 THEN ~srcOpen ELSE Ended(i - 1)
<1>1. CASE i = 0
  BY <1>1 DEF AtEof
<1>2. CASE i # 0
  <2>1. i \in Pipe /\ i - 1 \in Child /\ writers[i] = {} /\ pipe[i] = <<>>
    BY <1>2, StepAssumption DEF AtEof, Undisturbed
  <2>2. st[i - 1] # "idle" /\ st[i - 1] # "run"
    BY <2>1 DEF DeliveryInv, Holders, HeldBy
  <2> QED BY <1>2, <2>1, <2>2 DEF DeliveryInv, States, Ended
<1> QED BY <1>1, <1>2

LEMMA EofReached ==
  ASSUME TypeInv, DeliveryInv, ~srcOpen, mpc \notin {"pumps", "taps"},
         NEW i \in Step, pipe[i] = <<>>, \A j \in Step : j < i => Ended(j)
  PROVE  AtEof(i)
<1>1. CASE i = 0
  BY <1>1 DEF AtEof
<1>2. CASE i # 0
  <2>1. i \in Pipe /\ i - 1 \in Step /\ i - 1 < i /\ writers[i] \subseteq Child \cup {Main}
    BY <1>2, StepAssumption DEF TypeInv, TypeOK
  <2>2. HeldBy(i) /\ st[i - 1] # "idle"
    BY <2>1 DEF DeliveryInv, Holders, Started, Unstarted
  <2>3. ASSUME NEW p \in writers[i] PROVE FALSE
    <3>1. p # Main
      BY <2>2 DEF HeldBy
    <3>2. p < i /\ st[p] = "run" /\ p \in Step
      BY <2>1, <2>2, <3>1 DEF HeldBy
    <3> QED BY <3>2 DEF Ended
  <2> QED BY <1>2, <2>3 DEF AtEof
<1> QED BY <1>1, <1>2

\* A stage that has input, or knows that there is none, is held up only by a full
\* pipe before it, when the client of the sink has taken all there is.
LEMMA HeldUp ==
  ASSUME Undisturbed, TypeInv, DeliveryInv, NEW i \in Step, Live(i),
         pipe[i] # <<>> \/ AtEof(i), ~CanMove(i), ~SinkHolds
  PROVE  i + 1 \in Step /\ pipe[i + 1] # <<>>
<1>0. /\ pipe[i] \in Seq(Nat) /\ buf[i] \in Seq(Nat) /\ pipe[i + 1] \in Seq(Nat)
      /\ Len(buf[i]) \in Nat /\ (buf[i] # <<>> => Len(buf[i]) > 0)
  <2>0. NumSteps \in Nat \ {0}
    BY StepAssumption
  <2>1. i \in Link /\ i + 1 \in Link
    BY <2>0
  <2>2. pipe[i] \in Seq(Nat) /\ buf[i] \in Seq(Nat) /\ pipe[i + 1] \in Seq(Nat)
    BY <2>1 DEF TypeInv, TypeOK
  <2> QED BY <2>2, EmptySeq, LenProperties
<1>1. ~Broken(i + 1)
  BY DEF DeliveryInv, States, Broken
<1>1a. HasRoom(NumSteps)
  <2>1. Len(pipe[NumSteps]) \in Nat /\ drained \in Nat
    BY StepAssumption DEF TypeInv, TypeOK
  <2>2. ~(drained < Len(pipe[NumSteps]))
    BY DEF SinkHolds, DeliveryInv, States
  <2>3. Len(pipe[NumSteps]) - drained < PipeSize
    BY <2>1, <2>2, BoundAssumption
  <2> QED BY <2>3 DEF HasRoom
<1>2. ASSUME ~HasRoom(i + 1) PROVE i + 1 \in Step /\ pipe[i + 1] # <<>>
  <2>1. i + 1 # NumSteps /\ ~(Len(pipe[i + 1]) < PipeSize)
    BY <1>1a, <1>2 DEF HasRoom
  <2>2. pipe[i + 1] # <<>>
    BY <1>0, <2>1, BoundAssumption
  <2> QED BY <2>1, <2>2, StepAssumption
<1>3. CASE i \in Worker
  <2>1. i + 1 = NumSteps
    BY <1>3, StepAssumption DEF Undisturbed
  <2>2. st[i] \in {"read", "write", "flush"}
    BY <1>3 DEF DeliveryInv, States, Live
  <2>3. HasRoom(i + 1)
    BY <1>1a, <2>1
  <2> QED BY <2>1, <2>2, <2>3 DEF CanMove
<1>4. CASE i \in Child
  <2>1. st[i] = "run" /\ HasOutput(i)
    BY <1>4 DEF DeliveryInv, States, Live, Undisturbed, HasOutput
  <2>2. WantsOutput(i) => ~HasRoom(i + 1)
    BY <2>1 DEF CanMove
  <2>3. ~(WantsInput(i) /\ pipe[i] # <<>>)
    BY DEF CanMove
  <2>4. ~IsDone(i)
    BY DEF CanMove
  <2>5. WantsOutput(i)
    <3>1. CASE pipe[i] # <<>>
      <4>1. Len(buf[i]) > Lag
        BY <1>0, <2>1, <2>3, <3>1, BoundAssumption DEF WantsInput
      <4>2. buf[i] # <<>>
        BY <4>1, BoundAssumption
      <4> QED BY <2>1, <4>1, <4>2 DEF WantsOutput
    <3>2. CASE pipe[i] = <<>>
      <4>1. AtEof(i)
        BY <3>2
      <4>2. buf[i] # <<>>
        BY <2>1, <2>4, <4>1 DEF IsDone
      <4> QED BY <2>1, <4>1, <4>2 DEF WantsOutput
    <3> QED BY <3>1, <3>2
  <2> QED BY <1>2, <2>2, <2>5
<1> QED BY <1>3, <1>4

\* When the source is closed and all are started, what can no longer move has ended:
\* the first stage that lives has its end of file, and the last one that has
\* input is in no one's way.
LEMMA QuietIsOver ==
  ASSUME Undisturbed, TypeInv, DeliveryInv, ~srcOpen, mpc \notin {"pumps", "taps"}, ~Busy
  PROVE  \A i \in Step : Ended(i)
<1>1. \A i \in Step : Ended(i) <=> ~Live(i)
  BY DEF DeliveryInv, Started, Unstarted, Ended, Live
<1> SUFFICES ASSUME \E i \in Step : Live(i) PROVE FALSE
  BY <1>1
<1> DEFINE A == {i \in Step : Live(i)}
           F == {i \in Step : Live(i) /\ (pipe[i] # <<>> \/ AtEof(i))}
<1>2. F # {}
  <2>1. A \in SUBSET Nat /\ A # {}
    OBVIOUS
  <2>2. PICK i \in A : \A j \in A : i <= j
    BY <2>1, FirstStage
  <2>3. \A j \in Step : j < i => Ended(j)
    BY <1>1, <2>2
  <2>4. pipe[i] # <<>> \/ AtEof(i)
    BY <2>3, EofReached
  <2> QED BY <2>4
<1>3. PICK i \in F : \A j \in F : j <= i
  BY <1>2, LastStage
<1>4. i + 1 \in Step /\ pipe[i + 1] # <<>>
  BY HeldUp DEF Busy
<1>5. Live(i + 1)
  BY <1>1, <1>4 DEF DeliveryInv, Drains, Drained, Ended
<1>6. i + 1 \in F
  BY <1>4, <1>5
<1> QED BY <1>3, <1>6

LEMMA PipeFacts ==
  ASSUME TypeInv, DeliveryInv, NEW k \in Pipe
  PROVE  HeldBy(k) /\ k - 1 \in Step /\ writers[k] \subseteq Child \cup {Main}
<1>1. NumSteps \in Nat \ {0}
  BY StepAssumption
<1>2. k - 1 \in Step
  BY <1>1
<1>3. writers[k] \subseteq Child \cup {Main}
  BY DEF TypeInv, TypeOK
<1>4. HeldBy(k)
  BY DEF DeliveryInv, Holders
<1> QED BY <1>2, <1>3, <1>4

\* Stage i goes on from a state in which it lives to another, and no handle changes.
LEMMA OneMoves ==
  ASSUME Undisturbed, TypeInv, DeliveryInv, NEW i \in Step,
         NEW s \in {"read", "write", "flush", "run"},
         UNCHANGED <<mpc, mi, deadstep, writers, srcOpen, sinkOpen>>,
         st' = [st EXCEPT ![i] = s],
         st[i] \in {"read", "write", "flush", "run"},
         (i \in Child) <=> s = "run",
         s = "flush" => Drained(i),
         \A j \in Step : st'[j] \in {"flush", "ended", "killed"} =>
                            pipe'[j] = pipe[j] /\ buf'[j] = buf[j]
  PROVE  DeliveryInv'
<1>0. /\ st'[i] = s /\ \A j \in Step \ {i} : st'[j] = st[j]
      /\ \A j \in Step : Ended(j)' <=> Ended(j)
      /\ (st[i] = "run") <=> (s = "run")
  BY DEF TypeInv, TypeOK, Ended, DeliveryInv, States
<1>1. States'
  BY <1>0, StepAssumption DEF DeliveryInv, States
<1>2. Started'
  BY <1>0 DEF DeliveryInv, Started, Unstarted
<1>3. Holders'
  <2> SUFFICES ASSUME NEW k \in Pipe PROVE HeldBy(k)'
    BY DEF Holders
  <2>1. HeldBy(k) /\ k - 1 \in Step /\ writers[k] \subseteq Child \cup {Main}
    BY PipeFacts
  <2>2. \A p \in Step : (st'[p] = "run" <=> st[p] = "run") /\ (st'[p] = "idle" <=> st[p] = "idle")
    BY <1>0
  <2> QED BY <2>1, <2>2 DEF HeldBy
<1>4. Drains'
  <2> SUFFICES ASSUME NEW j \in Step, st'[j] \in {"flush", "ended", "killed"} PROVE Drained(j)'
    BY DEF Drains
  <2>1. Drained(j)
    BY <1>0 DEF DeliveryInv, Drains
  <2>2. j # 0 => (Ended(j - 1)' <=> Ended(j - 1))
    BY <1>0, StepAssumption
  <2> QED BY <2>1, <2>2 DEF Drained
<1>5. Finished'
  BY <1>0 DEF DeliveryInv, Finished
<1> QED BY <1>1, <1>2, <1>3, <1>4, <1>5 DEF DeliveryInv

\* Stage i ends, and its handles go with it.
LEMMA OneEnds ==
  ASSUME Undisturbed, TypeInv, DeliveryInv, NEW i \in Step,
         UNCHANGED <<mpc, mi, deadstep, srcOpen, sinkOpen, pipe, buf>>,
         st' = [st EXCEPT ![i] = "ended"], st[i] \in {"flush", "run"}, Drained(i),
         i \in Child => writers' = LetGo(writers, i),
         i \in Worker => writers' = writers
  PROVE  DeliveryInv'
<1>0. /\ st'[i] = "ended" /\ \A j \in Step \ {i} : st'[j] = st[j]
      /\ \A j \in Step : Ended(j) => Ended(j)'
  BY DEF TypeInv, TypeOK, Ended
<1>1. States'
  BY <1>0, StepAssumption DEF DeliveryInv, States
<1>2. Started'
  BY <1>0 DEF DeliveryInv, Started, Unstarted
<1>3. Holders'
  <2> SUFFICES ASSUME NEW k \in Pipe PROVE HeldBy(k)'
    BY DEF Holders
  <2>1. HeldBy(k) /\ k - 1 \in Step /\ writers[k] \subseteq Child \cup {Main}
    BY PipeFacts
  <2>2. writers'[k] = writers[k] \ {i}
    <3>1. CASE i \in Child
      BY <3>1 DEF LetGo
    <3>2. CASE i \in Worker
      BY <2>1, <3>2, StepAssumption
    <3> QED BY <3>1, <3>2
  <2>3. i # Main
    BY StepAssumption
  <2> QED BY <1>0, <2>1, <2>2, <2>3 DEF HeldBy
<1>4. Drains'
  <2> SUFFICES ASSUME NEW j \in Step, st'[j] \in {"flush", "ended", "killed"} PROVE Drained(j)'
    BY DEF Drains
  <2>1. Drained(j)
    BY <1>0 DEF DeliveryInv, Drains
  <2>2. j # 0 => (Ended(j - 1) => Ended(j - 1)')
    BY <1>0, StepAssumption
  <2> QED BY <2>1, <2>2 DEF Drained
<1>5. Finished'
  BY <1>0 DEF DeliveryInv, Finished
<1> QED BY <1>1, <1>2, <1>3, <1>4, <1>5 DEF DeliveryInv

\* A block that moves touches the pipe and the buffer of no stage that is over: the
\* stage that takes or gives it lives, and so does the one behind it.
LEMMA BehindLives ==
  ASSUME TypeInv, DeliveryInv, NEW i \in Step, ~Ended(i), i + 1 \in Step
  PROVE  st[i + 1] \notin {"flush", "ended", "killed"}
<1>1. i + 1 # 0 /\ (i + 1) - 1 = i
  BY StepAssumption
<1> QED BY <1>1 DEF DeliveryInv, Drains, Drained

LEMMA StageDelivers ==
  ASSUME Undisturbed, TypeInv, DeliveryInv, NEW i \in Step, StageStep(i)
  PROVE  DeliveryInv'
<1>0. /\ st \in [Step -> {"idle", "start", "connect", "read", "write", "flush",
                          "run", "ended", "killed"}]
      /\ pipe \in [Link -> Seq(Nat)] /\ buf \in [Step -> Seq(Nat)] /\ i + 1 \in Link /\ i \in Link
      /\ i \in Int /\ NumSteps \in Nat \ {0}
  <2>1. NumSteps \in Nat \ {0}
    BY StepAssumption
  <2>2. i + 1 \in Link /\ i \in Link /\ i \in Int
    BY <2>1
  <2> QED BY <2>1, <2>2 DEF TypeInv, TypeOK
<1>1. ~Broken(i + 1)
  BY DEF DeliveryInv, States, Broken
<1>2. ASSUME Take(i), ~Ended(i), st[i] # "flush", NEW j \in Step \ {i}
      PROVE  pipe'[j] = pipe[j] /\ buf'[j] = buf[j]
  BY <1>0, <1>2 DEF Take
<1>3. ASSUME Give(i), ~Ended(i), NEW j \in Step \ {i}, st[j] \in {"flush", "ended", "killed"}
      PROVE  pipe'[j] = pipe[j] /\ buf'[j] = buf[j]
  <2>1. j # i + 1
    BY <1>3, BehindLives
  <2> QED BY <1>0, <1>3, <2>1 DEF Give
<1>4. CASE ThreadStep(i) /\ i \in Worker
  <2>1. st[i] \notin {"start", "connect"}
    BY <1>4 DEF DeliveryInv, States
  <2>2. i + 1 = NumSteps /\ i \notin Child
    BY <1>4, StepAssumption DEF Undisturbed
  <2>3. CASE ThreadRead(i)
    <3>1. /\ UNCHANGED <<mpc, mi, deadstep, writers, srcOpen, sinkOpen>> /\ st[i] = "read"
          /\ st' = [st EXCEPT ![i] = "write"] /\ Take(i)
      BY <2>3 DEF ThreadRead
    <3>2. \A j \in Step : st'[j] \in {"flush", "ended", "killed"} =>
                            pipe'[j] = pipe[j] /\ buf'[j] = buf[j]
      BY <1>0, <1>2, <3>1 DEF Ended
    <3> QED BY <2>2, <3>1, <3>2, OneMoves
  <2>4. CASE ThreadReadEnds(i)
    <3>1. /\ UNCHANGED <<mpc, mi, deadstep, writers, srcOpen, sinkOpen, pipe, buf>> /\ st[i] = "read"
          /\ st' = [st EXCEPT ![i] = "flush"] /\ AtEof(i)
      BY <2>4 DEF ThreadReadEnds, Undisturbed
    <3>2. Drained(i)
      BY <1>4, <3>1, EofTold DEF Drained, TypeInv, ThreadBuffers, BufferFits
    <3> QED BY <2>2, <3>1, <3>2, OneMoves
  <2>5. CASE ThreadWrite(i)
    <3>1. /\ UNCHANGED <<mpc, mi, deadstep, writers, srcOpen, sinkOpen>> /\ st[i] = "write"
          /\ st' = [st EXCEPT ![i] = "read"] /\ Give(i)
      BY <2>5 DEF ThreadWrite
    <3>2. \A j \in Step : st'[j] \in {"flush", "ended", "killed"} =>
                            pipe'[j] = pipe[j] /\ buf'[j] = buf[j]
      BY <1>0, <1>3, <3>1 DEF Ended
    <3> QED BY <2>2, <3>1, <3>2, OneMoves
  <2>6. CASE ThreadFlush(i)
    <3>1. /\ UNCHANGED <<mpc, mi, deadstep, srcOpen, sinkOpen, pipe, buf>> /\ st[i] = "flush"
          /\ st' = [st EXCEPT ![i] = "ended"] /\ writers' = CloseOutput(writers, Main, i + 1)
      BY <2>6 DEF ThreadFlush
    <3>2. Drained(i)
      BY <3>1 DEF DeliveryInv, Drains
    <3>3. writers' = writers
      <4>1. \A k \in Pipe : k # i + 1
        BY <1>0, <2>2
      <4>2. writers \in [Pipe -> SUBSET (Child \cup {Main})]
        BY DEF TypeInv, TypeOK
      <4> QED BY <3>1, <4>1, <4>2 DEF CloseOutput
    <3> QED BY <2>2, <3>1, <3>2, <3>3, OneEnds
  <2> QED BY <1>1, <1>4, <2>1, <2>3, <2>4, <2>5, <2>6
      DEF ThreadStep, ThreadConnect, ThreadConnected, ThreadWriteFails
<1>5. CASE ChildStep(i) /\ i \in Child
  <2>1. HasOutput(i) /\ i \notin Worker
    BY <1>5 DEF Undisturbed, HasOutput
  <2>2. CASE ChildRead(i) \/ ChildWrite(i)
    <3>1. /\ UNCHANGED <<mpc, mi, deadstep, writers, srcOpen, sinkOpen>> /\ st[i] = "run"
          /\ st' = st /\ (Take(i) \/ Give(i))
      BY <2>2 DEF ChildRead, ChildWrite, WantsInput, WantsOutput
    <3>2. \A j \in Step : st'[j] \in {"flush", "ended", "killed"} =>
                            pipe'[j] = pipe[j] /\ buf'[j] = buf[j]
      BY <1>0, <1>2, <1>3, <3>1 DEF Ended
    <3>3. st' = [st EXCEPT ![i] = "run"]
      BY <1>0, <3>1
    <3> QED BY <1>5, <3>1, <3>2, <3>3, OneMoves
  <2>3. CASE ChildExit(i)
    <3>1. /\ UNCHANGED <<mpc, mi, deadstep, srcOpen, sinkOpen, pipe, buf>> /\ st[i] = "run"
          /\ st' = [st EXCEPT ![i] = "ended"] /\ writers' = LetGo(writers, i) /\ IsDone(i)
      BY <1>1, <2>3 DEF ChildExit, IsDone, Undisturbed
    <3>2. Drained(i)
      BY <3>1, EofTold DEF IsDone, Drained
    <3> QED BY <2>1, <3>1, <3>2, OneEnds
  <2> QED BY <1>5, <2>1, <2>2, <2>3 DEF ChildStep, ChildOpen
<1> QED BY <1>4, <1>5 DEF StageStep

\* The steps of main.
LEMMA MainDelivers ==
  ASSUME Undisturbed, TypeInv, DeliveryInv, MainStep
  PROVE  DeliveryInv'
<1>0. /\ mi \in Step /\ mi \in Int /\ NumSteps \in Nat \ {0}
      /\ st \in [Step -> {"idle", "start", "connect", "read", "write", "flush",
                          "run", "ended", "killed"}]
  BY StepAssumption DEF TypeInv, TypeOK
<1>1. CASE StartThread
  <2>1. /\ mpc = "pumps" /\ mi \in Worker /\ mi + 1 = NumSteps
        /\ st' = [st EXCEPT ![mi] = "read"] /\ UNCHANGED <<writers, srcOpen, sinkOpen, pipe, buf>>
        /\ mpc' = "taps" /\ mi' = 0
    BY <1>0, <1>1, StepAssumption DEF StartThread, Advance, Undisturbed
  <2>2. st[mi] = "idle"
    BY <1>0, <2>1 DEF DeliveryInv, Started, Unstarted
  <2>3. /\ st'[mi] = "read" /\ \A j \in Step \ {mi} : st'[j] = st[j]
        /\ \A j \in Step : Ended(j)' <=> Ended(j)
    BY <1>0, <2>1, <2>2 DEF Ended
  <2>4. States'
    BY <1>0, <2>1, <2>3, StepAssumption DEF DeliveryInv, States
  <2>5. Started'
    <3>1. \A j \in Step : j # mi => j \in Child
      BY <2>1, StepAssumption DEF Undisturbed
    <3> QED BY <1>0, <2>1, <2>3, <3>1 DEF DeliveryInv, Started, Unstarted
  <2>6. Holders'
    <3> SUFFICES ASSUME NEW k \in Pipe PROVE HeldBy(k)'
      BY DEF Holders
    <3>1. HeldBy(k) /\ k - 1 \in Step /\ k - 1 # mi
      BY <1>0, <2>1, PipeFacts
    <3>2. \A p \in writers[k] \ {Main} : p \in Step /\ st'[p] = st[p]
      BY <2>2, <2>3, <3>1, PipeFacts DEF HeldBy
    <3> QED BY <2>1, <2>3, <3>1, <3>2 DEF HeldBy
  <2>7. Drains'
    <3> SUFFICES ASSUME NEW j \in Step, st'[j] \in {"flush", "ended", "killed"} PROVE Drained(j)'
      BY DEF Drains
    <3>1. Drained(j)
      BY <2>3 DEF DeliveryInv, Drains
    <3>2. j # 0 => (Ended(j - 1)' <=> Ended(j - 1))
      BY <1>0, <2>3
    <3> QED BY <2>1, <3>1, <3>2 DEF Drained
  <2> QED BY <2>1, <2>4, <2>5, <2>6, <2>7 DEF DeliveryInv, Finished
<1>2. CASE StartChild
  <2>1. /\ mpc = "taps" /\ mi \in Child
        /\ st' = [st EXCEPT ![mi] = "run"] /\ UNCHANGED <<srcOpen, sinkOpen, pipe, buf>>
        /\ writers' = CloseOutput(Inherit(writers, mi), Main, mi + 1)
        /\ \/ mpc' = "taps" /\ mi' = mi + 1
           \/ mpc' = "monitor" /\ mi + 1 >= NumSteps
    BY <1>0, <1>2 DEF StartChild, Advance
  <2>2. st[mi] = "idle"
    BY <1>0, <2>1 DEF DeliveryInv, Started, Unstarted
  <2>3. /\ st'[mi] = "run" /\ \A j \in Step \ {mi} : st'[j] = st[j]
        /\ \A j \in Step : Ended(j)' <=> Ended(j)
    BY <1>0, <2>1, <2>2 DEF Ended
  <2>4. States'
    BY <1>0, <2>1, <2>3, StepAssumption DEF DeliveryInv, States
  <2>5. Started'
    <3>1. \A j \in Step : (st[j] = "idle") <=> (j \in Child /\ j >= mi)
      BY <2>1 DEF DeliveryInv, Started, Unstarted
    <3>2. \A j \in Step : (st'[j] = "idle") <=> (j \in Child /\ j >= mi + 1)
      BY <1>0, <2>3, <3>1
    <3>3. CASE mpc' = "taps" /\ mi' = mi + 1
      BY <3>2, <3>3 DEF Started, Unstarted
    <3>4. CASE mpc' = "monitor" /\ mi + 1 >= NumSteps
      <4>1. \A j \in Step : ~(j >= mi + 1)
        BY <1>0, <3>4
      <4> QED BY <3>2, <3>4, <4>1 DEF Started, Unstarted
    <3> QED BY <2>1, <3>3, <3>4
  <2>6. Holders'
    <3> SUFFICES ASSUME NEW k \in Pipe PROVE HeldBy(k)'
      BY DEF Holders
    <3>1. HeldBy(k) /\ k - 1 \in Step /\ writers[k] \subseteq Child \cup {Main}
      BY PipeFacts
    <3>2. Inherit(writers, mi)[k] = IF Main \in writers[k] THEN writers[k] \cup {mi} ELSE writers[k]
      BY DEF Inherit
    <3>3. writers'[k] = IF k = mi + 1 THEN Inherit(writers, mi)[k] \ {Main}
                                      ELSE Inherit(writers, mi)[k]
      BY <2>1 DEF CloseOutput
    <3>4. Main # mi /\ k \in Int
      BY <1>0
    <3>5. CASE k = mi + 1
      <4>1. k - 1 = mi /\ mi < k
        BY <1>0, <3>5
      <4>2. writers'[k] = (writers[k] \ {Main}) \cup {mi}
        BY <2>2, <3>1, <3>2, <3>3, <3>4, <3>5, <4>1 DEF HeldBy
      <4>3. \A p \in writers[k] \ {Main} : p < k /\ st'[p] = "run"
        BY <2>2, <2>3, <3>1 DEF HeldBy
      <4> QED BY <2>3, <3>4, <4>1, <4>2, <4>3 DEF HeldBy
    <3>6. CASE k # mi + 1
      <4>1. k - 1 # mi /\ st'[k - 1] = st[k - 1]
        BY <1>0, <2>3, <3>1, <3>6
      <4>2. Main \in writers[k] => mi < k
        <5>1. ASSUME Main \in writers[k] PROVE mi < k
          <6>1. st[k - 1] = "idle"
            BY <3>1, <5>1 DEF HeldBy
          <6>2. k - 1 >= mi
            BY <2>1, <3>1, <6>1 DEF DeliveryInv, Started, Unstarted
          <6> QED BY <1>0, <3>1, <3>4, <6>2
        <5> QED BY <5>1
      <4>3. \A p \in writers[k] \ {Main} : p < k /\ st'[p] = "run"
        BY <2>2, <2>3, <3>1 DEF HeldBy
      <4> QED BY <2>3, <3>1, <3>2, <3>3, <3>4, <3>6, <4>1, <4>2, <4>3 DEF HeldBy
    <3> QED BY <3>5, <3>6
  <2>7. Drains'
    <3> SUFFICES ASSUME NEW j \in Step, st'[j] \in {"flush", "ended", "killed"} PROVE Drained(j)'
      BY DEF Drains
    <3>1. Drained(j)
      BY <2>3 DEF DeliveryInv, Drains
    <3>2. j # 0 => (Ended(j - 1)' <=> Ended(j - 1))
      BY <1>0, <2>3
    <3> QED BY <2>1, <3>1, <3>2 DEF Drained
  <2> QED BY <2>1, <2>4, <2>5, <2>6, <2>7 DEF DeliveryInv, Finished
<1>3. CASE PassOver
  <2>1. UNCHANGED <<st, writers, srcOpen, sinkOpen, pipe, buf>>
    BY <1>3 DEF PassOver
  <2>2. \/ /\ mpc = "pumps" /\ mi \in Child
           /\ \/ mpc' = "pumps" /\ mi' = mi + 1
              \/ mpc' = "taps" /\ mi' = 0 /\ mi + 1 >= NumSteps
        \/ /\ mpc = "taps" /\ mi \in Worker
           /\ \/ mpc' = "taps" /\ mi' = mi + 1
              \/ mpc' = "monitor" /\ mi + 1 >= NumSteps
    BY <1>0, <1>3 DEF PassOver, Advance
  <2>3. Started'
    <3>1. ASSUME NEW j \in Step PROVE Unstarted(j)' <=> Unstarted(j)
      BY <1>0, <2>2, StepAssumption DEF Unstarted
    <3> QED BY <2>1, <3>1 DEF DeliveryInv, Started
  <2>4. Finished'
    BY <2>2 DEF Finished
  <2> QED BY <2>1, <2>3, <2>4 DEF DeliveryInv, States, Holders, HeldBy, Drains, Drained, Ended
<1>4. CASE MonitorWakes
  <2>1. /\ UNCHANGED <<st, writers, srcOpen, sinkOpen, pipe, buf>>
        /\ mpc = "monitor" /\ mpc' = "tidy" /\ mi' = 0
    BY <1>4 DEF MonitorWakes
  <2>2. ~srcOpen /\ deadstep' = 0
    <3>1. \A j \in Step : st[j] # "idle"
      BY <2>1 DEF DeliveryInv, Started, Unstarted
    <3>2. PICK d \in Step : Ended(d) /\ (\A j \in Step : Ended(j) => d <= j) /\ deadstep' = d
      BY <1>0, <1>4, <3>1 DEF MonitorWakes
    <3>3. Drained(d)
      BY <3>2 DEF DeliveryInv, Drains, Ended
    <3>4. d = 0
      <4>1. SUFFICES ASSUME d # 0 PROVE FALSE
        OBVIOUS
      <4>2. Ended(d - 1) /\ d - 1 \in Step
        BY <1>0, <3>3, <4>1 DEF Drained
      <4> QED BY <1>0, <3>2, <4>2
    <3> QED BY <3>2, <3>3, <3>4 DEF Drained
  <2>3. Finished'
    BY <1>0, <2>1, <2>2 DEF Finished
  <2>4. Started'
    BY <2>1 DEF DeliveryInv, Started, Unstarted
  <2> QED BY <2>1, <2>3, <2>4 DEF DeliveryInv, States, Holders, HeldBy, Drains, Drained, Ended
<1>5. CASE MonitorTimesOut
  <2>1. UNCHANGED <<st, writers, srcOpen, sinkOpen, pipe, buf, mpc, mi, deadstep>>
    BY <1>5 DEF MonitorTimesOut, Undisturbed
  <2> QED BY <2>1 DEF DeliveryInv, States, Started, Unstarted, Holders, HeldBy, Drains, Drained,
                      Finished, Ended
<1>6. CASE TidyThread \/ TidyChild
  <2>1. mpc = "tidy" /\ deadstep = 0 /\ ~srcOpen /\ \A j \in Step : j < mi => Ended(j)
    BY <1>6 DEF TidyThread, TidyChild, DeliveryInv, Finished
  <2>2. ~Live(mi)
    <3>1. SUFFICES ASSUME Live(mi) PROVE FALSE
      OBVIOUS
    <3>2. CASE ~Busy
      BY <1>0, <2>1, <3>1, <3>2, QuietIsOver DEF Live, Ended
    <3>3. CASE Busy
      <4>1. mi \in Worker /\ Brief
        BY <1>6, <3>1, <3>3 DEF TidyThread, TidyChild, WaitExpires, Undisturbed
      <4> QED BY <2>1, <4>1 DEF Brief
    <3> QED BY <3>2, <3>3
  <2>3. UNCHANGED <<st, writers, srcOpen, sinkOpen, pipe, buf, deadstep>>
    BY <1>6, <2>2 DEF TidyThread, TidyChild
  <2>4. \A j \in Step : j <= mi => Ended(j)
    <3>1. Ended(mi)
      BY <1>0, <2>1, <2>2 DEF DeliveryInv, Started, Unstarted, Live, Ended
    <3> QED BY <1>0, <2>1, <3>1
  <2>5. \/ mpc' = "tidy" /\ mi' = mi + 1
        \/ mpc' = "reap" /\ mi + 1 >= NumSteps
    <3>1. Advance("reap") /\ mpc = "tidy"
      BY <1>6 DEF TidyThread, TidyChild
    <3>2. mi + 1 < NumSteps \/ mi + 1 >= NumSteps
      BY <1>0
    <3> QED BY <3>1, <3>2 DEF Advance
  <2>6. Finished'
    <3>1. \A j \in Step : Ended(j)' <=> Ended(j)
      BY <2>3 DEF Ended
    <3>2. CASE mpc' = "tidy" /\ mi' = mi + 1
      BY <1>0, <2>1, <2>3, <2>4, <3>1, <3>2 DEF Finished, DeliveryInv
    <3>3. CASE mpc' = "reap" /\ mi + 1 >= NumSteps
      BY <1>0, <2>4, <3>1, <3>3 DEF Finished
    <3> QED BY <2>5, <3>2, <3>3
  <2>7. Started'
    BY <2>1, <2>3, <2>5 DEF DeliveryInv, Started, Unstarted
  <2> QED BY <2>3, <2>6, <2>7 DEF DeliveryInv, States, Holders, HeldBy, Drains, Drained, Ended
<1>7. CASE Reap
  <2>1. mpc = "reap" /\ \A j \in Step : Ended(j)
    BY <1>7 DEF Reap, DeliveryInv, Finished
  <2>2. UNCHANGED <<st, writers, srcOpen, sinkOpen, pipe, buf>> /\ mpc' \in {"reap", "flush"}
    BY <1>0, <1>7, <2>1 DEF Reap, Live, Ended, Advance
  <2>3. Started' /\ Finished'
    BY <2>1, <2>2 DEF DeliveryInv, Started, Unstarted, Finished, Ended
  <2> QED BY <2>2, <2>3 DEF DeliveryInv, States, Holders, HeldBy, Drains, Drained, Ended
<1>8. CASE FlushOutput
  <2>1. mpc = "flush" /\ \A j \in Step : Ended(j)
    BY <1>8 DEF FlushOutput, DeliveryInv, Finished
  <2>2. /\ UNCHANGED <<st, srcOpen, sinkOpen, pipe, buf>> /\ mpc' = "exited"
        /\ writers' = LetGo(writers, Main)
    BY <1>8 DEF FlushOutput
  <2>3. Holders'
    <3> SUFFICES ASSUME NEW k \in Pipe PROVE HeldBy(k)'
      BY DEF Holders
    <3>1. HeldBy(k) /\ Ended(k - 1)
      BY <2>1, PipeFacts
    <3>2. writers'[k] = writers[k]
      <4>1. Main \notin writers[k]
        BY <3>1 DEF HeldBy, Ended
      <4> QED BY <2>2, <4>1 DEF LetGo
    <3> QED BY <2>2, <3>1, <3>2 DEF HeldBy
  <2>4. Started' /\ Finished'
    BY <2>1, <2>2 DEF DeliveryInv, Started, Unstarted, Finished, Ended
  <2> QED BY <2>2, <2>3, <2>4 DEF DeliveryInv, States, Drains, Drained, Ended
<1> QED BY <1>1, <1>2, <1>3, <1>4, <1>5, <1>6, <1>7, <1>8
        DEF MainStep, StartThreadFails, StartChildFails, Undisturbed

LEMMA EnvironmentDelivers ==
  ASSUME Undisturbed, TypeInv, DeliveryInv, Environment
  PROVE  DeliveryInv'
<1>0. UNCHANGED <<mpc, mi, deadstep, st, writers, buf>>
  BY DEF Environment, SourceSends, SourceCloses, SinkCloses, SinkReads, HeapReuse, Undisturbed
<1>1. CASE SourceSends
  <2>1. srcOpen /\ srcOpen' /\ sinkOpen' = sinkOpen /\ \A j \in Step \ {0} : pipe'[j] = pipe[j]
    BY <1>1 DEF SourceSends, TypeInv, TypeOK
  <2>2. Drains'
    BY <1>0, <2>1 DEF DeliveryInv, Drains, Drained, Ended
  <2> QED BY <1>0, <2>1, <2>2
          DEF DeliveryInv, States, Started, Unstarted, Holders, HeldBy, Finished, Ended
<1>2. CASE SourceCloses
  BY <1>0, <1>2 DEF SourceCloses, DeliveryInv, States, Started, Unstarted, Holders, HeldBy,
                    Drains, Drained, Finished, Ended
<1>3. CASE SinkReads
  BY <1>0, <1>3 DEF SinkReads, DeliveryInv, States, Started, Unstarted, Holders, HeldBy,
                    Drains, Drained, Finished, Ended
<1> QED BY <1>1, <1>2, <1>3 DEF Environment, SinkCloses, HeapReuse, Undisturbed

LEMMA InitDelivers == Undisturbed /\ Init => DeliveryInv
<1> SUFFICES ASSUME Undisturbed, Init PROVE DeliveryInv
  OBVIOUS
<1>1. States /\ Drains /\ Finished
  BY StepAssumption DEF Init, States, Drains, Finished
<1>2. Started
  BY StepAssumption DEF Init, Started, Unstarted
<1>3. Holders
  BY StepAssumption DEF Init, Holders, HeldBy, Undisturbed
<1> QED BY <1>1, <1>2, <1>3 DEF DeliveryInv

\* When all is over, every stage has read as many blocks as the source gave.
LEMMA AllRead ==
  ASSUME TypeInv, OrderInv, \A i \in Step : Drained(i)
  PROVE  Len(delivered) = sent
<1>0. NumSteps \in Nat \ {0} /\ 0 \in Step /\ Len(<<>>) = 0
  BY StepAssumption
<1>1. nBlocks[0] = sent
  BY <1>0, OrderFacts DEF OrderInv, InOrder, Drained
<1>2. ASSUME NEW i \in Step, i + 1 \in Step PROVE nBlocks[i + 1] = nBlocks[i]
  <2>1. nBlocks[i] = Made(i) + Len(buf[i]) /\ Made(i) \in Nat /\ buf[i] = <<>>
    BY OrderFacts DEF Drained
  <2>2. Taken(i + 1) = nBlocks[i + 1] /\ nBlocks[i + 1] \in Nat /\ pipe[i + 1] = <<>>
    BY <1>2, OrderFacts DEF Drained
  <2>3. Made(i) = nBlocks[i + 1]
    BY <1>0, <2>2 DEF Made
  <2> QED BY <1>0, <2>1, <2>3
<1> DEFINE S == {i \in Step : nBlocks[i] # sent}
<1>3. S = {}
  <2>1. SUFFICES ASSUME S # {} PROVE FALSE
    OBVIOUS
  <2>1a. S \in SUBSET Nat
    BY <1>0
  <2>2. PICK i \in S : \A j \in S : i <= j
    BY <2>1, <2>1a, FirstStage
  <2>3. i # 0 /\ i - 1 \in Step /\ (i - 1) + 1 = i
    BY <1>0, <1>1, <2>2
  <2>4. nBlocks[i - 1] = sent
    BY <2>2, <2>3
  <2>5. nBlocks[i] = nBlocks[i - 1]
    BY <1>2, <2>3
  <2> QED BY <2>4, <2>5
<1>4. NumSteps - 1 \in Step /\ (NumSteps - 1) + 1 = NumSteps
  BY <1>0
<1>5. nBlocks[NumSteps - 1] = Made(NumSteps - 1) /\ Len(pipe[NumSteps]) \in Nat
  <2> DEFINE n == NumSteps - 1
  <2>1. nBlocks[n] = Made(n) + Len(buf[n]) /\ Made(n) \in Nat /\ Len(pipe[n + 1]) \in Nat
    BY <1>4, OrderFacts
  <2>2. buf[n] = <<>>
    BY <1>4 DEF Drained
  <2> HIDE DEF n
  <2>3. nBlocks[n] = Made(n)
    BY <1>0, <2>1, <2>2
  <2> QED BY <1>4, <2>1, <2>3 DEF n
<1>6. Made(NumSteps - 1) = Len(pipe[NumSteps])
  BY <1>0, <1>4, <1>5 DEF Made, Taken
<1> QED BY <1>3, <1>4, <1>5, <1>6 DEF delivered

\* A pipeline of any number of commands, with or without a thread behind the last,
\* whatever the commands keep back and whatever the pipes hold, delivers every block
\* the source gave before it exits: with no failure, with waits that outlast
\* the commands, and without -w.
THEOREM DeliveryCorrect ==
  ASSUME Undisturbed
  PROVE  Spec => []CompleteDelivery
<1>1. TypeInv /\ DeliveryInv /\ [Next]_vars => DeliveryInv'
  <2> SUFFICES ASSUME TypeInv, DeliveryInv, [Next]_vars PROVE DeliveryInv'
    OBVIOUS
  <2>1. CASE HeapCrash
    BY <2>1 DEF HeapCrash, Undisturbed
  <2>2. CASE UNCHANGED vars
    BY <2>2 DEF DeliveryInv, States, Started, Unstarted, Holders, HeldBy, Drains, Drained,
                Finished, Ended
  <2> QED BY <2>1, <2>2, MainDelivers, StageDelivers, EnvironmentDelivers DEF Next, Exited
<1>2. TypeInv /\ OrderInv /\ DeliveryInv => CompleteDelivery
  <2> SUFFICES ASSUME TypeInv, OrderInv, DeliveryInv, mpc = "exited" PROVE Len(delivered) = sent
    BY DEF CompleteDelivery
  <2>1. \A i \in Step : Drained(i)
    BY DEF DeliveryInv, Finished, Drains, Ended
  <2> QED BY <2>1, AllRead
<1> QED BY <1>1, <1>2, InitDelivers, TypeInvariant, OrderInvariant, PTL DEF Spec
-----------------------------------------------------------------------------
(* Nothing outlives the exit. *)

\* The tidy loop ends the children it has passed and the reap loop the threads.
SweptInv ==
  /\ mpc = "monitor" => mi = 0
  /\ mpc = "tidy" => \A i \in Child : i < mi => ~Live(i)
  /\ mpc = "reap" => \A i \in Step : i \in Child \/ i < mi => ~Live(i)
  /\ mpc \in {"flush", "exited"} => \A i \in Step : ~Live(i)

\* Only a live stage takes a step, and a step of a stage revives no other.
LEMMA OnlyLiveMove ==
  ASSUME TypeInv, NEW i \in Step, StageStep(i)
  PROVE  Live(i) /\ \A j \in Step : ~Live(j) => ~Live(j)'
<1>1. Live(i)
  BY DEF StageStep, ThreadStep, ThreadConnect, ThreadConnected, ThreadRead,
         ThreadReadEnds, ThreadWrite, ThreadWriteFails, ThreadFlush, ChildStep,
         ChildOpen, ChildRead, ChildWrite, ChildExit, WantsInput, WantsOutput,
         IsDone, Live
<1>2. \E s \in {st[i], "ended", "connect", "read", "write", "flush"} :
         st' = [st EXCEPT ![i] = s]
  <2>1. st = [st EXCEPT ![i] = st[i]]
    BY DEF TypeInv, TypeOK
  <2>2. CASE ThreadStep(i)
    BY <2>1, <2>2 DEF ThreadStep, ThreadConnect, ThreadConnected, ThreadRead,
         ThreadReadEnds, ThreadWrite, ThreadWriteFails, ThreadFlush
  <2>3. CASE ChildStep(i)
    BY <2>1, <2>3 DEF ChildStep, ChildOpen, ChildRead, ChildWrite, ChildExit
  <2> QED BY <2>2, <2>3 DEF StageStep
<1>3. \A j \in Step \ {i} : st'[j] = st[j]
  BY <1>2 DEF TypeInv, TypeOK
<1> QED BY <1>1, <1>3 DEF Live

LEMMA MainSweeps ==
  ASSUME TypeInv, SweptInv, MainStep
  PROVE  SweptInv'
<1>a. TypeOK /\ mi \in Step
  BY DEF TypeInv, TypeOK
<1>0. mi \in Step /\ mi \in Int /\ TypeOK /\ NumSteps \in Nat \ {0}
  BY <1>a, StepAssumption
<1>1. CASE \/ StartThread \/ StartThreadFails \/ StartChild \/ StartChildFails
           \/ PassOver \/ MonitorWakes \/ MonitorTimesOut
  <2>1. \/ mpc' \in {"pumps", "taps"}
        \/ mpc' \in {"monitor", "tidy"} /\ mi' = 0
    BY <1>1 DEF StartThread, StartThreadFails, StartChild, StartChildFails, PassOver,
                MonitorWakes, MonitorTimesOut, Advance, GotoTidy, SweptInv
  <2> QED BY <2>1, StepAssumption DEF SweptInv
<1>2. CASE TidyThread \/ TidyChild
  <2>1. /\ mpc = "tidy"
        /\ \/ mpc' = "tidy" /\ mi' = mi + 1
           \/ mpc' = "reap" /\ mi' = 0 /\ mi + 1 >= NumSteps
    <3>1. mpc = "tidy" /\ Advance("reap")
      BY <1>2 DEF TidyThread, TidyChild
    <3>2. mi + 1 < NumSteps \/ mi + 1 >= NumSteps
      BY <1>0
    <3> QED BY <3>1, <3>2 DEF Advance
  <2>2. \A i \in Child : i <= mi => ~Live(i)'
    <3>1. SUFFICES ASSUME NEW i \in Child, i <= mi PROVE ~Live(i)'
      OBVIOUS
    <3>2. CASE TidyThread
      <4>1. i # mi /\ st' = st
        BY <3>2 DEF TidyThread
      <4> QED BY <1>0, <2>1, <3>1, <4>1 DEF SweptInv, Live
    <3>3. CASE TidyChild
      <4>1. \/ st' = st /\ ~Live(mi)
            \/ st' = [st EXCEPT ![mi] = "killed"]
        BY <3>3 DEF TidyChild
      <4>2. i < mi => ~Live(i)
        BY <2>1 DEF SweptInv
      <4>3. CASE i = mi
        BY <1>0, <4>1, <4>3 DEF Live, TypeOK
      <4>4. CASE i # mi
        <5>1. st'[i] = st[i]
          BY <1>0, <4>1, <4>4 DEF TypeOK
        <5>2. i < mi
          BY <1>0, <3>1, <4>4
        <5> QED BY <4>2, <5>1, <5>2 DEF Live
      <4> QED BY <4>3, <4>4
    <3> QED BY <1>2, <3>2, <3>3
  <2>3. CASE mpc' = "tidy" /\ mi' = mi + 1
    BY <1>0, <2>2, <2>3 DEF SweptInv
  <2>4. CASE mpc' = "reap" /\ mi' = 0 /\ mi + 1 >= NumSteps
    BY <1>0, <2>2, <2>4 DEF SweptInv
  <2> QED BY <2>1, <2>3, <2>4
<1>3. CASE Reap
  <2>1. /\ mpc = "reap"
        /\ \/ mpc' = "reap" /\ mi' = mi + 1
           \/ mpc' = "flush" /\ mi + 1 >= NumSteps
    BY <1>0, <1>3 DEF Reap, Advance
  <2>2. ASSUME NEW i \in Step, i \in Child \/ i <= mi
        PROVE  ~Live(i)'
    <3>1. st' = IF mi \in Worker /\ Live(mi) THEN [st EXCEPT ![mi] = "killed"] ELSE st
      BY <1>3 DEF Reap
    <3>2. CASE i = mi
      BY <1>0, <2>1, <3>1, <3>2 DEF SweptInv, Live, TypeOK
    <3>3. CASE i # mi
      <4>1. st'[i] = st[i]
        BY <1>0, <3>1, <3>3 DEF TypeOK
      <4>2. ~Live(i)
        BY <1>0, <2>1, <2>2, <3>3 DEF SweptInv
      <4> QED BY <4>1, <4>2 DEF Live
    <3> QED BY <3>2, <3>3
  <2>3. CASE mpc' = "reap" /\ mi' = mi + 1
    BY <1>0, <2>2, <2>3 DEF SweptInv
  <2>4. CASE mpc' = "flush" /\ mi + 1 >= NumSteps
    BY <1>0, <2>2, <2>4 DEF SweptInv
  <2> QED BY <2>1, <2>3, <2>4
<1>4. CASE FlushOutput
  BY <1>4 DEF FlushOutput, SweptInv, Live
<1> QED BY <1>1, <1>2, <1>3, <1>4 DEF MainStep

LEMMA SweptSteps ==
  ASSUME "heap" \notin Faults, TypeInv, SweptInv, [Next]_vars
  PROVE  SweptInv'
<1>1. CASE MainStep
  BY <1>1, MainSweeps
<1>2. CASE \E i \in Step : StageStep(i)
  <2>1. PICK i \in Step : StageStep(i)
    BY <1>2
  <2>2. UNCHANGED <<mpc, mi>>
    BY <2>1 DEF StageStep, ThreadStep, ThreadConnect, ThreadConnected, ThreadRead,
         ThreadReadEnds, ThreadWrite, ThreadWriteFails, ThreadFlush,
         ChildStep, ChildOpen, ChildRead, ChildWrite, ChildExit
  <2> QED BY <2>1, <2>2, OnlyLiveMove DEF SweptInv
<1>3. CASE Environment
  BY <1>3 DEF Environment, SourceSends, SourceCloses, SinkCloses, SinkReads, HeapReuse, SweptInv, Live
<1>4. CASE UNCHANGED vars
  BY <1>4 DEF SweptInv, Live
<1> QED BY <1>1, <1>2, <1>3, <1>4 DEF Next, Exited, HeapCrash

LEMMA InitSwept == Init => SweptInv
BY DEF Init, SweptInv

\* As long as no freed memory is written, every helper command has ended when
\* socketwrapper exits, however its start or its run failed.
THEOREM NoOrphansCorrect ==
  ASSUME "heap" \notin Faults
  PROVE  Spec => []NoOrphans
<1>1. TypeInv /\ SweptInv /\ [Next]_vars => SweptInv'
  BY SweptSteps
<1>2. SweptInv => NoOrphans
  BY DEF SweptInv, NoOrphans
<1> QED BY <1>1, <1>2, InitSwept, TypeInvariant, PTL DEF Spec
-----------------------------------------------------------------------------
(* SocketWrapper implements Relay. *)

\* The sink gets the next block, of those the source has given.
LEMMA NextDelivered ==
  ASSUME "heap" \notin Faults, TypeInv, OrderInv,
         NEW i \in Step, i + 1 = NumSteps, buf[i] # <<>>
  PROVE  Head(buf[i]) = Len(delivered) + 1 /\ Len(delivered) < sent
<1>1. ~Damaged
  BY DEF Damaged
<1>2. Made(i) = Len(delivered) /\ Len(delivered) \in Nat
  <2>1. Made(i) = 0 + Len(delivered)
    BY DEF Made, Taken, delivered
  <2>2. Len(delivered) \in Nat
    BY OrderFacts DEF delivered
  <2> QED BY <2>1, <2>2
<1>3. /\ buf[i] \in Seq(Nat) /\ Run(buf[i], Made(i), Damaged) /\ Damaged \in BOOLEAN
      /\ nBlocks[i] = Made(i) + Len(buf[i]) /\ nBlocks[i] <= sent
      /\ Made(i) \in Nat /\ nBlocks[i] \in Nat /\ sent \in Nat
  BY OrderFacts
<1>4. Head(buf[i]) = Made(i) + 1
  BY <1>1, <1>3, RunTail
<1>5. Len(buf[i]) \in Nat \ {0}
  BY <1>3, EmptySeq
<1>6. Made(i) < sent
  BY <1>3, <1>5
<1> QED BY <1>2, <1>4, <1>6

LEMMA StageRelays ==
  ASSUME "heap" \notin Faults, TypeInv, OrderInv, SweptInv,
         NEW i \in Step, StageStep(i)
  PROVE  [R!Next]_(R!vars)
<1>1. UNCHANGED <<mpc, sent>>
  BY DEF StageStep, ThreadStep, ThreadConnect, ThreadConnected, ThreadRead,
         ThreadReadEnds, ThreadWrite, ThreadWriteFails, ThreadFlush,
         ChildStep, ChildOpen, ChildRead, ChildWrite, ChildExit
<1>2. mpc # "exited"
  BY OnlyLiveMove DEF SweptInv
<1>3. pipe \in [Link -> Seq(Nat)] /\ NumSteps \in Link /\ i + 1 \in Link /\ i # NumSteps
  BY StepAssumption DEF TypeInv, TypeOK
<1>4. CASE delivered' = delivered
  BY <1>1, <1>4 DEF R!vars
<1>5. CASE Take(i)
  <2>1. delivered' = delivered
    BY <1>3, <1>5 DEF Take, delivered
  <2> QED BY <1>4, <2>1
<1>6. CASE Give(i) /\ buf[i] # <<>>
  <2>1. pipe' = [pipe EXCEPT ![i + 1] = Append(pipe[i + 1], Head(buf[i]))]
    BY <1>6 DEF Give
  <2>2. CASE i + 1 # NumSteps
    BY <1>3, <1>4, <2>1, <2>2 DEF delivered
  <2>3. CASE i + 1 = NumSteps
    <3>1. delivered' = Append(delivered, Head(buf[i]))
      BY <1>3, <2>1, <2>3 DEF delivered
    <3>2. Head(buf[i]) = Len(delivered) + 1 /\ Len(delivered) < sent
      BY <1>6, <2>3, NextDelivered
    <3>3. R!Deliver
      BY <1>1, <1>2, <3>1, <3>2 DEF R!Deliver
    <3> QED BY <3>3 DEF R!Next
  <2> QED BY <2>2, <2>3
<1>7. CASE UNCHANGED pipe
  BY <1>4, <1>7 DEF delivered
<1>8. CASE ThreadStep(i) /\ i \in Worker
  <2>1. ThreadWrite(i) => buf[i] # <<>>
    BY <1>8 DEF ThreadWrite, TypeInv, ThreadBuffers, BufferFits
  <2> QED BY <1>5, <1>6, <1>7, <1>8, <2>1 DEF ThreadStep, ThreadConnect,
             ThreadConnected, ThreadRead, ThreadReadEnds, ThreadWrite,
             ThreadWriteFails, ThreadFlush
<1>9. CASE ChildStep(i)
  BY <1>5, <1>6, <1>7, <1>9 DEF ChildStep, ChildOpen, ChildRead, ChildWrite,
             ChildExit, WantsOutput
<1> QED BY <1>8, <1>9 DEF StageStep

LEMMA MainRelays ==
  ASSUME TypeInv, MainStep
  PROVE  [R!Next]_(R!vars)
<1>1. UNCHANGED <<sent, pipe>> /\ mpc # "exited"
  BY DEF MainStep, StartThread, StartThreadFails, StartChild, StartChildFails,
         PassOver, MonitorWakes, MonitorTimesOut, TidyThread, TidyChild, Reap, FlushOutput
<1>2. UNCHANGED delivered
  BY <1>1 DEF delivered
<1>3. CASE mpc' = "exited"
  BY <1>1, <1>2, <1>3 DEF R!Next, R!Finish
<1>4. CASE mpc' # "exited"
  BY <1>1, <1>2, <1>4 DEF R!vars
<1> QED BY <1>3, <1>4

LEMMA EnvironmentRelays ==
  ASSUME "heap" \notin Faults, TypeInv, Environment
  PROVE  [R!Next]_(R!vars)
<1>1. CASE SourceSends
  <2>1. pipe' = [pipe EXCEPT ![0] = Append(pipe[0], sent + 1)]
    BY <1>1 DEF SourceSends
  <2>2. pipe \in [Link -> Seq(Nat)] /\ NumSteps \in Link /\ NumSteps # 0
    BY StepAssumption DEF TypeInv, TypeOK
  <2>3. delivered' = delivered
    BY <2>1, <2>2 DEF delivered
  <2>4. R!Send
    BY <1>1, <2>3 DEF SourceSends, R!Send
  <2> QED BY <2>4 DEF R!Next
<1>2. CASE SourceCloses \/ SinkCloses \/ SinkReads
  BY <1>2 DEF SourceCloses, SinkCloses, SinkReads, R!vars, delivered
<1> QED BY <1>1, <1>2 DEF Environment, HeapReuse

\* As long as no freed memory is written, socketwrapper is a relay: the blocks
\* arrive in order, once each, and none after it has exited.
THEOREM RelayCorrect ==
  ASSUME "heap" \notin Faults
  PROVE  Spec => Relays
<1>1. Init => R!Init
  <2>1. NumSteps \in Link
    BY StepAssumption
  <2> QED BY <2>1 DEF Init, R!Init, delivered
<1>2. TypeInv /\ OrderInv /\ SweptInv /\ [Next]_vars => [R!Next]_(R!vars)
  <2> SUFFICES ASSUME TypeInv, OrderInv, SweptInv, [Next]_vars
               PROVE  [R!Next]_(R!vars)
    OBVIOUS
  <2>1. CASE UNCHANGED vars
    BY <2>1 DEF R!vars, delivered
  <2> QED BY <2>1, StageRelays, MainRelays, EnvironmentRelays
          DEF Next, Exited, HeapCrash
<1>3. TypeInv /\ SweptInv /\ [Next]_vars => SweptInv'
  BY SweptSteps
<1> QED BY <1>1, <1>2, <1>3, InitSwept, TypeInvariant, OrderInvariant, PTL
        DEF Spec, Relays, R!Spec
=============================================================================
