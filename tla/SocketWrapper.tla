--------------------------- MODULE SocketWrapper ---------------------------
(***************************************************************************)
(* socketwrapper.cpp from the moment its stage table is complete: the main *)
(* thread starts the worker threads ("turn on the pumps"), then the child  *)
(* processes ("turn on the taps"), waits for the first stage to end, tidies*)
(* up and exits, while the stages move blocks along the pipeline.          *)
(*                                                                         *)
(* Stage i reads link i and writes link i+1.  Link 0 is the source (stdin  *)
(* or the input socket), link NumSteps the sink (stdout or the output      *)
(* socket); the links between are pipes.  A block is what one write moves. *)
(* The sink's client takes blocks when it likes: a player that has paused  *)
(* takes none, and the last stage then waits in its write.                 *)
(***************************************************************************)
EXTENDS Integers, Sequences

CONSTANTS NumSteps,         \* numSteps
          Worker,           \* stages with fIsWorkerThread
          Named,            \* worker threads with fInputIsNamed
          MaxBlocks,        \* bound on the blocks the source gives
          PipeSize,         \* blocks a pipe holds, or the sink for its client
          Lag,              \* blocks a child keeps back until its stdin ends
          WatchdogEnabled,  \* bWatchdogEnabled (-w)
          Patient,          \* the 2000 ms waits outlast all the stages and the
                            \* sink's client can do
          Faults            \* kinds of failure the environment may produce

Step  == 0 .. NumSteps - 1
Child == Step \ Worker
Link  == 0 .. NumSteps
Pipe  == 1 .. NumSteps - 1
Main  == -1                 \* the main process, as the holder of a handle
NoStep == -1                \* the DWORD -1 of deadstep
Junk  == 0                  \* what reused memory holds; blocks are numbered from 1

ASSUME StepAssumption ==
  /\ NumSteps \in Nat \ {0}
  /\ Worker \subseteq Step
  /\ Child # {}
  /\ Named \subseteq Worker
  /\ \A i \in Named : i - 1 \in Child
ASSUME BoundAssumption ==
  /\ MaxBlocks \in Nat
  /\ PipeSize \in Nat \ {0}
  /\ Lag \in Nat
  /\ WatchdogEnabled \in BOOLEAN
  /\ Patient \in BOOLEAN
ASSUME FaultAssumption ==
  Faults \subseteq {"malloc", "thread", "priority", "process",
                    "read", "crash", "sink", "heap"}

VARIABLES mpc,        \* where the main thread is
          mi,         \* its loop index i
          deadstep,   \* the step it found dead
          st,         \* state of each stage's thread or process
          pipe,       \* blocks in each link
          sent,       \* blocks the source has given
          srcOpen,    \* the source may give more
          sinkOpen,   \* the sink takes blocks
          drained,    \* blocks its client has taken
          writers,    \* processes that hold the write end of each pipe
          opened,     \* named pipes the child's end has been opened of
          buf,        \* pBuff of a thread, blocks held back by a child
          freed,      \* threads whose pBuff has been freed
          WatchDog,   \* WatchDog of each stage
          nBlocks     \* nBlocks of each stage: blocks read from its link

mainVars  == <<mpc, mi, deadstep>>
flowVars  == <<pipe, buf, nBlocks, WatchDog>>
envVars   == <<sent, srcOpen, sinkOpen, drained>>
holdVars  == <<writers, opened>>
vars == <<mainVars, st, flowVars, envVars, holdVars, freed>>

-----------------------------------------------------------------------------
(* Handles. *)

\* The anonymous pipes are created inheritable, both ends, and the named ones
\* are not: a new process holds every write end the main process still holds.
Inherit(ws, i) == [k \in Pipe |-> IF Main \in ws[k] THEN ws[k] \cup {i} ELSE ws[k]]

\* Faulty variant: main keeps the handle open after CreateProcess.
KeepOutput(ws, p, k) == ws

\* The process (or the thread, in the name of the main process) p closes its
\* write end of link k.
CloseOutput(ws, p, k) == [j \in Pipe |-> IF j = k THEN ws[j] \ {p} ELSE ws[j]]

\* Process p is gone, and every handle it held with it.
LetGo(ws, p) == [k \in Pipe |-> ws[k] \ {p}]

-----------------------------------------------------------------------------
(* What a stage may do, given what is in its links. *)

Ended(i) == st[i] \in {"ended", "killed"}
Live(i)  == st[i] \notin {"idle", "ended", "killed"}

\* ReadFile on link i returns 0 bytes, or fails with "broken pipe".
AtEof(i) == pipe[i] = <<>> /\ (IF i = 0 THEN ~srcOpen ELSE writers[i] = {})

HasRoom(k) == IF k = NumSteps THEN Len(pipe[k]) - drained < PipeSize
                              ELSE Len(pipe[k]) < PipeSize

\* A write on link k fails.  Only the sink can: the main process keeps the read
\* end of every pipe open, so a pipe whose reader has died only fills up.
Broken(k) == k = NumSteps /\ ~sinkOpen

\* The helper commands are filters: child i reads while it keeps back at most
\* Lag blocks, and gives those away too when its input ends.
WantsInput(i)  == st[i] = "run" /\ Len(buf[i]) <= Lag
WantsOutput(i) == st[i] = "run" /\ buf[i] # <<>> /\ (Len(buf[i]) > Lag \/ AtEof(i))
HasOutput(i)   == i + 1 \in Named => i \in writers[i + 1]
IsDone(i)      == st[i] = "run" /\ AtEof(i) /\ buf[i] = <<>> /\ HasOutput(i)

CanMove(i) ==
  \/ st[i] = "start"
  \/ st[i] = "connect" /\ i \in opened
  \/ st[i] = "read"  /\ (pipe[i] # <<>> \/ AtEof(i))
  \/ st[i] = "write" /\ (Broken(i + 1) \/ HasRoom(i + 1))
  \/ st[i] = "flush" /\ (i + 1 = NumSteps \/ pipe[i + 1] = <<>>)
  \/ st[i] = "run"   /\ ~HasOutput(i)
  \/ WantsInput(i)   /\ pipe[i] # <<>>
  \/ WantsOutput(i)  /\ HasOutput(i) /\ (Broken(i + 1) \/ HasRoom(i + 1))
  \/ IsDone(i)

\* The sink holds blocks for its client, which may take them.
SinkHolds == sinkOpen /\ drained < Len(pipe[NumSteps])

Busy == SinkHolds \/ \E i \in Step : CanMove(i)

-----------------------------------------------------------------------------
Init ==
  /\ mpc = "pumps" /\ mi = 0 /\ deadstep = NoStep
  /\ st = [i \in Step |-> "idle"]
  /\ pipe = [k \in Link |-> <<>>]
  /\ sent = 0 /\ srcOpen = TRUE /\ sinkOpen = TRUE /\ drained = 0
  /\ writers = [k \in Pipe |-> IF k \in Named THEN {} ELSE {Main}]
  /\ opened = {} /\ freed = {}
  /\ buf = [i \in Step |-> <<>>]
  /\ WatchDog = [i \in Step |-> 0]
  /\ nBlocks = [i \in Step |-> 0]

-----------------------------------------------------------------------------
(* The stages: steps of MoveDataThreadProc, and of the helper commands. *)

\* Faulty variant: the block that came last is read first.
TakeLast(i) ==
  LET n == Len(pipe[i]) IN
  /\ pipe' = [pipe EXCEPT ![i] = SubSeq(@, 1, n - 1)]
  /\ buf' = [buf EXCEPT ![i] = Append(@, pipe[i][n])]
  /\ nBlocks' = [nBlocks EXCEPT ![i] = @ + 1]

\* Block b, and only it, moves: read from link i, or written to link i + 1.
Take(i) ==
  /\ pipe' = [pipe EXCEPT ![i] = Tail(@)]
  /\ buf' = [buf EXCEPT ![i] = Append(@, Head(pipe[i]))]
  /\ nBlocks' = [nBlocks EXCEPT ![i] = @ + 1]

\* Faulty variant: a write that fails is taken for one that succeeded.
GiveNothing(i) ==
  /\ UNCHANGED pipe
  /\ buf' = [buf EXCEPT ![i] = Tail(@)]

Give(i) ==
  /\ pipe' = [pipe EXCEPT ![i + 1] = Append(@, Head(buf[i]))]
  /\ buf' = [buf EXCEPT ![i] = Tail(@)]

\* ConnectNamedPipe: it waits for a client that is yet to come, and fails
\* (ERROR_PIPE_CONNECTED) when the client has been quicker; a thread whose
\* connect failed ends at once, its output handle still open.
ThreadConnect(i) ==
  /\ st[i] = "start"
  /\ st' = [st EXCEPT ![i] = IF i \in opened THEN "ended" ELSE "connect"]
  /\ UNCHANGED <<mainVars, flowVars, envVars, holdVars, freed>>

ThreadConnected(i) ==
  /\ st[i] = "connect" /\ i \in opened
  /\ st' = [st EXCEPT ![i] = "read"]
  /\ UNCHANGED <<mainVars, flowVars, envVars, holdVars, freed>>

ThreadRead(i) ==
  /\ st[i] = "read" /\ pipe[i] # <<>>
  /\ Take(i)
  /\ st' = [st EXCEPT ![i] = "write"]
  /\ UNCHANGED <<mainVars, WatchDog, envVars, holdVars, freed>>

\* End of file, or an error: the loop is left.
ThreadReadEnds(i) ==
  /\ st[i] = "read"
  /\ AtEof(i) \/ "read" \in Faults
  /\ st' = [st EXCEPT ![i] = "flush"]
  /\ UNCHANGED <<mainVars, flowVars, envVars, holdVars, freed>>

ThreadWrite(i) ==
  /\ st[i] = "write" /\ HasRoom(i + 1) /\ ~Broken(i + 1)
  /\ Give(i)
  /\ WatchDog' = [WatchDog EXCEPT ![i] = @ + 1]
  /\ st' = [st EXCEPT ![i] = "read"]
  /\ UNCHANGED <<mainVars, nBlocks, envVars, holdVars, freed>>

ThreadWriteFails(i) ==
  /\ st[i] = "write" /\ Broken(i + 1)
  /\ st' = [st EXCEPT ![i] = "flush"]
  /\ UNCHANGED <<mainVars, flowVars, envVars, holdVars, freed>>

\* FlushFileBuffers waits until the reader has emptied the pipe, shutdown of
\* the output socket does not wait; then the output is closed.
ThreadFlush(i) ==
  /\ st[i] = "flush"
  /\ i + 1 = NumSteps \/ pipe[i + 1] = <<>>
  /\ writers' = CloseOutput(writers, Main, i + 1)
  /\ st' = [st EXCEPT ![i] = "ended"]
  /\ UNCHANGED <<mainVars, flowVars, envVars, opened, freed>>

ThreadStep(i) == \/ ThreadConnect(i) \/ ThreadConnected(i)
                 \/ ThreadRead(i) \/ ThreadReadEnds(i)
                 \/ ThreadWrite(i) \/ ThreadWriteFails(i) \/ ThreadFlush(i)

\* A command given \\.\pipe\socketwrapper<pid> for #PIPE# opens it itself.
ChildOpen(i) ==
  /\ st[i] = "run" /\ ~HasOutput(i)
  /\ writers' = [writers EXCEPT ![i + 1] = @ \cup {i}]
  /\ opened' = opened \cup {i + 1}
  /\ UNCHANGED <<mainVars, st, flowVars, envVars, freed>>

ChildRead(i) ==
  /\ WantsInput(i) /\ pipe[i] # <<>>
  /\ Take(i)
  /\ UNCHANGED <<mainVars, st, WatchDog, envVars, holdVars, freed>>

ChildWrite(i) ==
  /\ WantsOutput(i) /\ HasOutput(i) /\ HasRoom(i + 1) /\ ~Broken(i + 1)
  /\ Give(i)
  /\ UNCHANGED <<mainVars, st, WatchDog, nBlocks, envVars, holdVars, freed>>

\* All is written, or the sink is gone, or the command fails.
ChildExit(i) ==
  /\ \/ IsDone(i)
     \/ WantsOutput(i) /\ Broken(i + 1)
     \/ st[i] = "run" /\ "crash" \in Faults
  /\ st' = [st EXCEPT ![i] = "ended"]
  /\ writers' = LetGo(writers, i)
  /\ UNCHANGED <<mainVars, flowVars, envVars, opened, freed>>

ChildStep(i) == ChildOpen(i) \/ ChildRead(i) \/ ChildWrite(i) \/ ChildExit(i)

StageStep(i) == IF i \in Worker THEN ThreadStep(i) ELSE ChildStep(i)

-----------------------------------------------------------------------------
(* The main thread. *)

\* Faulty variant: the loop runs to i <= numSteps.
AdvanceTooFar(next) == IF mi < NumSteps THEN mi' = mi + 1 /\ mpc' = mpc
                                        ELSE mi' = 0 /\ mpc' = next

\* The for loops over the steps: to the next step, or to what follows.
Advance(next) == IF mi + 1 < NumSteps THEN mi' = mi + 1 /\ mpc' = mpc
                                      ELSE mi' = 0 /\ mpc' = next

\* goto tidy jumps over deadstep = -1: deadstep is whatever the stack holds.
GotoTidy == mpc' = "tidy" /\ mi' = 0 /\ deadstep' \in Step \cup {NoStep}

\* malloc and _beginthreadex.  A thread that could not be created leaves a
\* NULL in hChild and the loop goes on.
StartThread ==
  /\ mpc = "pumps" /\ mi \in Worker
  /\ st' = [st EXCEPT ![mi] = IF mi \in Named THEN "start" ELSE "read"]
  /\ Advance("taps")
  /\ UNCHANGED <<deadstep, flowVars, envVars, holdVars, freed>>

StartThreadFails ==
  /\ mpc = "pumps" /\ mi \in Worker
  /\ \/ /\ "malloc" \in Faults /\ GotoTidy /\ st' = st
     \/ /\ "thread" \in Faults /\ Advance("taps") /\ UNCHANGED <<deadstep, st>>
     \/ /\ "priority" \in Faults /\ GotoTidy
        /\ st' = [st EXCEPT ![mi] = IF mi \in Named THEN "start" ELSE "read"]
  /\ UNCHANGED <<flowVars, envVars, holdVars, freed>>

\* CreateProcess with handles inherited, then CloseHandle of the output unless
\* it is stderr (a #PIPE# command's output, of which Main holds no write end).
StartChild ==
  /\ mpc = "taps" /\ mi \in Child
  /\ st' = [st EXCEPT ![mi] = "run"]
  /\ writers' = CloseOutput(Inherit(writers, mi), Main, mi + 1)
  /\ Advance("monitor")
  /\ UNCHANGED <<deadstep, flowVars, envVars, opened, freed>>

StartChildFails ==
  /\ mpc = "taps" /\ mi \in Child /\ "process" \in Faults
  /\ GotoTidy
  /\ UNCHANGED <<st, flowVars, envVars, holdVars, freed>>

PassOver ==
  /\ \/ mpc = "pumps" /\ mi \in Child  /\ Advance("taps")
     \/ mpc = "taps"  /\ mi \in Worker /\ Advance("monitor")
  /\ UNCHANGED <<deadstep, st, flowVars, envVars, holdVars, freed>>

\* Faulty variant: the counters are not reset.
KeepWatchDogs == UNCHANGED WatchDog

ResetWatchDogs == WatchDog' = [i \in Step |-> 0]

\* Faulty variant: WaitForMultipleObjects waits for all the handles.
MonitorWakesLast ==
  /\ mpc = "monitor"
  /\ \A i \in Step : Ended(i)
  /\ deadstep' = 0
  /\ mpc' = "tidy" /\ mi' = 0
  /\ ResetWatchDogs
  /\ UNCHANGED <<st, pipe, buf, nBlocks, envVars, holdVars, freed>>

\* WaitForMultipleObjects returns: the least step that has ended, or
\* WAIT_FAILED, read as step -1, when a handle is NULL.
MonitorWakes ==
  /\ mpc = "monitor"
  /\ \/ /\ \E i \in Step : st[i] = "idle"
        /\ deadstep' = NoStep
     \/ /\ \A i \in Step : st[i] # "idle"
        /\ deadstep' \in {i \in Step : Ended(i) /\ \A j \in Step : Ended(j) => i <= j}
  /\ mpc' = "tidy" /\ mi' = 0
  /\ ResetWatchDogs
  /\ UNCHANGED <<st, pipe, buf, nBlocks, envVars, holdVars, freed>>

\* Faulty variant: the watchdog is not optional.
MonitorNeverPauses ==
  /\ mpc = "monitor"
  /\ \A i \in Step : Live(i)
  /\ mpc' = IF \E i \in Worker : WatchDog[i] = 0 THEN "tidy" ELSE "monitor"
  /\ ResetWatchDogs
  /\ UNCHANGED <<mi, deadstep, st, pipe, buf, nBlocks, envVars, holdVars, freed>>

\* TIMEOUT passes and no stage has ended.
MonitorTimesOut ==
  /\ mpc = "monitor"
  /\ \A i \in Step : Live(i)
  /\ mpc' = IF WatchdogEnabled /\ \E i \in Worker : WatchDog[i] = 0
            THEN "tidy" ELSE "monitor"
  /\ ResetWatchDogs
  /\ UNCHANGED <<mi, deadstep, st, pipe, buf, nBlocks, envVars, holdVars, freed>>

\* Faulty variant: the last step but one is taken for the last.
BriefTooSoon == deadstep # 0 /\ deadstep + 2 = NumSteps

\* waittimeout is 50 ms instead of 2000 ms.
Brief == deadstep # 0 /\ deadstep + 1 = NumSteps

WaitExpires(brief) == brief \/ ~Patient \/ ~Busy

\* WaitForSingleObject on a thread, then free(pBuff), whatever the wait said.
TidyThread ==
  /\ mpc = "tidy" /\ mi \in Worker
  /\ Live(mi) => WaitExpires(Brief)
  /\ freed' = freed \cup {mi}
  /\ Advance("reap")
  /\ UNCHANGED <<deadstep, st, flowVars, envVars, holdVars>>

\* Faulty variant: a process that outlasts the wait is left alone.
TidyChildWaits ==
  /\ mpc = "tidy" /\ mi \in Child
  /\ Live(mi) => WaitExpires(FALSE)
  /\ Advance("reap")
  /\ UNCHANGED <<deadstep, st, flowVars, envVars, holdVars, freed>>

\* The same for a process; one that outlasts the wait is terminated.
TidyChild ==
  /\ mpc = "tidy" /\ mi \in Child
  /\ \/ ~Live(mi) /\ UNCHANGED <<st, writers>>
     \/ /\ Live(mi) /\ WaitExpires(FALSE)
        /\ st' = [st EXCEPT ![mi] = "killed"]
        /\ writers' = LetGo(writers, mi)
  /\ Advance("reap")
  /\ UNCHANGED <<deadstep, flowVars, envVars, opened, freed>>

\* GetExitCodeThread, TerminateThread when it is STILL_ACTIVE.
Reap ==
  /\ mpc = "reap"
  /\ st' = IF mi \in Worker /\ Live(mi) THEN [st EXCEPT ![mi] = "killed"] ELSE st
  /\ Advance("flush")
  /\ UNCHANGED <<deadstep, flowVars, envVars, holdVars, freed>>

\* closesocket does not wait for the client, FlushFileBuffers on stdout does, and
\* nothing is on stdout when the last stage is a thread, which sends; then main
\* returns, and the handles of the process go with it.
FlushOutput ==
  /\ mpc = "flush"
  /\ NumSteps - 1 \in Worker \/ ~SinkHolds
  /\ mpc' = "exited" /\ writers' = LetGo(writers, Main)
  /\ UNCHANGED <<mi, deadstep, st, flowVars, envVars, opened, freed>>

\* The heap manager stops the process when it meets what a thread wrote into
\* its freed buffer; the children live on.
HeapCrash ==
  /\ "heap" \in Faults /\ mpc = "tidy"
  /\ \E i \in freed : buf[i] # <<>>
  /\ mpc' = "exited" /\ mi' = 0
  /\ st' = [i \in Step |-> IF i \in Worker /\ Live(i) THEN "killed" ELSE st[i]]
  /\ writers' = LetGo(writers, Main)
  /\ UNCHANGED <<deadstep, flowVars, envVars, opened, freed>>

MainStep == \/ StartThread \/ StartThreadFails
            \/ StartChild \/ StartChildFails \/ PassOver
            \/ MonitorWakes \/ MonitorTimesOut
            \/ TidyThread \/ TidyChild \/ Reap \/ FlushOutput

-----------------------------------------------------------------------------
(* The environment: the source, the sink, the heap. *)

SourceSends ==
  /\ srcOpen /\ sent < MaxBlocks /\ mpc # "exited"
  /\ sent' = sent + 1
  /\ pipe' = [pipe EXCEPT ![0] = Append(@, sent + 1)]
  /\ UNCHANGED <<mainVars, st, buf, nBlocks, WatchDog, srcOpen, sinkOpen, drained, holdVars, freed>>

SourceCloses ==
  /\ srcOpen
  /\ srcOpen' = FALSE
  /\ UNCHANGED <<mainVars, st, flowVars, sent, sinkOpen, drained, holdVars, freed>>

SinkCloses ==
  /\ "sink" \in Faults /\ sinkOpen
  /\ sinkOpen' = FALSE
  /\ UNCHANGED <<mainVars, st, flowVars, sent, srcOpen, drained, holdVars, freed>>

\* The sink's client takes a block.
SinkReads ==
  /\ SinkHolds
  /\ drained' = drained + 1
  /\ UNCHANGED <<mainVars, st, flowVars, sent, srcOpen, sinkOpen, holdVars, freed>>

\* Freed memory is given to another use while a thread still works in it.
HeapReuse(i) ==
  /\ "heap" \in Faults /\ i \in freed /\ Live(i) /\ buf[i] # <<>>
  /\ buf' = [buf EXCEPT ![i] = <<Junk>>]
  /\ UNCHANGED <<mainVars, st, pipe, nBlocks, WatchDog, envVars, holdVars, freed>>

Environment == SourceSends \/ SourceCloses \/ SinkCloses \/ SinkReads
               \/ \E i \in Worker : HeapReuse(i)

\* The process has exited; no step of it is left.
Exited == mpc = "exited" /\ UNCHANGED vars

Next == \/ MainStep \/ HeapCrash
        \/ \E i \in Step : StageStep(i)
        \/ Environment
        \/ Exited

Spec == Init /\ [][Next]_vars

\* Every step of the main thread returns: no wait of it is unbounded but the
\* one of the monitor loop, which a stage that has ended satisfies, and the flush
\* of stdout.
MainSpec == Spec /\ WF_vars(MainStep)

\* Threads and processes are scheduled too, and the client of the sink does not
\* pause for ever.
FairSpec == MainSpec /\ WF_vars(SinkReads) /\ \A i \in Step : WF_vars(StageStep(i))

-----------------------------------------------------------------------------
(* Properties. *)

Block == 1 .. MaxBlocks

TypeOK ==
  /\ mpc \in {"pumps", "taps", "monitor", "tidy", "reap", "flush", "exited"}
  /\ mi \in Step
  /\ deadstep \in Step \cup {NoStep}
  /\ st \in [Step -> {"idle", "start", "connect", "read", "write", "flush",
                      "run", "ended", "killed"}]
  /\ pipe \in [Link -> Seq(Nat)]
  /\ sent \in 0 .. MaxBlocks
  /\ srcOpen \in BOOLEAN
  /\ sinkOpen \in BOOLEAN
  /\ drained \in Nat
  /\ writers \in [Pipe -> SUBSET (Child \cup {Main})]
  /\ opened \subseteq Named
  /\ buf \in [Step -> Seq(Nat)]
  /\ freed \subseteq Worker
  /\ WatchDog \in [Step -> Nat]
  /\ nBlocks \in [Step -> Nat]

delivered == pipe[NumSteps]

\* Blocks that have been read from link k, and blocks written to link i + 1.
Taken(k) == IF k = NumSteps THEN 0 ELSE nBlocks[k]
Made(i)  == Taken(i + 1) + Len(pipe[i + 1])

\* Main has freed the buffer of a thread and the memory may have been reused.
Damaged == "heap" \in Faults /\ freed # {}

\* s holds the blocks n + 1, n + 2, ... or, when d, junk in their place.
Run(s, n, d) == \A j \in 1 .. Len(s) : s[j] = n + j \/ (d /\ s[j] = Junk)

\* No block is lost, doubled or overtaken on the way: whatever stages and pipes
\* hold, in the order of the pipeline, are the blocks 1 .. sent, whichever stage
\* has died and whatever wait has expired.  (MoveDataThreadProc writes the bytes
\* it read before it reads on; a dead stage keeps what it had.)
InOrder ==
  /\ sent = Taken(0) + Len(pipe[0])
  /\ \A i \in Step : nBlocks[i] = Made(i) + Len(buf[i])
  /\ \A k \in Link : Run(pipe[k], Taken(k), Damaged)
  /\ \A i \in Step : Run(buf[i], Made(i), Damaged)

\* Once all stages are started, only processes upstream of a pipe that a child
\* writes keep it open, so its reader sees end of file when they have ended:
\* main closes its own end after CreateProcess (1.6, "close pipe at main level").
OnlyUpstreamHolds ==
  mpc = "monitor" =>
    \A k \in Pipe : k - 1 \in Child => writers[k] \subseteq 0 .. k - 1

\* When socketwrapper has exited it leaves no helper command running, whichever
\* step of the start failed and whichever wait expired.
NoOrphans == mpc = "exited" => \A i \in Step : ~Live(i)

\* All the source gave has reached the sink when socketwrapper exits (1.5 to
\* 1.8 fix "truncation"): the stages downstream of the one that ended first are
\* not cut short.
CompleteDelivery == mpc = "exited" => Len(delivered) = sent

\* The 50 ms wait is used only "if last process has stopped since no more bytes
\* can be sent to output" (the comment in main's tidy part), in every run whose start
\* has not failed.  (A malloc, a SetThreadPriority or a CreateProcess that fails jumps
\* to tidy over the initialization of deadstep: it may then have any value, and the
\* wait be 50 ms with the last stage alive.)
BriefOnlyWhenOutputStopped == mpc = "tidy" /\ Brief => Ended(NumSteps - 1)

\* Without -w a pipeline that was started lives until one of its stages ends,
\* however long nothing moves (1.7, "problem with paused files").
PauseIsHarmless ==
  [][ mpc = "monitor" /\ mpc' = "tidy" => \E i \in Step : ~Live(i) ]_vars

\* A thread does not touch its buffer after main has freed it (1.9, "occasional
\* crashes when closing down").
FreedBufferUntouched ==
  [][ \A i \in Worker : buf'[i] # buf[i] => i \notin freed ]_vars

\* When one stage has ended socketwrapper shuts down, whatever the others and the
\* client of the output socket do (1.11, "not shutting down properly").
ShutsDown ==
  (mpc = "monitor" /\ \E i \in Step : Ended(i)) ~> (mpc = "exited")

\* The end of the source ends the run, as long as the client of the sink goes on
\* reading: a player that pauses for ever stops the last stage in its write, or main
\* in the flush of stdout.
EofEndsRun == ~srcOpen ~> (mpc = "exited")

\* With -w a pipeline in which nothing moves any more is shut down, even when
\* the source stays open and silent (1.7, "in case stream stops and
\* socketwrapper thread hangs on a read") or the client of the output socket pauses.
StallEndsRun == <>(mpc = "exited")

\* What socketwrapper is for.
R == INSTANCE Relay WITH over <- mpc = "exited"
Relays == R!Spec
=============================================================================
