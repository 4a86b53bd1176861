----------------------------- MODULE SwTopology -----------------------------
(***************************************************************************)
(* socketwrapper.cpp, main, from "reset our arrays" to "Init complete": the*)
(* command line with its input and output port becomes the table of stages *)
(* that SocketWrapper runs.                                                *)
(***************************************************************************)
EXTENDS Integers, Sequences, FiniteSets

CONSTANTS CommandLines,  \* what -c may be: per "|"-separated command, whether
                         \* it holds #PIPE#
          MAX_STEPS      \* length of info and hChild

ASSUME CommandAssumption == CommandLines \subseteq Seq(BOOLEAN) \ {<<>>}
ASSUME StepsAssumption   == MAX_STEPS \in Nat

\* Handles.  Both ends of the n-th anonymous pipe are handles of kind "pipe".
Handle(kind, n) == [kind |-> kind, n |-> n]
Null == Handle("null", 0)

\* A Stage with all its bytes 0.
ZeroStage == [fIsWorkerThread |-> FALSE, fInputIsNamed |-> FALSE,
              fOutputIsSocket |-> FALSE, command |-> 0,
              hInput |-> Null, hOutput |-> Null]

VARIABLES Commands,    \* the parsed command line: -c,
          inputPort,   \* whether -i and
          outputPort,  \* whether -o was given
          pc,          \* next part of the set-up
          i,           \* commands dealt with
          numSteps,
          info,        \* the table; the array has MAX_STEPS entries
          nPipes,      \* anonymous pipes created
          named,       \* the named pipe exists
          top          \* greatest index of info that has been written

args == <<Commands, inputPort, outputPort>>
vars == <<args, pc, i, numSteps, info, nPipes, named, top>>

numProcesses == Len(Commands)

Index == 0 .. 2 * numProcesses + 2      \* more than any set-up writes

\* info[n] is written.
Touch(n) == top' = IF n > top THEN n ELSE top

Init ==
  /\ Commands \in CommandLines /\ inputPort \in BOOLEAN /\ outputPort \in BOOLEAN
  /\ pc = "input" /\ i = 0 /\ numSteps = 0
  /\ info = [n \in Index |-> ZeroStage]
  /\ nPipes = 0 /\ named = FALSE /\ top = 0

\* Memory, pipes and sockets may be refused.
GotoTidy == pc' = "tidy"

\* CreatePipe(&info[n+1].hInput, &info[n].hOutput).
WithPipe(table, n) ==
  [table EXCEPT ![n + 1].hInput = Handle("pipe", nPipes + 1),
                ![n].hOutput    = Handle("pipe", nPipes + 1)]

\* "input socket - use via unnamed pipe and worker thread", or stdin.
ConnectInput ==
  /\ pc = "input"
  /\ IF inputPort
     THEN /\ info' = WithPipe([info EXCEPT ![0].hInput = Handle("insock", 0),
                                           ![0].fIsWorkerThread = TRUE], 0)
          /\ nPipes' = nPipes + 1 /\ numSteps' = 1 /\ Touch(1)
     ELSE /\ info' = [info EXCEPT ![0].hInput = Handle("stdin", 0)]
          /\ UNCHANGED <<nPipes, numSteps, top>>
  /\ pc' = "command"
  /\ UNCHANGED <<args, i, named>>

\* The socket is refused, or (its stage already described) the pipe is.
ConnectInputFails ==
  /\ pc = "input" /\ inputPort /\ GotoTidy
  /\ info' \in {info, [info EXCEPT ![0].hInput = Handle("insock", 0),
                                   ![0].fIsWorkerThread = TRUE]}
  /\ UNCHANGED <<args, i, numSteps, nPipes, named, top>>

\* A command without #PIPE# takes the next entry.
AddCommand ==
  /\ pc = "command" /\ ~Commands[i + 1]
  /\ info' = [info EXCEPT ![numSteps].command = i + 1]
  /\ Touch(numSteps)
  /\ pc' = "pipe"
  /\ UNCHANGED <<args, i, numSteps, nPipes, named>>

\* Faulty variant: the thread of a #PIPE# command takes the command's own entry.
AddNamedCommandOver ==
  /\ pc = "command" /\ Commands[i + 1] /\ ~named
  /\ info' = [info EXCEPT ![numSteps].hInput = Handle("named", 0),
                          ![numSteps].fIsWorkerThread = TRUE,
                          ![numSteps].fInputIsNamed = TRUE]
  /\ named' = TRUE /\ Touch(numSteps + 1)
  /\ pc' = "pipe"
  /\ UNCHANGED <<args, i, numSteps, nPipes>>

\* A command with #PIPE# is followed by a thread that reads the named pipe; the
\* name is made of the pid only, and one instance of it may exist.
AddNamedCommand ==
  /\ pc = "command" /\ Commands[i + 1] /\ ~named
  /\ info' = [info EXCEPT ![numSteps].command = i + 1,
                          ![numSteps].hOutput = Handle("stderr", 0),
                          ![numSteps + 1].hInput = Handle("named", 0),
                          ![numSteps + 1].fIsWorkerThread = TRUE,
                          ![numSteps + 1].fInputIsNamed = TRUE]
  /\ named' = TRUE /\ numSteps' = numSteps + 1 /\ Touch(numSteps + 1)
  /\ pc' = "pipe"
  /\ UNCHANGED <<args, i, nPipes>>

\* malloc fails.
AddCommandFails ==
  /\ pc = "command" /\ GotoTidy /\ Touch(numSteps)
  /\ UNCHANGED <<args, i, numSteps, info, nPipes, named>>

\* CreateNamedPipe fails, as it always does for a second #PIPE#.
AddNamedCommandFails ==
  /\ pc = "command" /\ Commands[i + 1] /\ GotoTidy
  /\ info' = [info EXCEPT ![numSteps].command = i + 1,
                          ![numSteps + 1].hInput = Handle("invalid", 0)]
  /\ Touch(numSteps + 1)
  /\ UNCHANGED <<args, i, numSteps, nPipes, named>>

IsLast == i = numProcesses - 1

\* Faulty variant: the last command gets no pipe to the output thread.
ConnectNextOnly ==
  /\ pc = "pipe"
  /\ IF ~IsLast
     THEN /\ info' = WithPipe(info, numSteps)
          /\ nPipes' = nPipes + 1 /\ Touch(numSteps + 1)
     ELSE UNCHANGED <<info, nPipes, top>>
  /\ pc' = "output"
  /\ UNCHANGED <<args, i, numSteps, named>>

\* Faulty variant: a pipe behind every command.
ConnectAlways ==
  /\ pc = "pipe"
  /\ info' = WithPipe(info, numSteps)
  /\ nPipes' = nPipes + 1 /\ Touch(numSteps + 1)
  /\ pc' = "output"
  /\ UNCHANGED <<args, i, numSteps, named>>

\* A pipe to what follows: the next command, or the thread of the output socket.
ConnectNext ==
  /\ pc = "pipe"
  /\ IF ~IsLast \/ outputPort
     THEN /\ info' = WithPipe(info, numSteps)
          /\ nPipes' = nPipes + 1 /\ Touch(numSteps + 1)
     ELSE UNCHANGED <<info, nPipes, top>>
  /\ pc' = "output"
  /\ UNCHANGED <<args, i, numSteps, named>>

ConnectNextFails ==
  /\ pc = "pipe" /\ (~IsLast \/ outputPort) /\ GotoTidy
  /\ UNCHANGED <<args, i, numSteps, info, nPipes, named, top>>

\* Faulty variant: the thread of the output socket is not given its own entry.
ConnectOutputHere ==
  /\ pc = "output"
  /\ info' = IF ~IsLast THEN info
             ELSE IF outputPort
             THEN [info EXCEPT ![numSteps].fIsWorkerThread = TRUE,
                               ![numSteps].fOutputIsSocket = TRUE,
                               ![numSteps].hOutput = Handle("outsock", 0)]
             ELSE [info EXCEPT ![numSteps].hOutput = Handle("stdout", 0)]
  /\ numSteps' = numSteps + 1
  /\ i' = i + 1
  /\ pc' = IF IsLast THEN "built" ELSE "command"
  /\ UNCHANGED <<args, nPipes, named, top>>

\* "last process": a thread for the output socket, or stdout; then on to the
\* next command.
ConnectOutput ==
  /\ pc = "output"
  /\ IF IsLast /\ outputPort
     THEN /\ info' = [info EXCEPT ![numSteps + 1].fIsWorkerThread = TRUE,
                                  ![numSteps + 1].fOutputIsSocket = TRUE,
                                  ![numSteps + 1].hOutput = Handle("outsock", 0)]
          /\ numSteps' = numSteps + 2 /\ Touch(numSteps + 1)
     ELSE /\ info' = IF IsLast THEN [info EXCEPT ![numSteps].hOutput = Handle("stdout", 0)]
                               ELSE info
          /\ numSteps' = numSteps + 1 /\ UNCHANGED top
  /\ i' = i + 1
  /\ pc' = IF IsLast THEN "built" ELSE "command"
  /\ UNCHANGED <<args, nPipes, named>>

ConnectOutputFails ==
  /\ pc = "output" /\ IsLast /\ outputPort /\ GotoTidy
  /\ info' = [info EXCEPT ![numSteps + 1].fIsWorkerThread = TRUE,
                          ![numSteps + 1].fOutputIsSocket = TRUE]
  /\ numSteps' = numSteps + 1 /\ Touch(numSteps + 1)
  /\ UNCHANGED <<args, i, nPipes, named>>

Done == pc \in {"built", "tidy"} /\ UNCHANGED vars

Next == \/ ConnectInput \/ ConnectInputFails
        \/ AddCommand \/ AddNamedCommand \/ AddCommandFails \/ AddNamedCommandFails
        \/ ConnectNext \/ ConnectNextFails
        \/ ConnectOutput \/ ConnectOutputFails \/ Done

Spec == Init /\ [][Next]_vars

-----------------------------------------------------------------------------
(* Properties. *)

Built == pc = "built"
Table == 0 .. numSteps - 1

\* The stages of a complete table form one chain from the input to the output:
\* each reads the pipe its predecessor, and no other stage, writes, or the named
\* pipe of a predecessor whose own output is turned to stderr.
Chained ==
  Built =>
    /\ info[0].hInput.kind = IF inputPort THEN "insock" ELSE "stdin"
    /\ info[numSteps - 1].hOutput.kind = IF outputPort THEN "outsock" ELSE "stdout"
    /\ \A k \in Table \ {0} :
         \/ /\ info[k].hInput = info[k - 1].hOutput
            /\ info[k].hInput.kind = "pipe"
         \/ /\ info[k].hInput.kind = "named" /\ info[k].fInputIsNamed
            /\ info[k - 1].hOutput.kind = "stderr"
    /\ \A k, l \in Table : info[k].hInput = info[l].hInput => k = l

\* A complete table is one the pumps and taps can run: a thread copies between
\* two handles of its own, a command has its own entry, a socket is in the hands
\* of a thread only and a named pipe is read next to the command it is named in.
\* (The first is StepAssumption of SocketWrapper.)
Runnable ==
  Built =>
    \A k \in Table :
      /\ info[k].fIsWorkerThread <=> info[k].command = 0
      /\ {info[k].hInput.kind, info[k].hOutput.kind} \cap {"insock", "outsock"} # {}
           => info[k].fIsWorkerThread
      /\ info[k].fOutputIsSocket <=> (outputPort /\ k = numSteps - 1)
      /\ info[k].fInputIsNamed => k > 0 /\ Commands[info[k - 1].command]
      /\ info[k].fIsWorkerThread => info[k].hOutput.kind \in {"pipe", "stdout", "outsock"}

\* Every command of the line has one stage, and the stages are in its order.
CommandsInOrder ==
  Built =>
    /\ {info[k].command : k \in Table} \ {0} = 1 .. numProcesses
    /\ \A k, l \in Table : k < l /\ info[l].command # 0 => info[k].command < info[l].command

\* Entries a command line asks for: one for each command, one for a thread of
\* each socket, one for a named pipe (and one for the second named pipe, at
\* which the set-up ends).
HasPipe   == \E j \in 1 .. numProcesses : Commands[j]
HasSecond == \E j, k \in 1 .. numProcesses : j < k /\ Commands[j] /\ Commands[k]
InThreads    == IF inputPort THEN 1 ELSE 0
OutThreads   == IF outputPort THEN 1 ELSE 0
NamedThreads == IF HasSecond THEN 2 ELSE IF HasPipe THEN 1 ELSE 0
Wanted == numProcesses + InThreads + OutThreads + NamedThreads

\* The set-up of a line that asks for at most MAX_STEPS entries writes inside
\* the table, on every path.  Nothing in the code checks the length.
InBounds == Wanted <= MAX_STEPS => top < MAX_STEPS
=============================================================================
