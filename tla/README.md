# A verification project for slimserver-tools

The repository is a box of tools around SlimServer / Squeezebox Server. Five of
them have control worth checking:

- `socketwrapper` and `wmadec` (Windows, threads, callbacks);
- `visualizer` and `mov123` (a queue and a conversion loop);
- `CLIent` (a client that drives the server and puts back what it has changed).

The rest are scripts that turn text into text. This directory holds TLA+ models of
the five, TLC configurations that check them on small instances, and TLAPS proofs
about all five. Definitions carry the source's names
where TLA+ allows it. `PROJECT.json` maps each definition to its lines.

## 1. Inventory

### socketwrapper (`src/socketwrapper/socketwrapper.cpp`)

It runs a pipeline of helper commands (`-c "a|b|c"`) between stdin or a socket
(`-i`) and stdout or a socket (`-o`).

| part | state | operations |
|---|---|---|
| command line (`getopt.cpp`, `main`, 284-334) | `optind`, `optarg`, the static `sp`; the ports, `command`, `bWatchdogEnabled` | one option per call; the switch; usage or on |
| splitting (`main`, 342-348, 403-406, 512) | the memory of the `-c` argument, the place of `strtok` | cut a token out and count it; walk from string to string |
| set-up (`main`, 336-515) | `numSteps`, the table `info[MAX_STEPS]` | connect the input, add a command, make its pipe, connect the output; each may fail and jump to `tidy` |
| run and shutdown (`main`, 516-672) | loop index, `deadstep`, `fDie`, `hChild` | start the threads, start the commands, wait for the first stage to end, wait for each stage (2000 or 50 ms), free, terminate |
| worker threads (`MoveDataThreadProc`, 186-278) | `pBuff`, `WatchDog`, `nBlocks` | connect a named pipe, read, write, flush, close |
| helper commands | external | read stdin, write stdout, end |

The parts share the stage table and the pipes without a lock. Main frees what a
thread may still use and clears the counters that threads increment. What is hard:
any stage may end, fail or hang at any moment. End of file reaches a stage only
when every holder of the write end of its pipe has closed it. A wait that expires
lets main go on.

It is correct when

- blocks arrive in order and once each;
- a run that is given time delivers everything;
- nothing is left running after the exit;
- one ended stage brings the others down, a pause does not, and with `-w` a stall does;
- the options are read as the words say, and the walk finds the commands counted;
- the table is a chain of stages and is not overrun.

### wmadec (`src/wmadec/wmadec.cpp`)

It decodes Windows Media from a file or stdin to a file or stdout.

| part | state | operations |
|---|---|---|
| command line (`getopt.cpp`, `_tmain`) | the numbers of `-b`, `-r`, `-n`, `-l`, the flags | one option per call; open the output; write the WAV header |
| `WMAReader` | an event, `m_hrAsync`, output and format chosen, the reader's clock | `Init`, `StartReading` (wait for the open, choose an output and a format, start, wait for the end) |
| callbacks | the same | `OnStatus`, `OnSample`, `OnTime`, on the SDK's own threads |
| objects | `m_cRef` of the reader and, for stdin, of the `WMAStream` | `AddRef`, `Release`, `QueryInterface`, `Read` |

What is hard: one auto-reset event and one result serve the opening, the reading and
every failure. The clock runs only while `OnTime` feeds it. The header is written
before the file is opened. `_tmain` and the SDK let go of the objects in any order.

It is correct when the file holds all of the first audio track in the right
format, the header tells the truth about it, every decode ends, nothing is written
behind `fclose`, and no object is used once it has deleted itself.

### visualizer (`src/visualizer/`)

It copies a file to stdout, draws what was copied a fixed number of bytes later,
and sends each picture to the client in a datagram. State: a socket, a doubly linked
queue of chunks, two unsigned counters, a history of columns. What is hard: the
queue's links, chunks of -1 bytes after a read error, counters that wrap, datagrams
that are lost or overtaken. It is correct when no link leads to freed memory, and
what the client shows is a piece of the stream in its order, not too early.

### mov123 (`src/mov123/mov123.cpp`)

It converts the sound track of a QuickTime movie. State: the time reached, the
converter's flags, the error. What is hard: the callback's own end of the track,
the truncating conversion of time, the rest that the converter keeps.
It is correct when no sample is skipped, a conversion that does not fail is complete,
and every conversion ends.

### CLIent (`src/CLIent/CLIent.6.x.pl`)

It exercises the server's command line interface: `testXXX` functions called one
after the other, a report, a restoration.

| part | state | operations |
|---|---|---|
| connection | `gsocket`, `gcli` | `cliConnect`, `cliDisconnect`, `cliSendReceive` |
| verdicts | `gtest_db` | `test_New`, `test_canConnect`, `test_canPlayers`, `test_canDB`, `test_canRun`, `test_SubTest`, `test_PrintReport` |
| data | `gplayers`, `gDBtitles`, the window of `cliTitles` | the players, the dump, the queries |
| restoration | `$auth`, `$flag`, `$memo`, ..., `gRestoreGroupDisc` | the end of each test, `restoreFlags` |

The server is shared state: settings of players and preferences, a scan that goes
on by itself. What is hard: a connection lost at any exchange, answers that are
`undef`, security turned on and off under the client's own feet, scans.
It is correct when every test gets a verdict, a conforming server is never blamed,
the settings come back, security is off no longer than it must be, and the program ends.

### The other tools

`slt2strings.pl` and `checklastframe.pl` are sequential; section 7 says what there is
to model in them. Not planned, as nothing in them
keeps state that a model would say something about: reports on files
(`findOrphanedStrings`, `find_legacy_strings`, `find_translations_todo`,
`update_strings`, `cachedump`, `parseJiveHeap`, `tt_list`), text filters and
generators (`cl2html`, `skinjob`, `TT_convert`, `jive_colorizer`, `PluginBuilder`,
`update-version`, `scrape-bug-summary`), image tools, register arithmetic of
`boomdac`, small network clients (`whack`, `rpctest`, `radiobandwidth`, `slimp3.pl`,
`vistest`), and the stateless pages of the downloads site and the redirect. `JSBuilder` is
an archive of third-party code. `PROJECT.json` lists each with its reason.

## 2. Modules

| module | models | reads as |
|---|---|---|
| `Relay` | what a relay promises | abstract: blocks come out in order, none after the end |
| `SocketWrapper` | run, shutdown, threads | `mpc`/`mi` are main's place and loop index; `st[i]` the state of stage i; links are sequences of numbered blocks; `writers[k]` the holders of the write end of pipe k |
| `GetOpt` | `getopt.cpp`, of which both programs have the same copy | a word is a sequence of characters; an action per way through one call; `taken` is all it has returned |
| `SwMain` | socketwrapper's `main` up to the run | `GetOpt` and `SwTopology` composed: options, `strtok` on the memory of the argument, then the set-up of the commands the walk finds |
| `SwTopology` | set-up | one action per part of the set-up and one per failing call; `top` is the highest entry written |
| `SwWatchdog` | the counters | `++WatchDog` is a load and a store; main's loop is a step per stage |
| `WmaReader` | the reader of wmadec | main, the SDK's callbacks and the SDK interleave; `event` is the auto-reset event; `cRef` counts references, `held` those of the SDK |
| `WmaMain` | wmadec as a whole | `GetOpt` and `WmaReader` composed: `_tmain` from options to exit, the header as a sequence of bytes |
| `Visualizer` | queue, main loop, picture and datagram | pointers are functions on chunks; counters are modulo `Modulus`; a column stands for its chunk; `net` is every datagram sent, of which the client gets any |
| `Mov123` | `ConvertMovieSndTrack` and its callback | time in units, samples as numbers |
| `CliScripts` | what each CLIent test asks, in order | a test is a sequence of steps |
| `CliSession` | the client, its verdicts, the server | the program is `todo`, the steps left; one action per kind of step |
| `CliSure` | what the proofs about CLIent speak of | definitions only: the shape of the program, the inductive invariant, the configurations of a run without losses |
| `MC*` | instances | plans, files, command lines |
| `*Proofs` | theorems | extend the module they are about |

The copies of `getopt.cpp` are identical; the map names `getopt` in one and its parts in
the other. `SocketWrapper` starts where `SwTopology` ends. `SwTopology!Runnable` gives what
`SocketWrapper` assumes of its constants, and `SwWatchdog` is the finer picture of what
`SocketWrapper` takes as one step (an increment, a test and reset). `SocketWrapper`
implements `Relay` (property `Relays`, theorem `RelayCorrect`).

In `CliSession` a step stands for all subtests that ask the same thing in different
words (`mixer volume ?` and `status.mixer volume`): one answer, one setting, one
verdict. An exchange is answered, or not (`Unanswered`): nothing is sent, the server
hangs up, or the connection is lost. `undef` then goes where the code puts it:
numeric comparisons take it for 0, `defined` does not, a failed fetch makes an entry
without a title in the dump, a preference that is set to `undef` stays as it is.

### Environments

- Helper commands are filters that keep back up to `Lag` blocks until their input
  ends. They may crash, and may be slower or faster than anyone else.
- Pipes hold `PipeSize` blocks, and so does the sink for its client, who takes them when
  he likes (`SinkReads`): with a client that pauses the last stage waits in `send` or
  `WriteFile`. The sink may also break.
- The Windows Media reader and QuickTime do what the code expects of them, in any
  order their contracts allow, and fail wherever the code looks at a result; also where
  nobody is told of it, in `GetBufferAndLength` (wmadec.cpp:417) and in an `fwrite` that
  writes a part (446).
- The server takes what it is told, mutes a volume by negating it, takes a volume with a
  sign as one to add, ends a player's sleep when it is turned off, and takes its time
  over a scan. Players are synchronized when a run starts, and any of `MutedAtStart` are muted.

## 3. Runs

| run | question | bounds, and why they do |
|---|---|---|
| `sw_faults` | does anything the start or run can meet lose order, leave a process or hold a handle too far down? does the end of the input end the run? | five stages: a thread at the input and a named one in the middle, each before a command, a command before a command, and a command on stdout, so that main's flush has to wait for the client; two blocks, so that one can be overtaken, pipes and a client that hold one, so that every stage may have to wait; every fault but reused memory |
| `sw_stdin` | is delivery complete when all are given time? is silence harmless? | three commands that keep a block back and a thread at the output, four blocks, pipes of two: pipes fill and drain |
| `sw_shutdown` | does one ended stage, or a stall with `-w`, bring all down if only main is scheduled? is the short wait justified when the start has met no failure? | four stages, two blocks, a thread at both ends, freed buffers reused; the faults are those of the run. After a start that jumps to `tidy` the short wait is not justified (section 6, 589), so those are left out and `BriefOnlyWhenOutputStopped` says so |
| `sw_setup` | are the options those of the words? are the commands found those counted? is the table a chain, in order, inside its bounds? | all lists of up to three of thirteen words, one for each way through `getopt`; all `-c` arguments of up to four characters among letter, `#PIPE#`, bar and blank; all lines of up to four commands, with and without sockets; `MAX_STEPS` 6 so that lines overrun it and lines just fit; ports modulo 8 so that 8 is none |
| `sw_stall` | does the unlocked counter hide a stall? | two threads, two moves a period, counters up to 2: only 0, 1 and more are told apart |
| `wma_main` | does the header agree with itself and with the samples? is the right track decoded whole, in the right format? is every object alive while used? does wmadec end? | all command lines of up to two of 15 groups of options (joined, apart, illegal, without argument) or operands; bytes of 8 values, so a DWORD has 4096 and the rates, lengths and `-1` wrap as they do at 256; all lists of up to two formats of two encodings and 1, 2 or 6 channels and one of five, four lists of outputs, six samples of three outputs over three seconds, each of which may be refused, cut short or lost |
| `vis_queue` | do links and picture hold under every error and loss? | eight chunks of lengths -1..2, modulus 32 (the counters wrap below 0), a screen of five columns and a history of four, so that columns leave it |
| `mov_convert` | is a sample skipped? are more than a unit's read again? does the conversion end? | 16 samples in units of three, so that the track ends within a unit; reads of 3, 4, 7 and 11, which end on a unit and one or two samples behind; a movie of 4, 5 or 6 units, shorter and longer than the track; an output of three samples, a converter that keeps two |
| `cli_session` | verdicts, restoration, security, the end | all nine tests in main's order and reversed, and the two tests main runs as it stands; two players of different models; one loss anywhere; security, grouping, a scan at the start, a muted player and a user each present or not; 3 songs for 2 searches, so a loss leaves too few |
| `sw_truncation`, `sw_freed`, `vis_held` | see Findings | the smallest instance that shows it |

### Deadlock

Every model has an explicit step for "the program has ended" and deadlock is
checked in all runs: no model stops anywhere else.

### Fairness

- `MainSpec` is fair to main only: every call of main returns, and the unbounded
  wait of the monitor loop is satisfied by a stage that has ended (or by `TIMEOUT`
  with `-w`). `FairSpec` adds each stage, since Windows schedules threads and
  processes, and the client of the sink, who goes on reading: `EofEndsRun` needs him, as
  a player that pauses for ever stops the last stage in `send`, or main in the flush of
  stdout (670). `ShutsDown` and `StallEndsRun` need neither: closing a socket does not
  wait, and to `-w` a client that pauses is a stall like any other. Sources get no fairness.
- `Patient` (in `sw_stdin`, `sw_truncation`) says that the 2000 ms waits expire only
  when nothing can move, the client of the sink included. Complete delivery cannot hold without it.
- `WmaMain` and `Mov123` are fair to the program and the SDK together: calls return
  and callbacks come. `CliSession` is fair to the client without a loss
  (answers come) and to the end of a scan.
- `SwWatchdog` needs none: it counts periods, under the assumption that `TIMEOUT`
  (a minute, ten seconds when debugging) outlasts an increment.

### Findings

- `sw_truncation`: line 58 promises changes "to avoid truncation" and line 68
  "Fix Lame truncation problem". A command behind a thread inherits the write end of
  its own stdin (567), never sees end of file, and what it kept back is lost.
- `sw_freed`: line 72 promises "Fix occasional crashes when closing down". The tidy
  loop frees a thread's buffer also when the wait for the thread has expired (644).
- `vis_held`: howto.txt:17 says each chunk is held until the client reaches it.
  The second chunk in a row that is put into the queue is not linked (io.c:36): the
  queue loses what lies between and draws later chunks too early. (`ClientShows` holds
  all the same: what is drawn is in order, with gaps.)

## 4. Proofs

All proofs hold for every value of the constants that satisfies the named
assumptions: any number of stages, any set of threads and named pipes, any
number of blocks, any command line and file, any faults.

| theorem | argument |
|---|---|
| `TypeCorrect` | `TypeOK` is not inductive: a write takes the head of the thread's buffer. `TypeInv` adds that a thread holds at most one block, and one whenever it is about to write (`ThreadBuffers`), and that threads main has not reached are idle (`PumpsAhead`) |
| `UpstreamCorrect` | `UpstreamInv`: a pipe that a command writes is held by stages before its reader and by main, until main's second loop has passed its writer. Inheritance copies what main holds, so main must have closed it by then |
| `OrderCorrect` | `InOrder` says that what is in links and buffers is a run of consecutive blocks that joins up with the next; `RunTail` and `RunAppend` move one block; the bound `nBlocks[i] <= sent` replaces an induction along the pipeline |
| `NoOrphansCorrect` | `SweptInv`: main's second sweep has passed every thread that still lives, the first every command. Assumes that reused memory does not bring the process down (`"heap" \notin Faults`) |
| `BriefCorrect` | `DeadInv`: until the monitor loop is left `deadstep` names no stage, behind it only one that has ended, and what has ended stays so. Assumes no failure of `malloc`, of `SetThreadPriority` or of `CreateProcess`: those jump to `tidy` with `deadstep` as it was on the stack |
| `PauseCorrect` | `TypeInv` and the guards of the loop: without `-w` a step out of it has found a stage that is not alive |
| `DeliveryCorrect` | `DeliveryInv`: each pipe is held by its writer and, before main has closed it, by main (`Holders`); a stage ends only when its input is drained and what feeds it has ended (`Drains`), so the first stage ends first and main waits for the rest in pipeline order (`Finished`). When nothing can move, all have ended (`QuietIsOver`). Assumes `Undisturbed`: no faults, patient clients, no `-w`, no named pipe, no thread but at the end. A command behind a thread loses data: that is the finding of `sw_truncation` |
| `RelayCorrect` | each step maps to a step of `Relay` or to a stutter; the sink's next block is a block the source gave, by the order invariant. Same assumption |
| `BoundsCorrect` | `BoundInv` counts, at each place of the set-up, the entries a line can still ask for; the last command needs no pipe behind it. For lines that ask for at most `MAX_STEPS` entries |
| `ChainedCorrect`, `RunnableCorrect`, `CommandsInOrderCorrect` | `TableInv` on top of `BoundInv`: says which entries have their input (`Linked`) and which their role (`Described`), and of those that inputs join up with the entry before and are all different (`Inputs`), that threads and commands are what they should be (`Roles`, `Outputs`), and that the commands placed are those of the line so far (`Order`); what lies behind has nothing but an input (`Fresh`) |
| `MainCorrect` | the steps of `SwMain` are steps of `SwTopology`, of `GetOpt`, or leave both alone, so both invariants carry over to the whole of `main` |
| `MainBoundsCorrect` | the line of `SwMain` is what the walk found. Assumes `MAX_STEPS > 1`: a line with no command but with both sockets uses two entries |
| `OptionsReadCorrect` | `ReadInv` of `GetOptProofs`: what was said so far, and what the line from `optind` and `sp` on says (`Read`, a function along the words), make up what the whole line says. A step takes one saying from the front of the second to the end of the first; letters behind the first that takes an argument are never read; `main` calls no more once EOF came |
| `CommandsFoundCorrect` | `Cut`: memory is the text with a NUL at the end of each token before `save`; `Cutting` while `strtok` runs, `AllCut` behind it. Tokens lie apart (`TokensApart`) and their starts rank them (`RankNext`), so the walk's n-th step starts behind the tokens before the n-th and comes to its end (`Walked`, by the least token that would not be); what bars and blanks it takes along are stripped from both sides (`StripFrom`) |
| `StallCaughtCorrect` | an increment under way belongs to a block of this period or is late (`Underway`), and none is late at a wake. So a thread still for one whole period has no increment left that could undo the reset (`NoneUnderway`): its counter, once cleared, stays 0 (`Cleared`, `FoundZero`), and the next pass of the loop reports it and leaves (`Reported`, `Leaves`) |
| `ReadsInsideCorrect` | a character other than the terminator lies inside its word; `getopt` moves on only from a letter it has read, so either the next character exists or the word is left with `sp = 1`. For every set of options |
| `AliveInUseCorrect` | `RefInv`: a count is the SDK's references and one for each place of `_tmain` that still needs the object; what has deleted itself has count 0 |
| `RightFormatCorrect` | `FormatInv`: at each turn of the loop the choice is the best of the formats seen (`Best`) |
| `MainTypeCorrect` | `NumberInv`: what `atoi` gives is an integer (`AtoiInt`), so each option is a DWORD after the conversion; `StageInv` gives what each place of `_tmain` may rely on |
| `AllDecodedCorrect`, `ClosedLastCorrect` | `lost` holds the samples refused, cut short or never had, whether or not anybody is told. `FileInv`: a status that counts as success is the end of the stream or a time after all samples due were given; the samples written are those of the chosen output up to the clock, and the event of the end is raised only behind them |
| `HeaderAgreesCorrect` | a WORD is two digits to the base `Byte`, a DWORD two of those (`TwoDigits`); each field of `Layout` then reads back as what was written. The products agree wherever they fit their fields |
| `HeaderTrueCorrect` | `ChannelInv`: the channels of the header are those of the option, and the format chosen is the best for it |
| `Mov123Proofs` | `IInv`: what has come out, is in the chunk and in the converter (`Line`) goes up by one sample at a time, or back by less than a unit (`Joined`), and the last sample fetched is less than a unit behind the callback's time (`Fetched`), since `convertTime` cuts off less than a unit (`CutOff`); source end and loop end are reached only with nothing left (`SourceEnd`, `LoopEnd`). For reads of any sizes, also those that end between two units; `NoSampleSkipped` and `WholeTrackConverted` for a `durationPerSample` of 1 |
| `TypeCorrect` of `VisualizerProofs` | what a client shows is a function of the chunks sent: `Before` is a recursion along them, whose values are typed by the least-number principle (`Least`) |
| `NoDanglingCorrect` | `Queue`: no `prev` is ever set, so each chunk taken out empties the queue, and what is freed lies before all that enters later |
| `ClientShowsCorrect` | on top of it, what was drawn is ascending and before the queue (`Drawing`), the history is the drawn chunks read backwards (`Backwards`), and each datagram is a window on them as they were when it was sent (`Sent`) |
| `TypeCorrect`, `NoneLeftStartingCorrect` of `CliSessionProofs` | `CliInv` is about the steps left. Every `new` has its `run` ahead, behind `canPlayers` if the test needs players (`NewsRun`); a test that is starting has a subtest or its `run` ahead and before the next `new` (`VerdictAhead`), and each script gives a verdict on every path (`ScriptType`, from `Telling` of each script); so at `report` no test is starting. `gsocket => gcli` needs `Forgets`: two `exit`s come before `forget`, and the second finds the connection closed or closes it. `dump.found <= Songs` needs `Fetches`: no more titles are left to fetch than the server said it has |
| `SecurityOnlyInTestCorrect`, `RestoredCorrect`, `ConformingPassesCorrect` | on top of `CliInv`, `RunInv`: as long as no connection is lost, the state and the steps left are a sure configuration (see below). They assume `MixerFindsSound`: where a plan has the mixer's test, no player is muted at the start. With one that is, that test fails and leaves its sound on (section 6, 727); TLC checks the properties for that case too |

Induction over data is an argument by the least counterexample (`Least`, from `WFMin` and
`NatLessThanWellFounded`), since the induction theorems take an operator as a parameter.

### A run without losses

What a run of `CliSession` restores, and whom it blames, depends on the values that all the
steps left will write and read, so the invariant speaks of the future. The last part of
`CliSessionProofs`, with the definitions in `CliSure`, puts it thus:

- A configuration is a state of the variables (a record, `here`) and the steps left. A set of
  configurations is `Lasting` when in each of them the settings are in order, no test is
  blamed (`Fine`), the next exchange is answered and its subtest succeeds (`Legal`), when
  every outcome of the step (`Becomes`, `Puts`) and the end of a scan (`Scanned`) lead to
  a configuration of the set, and when with no step left the settings are restored (`Ended`).
  `Sure` is the union of all those sets; it is one itself (`SureLasts`). So
  `<<here, todo>> \in Sure` is inductive by its definition, and all that is to be shown is
  that the first configuration is sure (`MainSure`) and that the actions of `CliSession`
  do nothing that `Becomes` and `Puts` do not allow (`ClientMoves`).
- `Leads(P, w, Q)`: in front of steps that are sure from each state of `Q`, the steps `w` are
  sure from each state of `P`. It has the rules of a program logic: of a step (`StepLeads`,
  `PlainLeads`), of a sequence (`LeadsJoin`), of a loop over players or titles (`LoopLeads`, by
  `Least`), of a weaker end (`LeadsFrom`). A step that waits for a scan needs no rule of
  its own: a set that lasts may stay where it is.
- Each script then has a lemma that says from where to where it leads: `Calm(p)` between two
  tests, `In(p, X)` in one that may have changed the settings in `X` and has a connection,
  `Amid(p, X, S, K)` when the first values of `S` are noted and the settings in `K` are known.
  `ConnectLeads` has a chain of its own, since that test alone changes `authorize` and gives
  up connections. `TestLeads` adds what a test needs, `EndLeads` the end of the program.

None of these sets can be enumerated, so TLC checks the three properties and not `RunInv`. It
did so before the proof, and the proof has corrected the statement of one: without songs the
tests of the database are skipped, which `ConformingPasses` now says (the runs have songs).

### Only model-checked

Every invariant and every action property of the passing runs is stated by a theorem. Only
model-checked are the liveness properties (all `~>` and `<>`): fairness and `ENABLED` are
beyond the proof system's backends.

## 5. Bounds of the models

- A block is what one write moves; its bytes and length are left out. A command is
  an order-keeping filter.
- Handle values are not modelled, so neither is the double close of the output socket
  (socketwrapper.cpp:272).
- Freed memory may be reused (`Junk`) or bring the process down, with `"heap"`.
- `WmaReader`: the path of a failed reading returns without `Close`, so
  `ClosedLast` speaks of decodes that succeeded.
- `WmaMain`: `fopen_s` and `fwrite` fail as a whole; a number that does not fit an `int`
  is left out, as are messages and `-d`. `HeaderTrue` speaks of files that have
  a format with the channels of the header, or mono that is doubled to them. `AllDecoded`
  leaves out the samples in `lost`: a decode that ends without an error may lack some.
- `SwMain`: a line without any command ends the model (`"empty"`).
- `Mov123`: a unit of the sound track's time scale is a whole number of samples (`Unit`),
  and a sample comes out for each that goes in. Reads may end between two units, and
  the movie's length is any number of units, as 494 cuts it. `NoneSkipped` and
  `AllConverted` speak of a `durationPerSample` of 1, which is a constant of the model;
  with another one line 194 leaves gaps or repeats, as it says. `ConversionEnds` speaks
  of reads that move the time on (`Steady`).
- `Visualizer`: a column stands for its chunk; how high its bar is, is left out, and so
  are the four words before the columns of a datagram.
- `CliSession`: the ids of songs are left out, so a dump does not go stale by a
  `wipecache`; one tag stands for all; a player's id that was not answered matters
  only to tests on a later connection (`PlayersAssumption`). `Restored` leaves out what the
  code does not put back (`Left`): a player's power, what it was synchronized with, the volume
  after `testPlayersSleep`, and the sound of a player that was muted before
  `testPlayersMixer`, which is also the one test that `ConformingPasses` lets fail.
  `RunEnds` leaves out the endless draw of 1452, after a loss and on a database with fewer
  titles than it draws. A loss voids `Restored`, `SecurityOnlyInTest` and `ConformingPasses`: nothing in the code
  restores or judges across one.
  `Undef` is an integer below every value of the server's, so that `undef` is none of them.
- Syntax reports (`gsyntaxTests`) are output only.

## 6. Noted while modelling

No run claims these; they are what a reader of the code should know.

socketwrapper

- 197: the command may open its named pipe before `ConnectNamedPipe` is called.
  The call then fails with `ERROR_PIPE_CONNECTED` and the thread ends at once.
- 604: main's reset races the increment of 257. A block moved within the
  period may be forgotten, so a thread that moves can be reported as stalled;
  `StallCaught` shows the other direction.
- 589: a `malloc`, `SetThreadPriority` or `CreateProcess` that fails jumps to `tidy` over the
  initialization of `deadstep` and `fDie`. `deadstep` is then any number, and the wait of
  619 may be 50 ms with the last stage alive and blocks still on their way.
- 254, 670: a client that pauses stops the last thread in `send`, or main in the flush
  of stdout, for as long as it likes; the end of the input does not end such a run.
- 657: a thread that is terminated may hold a lock of the C runtime. 672: the exit
  code is 0 whatever has failed.
- 344, 512: `strtok` skips empty commands and the walk does not, but they stay in step: the
  n-th command found is the n-th token, with the bars of empty ones left before it
  (`CommandsFound`). `CreateProcess` is then given a line that begins with a bar.
- `-c ""` and `-c "|"` pass the test of 320 and give no command at all.
- Ports are `USHORT`: 65536 is taken for no port.

wmadec

- 547: the loop's bound is behind a comma operator; the message at 575 is never
  reached, a missing audio track shows as a failure of `GetOutputProps`.
- 622: formats of six channels are taken although `-n` allows 1 and 2.
- 786: the default length makes the RIFF length 35. 886: `-w` with `-q`, or with a file
  that `fopen_s` refused (876 reports it and goes on), writes the header to `NULL`, which
  ends the process.
- 836, 844: `<= 0` on a `DWORD`: `-r -1` and `-n -1` are accepted.
- 886: the header says the channels of `-n`. When the file has no format with that number,
  and no mono to double, what follows has others.
- 417-420: when `GetBufferAndLength` fails the sample is dropped: no result is set and no event
  raised, so the decode succeeds without it. 446: an `fwrite` that writes a part counts
  as a success.
- 170: an error on stdin is reported as `S_FALSE`, a success; the decode ends as at the
  end of the stream.

visualizer

- main.c:37 tests `!in_fd` where `open` gives -1. io.c:24 returns no value.
- slimproto.c:33 copies 560 shorts of an array of 280. slimproto.c:36 passes their number for a
  number of bytes: 564 are sent where the header says 566 follow, and the two newest columns
  never reach the client. slimproto.c:65 goes on without a socket; main does not look.

mov123

- 194: `convertTime` cuts off a part of a unit. A read that does not end on a unit is followed by
  one that returns the samples behind the last unit again, fewer than a unit of them, and
  they are converted twice. A read shorter than a unit does not move the time at all: the
  callback gets the same samples for ever and the loop at 518 never ends.
- 494: the length is the movie's, not the track's, cut to whole units. Where it is
  shorter, the end of the track is not asked for.
- 178, 275, 550 and 570 leave with no error set: the exit code is 0.

CLIent

- 91 says of `gcli` "1 if connected", but a loss resets `gsocket` only (2900).
  `cliConnect` then returns at once (2914), and all tests that follow fail, though
  "each testXXX() is fully independant" (16).
- An unanswered query passes every subtest of the forms `== 0` and `<=`.
- A loss while the login tests run may leave `authorize` on or off.
- `testPlayersSleep` leaves the volume at 50 and `testPlayersPower` the players off,
  though "tests normally restore state" (20).
- 351, 495, 591, 712: `sync -` takes each player out of its group, and nothing puts it back.
- 727: the mixer's test toggles the muting and expects it on, and saves the volume but not the
  muting. A player that is muted when it starts fails the subtest on a conforming server, is
  left with its sound on (751), and its volume, which was read with a minus sign, is set
  back as a decrease (759).
- 1452: `testDatabaseTitles` needs ten titles that differ, `test_canDB` (2696) lets one song pass;
  with one to nine the loop never ends. The loop of 2206 is of the same kind.
- 1494 compares `$num` where `$numsearch` is meant: the subtest cannot fail.
- 3603 compares `$params[$i-3]`, which fits two parameters only.
- `cliTitles` keeps a failed answer in its window (3808).
- `testPlaylistPlay` and `testPlaylistInfoNavigation` never call `test_Done`.

## 7. Plan, and what is not modelled

Done: `SocketWrapper` with `Relay`, `SwTopology`, `SwWatchdog`, `GetOpt`, `SwMain`,
`WmaReader`, `WmaMain`, `Visualizer`, `Mov123`, `CliScripts` and `CliSession`; proofs about
all of them.

Not modelled, in the order of what it would add:

1. `cliTitles`: its window against a table of titles, random windows and failed answers
   (the answer to index i is title i, without failures).
2. The recursion of CLIent through genres, albums and artists (1084-1267), which
   compares counts along every path; the players' queries, the playlist tests and
   `testDatabasePlaylists`. All are tests of the kind `CliScripts` has, over larger answers.
3. `checklastframe` (a scan of bytes) and `slt2strings` (a temporary file and a
   rename, a crash between them).
4. mov123: the release of what was acquired, behind `bail`, and the set-up calls one by
   one. Each is acquired at most once and released once on the only path there is.
5. `vistest`: a straight line of calls that sends one test picture, without state.

## 8. Running

    tlc -workers 2 -config SwFaults.cfg SocketWrapper.tla
    tlapm SocketWrapperProofs.tla

Every run ends within three minutes on two cores; `wma_main` (1,876,000 states),
`sw_faults` (1,741,000) and `cli_session` (1,067,000) are the longest.
