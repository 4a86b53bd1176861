------------------------------- MODULE SwMain -------------------------------
(***************************************************************************)
(* socketwrapper.cpp, main from its beginning: the options, and strtok over*)
(* the -c argument, which cuts the string in place into the commands that  *)
(* the set-up (SwTopology) then walks.                                     *)
(***************************************************************************)
EXTENDS GetOpt, SwTopology

CONSTANT USHRT  \* ports are unsigned modulo this

VARIABLES command,  \* what -c said: [given, text]
          mem,      \* the memory of its string
          save,     \* where strtok goes on
          cuts,     \* commands counted
          watchdog  \* bWatchdogEnabled

setupVars == <<i, numSteps, info, nPipes, named, top>>
lineVars  == <<mem, save, cuts>>
mainVars  == <<optVars, vars, command, lineVars, watchdog>>

MainInit ==
  /\ OptInit
  /\ Commands = <<>> /\ inputPort = FALSE /\ outputPort = FALSE
  /\ pc = "options" /\ i = 0 /\ numSteps = 0
  /\ info = [n \in Index |-> ZeroStage] /\ nPipes = 0 /\ named = FALSE /\ top = 0
  /\ command = [given |-> FALSE, text |-> <<>>]
  /\ mem = <<NUL>> /\ save = 1 /\ cuts = 0
  /\ watchdog = FALSE

\* A USHORT; 0 stands for no port.
IsPort(text) == atoi(text) % USHRT # 0

\* The switch.  printUsage returns -1.
Option ==
  /\ pc = "options" /\ getopt
  /\ inputPort'  = IF c' = "i" THEN IsPort(optarg') ELSE inputPort
  /\ outputPort' = IF c' = "o" THEN IsPort(optarg') ELSE outputPort
  /\ command' = IF c' = "c" THEN [given |-> TRUE, text |-> optarg'] ELSE command
  /\ watchdog' = (watchdog \/ c' = "w")
  /\ pc' = IF c' = NUL \/ (c' = EOF /\ ~command.given) THEN "usage"
           ELSE IF c' = EOF THEN "winsock" ELSE "options"
  /\ UNCHANGED <<Commands, setupVars, lineVars>>

\* WSAStartup.
Winsock ==
  /\ pc = "winsock"
  /\ pc' \in {"count", "usage"}
  /\ mem' = Append(command.text, NUL)
  /\ UNCHANGED <<optVars, args, setupVars, command, save, cuts, watchdog>>

Blank == " "
First(k, Ends(_)) == CHOOSE j \in k .. Len(mem) : Ends(mem[j]) /\ \A l \in k .. j - 1 : ~Ends(mem[l])

\* Faulty variant: one too few, as if the length were an index.
StrEndShort(k) == First(k, LAMBDA ch : ch = NUL) - 1

\* The position of the 0 that ends the string at k.
StrEnd(k) == First(k, LAMBDA ch : ch = NUL)

\* Where the n-th command of the walk begins: "token += strlen(token) + 1", and
\* blanks are skipped.  Behind the string when the walk has left it.
Place[n \in 1 .. Len(mem) + 1] ==
  LET from == IF n = 1 THEN 1 ELSE StrEnd(Place[n - 1]) + 1
  IN IF from > Len(mem) THEN from ELSE First(from, LAMBDA ch : ch # Blank)
Text(n) == SubSeq(mem, Place[n], StrEnd(Place[n]) - 1)

\* strtok(.., "|"): bars are skipped, and the bar that ends the token is cut out.
\* After the last the commands are what the set-up's walk will meet.
Strtok ==
  /\ pc = "count"
  /\ LET from == First(save, LAMBDA ch : ch # "|")
         end  == First(from, LAMBDA ch : ch \in {"|", NUL})
     IN IF mem[from] = NUL
        THEN /\ Commands' = [n \in 1 .. cuts |-> \E k \in DOMAIN Text(n) : Text(n)[k] = "#"]
             /\ info' = [n \in Index' |-> ZeroStage]
             /\ pc' = "input" /\ UNCHANGED lineVars
        ELSE /\ mem' = [mem EXCEPT ![end] = NUL]
             /\ save' = IF mem[end] = NUL THEN end ELSE end + 1
             /\ cuts' = cuts + 1
             /\ UNCHANGED <<Commands, info, pc>>
  /\ UNCHANGED <<optVars, inputPort, outputPort, i, numSteps, nPipes, named, top, command, watchdog>>

\* No command: the loop of the set-up has no round.
NoCommand ==
  /\ pc = "command" /\ numProcesses = 0
  /\ pc' = "empty"
  /\ UNCHANGED <<optVars, args, setupVars, command, lineVars, watchdog>>

SetUp == /\ numProcesses > 0 \/ pc = "input"
         /\ Next
         /\ UNCHANGED <<optVars, command, lineVars, watchdog>>

MainEnded == pc \in {"usage", "empty", "tidy"} /\ UNCHANGED mainVars

MainNext == Option \/ Winsock \/ Strtok \/ NoCommand \/ SetUp \/ MainEnded

MainSpec == MainInit /\ [][MainNext]_mainVars

-----------------------------------------------------------------------------
(* Properties. *)

\* The tokens of a text: the longest runs without a bar.
IsBar(s, k) == k \in {0, Len(s) + 1} \/ s[k] = "|"
TokensIn(s) == {t \in (1 .. Len(s)) \X (1 .. Len(s)) :
                  /\ t[1] <= t[2] /\ IsBar(s, t[1] - 1) /\ IsBar(s, t[2] + 1)
                  /\ \A k \in t[1] .. t[2] : ~IsBar(s, k)}
Rank(s, t)  == Cardinality({u \in TokensIn(s) : u[1] <= t[1]})
Tokens      == TokensIn(command.text)

\* From position k of s, without blanks and bars.
Stripped(s, k) ==
  LET skip == CHOOSE j \in k .. Len(s) + 1 :
                /\ j <= Len(s) => s[j] \notin {Blank, "|"}
                /\ \A l \in k .. j - 1 : s[l] \in {Blank, "|"}
  IN SubSeq(s, skip, Len(s))

\* strtok skips empty commands when it counts and the walk by strlen does not.
\* Even so the walk stays in the string, and its n-th command is the n-th token
\* (with the bars of empty ones before it).
CommandsFound ==
  pc \notin {"options", "winsock", "count", "usage"} =>
    /\ cuts = Cardinality(Tokens)
    /\ \A t \in Tokens :
         LET n == Rank(command.text, t)
         IN /\ Place[n] <= Len(mem)
            /\ Stripped(Text(n), 1) = Stripped(SubSeq(command.text, t[1], t[2]), 1)
=============================================================================
