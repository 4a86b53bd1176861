------------------------------ MODULE CliSure ------------------------------
(***************************************************************************)
(* What the proofs about CLIent speak of: the shape that its program always*)
(* has, the inductive invariant, and, for a run that loses no connection,  *)
(* what each step makes of the state and the configurations from which the *)
(* run does no wrong.                                                      *)
(***************************************************************************)
EXTENDS CliSession

-----------------------------------------------------------------------------
(* The steps of the scripts.                                               *)

\* Steps with a subtest, whatever is answered.
JudgeOps == {"check", "atMost", "notZero", "checkMix", "known", "judge", "skip",
             "scanning", "compare", "count", "searched", "sort", "sameData",
             "tagInfo", "noTag"}
OtherOps == {"set", "toggle", "lower", "restore", "save", "connect", "wait", "wipecache",
             "rescan", "waitDone", "note", "mixAbs", "mixUp", "mixDown", "ifConnected",
             "ifSecure", "disconnect", "ifConnectedFreely", "ifSouvenir", "ifPlaylists",
             "souvenir", "model", "tag", "data", "draw", "dump", "ask", "needSongs",
             "needGroups"}
ScriptOps == JudgeOps \cup OtherOps

Subject == Setting \cup Topic
StepOf(ops) == [op : ops, x : Subject, v : Int]
Scripts == Seq(StepOf(ScriptOps))

\* Scripts that give a verdict.
Judges(s) == \E k \in 1 .. Len(s) : s[k].op \in JudgeOps
Telling == {s \in Scripts : Judges(s)}

-----------------------------------------------------------------------------
(* The program: what a test's steps are, and the shape it always has.      *)

TestOps == {"new", "canConnect", "canPlayers", "canDB", "run"}
LastOps == {"report", "restoreFlags", "disconnect"}
AnyOps  == ScriptOps \cup {"exit", "forget", "fetch"} \cup TestOps \cup LastOps
Program == Seq(StepOf(AnyOps))
Marks   == {"new", "report"}

\* Behind place k of s, and before the next test, a test t is run, once the
\* players are known if it is about them.
RunAhead(s, k, t) ==
  \E r \in k + 1 .. Len(s) :
    /\ s[r].op = "run" /\ \A j \in k + 1 .. r : s[j].op \notin Marks
    /\ t \in NeedsPlayers => \E j \in k + 1 .. r - 1 : s[j].op = "canPlayers"
NewsRun(s) == \A k \in 1 .. Len(s) :
                s[k].op = "new" => s[k].x[2] \in Test /\ RunAhead(s, k, s[k].x[2])
ReportLast(s) == \A j, k \in 1 .. Len(s) : s[j].op = "report" /\ s[k].op = "new" => k < j

-----------------------------------------------------------------------------
(* The inductive invariant.                                                *)

Judged   == {Skipped, Failed, Success, Partial}
Verdicts == Judged \cup {None, Start}

\* The values of the variables, and of those of the connection.
Values0 ==
  /\ plan \in Plans /\ tid \in Test \cup {""} /\ guser \in Users /\ guser \in BOOLEAN
  /\ gtest_db \in [Test -> Verdicts]
  /\ gRestoreGroupDisc \in BOOLEAN /\ scanning \in BOOLEAN /\ quick \in BOOLEAN
  /\ gplayers \in {0, Players} /\ value \in 0 .. MixMax
  /\ dump \in [found : 0 .. Songs, blank : 0 .. 1]
  /\ drawn \in [found : Nat, blank : Nat]
  /\ drawn.found <= dump.found /\ drawn.blank <= dump.blank
Linked ==
  /\ gsocket \in BOOLEAN /\ gcli \in BOOLEAN /\ link \in BOOLEAN /\ logged \in BOOLEAN
  /\ drops \in 0 .. MaxDrops /\ (gsocket => gcli)

\* No test runs before the first one has begun.
Begins == tid = "" => \/ todo # <<>> /\ todo[1].op = "new"
                      \/ \A k \in 1 .. Len(todo) : todo[k].op # "run"

\* The titles still to be fetched are the next steps, and no more than there are.
Fetches == \A k \in 1 .. Len(todo) : todo[k].op = "fetch" =>
             k + dump.found <= Songs /\ \A j \in 1 .. k : todo[j].op = "fetch"

\* Before testConnectDisconnect forgets its connection exit has closed it twice.
Forgets == \A k \in 1 .. Len(todo) : todo[k].op = "forget" =>
             \/ k = 1 /\ ~gsocket
             \/ k = 2 /\ todo[1].op = "judge" /\ ~gsocket
             \/ k = 3 /\ todo[1].op = "exit" /\ todo[2].op = "judge" /\ ~(gsocket /\ link)
             \/ k = 4 /\ todo[1].op = "exit" /\ todo[2].op = "exit" /\ todo[3].op = "judge"

\* A test that is still starting has a subtest to come, or has yet to be run.
VerdictAt(r) ==
  /\ r \in 1 .. Len(todo) /\ \A j \in 1 .. r : todo[j].op \notin Marks
  /\ \/ todo[r].op \in JudgeOps
     \/ /\ todo[r].op = "run"
        /\ tid \in NeedsPlayers =>
             gplayers > 0 \/ \E j \in 1 .. r - 1 : todo[j].op = "canPlayers"
VerdictAhead == \E r \in Nat : VerdictAt(r)
Told  == tid \in Test /\ gtest_db[tid] = Start => VerdictAhead
Begun == tid \in Test => gtest_db[tid] # None

\* Every test of the plan has its verdict, runs, or is still to come.
Ahead == \A i \in DOMAIN plan :
           \/ gtest_db[plan[i]] \in Judged \/ tid = plan[i]
           \/ \E k \in 1 .. Len(todo) : todo[k].op = "new" /\ todo[k].x[2] = plan[i]

Walking == /\ todo \in Program /\ NewsRun(todo) /\ ReportLast(todo) /\ Begins
           /\ Fetches /\ Forgets /\ Told /\ Begun /\ Ahead
CliInv == Values0 /\ Linked /\ Walking

-----------------------------------------------------------------------------
(* A run that loses no connection.                                         *)
(*                                                                         *)
(* The values of the variables are a record here, and what a step of the   *)
(* program makes of them is a relation between two records, so that one    *)
(* can say which states a script leads from, and to which.                 *)

\* The mixer test toggles a muting that it takes to be off: where a plan has that
\* test, no player is muted when the run starts.
MixerTested == \E p \in Plans : \E k \in DOMAIN p : p[k] = "mixer"
MixerFindsSound == MixerTested => MutedAtStart \subseteq {{}}

\* What the settings are at the beginning, as far as it matters.
FirstSettings ==
  {i \in [Setting -> Int] :
     /\ \A x \in Setting : i[x] >= 0
     /\ i[authorize] \in {0, 1} /\ i[groupdiscs] \in {0, 1}
     /\ \A j \in 1 .. Players : /\ MixerTested => i[<<j, "muting">>] = 0
                               /\ i[<<j, "doublesize">>] \in {0, 1}}

State ==
  [plan : Plans, guser : BOOLEAN, initial : FirstSettings, tid : Test \cup {""},
   db : [Test -> Verdicts], gplayers : {0, Players}, flag : BOOLEAN,
   setting : [Setting -> Int], memo : [Setting -> Int], value : 0 .. MixMax,
   answer : Int, total : [songs : Int, playlists : Int],
   dump : [found : 0 .. Songs, blank : {0}],
   gcli : BOOLEAN, gsocket : BOOLEAN, link : BOOLEAN, logged : BOOLEAN,
   scanning : BOOLEAN, quick : BOOLEAN]

here ==
  [plan |-> plan, guser |-> guser, initial |-> initial, tid |-> tid,
   db |-> gtest_db, gplayers |-> gplayers, flag |-> gRestoreGroupDisc,
   setting |-> setting, memo |-> memo, value |-> value,
   answer |-> answer, total |-> total, dump |-> dump,
   gcli |-> gcli, gsocket |-> gsocket, link |-> link, logged |-> logged,
   scanning |-> scanning, quick |-> quick]

SetOps      == {"set", "toggle", "lower", "restore", "mixAbs", "mixUp", "mixDown"}
MixOps      == {"mixAbs", "mixUp", "mixDown"}
LinkOps     == {"canConnect", "connect", "disconnect", "exit", "forget"}
TestingOps  == JudgeOps \cup {"ifSecure", "tag"}
OwnOps      == SetOps \cup {"save", "check", "atMost", "notZero", "checkMix", "souvenir",
                            "ifSouvenir"}
ExchangeOps == SetOps \cup {"save", "check", "atMost", "notZero", "checkMix", "known",
                            "souvenir", "model", "ask", "wipecache", "rescan", "waitDone",
                            "scanning", "note", "compare", "dump", "fetch", "count",
                            "searched", "tag", "sort", "data", "sameData", "tagInfo",
                            "noTag", "needSongs", "needGroups"}
BranchOps   == {"ifConnected", "ifSecure", "ifConnectedFreely", "ifSouvenir", "ifPlaylists",
                "souvenir", "model", "canPlayers", "canDB", "needGroups", "run",
                "restoreFlags", "dump", "draw", "searched", "data", "tagInfo"}

Hears(a)  == a.gcli /\ a.gsocket /\ a.link /\ (a.setting[authorize] = 1 => a.logged)
Starts(a) == a.db[a.tid] = Start
Read(a, x) == IF x[2] = "volume" /\ a.setting[<<x[1], "muting">>] = 1
              THEN -a.setting[x] ELSE a.setting[x]

\* The settings that the tests of a plan put back, but for groupdiscs.
Kept(p) == {x \in Setting \ {groupdiscs} :
              /\ x[2] \notin {"power", "sync", "sleep", "message"}
              /\ x[2] = "volume" => \A k \in DOMAIN p : p[k] # "sleep"}

\* Every exchange of a step is answered, and its subtest succeeds.
Legal(a, q) ==
  /\ q.op \in ExchangeOps => Hears(a)
  /\ q.op = "canPlayers" /\ Starts(a) => Hears(a)
  /\ q.op \in OwnOps => q.x \in Setting
  /\ q.op = "check"    => Num(Read(a, q.x)) = q.v
  /\ q.op = "atMost"   => Num(Read(a, q.x)) <= q.v
  /\ q.op = "notZero"  => Num(Read(a, q.x)) # 0
  /\ q.op = "checkMix" => Num(Read(a, q.x)) = a.value
  /\ q.op = "judge"    => a.answer = q.v
  /\ q.op = "ifSecure" => (Num(a.memo[authorize]) # 0 => a.guser)
  /\ q.op = "scanning" => a.tid = "rescan" /\ (a.scanning \/ a.quick)
  /\ q.op \in {"note", "compare"} => q.x[2] \in {"songs", "playlists"}
  /\ q.op \in {"note", "compare", "count", "dump", "needSongs"} => ~a.scanning
  /\ q.op = "compare"  => Num(a.total[q.x[2]]) = Full[q.x[2]]
  /\ q.op = "count"    => a.dump.found = Songs

\* What a command makes of the settings.
Taken(a, x, v) == IF v = Undef THEN a.setting ELSE [a.setting EXCEPT ![x] = v]
Given(a, x, v) ==
  IF x[2] = "power" /\ v = 0 THEN [Taken(a, x, v) EXCEPT ![<<x[1], "sleep">>] = 0]
                             ELSE Taken(a, x, v)
Brought(a, x) ==
  IF x[2] = "volume" /\ a.memo[x] < 0 /\ a.memo[x] # Undef
  THEN Clamp(a.setting[x] + a.memo[x]) ELSE a.memo[x]
Later(a) == [x \in Setting |->
  CASE x[2] = "message" -> 0
    [] x[2] = "sleep"   -> IF a.setting[x] = 0 THEN 0 ELSE a.setting[x] - 1
    [] x[2] = "power" /\ a.setting[<<x[1], "sleep">>] = 1 -> 0
    [] OTHER -> a.setting[x]]

SameLink(a, b) == /\ b.gcli = a.gcli /\ b.gsocket = a.gsocket
                  /\ b.link = a.link /\ b.logged = a.logged
Hung(b) == ~b.gsocket /\ ~b.link /\ ~b.logged
Connects(a, how, b) ==
  IF a.gcli THEN SameLink(a, b)
  ELSE IF a.setting[authorize] = 1 => (a.guser /\ how = "login")
       THEN b.gcli /\ b.gsocket /\ b.link /\ b.logged = (a.guser /\ how = "login")
       ELSE ~b.gcli /\ Hung(b)

Judgement(a, b) == \A t \in Test :
  /\ b.db[t] = Skipped => a.db[t] = Skipped
  /\ b.db[t] = Failed  => a.db[t] = Failed \/ (t = "rescan" /\ a.quick)

\* What a legal step leaves alone.
Leaves(a, q, b) ==
  /\ b.plan = a.plan /\ b.guser = a.guser /\ b.initial = a.initial /\ b.quick = a.quick
  /\ q.op # "new"            => b.tid = a.tid
  /\ q.op \notin LinkOps     => SameLink(a, b)
  /\ q.op \notin SetOps \cup {"wait"}       => b.setting = a.setting
  /\ q.op \notin {"save", "souvenir"}       => b.memo = a.memo
  /\ q.op \notin MixOps                     => b.value = a.value
  /\ q.op \notin {"connect", "exit", "note", "compare"} => b.answer = a.answer
  /\ q.op # "note"           => b.total = a.total
  /\ q.op # "fetch"          => b.dump = a.dump
  /\ q.op # "canPlayers"     => b.gplayers = a.gplayers
  /\ q.op # "needGroups"     => b.flag = a.flag
  /\ q.op \notin {"wipecache", "rescan"}    => b.scanning = a.scanning
  /\ q.op \notin TestingOps \cup {"new", "canConnect", "needSongs"} => b.db = a.db
  /\ q.op \in TestingOps     => Judgement(a, b)

\* What it changes, by the kinds of steps.
Sets(a, q, b) ==
  /\ q.op = "set"     => b.setting = Given(a, q.x, q.v)
  /\ q.op = "toggle"  => b.setting = Given(a, q.x, 1 - a.setting[q.x])
  /\ q.op = "lower"   => b.setting = Given(a, q.x, a.setting[q.x] - 1)
  /\ q.op = "restore" => b.setting = Given(a, q.x, Brought(a, q.x))
  /\ q.op = "mixAbs"  => b.setting = Given(a, q.x, b.value)
  /\ q.op = "mixUp"   => /\ b.value >= a.value
                         /\ b.setting = Given(a, q.x, Clamp(a.setting[q.x] + (b.value - a.value)))
  /\ q.op = "mixDown" => /\ b.value <= a.value
                         /\ b.setting = Given(a, q.x, Clamp(a.setting[q.x] - (a.value - b.value)))
  /\ q.op = "wait"    => b.setting = Later(a)
Notes(a, q, b) ==
  /\ q.op = "save"     => b.memo = [a.memo EXCEPT ![q.x] = Read(a, q.x)]
  /\ q.op = "souvenir" => b.memo = [a.memo EXCEPT ![q.x] = a.setting[q.x]]
  /\ q.op = "note"     => b.total = [a.total EXCEPT ![q.x[2]] = Full[q.x[2]]]
  /\ q.op = "fetch"    => b.dump = [a.dump EXCEPT !.found = @ + 1]
  /\ q.op \in {"wipecache", "rescan"} => b.scanning
  /\ q.op = "waitDone" => ~a.scanning
Links(a, q, b) ==
  /\ q.op = "canConnect" => Connects(a, "login", b)
  /\ q.op = "connect"    => Connects(a, q.x[2], b) /\ b.answer = IF b.gcli THEN 1 ELSE 0
  /\ q.op = "disconnect" => ~b.gcli /\ Hung(b)
  /\ q.op = "forget"     => /\ ~b.gcli
                            /\ b.gsocket = a.gsocket /\ b.link = a.link /\ b.logged = a.logged
  /\ q.op = "exit" =>
       IF Hears(a) THEN /\ ~b.link /\ b.answer = 1
                        /\ b.gcli = a.gcli /\ b.gsocket = a.gsocket /\ b.logged = a.logged
       ELSE /\ b.answer = 0 /\ b.gcli = a.gcli
            /\ IF a.gcli /\ a.gsocket THEN Hung(b) ELSE SameLink(a, b)
Tests(a, q, b) ==
  /\ q.op = "new" => b.tid = q.x[2] /\ b.db = [a.db EXCEPT ![q.x[2]] = Start]
  /\ q.op = "canConnect" => b.db = IF b.gcli THEN a.db ELSE [a.db EXCEPT ![a.tid] = Skipped]
  /\ q.op = "needSongs"  => b.db = IF Songs < 1 THEN [a.db EXCEPT ![a.tid] = Skipped] ELSE a.db
  /\ q.op = "canPlayers" => b.gplayers = IF Starts(a) THEN Players ELSE a.gplayers
  /\ q.op = "needGroups" => b.flag = (a.flag \/ Num(a.setting[groupdiscs]) = 0)
Becomes(a, q, b) ==
  Leaves(a, q, b) /\ Sets(a, q, b) /\ Notes(a, q, b) /\ Links(a, q, b) /\ Tests(a, q, b)

\* The steps w that it puts in front of the others.
Puts(a, q, w) ==
  /\ q.op \notin BranchOps => w = <<>>
  /\ q.op = "ifConnected"  => w = IF a.gcli THEN SecurityScript ELSE <<>>
  /\ q.op = "ifSecure"     => w = IF Num(a.memo[authorize]) # 0 THEN Set(authorize, 0) ELSE <<>>
  /\ q.op = "ifConnectedFreely" => w = IF a.gcli THEN LoginScript(a.guser) ELSE <<>>
  /\ q.op = "souvenir"     => w = IF a.setting[q.x] = 1 THEN Set(q.x, 0) ELSE <<>>
  /\ q.op = "ifSouvenir"   => w = IF a.memo[q.x] = 1 THEN Set(q.x, 1) ELSE <<>>
  /\ q.op = "ifPlaylists"  => w \in {RescanPlaylistsScript(a.gplayers), Skip}
  /\ q.op = "model"        => w \in {MixerScript(q.x), Skip \o Skip}
  /\ q.op = "canPlayers"   => w \in IF Starts(a) THEN {<<>>, Times(Players, Plain("ask"))}
                                                 ELSE {<<>>}
  /\ q.op = "canDB"        => w = IF Starts(a) THEN WaitDone \o Plain("needSongs")
                                                    \o Plain("needGroups") ELSE <<>>
  /\ q.op = "needGroups"   => w = IF Num(a.setting[groupdiscs]) = 0 THEN Regroup(1) ELSE <<>>
  /\ q.op = "run"          => w = IF Starts(a) THEN Script(a.tid, a.gplayers) ELSE <<>>
  /\ q.op = "restoreFlags" => w = IF a.flag THEN Regroup(0) ELSE <<>>
  /\ q.op = "dump"         => w = IF a.dump.found > 0 THEN <<>> ELSE Times(Songs, Plain("fetch"))
  /\ q.op = "draw"         => w = Plain("searched")
  /\ q.op = "searched"     => w \in {<<>>, Plain("draw")}
  /\ q.op = "data"         => w \in {<<>>, Plain("sameData")}
  /\ q.op = "tagInfo"      => w \in {<<>>, Plain("noTag")}

\* The end of a scan, before a step op.
Scanned(a, op, b) ==
  /\ a.scanning /\ ~b.scanning /\ b.quick = (a.quick \/ op = "scanning")
  /\ b.plan = a.plan /\ b.guser = a.guser /\ b.initial = a.initial
  /\ b.tid = a.tid /\ b.db = a.db /\ b.gplayers = a.gplayers /\ b.flag = a.flag
  /\ b.setting = a.setting /\ b.memo = a.memo /\ b.value = a.value /\ b.answer = a.answer
  /\ b.total = a.total /\ b.dump = a.dump /\ SameLink(a, b)

\* What the theorems say of a state, and of the last one.
Blameless(a) == \A t \in Test :
  /\ a.db[t] = Failed  => t = "rescan" /\ a.quick
  /\ a.db[t] = Skipped => \/ ~a.guser /\ a.initial[authorize] = 1
                          \/ t \in NeedsDB /\ Songs = 0
Fine(a) == /\ a.tid # "connect" => a.setting[authorize] = a.initial[authorize]
           /\ Blameless(a)
Ended(a) == \A x \in Kept(a.plan) \cup {groupdiscs} : a.setting[x] = a.initial[x]

-----------------------------------------------------------------------------
(* What a script leads to.                                                 *)

Steps  == StepOf(AnyOps)
Config == State \X Program

\* Configurations, a state with the steps still to be taken, that stay among
\* themselves, and of which none is at fault.
Lasting(G) ==
  \A a \in State, w \in Program : <<a, w>> \in G =>
    /\ Fine(a)
    /\ w = <<>> => Ended(a)
    /\ w # <<>> =>
         /\ Legal(a, Head(w))
         /\ \A b \in State : \A u : Becomes(a, Head(w), b) /\ Puts(a, Head(w), u) =>
                                      <<b, u \o Tail(w)>> \in G
         /\ \A b \in State : Scanned(a, Head(w).op, b) => <<b, w>> \in G
    /\ w = <<>> => \A b \in State : Scanned(a, "", b) => <<b, w>> \in G

\* The configurations from which a run does no wrong.
Sure == {c \in Config : \E G \in SUBSET Config : Lasting(G) /\ c \in G}

\* From P the steps w lead to Q, whatever comes then.
Leads(P, w, Q) ==
  /\ w \in Program
  /\ \A u \in Program : (\A b \in Q : <<b, u>> \in Sure) => \A a \in P : <<a, w \o u>> \in Sure

-----------------------------------------------------------------------------
(* States between the steps of a test.                                     *)

\* No test is to blame, and all settings but those in X are as they were.
Bound(a, X) ==
  /\ a.logged => a.guser
  /\ a.flag => a.initial[groupdiscs] = 0
  /\ ~a.flag => a.setting[groupdiscs] = a.initial[groupdiscs]
  /\ Blameless(a)
  /\ \A x \in Kept(a.plan) \ X : a.setting[x] = a.initial[x]
AllOrNone(a) == a.dump.found \in {0, Songs}

\* Between two tests...
Calm(p) == {a \in State : /\ a.plan = p /\ Bound(a, {}) /\ AllOrNone(a)
                          /\ a.gcli => Hears(a)
                          /\ a.flag => a.gcli}
\* ... and in one that has a connection.
In(p, X) == {a \in State : a.plan = p /\ Hears(a) /\ Bound(a, X) /\ AllOrNone(a)}

\* In a test, with the first values of the settings in S noted, and the settings
\* known that the pairs in K tell.
Amid(p, X, S, K) ==
  {a \in In(p, X) : /\ \A x \in S : x \in Kept(p) => a.memo[x] = a.initial[x]
                    /\ \A c \in K : a.setting[c[1]] = c[2]}

InOps == (ExchangeOps \ {"fetch", "needSongs", "needGroups"})
           \cup {"wait", "judge", "skip", "ifSouvenir", "ifPlaylists", "draw"}

\* Settings that a test may change when it lets those in X be changed.
Free(p, X) == (Setting \ {groupdiscs}) \ (Kept(p) \ X)
=============================================================================
