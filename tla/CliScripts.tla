----------------------------- MODULE CliScripts -----------------------------
(***************************************************************************)
(* CLIent/CLIent.6.x.pl: what each test asks of the server, in order.      *)
(*                                                                         *)
(* A test is the sequence of its steps.  Most steps are one exchange with  *)
(* the server, some with a subtest on the answer; the others branch, and   *)
(* put the steps of the branch in front (module CliSession).  Fields of the*)
(* server's answers that say the same thing are one setting here.          *)
(***************************************************************************)
EXTENDS Integers, Sequences, SequencesExt

CONSTANTS Searches,   \* titles testDatabaseTitles searches for: 10 in the code
          MixMax      \* the largest value of a mixer field: 100

ASSUME ScriptAssumption == Searches \in Nat /\ MixMax \in Nat

\* What the tests set: preferences of the server, and settings of each player.
Pref == {"authorize", "groupdiscs", "d_cli", "composerInArtists"}
Attr == {"power", "sync", "sleep", "message", "muting", "volume", "treble",
         "powerOnBrightness", "doublesize"}
authorize  == <<0, "authorize">>
groupdiscs == <<0, "groupdiscs">>

\* A step: what is done, what it is about, and a value.
Step(op, x, v) == <<[op |-> op, x |-> x, v |-> v]>>
Plain(op)      == Step(op, <<0, "">>, 0)

Set(x, v)    == Step("set", x, v)         \* cliCommand
Toggle(x)    == Step("toggle", x, 0)
Lower(x)     == Step("lower", x, 0)       \* button brightness_down
Unsync(i)    == Set(<<i, "sync">>, 0)     \* "sync -"; nothing syncs it again
Save(x)      == Step("save", x, 0)        \* cliQuery, the answer is kept
Restore(x)   == Step("restore", x, 0)
Check(x, v)  == Step("check", x, v)       \* cliQuery and test_SubTest
AtMost(x, v) == Step("atMost", x, v)
NotZero(x)   == Step("notZero", x, 0)
Known        == Plain("known")            \* "defined(cliQuery(...))"
Connect(how) == Step("connect", <<0, how>>, 0)
Judge(v)     == Step("judge", <<0, "">>, v)   \* a subtest on what came back
Skip         == Plain("skip")
Wait         == Plain("wait")             \* sleep, as long as the players take
Wipe         == Plain("wipecache")
Rescan       == Plain("rescan")
WaitDone     == Plain("waitDone")

\* "for (my $i=0; $i<scalar @gplayers; $i++)"
Each(n, Steps(_)) == FlattenSeq([i \in 1 .. n |-> Steps(i)])
Times(k, steps)   == FlattenSeq([i \in 1 .. k |-> steps])

-----------------------------------------------------------------------------
\* testConnectDisconnect, in three parts: the second and the third are run only
\* if the connection before them is up.
ConnectScript ==
  Plain("exit") \o Plain("exit") \o Judge(0) \o Plain("forget")
  \o Connect("login") \o Judge(1) \o Plain("ifConnected")

SecurityScript ==
  Save(authorize) \o Plain("ifSecure") \o Plain("disconnect")
  \o Connect("nologin") \o Judge(1) \o Plain("ifConnectedFreely")

\* Faulty variant: security stays as the login tests have left it.
LoginScriptLeaves(user) ==
  IF user
  THEN Set(authorize, 1) \o Plain("disconnect")
       \o Times(3, Connect("wrong") \o Judge(0) \o Plain("disconnect"))
       \o Connect("login")
  ELSE Skip

LoginScript(user) ==
  (IF user
   THEN Set(authorize, 1) \o Plain("disconnect")
        \o Times(3, Connect("wrong") \o Judge(0) \o Plain("disconnect"))
        \o Connect("login")
   ELSE Skip)
  \o Restore(authorize)

\* testGeneral.
GeneralScript ==
  LET d == <<0, "d_cli">>
      c == <<0, "composerInArtists">>
  IN  Known
      \o Save(d) \o Set(d, 0) \o Check(d, 0) \o Set(d, 1) \o Check(d, 1)
      \o Toggle(d) \o Check(d, 0) \o Restore(d)
      \o Save(c) \o Set(c, 0) \o Check(c, 0) \o Set(c, 1) \o Check(c, 1)
      \o Restore(c)
      \o Times(4, Known)

\* testPlayersSleep.  A player that is told to sleep counts three waits down.
SleepScript(n) ==
  LET Sleep(i) == <<i, "sleep">>
      Power(i) == <<i, "power">>
      Counting(k) == Each(n, LAMBDA i : AtMost(Sleep(i), k) \o NotZero(Sleep(i)))
  IN  Each(n, LAMBDA i : Set(Power(i), 1) \o Unsync(i)
                         \o Set(<<i, "volume">>, MixMax \div 2) \o Set(Sleep(i), 3))
      \o Counting(3) \o Wait \o Counting(2) \o Wait \o Counting(1) \o Wait
      \o Each(n, LAMBDA i : Check(Sleep(i), 0) \o Check(Power(i), 0))
      \o Each(n, LAMBDA i : Set(Power(i), 1) \o Set(Sleep(i), 3))
      \o Each(n, LAMBDA i : AtMost(Sleep(i), 3))
      \o Each(n, LAMBDA i : Set(Power(i), 0))
      \o Each(n, LAMBDA i : Set(Power(i), 1))
      \o Each(n, LAMBDA i : Check(Sleep(i), 0))

\* testPlayersPower.
PowerScript(n) ==
  LET Power(i) == <<i, "power">>
  IN  Each(n, LAMBDA i : Unsync(i) \o Set(Power(i), 0))
      \o Each(n, LAMBDA i : Check(Power(i), 0))
      \o Each(n, LAMBDA i : Set(Power(i), 1)) \o Each(n, LAMBDA i : Check(Power(i), 1))
      \o Each(n, LAMBDA i : Toggle(Power(i))) \o Each(n, LAMBDA i : Check(Power(i), 0))

\* __testPlayersMixer: a field is set, raised and lowered by random amounts.
MixerScript(x) ==
  Save(x)
  \o Step("mixAbs", x, 0)  \o Step("checkMix", x, 0)
  \o Step("mixUp", x, 0)   \o Step("checkMix", x, 0)
  \o Step("mixDown", x, 0) \o Step("checkMix", x, 0)
  \o Restore(x)

\* testPlayersMixer; "model" goes on with treble, bass and pitch, or skips them.
PlayersMixerScript(n) ==
  LET Volume(i) == <<i, "volume">>
      Muting(i) == <<i, "muting">>
      half == MixMax \div 2
      Muted(i)   == Check(Muting(i), 1) \o Check(Volume(i), -half)
      Unmuted(i) == Check(Muting(i), 0) \o Check(Volume(i), half)
  IN  Each(n, LAMBDA i : Unsync(i) \o Set(<<i, "power">>, 1))
      \o Each(n, LAMBDA i :
           MixerScript(Volume(i))
           \o Save(Volume(i)) \o Set(Volume(i), half)
           \o Toggle(Muting(i)) \o Muted(i) \o Toggle(Muting(i)) \o Unmuted(i)
           \o Set(Muting(i), 1) \o Muted(i) \o Set(Muting(i), 0) \o Unmuted(i)
           \o Restore(Volume(i))
           \o Step("model", <<i, "treble">>, 0))

\* testPlayersDisplay.
DisplayScript(n) ==
  LET Message(i) == <<i, "message">>
      Bright(i)  == <<i, "powerOnBrightness">>
      Double(i)  == <<i, "doublesize">>
  IN  Each(n, LAMBDA i : Set(<<i, "power">>, 0) \o Unsync(i) \o Set(<<i, "power">>, 1)
                         \o Step("souvenir", Double(i), 0))
      \o Each(n, LAMBDA i : Set(Message(i), 1))
      \o Each(n, LAMBDA i : Check(Message(i), 1))
      \o Wait
      \o Each(n, LAMBDA i : Check(Message(i), 0) \o Step("ifSouvenir", Double(i), 0))
      \o Each(n, LAMBDA i :
           Save(Bright(i)) \o Set(Bright(i), 4) \o Check(Bright(i), 4)
           \o Lower(Bright(i)) \o Lower(Bright(i)) \o Check(Bright(i), 2)
           \o Restore(Bright(i)) \o Known)

\* __testDatabaseRescanNotif: every query tells that a scan is going on.
NotifScript(n) == Times(2 + n, Plain("scanning"))

\* testDatabaseRescan.
RescanScript(n) ==
  LET Note    == Step("note", <<0, "songs">>, 0) \o Step("note", <<0, "playlists">>, 0)
      Compare == Step("compare", <<0, "songs">>, 0) \o Step("compare", <<0, "playlists">>, 0)
  IN  Wipe \o NotifScript(n) \o WaitDone \o Note
      \o Wipe \o NotifScript(n) \o WaitDone \o Compare
      \o Rescan \o NotifScript(n) \o WaitDone \o Compare
      \o Plain("ifPlaylists")
      \o Wipe \o NotifScript(n) \o Wipe \o NotifScript(n) \o WaitDone

\* The part of testDatabaseRescan that only a server with playlists runs.
RescanPlaylistsScript(n) ==
  Rescan \o NotifScript(n) \o WaitDone
  \o Step("compare", <<0, "songs">>, 0) \o Step("compare", <<0, "playlists">>, 0)

\* testDatabaseTitles.
TitlesScript ==
  Plain("dump") \o Plain("count") \o (IF Searches = 0 THEN <<>> ELSE Plain("draw"))
  \o Plain("tag") \o Plain("sort")

\* testDatabaseSonginfo.
SonginfoScript == Plain("dump") \o Plain("data") \o Plain("tagInfo")
=============================================================================
