-------------------------- MODULE CliSessionProofs --------------------------
(***************************************************************************)
(* CLIent: what its variables hold, and that no test is left without a     *)
(* verdict, for every plan, every server and every loss of a connection;   *)
(* and, as long as none is lost, that no test blames a server which does   *)
(* what is expected, that security changes in its own test alone and that  *)
(* the settings are restored; the last three for players that the mixer's  *)
(* test, if a plan has it, finds with their sound on.                      *)
(***************************************************************************)
EXTENDS CliSure, SequenceTheorems, WellFoundedInduction, TLAPS

-----------------------------------------------------------------------------
(* Sequences of sequences.                                                 *)

LEMMA Least ==
  ASSUME NEW S \in SUBSET Nat, S # {}
  PROVE  \E n \in S : \A m \in S : n <= m
<1> DEFINE R == OpToRel(<, Nat)
<1>1. \A x, y \in Nat : y < x => <<y, x>> \in R
  BY DEF OpToRel
<1>2. IsWellFoundedOn(R, Nat)
  BY NatLessThanWellFounded
<1> HIDE DEF R
<1>3. PICK n \in S : \A m \in S : <<m, n>> \notin R
  BY <1>2, WFMin
<1>4. \A m \in S : ~(m < n)
  BY <1>1, <1>3
<1> QED
  BY <1>4

\* One step of FlattenSeq, from what comes before.
Joined(ss, i, before) == IF i = 1 THEN ss[i] ELSE before \o ss[i]

LEMMA FlatExists ==
  ASSUME NEW ss, NEW len \in Nat
  PROVE  \E flat : flat = [i \in 1 .. len |-> Joined(ss, i, flat[i - 1])]
<1> DEFINE Walk(v, l) == [i \in 1 .. l |-> Joined(ss, i, v[i - 1])]
           Not == {l \in Nat : ~ \E v : v = Walk(v, l)}
<1>1. SUFFICES ASSUME len \in Not PROVE FALSE
  OBVIOUS
<1>2. PICK l \in Not : \A m \in Not : l <= m
  <2>1. Not \in SUBSET Nat
    OBVIOUS
  <2> HIDE DEF Not
  <2> QED
    BY <1>1, <2>1, Least
<1>3. PICK w : l # 0 => w = Walk(w, l - 1)
  <2>1. CASE l = 0
    BY <2>1
  <2>2. CASE l # 0
    <3>1. l - 1 \in Nat /\ ~(l <= l - 1)
      BY <2>2
    <3>2. l - 1 \notin Not
      <4> HIDE DEF Not
      <4> QED
        BY <1>2, <3>1
    <3>3. \E v : v = Walk(v, l - 1)
      <4> HIDE DEF Walk
      <4> QED
        BY <3>1, <3>2
    <3> QED
      BY <3>3
  <2> QED
    BY <2>1, <2>2
<1>4. ASSUME NEW i \in 1 .. l PROVE Joined(ss, i, w[i - 1]) = Joined(ss, i, Walk(w, l)[i - 1])
  <2>1. CASE i = 1
    BY <2>1 DEF Joined
  <2>2. CASE i # 1
    <3>1. i - 1 \in 1 .. l - 1 /\ i - 1 \in 1 .. l /\ l # 0
      BY <2>2
    <3>2. w[i - 1] = Walk(w, l - 1)[i - 1]
      BY <1>3, <3>1
    <3>3. w[i - 1] = Walk(w, l)[i - 1]
      BY <3>1, <3>2
    <3> HIDE DEF Walk
    <3> QED
      BY <3>3
  <2> QED
    BY <2>1, <2>2
<1>5. Walk(w, l) = Walk(Walk(w, l), l)
  BY <1>4
<1>6. l \notin Not
  <2> HIDE DEF Walk
  <2> QED
    BY <1>5
<1> QED
  BY <1>2, <1>6

\* FlattenSeq joins the sequences one by one.
LEMMA FlatSteps ==
  ASSUME NEW ss, Len(ss) \in Nat, Len(ss) # 0
  PROVE  \E flat : /\ FlattenSeq(ss) = flat[Len(ss)]
                   /\ \A i \in 1 .. Len(ss) : flat[i] = Joined(ss, i, flat[i - 1])
<1> DEFINE flat == CHOOSE f : f = [i \in 1 .. Len(ss) |-> Joined(ss, i, f[i - 1])]
<1>1. \E f : f = [i \in 1 .. Len(ss) |-> Joined(ss, i, f[i - 1])]
  BY FlatExists
<1>2. flat = [i \in 1 .. Len(ss) |-> Joined(ss, i, flat[i - 1])]
  BY <1>1
<1>3. FlattenSeq(ss) = flat[Len(ss)]
  BY DEF FlattenSeq, Joined
<1> HIDE DEF flat
<1>4. \A i \in 1 .. Len(ss) : flat[i] = Joined(ss, i, flat[i - 1])
  BY <1>2
<1> QED
  BY <1>3, <1>4

\* What two sequences joined keep, any number of them keeps.
LEMMA FlatClosed ==
  ASSUME NEW C, \A s, t \in C : s \o t \in C, NEW ss, Len(ss) \in Nat \ {0},
         \A i \in 1 .. Len(ss) : ss[i] \in C
  PROVE  FlattenSeq(ss) \in C
<1>1. PICK flat : /\ FlattenSeq(ss) = flat[Len(ss)]
                  /\ \A i \in 1 .. Len(ss) : flat[i] = Joined(ss, i, flat[i - 1])
  BY FlatSteps
<1> DEFINE Not == {i \in 1 .. Len(ss) : flat[i] \notin C}
<1>2. SUFFICES ASSUME Not # {} PROVE FALSE
  BY <1>1
<1>3. PICK i \in Not : \A m \in Not : i <= m
  <2>1. Not \in SUBSET Nat
    OBVIOUS
  <2> HIDE DEF Not
  <2> QED
    BY <1>2, <2>1, Least
<1>4. i \in 1 .. Len(ss) /\ flat[i] = Joined(ss, i, flat[i - 1]) /\ flat[i] \notin C /\ ss[i] \in C
  BY <1>1
<1>5. i # 1
  BY <1>4 DEF Joined
<1>6. i - 1 \in 1 .. Len(ss) /\ ~(i <= i - 1)
  BY <1>4, <1>5
<1>7. flat[i - 1] \in C
  BY <1>3, <1>6
<1> QED
  BY <1>4, <1>5, <1>7 DEF Joined

LEMMA FlatType ==
  ASSUME NEW S, NEW ss, Len(ss) \in Nat, \A i \in 1 .. Len(ss) : ss[i] \in Seq(S),
         Len(ss) = 0 => ss = <<>>
  PROVE  FlattenSeq(ss) \in Seq(S)
<1>1. CASE Len(ss) = 0
  BY <1>1 DEF FlattenSeq
<1>2. CASE Len(ss) # 0
  BY <1>2, ConcatProperties, FlatClosed
<1> QED
  BY <1>1, <1>2

\* Every element of the parts is in the whole.
LEMMA FlatHas ==
  ASSUME NEW S, NEW ss, Len(ss) \in Nat, \A i \in 1 .. Len(ss) : ss[i] \in Seq(S),
         NEW n \in 1 .. Len(ss), NEW k \in 1 .. Len(ss[n])
  PROVE  \E j \in 1 .. Len(FlattenSeq(ss)) : FlattenSeq(ss)[j] = ss[n][k]
<1>1. PICK flat : /\ FlattenSeq(ss) = flat[Len(ss)]
                  /\ \A i \in 1 .. Len(ss) : flat[i] = Joined(ss, i, flat[i - 1])
  BY FlatSteps
<1> DEFINE Has(s) == \E j \in 1 .. Len(s) : s[j] = ss[n][k]
           Good(i) == flat[i] \in Seq(S) /\ (n <= i => Has(flat[i]))
           Not == {i \in 1 .. Len(ss) : ~Good(i)}
<1>2. SUFFICES ASSUME Not # {} PROVE FALSE
  BY <1>1
<1>3. PICK i \in Not : \A m \in Not : i <= m
  <2>1. Not \in SUBSET Nat
    OBVIOUS
  <2> HIDE DEF Not
  <2> QED
    BY <1>2, <2>1, Least
<1>4. i \in 1 .. Len(ss) /\ flat[i] = Joined(ss, i, flat[i - 1]) /\ ~Good(i) /\ ss[i] \in Seq(S)
  BY <1>1
<1>5. i # 1
  BY <1>4 DEF Joined
<1>6. i - 1 \in 1 .. Len(ss) /\ ~(i <= i - 1) /\ (n <= i => n = i \/ n <= i - 1)
  BY <1>4, <1>5
<1>7. Good(i - 1)
  <2> HIDE DEF Good
  <2> QED
    BY <1>3, <1>6
<1>8. flat[i] = flat[i - 1] \o ss[i]
  BY <1>4, <1>5 DEF Joined
<1> DEFINE f == flat[i - 1]
           s == ss[i]
<1>9. f \in Seq(S) /\ s \in Seq(S) /\ flat[i] = f \o s /\ (n <= i => n = i \/ Has(f))
  BY <1>4, <1>6, <1>7, <1>8
<1> HIDE DEF f
<1>10. /\ f \o s \in Seq(S) /\ Len(f \o s) = Len(f) + Len(s) /\ Len(f) \in Nat /\ Len(s) \in Nat
       /\ \A j \in 1 .. Len(f) : (f \o s)[j] = f[j]
       /\ \A j \in 1 .. Len(s) : (f \o s)[Len(f) + j] = s[j]
  BY <1>9, ConcatProperties
<1>11. n = i => Has(f \o s)
  <2>1. \A j \in 1 .. Len(s) : Len(f) + j \in 1 .. Len(f \o s)
    BY <1>10
  <2> QED
    BY <1>10, <2>1
<1>12. Has(f) => Has(f \o s)
  <2>1. \A j \in 1 .. Len(f) : j \in 1 .. Len(f \o s)
    BY <1>10
  <2> QED
    BY <1>10, <2>1
<1> QED
  BY <1>4, <1>9, <1>10, <1>11, <1>12

-----------------------------------------------------------------------------
(* The steps of the scripts.                                               *)


LEMMA OneStep ==
  ASSUME NEW ops, NEW op \in ops, NEW x \in Subject, NEW v \in Int
  PROVE  /\ Step(op, x, v) \in Seq(StepOf(ops))
         /\ Len(Step(op, x, v)) = 1 /\ Step(op, x, v)[1].op = op /\ Step(op, x, v)[1].x = x
BY DEF Step, StepOf

LEMMA PlainStep ==
  ASSUME NEW ops, NEW op \in ops
  PROVE  /\ Plain(op) \in Seq(StepOf(ops))
         /\ Len(Plain(op)) = 1 /\ Plain(op)[1].op = op
<1> DEFINE x == <<0, "">>
<1>1. x \in Subject
  BY DEF Topic, Subject
<1> HIDE DEF x
<1>2. /\ Step(op, x, 0) \in Seq(StepOf(ops))
      /\ Len(Step(op, x, 0)) = 1 /\ Step(op, x, 0)[1].op = op
  BY <1>1, OneStep
<1> QED
  BY <1>2 DEF Plain, x

LEMMA ScriptStep ==
  ASSUME NEW op \in ScriptOps, NEW x \in Subject, NEW v \in Int
  PROVE  Step(op, x, v) \in Scripts /\ (op \in JudgeOps => Step(op, x, v) \in Telling)
<1> DEFINE s == Step(op, x, v)
<1>1. s \in Scripts /\ Len(s) = 1 /\ s[1].op = op
  BY OneStep DEF Scripts
<1> HIDE DEF s
<1>2. op \in JudgeOps => s \in Telling
  <2>1. 1 \in 1 .. Len(s)
    BY <1>1
  <2> QED
    BY <1>1, <2>1 DEF Telling, Judges
<1> QED
  BY <1>1, <1>2 DEF s

LEMMA ScriptPlain ==
  ASSUME NEW op \in ScriptOps
  PROVE  Plain(op) \in Scripts /\ (op \in JudgeOps => Plain(op) \in Telling)
<1> DEFINE s == Plain(op)
<1>1. s \in Scripts /\ Len(s) = 1 /\ s[1].op = op
  BY PlainStep DEF Scripts
<1> HIDE DEF s
<1>2. op \in JudgeOps => s \in Telling
  <2>1. 1 \in 1 .. Len(s)
    BY <1>1
  <2> QED
    BY <1>1, <2>1 DEF Telling, Judges
<1> QED
  BY <1>1, <1>2 DEF s

LEMMA ScriptJoin ==
  ASSUME NEW s \in Scripts, NEW t \in Scripts
  PROVE  s \o t \in Scripts /\ (s \in Telling \/ t \in Telling => s \o t \in Telling)
<1>1. /\ s \o t \in Scripts /\ Len(s \o t) = Len(s) + Len(t) /\ Len(s) \in Nat /\ Len(t) \in Nat
      /\ \A j \in 1 .. Len(s) : (s \o t)[j] = s[j] /\ j \in 1 .. Len(s \o t)
      /\ \A j \in 1 .. Len(t) : (s \o t)[Len(s) + j] = t[j] /\ Len(s) + j \in 1 .. Len(s \o t)
  BY ConcatProperties DEF Scripts
<1>2. s \in Telling => Judges(s \o t)
  BY <1>1 DEF Telling, Judges
<1>3. t \in Telling => Judges(s \o t)
  BY <1>1 DEF Telling, Judges
<1> QED
  BY <1>1, <1>2, <1>3 DEF Telling

LEMMA ScriptEmpty == <<>> \in Scripts
BY DEF Scripts

\* A loop over the players.
LEMMA ScriptFlat ==
  ASSUME NEW n \in Nat, NEW ss, ss = [i \in 1 .. n |-> ss[i]], \A i \in 1 .. n : ss[i] \in Scripts
  PROVE  /\ FlattenSeq(ss) \in Scripts
         /\ n > 0 /\ (\A i \in 1 .. n : ss[i] \in Telling) => FlattenSeq(ss) \in Telling
<1>1. Len(ss) = n /\ (n = 0 => ss = <<>>)
  OBVIOUS
<1>2. FlattenSeq(ss) \in Scripts
  BY <1>1, FlatType DEF Scripts
<1>3. ASSUME n > 0, \A i \in 1 .. n : ss[i] \in Telling PROVE FlattenSeq(ss) \in Telling
  <2>1. \A s, t \in Telling : s \o t \in Telling
    BY ScriptJoin DEF Telling
  <2> QED
    BY <1>1, <1>3, <2>1, FlatClosed
<1> QED
  BY <1>2, <1>3

-----------------------------------------------------------------------------
(* The scripts.                                                            *)

LEMMA Exchanges ==
  ASSUME NEW x \in Subject
  PROVE  /\ Toggle(x) \in Scripts /\ Lower(x) \in Scripts /\ Save(x) \in Scripts
         /\ Restore(x) \in Scripts /\ NotZero(x) \in Telling
<1>1. 0 \in Int /\ {"toggle", "lower", "save", "restore", "notZero"} \subseteq ScriptOps
      /\ "notZero" \in JudgeOps
  BY DEF ScriptOps, JudgeOps, OtherOps
<1> QED
  BY <1>1, ScriptStep DEF Toggle, Lower, Save, Restore, NotZero

LEMMA Values ==
  ASSUME NEW x \in Subject, NEW v \in Int
  PROVE  Set(x, v) \in Scripts /\ Check(x, v) \in Telling /\ AtMost(x, v) \in Telling
<1>1. {"set", "check", "atMost"} \subseteq ScriptOps /\ {"check", "atMost"} \subseteq JudgeOps
  BY DEF ScriptOps, JudgeOps, OtherOps
<1> QED
  BY <1>1, ScriptStep DEF Set, Check, AtMost

LEMMA PlainOps ==
  /\ \A op \in JudgeOps : Plain(op) \in Telling
  /\ \A op \in OtherOps : Plain(op) \in Scripts
  /\ Known \in Telling /\ Skip \in Telling
  /\ Wait \in Scripts /\ Wipe \in Scripts /\ Rescan \in Scripts /\ WaitDone \in Scripts
<1>1. /\ \A op \in JudgeOps : Plain(op) \in Telling
      /\ \A op \in OtherOps : Plain(op) \in Scripts
  BY ScriptPlain DEF ScriptOps
<1>2. {"known", "skip"} \subseteq JudgeOps
      /\ {"wait", "wipecache", "rescan", "waitDone"} \subseteq OtherOps
  BY DEF JudgeOps, OtherOps
<1> QED
  BY <1>1, <1>2 DEF Known, Skip, Wait, Wipe, Rescan, WaitDone

LEMMA TellingType == Telling \subseteq Scripts
BY DEF Telling

LEMMA ScriptTimes ==
  ASSUME NEW n \in Nat, NEW s \in Scripts
  PROVE  Times(n, s) \in Scripts /\ (n > 0 /\ s \in Telling => Times(n, s) \in Telling)
BY ScriptFlat DEF Times

LEMMA GeneralType == GeneralScript \in Telling
<1> DEFINE d == <<0, "d_cli">>
           c == <<0, "composerInArtists">>
<1>1. d \in Subject /\ c \in Subject
  BY DEF Setting, Pref, Subject
<1>2. Known \in Telling /\ Known \in Scripts /\ Times(4, Known) \in Scripts
  BY PlainOps, TellingType, ScriptTimes
<1> HIDE DEF d, c
<1>3. \A x \in {d, c} : /\ Save(x) \in Scripts /\ Toggle(x) \in Scripts /\ Restore(x) \in Scripts
                        /\ \A v \in {0, 1} : Set(x, v) \in Scripts /\ Check(x, v) \in Scripts
  BY <1>1, Exchanges, Values, TellingType
<1> QED
  BY <1>2, <1>3, ScriptJoin DEF GeneralScript, d, c

\* The settings of the players that are listed.
LEMMA PlayerSettings ==
  ASSUME NEW n \in 0 .. Players, NEW a \in Attr
  PROVE  n \in Nat /\ \A i \in 1 .. n : <<i, a>> \in Subject
BY ServerAssumption DEF Subject, Setting

\* The loops over the players that set or check one setting.
LEMMA Loops ==
  ASSUME NEW n \in 0 .. Players, NEW a \in Attr, NEW v \in Int
  PROVE  /\ FlattenSeq([i \in 1 .. n |-> Set(<<i, a>>, v)]) \in Scripts
         /\ FlattenSeq([i \in 1 .. n |-> Toggle(<<i, a>>)]) \in Scripts
         /\ FlattenSeq([i \in 1 .. n |-> Check(<<i, a>>, v)]) \in Scripts
         /\ FlattenSeq([i \in 1 .. n |-> AtMost(<<i, a>>, v)]) \in Scripts
         /\ n > 0 => FlattenSeq([i \in 1 .. n |-> Check(<<i, a>>, v)]) \in Telling
<1>1. n \in Nat /\ \A i \in 1 .. n : <<i, a>> \in Subject
  BY PlayerSettings
<1>2. FlattenSeq([i \in 1 .. n |-> Set(<<i, a>>, v)]) \in Scripts
  BY <1>1, Values, ScriptFlat
<1>3. FlattenSeq([i \in 1 .. n |-> Toggle(<<i, a>>)]) \in Scripts
  BY <1>1, Exchanges, ScriptFlat
<1>4. /\ FlattenSeq([i \in 1 .. n |-> Check(<<i, a>>, v)]) \in Scripts
      /\ n > 0 => FlattenSeq([i \in 1 .. n |-> Check(<<i, a>>, v)]) \in Telling
  BY <1>1, Values, TellingType, ScriptFlat
<1>5. FlattenSeq([i \in 1 .. n |-> AtMost(<<i, a>>, v)]) \in Scripts
  BY <1>1, Values, TellingType, ScriptFlat
<1> QED
  BY <1>2, <1>3, <1>4, <1>5

LEMMA UnsyncType ==
  ASSUME NEW n \in 0 .. Players
  PROVE  /\ \A i \in 1 .. n : Unsync(i) \in Scripts
         /\ \A v \in {0, 1} :
              FlattenSeq([i \in 1 .. n |-> Unsync(i) \o Set(<<i, "power">>, v)]) \in Scripts
<1>1. /\ n \in Nat /\ 0 \in Int
      /\ \A i \in 1 .. n : <<i, "sync">> \in Subject /\ <<i, "power">> \in Subject
  BY PlayerSettings DEF Attr
<1>2. \A i \in 1 .. n : Unsync(i) \in Scripts
  BY <1>1, Values DEF Unsync
<1>3. ASSUME NEW v \in {0, 1}
      PROVE  FlattenSeq([i \in 1 .. n |-> Unsync(i) \o Set(<<i, "power">>, v)]) \in Scripts
  <2> DEFINE Off(i) == Unsync(i) \o Set(<<i, "power">>, v)
  <2>1. ASSUME NEW i \in 1 .. n PROVE Off(i) \in Scripts
    <3>1. <<i, "power">> \in Subject
      BY <1>1
    <3>2. Set(<<i, "power">>, v) \in Scripts
      <4>1. v \in Int
        OBVIOUS
      <4> QED
        BY <3>1, <4>1, Values
    <3> QED
      BY <1>2, <3>2, ScriptJoin
  <2> HIDE DEF Off
  <2>2. FlattenSeq([i \in 1 .. n |-> Off(i)]) \in Scripts
    BY <1>1, <2>1, ScriptFlat
  <2> QED
    BY <2>2 DEF Off
<1> QED
  BY <1>2, <1>3

LEMMA PowerType ==
  ASSUME NEW n \in 0 .. Players
  PROVE  PowerScript(n) \in Scripts /\ (n > 0 => PowerScript(n) \in Telling)
<1>1. "power" \in Attr
  BY DEF Attr
<1>2. ASSUME NEW v \in {0, 1}
      PROVE  /\ FlattenSeq([i \in 1 .. n |-> Set(<<i, "power">>, v)]) \in Scripts
             /\ FlattenSeq([i \in 1 .. n |-> Check(<<i, "power">>, v)]) \in Scripts
             /\ n > 0 => FlattenSeq([i \in 1 .. n |-> Check(<<i, "power">>, v)]) \in Telling
             /\ FlattenSeq([i \in 1 .. n |-> Toggle(<<i, "power">>)]) \in Scripts
  <2>1. v \in Int
    OBVIOUS
  <2> QED
    BY <1>1, <2>1, Loops
<1>3. FlattenSeq([i \in 1 .. n |-> Unsync(i) \o Set(<<i, "power">>, 0)]) \in Scripts
  BY UnsyncType
<1> QED
  BY <1>2, <1>3, ScriptJoin DEF PowerScript, Each

LEMMA SleepType ==
  ASSUME NEW n \in 0 .. Players
  PROVE  SleepScript(n) \in Scripts /\ (n > 0 => SleepScript(n) \in Telling)
<1>1. "power" \in Attr /\ "sleep" \in Attr /\ "volume" \in Attr /\ n \in Nat
  BY PlayerSettings DEF Attr
<1> DEFINE half == MixMax \div 2
           P(i) == <<i, "power">>
           S(i) == <<i, "sleep">>
           V(i) == <<i, "volume">>
<1>2. half \in Int
  BY ScriptAssumption
<1>3. \A i \in 1 .. n : P(i) \in Subject /\ S(i) \in Subject /\ V(i) \in Subject
  BY <1>1, PlayerSettings
<1> DEFINE Begin(i)    == Set(P(i), 1) \o Unsync(i) \o Set(V(i), half) \o Set(S(i), 3)
           Count(k, i) == AtMost(S(i), k) \o NotZero(S(i))
           End(i)      == Check(S(i), 0) \o Check(P(i), 0)
           Again(i)    == Set(P(i), 1) \o Set(S(i), 3)
<1>4. ASSUME NEW i \in 1 .. n
      PROVE  /\ Begin(i) \in Scripts /\ Again(i) \in Scripts /\ End(i) \in Telling /\ End(i) \in Scripts
             /\ \A k \in {1, 2, 3} : Count(k, i) \in Scripts
  <2> HIDE DEF half, P, S, V
  <2>1. P(i) \in Subject /\ S(i) \in Subject /\ V(i) \in Subject
    BY <1>3
  <2>2. Set(P(i), 1) \in Scripts /\ Set(V(i), half) \in Scripts /\ Set(S(i), 3) \in Scripts
    BY <1>2, <2>1, Values
  <2>4. Unsync(i) \in Scripts
    BY UnsyncType
  <2>3. /\ Check(S(i), 0) \in Scripts /\ Check(P(i), 0) \in Scripts /\ Check(S(i), 0) \in Telling
        /\ \A k \in {1, 2, 3} : AtMost(S(i), k) \in Scripts
        /\ NotZero(S(i)) \in Scripts
    BY <2>1, Values, Exchanges, TellingType
  <2> QED
    BY <2>2, <2>3, <2>4, ScriptJoin
<1> HIDE DEF Begin, Count, End, Again
<1>5. FlattenSeq([i \in 1 .. n |-> Begin(i)]) \in Scripts
  BY <1>1, <1>4, ScriptFlat
<1>6. ASSUME NEW k \in {1, 2, 3} PROVE FlattenSeq([i \in 1 .. n |-> Count(k, i)]) \in Scripts
  BY <1>1, <1>4, ScriptFlat
<1>7. /\ FlattenSeq([i \in 1 .. n |-> End(i)]) \in Scripts
      /\ n > 0 => FlattenSeq([i \in 1 .. n |-> End(i)]) \in Telling
  BY <1>1, <1>4, ScriptFlat
<1>8. FlattenSeq([i \in 1 .. n |-> Again(i)]) \in Scripts
  BY <1>1, <1>4, ScriptFlat
<1>9. /\ FlattenSeq([i \in 1 .. n |-> AtMost(S(i), 3)]) \in Scripts
      /\ FlattenSeq([i \in 1 .. n |-> Set(P(i), 0)]) \in Scripts
      /\ FlattenSeq([i \in 1 .. n |-> Set(P(i), 1)]) \in Scripts
      /\ FlattenSeq([i \in 1 .. n |-> Check(S(i), 0)]) \in Scripts
  <2>1. 0 \in Int /\ 1 \in Int /\ 3 \in Int
    OBVIOUS
  <2> QED
    BY <1>1, <2>1, Loops
<1>10. Wait \in Scripts
  BY PlainOps
<1>11. /\ FlattenSeq([i \in 1 .. n |-> Count(1, i)]) \in Scripts
       /\ FlattenSeq([i \in 1 .. n |-> Count(2, i)]) \in Scripts
       /\ FlattenSeq([i \in 1 .. n |-> Count(3, i)]) \in Scripts
  BY <1>6
<1> QED
  BY <1>5, <1>7, <1>8, <1>9, <1>10, <1>11, ScriptJoin
     DEF SleepScript, Each, Begin, Count, End, Again

LEMMA MixerType ==
  ASSUME NEW x \in Subject PROVE MixerScript(x) \in Telling
<1>1. /\ {"mixAbs", "mixUp", "mixDown", "checkMix"} \subseteq ScriptOps /\ "checkMix" \in JudgeOps
      /\ 0 \in Int
  BY DEF ScriptOps, JudgeOps, OtherOps
<1>2. /\ Step("mixAbs", x, 0) \in Scripts /\ Step("mixUp", x, 0) \in Scripts
      /\ Step("mixDown", x, 0) \in Scripts
      /\ Step("checkMix", x, 0) \in Telling /\ Step("checkMix", x, 0) \in Scripts
  BY <1>1, ScriptStep
<1>3. Save(x) \in Scripts /\ Restore(x) \in Scripts
  BY Exchanges
<1> QED
  BY <1>2, <1>3, ScriptJoin DEF MixerScript

LEMMA PlayersMixerType ==
  ASSUME NEW n \in 0 .. Players
  PROVE  PlayersMixerScript(n) \in Scripts /\ (n > 0 => PlayersMixerScript(n) \in Telling)
<1>1. /\ "power" \in Attr /\ "muting" \in Attr /\ "volume" \in Attr /\ "treble" \in Attr
      /\ n \in Nat /\ 1 \in Int
  BY PlayerSettings DEF Attr
<1> DEFINE half == MixMax \div 2
           V(i) == <<i, "volume">>
           M(i) == <<i, "muting">>
           T(i) == <<i, "treble">>
<1>2. half \in Int /\ -half \in Int /\ "model" \in ScriptOps
  BY ScriptAssumption DEF ScriptOps, OtherOps
<1>3. \A i \in 1 .. n : V(i) \in Subject /\ M(i) \in Subject /\ T(i) \in Subject
  BY <1>1, PlayerSettings
<1> DEFINE Muted(i)   == Check(M(i), 1) \o Check(V(i), -half)
           Unmuted(i) == Check(M(i), 0) \o Check(V(i), half)
           Player(i)  == MixerScript(V(i))
                         \o Save(V(i)) \o Set(V(i), half)
                         \o Toggle(M(i)) \o Muted(i) \o Toggle(M(i)) \o Unmuted(i)
                         \o Set(M(i), 1) \o Muted(i) \o Set(M(i), 0) \o Unmuted(i)
                         \o Restore(V(i)) \o Step("model", T(i), 0)
<1>4. ASSUME NEW i \in 1 .. n PROVE Player(i) \in Telling /\ Player(i) \in Scripts
  <2> HIDE DEF half, V, M, T
  <2>1. V(i) \in Subject /\ M(i) \in Subject /\ T(i) \in Subject
    BY <1>3
  <2>2. Muted(i) \in Scripts /\ Unmuted(i) \in Scripts
    BY <1>2, <2>1, Values, TellingType, ScriptJoin
  <2>3. /\ Save(V(i)) \in Scripts /\ Toggle(M(i)) \in Scripts /\ Restore(V(i)) \in Scripts
        /\ MixerScript(V(i)) \in Telling /\ MixerScript(V(i)) \in Scripts
    BY <2>1, Exchanges, MixerType, TellingType
  <2>4. Set(V(i), half) \in Scripts /\ Set(M(i), 1) \in Scripts /\ Set(M(i), 0) \in Scripts
    BY <1>2, <2>1, Values
  <2>5. Step("model", T(i), 0) \in Scripts
    BY <1>2, <2>1, ScriptStep
  <2> HIDE DEF Muted, Unmuted
  <2> QED
    BY <2>2, <2>3, <2>4, <2>5, ScriptJoin
<1>5. /\ FlattenSeq([i \in 1 .. n |-> Player(i)]) \in Scripts
      /\ n > 0 => FlattenSeq([i \in 1 .. n |-> Player(i)]) \in Telling
  <2> HIDE DEF Player
  <2> QED
    BY <1>1, <1>4, ScriptFlat
<1>6. FlattenSeq([i \in 1 .. n |-> Unsync(i) \o Set(<<i, "power">>, 1)]) \in Scripts
  BY UnsyncType
<1> QED
  BY <1>5, <1>6, ScriptJoin DEF PlayersMixerScript, Each

LEMMA DisplayType ==
  ASSUME NEW n \in 0 .. Players
  PROVE  DisplayScript(n) \in Scripts /\ (n > 0 => DisplayScript(n) \in Telling)
<1>1. /\ "power" \in Attr /\ "message" \in Attr /\ "powerOnBrightness" \in Attr
      /\ "doublesize" \in Attr /\ n \in Nat /\ 0 \in Int /\ 1 \in Int
  BY PlayerSettings DEF Attr
<1> DEFINE P(i) == <<i, "power">>
           M(i) == <<i, "message">>
           B(i) == <<i, "powerOnBrightness">>
           D(i) == <<i, "doublesize">>
<1>2. \A i \in 1 .. n : P(i) \in Subject /\ M(i) \in Subject /\ B(i) \in Subject /\ D(i) \in Subject
  BY <1>1, PlayerSettings
<1> DEFINE On(i)     == Set(P(i), 0) \o Unsync(i) \o Set(P(i), 1) \o Step("souvenir", D(i), 0)
           Gone(i)   == Check(M(i), 0) \o Step("ifSouvenir", D(i), 0)
           Bright(i) == Save(B(i)) \o Set(B(i), 4) \o Check(B(i), 4)
                        \o Lower(B(i)) \o Lower(B(i)) \o Check(B(i), 2)
                        \o Restore(B(i)) \o Known
<1>3. ASSUME NEW i \in 1 .. n
      PROVE  /\ On(i) \in Scripts /\ Gone(i) \in Scripts
             /\ Bright(i) \in Telling /\ Bright(i) \in Scripts
  <2> HIDE DEF P, M, B, D
  <2>1. P(i) \in Subject /\ M(i) \in Subject /\ B(i) \in Subject /\ D(i) \in Subject
    BY <1>2
  <2>2. Set(P(i), 0) \in Scripts /\ Set(P(i), 1) \in Scripts /\ Set(B(i), 4) \in Scripts
    BY <2>1, Values
  <2>7. Unsync(i) \in Scripts
    BY UnsyncType
  <2>3. "souvenir" \in ScriptOps /\ "ifSouvenir" \in ScriptOps
    BY DEF ScriptOps, OtherOps
  <2>4. Step("souvenir", D(i), 0) \in Scripts /\ Step("ifSouvenir", D(i), 0) \in Scripts
    BY <2>1, <2>3, ScriptStep
  <2>5. /\ Check(M(i), 0) \in Scripts /\ Check(B(i), 4) \in Scripts /\ Check(B(i), 2) \in Scripts
    BY <2>1, Values, TellingType
  <2>6. /\ Save(B(i)) \in Scripts /\ Lower(B(i)) \in Scripts /\ Restore(B(i)) \in Scripts
        /\ Known \in Telling /\ Known \in Scripts
    BY <2>1, Exchanges, PlainOps, TellingType
  <2> QED
    BY <2>2, <2>4, <2>5, <2>6, <2>7, ScriptJoin
<1> HIDE DEF On, Gone, Bright
<1>4. FlattenSeq([i \in 1 .. n |-> On(i)]) \in Scripts
  BY <1>1, <1>3, ScriptFlat
<1>5. FlattenSeq([i \in 1 .. n |-> Gone(i)]) \in Scripts
  BY <1>1, <1>3, ScriptFlat
<1>6. /\ FlattenSeq([i \in 1 .. n |-> Bright(i)]) \in Scripts
      /\ n > 0 => FlattenSeq([i \in 1 .. n |-> Bright(i)]) \in Telling
  BY <1>1, <1>3, ScriptFlat
<1>7. /\ FlattenSeq([i \in 1 .. n |-> Set(M(i), 1)]) \in Scripts
      /\ FlattenSeq([i \in 1 .. n |-> Check(M(i), 1)]) \in Scripts
  BY <1>1, Loops
<1>8. Wait \in Scripts
  BY PlainOps
<1> QED
  BY <1>4, <1>5, <1>6, <1>7, <1>8, ScriptJoin DEF DisplayScript, Each, On, Gone, Bright

LEMMA NotifType == ASSUME NEW n \in Nat PROVE NotifScript(n) \in Telling /\ NotifScript(n) \in Scripts
<1>1. "scanning" \in JudgeOps /\ 2 + n \in Nat /\ 2 + n > 0
  BY DEF JudgeOps
<1>2. Plain("scanning") \in Telling /\ Plain("scanning") \in Scripts
  BY <1>1, PlainOps, TellingType
<1> QED
  BY <1>1, <1>2, ScriptTimes, TellingType DEF NotifScript

LEMMA TotalSteps ==
  /\ Step("note", <<0, "songs">>, 0) \in Scripts /\ Step("note", <<0, "playlists">>, 0) \in Scripts
  /\ Step("compare", <<0, "songs">>, 0) \in Scripts
  /\ Step("compare", <<0, "playlists">>, 0) \in Scripts
<1> DEFINE s == <<0, "songs">>
           p == <<0, "playlists">>
<1>1. s \in Topic /\ p \in Topic
  BY DEF Topic
<1> HIDE DEF s, p
<1>2. s \in Subject /\ p \in Subject /\ 0 \in Int
  BY <1>1 DEF Subject
<1>3. "note" \in ScriptOps /\ "compare" \in ScriptOps
  BY DEF ScriptOps, JudgeOps, OtherOps
<1>4. /\ Step("note", s, 0) \in Scripts /\ Step("note", p, 0) \in Scripts
      /\ Step("compare", s, 0) \in Scripts /\ Step("compare", p, 0) \in Scripts
  BY <1>2, <1>3, ScriptStep
<1> QED
  BY <1>4 DEF s, p

LEMMA RescanPlaylistsType ==
  ASSUME NEW n \in Nat PROVE RescanPlaylistsScript(n) \in Telling /\ RescanPlaylistsScript(n) \in Scripts
<1>1. Rescan \in Scripts /\ WaitDone \in Scripts /\ NotifScript(n) \in Telling /\ NotifScript(n) \in Scripts
  BY PlainOps, NotifType
<1> QED
  BY <1>1, TotalSteps, ScriptJoin DEF RescanPlaylistsScript

LEMMA RescanType ==
  ASSUME NEW n \in Nat PROVE RescanScript(n) \in Telling /\ RescanScript(n) \in Scripts
<1>1. /\ Rescan \in Scripts /\ WaitDone \in Scripts /\ Wipe \in Scripts
      /\ NotifScript(n) \in Telling /\ NotifScript(n) \in Scripts
  BY PlainOps, NotifType
<1>2. Plain("ifPlaylists") \in Scripts
  BY PlainOps DEF OtherOps
<1> QED
  BY <1>1, <1>2, TotalSteps, ScriptJoin DEF RescanScript

LEMMA TitlesType == TitlesScript \in Telling /\ SonginfoScript \in Telling
<1>1. /\ "dump" \in OtherOps /\ "draw" \in OtherOps /\ "tag" \in OtherOps /\ "data" \in OtherOps
      /\ "count" \in JudgeOps /\ "sort" \in JudgeOps /\ "tagInfo" \in JudgeOps
  BY DEF OtherOps, JudgeOps
<1>2. /\ Plain("dump") \in Scripts /\ Plain("draw") \in Scripts /\ Plain("tag") \in Scripts
      /\ Plain("data") \in Scripts
      /\ Plain("count") \in Telling /\ Plain("count") \in Scripts
      /\ Plain("sort") \in Scripts /\ Plain("tagInfo") \in Telling /\ Plain("tagInfo") \in Scripts
  BY <1>1, PlainOps, TellingType
<1>3. (IF Searches = 0 THEN <<>> ELSE Plain("draw")) \in Scripts
  BY <1>2, ScriptEmpty
<1>4. TitlesScript \in Telling
  BY <1>2, <1>3, ScriptJoin DEF TitlesScript
<1>5. SonginfoScript \in Telling
  BY <1>2, ScriptJoin DEF SonginfoScript
<1> QED
  BY <1>4, <1>5

\* The parts of testConnectDisconnect that are run only if there is a connection.
LEMMA SecurityType ==
  /\ SecurityScript \in Scripts /\ LoginScript(TRUE) \in Scripts /\ LoginScript(FALSE) \in Scripts
<1> DEFINE c == authorize
           Way(how) == <<0, how>>
<1>1. c \in Subject /\ 0 \in Int /\ 1 \in Int
  BY DEF Subject, Setting, Pref, authorize
<1>2. \A how \in {"login", "nologin", "wrong"} : Way(how) \in Topic
  BY DEF Topic
<1>3. \A how \in {"login", "nologin", "wrong"} : Way(how) \in Subject
  BY <1>2 DEF Subject
<1>4. \A how \in {"login", "nologin", "wrong"} : Step("connect", Way(how), 0) \in Scripts
  <2>1. "connect" \in ScriptOps
    BY DEF ScriptOps, OtherOps
  <2> HIDE DEF Way
  <2> QED
    BY <1>1, <1>3, <2>1, ScriptStep
<1>5. Connect("login") \in Scripts /\ Connect("nologin") \in Scripts /\ Connect("wrong") \in Scripts
  BY <1>4 DEF Connect
<1>6. Judge(0) \in Scripts /\ Judge(1) \in Scripts
  <2> DEFINE x == <<0, "">>
  <2>1. x \in Topic
    BY DEF Topic
  <2> HIDE DEF x
  <2>2. x \in Subject /\ "judge" \in ScriptOps
    BY <2>1 DEF Subject, ScriptOps, JudgeOps
  <2>3. Step("judge", x, 0) \in Scripts /\ Step("judge", x, 1) \in Scripts
    BY <1>1, <2>2, ScriptStep
  <2> QED
    BY <2>3 DEF Judge, x
<1>7. /\ Plain("ifSecure") \in Scripts /\ Plain("disconnect") \in Scripts
      /\ Plain("ifConnectedFreely") \in Scripts /\ Skip \in Scripts
  BY PlainOps, TellingType DEF OtherOps
<1>8. Save(authorize) \in Scripts /\ Restore(authorize) \in Scripts /\ Set(authorize, 1) \in Scripts
  BY <1>1, Exchanges, Values
<1>9. SecurityScript \in Scripts
  BY <1>5, <1>6, <1>7, <1>8, ScriptJoin DEF SecurityScript
<1>10. Connect("wrong") \o Judge(0) \o Plain("disconnect") \in Scripts
  BY <1>5, <1>6, <1>7, ScriptJoin
<1>11. Times(3, Connect("wrong") \o Judge(0) \o Plain("disconnect")) \in Scripts
  BY <1>10, ScriptTimes
<1>12. LoginScript(TRUE) \in Scripts /\ LoginScript(FALSE) \in Scripts
  BY <1>5, <1>7, <1>8, <1>11, ScriptJoin DEF LoginScript
<1> QED
  BY <1>9, <1>12

-----------------------------------------------------------------------------
(* The program: what a test's steps are, and the shape it always has.      *)

\* Steps put in front of the others take the place of the first one.
LEMMA Pushed ==
  ASSUME todo \in Program, todo # <<>>, NEW ops, ops \subseteq AnyOps,
         NEW steps \in Seq(StepOf(ops)), todo' = steps \o Tail(todo)
  PROVE  /\ todo' \in Program /\ Len(todo) \in Nat \ {0} /\ Len(steps) \in Nat
         /\ Len(todo') = Len(steps) + Len(todo) - 1
         /\ \A k \in 1 .. Len(steps) : todo'[k] = steps[k] /\ todo'[k].op \in ops
         /\ \A k \in 2 .. Len(todo) : todo'[Len(steps) + k - 1] = todo[k]
         /\ \A k \in 1 .. Len(todo') :
              k \in 1 .. Len(steps) \/ (k - Len(steps) + 1 \in 2 .. Len(todo)
                                        /\ todo'[k] = todo[k - Len(steps) + 1])
<1> DEFINE T == Tail(todo)
           S == StepOf(AnyOps)
<1>1. StepOf(ops) \subseteq S
  BY DEF StepOf
<1>2. steps \in Seq(S)
  BY <1>1, SeqMonotonic
<1>3. todo \in Seq(S) /\ Len(todo) \in Nat \ {0}
  BY EmptySeq DEF Program
<1>4. T \in Seq(S) /\ Len(T) = Len(todo) - 1 /\ \A i \in 1 .. Len(T) : T[i] = todo[i + 1]
  BY <1>3, HeadTailProperties
<1> HIDE DEF T, S
<1>5. /\ todo' \in Seq(S) /\ Len(todo') = Len(steps) + Len(T) /\ Len(steps) \in Nat
      /\ \A i \in 1 .. Len(steps) : todo'[i] = steps[i]
      /\ \A i \in 1 .. Len(T) : todo'[Len(steps) + i] = T[i]
  BY <1>2, <1>4, ConcatProperties DEF T
<1>6. \A k \in 2 .. Len(todo) : todo'[Len(steps) + k - 1] = todo[k]
  <2> SUFFICES ASSUME NEW k \in 2 .. Len(todo) PROVE todo'[Len(steps) + k - 1] = todo[k]
    OBVIOUS
  <2>1. k - 1 \in 1 .. Len(T) /\ Len(steps) + (k - 1) = Len(steps) + k - 1 /\ k - 1 + 1 = k
    BY <1>3, <1>4, <1>5
  <2>2. T[k - 1] = todo[k]
    BY <1>4, <2>1
  <2> QED
    BY <1>5, <2>1, <2>2
<1>7. ASSUME NEW k \in 1 .. Len(todo'), k \notin 1 .. Len(steps)
      PROVE  k - Len(steps) + 1 \in 2 .. Len(todo) /\ todo'[k] = todo[k - Len(steps) + 1]
  BY <1>3, <1>4, <1>5, <1>6, <1>7
<1>8. \A k \in 1 .. Len(steps) : todo'[k].op \in ops
  <2>1. \A k \in 1 .. Len(steps) : steps[k] \in StepOf(ops)
    BY ElementOfSeq
  <2> QED
    BY <1>5, <2>1 DEF StepOf
<1> QED
  BY <1>3, <1>4, <1>5, <1>6, <1>7, <1>8 DEF Program, S

\* The shape stays.
LEMMA ShapeKept ==
  ASSUME todo \in Program, todo # <<>>, NEW ops, ops \subseteq AnyOps, ops \cap Marks = {},
         NEW steps \in Seq(StepOf(ops)), todo' = steps \o Tail(todo),
         NewsRun(todo), ReportLast(todo)
  PROVE  NewsRun(todo)' /\ ReportLast(todo)'
<1> DEFINE L == Len(steps)
           N == Len(todo)
<1>1. /\ N \in Nat \ {0} /\ L \in Nat /\ Len(todo') = L + N - 1
      /\ \A k \in 1 .. L : todo'[k].op \in ops
      /\ \A k \in 2 .. N : todo'[L + k - 1] = todo[k]
      /\ \A k \in 1 .. Len(todo') :
           k \in 1 .. L \/ (k - L + 1 \in 2 .. N /\ todo'[k] = todo[k - L + 1])
  BY Pushed, ZenonT(60)
<1>2. \A k \in 1 .. Len(todo') :
        todo'[k].op \in Marks => k - L + 1 \in 2 .. N /\ todo'[k] = todo[k - L + 1]
  BY <1>1
<1> HIDE DEF L, N
<1>3. ASSUME NEW k \in 1 .. Len(todo'), todo'[k].op = "new"
      PROVE  todo'[k].x[2] \in Test /\ RunAhead(todo', k, todo'[k].x[2])
  <2> DEFINE m == k - L + 1
             t == todo[m].x[2]
  <2>1. m \in 2 .. N /\ todo'[k] = todo[m] /\ todo[m].op = "new" /\ m \in 1 .. N
    <3>1. todo'[k].op \in Marks
      BY <1>3 DEF Marks
    <3>2. m \in 2 .. N /\ todo'[k] = todo[m]
      BY <1>2, <1>3, <3>1
    <3>3. N \in Nat
      BY <1>1
    <3> QED
      BY <1>3, <3>2, <3>3
  <2>2. t \in Test /\ RunAhead(todo, m, t)
    BY <2>1 DEF NewsRun, N
  <2>3. PICK r \in m + 1 .. N :
          /\ todo[r].op = "run" /\ \A j \in m + 1 .. r : todo[j].op \notin Marks
          /\ t \in NeedsPlayers => \E j \in m + 1 .. r - 1 : todo[j].op = "canPlayers"
    BY <2>2 DEF RunAhead, N
  <2> DEFINE q == L + r - 1
  <2>4. q \in k + 1 .. Len(todo') /\ todo'[q] = todo[r]
    <3>1. r \in 2 .. N /\ q \in k + 1 .. Len(todo')
      BY <1>1, <2>1, <2>3
    <3>2. todo'[L + r - 1] = todo[r]
      BY <1>1, <3>1
    <3> QED
      BY <3>1, <3>2
  <2>5. ASSUME NEW j \in k + 1 .. q PROVE todo'[j].op \notin Marks
    <3>1. j - L + 1 \in m + 1 .. r /\ L + (j - L + 1) - 1 = j /\ j - L + 1 \in 2 .. N
      BY <1>1, <2>1, <2>3
    <3>2. todo'[j] = todo[j - L + 1]
      BY <1>1, <3>1
    <3> QED
      BY <2>3, <3>1, <3>2
  <2>6. t \in NeedsPlayers => \E j \in k + 1 .. q - 1 : todo'[j].op = "canPlayers"
    <3> SUFFICES ASSUME t \in NeedsPlayers PROVE \E j \in k + 1 .. q - 1 : todo'[j].op = "canPlayers"
      OBVIOUS
    <3>1. PICK i \in m + 1 .. r - 1 : todo[i].op = "canPlayers"
      BY <2>3
    <3>2. L + i - 1 \in k + 1 .. q - 1 /\ i \in 2 .. N
      BY <1>1, <2>1, <2>3
    <3> QED
      BY <1>1, <3>1, <3>2
  <2> HIDE DEF m, q
  <2>7. RunAhead(todo', k, t)
    BY <2>3, <2>4, <2>5, <2>6 DEF RunAhead
  <2> QED
    BY <2>1, <2>2, <2>7
<1>4. ASSUME NEW j \in 1 .. Len(todo'), NEW k \in 1 .. Len(todo'),
             todo'[j].op = "report", todo'[k].op = "new"
      PROVE  k < j
  <2>1. /\ j - L + 1 \in 2 .. N /\ todo'[j] = todo[j - L + 1]
        /\ k - L + 1 \in 2 .. N /\ todo'[k] = todo[k - L + 1]
    BY <1>2, <1>4 DEF Marks
  <2>2. k - L + 1 < j - L + 1
    BY <1>1, <1>4, <2>1 DEF ReportLast, N
  <2> QED
    BY <1>1, <2>2
<1> QED
  BY <1>3, <1>4 DEF NewsRun, ReportLast

-----------------------------------------------------------------------------
(* The shape of the main program.                                          *)

\* Pairs of positions behind the first of two sequences are shifted by its length.
LEMMA Joint ==
  ASSUME NEW S, NEW s \in Seq(S), NEW t \in Seq(S)
  PROVE  /\ s \o t \in Seq(S) /\ Len(s) \in Nat /\ Len(t) \in Nat
         /\ Len(s \o t) = Len(s) + Len(t)
         /\ \A k \in 1 .. Len(s) : (s \o t)[k] = s[k]
         /\ \A k \in 1 .. Len(t) : (s \o t)[Len(s) + k] = t[k]
         /\ \A k \in 1 .. Len(s \o t) :
              k \in 1 .. Len(s) \/ (k - Len(s) \in 1 .. Len(t) /\ (s \o t)[k] = t[k - Len(s)])
<1>2. /\ s \o t \in Seq(S) /\ Len(s) \in Nat /\ Len(t) \in Nat
      /\ Len(s \o t) = Len(s) + Len(t)
      /\ \A k \in 1 .. Len(s) : (s \o t)[k] = s[k]
      /\ \A k \in 1 .. Len(t) : (s \o t)[Len(s) + k] = t[k]
  BY ConcatProperties
<1>3. ASSUME NEW k \in 1 .. Len(s \o t), k \notin 1 .. Len(s)
      PROVE  k - Len(s) \in 1 .. Len(t) /\ (s \o t)[k] = t[k - Len(s)]
  BY <1>2, <1>3
<1> QED
  BY <1>2, <1>3

LEMMA NewsRunJoin ==
  ASSUME NEW s \in Program, NEW t \in Program, NewsRun(s), NewsRun(t)
  PROVE  NewsRun(s \o t)
<1> DEFINE u == s \o t
           L == Len(s)
           N == Len(t)
<1>1. /\ L \in Nat /\ N \in Nat /\ Len(u) = L + N
      /\ \A k \in 1 .. L : u[k] = s[k]
      /\ \A k \in 1 .. N : u[L + k] = t[k]
      /\ \A k \in 1 .. Len(u) : k \in 1 .. L \/ (k - L \in 1 .. N /\ u[k] = t[k - L])
  <2>1. s \in Seq(StepOf(AnyOps)) /\ t \in Seq(StepOf(AnyOps))
    BY DEF Program
  <2> HIDE DEF u
  <2> QED
    BY <2>1, Joint DEF u
<1> HIDE DEF u, L, N
<1>2. ASSUME NEW k \in 1 .. Len(u), u[k].op = "new"
      PROVE  u[k].x[2] \in Test /\ RunAhead(u, k, u[k].x[2])
  <2>1. CASE k \in 1 .. L
    <3> DEFINE a == s[k].x[2]
    <3>1. u[k] = s[k] /\ a \in Test /\ RunAhead(s, k, a)
      BY <1>1, <1>2, <2>1 DEF NewsRun, L
    <3>2. PICK r \in k + 1 .. L :
            /\ s[r].op = "run" /\ \A j \in k + 1 .. r : s[j].op \notin Marks
            /\ a \in NeedsPlayers => \E j \in k + 1 .. r - 1 : s[j].op = "canPlayers"
      BY <3>1 DEF RunAhead, L
    <3>3. r \in k + 1 .. Len(u) /\ \A j \in k + 1 .. r : u[j] = s[j]
      BY <1>1, <2>1, <3>2
    <3>4. k + 1 .. r - 1 \subseteq k + 1 .. r /\ r \in k + 1 .. r
      BY <2>1, <1>1, <3>2
    <3>5. RunAhead(u, k, a)
      BY <3>2, <3>3, <3>4 DEF RunAhead
    <3> QED
      BY <3>1, <3>5
  <2>2. CASE k \notin 1 .. L
    <3> DEFINE m == k - L
               a == t[m].x[2]
    <3>1. m \in 1 .. N /\ u[k] = t[m]
      BY <1>1, <2>2
    <3>2. a \in Test /\ RunAhead(t, m, a)
      BY <1>2, <3>1 DEF NewsRun, N
    <3>3. PICK r \in m + 1 .. N :
            /\ t[r].op = "run" /\ \A j \in m + 1 .. r : t[j].op \notin Marks
            /\ a \in NeedsPlayers => \E j \in m + 1 .. r - 1 : t[j].op = "canPlayers"
      BY <3>2 DEF RunAhead, N
    <3> DEFINE q == L + r
    <3>4. q \in k + 1 .. Len(u) /\ r \in 1 .. N
      BY <1>1, <3>1, <3>3
    <3>5. u[q] = t[r]
      BY <1>1, <3>4
    <3>6. ASSUME NEW j \in k + 1 .. q PROVE u[j].op \notin Marks
      <4>1. j - L \in m + 1 .. r /\ j - L \in 1 .. N /\ L + (j - L) = j
        BY <1>1, <3>1, <3>3
      <4>2. u[j] = t[j - L]
        BY <1>1, <4>1
      <4> QED
        BY <3>3, <4>1, <4>2
    <3>7. a \in NeedsPlayers => \E j \in k + 1 .. q - 1 : u[j].op = "canPlayers"
      <4> SUFFICES ASSUME a \in NeedsPlayers PROVE \E j \in k + 1 .. q - 1 : u[j].op = "canPlayers"
        OBVIOUS
      <4>1. PICK i \in m + 1 .. r - 1 : t[i].op = "canPlayers"
        BY <3>3
      <4>2. L + i \in k + 1 .. q - 1 /\ i \in 1 .. N
        BY <1>1, <3>1, <3>3
      <4> QED
        BY <1>1, <4>1, <4>2
    <3> HIDE DEF m, q
    <3>8. RunAhead(u, k, a)
      BY <3>3, <3>4, <3>5, <3>6, <3>7 DEF RunAhead
    <3> QED
      BY <3>1, <3>2, <3>8
  <2> QED
    BY <2>1, <2>2
<1> QED
  BY <1>2 DEF NewsRun, u

\* The steps of one test.
LEMMA TestStepsShape ==
  ASSUME NEW t \in Test
  PROVE  /\ TestSteps(t) \in Seq(StepOf(TestOps)) /\ TestSteps(t) \in Program
         /\ 1 \in 1 .. Len(TestSteps(t))
         /\ TestSteps(t)[1].op = "new" /\ TestSteps(t)[1].x[2] = t
         /\ NewsRun(TestSteps(t))
<1> DEFINE S == StepOf(TestOps)
           n == Step("new", <<0, t>>, 0)
           c == Plain("canConnect")
           p == IF t \in NeedsPlayers THEN Plain("canPlayers") ELSE <<>>
           d == IF t \in NeedsDB THEN Plain("canDB") ELSE <<>>
           r == Plain("run")
           s == n \o c \o p \o d \o r
<1>1. n \in Seq(S) /\ Len(n) = 1 /\ n[1].op = "new" /\ n[1].x[2] = t
  <2> DEFINE x == <<0, t>>
  <2>1. x \in Topic /\ x[2] = t
    BY DEF Topic
  <2> HIDE DEF x
  <2>2. x \in Subject /\ 0 \in Int /\ "new" \in TestOps
    BY <2>1 DEF Subject, TestOps
  <2>3. Step("new", x, 0) \in Seq(StepOf(TestOps)) /\ Len(Step("new", x, 0)) = 1
        /\ Step("new", x, 0)[1].op = "new" /\ Step("new", x, 0)[1].x = x
    BY <2>2, OneStep
  <2> QED
    BY <2>1, <2>3 DEF x
<1>2. "canConnect" \in TestOps /\ "canPlayers" \in TestOps /\ "canDB" \in TestOps /\ "run" \in TestOps
  BY DEF TestOps
<1>3. c \in Seq(S) /\ Len(c) = 1 /\ c[1].op = "canConnect"
  BY <1>2, PlainStep
<1>4. /\ p \in Seq(S)
      /\ t \in NeedsPlayers => Len(p) = 1 /\ p[1].op = "canPlayers"
      /\ Len(p) \in {0, 1} /\ (Len(p) = 1 => p[1].op = "canPlayers")
  BY <1>2, PlainStep
<1>5. d \in Seq(S) /\ Len(d) \in {0, 1} /\ (Len(d) = 1 => d[1].op = "canDB")
  BY <1>2, PlainStep
<1>6. r \in Seq(S) /\ Len(r) = 1 /\ r[1].op = "run"
  BY <1>2, PlainStep
<1> DEFINE P == Len(p)
           D == Len(d)
           B == 2 + P
           R == B + D + 1
           a == n \o c
           b == a \o p
           e == b \o d
<1>7. /\ P \in {0, 1} /\ D \in {0, 1} /\ Len(p) = P /\ Len(d) = D
      /\ P = 1 => p[1].op = "canPlayers"
      /\ D = 1 => d[1].op = "canDB"
      /\ t \in NeedsPlayers => P = 1
  BY <1>4, <1>5
<1> HIDE DEF n, c, p, d, r, S, P, D
<1>8. /\ B \in {2, 3} /\ R \in 3 .. 5 /\ B \in 2 .. R - 1
      /\ P = 1 <=> B = 3
      /\ \A k \in 3 .. R - 1 : (k = 3 /\ P = 1) \/ (k = B + 1 /\ D = 1)
      /\ 1 \in 1 .. B /\ 2 \in 1 .. B /\ P = 1 => 3 \in 1 .. B
      /\ \A k \in 1 .. B : k \in 1 .. R - 1
      /\ D = 1 => B + 1 \in 1 .. R - 1
      /\ D \in Nat /\ P \in Nat /\ R = (B + D) + 1 /\ B + D = R - 1
      /\ 1 + 1 = 2 /\ 2 + P = B /\ 2 + 1 = 3
  BY <1>7
<1> HIDE DEF R, B
<1>9. a \in Seq(S) /\ Len(a) = 2 /\ a[1] = n[1] /\ a[2] = c[1]
  <2>1. /\ a \in Seq(S) /\ Len(a) = 1 + 1 /\ \A k \in 1 .. 1 : a[k] = n[k] /\ a[1 + k] = c[k]
    BY <1>1, <1>3, Joint
  <2> HIDE DEF a
  <2> QED
    BY <2>1
<1> HIDE DEF a
<1>10. /\ b \in Seq(S) /\ Len(b) = B
       /\ \A k \in 1 .. 2 : b[k] = a[k]
       /\ \A k \in 1 .. P : b[2 + k] = p[k]
  <2>1. /\ b \in Seq(S) /\ Len(b) = Len(a) + Len(p)
        /\ \A k \in 1 .. Len(a) : b[k] = a[k]
        /\ \A k \in 1 .. Len(p) : b[Len(a) + k] = p[k]
    <3>1. a \in Seq(S) /\ p \in Seq(S)
      BY <1>4, <1>9
    <3> QED
      BY <3>1, Joint
  <2> QED
    BY <1>7, <1>8, <1>9, <2>1
<1> HIDE DEF b
<1>11. /\ e \in Seq(S) /\ Len(e) = B + D
       /\ \A k \in 1 .. B : e[k] = b[k]
       /\ \A k \in 1 .. D : e[B + k] = d[k]
  BY <1>5, <1>7, <1>10, Joint
<1> HIDE DEF e
<1>12. /\ s \in Seq(S) /\ Len(s) = R
       /\ \A k \in 1 .. R - 1 : s[k] = e[k]
       /\ s[R] = r[1]
  <2>1. s = e \o r
    BY DEF a, b, e
  <2> HIDE DEF s
  <2>2. /\ s \in Seq(S) /\ Len(s) = Len(e) + Len(r)
        /\ \A k \in 1 .. Len(e) : s[k] = e[k]
        /\ \A k \in 1 .. Len(r) : s[Len(e) + k] = r[k]
    <3>1. e \in Seq(S) /\ r \in Seq(S)
      BY <1>6, <1>11
    <3> QED
      BY <2>1, <3>1, Joint
  <2>3. Len(e) = R - 1 /\ Len(r) = 1 /\ R - 1 + 1 = R
    BY <1>6, <1>8, <1>11
  <2> QED
    BY <2>2, <2>3
<1> HIDE DEF s
<1>13. /\ s[1].op = "new" /\ s[1].x[2] = t /\ s[2].op = "canConnect" /\ s[R].op = "run"
       /\ P = 1 => s[3].op = "canPlayers"
       /\ D = 1 => s[B + 1].op = "canDB"
  <2>1. s[1] = n[1] /\ s[2] = c[1]
    BY <1>8, <1>9, <1>10, <1>11, <1>12
  <2>2. P = 1 => s[3] = p[1]
    <3> SUFFICES ASSUME P = 1 PROVE s[3] = p[1]
      OBVIOUS
    <3>1. b[2 + 1] = p[1] /\ 3 \in 1 .. B /\ 3 \in 1 .. R - 1
      BY <1>8, <1>10
    <3> QED
      BY <1>11, <1>12, <3>1
  <2>3. D = 1 => s[B + 1] = d[1]
    BY <1>8, <1>11, <1>12
  <2> QED
    BY <1>1, <1>3, <1>6, <1>7, <1>12, <2>1, <2>2, <2>3
<1>14. ASSUME NEW k \in 2 .. R PROVE s[k].op \notin Marks /\ s[k].op # "new"
  BY <1>8, <1>13 DEF Marks
<1>15. RunAhead(s, 1, t)
  BY <1>7, <1>8, <1>12, <1>13, <1>14 DEF RunAhead
<1>16. NewsRun(s)
  <2> SUFFICES ASSUME NEW k \in 1 .. Len(s), s[k].op = "new"
               PROVE  s[k].x[2] \in Test /\ RunAhead(s, k, s[k].x[2])
    BY DEF NewsRun
  <2>1. k = 1
    BY <1>8, <1>12, <1>14
  <2> QED
    BY <1>13, <1>15, <2>1
<1>17. s \in Program
  BY <1>12, SeqMonotonic DEF AnyOps, S, StepOf, Program
<1>18. TestSteps(t) = s /\ 1 \in 1 .. Len(s)
  <2>1. 1 \in 1 .. Len(s)
    BY <1>8, <1>12
  <2>2. TestSteps(t) = s
    BY DEF TestSteps, s, n, c, p, d, r
  <2> QED
    BY <2>1, <2>2
<1> QED
  BY <1>12, <1>13, <1>16, <1>17, <1>18 DEF S

\* The tests come before place l, the report behind it.
Parted(s, l) == \A k \in 1 .. Len(s) : /\ s[k].op = "new" => k <= l
                                       /\ s[k].op = "report" => l < k

\* A step behind the tests.
LEMMA LastStep ==
  ASSUME NEW s \in Program, NEW l \in 0 .. Len(s), Parted(s, l), NewsRun(s),
         NEW op \in LastOps
  PROVE  LET u == s \o Plain(op)
         IN  /\ u \in Program /\ l \in 0 .. Len(u) /\ Parted(u, l) /\ NewsRun(u)
             /\ \A k \in 1 .. Len(s) : k \in 1 .. Len(u) /\ u[k] = s[k]
<1> DEFINE t == Plain(op)
           u == s \o t
<1>1. t \in Program /\ Len(t) \in 1 .. 1 /\ t[1].op = op
  BY PlainStep DEF AnyOps, Program
<1>2. op # "new"
  BY DEF LastOps
<1> HIDE DEF t
<1> DEFINE L == Len(s)
           N == Len(t)
<1>3. s \in Seq(StepOf(AnyOps)) /\ t \in Seq(StepOf(AnyOps))
  BY <1>1 DEF Program
<1>4. /\ u \in Seq(StepOf(AnyOps)) /\ L \in Nat /\ N \in Nat /\ Len(u) = L + N
      /\ \A k \in 1 .. L : u[k] = s[k]
      /\ \A k \in 1 .. Len(u) : k \in 1 .. L \/ (k - L \in 1 .. N /\ u[k] = t[k - L])
  BY <1>3, Joint
<1>5. \A k \in 1 .. N : t[k].op # "new"
  <2>1. \A k \in 1 .. 1 : k = 1
    OBVIOUS
  <2>2. N = 1
    BY <1>1
  <2> HIDE DEF N
  <2> QED
    BY <1>1, <1>2, <2>1, <2>2
<1>6. NewsRun(t)
  BY <1>5 DEF NewsRun
<1>7. NewsRun(u)
  BY <1>1, <1>6, NewsRunJoin
<1>8. l \in 0 .. L /\ \A k \in 1 .. L : (s[k].op = "new" => k <= l) /\ (s[k].op = "report" => l < k)
  BY DEF Parted
<1> HIDE DEF u, L, N
<1>9. ASSUME NEW k \in 1 .. Len(u) PROVE (u[k].op = "new" => k <= l) /\ (u[k].op = "report" => l < k)
  <2>1. CASE k \in 1 .. L
    BY <1>4, <1>8, <2>1
  <2>2. CASE k \notin 1 .. L
    BY <1>4, <1>5, <1>8, <2>2
  <2> QED
    BY <2>1, <2>2
<1>10. l \in 0 .. Len(u) /\ \A k \in 1 .. L : k \in 1 .. Len(u)
  BY <1>4, <1>8
<1>11. Parted(u, l)
  BY <1>9 DEF Parted
<1> QED
  BY <1>4, <1>7, <1>10, <1>11 DEF u, L, t, Program

LEMMA MainShape ==
  ASSUME NEW p \in Plans
  PROVE  /\ main(p) \in Program /\ NewsRun(main(p)) /\ ReportLast(main(p))
         /\ \A k \in 1 .. Len(main(p)) : main(p)[k].op \in TestOps \cup LastOps
         /\ \A i \in DOMAIN p : \E k \in 1 .. Len(main(p)) :
              main(p)[k].op = "new" /\ main(p)[k].x[2] = p[i]
<1> DEFINE T == StepOf(TestOps)
           n == Len(p)
           ss == [i \in DOMAIN p |-> TestSteps(p[i])]
           f == FlattenSeq(ss)
           C == {s \in Seq(T) : s \in Program /\ NewsRun(s)}
<1>1. /\ n \in Nat /\ DOMAIN p = 1 .. n /\ \A i \in 1 .. n : p[i] \in Test
  BY PlanAssumption
<1>2. Len(ss) = n /\ (n = 0 => ss = <<>>) /\ \A i \in 1 .. n : ss[i] = TestSteps(p[i])
  BY <1>1
<1>3. \A i \in 1 .. n : ss[i] \in C
  BY <1>1, <1>2, TestStepsShape
<1> HIDE DEF ss, n
<1>4. f \in C
  <2>1. CASE n = 0
    BY <1>2, <2>1 DEF FlattenSeq, Program, NewsRun
  <2>2. CASE n # 0
    <3>1. \A s, t \in C : s \o t \in C
      <4> SUFFICES ASSUME NEW s \in C, NEW t \in C PROVE s \o t \in C
        OBVIOUS
      <4>1. NewsRun(s \o t)
        BY NewsRunJoin
      <4>2. s \o t \in Seq(T) /\ s \o t \in Program
        BY ConcatProperties DEF Program
      <4> QED
        BY <4>1, <4>2
    <3>2. Len(ss) \in Nat \ {0} /\ \A i \in 1 .. Len(ss) : ss[i] \in C
      BY <1>1, <1>2, <1>3, <2>2
    <3> HIDE DEF C
    <3> QED
      BY <3>1, <3>2, FlatClosed
  <2> QED
    BY <2>1, <2>2
<1>5. ASSUME NEW i \in 1 .. n
      PROVE  \E k \in 1 .. Len(f) : f[k].op = "new" /\ f[k].x[2] = p[i]
  <2>1. 1 \in 1 .. Len(ss[i]) /\ ss[i][1].op = "new" /\ ss[i][1].x[2] = p[i]
    BY <1>1, <1>2, TestStepsShape
  <2>2. Len(ss) \in Nat /\ (\A j \in 1 .. Len(ss) : ss[j] \in Seq(T)) /\ i \in 1 .. Len(ss)
    BY <1>1, <1>2, <1>3
  <2>3. \E k \in 1 .. Len(f) : f[k] = ss[i][1]
    <3> HIDE DEF T
    <3> QED
      BY <2>1, <2>2, FlatHas
  <2> QED
    BY <2>1, <2>3
<1> HIDE DEF f
<1> DEFINE l == Len(f)
<1>6. f \in Program /\ NewsRun(f) /\ l \in Nat /\ l \in 0 .. Len(f)
  BY <1>4 DEF Program
<1>7. \A k \in 1 .. l : f[k].op \in TestOps
  <2>1. \A k \in 1 .. l : f[k] \in T
    BY <1>4, ElementOfSeq
  <2> QED
    BY <2>1 DEF StepOf
<1>8. Parted(f, l)
  BY <1>6, <1>7 DEF TestOps, Parted
<1> HIDE DEF l
<1> DEFINE a == f \o Plain("report")
           b == a \o Plain("restoreFlags")
           c == b \o Plain("disconnect")
<1>9. "report" \in LastOps /\ "restoreFlags" \in LastOps /\ "disconnect" \in LastOps
  BY DEF LastOps
<1>10. /\ a \in Program /\ l \in 0 .. Len(a) /\ Parted(a, l) /\ NewsRun(a)
       /\ \A k \in 1 .. Len(f) : k \in 1 .. Len(a) /\ a[k] = f[k]
  BY <1>6, <1>8, <1>9, LastStep
<1> HIDE DEF a
<1>11. /\ b \in Program /\ l \in 0 .. Len(b) /\ Parted(b, l) /\ NewsRun(b)
       /\ \A k \in 1 .. Len(a) : k \in 1 .. Len(b) /\ b[k] = a[k]
  BY <1>9, <1>10, LastStep
<1> HIDE DEF b
<1>12. /\ c \in Program /\ l \in 0 .. Len(c) /\ Parted(c, l) /\ NewsRun(c)
       /\ \A k \in 1 .. Len(b) : k \in 1 .. Len(c) /\ c[k] = b[k]
  BY <1>9, <1>11, LastStep
<1>13. \A k \in 1 .. Len(c) : c[k].op \in TestOps \cup LastOps
  <2> DEFINE S == StepOf(TestOps \cup LastOps)
  <2>1. T \subseteq S
    BY DEF StepOf
  <2>2. f \in Seq(S)
    BY <1>4, <2>1, SeqMonotonic
  <2>3. Plain("report") \in Seq(S) /\ Plain("restoreFlags") \in Seq(S) /\ Plain("disconnect") \in Seq(S)
    BY <1>9, PlainStep
  <2> HIDE DEF S
  <2>4. c \in Seq(S)
    BY <2>2, <2>3, ConcatProperties DEF a, b
  <2> HIDE DEF c
  <2>5. \A k \in 1 .. Len(c) : c[k] \in S
    BY <2>4, ElementOfSeq
  <2> QED
    BY <2>5 DEF S, StepOf
<1> HIDE DEF c
<1>14. ReportLast(c)
  <2> SUFFICES ASSUME NEW j \in 1 .. Len(c), NEW k \in 1 .. Len(c), c[j].op = "report", c[k].op = "new"
               PROVE  k < j
    BY DEF ReportLast
  <2>1. k <= l /\ l < j /\ l \in Int
    BY <1>6, <1>12 DEF Parted
  <2> QED
    BY <2>1
<1>15. \A i \in 1 .. n : \E k \in 1 .. Len(c) : c[k].op = "new" /\ c[k].x[2] = p[i]
  BY <1>5, <1>10, <1>11, <1>12
<1>16. main(p) = c
  BY DEF main, a, b, c, f, ss
<1> QED
  BY <1>1, <1>12, <1>13, <1>14, <1>15, <1>16

-----------------------------------------------------------------------------
(* What a step does to the program.                                        *)

\* No verdict is taken back, and none is made undone.
Onward == /\ gtest_db' \in [Test -> Verdicts]
          /\ \A t \in Test : /\ gtest_db[t] \in Judged => gtest_db'[t] \in Judged
                             /\ gtest_db'[t] = Start => gtest_db[t] = Start
                             /\ gtest_db[t] # None => gtest_db'[t] # None
JudgedNow == tid \in Test => gtest_db'[tid] # Start

LEMMA SubTestGives ==
  ASSUME gtest_db \in [Test -> Verdicts], NEW result \in {Success, Failed, Skipped}, SubTest(result)
  PROVE  Onward /\ JudgedNow
<1> DEFINE new(v) == IF v \notin {Start, Success, Partial} THEN v
                     ELSE CASE result = Skipped -> Partial
                            [] result = Success -> IF v = Partial THEN Partial ELSE Success
                            [] result = Failed  -> Failed
<1>1. gtest_db' = [gtest_db EXCEPT ![tid] = new(@)]
  BY DEF SubTest
<1>2. ASSUME NEW v \in Verdicts
      PROVE  /\ new(v) \in Verdicts /\ (v \in Judged => new(v) \in Judged) /\ new(v) # Start
             /\ (v # None => new(v) # None)
  BY DEF Verdicts, Judged, Start, Skipped, Failed, Success, Partial, None
<1> HIDE DEF new, Verdicts, Judged, Test
<1> QED
  BY <1>1, <1>2 DEF Onward, JudgedNow

LEMMA ExpectGives ==
  ASSUME gtest_db \in [Test -> Verdicts], NEW good, Expect(good)
  PROVE  Onward /\ JudgedNow
BY SubTestGives DEF Expect

LEMMA NoSubTestGives ==
  ASSUME gtest_db \in [Test -> Verdicts], NoSubTest
  PROVE  Onward
BY DEF NoSubTest, Onward

LEMMA CannotGives ==
  ASSUME gtest_db \in [Test -> Verdicts], Cannot
  PROVE  Onward /\ JudgedNow
<1>1. Skipped \in Judged /\ Skipped \in Verdicts /\ Skipped # Start /\ Skipped # None
  BY DEF Verdicts, Judged, Start, Skipped, None
<1> HIDE DEF Skipped, Verdicts, Judged, Test, Start, None
<1> QED
  BY <1>1 DEF Cannot, Onward, JudgedNow

LEMMA NowIs ==
  ASSUME todo \in Program, todo # <<>>
  PROVE  /\ now = todo[1] /\ Len(todo) \in Nat \ {0} /\ 1 \in 1 .. Len(todo)
         /\ now \in StepOf(AnyOps) /\ now.op \in AnyOps /\ now.x \in Subject /\ now.v \in Int
<1>1. Len(todo) \in Nat \ {0} /\ Head(todo) = todo[1] /\ todo[1] \in StepOf(AnyOps)
  BY EmptySeq, ElementOfSeq DEF Program
<1> QED
  BY <1>1 DEF StepOf, now

LEMMA PlanTests == ASSUME NEW p \in Plans, NEW i \in DOMAIN p PROVE p[i] \in Test
<1>1. p \in Seq(Test)
  BY PlanAssumption
<1> QED
  BY <1>1

\* Where a verdict comes from stays ahead of a step that is no part of it.
LEMMA VerdictKept ==
  ASSUME todo \in Program, todo # <<>>, NEW ops, ops \subseteq AnyOps, ops \cap Marks = {},
         NEW steps \in Seq(StepOf(ops)), todo' = steps \o Tail(todo),
         NEW r \in Nat, r # 1, VerdictAt(r), UNCHANGED tid,
         gplayers' > 0 \/ (UNCHANGED gplayers /\ todo[1].op # "canPlayers")
  PROVE  VerdictAhead'
<1> DEFINE L == Len(steps)
           N == Len(todo)
<1>1. /\ N \in Nat \ {0} /\ L \in Nat /\ Len(todo') = L + N - 1
      /\ \A k \in 1 .. L : todo'[k].op \in ops
      /\ \A k \in 2 .. N : todo'[L + k - 1] = todo[k]
  BY ONLY todo \in Program, todo # <<>>, ops \subseteq AnyOps, steps \in Seq(StepOf(ops)),
          todo' = steps \o Tail(todo), Pushed
<1>2. /\ r \in 1 .. N /\ \A j \in 1 .. r : todo[j].op \notin Marks
      /\ \/ todo[r].op \in JudgeOps
         \/ /\ todo[r].op = "run"
            /\ tid \in NeedsPlayers =>
                 gplayers > 0 \/ \E j \in 1 .. r - 1 : todo[j].op = "canPlayers"
  BY DEF VerdictAt
<1> HIDE DEF L, N
<1>3. r \in 2 .. N
  BY <1>1, <1>2
<1> DEFINE q == L + r - 1
<1>4. q \in 1 .. Len(todo') /\ todo'[q] = todo[r]
  <2>1. q \in 1 .. Len(todo')
    BY <1>1, <1>3
  <2>2. todo'[L + r - 1] = todo[r]
    BY <1>1, <1>3
  <2> QED
    BY <2>1, <2>2
<1>5. ASSUME NEW j \in 1 .. q PROVE todo'[j].op \notin Marks
  <2>1. CASE j \in 1 .. L
    BY <1>1, <2>1
  <2>2. CASE j \notin 1 .. L
    <3>1. j - L + 1 \in 2 .. N /\ j - L + 1 \in 1 .. r /\ L + (j - L + 1) - 1 = j
      BY <1>1, <1>3, <2>2
    <3>2. todo'[j] = todo[j - L + 1]
      BY <1>1, <3>1
    <3> QED
      BY <1>2, <3>1, <3>2
  <2> QED
    BY <2>1, <2>2
<1>6. ASSUME NEW j \in 1 .. r - 1, todo[j].op = "canPlayers", todo[1].op # "canPlayers"
      PROVE  \E i \in 1 .. q - 1 : todo'[i].op = "canPlayers"
  <2>1. j # 1
    BY <1>6
  <2>2. j \in 2 .. N /\ L + j - 1 \in 1 .. q - 1
    BY <1>1, <1>3, <2>1
  <2> QED
    BY <1>1, <1>6, <2>2
<1>8. q \in Nat
  BY <1>1, <1>3
<1> HIDE DEF q
<1>7. todo'[q].op \in JudgeOps
      \/ (/\ todo'[q].op = "run"
          /\ tid' \in NeedsPlayers =>
               gplayers' > 0 \/ \E j \in 1 .. q - 1 : todo'[j].op = "canPlayers")
  BY <1>2, <1>4, <1>6
<1> QED
  BY <1>4, <1>5, <1>7, <1>8 DEF VerdictAhead, VerdictAt

\* A verdict is still ahead of a test that starts.
LEMMA ToldKept ==
  ASSUME Values0, todo \in Program, todo # <<>>, Told, Onward, UNCHANGED tid,
         NEW ops, ops \subseteq AnyOps, ops \cap Marks = {},
         NEW steps \in Seq(StepOf(ops)), todo' = steps \o Tail(todo),
         JudgedNow \/ (/\ todo[1].op \notin JudgeOps /\ todo[1].op # "run"
                       /\ gplayers' > 0 \/ (UNCHANGED gplayers /\ todo[1].op # "canPlayers"))
  PROVE  Told'
<1> SUFFICES ASSUME tid \in Test, gtest_db'[tid] = Start PROVE VerdictAhead'
  BY DEF Told
<1>1. ~JudgedNow
  BY DEF JudgedNow
<1>2. gtest_db[tid] = Start
  BY DEF Onward
<1>3. PICK r \in Nat : VerdictAt(r)
  BY <1>2 DEF Told, VerdictAhead
<1>4. r # 1
  BY <1>1, <1>3 DEF VerdictAt
<1> QED
  BY <1>1, <1>3, <1>4, VerdictKept

LEMMA AheadKept ==
  ASSUME Values0, todo \in Program, todo # <<>>, Ahead, Begun, Onward, UNCHANGED <<tid, plan>>,
         NEW ops, ops \subseteq AnyOps,
         NEW steps \in Seq(StepOf(ops)), todo' = steps \o Tail(todo), todo[1].op # "new"
  PROVE  Ahead' /\ Begun'
<1>1. /\ Len(todo) \in Nat \ {0} /\ Len(steps) \in Nat /\ Len(todo') = Len(steps) + Len(todo) - 1
      /\ \A k \in 2 .. Len(todo) : todo'[Len(steps) + k - 1] = todo[k]
  BY Pushed
<1>2. ASSUME NEW i \in DOMAIN plan
      PROVE  \/ gtest_db'[plan[i]] \in Judged \/ tid = plan[i]
             \/ \E k \in 1 .. Len(todo') : todo'[k].op = "new" /\ todo'[k].x[2] = plan[i]
  <2>1. plan[i] \in Test
    BY PlanTests DEF Values0
  <2>2. CASE gtest_db[plan[i]] \in Judged
    BY <2>1, <2>2 DEF Onward
  <2>3. CASE tid = plan[i]
    BY <2>3
  <2>4. ASSUME NEW k \in 1 .. Len(todo), todo[k].op = "new", todo[k].x[2] = plan[i]
        PROVE  \E j \in 1 .. Len(todo') : todo'[j].op = "new" /\ todo'[j].x[2] = plan[i]
    <3>1. k # 1
      BY <2>4
    <3>2. k \in 2 .. Len(todo) /\ Len(steps) + k - 1 \in 1 .. Len(todo')
      BY <1>1, <3>1
    <3>3. todo'[Len(steps) + k - 1] = todo[k]
      BY <1>1, <3>2
    <3> QED
      BY <2>4, <3>2, <3>3
  <2> QED
    BY <2>2, <2>3, <2>4 DEF Ahead
<1> QED
  BY <1>2 DEF Ahead, Begun, Onward

\* Nothing is fetched, and nothing forgotten, in the steps of another kind.
LEMMA FetchesKept ==
  ASSUME todo \in Program, todo # <<>>, Fetches, NEW ops, ops \subseteq AnyOps,
         NEW steps \in Seq(StepOf(ops)), todo' = steps \o Tail(todo),
         "fetch" \notin ops, todo[1].op # "fetch"
  PROVE  Fetches'
<1>1. /\ Len(todo) \in Nat \ {0}
      /\ \A k \in 1 .. Len(steps) : todo'[k].op \in ops
      /\ \A k \in 1 .. Len(todo') :
           k \in 1 .. Len(steps) \/ (k - Len(steps) + 1 \in 2 .. Len(todo)
                                     /\ todo'[k] = todo[k - Len(steps) + 1])
  BY Pushed
<1>2. \A k \in 1 .. Len(todo) : todo[k].op # "fetch"
  <2> SUFFICES ASSUME NEW k \in 1 .. Len(todo), todo[k].op = "fetch" PROVE FALSE
    OBVIOUS
  <2>1. 1 \in 1 .. k
    OBVIOUS
  <2> QED
    BY <2>1 DEF Fetches
<1>3. \A k \in 2 .. Len(todo) : k \in 1 .. Len(todo)
  BY <1>1
<1>4. \A k \in 1 .. Len(todo') : todo'[k].op # "fetch"
  BY <1>1, <1>2, <1>3
<1> QED
  BY <1>4 DEF Fetches

LEMMA ForgetsKept ==
  ASSUME todo \in Program, todo # <<>>, Forgets, NEW ops, ops \subseteq AnyOps,
         NEW steps \in Seq(StepOf(ops)), todo' = steps \o Tail(todo), "forget" \notin ops,
         todo[1].op \notin {"exit", "forget"},
         todo[1].op = "judge" => steps = <<>> /\ UNCHANGED gsocket
  PROVE  Forgets'
<1> DEFINE L == Len(steps)
           N == Len(todo)
<1>1. /\ N \in Nat \ {0} /\ L \in Nat
      /\ \A k \in 1 .. L : todo'[k].op \in ops
      /\ \A k \in 1 .. Len(todo') :
           k \in 1 .. L \/ (k - L + 1 \in 2 .. N /\ todo'[k] = todo[k - L + 1])
  BY Pushed
<1>2. ASSUME NEW k \in 1 .. N, todo[k].op = "forget"
      PROVE  k = 2 /\ todo[1].op = "judge" /\ ~gsocket
  BY <1>2 DEF Forgets
<1>3. steps = <<>> => L = 0
  OBVIOUS
<1> HIDE DEF L, N
<1>4. ASSUME NEW k \in 1 .. Len(todo'), todo'[k].op = "forget"
      PROVE  k = 1 /\ ~gsocket'
  <2>1. k - L + 1 \in 2 .. N /\ k - L + 1 \in 1 .. N /\ todo'[k] = todo[k - L + 1]
    BY <1>1, <1>4
  <2>2. k - L + 1 = 2 /\ todo[1].op = "judge" /\ ~gsocket
    BY <1>2, <1>4, <2>1
  <2>3. L = 0 /\ ~gsocket'
    BY <1>3, <2>2
  <2> QED
    BY <1>1, <2>2, <2>3
<1> QED
  BY <1>4 DEF Forgets

LEMMA BeginsKept ==
  ASSUME todo \in Program, todo # <<>>, Begins, UNCHANGED tid, todo[1].op # "new",
         NEW ops, ops \subseteq AnyOps, "run" \notin ops,
         NEW steps \in Seq(StepOf(ops)), todo' = steps \o Tail(todo)
  PROVE  Begins'
<1>1. /\ Len(todo) \in Nat \ {0}
      /\ \A k \in 1 .. Len(steps) : todo'[k].op \in ops
      /\ \A k \in 1 .. Len(todo') :
           k \in 1 .. Len(steps) \/ (k - Len(steps) + 1 \in 2 .. Len(todo)
                                     /\ todo'[k] = todo[k - Len(steps) + 1])
  BY Pushed
<1>2. \A k \in 2 .. Len(todo) : k \in 1 .. Len(todo)
  BY <1>1
<1>3. tid = "" => \A k \in 1 .. Len(todo') : todo'[k].op # "run"
  BY <1>1, <1>2 DEF Begins
<1> QED
  BY <1>3 DEF Begins

\* A step of a script that is none of those that have an invariant of their own.
Plainly(ops) ==
  /\ todo[1].op \notin {"new", "run", "exit", "forget", "fetch", "canPlayers"}
  /\ UNCHANGED <<plan, tid, gplayers>> /\ Onward
  /\ \/ UNCHANGED todo /\ todo[1].op \notin JudgeOps
     \/ /\ \E steps \in Seq(StepOf(ops)) :
             todo' = steps \o Tail(todo) /\ (todo[1].op = "judge" => steps = <<>>)
        /\ todo[1].op \in JudgeOps => JudgedNow
  /\ todo[1].op = "judge" => UNCHANGED gsocket

LEMMA OpsFacts ==
  /\ ScriptOps \subseteq AnyOps /\ ScriptOps \cap Marks = {} /\ JudgeOps \subseteq ScriptOps
  /\ "fetch" \notin ScriptOps /\ "forget" \notin ScriptOps /\ "run" \notin ScriptOps
  /\ "exit" \notin ScriptOps /\ "new" \notin ScriptOps
BY DEF ScriptOps, JudgeOps, OtherOps, Marks, AnyOps

LEMMA PlainlyKept ==
  ASSUME CliInv, todo # <<>>, Plainly(ScriptOps), UNCHANGED dump
  PROVE  Walking'
<1> USE DEF CliInv, Walking
<1>1. CASE UNCHANGED todo /\ todo[1].op \notin JudgeOps
  <2>1. todo' \in Program /\ NewsRun(todo)' /\ ReportLast(todo)'
    BY <1>1
  <2>6. Begins'
    BY <1>1 DEF Plainly, Begins
  <2>7. Fetches'
    BY <1>1 DEF Fetches
  <2>2. Forgets'
    BY <1>1 DEF Plainly, Forgets, JudgeOps
  <2>3. Told'
    BY <1>1 DEF Plainly, Told, Onward, VerdictAhead, VerdictAt
  <2>4. Begun'
    BY <1>1 DEF Plainly, Begun, Onward
  <2>5. Ahead'
    BY <1>1, PlanTests DEF Values0, Plainly, Ahead, Onward
  <2> QED
    BY <2>1, <2>2, <2>3, <2>4, <2>5, <2>6, <2>7
<1>2. ASSUME NEW steps \in Seq(StepOf(ScriptOps)), todo' = steps \o Tail(todo),
             todo[1].op = "judge" => steps = <<>>, todo[1].op \in JudgeOps => JudgedNow
      PROVE  Walking'
  BY <1>2, OpsFacts, Pushed, ShapeKept, BeginsKept, FetchesKept, ForgetsKept, ToldKept, AheadKept
     DEF Plainly
<1> QED
  BY <1>1, <1>2 DEF Plainly

-----------------------------------------------------------------------------
(* The actions.                                                            *)

\* No exchange leaves a socket open that the program takes for closed.
LEMMA LinkedKept ==
  ASSUME Linked, guser \in BOOLEAN, NEW how,
         Answered \/ Unanswered \/ cliConnect(how) \/ UNCHANGED linkVars
  PROVE  Linked'
<1> USE DEF Linked, linkVars
<1>1. MaxDrops \in Nat
  BY ServerAssumption
<1>2. CASE UNCHANGED linkVars
  BY <1>2
<1>3. CASE Answered
  BY <1>3 DEF Answered
<1>4. CASE Unanswered
  <2>1. drops' \in 0 .. MaxDrops
    BY <1>1, <1>4 DEF Unanswered
  <2>2. /\ gsocket' \in BOOLEAN /\ gcli' \in BOOLEAN /\ link' \in BOOLEAN /\ logged' \in BOOLEAN
        /\ gsocket' => gcli'
    BY <1>4 DEF Unanswered, Hangup
  <2> QED
    BY <2>1, <2>2
<1>5. CASE cliConnect(how)
  <2>1. drops' \in 0 .. MaxDrops
    BY <1>1, <1>5 DEF cliConnect
  <2>2. /\ gsocket' \in BOOLEAN /\ gcli' \in BOOLEAN /\ link' \in BOOLEAN /\ logged' \in BOOLEAN
        /\ gsocket' => gcli'
    BY <1>5 DEF cliConnect, Hangup
  <2> QED
    BY <2>1, <2>2
<1> QED
  BY <1>2, <1>3, <1>4, <1>5

LEMMA QueryLinked ==
  ASSUME Linked, guser \in BOOLEAN, NEW answers, NEW v, Query(answers, v)
  PROVE  Linked'
BY LinkedKept DEF Query

LEMMA ValuesKept ==
  ASSUME Values0, UNCHANGED clientVars, UNCHANGED <<scanning, quick>>, Onward
  PROVE  Values0'
BY DEF Values0, clientVars, Onward

\* The program goes on, or puts steps of a script in front.
LEMMA PlainGoOn ==
  ASSUME CliInv, todo # <<>>, GoOn,
         now.op \notin {"new", "run", "exit", "forget", "fetch", "canPlayers"},
         UNCHANGED <<plan, tid, gplayers>>, Onward, now.op \in JudgeOps => JudgedNow,
         now.op = "judge" => UNCHANGED gsocket
  PROVE  Plainly(ScriptOps)
<1>1. now = todo[1]
  BY NowIs DEF CliInv, Walking
<1>2. <<>> \in Seq(StepOf(ScriptOps)) /\ todo' = <<>> \o Tail(todo)
  BY DEF CliInv, Walking, Program, GoOn
<1> QED
  BY <1>1, <1>2 DEF Plainly

LEMMA PlainGo ==
  ASSUME CliInv, todo # <<>>, NEW steps \in Scripts, Go(steps),
         now.op \notin {"new", "run", "exit", "forget", "fetch", "canPlayers", "judge"},
         UNCHANGED <<plan, tid, gplayers>>, Onward, now.op \in JudgeOps => JudgedNow
  PROVE  Plainly(ScriptOps)
<1>1. now = todo[1]
  BY NowIs DEF CliInv, Walking
<1>2. todo' = steps \o Tail(todo) /\ steps \in Seq(StepOf(ScriptOps))
  BY DEF Go, Scripts
<1> QED
  BY <1>1, <1>2 DEF Plainly

LEMMA PlainStay ==
  ASSUME CliInv, todo # <<>>, UNCHANGED todo,
         now.op \notin {"new", "run", "exit", "forget", "fetch", "canPlayers", "judge"},
         UNCHANGED <<plan, tid, gplayers>>, Onward, now.op \notin JudgeOps
  PROVE  Plainly(ScriptOps)
<1>1. now = todo[1]
  BY NowIs DEF CliInv, Walking
<1> QED
  BY <1>1 DEF Plainly

\* What does not change keeps its verdicts.
LEMMA SameVerdicts == ASSUME Values0, UNCHANGED gtest_db PROVE Onward
BY NoSubTestGives DEF Values0, NoSubTest

\* Steps that neither judge nor add steps: only the link and the server change.
LEMMA QuietKept ==
  ASSUME CliInv, todo # <<>>, GoOn, UNCHANGED <<gtest_db, clientVars, scanning, quick>>, Linked',
         now.op \notin {"new", "run", "exit", "forget", "fetch", "canPlayers"} \cup JudgeOps
  PROVE  CliInv'
<1>1. Onward
  BY SameVerdicts DEF CliInv
<1>2. Values0'
  BY <1>1, ValuesKept DEF CliInv
<1>3. UNCHANGED <<plan, tid, gplayers, dump>>
  BY DEF clientVars
<1>4. now.op \notin JudgeOps /\ now.op # "judge"
  BY DEF JudgeOps
<1>5. Plainly(ScriptOps)
  BY <1>1, <1>3, <1>4, PlainGoOn
<1> QED
  BY <1>2, <1>3, <1>5, PlainlyKept DEF CliInv

\* A subtest, and no other steps.
LEMMA JudgingKept ==
  ASSUME CliInv, todo # <<>>, GoOn, UNCHANGED <<clientVars, scanning, quick>>, Linked',
         Onward, JudgedNow, now.op = "judge" => UNCHANGED gsocket,
         now.op \notin {"new", "run", "exit", "forget", "fetch", "canPlayers"}
  PROVE  CliInv'
<1>1. Values0'
  BY ValuesKept DEF CliInv
<1>2. UNCHANGED <<plan, tid, gplayers, dump>>
  BY DEF clientVars
<1>3. Plainly(ScriptOps)
  BY <1>2, PlainGoOn
<1> QED
  BY <1>1, <1>2, <1>3, PlainlyKept DEF CliInv

\* Branches: steps of a script in front, no subtest.
LEMMA BranchingKept ==
  ASSUME CliInv, todo # <<>>, NEW steps \in Scripts, Go(steps),
         UNCHANGED <<clientVars, scanning, quick>>, Linked', Onward,
         now.op \in JudgeOps => JudgedNow,
         now.op \notin {"new", "run", "exit", "forget", "fetch", "canPlayers", "judge"}
  PROVE  CliInv'
<1>1. Values0'
  BY ValuesKept DEF CliInv
<1>2. UNCHANGED <<plan, tid, gplayers, dump>>
  BY DEF clientVars
<1>3. Plainly(ScriptOps)
  BY <1>2, PlainGo
<1> QED
  BY <1>1, <1>2, <1>3, PlainlyKept DEF CliInv

LEMMA StayingKept ==
  ASSUME CliInv, todo # <<>>, UNCHANGED <<todo, gtest_db, clientVars, scanning, quick>>, Linked',
         now.op \notin {"new", "run", "exit", "forget", "fetch", "canPlayers", "judge"} \cup JudgeOps
  PROVE  CliInv'
<1>1. Onward
  BY SameVerdicts DEF CliInv
<1>2. Values0'
  BY <1>1, ValuesKept DEF CliInv
<1>3. UNCHANGED <<plan, tid, gplayers, dump>>
  BY DEF clientVars
<1>4. Plainly(ScriptOps)
  BY <1>1, <1>3, PlainStay
<1> QED
  BY <1>2, <1>3, <1>4, PlainlyKept DEF CliInv

LEMMA AtFacts == ASSUME NEW ops, AtAny(ops) PROVE todo # <<>> /\ now.op \in ops
BY DEF AtAny

LEMMA SetStepKept == ASSUME CliInv, SetStep PROVE CliInv'
<1>1. todo # <<>> /\ now.op \in {"set", "toggle", "lower", "restore"} /\ GoOn
  BY DEF SetStep, AtAny
<1>2. UNCHANGED <<gtest_db, clientVars, scanning, quick>> /\ (Answered \/ Unanswered)
  BY DEF SetStep, Command
<1>3. Linked'
  BY <1>2, LinkedKept DEF CliInv, Values0
<1>4. now.op \notin {"new", "run", "exit", "forget", "fetch", "canPlayers"} \cup JudgeOps
  BY <1>1 DEF JudgeOps
<1> QED
  BY <1>1, <1>2, <1>3, <1>4, QuietKept

LEMMA MixKept == ASSUME CliInv, Mix PROVE CliInv'
<1>1. todo # <<>> /\ now.op \in {"mixAbs", "mixUp", "mixDown"} /\ GoOn
  BY DEF Mix, AtAny
<1>2. /\ UNCHANGED <<plan, tid, guser, gplayers, gRestoreGroupDisc, dump, drawn>>
      /\ UNCHANGED <<gtest_db, scanning, quick>> /\ (Answered \/ Unanswered)
  BY DEF Mix, Command
<1>3. value' \in 0 .. MixMax
  <2>1. value \in 0 .. MixMax /\ MixMax \in Nat /\ MixMargin \in 0 .. MixMax
    BY ScriptAssumption, ServerAssumption DEF CliInv, Values0
  <2>2. CASE value' \in randomSmaller(MixMax - MixMargin)
    BY <2>1, <2>2 DEF randomSmaller
  <2>3. ASSUME NEW delta \in randomSmaller(MixMax - value), value' = value + delta
        PROVE  value' \in 0 .. MixMax
    BY <2>1, <2>3 DEF randomSmaller
  <2>4. ASSUME NEW delta \in randomSmaller(value), value' = value - delta
        PROVE  value' \in 0 .. MixMax
    BY <2>1, <2>4 DEF randomSmaller
  <2>5. \/ value' \in randomSmaller(MixMax - MixMargin)
        \/ \E delta \in randomSmaller(MixMax - value) : value' = value + delta
        \/ \E delta \in randomSmaller(value) : value' = value - delta
    BY DEF Mix
  <2> QED
    BY <2>2, <2>3, <2>4, <2>5
<1>4. Linked'
  BY <1>2, LinkedKept DEF CliInv, Values0
<1>5. Onward
  BY <1>2, SameVerdicts DEF CliInv
<1>6. Values0'
  BY <1>2, <1>3, <1>5 DEF CliInv, Values0, Onward
<1>7. now.op \notin {"new", "run", "exit", "forget", "fetch", "canPlayers"} \cup JudgeOps
      /\ now.op # "judge"
  BY <1>1 DEF JudgeOps
<1>8. Plainly(ScriptOps)
  BY <1>1, <1>2, <1>5, <1>7, PlainGoOn
<1> QED
  BY <1>1, <1>2, <1>4, <1>6, <1>8, PlainlyKept DEF CliInv

LEMMA ScanKept == ASSUME CliInv, Scan PROVE CliInv'
<1>1. todo # <<>> /\ now.op \in {"wipecache", "rescan"} /\ GoOn
  BY DEF Scan, At, AtAny
<1>2. /\ UNCHANGED clientVars /\ UNCHANGED <<gtest_db, quick>> /\ (Answered \/ Unanswered)
      /\ scanning' \in BOOLEAN
  BY DEF Scan, CliInv, Values0
<1>3. Linked'
  BY <1>2, LinkedKept DEF CliInv, Values0
<1>4. Onward
  BY <1>2, SameVerdicts DEF CliInv
<1>5. Values0'
  BY <1>2, <1>4 DEF CliInv, Values0, Onward, clientVars
<1>6. now.op \notin {"new", "run", "exit", "forget", "fetch", "canPlayers"} \cup JudgeOps
      /\ now.op # "judge"
  BY <1>1 DEF JudgeOps
<1>7. UNCHANGED <<plan, tid, gplayers, dump>>
  BY <1>2 DEF clientVars
<1>8. Plainly(ScriptOps)
  BY <1>1, <1>4, <1>6, <1>7, PlainGoOn
<1> QED
  BY <1>1, <1>3, <1>5, <1>7, <1>8, PlainlyKept DEF CliInv

\* The steps that only pass time, ask, or change the connection.
LEMMA QuietStepsKept ==
  ASSUME CliInv,
         ConnectStep \/ Disconnect \/ WaitStep \/ SaveStep \/ Ask \/ PrintReport
  PROVE  CliInv'
<1>1. /\ todo # <<>> /\ GoOn
      /\ now.op \in {"connect", "disconnect", "wait", "save", "ask", "report"}
  BY DEF ConnectStep, Disconnect, WaitStep, SaveStep, Ask, PrintReport, At, AtAny
<1>2. UNCHANGED clientVars /\ UNCHANGED <<gtest_db, scanning, quick>>
  BY DEF ConnectStep, Disconnect, WaitStep, SaveStep, Ask, PrintReport, serverVars
<1>3. Linked'
  <2>1. guser \in BOOLEAN /\ Linked
    BY DEF CliInv, Values0
  <2>2. CASE ConnectStep
    BY <2>1, <2>2, LinkedKept DEF ConnectStep
  <2>3. CASE Disconnect
    BY <2>1, <2>3 DEF Disconnect, Hangup, Linked
  <2>4. CASE WaitStep \/ PrintReport
    BY <2>1, <2>4, LinkedKept DEF WaitStep, PrintReport
  <2>5. CASE SaveStep
    BY <2>1, <2>5, QueryLinked DEF SaveStep
  <2>6. CASE Ask
    BY <2>1, <2>6, LinkedKept DEF Ask
  <2> QED
    BY <2>2, <2>3, <2>4, <2>5, <2>6
<1>4. now.op \notin {"new", "run", "exit", "forget", "fetch", "canPlayers"} \cup JudgeOps
  BY <1>1 DEF JudgeOps
<1> QED
  BY <1>1, <1>2, <1>3, <1>4, QuietKept

LEMMA CheckStepKept == ASSUME CliInv, CheckStep PROVE CliInv'
<1>1. /\ todo # <<>> /\ GoOn /\ UNCHANGED clientVars /\ UNCHANGED <<scanning, quick>>
      /\ now.op \in {"check", "atMost", "notZero", "checkMix", "known"}
  BY DEF CheckStep, AtAny, serverVars
<1>2. Linked'
  BY QueryLinked DEF CheckStep, CliInv, Values0
<1>3. Onward /\ JudgedNow
  BY ExpectGives DEF CliInv, Values0, CheckStep
<1> QED
  BY <1>1, <1>2, <1>3, JudgingKept

LEMMA JudgeStepKept == ASSUME CliInv, JudgeStep PROVE CliInv'
<1>1. /\ todo # <<>> /\ GoOn /\ UNCHANGED clientVars /\ UNCHANGED <<scanning, quick>>
      /\ now.op \in {"judge", "skip"} /\ UNCHANGED linkVars
  BY DEF JudgeStep, AtAny, serverVars
<1>2. Linked'
  BY <1>1, LinkedKept DEF CliInv, Values0
<1>3. Onward /\ JudgedNow
  BY ExpectGives, SubTestGives DEF CliInv, Values0, JudgeStep
<1>4. UNCHANGED gsocket
  BY <1>1 DEF linkVars
<1> QED
  BY <1>1, <1>2, <1>3, <1>4, JudgingKept

LEMMA NotifiedKept == ASSUME CliInv, Notified PROVE CliInv'
<1>1. /\ todo # <<>> /\ GoOn /\ UNCHANGED clientVars /\ UNCHANGED <<scanning, quick>>
      /\ now.op = "scanning" /\ (Answered \/ Unanswered) /\ \E good : Expect(good)
  BY DEF Notified, At, AtAny, serverVars
<1>2. Linked'
  BY <1>1, LinkedKept DEF CliInv, Values0
<1>3. Onward /\ JudgedNow
  BY <1>1, ExpectGives DEF CliInv, Values0
<1> QED
  BY <1>1, <1>2, <1>3, JudgingKept

LEMMA ComparedKept == ASSUME CliInv, Compared PROVE CliInv'
<1>1. /\ todo # <<>> /\ GoOn /\ UNCHANGED clientVars /\ UNCHANGED <<scanning, quick>>
      /\ now.op \in {"note", "compare"}
  BY DEF Compared, AtAny, serverVars
<1>2. Linked'
  BY QueryLinked DEF Compared, CliInv, Values0
<1>3. CASE now.op = "note"
  BY <1>1, <1>2, <1>3, QuietKept DEF Compared, At, AtAny, NoSubTest, JudgeOps
<1>4. CASE now.op = "compare"
  BY <1>1, <1>2, <1>4, ExpectGives, JudgingKept DEF Compared, At, AtAny, CliInv, Values0
<1> QED
  BY <1>1, <1>3, <1>4

LEMMA GoingOn == ASSUME CliInv, todo # <<>>, GoOn PROVE Go(<<>>)
<1>1. Tail(todo) \in Seq(StepOf(AnyOps))
  BY DEF CliInv, Walking, Program
<1> QED
  BY <1>1 DEF GoOn, Go

LEMMA CanConnectKept == ASSUME CliInv, CanConnect PROVE CliInv'
<1>1. /\ todo # <<>> /\ GoOn /\ now.op = "canConnect"
      /\ UNCHANGED clientVars /\ UNCHANGED <<scanning, quick>> /\ cliConnect("login")
  BY DEF CanConnect, At, AtAny, serverVars
<1>2. Linked'
  BY <1>1, LinkedKept DEF CliInv, Values0
<1>3. Onward
  BY NoSubTestGives, CannotGives DEF CanConnect, CliInv, Values0
<1>4. now.op \notin {"new", "run", "exit", "forget", "fetch", "canPlayers", "judge"} \cup JudgeOps
  BY <1>1 DEF JudgeOps
<1> QED
  BY <1>1, <1>2, <1>3, <1>4, GoingOn, ScriptEmpty, BranchingKept

LEMMA WaitDoneKept == ASSUME CliInv, WaitDoneStep PROVE CliInv'
<1>1. /\ todo # <<>> /\ now.op = "waitDone"
      /\ UNCHANGED clientVars /\ UNCHANGED <<gtest_db, scanning, quick>>
      /\ Answered \/ Unanswered
  BY DEF WaitDoneStep, At, AtAny, serverVars
<1>2. Linked'
  BY <1>1, LinkedKept DEF CliInv, Values0
<1>3. now.op \notin {"new", "run", "exit", "forget", "fetch", "canPlayers", "judge"} \cup JudgeOps
  BY <1>1 DEF JudgeOps
<1>4. CASE GoOn
  BY <1>1, <1>2, <1>3, <1>4, QuietKept
<1>5. CASE UNCHANGED todo
  BY <1>1, <1>2, <1>3, <1>5, StayingKept
<1> QED
  BY <1>4, <1>5 DEF WaitDoneStep

\* The scripts that a branch puts in front.
LEMMA RegroupType == ASSUME NEW v \in {0, 1} PROVE Regroup(v) \in Scripts
<1>1. groupdiscs \in Subject /\ v \in Int
  BY DEF Subject, Setting, Pref, groupdiscs
<1>2. Set(groupdiscs, v) \in Scripts
  BY <1>1, Values
<1>3. Wipe \in Scripts /\ WaitDone \in Scripts
  BY PlainOps
<1> QED
  BY <1>2, <1>3, ScriptJoin DEF Regroup

LEMMA RestoreFlagsKept == ASSUME CliInv, RestoreFlags PROVE CliInv'
<1>1. /\ todo # <<>> /\ now.op = "restoreFlags"
      /\ UNCHANGED clientVars /\ UNCHANGED <<gtest_db, scanning, quick>> /\ UNCHANGED linkVars
  BY DEF RestoreFlags, At, AtAny, serverVars
<1>2. Linked'
  BY <1>1, LinkedKept DEF CliInv, Values0
<1>3. now.op \notin {"new", "run", "exit", "forget", "fetch", "canPlayers", "judge"} \cup JudgeOps
  BY <1>1 DEF JudgeOps
<1>4. Onward
  BY <1>1, SameVerdicts DEF CliInv
<1>5. \E steps \in Scripts : Go(steps)
  BY RegroupType, ScriptEmpty DEF RestoreFlags
<1> QED
  BY <1>1, <1>2, <1>3, <1>4, <1>5, BranchingKept

LEMMA SouvenirKept == ASSUME CliInv, Souvenir PROVE CliInv'
<1>1. /\ todo # <<>> /\ now.op = "souvenir"
      /\ UNCHANGED clientVars /\ UNCHANGED <<gtest_db, scanning, quick>>
      /\ Answered \/ Unanswered
  BY DEF Souvenir, At, AtAny, serverVars
<1>2. Linked'
  BY <1>1, LinkedKept DEF CliInv, Values0
<1>3. now.op \notin {"new", "run", "exit", "forget", "fetch", "canPlayers", "judge"} \cup JudgeOps
  BY <1>1 DEF JudgeOps
<1>4. Onward
  BY <1>1, SameVerdicts DEF CliInv
<1>5. \E steps \in Scripts : Go(steps)
  BY <1>1, NowIs, Values, ScriptEmpty DEF CliInv, Walking, Souvenir
<1> QED
  BY <1>1, <1>2, <1>3, <1>4, <1>5, BranchingKept

LEMMA ModelKept == ASSUME CliInv, Model PROVE CliInv'
<1>1. /\ todo # <<>> /\ now.op = "model"
      /\ UNCHANGED clientVars /\ UNCHANGED <<gtest_db, scanning, quick>>
      /\ Answered \/ Unanswered
  BY DEF Model, At, AtAny, serverVars
<1>2. Linked'
  BY <1>1, LinkedKept DEF CliInv, Values0
<1>3. now.op \notin {"new", "run", "exit", "forget", "fetch", "canPlayers", "judge"} \cup JudgeOps
  BY <1>1 DEF JudgeOps
<1>4. Onward
  BY <1>1, SameVerdicts DEF CliInv
<1>5. \E steps \in Scripts : Go(steps)
  BY <1>1, NowIs, MixerType, TellingType, PlainOps, ScriptJoin DEF CliInv, Walking, Model
<1> QED
  BY <1>1, <1>2, <1>3, <1>4, <1>5, BranchingKept

LEMMA BranchKept == ASSUME CliInv, Branch PROVE CliInv'
<1>1. /\ todo # <<>>
      /\ now.op \in {"ifConnected", "ifSecure", "ifConnectedFreely", "ifSouvenir", "ifPlaylists"}
      /\ UNCHANGED clientVars /\ UNCHANGED <<scanning, quick>> /\ UNCHANGED linkVars
  BY DEF Branch, At, AtAny, serverVars
<1>2. Linked'
  BY <1>1, LinkedKept DEF CliInv, Values0
<1>3. now.op \notin {"new", "run", "exit", "forget", "fetch", "canPlayers", "judge"} \cup JudgeOps
  BY <1>1 DEF JudgeOps
<1>4. Onward
  BY NoSubTestGives, ExpectGives DEF Branch, CliInv, Values0
<1>5. \E steps \in Scripts : Go(steps)
  <2>1. now.x \in Subject /\ 0 \in Int /\ 1 \in Int /\ authorize \in Subject
    BY <1>1, NowIs DEF CliInv, Walking, Subject, Setting, Pref, authorize
  <2>2. Set(now.x, 1) \in Scripts /\ Set(authorize, 0) \in Scripts
    BY <2>1, Values
  <2>3. gplayers \in Nat
    <3>1. gplayers \in {0, Players} /\ Players \in Nat /\ 0 \in Nat
      BY ServerAssumption DEF CliInv, Values0
    <3> QED
      BY <3>1
  <2>4. RescanPlaylistsScript(gplayers) \in Scripts
    BY <2>3, RescanPlaylistsType
  <2>5. Skip \in Scripts
    BY PlainOps, TellingType
  <2>6. SecurityScript \in Scripts /\ LoginScript(guser) \in Scripts
    BY SecurityType DEF CliInv, Values0
  <2>7. CASE At("ifConnected")
    BY <2>6, <2>7, ScriptEmpty DEF Branch, At, AtAny
  <2>8. CASE At("ifSecure")
    BY <1>1, <2>2, <2>8, ScriptEmpty, GoingOn DEF Branch, At, AtAny
  <2>9. CASE At("ifConnectedFreely")
    BY <2>6, <2>9, ScriptEmpty DEF Branch, At, AtAny
  <2>10. CASE At("ifSouvenir")
    BY <2>2, <2>10, ScriptEmpty DEF Branch, At, AtAny
  <2>11. CASE At("ifPlaylists")
    BY <2>4, <2>5, <2>11 DEF Branch, At, AtAny
  <2> QED
    BY <2>7, <2>8, <2>9, <2>10, <2>11 DEF Branch
<1> QED
  BY <1>1, <1>2, <1>3, <1>4, <1>5, BranchingKept

LEMMA CanDBKept == ASSUME CliInv, CanDB PROVE CliInv'
<1>1. /\ todo # <<>> /\ now.op \in {"canDB", "needSongs", "needGroups"}
      /\ UNCHANGED <<plan, tid, guser, gplayers, value, dump, drawn>> /\ UNCHANGED <<scanning, quick>>
  BY DEF CanDB, At, AtAny, serverVars
<1>2. Linked'
  BY LinkedKept, QueryLinked DEF CanDB, CliInv, Values0
<1>3. now.op \notin {"new", "run", "exit", "forget", "fetch", "canPlayers", "judge"} \cup JudgeOps
  BY <1>1 DEF JudgeOps
<1>4. Onward
  BY NoSubTestGives, CannotGives DEF CanDB, CliInv, Values0
<1>5. gRestoreGroupDisc' \in BOOLEAN
  BY DEF CanDB, CliInv, Values0
<1>6. Values0'
  BY <1>1, <1>4, <1>5 DEF CliInv, Values0, Onward
<1>7. \E steps \in Scripts : Go(steps)
  <2>1. WaitDone \o Plain("needSongs") \o Plain("needGroups") \in Scripts
    BY PlainOps, ScriptJoin DEF OtherOps
  <2>2. Regroup(1) \in Scripts
    BY RegroupType
  <2>3. CASE At("canDB")
    BY <2>1, <2>3, ScriptEmpty DEF CanDB, At, AtAny
  <2>4. CASE At("needSongs")
    BY <1>1, <2>4, ScriptEmpty, GoingOn DEF CanDB, At, AtAny
  <2>5. CASE At("needGroups")
    BY <1>1, <2>2, <2>5, ScriptEmpty, GoingOn DEF CanDB, At, AtAny
  <2> QED
    BY <2>3, <2>4, <2>5 DEF CanDB
<1>8. Plainly(ScriptOps)
  BY <1>1, <1>3, <1>4, <1>7, PlainGo
<1> QED
  BY <1>1, <1>2, <1>6, <1>8, PlainlyKept DEF CliInv

LEMMA TitlesKept == ASSUME CliInv, Titles PROVE CliInv'
<1>1. /\ todo # <<>> /\ now.op \in {"count", "draw", "searched"}
      /\ UNCHANGED <<plan, tid, guser, gplayers, gRestoreGroupDisc, value, dump>>
      /\ UNCHANGED <<scanning, quick>>
  BY DEF Titles, At, AtAny, serverVars, keepDump, clientVars
<1>2. Linked'
  BY LinkedKept, QueryLinked DEF Titles, CliInv, Values0
<1>3. now.op \notin {"new", "run", "exit", "forget", "fetch", "canPlayers", "judge"}
  BY <1>1
<1>4. Onward /\ (now.op \in JudgeOps => JudgedNow)
  <2>1. CASE now.op = "draw"
    BY <2>1, NoSubTestGives DEF Titles, At, AtAny, JudgeOps, CliInv, Values0
  <2>2. CASE now.op # "draw"
    BY <2>2, ExpectGives DEF Titles, At, AtAny, CliInv, Values0
  <2> QED
    BY <2>1, <2>2
<1>5. /\ drawn' \in [found : Nat, blank : Nat]
      /\ drawn'.found <= dump.found /\ drawn'.blank <= dump.blank
  <2>1. /\ drawn \in [found : Nat, blank : Nat] /\ dump \in [found : 0 .. Songs, blank : 0 .. 1]
        /\ drawn.found <= dump.found /\ drawn.blank <= dump.blank
    BY DEF CliInv, Values0
  <2>2. \/ drawn' = [found |-> 0, blank |-> 0]
        \/ drawn.found < dump.found /\ drawn' = [drawn EXCEPT !.found = @ + 1]
        \/ drawn.blank < dump.blank /\ drawn' = [drawn EXCEPT !.blank = 1]
        \/ UNCHANGED drawn
    BY DEF Titles, clientVars
  <2>3. Songs \in Nat
    BY ServerAssumption
  <2> QED
    BY <2>1, <2>2, <2>3
<1>6. Values0'
  BY <1>1, <1>4, <1>5 DEF CliInv, Values0, Onward
<1>7. Plainly(ScriptOps)
  <2>1. \A op \in {"searched", "draw"} : Plain(op) \in Scripts
    BY PlainOps, TellingType DEF JudgeOps, OtherOps
  <2>2. \/ GoOn \/ Go(Plain("searched")) \/ Go(Plain("draw")) \/ Go(<<>>)
        \/ now.op = "draw" /\ UNCHANGED todo
    BY DEF Titles, At, AtAny
  <2>3. CASE now.op = "draw" /\ UNCHANGED todo
    BY <1>1, <1>3, <1>4, <2>3, PlainStay DEF JudgeOps
  <2>4. CASE \E steps \in Scripts : Go(steps)
    BY <1>1, <1>3, <1>4, <2>4, PlainGo
  <2>5. GoOn => \E steps \in Scripts : Go(steps)
    BY <1>1, ScriptEmpty, GoingOn
  <2> QED
    BY <2>1, <2>2, <2>3, <2>4, <2>5, ScriptEmpty
<1> QED
  BY <1>1, <1>2, <1>6, <1>7, PlainlyKept DEF CliInv

LEMMA TagsKept == ASSUME CliInv, Tags PROVE CliInv'
<1>1. /\ todo # <<>> /\ now.op \in {"tag", "sort", "data", "sameData", "tagInfo", "noTag"}
      /\ UNCHANGED clientVars /\ UNCHANGED <<scanning, quick>>
  BY DEF Tags, At, AtAny, serverVars
<1>2. Linked'
  BY LinkedKept DEF Tags, CliInv, Values0
<1>3. now.op \notin {"new", "run", "exit", "forget", "fetch", "canPlayers", "judge"}
  BY <1>1
<1>4. Onward /\ (now.op \in JudgeOps => JudgedNow)
  <2>1. CASE now.op \in {"tag", "data"}
    BY <2>1, NoSubTestGives, ExpectGives, SubTestGives DEF Tags, At, AtAny, JudgeOps, CliInv,
       Values0
  <2>2. CASE now.op \notin {"tag", "data"}
    BY <2>2, ExpectGives, SubTestGives DEF Tags, At, AtAny, CliInv, Values0
  <2> QED
    BY <2>1, <2>2
<1>5. \E steps \in Scripts : Go(steps)
  BY <1>1, PlainOps, TellingType, ScriptEmpty, GoingOn DEF JudgeOps, Tags
<1> QED
  BY <1>1, <1>2, <1>3, <1>4, <1>5, BranchingKept

\* The server's scan ends; the program waits for ever.
LEMMA OthersKept == ASSUME CliInv, ScanEnds \/ UNCHANGED vars PROVE CliInv'
<1>1. /\ UNCHANGED <<todo, gtest_db, gsocket, gcli, link, logged, drops>>
      /\ UNCHANGED <<plan, tid, guser, gplayers, gRestoreGroupDisc, value, dump, drawn>>
      /\ scanning' \in BOOLEAN /\ quick' \in BOOLEAN
  BY DEF CliInv, Values0, ScanEnds, vars, clientVars, linkVars, serverVars
<1>2. Values0'
  BY <1>1 DEF CliInv, Values0
<1>3. Linked'
  BY <1>1 DEF CliInv, Linked
<1>4. todo' \in Program /\ NewsRun(todo)' /\ ReportLast(todo)'
  BY <1>1 DEF CliInv, Walking
<1>5. Begins' /\ Fetches' /\ Forgets'
  BY <1>1 DEF CliInv, Walking, Begins, Fetches, Forgets
<1>6. Told' /\ Begun' /\ Ahead'
  BY <1>1 DEF CliInv, Walking, Told, Begun, Ahead, VerdictAhead, VerdictAt
<1> QED
  BY <1>2, <1>3, <1>4, <1>5, <1>6 DEF CliInv, Walking

\* As many steps as times.
LEMMA TimesLen ==
  ASSUME NEW n \in Nat, NEW S, NEW s \in Seq(S), Len(s) = 1
  PROVE  Times(n, s) \in Seq(S) /\ Len(Times(n, s)) = n
<1> DEFINE ss == [i \in 1 .. n |-> s]
<1>1. Len(ss) = n /\ (n = 0 => ss = <<>>) /\ \A i \in 1 .. n : ss[i] = s
  OBVIOUS
<1>2. Times(n, s) = FlattenSeq(ss)
  BY DEF Times
<1> HIDE DEF ss
<1>3. FlattenSeq(ss) \in Seq(S)
  BY <1>1, FlatType
<1>4. n = 0 => FlattenSeq(ss) = <<>>
  BY <1>1 DEF FlattenSeq
<1>5. CASE n # 0
  <2>1. PICK flat : /\ FlattenSeq(ss) = flat[n]
                    /\ \A i \in 1 .. n : flat[i] = Joined(ss, i, flat[i - 1])
    BY <1>1, <1>5, FlatSteps
  <2> DEFINE Good(i) == flat[i] \in Seq(S) /\ Len(flat[i]) = i
             Not == {i \in 1 .. n : ~Good(i)}
  <2>2. Not = {}
    <3> SUFFICES ASSUME Not # {} PROVE FALSE
      OBVIOUS
    <3>1. PICK i \in Not : \A m \in Not : i <= m
      <4>1. Not \in SUBSET Nat
        OBVIOUS
      <4> HIDE DEF Not
      <4> QED
        BY <4>1, Least
    <3>2. i \in 1 .. n /\ flat[i] = Joined(ss, i, flat[i - 1]) /\ ~Good(i) /\ ss[i] = s
      BY <1>1, <2>1
    <3>3. i # 1
      BY <3>2 DEF Joined
    <3>4. i - 1 \in 1 .. n /\ ~(i <= i - 1)
      BY <3>2, <3>3
    <3>5. Good(i - 1)
      <4> HIDE DEF Good
      <4> QED
        BY <3>1, <3>4
    <3>6. flat[i] = flat[i - 1] \o s
      BY <3>2, <3>3 DEF Joined
    <3>7. flat[i] \in Seq(S) /\ Len(flat[i]) = Len(flat[i - 1]) + Len(s)
      BY <3>5, <3>6, ConcatProperties
    <3> HIDE DEF Not
    <3> QED
      BY <3>2, <3>5, <3>7
  <2>3. Good(n)
    <3>1. n \in 1 .. n
      BY <1>5
    <3> HIDE DEF Good
    <3> QED
      BY <2>2, <3>1
  <2> QED
    BY <1>2, <2>1, <2>3
<1> QED
  BY <1>2, <1>3, <1>4, <1>5

\* The titles are fetched once, as many as the server says it has.
LEMMA DumpKept == ASSUME CliInv, DumpDB, At("dump") PROVE CliInv'
<1>1. /\ todo # <<>> /\ now.op = "dump" /\ UNCHANGED clientVars /\ UNCHANGED <<scanning, quick>>
      /\ UNCHANGED gtest_db
  BY DEF DumpDB, At, AtAny, serverVars, keepDump, clientVars, NoSubTest
<1>2. Linked'
  BY <1>1, LinkedKept, QueryLinked DEF DumpDB, At, AtAny, CliInv, Values0
<1>3. now.op \notin {"new", "run", "exit", "forget", "fetch", "canPlayers", "judge"} \cup JudgeOps
  BY <1>1 DEF JudgeOps
<1>4. Onward
  BY <1>1, SameVerdicts DEF CliInv
<1>5. CASE GoOn
  BY <1>1, <1>2, <1>3, <1>5, QuietKept
<1>6. CASE dump.found + dump.blank = 0
           /\ \E v \in Totals("songs") \cup {Undef} : Go(Times(Num(v), Plain("fetch")))
  <2>1. Songs \in Nat /\ dump.found \in 0 .. Songs /\ dump.blank \in 0 .. 1
    BY ServerAssumption DEF CliInv, Values0
  <2>2. dump.found = 0
    BY <1>6, <2>1
  <2>3. \A v \in Totals("songs") \cup {Undef} : Num(v) \in 0 .. Songs
    BY <2>1 DEF Totals, Full, Num, Undef
  <2>4. PICK n \in 0 .. Songs : Go(Times(n, Plain("fetch")))
    BY <1>6, <2>3
  <2> DEFINE ops == {"fetch"}
             steps == Times(n, Plain("fetch"))
  <2>5. /\ ops \subseteq AnyOps /\ ops \cap Marks = {} /\ "fetch" \in ops /\ "run" \notin ops
        /\ "forget" \notin ops
    BY DEF AnyOps, Marks
  <2>6. steps \in Seq(StepOf(ops)) /\ Len(steps) = n
    BY <2>5, PlainStep, TimesLen
  <2>7. todo' = steps \o Tail(todo)
    BY <2>4 DEF Go
  <2>8. todo \in Program /\ todo[1].op = "dump"
    BY <1>1, NowIs DEF CliInv, Walking
  <2>9. \A k \in 1 .. n : todo'[k].op = "fetch"
    <3> HIDE DEF steps
    <3>1. \A k \in 1 .. Len(steps) : todo'[k].op \in ops
      BY <1>1, <2>5, <2>6, <2>7, <2>8, Pushed
    <3> QED
      BY <2>6, <3>1
  <2>10. \A k \in 1 .. Len(todo') : todo'[k].op = "fetch" => k \in 1 .. n
    <3> HIDE DEF steps
    <3>1. /\ Len(todo) \in Nat
          /\ \A k \in 1 .. Len(todo') :
              k \in 1 .. Len(steps) \/ (k - Len(steps) + 1 \in 2 .. Len(todo)
                                        /\ todo'[k] = todo[k - Len(steps) + 1])
      BY <1>1, <2>5, <2>6, <2>7, <2>8, Pushed
    <3>2. \A k \in 1 .. Len(todo) : todo[k].op # "fetch"
      <4> SUFFICES ASSUME NEW k \in 1 .. Len(todo), todo[k].op = "fetch" PROVE FALSE
        OBVIOUS
      <4>1. 1 \in 1 .. k
        OBVIOUS
      <4> QED
        BY <2>8, <4>1 DEF CliInv, Walking, Fetches
    <3>3. \A k \in 2 .. Len(todo) : k \in 1 .. Len(todo)
      BY <3>1
    <3>4. \A k \in 1 .. Len(todo') :
            k \in 1 .. n \/ (k - n + 1 \in 2 .. Len(todo) /\ todo'[k] = todo[k - n + 1])
      BY <2>6, <3>1
    <3> QED
      BY <3>2, <3>3, <3>4
  <2>11. Fetches'
    <3>1. UNCHANGED dump
      BY <1>1 DEF clientVars
    <3>2. ASSUME NEW k \in 1 .. Len(todo'), todo'[k].op = "fetch"
          PROVE  k + dump.found <= Songs /\ \A j \in 1 .. k : todo'[j].op = "fetch"
      BY <2>1, <2>2, <2>9, <2>10, <3>2
    <3> QED
      BY <3>1, <3>2 DEF Fetches
  <2> HIDE DEF steps, ops
  <2>12. UNCHANGED <<plan, tid, gplayers>>
    BY <1>1 DEF clientVars
  <2>13. /\ todo[1].op \notin JudgeOps /\ todo[1].op # "run" /\ todo[1].op # "canPlayers"
         /\ todo[1].op # "new" /\ todo[1].op # "judge" /\ todo[1].op \notin {"exit", "forget"}
    BY <2>8 DEF JudgeOps
  <2>14. todo' \in Program
    BY <1>1, <2>5, <2>6, <2>7, <2>8, Pushed
  <2>15. NewsRun(todo)' /\ ReportLast(todo)'
    BY <1>1, <2>5, <2>6, <2>7, <2>8, ShapeKept DEF CliInv, Walking
  <2>16. Begins'
    BY <1>1, <2>5, <2>6, <2>7, <2>8, <2>12, <2>13, BeginsKept DEF CliInv, Walking
  <2>17. Forgets'
    BY <1>1, <2>5, <2>6, <2>7, <2>8, <2>12, <2>13, ForgetsKept DEF CliInv, Walking
  <2>18. Told'
    BY <1>1, <1>4, <2>5, <2>6, <2>7, <2>8, <2>12, <2>13, ToldKept DEF CliInv, Walking
  <2>19. Ahead' /\ Begun'
    BY <1>1, <1>4, <2>5, <2>6, <2>7, <2>8, <2>12, <2>13, AheadKept DEF CliInv, Walking
  <2>20. Values0'
    BY <1>1, <1>4, ValuesKept DEF CliInv
  <2> QED
    BY <1>2, <2>11, <2>14, <2>15, <2>16, <2>17, <2>18, <2>19, <2>20 DEF CliInv, Walking
<1>7. ~(dump.found + dump.blank > 0) => dump.found + dump.blank = 0
  <2>1. Songs \in Nat /\ dump.found \in 0 .. Songs /\ dump.blank \in 0 .. 1
    BY ServerAssumption DEF CliInv, Values0
  <2> QED
    BY <2>1
<1>8. \/ GoOn
      \/ /\ ~(dump.found + dump.blank > 0)
         /\ \E v \in Totals("songs") \cup {Undef} : Go(Times(Num(v), Plain("fetch")))
  BY <1>1 DEF DumpDB, At, AtAny
<1> QED
  BY <1>5, <1>6, <1>7, <1>8

LEMMA FetchKept == ASSUME CliInv, DumpDB, At("fetch") PROVE CliInv'
<1>1. /\ todo # <<>> /\ now.op = "fetch" /\ GoOn
      /\ UNCHANGED <<plan, tid, guser, gplayers, gRestoreGroupDisc, value, drawn>>
      /\ UNCHANGED <<scanning, quick>> /\ UNCHANGED gtest_db /\ (Answered \/ Unanswered)
      /\ dump' = [dump EXCEPT !.found = @ + 1] \/ dump' = [dump EXCEPT !.blank = 1]
  BY DEF DumpDB, At, AtAny, serverVars, keepDump, NoSubTest
<1>2. Linked'
  BY <1>1, LinkedKept DEF CliInv, Values0
<1>3. todo \in Program /\ todo[1].op = "fetch" /\ Len(todo) \in Nat \ {0} /\ 1 \in 1 .. Len(todo)
  BY <1>1, NowIs DEF CliInv, Walking
<1>4. Onward
  BY <1>1, SameVerdicts DEF CliInv
<1>5. 1 + dump.found <= Songs
  BY <1>3 DEF CliInv, Walking, Fetches
<1>6. /\ Songs \in Nat /\ dump \in [found : 0 .. Songs, blank : 0 .. 1]
      /\ drawn \in [found : Nat, blank : Nat]
      /\ drawn.found <= dump.found /\ drawn.blank <= dump.blank
  BY ServerAssumption DEF CliInv, Values0
<1>7. /\ dump' \in [found : 0 .. Songs, blank : 0 .. 1] /\ dump'.found <= dump.found + 1
      /\ drawn.found <= dump'.found /\ drawn.blank <= dump'.blank /\ dump'.found \in Nat
  BY <1>1, <1>5, <1>6
<1>8. Values0'
  BY <1>1, <1>4, <1>7 DEF CliInv, Values0, Onward
<1>9. todo' = <<>> \o Tail(todo)
  BY <1>1, GoingOn DEF Go
<1> DEFINE ops == ScriptOps
<1>10. /\ <<>> \in Seq(StepOf(ops)) /\ ops \subseteq AnyOps /\ ops \cap Marks = {}
       /\ "fetch" \notin ops /\ "run" \notin ops /\ "forget" \notin ops
  BY OpsFacts
<1> HIDE DEF ops
<1>11. /\ todo[1].op \notin JudgeOps /\ todo[1].op # "run" /\ todo[1].op # "canPlayers"
       /\ todo[1].op # "new" /\ todo[1].op # "judge" /\ todo[1].op \notin {"exit", "forget"}
  BY <1>3 DEF JudgeOps
<1>12. Fetches'
  <2> DEFINE N == Len(todo)
             M == Len(todo')
  <2>1. N \in Nat /\ M = N - 1 /\ \A k \in 2 .. N : todo'[k - 1] = todo[k]
    BY <1>1, <1>3, HeadTailProperties DEF Program, GoOn
  <2>2. dump.found \in Nat /\ dump'.found \in Nat
    BY <1>6, <1>7
  <2> HIDE DEF N, M
  <2>3. \A k \in 1 .. N : todo[k].op = "fetch" =>
          k + dump.found <= Songs /\ \A j \in 1 .. k : todo[j].op = "fetch"
    BY DEF CliInv, Walking, Fetches, N
  <2>4. ASSUME NEW k \in 1 .. M, todo'[k].op = "fetch"
        PROVE  k + dump'.found <= Songs /\ \A j \in 1 .. k : todo'[j].op = "fetch"
    <3>1. k + 1 \in 2 .. N /\ k + 1 \in 1 .. N /\ k + 1 - 1 = k
      BY <2>1
    <3>2. todo[k + 1].op = "fetch"
      BY <2>1, <2>4, <3>1
    <3>3. k + 1 + dump.found <= Songs /\ \A j \in 1 .. k + 1 : todo[j].op = "fetch"
      BY <2>3, <3>1, <3>2
    <3>4. \A j \in 1 .. k : j + 1 \in 1 .. k + 1 /\ j + 1 \in 2 .. N /\ j + 1 - 1 = j
      BY <2>1
    <3>5. \A j \in 1 .. k : todo'[j].op = "fetch"
      BY <2>1, <3>3, <3>4
    <3>6. k + dump'.found <= Songs
      BY <1>6, <1>7, <2>2, <3>3
    <3> QED
      BY <3>5, <3>6
  <2> QED
    BY <2>4 DEF Fetches, M
<1>14. todo' \in Program
  BY <1>1, <1>3, <1>9, <1>10, Pushed
<1>15. NewsRun(todo)' /\ ReportLast(todo)'
  BY <1>1, <1>3, <1>9, <1>10, ShapeKept DEF CliInv, Walking
<1>16. Begins'
  BY <1>1, <1>3, <1>9, <1>10, <1>11, BeginsKept DEF CliInv, Walking
<1>17. Forgets'
  BY <1>1, <1>3, <1>9, <1>10, <1>11, ForgetsKept DEF CliInv, Walking
<1>18. Told'
  BY <1>1, <1>3, <1>4, <1>9, <1>10, <1>11, ToldKept DEF CliInv, Walking
<1>19. Ahead' /\ Begun'
  BY <1>1, <1>3, <1>4, <1>9, <1>10, <1>11, AheadKept DEF CliInv, Walking
<1> QED
  BY <1>2, <1>8, <1>12, <1>14, <1>15, <1>16, <1>17, <1>18, <1>19 DEF CliInv, Walking

LEMMA DumpDBKept == ASSUME CliInv, DumpDB PROVE CliInv'
BY DumpKept, FetchKept DEF DumpDB

-----------------------------------------------------------------------------
(* The steps that the program's shape is about.                            *)

\* The program goes on by one step: all of its shape but that of Forgets.
LEMMA TailKept ==
  ASSUME CliInv, todo # <<>>, GoOn, UNCHANGED <<plan, tid, gplayers, dump>>, Onward,
         now.op \notin {"new", "run", "fetch"},
         JudgedNow \/ now.op \notin JudgeOps \cup {"canPlayers"}
  PROVE  /\ todo' \in Program /\ NewsRun(todo)' /\ ReportLast(todo)' /\ Begins' /\ Fetches'
         /\ Told' /\ Begun' /\ Ahead'
<1> DEFINE ops == ScriptOps
           steps == <<>>
<1>1. todo \in Program /\ todo[1] = now /\ todo' = steps \o Tail(todo) /\ steps \in Seq(StepOf(ops))
  BY NowIs, GoingOn DEF CliInv, Walking, Go
<1>2. ops \subseteq AnyOps /\ ops \cap Marks = {} /\ "fetch" \notin ops /\ "run" \notin ops
  BY OpsFacts
<1> HIDE DEF ops, steps
<1>3. todo' \in Program
  BY <1>1, <1>2, Pushed
<1>4. NewsRun(todo)' /\ ReportLast(todo)'
  BY <1>1, <1>2, ShapeKept DEF CliInv, Walking
<1>5. Begins'
  BY <1>1, <1>2, BeginsKept DEF CliInv, Walking
<1>6. Fetches'
  BY <1>1, <1>2, FetchesKept DEF CliInv, Walking
<1>7. Told'
  BY <1>1, <1>2, ToldKept DEF CliInv, Walking
<1>8. Ahead' /\ Begun'
  BY <1>1, <1>2, AheadKept DEF CliInv, Walking
<1> QED
  BY <1>3, <1>4, <1>5, <1>6, <1>7, <1>8

LEMMA Shifted ==
  ASSUME todo \in Program, todo # <<>>, GoOn
  PROVE  /\ Len(todo) \in Nat \ {0} /\ Len(todo') = Len(todo) - 1
         /\ \A k \in 2 .. Len(todo) : k - 1 \in 1 .. Len(todo') /\ todo'[k - 1] = todo[k]
         /\ \A k \in 1 .. Len(todo') : k + 1 \in 2 .. Len(todo) /\ todo'[k] = todo[k + 1]
<1>1. todo \in Seq(StepOf(AnyOps)) /\ Len(todo) \in Nat \ {0}
  BY NowIs DEF Program
<1>2. /\ Len(Tail(todo)) = Len(todo) - 1
      /\ \A k \in 1 .. Len(todo) - 1 : Tail(todo)[k] = todo[k + 1]
  BY <1>1, HeadTailProperties
<1>3. Len(todo') = Len(todo) - 1 /\ \A k \in 1 .. Len(todo) - 1 : todo'[k] = todo[k + 1]
  BY <1>2 DEF GoOn
<1> DEFINE N == Len(todo)
           M == Len(todo')
<1> HIDE DEF N, M
<1>4. N \in Nat \ {0} /\ M = N - 1 /\ \A k \in 1 .. N - 1 : todo'[k] = todo[k + 1]
  BY <1>1, <1>3 DEF N, M
<1>5. \A k \in 1 .. M : k + 1 \in 2 .. N /\ todo'[k] = todo[k + 1]
  BY <1>4
<1>6. ASSUME NEW k \in 2 .. N PROVE k - 1 \in 1 .. M /\ todo'[k - 1] = todo[k]
  BY <1>4
<1> QED
  BY <1>4, <1>5, <1>6 DEF N, M

LEMMA ExitKept == ASSUME CliInv, Exit PROVE CliInv'
<1>1. /\ todo # <<>> /\ now.op = "exit" /\ GoOn /\ UNCHANGED clientVars
      /\ UNCHANGED <<gtest_db, scanning, quick>>
      /\ \/ Heard /\ link' = FALSE /\ UNCHANGED <<gsocket, gcli, logged, drops>>
         \/ Unanswered
  BY DEF Exit, At, AtAny, serverVars
<1>2. Linked'
  <2>1. CASE Unanswered
    BY <2>1, LinkedKept DEF CliInv, Values0
  <2>2. CASE link' = FALSE /\ UNCHANGED <<gsocket, gcli, logged, drops>>
    BY <2>2 DEF CliInv, Linked
  <2> QED
    BY <1>1, <2>1, <2>2
<1>3. Onward /\ UNCHANGED <<plan, tid, gplayers, dump>>
  BY <1>1, SameVerdicts DEF CliInv, clientVars
<1>4. Values0'
  BY <1>1, <1>3, ValuesKept DEF CliInv
<1>5. now.op \notin {"new", "run", "fetch"} /\ now.op \notin JudgeOps \cup {"canPlayers"}
  BY <1>1 DEF JudgeOps
<1>6. todo \in Program /\ todo[1].op = "exit"
  BY <1>1, NowIs DEF CliInv, Walking
<1>7. ~(gsocket' /\ link') /\ (~(gsocket /\ link) => ~gsocket')
  BY <1>1 DEF CliInv, Linked, Unanswered, Hangup, Sent, Heard
<1>8. Forgets'
  <2> DEFINE N == Len(todo)
             M == Len(todo')
  <2>1. /\ N \in Nat \ {0} /\ M = N - 1
        /\ \A k \in 2 .. N : k - 1 \in 1 .. M /\ todo'[k - 1] = todo[k]
        /\ \A k \in 1 .. M : k + 1 \in 2 .. N /\ todo'[k] = todo[k + 1]
    BY <1>1, <1>6, Shifted
  <2>2. \A k \in 1 .. N : todo[k].op = "forget" =>
          \/ k = 3 /\ todo[2].op = "judge" /\ ~(gsocket /\ link)
          \/ k = 4 /\ todo[2].op = "exit" /\ todo[3].op = "judge"
    BY <1>6 DEF CliInv, Walking, Forgets
  <2> HIDE DEF N, M
  <2>3. ASSUME NEW k \in 1 .. M, todo'[k].op = "forget"
        PROVE  \/ k = 2 /\ todo'[1].op = "judge" /\ ~gsocket'
               \/ k = 3 /\ todo'[1].op = "exit" /\ todo'[2].op = "judge" /\ ~(gsocket' /\ link')
    <3>1. k + 1 \in 1 .. N /\ todo[k + 1].op = "forget" /\ todo'[1] = todo[2]
      BY <2>1, <2>3
    <3>2. CASE k + 1 = 3 /\ todo[2].op = "judge" /\ ~(gsocket /\ link)
      BY <1>7, <3>1, <3>2
    <3>3. CASE k + 1 = 4 /\ todo[2].op = "exit" /\ todo[3].op = "judge"
      BY <1>7, <2>1, <3>1, <3>3
    <3> QED
      BY <2>2, <3>1, <3>2, <3>3
  <2> QED
    BY <2>3 DEF Forgets, M
<1> QED
  BY <1>1, <1>2, <1>3, <1>4, <1>5, <1>8, TailKept DEF CliInv, Walking

LEMMA ForgetKept == ASSUME CliInv, Forget PROVE CliInv'
<1>1. /\ todo # <<>> /\ now.op = "forget" /\ GoOn /\ UNCHANGED clientVars
      /\ UNCHANGED <<gtest_db, scanning, quick>> /\ gcli' = FALSE
      /\ UNCHANGED <<gsocket, link, logged, drops>>
  BY DEF Forget, At, AtAny, serverVars
<1>2. todo \in Program /\ todo[1].op = "forget" /\ 1 \in 1 .. Len(todo)
  BY <1>1, NowIs DEF CliInv, Walking
<1>3. ~gsocket
  BY <1>2 DEF CliInv, Walking, Forgets
<1>4. Linked'
  BY <1>1, <1>3 DEF CliInv, Linked
<1>5. Onward /\ UNCHANGED <<plan, tid, gplayers, dump>>
  BY <1>1, SameVerdicts DEF CliInv, clientVars
<1>6. Values0'
  BY <1>1, <1>5, ValuesKept DEF CliInv
<1>7. now.op \notin {"new", "run", "fetch"} /\ now.op \notin JudgeOps \cup {"canPlayers"}
  BY <1>1 DEF JudgeOps
<1>8. Forgets'
  <2> DEFINE N == Len(todo)
             M == Len(todo')
  <2>1. N \in Nat \ {0} /\ \A k \in 1 .. M : k + 1 \in 2 .. N /\ todo'[k] = todo[k + 1]
    BY <1>1, <1>2, Shifted
  <2>2. \A k \in 1 .. N : todo[k].op = "forget" => k = 1
    BY <1>2 DEF CliInv, Walking, Forgets
  <2> HIDE DEF N, M
  <2>3. ASSUME NEW k \in 1 .. M PROVE todo'[k].op # "forget"
    BY <2>1, <2>2
  <2> QED
    BY <2>3 DEF Forgets, M
<1> QED
  BY <1>1, <1>4, <1>5, <1>6, <1>7, <1>8, TailKept DEF CliInv, Walking

LEMMA CanPlayersKept == ASSUME CliInv, CanPlayers PROVE CliInv'
<1>1. /\ todo # <<>> /\ now.op = "canPlayers" /\ UNCHANGED <<scanning, quick>>
      /\ UNCHANGED <<plan, tid, guser, gRestoreGroupDisc, value, dump, drawn>>
  BY DEF CanPlayers, At, AtAny, serverVars
<1>2. Linked'
  BY LinkedKept DEF CanPlayers, CliInv, Values0
<1>3. Onward
  BY NoSubTestGives, CannotGives DEF CanPlayers, CliInv, Values0
<1>4. Players \in Nat \ {0} /\ gplayers \in {0, Players}
  BY ServerAssumption DEF CliInv, Values0
<1>5. gplayers' \in {0, Players} /\ (JudgedNow \/ gplayers' > 0)
  <2>1. CASE ~Starting /\ NoSubTest /\ UNCHANGED gplayers
    BY <1>4, <2>1 DEF Starting, JudgedNow, NoSubTest
  <2>2. CASE gplayers > 0 /\ UNCHANGED gplayers
    BY <1>4, <2>2
  <2>3. CASE gplayers' = Players
    BY <1>4, <2>3
  <2>4. CASE Cannot /\ UNCHANGED gplayers
    BY <1>4, <2>4, CannotGives DEF CliInv, Values0
  <2> QED
    BY <2>1, <2>2, <2>3, <2>4 DEF CanPlayers
<1>6. Values0'
  BY <1>1, <1>3, <1>5 DEF CliInv, Values0, Onward
<1>7. PICK steps \in Scripts : Go(steps)
  BY <1>1, <1>4, PlainOps, ScriptTimes, ScriptEmpty, GoingOn DEF OtherOps, CanPlayers
<1> DEFINE ops == ScriptOps
<1>8. todo \in Program /\ todo[1].op = "canPlayers"
  BY <1>1, NowIs DEF CliInv, Walking
<1>9. todo' = steps \o Tail(todo) /\ steps \in Seq(StepOf(ops))
  BY <1>7 DEF Go, Scripts
<1>10. /\ ops \subseteq AnyOps /\ ops \cap Marks = {} /\ "fetch" \notin ops /\ "run" \notin ops
       /\ "forget" \notin ops
  BY OpsFacts
<1>11. todo[1].op \notin JudgeOps
  BY <1>8 DEF JudgeOps
<1> HIDE DEF ops
<1>13. todo' \in Program
  BY <1>1, <1>8, <1>9, <1>10, Pushed
<1>14. NewsRun(todo)' /\ ReportLast(todo)'
  BY <1>1, <1>8, <1>9, <1>10, ShapeKept DEF CliInv, Walking
<1>15. Begins'
  BY <1>1, <1>8, <1>9, <1>10, BeginsKept DEF CliInv, Walking
<1>16. Fetches'
  BY <1>1, <1>8, <1>9, <1>10, FetchesKept DEF CliInv, Walking
<1>17. Forgets'
  BY <1>1, <1>8, <1>9, <1>10, ForgetsKept DEF CliInv, Walking
<1>18. Told'
  BY <1>1, <1>3, <1>5, <1>8, <1>9, <1>10, <1>11, ToldKept DEF CliInv, Walking
<1>19. Ahead' /\ Begun'
  BY <1>1, <1>3, <1>8, <1>9, <1>10, AheadKept DEF CliInv, Walking
<1> QED
  BY <1>2, <1>6, <1>13, <1>14, <1>15, <1>16, <1>17, <1>18, <1>19 DEF CliInv, Walking

\* A test begins: the one before it has its verdict, and the new one's is ahead.
LEMMA NewKept == ASSUME CliInv, New PROVE CliInv'
<1> DEFINE t == now.x[2]
           N == Len(todo)
           M == Len(todo')
<1>1. /\ todo # <<>> /\ now.op = "new" /\ GoOn /\ tid' = t
      /\ gtest_db' = [gtest_db EXCEPT ![t] = Start]
      /\ UNCHANGED <<plan, guser, gplayers, gRestoreGroupDisc, value, dump, drawn>>
      /\ UNCHANGED <<scanning, quick>> /\ UNCHANGED linkVars
  BY DEF New, At, AtAny, serverVars
<1>2. todo \in Program /\ now = todo[1] /\ 1 \in 1 .. Len(todo)
  BY <1>1, NowIs DEF CliInv, Walking
<1>3. t \in Test /\ RunAhead(todo, 1, t)
  BY <1>1, <1>2 DEF CliInv, Walking, NewsRun
<1>4. /\ gtest_db \in [Test -> Verdicts] /\ gtest_db' \in [Test -> Verdicts]
      /\ gtest_db'[t] = Start /\ \A u \in Test : u # t => gtest_db'[u] = gtest_db[u]
  <2>1. gtest_db \in [Test -> Verdicts] /\ Start \in Verdicts
    BY DEF CliInv, Values0, Verdicts
  <2> HIDE DEF t
  <2> QED
    BY <1>1, <1>3, <2>1
<1>5. /\ N \in Nat \ {0} /\ M = N - 1
      /\ \A k \in 2 .. N : k - 1 \in 1 .. M /\ todo'[k - 1] = todo[k]
      /\ \A k \in 1 .. M : k + 1 \in 2 .. N /\ todo'[k] = todo[k + 1]
  BY <1>1, <1>2, Shifted
<1>6. PICK r \in 2 .. N :
        /\ todo[r].op = "run" /\ \A j \in 2 .. r : todo[j].op \notin Marks
        /\ t \in NeedsPlayers => \E j \in 2 .. r - 1 : todo[j].op = "canPlayers"
  BY <1>3 DEF RunAhead
<1>7. tid \in Test => gtest_db[tid] \in Judged
  <2> SUFFICES ASSUME tid \in Test PROVE gtest_db[tid] \in Judged
    OBVIOUS
  <2>1. gtest_db[tid] # None /\ gtest_db[tid] \in Verdicts
    BY <1>4 DEF CliInv, Walking, Begun
  <2>2. gtest_db[tid] # Start
    <3> SUFFICES ASSUME gtest_db[tid] = Start PROVE FALSE
      OBVIOUS
    <3>1. PICK q \in Nat : VerdictAt(q)
      BY DEF CliInv, Walking, Told, VerdictAhead
    <3>2. 1 \in 1 .. q
      BY <3>1 DEF VerdictAt
    <3> QED
      BY <1>1, <1>2, <3>1, <3>2 DEF VerdictAt, Marks
  <2> QED
    BY <2>1, <2>2 DEF Verdicts
<1> HIDE DEF t
<1>8. Linked'
  BY <1>1, LinkedKept DEF CliInv, Values0
<1>9. Values0'
  BY <1>1, <1>3, <1>4 DEF CliInv, Values0
<1> DEFINE steps == <<>>
           ops == ScriptOps
<1>10. todo' = steps \o Tail(todo) /\ steps \in Seq(StepOf(ops))
  BY <1>1, GoingOn DEF Go
<1>11. ops \subseteq AnyOps /\ ops \cap Marks = {} /\ "fetch" \notin ops /\ "forget" \notin ops
  BY OpsFacts
<1> HIDE DEF steps, ops
<1>12. todo' \in Program
  BY <1>1, <1>2, <1>10, <1>11, Pushed
<1>13. NewsRun(todo)' /\ ReportLast(todo)'
  BY <1>1, <1>2, <1>10, <1>11, ShapeKept DEF CliInv, Walking
<1>14. Begins'
  BY <1>1, <1>3 DEF Test, Begins
<1>15. Fetches'
  BY <1>1, <1>2, <1>10, <1>11, FetchesKept DEF CliInv, Walking
<1>16. Forgets'
  BY <1>1, <1>2, <1>10, <1>11, ForgetsKept DEF CliInv, Walking
<1> HIDE DEF N, M
<1>17. Told'
  <2> DEFINE q == r - 1
  <2>1. q \in 1 .. M /\ q \in Nat /\ todo'[q] = todo[r]
    BY <1>5
  <2>2. \A j \in 1 .. q : todo'[j].op \notin Marks
    <3> SUFFICES ASSUME NEW j \in 1 .. q PROVE todo'[j].op \notin Marks
      OBVIOUS
    <3>1. j + 1 \in 2 .. r /\ j \in 1 .. M
      BY <1>5
    <3> QED
      BY <1>5, <1>6, <3>1
  <2>3. t \in NeedsPlayers => \E j \in 1 .. q - 1 : todo'[j].op = "canPlayers"
    <3> SUFFICES ASSUME t \in NeedsPlayers PROVE \E j \in 1 .. q - 1 : todo'[j].op = "canPlayers"
      OBVIOUS
    <3>1. PICK j \in 2 .. r - 1 : todo[j].op = "canPlayers"
      BY <1>6
    <3>2. j - 1 \in 1 .. q - 1 /\ j \in 2 .. N
      BY <1>5
    <3> QED
      BY <1>5, <3>1, <3>2
  <2> HIDE DEF q
  <2>4. VerdictAt(q)'
    BY <1>1, <1>6, <2>1, <2>2, <2>3 DEF VerdictAt, M
  <2> QED
    BY <2>1, <2>4 DEF Told, VerdictAhead
<1>18. Begun'
  BY <1>1, <1>4 DEF Begun, Start, None
<1>19. Ahead'
  <2> SUFFICES ASSUME NEW i \in DOMAIN plan
               PROVE  \/ gtest_db'[plan[i]] \in Judged \/ tid' = plan[i]
                      \/ \E k \in 1 .. M : todo'[k].op = "new" /\ todo'[k].x[2] = plan[i]
    BY <1>1 DEF Ahead, M
  <2>1. plan[i] \in Test
    BY PlanTests DEF CliInv, Values0
  <2>2. CASE plan[i] = t
    BY <1>1, <2>2
  <2>3. CASE plan[i] # t /\ (gtest_db[plan[i]] \in Judged \/ tid = plan[i])
    BY <1>4, <1>7, <2>1, <2>3
  <2>4. ASSUME NEW k \in 1 .. N, todo[k].op = "new", todo[k].x[2] = plan[i], plan[i] # t
        PROVE  \E j \in 1 .. M : todo'[j].op = "new" /\ todo'[j].x[2] = plan[i]
    BY <1>2, <1>5, <2>4 DEF t
  <2> QED
    BY <2>2, <2>3, <2>4 DEF CliInv, Walking, Ahead, N
<1> QED
  BY <1>8, <1>9, <1>12, <1>13, <1>14, <1>15, <1>16, <1>17, <1>18, <1>19 DEF CliInv, Walking

\* A sequence of a length, and one more step.
Long(S, s, l) == s \in Seq(S) /\ Len(s) = l
Longer(u, s, l, t) == (\A k \in 1 .. l : u[k] = s[k]) /\ u[l + 1] = t[1]

LEMMA Lengthened ==
  ASSUME NEW S, NEW s, NEW l \in Nat, Long(S, s, l), NEW t, Long(S, t, 1), NEW u, u = s \o t
  PROVE  Long(S, u, l + 1) /\ Longer(u, s, l, t)
<1>1. s \in Seq(S) /\ t \in Seq(S)
  BY DEF Long
<1>2. /\ u \in Seq(S) /\ Len(u) = Len(s) + Len(t)
      /\ \A k \in 1 .. Len(s) : u[k] = s[k]
      /\ \A k \in 1 .. Len(t) : u[Len(s) + k] = t[k]
  BY <1>1, Joint
<1>3. Len(s) = l /\ Len(t) = 1 /\ 1 \in 1 .. 1
  BY DEF Long
<1> QED
  BY <1>2, <1>3 DEF Long, Longer

\* The script of testConnectDisconnect: what it forgets is closed by then.
RunOps == ScriptOps \cup {"exit", "forget"}

LEMMA ConnectType ==
  /\ ConnectScript \in Seq(StepOf(RunOps)) /\ Judges(ConnectScript)
  /\ \A k \in 1 .. Len(ConnectScript) : ConnectScript[k].op = "forget" =>
       /\ k = 4 /\ ConnectScript[1].op = "exit" /\ ConnectScript[2].op = "exit"
       /\ ConnectScript[3].op = "judge"
<1> DEFINE S == StepOf(RunOps)
           e == Plain("exit")
           j == Judge(0)
           f == Plain("forget")
           c == Connect("login")
           d == Judge(1)
           i == Plain("ifConnected")
<1>1. "exit" \in RunOps /\ "judge" \in RunOps /\ "forget" \in RunOps
      /\ "connect" \in RunOps /\ "ifConnected" \in RunOps /\ 0 \in Int /\ 1 \in Int
  BY DEF RunOps, ScriptOps, JudgeOps, OtherOps
<1>2. /\ e \in Seq(S) /\ Len(e) = 1 /\ e[1].op = "exit"
      /\ f \in Seq(S) /\ Len(f) = 1 /\ f[1].op = "forget"
      /\ i \in Seq(S) /\ Len(i) = 1 /\ i[1].op = "ifConnected"
  BY <1>1, PlainStep
<1>3. /\ j \in Seq(S) /\ Len(j) = 1 /\ j[1].op = "judge"
      /\ d \in Seq(S) /\ Len(d) = 1 /\ d[1].op = "judge"
  <2> DEFINE x == <<0, "">>
  <2>1. x \in Topic
    BY DEF Topic
  <2> HIDE DEF x
  <2>2. x \in Subject
    BY <2>1 DEF Subject
  <2>3. ASSUME NEW v \in Int
        PROVE  /\ Step("judge", x, v) \in Seq(StepOf(RunOps))
               /\ Len(Step("judge", x, v)) = 1 /\ Step("judge", x, v)[1].op = "judge"
    BY <1>1, <2>2, OneStep
  <2> QED
    BY <1>1, <2>3 DEF Judge, x
<1>4. c \in Seq(S) /\ Len(c) = 1 /\ c[1].op = "connect"
  <2> DEFINE x == <<0, "login">>
  <2>1. x \in Topic
    BY DEF Topic
  <2> HIDE DEF x
  <2>2. x \in Subject
    BY <2>1 DEF Subject
  <2>3. /\ Step("connect", x, 0) \in Seq(StepOf(RunOps))
        /\ Len(Step("connect", x, 0)) = 1 /\ Step("connect", x, 0)[1].op = "connect"
    BY <1>1, <2>2, OneStep
  <2> QED
    BY <2>3 DEF Connect, x
<1> HIDE DEF S, e, j, f, c, d, i
<1> DEFINE s2 == e \o e
           s3 == s2 \o j
           s4 == s3 \o f
           s5 == s4 \o c
           s6 == s5 \o d
           s7 == s6 \o i
<1>21. 1 \in Nat /\ 2 \in Nat /\ 3 \in Nat /\ 4 \in Nat /\ 5 \in Nat /\ 6 \in Nat
  OBVIOUS
<1>20. /\ Long(S, e, 1) /\ Long(S, j, 1) /\ Long(S, f, 1) /\ Long(S, c, 1) /\ Long(S, d, 1) /\ Long(S, i, 1)
  BY <1>2, <1>3, <1>4 DEF Long
<1>6. Long(S, s2, 2) /\ (\A k \in 1 .. 1 : s2[k] = e[k]) /\ s2[2] = e[1]
  <2>1. s2 = e \o e
    OBVIOUS
  <2> HIDE DEF s2
  <2>2. Long(S, s2, 1 + 1) /\ Longer(s2, e, 1, e)
    BY <2>1, <1>20, <1>21, Lengthened, Zenon
  <2> QED
    BY <2>2 DEF Longer
<1> HIDE DEF s2
<1>7. Long(S, s3, 3) /\ (\A k \in 1 .. 2 : s3[k] = s2[k]) /\ s3[3] = j[1]
  <2>1. s3 = s2 \o j
    OBVIOUS
  <2> HIDE DEF s3
  <2>2. Long(S, s3, 2 + 1) /\ Longer(s3, s2, 2, j)
    BY <2>1, <1>20, <1>6, <1>21, Lengthened, Zenon
  <2> QED
    BY <2>2 DEF Longer
<1> HIDE DEF s3
<1>8. Long(S, s4, 4) /\ (\A k \in 1 .. 3 : s4[k] = s3[k]) /\ s4[4] = f[1]
  <2>1. s4 = s3 \o f
    OBVIOUS
  <2> HIDE DEF s4
  <2>2. Long(S, s4, 3 + 1) /\ Longer(s4, s3, 3, f)
    BY <2>1, <1>20, <1>7, <1>21, Lengthened, Zenon
  <2> QED
    BY <2>2 DEF Longer
<1> HIDE DEF s4
<1>9. Long(S, s5, 5) /\ (\A k \in 1 .. 4 : s5[k] = s4[k]) /\ s5[5] = c[1]
  <2>1. s5 = s4 \o c
    OBVIOUS
  <2> HIDE DEF s5
  <2>2. Long(S, s5, 4 + 1) /\ Longer(s5, s4, 4, c)
    BY <2>1, <1>20, <1>8, <1>21, Lengthened, Zenon
  <2> QED
    BY <2>2 DEF Longer
<1> HIDE DEF s5
<1>10. Long(S, s6, 6) /\ (\A k \in 1 .. 5 : s6[k] = s5[k]) /\ s6[6] = d[1]
  <2>1. s6 = s5 \o d
    OBVIOUS
  <2> HIDE DEF s6
  <2>2. Long(S, s6, 5 + 1) /\ Longer(s6, s5, 5, d)
    BY <2>1, <1>20, <1>9, <1>21, Lengthened, Zenon
  <2> QED
    BY <2>2 DEF Longer
<1> HIDE DEF s6
<1>11. Long(S, s7, 7) /\ (\A k \in 1 .. 6 : s7[k] = s6[k]) /\ s7[7] = i[1]
  <2>1. s7 = s6 \o i
    OBVIOUS
  <2> HIDE DEF s7
  <2>2. Long(S, s7, 6 + 1) /\ Longer(s7, s6, 6, i)
    BY <2>1, <1>20, <1>10, <1>21, Lengthened, Zenon
  <2> QED
    BY <2>2 DEF Longer
<1>12. ConnectScript = s7
  BY DEF ConnectScript, s7, s6, s5, s4, s3, s2, e, j, f, c, d, i
<1> HIDE DEF s7
<1>13. /\ s7[1].op = "exit" /\ s7[2].op = "exit" /\ s7[3].op = "judge" /\ s7[4].op = "forget"
       /\ s7[5].op = "connect" /\ s7[6].op = "judge" /\ s7[7].op = "ifConnected"
  <2>1. e[1].op = "exit" /\ j[1].op = "judge" /\ f[1].op = "forget" /\ c[1].op = "connect"
        /\ d[1].op = "judge" /\ i[1].op = "ifConnected"
    BY <1>2, <1>3, <1>4
  <2>2. s2[1] = e[1] /\ s2[2] = e[1]
    BY <1>6
  <2>3. s3[1] = s2[1] /\ s3[2] = s2[2] /\ s3[3] = j[1]
    BY <1>7
  <2>4. s4[1] = s3[1] /\ s4[2] = s3[2] /\ s4[3] = s3[3] /\ s4[4] = f[1]
    BY <1>8
  <2>5. s5[1] = s4[1] /\ s5[2] = s4[2] /\ s5[3] = s4[3] /\ s5[4] = s4[4] /\ s5[5] = c[1]
    BY <1>9
  <2>6. s6[1] = s5[1] /\ s6[2] = s5[2] /\ s6[3] = s5[3] /\ s6[4] = s5[4] /\ s6[5] = s5[5] /\ s6[6] = d[1]
    BY <1>10
  <2>7. s7[1] = s6[1] /\ s7[2] = s6[2] /\ s7[3] = s6[3] /\ s7[4] = s6[4] /\ s7[5] = s6[5] /\ s7[6] = s6[6] /\ s7[7] = i[1]
    BY <1>11
  <2>8. /\ s7[1] = e[1] /\ s7[2] = e[1] /\ s7[3] = j[1] /\ s7[4] = f[1]
        /\ s7[5] = c[1] /\ s7[6] = d[1] /\ s7[7] = i[1]
    BY <2>2, <2>3, <2>4, <2>5, <2>6, <2>7
  <2> QED
    BY <2>1, <2>8
<1>17. s7 \in Seq(S) /\ DOMAIN s7 = 1 .. 7 /\ Len(s7) = 7
  BY <1>11 DEF Long
<1>14. \A k \in 1 .. 7 : k = 1 \/ k = 2 \/ k = 3 \/ k = 4 \/ k = 5 \/ k = 6 \/ k = 7
  OBVIOUS
<1>15. \A k \in 1 .. Len(s7) : s7[k].op = "forget" => k = 4
  BY <1>13, <1>14, <1>17
<1>16. Judges(s7)
  BY <1>13, <1>17 DEF JudgeOps, Judges
<1> QED
  BY <1>17, <1>12, <1>13, <1>15, <1>16 DEF S

\* Every test's script gives a verdict, if there is a player for a test that needs one.
LEMMA ScriptType ==
  ASSUME NEW t \in Test, NEW n \in {0, Players}
  PROVE  /\ Script(t, n) \in Seq(StepOf(RunOps))
         /\ t \in NeedsPlayers => (n > 0 => Judges(Script(t, n)))
         /\ t \notin NeedsPlayers => Judges(Script(t, n))
         /\ \A k \in 1 .. Len(Script(t, n)) : Script(t, n)[k].op = "forget" =>
              /\ k = 4 /\ Script(t, n)[1].op = "exit" /\ Script(t, n)[2].op = "exit"
              /\ Script(t, n)[3].op = "judge"
<1>1. n \in 0 .. Players /\ n \in Nat
  BY ServerAssumption
<1>2. CASE t = "connect"
  BY <1>2, ConnectType DEF Script, NeedsPlayers
<1>3. CASE t # "connect"
  <2>1. /\ Script(t, n) \in Scripts
        /\ t \in NeedsPlayers => (n > 0 => Script(t, n) \in Telling)
        /\ t \notin NeedsPlayers => Script(t, n) \in Telling
    <3>1. CASE t = "general"
      BY <3>1, GeneralType, TellingType DEF Script, NeedsPlayers
    <3>2. CASE t = "sleep"
      BY <1>1, <3>2, SleepType DEF Script, NeedsPlayers
    <3>3. CASE t = "power"
      BY <1>1, <3>3, PowerType DEF Script, NeedsPlayers
    <3>4. CASE t = "mixer"
      BY <1>1, <3>4, PlayersMixerType DEF Script, NeedsPlayers
    <3>5. CASE t = "display"
      BY <1>1, <3>5, DisplayType DEF Script, NeedsPlayers
    <3>6. CASE t = "rescan"
      BY <1>1, <3>6, RescanType DEF Script, NeedsPlayers
    <3>7. CASE t = "titles"
      BY <3>7, TitlesType, TellingType DEF Script, NeedsPlayers
    <3>8. CASE t = "songinfo"
      BY <3>8, TitlesType, TellingType DEF Script, NeedsPlayers
    <3> QED
      BY <1>3, <3>1, <3>2, <3>3, <3>4, <3>5, <3>6, <3>7, <3>8 DEF Test
  <2> DEFINE s == Script(t, n)
  <2> HIDE DEF s
  <2>2. s \in Seq(StepOf(ScriptOps)) /\ \A k \in 1 .. Len(s) : s[k].op # "forget"
    <3>1. s \in Seq(StepOf(ScriptOps))
      BY <2>1 DEF Scripts, s
    <3>2. \A k \in 1 .. Len(s) : s[k] \in StepOf(ScriptOps)
      BY <3>1, ElementOfSeq
    <3> QED
      BY <3>1, <3>2, OpsFacts DEF StepOf
  <2>3. StepOf(ScriptOps) \subseteq StepOf(RunOps)
    BY DEF StepOf, RunOps
  <2>4. s \in Seq(StepOf(RunOps))
    BY <2>2, <2>3, SeqMonotonic
  <2> QED
    BY <2>1, <2>2, <2>4 DEF Telling, s
<1> QED
  BY <1>2, <1>3

\* A test that can run is run; its script, or a step behind it, gives the verdict.
LEMMA RunKept == ASSUME CliInv, Run PROVE CliInv'
<1> DEFINE N == Len(todo)
<1>1. /\ todo # <<>> /\ now.op = "run" /\ UNCHANGED <<gtest_db, scanning, quick>>
      /\ UNCHANGED clientVars /\ UNCHANGED linkVars
      /\ Go(IF Starting THEN Script(tid, gplayers) ELSE <<>>)
  BY DEF Run, At, AtAny, serverVars, NoSubTest
<1>2. todo \in Program /\ todo[1].op = "run" /\ N \in Nat \ {0} /\ 1 \in 1 .. N
  BY <1>1, NowIs DEF CliInv, Walking
<1>3. tid \in Test
  BY <1>1, <1>2 DEF CliInv, Walking, Begins, Values0
<1>4. Linked'
  BY <1>1, LinkedKept DEF CliInv, Values0
<1>5. Onward /\ UNCHANGED <<plan, tid, gplayers, dump>>
  BY <1>1, SameVerdicts DEF CliInv, clientVars
<1>6. Values0'
  BY <1>1, <1>5, ValuesKept DEF CliInv
<1> DEFINE ops == RunOps
<1>7. PICK steps \in Seq(StepOf(ops)) :
        /\ todo' = steps \o Tail(todo)
        /\ Starting => /\ tid \in NeedsPlayers => (gplayers > 0 => Judges(steps))
                       /\ tid \notin NeedsPlayers => Judges(steps)
        /\ \A k \in 1 .. Len(steps) : steps[k].op = "forget" =>
             /\ k = 4 /\ steps[1].op = "exit" /\ steps[2].op = "exit" /\ steps[3].op = "judge"
  <2>1. gplayers \in {0, Players}
    BY DEF CliInv, Values0
  <2>2. CASE Starting
    BY <1>1, <1>3, <2>1, <2>2, ScriptType DEF Go
  <2>3. CASE ~Starting
    <3>1. todo' = <<>> \o Tail(todo)
      BY <1>1, <2>3 DEF Go
    <3>2. <<>> \in Seq(StepOf(ops)) /\ \A k \in 1 .. Len(<<>>) : FALSE
      OBVIOUS
    <3> QED
      BY <2>3, <3>1, <3>2
  <2> QED
    BY <2>2, <2>3
<1>8. /\ ops \subseteq AnyOps /\ ops \cap Marks = {} /\ "fetch" \notin ops /\ "run" \notin ops
      /\ JudgeOps \subseteq ops
  BY OpsFacts DEF RunOps, AnyOps, Marks
<1> HIDE DEF ops
<1>20. todo \in Program /\ todo # <<>> /\ ops \subseteq AnyOps
  BY <1>1, <1>2, <1>8
<1>21. steps \in Seq(StepOf(ops)) /\ todo' = steps \o Tail(todo)
  BY <1>7
<1> DEFINE L == Len(steps)
           M == Len(todo')
<1>9. /\ L \in Nat /\ M = L + N - 1
      /\ \A k \in 1 .. L : todo'[k] = steps[k] /\ todo'[k].op \in ops
      /\ \A k \in 2 .. N : todo'[L + k - 1] = todo[k]
      /\ \A k \in 1 .. M : k \in 1 .. L \/ (k - L + 1 \in 2 .. N /\ todo'[k] = todo[k - L + 1])
  BY ONLY <1>20, <1>21, Pushed
<1>10. todo' \in Program
  BY <1>1, <1>2, <1>7, <1>8, Pushed
<1>11. NewsRun(todo)' /\ ReportLast(todo)'
  BY <1>1, <1>2, <1>7, <1>8, ShapeKept DEF CliInv, Walking
<1>12. Begins'
  BY <1>1, <1>2, <1>5, <1>7, <1>8, BeginsKept DEF CliInv, Walking
<1>13. Fetches'
  BY <1>1, <1>2, <1>7, <1>8, FetchesKept DEF CliInv, Walking
<1>14. Ahead' /\ Begun'
  BY <1>1, <1>2, <1>5, <1>7, <1>8, AheadKept DEF CliInv, Walking
<1> HIDE DEF L, N, M
<1>15. Forgets'
  <2>1. \A k \in 1 .. N : todo[k].op # "forget"
    <3> SUFFICES ASSUME NEW k \in 1 .. N, todo[k].op = "forget" PROVE FALSE
      OBVIOUS
    <3>1. /\ k = 1 => FALSE
          /\ todo[1].op # "judge" /\ todo[1].op # "exit"
      BY <1>2
    <3> QED
      BY <3>1 DEF CliInv, Walking, Forgets, N
  <2>2. \A k \in 2 .. N : k \in 1 .. N
    BY <1>2
  <2>3. ASSUME NEW k \in 1 .. M, todo'[k].op = "forget"
        PROVE  k = 4 /\ todo'[1].op = "exit" /\ todo'[2].op = "exit" /\ todo'[3].op = "judge"
    <3>1. k \in 1 .. L
      BY <1>9, <2>1, <2>2, <2>3
    <3>2. steps[k].op = "forget"
      BY <1>9, <2>3, <3>1
    <3>3. k = 4 /\ steps[1].op = "exit" /\ steps[2].op = "exit" /\ steps[3].op = "judge"
      BY <1>7, <3>1, <3>2 DEF L
    <3>4. 1 \in 1 .. L /\ 2 \in 1 .. L /\ 3 \in 1 .. L
      BY <1>9, <3>1, <3>3
    <3>5. todo'[1] = steps[1] /\ todo'[2] = steps[2] /\ todo'[3] = steps[3]
      BY <1>9, <3>4
    <3> QED
      BY <3>3, <3>5
  <2> QED
    BY <2>3 DEF Forgets, M
<1>16. Told'
  <2> SUFFICES ASSUME gtest_db[tid] = Start PROVE VerdictAhead'
    BY <1>1, <1>5 DEF Told
  <2>1. PICK r \in Nat : VerdictAt(r)
    BY <1>3 DEF CliInv, Walking, Told, VerdictAhead
  <2>2. CASE Judges(steps)
    <3>1. PICK k \in 1 .. L : steps[k].op \in JudgeOps
      BY <2>2 DEF Judges, L
    <3>2. k \in 1 .. M /\ k \in Nat /\ \A j \in 1 .. k : j \in 1 .. L
      BY <1>2, <1>9
    <3>3. todo'[k].op \in JudgeOps /\ \A j \in 1 .. k : todo'[j].op \notin Marks
      BY <1>8, <1>9, <3>1, <3>2
    <3>4. VerdictAt(k)'
      BY <3>2, <3>3 DEF VerdictAt, M
    <3> QED
      BY <3>2, <3>4 DEF VerdictAhead
  <2>3. CASE ~Judges(steps)
    <3>1. tid \in NeedsPlayers /\ ~(gplayers > 0)
      BY <1>7, <2>3 DEF Starting
    <3>2. r # 1
      <4> SUFFICES ASSUME r = 1 PROVE FALSE
        OBVIOUS
      <4>1. "run" \notin JudgeOps
        BY DEF JudgeOps
      <4>2. VerdictAt(1)
        BY <2>1
      <4>3. \E j \in 1 .. 1 - 1 : todo[j].op = "canPlayers"
        BY <1>2, <3>1, <4>1, <4>2 DEF VerdictAt
      <4> QED
        BY <4>3
    <3> QED
      BY <1>1, <1>2, <1>5, <1>7, <1>8, <2>1, <3>2, VerdictKept
  <2> QED
    BY <2>2, <2>3
<1> QED
  BY <1>4, <1>6, <1>10, <1>11, <1>12, <1>13, <1>14, <1>15, <1>16 DEF CliInv, Walking

-----------------------------------------------------------------------------
(* The initial states.                                                     *)

\* The program begins with a test, or runs none.
LEMMA MainBegins ==
  ASSUME NEW p \in Plans
  PROVE  \/ main(p) # <<>> /\ main(p)[1].op = "new"
         \/ \A k \in 1 .. Len(main(p)) : main(p)[k].op # "run"
<1> DEFINE S == StepOf(TestOps \cup LastOps)
           n == Len(p)
           ss == [i \in DOMAIN p |-> TestSteps(p[i])]
           f == FlattenSeq(ss)
           a == Plain("report")
           b == Plain("restoreFlags")
           c == Plain("disconnect")
           m == f \o a \o b \o c
           First(s) == 1 \in 1 .. Len(s) /\ s[1].op = "new"
           C == {s \in Seq(S) : First(s)}
<1>1. /\ n \in Nat /\ DOMAIN p = 1 .. n /\ \A i \in 1 .. n : p[i] \in Test
  BY PlanAssumption
<1>2. main(p) = m
  BY DEF main
<1>3. ASSUME NEW s \in C, NEW t \in Seq(S) PROVE s \o t \in C
  <2>1. /\ s \o t \in Seq(S) /\ Len(s) \in Nat /\ Len(t) \in Nat /\ Len(s \o t) = Len(s) + Len(t)
        /\ \A k \in 1 .. Len(s) : (s \o t)[k] = s[k]
    BY Joint
  <2>2. 1 \in 1 .. Len(s \o t) /\ (s \o t)[1] = s[1]
    BY <2>1
  <2> QED
    BY <2>1, <2>2
<1>4. a \in Seq(S) /\ b \in Seq(S) /\ c \in Seq(S)
  BY PlainStep DEF LastOps
<1>5. CASE n = 0
  <2> DEFINE R == StepOf(LastOps)
  <2>1. "report" \in LastOps /\ "restoreFlags" \in LastOps /\ "disconnect" \in LastOps
    BY DEF LastOps
  <2>2. a \in Seq(R) /\ b \in Seq(R) /\ c \in Seq(R)
    BY <2>1, PlainStep
  <2>3. f = <<>>
    <3>1. Len(ss) = 0
      BY <1>1, <1>5
    <3> QED
      BY <3>1 DEF FlattenSeq
  <2>4. f \in Seq(R)
    BY <2>3
  <2> HIDE DEF R, f, a, b, c
  <2>5. m \in Seq(R)
    BY <2>2, <2>4, Joint
  <2> HIDE DEF m
  <2>6. \A k \in 1 .. Len(m) : m[k] \in R
    BY <2>5, ElementOfSeq
  <2>7. "run" \notin LastOps
    BY DEF LastOps
  <2> QED
    BY <1>2, <2>6, <2>7 DEF R, StepOf
<1>6. CASE n # 0
  <2>1. Len(ss) = n /\ \A i \in 1 .. n : ss[i] = TestSteps(p[i])
    BY <1>1
  <2>2. \A i \in 1 .. n : ss[i] \in C
    <3> SUFFICES ASSUME NEW i \in 1 .. n PROVE TestSteps(p[i]) \in C
      BY <2>1
    <3> DEFINE t == TestSteps(p[i])
    <3>1. t \in Seq(StepOf(TestOps)) /\ First(t)
      BY <1>1, TestStepsShape
    <3>2. StepOf(TestOps) \subseteq S
      BY DEF StepOf
    <3> HIDE DEF t, S
    <3>3. t \in Seq(S)
      BY <3>1, <3>2, SeqMonotonic
    <3> QED
      BY <3>1, <3>3 DEF t
  <2>3. \A s, t \in C : s \o t \in C
    BY <1>3
  <2> HIDE DEF C, ss
  <2>4. f \in C
    BY <1>1, <1>6, <2>1, <2>2, <2>3, FlatClosed
  <2> HIDE DEF f, a, b, c, S
  <2>5. f \o a \in C
    BY <1>3, <1>4, <2>4
  <2>6. f \o a \o b \in C
    BY <1>3, <1>4, <2>5
  <2>7. m \in C
    BY <1>3, <1>4, <2>6
  <2> HIDE DEF m
  <2>8. m \in Seq(S) /\ 1 \in 1 .. Len(m) /\ m[1].op = "new"
    BY <2>7 DEF C
  <2>9. m # <<>>
    BY <2>8
  <2> QED
    BY <1>2, <2>8, <2>9
<1> QED
  BY <1>5, <1>6

LEMMA InitInv == Init => CliInv
<1> SUFFICES ASSUME Init PROVE CliInv
  OBVIOUS
<1>1. plan \in Plans /\ todo = main(plan)
  BY DEF Init
<1>2. /\ todo \in Program /\ NewsRun(todo) /\ ReportLast(todo)
      /\ \A k \in 1 .. Len(todo) : todo[k].op \in TestOps \cup LastOps
      /\ \A i \in DOMAIN plan : \E k \in 1 .. Len(todo) :
           todo[k].op = "new" /\ todo[k].x[2] = plan[i]
  BY <1>1, MainShape
<1>3. Begins
  BY <1>1, MainBegins DEF Begins
<1>4. Fetches /\ Forgets
  BY <1>2 DEF TestOps, LastOps, Fetches, Forgets
<1>5. Told /\ Begun
  BY DEF Init, Test, Told, Begun
<1>6. Ahead
  BY <1>2 DEF Ahead
<1>7. Walking
  BY <1>2, <1>3, <1>4, <1>5, <1>6 DEF Walking
<1>8. Linked
  <2>1. MaxDrops \in Nat
    BY ServerAssumption
  <2>2. ~gsocket /\ gcli = FALSE /\ gsocket = FALSE /\ link = FALSE /\ logged = FALSE /\ drops = 0
    BY DEF Init
  <2>3. drops \in 0 .. MaxDrops
    BY <2>1, <2>2
  <2>4. /\ gsocket \in BOOLEAN /\ gcli \in BOOLEAN /\ link \in BOOLEAN /\ logged \in BOOLEAN
        /\ (gsocket => gcli)
    BY <2>2
  <2> QED
    BY <2>3, <2>4 DEF Linked
<1>9. Values0
  <2>1. /\ plan \in Plans /\ tid = "" /\ guser \in Users /\ gtest_db = [t \in Test |-> None]
        /\ gRestoreGroupDisc = FALSE /\ scanning \in BOOLEAN /\ quick = FALSE
        /\ gplayers = 0 /\ value = 0
        /\ dump = [found |-> 0, blank |-> 0] /\ drawn = [found |-> 0, blank |-> 0]
    BY DEF Init
  <2>2. guser \in BOOLEAN /\ Songs \in Nat /\ MixMax \in Nat
    BY <2>1, ServerAssumption, ScriptAssumption
  <2>3. gtest_db \in [Test -> Verdicts]
    BY <2>1 DEF Verdicts
  <2>4. 0 \in 0 .. Songs /\ 0 \in 0 .. 1 /\ 0 \in Nat /\ 0 \in 0 .. MixMax
    BY <2>2
  <2>5. dump \in [found : 0 .. Songs, blank : 0 .. 1] /\ drawn \in [found : Nat, blank : Nat]
    BY <2>1, <2>4
  <2>6. dump.found = 0 /\ dump.blank = 0 /\ drawn.found = 0 /\ drawn.blank = 0
    BY <2>1
  <2>7. drawn.found <= dump.found /\ drawn.blank <= dump.blank
    BY <2>6
  <2>8. value \in 0 .. MixMax
    BY <2>1, <2>4
  <2> QED
    BY <2>1, <2>2, <2>3, <2>5, <2>7, <2>8 DEF Values0
<1> QED
  BY <1>7, <1>8, <1>9 DEF CliInv

-----------------------------------------------------------------------------
(* The theorems.                                                           *)

\* The invariant is inductive.
LEMMA InvStep == CliInv /\ [Next]_vars => CliInv'
<1> SUFFICES ASSUME CliInv, [Next]_vars PROVE CliInv'
  OBVIOUS
<1>1. CASE New
  BY <1>1, NewKept
<1>2. CASE CanConnect \/ CanPlayers \/ CanDB \/ Run
  BY <1>2, CanConnectKept, CanPlayersKept, CanDBKept, RunKept
<1>3. CASE ConnectStep \/ Disconnect \/ WaitStep \/ SaveStep \/ Ask \/ PrintReport
  BY <1>3, QuietStepsKept
<1>4. CASE Exit \/ Forget
  BY <1>4, ExitKept, ForgetKept
<1>5. CASE SetStep \/ Mix \/ Scan
  BY <1>5, SetStepKept, MixKept, ScanKept
<1>6. CASE CheckStep \/ JudgeStep \/ Notified \/ Compared
  BY <1>6, CheckStepKept, JudgeStepKept, NotifiedKept, ComparedKept
<1>7. CASE Branch \/ Souvenir \/ Model \/ WaitDoneStep \/ RestoreFlags
  BY <1>7, BranchKept, SouvenirKept, ModelKept, WaitDoneKept, RestoreFlagsKept
<1>8. CASE DumpDB \/ Titles \/ Tags
  BY <1>8, DumpDBKept, TitlesKept, TagsKept
<1>9. CASE ScanEnds \/ Idle \/ UNCHANGED vars
  BY <1>9, OthersKept DEF Idle
<1> QED
  BY <1>1, <1>2, <1>3, <1>4, <1>5, <1>6, <1>7, <1>8, <1>9 DEF Next, Client

LEMMA InvHolds == Spec => []CliInv
<1> QED
  BY InitInv, InvStep, PTL DEF Spec

\* The values of the variables; and no socket is held by a program that does not
\* think it is connected: tcpDisconnect closes it wherever gcli is taken back, and
\* "Restore $gcli" of testConnectDisconnect (:198) does so by hand only when exit
\* has been sent twice, the second time over a connection already closed.
THEOREM TypeCorrect == Spec => []TypeOK
<1>1. CliInv => TypeOK
  <2> SUFFICES ASSUME CliInv PROVE TypeOK
    OBVIOUS
  <2>1. \A k \in DOMAIN todo : todo[k].x \in Setting \cup Topic
    <3>1. todo \in Seq(StepOf(AnyOps))
      BY DEF CliInv, Walking, Program
    <3>2. \A k \in DOMAIN todo : todo[k] \in StepOf(AnyOps)
      BY <3>1
    <3> QED
      BY <3>2 DEF StepOf, Subject
  <2>2. /\ plan \in Plans /\ tid \in Test \cup {""} /\ guser \in Users
        /\ gtest_db \in [Test -> {None, Start, Skipped, Failed, Success, Partial}]
        /\ gplayers \in {0, Players} /\ value \in 0 .. MixMax
        /\ dump \in [found : 0 .. Songs, blank : 0 .. 1]
    BY DEF Verdicts, Judged, CliInv, Values0
  <2>3. drawn.found \in 0 .. dump.found /\ drawn.blank \in 0 .. dump.blank
    <3>1. /\ Songs \in Nat /\ drawn \in [found : Nat, blank : Nat]
          /\ dump \in [found : 0 .. Songs, blank : 0 .. 1]
          /\ drawn.found <= dump.found /\ drawn.blank <= dump.blank
      BY ServerAssumption DEF CliInv, Values0
    <3> QED
      BY <3>1
  <2>4. /\ {gsocket, gcli, link, logged, gRestoreGroupDisc, scanning, quick} \subseteq BOOLEAN
        /\ drops \in 0 .. MaxDrops /\ (gsocket => gcli)
    BY DEF CliInv, Values0, Linked
  <2> QED
    BY <2>1, <2>2, <2>3, <2>4 DEF TypeOK
<1> QED
  BY <1>1, InvHolds, PTL

\* Whatever connections are lost, and for every plan and every number of players
\* and songs, test_PrintReport never finds a test of the plan that is still
\* starting or was never begun ("should not be still starting here!", :2764).
THEOREM NoneLeftStartingCorrect == Spec => []NoneLeftStarting
<1>1. CliInv => NoneLeftStarting
  <2> SUFFICES ASSUME CliInv, At("report"), NEW i \in DOMAIN plan
               PROVE  gtest_db[plan[i]] \in Judged
    BY DEF NoneLeftStarting, Judged
  <2>1. todo # <<>> /\ now.op = "report"
    BY DEF At, AtAny
  <2>2. todo[1].op = "report" /\ 1 \in 1 .. Len(todo) /\ Len(todo) \in Nat
    BY <2>1, NowIs DEF CliInv, Walking
  <2>3. \A k \in 1 .. Len(todo) : todo[k].op # "new"
    <3> SUFFICES ASSUME NEW k \in 1 .. Len(todo), todo[k].op = "new" PROVE FALSE
      OBVIOUS
    <3>1. k < 1
      BY <2>2 DEF CliInv, Walking, ReportLast
    <3> QED
      BY <3>1
  <2>4. CASE tid = plan[i]
    <3>1. tid \in Test
      BY <2>4, PlanTests DEF CliInv, Values0
    <3>2. gtest_db[tid] \in Verdicts /\ gtest_db[tid] # None
      BY <3>1 DEF CliInv, Values0, Walking, Begun
    <3>3. gtest_db[tid] # Start
      <4> SUFFICES ASSUME gtest_db[tid] = Start PROVE FALSE
        OBVIOUS
      <4>1. PICK q \in Nat : VerdictAt(q)
        BY <3>1 DEF CliInv, Walking, Told, VerdictAhead
      <4>2. 1 \in 1 .. q
        BY <4>1 DEF VerdictAt
      <4> QED
        BY <2>2, <4>1, <4>2 DEF VerdictAt, Marks
    <3> QED
      BY <2>4, <3>2, <3>3 DEF Verdicts
  <2> QED
    BY <2>3, <2>4 DEF CliInv, Walking, Ahead
<1> QED
  BY <1>1, InvHolds, PTL

-----------------------------------------------------------------------------
(* A run that loses no connection.                                         *)

LEMMA SureLasts == Sure \in SUBSET Config /\ Lasting(Sure)
<1>1. Sure \in SUBSET Config
  BY DEF Sure
<1>2. ASSUME NEW G \in SUBSET Config, Lasting(G) PROVE G \subseteq Sure
  BY <1>2 DEF Sure
<1> SUFFICES ASSUME NEW a \in State, NEW w \in Program, <<a, w>> \in Sure
             PROVE  /\ Fine(a)
                    /\ w = <<>> => Ended(a)
                    /\ w # <<>> =>
                         /\ Legal(a, Head(w))
                         /\ \A b \in State : \A u : Becomes(a, Head(w), b) /\ Puts(a, Head(w), u) =>
                                                      <<b, u \o Tail(w)>> \in Sure
                         /\ \A b \in State : Scanned(a, Head(w).op, b) => <<b, w>> \in Sure
                    /\ w = <<>> => \A b \in State : Scanned(a, "", b) => <<b, w>> \in Sure
  BY <1>1 DEF Lasting
<1>3. PICK G \in SUBSET Config : Lasting(G) /\ <<a, w>> \in G
  BY DEF Sure
<1>4. \A c : c \in G => c \in Sure
  BY <1>2, <1>3
<1> QED
  BY <1>3, <1>4 DEF Lasting

LEMMA LeadsNone == ASSUME NEW P PROVE Leads(P, <<>>, P)
<1>1. <<>> \in Program /\ \A u \in Program : <<>> \o u = u
  BY ConcatEmptySeq DEF Program
<1> QED
  BY <1>1 DEF Leads

LEMMA LeadsJoin ==
  ASSUME NEW P, NEW Q, NEW R, NEW v, NEW w, Leads(P, v, Q), Leads(Q, w, R)
  PROVE  Leads(P, v \o w, R)
<1>1. v \in Program /\ w \in Program /\ v \o w \in Program
  BY ConcatProperties DEF Leads, Program
<1> SUFFICES ASSUME NEW u \in Program, \A b \in R : <<b, u>> \in Sure, NEW a \in P
             PROVE  <<a, (v \o w) \o u>> \in Sure
  BY <1>1 DEF Leads
<1>2. w \o u \in Program /\ (v \o w) \o u = v \o (w \o u)
  BY <1>1, ConcatProperties, ConcatAssociative DEF Program
<1>3. \A b \in Q : <<b, w \o u>> \in Sure
  BY DEF Leads
<1>4. <<a, v \o (w \o u)>> \in Sure
  BY <1>2, <1>3 DEF Leads
<1> QED
  BY <1>2, <1>4

LEMMA LeadsFrom ==
  ASSUME NEW P, NEW Q, NEW O, NEW R, NEW w, Leads(P, w, Q), O \subseteq P, Q \subseteq R
  PROVE  Leads(O, w, R)
BY DEF Leads

LEMMA OneMore ==
  ASSUME NEW q \in Steps, NEW u \in Program
  PROVE  /\ <<q>> \in Program /\ <<q>> \o u \in Program /\ <<q>> \o u # <<>>
         /\ Head(<<q>> \o u) = q /\ Tail(<<q>> \o u) = u
<1> DEFINE w == <<q>> \o u
<1>1. <<q>> \in Seq(Steps) /\ u \in Seq(Steps) /\ Len(<<q>>) = 1 /\ <<q>>[1] = q
  BY DEF Program, Steps
<1>2. /\ w \in Seq(Steps) /\ Len(w) = 1 + Len(u) /\ Len(u) \in Nat
      /\ \A i \in 1 .. 1 + Len(u) : w[i] = IF i <= 1 THEN q ELSE u[i - 1]
  BY <1>1, ConcatProperties, LenProperties
<1> HIDE DEF w
<1>3. w # <<>> /\ w[1] = q
  BY <1>2, EmptySeq
<1>4. Head(w) = q
  BY <1>2, <1>3
<1>5. /\ Tail(w) \in Seq(Steps) /\ Len(Tail(w)) = Len(u)
      /\ \A i \in 1 .. Len(Tail(w)) : Tail(w)[i] = w[i + 1]
  BY <1>2, <1>3, HeadTailProperties
<1>6. \A i \in 1 .. Len(Tail(w)) : Tail(w)[i] = u[i]
  BY <1>2, <1>5
<1>7. Tail(w) = u
  BY <1>1, <1>5, <1>6, SeqEqual
<1> QED
  BY <1>1, <1>2, <1>3, <1>4, <1>7 DEF w, Program, Steps

\* A set of configurations is sure when it lasts with what is sure already.
LEMMA SureWith ==
  ASSUME NEW G \in SUBSET Config,
         \A a \in State, w \in Program : <<a, w>> \in G =>
           /\ w # <<>> /\ Fine(a) /\ Legal(a, Head(w))
           /\ \A b \in State : \A u : Becomes(a, Head(w), b) /\ Puts(a, Head(w), u) =>
                                        <<b, u \o Tail(w)>> \in G \cup Sure
           /\ \A b \in State : Scanned(a, Head(w).op, b) => <<b, w>> \in G \cup Sure
  PROVE  G \subseteq Sure
<1> DEFINE H == G \cup Sure
<1>1. H \in SUBSET Config
  BY SureLasts
<1>2. Lasting(H)
  <2> SUFFICES ASSUME NEW a \in State, NEW w \in Program, <<a, w>> \in H
               PROVE  /\ Fine(a)
                      /\ w = <<>> => Ended(a)
                      /\ w # <<>> =>
                           /\ Legal(a, Head(w))
                           /\ \A b \in State : \A u :
                                Becomes(a, Head(w), b) /\ Puts(a, Head(w), u) =>
                                  <<b, u \o Tail(w)>> \in H
                           /\ \A b \in State : Scanned(a, Head(w).op, b) => <<b, w>> \in H
                      /\ w = <<>> => \A b \in State : Scanned(a, "", b) => <<b, w>> \in H
    BY DEF Lasting
  <2>1. CASE <<a, w>> \in G
    BY <2>1
  <2>2. CASE <<a, w>> \in Sure
    BY <2>2, SureLasts DEF Lasting
  <2> QED
    BY <2>1, <2>2
<1> HIDE DEF H
<1>3. \A c : c \in H => c \in Sure
  BY <1>1, <1>2 DEF Sure
<1> QED
  BY <1>3 DEF H

\* The rule of a step: it is right in every state of P, which the end of a scan
\* does not leave, and it goes on where the steps that it puts lead to Q.
LEMMA StepLeads ==
  ASSUME NEW q \in Steps, NEW P \in SUBSET State, NEW Q,
         \A a \in P : Fine(a) /\ Legal(a, q),
         \A a \in P, b \in State : Scanned(a, q.op, b) => b \in P,
         \A a \in P, b \in State : \A w : Becomes(a, q, b) /\ Puts(a, q, w) =>
                                            \E O : b \in O /\ Leads(O, w, Q)
  PROVE  Leads(P, <<q>>, Q)
<1> SUFFICES ASSUME NEW u \in Program, \A b \in Q : <<b, u>> \in Sure
             PROVE  \A a \in P : <<a, <<q>> \o u>> \in Sure
  BY DEF Program, Steps, Leads
<1> DEFINE w == <<q>> \o u
           G == {<<a, w>> : a \in P}
<1>1. w \in Program /\ w # <<>> /\ Head(w) = q /\ Tail(w) = u
  BY OneMore
<1> HIDE DEF w
<1>2. G \in SUBSET Config
  BY <1>1 DEF Config
<1>3. ASSUME NEW a \in State, NEW v \in Program, <<a, v>> \in G PROVE a \in P /\ v = w
  BY <1>3
<1>4. ASSUME NEW a \in P, NEW b \in State, NEW v, Becomes(a, q, b), Puts(a, q, v)
      PROVE  <<b, v \o u>> \in Sure
  <2>1. PICK O : b \in O /\ Leads(O, v, Q)
    BY <1>4
  <2> QED
    BY <2>1 DEF Leads
<1>5. \A a \in P, b \in State : Scanned(a, q.op, b) => <<b, w>> \in G
  OBVIOUS
<1>6. G \subseteq Sure
  <2> HIDE DEF G
  <2>1. \A a \in State, v \in Program : <<a, v>> \in G =>
           /\ v # <<>> /\ Fine(a) /\ Legal(a, Head(v))
           /\ \A b \in State : \A x : Becomes(a, Head(v), b) /\ Puts(a, Head(v), x) =>
                                        <<b, x \o Tail(v)>> \in G \cup Sure
           /\ \A b \in State : Scanned(a, Head(v).op, b) => <<b, v>> \in G \cup Sure
    <3> SUFFICES ASSUME NEW a \in State, NEW v \in Program, <<a, v>> \in G
                 PROVE  /\ v # <<>> /\ Fine(a) /\ Legal(a, Head(v))
                        /\ \A b \in State : \A x : Becomes(a, Head(v), b) /\ Puts(a, Head(v), x) =>
                                                     <<b, x \o Tail(v)>> \in G \cup Sure
                        /\ \A b \in State : Scanned(a, Head(v).op, b) => <<b, v>> \in G \cup Sure
      OBVIOUS
    <3>1. a \in P /\ v = w
      BY <1>3
    <3> QED
      BY <1>1, <1>4, <1>5, <3>1
  <2> QED
    BY <1>2, <2>1, SureWith
<1>7. \A a \in P : <<a, w>> \in G
  OBVIOUS
<1> HIDE DEF G
<1>8. \A a \in P : <<a, w>> \in Sure
  BY <1>6, <1>7
<1> QED
  BY <1>8 DEF w

\* A step that puts none in front of the others.
LEMMA PlainLeads ==
  ASSUME NEW q \in Steps, q.op \notin BranchOps, NEW P \in SUBSET State, NEW Q,
         \A a \in P : Fine(a) /\ Legal(a, q),
         \A a \in P, b \in State : Scanned(a, q.op, b) => b \in P,
         \A a \in P, b \in State : Becomes(a, q, b) => b \in Q
  PROVE  Leads(P, <<q>>, Q)
<1>1. ASSUME NEW a \in P, NEW b \in State, NEW w, Becomes(a, q, b), Puts(a, q, w)
      PROVE  \E O : b \in O /\ Leads(O, w, Q)
  BY <1>1, LeadsNone DEF Puts
<1> QED
  BY <1>1, StepLeads

\* Loops.
LEMMA LoopLeads ==
  ASSUME NEW n \in Nat, NEW ss, ss = [i \in 1 .. n |-> ss[i]], NEW I,
         \A i \in 1 .. n : Leads(I[i - 1], ss[i], I[i])
  PROVE  Leads(I[0], FlattenSeq(ss), I[n])
<1>1. Len(ss) = n /\ (n = 0 => ss = <<>>)
  BY DEF Leads
<1>2. CASE n = 0
  BY <1>1, <1>2, LeadsNone DEF FlattenSeq
<1>3. CASE n # 0
  <2>1. PICK flat : /\ FlattenSeq(ss) = flat[n]
                    /\ \A i \in 1 .. n : flat[i] = Joined(ss, i, flat[i - 1])
    <3>1. PICK flat : /\ FlattenSeq(ss) = flat[Len(ss)]
                      /\ \A i \in 1 .. Len(ss) : flat[i] = Joined(ss, i, flat[i - 1])
      BY <1>1, <1>3, FlatSteps
    <3> QED
      BY <1>1, <3>1
  <2> DEFINE Not == {i \in 1 .. n : ~Leads(I[0], flat[i], I[i])}
  <2>2. SUFFICES ASSUME Not # {} PROVE FALSE
    BY <1>3, <2>1
  <2>3. PICK i \in Not : \A m \in Not : i <= m
    <3>1. Not \in SUBSET Nat
      OBVIOUS
    <3> HIDE DEF Not
    <3> QED
      BY <2>2, <3>1, Least
  <2>4. /\ i \in 1 .. n /\ flat[i] = Joined(ss, i, flat[i - 1]) /\ ~Leads(I[0], flat[i], I[i])
        /\ Leads(I[i - 1], ss[i], I[i])
    BY <2>1
  <2>5. i # 1
    <3> SUFFICES ASSUME i = 1 PROVE FALSE
      OBVIOUS
    <3>1. flat[i] = ss[i] /\ i - 1 = 0
      BY <2>4 DEF Joined
    <3> QED
      BY <2>4, <3>1
  <2>6. i - 1 \in 1 .. n /\ ~(i <= i - 1)
    BY <2>4, <2>5
  <2>7. Leads(I[0], flat[i - 1], I[i - 1])
    BY <2>3, <2>6
  <2>8. flat[i] = flat[i - 1] \o ss[i]
    BY <2>4, <2>5 DEF Joined
  <2> QED
    BY <2>4, <2>7, <2>8, LeadsJoin
<1> QED
  BY <1>2, <1>3

-----------------------------------------------------------------------------
(* States between the steps of a test.                                     *)

LEMMA Preferences ==
  /\ authorize \in Setting /\ groupdiscs \in Setting /\ authorize # groupdiscs
  /\ \A p \in Plans : authorize \in Kept(p) /\ groupdiscs \notin Kept(p)
  /\ \A i, a : <<i, a>> # <<i, "authorize">> => <<i, a>> # authorize
<1>1. authorize \in Setting /\ groupdiscs \in Setting
  BY DEF authorize, groupdiscs, Setting, Pref
<1>2. authorize # groupdiscs /\ authorize[2] = "authorize"
  BY DEF authorize, groupdiscs
<1>3. \A i, a : <<i, a>> # <<i, "authorize">> => <<i, a>> # authorize
  BY DEF authorize
<1> QED
  BY <1>1, <1>2, <1>3 DEF Kept

LEMMA InFine ==
  ASSUME NEW p \in Plans, NEW X, authorize \notin X, NEW a \in In(p, X)
  PROVE  a \in State /\ Fine(a)
BY Preferences DEF In, Bound, Fine

LEMMA ScanIn ==
  ASSUME NEW p, NEW X, NEW a \in In(p, X), NEW op, NEW b \in State, Scanned(a, op, b)
  PROVE  b \in In(p, X)
<1>1. Blameless(b)
  BY DEF In, Bound, Blameless, Scanned
<1>2. Hears(b) /\ AllOrNone(b)
  BY DEF In, Hears, AllOrNone, Scanned, SameLink
<1> QED
  BY <1>1, <1>2 DEF In, Bound, Scanned, SameLink

LEMMA StaysIn ==
  ASSUME NEW p \in Plans, NEW X, authorize \notin X, NEW a \in In(p, X), NEW q, q.op \in InOps,
         NEW b \in State, Becomes(a, q, b),
         \A x \in (Kept(p) \ X) \cup {groupdiscs} : b.setting[x] = a.setting[x]
  PROVE  b \in In(p, X)
<1>1. /\ q.op \notin LinkOps /\ q.op # "fetch" /\ q.op # "needGroups" /\ q.op # "needSongs"
      /\ q.op # "new" /\ q.op # "canConnect"
  BY DEF InOps, ExchangeOps, SetOps, LinkOps
<1>2. Leaves(a, q, b) /\ a.plan = p
  BY DEF Becomes, In
<1>3. /\ b.plan = a.plan /\ b.guser = a.guser /\ b.initial = a.initial /\ b.quick = a.quick
      /\ SameLink(a, b) /\ b.dump = a.dump /\ b.flag = a.flag
      /\ (b.db = a.db \/ Judgement(a, b))
  BY <1>1, <1>2 DEF Leaves
<1>4. Blameless(b)
  BY <1>3 DEF In, Bound, Blameless, Judgement
<1>5. b.setting[authorize] = a.setting[authorize]
  BY Preferences
<1>6. Hears(b) /\ AllOrNone(b)
  BY <1>3, <1>5 DEF In, Hears, AllOrNone, SameLink
<1>7. Bound(b, X)
  BY <1>2, <1>3, <1>4 DEF In, Bound, SameLink
<1> QED
  BY <1>2, <1>3, <1>6, <1>7 DEF In

\* The rule of a step of a test.
LEMMA InLeads ==
  ASSUME NEW p \in Plans, NEW X, authorize \notin X, NEW q \in Steps, q.op \notin BranchOps,
         NEW P \in SUBSET In(p, X), NEW Q,
         \A a \in P : Legal(a, q),
         \A a \in P, b \in State : Scanned(a, q.op, b) => b \in P,
         \A a \in P, b \in State : Becomes(a, q, b) => b \in Q
  PROVE  Leads(P, <<q>>, Q)
<1>1. P \in SUBSET State /\ \A a \in P : Fine(a)
  BY InFine
<1> QED
  BY <1>1, PlainLeads

LEMMA AmidScan ==
  ASSUME NEW p, NEW X, NEW S, NEW K, NEW a \in Amid(p, X, S, K), NEW op, NEW b \in State,
         Scanned(a, op, b)
  PROVE  b \in Amid(p, X, S, K)
<1>1. b \in In(p, X)
  BY ScanIn DEF Amid
<1> QED
  BY <1>1 DEF Amid, Scanned

LEMMA AmidLess ==
  ASSUME NEW p, NEW X, NEW Y, NEW S, NEW O, NEW K, NEW L, X \subseteq Y, O \subseteq S, L \subseteq K
  PROVE  Amid(p, X, S, K) \subseteq Amid(p, Y, O, L)
<1>1. In(p, X) \subseteq In(p, Y)
  BY DEF In, Bound
<1> QED
  BY <1>1 DEF Amid

\* What is known once x has the value v.
Tells(K, x, v, L) ==
  \A c \in L : \/ c = <<x, v>>
               \/ x[2] = "power" /\ v = 0 /\ c = <<<<x[1], "sleep">>, 0>>
               \/ c \in K /\ c[1] # x /\ (x[2] = "power" /\ v = 0 => c[1] # <<x[1], "sleep">>)

\* What a setting is at the beginning is a value, and so is what is put back.
LEMMA BroughtIs ==
  ASSUME NEW a \in State, NEW x \in Setting
  PROVE  /\ a.initial[x] >= 0 /\ a.initial[x] # Undef /\ 0 # Undef
         /\ Brought(a, x) \in Int
         /\ a.memo[x] = a.initial[x] \/ x[2] # "volume" => Brought(a, x) = a.memo[x]
<1>1. a.memo[x] \in Int /\ a.setting[x] \in Int /\ a.initial[x] \in Int /\ a.initial[x] >= 0
  BY DEF State, FirstSettings
<1>2. MixMax \in Nat /\ Undef < 0
  BY ScriptAssumption DEF Undef
<1>3. \A v \in Int : Clamp(v) \in Int
  BY <1>2 DEF Clamp
<1>4. Brought(a, x) \in Int
  BY <1>1, <1>3 DEF Brought
<1>5. a.memo[x] = a.initial[x] \/ x[2] # "volume" => Brought(a, x) = a.memo[x]
  BY <1>1 DEF Brought
<1> QED
  BY <1>1, <1>2, <1>4, <1>5

LEMMA GivenIs ==
  ASSUME NEW a \in State, NEW x \in Setting, NEW v \in Int
  PROVE  /\ Given(a, x, v) \in [Setting -> Int]
         /\ v # Undef => Given(a, x, v)[x] = v
         /\ x[2] = "power" /\ v = 0 => Given(a, x, v)[<<x[1], "sleep">>] = 0
         /\ \A y \in Setting : y # x /\ (x[2] = "power" /\ v = 0 => y # <<x[1], "sleep">>) =>
                                 Given(a, x, v)[y] = a.setting[y]
<1>1. a.setting \in [Setting -> Int]
  BY DEF State
<1>2. /\ Taken(a, x, v) \in [Setting -> Int]
      /\ v # Undef => Taken(a, x, v)[x] = v
      /\ \A y \in Setting : y # x => Taken(a, x, v)[y] = a.setting[y]
  BY <1>1 DEF Taken
<1>3. x[2] = "power" => <<x[1], "sleep">> \in Setting
  BY DEF Setting, Pref, Attr
<1> QED
  BY <1>2, <1>3 DEF Given

LEMMA Written ==
  ASSUME NEW p \in Plans, NEW X, authorize \notin X, NEW S, NEW K, NEW a \in Amid(p, X, S, K),
         NEW q, q.op \in InOps \ {"save", "souvenir"}, NEW b \in State, Becomes(a, q, b),
         NEW x \in Free(p, X), NEW v \in Int, v # Undef, b.setting = Given(a, x, v),
         NEW L, Tells(K, x, v, L), \A c \in L : c[1] \in Setting
  PROVE  b \in Amid(p, X, S, L)
<1>1. a \in State /\ a \in In(p, X) /\ x \in Setting
  BY DEF Amid, In, Free
<1>2. /\ b.setting[x] = v
      /\ x[2] = "power" /\ v = 0 => b.setting[<<x[1], "sleep">>] = 0
      /\ \A y \in Setting : y # x /\ (x[2] = "power" /\ v = 0 => y # <<x[1], "sleep">>) =>
                              b.setting[y] = a.setting[y]
  BY <1>1, GivenIs
<1>3. \A y \in (Kept(p) \ X) \cup {groupdiscs} :
        y \in Setting /\ y # x /\ y[2] # "sleep"
  BY Preferences DEF Kept, Free, groupdiscs
<1>4. b \in In(p, X)
  BY <1>1, <1>2, <1>3, StaysIn
<1>5. b.memo = a.memo /\ b.initial = a.initial
  BY DEF Becomes, Leaves
<1>6. \A c \in L : b.setting[c[1]] = c[2]
  <2> SUFFICES ASSUME NEW c \in L PROVE b.setting[c[1]] = c[2]
    OBVIOUS
  <2>1. CASE c = <<x, v>>
    BY <1>2, <2>1
  <2>2. CASE c \in K /\ c[1] # x /\ (x[2] = "power" /\ v = 0 => c[1] # <<x[1], "sleep">>)
    BY <1>2, <2>2 DEF Amid
  <2>3. CASE x[2] = "power" /\ v = 0 /\ c = <<<<x[1], "sleep">>, 0>>
    BY <1>2, <2>3
  <2> QED
    BY <2>1, <2>2, <2>3 DEF Tells
<1> QED
  BY <1>4, <1>5, <1>6 DEF Amid

-----------------------------------------------------------------------------
(* What single steps lead to, in a test.                                   *)

LEMMA StepIs ==
  ASSUME NEW op \in AnyOps, NEW x \in Subject, NEW v \in Int
  PROVE  \E q \in Steps : Step(op, x, v) = <<q>> /\ q.op = op /\ q.x = x /\ q.v = v
<1> DEFINE q == [op |-> op, x |-> x, v |-> v]
<1>1. q \in Steps /\ q.op = op /\ q.x = x /\ q.v = v
  BY DEF Steps, StepOf
<1>2. Step(op, x, v) = <<q>>
  BY DEF Step
<1> QED
  BY <1>1, <1>2

LEMMA InOpsAny == InOps \subseteq AnyOps /\ ScriptOps \subseteq AnyOps
BY DEF InOps, ExchangeOps, SetOps, AnyOps, ScriptOps, JudgeOps, OtherOps

LEMMA Rule ==
  ASSUME NEW p \in Plans, NEW X, authorize \notin X, NEW op \in InOps, op \notin BranchOps,
         NEW x \in Subject, NEW v \in Int, NEW P \in SUBSET In(p, X), NEW Q,
         \A q \in Steps : q.op = op /\ q.x = x /\ q.v = v =>
           /\ \A a \in P : Legal(a, q)
           /\ \A a \in P, b \in State : Becomes(a, q, b) => b \in Q,
         \A a \in P, b \in State : Scanned(a, op, b) => b \in P
  PROVE  Leads(P, Step(op, x, v), Q)
<1>1. PICK q \in Steps : Step(op, x, v) = <<q>> /\ q.op = op /\ q.x = x /\ q.v = v
  BY StepIs, InOpsAny
<1> QED
  BY <1>1, InLeads

LEMMA AmidRule ==
  ASSUME NEW p \in Plans, NEW X, authorize \notin X, NEW S, NEW K,
         NEW op \in InOps, op \notin BranchOps, NEW x \in Subject, NEW v \in Int, NEW Q,
         \A q \in Steps : q.op = op /\ q.x = x /\ q.v = v =>
           /\ \A a \in Amid(p, X, S, K) : Legal(a, q)
           /\ \A a \in Amid(p, X, S, K), b \in State : Becomes(a, q, b) => b \in Q
  PROVE  Leads(Amid(p, X, S, K), Step(op, x, v), Q)
<1>1. Amid(p, X, S, K) \in SUBSET In(p, X)
  BY DEF Amid
<1>2. \A a \in Amid(p, X, S, K), b \in State : Scanned(a, op, b) => b \in Amid(p, X, S, K)
  BY AmidScan
<1> QED
  BY <1>1, <1>2, Rule

\* Steps that need no more than the connection.
EasyOps == (InOps \cap (SetOps \cup ExchangeOps \cup {"wait", "skip"}))
             \ {"check", "atMost", "notZero", "checkMix", "scanning", "note", "compare",
                "count", "dump"}

LEMMA EasyLegal ==
  ASSUME NEW p, NEW X, NEW a \in In(p, X), NEW q, q.op \in EasyOps,
         q.op \in OwnOps => q.x \in Setting
  PROVE  Legal(a, q)
<1>1. Hears(a)
  BY DEF In
<1>2. /\ q.op \notin {"check", "atMost", "notZero", "checkMix", "scanning", "note", "compare",
                     "count", "dump"}
      /\ q.op \notin {"canPlayers", "judge", "ifSecure", "needSongs"}
  BY DEF EasyOps, InOps, ExchangeOps, SetOps
<1> QED
  BY <1>1, <1>2 DEF Legal

\* Steps that change nothing that the settings tell.
LEMMA QuietAmid ==
  ASSUME NEW p \in Plans, NEW X, authorize \notin X, NEW S, NEW K, NEW a \in Amid(p, X, S, K),
         NEW q, q.op \in InOps, q.op \notin SetOps, q.op \notin {"wait", "save", "souvenir"},
         NEW b \in State, Becomes(a, q, b)
  PROVE  b \in Amid(p, X, S, K)
<1>1. b.setting = a.setting /\ b.memo = a.memo /\ b.initial = a.initial
  BY DEF Becomes, Leaves
<1>2. b \in In(p, X)
  BY <1>1, StaysIn DEF Amid
<1> QED
  BY <1>1, <1>2 DEF Amid

LEMMA QuietLeads ==
  ASSUME NEW p \in Plans, NEW X, authorize \notin X, NEW S, NEW K,
         NEW op \in InOps, op \notin BranchOps, op \notin SetOps, op \notin {"wait", "save"},
         NEW x \in Subject, NEW v \in Int,
         \A q \in Steps : q.op = op /\ q.x = x /\ q.v = v =>
           \A a \in Amid(p, X, S, K) : Legal(a, q)
  PROVE  Leads(Amid(p, X, S, K), Step(op, x, v), Amid(p, X, S, K))
<1>1. op # "souvenir"
  BY DEF BranchOps
<1>2. \A q \in Steps : q.op = op /\ q.x = x /\ q.v = v =>
        \A a \in Amid(p, X, S, K), b \in State : Becomes(a, q, b) => b \in Amid(p, X, S, K)
  BY <1>1, QuietAmid
<1> QED
  BY <1>2, AmidRule

LEMMA EasyLeads ==
  ASSUME NEW p \in Plans, NEW X, authorize \notin X, NEW S, NEW K,
         NEW op \in {"known", "skip", "ask", "sort", "tag", "wipecache", "rescan", "waitDone",
                     "sameData", "noTag"}
  PROVE  Leads(Amid(p, X, S, K), Plain(op), Amid(p, X, S, K))
<1> DEFINE x == <<0, "">>
<1>1. x \in Subject
  BY DEF Topic, Subject
<1>2. /\ op \in EasyOps /\ op \in InOps /\ op \notin BranchOps /\ op \notin SetOps
      /\ op \notin {"wait", "save"} /\ op \notin OwnOps
  BY DEF EasyOps, InOps, ExchangeOps, BranchOps, SetOps, OwnOps
<1> HIDE DEF x
<1>3. \A q \in Steps : q.op = op => \A a \in Amid(p, X, S, K) : Legal(a, q)
  BY <1>2, EasyLegal DEF Amid
<1>4. Leads(Amid(p, X, S, K), Step(op, x, 0), Amid(p, X, S, K))
  BY <1>1, <1>2, <1>3, QuietLeads
<1> QED
  BY <1>4 DEF Plain, x

LEMMA SetLeads ==
  ASSUME NEW p \in Plans, NEW X, authorize \notin X, NEW S, NEW K, NEW x \in Free(p, X),
         NEW v \in Int, v # Undef, NEW L \in SUBSET (Setting \X Int), Tells(K, x, v, L)
  PROVE  Leads(Amid(p, X, S, K), Set(x, v), Amid(p, X, S, L))
<1>1. x \in Setting /\ x \in Subject
  BY DEF Free, Subject
<1>2. "set" \in InOps \ {"save", "souvenir"} /\ "set" \notin BranchOps /\ "set" \in EasyOps
  BY DEF InOps, ExchangeOps, SetOps, BranchOps, EasyOps
<1>3. \A c \in L : c[1] \in Setting
  OBVIOUS
<1>4. ASSUME NEW q \in Steps, q.op = "set", q.x = x, q.v = v
      PROVE  /\ \A a \in Amid(p, X, S, K) : Legal(a, q)
             /\ \A a \in Amid(p, X, S, K), b \in State : Becomes(a, q, b) => b \in Amid(p, X, S, L)
  <2>1. ASSUME NEW a \in Amid(p, X, S, K), NEW b \in State, Becomes(a, q, b)
        PROVE  b \in Amid(p, X, S, L)
    BY <1>2, <1>3, <1>4, <2>1, Written DEF Becomes, Sets
  <2>2. \A a \in Amid(p, X, S, K) : Legal(a, q)
    BY <1>1, <1>2, <1>4, EasyLegal DEF Amid
  <2> QED
    BY <2>1, <2>2
<1>5. Leads(Amid(p, X, S, K), Step("set", x, v), Amid(p, X, S, L))
  BY <1>1, <1>2, <1>4, AmidRule
<1> QED
  BY <1>5 DEF Set

LEMMA UnsyncLeads ==
  ASSUME NEW p \in Plans, NEW X, authorize \notin X, NEW S, NEW K \in SUBSET (Setting \X Int),
         NEW i \in 1 .. Players, \A c \in K : c[1] # <<i, "sync">>
  PROVE  Leads(Amid(p, X, S, K), Unsync(i), Amid(p, X, S, K))
<1> DEFINE x == <<i, "sync">>
<1>1. x \in Setting /\ x[2] = "sync" /\ x # groupdiscs
  BY DEF Setting, Attr, groupdiscs
<1> HIDE DEF x
<1>2. x \in Free(p, X)
  BY <1>1 DEF Free, Kept
<1>3. Tells(K, x, 0, K)
  BY <1>1 DEF Tells, x
<1>4. 0 \in Int /\ 0 # Undef
  BY ScriptAssumption DEF Undef
<1> QED
  BY <1>2, <1>3, <1>4, SetLeads DEF Unsync, x

\* A setting that is known is changed.
LEMMA ChangeLeads ==
  ASSUME NEW p \in Plans, NEW X, authorize \notin X, NEW S, NEW K, NEW x \in Free(p, X),
         NEW u \in Int, <<x, u>> \in K, NEW v \in Int, v # Undef,
         NEW op \in {"toggle", "lower"}, v = IF op = "toggle" THEN 1 - u ELSE u - 1,
         NEW L \in SUBSET (Setting \X Int), Tells(K, x, v, L)
  PROVE  Leads(Amid(p, X, S, K), Step(op, x, 0), Amid(p, X, S, L))
<1>1. x \in Setting /\ x \in Subject
  BY DEF Free, Subject
<1>2. op \in InOps \ {"save", "souvenir"} /\ op \notin BranchOps /\ op \in EasyOps
  BY DEF InOps, ExchangeOps, SetOps, BranchOps, EasyOps
<1>3. \A c \in L : c[1] \in Setting
  OBVIOUS
<1>4. ASSUME NEW q \in Steps, q.op = op, q.x = x, q.v = 0
      PROVE  /\ \A a \in Amid(p, X, S, K) : Legal(a, q)
             /\ \A a \in Amid(p, X, S, K), b \in State : Becomes(a, q, b) => b \in Amid(p, X, S, L)
  <2>1. ASSUME NEW a \in Amid(p, X, S, K), NEW b \in State, Becomes(a, q, b)
        PROVE  b \in Amid(p, X, S, L)
    BY <1>2, <1>3, <1>4, <2>1, Written DEF Amid, Becomes, Sets
  <2>2. \A a \in Amid(p, X, S, K) : Legal(a, q)
    BY <1>1, <1>2, <1>4, EasyLegal DEF Amid
  <2> QED
    BY <2>1, <2>2
<1> QED
  BY <1>1, <1>2, <1>4, AmidRule

LEMMA SaveLeads ==
  ASSUME NEW p \in Plans, NEW X, NEW S, NEW K, NEW x \in Setting \ X,
         authorize \notin X \cup {x},
         x[2] = "volume" => MixerTested /\ <<x[1], "muting">> \in Kept(p) \ X
  PROVE  Leads(Amid(p, X, S, K), Save(x), Amid(p, X \cup {x}, S \cup {x}, K))
<1> DEFINE Y == X \cup {x}
<1>1. x \in Subject /\ 0 \in Int /\ "save" \in InOps /\ "save" \notin BranchOps /\ "save" \in EasyOps
      /\ "save" \notin SetOps
  BY DEF Subject, InOps, ExchangeOps, SetOps, BranchOps, EasyOps
<1>2. ASSUME NEW q \in Steps, q.op = "save", q.x = x,
             NEW a \in Amid(p, X, S, K), NEW b \in State, Becomes(a, q, b)
      PROVE  b \in Amid(p, Y, S \cup {x}, K)
  <2>1. b.setting = a.setting /\ b.initial = a.initial /\ b.memo = [a.memo EXCEPT ![x] = Read(a, x)]
    BY <1>2 DEF Becomes, Leaves, Notes, SetOps
  <2>2. a \in In(p, X) /\ a \in In(p, Y) /\ a.plan = p /\ a \in State
    BY AmidLess DEF Amid, In, Bound
  <2>3. b \in In(p, Y)
    BY <1>1, <1>2, <2>1, <2>2, StaysIn
  <2>4. x \in Kept(p) => Read(a, x) = a.initial[x]
    <3>1. \A y \in Kept(p) \ X : a.setting[y] = a.initial[y]
      BY <2>2 DEF In, Bound
    <3>2. CASE x[2] = "volume"
      <4>1. x[1] \in 1 .. Players
        BY <3>2 DEF Setting, Pref
      <4>2. a.initial[<<x[1], "muting">>] = 0
        BY <2>2, <3>2, <4>1 DEF State, FirstSettings
      <4>3. a.setting[<<x[1], "muting">>] = 0
        BY <3>1, <3>2, <4>2
      <4> QED
        BY <3>1, <4>3 DEF Read
    <3>3. CASE x[2] # "volume"
      BY <3>1, <3>3 DEF Read
    <3> QED
      BY <3>2, <3>3
  <2>5. a.memo \in [Setting -> Int]
    BY <2>2 DEF State
  <2>6. \A y \in S \cup {x} : y \in Kept(p) => b.memo[y] = b.initial[y]
    BY <2>1, <2>4, <2>5 DEF Amid, Kept
  <2> QED
    BY <2>1, <2>3, <2>6 DEF Amid
<1>3. \A q \in Steps : q.op = "save" /\ q.x = x => \A a \in Amid(p, X, S, K) : Legal(a, q)
  BY <1>1, EasyLegal DEF Amid
<1> HIDE DEF Y
<1>4. Leads(Amid(p, X, S, K), Step("save", x, 0), Amid(p, Y, S \cup {x}, K))
  BY <1>1, <1>2, <1>3, AmidRule
<1> QED
  BY <1>4 DEF Save, Y

\* A setting that is as it was at the beginning.
LEMMA Settled ==
  ASSUME NEW p, NEW X, NEW S, NEW K, NEW a \in Amid(p, X, S, K), NEW x,
         x \in Kept(p) => a.setting[x] = a.initial[x]
  PROVE  a \in Amid(p, X \ {x}, S, K)
<1>1. a \in In(p, X) /\ a.plan = p
  BY DEF Amid, In
<1>2. Bound(a, X \ {x})
  BY <1>1 DEF In, Bound
<1>3. a \in In(p, X \ {x})
  BY <1>1, <1>2 DEF In
<1> QED
  BY <1>3 DEF Amid

LEMMA RestoreLeads ==
  ASSUME NEW p \in Plans, NEW X, authorize \notin X, NEW S, NEW K, NEW x \in Free(p, X), x \in S,
         NEW L \in SUBSET (Setting \X Int), \A c \in L : c \in K /\ c[1] # x, x[2] # "power"
  PROVE  Leads(Amid(p, X, S, K), Restore(x), Amid(p, X \ {x}, S, L))
<1>1. x \in Setting /\ x \in Subject /\ 0 \in Int
  BY DEF Free, Subject
<1>2. "restore" \in InOps \ {"save", "souvenir"} /\ "restore" \notin BranchOps /\ "restore" \in EasyOps
  BY DEF InOps, ExchangeOps, SetOps, BranchOps, EasyOps
<1>3. (\A c \in L : c[1] \in Setting) /\ \A v : Tells(K, x, v, L)
  BY DEF Tells
<1>4. ASSUME NEW q \in Steps, q.op = "restore", q.x = x,
             NEW a \in Amid(p, X, S, K), NEW b \in State, Becomes(a, q, b)
      PROVE  b \in Amid(p, X \ {x}, S, L)
  <2> DEFINE w == Brought(a, x)
  <2>1. b.setting = Given(a, x, w) /\ b.initial = a.initial /\ a \in State
    BY <1>4 DEF Becomes, Leaves, Sets, Amid, In
  <2>2. w \in Int /\ a.initial[x] # Undef /\ (x \in Kept(p) => w = a.initial[x])
    BY <1>1, <2>1, BroughtIs DEF Amid
  <2> HIDE DEF w
  <2>3. CASE w # Undef
    <3>1. b \in Amid(p, X, S, L)
      BY <1>2, <1>3, <1>4, <2>1, <2>2, <2>3, Written
    <3>2. x \in Kept(p) => b.setting[x] = b.initial[x]
      <4>1. \A v \in Int : v # Undef => Given(a, x, v)[x] = v
        BY <1>1, <2>1, GivenIs
      <4> QED
        BY <2>1, <2>2, <2>3, <4>1
    <3> QED
      BY <3>1, <3>2, Settled
  <2>4. CASE w = Undef
    <3>1. x \notin Kept(p)
      BY <2>2, <2>4
    <3>2. b.setting = a.setting /\ b.memo = a.memo
      BY <1>4, <2>1, <2>4 DEF Given, Taken, Becomes, Leaves
    <3>3. b \in In(p, X)
      BY <1>2, <1>4, <3>2, StaysIn DEF Amid
    <3>4. b \in Amid(p, X, S, L)
      BY <1>4, <2>1, <3>2, <3>3 DEF Amid
    <3> QED
      BY <3>1, <3>4, Settled
  <2> QED
    BY <2>3, <2>4
<1>5. \A q \in Steps : q.op = "restore" /\ q.x = x => \A a \in Amid(p, X, S, K) : Legal(a, q)
  BY <1>1, <1>2, EasyLegal DEF Amid
<1>6. Leads(Amid(p, X, S, K), Step("restore", x, 0), Amid(p, X \ {x}, S, L))
  BY <1>1, <1>2, <1>4, <1>5, AmidRule
<1> QED
  BY <1>6 DEF Restore

\* Subtests on what is known.
LEMMA TellLeads ==
  ASSUME NEW p \in Plans, NEW X, authorize \notin X, NEW S, NEW K, NEW x \in Setting, NEW u \in Int,
         u # Undef, \A a \in Amid(p, X, S, K) : Read(a, x) = u
  PROVE  /\ Leads(Amid(p, X, S, K), Check(x, u), Amid(p, X, S, K))
         /\ \A v \in Int : u <= v => Leads(Amid(p, X, S, K), AtMost(x, v), Amid(p, X, S, K))
         /\ u # 0 => Leads(Amid(p, X, S, K), NotZero(x), Amid(p, X, S, K))
<1>1. x \in Subject /\ 0 \in Int
  BY DEF Subject
<1>2. \A op \in {"check", "atMost", "notZero"} :
        op \in InOps /\ op \notin BranchOps /\ op \notin SetOps /\ op \notin {"wait", "save"}
        /\ op \in ExchangeOps /\ op \in OwnOps
  BY DEF InOps, ExchangeOps, SetOps, BranchOps, OwnOps
<1>3. \A a \in Amid(p, X, S, K) : Hears(a) /\ Num(Read(a, x)) = u
  BY DEF Amid, In, Num
<1>4. \A q \in Steps : q.op = "check" /\ q.x = x /\ q.v = u =>
        \A a \in Amid(p, X, S, K) : Legal(a, q)
  BY <1>2, <1>3 DEF Legal
<1>5. \A v \in Int : u <= v => \A q \in Steps : q.op = "atMost" /\ q.x = x /\ q.v = v =>
        \A a \in Amid(p, X, S, K) : Legal(a, q)
  BY <1>2, <1>3 DEF Legal
<1>6. u # 0 => \A q \in Steps : q.op = "notZero" /\ q.x = x => \A a \in Amid(p, X, S, K) : Legal(a, q)
  BY <1>2, <1>3 DEF Legal
<1>7. Leads(Amid(p, X, S, K), Step("check", x, u), Amid(p, X, S, K))
  BY <1>1, <1>2, <1>4, QuietLeads
<1>8. ASSUME NEW v \in Int, u <= v
      PROVE  Leads(Amid(p, X, S, K), Step("atMost", x, v), Amid(p, X, S, K))
  BY <1>1, <1>2, <1>5, <1>8, QuietLeads
<1>9. ASSUME u # 0 PROVE Leads(Amid(p, X, S, K), Step("notZero", x, 0), Amid(p, X, S, K))
  BY <1>1, <1>2, <1>6, <1>9, QuietLeads
<1> QED
  BY <1>7, <1>8, <1>9 DEF Check, AtMost, NotZero

\* What is known after a while.
Passed(K, L) ==
  \A c \in L :
    \/ c \in K /\ c[1][2] \notin {"message", "sleep", "power"}
    \/ c[1][2] = "message" /\ c[2] = 0
    \/ c[1][2] = "sleep" /\ \E u \in Int : <<c[1], u>> \in K /\ c[2] = IF u = 0 THEN 0 ELSE u - 1
    \/ c[1][2] = "power" /\ c[2] = 0 /\ <<<<c[1][1], "sleep">>, 1>> \in K

LEMMA WaitLeads ==
  ASSUME NEW p \in Plans, NEW X, authorize \notin X, NEW S, NEW K,
         NEW L \in SUBSET (Setting \X Int), Passed(K, L)
  PROVE  Leads(Amid(p, X, S, K), Wait, Amid(p, X, S, L))
<1> DEFINE x == <<0, "">>
<1>1. x \in Subject
  BY DEF Topic, Subject
<1> HIDE DEF x
<1>2. "wait" \in InOps \ {"save", "souvenir"} /\ "wait" \notin BranchOps /\ "wait" \in EasyOps
      /\ "wait" \notin OwnOps
  BY DEF InOps, ExchangeOps, SetOps, BranchOps, EasyOps, OwnOps
<1>3. ASSUME NEW q \in Steps, q.op = "wait",
             NEW a \in Amid(p, X, S, K), NEW b \in State, Becomes(a, q, b)
      PROVE  b \in Amid(p, X, S, L)
  <2>1. b.setting = Later(a) /\ b.initial = a.initial /\ b.memo = a.memo
    BY <1>3 DEF Becomes, Leaves, Sets
  <2>2. \A y \in Setting : y[2] \notin {"message", "sleep", "power"} => b.setting[y] = a.setting[y]
    BY <2>1 DEF Later
  <2>3. b \in In(p, X)
    BY <1>2, <1>3, <2>2, Preferences, StaysIn DEF Kept, groupdiscs, Amid
  <2>4. ASSUME NEW c \in L PROVE b.setting[c[1]] = c[2]
    <3>1. c[1] \in Setting /\ \A d \in K : a.setting[d[1]] = d[2]
      BY DEF Amid
    <3>2. CASE c \in K /\ c[1][2] \notin {"message", "sleep", "power"}
      BY <2>2, <3>1, <3>2
    <3>3. CASE c[1][2] = "message" /\ c[2] = 0
      BY <2>1, <3>1, <3>3 DEF Later
    <3>4. CASE c[1][2] = "sleep" /\ \E u \in Int : <<c[1], u>> \in K /\ c[2] = IF u = 0 THEN 0 ELSE u - 1
      <4>1. PICK u \in Int : <<c[1], u>> \in K /\ c[2] = IF u = 0 THEN 0 ELSE u - 1
        BY <3>4
      <4>2. a.setting[c[1]] = u
        BY <3>1, <4>1
      <4> QED
        BY <2>1, <3>1, <3>4, <4>1, <4>2 DEF Later
    <3>5. CASE c[1][2] = "power" /\ c[2] = 0 /\ <<<<c[1][1], "sleep">>, 1>> \in K
      BY <2>1, <3>1, <3>5 DEF Later
    <3> QED
      BY <3>2, <3>3, <3>4, <3>5 DEF Passed
  <2> QED
    BY <2>1, <2>3, <2>4 DEF Amid
<1>4. \A q \in Steps : q.op = "wait" => \A a \in Amid(p, X, S, K) : Legal(a, q)
  BY <1>2, EasyLegal DEF Amid
<1>5. Leads(Amid(p, X, S, K), Step("wait", x, 0), Amid(p, X, S, L))
  BY <1>1, <1>2, <1>3, <1>4, AmidRule
<1> QED
  BY <1>5 DEF Wait, Plain, x

-----------------------------------------------------------------------------
(* The tests: each one leads from a state with a connection to such a      *)
(* state, and is not to blame for anything on the way.                     *)

\* Between two values of a setting.
LEMMA AmidIn == ASSUME NEW p, NEW X, NEW S, NEW K PROVE Amid(p, X, S, K) \subseteq In(p, X)
BY DEF Amid

LEMMA InAmid == ASSUME NEW p, NEW X PROVE Amid(p, X, {}, {}) = In(p, X)
BY DEF Amid

LEMMA InCalm == ASSUME NEW p PROVE In(p, {}) \subseteq Calm(p)
<1>1. \A a \in In(p, {}) : a.gcli
  BY DEF In, Hears
<1> QED
  BY <1>1 DEF In, Calm

LEMMA GeneralLeads ==
  ASSUME NEW p \in Plans PROVE Leads(In(p, {}), GeneralScript, In(p, {}))
<1> DEFINE d == <<0, "d_cli">>
           c == <<0, "composerInArtists">>
           A(x, K) == Amid(p, {x}, {x}, K)
           N == Amid(p, {}, {}, {})
           k(x, v) == {<<x, v>>}
<1>1. d \in Setting /\ c \in Setting /\ d # authorize /\ c # authorize /\ d # groupdiscs /\ c # groupdiscs
      /\ d[2] \notin {"volume", "power"} /\ c[2] \notin {"volume", "power"}
  BY DEF Setting, Pref, authorize, groupdiscs
<1>2. \A v \in {0, 1} : v \in Int /\ v # Undef
  BY ScriptAssumption DEF Undef
<1>3. Leads(N, Known, N) /\ Leads(N, Times(4, Known), N)
  <2>1. authorize \notin {}
    OBVIOUS
  <2>2. Leads(N, Known, N)
    BY <2>1, EasyLeads DEF Known
  <2>3. \A i \in 1 .. 4 : Leads(N, Known, N)
    BY <2>2
  <2> DEFINE ss == [i \in 1 .. 4 |-> Known]
             I == [i \in 0 .. 4 |-> N]
  <2>4. ss = [i \in 1 .. 4 |-> ss[i]] /\ \A i \in 1 .. 4 : Leads(I[i - 1], ss[i], I[i])
    BY <2>2
  <2>5. I[0] = N /\ I[4] = N
    OBVIOUS
  <2> HIDE DEF ss, I, N
  <2>6. Leads(I[0], FlattenSeq(ss), I[4])
    BY <2>4, LoopLeads
  <2>7. Leads(N, FlattenSeq(ss), N)
    BY <2>5, <2>6
  <2> QED
    BY <2>2, <2>7 DEF ss, Times
<1> HIDE DEF d, c
<1>4. ASSUME NEW x \in {d, c}
      PROVE  /\ Leads(N, Save(x), A(x, {}))
             /\ \A v \in {0, 1} :
                  /\ Leads(A(x, {}), Set(x, v), A(x, k(x, v)))
                  /\ Leads(A(x, k(x, v)), Check(x, v), A(x, k(x, v)))
                  /\ Leads(A(x, k(x, v)), Toggle(x), A(x, k(x, 1 - v)))
                  /\ Leads(A(x, k(x, v)), Set(x, 1 - v), A(x, k(x, 1 - v)))
                  /\ Leads(A(x, k(x, v)), Restore(x), N)
  <2>1. x \in Setting /\ authorize \notin {x} /\ x \in Free(p, {x}) /\ x[2] # "volume" /\ x[2] # "power"
    BY <1>1 DEF Free
  <2>2. Leads(N, Save(x), A(x, {}))
    <3>1. x \in Setting \ {} /\ authorize \notin {} \cup {x} /\ {} \cup {x} = {x}
      BY <2>1
    <3> QED
      BY <2>1, <3>1, SaveLeads
  <2>3. ASSUME NEW v \in {0, 1}
        PROVE  /\ Leads(A(x, {}), Set(x, v), A(x, k(x, v)))
               /\ Leads(A(x, k(x, v)), Check(x, v), A(x, k(x, v)))
               /\ Leads(A(x, k(x, v)), Toggle(x), A(x, k(x, 1 - v)))
               /\ Leads(A(x, k(x, v)), Set(x, 1 - v), A(x, k(x, 1 - v)))
               /\ Leads(A(x, k(x, v)), Restore(x), N)
    <3>1. v \in Int /\ 1 - v \in Int /\ v # Undef /\ 1 - v # Undef
      BY <1>2
    <3>2. k(x, v) \in SUBSET (Setting \X Int) /\ k(x, 1 - v) \in SUBSET (Setting \X Int)
          /\ {} \in SUBSET (Setting \X Int)
      BY <2>1, <3>1
    <3>3. Tells({}, x, v, k(x, v)) /\ Tells(k(x, v), x, 1 - v, k(x, 1 - v)) /\ <<x, v>> \in k(x, v)
      BY DEF Tells
    <3> HIDE DEF k
    <3>4. Leads(A(x, {}), Set(x, v), A(x, k(x, v)))
      BY <2>1, <3>1, <3>2, <3>3, SetLeads
    <3>5. Leads(A(x, k(x, v)), Set(x, 1 - v), A(x, k(x, 1 - v)))
      BY <2>1, <3>1, <3>2, <3>3, SetLeads
    <3>6. Leads(A(x, k(x, v)), Toggle(x), A(x, k(x, 1 - v)))
      BY <2>1, <3>1, <3>2, <3>3, ChangeLeads DEF Toggle
    <3>7. Leads(A(x, k(x, v)), Check(x, v), A(x, k(x, v)))
      <4>1. \A a \in A(x, k(x, v)) : Read(a, x) = v
        <5> SUFFICES ASSUME NEW a \in A(x, k(x, v)) PROVE Read(a, x) = v
          OBVIOUS
        <5> QED
          BY <2>1, <3>3 DEF Amid, Read
      <4> QED
        BY <2>1, <3>1, <4>1, TellLeads
    <3>8. Leads(A(x, k(x, v)), Restore(x), N)
      <4>1. Leads(A(x, k(x, v)), Restore(x), Amid(p, {x} \ {x}, {x}, {}))
        BY <2>1, <3>2, RestoreLeads
      <4>2. Amid(p, {x} \ {x}, {x}, {}) \subseteq N
        BY AmidLess
      <4> QED
        BY <4>1, <4>2, LeadsFrom
    <3> QED
      BY <3>4, <3>5, <3>6, <3>7, <3>8
  <2> QED
    BY <2>2, <2>3
<1> HIDE DEF A, N, k
<1>5. 0 \in {0, 1} /\ 1 \in {0, 1} /\ 1 - 0 = 1 /\ 1 - 1 = 0 /\ d \in {d, c} /\ c \in {d, c}
  OBVIOUS
<1> DEFINE w == Known \o Save(d) \o Set(d, 0) \o Check(d, 0) \o Set(d, 1) \o Check(d, 1)
                \o Toggle(d) \o Check(d, 0) \o Restore(d)
<1>6. Leads(N, w, N)
  BY <1>3, <1>4, <1>5, LeadsJoin
<1> HIDE DEF w
<1>7. Leads(N, w \o Save(c) \o Set(c, 0) \o Check(c, 0) \o Set(c, 1) \o Check(c, 1)
               \o Restore(c) \o Times(4, Known), N)
  BY <1>3, <1>4, <1>5, <1>6, LeadsJoin
<1> QED
  BY <1>7, InAmid DEF GeneralScript, w, d, c, N

\* The setting at of the players in I is v.
Of(I, at, v) == {<<<<i, at>>, v>> : i \in I}

LEMMA OfPlayers ==
  ASSUME NEW n \in 0 .. Players, NEW at \in Attr, NEW v \in Int
  PROVE  Of(1 .. n, at, v) \in SUBSET (Setting \X Int)
<1>1. \A i \in 1 .. n : <<i, at>> \in Setting
  BY ServerAssumption DEF Setting
<1> QED
  BY <1>1 DEF Of

LEMMA PlayerFree ==
  ASSUME NEW p \in Plans, NEW n \in 0 .. Players, NEW at \in {"power", "sleep", "message"}, NEW X
  PROVE  /\ at \in Attr /\ \A i \in 1 .. n : <<i, at>> \in Free(p, X) /\ <<i, at>> \in Setting
         /\ \A i, w : <<i, w>>[1] = i /\ <<i, w>>[2] = w
<1>1. at \in Attr
  BY DEF Attr
<1>2. \A i \in 1 .. n : <<i, at>> \in Setting /\ <<i, at>> # groupdiscs /\ <<i, at>> \notin Kept(p)
  BY <1>1, ServerAssumption DEF Setting, groupdiscs, Kept
<1> QED
  BY <1>1, <1>2 DEF Free

\* Loops over the players.
LEMMA EachLeads ==
  ASSUME NEW n \in Nat, NEW ss, ss = [i \in 1 .. n |-> ss[i]], NEW p, NEW X, NEW S, NEW Knows,
         \A i \in 1 .. n : Leads(Amid(p, X, S, Knows[i - 1]), ss[i], Amid(p, X, S, Knows[i]))
  PROVE  Leads(Amid(p, X, S, Knows[0]), FlattenSeq(ss), Amid(p, X, S, Knows[n]))
<1> DEFINE I == [i \in 0 .. n |-> Amid(p, X, S, Knows[i])]
<1>1. \A i \in 1 .. n : Leads(I[i - 1], ss[i], I[i])
  OBVIOUS
<1>2. I[0] = Amid(p, X, S, Knows[0]) /\ I[n] = Amid(p, X, S, Knows[n])
  OBVIOUS
<1> HIDE DEF I
<1>3. Leads(I[0], FlattenSeq(ss), I[n])
  BY <1>1, LoopLeads
<1> QED
  BY <1>2, <1>3

LEMMA StayLeads ==
  ASSUME NEW n \in Nat, NEW ss, ss = [i \in 1 .. n |-> ss[i]], NEW P,
         \A i \in 1 .. n : Leads(P, ss[i], P)
  PROVE  Leads(P, FlattenSeq(ss), P)
<1> DEFINE I == [i \in 0 .. n |-> P]
<1>1. (\A i \in 1 .. n : Leads(I[i - 1], ss[i], I[i])) /\ I[0] = P /\ I[n] = P
  OBVIOUS
<1> HIDE DEF I
<1> QED
  BY <1>1, LoopLeads

LEMMA EachSet ==
  ASSUME NEW p \in Plans, NEW X, authorize \notin X, NEW S, NEW K, NEW n \in 0 .. Players,
         NEW at \in {"power", "sleep", "message"}, NEW v \in Int, v # Undef,
         NEW L \in SUBSET (Setting \X Int),
         \A c \in L : c \in K /\ c[1][2] # at /\ (at = "power" => c[1][2] # "sleep")
  PROVE  /\ Leads(Amid(p, X, S, K), FlattenSeq([i \in 1 .. n |-> Set(<<i, at>>, v)]),
                  Amid(p, X, S, L \cup Of(1 .. n, at, v)))
         /\ L = {} => Leads(Amid(p, X, S, K),
                  FlattenSeq([i \in 1 .. n |-> Unsync(i) \o Set(<<i, at>>, v)]),
                  Amid(p, X, S, Of(1 .. n, at, v)))
<1> DEFINE Knows == [i \in 0 .. n |-> L \cup Of(1 .. i, at, v)]
           ss == [i \in 1 .. n |-> Set(<<i, at>>, v)]
           tt == [i \in 1 .. n |-> Unsync(i) \o Set(<<i, at>>, v)]
<1>1. n \in Nat /\ ss = [i \in 1 .. n |-> ss[i]] /\ tt = [i \in 1 .. n |-> tt[i]]
  OBVIOUS
<1>2. ASSUME NEW i \in 1 .. n
      PROVE  /\ Leads(Amid(p, X, S, Knows[i - 1]), ss[i], Amid(p, X, S, Knows[i]))
             /\ L = {} => Leads(Amid(p, X, S, Knows[i - 1]), tt[i], Amid(p, X, S, Knows[i]))
  <2> DEFINE x == <<i, at>>
  <2>1. x \in Free(p, X) /\ x[1] = i /\ x[2] = at /\ at \in Attr
    BY PlayerFree
  <2>2. Knows[i] \in SUBSET (Setting \X Int)
    BY <2>1, OfPlayers, ServerAssumption
  <2>3. Tells(Knows[i - 1], x, v, Knows[i])
    <3> SUFFICES ASSUME NEW c \in Knows[i]
                 PROVE  \/ c = <<x, v>>
                        \/ c \in Knows[i - 1] /\ c[1] # x
                             /\ (x[2] = "power" /\ v = 0 => c[1] # <<x[1], "sleep">>)
      BY DEF Tells
    <3>1. CASE c \in L
      BY <2>1, <3>1
    <3>2. CASE c \in Of(1 .. i, at, v)
      <4>1. PICK j \in 1 .. i : c = <<<<j, at>>, v>>
        BY <3>2 DEF Of
      <4>2. CASE j # i
        BY <2>1, <4>1, <4>2 DEF Of
      <4> QED
        BY <4>1, <4>2
    <3> QED
      BY <3>1, <3>2
  <2>4. i - 1 \in 0 .. n /\ i \in 1 .. Players
    BY ServerAssumption
  <2>5. Knows[i - 1] \in SUBSET (Setting \X Int)
    BY <2>1, <2>4, OfPlayers, ServerAssumption
  <2>6. L = {} => \A c \in Knows[i - 1] : c[1] # <<i, "sync">>
    BY DEF Of
  <2> HIDE DEF Knows, x
  <2>7. Leads(Amid(p, X, S, Knows[i - 1]), Set(x, v), Amid(p, X, S, Knows[i]))
    BY <2>1, <2>2, <2>3, SetLeads
  <2>8. L = {} => Leads(Amid(p, X, S, Knows[i - 1]), Unsync(i), Amid(p, X, S, Knows[i - 1]))
    BY <2>4, <2>5, <2>6, UnsyncLeads
  <2>9. L = {} => Leads(Amid(p, X, S, Knows[i - 1]), Unsync(i) \o Set(x, v), Amid(p, X, S, Knows[i]))
    BY <2>7, <2>8, LeadsJoin
  <2> QED
    BY <2>7, <2>9 DEF x
<1>3. /\ Knows[0] \subseteq K /\ Knows[n] = L \cup Of(1 .. n, at, v)
      /\ L = {} => Knows[n] = Of(1 .. n, at, v)
  BY DEF Of
<1> HIDE DEF Knows, ss, tt
<1>4. /\ Leads(Amid(p, X, S, Knows[0]), FlattenSeq(ss), Amid(p, X, S, Knows[n]))
      /\ L = {} => Leads(Amid(p, X, S, Knows[0]), FlattenSeq(tt), Amid(p, X, S, Knows[n]))
  BY <1>1, <1>2, EachLeads
<1>5. Amid(p, X, S, K) \subseteq Amid(p, X, S, Knows[0])
  BY <1>3, AmidLess
<1>6. Leads(Amid(p, X, S, K), FlattenSeq(ss), Amid(p, X, S, L \cup Of(1 .. n, at, v)))
  BY <1>3, <1>4, <1>5, LeadsFrom
<1>7. ASSUME L = {}
      PROVE  Leads(Amid(p, X, S, K), FlattenSeq(tt), Amid(p, X, S, Of(1 .. n, at, v)))
  BY <1>3, <1>4, <1>5, <1>7, LeadsFrom
<1> QED
  BY <1>6, <1>7 DEF ss, tt

LEMMA OneCheck ==
  ASSUME NEW p \in Plans, NEW X, authorize \notin X, NEW S, NEW K, NEW n \in 0 .. Players,
         NEW at \in {"power", "sleep", "message"}, NEW u \in Int, u # Undef,
         Of(1 .. n, at, u) \subseteq K, NEW i \in 1 .. n
  PROVE  /\ Leads(Amid(p, X, S, K), Check(<<i, at>>, u), Amid(p, X, S, K))
         /\ \A v \in Int : u <= v => Leads(Amid(p, X, S, K), AtMost(<<i, at>>, v), Amid(p, X, S, K))
         /\ u # 0 => Leads(Amid(p, X, S, K), NotZero(<<i, at>>), Amid(p, X, S, K))
<1> DEFINE x == <<i, at>>
<1>1. x \in Setting /\ x[2] # "volume"
  BY PlayerFree
<1>2. <<x, u>> \in K
  BY DEF Of
<1> HIDE DEF x
<1>3. \A a \in Amid(p, X, S, K) : Read(a, x) = u
  BY <1>1, <1>2 DEF Amid, Read
<1>4. /\ Leads(Amid(p, X, S, K), Check(x, u), Amid(p, X, S, K))
      /\ \A v \in Int : u <= v => Leads(Amid(p, X, S, K), AtMost(x, v), Amid(p, X, S, K))
      /\ u # 0 => Leads(Amid(p, X, S, K), NotZero(x), Amid(p, X, S, K))
  BY <1>1, <1>3, TellLeads
<1> QED
  BY <1>4 DEF x

LEMMA EachCheck ==
  ASSUME NEW p \in Plans, NEW X, authorize \notin X, NEW S, NEW K, NEW n \in 0 .. Players,
         NEW at \in {"power", "sleep", "message"}, NEW u \in Int, u # Undef,
         Of(1 .. n, at, u) \subseteq K
  PROVE  Leads(Amid(p, X, S, K), FlattenSeq([i \in 1 .. n |-> Check(<<i, at>>, u)]), Amid(p, X, S, K))
<1> DEFINE ss == [i \in 1 .. n |-> Check(<<i, at>>, u)]
<1>1. n \in Nat /\ ss = [i \in 1 .. n |-> ss[i]]
  OBVIOUS
<1>2. \A i \in 1 .. n : Leads(Amid(p, X, S, K), ss[i], Amid(p, X, S, K))
  BY OneCheck
<1> HIDE DEF ss
<1>3. Leads(Amid(p, X, S, K), FlattenSeq(ss), Amid(p, X, S, K))
  BY <1>1, <1>2, StayLeads
<1> QED
  BY <1>3 DEF ss

LEMMA PowerLeads ==
  ASSUME NEW p \in Plans, NEW n \in 0 .. Players
  PROVE  Leads(In(p, {}), PowerScript(n), In(p, {}))
<1> DEFINE A(K) == Amid(p, {}, {}, K)
           o(v) == Of(1 .. n, "power", v)
           Sets1(v) == FlattenSeq([i \in 1 .. n |-> Set(<<i, "power">>, v)])
           Off == FlattenSeq([i \in 1 .. n |-> Unsync(i) \o Set(<<i, "power">>, 0)])
           Checks(v) == FlattenSeq([i \in 1 .. n |-> Check(<<i, "power">>, v)])
           ss == [i \in 1 .. n |-> Toggle(<<i, "power">>)]
<1>1. authorize \notin {} /\ "power" \in {"power", "sleep", "message"} /\ {} \in SUBSET (Setting \X Int)
  OBVIOUS
<1>2. \A v \in {0, 1} : v \in Int /\ v # Undef
  BY ScriptAssumption DEF Undef
<1>3. ASSUME NEW v \in {0, 1}
      PROVE  (\A K : Leads(A(K), Sets1(v), A(o(v)))) /\ Leads(A(o(v)), Checks(v), A(o(v)))
  <2>1. ASSUME NEW K PROVE Leads(A(K), Sets1(v), A({} \cup o(v)))
    BY <1>1, <1>2, EachSet
  <2>2. {} \cup o(v) = o(v)
    OBVIOUS
  <2>3. Leads(A(o(v)), Checks(v), A(o(v)))
    BY <1>1, <1>2, EachCheck
  <2> QED
    BY <2>1, <2>2, <2>3
<1>4. Leads(A(o(1)), FlattenSeq(ss), A(o(0)))
  <2> DEFINE Knows == [i \in 0 .. n |-> Of(1 .. i, "power", 0) \cup Of(i + 1 .. n, "power", 1)]
  <2>1. n \in Nat /\ ss = [i \in 1 .. n |-> ss[i]]
    OBVIOUS
  <2>2. ASSUME NEW i \in 1 .. n PROVE Leads(A(Knows[i - 1]), ss[i], A(Knows[i]))
    <3> DEFINE x == <<i, "power">>
    <3>1. x \in Free(p, {}) /\ x[2] = "power" /\ x[1] = i
      BY PlayerFree
    <3>2. Knows[i] \in SUBSET (Setting \X Int)
      BY PlayerFree DEF Of
    <3>3. <<x, 1>> \in Knows[i - 1]
      BY DEF Of
    <3>4. Tells(Knows[i - 1], x, 0, Knows[i])
      <4> SUFFICES ASSUME NEW c \in Knows[i], c # <<x, 0>>
                   PROVE  c \in Knows[i - 1] /\ c[1] # x /\ c[1] # <<x[1], "sleep">>
        BY DEF Tells
      <4>1. PICK j \in 1 .. n : /\ j <= i => c = <<<<j, "power">>, 0>>
                                /\ j > i => c = <<<<j, "power">>, 1>>
        BY DEF Of
      <4>2. j # i
        BY <4>1
      <4>3. c \in Knows[i - 1]
        BY <4>1, <4>2 DEF Of
      <4>4. c[1] = <<j, "power">>
        BY <4>1
      <4> QED
        BY <4>2, <4>3, <4>4
    <3> HIDE DEF Knows, x
    <3>5. Leads(A(Knows[i - 1]), Step("toggle", x, 0), A(Knows[i]))
      BY <1>1, <1>2, <3>1, <3>2, <3>3, <3>4, ChangeLeads
    <3> QED
      BY <3>5 DEF Toggle, x
  <2>3. Knows[0] = o(1) /\ Knows[n] = o(0)
    BY DEF Of
  <2> HIDE DEF Knows, ss, o
  <2>4. Leads(A(Knows[0]), FlattenSeq(ss), A(Knows[n]))
    BY <2>1, <2>2, EachLeads
  <2> QED
    BY <2>3, <2>4
<1>5. 0 \in {0, 1} /\ 1 \in {0, 1}
  OBVIOUS
<1>6. A(o(0)) \subseteq In(p, {}) /\ A({}) = In(p, {})
  BY AmidIn, InAmid
<1>9. Leads(A({}), Off, A(o(0)))
  BY <1>1, <1>2, <1>5, EachSet
<1> HIDE DEF A, o, Sets1, Off, Checks, ss
<1>7. Leads(A({}), Off \o Checks(0) \o Sets1(1) \o Checks(1) \o FlattenSeq(ss) \o Checks(0), A(o(0)))
  BY <1>3, <1>4, <1>5, <1>9, LeadsJoin
<1>8. Leads(In(p, {}), Off \o Checks(0) \o Sets1(1) \o Checks(1) \o FlattenSeq(ss) \o Checks(0), In(p, {}))
  BY <1>6, <1>7, LeadsFrom
<1> QED
  BY <1>8 DEF PowerScript, Each, Sets1, Off, Checks, ss

LEMMA SleepLeads ==
  ASSUME NEW p \in Plans, NEW n \in 0 .. Players, \E k \in DOMAIN p : p[k] = "sleep"
  PROVE  Leads(In(p, {}), SleepScript(n), In(p, {}))
<1> DEFINE A(K) == Amid(p, {}, {}, K)
           s(v) == Of(1 .. n, "sleep", v)
           half == MixMax \div 2
           Power(i) == <<i, "power">>
           Sleep(i) == <<i, "sleep">>
           Vol(i) == <<i, "volume">>
           begin == [i \in 1 .. n |-> Set(Power(i), 1) \o Unsync(i) \o Set(Vol(i), half) \o Set(Sleep(i), 3)]
           count(k) == [i \in 1 .. n |-> AtMost(Sleep(i), k) \o NotZero(Sleep(i))]
           off == [i \in 1 .. n |-> Check(Sleep(i), 0) \o Check(Power(i), 0)]
           again == [i \in 1 .. n |-> Set(Power(i), 1) \o Set(Sleep(i), 3)]
           most == [i \in 1 .. n |-> AtMost(Sleep(i), 3)]
           down == [i \in 1 .. n |-> Set(Power(i), 0)]
           up == [i \in 1 .. n |-> Set(Power(i), 1)]
           none == [i \in 1 .. n |-> Check(Sleep(i), 0)]
<1>1. authorize \notin {} /\ {} \in SUBSET (Setting \X Int) /\ n \in Nat
      /\ \A at \in {"power", "sleep"} : at \in {"power", "sleep", "message"}
  OBVIOUS
<1>2. \A v \in {0, 1, 2, 3} : v \in Int /\ v # Undef
  BY ScriptAssumption DEF Undef
<1>3. half \in Int /\ half # Undef
  BY ScriptAssumption DEF Undef
<1> HIDE DEF half
<1>4. ASSUME NEW K, NEW i \in 1 .. n
      PROVE  Leads(A(K \cap s(3)), Set(Power(i), 1), A(K \cap s(3)))
  <2>1. Power(i) \in Free(p, {})
    BY PlayerFree
  <2>2. K \cap s(3) \in SUBSET (Setting \X Int)
    BY OfPlayers DEF Attr
  <2>3. Tells(K \cap s(3), Power(i), 1, K \cap s(3))
    BY DEF Tells, Of
  <2> HIDE DEF s, Power
  <2> QED
    BY <1>1, <1>2, <2>1, <2>2, <2>3, SetLeads
<1>5. ASSUME NEW K, NEW i \in 1 .. n
      PROVE  Leads(A(K \cap s(3)), Set(Vol(i), half), A(K \cap s(3)))
  <2>1. Vol(i) \in Free(p, {})
    BY ServerAssumption DEF Setting, Attr, groupdiscs, Free, Kept
  <2>2. K \cap s(3) \in SUBSET (Setting \X Int)
    BY OfPlayers DEF Attr
  <2>3. Tells(K \cap s(3), Vol(i), half, K \cap s(3))
    BY DEF Tells, Of
  <2> HIDE DEF s, Vol
  <2> QED
    BY <1>1, <1>3, <2>1, <2>2, <2>3, SetLeads
<1>28. ASSUME NEW K, NEW i \in 1 .. n
       PROVE  Leads(A(K \cap s(3)), Unsync(i), A(K \cap s(3)))
  <2>1. i \in 1 .. Players /\ K \cap s(3) \in SUBSET (Setting \X Int)
    BY OfPlayers, ServerAssumption DEF Attr
  <2>2. \A c \in K \cap s(3) : c[1] # <<i, "sync">>
    BY DEF Of
  <2> HIDE DEF s
  <2> QED
    BY <1>1, <2>1, <2>2, UnsyncLeads
<1>6. ASSUME NEW i \in 1 .. n
      PROVE  Leads(A(Of(1 .. i - 1, "sleep", 3)), Set(Sleep(i), 3), A(Of(1 .. i, "sleep", 3)))
  <2>1. Sleep(i) \in Free(p, {})
    BY PlayerFree
  <2>2. Of(1 .. i, "sleep", 3) \in SUBSET (Setting \X Int)
    BY OfPlayers, ServerAssumption DEF Attr
  <2>3. Tells(Of(1 .. i - 1, "sleep", 3), Sleep(i), 3, Of(1 .. i, "sleep", 3))
    BY DEF Tells, Of
  <2> HIDE DEF Sleep
  <2> QED
    BY <1>1, <1>2, <2>1, <2>2, <2>3, SetLeads
<1>7. \A i \in 0 .. n : Of(1 .. i, "sleep", 3) \cap s(3) = Of(1 .. i, "sleep", 3)
  BY DEF Of
<1> DEFINE Knows == [i \in 0 .. n |-> Of(1 .. i, "sleep", 3)]
<1>8. Knows[0] = {} /\ Knows[n] = s(3) /\ \A i \in 1 .. n : i - 1 \in 0 .. n /\ i \in 0 .. n
  BY DEF Of
<1>9. \A i \in 1 .. n : Leads(A(Knows[i - 1]), begin[i], A(Knows[i]))
  <2> SUFFICES ASSUME NEW i \in 1 .. n PROVE Leads(A(Knows[i - 1]), begin[i], A(Knows[i]))
    OBVIOUS
  <2>1. /\ Leads(A(Of(1 .. i - 1, "sleep", 3)), Set(Power(i), 1), A(Of(1 .. i - 1, "sleep", 3)))
        /\ Leads(A(Of(1 .. i - 1, "sleep", 3)), Unsync(i), A(Of(1 .. i - 1, "sleep", 3)))
        /\ Leads(A(Of(1 .. i - 1, "sleep", 3)), Set(Vol(i), half), A(Of(1 .. i - 1, "sleep", 3)))
    BY <1>4, <1>5, <1>7, <1>8, <1>28
  <2> HIDE DEF A, Power, Vol, Sleep
  <2>2. Leads(A(Of(1 .. i - 1, "sleep", 3)),
              Set(Power(i), 1) \o Unsync(i) \o Set(Vol(i), half) \o Set(Sleep(i), 3),
              A(Of(1 .. i, "sleep", 3)))
    BY <1>6, <2>1, LeadsJoin
  <2> QED
    BY <1>8, <2>2
<1>10. \A i \in 1 .. n : Leads(A(Knows[i - 1]), again[i], A(Knows[i]))
  <2> SUFFICES ASSUME NEW i \in 1 .. n PROVE Leads(A(Knows[i - 1]), again[i], A(Knows[i]))
    OBVIOUS
  <2>1. Leads(A(Of(1 .. i - 1, "sleep", 3)), Set(Power(i), 1), A(Of(1 .. i - 1, "sleep", 3)))
    BY <1>4, <1>7, <1>8
  <2> HIDE DEF A, Power, Vol, Sleep
  <2>2. Leads(A(Of(1 .. i - 1, "sleep", 3)), Set(Power(i), 1) \o Set(Sleep(i), 3),
              A(Of(1 .. i, "sleep", 3)))
    BY <1>6, <2>1, LeadsJoin
  <2> QED
    BY <1>8, <2>2
<1>11. /\ begin = [i \in 1 .. n |-> begin[i]] /\ again = [i \in 1 .. n |-> again[i]]
       /\ off = [i \in 1 .. n |-> off[i]] /\ most = [i \in 1 .. n |-> most[i]]
       /\ \A k : count(k) = [i \in 1 .. n |-> count(k)[i]]
  OBVIOUS
<1>12. Leads(A({}), FlattenSeq(begin), A(s(3))) /\ Leads(A({}), FlattenSeq(again), A(s(3)))
  <2> HIDE DEF Knows, begin, again
  <2>1. Leads(A(Knows[0]), FlattenSeq(begin), A(Knows[n]))
    BY <1>1, <1>9, <1>11, EachLeads
  <2>2. Leads(A(Knows[0]), FlattenSeq(again), A(Knows[n]))
    BY <1>1, <1>10, <1>11, EachLeads
  <2> QED
    BY <1>8, <2>1, <2>2
<1>13. ASSUME NEW k \in {1, 2, 3} PROVE Leads(A(s(k)), FlattenSeq(count(k)), A(s(k)))
  <2>1. ASSUME NEW i \in 1 .. n PROVE Leads(A(s(k)), count(k)[i], A(s(k)))
    <3>1. /\ Leads(A(s(k)), AtMost(<<i, "sleep">>, k), A(s(k)))
          /\ Leads(A(s(k)), NotZero(<<i, "sleep">>), A(s(k)))
      <4>1. k \in Int /\ k # Undef /\ k <= k /\ k # 0
        BY <1>2
      <4> QED
        BY <1>1, <4>1, OneCheck
    <3> HIDE DEF A, s
    <3>2. Leads(A(s(k)), AtMost(<<i, "sleep">>, k) \o NotZero(<<i, "sleep">>), A(s(k)))
      BY <3>1, LeadsJoin
    <3> QED
      BY <3>2
  <2> HIDE DEF A, s, count
  <2> QED
    BY <1>1, <1>11, <2>1, StayLeads
<1> DEFINE sp == s(0) \cup Of(1 .. n, "power", 0)
<1>14. Leads(A(s(3)), Wait, A(s(2))) /\ Leads(A(s(2)), Wait, A(s(1))) /\ Leads(A(s(1)), Wait, A(sp))
  <2>1. s(2) \in SUBSET (Setting \X Int) /\ s(1) \in SUBSET (Setting \X Int) /\ sp \in SUBSET (Setting \X Int)
    BY OfPlayers DEF Attr
  <2>2. Passed(s(3), s(2)) /\ Passed(s(2), s(1))
    BY DEF Passed, Of
  <2>3. Passed(s(1), sp)
    <3>1. \A c \in sp :
            \/ c[1][2] = "sleep" /\ <<c[1], 1>> \in s(1) /\ c[2] = 0
            \/ c[1][2] = "power" /\ c[2] = 0 /\ <<<<c[1][1], "sleep">>, 1>> \in s(1)
      BY DEF Of
    <3>2. 1 \in Int /\ 0 = IF 1 = 0 THEN 0 ELSE 1 - 1
      OBVIOUS
    <3> HIDE DEF s, sp
    <3> QED
      BY <3>1, <3>2 DEF Passed
  <2> HIDE DEF s, sp
  <2> QED
    BY <1>1, <2>1, <2>2, <2>3, WaitLeads
<1>15. Leads(A(sp), FlattenSeq(off), A(sp))
  <2>1. ASSUME NEW i \in 1 .. n PROVE Leads(A(sp), off[i], A(sp))
    <3>1. /\ Leads(A(sp), Check(<<i, "sleep">>, 0), A(sp))
          /\ Leads(A(sp), Check(<<i, "power">>, 0), A(sp))
      <4>1. Of(1 .. n, "sleep", 0) \subseteq sp /\ Of(1 .. n, "power", 0) \subseteq sp
        OBVIOUS
      <4> HIDE DEF sp
      <4> QED
        BY <1>1, <1>2, <4>1, OneCheck
    <3> HIDE DEF A, sp
    <3>2. Leads(A(sp), Check(<<i, "sleep">>, 0) \o Check(<<i, "power">>, 0), A(sp))
      BY <3>1, LeadsJoin
    <3> QED
      BY <3>2
  <2> HIDE DEF A, sp, off
  <2> QED
    BY <1>1, <1>11, <2>1, StayLeads
<1>16. A(sp) \subseteq A({}) /\ A(s(3)) \subseteq A({}) /\ A(s(0)) \subseteq A({})
  BY AmidLess
<1>17. Leads(A(s(3)), FlattenSeq(most), A(s(3)))
  <2>1. ASSUME NEW i \in 1 .. n PROVE Leads(A(s(3)), most[i], A(s(3)))
    <3>1. 3 \in Int /\ 3 # Undef /\ 3 <= 3
      BY <1>2
    <3>2. Leads(A(s(3)), AtMost(<<i, "sleep">>, 3), A(s(3)))
      BY <1>1, <3>1, OneCheck
    <3> QED
      BY <3>2
  <2> HIDE DEF A, s, most
  <2> QED
    BY <1>1, <1>11, <2>1, StayLeads
<1>18. Leads(A({}), FlattenSeq(down), A(s(0)))
  <2> DEFINE Lies == [i \in 0 .. n |-> Of(1 .. i, "sleep", 0)]
  <2>1. ASSUME NEW i \in 1 .. n PROVE Leads(A(Lies[i - 1]), down[i], A(Lies[i]))
    <3>1. Power(i) \in Free(p, {})
      BY PlayerFree
    <3>2. Lies[i] \in SUBSET (Setting \X Int)
      BY OfPlayers, ServerAssumption DEF Attr
    <3>3. Tells(Lies[i - 1], Power(i), 0, Lies[i])
      <4> SUFFICES ASSUME NEW c \in Lies[i], c # <<<<i, "sleep">>, 0>>
                   PROVE  c \in Lies[i - 1] /\ c[1] # Power(i) /\ c[1] # <<i, "sleep">>
        BY DEF Tells
      <4>1. PICK j \in 1 .. i : c = <<<<j, "sleep">>, 0>>
        BY DEF Of
      <4>2. j \in 1 .. i - 1
        BY <4>1
      <4> QED
        BY <4>1, <4>2 DEF Of
    <3> HIDE DEF Lies, Power
    <3>4. Leads(A(Lies[i - 1]), Set(Power(i), 0), A(Lies[i]))
      BY <1>1, <1>2, <3>1, <3>2, <3>3, SetLeads
    <3> QED
      BY <3>4
  <2>2. Lies[0] = {} /\ Lies[n] = s(0) /\ down = [i \in 1 .. n |-> down[i]]
    BY DEF Of
  <2> HIDE DEF Lies, down
  <2>3. Leads(A(Lies[0]), FlattenSeq(down), A(Lies[n]))
    BY <1>1, <2>1, <2>2, EachLeads
  <2> QED
    BY <2>2, <2>3
<1>19. Leads(A(s(0)), FlattenSeq(up), A(s(0)))
  <2>1. ASSUME NEW i \in 1 .. n PROVE Leads(A(s(0)), up[i], A(s(0)))
    <3>1. Power(i) \in Free(p, {})
      BY PlayerFree
    <3>2. s(0) \in SUBSET (Setting \X Int)
      BY OfPlayers DEF Attr
    <3>3. Tells(s(0), Power(i), 1, s(0))
      BY DEF Tells, Of
    <3> HIDE DEF s, Power
    <3>4. Leads(A(s(0)), Set(Power(i), 1), A(s(0)))
      BY <1>1, <1>2, <3>1, <3>2, <3>3, SetLeads
    <3> QED
      BY <3>4
  <2>2. up = [i \in 1 .. n |-> up[i]]
    OBVIOUS
  <2> HIDE DEF up, s, A
  <2> QED
    BY <1>1, <2>1, <2>2, StayLeads
<1>20. Leads(A(s(0)), FlattenSeq(none), A(s(0)))
  BY <1>1, <1>2, EachCheck
<1> HIDE DEF A, s, begin, count, off, again, most, down, up, none, sp, Knows
<1>21. 1 \in {1, 2, 3} /\ 2 \in {1, 2, 3} /\ 3 \in {1, 2, 3}
  OBVIOUS
<1> DEFINE w == FlattenSeq(begin) \o FlattenSeq(count(3)) \o Wait \o FlattenSeq(count(2)) \o Wait
                \o FlattenSeq(count(1)) \o Wait \o FlattenSeq(off)
           z == w \o FlattenSeq(again) \o FlattenSeq(most) \o FlattenSeq(down) \o FlattenSeq(up)
                \o FlattenSeq(none)
<1>22. Leads(A({}), w, A(sp))
  BY <1>12, <1>13, <1>14, <1>15, <1>21, LeadsJoin
<1> HIDE DEF w
<1>23. Leads(A({}), w, A({}))
  BY <1>16, <1>22, LeadsFrom
<1>24. Leads(A(s(3)), FlattenSeq(down), A(s(0)))
  BY <1>16, <1>18, LeadsFrom
<1>25. Leads(A({}), z, A(s(0)))
  BY <1>12, <1>17, <1>19, <1>20, <1>23, <1>24, LeadsJoin
<1> HIDE DEF z
<1>26. Leads(A({}), z, A({}))
  BY <1>16, <1>25, LeadsFrom
<1>27. z = SleepScript(n)
  BY DEF SleepScript, Each, z, w, begin, count, off, again, most, down, up, none, half
<1> QED
  BY <1>26, <1>27, InAmid DEF A

\* __testPlayersMixer: the field x has the value that it was given.
Mixing(p, x) == {a \in Amid(p, {x}, {x}, {}) : a.setting[x] = a.value}

LEMMA MixSteps ==
  ASSUME NEW p \in Plans, NEW x \in Setting, x[2] \in {"volume", "treble"}, MixerTested
  PROVE  /\ Leads(Amid(p, {x}, {x}, {}), Step("mixAbs", x, 0), Mixing(p, x))
         /\ Leads(Mixing(p, x), Step("mixUp", x, 0), Mixing(p, x))
         /\ Leads(Mixing(p, x), Step("mixDown", x, 0), Mixing(p, x))
         /\ Leads(Mixing(p, x), Step("checkMix", x, 0), Mixing(p, x))
<1>1. /\ x \in Subject /\ 0 \in Int /\ authorize \notin {x} /\ x \in Free(p, {x})
      /\ {} \in SUBSET (Setting \X Int)
  BY DEF Subject, Free, authorize, groupdiscs
<1>2. \A op \in {"mixAbs", "mixUp", "mixDown"} :
        /\ op \in InOps \ {"save", "souvenir"} /\ op \notin BranchOps /\ op \in EasyOps
  BY DEF InOps, ExchangeOps, SetOps, BranchOps, EasyOps
<1>3. "checkMix" \in InOps \ {"save", "souvenir"} /\ "checkMix" \notin BranchOps
      /\ "checkMix" \notin SetOps /\ "checkMix" # "wait"
      /\ "checkMix" \in ExchangeOps /\ "checkMix" \in OwnOps /\ "checkMix" \notin MixOps
  BY DEF InOps, ExchangeOps, SetOps, BranchOps, OwnOps, MixOps
<1>4. /\ MixMax \in Nat /\ Undef \in Int /\ Undef < 0
      /\ \A v \in Int : Clamp(v) \in 0 .. MixMax /\ (v \in 0 .. MixMax => Clamp(v) = v)
  BY ScriptAssumption DEF Undef, Clamp
<1>5. Mixing(p, x) \in SUBSET In(p, {x}) /\ Amid(p, {x}, {x}, {}) \in SUBSET In(p, {x})
  BY DEF Mixing, Amid
<1>6. \A op : \A a \in Mixing(p, x), b \in State : Scanned(a, op, b) => b \in Mixing(p, x)
  <2> SUFFICES ASSUME NEW a \in Mixing(p, x), NEW op, NEW b \in State, Scanned(a, op, b)
               PROVE  b \in Mixing(p, x)
    OBVIOUS
  <2>1. b \in Amid(p, {x}, {x}, {})
    BY AmidScan DEF Mixing
  <2> QED
    BY <2>1 DEF Mixing, Scanned
<1>7. \A op \in {"mixAbs", "mixUp", "mixDown"}, a \in In(p, {x}), q \in Steps :
        q.op = op /\ q.x = x => Legal(a, q)
  BY <1>2, EasyLegal
<1>8. ASSUME NEW a \in Amid(p, {x}, {x}, {}), NEW q \in Steps, q.op \in {"mixAbs", "mixUp", "mixDown"},
             NEW b \in State, Becomes(a, q, b), b.setting = Given(a, x, b.value)
      PROVE  b \in Mixing(p, x)
  <2>1. b.value \in 0 .. MixMax
    BY DEF State
  <2>2. b.value \in Int /\ b.value # Undef
    BY <1>4, <2>1
  <2>3. Tells({}, x, b.value, {}) /\ \A c \in {} : c[1] \in Setting
    BY DEF Tells
  <2>4. b \in Amid(p, {x}, {x}, {})
    BY <1>1, <1>2, <1>8, <2>2, <2>3, Written
  <2>5. a \in State
    BY DEF Amid, In
  <2>6. b.setting[x] = b.value
    <3>1. \A v \in Int : v # Undef => Given(a, x, v)[x] = v
      BY <2>5, GivenIs
    <3> QED
      BY <1>8, <2>2, <3>1
  <2> QED
    BY <2>4, <2>6 DEF Mixing
<1>9. Leads(Amid(p, {x}, {x}, {}), Step("mixAbs", x, 0), Mixing(p, x))
  <2>1. ASSUME NEW q \in Steps, q.op = "mixAbs", q.x = x, NEW a \in Amid(p, {x}, {x}, {}),
               NEW b \in State, Becomes(a, q, b)
        PROVE  b \in Mixing(p, x)
    BY <1>8, <2>1 DEF Becomes, Sets
  <2>2. \A q \in Steps : q.op = "mixAbs" /\ q.x = x => \A a \in Amid(p, {x}, {x}, {}) : Legal(a, q)
    BY <1>5, <1>7
  <2> QED
    BY <1>1, <1>2, <2>1, <2>2, AmidRule
<1>10. ASSUME NEW op \in {"mixUp", "mixDown"}
       PROVE  Leads(Mixing(p, x), Step(op, x, 0), Mixing(p, x))
  <2>1. ASSUME NEW q \in Steps, q.op = op, q.x = x, NEW a \in Mixing(p, x),
               NEW b \in State, Becomes(a, q, b)
        PROVE  b \in Mixing(p, x)
    <3>1. a \in Amid(p, {x}, {x}, {}) /\ a.setting[x] = a.value /\ a \in State
      BY DEF Mixing, Amid, In
    <3>2. a.value \in 0 .. MixMax /\ b.value \in 0 .. MixMax
      BY <3>1 DEF State
    <3>3. \/ b.setting = Given(a, x, Clamp(a.setting[x] + (b.value - a.value)))
          \/ b.setting = Given(a, x, Clamp(a.setting[x] - (a.value - b.value)))
      BY <2>1 DEF Becomes, Sets
    <3>4. a.value + (b.value - a.value) = b.value /\ a.value - (a.value - b.value) = b.value
      BY <1>4, <3>2
    <3>5. Clamp(b.value) = b.value
      BY <1>4, <3>2
    <3>6. b.setting = Given(a, x, b.value)
      BY <3>1, <3>3, <3>4, <3>5
    <3> QED
      BY <1>8, <2>1, <3>1, <3>6
  <2>2. \A q \in Steps : q.op = op /\ q.x = x => \A a \in Mixing(p, x) : Legal(a, q)
    BY <1>5, <1>7
  <2> DEFINE P == Mixing(p, x)
  <2>3. \A q \in Steps : q.op = op /\ q.x = x /\ q.v = 0 =>
          /\ \A a \in P : Legal(a, q)
          /\ \A a \in P, b \in State : Becomes(a, q, b) => b \in P
    BY <2>1, <2>2
  <2>4. P \in SUBSET In(p, {x}) /\ \A a \in P, b \in State : Scanned(a, op, b) => b \in P
    BY <1>5, <1>6
  <2> HIDE DEF P
  <2>5. Leads(P, Step(op, x, 0), P)
    BY <1>1, <1>2, <2>3, <2>4, Rule
  <2> QED
    BY <2>5 DEF P
<1>11. Leads(Mixing(p, x), Step("checkMix", x, 0), Mixing(p, x))
  <2>1. ASSUME NEW q \in Steps, q.op = "checkMix", q.x = x, NEW a \in Mixing(p, x)
        PROVE  /\ Legal(a, q)
               /\ \A b \in State : Becomes(a, q, b) => b \in Mixing(p, x)
    <3>1. a \in Amid(p, {x}, {x}, {}) /\ a.setting[x] = a.value /\ a \in State /\ a \in In(p, {x})
      BY DEF Mixing, Amid, In
    <3>2. Read(a, x) = a.value
      <4>1. CASE x[2] = "volume"
        <5>1. x[1] \in 1 .. Players /\ <<x[1], "muting">> \in Kept(p) \ {x}
          BY <4>1 DEF Setting, Pref, Kept, Attr, groupdiscs
        <5>2. a.setting[<<x[1], "muting">>] = a.initial[<<x[1], "muting">>]
          BY <3>1, <5>1 DEF In, Bound
        <5>3. a.initial[<<x[1], "muting">>] = 0
          BY <3>1, <5>1 DEF State, FirstSettings
        <5> QED
          BY <3>1, <5>2, <5>3 DEF Read
      <4>2. CASE x[2] # "volume"
        BY <3>1, <4>2 DEF Read
      <4> QED
        BY <4>1, <4>2
    <3>3. Num(Read(a, x)) = a.value /\ Hears(a)
      <4>1. a.value \in 0 .. MixMax /\ Hears(a)
        BY <3>1 DEF State, In
      <4> QED
        BY <1>4, <3>2, <4>1 DEF Num
    <3>4. Legal(a, q)
      BY <1>3, <2>1, <3>3 DEF Legal
    <3>5. ASSUME NEW b \in State, Becomes(a, q, b) PROVE b \in Mixing(p, x)
      BY <1>1, <1>3, <2>1, <3>1, <3>5, QuietAmid DEF Becomes, Leaves, Mixing
    <3> QED
      BY <3>4, <3>5
  <2> DEFINE P == Mixing(p, x)
             op == "checkMix"
  <2>2. \A q \in Steps : q.op = op /\ q.x = x /\ q.v = 0 =>
          /\ \A a \in P : Legal(a, q)
          /\ \A a \in P, b \in State : Becomes(a, q, b) => b \in P
    BY <2>1
  <2>3. P \in SUBSET In(p, {x}) /\ \A a \in P, b \in State : Scanned(a, op, b) => b \in P
    BY <1>5, <1>6
  <2>4. op \in InOps /\ op \notin BranchOps
    BY <1>3
  <2> HIDE DEF P, op
  <2>5. Leads(P, Step(op, x, 0), P)
    BY <1>1, <2>2, <2>3, <2>4, Rule
  <2> QED
    BY <2>5 DEF P, op
<1> QED
  BY <1>9, <1>10, <1>11

LEMMA MixerLeads ==
  ASSUME NEW p \in Plans, NEW x \in Setting, x[2] \in {"volume", "treble"}, MixerTested
  PROVE  Leads(In(p, {}), MixerScript(x), In(p, {}))
<1> DEFINE M == Amid(p, {x}, {x}, {})
<1>1. /\ authorize \notin {x} /\ x \in Free(p, {x}) /\ x \in Setting \ {} /\ {} \cup {x} = {x}
      /\ {} \in SUBSET (Setting \X Int) /\ x[2] # "power"
  BY DEF Free, authorize, groupdiscs
<1>2. x[2] = "volume" => <<x[1], "muting">> \in Kept(p) \ {}
  BY DEF Setting, Pref, Attr, groupdiscs, Kept
<1>3. Leads(In(p, {}), Save(x), M)
  BY <1>1, <1>2, SaveLeads, InAmid
<1>4. Leads(M, Restore(x), In(p, {}))
  <2>1. Leads(M, Restore(x), Amid(p, {x} \ {x}, {x}, {}))
    BY <1>1, RestoreLeads
  <2>2. Amid(p, {x} \ {x}, {x}, {}) \subseteq Amid(p, {}, {}, {})
    BY AmidLess
  <2> QED
    BY <2>1, <2>2, LeadsFrom, InAmid
<1>5. Leads(Mixing(p, x), Restore(x), In(p, {}))
  <2>1. Mixing(p, x) \subseteq M
    BY DEF Mixing
  <2> QED
    BY <1>4, <2>1, LeadsFrom
<1> HIDE DEF M
<1>6. /\ Leads(M, Step("mixAbs", x, 0), Mixing(p, x))
      /\ Leads(Mixing(p, x), Step("mixUp", x, 0), Mixing(p, x))
      /\ Leads(Mixing(p, x), Step("mixDown", x, 0), Mixing(p, x))
      /\ Leads(Mixing(p, x), Step("checkMix", x, 0), Mixing(p, x))
  BY MixSteps DEF M
<1> QED
  BY <1>3, <1>5, <1>6, LeadsJoin DEF MixerScript

\* A step that puts others in front, each of which leads there.
LEMMA BranchRule ==
  ASSUME NEW p \in Plans, NEW X, authorize \notin X, NEW S, NEW K, NEW op \in InOps, NEW x \in Subject,
         NEW Q,
         \A q \in Steps : q.op = op /\ q.x = x =>
           /\ \A a \in Amid(p, X, S, K) : Legal(a, q)
           /\ \A a \in Amid(p, X, S, K), b \in State : \A w : Becomes(a, q, b) /\ Puts(a, q, w) =>
                \E O : b \in O /\ Leads(O, w, Q)
  PROVE  Leads(Amid(p, X, S, K), Step(op, x, 0), Q)
<1>1. PICK q \in Steps : Step(op, x, 0) = <<q>> /\ q.op = op /\ q.x = x
  BY StepIs, InOpsAny
<1>2. Amid(p, X, S, K) \in SUBSET State /\ \A a \in Amid(p, X, S, K) : Fine(a)
  BY InFine DEF Amid
<1>3. \A a \in Amid(p, X, S, K), b \in State : Scanned(a, q.op, b) => b \in Amid(p, X, S, K)
  BY AmidScan
<1> QED
  BY <1>1, <1>2, <1>3, StepLeads

LEMMA ModelLeads ==
  ASSUME NEW p \in Plans, NEW i \in 1 .. Players, MixerTested
  PROVE  Leads(In(p, {}), Step("model", <<i, "treble">>, 0), In(p, {}))
<1> DEFINE x == <<i, "treble">>
           N == Amid(p, {}, {}, {})
<1>1. x \in Setting /\ x \in Subject /\ x[2] = "treble" /\ authorize \notin {}
  BY DEF Setting, Subject, Attr
<1>2. "model" \in InOps /\ "model" \in EasyOps /\ "model" \notin OwnOps /\ "model" \notin SetOps
      /\ "model" \notin {"wait", "save", "souvenir"}
  BY DEF InOps, ExchangeOps, SetOps, EasyOps, OwnOps
<1> HIDE DEF x
<1>3. Leads(N, MixerScript(x), N)
  BY <1>1, MixerLeads, InAmid
<1>4. Leads(N, Skip, N)
  BY EasyLeads DEF Skip
<1>5. Leads(N, Skip \o Skip, N)
  BY <1>4, LeadsJoin
<1>6. ASSUME NEW q \in Steps, q.op = "model", q.x = x
      PROVE  /\ \A a \in N : Legal(a, q)
             /\ \A a \in N, b \in State : \A w : Becomes(a, q, b) /\ Puts(a, q, w) =>
                  \E O : b \in O /\ Leads(O, w, N)
  <2>1. \A a \in N : Legal(a, q)
    BY <1>2, <1>6, EasyLegal DEF Amid
  <2>2. ASSUME NEW a \in N, NEW b \in State, NEW w, Becomes(a, q, b), Puts(a, q, w)
        PROVE  b \in N /\ Leads(N, w, N)
    BY <1>1, <1>2, <1>3, <1>5, <1>6, <2>2, QuietAmid DEF Puts
  <2> QED
    BY <2>1, <2>2
<1>7. Leads(N, Step("model", x, 0), N)
  BY <1>1, <1>2, <1>6, BranchRule
<1> QED
  BY <1>7, InAmid DEF x

LEMMA PlayersMixerLeads ==
  ASSUME NEW p \in Plans, NEW n \in 0 .. Players, MixerTested
  PROVE  Leads(In(p, {}), PlayersMixerScript(n), In(p, {}))
<1> DEFINE half == MixMax \div 2
           N == In(p, {})
           Vol(i) == <<i, "volume">>
           Mut(i) == <<i, "muting">>
           Body(i) == MixerScript(Vol(i))
             \o Save(Vol(i)) \o Set(Vol(i), half)
             \o Toggle(Mut(i)) \o (Check(Mut(i), 1) \o Check(Vol(i), -half))
             \o Toggle(Mut(i)) \o (Check(Mut(i), 0) \o Check(Vol(i), half))
             \o Set(Mut(i), 1) \o (Check(Mut(i), 1) \o Check(Vol(i), -half))
             \o Set(Mut(i), 0) \o (Check(Mut(i), 0) \o Check(Vol(i), half))
             \o Restore(Vol(i)) \o Step("model", <<i, "treble">>, 0)
<1>1. /\ half \in Int /\ -half \in Int /\ half # Undef /\ -half # Undef /\ -(-half) = half
      /\ \A v \in {0, 1} : v \in Int /\ v # Undef
  BY ScriptAssumption DEF Undef
<1> HIDE DEF half
<1>2. ASSUME NEW i \in 1 .. n PROVE Leads(N, Body(i), N)
  <2> DEFINE v == Vol(i)
             m == Mut(i)
             K(u) == {<<m, u>>, <<v, half>>}
             V == Amid(p, {v}, {v}, {})
             A(L) == Amid(p, {v, m}, {v}, L)
  <2>1. /\ i \in 1 .. Players /\ v \in Setting /\ m \in Setting /\ v # m
        /\ authorize \notin {v} /\ authorize \notin {v, m}
        /\ v \in Free(p, {v}) /\ v \in Free(p, {v, m}) /\ m \in Free(p, {v, m})
        /\ v[1] = i /\ v[2] = "volume" /\ m[1] = i /\ m[2] = "muting" /\ m \in Kept(p)
        /\ m = <<v[1], "muting">>
    BY ServerAssumption DEF Setting, Attr, Free, Kept, authorize, groupdiscs
  <2>2. Leads(N, MixerScript(v), N)
    BY <2>1, MixerLeads
  <2>3. Leads(N, Step("model", <<i, "treble">>, 0), N)
    BY <2>1, ModelLeads
  <2> HIDE DEF v, m
  <2>4. Leads(N, Save(v), V)
    BY <2>1, SaveLeads, InAmid
  <2>5. \A a \in State : a.initial[m] = 0
    <3>1. m = <<i, "muting">> /\ i \in 1 .. Players
      BY <2>1
    <3>2. \A a \in State : a.initial[<<i, "muting">>] = 0
      BY <3>1 DEF State, FirstSettings
    <3> QED
      BY <3>1, <3>2
  <2>6. V \subseteq A({<<m, 0>>})
    <3> SUFFICES ASSUME NEW a \in V PROVE a \in A({<<m, 0>>})
      OBVIOUS
    <3>1. a \in State /\ a \in In(p, {v}) /\ a \in In(p, {v, m}) /\ a.plan = p
      BY DEF Amid, In, Bound
    <3>2. a.setting[m] = 0
      BY <2>1, <2>5, <3>1 DEF In, Bound
    <3> QED
      BY <3>1, <3>2 DEF Amid
  <2>7. A(K(0)) \subseteq V
    <3> SUFFICES ASSUME NEW a \in A(K(0)) PROVE a \in V
      OBVIOUS
    <3>1. a.setting[m] = 0 /\ a \in State
      BY DEF Amid, In
    <3>2. a \in Amid(p, {v, m} \ {m}, {v}, K(0))
      <4> HIDE DEF K
      <4> QED
        BY <2>5, <3>1, Settled
    <3>3. {v, m} \ {m} \subseteq {v}
      OBVIOUS
    <3> HIDE DEF K
    <3> QED
      BY <3>2, <3>3, AmidLess
  <2>8. /\ {<<m, 0>>} \in SUBSET (Setting \X Int)
        /\ K(0) \in SUBSET (Setting \X Int) /\ K(1) \in SUBSET (Setting \X Int)
        /\ {} \in SUBSET (Setting \X Int)
    BY <1>1, <2>1
  <2>9. Leads(A({<<m, 0>>}), Set(v, half), A(K(0)))
    <3>1. Tells({<<m, 0>>}, v, half, K(0))
      BY <2>1 DEF Tells
    <3> HIDE DEF K
    <3> QED
      BY <1>1, <2>1, <2>8, <3>1, SetLeads
  <2>10. /\ Tells(K(0), m, 1, K(1)) /\ Tells(K(1), m, 0, K(0))
         /\ <<m, 0>> \in K(0) /\ <<m, 1>> \in K(1) /\ <<v, half>> \in K(0) /\ <<v, half>> \in K(1)
    BY <2>1 DEF Tells
  <2> HIDE DEF K
  <2>11. /\ Leads(A(K(0)), Toggle(m), A(K(1))) /\ Leads(A(K(1)), Toggle(m), A(K(0)))
         /\ Leads(A(K(0)), Set(m, 1), A(K(1))) /\ Leads(A(K(1)), Set(m, 0), A(K(0)))
    BY <1>1, <2>1, <2>8, <2>10, ChangeLeads, SetLeads DEF Toggle
  <2>12. /\ \A a \in A(K(0)) : Read(a, m) = 0 /\ Read(a, v) = half
         /\ \A a \in A(K(1)) : Read(a, m) = 1 /\ Read(a, v) = -half
    BY <2>1, <2>10 DEF Amid, Read
  <2>13. /\ Leads(A(K(0)), Check(m, 0), A(K(0))) /\ Leads(A(K(0)), Check(v, half), A(K(0)))
         /\ Leads(A(K(1)), Check(m, 1), A(K(1))) /\ Leads(A(K(1)), Check(v, -half), A(K(1)))
    BY <1>1, <2>1, <2>12, TellLeads
  <2>14. Leads(V, Restore(v), N)
    <3>1. Leads(V, Restore(v), Amid(p, {v} \ {v}, {v}, {}))
      BY <2>1, <2>8, RestoreLeads
    <3>2. Amid(p, {v} \ {v}, {v}, {}) \subseteq Amid(p, {}, {}, {})
      BY AmidLess
    <3> QED
      BY <3>1, <3>2, LeadsFrom, InAmid
  <2> HIDE DEF A, V, N
  <2>15. Leads(V, Set(v, half), A(K(0))) /\ Leads(A(K(0)), Restore(v), N)
    BY <2>6, <2>7, <2>9, <2>14, LeadsFrom
  <2>16. /\ Leads(A(K(1)), Check(m, 1) \o Check(v, -half), A(K(1)))
         /\ Leads(A(K(0)), Check(m, 0) \o Check(v, half), A(K(0)))
    BY <2>13, LeadsJoin
  <2> DEFINE w == MixerScript(v) \o Save(v) \o Set(v, half)
                  \o Toggle(m) \o (Check(m, 1) \o Check(v, -half))
                  \o Toggle(m) \o (Check(m, 0) \o Check(v, half))
             y == w \o Set(m, 1) \o (Check(m, 1) \o Check(v, -half))
                  \o Set(m, 0) \o (Check(m, 0) \o Check(v, half))
             z == y \o Restore(v) \o Step("model", <<i, "treble">>, 0)
  <2>17. Leads(N, w, A(K(0)))
    BY <2>2, <2>4, <2>11, <2>15, <2>16, LeadsJoin
  <2> HIDE DEF w
  <2>18. Leads(N, y, A(K(0)))
    BY <2>11, <2>16, <2>17, LeadsJoin
  <2> HIDE DEF y
  <2>19. Leads(N, y \o Restore(v), N)
    BY <2>15, <2>18, LeadsJoin
  <2>20. Leads(N, z, N)
    BY <2>3, <2>19, LeadsJoin
  <2> QED
    BY <2>20 DEF z, y, w, v, m
<1>3. Leads(N, FlattenSeq([i \in 1 .. n |-> Unsync(i) \o Set(<<i, "power">>, 1)]), N)
  <2>1. authorize \notin {} /\ "power" \in {"power", "sleep", "message"} /\ {} \in SUBSET (Setting \X Int)
    OBVIOUS
  <2>2. Leads(Amid(p, {}, {}, {}), FlattenSeq([i \in 1 .. n |-> Unsync(i) \o Set(<<i, "power">>, 1)]),
              Amid(p, {}, {}, Of(1 .. n, "power", 1)))
    BY <1>1, <2>1, EachSet
  <2>3. Amid(p, {}, {}, Of(1 .. n, "power", 1)) \subseteq N
    BY AmidIn
  <2> QED
    BY <2>2, <2>3, LeadsFrom, InAmid
<1> HIDE DEF Body
<1> DEFINE ss == [i \in 1 .. n |-> Body(i)]
<1>4. n \in Nat /\ ss = [i \in 1 .. n |-> ss[i]] /\ \A i \in 1 .. n : ss[i] = Body(i)
  OBVIOUS
<1> HIDE DEF ss, N, Body
<1>5. Leads(N, FlattenSeq(ss), N)
  BY <1>2, <1>4, StayLeads
<1>6. Leads(N, FlattenSeq([i \in 1 .. n |-> Unsync(i) \o Set(<<i, "power">>, 1)]) \o FlattenSeq(ss), N)
  BY <1>3, <1>5, LeadsJoin
<1>7. PlayersMixerScript(n) = FlattenSeq([i \in 1 .. n |-> Unsync(i) \o Set(<<i, "power">>, 1)]) \o FlattenSeq(ss)
  BY DEF PlayersMixerScript, Each, ss, Body, half
<1> QED
  BY <1>6, <1>7 DEF N

\* testPlayersDisplay: a player that shows one line shows two, and one again.
Doubles(I) == {<<i, "doublesize">> : i \in I}

LEMMA DoubleFree ==
  ASSUME NEW p \in Plans, NEW i \in 1 .. Players, NEW X, <<i, "doublesize">> \in X
  PROVE  /\ <<i, "doublesize">> \in Free(p, X) /\ <<i, "doublesize">> \in Setting
         /\ <<i, "doublesize">> \in Kept(p) /\ \A a \in State : a.initial[<<i, "doublesize">>] \in {0, 1}
<1>1. <<i, "doublesize">> \in Setting /\ <<i, "doublesize">> # groupdiscs
  BY DEF Setting, Attr, groupdiscs
<1>2. <<i, "doublesize">> \in Kept(p)
  BY <1>1 DEF Kept
<1>3. \A a \in State : a.initial[<<i, "doublesize">>] \in {0, 1}
  BY DEF State, FirstSettings
<1> QED
  BY <1>1, <1>2, <1>3 DEF Free

LEMMA DoublesApart ==
  ASSUME NEW I, I \subseteq Int
  PROVE  authorize \notin Doubles(I) /\ \A i : <<i, "doublesize">> \in Doubles(I) <=> i \in I
BY DEF Doubles, authorize

LEMMA SouvenirLeads ==
  ASSUME NEW p \in Plans, NEW i \in 1 .. Players
  PROVE  LET D(k) == Doubles(1 .. k)
             P(k) == Amid(p, D(k), D(k), Of(1 .. k, "doublesize", 0))
         IN  Leads(P(i - 1), Step("souvenir", <<i, "doublesize">>, 0), P(i))
<1> DEFINE x == <<i, "doublesize">>
           X == Doubles(1 .. i - 1)
           Y == Doubles(1 .. i)
           K == Of(1 .. i - 1, "doublesize", 0)
           L == Of(1 .. i, "doublesize", 0)
           Q == Amid(p, Y, Y, L)
<1>1. /\ x \in Free(p, Y) /\ x \in Setting /\ x \in Subject /\ x \in Kept(p) /\ x \notin X /\ x[2] = "doublesize"
      /\ authorize \notin X /\ authorize \notin Y /\ Y = X \cup {x}
      /\ \A a \in State : a.initial[x] \in {0, 1}
  <2>1. i \in 1 .. i /\ i \notin 1 .. i - 1 /\ 1 .. i \subseteq Int /\ 1 .. i - 1 \subseteq Int
    OBVIOUS
  <2>2. authorize \notin X /\ authorize \notin Y /\ x \notin X /\ x \in Y
    BY <2>1, DoublesApart
  <2>3. Y = X \cup {x}
    BY DEF Doubles
  <2> HIDE DEF X, Y
  <2> QED
    BY <2>2, <2>3, DoubleFree DEF Subject
<1>2. L = K \cup {<<x, 0>>} /\ L \in SUBSET (Setting \X Int) /\ \A c \in K : c[1] # x
  BY OfPlayers, ServerAssumption DEF Of, Attr
<1>3. "souvenir" \in InOps /\ "souvenir" \in EasyOps /\ "souvenir" \notin SetOps /\ "souvenir" # "wait"
  BY DEF InOps, ExchangeOps, SetOps, EasyOps
<1>4. 0 \in Int /\ 0 # Undef
  BY ScriptAssumption DEF Undef
<1> HIDE DEF X, Y, K, L, x
<1>5. Leads(Amid(p, Y, Y, K), Set(x, 0), Q)
  BY <1>1, <1>2, <1>4, SetLeads DEF Tells
<1>6. ASSUME NEW q \in Steps, q.op = "souvenir", q.x = x, NEW a \in Amid(p, X, X, K),
             NEW b \in State, NEW w, Becomes(a, q, b), Puts(a, q, w)
      PROVE  \E O : b \in O /\ Leads(O, w, Q)
  <2>1. /\ b.setting = a.setting /\ b.initial = a.initial /\ b.memo = [a.memo EXCEPT ![x] = a.setting[x]]
        /\ a \in State /\ a.plan = p
    BY <1>3, <1>6 DEF Becomes, Leaves, Notes, Amid, In
  <2>2. a.setting[x] = a.initial[x] /\ a.initial[x] \in {0, 1} /\ a.memo \in [Setting -> Int]
    BY <1>1, <2>1 DEF Amid, In, Bound, State
  <2>3. b \in In(p, Y)
    BY <1>1, <1>3, <1>6, <2>1, StaysIn DEF Amid, In, Bound
  <2>4. \A y \in Y : y \in Kept(p) => b.memo[y] = b.initial[y]
    BY <1>1, <2>1, <2>2 DEF Amid, Kept
  <2>5. b \in Amid(p, Y, Y, K)
    BY <2>1, <2>3, <2>4 DEF Amid
  <2>6. CASE a.setting[x] = 1
    BY <1>5, <1>6, <2>5, <2>6 DEF Puts
  <2>7. CASE a.setting[x] = 0
    <3>1. w = <<>>
      BY <1>6, <2>7 DEF Puts
    <3>2. b \in Q
      BY <1>2, <2>1, <2>5, <2>7 DEF Amid
    <3> QED
      BY <3>1, <3>2, LeadsNone
  <2> QED
    BY <2>2, <2>6, <2>7
<1>7. ASSUME NEW q \in Steps, q.op = "souvenir", q.x = x
      PROVE  /\ \A a \in Amid(p, X, X, K) : Legal(a, q)
             /\ \A a \in Amid(p, X, X, K), b \in State : \A w : Becomes(a, q, b) /\ Puts(a, q, w) =>
                  \E O : b \in O /\ Leads(O, w, Q)
  <2>1. \A a \in Amid(p, X, X, K) : Legal(a, q)
    BY <1>1, <1>3, <1>7, EasyLegal DEF Amid
  <2> QED
    BY <1>6, <1>7, <2>1
<1> HIDE DEF Q
<1>8. Leads(Amid(p, X, X, K), Step("souvenir", x, 0), Q)
  BY <1>1, <1>3, <1>7, BranchRule
<1> QED
  BY <1>8 DEF Q, X, Y, K, L, x

\* The steps of the third loop, with the settings of the later players to come.
LEMMA IfSouvenirLeads ==
  ASSUME NEW p \in Plans, NEW n \in 0 .. Players, NEW i \in 1 .. n, NEW S,
         S = Doubles(1 .. n), NEW K \in SUBSET (Setting \X Int), \A c \in K : c[1] # <<i, "doublesize">>
  PROVE  Leads(Amid(p, Doubles(i .. n), S, K \cup {<<<<i, "doublesize">>, 0>>}), Step("ifSouvenir", 
               <<i, "doublesize">>, 0), Amid(p, Doubles(i + 1 .. n), S, K))
<1> DEFINE x == <<i, "doublesize">>
           X == Doubles(i .. n)
           Y == Doubles(i + 1 .. n)
           H == K \cup {<<x, 0>>}
           P == Amid(p, X, S, H)
           Q == Amid(p, Y, S, K)
           O == {a \in P : a.memo[x] = 1}
<1>1. /\ x \in Free(p, X) /\ x \in Setting /\ x \in Subject /\ x \in Kept(p) /\ x \in S /\ x[2] = "doublesize"
      /\ authorize \notin X /\ Y = X \ {x} /\ \A a \in State : a.initial[x] \in {0, 1}
  <2>1. i \in i .. n /\ i .. n \subseteq Int /\ i \in 1 .. Players /\ i \in 1 .. n /\ 1 .. n \subseteq Int
    BY ServerAssumption
  <2>2. authorize \notin X /\ x \in X /\ x \in S
    BY <2>1, DoublesApart
  <2>3. Y = X \ {x}
    BY DEF Doubles
  <2> HIDE DEF X, Y
  <2> QED
    BY <2>1, <2>2, <2>3, DoubleFree DEF Subject
<1>2. 1 \in Int /\ 0 \in Int /\ 1 # Undef
  BY ScriptAssumption DEF Undef
<1>3. "ifSouvenir" \in InOps /\ "ifSouvenir" \notin SetOps /\ "ifSouvenir" \notin {"wait", "save", "souvenir"}
  BY DEF InOps, SetOps
<1>4. (\A c \in K : c[1] # x) /\ K \subseteq H /\ <<x, 0>> \in H
  OBVIOUS
<1>5. "set" \in InOps \ {"save", "souvenir"} /\ "set" \notin BranchOps /\ "set" \in EasyOps
  BY DEF InOps, ExchangeOps, SetOps, BranchOps, EasyOps
<1> HIDE DEF X, Y, x, H
<1>6. \A a \in P : a.memo[x] = a.initial[x] /\ a.memo[x] \in {0, 1} /\ a \in State /\ a \in In(p, X)
  BY <1>1 DEF Amid, In
<1>7. Leads(O, Set(x, 1), Q)
  <2>1. O \in SUBSET In(p, X) /\ \A a \in O, b \in State : Scanned(a, "set", b) => b \in O
    <3>1. \A a \in O, b \in State : Scanned(a, "set", b) => b \in P /\ b.memo = a.memo
      BY AmidScan DEF Scanned
    <3> QED
      BY <1>6, <3>1
  <2>2. ASSUME NEW q \in Steps, q.op = "set", q.x = x, q.v = 1
        PROVE  /\ \A a \in O : Legal(a, q)
               /\ \A a \in O, b \in State : Becomes(a, q, b) => b \in Q
    <3>1. \A a \in O : Legal(a, q)
      BY <1>1, <1>5, <1>6, <2>2, EasyLegal
    <3>2. ASSUME NEW a \in O, NEW b \in State, Becomes(a, q, b) PROVE b \in Q
      <4>1. b.setting = Given(a, x, 1) /\ b.memo = a.memo /\ b.initial = a.initial
        BY <2>2, <3>2 DEF Becomes, Sets, Leaves
      <4>2. Tells(H, x, 1, K) /\ \A c \in K : c[1] \in Setting
        BY <1>1, <1>4 DEF Tells
      <4>3. b \in Amid(p, X, S, K)
        BY <1>1, <1>2, <1>5, <2>2, <3>2, <4>1, <4>2, Written
      <4>4. b.setting[x] = 1
        <5>1. a \in State
          BY <1>6
        <5>2. Given(a, x, 1)[x] = 1
          BY <1>1, <1>2, <5>1, GivenIs
        <5> QED
          BY <4>1, <5>2
      <4>5. b.setting[x] = b.initial[x]
        BY <1>6, <4>1, <4>4
      <4> QED
        BY <1>1, <4>3, <4>5, Settled
    <3> QED
      BY <3>1, <3>2
  <2> HIDE DEF O, P, Q
  <2>3. Leads(O, Step("set", x, 1), Q)
    BY <1>1, <1>2, <1>5, <2>1, <2>2, Rule
  <2> QED
    BY <2>3 DEF Set
<1>8. ASSUME NEW a \in P, a.memo[x] = 0 PROVE a \in Q
  <2>1. a \in Amid(p, X, S, K)
    BY <1>4 DEF Amid
  <2>2. a.setting[x] = 0
    BY <1>4 DEF Amid
  <2>3. a.setting[x] = a.initial[x]
    BY <1>6, <1>8, <2>2
  <2> QED
    BY <1>1, <2>1, <2>3, Settled
<1>9. ASSUME NEW q \in Steps, q.op = "ifSouvenir", q.x = x, NEW a \in P,
             NEW b \in State, NEW w, Becomes(a, q, b), Puts(a, q, w)
      PROVE  \E R : b \in R /\ Leads(R, w, Q)
  <2>1. b \in P
    BY <1>1, <1>3, <1>9, QuietAmid
  <2>2. b.memo = a.memo
    BY <1>3, <1>9 DEF Becomes, Leaves
  <2>3. CASE a.memo[x] = 1
    BY <1>7, <1>9, <2>1, <2>2, <2>3 DEF Puts
  <2>4. CASE a.memo[x] = 0
    BY <1>8, <1>9, <2>1, <2>2, <2>4, LeadsNone DEF Puts
  <2> QED
    BY <1>6, <2>3, <2>4
<1>10. ASSUME NEW q \in Steps, q.op = "ifSouvenir", q.x = x
       PROVE  /\ \A a \in P : Legal(a, q)
              /\ \A a \in P, b \in State : \A w : Becomes(a, q, b) /\ Puts(a, q, w) =>
                   \E R : b \in R /\ Leads(R, w, Q)
  <2>1. \A a \in P : Legal(a, q)
    BY <1>1, <1>10 DEF ExchangeOps, SetOps, Legal
  <2> QED
    BY <1>9, <1>10, <2>1
<1> HIDE DEF Q
<1>11. Leads(Amid(p, X, S, H), Step("ifSouvenir", x, 0), Q)
  BY <1>1, <1>3, <1>10, BranchRule
<1> QED
  BY <1>11 DEF Q, X, Y, x, H

\* The brightness: the button lowers it by one.
LEMMA BrightLeads ==
  ASSUME NEW p \in Plans, NEW i \in 1 .. Players
  PROVE  LET x == <<i, "powerOnBrightness">>
         IN  Leads(In(p, {}),
                   Save(x) \o Set(x, 4) \o Check(x, 4) \o Lower(x) \o Lower(x) \o Check(x, 2)
                     \o Restore(x) \o Known,
                   In(p, {}))
<1> DEFINE x == <<i, "powerOnBrightness">>
           N == Amid(p, {}, {}, {})
           k(v) == {<<x, v>>}
           A(K) == Amid(p, {x}, {x}, K)
<1>1. /\ x \in Setting /\ x \in Free(p, {x}) /\ authorize \notin {x} /\ authorize \notin {}
      /\ x[2] \notin {"volume", "power"} /\ x \in Setting \ {} /\ {} \cup {x} = {x}
  BY DEF Setting, Attr, Free, authorize, groupdiscs
<1>2. \A v \in {2, 3, 4} : v \in Int /\ v # Undef
  BY ScriptAssumption DEF Undef
<1> HIDE DEF x
<1>3. /\ \A v \in {2, 3, 4} : k(v) \in SUBSET (Setting \X Int) /\ <<x, v>> \in k(v)
      /\ {} \in SUBSET (Setting \X Int) /\ k(2) \in SUBSET (Setting \X Int)
      /\ Tells({}, x, 4, k(4)) /\ Tells(k(4), x, 3, k(3)) /\ Tells(k(3), x, 2, k(2))
  BY <1>1, <1>2 DEF Tells
<1> HIDE DEF k
<1>4. Leads(N, Save(x), A({}))
  BY <1>1, SaveLeads
<1>5. Leads(A({}), Set(x, 4), A(k(4)))
  BY <1>1, <1>2, <1>3, SetLeads
<1>6. Leads(A(k(4)), Lower(x), A(k(3))) /\ Leads(A(k(3)), Lower(x), A(k(2)))
  BY <1>1, <1>2, <1>3, ChangeLeads DEF Lower
<1>7. \A v \in {2, 4} : Leads(A(k(v)), Check(x, v), A(k(v)))
  <2> SUFFICES ASSUME NEW v \in {2, 4} PROVE Leads(A(k(v)), Check(x, v), A(k(v)))
    OBVIOUS
  <2>1. \A a \in A(k(v)) : Read(a, x) = v
    BY <1>1, <1>3 DEF Amid, Read
  <2> QED
    BY <1>1, <1>2, <2>1, TellLeads
<1>8. Leads(A(k(2)), Restore(x), N)
  <2>1. Leads(A(k(2)), Restore(x), Amid(p, {x} \ {x}, {x}, {}))
    BY <1>1, <1>3, RestoreLeads
  <2>2. Amid(p, {x} \ {x}, {x}, {}) \subseteq N
    BY AmidLess
  <2> QED
    BY <2>1, <2>2, LeadsFrom
<1>9. Leads(N, Known, N)
  BY <1>1, EasyLeads DEF Known
<1> HIDE DEF A, N
<1>10. Leads(N, Save(x) \o Set(x, 4) \o Check(x, 4) \o Lower(x) \o Lower(x) \o Check(x, 2)
                  \o Restore(x) \o Known, N)
  BY <1>4, <1>5, <1>6, <1>7, <1>8, <1>9, LeadsJoin
<1> QED
  BY <1>10, InAmid DEF x, N

LEMMA DisplayLeads ==
  ASSUME NEW p \in Plans, NEW n \in 0 .. Players
  PROVE  Leads(In(p, {}), DisplayScript(n), In(p, {}))
<1> DEFINE Double(i) == <<i, "doublesize">>
           Message(i) == <<i, "message">>
           Power(i) == <<i, "power">>
           Bright(i) == <<i, "powerOnBrightness">>
           N == In(p, {})
           S == Doubles(1 .. n)
           B(K) == Amid(p, S, S, K)
           two(i) == Of(1 .. i, "doublesize", 0)
           m(v) == Of(1 .. n, "message", v)
           souvenirs == [i \in 1 .. n |-> Set(Power(i), 0) \o Unsync(i) \o Set(Power(i), 1)
                                          \o Step("souvenir", Double(i), 0)]
           shows == [i \in 1 .. n |-> Set(Message(i), 1)]
           seen == [i \in 1 .. n |-> Check(Message(i), 1)]
           gone == [i \in 1 .. n |-> Check(Message(i), 0) \o Step("ifSouvenir", Double(i), 0)]
           bright == [i \in 1 .. n |->
             Save(Bright(i)) \o Set(Bright(i), 4) \o Check(Bright(i), 4)
             \o Lower(Bright(i)) \o Lower(Bright(i)) \o Check(Bright(i), 2)
             \o Restore(Bright(i)) \o Known]
<1>1. /\ n \in Nat /\ \A i \in 1 .. n : i \in 1 .. Players
      /\ authorize \notin S /\ 0 \in 0 .. n /\ n \in 0 .. n
      /\ {} \in SUBSET (Setting \X Int)
  BY ServerAssumption, DoublesApart
<1>2. \A v \in {0, 1} : v \in Int /\ v # Undef
  BY ScriptAssumption DEF Undef
<1>3. /\ souvenirs = [i \in 1 .. n |-> souvenirs[i]] /\ gone = [i \in 1 .. n |-> gone[i]]
  OBVIOUS
<1>4. bright = [i \in 1 .. n |-> bright[i]]
  OBVIOUS
<1> DEFINE I1 == [k \in 0 .. n |-> Amid(p, Doubles(1 .. k), Doubles(1 .. k), two(k))]
<1>5. ASSUME NEW i \in 1 .. n PROVE Leads(I1[i - 1], souvenirs[i], I1[i])
  <2> DEFINE X == Doubles(1 .. i - 1)
             P == Amid(p, X, X, two(i - 1))
  <2>1. authorize \notin X
    BY DoublesApart
  <2>2. two(i - 1) \in SUBSET (Setting \X Int)
    BY OfPlayers, ServerAssumption DEF Attr
  <2>3. Power(i) \in Free(p, X)
    BY PlayerFree
  <2>4. Tells(two(i - 1), Power(i), 0, two(i - 1)) /\ Tells(two(i - 1), Power(i), 1, two(i - 1))
    BY DEF Tells, Of
  <2>5. Leads(P, Step("souvenir", Double(i), 0), I1[i])
    BY <1>1, SouvenirLeads
  <2>6. I1[i - 1] = P
    OBVIOUS
  <2>10. \A c \in two(i - 1) : c[1] # <<i, "sync">>
    BY DEF Of
  <2> HIDE DEF two, X, I1, Power, Double
  <2>11. Leads(P, Unsync(i), P)
    BY <1>1, <2>1, <2>2, <2>10, UnsyncLeads
  <2>7. Leads(P, Set(Power(i), 0), P) /\ Leads(P, Set(Power(i), 1), P)
    BY <1>2, <2>1, <2>2, <2>3, <2>4, SetLeads
  <2> HIDE DEF P
  <2>8. Leads(P, Set(Power(i), 0) \o Unsync(i) \o Set(Power(i), 1)
                   \o Step("souvenir", Double(i), 0), I1[i])
    BY <2>5, <2>7, <2>11, LeadsJoin
  <2>9. souvenirs[i] = Set(Power(i), 0) \o Unsync(i) \o Set(Power(i), 1) \o Step("souvenir", Double(i), 0)
    OBVIOUS
  <2> QED
    BY <2>6, <2>8, <2>9
<1>6. I1[0] = N /\ I1[n] = B(two(n))
  <2>1. Doubles(1 .. 0) = {} /\ two(0) = {}
    BY DEF Doubles, Of
  <2>2. I1[0] = Amid(p, Doubles(1 .. 0), Doubles(1 .. 0), two(0))
    BY <1>1
  <2>3. I1[n] = B(two(n))
    BY <1>1
  <2> HIDE DEF I1, two
  <2> QED
    BY <2>1, <2>2, <2>3, InAmid
<1>7. Leads(N, FlattenSeq(souvenirs), B(two(n)))
  <2> HIDE DEF I1, souvenirs, N, B
  <2>1. Leads(I1[0], FlattenSeq(souvenirs), I1[n])
    BY <1>1, <1>3, <1>5, LoopLeads
  <2> QED
    BY <1>6, <2>1
<1>8. two(n) \in SUBSET (Setting \X Int) /\ m(0) \in SUBSET (Setting \X Int)
  BY OfPlayers DEF Attr
<1>9. Leads(B(two(n)), FlattenSeq(shows), B(two(n) \cup m(1)))
  <2>1. \A c \in two(n) : c \in two(n) /\ c[1][2] # "message" /\ ("message" = "power" => c[1][2] # "sleep")
    BY DEF Of
  <2> HIDE DEF two, S
  <2> QED
    BY <1>1, <1>2, <1>8, <2>1, EachSet
<1>10. Leads(B(two(n) \cup m(1)), FlattenSeq(seen), B(two(n) \cup m(1)))
  <2>1. Of(1 .. n, "message", 1) \subseteq two(n) \cup m(1)
    OBVIOUS
  <2> HIDE DEF two, S
  <2> QED
    BY <1>1, <1>2, <2>1, EachCheck
<1>11. Leads(B(two(n) \cup m(1)), Wait, B(two(n) \cup m(0)))
  <2>1. Passed(two(n) \cup m(1), two(n) \cup m(0))
    BY DEF Passed, Of
  <2>2. two(n) \cup m(0) \in SUBSET (Setting \X Int)
    BY <1>8
  <2> HIDE DEF two, m, S
  <2> QED
    BY <1>1, <2>1, <2>2, WaitLeads
<1> DEFINE K2(k) == m(0) \cup Of(k + 1 .. n, "doublesize", 0)
           I2 == [k \in 0 .. n |-> Amid(p, Doubles(k + 1 .. n), S, K2(k))]
<1>12. ASSUME NEW i \in 1 .. n PROVE Leads(I2[i - 1], gone[i], I2[i])
  <2> DEFINE X == Doubles(i .. n)
             H == K2(i) \cup {<<Double(i), 0>>}
             P == Amid(p, X, S, H)
             K == K2(i)
  <2>1. (i - 1) + 1 = i /\ i - 1 \in 0 .. n /\ i .. n \subseteq Int
    OBVIOUS
  <2>2. K2(i - 1) = H
    BY <2>1 DEF Of
  <2>3. I2[i - 1] = P /\ I2[i] = Amid(p, Doubles(i + 1 .. n), S, K)
    <3>1. I2[i - 1] = Amid(p, Doubles((i - 1) + 1 .. n), S, K2(i - 1))
      BY <2>1
    <3>2. I2[i] = Amid(p, Doubles(i + 1 .. n), S, K2(i))
      OBVIOUS
    <3> HIDE DEF I2, K2, H
    <3> QED
      BY <2>1, <2>2, <3>1, <3>2
  <2>4. authorize \notin X
    BY <2>1, DoublesApart
  <2>5. K \in SUBSET (Setting \X Int) /\ \A c \in K : c[1] # Double(i)
    <3>1. \A j \in 1 .. n : <<j, "doublesize">> \in Setting
      BY <1>1 DEF Setting, Attr
    <3>2. Of(i + 1 .. n, "doublesize", 0) \in SUBSET (Setting \X Int)
      BY <3>1 DEF Of
    <3>3. \A c \in K : c[1] # Double(i)
      BY DEF Of
    <3> HIDE DEF m
    <3> QED
      BY <1>8, <3>2, <3>3
  <2>6. Of(1 .. n, "message", 0) \subseteq H
    OBVIOUS
  <2> HIDE DEF I2, K2
  <2>7. Leads(P, Step("ifSouvenir", Double(i), 0), I2[i])
    <3> HIDE DEF K
    <3>1. Leads(Amid(p, Doubles(i .. n), S, K \cup {<<<<i, "doublesize">>, 0>>}),
                Step("ifSouvenir", <<i, "doublesize">>, 0), Amid(p, Doubles(i + 1 .. n), S, K))
      BY <2>5, IfSouvenirLeads
    <3> QED
      BY <2>3, <3>1 DEF K
  <2> HIDE DEF H, X
  <2>8. Leads(P, Check(Message(i), 0), P)
    <3> HIDE DEF S
    <3> QED
      BY <1>1, <1>2, <2>4, <2>6, OneCheck
  <2> HIDE DEF P, Message, Double
  <2>9. Leads(P, Check(Message(i), 0) \o Step("ifSouvenir", Double(i), 0), I2[i])
    BY <2>7, <2>8, LeadsJoin
  <2>10. gone[i] = Check(Message(i), 0) \o Step("ifSouvenir", Double(i), 0)
    OBVIOUS
  <2> QED
    BY <2>3, <2>9, <2>10
<1>13. I2[0] = B(two(n) \cup m(0)) /\ I2[n] \subseteq N
  <2>1. Doubles(n + 1 .. n) = {}
    BY DEF Doubles
  <2>2. K2(0) = two(n) \cup m(0)
    OBVIOUS
  <2>3. I2[n] = Amid(p, Doubles(n + 1 .. n), S, K2(n))
    BY <1>1
  <2>4. I2[0] = Amid(p, Doubles(0 + 1 .. n), S, K2(0)) /\ 0 + 1 = 1
    BY <1>1
  <2> HIDE DEF I2, K2
  <2>5. I2[n] \subseteq N
    BY <2>1, <2>3, AmidIn
  <2>6. I2[0] = B(two(n) \cup m(0))
    BY <2>2, <2>4
  <2> QED
    BY <2>5, <2>6
<1>14. Leads(B(two(n) \cup m(0)), FlattenSeq(gone), N)
  <2> HIDE DEF I2, gone, N, B
  <2>1. Leads(I2[0], FlattenSeq(gone), I2[n])
    BY <1>1, <1>3, <1>12, LoopLeads
  <2> QED
    BY <1>13, <2>1, LeadsFrom
<1>15. Leads(N, FlattenSeq(bright), N)
  <2>1. ASSUME NEW i \in 1 .. n PROVE Leads(N, bright[i], N)
    BY <1>1, BrightLeads
  <2> HIDE DEF bright, N
  <2> QED
    BY <1>1, <1>4, <2>1, StayLeads
<1> HIDE DEF B, N, two, m, souvenirs, shows, seen, gone, bright, I1, I2
<1>16. Leads(N, FlattenSeq(souvenirs) \o FlattenSeq(shows) \o FlattenSeq(seen) \o Wait
                \o FlattenSeq(gone) \o FlattenSeq(bright), N)
  BY <1>7, <1>9, <1>10, <1>11, <1>14, <1>15, LeadsJoin
<1> QED
  BY <1>16 DEF DisplayScript, Each, N, souvenirs, shows, seen, gone, bright

\* testDatabaseRescan, with the totals in W noted.
Rescans(p, W) == {a \in In(p, {}) : a.tid = "rescan" /\ \A w \in W : a.total[w] = Full[w]}
Seen(p, W)    == {a \in Rescans(p, W) : a.scanning \/ a.quick}
Done(p, W)    == {a \in Rescans(p, W) : ~a.scanning}
Counts == {"songs", "playlists"}

LEMMA PlainSubject == <<0, "">> \in Subject /\ 0 \in Int
<1> DEFINE x == <<0, "">>
<1>1. x \in Topic
  BY DEF Topic
<1> HIDE DEF x
<1>2. x \in Subject /\ 0 \in Int
  BY <1>1 DEF Subject
<1> QED
  BY <1>2 DEF x

LEMMA StaysRescan ==
  ASSUME NEW p \in Plans, NEW W, NEW a \in Rescans(p, W), NEW q, q.op \in InOps,
         q.op \notin SetOps, q.op # "wait", NEW b \in State, Becomes(a, q, b),
         \A w \in W : b.total[w] = Full[w]
  PROVE  b \in Rescans(p, W)
<1>1. a \in In(p, {}) /\ a.tid = "rescan"
  BY DEF Rescans
<1>2. b.setting = a.setting /\ q.op # "new" /\ authorize \notin {}
  BY DEF Becomes, Leaves, InOps, ExchangeOps, SetOps
<1>3. b \in In(p, {})
  BY <1>1, <1>2, StaysIn
<1>4. b.tid = "rescan"
  BY <1>1, <1>2 DEF Becomes, Leaves
<1> QED
  BY <1>3, <1>4 DEF Rescans

LEMMA RescanScanned ==
  ASSUME NEW p \in Plans, NEW W
  PROVE  /\ Rescans(p, W) \in SUBSET In(p, {}) /\ Seen(p, W) \in SUBSET In(p, {})
         /\ Done(p, W) \in SUBSET In(p, {})
         /\ \A op : \A a \in Rescans(p, W), b \in State : Scanned(a, op, b) => b \in Rescans(p, W)
         /\ \A a \in Seen(p, W), b \in State : Scanned(a, "scanning", b) => b \in Seen(p, W)
         /\ \A op : \A a \in Done(p, W), b \in State : Scanned(a, op, b) => b \in Done(p, W)
<1>1. \A op : \A a \in Rescans(p, W), b \in State : Scanned(a, op, b) => b \in Rescans(p, W)
  <2> SUFFICES ASSUME NEW op, NEW a \in Rescans(p, W), NEW b \in State, Scanned(a, op, b)
               PROVE  b \in Rescans(p, W)
    OBVIOUS
  <2>1. b \in In(p, {})
    BY ScanIn DEF Rescans
  <2> QED
    BY <2>1 DEF Rescans, Scanned
<1>2. \A a \in Seen(p, W), b \in State : Scanned(a, "scanning", b) => b.quick
  BY DEF Scanned
<1>3. \A op : \A a \in Done(p, W), b \in State : ~Scanned(a, op, b)
  BY DEF Done, Scanned
<1>4. Rescans(p, W) \in SUBSET In(p, {})
  BY DEF Rescans
<1> QED
  BY <1>1, <1>2, <1>3, <1>4 DEF Seen, Done

LEMMA ScanLeads ==
  ASSUME NEW p \in Plans, NEW W
  PROVE  /\ Leads(Rescans(p, W), Wipe, Seen(p, W)) /\ Leads(Rescans(p, W), Rescan, Seen(p, W))
         /\ Leads(Seen(p, W), Plain("scanning"), Seen(p, W))
         /\ Leads(Rescans(p, W), WaitDone, Done(p, W))
<1> DEFINE x == <<0, "">>
<1>1. x \in Subject /\ 0 \in Int /\ authorize \notin {}
  BY PlainSubject
<1> HIDE DEF x
<1>2. \A op \in {"wipecache", "rescan", "scanning", "waitDone"} :
        /\ op \in InOps /\ op \notin SetOps /\ op # "wait" /\ op \notin BranchOps
        /\ op \in ExchangeOps /\ op \notin OwnOps /\ op # "note"
  BY DEF InOps, ExchangeOps, SetOps, BranchOps, OwnOps
<1>3. \A op \in {"wipecache", "rescan", "waitDone"} : op \in EasyOps
  BY DEF EasyOps, InOps, ExchangeOps, SetOps
<1>4. ASSUME NEW q \in Steps, q.op \in {"wipecache", "rescan", "scanning", "waitDone"},
             NEW a \in Rescans(p, W), NEW b \in State, Becomes(a, q, b)
      PROVE  b \in Rescans(p, W)
  BY <1>2, <1>4, StaysRescan DEF Becomes, Leaves, Rescans
<1>5. \A q \in Steps : q.op \in {"wipecache", "rescan", "waitDone"} =>
        \A a \in Rescans(p, W) : Legal(a, q)
  BY <1>2, <1>3, EasyLegal DEF Rescans
<1>6. ASSUME NEW op \in {"wipecache", "rescan"}
      PROVE  Leads(Rescans(p, W), Step(op, x, 0), Seen(p, W))
  <2>1. \A q \in Steps : q.op = op => \A a \in Rescans(p, W), b \in State :
          Becomes(a, q, b) => b \in Seen(p, W)
    BY <1>4 DEF Becomes, Notes, Seen
  <2>2. \A q \in Steps : q.op = op => \A a \in Rescans(p, W) : Legal(a, q)
    BY <1>5
  <2>3. op \in InOps /\ op \notin BranchOps
    BY <1>2
  <2> QED
    BY <1>1, <2>1, <2>2, <2>3, RescanScanned, Rule
<1>7. Leads(Rescans(p, W), Step("waitDone", x, 0), Done(p, W))
  <2>1. \A q \in Steps : q.op = "waitDone" => \A a \in Rescans(p, W), b \in State :
          Becomes(a, q, b) => b \in Done(p, W)
    <3>1. \A q \in Steps : q.op = "waitDone" => \A a, b : Becomes(a, q, b) => (~a.scanning /\ b.scanning = a.scanning)
      BY DEF Becomes, Notes, Leaves
    <3> QED
      BY <1>4, <3>1 DEF Done
  <2>2. \A q \in Steps : q.op = "waitDone" => \A a \in Rescans(p, W) : Legal(a, q)
    BY <1>5
  <2>3. "waitDone" \in InOps /\ "waitDone" \notin BranchOps
    BY <1>2
  <2> QED
    BY <1>1, <2>1, <2>2, <2>3, RescanScanned, Rule
<1>8. Leads(Seen(p, W), Step("scanning", x, 0), Seen(p, W))
  <2>1. \A q \in Steps : q.op = "scanning" => \A a \in Seen(p, W), b \in State :
          Becomes(a, q, b) => b \in Seen(p, W)
    BY <1>4 DEF Becomes, Leaves, Seen
  <2>2. \A q \in Steps : q.op = "scanning" => \A a \in Seen(p, W) : Legal(a, q)
    BY <1>2 DEF Seen, Rescans, In, Legal
  <2>3. "scanning" \in InOps /\ "scanning" \notin BranchOps
    BY <1>2
  <2> QED
    BY <1>1, <2>1, <2>2, <2>3, RescanScanned, Rule
<1> QED
  BY <1>6, <1>7, <1>8 DEF Wipe, Rescan, WaitDone, Plain, x

LEMMA TotalLeads ==
  ASSUME NEW p \in Plans, NEW W, NEW w \in Counts
  PROVE  /\ Leads(Done(p, W), Step("note", <<0, w>>, 0), Done(p, W \cup {w}))
         /\ w \in W => Leads(Done(p, W), Step("compare", <<0, w>>, 0), Done(p, W))
<1> DEFINE x == <<0, w>>
<1>1. x \in Subject /\ 0 \in Int /\ authorize \notin {} /\ x[2] = w
  <2>1. x \in Topic
    BY DEF Topic, Counts
  <2> QED
    BY <2>1 DEF Subject
<1> HIDE DEF x
<1>2. \A op \in {"note", "compare"} :
        /\ op \in InOps /\ op \notin SetOps /\ op # "wait" /\ op \notin BranchOps
        /\ op \in ExchangeOps /\ op \notin OwnOps
        /\ op \notin {"check", "atMost", "notZero", "checkMix", "judge", "ifSecure", "scanning",
                      "count", "canPlayers", "wipecache", "rescan"}
  BY DEF InOps, ExchangeOps, SetOps, BranchOps, OwnOps
<1>3. \A a \in Done(p, W) : /\ Hears(a) /\ ~a.scanning /\ a \in Rescans(p, W)
                            /\ \A v \in W : a.total[v] = Full[v]
  BY DEF Done, Rescans, In
<1>4. Full[w] \in Nat /\ Undef < 0 /\ Undef \in Int
  BY ServerAssumption, ScriptAssumption DEF Full, Counts, Undef
<1>5. Leads(Done(p, W), Step("note", x, 0), Done(p, W \cup {w}))
  <2>1. \A q \in Steps : q.op = "note" /\ q.x = x => \A a \in Done(p, W) : Legal(a, q)
    BY <1>1, <1>2, <1>3 DEF Legal, Counts
  <2>2. ASSUME NEW q \in Steps, q.op = "note", q.x = x, NEW a \in Done(p, W), NEW b \in State,
               Becomes(a, q, b)
        PROVE  b \in Done(p, W \cup {w})
    <3>1. b.total = [a.total EXCEPT ![w] = Full[w]]
      BY <1>1, <2>2 DEF Becomes, Notes
    <3>2. a.total \in [songs : Int, playlists : Int]
      BY DEF Done, Rescans, In, State
    <3>3. b.total[w] = Full[w] /\ \A v \in W : v # w => b.total[v] = a.total[v]
      BY <3>1, <3>2 DEF Counts
    <3>4. b \in Rescans(p, W)
      BY <1>2, <1>3, <2>2, <3>3, StaysRescan
    <3>5. b.scanning = a.scanning
      BY <1>2, <2>2 DEF Becomes, Leaves
    <3> QED
      BY <1>3, <3>3, <3>4, <3>5 DEF Done, Rescans
  <2>3. "note" \in InOps /\ "note" \notin BranchOps
    BY <1>2
  <2> QED
    BY <1>1, <2>1, <2>2, <2>3, RescanScanned, Rule
<1>6. ASSUME w \in W PROVE Leads(Done(p, W), Step("compare", x, 0), Done(p, W))
  <2>1. ASSUME NEW q \in Steps, q.op = "compare", q.x = x, NEW a \in Done(p, W) PROVE Legal(a, q)
    BY <1>1, <1>2, <1>3, <1>4, <1>6, <2>1 DEF Num, Legal, Counts
  <2>2. ASSUME NEW q \in Steps, q.op = "compare", q.x = x, NEW a \in Done(p, W), NEW b \in State,
               Becomes(a, q, b)
        PROVE  b \in Done(p, W)
    BY <1>2, <1>3, <2>2, StaysRescan DEF Becomes, Leaves, Done
  <2>3. "compare" \in InOps /\ "compare" \notin BranchOps
    BY <1>2
  <2> QED
    BY <1>1, <2>1, <2>2, <2>3, RescanScanned, Rule
<1> QED
  BY <1>5, <1>6 DEF x

LEMMA NotifLeads ==
  ASSUME NEW p \in Plans, NEW W, NEW n \in Nat
  PROVE  Leads(Seen(p, W), NotifScript(n), Seen(p, W))
<1> DEFINE P == Seen(p, W)
           ss == [i \in 1 .. 2 + n |-> Plain("scanning")]
<1>1. Leads(P, Plain("scanning"), P)
  BY ScanLeads
<1>2. 2 + n \in Nat /\ ss = [i \in 1 .. 2 + n |-> ss[i]] /\ \A i \in 1 .. 2 + n : ss[i] = Plain("scanning")
  OBVIOUS
<1> HIDE DEF P, ss
<1>3. Leads(P, FlattenSeq(ss), P)
  BY <1>1, <1>2, StayLeads
<1> QED
  BY <1>3 DEF NotifScript, Times, P, ss

\* A scan, from its start to its end.
LEMMA WholeScan ==
  ASSUME NEW p \in Plans, NEW W, NEW n \in Nat
  PROVE  /\ Leads(Seen(p, W), NotifScript(n), Rescans(p, W))
         /\ Leads(Seen(p, W), WaitDone, Done(p, W)) /\ Leads(Rescans(p, W), WaitDone, Done(p, W))
         /\ Leads(Done(p, W), Wipe, Seen(p, W)) /\ Leads(Done(p, W), Rescan, Seen(p, W))
         /\ Leads(Rescans(p, W), Wipe, Seen(p, W)) /\ Leads(Rescans(p, W), Rescan, Seen(p, W))
<1>1. Seen(p, W) \subseteq Rescans(p, W) /\ Done(p, W) \subseteq Rescans(p, W)
  BY DEF Seen, Done
<1> QED
  BY <1>1, NotifLeads, ScanLeads, LeadsFrom

LEMMA ComparedLeads ==
  ASSUME NEW p \in Plans
  PROVE  Leads(Done(p, Counts),
               Step("compare", <<0, "songs">>, 0) \o Step("compare", <<0, "playlists">>, 0),
               Done(p, Counts))
<1>1. "songs" \in Counts /\ "playlists" \in Counts
  BY DEF Counts
<1> QED
  BY <1>1, TotalLeads, LeadsJoin

LEMMA PlaylistsLeads ==
  ASSUME NEW p \in Plans
  PROVE  Leads(Done(p, Counts), Plain("ifPlaylists"), Rescans(p, Counts))
<1> DEFINE R == Rescans(p, Counts)
           P == Done(p, Counts)
           x == <<0, "">>
<1>1. x \in Subject /\ 0 \in Int
  BY PlainSubject
<1>2. ASSUME NEW n \in Nat PROVE Leads(R, RescanPlaylistsScript(n), R)
  <2> DEFINE c == Step("compare", <<0, "songs">>, 0)
             d == Step("compare", <<0, "playlists">>, 0)
  <2>1. "songs" \in Counts /\ "playlists" \in Counts
    BY DEF Counts
  <2>2. Leads(P, c, P) /\ Leads(P, d, P)
    BY <2>1, TotalLeads
  <2>3. P \subseteq R
    BY DEF Done
  <2> HIDE DEF P, R, c, d
  <2>4. Leads(P, d, R)
    BY <2>2, <2>3, LeadsFrom
  <2>5. Leads(R, Rescan \o NotifScript(n) \o WaitDone \o c \o d, R)
    BY <2>2, <2>4, WholeScan, LeadsJoin DEF P, R
  <2> QED
    BY <2>5 DEF RescanPlaylistsScript, c, d
<1>3. Leads(R, Skip, R)
  <2>1. "skip" \in InOps /\ "skip" \notin BranchOps /\ "skip" \notin SetOps /\ "skip" # "wait"
        /\ "skip" \in EasyOps /\ "skip" \notin OwnOps
    BY DEF InOps, BranchOps, SetOps, EasyOps, ExchangeOps, OwnOps
  <2>2. ASSUME NEW q \in Steps, q.op = "skip", NEW a \in R
        PROVE  Legal(a, q) /\ \A b \in State : Becomes(a, q, b) => b \in R
    <3>1. Legal(a, q)
      BY <2>1, <2>2, EasyLegal DEF Rescans
    <3>2. ASSUME NEW b \in State, Becomes(a, q, b) PROVE b \in R
      BY <2>1, <2>2, <3>2, StaysRescan DEF Becomes, Leaves, Rescans
    <3> QED
      BY <3>1, <3>2
  <2>3. R \in SUBSET In(p, {}) /\ \A a \in R, b \in State : Scanned(a, "skip", b) => b \in R
    BY RescanScanned
  <2> HIDE DEF R, x
  <2>4. Leads(R, Step("skip", x, 0), R)
    BY <1>1, <2>1, <2>2, <2>3, Rule
  <2> QED
    BY <2>4 DEF Skip, Plain, x
<1>4. P \in SUBSET State /\ P \in SUBSET R /\ \A a \in P : Fine(a) /\ a.gplayers \in Nat
  <2>1. P \in SUBSET In(p, {})
    BY RescanScanned
  <2>2. \A a \in State : a.gplayers \in Nat
    <3>1. \A a \in State : a.gplayers \in {0, Players}
      BY DEF State
    <3>2. 0 \in Nat /\ Players \in Nat
      BY ServerAssumption
    <3> QED
      BY <3>1, <3>2
  <2>3. authorize \notin {}
    OBVIOUS
  <2>4. P \in SUBSET R
    BY DEF Done
  <2> HIDE DEF P, R
  <2> QED
    BY <2>1, <2>2, <2>3, <2>4, InFine
<1>5. "ifPlaylists" \in InOps /\ "ifPlaylists" \notin SetOps /\ "ifPlaylists" # "wait"
      /\ "ifPlaylists" \notin ExchangeOps /\ "ifPlaylists" \notin OwnOps
  BY DEF InOps, SetOps, ExchangeOps, OwnOps
<1>6. ASSUME NEW q \in Steps, q.op = "ifPlaylists", NEW a \in P, NEW b \in State, NEW w,
             Becomes(a, q, b), Puts(a, q, w)
      PROVE  b \in R /\ Leads(R, w, R)
  <2>1. b.total = a.total
    BY <1>6 DEF Becomes, Leaves
  <2>2. b \in R
    BY <1>4, <1>5, <1>6, <2>1, StaysRescan DEF Rescans
  <2>3. w \in {RescanPlaylistsScript(a.gplayers), Skip}
    BY <1>6 DEF Puts
  <2> HIDE DEF R, P
  <2> QED
    BY <1>2, <1>3, <1>4, <2>2, <2>3
<1>7. \A q \in Steps : q.op = "ifPlaylists" => \A a \in P : Legal(a, q)
  BY <1>5 DEF Legal
<1>8. \A a \in P, b \in State : Scanned(a, "ifPlaylists", b) => b \in P
  BY RescanScanned
<1> HIDE DEF R, P, x
<1>9. PICK q \in Steps : Step("ifPlaylists", x, 0) = <<q>> /\ q.op = "ifPlaylists"
  BY <1>1, <1>5, StepIs, InOpsAny
<1>10. Leads(P, <<q>>, R)
  BY <1>4, <1>6, <1>7, <1>8, <1>9, StepLeads
<1> QED
  BY <1>9, <1>10 DEF Plain, R, P, x

LEMMA RescanLeads ==
  ASSUME NEW p \in Plans, NEW n \in 0 .. Players
  PROVE  Leads({a \in In(p, {}) : a.tid = "rescan"}, RescanScript(n), In(p, {}))
<1> DEFINE R0 == Rescans(p, {})
           R == Rescans(p, Counts)
           D0 == Done(p, {})
           D == Done(p, Counts)
           S0 == Seen(p, {})
           S == Seen(p, Counts)
           s == <<0, "songs">>
           l == <<0, "playlists">>
           Note == Step("note", s, 0) \o Step("note", l, 0)
           Compare == Step("compare", s, 0) \o Step("compare", l, 0)
           Notif == NotifScript(n)
<1>1. n \in Nat /\ "songs" \in Counts /\ "playlists" \in Counts
      /\ ({} \cup {"songs"}) \cup {"playlists"} = Counts
  BY ServerAssumption DEF Counts
<1>2. Leads(D0, Note, D)
  <2>1. Leads(D0, Step("note", s, 0), Done(p, {} \cup {"songs"}))
    BY <1>1, TotalLeads
  <2>2. Leads(Done(p, {} \cup {"songs"}), Step("note", l, 0), D)
    BY <1>1, TotalLeads
  <2> HIDE DEF D0, D, s, l
  <2> QED
    BY <2>1, <2>2, LeadsJoin
<1>3. Leads(D, Compare, D)
  BY ComparedLeads
<1>4. Leads(D, Plain("ifPlaylists"), R)
  BY PlaylistsLeads
<1>5. /\ Leads(S0, Notif, R0) /\ Leads(S0, WaitDone, D0) /\ Leads(R0, WaitDone, D0)
      /\ Leads(D0, Wipe, S0) /\ Leads(D0, Rescan, S0) /\ Leads(R0, Wipe, S0) /\ Leads(R0, Rescan, S0)
  BY <1>1, WholeScan
<1>6. /\ Leads(S, Notif, R) /\ Leads(S, WaitDone, D) /\ Leads(R, WaitDone, D)
      /\ Leads(D, Wipe, S) /\ Leads(D, Rescan, S) /\ Leads(R, Wipe, S) /\ Leads(R, Rescan, S)
  BY <1>1, WholeScan
<1>7. R0 = {a \in In(p, {}) : a.tid = "rescan"} /\ D \subseteq In(p, {})
  BY DEF Rescans, Done
<1> HIDE DEF R0, R, D0, D, S0, S, Note, Compare, Notif
<1> DEFINE w == Wipe \o Notif \o WaitDone \o Note
           y == w \o Wipe \o Notif \o WaitDone \o Compare
           z == y \o Rescan \o Notif \o WaitDone \o Compare
<1>8. Leads(R0, w, D)
  BY <1>2, <1>5, LeadsJoin
<1> HIDE DEF w
<1>9. Leads(R0, y, D)
  BY <1>3, <1>6, <1>8, LeadsJoin
<1> HIDE DEF y
<1>10. Leads(R0, z, D)
  BY <1>3, <1>6, <1>9, LeadsJoin
<1> HIDE DEF z
<1>11. Leads(R0, z \o Plain("ifPlaylists") \o Wipe \o Notif \o Wipe \o Notif \o WaitDone, D)
  BY <1>4, <1>6, <1>10, LeadsJoin
<1>12. RescanScript(n) = z \o Plain("ifPlaylists") \o Wipe \o Notif \o Wipe \o Notif \o WaitDone
  BY DEF RescanScript, z, y, w, Note, Compare, Notif
<1>13. Leads(R0, RescanScript(n), D)
  BY <1>11, <1>12
<1> QED
  BY <1>7, <1>13, LeadsFrom

\* testDatabaseTitles and testDatabaseSonginfo; no scan is going on.
Still(p) == {a \in In(p, {}) : ~a.scanning}
Dumped(p) == {a \in Still(p) : a.dump.found = Songs}
\* __testDatabaseDumpDB, with i titles fetched.
Fetching(p, i) == {a \in State : /\ a.plan = p /\ Hears(a) /\ Bound(a, {})
                                 /\ ~a.scanning /\ a.dump.found = i}

LEMMA StillScanned ==
  ASSUME NEW p, NEW P, P \subseteq Still(p) \/ \E i : P = Fetching(p, i)
  PROVE  \A op : \A a \in P, b \in State : Scanned(a, op, b) => b \in P
<1>1. \A op : \A a \in P, b \in State : ~Scanned(a, op, b)
  BY DEF Still, Fetching, Scanned
<1> QED
  BY <1>1

LEMMA FetchLeads ==
  ASSUME NEW p \in Plans, NEW i \in 1 .. Songs
  PROVE  Leads(Fetching(p, i - 1), Plain("fetch"), Fetching(p, i))
<1> DEFINE x == <<0, "">>
           P == Fetching(p, i - 1)
           Q == Fetching(p, i)
<1>1. PICK q \in Steps : Step("fetch", x, 0) = <<q>> /\ q.op = "fetch"
  <2>1. "fetch" \in AnyOps /\ x \in Subject /\ 0 \in Int
    BY PlainSubject DEF AnyOps
  <2> HIDE DEF x
  <2> QED
    BY <2>1, StepIs
<1>2. q.op \notin BranchOps /\ q.op \notin LinkOps /\ q.op \notin SetOps /\ q.op \notin MixOps
      /\ q.op \notin TestingOps /\ q.op \notin OwnOps
  BY <1>1 DEF BranchOps, LinkOps, SetOps, MixOps, TestingOps, JudgeOps, OwnOps
<1>3. P \in SUBSET State /\ \A a \in P : Fine(a) /\ Hears(a)
  <2>1. ASSUME NEW a \in P PROVE Fine(a)
    BY Preferences DEF Fetching, Bound, Fine
  <2> QED
    BY <2>1 DEF Fetching
<1>4. \A a \in P : Legal(a, q)
  BY <1>1, <1>2, <1>3 DEF Legal
<1>5. ASSUME NEW a \in P, NEW b \in State, Becomes(a, q, b) PROVE b \in Q
  <2>1. /\ a \in State /\ a.plan = p /\ Hears(a) /\ Bound(a, {}) /\ ~a.scanning
        /\ a.dump.found = i - 1
    BY DEF Fetching
  <2>2. /\ b.plan = a.plan /\ b.guser = a.guser /\ b.initial = a.initial /\ b.quick = a.quick
        /\ SameLink(a, b) /\ b.setting = a.setting /\ b.db = a.db /\ b.flag = a.flag
        /\ b.scanning = a.scanning
    BY <1>1, <1>2, <1>5 DEF Becomes, Leaves
  <2>3. b.dump = [a.dump EXCEPT !.found = @ + 1]
    BY <1>1, <1>5 DEF Becomes, Notes
  <2>4. a.dump \in [found : 0 .. Songs, blank : {0}]
    BY <2>1 DEF State
  <2>5. b.dump.found = i
    BY <2>1, <2>3, <2>4, ServerAssumption
  <2>6. Hears(b) /\ Bound(b, {})
    BY <2>1, <2>2 DEF Hears, SameLink, Bound, Blameless
  <2> QED
    BY <2>1, <2>2, <2>5, <2>6 DEF Fetching
<1>6. \A a \in P, b \in State : Scanned(a, q.op, b) => b \in P
  BY StillScanned
<1> HIDE DEF P, Q, x
<1>7. Leads(P, <<q>>, Q)
  BY <1>2, <1>3, <1>4, <1>5, <1>6, PlainLeads
<1> QED
  BY <1>1, <1>7 DEF Plain, P, Q, x

LEMMA DumpLeads ==
  ASSUME NEW p \in Plans
  PROVE  Leads(Still(p), Plain("dump"), Dumped(p))
<1> DEFINE x == <<0, "">>
           P == Still(p)
           Q == Dumped(p)
           fetches == [i \in 1 .. Songs |-> Plain("fetch")]
           I == [i \in 0 .. Songs |-> Fetching(p, i)]
<1>1. Songs \in Nat /\ x \in Subject /\ 0 \in Int
  BY PlainSubject, ServerAssumption
<1>2. Leads(Fetching(p, 0), FlattenSeq(fetches), Fetching(p, Songs))
  <2>1. fetches = [i \in 1 .. Songs |-> fetches[i]] /\ I[0] = Fetching(p, 0) /\ I[Songs] = Fetching(p, Songs)
    BY ServerAssumption
  <2>2. \A i \in 1 .. Songs : Leads(I[i - 1], fetches[i], I[i])
    <3> SUFFICES ASSUME NEW i \in 1 .. Songs PROVE Leads(I[i - 1], fetches[i], I[i])
      OBVIOUS
    <3>1. i - 1 \in 0 .. Songs /\ i \in 0 .. Songs
      BY ServerAssumption
    <3>2. Leads(Fetching(p, i - 1), Plain("fetch"), Fetching(p, i))
      BY FetchLeads
    <3>3. I[i - 1] = Fetching(p, i - 1) /\ I[i] = Fetching(p, i) /\ fetches[i] = Plain("fetch")
      BY <3>1
    <3> QED
      BY <3>2, <3>3
  <2> HIDE DEF fetches, I
  <2>3. Leads(I[0], FlattenSeq(fetches), I[Songs])
    BY <1>1, <2>1, <2>2, LoopLeads
  <2> QED
    BY <2>1, <2>3
<1>3. Fetching(p, Songs) \subseteq Q
  BY DEF Fetching, Dumped, Still, In, AllOrNone
<1>4. Leads(Fetching(p, 0), Times(Songs, Plain("fetch")), Q)
  BY <1>2, <1>3, LeadsFrom DEF Times
<1>5. PICK q \in Steps : Step("dump", x, 0) = <<q>> /\ q.op = "dump"
  <2>1. "dump" \in AnyOps
    BY DEF AnyOps, ScriptOps, OtherOps
  <2> HIDE DEF x
  <2> QED
    BY <1>1, <2>1, StepIs
<1>6. /\ q.op \in InOps /\ q.op \notin SetOps /\ q.op # "wait" /\ q.op \notin OwnOps
      /\ q.op \in ExchangeOps /\ q.op # "fetch"
      /\ q.op \notin {"wipecache", "rescan", "needSongs", "judge", "canPlayers", "scanning",
                      "check", "atMost", "notZero", "checkMix", "ifSecure", "note", "compare", "count"}
  BY <1>5 DEF InOps, ExchangeOps, SetOps, OwnOps
<1>7. P \in SUBSET State /\ \A a \in P : Fine(a) /\ Hears(a) /\ ~a.scanning /\ a \in In(p, {})
  <2>1. \A a \in P : a \in In(p, {}) /\ Hears(a) /\ ~a.scanning
    BY DEF Still, In
  <2>2. authorize \notin {}
    OBVIOUS
  <2> HIDE DEF P
  <2> QED
    BY <2>1, <2>2, InFine
<1>8. \A a \in P : Legal(a, q)
  BY <1>6, <1>7 DEF Legal
<1>9. ASSUME NEW a \in P, NEW b \in State, NEW w, Becomes(a, q, b), Puts(a, q, w)
      PROVE  \E O : b \in O /\ Leads(O, w, Q)
  <2>1. b.setting = a.setting /\ b.dump = a.dump /\ b.scanning = a.scanning /\ authorize \notin {}
    BY <1>5, <1>6, <1>9 DEF Becomes, Leaves
  <2>2. b \in In(p, {}) /\ ~b.scanning
    BY <1>6, <1>7, <1>9, <2>1, StaysIn
  <2>3. w = IF a.dump.found > 0 THEN <<>> ELSE Times(Songs, Plain("fetch"))
    BY <1>5, <1>9 DEF Puts
  <2>4. a.dump.found \in {0, Songs} /\ AllOrNone(b)
    BY <1>7, <2>2 DEF In, AllOrNone
  <2>5. CASE a.dump.found > 0
    <3>1. a.dump.found = Songs
      BY <2>4, <2>5
    <3>2. b \in Q /\ w = <<>>
      BY <2>1, <2>2, <2>3, <2>5, <3>1 DEF Dumped, Still
    <3> QED
      BY <3>2, LeadsNone
  <2>6. CASE ~(a.dump.found > 0)
    <3>1. a.dump.found = 0
      BY <2>4, <2>6, ServerAssumption
    <3>2. b \in Fetching(p, 0)
      BY <2>1, <2>2, <3>1 DEF In, Fetching
    <3> QED
      BY <1>4, <2>3, <2>6, <3>2
  <2> QED
    BY <2>5, <2>6
<1>10. \A a \in P, b \in State : Scanned(a, q.op, b) => b \in P
  BY StillScanned
<1> HIDE DEF P, Q, x
<1>11. Leads(P, <<q>>, Q)
  BY <1>7, <1>8, <1>9, <1>10, StepLeads
<1> QED
  BY <1>5, <1>11 DEF Plain, P, Q, x

LEMMA CountLeads ==
  ASSUME NEW p \in Plans PROVE Leads(Dumped(p), Plain("count"), In(p, {}))
<1> DEFINE x == <<0, "">>
           P == Dumped(p)
           Q == In(p, {})
<1>1. x \in Subject /\ 0 \in Int /\ authorize \notin {}
  BY PlainSubject
<1>2. "count" \in InOps /\ "count" \notin BranchOps /\ "count" \notin SetOps /\ "count" # "wait"
      /\ "count" \in ExchangeOps /\ "count" \notin OwnOps
  BY DEF InOps, BranchOps, SetOps, ExchangeOps, OwnOps
<1>3. \A a \in P : a \in Q /\ Hears(a) /\ ~a.scanning /\ a.dump.found = Songs
  BY DEF Dumped, Still, In
<1>4. \A q \in Steps : q.op = "count" => \A a \in P : Legal(a, q)
  BY <1>2, <1>3 DEF Legal
<1>5. \A q \in Steps : q.op = "count" => \A a \in P, b \in State : Becomes(a, q, b) => b \in Q
  <2> SUFFICES ASSUME NEW q \in Steps, q.op = "count", NEW a \in P, NEW b \in State, Becomes(a, q, b)
               PROVE  b \in Q
    OBVIOUS
  <2>1. b.setting = a.setting
    BY <1>2 DEF Becomes, Leaves
  <2> QED
    BY <1>1, <1>2, <1>3, <2>1, StaysIn
<1>6. P \in SUBSET In(p, {}) /\ \A a \in P, b \in State : Scanned(a, "count", b) => b \in P
  BY StillScanned DEF Dumped, Still
<1> HIDE DEF x, P
<1>7. Leads(P, Step("count", x, 0), Q)
  BY <1>1, <1>2, <1>4, <1>5, <1>6, Rule
<1> QED
  BY <1>7 DEF Plain, x, P

\* The titles are drawn and searched for as often as the program likes.
LEMMA DrawLeads ==
  ASSUME NEW p \in Plans PROVE Leads(In(p, {}), Plain("draw"), In(p, {}))
<1> DEFINE N == In(p, {})
           x == <<0, "">>
<1>1. x \in Subject /\ 0 \in Int /\ "draw" \in AnyOps /\ "searched" \in AnyOps
  BY PlainSubject DEF AnyOps, ScriptOps, JudgeOps, OtherOps
<1> HIDE DEF x
<1>2. PICK q \in Steps : Step("draw", x, 0) = <<q>> /\ q.op = "draw"
  BY <1>1, StepIs
<1>3. PICK r \in Steps : Step("searched", x, 0) = <<r>> /\ r.op = "searched"
  BY <1>1, StepIs
<1>4. Plain("draw") = <<q>> /\ Plain("searched") = <<r>>
  BY <1>2, <1>3 DEF Plain, x
<1>5. \A s \in {q, r} : s.op \in InOps /\ s.op \notin SetOps /\ s.op # "wait" /\ s.op \notin OwnOps
                        /\ (s.op \in ExchangeOps => s.op \in EasyOps)
                        /\ s.op \notin {"judge", "ifSecure", "canPlayers", "needSongs"}
  BY <1>2, <1>3 DEF InOps, SetOps, ExchangeOps, OwnOps, EasyOps
<1>6. N \in SUBSET State /\ \A a \in N : Fine(a) /\ Hears(a)
  BY InFine DEF In
<1>7. \A a \in N : Legal(a, q) /\ Legal(a, r)
  BY <1>2, <1>3, <1>5, <1>6 DEF ExchangeOps, SetOps, Legal
<1>8. \A s \in {q, r} : \A a \in N, b \in State : Becomes(a, s, b) => b \in N
  <2> SUFFICES ASSUME NEW s \in {q, r}, NEW a \in N, NEW b \in State, Becomes(a, s, b)
               PROVE  b \in N
    OBVIOUS
  <2>1. b.setting = a.setting /\ authorize \notin {}
    BY <1>5 DEF Becomes, Leaves
  <2> QED
    BY <1>5, <2>1, StaysIn
<1>9. \A op : \A a \in N, b \in State : Scanned(a, op, b) => b \in N
  BY ScanIn
<1> SUFFICES ASSUME NEW u \in Program, \A b \in N : <<b, u>> \in Sure
             PROVE  \A a \in N : <<a, <<q>> \o u>> \in Sure
  <2>1. <<q>> \in Program
    BY DEF Program, Steps
  <2> QED
    BY <1>4, <2>1 DEF Leads
<1> DEFINE d == <<q>> \o u
           s == <<r>> \o u
           G == {c \in N \X {d, s} : TRUE}
<1>10. /\ d \in Program /\ d # <<>> /\ Head(d) = q /\ Tail(d) = u
       /\ s \in Program /\ s # <<>> /\ Head(s) = r /\ Tail(s) = u
       /\ <<>> \o u = u
  BY ConcatEmptySeq, OneMore DEF Program
<1>11. \A a, w : Puts(a, q, w) => w \o u = s
  BY <1>2, <1>4 DEF Puts
<1>12. \A a, w : Puts(a, r, w) => w \o u \in {u, d}
  BY <1>3, <1>4, <1>10 DEF Puts
<1> HIDE DEF d, s
<1>13. G \in SUBSET Config /\ (\A a \in N : <<a, d>> \in G /\ <<a, s>> \in G)
       /\ \A a, w : <<a, w>> \in G => a \in N /\ w \in {d, s}
  BY <1>6, <1>10 DEF Config
<1> HIDE DEF G, N
<1>14. ASSUME NEW a \in State, NEW w \in Program, <<a, w>> \in G
       PROVE  /\ w # <<>> /\ Fine(a) /\ Legal(a, Head(w))
              /\ \A b \in State : \A v : Becomes(a, Head(w), b) /\ Puts(a, Head(w), v) =>
                                           <<b, v \o Tail(w)>> \in G \cup Sure
              /\ \A b \in State : Scanned(a, Head(w).op, b) => <<b, w>> \in G \cup Sure
  <2>1. a \in N /\ w \in {d, s}
    BY <1>13, <1>14
  <2>2. CASE w = d
    BY <1>6, <1>7, <1>8, <1>9, <1>10, <1>11, <1>13, <2>1, <2>2
  <2>3. CASE w = s
    BY <1>6, <1>7, <1>8, <1>9, <1>10, <1>12, <1>13, <2>1, <2>3
  <2> QED
    BY <2>1, <2>2, <2>3
<1>15. G \subseteq Sure
  BY <1>13, <1>14, SureWith
<1> QED
  BY <1>13, <1>15 DEF d

LEMMA TitlesLeads ==
  ASSUME NEW p \in Plans PROVE Leads(Still(p), TitlesScript, In(p, {}))
<1> DEFINE N == Amid(p, {}, {}, {})
           more == IF Searches = 0 THEN <<>> ELSE Plain("draw")
<1>1. Leads(Still(p), Plain("dump"), Dumped(p))
  BY DumpLeads
<1>2. Leads(Dumped(p), Plain("count"), N)
  BY CountLeads, InAmid
<1>3. Leads(N, more, N)
  BY DrawLeads, LeadsNone, InAmid
<1>4. Leads(N, Plain("tag"), N) /\ Leads(N, Plain("sort"), N)
  BY EasyLeads
<1> HIDE DEF N, more
<1>5. Leads(Still(p), Plain("dump") \o Plain("count") \o more \o Plain("tag") \o Plain("sort"), N)
  BY <1>1, <1>2, <1>3, <1>4, LeadsJoin
<1> QED
  BY <1>5, InAmid DEF TitlesScript, N, more

LEMMA FieldLeads ==
  ASSUME NEW p \in Plans, NEW op \in {"data", "tagInfo"}
  PROVE  Leads(Amid(p, {}, {}, {}), Plain(op), Amid(p, {}, {}, {}))
<1> DEFINE N == Amid(p, {}, {}, {})
           x == <<0, "">>
           next == IF op = "data" THEN Plain("sameData") ELSE Plain("noTag")
<1>1. x \in Subject /\ authorize \notin {}
  BY PlainSubject
<1>2. op \in InOps /\ op \in EasyOps /\ op \notin OwnOps /\ op \notin SetOps
      /\ op \notin {"wait", "save", "souvenir"}
  BY DEF InOps, EasyOps, ExchangeOps, OwnOps, SetOps
<1>3. Leads(N, next, N) /\ Leads(N, <<>>, N)
  BY <1>1, EasyLeads, LeadsNone
<1> HIDE DEF x
<1>4. ASSUME NEW q \in Steps, q.op = op
      PROVE  /\ \A a \in N : Legal(a, q)
             /\ \A a \in N, b \in State : \A w : Becomes(a, q, b) /\ Puts(a, q, w) =>
                  \E O : b \in O /\ Leads(O, w, N)
  <2>1. \A a \in N : Legal(a, q)
    BY <1>2, <1>4, EasyLegal DEF Amid
  <2>2. ASSUME NEW a \in N, NEW b \in State, NEW w, Becomes(a, q, b), Puts(a, q, w)
        PROVE  b \in N /\ Leads(N, w, N)
    BY <1>1, <1>2, <1>3, <1>4, <2>2, QuietAmid DEF Puts
  <2> QED
    BY <2>1, <2>2
<1>5. Leads(N, Step(op, x, 0), N)
  BY <1>1, <1>2, <1>4, BranchRule
<1> QED
  BY <1>5 DEF Plain, x

LEMMA SonginfoLeads ==
  ASSUME NEW p \in Plans PROVE Leads(Still(p), SonginfoScript, In(p, {}))
<1> DEFINE N == Amid(p, {}, {}, {})
<1>1. Leads(Still(p), Plain("dump"), N)
  <2>1. Dumped(p) \subseteq N
    BY InAmid DEF Dumped, Still
  <2> QED
    BY <2>1, DumpLeads, LeadsFrom
<1>2. Leads(N, Plain("data"), N) /\ Leads(N, Plain("tagInfo"), N)
  BY FieldLeads
<1> HIDE DEF N
<1>3. Leads(Still(p), Plain("dump") \o Plain("data") \o Plain("tagInfo"), N)
  BY <1>1, <1>2, LeadsJoin
<1> QED
  BY <1>3, InAmid DEF SonginfoScript, N

\* testConnectDisconnect: security alone may be another, and there is a user
\* when there was any at the beginning.
Base(p) == {a \in State : /\ a.plan = p /\ a.tid = "connect" /\ Bound(a, {authorize}) /\ AllOrNone(a)
                          /\ a.initial[authorize] = 1 => a.guser}
Linked3(a) == a.gcli /\ a.gsocket /\ a.link
Noted(a) == a.memo[authorize] = a.initial[authorize]
First(p) == {a \in Base(p) : a.setting[authorize] = a.initial[authorize]}
\* Security is v, and the connection is open or closed.
Open(p, v) == {a \in Base(p) : Linked3(a) /\ Noted(a) /\ a.setting[authorize] = v}
Shut(p, v) == {a \in Base(p) : ~a.gcli /\ Hung(a) /\ Noted(a) /\ a.setting[authorize] = v}

ConnectOps == {"exit", "judge", "forget", "connect", "save", "disconnect", "set", "restore", "skip"}
WayOps == ConnectOps \cup {"ifConnected", "ifSecure", "ifConnectedFreely"}

LEMMA WayOpsAre ==
  /\ WayOps \subseteq AnyOps /\ ConnectOps \cap BranchOps = {} /\ WayOps \cap MixOps = {}
  /\ WayOps \cap {"new", "canConnect", "needSongs", "needGroups", "fetch", "wait"} = {}
  /\ WayOps \cap ExchangeOps = {"save", "set", "restore"}
  /\ WayOps \cap OwnOps = {"save", "set", "restore"} /\ WayOps \cap SetOps = {"set", "restore"}
BY DEF WayOps, ConnectOps, AnyOps, ScriptOps, JudgeOps, OtherOps, LastOps, BranchOps, MixOps,
       ExchangeOps, OwnOps, SetOps

LEMMA BaseFine ==
  ASSUME NEW p, NEW a \in Base(p) PROVE a \in State /\ Fine(a)
BY DEF Base, Fine, Bound

LEMMA BaseScanned ==
  ASSUME NEW p, NEW a \in Base(p), NEW op, NEW b \in State, Scanned(a, op, b)
  PROVE  /\ b \in Base(p) /\ SameLink(a, b) /\ b.setting = a.setting /\ b.memo = a.memo
         /\ b.initial = a.initial /\ b.answer = a.answer /\ b.guser = a.guser
<1>1. /\ SameLink(a, b) /\ b.setting = a.setting /\ b.memo = a.memo
      /\ b.initial = a.initial /\ b.answer = a.answer /\ b.guser = a.guser
      /\ b.plan = a.plan /\ b.tid = a.tid /\ b.db = a.db /\ b.flag = a.flag /\ b.dump = a.dump
      /\ a.quick => b.quick
  BY DEF Scanned
<1>2. /\ a.plan = p /\ a.tid = "connect" /\ Bound(a, {authorize}) /\ AllOrNone(a)
      /\ a.initial[authorize] = 1 => a.guser
  BY DEF Base
<1>3. Bound(b, {authorize})
  BY <1>1, <1>2 DEF Bound, Blameless, SameLink
<1> QED
  BY <1>1, <1>2, <1>3 DEF Base, AllOrNone

LEMMA BaseKept ==
  ASSUME NEW p \in Plans, NEW a \in Base(p), NEW q, q.op \in WayOps, NEW b \in State, Becomes(a, q, b),
         b.logged => b.guser,
         q.op \in {"set", "restore"} => q.x = authorize
  PROVE  /\ b \in Base(p) /\ b.initial = a.initial /\ b.guser = a.guser
         /\ q.op \notin {"set", "restore"} => b.setting = a.setting
         /\ q.op # "save" => b.memo = a.memo
         /\ q.op \notin {"exit", "forget", "connect", "disconnect"} => SameLink(a, b)
         /\ q.op \notin {"connect", "exit"} => b.answer = a.answer
<1>1. /\ q.op \notin {"new", "canConnect", "needSongs", "needGroups", "fetch", "wait"}
      /\ (q.op \in SetOps => q.op \in {"set", "restore"})
      /\ (q.op \in LinkOps => q.op \in {"exit", "forget", "connect", "disconnect"})
      /\ q.op \notin {"note", "compare", "souvenir"}
  BY DEF WayOps, ConnectOps, SetOps, LinkOps
<1>2. Leaves(a, q, b) /\ Sets(a, q, b) /\ a \in State
  BY DEF Becomes, Base
<1>3. /\ b.plan = a.plan /\ b.guser = a.guser /\ b.initial = a.initial /\ b.quick = a.quick
      /\ b.tid = a.tid /\ b.dump = a.dump /\ b.flag = a.flag
      /\ (b.db = a.db \/ Judgement(a, b))
      /\ q.op \notin {"set", "restore"} => b.setting = a.setting
      /\ q.op # "save" => b.memo = a.memo
      /\ q.op \notin {"exit", "forget", "connect", "disconnect"} => SameLink(a, b)
      /\ q.op \notin {"connect", "exit"} => b.answer = a.answer
  BY <1>1, <1>2 DEF Leaves
<1>4. /\ a.plan = p /\ a.tid = "connect" /\ Bound(a, {authorize}) /\ AllOrNone(a)
      /\ a.initial[authorize] = 1 => a.guser
  BY DEF Base
<1>5. Blameless(b)
  BY <1>3, <1>4 DEF Bound, Blameless, Judgement
<1>6. \A y \in Setting : y # authorize => b.setting[y] = a.setting[y]
  <2>1. CASE q.op \in {"set", "restore"}
    <3>1. \E v : b.setting = Given(a, authorize, v)
      BY <1>2, <2>1 DEF Sets
    <3>2. authorize[2] # "power" /\ a.setting \in [Setting -> Int]
      BY <1>2 DEF authorize, State
    <3>3. \A v : Given(a, authorize, v) \in {a.setting, [a.setting EXCEPT ![authorize] = v]}
      BY <3>2 DEF Given, Taken
    <3> QED
      BY <3>1, <3>2, <3>3
  <2>2. CASE q.op \notin {"set", "restore"}
    BY <1>3, <2>2
  <2> QED
    BY <2>1, <2>2
<1>7. Bound(b, {authorize})
  BY <1>3, <1>4, <1>5, <1>6, Preferences DEF Kept, Bound
<1> QED
  BY <1>3, <1>4, <1>7 DEF Base, AllOrNone

LEMMA WayRule ==
  ASSUME NEW p \in Plans, NEW op \in ConnectOps, NEW x \in Subject, NEW v \in Int,
         NEW P \in SUBSET Base(p), NEW Q,
         \A q \in Steps : q.op = op /\ q.x = x /\ q.v = v =>
           /\ \A a \in P : Legal(a, q)
           /\ \A a \in P, b \in State : Becomes(a, q, b) => b \in Q,
         \A a \in P, b \in State : Scanned(a, op, b) => b \in P
  PROVE  Leads(P, Step(op, x, v), Q)
<1>1. op \in AnyOps /\ op \notin BranchOps
  BY WayOpsAre DEF WayOps
<1>2. PICK q \in Steps : Step(op, x, v) = <<q>> /\ q.op = op /\ q.x = x /\ q.v = v
  BY <1>1, StepIs
<1>3. P \in SUBSET State /\ \A a \in P : Fine(a)
  BY BaseFine
<1> QED
  BY <1>1, <1>2, <1>3, PlainLeads

\* The first part: the connection is closed by exit, found closed, and open again.
Closed1(p) == {a \in First(p) : a.gcli /\ a.gsocket /\ ~a.link}
Closed2(p) == {a \in First(p) : a.gcli /\ Hung(a) /\ a.answer = 0}
Closed3(p) == {a \in First(p) : ~a.gcli /\ Hung(a)}
Again(p)   == {a \in First(p) : Linked3(a) /\ a.logged = a.guser /\ a.answer = 1}

LEMMA FirstScanned ==
  ASSUME NEW p, NEW op
  PROVE  /\ \A a \in Closed1(p), b \in State : Scanned(a, op, b) => b \in Closed1(p)
         /\ \A a \in Closed2(p), b \in State : Scanned(a, op, b) => b \in Closed2(p)
         /\ \A a \in Closed3(p), b \in State : Scanned(a, op, b) => b \in Closed3(p)
         /\ \A a \in Again(p), b \in State : Scanned(a, op, b) => b \in Again(p)
<1>1. \A a \in First(p), b \in State : Scanned(a, op, b) =>
        /\ b \in First(p) /\ SameLink(a, b) /\ b.answer = a.answer /\ b.guser = a.guser
  BY BaseScanned DEF First
<1> QED
  BY <1>1 DEF Closed1, Closed2, Closed3, Again, SameLink, Hung, Linked3

LEMMA StartFirst ==
  ASSUME NEW p \in Plans
  PROVE  {a \in In(p, {}) : a.tid = "connect"} \subseteq {a \in First(p) : Hears(a)}
<1> SUFFICES ASSUME NEW a \in In(p, {}), a.tid = "connect" PROVE a \in First(p) /\ Hears(a)
  OBVIOUS
<1>1. a \in State /\ a.plan = p /\ Hears(a) /\ Bound(a, {}) /\ AllOrNone(a)
  BY DEF In
<1>2. a.setting[authorize] = a.initial[authorize]
  BY <1>1, Preferences DEF Bound
<1>3. a.initial[authorize] = 1 => a.guser
  BY <1>1, <1>2 DEF Hears, Bound
<1>4. Bound(a, {authorize})
  BY <1>1 DEF Bound
<1> QED
  BY <1>1, <1>2, <1>3, <1>4 DEF First, Base

LEMMA WayStep ==
  /\ \A how \in {"login", "nologin", "wrong"} : <<0, how>> \in Subject
  /\ <<0, "">> \in Subject /\ authorize \in Subject /\ 0 \in Int /\ 1 \in Int
<1>1. \A how \in {"login", "nologin", "wrong"} : <<0, how>> \in Topic
  BY DEF Topic
<1>2. Topic \subseteq Subject /\ Setting \subseteq Subject
  BY DEF Subject
<1>3. authorize \in Subject
  BY <1>2, Preferences
<1>4. <<0, "">> \in Subject
  BY PlainSubject
<1>5. \A how \in {"login", "nologin", "wrong"} : <<0, how>> \in Subject
  BY <1>1, <1>2
<1>6. 0 \in Int /\ 1 \in Int
  OBVIOUS
<1> QED
  BY <1>3, <1>4, <1>5, <1>6, Zenon

LEMMA FirstPart ==
  ASSUME NEW p \in Plans
  PROVE  /\ Leads({a \in First(p) : Hears(a)}, Plain("exit"), Closed1(p))
         /\ Leads(Closed1(p), Plain("exit"), Closed2(p))
         /\ Leads(Closed2(p), Judge(0), Closed2(p))
         /\ Leads(Closed2(p), Plain("forget"), Closed3(p))
         /\ Leads(Closed3(p), Connect("login"), Again(p))
         /\ Leads(Again(p), Judge(1), Again(p))
<1> DEFINE x == <<0, "">>
           y == <<0, "login">>
           P == {a \in First(p) : Hears(a)}
<1>1. x \in Subject /\ y \in Subject /\ 0 \in Int /\ 1 \in Int /\ y[2] = "login"
  BY WayStep
<1> HIDE DEF x, y
<1>2. /\ \A op \in {"exit", "judge", "forget", "connect"} :
           op \in ConnectOps /\ op \in WayOps /\ op \notin ExchangeOps /\ op \notin OwnOps
           /\ op \notin {"set", "restore", "canPlayers", "ifSecure", "needSongs"}
  BY DEF ConnectOps, WayOps, ExchangeOps, OwnOps, SetOps
<1>3. \A q \in Steps : q.op \in {"exit", "forget", "connect"} => \A a : Legal(a, q)
  BY <1>2 DEF Legal
<1>4. \A a \in First(p) : /\ a \in Base(p) /\ (a.logged => a.guser) /\ a \in State
                          /\ a.setting[authorize] = a.initial[authorize]
                          /\ a.initial[authorize] = 1 => a.guser
  BY DEF First, Base, Bound
<1>5. /\ P \in SUBSET Base(p) /\ Closed1(p) \in SUBSET Base(p) /\ Closed2(p) \in SUBSET Base(p)
      /\ Closed3(p) \in SUBSET Base(p) /\ Again(p) \in SUBSET Base(p)
  BY DEF Closed1, Closed2, Closed3, Again, First
<1>6. \A op : \A a \in P, b \in State : Scanned(a, op, b) => b \in P
  BY BaseScanned DEF First, Hears, SameLink
<1>7. \A a \in First(p), q \in Steps, b \in State :
        q.op \in {"exit", "judge", "forget", "connect"} /\ Becomes(a, q, b) /\ (b.logged => b.guser) =>
          /\ b \in First(p) /\ b.guser = a.guser
          /\ q.op = "judge" => SameLink(a, b) /\ b.answer = a.answer
  <2> SUFFICES ASSUME NEW a \in First(p), NEW q \in Steps, NEW b \in State,
                      q.op \in {"exit", "judge", "forget", "connect"}, Becomes(a, q, b),
                      b.logged => b.guser
               PROVE  /\ b \in First(p) /\ b.guser = a.guser
                      /\ q.op = "judge" => SameLink(a, b) /\ b.answer = a.answer
    OBVIOUS
  <2>1. /\ b \in Base(p) /\ b.initial = a.initial /\ b.guser = a.guser /\ b.setting = a.setting
        /\ q.op = "judge" => SameLink(a, b) /\ b.answer = a.answer
    BY <1>2, <1>4, BaseKept
  <2> QED
    BY <1>4, <2>1 DEF First
<1>8. ASSUME NEW a, NEW q, NEW b, Becomes(a, q, b)
      PROVE  Links(a, q, b) /\ b.guser = a.guser
  BY <1>8 DEF Becomes, Leaves
<1>9. Leads(P, Step("exit", x, 0), Closed1(p))
  <2>1. ASSUME NEW q \in Steps, q.op = "exit", NEW a \in P, NEW b \in State, Becomes(a, q, b)
        PROVE  b \in Closed1(p)
    BY <1>4, <1>7, <1>8, <2>1 DEF Links, Hears, Closed1
  <2>2. \A q \in Steps : q.op = "exit" => \A a \in P : Legal(a, q)
    BY <1>3
  <2> HIDE DEF P
  <2> QED
    BY <1>1, <1>2, <1>5, <1>6, <2>1, <2>2, WayRule
<1>10. Leads(Closed1(p), Step("exit", x, 0), Closed2(p))
  <2>1. ASSUME NEW q \in Steps, q.op = "exit", NEW a \in Closed1(p), NEW b \in State, Becomes(a, q, b)
        PROVE  b \in Closed2(p)
    BY <1>7, <1>8, <2>1 DEF Closed1, Hears, Links, Hung, Closed2
  <2>2. \A q \in Steps : q.op = "exit" => \A a \in Closed1(p) : Legal(a, q)
    BY <1>3
  <2> QED
    BY <1>1, <1>2, <1>5, <2>1, <2>2, FirstScanned, WayRule
<1>11. Leads(Closed2(p), Step("forget", x, 0), Closed3(p))
  <2>1. ASSUME NEW q \in Steps, q.op = "forget", NEW a \in Closed2(p), NEW b \in State, Becomes(a, q, b)
        PROVE  b \in Closed3(p)
    BY <1>7, <1>8, <2>1 DEF Closed2, Links, Hung, Closed3
  <2>2. \A q \in Steps : q.op = "forget" => \A a \in Closed2(p) : Legal(a, q)
    BY <1>3
  <2> QED
    BY <1>1, <1>2, <1>5, <2>1, <2>2, FirstScanned, WayRule
<1>12. Leads(Closed3(p), Step("connect", y, 0), Again(p))
  <2>1. ASSUME NEW q \in Steps, q.op = "connect", q.x = y, NEW a \in Closed3(p), NEW b \in State,
               Becomes(a, q, b)
        PROVE  b \in Again(p)
    <3>1. a \in First(p) /\ ~a.gcli
      BY DEF Closed3
    <3>2. Connects(a, "login", b) /\ b.answer = (IF b.gcli THEN 1 ELSE 0) /\ b.guser = a.guser
      BY <1>1, <1>8, <2>1 DEF Links
    <3>3. a.setting[authorize] = 1 => a.guser /\ "login" = "login"
      BY <1>4, <3>1
    <3>4. b.gcli /\ b.gsocket /\ b.link /\ b.logged = a.guser /\ b.answer = 1
      BY <1>4, <3>1, <3>2, <3>3 DEF State, Connects
    <3>5. b \in First(p)
      BY <1>7, <2>1, <3>1, <3>2, <3>4
    <3> QED
      BY <3>2, <3>4, <3>5 DEF Again, Linked3
  <2>2. \A q \in Steps : q.op = "connect" => \A a \in Closed3(p) : Legal(a, q)
    BY <1>3
  <2> QED
    BY <1>1, <1>2, <1>5, <2>1, <2>2, FirstScanned, WayRule
<1>13. Leads(Closed2(p), Step("judge", x, 0), Closed2(p)) /\ Leads(Again(p), Step("judge", x, 1), Again(p))
  <2>1. \A q \in Steps : q.op = "judge" => \A a \in First(p), b \in State : Becomes(a, q, b) =>
          b \in First(p) /\ SameLink(a, b) /\ b.answer = a.answer /\ b.guser = a.guser
    <3> SUFFICES ASSUME NEW q \in Steps, q.op = "judge", NEW a \in First(p), NEW b \in State,
                        Becomes(a, q, b)
                 PROVE  b \in First(p) /\ SameLink(a, b) /\ b.answer = a.answer /\ b.guser = a.guser
      OBVIOUS
    <3>1. q.op \notin LinkOps
      BY DEF LinkOps
    <3>2. SameLink(a, b) /\ b.guser = a.guser
      BY <3>1 DEF Becomes, Leaves
    <3>3. b.logged => b.guser
      BY <1>4, <3>2 DEF SameLink
    <3> QED
      BY <1>7, <3>3
  <2>2. \A q \in Steps : q.op = "judge" => \A a : q.v = a.answer => Legal(a, q)
    BY <1>2 DEF Legal
  <2>3. \A q \in Steps : q.op = "judge" => \A a \in Closed2(p), b \in State : Becomes(a, q, b) =>
          b \in Closed2(p)
    BY <2>1 DEF Closed2, SameLink, Hung
  <2>4. \A q \in Steps : q.op = "judge" => \A a \in Again(p), b \in State : Becomes(a, q, b) =>
          b \in Again(p)
    BY <2>1 DEF Again, SameLink, Linked3
  <2>5. /\ \A q \in Steps : q.op = "judge" /\ q.v = 0 => \A a \in Closed2(p) : Legal(a, q)
        /\ \A q \in Steps : q.op = "judge" /\ q.v = 1 => \A a \in Again(p) : Legal(a, q)
    BY <2>2 DEF Closed2, Again
  <2> QED
    BY <1>1, <1>2, <1>5, <2>3, <2>4, <2>5, FirstScanned, WayRule
<1> QED
  BY <1>9, <1>10, <1>11, <1>12, <1>13 DEF Plain, Judge, Connect, x, y, P

\* The other two parts: what a step of theirs makes of a state.
LEMMA WayBecomes ==
  ASSUME NEW p \in Plans, NEW a \in Base(p), NEW q \in Steps,
         q.op \in {"judge", "connect", "save", "disconnect", "set", "restore", "skip",
                   "ifConnected", "ifSecure", "ifConnectedFreely"},
         q.op \in {"set", "restore"} => q.x = authorize,
         NEW b \in State, Becomes(a, q, b)
  PROVE  /\ b \in Base(p) /\ b.initial = a.initial /\ b.guser = a.guser
         /\ q.op \notin {"set", "restore"} => b.setting = a.setting
         /\ q.op # "save" => b.memo = a.memo
         /\ q.op \notin {"connect", "disconnect"} => SameLink(a, b)
         /\ q.op # "connect" => b.answer = a.answer
         /\ q.op = "disconnect" => ~b.gcli /\ Hung(b)
         /\ q.op = "connect" => Connects(a, q.x[2], b) /\ b.answer = IF b.gcli THEN 1 ELSE 0
<1>1. Links(a, q, b) /\ b.guser = a.guser /\ (q.op \notin LinkOps => SameLink(a, b))
  BY DEF Becomes, Leaves
<1>2. q.op \in WayOps /\ q.op \notin {"exit", "forget"}
      /\ (q.op \notin {"connect", "disconnect"} => q.op \notin LinkOps)
  BY DEF WayOps, ConnectOps, LinkOps
<1>3. a.logged => a.guser
  BY DEF Base, Bound
<1>4. q.op = "disconnect" => ~b.gcli /\ Hung(b)
  BY <1>1 DEF Links
<1>5. q.op = "connect" => Connects(a, q.x[2], b) /\ b.answer = IF b.gcli THEN 1 ELSE 0
  BY <1>1 DEF Links
<1>6. b.logged => b.guser
  BY <1>1, <1>2, <1>3, <1>4, <1>5 DEF Hung, Connects, SameLink
<1>7. /\ b \in Base(p) /\ b.initial = a.initial
      /\ q.op \notin {"set", "restore"} => b.setting = a.setting
      /\ q.op # "save" => b.memo = a.memo
      /\ q.op \notin {"connect", "exit"} => b.answer = a.answer
  BY <1>2, <1>6, BaseKept
<1> QED
  BY <1>1, <1>2, <1>4, <1>5, <1>7

\* Security has been asked for.
Checked(p) == {a \in First(p) : Linked3(a) /\ a.logged = a.guser /\ Noted(a)}
\* A connection without a login; and a user to log in with.
Bare(p)    == {a \in Open(p, 0) : a.answer = 1 /\ ~a.logged}
\* The sets of states of a user's login test.
Wrong(p)   == {a \in Shut(p, 1) : a.guser}
Right(p)   == {a \in Open(p, 1) : a.guser}
\* Security can be put back: the connection outlasts it.
Back(p)    == {a \in Base(p) : /\ Linked3(a) /\ Noted(a) /\ Hears(a)
                               /\ a.initial[authorize] = 1 => a.logged}

LEMMA WaySets ==
  ASSUME NEW p
  PROVE  \A P \in {Checked(p), Open(p, 0), Open(p, 1), Shut(p, 0), Shut(p, 1), Bare(p), Wrong(p),
                   {a \in Wrong(p) : a.answer = 0}, Right(p), {a \in Open(p, 0) : a.guser},
                   {a \in Bare(p) : ~a.guser}, Back(p)} :
           /\ P \in SUBSET Base(p)
           /\ \A op : \A a \in P, b \in State : Scanned(a, op, b) => b \in P
<1>1. \A op : \A a \in Base(p), b \in State : Scanned(a, op, b) =>
        /\ b \in Base(p) /\ SameLink(a, b) /\ b.setting = a.setting /\ b.memo = a.memo
        /\ b.initial = a.initial /\ b.answer = a.answer /\ b.guser = a.guser
  BY BaseScanned
<1>2. ASSUME NEW v
      PROVE  /\ Open(p, v) \in SUBSET Base(p) /\ Shut(p, v) \in SUBSET Base(p)
             /\ \A op : \A a \in Open(p, v), b \in State : Scanned(a, op, b) => b \in Open(p, v)
             /\ \A op : \A a \in Shut(p, v), b \in State : Scanned(a, op, b) => b \in Shut(p, v)
  BY <1>1 DEF Open, Shut, Linked3, Noted, SameLink, Hung
<1>3. /\ Checked(p) \in SUBSET Base(p) /\ Back(p) \in SUBSET Base(p)
      /\ \A op : \A a \in Checked(p), b \in State : Scanned(a, op, b) => b \in Checked(p)
      /\ \A op : \A a \in Back(p), b \in State : Scanned(a, op, b) => b \in Back(p)
  BY <1>1 DEF Checked, First, Back, Linked3, Noted, SameLink, Hears
<1>4. /\ Bare(p) \in SUBSET Base(p) /\ Right(p) \in SUBSET Base(p)
      /\ Wrong(p) \in SUBSET Base(p) /\ {a \in Wrong(p) : a.answer = 0} \in SUBSET Base(p)
      /\ {a \in Open(p, 0) : a.guser} \in SUBSET Base(p)
      /\ {a \in Bare(p) : ~a.guser} \in SUBSET Base(p)
  BY <1>2 DEF Bare, Wrong, Right
<1>5. ASSUME NEW op
      PROVE  /\ \A a \in Bare(p), b \in State : Scanned(a, op, b) => b \in Bare(p)
             /\ \A a \in Right(p), b \in State : Scanned(a, op, b) => b \in Right(p)
             /\ \A a \in Wrong(p), b \in State : Scanned(a, op, b) => b \in Wrong(p)
  BY <1>1, <1>2 DEF Bare, Wrong, Right, SameLink
<1>6. ASSUME NEW op
      PROVE  /\ \A a \in {a \in Wrong(p) : a.answer = 0}, b \in State :
                  Scanned(a, op, b) => b \in {c \in Wrong(p) : c.answer = 0}
             /\ \A a \in {a \in Open(p, 0) : a.guser}, b \in State :
                  Scanned(a, op, b) => b \in {c \in Open(p, 0) : c.guser}
             /\ \A a \in {a \in Bare(p) : ~a.guser}, b \in State :
                  Scanned(a, op, b) => b \in {c \in Bare(p) : ~c.guser}
  BY <1>1, <1>2, <1>4, <1>5
<1> QED
  BY <1>2, <1>3, <1>4, <1>5, <1>6

\* The second part, up to its last branch.
LEMMA SaveSecurity ==
  ASSUME NEW p \in Plans PROVE Leads(Again(p), Save(authorize), Checked(p))
<1>1. /\ "save" \in ConnectOps /\ "save" \in OwnOps /\ "save" \in ExchangeOps
      /\ "save" \notin {"canPlayers", "check", "atMost", "notZero", "checkMix", "judge", "ifSecure",
                        "scanning", "note", "compare", "count", "dump", "needSongs"}
  BY DEF ConnectOps, OwnOps, ExchangeOps
<1>2. authorize \in Setting /\ authorize \in Subject /\ 0 \in Int /\ authorize[2] # "volume"
  BY Preferences, WayStep DEF authorize
<1>3. ASSUME NEW a \in Again(p)
      PROVE  a \in Base(p) /\ Hears(a) /\ a.setting[authorize] = a.initial[authorize] /\ Linked3(a)
             /\ a.logged = a.guser /\ a.memo \in [Setting -> Int]
  BY DEF Again, First, Base, Hears, Linked3, State
<1>4. ASSUME NEW q \in Steps, q.op = "save", q.x = authorize, NEW a \in Again(p), NEW b \in State,
             Becomes(a, q, b)
      PROVE  b \in Checked(p)
  <2>1. b.memo = [a.memo EXCEPT ![authorize] = Read(a, authorize)]
    BY <1>4 DEF Becomes, Notes
  <2>2. Read(a, authorize) = a.setting[authorize]
    BY <1>2 DEF Read
  <2>3. /\ b \in Base(p) /\ b.initial = a.initial /\ b.guser = a.guser /\ b.setting = a.setting
        /\ SameLink(a, b)
    BY <1>3, <1>4, WayBecomes
  <2>4. b.memo[authorize] = b.initial[authorize]
    BY <1>2, <1>3, <2>1, <2>2, <2>3
  <2> QED
    BY <1>3, <2>3, <2>4 DEF Checked, First, Noted, Linked3, SameLink
<1>5. \A q \in Steps : q.op = "save" /\ q.x = authorize => \A a \in Again(p) : Legal(a, q)
  BY <1>1, <1>2, <1>3 DEF Legal
<1>6. Again(p) \in SUBSET Base(p)
  BY <1>3
<1>7. Leads(Again(p), Step("save", authorize, 0), Checked(p))
  BY <1>1, <1>2, <1>4, <1>5, <1>6, FirstScanned, WayRule
<1> QED
  BY <1>7 DEF Save

\* Security is turned on or off, on a connection that lets it be.
LEMMA SetSecurity ==
  ASSUME NEW p \in Plans, NEW v \in {0, 1}, NEW P \in SUBSET Base(p),
         \A a \in P : Hears(a) /\ Linked3(a) /\ Noted(a),
         \A op : \A a \in P, b \in State : Scanned(a, op, b) => b \in P,
         NEW Q, \A a \in P, b \in Open(p, v) : b.guser = a.guser => b \in Q
  PROVE  Leads(P, Set(authorize, v), Q)
<1>1. /\ "set" \in ConnectOps /\ "set" \in OwnOps /\ "set" \in ExchangeOps
      /\ "set" \notin {"canPlayers", "check", "atMost", "notZero", "checkMix", "judge", "ifSecure",
                        "scanning", "note", "compare", "count", "dump", "needSongs"}
  BY DEF ConnectOps, OwnOps, ExchangeOps, SetOps
<1>2. authorize \in Setting /\ authorize \in Subject /\ v \in Int /\ v # Undef
  <2>1. v \in Int /\ v # Undef
    BY ScriptAssumption DEF Undef
  <2>2. authorize \in Setting /\ authorize \in Subject
    BY Preferences, WayStep
  <2> QED
    BY <2>1, <2>2
<1>3. ASSUME NEW q \in Steps, q.op = "set", q.x = authorize, q.v = v, NEW a \in P, NEW b \in State,
             Becomes(a, q, b)
      PROVE  b \in Q
  <2>1. b.setting = Given(a, authorize, v)
    BY <1>3 DEF Becomes, Sets
  <2>2. a \in State /\ a \in Base(p)
    BY DEF Base
  <2>3. \A u \in Int : u # Undef => Given(a, authorize, u)[authorize] = u
    BY <1>2, <2>2, GivenIs
  <2>4. b.setting[authorize] = v
    BY <1>2, <2>1, <2>3
  <2>5. b \in Base(p) /\ b.initial = a.initial /\ b.guser = a.guser /\ b.memo = a.memo /\ SameLink(a, b)
    BY <1>3, <2>2, WayBecomes
  <2>6. b \in Open(p, v)
    BY <2>4, <2>5 DEF Open, Noted, Linked3, SameLink
  <2> QED
    BY <2>5, <2>6
<1>4. \A q \in Steps : q.op = "set" /\ q.x = authorize => \A a \in P : Legal(a, q)
  BY <1>1, <1>2 DEF Legal
<1>5. Leads(P, Step("set", authorize, v), Q)
  BY <1>1, <1>2, <1>3, <1>4, WayRule
<1> QED
  BY <1>5 DEF Set

\* Steps that leave security alone.
LEMMA JudgeWay ==
  ASSUME NEW p \in Plans, NEW v \in {0, 1}, NEW P \in SUBSET Base(p), \A a \in P : a.answer = v,
         \A op : \A a \in P, b \in State : Scanned(a, op, b) => b \in P,
         \A a \in P, b \in Base(p) :
           /\ SameLink(a, b) /\ b.setting = a.setting /\ b.memo = a.memo
           /\ b.initial = a.initial /\ b.answer = a.answer /\ b.guser = a.guser
           => b \in P
  PROVE  Leads(P, Judge(v), P)
<1> DEFINE x == <<0, "">>
<1>1. /\ "judge" \in ConnectOps /\ "judge" \notin OwnOps /\ "judge" \notin ExchangeOps
      /\ "judge" \notin {"canPlayers", "check", "atMost", "notZero", "checkMix", "ifSecure",
                        "scanning", "note", "compare", "count", "dump", "needSongs"}
  BY DEF ConnectOps, OwnOps, ExchangeOps, SetOps
<1>2. x \in Subject /\ v \in Int
  BY WayStep
<1> HIDE DEF x
<1>3. \A q \in Steps : q.op = "judge" /\ q.v = v => \A a \in P : Legal(a, q)
  BY <1>1 DEF Legal
<1>4. ASSUME NEW q \in Steps, q.op = "judge", NEW a \in P, NEW b \in State, Becomes(a, q, b)
      PROVE  b \in P
  BY <1>4, WayBecomes
<1>5. Leads(P, Step("judge", x, v), P)
  BY <1>1, <1>2, <1>3, <1>4, WayRule
<1> QED
  BY <1>5 DEF Judge, x

LEMMA DisconnectWay ==
  ASSUME NEW p \in Plans, NEW P \in SUBSET Base(p),
         \A op : \A a \in P, b \in State : Scanned(a, op, b) => b \in P,
         NEW Q,
         \A a \in P, b \in Base(p) :
           /\ ~b.gcli /\ Hung(b) /\ b.setting = a.setting /\ b.memo = a.memo
           /\ b.initial = a.initial /\ b.guser = a.guser
           => b \in Q
  PROVE  Leads(P, Plain("disconnect"), Q)
<1> DEFINE x == <<0, "">>
<1>1. /\ "disconnect" \in ConnectOps /\ "disconnect" \notin OwnOps /\ "disconnect" \notin ExchangeOps
      /\ "disconnect" \notin {"canPlayers", "check", "atMost", "notZero", "checkMix", "ifSecure",
                        "judge", "scanning", "note", "compare", "count", "dump", "needSongs"}
  BY DEF ConnectOps, OwnOps, ExchangeOps, SetOps
<1>2. x \in Subject /\ 0 \in Int
  BY WayStep
<1> HIDE DEF x
<1>3. \A q \in Steps : q.op = "disconnect" => \A a \in P : Legal(a, q)
  BY <1>1 DEF Legal
<1>4. ASSUME NEW q \in Steps, q.op = "disconnect", NEW a \in P, NEW b \in State, Becomes(a, q, b)
      PROVE  b \in Q
  BY <1>4, WayBecomes
<1>5. Leads(P, Step("disconnect", x, 0), Q)
  BY <1>1, <1>2, <1>3, <1>4, WayRule
<1> QED
  BY <1>5 DEF Plain, x

LEMMA ConnectWay ==
  ASSUME NEW p \in Plans, NEW how \in {"login", "nologin", "wrong"}, NEW P \in SUBSET Base(p),
         \A op : \A a \in P, b \in State : Scanned(a, op, b) => b \in P,
         NEW Q,
         \A a \in P, b \in Base(p) :
           /\ Connects(a, how, b) /\ b.answer = (IF b.gcli THEN 1 ELSE 0)
           /\ b.setting = a.setting /\ b.memo = a.memo
           /\ b.initial = a.initial /\ b.guser = a.guser
           => b \in Q
  PROVE  Leads(P, Connect(how), Q)
<1> DEFINE x == <<0, how>>
<1>1. /\ "connect" \in ConnectOps /\ "connect" \notin OwnOps /\ "connect" \notin ExchangeOps
      /\ "connect" \notin {"canPlayers", "check", "atMost", "notZero", "checkMix", "ifSecure",
                        "judge", "scanning", "note", "compare", "count", "dump", "needSongs"}
  BY DEF ConnectOps, OwnOps, ExchangeOps, SetOps
<1>2. x \in Subject /\ 0 \in Int /\ x[2] = how
  BY WayStep
<1> HIDE DEF x
<1>3. \A q \in Steps : q.op = "connect" => \A a \in P : Legal(a, q)
  BY <1>1 DEF Legal
<1>4. ASSUME NEW q \in Steps, q.op = "connect", q.x = x, NEW a \in P, NEW b \in State, Becomes(a, q, b)
      PROVE  b \in Q
  BY <1>2, <1>4, WayBecomes
<1>5. Leads(P, Step("connect", x, 0), Q)
  BY <1>1, <1>2, <1>3, <1>4, WayRule
<1> QED
  BY <1>5 DEF Connect, x

\* Security is as it was.
LEMMA BackLeads ==
  ASSUME NEW p \in Plans PROVE Leads(Back(p), Restore(authorize), In(p, {}))
<1>1. /\ "restore" \in ConnectOps /\ "restore" \in OwnOps /\ "restore" \in ExchangeOps
      /\ "restore" \notin {"canPlayers", "check", "atMost", "notZero", "checkMix", "judge", "ifSecure",
                        "scanning", "note", "compare", "count", "dump", "needSongs"}
  BY DEF ConnectOps, OwnOps, ExchangeOps, SetOps
<1>2. authorize \in Setting /\ authorize \in Subject /\ 0 \in Int
  BY Preferences, WayStep
<1>3. \A q \in Steps : q.op = "restore" /\ q.x = authorize => \A a \in Back(p) : Legal(a, q)
  BY <1>1, <1>2 DEF Legal, Back
<1>4. ASSUME NEW q \in Steps, q.op = "restore", q.x = authorize, NEW a \in Back(p), NEW b \in State,
             Becomes(a, q, b)
      PROVE  b \in In(p, {})
  <2>1. b.setting = Given(a, authorize, Brought(a, authorize))
    BY <1>4 DEF Becomes, Sets
  <2>2. /\ a \in State /\ a \in Base(p) /\ Linked3(a)
        /\ a.memo[authorize] = a.initial[authorize] /\ (a.initial[authorize] = 1 => a.logged)
    BY DEF Back, Base, Noted
  <2>3. /\ Brought(a, authorize) = a.initial[authorize]
        /\ a.initial[authorize] \in Int /\ a.initial[authorize] # Undef
    BY <1>2, <2>2, BroughtIs
  <2>4. ASSUME NEW v \in Int, v # Undef PROVE Given(a, authorize, v)[authorize] = v
    BY <1>2, <2>2, <2>4, GivenIs
  <2>5. b \in Base(p) /\ b.initial = a.initial /\ SameLink(a, b)
    BY <1>4, <2>2, WayBecomes
  <2>6. b.setting[authorize] = b.initial[authorize]
    BY <2>1, <2>2, <2>3, <2>4, <2>5
  <2>7. Hears(b)
    BY <2>2, <2>5, <2>6 DEF Hears, SameLink, Linked3
  <2>8. b.plan = p /\ Bound(b, {}) /\ AllOrNone(b)
    BY <2>5, <2>6 DEF Base, Bound
  <2> QED
    BY <2>7, <2>8 DEF In
<1>5. Back(p) \in SUBSET Base(p) /\ \A a \in Back(p), b \in State : Scanned(a, "restore", b) => b \in Back(p)
  BY WaySets
<1>6. Leads(Back(p), Step("restore", authorize, 0), In(p, {}))
  BY <1>1, <1>2, <1>3, <1>4, <1>5, WayRule
<1> QED
  BY <1>6 DEF Restore

\* A user's login test: three times with a wrong password, then with the right one.
LEMMA UserLeads ==
  ASSUME NEW p \in Plans
  PROVE  Leads({a \in Open(p, 0) : a.guser}, LoginScript(TRUE), In(p, {}))
<1> DEFINE P == {a \in Open(p, 0) : a.guser}
           O == {a \in Wrong(p) : a.answer = 0}
           R == {a \in Base(p) : Linked3(a) /\ Noted(a) /\ Hears(a) /\ a.logged}
<1>1. /\ P \in SUBSET Base(p) /\ O \in SUBSET Base(p)
      /\ Right(p) \in SUBSET Base(p) /\ Wrong(p) \in SUBSET Base(p)
      /\ \A op : \A a \in P, b \in State : Scanned(a, op, b) => b \in P
      /\ \A op : \A a \in O, b \in State : Scanned(a, op, b) => b \in O
      /\ \A op : \A a \in Right(p), b \in State : Scanned(a, op, b) => b \in Right(p)
      /\ \A op : \A a \in Wrong(p), b \in State : Scanned(a, op, b) => b \in Wrong(p)
  BY WaySets
<1>2. Leads(P, Set(authorize, 1), Right(p))
  <2>1. \A a \in P : Hears(a) /\ Linked3(a) /\ Noted(a)
    BY DEF Open, Hears, Linked3
  <2>2. \A a \in P, b \in Open(p, 1) : b.guser = a.guser => b \in Right(p)
    BY DEF Right
  <2> HIDE DEF P
  <2> QED
    BY <1>1, <2>1, <2>2, SetSecurity
<1>3. Leads(Right(p), Plain("disconnect"), Wrong(p))
  BY <1>1, DisconnectWay DEF Right, Wrong, Open, Shut, Noted
<1>4. Leads(Wrong(p), Connect("wrong"), O)
  <2>1. \A a \in Wrong(p), b \in Base(p) :
          /\ Connects(a, "wrong", b) /\ b.answer = (IF b.gcli THEN 1 ELSE 0)
          /\ b.setting = a.setting /\ b.memo = a.memo
          /\ b.initial = a.initial /\ b.guser = a.guser
          => b \in O
    BY DEF Wrong, Shut, Noted, Connects
  <2> HIDE DEF O
  <2> QED
    BY <1>1, <2>1, ConnectWay
<1>5. Leads(O, Judge(0), O)
  <2>1. \A a \in O : a.answer = 0
    OBVIOUS
  <2>2. \A a \in O, b \in Base(p) :
           /\ SameLink(a, b) /\ b.setting = a.setting /\ b.memo = a.memo
           /\ b.initial = a.initial /\ b.answer = a.answer /\ b.guser = a.guser
           => b \in O
    BY DEF Wrong, Shut, Noted, SameLink, Hung
  <2> HIDE DEF O
  <2> QED
    BY <1>1, <2>1, <2>2, JudgeWay
<1>6. Leads(O, Plain("disconnect"), Wrong(p))
  <2>1. \A a \in O, b \in Base(p) :
          /\ ~b.gcli /\ Hung(b) /\ b.setting = a.setting /\ b.memo = a.memo
          /\ b.initial = a.initial /\ b.guser = a.guser
          => b \in Wrong(p)
    BY DEF Wrong, Shut, Noted
  <2> HIDE DEF O
  <2> QED
    BY <1>1, <2>1, DisconnectWay
<1> DEFINE once == Connect("wrong") \o Judge(0) \o Plain("disconnect")
           ss == [i \in 1 .. 3 |-> once]
<1> HIDE DEF P, O
<1>7. Leads(Wrong(p), once, Wrong(p))
  BY <1>4, <1>5, <1>6, LeadsJoin
<1>8. Leads(Wrong(p), Times(3, once), Wrong(p))
  <2> HIDE DEF once
  <2>1. ss = [i \in 1 .. 3 |-> ss[i]] /\ \A i \in 1 .. 3 : Leads(Wrong(p), ss[i], Wrong(p))
    BY <1>7
  <2> HIDE DEF ss
  <2>2. Leads(Wrong(p), FlattenSeq(ss), Wrong(p))
    BY <2>1, StayLeads
  <2> QED
    BY <2>2 DEF ss, Times
<1> HIDE DEF once
<1>9. Leads(Wrong(p), Connect("login"), R)
  <2>1. \A a \in Wrong(p), b \in Base(p) :
          /\ Connects(a, "login", b) /\ b.answer = (IF b.gcli THEN 1 ELSE 0)
          /\ b.setting = a.setting /\ b.memo = a.memo
          /\ b.initial = a.initial /\ b.guser = a.guser
          => b \in R
    BY DEF Wrong, Shut, Noted, Connects, Hears, Linked3
  <2> HIDE DEF R
  <2> QED
    BY <1>1, <2>1, ConnectWay
<1>10. Leads(R, Restore(authorize), In(p, {}))
  <2>1. R \subseteq Back(p)
    BY DEF Back
  <2> HIDE DEF R
  <2> QED
    BY <2>1, BackLeads, LeadsFrom
<1> HIDE DEF R
<1>11. Leads(P, (Set(authorize, 1) \o Plain("disconnect") \o Times(3, once) \o Connect("login"))
                \o Restore(authorize), In(p, {}))
  BY <1>2, <1>3, <1>8, <1>9, <1>10, LeadsJoin
<1> QED
  BY <1>11 DEF LoginScript, once, P

\* Without a user there is no login to test.
LEMMA NobodyLeads ==
  ASSUME NEW p \in Plans
  PROVE  Leads({a \in Bare(p) : ~a.guser}, LoginScript(FALSE), In(p, {}))
<1> DEFINE P == {a \in Bare(p) : ~a.guser}
           x == <<0, "">>
<1>1. P \in SUBSET Base(p) /\ \A op : \A a \in P, b \in State : Scanned(a, op, b) => b \in P
  BY WaySets
<1>2. Leads(P, Skip, P)
  <2>1. /\ "skip" \in ConnectOps /\ "skip" \notin OwnOps /\ "skip" \notin ExchangeOps
        /\ "skip" \notin {"canPlayers", "check", "atMost", "notZero", "checkMix", "ifSecure",
                          "judge", "scanning", "note", "compare", "count", "dump", "needSongs"}
    BY DEF ConnectOps, OwnOps, ExchangeOps, SetOps
  <2>2. x \in Subject /\ 0 \in Int
    BY WayStep
  <2>3. \A a \in P, b \in Base(p) :
           /\ SameLink(a, b) /\ b.setting = a.setting /\ b.memo = a.memo
           /\ b.initial = a.initial /\ b.answer = a.answer /\ b.guser = a.guser
           => b \in P
    BY DEF Bare, Open, Linked3, Noted, SameLink
  <2> HIDE DEF x, P
  <2>4. \A q \in Steps : q.op = "skip" => \A a \in P : Legal(a, q)
    BY <2>1 DEF Legal
  <2>5. ASSUME NEW q \in Steps, q.op = "skip", NEW a \in P, NEW b \in State, Becomes(a, q, b)
        PROVE  b \in P
    BY <1>1, <2>3, <2>5, WayBecomes
  <2>6. Leads(P, Step("skip", x, 0), P)
    BY <1>1, <2>1, <2>2, <2>4, <2>5, WayRule
  <2> QED
    BY <2>6 DEF Skip, Plain, x
<1>3. P \subseteq Back(p)
  <2> SUFFICES ASSUME NEW a \in P PROVE a \in Back(p)
    OBVIOUS
  <2>1. a \in Base(p) /\ Linked3(a) /\ Noted(a) /\ a.setting[authorize] = 0 /\ ~a.guser
    BY DEF Bare, Open
  <2>2. a.initial[authorize] = 1 => a.guser
    BY <2>1 DEF Base
  <2> QED
    BY <2>1, <2>2 DEF Back, Hears, Linked3
<1> HIDE DEF P
<1>4. Leads(P, Restore(authorize), In(p, {}))
  BY <1>3, BackLeads, LeadsFrom
<1>5. Leads(P, Skip \o Restore(authorize), In(p, {}))
  BY <1>2, <1>4, LeadsJoin
<1> QED
  BY <1>5 DEF LoginScript, P

\* The branches.
LEMMA BranchWay ==
  ASSUME NEW p \in Plans, NEW op \in {"ifConnected", "ifSecure", "ifConnectedFreely"},
         NEW P \in SUBSET Base(p),
         \A n : \A a \in P, b \in State : Scanned(a, n, b) => b \in P,
         op = "ifSecure" => \A a \in P : Num(a.memo[authorize]) # 0 => a.guser,
         NEW Q,
         \A a \in P, b \in Base(p) :
           /\ SameLink(a, b) /\ b.setting = a.setting /\ b.memo = a.memo
           /\ b.initial = a.initial /\ b.answer = a.answer /\ b.guser = a.guser
           => \A q \in Steps : \A w : q.op = op /\ Puts(a, q, w) => \E O : b \in O /\ Leads(O, w, Q)
  PROVE  Leads(P, Plain(op), Q)
<1> DEFINE x == <<0, "">>
<1>1. /\ op \notin OwnOps /\ op \notin ExchangeOps /\ op \in AnyOps
      /\ op \notin {"canPlayers", "check", "atMost", "notZero", "checkMix",
                    "judge", "scanning", "note", "compare", "count", "dump", "needSongs"}
  BY DEF OwnOps, ExchangeOps, SetOps, AnyOps, ScriptOps, OtherOps
<1>2. x \in Subject /\ 0 \in Int
  BY WayStep
<1> HIDE DEF x
<1>3. PICK q \in Steps : Step(op, x, 0) = <<q>> /\ q.op = op
  BY <1>1, <1>2, StepIs
<1>4. \A a \in P : Fine(a) /\ Legal(a, q) /\ a \in State
  BY <1>1, <1>3, BaseFine DEF Legal
<1>5. ASSUME NEW a \in P, NEW b \in State, NEW w, Becomes(a, q, b), Puts(a, q, w)
      PROVE  \E O : b \in O /\ Leads(O, w, Q)
  BY <1>3, <1>5, WayBecomes
<1>6. Leads(P, <<q>>, Q)
  BY <1>3, <1>4, <1>5, StepLeads
<1> QED
  BY <1>3, <1>6 DEF Plain, x

LEMMA SecurityLeads ==
  ASSUME NEW p \in Plans PROVE Leads(Again(p), SecurityScript, In(p, {}))
<1>1. /\ Checked(p) \in SUBSET Base(p) /\ Open(p, 0) \in SUBSET Base(p)
      /\ Shut(p, 0) \in SUBSET Base(p) /\ Bare(p) \in SUBSET Base(p)
      /\ \A op : \A a \in Checked(p), b \in State : Scanned(a, op, b) => b \in Checked(p)
      /\ \A op : \A a \in Open(p, 0), b \in State : Scanned(a, op, b) => b \in Open(p, 0)
      /\ \A op : \A a \in Shut(p, 0), b \in State : Scanned(a, op, b) => b \in Shut(p, 0)
      /\ \A op : \A a \in Bare(p), b \in State : Scanned(a, op, b) => b \in Bare(p)
  BY WaySets
<1>2. ASSUME NEW a \in Checked(p)
      PROVE  /\ a \in Base(p) /\ Linked3(a) /\ Noted(a) /\ Hears(a)
             /\ a.setting[authorize] = a.initial[authorize] /\ a.initial[authorize] \in {0, 1}
             /\ a.initial[authorize] = 1 => a.guser
             /\ Num(a.memo[authorize]) = a.initial[authorize]
  <2>1. /\ a \in Base(p) /\ Linked3(a) /\ Noted(a) /\ a.logged = a.guser
        /\ a.setting[authorize] = a.initial[authorize]
    BY DEF Checked, First
  <2>2. (a.initial[authorize] = 1 => a.guser) /\ a \in State
    BY <2>1 DEF Base
  <2>3. a.initial[authorize] \in {0, 1} /\ a.initial[authorize] # Undef
    BY <2>2, Preferences, BroughtIs DEF State, FirstSettings
  <2> QED
    BY <2>1, <2>2, <2>3 DEF Hears, Linked3, Noted, Num
<1>3. Leads(Checked(p), Set(authorize, 0), Open(p, 0))
  BY <1>1, <1>2, SetSecurity
<1>4. Leads(Checked(p), Plain("ifSecure"), Open(p, 0))
  <2>1. ASSUME NEW a \in Checked(p), NEW b \in Base(p),
               SameLink(a, b), b.setting = a.setting, b.memo = a.memo,
               b.initial = a.initial, b.answer = a.answer, b.guser = a.guser,
               NEW q \in Steps, NEW w, q.op = "ifSecure", Puts(a, q, w)
        PROVE  \E O : b \in O /\ Leads(O, w, Open(p, 0))
    <3>1. b \in Checked(p)
      BY <2>1 DEF Checked, First, SameLink, Linked3, Noted
    <3>2. w = IF Num(a.memo[authorize]) # 0 THEN Set(authorize, 0) ELSE <<>>
      BY <2>1 DEF Puts, BranchOps
    <3>3. CASE Num(a.memo[authorize]) # 0
      BY <1>3, <3>1, <3>2, <3>3
    <3>4. CASE Num(a.memo[authorize]) = 0
      BY <1>2, <2>1, <3>1, <3>2, <3>4, LeadsNone DEF Open
    <3> QED
      BY <3>3, <3>4
  <2>2. \A a \in Checked(p) : Num(a.memo[authorize]) # 0 => a.guser
    BY <1>2
  <2> QED
    BY <1>1, <2>1, <2>2, BranchWay
<1>5. Leads(Open(p, 0), Plain("disconnect"), Shut(p, 0))
  BY <1>1, DisconnectWay DEF Open, Shut, Noted
<1>6. Leads(Shut(p, 0), Connect("nologin"), Bare(p))
  <2>1. \A a \in Shut(p, 0), b \in Base(p) :
          /\ Connects(a, "nologin", b) /\ b.answer = (IF b.gcli THEN 1 ELSE 0)
          /\ b.setting = a.setting /\ b.memo = a.memo
          /\ b.initial = a.initial /\ b.guser = a.guser
          => b \in Bare(p)
    <3> SUFFICES ASSUME NEW a \in Shut(p, 0), NEW b \in Base(p), Connects(a, "nologin", b),
                        b.answer = (IF b.gcli THEN 1 ELSE 0), b.setting = a.setting,
                        b.memo = a.memo, b.initial = a.initial
                 PROVE  b \in Bare(p)
      OBVIOUS
    <3>1. ~a.gcli /\ Noted(a) /\ a.setting[authorize] = 0 /\ "nologin" # "login"
      BY DEF Shut
    <3>2. b.gcli /\ b.gsocket /\ b.link /\ ~b.logged
      <4>1. a.setting[authorize] # 1
        BY <3>1
      <4>2. b.gcli /\ b.gsocket /\ b.link /\ (b.logged <=> a.guser /\ "nologin" = "login")
        BY <3>1, <4>1, Zenon DEF Connects
      <4> QED
        BY <3>1, <4>2, Zenon
    <3> QED
      BY <3>1, <3>2 DEF Noted, Bare, Open, Linked3
  <2> QED
    BY <1>1, <2>1, ConnectWay
<1>7. Leads(Bare(p), Judge(1), Bare(p))
  BY <1>1, JudgeWay DEF Bare, Open, Noted, Linked3, SameLink
<1>8. Leads(Bare(p), Plain("ifConnectedFreely"), In(p, {}))
  <2>1. ASSUME NEW a \in Bare(p), NEW b \in Base(p),
               SameLink(a, b), b.setting = a.setting, b.memo = a.memo,
               b.initial = a.initial, b.answer = a.answer, b.guser = a.guser,
               NEW q \in Steps, NEW w, q.op = "ifConnectedFreely", Puts(a, q, w)
        PROVE  \E O : b \in O /\ Leads(O, w, In(p, {}))
    <3>1. b \in Bare(p) /\ b \in Open(p, 0) /\ b \in State
      BY <2>1 DEF Bare, Open, SameLink, Linked3, Noted, Base
    <3>2. w = LoginScript(b.guser)
      BY <2>1 DEF Puts, BranchOps, Bare, Open, Linked3
    <3>3. CASE b.guser
      BY <3>1, <3>2, <3>3, UserLeads DEF State
    <3>4. CASE ~b.guser
      BY <3>1, <3>2, <3>4, NobodyLeads DEF State
    <3> QED
      BY <3>3, <3>4
  <2> QED
    BY <1>1, <2>1, BranchWay
<1>9. Leads(Again(p), Save(authorize), Checked(p))
  BY SaveSecurity
<1>10. Leads(Again(p), Save(authorize) \o Plain("ifSecure") \o Plain("disconnect")
                       \o Connect("nologin") \o Judge(1) \o Plain("ifConnectedFreely"), In(p, {}))
  BY <1>4, <1>5, <1>6, <1>7, <1>8, <1>9, LeadsJoin
<1> QED
  BY <1>10 DEF SecurityScript

\* testConnectDisconnect.
LEMMA ConnectLeads ==
  ASSUME NEW p \in Plans
  PROVE  Leads({a \in In(p, {}) : a.tid = "connect"}, ConnectScript, In(p, {}))
<1> DEFINE P == {a \in In(p, {}) : a.tid = "connect"}
           O == {a \in First(p) : Hears(a)}
<1>1. Leads(Again(p), Plain("ifConnected"), In(p, {}))
  <2>1. Again(p) \in SUBSET Base(p)
    BY DEF Again, First
  <2>2. ASSUME NEW a \in Again(p), NEW b \in Base(p),
               SameLink(a, b), b.setting = a.setting, b.memo = a.memo,
               b.initial = a.initial, b.answer = a.answer, b.guser = a.guser,
               NEW q \in Steps, NEW w, q.op = "ifConnected", Puts(a, q, w)
        PROVE  \E A : b \in A /\ Leads(A, w, In(p, {}))
    BY <2>2, SecurityLeads DEF Again, First, SameLink, Linked3, Puts, BranchOps
  <2> QED
    BY <2>1, <2>2, FirstScanned, BranchWay
<1>2. /\ Leads(O, Plain("exit"), Closed1(p))
      /\ Leads(Closed1(p), Plain("exit"), Closed2(p))
      /\ Leads(Closed2(p), Judge(0), Closed2(p))
      /\ Leads(Closed2(p), Plain("forget"), Closed3(p))
      /\ Leads(Closed3(p), Connect("login"), Again(p))
      /\ Leads(Again(p), Judge(1), Again(p))
  BY FirstPart
<1> HIDE DEF O
<1>3. Leads(O, Plain("exit") \o Plain("exit") \o Judge(0) \o Plain("forget")
               \o Connect("login") \o Judge(1) \o Plain("ifConnected"), In(p, {}))
  BY <1>1, <1>2, LeadsJoin
<1>4. P \subseteq O
  BY StartFirst DEF O
<1> HIDE DEF P
<1>5. Leads(P, ConnectScript, In(p, {}))
  BY <1>3, <1>4, LeadsFrom DEF ConnectScript
<1> QED
  BY <1>5 DEF P

-----------------------------------------------------------------------------
(* What comes before a test is run, and after all of them.                 *)

\* A test that has not been skipped has a connection.
Ready(p, t)  == {a \in Calm(p) : a.tid = t /\ (Starts(a) => a.gcli)}
\* Its connection lasts while it asks for what it needs.
Asking(p, t) == {a \in In(p, {}) : a.tid = t}
Asked(p, t)  == {a \in Asking(p, t) : ~a.scanning}

\* What neither a step nor the end of a scan has changed.
Alike(a, b) ==
  /\ b.plan = a.plan /\ b.guser = a.guser /\ b.initial = a.initial /\ (a.quick => b.quick)
  /\ b.tid = a.tid /\ b.db = a.db /\ b.flag = a.flag /\ b.setting = a.setting
  /\ b.dump = a.dump /\ SameLink(a, b)

LEMMA AlikeStays ==
  ASSUME NEW p, NEW t, NEW a, NEW b \in State, Alike(a, b)
  PROVE  /\ a \in Calm(p) => b \in Calm(p)
         /\ a \in In(p, {}) => b \in In(p, {})
         /\ a \in Ready(p, t) => b \in Ready(p, t)
         /\ a \in Asking(p, t) => b \in Asking(p, t)
         /\ Starts(b) = Starts(a) /\ Hears(b) = Hears(a)
<1>1. Starts(b) = Starts(a) /\ Hears(b) = Hears(a) /\ b.gcli = a.gcli
  BY DEF Alike, SameLink, Starts, Hears
<1>2. Bound(a, {}) /\ AllOrNone(a) => Bound(b, {}) /\ AllOrNone(b)
  BY DEF Alike, SameLink, Bound, Blameless, AllOrNone
<1>3. a \in Calm(p) => b \in Calm(p)
  BY <1>1, <1>2 DEF Alike, Calm
<1>4. a \in In(p, {}) => b \in In(p, {})
  BY <1>1, <1>2 DEF Alike, In
<1> QED
  BY <1>1, <1>3, <1>4 DEF Alike, Ready, Asking

LEMMA ScannedAlike == ASSUME NEW a, NEW op, NEW b, Scanned(a, op, b) PROVE Alike(a, b)
BY DEF Scanned, Alike

LEMMA CalmScanned ==
  ASSUME NEW p, NEW t, NEW op
  PROVE  /\ \A a \in Calm(p), b \in State : Scanned(a, op, b) => b \in Calm(p)
         /\ \A a \in Ready(p, t), b \in State : Scanned(a, op, b) => b \in Ready(p, t)
         /\ \A a \in Asking(p, t), b \in State : Scanned(a, op, b) => b \in Asking(p, t)
         /\ \A a \in Asked(p, t), b \in State : ~Scanned(a, op, b)
<1>1. \A a \in Asked(p, t), b \in State : ~Scanned(a, op, b)
  BY DEF Asked, Scanned
<1> QED
  BY <1>1, ScannedAlike, AlikeStays

LEMMA CalmFine ==
  ASSUME NEW p \in Plans, NEW a \in Calm(p) PROVE a \in State /\ a.plan = p /\ Fine(a)
<1>1. a \in State /\ a.plan = p /\ Bound(a, {})
  BY DEF Calm
<1>2. a.setting[authorize] = a.initial[authorize] /\ Blameless(a)
  BY <1>1, Preferences DEF Bound
<1> QED
  BY <1>1, <1>2 DEF Fine

LEMMA CalmRule ==
  ASSUME NEW p \in Plans, NEW op \in AnyOps, NEW x \in Subject, NEW v \in Int,
         NEW P \in SUBSET Calm(p), NEW Q,
         \A q \in Steps : q.op = op /\ q.x = x /\ q.v = v =>
           /\ \A a \in P : Legal(a, q)
           /\ \A a \in P, b \in State : Becomes(a, q, b) =>
                \A w : Puts(a, q, w) => \E O : b \in O /\ Leads(O, w, Q),
         \A a \in P, b \in State : Scanned(a, op, b) => b \in P
  PROVE  Leads(P, Step(op, x, v), Q)
<1>1. PICK q \in Steps : Step(op, x, v) = <<q>> /\ q.op = op /\ q.x = x /\ q.v = v
  BY StepIs
<1>2. P \in SUBSET State /\ \A a \in P : Fine(a)
  BY CalmFine
<1> QED
  BY <1>1, <1>2, StepLeads

LEMMA CalmPlain ==
  ASSUME NEW p \in Plans, NEW op \in AnyOps, op \notin BranchOps, NEW x \in Subject, NEW v \in Int,
         NEW P \in SUBSET Calm(p), NEW Q,
         \A q \in Steps : q.op = op /\ q.x = x /\ q.v = v =>
           /\ \A a \in P : Legal(a, q)
           /\ \A a \in P, b \in State : Becomes(a, q, b) => b \in Q,
         \A a \in P, b \in State : Scanned(a, op, b) => b \in P
  PROVE  Leads(P, Step(op, x, v), Q)
<1>1. \A q \in Steps : q.op = op => \A a : \A w : Puts(a, q, w) => w = <<>>
  BY DEF Puts
<1>2. \A b \in Q : \E O : b \in O /\ Leads(O, <<>>, Q)
  BY LeadsNone
<1>3. ASSUME NEW q \in Steps, q.op = op, q.x = x, q.v = v
      PROVE  /\ \A a \in P : Legal(a, q)
             /\ \A a \in P, b \in State : Becomes(a, q, b) =>
                  \A w : Puts(a, q, w) => \E O : b \in O /\ Leads(O, w, Q)
  <2>1. ASSUME NEW a \in P, NEW b \in State, Becomes(a, q, b), NEW w, Puts(a, q, w)
        PROVE  \E O : b \in O /\ Leads(O, w, Q)
    BY <1>1, <1>2, <1>3, <2>1
  <2> QED
    BY <1>3, <2>1
<1> QED
  BY <1>3, CalmRule

\* Steps after which all is as it was.
LEMMA PlainAlike ==
  ASSUME NEW a, NEW q, q.op \in {"ask", "wipecache", "waitDone", "report", "restoreFlags", "run",
                                 "canDB", "canPlayers"},
         NEW b, Becomes(a, q, b)
  PROVE  /\ Alike(a, b) /\ (q.op # "wipecache" => b.scanning = a.scanning)
         /\ q.op # "canPlayers" => b.gplayers = a.gplayers
         /\ q.op = "waitDone" => ~a.scanning
<1>1. /\ q.op \notin SetOps /\ q.op \notin MixOps /\ q.op \notin LinkOps /\ q.op \notin TestingOps
      /\ q.op \notin {"new", "wait", "save", "souvenir", "connect", "exit", "note", "compare",
                      "fetch", "needGroups", "canConnect", "needSongs", "rescan"}
  BY DEF SetOps, MixOps, LinkOps, TestingOps, JudgeOps
<1> QED
  BY <1>1 DEF Becomes, Leaves, Notes, Alike

LEMMA CalmLegal ==
  ASSUME NEW a, NEW q,
         q.op \in {"new", "canConnect", "report", "restoreFlags", "run", "canDB", "disconnect"}
  PROVE  Legal(a, q)
<1>1. q.op \notin ExchangeOps /\ q.op \notin OwnOps
  BY DEF ExchangeOps, OwnOps, SetOps
<1> QED
  BY <1>1 DEF Legal

LEMMA AskingSets ==
  ASSUME NEW p, NEW t
  PROVE  /\ Asking(p, t) \subseteq Calm(p) /\ Asked(p, t) \subseteq Calm(p)
         /\ Asking(p, t) \subseteq Ready(p, t) /\ Ready(p, t) \subseteq Calm(p)
         /\ \A a \in Ready(p, t) : Starts(a) => a \in Asking(p, t)
         /\ \A a \in Asking(p, t) : Hears(a)
<1>1. In(p, {}) \subseteq Calm(p)
  BY InCalm
<1>2. \A a \in Asking(p, t) : a.gcli
  BY DEF Asking, In, Hears
<1>3. \A a \in Ready(p, t) : Starts(a) => a \in Asking(p, t)
  BY DEF Ready, Calm, In, Asking
<1> QED
  BY <1>1, <1>2, <1>3 DEF Asking, Asked, Ready, In

\* Steps that ask, on a connection.
LEMMA AskingLeads ==
  ASSUME NEW p \in Plans, NEW t
  PROVE  /\ Leads(Asking(p, t), Plain("ask"), Asking(p, t))
         /\ Leads(Asking(p, t), Wipe, Asking(p, t))
         /\ Leads(Asking(p, t), WaitDone, Asked(p, t))
<1> DEFINE x == <<0, "">>
<1>1. x \in Subject /\ 0 \in Int
  BY PlainSubject
<1> HIDE DEF x
<1>2. \A op \in {"ask", "wipecache", "waitDone"} :
        /\ op \in AnyOps /\ op \notin BranchOps /\ op \notin OwnOps
        /\ op \notin {"canPlayers", "check", "atMost", "notZero", "checkMix", "ifSecure",
                      "judge", "scanning", "note", "compare", "count", "dump", "needSongs"}
  BY DEF AnyOps, ScriptOps, OtherOps, BranchOps, OwnOps, SetOps
<1>3. Asking(p, t) \in SUBSET Calm(p)
  BY AskingSets
<1>4. \A q \in Steps : q.op \in {"ask", "wipecache", "waitDone"} => \A a \in Asking(p, t) : Legal(a, q)
  BY <1>2, AskingSets DEF Legal
<1>5. ASSUME NEW q \in Steps, q.op \in {"ask", "wipecache", "waitDone"},
             NEW a \in Asking(p, t), NEW b \in State, Becomes(a, q, b)
      PROVE  b \in Asking(p, t) /\ (q.op = "waitDone" => b \in Asked(p, t))
  <2>1. Alike(a, b) /\ (q.op = "waitDone" => ~b.scanning)
    BY <1>5, PlainAlike
  <2>2. b \in Asking(p, t)
    BY <2>1, AlikeStays
  <2> QED
    BY <2>1, <2>2 DEF Asked
<1>6. ASSUME NEW op \in {"ask", "wipecache"}
      PROVE  Leads(Asking(p, t), Step(op, x, 0), Asking(p, t))
  BY <1>1, <1>2, <1>3, <1>4, <1>5, CalmScanned, CalmPlain
<1>7. Leads(Asking(p, t), Step("waitDone", x, 0), Asked(p, t))
  BY <1>1, <1>2, <1>3, <1>4, <1>5, CalmScanned, CalmPlain
<1> QED
  BY <1>6, <1>7 DEF Wipe, WaitDone, Plain, x

\* A test begins.
LEMMA NewLeads ==
  ASSUME NEW p \in Plans, NEW t \in Test
  PROVE  Leads(Calm(p), Step("new", <<0, t>>, 0), {a \in Calm(p) : a.tid = t})
<1> DEFINE x == <<0, t>>
<1>1. x \in Subject /\ 0 \in Int /\ x[2] = t
  <2>1. x \in Topic
    BY DEF Topic
  <2> HIDE DEF x
  <2>2. x \in Subject
    BY <2>1 DEF Subject
  <2> QED
    BY <2>2 DEF x
<1> HIDE DEF x
<1>2. "new" \in AnyOps /\ "new" \notin BranchOps /\ "new" \notin LinkOps \cup SetOps \cup MixOps \cup TestingOps
  BY DEF AnyOps, TestOps, BranchOps, LinkOps, SetOps, MixOps, TestingOps, JudgeOps
<1>3. ASSUME NEW q \in Steps, q.op = "new", q.x = x, NEW a \in Calm(p), NEW b \in State, Becomes(a, q, b)
      PROVE  b \in Calm(p) /\ b.tid = t
  <2>1. /\ b.plan = a.plan /\ b.guser = a.guser /\ b.initial = a.initial /\ b.quick = a.quick
        /\ SameLink(a, b) /\ b.setting = a.setting /\ b.flag = a.flag /\ b.dump = a.dump
    BY <1>2, <1>3 DEF Becomes, Leaves
  <2>2. b.tid = t /\ b.db = [a.db EXCEPT ![t] = Start] /\ a.db \in [Test -> Verdicts]
    BY <1>1, <1>3 DEF Becomes, Tests, Calm, State
  <2>3. Blameless(a)
    BY DEF Calm, Bound
  <2>4. Blameless(b)
    BY <2>1, <2>2, <2>3 DEF Blameless, Start, Failed, Skipped
  <2>5. Bound(b, {}) /\ AllOrNone(b)
    BY <2>1, <2>4 DEF Calm, Bound, AllOrNone, SameLink
  <2>6. Hears(b) = Hears(a) /\ b.gcli = a.gcli
    BY <2>1 DEF Hears, SameLink
  <2> QED
    BY <2>1, <2>2, <2>5, <2>6 DEF Calm
<1>4. \A q \in Steps : q.op = "new" => \A a : Legal(a, q)
  BY CalmLegal
<1>5. Leads(Calm(p), Step("new", x, 0), {a \in Calm(p) : a.tid = t})
  BY <1>1, <1>2, <1>3, <1>4, CalmScanned, CalmPlain
<1> QED
  BY <1>5 DEF x

\* test_canConnect: without a connection there is nobody to log in.
LEMMA CanConnectLeads ==
  ASSUME NEW p \in Plans, NEW t \in Test
  PROVE  Leads({a \in Calm(p) : a.tid = t}, Plain("canConnect"), Ready(p, t))
<1> DEFINE x == <<0, "">>
           P == {a \in Calm(p) : a.tid = t}
<1>1. x \in Subject /\ 0 \in Int
  BY PlainSubject
<1> HIDE DEF x
<1>2. "canConnect" \in AnyOps /\ "canConnect" \notin BranchOps
      /\ "canConnect" \notin SetOps \cup MixOps \cup TestingOps \cup {"new", "connect", "needGroups"}
  BY DEF AnyOps, TestOps, BranchOps, SetOps, MixOps, TestingOps, JudgeOps
<1>3. ASSUME NEW q \in Steps, q.op = "canConnect", NEW a \in P, NEW b \in State, Becomes(a, q, b)
      PROVE  b \in Ready(p, t)
  <2>1. /\ b.plan = a.plan /\ b.guser = a.guser /\ b.initial = a.initial /\ b.quick = a.quick
        /\ b.tid = a.tid /\ b.setting = a.setting /\ b.flag = a.flag /\ b.dump = a.dump
    BY <1>2, <1>3 DEF Becomes, Leaves
  <2>2. /\ Connects(a, "login", b)
        /\ b.db = IF b.gcli THEN a.db ELSE [a.db EXCEPT ![a.tid] = Skipped]
    BY <1>3 DEF Becomes, Links, Tests
  <2>3. /\ a \in State /\ a.plan = p /\ a.tid = t /\ Bound(a, {}) /\ AllOrNone(a)
        /\ a.gcli => Hears(a)
        /\ a.flag => a.gcli
    BY DEF Calm
  <2>4. /\ a.db \in [Test -> Verdicts] /\ a.initial[authorize] \in {0, 1} /\ a.guser \in BOOLEAN
        /\ a.setting[authorize] = a.initial[authorize]
    BY <2>3, Preferences DEF State, FirstSettings, Bound
  <2>5. CASE a.gcli
    BY <2>1, <2>2, <2>3, <2>5, AlikeStays DEF Connects, Alike, SameLink, Ready
  <2>6. CASE ~a.gcli /\ (a.setting[authorize] = 1 => a.guser)
    <3>1. b.gcli /\ b.gsocket /\ b.link /\ b.logged = a.guser /\ b.db = a.db
      BY <2>2, <2>4, <2>6 DEF Connects
    <3>2. Hears(b)
      BY <2>1, <2>6, <3>1 DEF Hears
    <3>3. Bound(b, {}) /\ AllOrNone(b)
      BY <2>1, <2>3, <3>1 DEF Bound, AllOrNone, Blameless
    <3> QED
      BY <2>1, <2>3, <3>1, <3>2, <3>3 DEF Ready, Calm
  <2>7. CASE ~a.gcli /\ ~(a.setting[authorize] = 1 => a.guser)
    <3>1. ~b.gcli /\ Hung(b) /\ b.db = [a.db EXCEPT ![t] = Skipped]
      BY <2>2, <2>3, <2>7 DEF Connects
    <3>2. Blameless(b)
      BY <2>1, <2>3, <2>4, <2>7, <3>1 DEF Bound, Skipped, Failed, Blameless
    <3>3. Bound(b, {}) /\ AllOrNone(b)
      BY <2>1, <2>3, <3>1, <3>2 DEF Bound, AllOrNone, Hung
    <3>4. ~Starts(b)
      BY <2>1, <2>3, <2>4, <3>1 DEF Starts, Start, Skipped
    <3> QED
      BY <2>1, <2>3, <2>7, <3>1, <3>3, <3>4 DEF Ready, Calm
  <2> QED
    BY <2>5, <2>6, <2>7
<1>4. \A q \in Steps : q.op = "canConnect" => \A a : Legal(a, q)
  BY CalmLegal
<1>5. P \in SUBSET Calm(p) /\ \A a \in P, b \in State : Scanned(a, "canConnect", b) => b \in P
  BY CalmScanned DEF Scanned
<1> HIDE DEF P
<1>6. Leads(P, Step("canConnect", x, 0), Ready(p, t))
  BY <1>1, <1>2, <1>3, <1>4, <1>5, CalmPlain
<1> QED
  BY <1>6 DEF Plain, x, P

\* test_canPlayers.
LEMMA CanPlayersLeads ==
  ASSUME NEW p \in Plans, NEW t \in Test
  PROVE  Leads(Ready(p, t), Plain("canPlayers"), Ready(p, t))
<1> DEFINE x == <<0, "">>
           ss == [i \in 1 .. Players |-> Plain("ask")]
<1>1. x \in Subject /\ 0 \in Int
  BY PlainSubject
<1> HIDE DEF x
<1>2. /\ "canPlayers" \in AnyOps /\ "canPlayers" \notin ExchangeOps /\ "canPlayers" \notin OwnOps
      /\ "canPlayers" \in BranchOps
  BY DEF AnyOps, TestOps, ExchangeOps, OwnOps, SetOps, BranchOps
<1>3. Leads(Asking(p, t), Times(Players, Plain("ask")), Ready(p, t))
  <2>1. ss = [i \in 1 .. Players |-> ss[i]] /\ \A i \in 1 .. Players : Leads(Asking(p, t), ss[i], Asking(p, t))
    BY AskingLeads
  <2>2. Players \in Nat
    BY ServerAssumption
  <2> HIDE DEF ss
  <2>3. Leads(Asking(p, t), FlattenSeq(ss), Asking(p, t))
    BY <2>1, <2>2, StayLeads
  <2>4. Asking(p, t) \subseteq Ready(p, t)
    BY AskingSets
  <2>5. Leads(Asking(p, t), FlattenSeq(ss), Ready(p, t))
    BY <2>3, <2>4, LeadsFrom
  <2> QED
    BY <2>5 DEF ss, Times
<1>4. ASSUME NEW q \in Steps, q.op = "canPlayers", NEW a \in Ready(p, t), NEW b \in State,
             Becomes(a, q, b), NEW w, Puts(a, q, w)
      PROVE  \E O : b \in O /\ Leads(O, w, Ready(p, t))
  <2>1. Alike(a, b)
    BY <1>4, PlainAlike
  <2>2. b \in Ready(p, t) /\ Starts(b) = Starts(a)
    BY <2>1, AlikeStays
  <2>3. w \in IF Starts(a) THEN {<<>>, Times(Players, Plain("ask"))} ELSE {<<>>}
    BY <1>2, <1>4 DEF Puts
  <2>4. CASE w = <<>>
    BY <2>2, <2>4, LeadsNone
  <2>5. CASE Starts(a) /\ w = Times(Players, Plain("ask"))
    BY <1>3, <2>2, <2>5, AskingSets
  <2> QED
    BY <2>3, <2>4, <2>5
<1>5. ASSUME NEW q \in Steps, q.op = "canPlayers", NEW a \in Ready(p, t) PROVE Legal(a, q)
  BY <1>2, <1>5, AskingSets DEF Legal
<1>6. Ready(p, t) \in SUBSET Calm(p)
  BY AskingSets
<1>7. Leads(Ready(p, t), Step("canPlayers", x, 0), Ready(p, t))
  BY <1>1, <1>2, <1>4, <1>5, <1>6, CalmScanned, CalmRule
<1> QED
  BY <1>7 DEF Plain, x

\* The flag groupdiscs has been put to v.
Grouped(p, t, v) == {a \in Asking(p, t) : a.flag /\ a.setting[groupdiscs] = v}

LEMMA RegroupLeads ==
  ASSUME NEW p \in Plans, NEW t, NEW v \in {0, 1}
  PROVE  Leads({a \in Asking(p, t) : a.flag}, Regroup(v), {a \in Grouped(p, t, v) : ~a.scanning})
<1> DEFINE P == {a \in Asking(p, t) : a.flag}
           G == Grouped(p, t, v)
           Q == {a \in Grouped(p, t, v) : ~a.scanning}
           x == <<0, "">>
<1>1. x \in Subject /\ 0 \in Int
  BY PlainSubject
<1> HIDE DEF x
<1>2. P \in SUBSET Calm(p) /\ G \in SUBSET Calm(p) /\ \A a \in P : a \in State /\ Hears(a)
  BY AskingSets, CalmFine DEF Grouped
<1>3. /\ \A op : \A a \in P, b \in State : Scanned(a, op, b) => b \in P
      /\ \A op : \A a \in G, b \in State : Scanned(a, op, b) => b \in G
  <2>1. \A op : \A a \in Asking(p, t), b \in State : Scanned(a, op, b) => b \in Asking(p, t)
    BY CalmScanned
  <2>2. \A op : \A a, b \in State : Scanned(a, op, b) => b.flag = a.flag /\ b.setting = a.setting
    BY DEF Scanned
  <2>3. Asking(p, t) \subseteq State
    BY AskingSets, CalmFine
  <2> QED
    BY <2>1, <2>2, <2>3 DEF Grouped
<1>4. groupdiscs \in Setting /\ groupdiscs \in Subject /\ v \in Int /\ v # Undef /\ groupdiscs[2] # "power"
      /\ groupdiscs # authorize /\ groupdiscs \notin Kept(p)
  BY ScriptAssumption, Preferences DEF Undef, Subject, groupdiscs
<1>5. Leads(P, Set(groupdiscs, v), G)
  <2>1. /\ "set" \in AnyOps /\ "set" \notin BranchOps /\ "set" \notin LinkOps \cup TestingOps
        /\ "set" \notin {"new", "canConnect", "needSongs", "needGroups", "fetch"}
        /\ "set" \notin {"canPlayers", "check", "atMost", "notZero", "checkMix", "ifSecure",
                      "judge", "scanning", "note", "compare", "count", "dump", "needSongs"}
    BY DEF AnyOps, ScriptOps, OtherOps, BranchOps, LinkOps, TestingOps, JudgeOps
  <2>2. ASSUME NEW q \in Steps, q.op = "set", q.x = groupdiscs, q.v = v, NEW a \in P, NEW b \in State,
               Becomes(a, q, b)
        PROVE  b \in G
    <3>1. /\ b.plan = a.plan /\ b.guser = a.guser /\ b.initial = a.initial /\ b.quick = a.quick
          /\ b.tid = a.tid /\ b.db = a.db /\ b.flag = a.flag /\ b.dump = a.dump /\ SameLink(a, b)
      BY <2>1, <2>2 DEF Becomes, Leaves
    <3>2. b.setting = Given(a, groupdiscs, v)
      BY <2>2 DEF Becomes, Sets
    <3>3. /\ \A u \in Int : u # Undef => Given(a, groupdiscs, u)[groupdiscs] = u
          /\ \A u \in Int : \A y \in Setting : y # groupdiscs => Given(a, groupdiscs, u)[y] = a.setting[y]
      <4>1. a \in State /\ groupdiscs \in Setting
        BY <1>2, <1>4
      <4>2. ASSUME NEW y \in Setting, y[2] # "power", NEW u \in Int
            PROVE  /\ u # Undef => Given(a, y, u)[y] = u
                   /\ \A z \in Setting : z # y => Given(a, y, u)[z] = a.setting[z]
        <5> HIDE DEF P
        <5> QED
          BY <4>1, <4>2, GivenIs
      <4> HIDE DEF P
      <4> QED
        BY <1>4, <4>1, <4>2
    <3>4. b.setting[groupdiscs] = v /\ \A y \in Setting : y # groupdiscs => b.setting[y] = a.setting[y]
      BY <1>4, <3>2, <3>3
    <3>5. /\ a \in In(p, {}) /\ a.tid = t /\ a.flag /\ a.plan = p /\ Hears(a) /\ Bound(a, {})
          /\ AllOrNone(a)
      BY DEF Asking, In
    <3>6. b.setting[authorize] = a.setting[authorize]
      BY <1>4, <3>4, Preferences
    <3>7. Hears(b) /\ AllOrNone(b)
      BY <3>1, <3>5, <3>6 DEF Hears, SameLink, AllOrNone
    <3>8. \A y \in Kept(p) : y \in Setting /\ y # groupdiscs
      BY <1>4 DEF Kept
    <3>9. Bound(b, {})
      BY <3>1, <3>4, <3>5, <3>8 DEF Bound, Blameless, SameLink
    <3> QED
      BY <3>1, <3>4, <3>5, <3>7, <3>9 DEF Grouped, Asking, In
  <2>3. \A q \in Steps : q.op = "set" /\ q.x = groupdiscs => \A a \in P : Legal(a, q)
    BY <1>2, <1>4, <2>1 DEF Legal
  <2> HIDE DEF P, G
  <2>4. Leads(P, Step("set", groupdiscs, v), G)
    BY <1>2, <1>3, <1>4, <2>1, <2>2, <2>3, CalmPlain
  <2> QED
    BY <2>4 DEF Set
<1>6. Leads(G, Wipe, G) /\ Leads(G, WaitDone, Q)
  <2>1. \A op \in {"wipecache", "waitDone"} :
          /\ op \in AnyOps /\ op \notin BranchOps /\ op \notin OwnOps
          /\ op \notin {"canPlayers", "check", "atMost", "notZero", "checkMix", "ifSecure",
                        "judge", "scanning", "note", "compare", "count", "dump", "needSongs"}
    BY DEF AnyOps, ScriptOps, OtherOps, BranchOps, OwnOps, SetOps
  <2>2. \A a \in G : Hears(a)
    BY AskingSets DEF Grouped
  <2>3. \A q \in Steps : q.op \in {"wipecache", "waitDone"} => \A a \in G : Legal(a, q)
    BY <2>1, <2>2 DEF Legal
  <2>4. ASSUME NEW q \in Steps, q.op \in {"wipecache", "waitDone"},
               NEW a \in G, NEW b \in State, Becomes(a, q, b)
        PROVE  b \in G /\ (q.op = "waitDone" => b \in Q)
    <3>1. Alike(a, b) /\ (q.op = "waitDone" => ~b.scanning)
      BY <2>4, PlainAlike
    <3>2. b \in Asking(p, t)
      BY <3>1, AlikeStays DEF Grouped
    <3>3. b \in G
      BY <3>1, <3>2 DEF Alike, Grouped
    <3> QED
      BY <3>1, <3>3
  <2> HIDE DEF G, Q
  <2>5. Leads(G, Step("wipecache", x, 0), G)
    BY <1>1, <1>2, <1>3, <2>1, <2>3, <2>4, CalmPlain
  <2>6. Leads(G, Step("waitDone", x, 0), Q)
    BY <1>1, <1>2, <1>3, <2>1, <2>3, <2>4, CalmPlain
  <2> QED
    BY <2>5, <2>6 DEF Wipe, WaitDone, Plain, x
<1> HIDE DEF P, G, Q
<1>7. Leads(P, Set(groupdiscs, v) \o Wipe \o WaitDone, Q)
  BY <1>5, <1>6, LeadsJoin
<1> QED
  BY <1>7 DEF Regroup, P, Q

\* test_canDB: no scan goes on when a test of the database is run.
LEMMA NeedSongsLeads ==
  ASSUME NEW p \in Plans, NEW t \in NeedsDB
  PROVE  Leads(Asked(p, t), Plain("needSongs"), Asked(p, t))
<1> DEFINE x == <<0, "">>
<1>1. x \in Subject /\ 0 \in Int
  BY PlainSubject
<1> HIDE DEF x
<1>2. /\ "needSongs" \in AnyOps /\ "needSongs" \notin BranchOps /\ "needSongs" \notin OwnOps
      /\ "needSongs" \notin LinkOps \cup SetOps \cup TestingOps
      /\ "needSongs" \notin {"new", "wait", "fetch", "needGroups", "wipecache", "rescan"}
      /\ "needSongs" \notin {"canPlayers", "check", "atMost", "notZero", "checkMix", "ifSecure",
                          "judge", "scanning", "note", "compare", "count", "dump"}
  BY DEF AnyOps, ScriptOps, OtherOps, BranchOps, OwnOps, SetOps, LinkOps, TestingOps, JudgeOps
<1>3. \A q \in Steps : q.op = "needSongs" => \A a \in Asked(p, t) : Legal(a, q)
  BY <1>2, AskingSets DEF Legal, Asked
<1>4. ASSUME NEW q \in Steps, q.op = "needSongs", NEW a \in Asked(p, t), NEW b \in State, Becomes(a, q, b)
      PROVE  b \in Asked(p, t)
  <2>1. /\ b.plan = a.plan /\ b.guser = a.guser /\ b.initial = a.initial /\ b.quick = a.quick
        /\ b.tid = a.tid /\ b.setting = a.setting /\ b.flag = a.flag /\ b.dump = a.dump
        /\ b.scanning = a.scanning /\ SameLink(a, b)
    BY <1>2, <1>4 DEF Becomes, Leaves
  <2>2. b.db = IF Songs < 1 THEN [a.db EXCEPT ![a.tid] = Skipped] ELSE a.db
    BY <1>4 DEF Becomes, Tests
  <2>3. /\ a \in State /\ a.tid = t /\ ~a.scanning /\ a.plan = p /\ Hears(a) /\ Bound(a, {})
        /\ AllOrNone(a) /\ a.db \in [Test -> Verdicts]
    BY DEF Asked, Asking, In, State
  <2>4. Blameless(b)
    <3>1. Blameless(a)
      BY <2>3 DEF Bound
    <3>2. CASE Songs < 1
      BY <2>1, <2>2, <2>3, <3>1, <3>2, ServerAssumption DEF Skipped, Failed, Blameless
    <3>3. CASE ~(Songs < 1)
      BY <2>1, <2>2, <3>1, <3>3 DEF Blameless
    <3> QED
      BY <3>2, <3>3
  <2>5. Hears(b) /\ Bound(b, {}) /\ AllOrNone(b)
    BY <2>1, <2>3, <2>4 DEF Hears, Bound, AllOrNone, SameLink
  <2> QED
    BY <2>1, <2>3, <2>5 DEF Asked, Asking, In
<1>5. Asked(p, t) \in SUBSET Calm(p) /\ \A a \in Asked(p, t), b \in State : ~Scanned(a, "needSongs", b)
  BY AskingSets, CalmScanned
<1>6. Leads(Asked(p, t), Step("needSongs", x, 0), Asked(p, t))
  BY <1>1, <1>2, <1>3, <1>4, <1>5, CalmPlain
<1> QED
  BY <1>6 DEF Plain, x

LEMMA NeedGroupsLeads ==
  ASSUME NEW p \in Plans, NEW t \in NeedsDB
  PROVE  Leads(Asked(p, t), Plain("needGroups"), Asked(p, t))
<1> DEFINE x == <<0, "">>
           F == {a \in Asking(p, t) : a.flag}
<1>1. x \in Subject /\ 0 \in Int
  BY PlainSubject
<1> HIDE DEF x
<1>2. /\ "needGroups" \in AnyOps /\ "needGroups" \in BranchOps /\ "needGroups" \notin OwnOps
      /\ "needGroups" \notin LinkOps \cup SetOps \cup TestingOps
      /\ "needGroups" \notin {"new", "wait", "fetch", "canConnect", "needSongs", "wipecache", "rescan"}
      /\ "needGroups" \notin {"canPlayers", "check", "atMost", "notZero", "checkMix", "ifSecure",
                          "judge", "scanning", "note", "compare", "count", "dump", "needSongs"}
  BY DEF AnyOps, ScriptOps, OtherOps, BranchOps, OwnOps, SetOps, LinkOps, TestingOps, JudgeOps
<1>3. \A q \in Steps : q.op = "needGroups" => \A a \in Asked(p, t) : Legal(a, q)
  BY <1>2, AskingSets DEF Legal, Asked
<1>4. Leads(F, Regroup(1), Asked(p, t))
  <2>1. Leads(F, Regroup(1), {a \in Grouped(p, t, 1) : ~a.scanning})
    BY RegroupLeads
  <2>2. {a \in Grouped(p, t, 1) : ~a.scanning} \subseteq Asked(p, t)
    BY DEF Grouped, Asked
  <2> HIDE DEF F
  <2> QED
    BY <2>1, <2>2, LeadsFrom
<1>5. ASSUME NEW q \in Steps, q.op = "needGroups", NEW a \in Asked(p, t), NEW b \in State,
             Becomes(a, q, b), NEW w, Puts(a, q, w)
      PROVE  \E O : b \in O /\ Leads(O, w, Asked(p, t))
  <2>1. /\ b.plan = a.plan /\ b.guser = a.guser /\ b.initial = a.initial /\ b.quick = a.quick
        /\ b.tid = a.tid /\ b.setting = a.setting /\ b.db = a.db /\ b.dump = a.dump
        /\ b.scanning = a.scanning /\ SameLink(a, b)
    BY <1>2, <1>5 DEF Becomes, Leaves
  <2>2. /\ b.flag = (a.flag \/ Num(a.setting[groupdiscs]) = 0)
        /\ w = IF Num(a.setting[groupdiscs]) = 0 THEN Regroup(1) ELSE <<>>
    BY <1>2, <1>5 DEF Becomes, Tests, Puts
  <2>3. /\ a \in State /\ a.tid = t /\ ~a.scanning /\ a.plan = p /\ Hears(a) /\ Bound(a, {})
        /\ AllOrNone(a)
    BY DEF Asked, Asking, In
  <2>4. a.initial[groupdiscs] \in {0, 1} /\ a.initial[groupdiscs] # Undef
    BY <2>3, Preferences, BroughtIs DEF State, FirstSettings
  <2>5. /\ b.flag => b.initial[groupdiscs] = 0
        /\ ~b.flag => b.setting[groupdiscs] = b.initial[groupdiscs]
    BY <2>1, <2>2, <2>3, <2>4 DEF Bound, Num
  <2>6. Hears(b) /\ Bound(b, {}) /\ AllOrNone(b)
    BY <2>1, <2>3, <2>5 DEF Hears, Bound, AllOrNone, SameLink, Blameless
  <2>7. b \in Asked(p, t)
    BY <2>1, <2>3, <2>6 DEF Asked, Asking, In
  <2>8. CASE Num(a.setting[groupdiscs]) = 0
    BY <1>4, <2>2, <2>7, <2>8 DEF Asked
  <2>9. CASE Num(a.setting[groupdiscs]) # 0
    BY <2>2, <2>7, <2>9, LeadsNone
  <2> QED
    BY <2>8, <2>9
<1>6. Asked(p, t) \in SUBSET Calm(p) /\ \A a \in Asked(p, t), b \in State : ~Scanned(a, "needGroups", b)
  BY AskingSets, CalmScanned
<1>7. Leads(Asked(p, t), Step("needGroups", x, 0), Asked(p, t))
  BY <1>1, <1>2, <1>3, <1>5, <1>6, CalmRule
<1> QED
  BY <1>7 DEF Plain, x

LEMMA CanDBLeads ==
  ASSUME NEW p \in Plans, NEW t \in NeedsDB
  PROVE  Leads(Ready(p, t), Plain("canDB"), {a \in Ready(p, t) : Starts(a) => ~a.scanning})
<1> DEFINE x == <<0, "">>
           Q == {a \in Ready(p, t) : Starts(a) => ~a.scanning}
           w0 == WaitDone \o Plain("needSongs") \o Plain("needGroups")
<1>1. x \in Subject /\ 0 \in Int
  BY PlainSubject
<1> HIDE DEF x
<1>2. "canDB" \in AnyOps /\ "canDB" \in BranchOps
  BY DEF AnyOps, TestOps, BranchOps
<1>3. Leads(Asking(p, t), w0, Q)
  <2>1. Leads(Asking(p, t), w0, Asked(p, t))
    BY AskingLeads, NeedSongsLeads, NeedGroupsLeads, LeadsJoin
  <2>2. Asked(p, t) \subseteq Q
    BY AskingSets DEF Asked
  <2> HIDE DEF Q, w0
  <2> QED
    BY <2>1, <2>2, LeadsFrom
<1>4. ASSUME NEW q \in Steps, q.op = "canDB", NEW a \in Ready(p, t), NEW b \in State,
             Becomes(a, q, b), NEW w, Puts(a, q, w)
      PROVE  \E O : b \in O /\ Leads(O, w, Q)
  <2>1. Alike(a, b)
    BY <1>4, PlainAlike
  <2>2. b \in Ready(p, t) /\ Starts(b) = Starts(a)
    BY <2>1, AlikeStays
  <2>3. w = IF Starts(a) THEN w0 ELSE <<>>
    BY <1>2, <1>4 DEF Puts
  <2>4. CASE Starts(a)
    BY <1>3, <2>2, <2>3, <2>4, AskingSets
  <2>5. CASE ~Starts(a)
    BY <2>2, <2>3, <2>5, LeadsNone
  <2> QED
    BY <2>4, <2>5
<1>5. \A q \in Steps : q.op = "canDB" => \A a : Legal(a, q)
  BY CalmLegal
<1>6. Ready(p, t) \in SUBSET Calm(p)
  BY AskingSets
<1> HIDE DEF Q
<1>7. Leads(Ready(p, t), Step("canDB", x, 0), Q)
  BY <1>1, <1>2, <1>4, <1>5, <1>6, CalmScanned, CalmRule
<1> QED
  BY <1>7 DEF Plain, x, Q

\* test_canRun: a test that is run starts with what it needs.
LEMMA ScriptLeads ==
  ASSUME NEW p \in Plans, NEW t \in Test, \E k \in DOMAIN p : p[k] = t, NEW n \in {0, Players}
  PROVE  Leads({a \in Asking(p, t) : t \in NeedsDB => ~a.scanning}, Script(t, n), Calm(p))
<1> DEFINE P == {a \in Asking(p, t) : t \in NeedsDB => ~a.scanning}
<1>1. n \in 0 .. Players
  BY ServerAssumption
<1>2. In(p, {}) \subseteq Calm(p) /\ P \subseteq In(p, {})
  BY InCalm DEF Asking
<1>3. (t \in {"titles", "songinfo"} => P \subseteq Still(p)) /\ P \subseteq {a \in In(p, {}) : a.tid = t}
  BY DEF Asking, Still, NeedsDB
<1> HIDE DEF P
<1>4. ASSUME t = "connect" PROVE Leads(P, Script(t, n), Calm(p))
  BY <1>2, <1>3, <1>4, ConnectLeads, LeadsFrom DEF Script
<1>5. ASSUME t = "general" PROVE Leads(P, Script(t, n), Calm(p))
  BY <1>2, <1>5, GeneralLeads, LeadsFrom DEF Script
<1>6. ASSUME t = "sleep" PROVE Leads(P, Script(t, n), Calm(p))
  BY <1>1, <1>2, <1>6, SleepLeads, LeadsFrom DEF Script
<1>7. ASSUME t = "power" PROVE Leads(P, Script(t, n), Calm(p))
  BY <1>1, <1>2, <1>7, PowerLeads, LeadsFrom DEF Script
<1>8. ASSUME t = "mixer" PROVE Leads(P, Script(t, n), Calm(p))
  BY <1>1, <1>2, <1>8, PlayersMixerLeads, LeadsFrom DEF Script, MixerTested
<1>9. ASSUME t = "display" PROVE Leads(P, Script(t, n), Calm(p))
  BY <1>1, <1>2, <1>9, DisplayLeads, LeadsFrom DEF Script
<1>10. ASSUME t = "rescan" PROVE Leads(P, Script(t, n), Calm(p))
  BY <1>1, <1>2, <1>3, <1>10, RescanLeads, LeadsFrom DEF Script
<1>11. ASSUME t = "titles" PROVE Leads(P, Script(t, n), Calm(p))
  BY <1>2, <1>3, <1>11, TitlesLeads, LeadsFrom DEF Script
<1>12. ASSUME t = "songinfo" PROVE Leads(P, Script(t, n), Calm(p))
  BY <1>2, <1>3, <1>12, SonginfoLeads, LeadsFrom DEF Script
<1>13. Leads(P, Script(t, n), Calm(p))
  BY <1>4, <1>5, <1>6, <1>7, <1>8, <1>9, <1>10, <1>11, <1>12 DEF Test
<1> QED
  BY <1>13 DEF P

LEMMA RunLeads ==
  ASSUME NEW p \in Plans, NEW t \in Test, \E k \in DOMAIN p : p[k] = t
  PROVE  Leads({a \in Ready(p, t) : t \in NeedsDB /\ Starts(a) => ~a.scanning}, Plain("run"), Calm(p))
<1> DEFINE x == <<0, "">>
           P == {a \in Ready(p, t) : t \in NeedsDB /\ Starts(a) => ~a.scanning}
           R == {a \in Asking(p, t) : t \in NeedsDB => ~a.scanning}
<1>1. x \in Subject /\ 0 \in Int
  BY PlainSubject
<1> HIDE DEF x
<1>2. "run" \in AnyOps /\ "run" \in BranchOps
  BY DEF AnyOps, TestOps, BranchOps
<1>3. \A n \in {0, Players} : Leads(R, Script(t, n), Calm(p))
  BY ScriptLeads
<1>4. ASSUME NEW q \in Steps, q.op = "run", NEW a \in P, NEW b \in State,
             Becomes(a, q, b), NEW w, Puts(a, q, w)
      PROVE  \E O : b \in O /\ Leads(O, w, Calm(p))
  <2>1. Alike(a, b) /\ b.scanning = a.scanning
    BY <1>4, PlainAlike
  <2>2. b \in Ready(p, t) /\ Starts(b) = Starts(a) /\ b \in Calm(p)
    BY <2>1, AlikeStays, AskingSets
  <2>3. w = IF Starts(a) THEN Script(a.tid, a.gplayers) ELSE <<>>
    BY <1>2, <1>4 DEF Puts
  <2>4. a.tid = t /\ a.gplayers \in {0, Players}
    BY CalmFine DEF Ready, Calm, State
  <2>5. CASE Starts(a)
    <3>1. b \in Asking(p, t)
      BY <2>2, <2>5, AskingSets
    <3>2. b \in R
      BY <2>1, <2>5, <3>1
    <3>3. w = Script(t, a.gplayers)
      BY <2>3, <2>4, <2>5
    <3> HIDE DEF R
    <3> QED
      BY <1>3, <2>4, <3>2, <3>3
  <2>6. CASE ~Starts(a)
    BY <2>2, <2>3, <2>6, LeadsNone
  <2> QED
    BY <2>5, <2>6
<1>5. \A q \in Steps : q.op = "run" => \A a : Legal(a, q)
  BY CalmLegal
<1>6. P \in SUBSET Calm(p)
  BY AskingSets
<1>7. \A a \in P, b \in State : Scanned(a, "run", b) => b \in P
  <2>1. \A a \in P, b \in State : Scanned(a, "run", b) => b \in Ready(p, t) /\ ~b.scanning
    BY CalmScanned DEF Scanned
  <2> QED
    BY <2>1
<1> HIDE DEF P
<1>8. Leads(P, Step("run", x, 0), Calm(p))
  BY <1>1, <1>2, <1>4, <1>5, <1>6, <1>7, CalmRule
<1> QED
  BY <1>8 DEF Plain, x, P

\* From one test to the next.
LEMMA TestLeads ==
  ASSUME NEW p \in Plans, NEW t \in Test, \E k \in DOMAIN p : p[k] = t
  PROVE  Leads(Calm(p), TestSteps(t), Calm(p))
<1> DEFINE C == {a \in Calm(p) : a.tid = t}
           P == {a \in Ready(p, t) : t \in NeedsDB /\ Starts(a) => ~a.scanning}
           players == IF t \in NeedsPlayers THEN Plain("canPlayers") ELSE <<>>
           db == IF t \in NeedsDB THEN Plain("canDB") ELSE <<>>
<1>1. Leads(Calm(p), Step("new", <<0, t>>, 0), C) /\ Leads(C, Plain("canConnect"), Ready(p, t))
  BY NewLeads, CanConnectLeads
<1>2. Leads(Ready(p, t), players, Ready(p, t))
  BY CanPlayersLeads, LeadsNone
<1>3. Leads(Ready(p, t), db, P)
  <2>1. CASE t \in NeedsDB
    <3>1. P = {a \in Ready(p, t) : Starts(a) => ~a.scanning} /\ db = Plain("canDB")
      BY <2>1
    <3> HIDE DEF P, db
    <3> QED
      BY <2>1, <3>1, CanDBLeads
  <2>2. CASE t \notin NeedsDB
    <3>1. P = Ready(p, t) /\ db = <<>>
      BY <2>2
    <3> HIDE DEF P, db
    <3> QED
      BY <3>1, LeadsNone
  <2> QED
    BY <2>1, <2>2
<1>4. Leads(P, Plain("run"), Calm(p))
  BY RunLeads
<1> HIDE DEF C, P, players, db
<1>5. Leads(Calm(p), Step("new", <<0, t>>, 0) \o Plain("canConnect") \o players \o db \o Plain("run"),
            Calm(p))
  BY <1>1, <1>2, <1>3, <1>4, LeadsJoin
<1> QED
  BY <1>5 DEF TestSteps, players, db

\* All is as it was found.
Put(p)  == {a \in Calm(p) : a.setting[groupdiscs] = a.initial[groupdiscs]}
Over(p) == {a \in State : /\ a.plan = p /\ Bound(a, {})
                          /\ a.setting[groupdiscs] = a.initial[groupdiscs]}

LEMMA RestoreFlagsLeads ==
  ASSUME NEW p \in Plans PROVE Leads(Calm(p), Plain("restoreFlags"), Put(p))
<1> DEFINE x == <<0, "">>
<1>1. x \in Subject /\ 0 \in Int
  BY PlainSubject
<1> HIDE DEF x
<1>2. "restoreFlags" \in AnyOps /\ "restoreFlags" \in BranchOps
  BY DEF AnyOps, LastOps, BranchOps
<1>3. ASSUME NEW t PROVE Leads({a \in Asking(p, t) : a.flag}, Regroup(0), Put(p))
  <2>1. Leads({a \in Asking(p, t) : a.flag}, Regroup(0), {a \in Grouped(p, t, 0) : ~a.scanning})
    BY RegroupLeads
  <2>2. ASSUME NEW a \in Grouped(p, t, 0) PROVE a \in Put(p)
    BY AskingSets DEF Grouped, Asking, In, Bound, Put
  <2>3. {a \in Grouped(p, t, 0) : ~a.scanning} \subseteq Put(p)
    BY <2>2
  <2> QED
    BY <2>1, <2>3, LeadsFrom
<1>4. ASSUME NEW q \in Steps, q.op = "restoreFlags", NEW a \in Calm(p), NEW b \in State,
             Becomes(a, q, b), NEW w, Puts(a, q, w)
      PROVE  \E O : b \in O /\ Leads(O, w, Put(p))
  <2>1. Alike(a, b)
    BY <1>4, PlainAlike
  <2>2. b \in Calm(p) /\ b.flag = a.flag
    BY <2>1, AlikeStays DEF Alike
  <2>3. w = IF a.flag THEN Regroup(0) ELSE <<>>
    BY <1>2, <1>4 DEF Puts
  <2>4. CASE a.flag
    BY <1>3, <2>2, <2>3, <2>4 DEF Calm, Asking, In
  <2>5. CASE ~a.flag
    BY <2>2, <2>3, <2>5, LeadsNone DEF Put, Calm, Bound
  <2> QED
    BY <2>4, <2>5
<1>5. \A q \in Steps : q.op = "restoreFlags" => \A a : Legal(a, q)
  BY CalmLegal
<1>6. Leads(Calm(p), Step("restoreFlags", x, 0), Put(p))
  BY <1>1, <1>2, <1>4, <1>5, CalmScanned, CalmRule
<1> QED
  BY <1>6 DEF Plain, x

LEMMA EndLeads ==
  ASSUME NEW p \in Plans
  PROVE  Leads(Calm(p), Plain("report"), Calm(p)) /\ Leads(Put(p), Plain("disconnect"), Over(p))
<1> DEFINE x == <<0, "">>
<1>1. x \in Subject /\ 0 \in Int
  BY PlainSubject
<1> HIDE DEF x
<1>2. /\ "report" \in AnyOps /\ "report" \notin BranchOps
      /\ "disconnect" \in AnyOps /\ "disconnect" \notin BranchOps
      /\ "disconnect" \notin SetOps \cup TestingOps
      /\ "disconnect" \notin {"new", "wait", "needGroups", "canConnect", "needSongs"}
  BY DEF AnyOps, LastOps, OtherOps, ScriptOps, BranchOps, SetOps, TestingOps, JudgeOps
<1>3. \A q \in Steps : q.op \in {"report", "disconnect"} => \A a : Legal(a, q)
  BY CalmLegal
<1>4. ASSUME NEW q \in Steps, q.op = "report", NEW a \in Calm(p), NEW b \in State, Becomes(a, q, b)
      PROVE  b \in Calm(p)
  BY <1>4, PlainAlike, AlikeStays
<1>5. Leads(Calm(p), Step("report", x, 0), Calm(p))
  BY <1>1, <1>2, <1>3, <1>4, CalmScanned, CalmPlain
<1>6. ASSUME NEW q \in Steps, q.op = "disconnect", NEW a \in Put(p), NEW b \in State, Becomes(a, q, b)
      PROVE  b \in Over(p)
  BY <1>2, <1>6 DEF Becomes, Leaves, Links, Hung, Put, Calm, Bound, Blameless, Over
<1>7. Put(p) \in SUBSET Calm(p) /\ \A a \in Put(p), b \in State : Scanned(a, "disconnect", b) => b \in Put(p)
  BY CalmScanned DEF Put, Scanned
<1>8. Leads(Put(p), Step("disconnect", x, 0), Over(p))
  BY <1>1, <1>2, <1>3, <1>6, <1>7, CalmPlain
<1> QED
  BY <1>5, <1>8 DEF Plain, x

\* Nothing goes wrong when the program has ended.
LEMMA OverSure == ASSUME NEW p \in Plans, NEW a \in Over(p) PROVE <<a, <<>>>> \in Sure
<1> DEFINE none == <<>>
           G == {<<b, none>> : b \in Over(p)}
<1>1. none \in Program /\ Over(p) \in SUBSET State
  BY DEF Program, Over
<1>2. ASSUME NEW b \in Over(p) PROVE Fine(b) /\ Ended(b)
  BY Preferences DEF Over, Bound, Fine, Ended
<1>3. ASSUME NEW b \in Over(p), NEW c \in State, Scanned(b, "", c) PROVE c \in Over(p)
  <2>1. Alike(b, c)
    BY <1>3, ScannedAlike
  <2> QED
    BY <2>1 DEF Over, Alike, Bound, Blameless, SameLink
<1>4. G \in SUBSET Config
  BY <1>1 DEF Config
<1>5. \A b, w : <<b, w>> \in G => b \in Over(p) /\ w = none
  OBVIOUS
<1>6. \A b \in Over(p) : <<b, none>> \in G
  OBVIOUS
<1> HIDE DEF G
<1>7. Lasting(G)
  <2> SUFFICES ASSUME NEW b \in State, NEW w \in Program, <<b, w>> \in G
               PROVE  /\ Fine(b)
                      /\ w = <<>> => Ended(b)
                      /\ w # <<>> =>
                           /\ Legal(b, Head(w))
                           /\ \A c \in State : \A u : Becomes(b, Head(w), c) /\ Puts(b, Head(w), u) =>
                                                        <<c, u \o Tail(w)>> \in G
                           /\ \A c \in State : Scanned(b, Head(w).op, c) => <<c, w>> \in G
                      /\ w = <<>> => \A c \in State : Scanned(b, "", c) => <<c, w>> \in G
    BY DEF Lasting
  <2>1. b \in Over(p) /\ w = none
    BY <1>5
  <2>2. \A c \in State : Scanned(b, "", c) => <<c, w>> \in G
    BY <1>3, <1>6, <2>1
  <2> QED
    BY <1>2, <2>1, <2>2
<1>8. <<a, none>> \in G
  BY <1>6
<1> QED
  BY <1>4, <1>7, <1>8 DEF Sure, none

\* The main program, from a server that is as it was.
LEMMA MainSure == ASSUME NEW p \in Plans, NEW a \in Calm(p) PROVE <<a, main(p)>> \in Sure
<1> DEFINE ss == [k \in 1 .. Len(p) |-> TestSteps(p[k])]
           w == FlattenSeq(ss)
<1>1. p \in Seq(Test) /\ DOMAIN p = 1 .. Len(p) /\ Len(p) \in Nat
  BY PlanAssumption
<1>2. Leads(Calm(p), w, Calm(p))
  <2>1. ss = [k \in 1 .. Len(p) |-> ss[k]]
    OBVIOUS
  <2>2. \A k \in 1 .. Len(p) : Leads(Calm(p), ss[k], Calm(p))
    BY <1>1, TestLeads
  <2> HIDE DEF ss
  <2> QED
    BY <1>1, <2>1, <2>2, StayLeads
<1>3. main(p) = w \o Plain("report") \o Plain("restoreFlags") \o Plain("disconnect")
  BY <1>1 DEF main
<1> HIDE DEF w
<1>4. Leads(Calm(p), main(p), Over(p))
  BY <1>2, <1>3, RestoreFlagsLeads, EndLeads, LeadsJoin
<1>5. main(p) \in Program /\ <<>> \in Program /\ main(p) \o <<>> = main(p)
  BY <1>4, ConcatEmptySeq DEF Leads, Program
<1>6. \A b \in Over(p) : <<b, <<>>>> \in Sure
  BY OverSure
<1> HIDE DEF Sure
<1>7. <<a, main(p) \o <<>>>> \in Sure
  BY <1>4, <1>5, <1>6 DEF Leads
<1> QED
  BY <1>5, <1>7

-----------------------------------------------------------------------------
(* What the program's steps do, when no connection is lost, is what the    *)
(* relation between two states says.                                       *)

LEMMA HereIs ==
  /\ here.plan = plan /\ here.guser = guser /\ here.initial = initial /\ here.tid = tid
  /\ here.db = gtest_db /\ here.gplayers = gplayers /\ here.flag = gRestoreGroupDisc
  /\ here.setting = setting /\ here.memo = memo /\ here.value = value
  /\ here.answer = answer /\ here.total = total /\ here.dump = dump
  /\ here.gcli = gcli /\ here.gsocket = gsocket /\ here.link = link /\ here.logged = logged
  /\ here.scanning = scanning /\ here.quick = quick
BY DEF here

LEMMA ThereIs ==
  /\ here'.plan = plan' /\ here'.guser = guser' /\ here'.initial = initial' /\ here'.tid = tid'
  /\ here'.db = gtest_db' /\ here'.gplayers = gplayers' /\ here'.flag = gRestoreGroupDisc'
  /\ here'.setting = setting' /\ here'.memo = memo' /\ here'.value = value'
  /\ here'.answer = answer' /\ here'.total = total' /\ here'.dump = dump'
  /\ here'.gcli = gcli' /\ here'.gsocket = gsocket' /\ here'.link = link' /\ here'.logged = logged'
  /\ here'.scanning = scanning' /\ here'.quick = quick'
BY DEF here

\* A step that is taken, and the steps it has put.
Puts1 == \E w : Puts(here, now, w) /\ todo' = w \o Tail(todo)
Moves == Becomes(here, now, here') /\ Puts1
\* The values that are not typed so far.
Typed == /\ setting \in [Setting -> Int] /\ memo \in [Setting -> Int] /\ answer \in Int
         /\ total \in [songs : Int, playlists : Int] /\ dump.blank = 0 /\ initial \in FirstSettings

LEMMA HereTyped == here \in State => Typed
BY HereIs DEF State, Typed

LEMMA HereState == ASSUME CliInv, Typed PROVE here \in State
<1>1. /\ plan \in Plans /\ guser \in BOOLEAN /\ tid \in Test \cup {""}
      /\ gtest_db \in [Test -> Verdicts] /\ gplayers \in {0, Players}
      /\ gRestoreGroupDisc \in BOOLEAN /\ value \in 0 .. MixMax
      /\ scanning \in BOOLEAN /\ quick \in BOOLEAN
      /\ gcli \in BOOLEAN /\ gsocket \in BOOLEAN /\ link \in BOOLEAN /\ logged \in BOOLEAN
  BY DEF CliInv, Values0, Linked
<1>2. dump \in [found : 0 .. Songs, blank : {0}]
  BY DEF CliInv, Values0, Typed
<1>3. /\ setting \in [Setting -> Int] /\ memo \in [Setting -> Int] /\ answer \in Int
      /\ total \in [songs : Int, playlists : Int] /\ initial \in FirstSettings
  BY DEF Typed
<1> DEFINE Totals0 == [songs : Int, playlists : Int]
           Dumps0 == [found : 0 .. Songs, blank : {0}]
           Settings0 == [Setting -> Int]
           Tests0 == Test \cup {""}
           Judgements0 == [Test -> Verdicts]
           Numbers0 == {0, Players}
           Mixed0 == 0 .. MixMax
<1>4. State = [plan : Plans, guser : BOOLEAN, initial : FirstSettings, tid : Tests0,
               db : Judgements0, gplayers : Numbers0, flag : BOOLEAN,
               setting : Settings0, memo : Settings0, value : Mixed0,
               answer : Int, total : Totals0, dump : Dumps0,
               gcli : BOOLEAN, gsocket : BOOLEAN, link : BOOLEAN, logged : BOOLEAN,
               scanning : BOOLEAN, quick : BOOLEAN]
  BY DEF State
<1>5. /\ total \in Totals0 /\ dump \in Dumps0 /\ setting \in Settings0 /\ memo \in Settings0
      /\ tid \in Tests0 /\ gtest_db \in Judgements0 /\ gplayers \in Numbers0 /\ value \in Mixed0
  BY <1>1, <1>2, <1>3
<1> HIDE DEF Totals0, Dumps0, Settings0, Tests0, Judgements0, Numbers0, Mixed0
<1> QED
  BY <1>1, <1>3, <1>4, <1>5, ZenonT(60) DEF here

\* On a connection, and with none lost, an exchange is answered.
LEMMA Exchange ==
  ASSUME drops = 0, drops' = 0
  PROVE  /\ Hears(here) = Heard
         /\ Answered => SameLink(here, here')
         /\ Hears(here) => ~Unanswered
         /\ Unanswered => ~Heard
<1>1. Hears(here) = Heard
  BY HereIs DEF Hears, Heard, Sent
<1>2. Answered => SameLink(here, here')
  BY HereIs, ThereIs DEF Answered, linkVars, SameLink
<1>3. Unanswered => ~Heard
  BY DEF Unanswered
<1> QED
  BY <1>1, <1>2, <1>3

LEMMA GoOnPuts ==
  ASSUME CliInv, todo # <<>>, GoOn, now.op \notin BranchOps PROVE Puts1
<1>1. todo' = <<>> \o Tail(todo)
  BY GoingOn DEF Go
<1>2. Puts(here, now, <<>>)
  BY DEF Puts, BranchOps
<1> QED
  BY <1>1, <1>2 DEF Puts1

\* Verdicts.
LEMMA JudgementKept == ASSUME UNCHANGED gtest_db PROVE Judgement(here, here')
BY HereIs, ThereIs DEF Judgement

LEMMA GoodJudgement ==
  ASSUME here \in State,
         \/ \E good : good /\ Expect(good)
         \/ SubTest(Success) \/ SubTest(Skipped)
         \/ tid = "rescan" /\ quick /\ \E good : Expect(good)
  PROVE  Judgement(here, here')
<1>1. gtest_db \in [Test -> Verdicts]
  BY HereIs DEF State
<1>2. PICK result \in {Success, Skipped, Failed} :
        SubTest(result) /\ (result = Failed => tid = "rescan" /\ quick)
  BY DEF Expect, Success, Skipped, Failed
<1>3. \A t \in Test : t # tid => gtest_db'[t] = gtest_db[t]
  BY <1>1, <1>2 DEF SubTest
<1>4. tid \in Test =>
        /\ gtest_db'[tid] = Skipped => gtest_db[tid] = Skipped
        /\ gtest_db'[tid] = Failed  => gtest_db[tid] = Failed \/ (tid = "rescan" /\ quick)
  BY <1>1, <1>2 DEF SubTest, Start, Skipped, Success, Partial, Failed, Verdicts, Judged, None
<1> QED
  BY <1>3, <1>4, HereIs, ThereIs DEF Judgement

\* Steps that change no more than a verdict.
ChangeOps == SetOps \cup MixOps \cup LinkOps
               \cup {"wait", "save", "souvenir", "note", "compare", "fetch", "needGroups",
                     "wipecache", "rescan", "new", "needSongs", "canPlayers"}

LEMMA StillMoves ==
  ASSUME here \in State, now.op \notin ChangeOps, now.op = "waitDone" => ~scanning,
         UNCHANGED <<plan, tid, guser, gplayers, gRestoreGroupDisc, value, dump, memo, total,
                     answer, gsocket, gcli, link, logged, setting, initial, scanning, quick>>,
         UNCHANGED gtest_db \/ (now.op \in TestingOps /\ Judgement(here, here'))
  PROVE  Becomes(here, now, here') /\ Typed'
<1>1. Typed'
  BY HereTyped DEF Typed
<1>2. Judgement(here, here')
  BY JudgementKept
<1>3. Leaves(here, now, here')
  BY <1>2, HereIs, ThereIs DEF Leaves, SameLink
<1>4. Sets(here, now, here') /\ Notes(here, now, here') /\ Links(here, now, here')
      /\ Tests(here, now, here')
  BY HereIs DEF ChangeOps, SetOps, MixOps, LinkOps, Sets, Notes, Links, Tests
<1> QED
  BY <1>1, <1>3, <1>4 DEF Becomes

\* The steps of the main program and of testConnectDisconnect.
LEMMA AtIs ==
  ASSUME NEW op
  PROVE  (At(op) <=> todo # <<>> /\ now.op = op) /\ \A ops : AtAny(ops) <=> todo # <<>> /\ now.op \in ops
BY DEF At, AtAny

LEMMA NewMoves ==
  ASSUME CliInv, here \in State, New PROVE Moves /\ Typed'
<1>1. /\ todo # <<>> /\ now.op = "new" /\ GoOn
      /\ tid' = now.x[2] /\ gtest_db' = [gtest_db EXCEPT ![now.x[2]] = Start]
      /\ UNCHANGED <<plan, guser, gplayers, gRestoreGroupDisc, value, dump, memo, total,
                     answer, gsocket, gcli, link, logged, setting, initial, scanning, quick>>
  BY AtIs DEF New, noteVars, linkVars, serverVars
<1>2. "new" \notin BranchOps \cup SetOps \cup MixOps \cup LinkOps \cup TestingOps
  BY DEF BranchOps, SetOps, MixOps, LinkOps, TestingOps, JudgeOps
<1>3. Typed'
  BY <1>1, HereTyped DEF Typed
<1>4. Leaves(here, now, here')
  BY <1>1, <1>2, HereIs, ThereIs DEF Leaves, SameLink
<1>5. Sets(here, now, here') /\ Notes(here, now, here') /\ Links(here, now, here')
  BY <1>1 DEF Sets, Notes, Links
<1>6. Tests(here, now, here')
  BY <1>1, HereIs, ThereIs DEF Tests
<1> QED
  BY <1>1, <1>2, <1>3, <1>4, <1>5, <1>6, GoOnPuts DEF Moves, Becomes

\* cliConnect, with no connection lost or refused that should not be.
LEMMA ConnectsHere ==
  ASSUME drops = 0, drops' = 0, NEW how, cliConnect(how), here \in State, UNCHANGED <<setting, guser>>
  PROVE  Connects(here, how, here')
<1>1. CASE gcli
  BY <1>1, HereIs, ThereIs DEF cliConnect, linkVars, Connects, SameLink
<1>2. CASE ~gcli /\ Accepts(how)
  BY <1>2, HereIs, ThereIs DEF cliConnect, Accepts, Connects
<1>3. CASE ~gcli /\ ~Accepts(how)
  BY <1>3, HereIs, ThereIs DEF cliConnect, Hangup, Accepts, Connects, Hung
<1> QED
  BY <1>1, <1>2, <1>3

LEMMA CanConnectMoves ==
  ASSUME CliInv, here \in State, drops = 0, drops' = 0, CanConnect PROVE Moves /\ Typed'
<1>1. /\ todo # <<>> /\ now.op = "canConnect" /\ GoOn /\ cliConnect("login")
      /\ gtest_db' = IF gcli' THEN gtest_db ELSE [gtest_db EXCEPT ![tid] = Skipped]
      /\ UNCHANGED <<plan, tid, guser, gplayers, gRestoreGroupDisc, value, dump, memo, total,
                     answer, setting, initial, scanning, quick>>
  BY AtIs DEF CanConnect, NoSubTest, Cannot, noteVars, clientVars, serverVars
<1>2. "canConnect" \notin BranchOps \cup SetOps \cup MixOps \cup TestingOps /\ "canConnect" \in LinkOps
  BY DEF BranchOps, SetOps, MixOps, LinkOps, TestingOps, JudgeOps
<1>3. Typed'
  BY <1>1, HereTyped DEF Typed
<1>4. Leaves(here, now, here')
  BY <1>1, <1>2, HereIs, ThereIs DEF Leaves
<1>5. Sets(here, now, here') /\ Notes(here, now, here')
  BY <1>1 DEF Sets, Notes
<1>6. Tests(here, now, here')
  BY <1>1, HereIs, ThereIs DEF Tests
<1>7. Links(here, now, here')
  BY <1>1, ConnectsHere DEF Links
<1> QED
  BY <1>1, <1>2, <1>3, <1>4, <1>5, <1>6, <1>7, GoOnPuts DEF Moves, Becomes

LEMMA ConnectMoves ==
  ASSUME CliInv, here \in State, drops = 0, drops' = 0, ConnectStep PROVE Moves /\ Typed'
<1>1. /\ todo # <<>> /\ now.op = "connect" /\ GoOn /\ cliConnect(now.x[2])
      /\ answer' = IF gcli' THEN 1 ELSE 0
      /\ UNCHANGED <<gtest_db, plan, tid, guser, gplayers, gRestoreGroupDisc, value, dump, memo, total,
                     setting, initial, scanning, quick>>
  BY AtIs DEF ConnectStep, clientVars, serverVars
<1>2. "connect" \notin BranchOps \cup SetOps \cup MixOps \cup TestingOps /\ "connect" \in LinkOps
  BY DEF BranchOps, SetOps, MixOps, LinkOps, TestingOps, JudgeOps
<1>3. Typed'
  BY <1>1, HereTyped DEF Typed
<1>4. Leaves(here, now, here')
  BY <1>1, <1>2, HereIs, ThereIs DEF Leaves
<1>5. Sets(here, now, here') /\ Notes(here, now, here') /\ Tests(here, now, here')
  BY <1>1 DEF Sets, Notes, Tests
<1>6. Links(here, now, here')
  BY <1>1, ConnectsHere, HereIs, ThereIs DEF Links
<1> QED
  BY <1>1, <1>2, <1>3, <1>4, <1>5, <1>6, GoOnPuts DEF Moves, Becomes

LEMMA DisconnectMoves ==
  ASSUME CliInv, here \in State, Disconnect \/ Forget PROVE Moves /\ Typed'
<1>1. /\ todo # <<>> /\ GoOn /\ gcli' = FALSE
      /\ \/ now.op = "disconnect" /\ gsocket' = FALSE /\ link' = FALSE /\ logged' = FALSE
         \/ now.op = "forget" /\ UNCHANGED <<gsocket, link, logged>>
      /\ UNCHANGED <<gtest_db, plan, tid, guser, gplayers, gRestoreGroupDisc, value, dump, memo, total,
                     answer, setting, initial, scanning, quick>>
  BY AtIs DEF Disconnect, Forget, Hangup, clientVars, noteVars, serverVars
<1>2. \A op \in {"disconnect", "forget"} :
        op \notin BranchOps \cup SetOps \cup MixOps \cup TestingOps /\ op \in LinkOps
  BY DEF BranchOps, SetOps, MixOps, LinkOps, TestingOps, JudgeOps
<1>3. Typed'
  BY <1>1, HereTyped DEF Typed
<1>4. Leaves(here, now, here')
  BY <1>1, <1>2, HereIs, ThereIs DEF Leaves
<1>5. Sets(here, now, here') /\ Notes(here, now, here') /\ Tests(here, now, here')
  BY <1>1 DEF Sets, Notes, Tests
<1>6. Links(here, now, here')
  BY <1>1, HereIs, ThereIs DEF Links, Hung
<1> QED
  BY <1>1, <1>2, <1>3, <1>4, <1>5, <1>6, GoOnPuts DEF Moves, Becomes

LEMMA ExitMoves ==
  ASSUME CliInv, here \in State, drops = 0, drops' = 0, Exit PROVE Moves /\ Typed'
<1>1. /\ todo # <<>> /\ now.op = "exit" /\ GoOn
      /\ \/ /\ Heard /\ link' = FALSE /\ answer' = 1 /\ UNCHANGED <<gsocket, gcli, logged>>
         \/ Unanswered /\ answer' = 0
      /\ UNCHANGED <<gtest_db, plan, tid, guser, gplayers, gRestoreGroupDisc, value, dump, memo, total,
                     setting, initial, scanning, quick>>
  BY AtIs DEF Exit, clientVars, serverVars
<1>2. "exit" \notin BranchOps \cup SetOps \cup MixOps \cup TestingOps /\ "exit" \in LinkOps
  BY DEF BranchOps, SetOps, MixOps, LinkOps, TestingOps, JudgeOps
<1>3. Typed'
  BY <1>1, HereTyped DEF Typed
<1>4. Leaves(here, now, here')
  BY <1>1, <1>2, HereIs, ThereIs DEF Leaves
<1>5. Sets(here, now, here') /\ Notes(here, now, here') /\ Tests(here, now, here')
  BY <1>1 DEF Sets, Notes, Tests
<1>6. Links(here, now, here')
  <2>1. CASE Heard
    BY <1>1, <2>1, Exchange, HereIs, ThereIs DEF Links
  <2>2. CASE ~Heard
    BY <1>1, <2>2, Exchange, HereIs, ThereIs DEF Unanswered, Sent, Hangup, Links, Hung, SameLink
  <2> QED
    BY <2>1, <2>2
<1> QED
  BY <1>1, <1>2, <1>3, <1>4, <1>5, <1>6, GoOnPuts DEF Moves, Becomes

\* Commands.
LEMMA SetToIs == ASSUME NEW x, NEW v PROVE SetTo(x, v) = Given(here, x, v)
BY HereIs DEF SetTo, With, Given, Taken

LEMMA CommandIs ==
  ASSUME Hears(here), drops = 0, drops' = 0, NEW new, Command(new)
  PROVE  /\ setting' = new /\ SameLink(here, here')
         /\ UNCHANGED <<gtest_db, memo, total, answer, initial, scanning, quick>>
<1>1. Answered /\ setting' = new
  BY Exchange DEF Command
<1> QED
  BY <1>1, Exchange DEF Command, noteVars

LEMMA SetMoves ==
  ASSUME CliInv, here \in State, drops = 0, drops' = 0, Legal(here, now), SetStep
  PROVE  Moves /\ Typed'
<1>1. /\ todo # <<>> /\ now.op \in {"set", "toggle", "lower", "restore"} /\ GoOn
      /\ UNCHANGED <<plan, tid, guser, gplayers, gRestoreGroupDisc, value, dump>>
      /\ now.op = "set"     => Command(SetTo(now.x, now.v))
      /\ now.op = "toggle"  => Command(SetTo(now.x, 1 - setting[now.x]))
      /\ now.op = "lower"   => Command(SetTo(now.x, setting[now.x] - 1))
      /\ now.op = "restore" => Command(SetTo(now.x, Recalled(now.x)))
  BY AtIs DEF SetStep, clientVars
<1>2. /\ now.op \notin BranchOps \cup MixOps \cup LinkOps \cup TestingOps /\ now.op \in SetOps
      /\ now.op \in ExchangeOps /\ now.op \in OwnOps
      /\ now.op \notin {"wait", "save", "souvenir", "connect", "exit", "note", "compare", "fetch",
                        "canPlayers", "needGroups", "wipecache", "rescan", "new", "canConnect",
                        "needSongs", "waitDone", "disconnect", "forget"}
  BY <1>1 DEF BranchOps, MixOps, LinkOps, TestingOps, JudgeOps, SetOps, ExchangeOps, OwnOps
<1>3. now.x \in Setting /\ Hears(here) /\ now.v \in Int
  BY <1>1, <1>2, NowIs DEF Legal, CliInv, Walking
<1>4. setting[now.x] \in Int /\ Recalled(now.x) \in Int /\ Recalled(now.x) = Brought(here, now.x)
  BY <1>3, HereTyped, HereIs, BroughtIs DEF Typed, Recalled, Brought
<1>5. \E v \in Int :
        /\ Command(SetTo(now.x, v))
        /\ now.op = "set"     => v = now.v
        /\ now.op = "toggle"  => v = 1 - setting[now.x]
        /\ now.op = "lower"   => v = setting[now.x] - 1
        /\ now.op = "restore" => v = Recalled(now.x)
  BY <1>1, <1>3, <1>4
<1>6. PICK v \in Int :
        /\ Command(SetTo(now.x, v))
        /\ now.op = "set"     => v = now.v
        /\ now.op = "toggle"  => v = 1 - setting[now.x]
        /\ now.op = "lower"   => v = setting[now.x] - 1
        /\ now.op = "restore" => v = Recalled(now.x)
  BY <1>5
<1>7. /\ setting' = Given(here, now.x, v) /\ SameLink(here, here')
      /\ UNCHANGED <<gtest_db, memo, total, answer, initial, scanning, quick>>
  BY <1>3, <1>6, CommandIs, SetToIs
<1>8. setting' \in [Setting -> Int]
  BY <1>3, <1>7, GivenIs
<1>9. Typed'
  BY <1>1, <1>7, <1>8, HereTyped DEF Typed
<1>10. Leaves(here, now, here')
  BY <1>1, <1>2, <1>7, HereIs, ThereIs DEF Leaves
<1>11. Sets(here, now, here')
  BY <1>1, <1>4, <1>6, <1>7, HereIs, ThereIs DEF Sets
<1>12. Notes(here, now, here') /\ Links(here, now, here') /\ Tests(here, now, here')
  BY <1>2 DEF Notes, Links, Tests
<1> QED
  BY <1>1, <1>2, <1>9, <1>10, <1>11, <1>12, GoOnPuts DEF Moves, Becomes

LEMMA MixMoves ==
  ASSUME CliInv, here \in State, drops = 0, drops' = 0, Legal(here, now), Mix
  PROVE  Moves /\ Typed'
<1>1. /\ todo # <<>> /\ now.op \in {"mixAbs", "mixUp", "mixDown"} /\ GoOn
      /\ UNCHANGED <<plan, tid, guser, gplayers, gRestoreGroupDisc, dump>>
      /\ now.op = "mixAbs"  => /\ value' \in randomSmaller(MixMax - MixMargin)
                               /\ Command(SetTo(now.x, value'))
      /\ now.op = "mixUp"   => \E delta \in randomSmaller(MixMax - value) :
             value' = value + delta /\ Command(SetTo(now.x, Clamp(setting[now.x] + delta)))
      /\ now.op = "mixDown" => \E delta \in randomSmaller(value) :
             value' = value - delta /\ Command(SetTo(now.x, Clamp(setting[now.x] - delta)))
  BY AtIs DEF Mix
<1>2. /\ now.op \notin BranchOps \cup LinkOps \cup TestingOps /\ now.op \in SetOps
      /\ now.op \in ExchangeOps /\ now.op \in OwnOps /\ now.op \in MixOps
      /\ now.op \notin {"wait", "save", "souvenir", "connect", "exit", "note", "compare", "fetch",
                        "canPlayers", "needGroups", "wipecache", "rescan", "new", "canConnect",
                        "needSongs", "waitDone", "disconnect", "forget"}
  BY <1>1 DEF BranchOps, MixOps, LinkOps, TestingOps, JudgeOps, SetOps, ExchangeOps, OwnOps
<1>3. now.x \in Setting /\ Hears(here)
  BY <1>1, <1>2 DEF Legal
<1>4. setting[now.x] \in Int /\ value \in Int /\ MixMax \in Nat
  <2>1. setting[now.x] \in Int
    BY <1>3, HereTyped DEF Typed
  <2>2. value \in 0 .. MixMax /\ MixMax \in Nat
    BY ScriptAssumption DEF CliInv, Values0
  <2> QED
    BY <2>1, <2>2
<1>5. \A limit \in Int : randomSmaller(limit) \subseteq Nat
  BY DEF randomSmaller
<1>6. \A u \in Int : Clamp(u) \in Int
  BY <1>4 DEF Clamp
<1>7. \E v \in Int :
        /\ Command(SetTo(now.x, v))
        /\ now.op = "mixAbs"  => v = value'
        /\ now.op = "mixUp"   => value' >= value /\ v = Clamp(setting[now.x] + (value' - value))
        /\ now.op = "mixDown" => value' <= value /\ v = Clamp(setting[now.x] - (value - value'))
  <2>1. CASE now.op = "mixAbs"
    BY <1>1, <1>4, <1>5, <2>1, ServerAssumption
  <2>2. CASE now.op = "mixUp"
    <3>1. PICK delta \in randomSmaller(MixMax - value) :
             value' = value + delta /\ Command(SetTo(now.x, Clamp(setting[now.x] + delta)))
      BY <1>1, <2>2
    <3>2. delta \in Nat
      BY <1>4, <1>5
    <3>3. value' >= value /\ delta = value' - value /\ setting[now.x] + delta \in Int
      BY <1>4, <3>1, <3>2
    <3> QED
      BY <1>6, <2>2, <3>1, <3>3
  <2>3. CASE now.op = "mixDown"
    <3>1. PICK delta \in randomSmaller(value) :
             value' = value - delta /\ Command(SetTo(now.x, Clamp(setting[now.x] - delta)))
      BY <1>1, <2>3
    <3>2. delta \in Nat
      BY <1>4, <1>5
    <3>3. value' <= value /\ delta = value - value' /\ setting[now.x] - delta \in Int
      BY <1>4, <3>1, <3>2
    <3> QED
      BY <1>6, <2>3, <3>1, <3>3
  <2> QED
    BY <1>1, <2>1, <2>2, <2>3
<1>8. PICK v \in Int :
        /\ Command(SetTo(now.x, v))
        /\ now.op = "mixAbs"  => v = value'
        /\ now.op = "mixUp"   => value' >= value /\ v = Clamp(setting[now.x] + (value' - value))
        /\ now.op = "mixDown" => value' <= value /\ v = Clamp(setting[now.x] - (value - value'))
  BY <1>7
<1>9. /\ setting' = Given(here, now.x, v) /\ SameLink(here, here')
      /\ UNCHANGED <<gtest_db, memo, total, answer, initial, scanning, quick>>
  BY <1>3, <1>8, CommandIs, SetToIs
<1>10. setting' \in [Setting -> Int]
  BY <1>3, <1>9, GivenIs
<1>11. Typed'
  BY <1>1, <1>9, <1>10, HereTyped DEF Typed
<1>12. Leaves(here, now, here')
  BY <1>1, <1>2, <1>9, HereIs, ThereIs DEF Leaves
<1>13. Sets(here, now, here')
  BY <1>1, <1>8, <1>9, HereIs, ThereIs DEF Sets
<1>14. Notes(here, now, here') /\ Links(here, now, here') /\ Tests(here, now, here')
  BY <1>2 DEF Notes, Links, Tests
<1> QED
  BY <1>1, <1>2, <1>11, <1>12, <1>13, <1>14, GoOnPuts DEF Moves, Becomes

LEMMA ScanMoves ==
  ASSUME CliInv, here \in State, drops = 0, drops' = 0, Legal(here, now), Scan
  PROVE  Moves /\ Typed'
<1>1. /\ todo # <<>> /\ now.op \in {"wipecache", "rescan"} /\ GoOn
      /\ UNCHANGED <<plan, tid, guser, gplayers, gRestoreGroupDisc, value, dump, gtest_db, memo,
                     total, answer, setting, initial, quick>>
      /\ \E done \in BOOLEAN : ((Answered /\ done) \/ Unanswered) /\ scanning' = (scanning \/ done)
  BY AtIs DEF Scan, clientVars, noteVars
<1>2. /\ now.op \notin BranchOps \cup LinkOps \cup TestingOps \cup SetOps \cup MixOps
      /\ now.op \in ExchangeOps
      /\ now.op \notin {"wait", "save", "souvenir", "connect", "exit", "note", "compare", "fetch",
                        "canPlayers", "needGroups", "new", "canConnect",
                        "needSongs", "waitDone", "disconnect", "forget"}
  BY <1>1 DEF BranchOps, MixOps, LinkOps, TestingOps, JudgeOps, SetOps, ExchangeOps
<1>3. Hears(here)
  BY <1>2 DEF Legal
<1>4. Answered /\ scanning' = TRUE
  BY <1>1, <1>3, Exchange
<1>5. SameLink(here, here')
  BY <1>4, Exchange
<1>6. Typed'
  BY <1>1, HereTyped DEF Typed
<1>7. Leaves(here, now, here')
  BY <1>1, <1>2, <1>5, HereIs, ThereIs DEF Leaves
<1>8. Sets(here, now, here') /\ Links(here, now, here') /\ Tests(here, now, here')
  BY <1>2 DEF Sets, Links, Tests, SetOps, MixOps
<1>9. Notes(here, now, here')
  BY <1>2, <1>4, ThereIs DEF Notes
<1> QED
  BY <1>1, <1>2, <1>6, <1>7, <1>8, <1>9, GoOnPuts DEF Moves, Becomes

LEMMA WaitMoves == ASSUME CliInv, here \in State, WaitStep PROVE Moves /\ Typed'
<1>1. /\ todo # <<>> /\ now.op = "wait" /\ GoOn
      /\ UNCHANGED <<plan, tid, guser, gplayers, gRestoreGroupDisc, value, dump, gtest_db, memo,
                     total, answer, initial, scanning, quick, gsocket, gcli, link, logged>>
      /\ setting' = Later(here)
  BY AtIs, HereIs DEF WaitStep, clientVars, noteVars, linkVars, Later
<1>2. "wait" \notin BranchOps \cup LinkOps \cup TestingOps \cup SetOps \cup MixOps
  BY DEF BranchOps, MixOps, LinkOps, TestingOps, JudgeOps, SetOps
<1>3. setting' \in [Setting -> Int]
  <2>1. \A y \in Setting : here.setting[y] \in Int
    BY DEF State
  <2> QED
    BY <1>1, <2>1 DEF Later
<1>4. Typed'
  BY <1>1, <1>3, HereTyped DEF Typed
<1>5. Leaves(here, now, here')
  BY <1>1, <1>2, HereIs, ThereIs DEF Leaves, SameLink
<1>6. Sets(here, now, here') /\ Notes(here, now, here') /\ Links(here, now, here') /\ Tests(here, now, here')
  BY <1>1, ThereIs DEF Sets, Notes, Links, Tests
<1> QED
  BY <1>1, <1>2, <1>4, <1>5, <1>6, GoOnPuts DEF Moves, Becomes

LEMMA SaveMoves ==
  ASSUME CliInv, here \in State, drops = 0, drops' = 0, Legal(here, now), SaveStep
  PROVE  Moves /\ Typed'
<1>1. /\ todo # <<>> /\ now.op = "save" /\ GoOn
      /\ UNCHANGED <<plan, tid, guser, gplayers, gRestoreGroupDisc, value, dump, gtest_db,
                     total, answer, setting, initial, scanning, quick>>
      /\ \E v : Query({Reads(now.x)}, v) /\ memo' = [memo EXCEPT ![now.x] = v]
  <2>1. todo # <<>> /\ now.op = "save" /\ ~At("known")
    BY AtIs DEF SaveStep
  <2>2. Said = {Reads(now.x)}
    BY <2>1 DEF Said
  <2> QED
    BY <2>1, <2>2 DEF SaveStep, clientVars, serverVars
<1>2. /\ "save" \notin BranchOps \cup LinkOps \cup TestingOps \cup SetOps \cup MixOps
      /\ "save" \in ExchangeOps /\ "save" \in OwnOps
  BY DEF BranchOps, MixOps, LinkOps, TestingOps, JudgeOps, SetOps, ExchangeOps, OwnOps
<1>3. now.x \in Setting /\ Hears(here)
  BY <1>1, <1>2 DEF Legal
<1>4. Answered /\ memo' = [memo EXCEPT ![now.x] = Reads(now.x)] /\ SameLink(here, here')
  BY <1>1, <1>3, Exchange DEF Query
<1>5. Reads(now.x) = Read(here, now.x) /\ Reads(now.x) \in Int
  BY <1>3, HereTyped, HereIs DEF Typed, Reads, Read
<1>6. memo' \in [Setting -> Int]
  BY <1>3, <1>4, <1>5, HereTyped DEF Typed
<1>7. Typed'
  BY <1>1, <1>6, HereTyped DEF Typed
<1>8. Leaves(here, now, here')
  BY <1>1, <1>2, <1>4, HereIs, ThereIs DEF Leaves
<1>9. Sets(here, now, here') /\ Notes(here, now, here') /\ Links(here, now, here') /\ Tests(here, now, here')
  BY <1>1, <1>4, <1>5, HereIs, ThereIs DEF Sets, Notes, Links, Tests
<1> QED
  BY <1>1, <1>2, <1>7, <1>8, <1>9, GoOnPuts DEF Moves, Becomes

LEMMA SouvenirMoves ==
  ASSUME CliInv, here \in State, drops = 0, drops' = 0, Legal(here, now), Souvenir
  PROVE  Moves /\ Typed'
<1>1. /\ todo # <<>> /\ now.op = "souvenir"
      /\ UNCHANGED <<plan, tid, guser, gplayers, gRestoreGroupDisc, value, dump, gtest_db,
                     total, answer, setting, initial, scanning, quick>>
      /\ (Answered /\ memo' = [memo EXCEPT ![now.x] = setting[now.x]]) \/ Unanswered
      /\ Go(IF memo'[now.x] = 1 THEN Set(now.x, 0) ELSE <<>>)
  BY AtIs DEF Souvenir, clientVars, serverVars
<1>2. /\ "souvenir" \notin LinkOps \cup TestingOps \cup SetOps \cup MixOps
      /\ "souvenir" \in ExchangeOps /\ "souvenir" \in OwnOps /\ "souvenir" \in BranchOps
  BY DEF BranchOps, MixOps, LinkOps, TestingOps, JudgeOps, SetOps, ExchangeOps, OwnOps
<1>3. now.x \in Setting /\ Hears(here)
  BY <1>1, <1>2 DEF Legal
<1>4. Answered /\ memo' = [memo EXCEPT ![now.x] = setting[now.x]] /\ SameLink(here, here')
  BY <1>1, <1>3, Exchange
<1>5. memo' \in [Setting -> Int] /\ memo'[now.x] = setting[now.x]
  BY <1>3, <1>4, HereTyped DEF Typed
<1>6. Typed'
  BY <1>1, <1>5, HereTyped DEF Typed
<1>7. Leaves(here, now, here')
  BY <1>1, <1>2, <1>4, HereIs, ThereIs DEF Leaves
<1>8. Sets(here, now, here') /\ Notes(here, now, here') /\ Links(here, now, here') /\ Tests(here, now, here')
  BY <1>1, <1>4, HereIs, ThereIs DEF Sets, Notes, Links, Tests
<1>9. Puts1
  <2> DEFINE w == IF setting[now.x] = 1 THEN Set(now.x, 0) ELSE <<>>
  <2>1. todo' = w \o Tail(todo)
    BY <1>1, <1>5 DEF Go
  <2>2. Puts(here, now, w)
    BY <1>1, <1>2, HereIs DEF Puts
  <2> QED
    BY <2>1, <2>2 DEF Puts1
<1> QED
  BY <1>6, <1>7, <1>8, <1>9 DEF Moves, Becomes

\* Steps that put others in front.
Unmoved == UNCHANGED <<plan, tid, guser, gplayers, gRestoreGroupDisc, value, dump, memo, total,
                     answer, gsocket, gcli, link, logged, setting, initial, scanning, quick>>

LEMMA QuietUnmoved ==
  ASSUME UNCHANGED <<clientVars, noteVars, linkVars, serverVars>> PROVE Unmoved
BY DEF clientVars, noteVars, linkVars, serverVars, Unmoved

LEMMA ExchangeUnmoved ==
  ASSUME drops = 0, drops' = 0, Legal(here, now), now.op \in ExchangeOps
  PROVE  ~Unanswered /\ (Answered /\ UNCHANGED <<clientVars, noteVars, serverVars>> => Unmoved)
<1>1. ~Unanswered
  BY Exchange DEF Legal
<1>2. Answered /\ UNCHANGED <<clientVars, noteVars, serverVars>> => Unmoved
  BY DEF Answered, clientVars, noteVars, linkVars, serverVars, Unmoved
<1> QED
  BY <1>1, <1>2

LEMMA QuietMoves ==
  ASSUME CliInv, here \in State, now.op \notin ChangeOps, now.op # "waitDone", Unmoved,
         UNCHANGED gtest_db \/ (now.op \in TestingOps /\ Judgement(here, here')),
         NEW w, Go(w), Puts(here, now, w)
  PROVE  Moves /\ Typed'
<1>1. Becomes(here, now, here') /\ Typed'
  BY StillMoves DEF Unmoved
<1>2. Puts1
  BY DEF Puts1, Go
<1> QED
  BY <1>1, <1>2 DEF Moves

LEMMA RunMoves ==
  ASSUME CliInv, here \in State, Run \/ RestoreFlags \/ PrintReport PROVE Moves /\ Typed'
<1>1. /\ todo # <<>> /\ now.op \in {"run", "restoreFlags", "report"} /\ Unmoved /\ UNCHANGED gtest_db
      /\ now.op = "run" => Go(IF Starting THEN Script(tid, gplayers) ELSE <<>>)
      /\ now.op = "restoreFlags" => Go(IF gRestoreGroupDisc THEN Regroup(0) ELSE <<>>)
      /\ now.op = "report" => GoOn
  BY AtIs, QuietUnmoved DEF Run, RestoreFlags, PrintReport, NoSubTest
<1>2. now.op \notin ChangeOps /\ now.op # "waitDone" /\ ("report" \notin BranchOps)
  BY <1>1 DEF ChangeOps, SetOps, MixOps, LinkOps, BranchOps
<1>3. CASE now.op = "run"
  BY <1>1, <1>2, <1>3, HereIs, QuietMoves DEF Puts, BranchOps, Starting, Starts
<1>4. CASE now.op = "restoreFlags"
  BY <1>1, <1>2, <1>4, HereIs, QuietMoves DEF Puts, BranchOps
<1>5. CASE now.op = "report"
  BY <1>1, <1>2, <1>5, GoingOn, QuietMoves DEF Puts, BranchOps
<1> QED
  BY <1>1, <1>3, <1>4, <1>5

LEMMA BranchMoves ==
  ASSUME CliInv, here \in State, Legal(here, now), Branch PROVE Moves /\ Typed'
<1>1. /\ todo # <<>> /\ Unmoved
      /\ now.op \in {"ifConnected", "ifSecure", "ifConnectedFreely", "ifSouvenir", "ifPlaylists"}
      /\ now.op # "ifSecure" => UNCHANGED gtest_db
      /\ now.op = "ifConnected" => Go(IF gcli THEN SecurityScript ELSE <<>>)
      /\ now.op = "ifSecure" =>
           IF Num(memo[authorize]) # 0 THEN Go(Set(authorize, 0)) /\ Expect(guser)
                                       ELSE GoOn /\ UNCHANGED gtest_db
      /\ now.op = "ifConnectedFreely" => Go(IF gcli THEN LoginScript(guser) ELSE <<>>)
      /\ now.op = "ifSouvenir" => Go(IF memo[now.x] = 1 THEN Set(now.x, 1) ELSE <<>>)
      /\ now.op = "ifPlaylists" =>
           Go(IF Num(answer) >= Enough THEN RescanPlaylistsScript(gplayers) ELSE Skip)
  BY AtIs, QuietUnmoved DEF Branch, NoSubTest
<1>2. now.op \notin ChangeOps /\ now.op # "waitDone" /\ now.op \in BranchOps
  BY <1>1 DEF ChangeOps, SetOps, MixOps, LinkOps, BranchOps
<1>3. CASE now.op = "ifConnected"
  BY <1>1, <1>2, <1>3, HereIs, QuietMoves DEF Puts
<1>4. CASE now.op = "ifSecure" /\ Num(memo[authorize]) # 0
  BY <1>1, <1>2, <1>4, HereIs, GoodJudgement, QuietMoves DEF Puts, Legal, TestingOps
<1>5. CASE now.op = "ifSecure" /\ Num(memo[authorize]) = 0
  BY <1>1, <1>2, <1>5, HereIs, GoingOn, QuietMoves DEF Puts
<1>6. CASE now.op = "ifConnectedFreely"
  BY <1>1, <1>2, <1>6, HereIs, QuietMoves DEF Puts
<1>7. CASE now.op = "ifSouvenir"
  BY <1>1, <1>2, <1>7, HereIs, QuietMoves DEF Puts
<1>8. CASE now.op = "ifPlaylists"
  BY <1>1, <1>2, <1>8, HereIs, QuietMoves DEF Puts
<1> QED
  BY <1>1, <1>3, <1>4, <1>5, <1>6, <1>7, <1>8

LEMMA ModelMoves ==
  ASSUME CliInv, here \in State, drops = 0, drops' = 0, Legal(here, now), Model
  PROVE  Moves /\ Typed'
<1>1. todo # <<>> /\ now.op = "model"
  BY AtIs DEF Model
<1>2. /\ now.op \notin ChangeOps /\ now.op # "waitDone" /\ now.op \in BranchOps
      /\ now.op \in ExchangeOps
  BY <1>1 DEF ChangeOps, SetOps, MixOps, LinkOps, BranchOps, ExchangeOps
<1>3. /\ Unmoved /\ UNCHANGED gtest_db
      /\ Go(IF now.x[1] \in Tone THEN MixerScript(now.x) ELSE Skip \o Skip)
  BY <1>2, ExchangeUnmoved DEF Model
<1>4. Puts(here, now, IF now.x[1] \in Tone THEN MixerScript(now.x) ELSE Skip \o Skip)
  BY <1>1, <1>2 DEF Puts
<1> QED
  BY <1>2, <1>3, <1>4, QuietMoves

LEMMA AskMoves ==
  ASSUME CliInv, here \in State, drops = 0, drops' = 0, Legal(here, now), Ask
  PROVE  Moves /\ Typed'
<1>1. todo # <<>> /\ now.op = "ask"
  BY AtIs DEF Ask
<1>2. /\ now.op \notin ChangeOps /\ now.op # "waitDone" /\ now.op \notin BranchOps
      /\ now.op \in ExchangeOps
  BY <1>1 DEF ChangeOps, SetOps, MixOps, LinkOps, BranchOps, ExchangeOps
<1>3. Unmoved /\ UNCHANGED gtest_db /\ Go(<<>>)
  BY <1>1, <1>2, ExchangeUnmoved, GoingOn DEF Ask
<1>4. Puts(here, now, <<>>)
  BY <1>1, <1>2 DEF Puts, BranchOps
<1> QED
  BY <1>2, <1>3, <1>4, QuietMoves

\* A wait for the end of a scan goes on, or there is none.
LEMMA WaitDoneMoves ==
  ASSUME CliInv, here \in State, drops = 0, drops' = 0, Legal(here, now), WaitDoneStep
  PROVE  UNCHANGED <<here, todo>> \/ (Moves /\ Typed')
<1>1. todo # <<>> /\ now.op = "waitDone"
  BY AtIs DEF WaitDoneStep
<1>2. now.op \notin ChangeOps /\ now.op \notin BranchOps /\ now.op \in ExchangeOps
  BY <1>1 DEF ChangeOps, SetOps, MixOps, LinkOps, BranchOps, ExchangeOps
<1>3. Unmoved /\ UNCHANGED gtest_db /\ (IF scanning THEN UNCHANGED todo ELSE GoOn)
  BY <1>2, ExchangeUnmoved DEF WaitDoneStep
<1>4. CASE scanning
  BY <1>3, <1>4 DEF here, Unmoved
<1>5. CASE ~scanning
  BY <1>1, <1>2, <1>3, <1>5, StillMoves, GoOnPuts DEF Unmoved, Moves
<1> QED
  BY <1>4, <1>5

\* Subtests.
LEMMA SubtestOps ==
  ASSUME now.op \in {"check", "atMost", "notZero", "checkMix", "known", "judge", "skip",
                     "scanning", "sort", "sameData", "noTag"}
  PROVE  /\ now.op \notin ChangeOps /\ now.op # "waitDone" /\ now.op \notin BranchOps
         /\ now.op \in TestingOps /\ (now.op \notin {"judge", "skip"} => now.op \in ExchangeOps)
BY DEF ChangeOps, SetOps, MixOps, LinkOps, BranchOps, TestingOps, JudgeOps, ExchangeOps

LEMMA GoodMoves ==
  ASSUME CliInv, here \in State, todo # <<>>, Unmoved, GoOn, Judgement(here, here'),
         now.op \in {"check", "atMost", "notZero", "checkMix", "known", "judge", "skip",
                     "scanning", "sort", "sameData", "noTag"}
  PROVE  Moves /\ Typed'
<1>1. Go(<<>>) /\ Puts(here, now, <<>>)
  BY SubtestOps, GoingOn DEF Puts, BranchOps
<1> QED
  BY <1>1, SubtestOps, QuietMoves

LEMMA CheckMoves ==
  ASSUME CliInv, here \in State, drops = 0, drops' = 0, Legal(here, now), CheckStep
  PROVE  Moves /\ Typed'
<1>1. todo # <<>> /\ now.op \in {"check", "atMost", "notZero", "checkMix", "known"}
  BY AtIs DEF CheckStep
<1>2. ~Unanswered
  BY <1>1, SubtestOps, ExchangeUnmoved
<1>3. PICK v : /\ Answered /\ v \in Said
               /\ now.op = "known"    => Expect(v # Undef)
               /\ now.op = "check"    => Expect(Num(v) = now.v)
               /\ now.op = "atMost"   => Expect(Num(v) <= now.v)
               /\ now.op = "notZero"  => Expect(Num(v) # 0)
               /\ now.op = "checkMix" => Expect(Num(v) = value)
  BY <1>1, <1>2, AtIs DEF CheckStep, Query
<1>4. Unmoved /\ GoOn
  BY <1>1, <1>3, SubtestOps, ExchangeUnmoved DEF CheckStep
<1>5. \E good : good /\ Expect(good)
  <2>1. CASE now.op = "known"
    <3>1. v = 1 /\ 1 # Undef
      BY <1>1, <1>3, <2>1, AtIs, ScriptAssumption DEF Said, Undef
    <3> QED
      BY <1>3, <2>1, <3>1
  <2>2. CASE now.op # "known"
    BY <1>1, <1>3, <2>2, AtIs, HereIs DEF Said, Reads, Read, Legal
  <2> QED
    BY <2>1, <2>2
<1> QED
  BY <1>1, <1>4, <1>5, GoodJudgement, GoodMoves

LEMMA JudgeMoves ==
  ASSUME CliInv, here \in State, Legal(here, now), JudgeStep PROVE Moves /\ Typed'
<1>1. /\ todo # <<>> /\ now.op \in {"judge", "skip"} /\ GoOn /\ Unmoved
      /\ now.op = "judge" => Expect(answer = now.v)
      /\ now.op = "skip"  => SubTest(Skipped)
  BY AtIs, QuietUnmoved DEF JudgeStep
<1>2. Judgement(here, here')
  BY <1>1, HereIs, GoodJudgement DEF Legal
<1> QED
  BY <1>1, <1>2, GoodMoves

LEMMA NotifiedMoves ==
  ASSUME CliInv, here \in State, drops = 0, drops' = 0, Legal(here, now), Notified
  PROVE  Moves /\ Typed'
<1>1. todo # <<>> /\ now.op = "scanning"
  BY AtIs DEF Notified
<1>2. GoOn /\ Unmoved /\ Expect(scanning)
  BY <1>1, SubtestOps, ExchangeUnmoved DEF Notified
<1>3. tid = "rescan" /\ (scanning \/ quick)
  BY <1>1, HereIs DEF Legal
<1>4. Judgement(here, here')
  BY <1>2, <1>3, GoodJudgement
<1> QED
  BY <1>1, <1>2, <1>4, GoodMoves

\* The database.
LEMMA TotalIs ==
  ASSUME ~scanning, NEW what \in {"songs", "playlists"}
  PROVE  /\ Totals(what) = {Full[what]} /\ Full[what] \in Nat /\ Full[what] \in Int
         /\ Num(Full[what]) = Full[what] /\ Full["songs"] = Songs
<1>1. Full[what] \in Nat /\ Full["songs"] = Songs
  BY ServerAssumption DEF Full
<1>2. Full[what] # Undef
  BY <1>1, ScriptAssumption DEF Undef
<1> QED
  BY <1>1, <1>2 DEF Totals, Num

LEMMA ComparedMoves ==
  ASSUME CliInv, here \in State, drops = 0, drops' = 0, Legal(here, now), Compared
  PROVE  Moves /\ Typed'
<1>1. todo # <<>> /\ now.op \in {"note", "compare"} /\ GoOn
  BY AtIs DEF Compared
<1>2. /\ now.op \notin BranchOps \cup LinkOps \cup SetOps \cup MixOps /\ now.op \in ExchangeOps
      /\ now.op = "compare" => now.op \in TestingOps
      /\ now.op = "note" => now.op \notin TestingOps
  BY <1>1 DEF BranchOps, MixOps, LinkOps, TestingOps, JudgeOps, SetOps, ExchangeOps
<1>3. Answered /\ ~Unanswered
  BY <1>2, ExchangeUnmoved DEF Compared, Query
<1>4. /\ now.x[2] \in {"songs", "playlists"} /\ ~scanning
      /\ now.op = "compare" => Num(total[now.x[2]]) = Full[now.x[2]]
  BY <1>1, HereIs DEF Legal
<1> DEFINE n == Full[now.x[2]]
<1>5. /\ answer' = n /\ n \in Int /\ Num(n) = n
      /\ now.op = "note" => total' = [total EXCEPT ![now.x[2]] = n] /\ UNCHANGED gtest_db
      /\ now.op = "compare" => Expect(Num(total[now.x[2]]) = Num(n)) /\ UNCHANGED total
  <2>1. Totals(now.x[2]) = {n} /\ n \in Int /\ Num(n) = n
    BY <1>4, TotalIs
  <2> HIDE DEF n
  <2>2. PICK v : /\ Query({n}, v) /\ answer' = v
                 /\ now.op = "note" => total' = [total EXCEPT ![now.x[2]] = v] /\ UNCHANGED gtest_db
                 /\ now.op = "compare" => /\ Expect(Num(total[now.x[2]]) = Num(v))
                                          /\ UNCHANGED total
    BY <2>1, AtIs DEF Compared, NoSubTest
  <2>3. v = n
    BY <1>3, <2>2 DEF Query
  <2> QED
    BY <2>1, <2>2, <2>3
<1>6. /\ UNCHANGED <<plan, tid, guser, gplayers, gRestoreGroupDisc, value, dump, memo,
                     setting, initial, scanning, quick>>
      /\ SameLink(here, here')
  BY <1>3, Exchange DEF Compared, clientVars, serverVars
<1>7. total' \in [songs : Int, playlists : Int]
  <2>1. total \in [songs : Int, playlists : Int]
    BY HereTyped DEF Typed
  <2> HIDE DEF n
  <2> QED
    BY <1>1, <1>4, <1>5, <2>1
<1>8. Typed'
  BY <1>5, <1>6, <1>7, HereTyped DEF Typed
<1>9. now.op = "compare" => Judgement(here, here')
  BY <1>4, <1>5, GoodJudgement
<1>10. now.op = "note" => here'.db = here.db
  BY <1>5, HereIs, ThereIs
<1>11. now.op # "note" => here'.total = here.total
  BY <1>1, <1>5, HereIs, ThereIs
<1>12. Leaves(here, now, here')
  BY <1>1, <1>2, <1>6, <1>9, <1>10, <1>11, HereIs, ThereIs DEF Leaves
<1>13. Sets(here, now, here') /\ Links(here, now, here') /\ Tests(here, now, here')
  BY <1>1 DEF Sets, Links, Tests
<1>14. Notes(here, now, here')
  BY <1>1, <1>5, HereIs, ThereIs DEF Notes
<1> QED
  BY <1>1, <1>2, <1>8, <1>12, <1>13, <1>14, GoOnPuts DEF Moves, Becomes

LEMMA DumpMoves ==
  ASSUME CliInv, here \in State, drops = 0, drops' = 0, Legal(here, now), DumpDB, now.op = "dump"
  PROVE  Moves /\ Typed'
<1>1. /\ now.op \notin ChangeOps /\ now.op # "waitDone" /\ now.op \in BranchOps
      /\ now.op \in ExchangeOps
  BY DEF ChangeOps, SetOps, MixOps, LinkOps, BranchOps, ExchangeOps
<1>2. ~Unanswered
  BY <1>1, ExchangeUnmoved
<1>3. /\ UNCHANGED gtest_db /\ todo # <<>>
      /\ UNCHANGED <<plan, tid, guser, gplayers, gRestoreGroupDisc, value, dump, memo, total,
                     answer, setting, initial, scanning, quick>>
      /\ IF dump.found + dump.blank > 0 THEN GoOn /\ UNCHANGED linkVars
         ELSE \E v : Query(Totals("songs"), v) /\ Go(Times(Num(v), Plain("fetch")))
  BY AtIs DEF DumpDB, NoSubTest, keepDump, noteVars, serverVars
<1>4. dump.blank = 0 /\ dump.found \in Nat
  <2>1. dump \in [found : 0 .. Songs, blank : 0 .. 1]
    BY DEF CliInv, Values0
  <2>2. dump.blank = 0
    BY HereTyped DEF Typed
  <2> QED
    BY <2>1, <2>2, ServerAssumption
<1>5. ~scanning
  BY HereIs DEF Legal
<1>6. UNCHANGED linkVars
  BY <1>2, <1>3 DEF Query, Answered
<1>7. Unmoved
  BY <1>3, <1>6 DEF Unmoved, linkVars
<1>8. CASE dump.found > 0
  BY <1>1, <1>3, <1>4, <1>7, <1>8, GoingOn, HereIs, QuietMoves DEF Puts
<1>9. CASE ~(dump.found > 0)
  <2>1. PICK v : Query(Totals("songs"), v) /\ Go(Times(Num(v), Plain("fetch")))
    BY <1>3, <1>4, <1>9
  <2>2. v = Songs /\ Num(v) = Songs
    BY <1>2, <1>5, <2>1, TotalIs DEF Query
  <2>3. Go(Times(Songs, Plain("fetch")))
    BY <2>1, <2>2
  <2>4. Puts(here, now, Times(Songs, Plain("fetch")))
    BY <1>1, <1>9, HereIs DEF Puts
  <2> QED
    BY <1>1, <1>3, <1>7, <2>3, <2>4, QuietMoves
<1> QED
  BY <1>8, <1>9

LEMMA FetchMoves ==
  ASSUME CliInv, here \in State, drops = 0, drops' = 0, Legal(here, now), DumpDB, now.op # "dump"
  PROVE  Moves /\ Typed'
<1>1. /\ todo # <<>> /\ now.op = "fetch" /\ GoOn /\ UNCHANGED gtest_db
      /\ UNCHANGED <<plan, tid, guser, gplayers, gRestoreGroupDisc, value, memo, total,
                     answer, setting, initial, scanning, quick>>
      /\ (Answered /\ dump' = [dump EXCEPT !.found = @ + 1]) \/ Unanswered
  BY AtIs DEF DumpDB, NoSubTest, keepDump, noteVars, serverVars
<1>2. /\ now.op \notin BranchOps \cup LinkOps \cup SetOps \cup MixOps \cup TestingOps
      /\ now.op \in ExchangeOps
  BY <1>1 DEF BranchOps, MixOps, LinkOps, TestingOps, JudgeOps, SetOps, ExchangeOps
<1>3. Answered /\ dump' = [dump EXCEPT !.found = @ + 1] /\ SameLink(here, here')
  BY <1>1, <1>2, ExchangeUnmoved, Exchange
<1>4. dump'.blank = 0
  BY <1>3, HereTyped DEF Typed, CliInv, Values0
<1>5. Typed'
  BY <1>1, <1>4, HereTyped DEF Typed
<1>6. Leaves(here, now, here')
  BY <1>1, <1>2, <1>3, HereIs, ThereIs DEF Leaves
<1>7. Sets(here, now, here') /\ Links(here, now, here') /\ Tests(here, now, here')
  BY <1>1 DEF Sets, Links, Tests
<1>8. Notes(here, now, here')
  BY <1>1, <1>3, HereIs, ThereIs DEF Notes
<1> QED
  BY <1>1, <1>2, <1>5, <1>6, <1>7, <1>8, GoOnPuts DEF Moves, Becomes

LEMMA TitlesMoves ==
  ASSUME CliInv, here \in State, drops = 0, drops' = 0, Legal(here, now), Titles
  PROVE  Moves /\ Typed'
<1>1. todo # <<>> /\ now.op \in {"count", "draw", "searched"}
  BY AtIs DEF Titles
<1>2. /\ now.op \notin ChangeOps /\ now.op # "waitDone"
      /\ now.op # "draw" => now.op \in TestingOps /\ now.op \in ExchangeOps
      /\ now.op = "count" => now.op \notin BranchOps
      /\ now.op # "count" => now.op \in BranchOps
  BY <1>1 DEF ChangeOps, SetOps, MixOps, LinkOps, BranchOps, TestingOps, JudgeOps, ExchangeOps
<1>3. dump.blank = 0 /\ drawn \in [found : Nat, blank : Nat]
  BY HereTyped DEF Typed, CliInv, Values0
<1>4. CASE now.op = "count"
  <2>0. At("count") /\ ~At("draw") /\ ~At("searched")
    BY <1>1, <1>4, AtIs
  <2>1. ~Unanswered /\ ~scanning /\ dump.found = Songs
    BY <1>2, <1>4, ExchangeUnmoved, HereIs DEF Legal
  <2>2. /\ GoOn /\ keepDump /\ UNCHANGED <<dump, noteVars, serverVars>>
        /\ \E v : Query(Totals("songs"), v) /\ Expect(dump.found + dump.blank = Num(v))
    BY <2>0 DEF Titles
  <2>3. PICK v : Query(Totals("songs"), v) /\ Expect(dump.found + dump.blank = Num(v))
    BY <2>2
  <2>4. Answered /\ v = Songs /\ Num(v) = Songs /\ Songs \in Nat
    BY <2>1, <2>3, TotalIs, ServerAssumption DEF Query
  <2>5. dump.found + dump.blank = Num(v)
    BY <1>3, <2>1, <2>4
  <2>6. Judgement(here, here')
    BY <2>3, <2>5, GoodJudgement
  <2>7. Unmoved
    BY <2>2, <2>4 DEF Unmoved, Answered, keepDump, noteVars, linkVars, serverVars
  <2>8. Go(<<>>) /\ Puts(here, now, <<>>)
    BY <1>1, <1>2, <1>4, <2>2, GoingOn DEF Puts, BranchOps
  <2> QED
    BY <1>2, <1>4, <2>6, <2>7, <2>8, QuietMoves
<1>5. CASE now.op = "draw"
  <2>0. At("draw") /\ ~At("count") /\ ~At("searched")
    BY <1>1, <1>5, AtIs
  <2>1. /\ keepDump /\ UNCHANGED <<dump, noteVars, linkVars, serverVars>> /\ UNCHANGED gtest_db
        /\ Go(Plain("searched")) \/ drawn.blank < dump.blank
    BY <2>0 DEF Titles, NoSubTest
  <2>2. Go(Plain("searched"))
    BY <1>3, <2>1
  <2>3. Puts(here, now, Plain("searched"))
    BY <1>2, <1>5 DEF Puts
  <2>4. Unmoved
    BY <2>1 DEF Unmoved, keepDump, noteVars, linkVars, serverVars
  <2> QED
    BY <1>2, <2>1, <2>2, <2>3, <2>4, QuietMoves
<1>6. CASE now.op = "searched"
  <2>0. At("searched") /\ ~At("count") /\ ~At("draw")
    BY <1>1, <1>6, AtIs
  <2>1. /\ Answered \/ Unanswered
        /\ Expect(TRUE) /\ UNCHANGED <<clientVars, noteVars, serverVars>>
        /\ Go(IF Drawn < Searches THEN Plain("draw") ELSE <<>>)
    BY <2>0 DEF Titles
  <2>2. Unmoved
    BY <1>2, <1>6, <2>1, ExchangeUnmoved
  <2>3. Judgement(here, here')
    BY <2>1, GoodJudgement
  <2>4. Puts(here, now, IF Drawn < Searches THEN Plain("draw") ELSE <<>>)
    BY <1>2, <1>6 DEF Puts
  <2> QED
    BY <1>2, <1>6, <2>1, <2>2, <2>3, <2>4, QuietMoves
<1> QED
  BY <1>1, <1>4, <1>5, <1>6

LEMMA TagsMoves ==
  ASSUME CliInv, here \in State, drops = 0, drops' = 0, Legal(here, now), Tags
  PROVE  Moves /\ Typed'
<1>1. todo # <<>> /\ now.op \in {"tag", "sort", "data", "sameData", "tagInfo", "noTag"}
  BY AtIs DEF Tags
<1>2. /\ now.op \notin ChangeOps /\ now.op # "waitDone" /\ now.op \in ExchangeOps
      /\ now.op # "data" => now.op \in TestingOps
      /\ now.op \notin {"data", "tagInfo"} => now.op \notin BranchOps
      /\ now.op \in {"data", "tagInfo"} => now.op \in BranchOps
  BY <1>1 DEF ChangeOps, SetOps, MixOps, LinkOps, BranchOps, TestingOps, JudgeOps, ExchangeOps
<1>3. ~Unanswered
  BY <1>2, ExchangeUnmoved
<1>4. /\ UNCHANGED <<clientVars, noteVars, serverVars>>
      /\ now.op = "tag" => /\ GoOn
                           /\ \/ SubTest(Skipped) /\ UNCHANGED linkVars
                              \/ Answered /\ Expect(TRUE)
      /\ now.op = "sort" => GoOn /\ Answered /\ Expect(TRUE)
      /\ now.op = "data" => /\ UNCHANGED gtest_db
                            /\ \/ GoOn /\ UNCHANGED linkVars
                               \/ Answered /\ Go(Plain("sameData"))
      /\ now.op = "sameData" => GoOn /\ Answered /\ Expect(TRUE)
      /\ now.op = "tagInfo" => \/ SubTest(Skipped) /\ GoOn /\ UNCHANGED linkVars
                               \/ Answered /\ Go(Plain("noTag")) /\ Expect(TRUE)
      /\ now.op = "noTag" => GoOn /\ Answered /\ Expect(TRUE)
  <2>1. \A op \in {"tag", "sort", "data", "sameData", "tagInfo", "noTag"} : At(op) <=> now.op = op
    BY <1>1, AtIs
  <2>2. UNCHANGED <<clientVars, noteVars, serverVars>>
    BY DEF Tags
  <2>3. \/ /\ now.op = "tag" /\ GoOn
           /\ ((SubTest(Skipped) /\ UNCHANGED linkVars) \/ (Answered /\ Expect(TRUE)))
        \/ now.op = "sort" /\ GoOn /\ Answered /\ Expect(TRUE)
        \/ /\ now.op = "data" /\ UNCHANGED gtest_db
           /\ ((GoOn /\ UNCHANGED linkVars) \/ (Answered /\ Go(Plain("sameData"))))
        \/ now.op = "sameData" /\ GoOn /\ Answered /\ Expect(TRUE)
        \/ /\ now.op = "tagInfo"
           /\ \/ SubTest(Skipped) /\ GoOn /\ UNCHANGED linkVars
              \/ Answered /\ Go(Plain("noTag")) /\ Expect(TRUE)
        \/ now.op = "noTag" /\ GoOn /\ Answered /\ Expect(TRUE)
    BY <1>3, <2>1 DEF Tags, NoSubTest
  <2> QED
    BY <2>2, <2>3
<1>5. Unmoved
  BY <1>1, <1>4, QuietUnmoved DEF Answered
<1>6. now.op # "data" => Judgement(here, here')
  BY <1>1, <1>4, GoodJudgement
<1>7. now.op = "data" => UNCHANGED gtest_db
  BY <1>4
<1>8. PICK w : Go(w) /\ Puts(here, now, w)
  <2>1. CASE now.op = "data"
    BY <1>1, <1>2, <1>4, <2>1, GoingOn DEF Puts
  <2>2. CASE now.op = "tagInfo"
    BY <1>1, <1>2, <1>4, <2>2, GoingOn DEF Puts
  <2>3. CASE now.op \notin {"data", "tagInfo"}
    BY <1>1, <1>2, <1>4, <2>3, GoingOn DEF Puts, BranchOps
  <2> QED
    BY <2>1, <2>2, <2>3
<1> QED
  BY <1>2, <1>5, <1>6, <1>7, <1>8, QuietMoves

\* What a test needs.
LEMMA CanPlayersMoves ==
  ASSUME CliInv, here \in State, drops = 0, drops' = 0, Legal(here, now), CanPlayers
  PROVE  Moves /\ Typed'
<1>1. /\ todo # <<>> /\ now.op = "canPlayers"
      /\ UNCHANGED <<plan, tid, guser, gRestoreGroupDisc, value, dump, memo, total,
                     answer, setting, initial, scanning, quick>>
      /\ IF ~Starting \/ gplayers > 0
         THEN GoOn /\ UNCHANGED gtest_db /\ UNCHANGED <<gplayers, linkVars>>
         ELSE \/ /\ Answered /\ gplayers' = Players
                 /\ Go(Times(Players, Plain("ask"))) /\ UNCHANGED gtest_db
              \/ Unanswered
  BY AtIs DEF CanPlayers, NoSubTest, noteVars, serverVars
<1>2. /\ now.op \notin LinkOps \cup SetOps \cup MixOps \cup TestingOps /\ now.op \in BranchOps
  BY <1>1 DEF BranchOps, MixOps, LinkOps, TestingOps, JudgeOps, SetOps
<1>3. Starting = Starts(here)
  BY HereIs DEF Starting, Starts
<1>4. gplayers \in {0, Players} /\ Players \in Nat
  BY ServerAssumption DEF CliInv, Values0
<1>5. Starting => ~Unanswered
  BY <1>1, <1>3, Exchange DEF Legal
<1>6. /\ UNCHANGED gtest_db /\ SameLink(here, here')
      /\ gplayers' = IF Starting THEN Players ELSE gplayers
      /\ \E w : Go(w) /\ w \in IF Starting THEN {<<>>, Times(Players, Plain("ask"))} ELSE {<<>>}
  <2>1. CASE ~Starting \/ gplayers > 0
    BY <1>1, <1>4, <2>1, GoingOn, HereIs, ThereIs DEF linkVars, SameLink
  <2>2. CASE ~(~Starting \/ gplayers > 0)
    BY <1>1, <1>5, <2>2, Exchange
  <2> QED
    BY <2>1, <2>2
<1>7. Typed'
  BY <1>1, HereTyped DEF Typed
<1>8. Leaves(here, now, here')
  BY <1>1, <1>2, <1>6, HereIs, ThereIs DEF Leaves
<1>9. Sets(here, now, here') /\ Links(here, now, here') /\ Notes(here, now, here')
  BY <1>1 DEF Sets, Links, Notes
<1>10. Tests(here, now, here')
  BY <1>1, <1>3, <1>6, HereIs, ThereIs DEF Tests
<1>11. Puts1
  <2>1. PICK w : Go(w) /\ w \in IF Starting THEN {<<>>, Times(Players, Plain("ask"))} ELSE {<<>>}
    BY <1>6
  <2>2. Puts(here, now, w)
    BY <1>1, <1>2, <1>3, <2>1 DEF Puts
  <2> QED
    BY <2>1, <2>2 DEF Puts1, Go
<1> QED
  BY <1>7, <1>8, <1>9, <1>10, <1>11 DEF Moves, Becomes

LEMMA CanDBMoves ==
  ASSUME CliInv, here \in State, drops = 0, drops' = 0, Legal(here, now), CanDB
  PROVE  Moves /\ Typed'
<1>1. todo # <<>> /\ now.op \in {"canDB", "needSongs", "needGroups"}
  BY AtIs DEF CanDB
<1>2. /\ now.op \notin LinkOps \cup SetOps \cup MixOps \cup TestingOps
      /\ now.op # "canDB" => now.op \in ExchangeOps
      /\ now.op # "needSongs" => now.op \in BranchOps
      /\ now.op = "needSongs" => now.op \notin BranchOps
  BY <1>1 DEF BranchOps, MixOps, LinkOps, TestingOps, JudgeOps, SetOps, ExchangeOps
<1>3. UNCHANGED <<plan, tid, guser, gplayers, value, dump, memo, total, answer,
                  setting, initial, scanning, quick>>
  BY DEF CanDB, noteVars, serverVars
<1>4. Typed'
  BY <1>3, HereTyped DEF Typed
<1>5. now.op # "canDB" => ~Unanswered
  BY <1>2, ExchangeUnmoved
<1>6. SameLink(here, here')
  BY <1>1, <1>5, AtIs, HereIs, ThereIs DEF CanDB, Query, Answered, linkVars, SameLink
<1>7. Sets(here, now, here') /\ Links(here, now, here') /\ Notes(here, now, here')
  BY <1>1 DEF Sets, Links, Notes
<1>8. CASE now.op = "canDB"
  <2>1. /\ UNCHANGED gtest_db /\ UNCHANGED gRestoreGroupDisc
        /\ Go(IF Starting THEN WaitDone \o Plain("needSongs") \o Plain("needGroups") ELSE <<>>)
    BY <1>8, AtIs DEF CanDB, NoSubTest
  <2>2. Puts(here, now, IF Starting THEN WaitDone \o Plain("needSongs") \o Plain("needGroups")
                                    ELSE <<>>)
    BY <1>2, <1>8, HereIs DEF Puts, Starting, Starts
  <2>3. Leaves(here, now, here')
    BY <1>2, <1>3, <1>6, <1>8, <2>1, HereIs, ThereIs DEF Leaves
  <2>4. Tests(here, now, here')
    BY <1>8 DEF Tests
  <2>5. Puts1
    BY <2>1, <2>2 DEF Puts1, Go
  <2> QED
    BY <1>4, <1>7, <2>3, <2>4, <2>5 DEF Moves, Becomes
<1>9. CASE now.op = "needSongs"
  <2>1. /\ GoOn /\ UNCHANGED gRestoreGroupDisc
        /\ \E v : Query(Totals("songs"), v) /\ IF Num(v) < 1 THEN Cannot ELSE NoSubTest
    BY <1>9, AtIs DEF CanDB
  <2>2. PICK v : Query(Totals("songs"), v) /\ IF Num(v) < 1 THEN Cannot ELSE NoSubTest
    BY <2>1
  <2>3. ~scanning
    BY <1>9, HereIs DEF Legal
  <2>4. v = Songs /\ Num(v) = Songs
    BY <1>5, <1>9, <2>2, <2>3, TotalIs DEF Query
  <2>5. gtest_db' = IF Songs < 1 THEN [gtest_db EXCEPT ![tid] = Skipped] ELSE gtest_db
    BY <2>2, <2>4 DEF Cannot, NoSubTest
  <2>6. Leaves(here, now, here')
    BY <1>2, <1>3, <1>6, <1>9, <2>1, HereIs, ThereIs DEF Leaves
  <2>7. Tests(here, now, here')
    BY <1>9, <2>5, HereIs, ThereIs DEF Tests
  <2> QED
    BY <1>1, <1>2, <1>4, <1>7, <1>9, <2>1, <2>6, <2>7, GoOnPuts DEF Moves, Becomes
<1>10. CASE now.op = "needGroups"
  <2>1. UNCHANGED gtest_db
    BY <1>10, AtIs DEF CanDB, NoSubTest
  <2>2. PICK v : /\ Query({setting[groupdiscs]}, v)
                 /\ IF Num(v) = 0 THEN gRestoreGroupDisc' = TRUE /\ Go(Regroup(1))
                                  ELSE GoOn /\ UNCHANGED gRestoreGroupDisc
    BY <1>10, AtIs DEF CanDB
  <2>3. v = setting[groupdiscs]
    BY <1>5, <1>10, <2>2 DEF Query
  <2>4. gRestoreGroupDisc \in BOOLEAN
    BY DEF CliInv, Values0
  <2>5. gRestoreGroupDisc' = (gRestoreGroupDisc \/ Num(setting[groupdiscs]) = 0)
    BY <2>2, <2>3, <2>4
  <2>6. Go(IF Num(setting[groupdiscs]) = 0 THEN Regroup(1) ELSE <<>>)
    BY <1>1, <2>2, <2>3, GoingOn
  <2>7. Puts(here, now, IF Num(setting[groupdiscs]) = 0 THEN Regroup(1) ELSE <<>>)
    BY <1>2, <1>10, HereIs DEF Puts
  <2>8. Leaves(here, now, here')
    BY <1>2, <1>3, <1>6, <1>10, <2>1, HereIs, ThereIs DEF Leaves
  <2>9. Tests(here, now, here')
    BY <1>10, <2>5, HereIs, ThereIs DEF Tests
  <2>10. Puts1
    BY <2>6, <2>7 DEF Puts1, Go
  <2> QED
    BY <1>4, <1>7, <2>8, <2>9, <2>10 DEF Moves, Becomes
<1> QED
  BY <1>1, <1>8, <1>9, <1>10

-----------------------------------------------------------------------------
(* The invariant of a run that has lost no connection so far.              *)

RunInv == drops = 0 => here \in State /\ <<here, todo>> \in Sure

LEMMA ClientMoves ==
  ASSUME CliInv, here \in State, drops = 0, drops' = 0, Legal(here, now), Client
  PROVE  UNCHANGED <<here, todo>> \/ (Moves /\ Typed')
<1>1. CASE New \/ CanConnect \/ CanPlayers \/ CanDB \/ Run \/ RestoreFlags \/ PrintReport
  BY <1>1, NewMoves, CanConnectMoves, CanPlayersMoves, CanDBMoves, RunMoves
<1>2. CASE ConnectStep \/ Disconnect \/ Exit \/ Forget
  BY <1>2, ConnectMoves, DisconnectMoves, ExitMoves
<1>3. CASE SetStep \/ Mix \/ Scan \/ WaitStep
  BY <1>3, SetMoves, MixMoves, ScanMoves, WaitMoves
<1>4. CASE SaveStep \/ CheckStep \/ JudgeStep \/ Ask
  BY <1>4, SaveMoves, CheckMoves, JudgeMoves, AskMoves
<1>5. CASE Branch \/ Souvenir \/ Model
  BY <1>5, BranchMoves, SouvenirMoves, ModelMoves
<1>6. CASE WaitDoneStep \/ Notified \/ Compared
  BY <1>6, WaitDoneMoves, NotifiedMoves, ComparedMoves
<1>7. CASE DumpDB \/ Titles \/ Tags
  BY <1>7, DumpMoves, FetchMoves, TitlesMoves, TagsMoves
<1> QED
  BY <1>1, <1>2, <1>3, <1>4, <1>5, <1>6, <1>7 DEF Client

\* A connection that is lost stays counted.
LEMMA DropsStay == ASSUME CliInv, [Next]_vars, drops' = 0 PROVE drops = 0
<1>1. drops \in Nat
  BY ServerAssumption DEF CliInv, Linked
<1>2. Answered \/ Unanswered => drops' \in {drops, drops + 1}
  BY DEF Answered, Unanswered, linkVars
<1>3. \A answers, v : Query(answers, v) => Answered \/ Unanswered
  BY DEF Query
<1>4. \A how : cliConnect(how) => drops' \in {drops, drops + 1}
  BY DEF cliConnect, linkVars
<1>5. \A new : Command(new) => Answered \/ Unanswered
  BY DEF Command
<1>6. UNCHANGED linkVars => drops' = drops
  BY DEF linkVars
<1>7. CASE New \/ Run \/ JudgeStep \/ Branch \/ WaitStep \/ PrintReport \/ RestoreFlags
  BY <1>6, <1>7 DEF New, Run, JudgeStep, Branch, WaitStep, PrintReport, RestoreFlags
<1>8. CASE CanConnect \/ ConnectStep \/ Disconnect \/ Exit \/ Forget
  BY <1>1, <1>2, <1>4, <1>8 DEF CanConnect, ConnectStep, Disconnect, Exit, Forget
<1>9. CASE SetStep \/ Mix \/ Scan
  BY <1>1, <1>2, <1>5, <1>9 DEF SetStep, Mix, Scan
<1>10. CASE SaveStep \/ CheckStep \/ Ask \/ Souvenir \/ Model \/ WaitDoneStep \/ Notified \/ Compared
  <2>1. Answered \/ Unanswered
    BY <1>3, <1>10 DEF SaveStep, CheckStep, Compared, Ask, Souvenir, Model, WaitDoneStep, Notified
  <2> QED
    BY <1>1, <1>2, <2>1
<1>11. CASE DumpDB \/ Titles \/ Tags
  <2>1. Answered \/ Unanswered \/ UNCHANGED linkVars
    BY <1>3, <1>11 DEF DumpDB, Titles, Tags
  <2> QED
    BY <1>1, <1>2, <1>6, <2>1
<1>12. CASE CanPlayers \/ CanDB
  BY <1>1, <1>2, <1>3, <1>6, <1>12 DEF CanPlayers, CanDB
<1>13. CASE ScanEnds \/ Idle \/ UNCHANGED vars
  BY <1>6, <1>13 DEF ScanEnds, Idle, vars
<1> QED
  BY <1>7, <1>8, <1>9, <1>10, <1>11, <1>12, <1>13 DEF Next, Client

LEMMA ScanEndsMoves ==
  ASSUME CliInv, here \in State, ScanEnds
  PROVE  /\ Typed' /\ UNCHANGED todo
         /\ Scanned(here, IF todo # <<>> THEN now.op ELSE "", here')
<1>1. /\ UNCHANGED <<todo, plan, tid, guser, gplayers, gRestoreGroupDisc, value, dump, memo, total,
                     answer, gsocket, gcli, link, logged, gtest_db, setting, initial>>
      /\ scanning /\ scanning' = FALSE /\ quick' = (quick \/ (todo # <<>> /\ now.op = "scanning"))
  BY AtIs DEF ScanEnds, clientVars, noteVars, linkVars
<1>2. Typed'
  BY <1>1, HereTyped DEF Typed
<1>3. quick \in BOOLEAN
  BY DEF CliInv, Values0
<1> DEFINE op == IF todo # <<>> THEN now.op ELSE ""
<1>4. quick' = (quick \/ op = "scanning")
  BY <1>1, <1>3
<1> HIDE DEF op
<1>5. Scanned(here, op, here')
  BY <1>1, <1>4, HereIs, ThereIs DEF Scanned, SameLink
<1> QED
  BY <1>1, <1>2, <1>5 DEF op

LEMMA HereStateNext == CliInv' /\ Typed' => here' \in State
<1>1. CliInv /\ Typed => here \in State
  BY HereState
<1>2. (CliInv /\ Typed => here \in State)'
  BY <1>1, PTL
<1> QED
  BY <1>2

LEMMA RunStep == CliInv /\ RunInv /\ [Next]_vars => RunInv'
<1> SUFFICES ASSUME CliInv, RunInv, [Next]_vars, drops' = 0
             PROVE  here' \in State /\ <<here', todo'>> \in Sure
  BY DEF RunInv
<1>1. drops = 0 /\ CliInv'
  BY DropsStay, InvStep
<1>2. here \in State /\ <<here, todo>> \in Sure /\ todo \in Program
  BY <1>1 DEF RunInv, CliInv, Walking
<1>3. Typed' => here' \in State
  BY <1>1, HereStateNext
<1>4. /\ todo # <<>> =>
           /\ Legal(here, now)
           /\ \A b \in State : \A u : Becomes(here, now, b) /\ Puts(here, now, u) =>
                                        <<b, u \o Tail(todo)>> \in Sure
           /\ \A b \in State : Scanned(here, now.op, b) => <<b, todo>> \in Sure
      /\ todo = <<>> => \A b \in State : Scanned(here, "", b) => <<b, todo>> \in Sure
  BY <1>2, SureLasts DEF Lasting, now
<1>5. CASE Client
  <2>1. todo # <<>>
    BY <1>5, AtIs
       DEF Client, New, CanConnect, CanPlayers, CanDB, Run, ConnectStep, Disconnect, Exit, Forget,
           SetStep, Mix, Scan, WaitStep, SaveStep, CheckStep, JudgeStep, Ask, Branch, Souvenir,
           Model, WaitDoneStep, Notified, Compared, DumpDB, Titles, Tags, PrintReport, RestoreFlags
  <2>2. UNCHANGED <<here, todo>> \/ (Moves /\ Typed')
    BY <1>1, <1>2, <1>4, <1>5, <2>1, ClientMoves
  <2>3. ASSUME Moves, Typed' PROVE here' \in State /\ <<here', todo'>> \in Sure
    <3>1. PICK w : Puts(here, now, w) /\ todo' = w \o Tail(todo)
      BY <2>3 DEF Moves, Puts1
    <3>2. Becomes(here, now, here') /\ here' \in State
      BY <1>3, <2>3 DEF Moves
    <3> QED
      BY <1>4, <2>1, <3>1, <3>2
  <2> QED
    BY <1>2, <2>2, <2>3
<1>6. CASE ScanEnds
  BY <1>2, <1>3, <1>4, <1>6, ScanEndsMoves
<1>7. CASE Idle \/ UNCHANGED vars
  BY <1>2, <1>7 DEF Idle, vars, here, clientVars, noteVars, linkVars, serverVars
<1> QED
  BY <1>5, <1>6, <1>7 DEF Next

LEMMA FirstIs == ASSUME Init, MixerFindsSound PROVE initial \in FirstSettings
<1>1. PICK flags \in [{authorize, groupdiscs} -> {0, 1}], muted \in MutedAtStart :
             initial = InitialSetting(flags, muted)
  BY DEF Init
<1>2. /\ initial \in [Setting -> {0, 1, 3}]
      /\ \A x \in {authorize, groupdiscs} : x \in Setting => initial[x] \in {0, 1}
  <2>1. flags \in [{authorize, groupdiscs} -> {0, 1}] /\ DOMAIN flags = {authorize, groupdiscs}
    BY <1>1
  <2>2. initial = [x \in Setting |-> initial[x]]
    BY <1>1 DEF InitialSetting
  <2>3. \A x \in Setting : x \in {authorize, groupdiscs} => initial[x] = flags[x]
    <3>1. ASSUME NEW x \in Setting, x \in {authorize, groupdiscs} PROVE initial[x] = flags[x]
      BY <1>1, <2>1, <3>1 DEF authorize, groupdiscs, InitialSetting
    <3> QED
      BY <3>1
  <2>4. \A x \in Setting : x \notin {authorize, groupdiscs} => initial[x] \in {0, 1, 3}
    BY <1>1, <2>1 DEF InitialSetting
  <2>5. \A x \in {authorize, groupdiscs} : flags[x] \in {0, 1}
    BY <1>1
  <2> HIDE DEF authorize, groupdiscs
  <2> QED
    BY <2>2, <2>3, <2>4, <2>5
<1>3. \A j \in 1 .. Players, s \in Attr : <<j, s>> \in Setting /\ <<j, s>> \notin {authorize, groupdiscs}
  BY DEF Setting, authorize, groupdiscs
<1>4. ASSUME NEW j \in 1 .. Players
      PROVE  /\ MixerTested => initial[<<j, "muting">>] = 0
             /\ initial[<<j, "doublesize">>] \in {0, 1}
  <2> DEFINE m == <<j, "muting">>
             d == <<j, "doublesize">>
  <2>1. /\ m \in Setting /\ m \notin {authorize, groupdiscs}
        /\ d \in Setting /\ d \notin {authorize, groupdiscs}
    BY <1>3 DEF Attr
  <2>2. m[2] = "muting" /\ d[2] = "doublesize" /\ m # <<1, "doublesize">>
    OBVIOUS
  <2>3. MixerTested => muted = {}
    BY <1>1 DEF MixerFindsSound
  <2> HIDE DEF m, d
  <2>4. MixerTested => initial[m] = 0
    BY <1>1, <2>1, <2>2, <2>3 DEF InitialSetting
  <2>5. initial[d] \in {0, 1}
    BY <1>1, <2>1, <2>2 DEF InitialSetting
  <2> QED
    BY <2>4, <2>5 DEF m, d
<1>5. authorize \in Setting /\ groupdiscs \in Setting
  BY DEF Setting, Pref, authorize, groupdiscs
<1>6. initial \in [Setting -> Int] /\ \A x \in Setting : initial[x] >= 0
  BY <1>2
<1> QED
  BY <1>2, <1>4, <1>5, <1>6 DEF FirstSettings

LEMMA RunInit == ASSUME MixerFindsSound PROVE Init => RunInv
<1> SUFFICES ASSUME Init PROVE here \in State /\ <<here, todo>> \in Sure
  BY DEF RunInv
<1>1. CliInv /\ initial \in FirstSettings
  BY InitInv, FirstIs
<1>2. /\ todo = main(plan) /\ plan \in Plans
      /\ setting = initial /\ memo = [x \in Setting |-> 0] /\ answer = 0
      /\ total = [songs |-> 0, playlists |-> 0] /\ dump = [found |-> 0, blank |-> 0]
      /\ gcli = FALSE /\ logged = FALSE /\ gRestoreGroupDisc = FALSE
      /\ gtest_db = [t \in Test |-> None]
  BY DEF Init
<1>3. Typed
  BY <1>1, <1>2 DEF Typed, FirstSettings
<1>4. here \in State
  BY <1>1, <1>3, HereState
<1>5. Blameless(here)
  BY <1>2, HereIs DEF Blameless, None, Failed, Skipped
<1>6. Bound(here, {}) /\ AllOrNone(here)
  BY <1>2, <1>5, HereIs DEF Bound, AllOrNone, Kept
<1>7. here \in Calm(plan)
  BY <1>2, <1>4, <1>6, HereIs DEF Calm
<1> QED
  BY <1>2, <1>4, <1>7, MainSure

LEMMA RunHolds == ASSUME MixerFindsSound PROVE Spec => [](CliInv /\ RunInv)
<1> QED
  BY InitInv, RunInit, InvStep, RunStep, PTL DEF Spec

LEMMA RunRight ==
  ASSUME CliInv, RunInv, drops = 0
  PROVE  here \in State /\ Fine(here) /\ (todo = <<>> => Ended(here))
<1>1. here \in State /\ <<here, todo>> \in Sure /\ todo \in Program
  BY DEF RunInv, CliInv, Walking
<1> QED
  BY <1>1, SureLasts DEF Lasting

\* "if security is enabled, it will disable it just long enough to test" (:26):
\* while no connection is lost the server asks for a login outside
\* testConnectDisconnect if and only if it did at the beginning; where a plan has
\* the mixer's test, for players that are not muted when the run starts.
THEOREM SecurityOnlyInTestCorrect ==
  ASSUME MixerFindsSound PROVE Spec => []SecurityOnlyInTest
<1>1. CliInv /\ RunInv => SecurityOnlyInTest
  BY RunRight, HereIs DEF SecurityOnlyInTest, Fine
<1> QED
  BY <1>1, RunHolds, PTL

\* "Tests normally restore state" (:20): a run that has lost no connection leaves
\* the settings as it has found them, whatever tests it was to run, in whatever
\* order, but for the players' power, what they were synchronized with and the
\* volume that testPlayersSleep sets.  Where a plan has the mixer's test no player
\* is muted when the run starts: that test would not put its sound back.
THEOREM RestoredCorrect ==
  ASSUME MixerFindsSound PROVE Spec => []Restored
<1>1. CliInv /\ RunInv => Restored
  <2> SUFFICES ASSUME CliInv, RunInv, todo = <<>>, drops = 0, NEW x \in Setting, ~Left(x)
               PROVE  setting[x] = initial[x]
    BY DEF Restored, Finished
  <2>1. \A y \in Kept(plan) \cup {groupdiscs} : setting[y] = initial[y]
    BY RunRight, HereIs DEF Ended
  <2>2. x \in Kept(plan) \cup {groupdiscs}
    BY DEF Left, Kept
  <2> QED
    BY <2>1, <2>2
<1> QED
  BY <1>1, RunHolds, PTL

\* A server that does what the tests expect is not blamed (test_SubTest, and what
\* test_canConnect, test_canPlayers and test_canDB skip): while no connection is
\* lost no test fails, but that of a scan which ends before it is looked at, and
\* none is skipped but for want of a user to log in with or of a song.  Where a
\* plan has the mixer's test no player is muted when the run starts: that test
\* would fail.
THEOREM ConformingPassesCorrect ==
  ASSUME MixerFindsSound PROVE Spec => []ConformingPasses
<1>1. CliInv /\ RunInv => ConformingPasses
  BY RunRight, HereIs DEF ConformingPasses, Fine, Blameless
<1> QED
  BY <1>1, RunHolds, PTL
=============================================================================
