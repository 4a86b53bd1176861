---------------------------- MODULE Mov123Proofs ----------------------------
(***************************************************************************)
(* A conversion skips no sample and loses none, for every track and length *)
(* of the movie, every way GetData may split it, whether or not it ends on *)
(* a unit of the time scale, every converter and every fault.              *)
(***************************************************************************)
EXTENDS Mov123, SequenceTheorems, TLAPS

-----------------------------------------------------------------------------
(* Whole units, and what a read of them does to the samples in line. *)

LEMMA Sizes ==
  /\ Samples \in Nat /\ Unit \in Nat \ {0} /\ Durations \subseteq Nat
  /\ GetSizes \subseteq Nat \ {0} /\ DurationPerSample \in Nat
  /\ OutSize \in Nat \ {0} /\ Delay \in Nat
  BY SizeAssumption

\* What convertTime cuts off is less than a unit.
LEMMA CutOff ==
  ASSUME NEW k \in Nat
  PROVE  /\ convertTime(k) \in Nat
         /\ convertTime(k) * Unit <= k /\ k < convertTime(k) * Unit + Unit
<1> DEFINE q == k \div Unit
<1>1. Unit \in Nat \ {0}
  BY Sizes
<1>2. k = Unit * q + (k % Unit) /\ q \in Nat /\ k % Unit \in 0 .. Unit - 1
  BY <1>1
<1>3. Unit * q = q * Unit /\ q * Unit \in Nat
  BY <1>1, <1>2
<1> HIDE DEF q
<1>4. q * Unit <= k /\ k < q * Unit + Unit
  BY <1>1, <1>2, <1>3
<1> QED
  BY <1>2, <1>4 DEF q, convertTime

LEMMA Times ==
  ASSUME NEW a \in Nat, NEW b \in Nat
  PROVE  /\ a * Unit \in Nat /\ (a + b) * Unit = a * Unit + b * Unit
         /\ a >= b => a * Unit >= b * Unit
<1>1. Unit \in Nat
  BY Sizes
<1> QED
  BY <1>1

LEMMA FromRun ==
  ASSUME NEW t \in Nat, NEW k \in Nat, t * Unit + k <= Samples
  PROVE  /\ From(t, k) \in Seq(Sample) /\ Len(From(t, k)) = k
         /\ \A j \in 1 .. k : From(t, k)[j] = t * Unit + j
<1> DEFINE n == t * Unit
<1>1. n \in Nat
  BY Times
<1>2. From(t, k) = [j \in 1 .. k |-> n + j]
  BY DEF From
<1>3. n + k <= Samples
  OBVIOUS
<1> HIDE DEF n
<1>4. \A j \in 1 .. k : n + j \in Sample
  BY <1>1, <1>3, Sizes DEF Sample
<1>5. From(t, k) \in Seq(Sample) /\ Len(From(t, k)) = k
  BY <1>2, <1>4
<1>6. \A j \in 1 .. k : From(t, k)[j] = n + j
  BY <1>2
<1> QED
  BY <1>5, <1>6 DEF n

LEMMA Next2 == ASSUME NEW s \in Seq(Nat), s # <<>> PROVE Len(s) \in Nat \ {0} /\ s[Len(s)] \in Nat
  OBVIOUS

\* Samples that follow on are joined to those in line.
LEMMA JoinedConcat ==
  ASSUME NEW s \in Seq(Nat), NEW t \in Seq(Nat), s # <<>>, Joined(s),
         NEW n \in Nat, \A j \in 1 .. Len(t) : t[j] = n + j,
         n <= s[Len(s)], s[Len(s)] < n + Unit
  PROVE  /\ s \o t \in Seq(Nat) /\ s \o t # <<>> /\ Joined(s \o t)
         /\ (s \o t)[Len(s \o t)] = IF t = <<>> THEN s[Len(s)] ELSE n + Len(t)
<1> DEFINE r == s \o t
<1>1. Len(s) \in Nat \ {0} /\ s[Len(s)] \in Nat /\ Len(t) \in Nat /\ Unit \in Nat \ {0}
  BY Next2, Sizes
<1>2. /\ r \in Seq(Nat) /\ Len(r) = Len(s) + Len(t)
      /\ \A j \in 1 .. Len(s) : r[j] = s[j]
      /\ \A j \in 1 .. Len(t) : r[Len(s) + j] = t[j]
  OBVIOUS
<1> HIDE DEF r
<1>3. ASSUME NEW j \in 1 .. Len(r) - 1 PROVE r[j + 1] \in r[j] + 2 - Unit .. r[j] + 1
  <2>1. CASE j < Len(s)
    <3>1. j \in 1 .. Len(s) - 1 /\ j + 1 \in 1 .. Len(s) /\ j \in 1 .. Len(s)
      BY <1>1, <2>1
    <3> QED
      BY <1>2, <3>1 DEF Joined
  <2>2. CASE j = Len(s)
    <3>1. j \in 1 .. Len(s) /\ 1 \in 1 .. Len(t)
      BY <1>1, <1>2, <2>2
    <3>2. r[j] = s[Len(s)] /\ r[j + 1] = n + 1
      BY <1>2, <2>2, <3>1
    <3> QED
      BY <1>1, <3>2
  <2>3. CASE j > Len(s)
    <3> DEFINE i == j - Len(s)
    <3>1. i \in 1 .. Len(t) /\ i + 1 \in 1 .. Len(t) /\ j = Len(s) + i
      BY <1>1, <1>2, <2>3
    <3> HIDE DEF i
    <3>2. r[j] = n + i /\ r[j + 1] = n + (i + 1)
      <4>1. r[Len(s) + i] = n + i
        BY <1>2, <3>1
      <4>2. r[Len(s) + (i + 1)] = n + (i + 1) /\ Len(s) + (i + 1) = j + 1
        BY <1>1, <1>2, <3>1
      <4> QED
        BY <3>1, <4>1, <4>2
    <3> QED
      BY <1>1, <3>1, <3>2
  <2> QED
    BY <1>1, <2>1, <2>2, <2>3
<1>4. CASE t = <<>>
  <2>1. Len(t) = 0 /\ Len(r) = Len(s) /\ Len(s) \in 1 .. Len(s) /\ r # <<>>
    BY <1>1, <1>2, <1>4
  <2> QED
    BY <1>2, <1>3, <1>4, <2>1 DEF Joined, r
<1>5. CASE t # <<>>
  <2>1. Len(t) \in 1 .. Len(t) /\ r # <<>>
    BY <1>1, <1>2, <1>5
  <2>2. r[Len(r)] = n + Len(t)
    BY <1>1, <1>2, <2>1
  <2> QED
    BY <1>2, <1>3, <1>5, <2>1, <2>2 DEF Joined, r
<1> QED
  BY <1>4, <1>5

\* What has been written of samples in line leaves a line.
LEMMA JoinedRest ==
  ASSUME NEW o \in Nat, NEW p \in Seq(Nat), NEW c \in Seq(Nat), NEW q,
         q = IF p = <<>> THEN o ELSE p[Len(p)]
  PROVE  /\ Joined(<<o>> \o p \o c) => Joined(<<q>> \o c)
         /\ LET a == <<o>> \o p \o c  b == <<q>> \o c IN a[Len(a)] = b[Len(b)]
<1> DEFINE a == <<o>> \o p \o c
           b == <<q>> \o c
<1>1. q \in Nat /\ Len(p) \in Nat /\ Len(c) \in Nat
  OBVIOUS
<1>2. b \in Seq(Nat) /\ Len(b) = 1 + Len(c) /\ b[1] = q
      /\ \A j \in 1 .. Len(c) : b[1 + j] = c[j]
  BY <1>1
<1>3. a \in Seq(Nat) /\ Len(a) = 1 + Len(p) + Len(c) /\ a[1] = o
      /\ (\A j \in 1 .. Len(p) : a[1 + j] = p[j])
      /\ \A j \in 1 .. Len(c) : a[1 + Len(p) + j] = c[j]
  BY <1>1
<1> HIDE DEF a, b
<1>4. a[1 + Len(p)] = q
  <2>1. CASE p = <<>>
    BY <1>3, <2>1
  <2>2. CASE p # <<>>
    <3>1. Len(p) \in 1 .. Len(p)
      BY <1>1, <2>2
    <3> QED
      BY <1>3, <2>2, <3>1
  <2> QED
    BY <2>1, <2>2
<1>5. \A j \in 1 .. Len(b) : b[j] = a[Len(p) + j]
  <2> SUFFICES ASSUME NEW j \in 1 .. Len(b) PROVE b[j] = a[Len(p) + j]
    OBVIOUS
  <2>1. CASE j = 1
    BY <1>1, <1>2, <1>4, <2>1
  <2>2. CASE j # 1
    <3> DEFINE i == j - 1
    <3>1. i \in 1 .. Len(c) /\ 1 + i = j /\ 1 + Len(p) + i = Len(p) + j
      BY <1>1, <1>2, <2>2
    <3> HIDE DEF i
    <3>2. b[1 + i] = c[i] /\ a[1 + Len(p) + i] = c[i]
      BY <1>2, <1>3, <3>1
    <3> QED
      BY <3>1, <3>2
  <2> QED
    BY <2>1, <2>2
<1>6. ASSUME Joined(a) PROVE Joined(b)
  <2> SUFFICES ASSUME NEW j \in 1 .. Len(b) - 1
               PROVE  b[j + 1] \in b[j] + 2 - Unit .. b[j] + 1
    BY DEF Joined
  <2> DEFINE i == Len(p) + j
  <2>1. /\ i \in 1 .. Len(a) - 1 /\ i + 1 = Len(p) + (j + 1)
        /\ j \in 1 .. Len(b) /\ j + 1 \in 1 .. Len(b)
    <3>1. Len(a) - 1 = Len(p) + (Len(b) - 1) /\ Len(b) \in Nat /\ j \in Nat
      BY <1>1, <1>2, <1>3
    <3> QED
      BY <1>1, <3>1
  <2>2. b[j] = a[i] /\ b[j + 1] = a[Len(p) + (j + 1)]
    BY <1>5, <2>1
  <2> HIDE DEF i
  <2>3. a[i + 1] \in a[i] + 2 - Unit .. a[i] + 1
    BY <1>6, <2>1 DEF Joined
  <2> QED
    BY <2>1, <2>2, <2>3
<1>7. a[Len(a)] = b[Len(b)]
  <2>1. Len(b) \in 1 .. Len(b) /\ Len(p) + Len(b) = Len(a)
    BY <1>1, <1>2, <1>3
  <2> QED
    BY <1>5, <2>1
<1> QED
  BY <1>6, <1>7 DEF a, b

-----------------------------------------------------------------------------
(* The inductive invariant.  Between the last sample written and the last one  *)
(* fetched nothing is missing, and the time of the callback is the last whole  *)
(* unit that has been fetched.                                                 *)

Types ==
  /\ pc \in {"open", "setup", "fill", "write", "end", "rest", "exit"}
  /\ err \in BOOLEAN /\ failed \in BOOLEAN /\ dry \in BOOLEAN /\ isSoundDone \in BOOLEAN
  /\ duration \in Durations /\ currentTime \in Nat /\ isThereMoreSource \in BOOLEAN
  /\ buffer \in Seq(Sample) /\ conv \in Seq(Sample) /\ chunk \in Seq(Sample)
  /\ out \in {0} \cup Sample

\* The last sample fetched is in the unit before currentTime, or reaches beyond it
\* by less than a unit.
Fetched(s) ==
  Joined(s) /\ currentTime * Unit <= s[Len(s)] /\ s[Len(s)] < currentTime * Unit + Unit

InLine == pc # "exit" /\ DurationPerSample = 1 => Fetched(Line)

\* The callback has said that there is no more because the movie or its track is at
\* the end, or because GetData failed; short of the movie's end there is no buffer to
\* hand over again.
SourceEnd ==
  ~isThereMoreSource => \/ currentTime >= duration
                        \/ buffer = <<>> /\ (failed \/ currentTime * Unit >= Samples)

\* The loop is left only by a converter that has been told so.
LoopEnd ==
  /\ dry => ~isThereMoreSource
  /\ pc = "write" /\ isSoundDone => dry
  /\ pc \in {"end", "rest"} => dry
  /\ pc = "rest" => conv = <<>>

IInv == Types /\ InLine /\ SourceEnd /\ LoopEnd /\ AllConverted

LEMMA SampleNat == Sample \subseteq Nat /\ {0} \cup Sample \subseteq Nat /\ Seq(Sample) \subseteq Seq(Nat)
<1>1. Sample \subseteq Nat /\ {0} \cup Sample \subseteq Nat
  BY Sizes DEF Sample
<1>2. ASSUME NEW s \in Seq(Sample) PROVE s \in Seq(Nat)
  BY <1>1, SeqMonotonic
<1> QED
  BY <1>1, <1>2

LEMMA TypesNat ==
  ASSUME Types
  PROVE  /\ buffer \in Seq(Nat) /\ conv \in Seq(Nat) /\ chunk \in Seq(Nat)
         /\ Pending \in Seq(Nat) /\ out \in Nat /\ duration \in Nat
         /\ currentTime \in Nat /\ currentTime * Unit \in Nat
<1>1. <<>> \in Seq(Nat)
  OBVIOUS
<1>2. /\ buffer \in Seq(Nat) /\ conv \in Seq(Nat) /\ chunk \in Seq(Nat)
      /\ out \in Nat
  BY SampleNat DEF Types
<1>3. Pending \in Seq(Nat)
  BY <1>1, <1>2, Zenon DEF Pending
<1>4. duration \in Nat /\ currentTime \in Nat /\ currentTime * Unit \in Nat
  BY Sizes, Times DEF Types
<1> QED
  BY <1>2, <1>3, <1>4

\* With nothing pending the line is the last sample written and the converter.
LEMMA NoPending == ASSUME out \in Nat, conv \in Seq(Nat), Pending = <<>> PROVE Line = <<out>> \o conv
  BY DEF Line

LEMMA InitInv == Init => IInv
<1> SUFFICES ASSUME Init PROVE IInv
  OBVIOUS
<1>0. \A S : <<>> \in Seq(S)
  OBVIOUS
<1>1. Types
  BY <1>0 DEF Init, Types
<1>2. InLine
  <2>1. Pending = <<>> /\ out = 0 /\ conv = <<>> /\ currentTime = 0
    BY DEF Init, Pending
  <2>2. Line = <<0>> /\ Len(Line) = 1 /\ Line[1] = 0
    BY <2>1 DEF Line
  <2>3. 0 * Unit = 0 /\ 0 * Unit + Unit > 0
    BY Sizes
  <2>4. Joined(Line)
    BY <2>2 DEF Joined
  <2> QED
    BY <2>1, <2>2, <2>3, <2>4 DEF InLine, Fetched
<1> QED
  BY <1>1, <1>2 DEF Init, IInv, SourceEnd, LoopEnd, AllConverted

\* One answer of the callback: the buffer holds samples of the track that follow on
\* those fetched before.
LEMMA FillBufferDataStep ==
  ASSUME Types, SourceEnd, FillBufferData
  PROVE  /\ currentTime' \in Nat /\ isThereMoreSource' \in BOOLEAN
         /\ failed' \in BOOLEAN /\ buffer' \in Seq(Sample)
         /\ \A j \in 1 .. Len(buffer') : buffer'[j] = currentTime * Unit + j
         /\ buffer' = <<>> => currentTime' = currentTime
         /\ buffer' # <<>> /\ DurationPerSample = 1 =>
              /\ currentTime' * Unit <= currentTime * Unit + Len(buffer')
              /\ currentTime * Unit + Len(buffer') < currentTime' * Unit + Unit
         /\ duration' = duration => SourceEnd'
<1> DEFINE n == currentTime * Unit
<1>1. /\ currentTime \in Nat /\ isThereMoreSource \in BOOLEAN /\ duration \in Nat
      /\ failed \in BOOLEAN /\ buffer \in Seq(Sample) /\ n \in Nat
  BY TypesNat DEF Types
<1>2. ASSUME UNCHANGED currentTime, buffer' = <<>>
      PROVE  /\ currentTime' \in Nat /\ buffer' \in Seq(Sample)
             /\ \A j \in 1 .. Len(buffer') : buffer'[j] = n + j
  <2>1. <<>> \in Seq(Sample) /\ Len(<<>>) = 0
    OBVIOUS
  <2> QED
    BY <1>1, <1>2, <2>1
<1>3. CASE /\ PastEnd
           /\ isThereMoreSource' = FALSE /\ buffer' = <<>>
           /\ UNCHANGED <<currentTime, failed>>
  BY <1>1, <1>2, <1>3 DEF SourceEnd, PastEnd
<1>4. CASE /\ ~PastEnd /\ isThereMoreSource /\ Rest > 0
           /\ \E k \in GetSizes : Get(Least(k, Rest))
           /\ UNCHANGED failed
  <2>1. PICK g \in GetSizes : Get(Least(g, Rest))
    BY <1>4
  <2> DEFINE k == Least(g, Rest)
  <2>2. Rest \in Nat \ {0} /\ Rest = Samples - n /\ g \in Nat \ {0}
    <3>1. Rest = Samples - n
      BY DEF Rest
    <3> HIDE DEF n
    <3> QED
      BY <1>1, <1>4, <3>1, Sizes
  <2>3. k \in Nat \ {0} /\ n + k <= Samples
    <3> HIDE DEF n
    <3> QED
      BY <1>1, <2>2, Sizes DEF Least
  <2>4. /\ currentTime' = currentTime + convertTime(k) * DurationPerSample
        /\ isThereMoreSource' = (currentTime' < duration)
        /\ buffer' = From(currentTime, k)
    BY <2>1 DEF Get
  <2> HIDE DEF k
  <2>5. /\ convertTime(k) \in Nat
        /\ convertTime(k) * Unit <= k /\ k < convertTime(k) * Unit + Unit
    BY <2>3, CutOff
  <2>6. currentTime' \in Nat
    BY <1>1, <2>4, <2>5, Sizes
  <2>7. /\ buffer' \in Seq(Sample) /\ Len(buffer') = k
        /\ \A j \in 1 .. k : buffer'[j] = n + j
    BY <1>1, <2>3, <2>4, FromRun
  <2>8. buffer' # <<>>
    BY <2>3, <2>7
  <2>9. ASSUME DurationPerSample = 1
        PROVE  currentTime' * Unit <= n + k /\ n + k < currentTime' * Unit + Unit
    <3>1. currentTime' = currentTime + convertTime(k)
      BY <2>4, <2>5, <2>9
    <3>2. currentTime' * Unit = n + convertTime(k) * Unit /\ convertTime(k) * Unit \in Nat
      BY <1>1, <2>5, <3>1, Times
    <3> HIDE DEF n
    <3> DEFINE c == convertTime(k) * Unit
    <3>3. /\ currentTime' * Unit = n + c /\ c \in Nat /\ c <= k /\ k < c + Unit
      BY <2>5, <3>2
    <3> HIDE DEF c
    <3> QED
      BY <1>1, <2>3, <3>3, Sizes
  <2>10. duration' = duration => SourceEnd'
    <3>1. currentTime' < duration \/ currentTime' >= duration
      BY <1>1, <2>6
    <3> QED
      BY <2>4, <3>1 DEF SourceEnd
  <2> QED
    BY <1>1, <1>4, <2>4, <2>6, <2>7, <2>8, <2>9, <2>10
<1>5. CASE /\ ~PastEnd /\ isThereMoreSource
           /\ \/ Rest <= 0 /\ UNCHANGED failed
              \/ "get" \in Faults /\ failed' = TRUE
           /\ isThereMoreSource' = FALSE /\ buffer' = <<>>
           /\ UNCHANGED currentTime
  <2>1. failed' \/ n >= Samples
    <3>1. Rest = Samples - n
      BY DEF Rest
    <3> HIDE DEF n
    <3> QED
      BY <1>1, <1>5, <3>1, Sizes
  <2>2. SourceEnd'
    BY <1>5, <2>1 DEF SourceEnd
  <2> QED
    BY <1>1, <1>2, <1>5, <2>2
<1>6. CASE /\ ~PastEnd /\ ~isThereMoreSource
           /\ UNCHANGED <<currentTime, isThereMoreSource, buffer, failed>>
  <2>1. buffer' = <<>>
    BY <1>1, <1>6 DEF SourceEnd, PastEnd
  <2> QED
    BY <1>1, <1>2, <1>6, <2>1 DEF SourceEnd
<1> QED
  BY <1>3, <1>4, <1>5, <1>6 DEF FillBufferData

-----------------------------------------------------------------------------
(* Every step preserves it. *)

LEMMA AskStep == IInv /\ AskForSource => IInv'
<1> SUFFICES ASSUME IInv, AskForSource PROVE IInv'
  OBVIOUS
<1> USE DEF IInv
<1> DEFINE n == currentTime * Unit
<1>1. /\ pc = "fill" /\ pc' = "fill" /\ FillBufferData
      /\ conv' = conv \o buffer' /\ dry' = ~isThereMoreSource'
      /\ UNCHANGED <<err, duration, chunk, isSoundDone, out>>
  BY DEF AskForSource
<1>2. /\ currentTime' \in Nat /\ isThereMoreSource' \in BOOLEAN
      /\ failed' \in BOOLEAN /\ buffer' \in Seq(Sample)
      /\ \A j \in 1 .. Len(buffer') : buffer'[j] = n + j
      /\ buffer' = <<>> => currentTime' = currentTime
      /\ buffer' # <<>> /\ DurationPerSample = 1 =>
           /\ currentTime' * Unit <= n + Len(buffer')
           /\ n + Len(buffer') < currentTime' * Unit + Unit
      /\ SourceEnd'
  BY <1>1, FillBufferDataStep
<1>3. /\ conv \in Seq(Sample) /\ conv' \in Seq(Sample) /\ out \in Nat /\ out' = out
      /\ conv \in Seq(Nat) /\ conv' \in Seq(Nat) /\ buffer' \in Seq(Nat) /\ n \in Nat
  BY <1>1, <1>2, TypesNat, SampleNat DEF Types
<1>4. Types'
  BY <1>1, <1>2, <1>3 DEF Types
<1>5. InLine'
  <2> SUFFICES ASSUME DurationPerSample = 1 PROVE Fetched(Line)'
    BY DEF InLine
  <2> DEFINE s == <<out>> \o conv
  <2>1. Pending = <<>> /\ Pending' = <<>>
    BY <1>1 DEF Pending
  <2>2. Line = s /\ Line' = <<out'>> \o conv'
    BY <1>3, <2>1, NoPending DEF Line
  <2>3. s \in Seq(Nat) /\ s # <<>> /\ Line' = s \o buffer'
    BY <1>1, <1>3, <2>2
  <2>4. Joined(s) /\ n <= s[Len(s)] /\ s[Len(s)] < n + Unit
    BY <1>1, <2>2 DEF InLine, Fetched
  <2> HIDE DEF s, n
  <2>5. /\ Joined(s \o buffer')
        /\ (s \o buffer')[Len(s \o buffer')]
             = IF buffer' = <<>> THEN s[Len(s)] ELSE n + Len(buffer')
    BY <1>2, <1>3, <2>3, <2>4, JoinedConcat
  <2>6. Joined(Line') /\ Line'[Len(Line')] = IF buffer' = <<>> THEN s[Len(s)] ELSE n + Len(buffer')
    BY <2>3, <2>5
  <2>7. currentTime' * Unit <= Line'[Len(Line')] /\ Line'[Len(Line')] < currentTime' * Unit + Unit
    <3>1. CASE buffer' = <<>>
      BY <1>2, <2>4, <2>6, <3>1 DEF n
    <3>2. CASE buffer' # <<>>
      BY <1>2, <2>6, <3>2
    <3> QED
      BY <3>1, <3>2
  <2> QED
    BY <2>6, <2>7 DEF Fetched, Joined
<1>6. LoopEnd'
  BY <1>1 DEF LoopEnd
<1> QED
  BY <1>1, <1>2, <1>4, <1>5, <1>6 DEF AllConverted

\* The line does not notice where it is cut into written, pending and kept back.
LEMMA SameLine ==
  ASSUME InLine, pc # "exit", Line' = Line, currentTime' = currentTime
  PROVE  InLine'
  BY DEF InLine, Fetched, Joined

LEMMA Concat ==
  ASSUME NEW a \in Seq(Nat), NEW b \in Seq(Nat)
  PROVE  /\ a \o b \in Seq(Nat) /\ Len(a \o b) = Len(a) + Len(b)
         /\ \A j \in 1 .. Len(a) : (a \o b)[j] = a[j]
         /\ \A j \in 1 .. Len(b) : (a \o b)[Len(a) + j] = b[j]
<1>1. a \o b \in Seq(Nat) /\ Len(a \o b) = Len(a) + Len(b)
  OBVIOUS
<1>2. \A j \in 1 .. Len(a) : (a \o b)[j] = a[j]
  OBVIOUS
<1>3. \A j \in 1 .. Len(b) : (a \o b)[Len(a) + j] = b[j]
  OBVIOUS
<1> QED
  BY <1>1, <1>2, <1>3

LEMMA Cut ==
  ASSUME NEW s \in Seq(Nat), NEW m \in 0 .. Len(s)
  PROVE  s = SubSeq(s, 1, m) \o SubSeq(s, m + 1, Len(s))
<1> DEFINE a == SubSeq(s, 1, m)
           b == SubSeq(s, m + 1, Len(s))
<1>0. Len(s) \in Nat /\ m \in Nat /\ 1 .. Len(s) \subseteq Nat
  OBVIOUS
<1>1. a \in Seq(Nat) /\ Len(a) = m /\ \A j \in 1 .. m : a[j] = s[j]
  OBVIOUS
<1>2. /\ b \in Seq(Nat) /\ Len(b) = Len(s) - m
      /\ \A j \in 1 .. Len(b) : b[j] = s[m + j]
  OBVIOUS
<1> HIDE DEF a, b
<1>3. /\ a \o b \in Seq(Nat) /\ Len(a \o b) = Len(a) + Len(b)
      /\ \A j \in 1 .. Len(a) : (a \o b)[j] = a[j]
      /\ \A j \in 1 .. Len(b) : (a \o b)[Len(a) + j] = b[j]
  BY <1>1, <1>2, Concat
<1>4. ASSUME NEW j \in 1 .. Len(s) PROVE (a \o b)[j] = s[j]
  <2>1. CASE j <= m
    <3>1. j \in 1 .. m /\ j \in 1 .. Len(a)
      BY <1>0, <1>1, <2>1
    <3> QED
      BY <1>1, <1>3, <3>1
  <2>2. CASE j > m
    <3> DEFINE i == j - m
    <3>1. i \in 1 .. Len(b) /\ m + i = j
      BY <1>0, <1>2, <2>2
    <3> HIDE DEF i
    <3>2. (a \o b)[m + i] = b[i] /\ b[i] = s[m + i]
      BY <1>1, <1>2, <1>3, <3>1
    <3> QED
      BY <3>1, <3>2
  <2>3. j \in Nat
    BY <1>0
  <2>4. j <= m \/ j > m
    BY <1>0, <2>3
  <2> QED
    BY <2>1, <2>2, <2>4
<1>5. Len(a \o b) = Len(s)
  BY <1>0, <1>1, <1>2, <1>3
<1> QED
  BY <1>3, <1>4, <1>5, SeqEqual DEF a, b

LEMMA FillStep == IInv /\ FillBuffer => IInv'
<1> SUFFICES ASSUME IInv, FillBuffer PROVE IInv'
  OBVIOUS
<1> USE DEF IInv
<1>1. /\ pc = "fill" /\ pc' = "write"
      /\ chunk' = SubSeq(conv, 1, Ready) /\ conv' = SubSeq(conv, Ready + 1, Len(conv))
      /\ isSoundDone' = (dry /\ Len(conv) - Ready <= Delay)
      /\ UNCHANGED <<err, failed, duration, currentTime, isThereMoreSource, buffer, dry, out>>
  BY DEF FillBuffer, sourceVars
<1>2. conv \in Seq(Sample) /\ conv \in Seq(Nat) /\ out \in Nat
  BY TypesNat DEF Types
<1>3. Ready \in 0 .. Len(conv)
  BY <1>2, Sizes DEF Ready, Least
<1>4. /\ chunk' \in Seq(Sample) /\ conv' \in Seq(Sample)
      /\ chunk' \in Seq(Nat) /\ conv' \in Seq(Nat)
      /\ conv = chunk' \o conv'
  <2> DEFINE m == Ready
             a == SubSeq(conv, 1, m)
             b == SubSeq(conv, m + 1, Len(conv))
  <2>1. m \in 0 .. Len(conv) /\ Len(conv) \in Nat
    BY <1>2, <1>3
  <2> HIDE DEF m
  <2>2. a \in Seq(Sample) /\ b \in Seq(Sample)
    BY <1>2, <2>1
  <2>3. conv = a \o b
    BY <1>2, <2>1, Cut
  <2> QED
    BY <1>1, <2>2, <2>3, SampleNat DEF m
<1>5. Types'
  BY <1>1, <1>4 DEF Types
<1>6. InLine'
  <2>1. Pending = <<>> /\ Pending' = chunk'
    BY <1>1 DEF Pending
  <2>2. Line = <<out>> \o conv
    BY <1>2, <2>1, NoPending
  <2>3. Line' = <<out>> \o chunk' \o conv'
    BY <1>1, <2>1 DEF Line
  <2>4. Line' = Line
    BY <1>2, <1>4, <2>2, <2>3
  <2> QED
    BY <1>1, <2>4, SameLine
<1>7. LoopEnd'
  BY <1>1 DEF LoopEnd, Types
<1> QED
  BY <1>1, <1>5, <1>6, <1>7 DEF AllConverted, SourceEnd

\* What a successful fwrite leaves in line.
LEMMA WrittenLine ==
  ASSUME IInv, pc \in {"write", "rest"}, Written, Pending' = <<>>,
         UNCHANGED <<currentTime, conv, chunk>>
  PROVE  /\ out' \in {0} \cup Sample
         /\ DurationPerSample = 1 => Fetched(Line) /\ Fetched(Line)'
         /\ Line' = <<out'>> \o conv
<1> USE DEF IInv
<1>1. /\ chunk \in Seq(Sample) /\ chunk \in Seq(Nat) /\ conv \in Seq(Nat)
      /\ out \in Nat /\ out \in {0} \cup Sample
  BY TypesNat DEF Types
<1>2. out' = IF chunk = <<>> THEN out ELSE chunk[Len(chunk)]
  BY DEF Written
<1>3. out' \in {0} \cup Sample /\ out' \in Nat
  <2>1. CASE chunk = <<>>
    BY <1>1, <1>2, <2>1
  <2>2. CASE chunk # <<>>
    <3>1. Len(chunk) \in 1 .. Len(chunk)
      BY <1>1, <2>2
    <3> QED
      BY <1>1, <1>2, <2>2, <3>1, SampleNat
  <2> QED
    BY <2>1, <2>2
<1>4. Line = <<out>> \o chunk \o conv
  BY DEF Line, Pending
<1>5. Line' = <<out'>> \o conv
  <2>1. Line' = <<out'>> \o <<>> \o conv
    BY DEF Line
  <2> QED
    BY <1>1, <1>3, <2>1
<1>6. /\ Joined(Line) => Joined(Line')
      /\ Line[Len(Line)] = Line'[Len(Line')]
  BY <1>1, <1>2, <1>4, <1>5, JoinedRest
<1> QED
  BY <1>3, <1>5, <1>6 DEF InLine, Fetched, Joined

LEMMA WriteStep == IInv /\ WriteOutput => IInv'
<1> SUFFICES ASSUME IInv, WriteOutput PROVE IInv'
  OBVIOUS
<1> USE DEF IInv
<1>1. /\ pc = "write"
      /\ UNCHANGED <<duration, currentTime, isThereMoreSource, buffer, conv, dry, chunk, isSoundDone>>
  BY DEF WriteOutput, sourceVars
<1>2. CASE Written /\ pc' = (IF isSoundDone THEN AfterLoop ELSE "fill")
           /\ UNCHANGED <<err, failed>>
  <2>1. pc' \in {"end", "fill"} /\ (pc' = "end" => isSoundDone)
    BY <1>2 DEF AfterLoop
  <2>2. Pending' = <<>>
    BY <2>1 DEF Pending
  <2>3. /\ out' \in {0} \cup Sample
        /\ DurationPerSample = 1 => Fetched(Line)'
    BY <1>1, <1>2, <2>2, WrittenLine
  <2>4. Types'
    BY <1>1, <1>2, <2>1, <2>3 DEF Types
  <2>5. InLine'
    BY <2>3 DEF InLine
  <2>6. LoopEnd'
    BY <1>1, <1>2, <2>1 DEF LoopEnd
  <2> QED
    BY <1>1, <1>2, <2>1, <2>4, <2>5, <2>6 DEF AllConverted, SourceEnd
<1>3. CASE Bail(err) /\ UNCHANGED out
  BY <1>1, <1>3 DEF Bail, Types, InLine, LoopEnd, AllConverted, SourceEnd
<1> QED
  BY <1>2, <1>3 DEF WriteOutput

LEMMA EndStep == IInv /\ EndConversion => IInv'
<1> SUFFICES ASSUME IInv, EndConversion PROVE IInv'
  OBVIOUS
<1> USE DEF IInv
<1>1. /\ pc = "end" /\ pc' = "rest" /\ chunk' = conv /\ conv' = <<>>
      /\ UNCHANGED <<err, failed, duration, currentTime, isThereMoreSource, buffer, dry, isSoundDone, out>>
  BY DEF EndConversion, sourceVars
<1>2. \A S : <<>> \in Seq(S)
  OBVIOUS
<1>3. Types'
  BY <1>1, <1>2 DEF Types
<1>4. InLine'
  <2>1. Pending = <<>> /\ Pending' = conv /\ conv \in Seq(Nat) /\ out \in Nat
    BY <1>1, TypesNat DEF Pending
  <2>2. Line = <<out>> \o conv
    BY <2>1, NoPending
  <2>3. Line' = <<out>> \o conv \o <<>>
    BY <1>1, <2>1 DEF Line
  <2>4. Line' = Line
    BY <2>1, <2>2, <2>3
  <2> QED
    BY <1>1, <2>4, SameLine
<1>5. LoopEnd'
  BY <1>1 DEF LoopEnd
<1> QED
  BY <1>1, <1>3, <1>4, <1>5 DEF AllConverted, SourceEnd

\* The rest is written: with it all that there is, unless something failed.
LEMMA RestStep == IInv /\ WriteRest => IInv'
<1> SUFFICES ASSUME IInv, WriteRest PROVE IInv'
  OBVIOUS
<1> USE DEF IInv
<1>1. /\ pc = "rest" /\ pc' = "exit"
      /\ UNCHANGED <<duration, currentTime, isThereMoreSource, buffer, conv, dry, chunk, isSoundDone>>
  BY DEF WriteRest, sourceVars, Bail
<1>2. CASE Written /\ pc' = "exit" /\ UNCHANGED <<err, failed>>
  <2>1. Pending' = <<>>
    BY <1>1 DEF Pending
  <2>2. /\ out' \in {0} \cup Sample /\ (DurationPerSample = 1 => Fetched(Line)')
        /\ Line' = <<out'>> \o conv
    BY <1>1, <1>2, <2>1, WrittenLine
  <2>3. AllConverted'
    <3> SUFFICES ASSUME ~failed, DurationPerSample = 1
                 PROVE  out' >= Least(Samples, duration * Unit)
      BY <1>1, <1>2 DEF AllConverted
    <3> DEFINE n == currentTime * Unit
    <3>1. out' \in Nat /\ n \in Nat /\ duration \in Nat /\ currentTime \in Nat
      BY <2>2, TypesNat, SampleNat
    <3>2. Line' = <<out'>>
      BY <1>1, <2>2, <3>1 DEF LoopEnd
    <3>3. n <= out'
      <4>1. Len(Line') = 1 /\ Line'[1] = out'
        BY <3>2
      <4>2. currentTime' * Unit <= Line'[Len(Line')]
        BY <2>2 DEF Fetched
      <4> QED
        BY <1>1, <4>1, <4>2
    <3>4. currentTime >= duration \/ n >= Samples
      BY <1>1 DEF LoopEnd, SourceEnd
    <3>5. duration * Unit \in Nat /\ (currentTime >= duration => n >= duration * Unit)
      BY <3>1, Times
    <3> DEFINE d == duration * Unit
    <3> HIDE DEF n, d
    <3>6. out' >= Least(Samples, d)
      BY <3>1, <3>3, <3>4, <3>5, Sizes DEF Least, d
    <3> QED
      BY <3>6 DEF d
  <2>4. Types'
    BY <1>1, <1>2, <2>2 DEF Types
  <2> QED
    BY <1>1, <1>2, <2>3, <2>4 DEF InLine, LoopEnd, SourceEnd
<1>3. CASE Bail(err) /\ UNCHANGED out
  BY <1>1, <1>3 DEF Bail, Types, InLine, LoopEnd, AllConverted, SourceEnd
<1> QED
  BY <1>2, <1>3 DEF WriteRest

LEMMA NextInv == IInv /\ [Next]_vars => IInv'
<1> SUFFICES ASSUME IInv, [Next]_vars PROVE IInv'
  OBVIOUS
<1> USE DEF IInv
<1>1. CASE OpenMovie \/ OpenConverter
  <2>1. UNCHANGED <<duration, currentTime, isThereMoreSource, buffer, conv, dry, chunk, isSoundDone, out>>
    BY <1>1 DEF OpenMovie, OpenConverter, sourceVars
  <2>2. /\ pc \in {"open", "setup"} /\ err' \in BOOLEAN
        /\ \/ pc' \in {"setup", "fill"} /\ failed' = failed
           \/ pc' = "exit" /\ failed' = TRUE
    BY <1>1 DEF OpenMovie, OpenConverter, Bail, Types
  <2>3. Pending = <<>> /\ Pending' = <<>>
    BY <2>2 DEF Pending
  <2>4. Types'
    BY <2>1, <2>2 DEF Types
  <2>5. InLine'
    BY <2>1, <2>2, <2>3, SameLine DEF Line
  <2> QED
    BY <2>1, <2>2, <2>4, <2>5 DEF LoopEnd, AllConverted, SourceEnd
<1>2. CASE AskForSource
  BY <1>2, AskStep
<1>3. CASE FillBuffer
  BY <1>3, FillStep
<1>4. CASE FillBufferFails
  BY <1>4 DEF FillBufferFails, Bail, sourceVars,
              Types, InLine, LoopEnd, AllConverted, SourceEnd
<1>5. CASE WriteOutput
  BY <1>5, WriteStep
<1>6. CASE EndConversion
  BY <1>6, EndStep
<1>7. CASE WriteRest
  BY <1>7, RestStep
<1>8. CASE UNCHANGED vars
  <2>1. /\ UNCHANGED <<pc, err, failed, conv, dry, chunk, isSoundDone, out>>
        /\ UNCHANGED <<duration, currentTime, isThereMoreSource, buffer>>
    BY <1>8 DEF vars, sourceVars
  <2>2. InLine'
    BY <2>1, SameLine DEF Line, Pending, InLine
  <2> QED
    BY <2>1, <2>2 DEF Types, LoopEnd, AllConverted, SourceEnd
<1> QED
  BY <1>1, <1>2, <1>3, <1>4, <1>5, <1>6, <1>7, <1>8 DEF Next, Exited

THEOREM Invariant == Spec => []IInv
  BY InitInv, NextInv, PTL DEF Spec

\* Every buffer of the conversion holds samples of the track
\* (SoundConverterFillBufferDataProc), also where a read does not end on a unit, and
\* where the movie says that it is longer than the track.
THEOREM TypeCorrect == Spec => []TypeOK
<1>1. IInv => TypeOK
  BY DEF IInv, Types, TypeOK
<1> QED
  BY <1>1, Invariant, PTL

\* From the last sample written to the last one fetched no sample of the track is
\* skipped, and fewer than Unit are repeated where a read does not end on a unit
\* (line 194 cuts the time off), for every track, every size GetData may return and
\* whatever the converter keeps back.
THEOREM NoSampleSkipped == Spec => []NoneSkipped
<1>1. IInv => NoneSkipped
  BY DEF IInv, InLine, Fetched, NoneSkipped
<1> QED
  BY <1>1, Invariant, PTL

\* A conversion that comes to its end without a failure has written the track to its
\* end, or to that of a movie that is shorter: main's exit after EndConversion and the
\* last fwrite.
THEOREM WholeTrackConverted == Spec => []AllConverted
<1>1. IInv => AllConverted
  BY DEF IInv
<1> QED
  BY <1>1, Invariant, PTL
=============================================================================
