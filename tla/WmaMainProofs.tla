--------------------------- MODULE WmaMainProofs ----------------------------
(***************************************************************************)
(* wmadec's objects live as long as they are used, and the format set is   *)
(* the best the file has: for every command line, file and fault.          *)
(***************************************************************************)
EXTENDS WmaMain, GetOptProofs

\* Before the objects are made, and after main has let go of them.
Before  == {"options", "usage", "output", "header", "crash", "reader"}
After   == {"close", "return", "exited"}

\* The references of _tmain.
MainRefs(o) ==
  IF pc \in Before \cup After \/ (o = "stream" /\ (pc = "releaseReader" \/ source # "stdin"))
  THEN 0 ELSE 1

\* A count is of main's references and those of the SDK.
RefInv ==
  /\ source \in {"file", "stdin"}
  /\ cRef \in [Object -> Int] /\ held \in [Object -> Nat]
  /\ \A o \in Object : cRef[o] = held[o] + MainRefs(o)
  /\ pc \in Before \cup {"init"} => deleted = {} /\ \A o \in Object : held[o] = 0
  /\ deleted \subseteq Object /\ \A o \in deleted : cRef[o] = 0

\* The choice among the first n formats.
Matches(k) == Formats[k].pcm /\ Formats[k].channels = dwNumChannels
Best(n) ==
  /\ chosen \in 0 .. n
  /\ chosen = 0 => \A k \in 1 .. n : ~Formats[k].pcm
  /\ chosen # 0 => /\ Formats[chosen].pcm
                   /\ \/ Matches(chosen)
                      \/ \A k \in 1 .. n : ~Matches(k) /\ (k < chosen => ~Formats[k].pcm)
                   /\ makeStereo <=> (Formats[chosen].channels = 1 /\ dwNumChannels = 2)

FormatInv ==
  /\ Formats \in Seq([pcm : BOOLEAN, channels : Nat \ {0}])
  /\ i \in Nat /\ makeStereo \in BOOLEAN
  /\ pc \in Before \cup {"init", "waitOpen", "outputs"} => chosen = 0
  /\ pc = "formats" => i <= Len(Formats) /\ Best(i)
  /\ pc \in {"start", "waitEnd"} => Best(Len(Formats)) /\ chosen # 0
  /\ sdk \in {"starting", "running"} => Best(Len(Formats)) /\ chosen # 0

\* Main has left StartReading.
Returned == {"release", "releaseReader"} \cup After

\* How far the reader is when main waits for it, and what the event then means.
StageInv ==
  /\ sdk \in {"none", "opening", "open", "starting", "running", "failed", "eof", "closed"}
  /\ event \in BOOLEAN
  /\ pc \in Before \cup {"init"} => sdk = "none" /\ ~event
  /\ pc = "waitOpen" => /\ sdk \in {"opening", "open", "failed"}
                        /\ sdk = "opening" => ~event
                        /\ event => (Failed(hrAsync) <=> sdk # "open")
  /\ pc \in {"outputs", "formats", "start"} => sdk = "open" /\ ~event
  /\ pc = "waitEnd" => /\ sdk \in {"starting", "running", "failed", "eof"}
                       /\ sdk = "starting" => ~event
                       /\ event /\ ~Failed(hrAsync) => sdk = "eof"
  /\ sdk \in {"eof", "closed"} => pos = Len(Tracks)
  /\ pc \in Returned /\ ~Failed(result) => sdk = "closed"
  /\ file = "closed" => pc \in {"return", "exited"}

\* The samples up to n.
Samples(n) == [n : 1 .. n, channels : Nat]

\* What is in the file: the samples of the chosen output that the reader has given.
FileInv ==
  /\ pos \in 0 .. Len(Tracks) /\ lost \subseteq 1 .. pos
  /\ sdk \in {"none", "opening", "open", "starting"} => pos = 0 /\ out = <<>> /\ lost = {}
  /\ out \in Seq(Samples(pos))
  /\ file # "none" => {out[k].n : k \in DOMAIN out} = {n \in 1 .. pos : IsOurs(n)} \ lost
  /\ \A k, l \in DOMAIN out : k < l => out[k].n < out[l].n

\* The rest of the types.
NumberInv ==
  /\ Outputs \in OutputLists /\ Formats \in FormatLists
  /\ result \in HResult /\ hrAsync \in HResult
  /\ dwOutputNum \in {NoOutput} \cup 0 .. Len(Outputs) - 1 /\ chosen \in 0 .. Len(Formats)
  /\ qwReaderTime \in Nat /\ clock \in 0 .. qwReaderTime
  /\ sdk \in {"none", "opening", "open", "starting"} => clock = 0 /\ qwReaderTime = 0
  /\ held \in [Object -> 0 .. 2]
  /\ file \in {"none", "stdout", "open", "closed"}
  /\ pc \in Before \cup {"init", "waitOpen", "outputs", "formats", "start", "waitEnd"} \cup Returned

\* The options, from the line or by default, and the header made of them.
OptionInv ==
  /\ OptInv /\ optarg \in Seq(Character)
  /\ wBitsPerSample \in 0 .. Word16 - 1
  /\ dwSamplesPerSec \in 0 .. Dword - 1 /\ dwNumChannels \in 0 .. Dword - 1
  /\ dwPCMBytes \in 0 .. Dword - 1
  /\ pOutputFile \in BOOLEAN /\ bQuiet \in BOOLEAN /\ bWaveHeaders \in BOOLEAN /\ bUsage \in BOOLEAN
  /\ bUsage \/ wBitsPerSample \in {8, 16}
  /\ pc \notin {"options", "usage"} => ~bUsage
  /\ header # <<>> => header = WaveHeader /\ pc \notin {"options", "usage", "output", "header"}

\* Once there are samples in the file the format is chosen, and they have its channels,
\* or two when doubled.
ChannelInv ==
  /\ out # <<>> => Best(Len(Formats)) /\ chosen # 0
  /\ \A k \in DOMAIN out :
       out[k].channels = IF makeStereo THEN 2 ELSE Formats[chosen].channels

-----------------------------------------------------------------------------
(* The objects. *)

\* Steps that leave the counts and what main holds of them.
LEMMA RefsKept ==
  ASSUME RefInv, UNCHANGED <<refVars, source>>,
         pc' = pc \/ (pc \in Before /\ pc' \in Before)
           \/ (pc \in After /\ pc' \in After)
           \/ (pc \notin Before \cup After \cup {"releaseReader"}
               /\ pc' \notin Before \cup After \cup {"init", "releaseReader"})
  PROVE  RefInv'
BY DEF RefInv, refVars, MainRefs, Before, After, Object

\* Each step keeps the counts: a new reference and its count are one step.
LEMMA RefStep == RefInv /\ [MainNext]_wmaVars => RefInv'
<1> SUFFICES ASSUME RefInv, [MainNext]_wmaVars PROVE RefInv'
  OBVIOUS
<1> USE DEF setVars
<1>1. CASE Option \/ OpenOutput \/ WriteWaveHeader \/ NoHeader \/ HeaderNowhere
  BY <1>1, RefsKept DEF Option, OpenOutput, WriteWaveHeader, NoHeader, HeaderNowhere, Before
<1>2. CASE NewReader
  BY <1>2 DEF NewReader, AddRef, RefInv, MainRefs, Before, After, Object
<1>3. CASE Decode
  <2>1. CASE UNCHANGED refVars
    BY <1>3, <2>1, RefsKept DEF Decode, InitFails, Return, Before, After
  <2>2. CASE /\ pc' = "waitOpen" /\ AddRef(InUse)
             /\ held' = [o \in Object |-> IF o \in InUse THEN 1 ELSE 0] /\ UNCHANGED deleted
    <3>1. /\ pc = "init" /\ UNCHANGED source
          /\ \A o \in Object : cRef'[o] = IF o \in InUse THEN cRef[o] + 1 ELSE cRef[o]
          /\ \A o \in Object : held'[o] = IF o \in InUse THEN 1 ELSE 0
      BY <1>3, <2>2 DEF Decode, AddRef
    <3>2. cRef' \in [Object -> Int] /\ held' \in [Object -> Nat]
      BY <2>2 DEF AddRef, RefInv
    <3>3. \A o \in Object : cRef'[o] = held'[o] + MainRefs(o)'
      BY <2>2, <3>1 DEF RefInv, MainRefs, Before, After
    <3>4. deleted = {}
      BY <3>1 DEF RefInv, MainRefs, InUse, Object, Before, After
    <3> QED
      BY <2>2, <3>1, <3>2, <3>3, <3>4 DEF RefInv, Before
  <2> QED
    BY <1>3, <2>1, <2>2 DEF Decode
<1>4. CASE WaitOpen \/ FindOutput \/ PropsFail \/ ChooseFormat \/ StartReading \/ WaitEnd
  BY <1>4, RefsKept DEF WaitOpen, FindOutput, PropsFail, ChooseFormat, StartReading, WaitEnd, Return,
     Before, After
<1>5. CASE ReleaseObjects
  <2>1. CASE pc = "release" /\ source = "stdin"
    <3>1. Release("stream") /\ pc' = "releaseReader" /\ UNCHANGED <<held, source>>
      BY <1>5, <2>1 DEF ReleaseObjects
    <3> QED
      BY <2>1, <3>1 DEF Release, RefInv, MainRefs, Before, After, Object
  <2>2. CASE ~(pc = "release" /\ source = "stdin")
    <3>1. Release("reader") /\ pc' = "close" /\ UNCHANGED <<held, source>>
      BY <1>5, <2>2 DEF ReleaseObjects
    <3> QED
      BY <1>5, <2>2, <3>1 DEF ReleaseObjects, Release, RefInv, MainRefs, Before, After, Object
  <2> QED
    BY <2>1, <2>2
<1>6. CASE CloseFile \/ Exit
  BY <1>6, RefsKept DEF CloseFile, Exit, After
<1>7. CASE SdkStep \/ SdkError \/ SdkStreamFails
  BY <1>7, RefsKept DEF SdkStep, SdkError, SdkStreamFails, SdkOpened, SdkStarted, SdkSample, SdkTime,
     SdkEof, mainVars
<1>8. CASE SdkQuery
  <2>0. UNCHANGED <<pc, source, deleted>> /\ held["reader"] = 1
    BY <1>8 DEF SdkQuery, mainVars
  <2>a. cRef' \in [Object -> Int]
    BY <1>8 DEF SdkQuery, AddRef, RefInv, Object
  <2>b. held' \in [Object -> Nat]
    BY <1>8 DEF SdkQuery, RefInv
  <2>1. /\ cRef' \in [Object -> Int] /\ held' \in [Object -> Nat] /\ UNCHANGED <<pc, source, deleted>>
        /\ held["reader"] = 1
    BY <2>0, <2>a, <2>b
  <2>2. \A o \in Object : cRef'[o] = held'[o] + MainRefs(o)'
    BY <1>8, <2>1 DEF SdkQuery, AddRef, RefInv, MainRefs, Before, After, Object
  <2>3. "reader" \notin deleted
    BY <2>1 DEF RefInv, MainRefs, Object
  <2>4. \A o \in deleted : cRef'[o] = 0
    BY <1>8, <2>3 DEF SdkQuery, AddRef, RefInv, Object
  <2> QED
    BY <2>1, <2>2, <2>4 DEF RefInv, Before, Object
<1>9. ASSUME NEW o \in Object, SdkLetsGo(o) PROVE RefInv'
  BY <1>9 DEF SdkLetsGo, Release, RefInv, MainRefs, Before, After, Object, mainVars
<1>10. CASE UNCHANGED wmaVars
  BY <1>10, RefsKept DEF wmaVars, vars, mainVars
<1> QED
  BY <1>1, <1>2, <1>3, <1>4, <1>5, <1>6, <1>7, <1>8, <1>9, <1>10
     DEF MainNext, _tmain, MainStep, Sdk, SdkOther, Ended

\* Neither main nor the SDK touches an object that has deleted itself.
THEOREM AliveInUseCorrect == MainSpec => []AliveInUse
<1>1. MainInit => RefInv
  BY DEF MainInit, ReaderInit, RefInv, MainRefs, Before, After, Object
<1>2. RefInv => AliveInUse
  BY DEF RefInv, AliveInUse, MainRefs, Before, After, InUse, Object
<1> QED
  BY <1>1, <1>2, RefStep, PTL DEF MainSpec

-----------------------------------------------------------------------------
(* The stages of the reading. *)

\* Steps before the reading, and after it.
LEMMA StageKept ==
  ASSUME StageInv, UNCHANGED <<sdk, event, pos>>,
         \/ UNCHANGED <<pc, hrAsync, result, file>>
         \/ pc \in Before /\ pc' \in Before \cup {"init"} /\ file' # "closed"
         \/ pc \in Returned /\ pc' \in Returned /\ UNCHANGED result
            /\ (file' = "closed" => pc' \in {"return", "exited"})
         \/ pc' = "release" /\ Failed(result') /\ UNCHANGED file /\ pc \notin {"return", "exited"}
  PROVE  StageInv'
BY DEF StageInv, Before, Returned, After, Failed

\* While the reader reads it signals failures only.
LEMMA StageReads ==
  ASSUME StageInv, UNCHANGED <<pc, result, file>>,
         sdk \in {"starting", "running"}, sdk' \in {"running", "failed"},
         UNCHANGED <<event, hrAsync>> \/ Signal("E_FAIL")
  PROVE  StageInv'
<1>1. pc = "waitEnd" \/ (pc \in Returned /\ Failed(result))
      \/ pc \notin Before \cup {"init", "waitOpen", "outputs", "formats", "start", "waitEnd"} \cup Returned
  BY DEF StageInv
<1>2. event' \in BOOLEAN /\ (event' /\ pc = "waitEnd" => Failed(hrAsync'))
  <2>1. CASE Signal("E_FAIL")
    BY <2>1 DEF Signal, Failed
  <2>2. CASE UNCHANGED <<event, hrAsync>>
    <3>1. event \in BOOLEAN /\ (event /\ pc = "waitEnd" => Failed(hrAsync))
      BY DEF StageInv
    <3> QED
      BY <2>2, <3>1 DEF Failed
  <2> QED
    BY <2>1, <2>2
<1> QED
  BY <1>1, <1>2 DEF StageInv, Before, Returned, After, Failed

\* Each step of main finds the reader where the wait before it has left it.
LEMMA StageStep == StageInv /\ [MainNext]_wmaVars => StageInv'
<1> SUFFICES ASSUME StageInv, [MainNext]_wmaVars PROVE StageInv'
  OBVIOUS
<1> USE DEF given, mainVars, asyncVars, readerVars, fileVars, setVars
<1>1. CASE Option \/ WriteWaveHeader \/ NoHeader \/ HeaderNowhere \/ NewReader
  BY <1>1, StageKept DEF Option, WriteWaveHeader, NoHeader, HeaderNowhere, NewReader, Before, StageInv
<1>2. CASE OpenOutput
  BY <1>2, StageKept DEF OpenOutput, Before
<1>3. CASE Decode
  BY <1>3 DEF Decode, InitFails, Return, StageInv, Before, Returned, After, Failed
<1>4. CASE WaitOpen
  BY <1>4 DEF WaitOpen, Return, StageInv, Before, Returned, After, Failed
<1>5. CASE FindOutput
  BY <1>5 DEF FindOutput, Return, StageInv, Before, Returned, After, Failed
<1>6. CASE PropsFail
  BY <1>6 DEF PropsFail, Return, StageInv, Before, Returned, After, Failed
<1>7. CASE ChooseFormat
  BY <1>7 DEF ChooseFormat, Return, StageInv, Before, Returned, After, Failed
<1>8. CASE StartReading
  BY <1>8 DEF StartReading, Return, StageInv, Before, Returned, After, Failed
<1>9. CASE WaitEnd
  BY <1>9 DEF WaitEnd, Return, StageInv, Before, Returned, After, Failed
<1>10. CASE ReleaseObjects
  BY <1>10, StageKept DEF ReleaseObjects, Returned, After, StageInv
<1>11. CASE CloseFile \/ Exit
  BY <1>11, StageKept DEF CloseFile, Exit, Returned, After
<1>12. CASE SdkOpened
  BY <1>12 DEF SdkOpened, OnOpened, Signal, StageInv, Before, Returned, After, Failed
<1>13. CASE SdkStarted
  BY <1>13, StageReads DEF SdkStarted, OnStarted, DeliverTime
<1>14. CASE SdkSample
  BY <1>14, StageReads DEF SdkSample, OnSample
<1>15. CASE SdkTime
  BY <1>15, StageReads DEF SdkTime, OnTime, DeliverTime
<1>16. CASE SdkEof
  BY <1>16 DEF SdkEof, Signal, StageInv, Before, Returned, After, Failed
<1>17. CASE SdkError
  BY <1>17, StageReads DEF SdkError
<1>18. CASE SdkStreamFails
  BY <1>18 DEF SdkStreamFails, StageInv, Before, Returned, After, Failed
<1>19. CASE SdkQuery \/ \E o \in Object : SdkLetsGo(o)
  BY <1>19, StageKept DEF SdkQuery, SdkLetsGo
<1>20. CASE UNCHANGED wmaVars
  BY <1>20, StageKept DEF wmaVars, vars
<1> QED
  BY <1>1, <1>2, <1>3, <1>4, <1>5, <1>6, <1>7, <1>8, <1>9, <1>10, <1>11, <1>12, <1>13, <1>14, <1>15,
     <1>16, <1>17, <1>18, <1>19, <1>20 DEF MainNext, _tmain, MainStep, Sdk, SdkStep, SdkOther, Ended

LEMMA StageInit == MainInit => StageInv
BY DEF MainInit, ReaderInit, StageInv, Before, Returned, After

\* The second wait returns without failure at the end of the file only, and Close
\* comes before fclose: nothing is written or lost behind it.
THEOREM ClosedLastCorrect == MainSpec => ClosedLast
<1>1. StageInv /\ [MainNext]_wmaVars => [file = "closed" /\ ~Failed(result) => UNCHANGED <<out, lost>>]_vars
  <2> SUFFICES ASSUME StageInv, [MainNext]_wmaVars, file = "closed", ~Failed(result)
               PROVE  UNCHANGED <<out, lost>>
    OBVIOUS
  <2>1. pc \in {"return", "exited"} /\ sdk = "closed"
    BY DEF StageInv, Returned, After
  <2> USE DEF fileVars
  <2>2. CASE MainStep
    BY <2>1, <2>2 DEF MainStep, Decode, WaitOpen, FindOutput, PropsFail, ChooseFormat, StartReading,
       WaitEnd, ReleaseObjects, CloseFile, Exit
  <2>3. CASE SdkStep \/ SdkOther
    BY <2>1, <2>3 DEF SdkStep, SdkOther, SdkError, SdkStreamFails, SdkQuery, SdkLetsGo, SdkOpened,
       SdkStarted, SdkSample, SdkTime, SdkEof
  <2>4. CASE Option \/ OpenOutput \/ WriteWaveHeader \/ NoHeader \/ HeaderNowhere \/ NewReader
    BY <2>1, <2>4 DEF Option, OpenOutput, WriteWaveHeader, NoHeader, HeaderNowhere, NewReader
  <2>5. CASE UNCHANGED wmaVars
    BY <2>5 DEF wmaVars, vars
  <2> QED
    BY <2>2, <2>3, <2>4, <2>5 DEF MainNext, _tmain, Sdk, Ended
<1> QED
  BY <1>1, StageInit, StageStep, PTL DEF MainSpec, ClosedLast

-----------------------------------------------------------------------------
(* The format. *)

\* Steps that leave the choice as it is.
LEMMA FormatKept ==
  ASSUME FormatInv, UNCHANGED <<Formats, choiceVars, i>>,
         sdk' \in {"starting", "running"} => sdk \in {"starting", "running"} /\ UNCHANGED dwNumChannels,
         \/ pc' = pc /\ UNCHANGED dwNumChannels
         \/ pc' \in Before \cup {"init"} /\ pc \in Before
         \/ pc' \in Returned
  PROVE  FormatInv'
<1>1. UNCHANGED dwNumChannels => \A n \in Nat : Best(n)' <=> Best(n)
  BY DEF Best, Matches, choiceVars
<1>2. Len(Formats) \in Nat
  BY DEF FormatInv
<1> HIDE DEF Best
<1> QED
  BY <1>1, <1>2 DEF FormatInv, choiceVars, Before, Returned, After

\* One more format looked at.
LEMMA ChooseStep == StageInv /\ FormatInv /\ ChooseFormat => FormatInv'
<1> SUFFICES ASSUME StageInv, FormatInv, ChooseFormat PROVE FormatInv'
  OBVIOUS
<1> USE DEF given, asyncVars, setVars, Before
<1>0. /\ i \in 0 .. Len(Formats) /\ Best(i) /\ UNCHANGED <<Formats, dwNumChannels>>
      /\ Formats \in Seq([pcm : BOOLEAN, channels : Nat \ {0}]) /\ makeStereo \in BOOLEAN
      /\ sdk' \notin {"starting", "running"}
  BY DEF StageInv, FormatInv, ChooseFormat
<1>1. CASE i < Len(Formats)
  <2>0. pc' = "formats" /\ i' = i + 1 /\ i + 1 \in 1 .. Len(Formats)
    BY <1>0, <1>1 DEF ChooseFormat
  <2>2. CASE Fits(Formats[i + 1])
    <3>1. /\ chosen' = i + 1
          /\ makeStereo' = (Formats[i + 1].channels = 1 /\ dwNumChannels = 2)
      BY <1>1, <2>2 DEF ChooseFormat
    <3>2. Formats[i + 1].pcm /\ (Formats[i + 1].channels = dwNumChannels \/ chosen = 0)
      BY <2>2 DEF Fits
    <3>3. Matches(i + 1) \/ \A k \in 1 .. i + 1 : ~Matches(k) /\ (k < i + 1 => ~Formats[k].pcm)
      BY <1>0, <3>2 DEF Best, Matches
    <3>4. makeStereo' \in BOOLEAN
      BY <3>1, Zenon
    <3>5. Best(i)'
      <4>1. chosen' \in 0 .. i + 1 /\ chosen' # 0
        BY <1>0, <2>0, <3>1
      <4>2. Formats'[chosen'].pcm
        BY <1>0, <3>1, <3>2
      <4>3. Matches(chosen)' \/ \A k \in 1 .. i + 1 : ~Matches(k)' /\ (k < chosen' => ~Formats'[k].pcm)
        BY <1>0, <3>1, <3>3 DEF Matches
      <4>4. makeStereo' <=> (Formats'[chosen'].channels = 1 /\ dwNumChannels' = 2)
        BY <1>0, <3>1
      <4> QED
        BY <2>0, <4>1, <4>2, <4>3, <4>4 DEF Best
    <3> QED
      BY <1>0, <2>0, <3>4, <3>5 DEF FormatInv
  <2>3. CASE ~Fits(Formats[i + 1])
    <3>1. UNCHANGED <<chosen, makeStereo>>
      BY <1>1, <2>3 DEF ChooseFormat
    <3>2. ~Matches(i + 1) /\ (chosen = 0 => ~Formats[i + 1].pcm)
      BY <2>3 DEF Fits, Matches
    <3>3. Best(i + 1)
      BY <1>0, <3>2 DEF Best, Matches
    <3>4. Best(i)' <=> Best(i + 1)
      BY <1>0, <2>0, <3>1 DEF Best, Matches
    <3> QED
      BY <1>0, <2>0, <3>1, <3>3, <3>4 DEF FormatInv
  <2> QED
    BY <2>2, <2>3
<1>2. CASE ~(i < Len(Formats))
  BY <1>0, <1>2 DEF ChooseFormat, Return, FormatInv, Best, Matches
<1> QED
  BY <1>1, <1>2

LEMMA FormatStep == StageInv /\ FormatInv /\ [MainNext]_wmaVars => FormatInv'
<1> SUFFICES ASSUME StageInv, FormatInv, [MainNext]_wmaVars PROVE FormatInv'
  OBVIOUS
<1> USE DEF given, setVars, mainVars
<1>1. CASE Option \/ OpenOutput \/ WriteWaveHeader \/ NoHeader \/ HeaderNowhere \/ NewReader
  BY <1>1, FormatKept DEF Option, OpenOutput, WriteWaveHeader, NoHeader, HeaderNowhere, NewReader, Before, StageInv
<1>2. CASE Decode \/ WaitOpen
  BY <1>2 DEF Decode, WaitOpen, InitFails, Return, StageInv, FormatInv, choiceVars, Before
<1>3. CASE FindOutput
  BY <1>3 DEF FindOutput, GoesOn, Return, StageInv, FormatInv, Best, Before
<1>4. CASE ChooseFormat
  BY <1>4, ChooseStep
<1>5. CASE StartReading
  BY <1>5 DEF StartReading, Return, FormatInv, choiceVars, Best, Matches, Before
<1>6. CASE PropsFail \/ WaitEnd \/ ReleaseObjects \/ CloseFile \/ Exit
  BY <1>6, FormatKept DEF PropsFail, WaitEnd, ReleaseObjects, CloseFile, Exit, Return, Returned, After
<1>7. CASE SdkStep \/ SdkOther
  BY <1>7, FormatKept DEF SdkStep, SdkOther, SdkError, SdkStreamFails, SdkQuery, SdkLetsGo, SdkOpened,
     SdkStarted, SdkSample, SdkTime, SdkEof
<1>8. CASE UNCHANGED wmaVars
  BY <1>8, FormatKept DEF wmaVars, vars
<1> QED
  BY <1>1, <1>2, <1>3, <1>4, <1>5, <1>6, <1>7, <1>8 DEF MainNext, _tmain, MainStep, Sdk, Ended

LEMMA FormatInit == MainInit => FormatInv
<1> SUFFICES ASSUME MainInit PROVE FormatInv
  OBVIOUS
<1>1. /\ Formats \in FormatLists /\ pc = "options" /\ i = 0 /\ sdk = "none"
      /\ chosen = 0 /\ makeStereo = FALSE
  BY DEF MainInit, ReaderInit
<1>2. Formats \in Seq([pcm : BOOLEAN, channels : Nat \ {0}])
  BY <1>1, FileAssumption
<1> QED
  BY <1>1, <1>2 DEF FormatInv, Before

\* Whatever formats the file lists and in which order, the one set has the channels
\* asked for when any has, and mono is doubled exactly when it must be.
THEOREM RightFormatCorrect == MainSpec => []RightFormat
<1>1. FormatInv => RightFormat
  BY DEF FormatInv, Best, Matches, RightFormat
<1> QED
  BY <1>1, StageInit, FormatInit, StageStep, FormatStep, PTL DEF MainSpec
-----------------------------------------------------------------------------
(* The file. *)

\* Steps that give no sample: the output is looked for before the first.
LEMMA FileKept ==
  ASSUME FileInv, UNCHANGED <<pos, out, lost>>,
         UNCHANGED <<dwOutputNum, file>> \/ sdk \in {"none", "opening", "open", "starting"}
           \/ (UNCHANGED dwOutputNum /\ (file' # "none" => file # "none")),
         sdk' \in {"none", "opening", "open", "starting"} =>
           sdk \in {"none", "opening", "open", "starting"}
  PROVE  FileInv'
<1>1. CASE sdk \in {"none", "opening", "open", "starting"}
  BY <1>1 DEF FileInv, IsOurs
<1>2. CASE sdk \notin {"none", "opening", "open", "starting"}
  BY <1>2 DEF FileInv, IsOurs
<1> QED
  BY <1>1, <1>2

\* A sequence of elements of a set is one of a larger set.
LEMMA SeqOfMore == ASSUME NEW S, NEW T, S \subseteq T, NEW s \in Seq(S) PROVE s \in Seq(T)
<1>1. Len(s) \in Nat /\ s \in [1 .. Len(s) -> T]
  OBVIOUS
<1> QED
  BY <1>1

LEMMA SeqFunction == ASSUME NEW S, NEW s \in Seq(S), NEW n, Len(s) = n PROVE s \in [1 .. n -> S]
OBVIOUS

LEMMA SeqElement == ASSUME NEW S, NEW s \in Seq(S), NEW k \in 1 .. Len(s) PROVE s[k] \in S
OBVIOUS

LEMMA MoreSamples ==
  ASSUME NEW a \in Nat, NEW b \in Nat, a <= b PROVE Seq(Samples(a)) \subseteq Seq(Samples(b))
<1>1. Samples(a) \subseteq Samples(b)
  BY DEF Samples
<1> QED
  BY <1>1, SeqOfMore

\* A sample goes to the file, is lost on the way or is of another output.
LEMMA SampleStep ==
  ASSUME FileInv, FormatInv, SdkSample
  PROVE  FileInv'
<1> DEFINE n == pos + 1
<1>0. /\ sdk = "running" /\ sdk' = sdk /\ n \in 1 .. Len(Tracks) /\ pos' = n /\ OnSample(n)
      /\ UNCHANGED <<dwOutputNum, file>> /\ n \notin lost /\ Len(Tracks) \in Nat
  BY FileAssumption DEF SdkSample, Due, FileInv, choiceVars
<1>1. lost' \subseteq 1 .. pos' /\ pos \in Nat /\ n \in Nat
  <2>1. lost' = lost \/ lost' = lost \cup {n}
    BY <1>0 DEF OnSample
  <2>2. pos \in Nat /\ lost \subseteq 1 .. pos
    BY DEF FileInv
  <2>3. pos' = n /\ n \in Nat /\ n \in 1 .. n /\ 1 .. pos \subseteq 1 .. n
    BY <1>0, <2>2
  <2> HIDE DEF n
  <2> QED
    BY <2>1, <2>2, <2>3
<1>2. ASSUME UNCHANGED out,
             file # "none" => {m \in 1 .. n : IsOurs(m)} \ lost' = {m \in 1 .. pos : IsOurs(m)} \ lost
      PROVE  FileInv'
  <2>1. out' \in Seq(Samples(pos'))
    BY <1>0, <1>1, <1>2, MoreSamples DEF FileInv
  <2> QED
    BY <1>0, <1>1, <1>2, <2>1 DEF FileInv, IsOurs
<1>3. CASE UNCHANGED <<out, lost>> /\ (Tracks[n] # dwOutputNum \/ file = "none")
  BY <1>0, <1>2, <1>3 DEF IsOurs, FileInv
<1>4. CASE UNCHANGED out /\ lost' = lost \cup {n}
  BY <1>0, <1>2, <1>4 DEF FileInv
<1>5. CASE /\ Tracks[n] = dwOutputNum /\ file # "none" /\ UNCHANGED lost
           /\ out' = Append(out, [n |-> n, channels |-> IF makeStereo THEN 2
                                                        ELSE Formats[chosen].channels])
  <2> DEFINE sample == [n |-> n, channels |-> IF makeStereo THEN 2 ELSE Formats[chosen].channels]
  <2>1. sample \in Samples(n) /\ sample.n = n
    <3>1. Formats \in Seq([pcm : BOOLEAN, channels : Nat \ {0}]) /\ chosen \in 1 .. Len(Formats)
      BY <1>0 DEF FormatInv, Best
    <3>2. Formats[chosen] \in [pcm : BOOLEAN, channels : Nat \ {0}]
      BY <3>1, SeqElement
    <3>3. Formats[chosen].channels \in Nat
      BY <3>2
    <3> QED
      BY <1>0, <3>3 DEF Samples
  <2>2. out \in Seq(Samples(n))
    BY <1>1, MoreSamples DEF FileInv
  <2>3. out' \in Seq(Samples(pos'))
    <3>1. out' = Append(out, sample)
      BY <1>5
    <3> HIDE DEF sample
    <3> QED
      BY <1>0, <2>1, <2>2, <3>1
  <2>4. /\ Len(out') = Len(out) + 1 /\ out'[Len(out) + 1].n = n
        /\ \A k \in DOMAIN out : out'[k] = out[k]
        /\ DOMAIN out' = DOMAIN out \cup {Len(out) + 1} /\ DOMAIN out = 1 .. Len(out)
        /\ Len(out) \in Nat
    <3>1. out' = Append(out, sample)
      BY <1>5
    <3> HIDE DEF sample
    <3> QED
      BY <2>1, <2>2, <3>1
  <2> HIDE DEF sample
  <2>5. \A k \in DOMAIN out : out[k].n \in 1 .. pos
    <3>1. out \in Seq(Samples(pos))
      BY DEF FileInv
    <3>2. \A k \in DOMAIN out : out[k] \in Samples(pos)
      BY <3>1
    <3> QED
      BY <3>2 DEF Samples
  <2>6. {out'[k].n : k \in DOMAIN out'} = {m \in 1 .. n : IsOurs(m)} \ lost
    <3>1. {out'[k].n : k \in DOMAIN out'} = {out[k].n : k \in DOMAIN out} \cup {n}
      BY <2>4
    <3>2. {out[k].n : k \in DOMAIN out} = {m \in 1 .. pos : IsOurs(m)} \ lost
      BY <1>5 DEF FileInv
    <3>3. 1 .. n = (1 .. pos) \cup {n} /\ IsOurs(n) /\ n \notin lost
      BY <1>0, <1>1, <1>5 DEF IsOurs
    <3>4. {m \in 1 .. n : IsOurs(m)} \ lost = ({m \in 1 .. pos : IsOurs(m)} \ lost) \cup {n}
      BY <3>3
    <3> QED
      BY <3>1, <3>2, <3>4
  <2>7. \A k, l \in DOMAIN out' : k < l => out'[k].n < out'[l].n
    <3>1. \A k, l \in DOMAIN out : k < l => out[k].n < out[l].n
      BY DEF FileInv
    <3>2. ASSUME NEW k \in DOMAIN out PROVE out'[k].n < n
      BY <1>1, <2>4, <2>5, <3>2
    <3> QED
      BY <1>1, <2>4, <3>1, <3>2
  <2> QED
    BY <1>0, <1>1, <1>5, <2>3, <2>6, <2>7 DEF FileInv, IsOurs
<1> QED
  BY <1>0, <1>3, <1>4, <1>5 DEF OnSample

LEMMA FileStep == StageInv /\ FormatInv /\ FileInv /\ [MainNext]_wmaVars => FileInv'
<1> SUFFICES ASSUME StageInv, FormatInv, FileInv, [MainNext]_wmaVars PROVE FileInv'
  OBVIOUS
<1> USE DEF given, choiceVars, readerVars, fileVars, setVars
<1>1. CASE Option \/ OpenOutput \/ WriteWaveHeader \/ NoHeader \/ HeaderNowhere \/ NewReader
  BY <1>1, FileKept DEF Option, OpenOutput, WriteWaveHeader, NoHeader, HeaderNowhere, NewReader, StageInv, Before
<1>2. CASE Decode
  BY <1>2, FileKept DEF Decode, StageInv
<1>3. CASE WaitOpen \/ FindOutput \/ PropsFail \/ ChooseFormat
  BY <1>3, FileKept DEF WaitOpen, FindOutput, PropsFail, ChooseFormat, StageInv
<1>4. CASE StartReading \/ WaitEnd
  BY <1>4, FileKept DEF StartReading, WaitEnd, StageInv
<1>5. CASE ReleaseObjects \/ CloseFile \/ Exit
  BY <1>5, FileKept DEF ReleaseObjects, CloseFile, Exit
<1>6. CASE SdkSample
  BY <1>6, SampleStep
<1>7. CASE SdkOpened \/ SdkStarted \/ SdkTime
  BY <1>7, FileKept DEF SdkOpened, SdkStarted, SdkTime, OnOpened, OnStarted, OnTime
<1>8. CASE SdkEof \/ SdkError \/ SdkQuery \/ \E o \in Object : SdkLetsGo(o)
  BY <1>8, FileKept DEF SdkEof, SdkError, SdkQuery, SdkLetsGo
<1>9. CASE SdkStreamFails
  <2>1. /\ pos' = Len(Tracks) /\ lost' = lost \cup (pos + 1 .. Len(Tracks))
        /\ sdk' = "running" /\ UNCHANGED <<out, file, dwOutputNum>>
    BY <1>9 DEF SdkStreamFails
  <2>2. Len(Tracks) \in Nat /\ pos \in 0 .. Len(Tracks)
    BY FileAssumption DEF FileInv
  <2>3. out' \in Seq(Samples(pos')) /\ lost' \subseteq 1 .. pos'
    <3>1. out \in Seq(Samples(pos)) /\ lost \subseteq 1 .. pos
      BY DEF FileInv
    <3>2. pos' \in Nat /\ pos <= pos' /\ 1 .. pos \subseteq 1 .. pos' /\ pos + 1 .. pos' \subseteq 1 .. pos'
      BY <2>1, <2>2
    <3>3. out \in Seq(Samples(pos'))
      BY <2>2, <3>1, <3>2, MoreSamples
    <3> QED
      BY <2>1, <3>1, <3>2, <3>3
  <2>4. {n \in 1 .. pos' : IsOurs(n)} \ lost' = {n \in 1 .. pos : IsOurs(n)} \ lost
    BY <2>1, <2>2 DEF FileInv
  <2> QED
    BY <2>1, <2>2, <2>3, <2>4 DEF FileInv, IsOurs
<1>10. CASE UNCHANGED wmaVars
  BY <1>10, FileKept DEF wmaVars, vars
<1> QED
  BY <1>1, <1>2, <1>3, <1>4, <1>5, <1>6, <1>7, <1>8, <1>9, <1>10
     DEF MainNext, _tmain, MainStep, Sdk, SdkStep, SdkOther, Ended

LEMMA FileInit == MainInit => FileInv
<1> SUFFICES ASSUME MainInit PROVE FileInv
  OBVIOUS
<1>1. pos = 0 /\ out = <<>> /\ lost = {} /\ Len(Tracks) \in Nat
  BY FileAssumption DEF MainInit, ReaderInit
<1> QED
  BY <1>1 DEF FileInv

\* A decode that succeeds has read to the end, and the file holds in order what the
\* chosen output has, less the samples that could not be read from stdin, whose buffer
\* could not be had (OnSample returns at 419 without an error of its own), or that
\* fwrite refused or cut short.
THEOREM AllDecodedCorrect == MainSpec => []AllDecoded
<1>1. StageInv /\ FileInv => AllDecoded
  <2> SUFFICES ASSUME StageInv, FileInv, Decoded, file # "none"
               PROVE  /\ {out[k].n : k \in DOMAIN out} = {n \in DOMAIN Tracks : IsOurs(n)} \ lost
                      /\ \A k, l \in DOMAIN out : k < l => out[k].n < out[l].n
    BY DEF AllDecoded
  <2>1. pos = Len(Tracks) /\ DOMAIN Tracks = 1 .. Len(Tracks)
    BY FileAssumption DEF StageInv, Decoded, Returned, After
  <2> QED
    BY <2>1 DEF FileInv
<1> QED
  BY <1>1, StageInit, FormatInit, FileInit, StageStep, FormatStep, FileStep, PTL DEF MainSpec
-----------------------------------------------------------------------------
(* The numbers of the reader. *)

\* Steps that touch none of them.
LEMMA NumberKept ==
  ASSUME NumberInv, UNCHANGED <<given, qwReaderTime, clock, held, dwOutputNum>>,
         chosen' = chosen \/ chosen' \in 1 .. Len(Formats),
         result' \in HResult, hrAsync' \in HResult,
         sdk' \in {"none", "opening", "open", "starting"} =>
           sdk \in {"none", "opening", "open", "starting"},
         file' \in {"none", "stdout", "open", "closed"},
         pc' \in Before \cup {"init", "waitOpen", "outputs", "formats", "start", "waitEnd"} \cup Returned
  PROVE  NumberInv'
BY DEF NumberInv, given

\* One more output looked at.
LEMMA OutputStep == FormatInv /\ NumberInv /\ FindOutput => NumberInv'
<1> SUFFICES ASSUME FormatInv, NumberInv, FindOutput PROVE NumberInv'
  OBVIOUS
<1>1. Len(Outputs) \in Nat /\ i \in Nat
  BY FileAssumption DEF NumberInv, FormatInv
<1>2. dwOutputNum' \in {NoOutput} \cup 0 .. Len(Outputs) - 1
  BY <1>1 DEF FindOutput, NumberInv
<1>3. /\ UNCHANGED <<given, chosen, sdk, qwReaderTime, clock, held, file, hrAsync>>
      /\ result' \in HResult /\ pc' \in {"outputs", "formats", "release"}
  BY DEF FindOutput, Return, readerVars, refVars, fileVars, asyncVars, NumberInv, HResult
<1> QED
  BY <1>2, <1>3 DEF NumberInv, Before, Returned, given

LEMMA NumberStep == StageInv /\ FormatInv /\ NumberInv /\ [MainNext]_wmaVars => NumberInv'
<1> SUFFICES ASSUME StageInv, FormatInv, NumberInv, [MainNext]_wmaVars PROVE NumberInv'
  OBVIOUS
<1>0. result \in HResult /\ hrAsync \in HResult /\ file \in {"none", "stdout", "open", "closed"}
      /\ pc \in Before \cup {"init", "waitOpen", "outputs", "formats", "start", "waitEnd"} \cup Returned
      /\ "E_FAIL" \in HResult /\ "E_INVALIDARG" \in HResult /\ "S_OK" \in HResult
  BY DEF NumberInv, HResult
<1> USE DEF mainVars, choiceVars, asyncVars, readerVars, fileVars, refVars, setVars
<1>1. CASE Option \/ OpenOutput \/ WriteWaveHeader \/ NoHeader \/ HeaderNowhere \/ NewReader
  BY <1>0, <1>1, NumberKept DEF Option, OpenOutput, WriteWaveHeader, NoHeader, HeaderNowhere, NewReader, Before
<1>2. CASE Decode
  <2>1. CASE UNCHANGED refVars
    BY <1>0, <1>2, <2>1, NumberKept DEF Decode, InitFails, Return, StageInv, Returned
  <2>2. CASE /\ pc' = "waitOpen" /\ sdk' = "opening" /\ UNCHANGED result
             /\ held' = [o \in Object |-> IF o \in InUse THEN 1 ELSE 0]
    <3>1. UNCHANGED <<given, qwReaderTime, clock, dwOutputNum, chosen, file, hrAsync>> /\ sdk = "none"
      BY <1>2 DEF Decode, StageInv
    <3>2. held' \in [Object -> 0 .. 2]
      BY <2>2
    <3> QED
      BY <1>0, <2>2, <3>1, <3>2 DEF NumberInv, given
  <2> QED
    BY <1>2, <2>1, <2>2 DEF Decode
<1>3. CASE WaitOpen \/ PropsFail \/ ChooseFormat \/ StartReading
  <2>1. i \in Nat /\ Len(Formats) \in Nat
    BY DEF FormatInv
  <2> QED
    BY <1>0, <1>3, <2>1, NumberKept
       DEF WaitOpen, PropsFail, ChooseFormat, StartReading, Return, StageInv, Returned
<1>4. CASE FindOutput
  BY <1>4, OutputStep
<1>5. CASE WaitEnd \/ ReleaseObjects \/ CloseFile \/ Exit
  BY <1>0, <1>5, NumberKept DEF WaitEnd, ReleaseObjects, CloseFile, Exit, Return, Returned, After
<1>6. CASE SdkOpened \/ SdkSample \/ SdkEof \/ SdkError \/ SdkStreamFails
  BY <1>0, <1>6, NumberKept DEF SdkOpened, SdkSample, SdkEof, SdkError, SdkStreamFails, OnOpened, OnSample, Signal
<1>7. CASE SdkStarted \/ SdkTime
  <2>1. UNCHANGED <<given, pc, result, dwOutputNum, chosen, file, held>> /\ sdk' = "running" /\ hrAsync' \in HResult
    BY <1>0, <1>7 DEF SdkStarted, SdkTime, OnStarted, OnTime, DeliverTime, Signal
  <2>2. qwReaderTime \in Nat /\ clock \in 0 .. qwReaderTime
    BY DEF NumberInv
  <2>3. qwReaderTime' \in {1, qwReaderTime + 1} /\ (clock' = qwReaderTime' \/ clock' = clock)
        /\ (qwReaderTime' = 1 => qwReaderTime = 0 \/ clock = qwReaderTime)
    BY <1>7, <2>2 DEF SdkStarted, SdkTime, OnStarted, OnTime, DeliverTime, NumberInv
  <2>4. qwReaderTime' \in Nat /\ clock' \in 0 .. qwReaderTime'
    BY <1>7, <2>2, <2>3 DEF SdkStarted, SdkTime, OnStarted, OnTime, DeliverTime, NumberInv
  <2> QED
    BY <1>0, <2>1, <2>4 DEF NumberInv, given
<1>8. CASE SdkQuery
  <2>1. UNCHANGED <<given, pc, result, dwOutputNum, chosen, file, qwReaderTime, clock, hrAsync, sdk>>
        /\ held' = [held EXCEPT !["reader"] = 2]
    BY <1>8 DEF SdkQuery
  <2>2. held' \in [Object -> 0 .. 2]
    <3>1. held \in [Object -> 0 .. 2] /\ 2 \in 0 .. 2
      BY DEF NumberInv
    <3> QED
      BY <2>1, <3>1
  <2> QED
    BY <1>0, <2>1, <2>2 DEF NumberInv, given
<1>9. ASSUME NEW o \in Object, SdkLetsGo(o) PROVE NumberInv'
  <2>1. UNCHANGED <<given, pc, result, dwOutputNum, chosen, file, qwReaderTime, clock, hrAsync, sdk>>
        /\ held[o] > 0 /\ held' = [held EXCEPT ![o] = @ - 1]
    BY <1>9 DEF SdkLetsGo
  <2>2. held' \in [Object -> 0 .. 2]
    <3>1. held \in [Object -> 0 .. 2] /\ held[o] \in 0 .. 2
      BY DEF NumberInv
    <3>2. held[o] - 1 \in 0 .. 2
      BY <2>1, <3>1
    <3> QED
      BY <2>1, <3>1, <3>2
  <2> QED
    BY <1>0, <2>1, <2>2 DEF NumberInv, given
<1>10. CASE UNCHANGED wmaVars
  BY <1>0, <1>10, NumberKept DEF wmaVars, vars
<1> QED
  BY <1>1, <1>2, <1>3, <1>4, <1>5, <1>6, <1>7, <1>8, <1>9, <1>10
     DEF MainNext, _tmain, MainStep, Sdk, SdkStep, SdkOther, Ended

LEMMA NumberInit == MainInit => NumberInv
<1>1. MainInit => Len(Formats) \in Nat
  BY FileAssumption DEF MainInit, ReaderInit
<1> QED
  BY <1>1 DEF MainInit, ReaderInit, NumberInv, HResult, Before, Returned

-----------------------------------------------------------------------------
(* The options. *)

\* The widths hold the defaults.
LEMMA Widths == Word16 \in Nat /\ Dword \in Nat /\ Word16 > 16 /\ Dword > 16
<1>1. ASSUME NEW b \in Nat, b > 4 PROVE b * b \in Nat /\ b * b > 16
  <2>1. b * b \in Nat /\ b * b >= b * 5 /\ b * 5 > 16
    BY <1>1
  <2> QED
    BY <2>1
<1> QED
  BY <1>1, ByteAssumption DEF Word16, Dword

\* What getopt returns as an argument is a word or the end of one.
LEMMA ArgumentText ==
  ASSUME OptInv, optarg \in Seq(Character), getopt PROVE optarg' \in Seq(Character)
<1>0. argv \in Seq(Seq(Character)) /\ argc \in Nat /\ optind \in 1 .. argc /\ sp \in Nat \ {0}
  BY DEF OptInv, ReadsInside, argc
<1>1. optind < argc => Word \in Seq(Character)
  BY <1>0 DEF Word, argc
<1>2. CASE Operand \/ EndMark \/ Illegal
  BY <1>2 DEF Operand, EndMark, Illegal, Returns
<1>3. CASE Config
  <2>1. optind < argc /\ Word # <<>> /\ optarg' = Tail(Word)
    BY <1>1, <1>3 DEF Config, AtOperand, Returns, Char, NUL
  <2> QED
    BY <1>1, <2>1
<1>4. CASE Flag
  BY <1>4 DEF Flag, Returns
<1>5. CASE Argument
  <2>1. optind < argc
    BY <1>5, LetterInside DEF Argument
  <2>2. \/ optarg' = SubSeq(Word, sp + 2, Len(Word)) \/ optarg' = optarg
        \/ optind + 1 < argc /\ optarg' = argv[optind + 1]
    BY <1>0, <1>5 DEF Argument, Returns
  <2>3. CASE optarg' = SubSeq(Word, sp + 2, Len(Word))
    BY <1>0, <1>1, <2>1, <2>3
  <2>4. CASE optind + 1 < argc /\ optarg' = argv[optind + 1]
    BY <1>0, <2>4 DEF argc
  <2> QED
    BY <2>2, <2>3, <2>4
<1> QED
  BY <1>2, <1>3, <1>4, <1>5 DEF getopt
\* Steps that leave the options and the header.
LEMMA OptionKept ==
  ASSUME OptionInv, UNCHANGED <<optVars, optionVars, header, dwNumChannels>>,
         pc \notin {"options", "usage"} \/ pc' = pc,
         pc' \in {"options", "usage", "output", "header"} =>
           pc \in {"options", "usage", "output", "header"}
  PROVE  OptionInv'
<1>1. UNCHANGED <<argv, optind, sp, optarg, wBitsPerSample, dwSamplesPerSec, pOutputFile, bQuiet,
                  bWaveHeaders, bUsage, dwPCMBytes, dwNumChannels, header>>
  BY DEF optVars, optionVars
<1>2. OptInv' /\ WaveHeader' = WaveHeader
  BY <1>1 DEF OptionInv, OptInv, ReadsInside, Word, argc, WaveHeader, bytes
<1> QED
  BY <1>1, <1>2 DEF OptionInv

\* One more option: a number fits its width, and only 8 and 16 bits are accepted.
LEMMA OptionStep == OptionInv /\ Option => OptionInv'
<1> SUFFICES ASSUME OptionInv, Option PROVE OptionInv'
  OBVIOUS
<1>1. OptInv' /\ optarg' \in Seq(Character)
  BY OptNextInv, ArgumentText DEF OptionInv, Option
<1>2. atoi(optarg') \in Int
  BY <1>1, AtoiInt
<1>3. Word16 \in Nat /\ Dword \in Nat /\ Word16 > 0 /\ Dword > 0
  BY Widths
<1>4. ASSUME NEW letter, NEW width \in Nat, width > 0, NEW old \in 0 .. width - 1
      PROVE  Number(letter, old, width) \in 0 .. width - 1
  BY <1>2, <1>4 DEF Number
<1>5. /\ wBitsPerSample' \in 0 .. Word16 - 1
      /\ dwSamplesPerSec' \in 0 .. Dword - 1 /\ dwNumChannels' \in 0 .. Dword - 1
      /\ dwPCMBytes' \in 0 .. Dword - 1
  BY <1>3, <1>4 DEF OptionInv, Option
<1>6. /\ pOutputFile' \in BOOLEAN /\ bQuiet' \in BOOLEAN /\ bWaveHeaders' \in BOOLEAN
      /\ bUsage' \in BOOLEAN
  BY Zenon DEF Option
<1>7. /\ bUsage' <=> (\/ bUsage \/ c' \in {"h", "v", NUL}
                      \/ c' = "b" /\ wBitsPerSample' \notin {8, 16}
                      \/ c' = "r" /\ dwSamplesPerSec' = 0
                      \/ c' = "n" /\ dwNumChannels' = 0)
      /\ c' # "b" => wBitsPerSample' = wBitsPerSample
      /\ pc = "options" /\ pc' = (IF c' # EOF THEN pc ELSE IF bUsage THEN "usage" ELSE "output")
      /\ header' = header
  BY DEF Option, Number
<1>8. bUsage' \/ wBitsPerSample' \in {8, 16}
  BY <1>7 DEF OptionInv
<1>9. pc' \notin {"options", "usage"} => ~bUsage'
  BY <1>7 DEF EOF, NUL
<1> QED
  BY <1>1, <1>5, <1>6, <1>7, <1>8, <1>9 DEF OptionInv

LEMMA OptionNext == OptionInv /\ [MainNext]_wmaVars => OptionInv'
<1> SUFFICES ASSUME OptionInv, [MainNext]_wmaVars PROVE OptionInv'
  OBVIOUS
<1> USE DEF setVars, mainVars
<1>1. CASE Option
  BY <1>1, OptionStep
<1>2. CASE WriteWaveHeader
  <2>1. UNCHANGED <<optVars, optionVars, dwNumChannels>> /\ pc = "header" /\ pc' = "reader"
        /\ header' = WaveHeader
    BY <1>2 DEF WriteWaveHeader
  <2>2. UNCHANGED <<argv, optind, sp, optarg, wBitsPerSample, dwSamplesPerSec, pOutputFile, bQuiet,
                    bWaveHeaders, bUsage, dwPCMBytes, dwNumChannels>>
    BY <2>1 DEF optVars, optionVars
  <2>3. OptInv' /\ WaveHeader' = WaveHeader
    BY <2>2 DEF OptionInv, OptInv, ReadsInside, Word, argc, WaveHeader, bytes
  <2> QED
    BY <2>1, <2>2, <2>3 DEF OptionInv
<1>3. CASE OpenOutput \/ NoHeader \/ HeaderNowhere \/ NewReader
  BY <1>3, OptionKept DEF OpenOutput, NoHeader, HeaderNowhere, NewReader
<1>4. CASE MainStep /\ UNCHANGED <<optVars, optionVars, header>>
  BY <1>4, OptionKept DEF MainStep, Decode, InitFails, WaitOpen, FindOutput, PropsFail, ChooseFormat,
     StartReading, WaitEnd, ReleaseObjects, CloseFile, Exit, Return
<1>5. CASE Sdk(SdkStep)
  BY <1>5, OptionKept DEF Sdk, SdkStep, SdkOpened, SdkStarted, SdkSample, SdkTime, SdkEof
<1>6. CASE Sdk(SdkOther)
  BY <1>6, OptionKept DEF Sdk, SdkOther, SdkError, SdkStreamFails, SdkQuery, SdkLetsGo
<1>7. CASE UNCHANGED wmaVars
  BY <1>7, OptionKept DEF wmaVars, vars
<1> QED
  BY <1>1, <1>2, <1>3, <1>4, <1>5, <1>6, <1>7 DEF MainNext, _tmain, Ended

LEMMA OptionInit == MainInit => OptionInv
<1> SUFFICES ASSUME MainInit PROVE OptionInv
  OBVIOUS
<1>1. OptInv
  BY OptInitInv DEF MainInit
<1>2. /\ optarg = <<>> /\ wBitsPerSample = 16 /\ dwSamplesPerSec = DefaultRate /\ dwNumChannels = 2
      /\ dwPCMBytes = Dword - 1 /\ header = <<>> /\ pOutputFile = FALSE /\ bQuiet = FALSE
      /\ bWaveHeaders = FALSE /\ bUsage = FALSE /\ pc = "options"
  BY DEF MainInit, OptInit
<1>3. Word16 > 16 /\ Dword > 16 /\ DefaultRate \in 1 .. Dword - 1 /\ Word16 \in Nat /\ Dword \in Nat
  BY Widths, ByteAssumption
<1>4. /\ wBitsPerSample \in 0 .. Word16 - 1 /\ dwSamplesPerSec \in 0 .. Dword - 1
      /\ dwNumChannels \in 0 .. Dword - 1 /\ dwPCMBytes \in 0 .. Dword - 1
  BY <1>2, <1>3
<1>5. optarg \in Seq(Character) /\ header = <<>> /\ wBitsPerSample \in {8, 16}
  BY <1>2
<1>6. /\ pOutputFile \in BOOLEAN /\ bQuiet \in BOOLEAN /\ bWaveHeaders \in BOOLEAN
      /\ bUsage \in BOOLEAN /\ ~bUsage
  BY <1>2, Zenon
<1> QED
  BY <1>1, <1>4, <1>5, <1>6 DEF OptionInv
\* wmadec's getopt reads inside its words, whatever the options are given to.
THEOREM OptionsInsideCorrect == MainSpec => []ReadsInside
<1>1. OptionInv => ReadsInside
  BY DEF OptionInv, OptInv
<1> QED
  BY <1>1, OptionInit, OptionNext, PTL DEF MainSpec

-----------------------------------------------------------------------------
(* The header. *)

\* Two digits make the number again.
LEMMA TwoDigits ==
  ASSUME NEW b \in Nat, b > 0, NEW n \in 0 .. b * b - 1
  PROVE  /\ n % b \in 0 .. b - 1 /\ n \div b \in 0 .. b - 1
         /\ (n % b) + ((n \div b) % b) * b = n
<1>1. /\ n % b \in 0 .. b - 1 /\ n \div b \in Nat
      /\ n = b * (n \div b) + (n % b)
  <2>1. n % b \in 0 .. b - 1
    OBVIOUS
  <2>2. n \div b \in Nat
    OBVIOUS
  <2>3. n = b * (n \div b) + (n % b)
    OBVIOUS
  <2> QED
    BY <2>1, <2>2, <2>3
<1>2. n \div b < b
  <2>1. SUFFICES ASSUME n \div b >= b PROVE FALSE
    BY <1>1
  <2>2. ASSUME NEW q \in Nat, q >= b PROVE b * q >= b * b
    BY <2>2
  <2> QED
    BY <1>1, <2>1, <2>2
<1>3. (n \div b) % b = n \div b
  BY <1>1, <1>2
<1> QED
  BY <1>1, <1>2, <1>3

Bytes == 0 .. Byte - 1

\* A WORD is written in bytes, and read back when it is one.
LEMMA Word16Bytes ==
  ASSUME NEW n \in Nat
  PROVE  /\ LowHigh16(n) \in Seq(Bytes) /\ Len(LowHigh16(n)) = 2
         /\ n < Word16 => LowHigh16(n)[1] + LowHigh16(n)[2] * Byte = n
<1>0. Byte \in Nat /\ Byte > 0
  BY ByteAssumption
<1>1. n % Byte \in Bytes /\ n \div Byte \in Nat
  BY <1>0 DEF Bytes
<1>2. (n \div Byte) % Byte \in Bytes
  BY <1>0, <1>1 DEF Bytes
<1>3. n < Word16 => (n % Byte) + ((n \div Byte) % Byte) * Byte = n
  BY <1>0, Widths, TwoDigits DEF Word16
<1> QED
  BY <1>1, <1>2, <1>3 DEF LowHigh16

\* h is s, of n bytes, with t, of m bytes, behind it.
Joined(h, s, n, t, m) ==
  /\ h \in Seq(Bytes) /\ Len(h) = n + m
  /\ \A k \in 1 .. n : h[k] = s[k]
  /\ \A k \in 1 .. m : h[n + k] = t[k]

LEMMA Field ==
  ASSUME NEW s \in Seq(Bytes), NEW t \in Seq(Bytes), NEW n, NEW m, Len(s) = n, Len(t) = m
  PROVE  Joined(s \o t, s, n, t, m)
BY DEF Joined

\* So is a DWORD.
LEMMA DwordBytes ==
  ASSUME NEW n \in Nat
  PROVE  /\ LowHigh32(n) \in Seq(Bytes) /\ Len(LowHigh32(n)) = 4
         /\ n < Dword => LowHigh32(n)[1] + LowHigh32(n)[2] * Byte
                         + (LowHigh32(n)[3] + LowHigh32(n)[4] * Byte) * Word16 = n
<1> DEFINE low == n % Word16
           high == (n \div Word16) % Word16
<1>0. Word16 \in Nat /\ Word16 > 0
  BY Widths
<1>1. low \in Nat /\ low < Word16 /\ high \in Nat /\ high < Word16
  <2>1. n \div Word16 \in Nat
    BY <1>0
  <2> QED
    BY <1>0, <2>1
<1>2. n < Dword => low + high * Word16 = n
  BY <1>0, Widths, TwoDigits DEF Dword
<1>3. LowHigh32(n) = LowHigh16(low) \o LowHigh16(high)
  BY DEF LowHigh32
<1> HIDE DEF low, high
<1>4. /\ LowHigh16(low) \in Seq(Bytes) /\ Len(LowHigh16(low)) = 2
      /\ LowHigh16(low)[1] + LowHigh16(low)[2] * Byte = low
      /\ LowHigh16(high) \in Seq(Bytes) /\ Len(LowHigh16(high)) = 2
      /\ LowHigh16(high)[1] + LowHigh16(high)[2] * Byte = high
  BY <1>1, Word16Bytes
<1>5. /\ LowHigh32(n) \in Seq(Bytes) /\ Len(LowHigh32(n)) = 4
      /\ LowHigh32(n)[1] = LowHigh16(low)[1] /\ LowHigh32(n)[2] = LowHigh16(low)[2]
      /\ LowHigh32(n)[3] = LowHigh16(high)[1] /\ LowHigh32(n)[4] = LowHigh16(high)[2]
  <2> DEFINE s == LowHigh16(low)
             t == LowHigh16(high)
  <2>1. s \in Seq(Bytes) /\ Len(s) = 2 /\ t \in Seq(Bytes) /\ Len(t) = 2
    BY <1>4
  <2>2. LowHigh32(n) = s \o t
    BY <1>3
  <2> HIDE DEF s, t
  <2>3. Joined(LowHigh32(n), s, 2, t, 2)
    BY <2>1, <2>2, Field
  <2>4. LowHigh32(n)[1] = s[1] /\ LowHigh32(n)[2] = s[2] /\ LowHigh32(n)[2 + 1] = t[1] /\ LowHigh32(n)[2 + 2] = t[2]
    BY <2>1, <2>3 DEF Joined
  <2> QED
    BY <2>1, <2>3, <2>4 DEF s, t, Joined
<1> QED
  BY <1>2, <1>4, <1>5
\* Where the fields of the header are.
Laid(h, s1, s2, s3, s4, s5, s6, s7, s8, s9) ==
  /\ h \in Seq(Bytes) /\ Len(h) = 28
  /\ h[1] = s1[1] /\ h[2] = s1[2] /\ h[3] = s1[3] /\ h[4] = s1[4]
  /\ h[11] = s4[1] /\ h[12] = s4[2]
  /\ h[13] = s5[1] /\ h[14] = s5[2] /\ h[15] = s5[3] /\ h[16] = s5[4]
  /\ h[17] = s6[1] /\ h[18] = s6[2] /\ h[19] = s6[3] /\ h[20] = s6[4]
  /\ h[21] = s7[1] /\ h[22] = s7[2]
  /\ h[23] = s8[1] /\ h[24] = s8[2]
  /\ h[25] = s9[1] /\ h[26] = s9[2] /\ h[27] = s9[3] /\ h[28] = s9[4]

LEMMA FieldByField ==
  ASSUME NEW s1, NEW s2, NEW s3, NEW s4, NEW s5, NEW s6, NEW s7, NEW s8, NEW s9,
         NEW h2, NEW h3, NEW h4, NEW h5, NEW h6, NEW h7, NEW h8, NEW h9,
         Joined(h2, s1, 4, s2, 4), Joined(h3, h2, 8, s3, 2), Joined(h4, h3, 10, s4, 2),
         Joined(h5, h4, 12, s5, 4), Joined(h6, h5, 16, s6, 4), Joined(h7, h6, 20, s7, 2),
         Joined(h8, h7, 22, s8, 2), Joined(h9, h8, 24, s9, 4)
  PROVE  Laid(h9, s1, s2, s3, s4, s5, s6, s7, s8, s9)
<1>1. h9 \in Seq(Bytes) /\ Len(h9) = 28
  BY DEF Joined
<1>2. /\ \A k \in 1 .. 4 : h2[k] = s1[k]
      /\ \A k \in 1 .. 8 : h3[k] = h2[k]
      /\ \A k \in 1 .. 10 : h4[k] = h3[k]
      /\ \A k \in 1 .. 12 : h5[k] = h4[k]
      /\ \A k \in 1 .. 16 : h6[k] = h5[k]
      /\ \A k \in 1 .. 20 : h7[k] = h6[k]
      /\ \A k \in 1 .. 22 : h8[k] = h7[k]
      /\ \A k \in 1 .. 24 : h9[k] = h8[k]
  BY DEF Joined
<1>3. /\ h4[11] = s4[1] /\ h4[12] = s4[2]
      /\ h5[13] = s5[1] /\ h5[14] = s5[2] /\ h5[15] = s5[3] /\ h5[16] = s5[4]
      /\ h6[17] = s6[1] /\ h6[18] = s6[2] /\ h6[19] = s6[3] /\ h6[20] = s6[4]
      /\ h7[21] = s7[1] /\ h7[22] = s7[2]
      /\ h8[23] = s8[1] /\ h8[24] = s8[2]
      /\ h9[25] = s9[1] /\ h9[26] = s9[2] /\ h9[27] = s9[3] /\ h9[28] = s9[4]
  <2>1. h4[11] = s4[1] /\ h4[12] = s4[2]
    BY DEF Joined
  <2>2. h5[13] = s5[1] /\ h5[14] = s5[2] /\ h5[15] = s5[3] /\ h5[16] = s5[4]
    BY DEF Joined
  <2>3. h6[17] = s6[1] /\ h6[18] = s6[2] /\ h6[19] = s6[3] /\ h6[20] = s6[4]
    BY DEF Joined
  <2>4. h7[21] = s7[1] /\ h7[22] = s7[2]
    BY DEF Joined
  <2>5. h8[23] = s8[1] /\ h8[24] = s8[2]
    BY DEF Joined
  <2>6. h9[25] = s9[1] /\ h9[26] = s9[2] /\ h9[27] = s9[3] /\ h9[28] = s9[4]
    BY DEF Joined
  <2> QED
    BY <2>1, <2>2, <2>3, <2>4, <2>5, <2>6
<1>4. \A k \in 1 .. 24 : h9[k] = h8[k]
  BY <1>2
<1>5. \A k \in 1 .. 22 : h9[k] = h7[k]
  BY <1>2, <1>4
<1>6. \A k \in 1 .. 20 : h9[k] = h6[k]
  BY <1>2, <1>5
<1>7. \A k \in 1 .. 16 : h9[k] = h5[k]
  BY <1>2, <1>6
<1>8. \A k \in 1 .. 12 : h9[k] = h4[k]
  BY <1>2, <1>7
<1>9. \A k \in 1 .. 10 : h9[k] = h3[k]
  BY <1>2, <1>8
<1>10. \A k \in 1 .. 8 : h9[k] = h2[k]
  BY <1>2, <1>9
<1>11. \A k \in 1 .. 4 : h9[k] = s1[k]
  BY <1>2, <1>10
<1>12. h9[1] = s1[1] /\ h9[2] = s1[2] /\ h9[3] = s1[3] /\ h9[4] = s1[4]
  BY <1>11
<1>13. h9[11] = h4[11] /\ h9[12] = h4[12]
  BY <1>8
<1>14. h9[13] = h5[13] /\ h9[14] = h5[14] /\ h9[15] = h5[15] /\ h9[16] = h5[16]
  BY <1>7
<1>15. h9[17] = h6[17] /\ h9[18] = h6[18] /\ h9[19] = h6[19] /\ h9[20] = h6[20]
  BY <1>6
<1>16. h9[21] = h7[21] /\ h9[22] = h7[22]
  BY <1>5
<1>17. h9[23] = h8[23] /\ h9[24] = h8[24]
  BY <1>4
<1> QED
  BY <1>1, <1>3, <1>12, <1>13, <1>14, <1>15, <1>16, <1>17 DEF Laid

LEMMA Layout ==
  ASSUME NEW s1 \in Seq(Bytes), NEW s2 \in Seq(Bytes), NEW s3 \in Seq(Bytes),
         NEW s4 \in Seq(Bytes), NEW s5 \in Seq(Bytes), NEW s6 \in Seq(Bytes),
         NEW s7 \in Seq(Bytes), NEW s8 \in Seq(Bytes), NEW s9 \in Seq(Bytes),
         Len(s1) = 4, Len(s2) = 4, Len(s3) = 2, Len(s4) = 2, Len(s5) = 4,
         Len(s6) = 4, Len(s7) = 2, Len(s8) = 2, Len(s9) = 4
  PROVE  Laid(s1 \o s2 \o s3 \o s4 \o s5 \o s6 \o s7 \o s8 \o s9,
              s1, s2, s3, s4, s5, s6, s7, s8, s9)
<1> DEFINE h2 == s1 \o s2
           h3 == h2 \o s3
           h4 == h3 \o s4
           h5 == h4 \o s5
           h6 == h5 \o s6
           h7 == h6 \o s7
           h8 == h7 \o s8
           h9 == h8 \o s9
<1>1. Joined(h2, s1, 4, s2, 4) /\ h2 \in Seq(Bytes) /\ Len(h2) = 8
  <2>1. Joined(h2, s1, 4, s2, 4)
    BY Field
  <2> HIDE DEF h2
  <2> QED
    BY <2>1 DEF Joined
<1>2. Joined(h3, h2, 8, s3, 2) /\ h3 \in Seq(Bytes) /\ Len(h3) = 10
  <2> HIDE DEF h2
  <2>1. Joined(h3, h2, 8, s3, 2)
    BY <1>1, Field
  <2> HIDE DEF h3
  <2> QED
    BY <2>1 DEF Joined
<1>3. Joined(h4, h3, 10, s4, 2) /\ h4 \in Seq(Bytes) /\ Len(h4) = 12
  <2> HIDE DEF h3
  <2>1. Joined(h4, h3, 10, s4, 2)
    BY <1>2, Field
  <2> HIDE DEF h4
  <2> QED
    BY <2>1 DEF Joined
<1>4. Joined(h5, h4, 12, s5, 4) /\ h5 \in Seq(Bytes) /\ Len(h5) = 16
  <2> HIDE DEF h4
  <2>1. Joined(h5, h4, 12, s5, 4)
    BY <1>3, Field
  <2> HIDE DEF h5
  <2> QED
    BY <2>1 DEF Joined
<1>5. Joined(h6, h5, 16, s6, 4) /\ h6 \in Seq(Bytes) /\ Len(h6) = 20
  <2> HIDE DEF h5
  <2>1. Joined(h6, h5, 16, s6, 4)
    BY <1>4, Field
  <2> HIDE DEF h6
  <2> QED
    BY <2>1 DEF Joined
<1>6. Joined(h7, h6, 20, s7, 2) /\ h7 \in Seq(Bytes) /\ Len(h7) = 22
  <2> HIDE DEF h6
  <2>1. Joined(h7, h6, 20, s7, 2)
    BY <1>5, Field
  <2> HIDE DEF h7
  <2> QED
    BY <2>1 DEF Joined
<1>7. Joined(h8, h7, 22, s8, 2) /\ h8 \in Seq(Bytes) /\ Len(h8) = 24
  <2> HIDE DEF h7
  <2>1. Joined(h8, h7, 22, s8, 2)
    BY <1>6, Field
  <2> HIDE DEF h8
  <2> QED
    BY <2>1 DEF Joined
<1>8. Joined(h9, h8, 24, s9, 4) /\ h9 \in Seq(Bytes) /\ Len(h9) = 28
  <2> HIDE DEF h8
  <2>1. Joined(h9, h8, 24, s9, 4)
    BY <1>7, Field
  <2> HIDE DEF h9
  <2> QED
    BY <2>1 DEF Joined
<1>9. /\ Joined(h2, s1, 4, s2, 4)
       /\ Joined(h3, h2, 8, s3, 2)
       /\ Joined(h4, h3, 10, s4, 2)
       /\ Joined(h5, h4, 12, s5, 4)
       /\ Joined(h6, h5, 16, s6, 4)
       /\ Joined(h7, h6, 20, s7, 2)
       /\ Joined(h8, h7, 22, s8, 2)
       /\ Joined(h9, h8, 24, s9, 4)
  BY <1>1, <1>2, <1>3, <1>4, <1>5, <1>6, <1>7, <1>8
<1> HIDE DEF h2, h3, h4, h5, h6, h7, h8, h9
<1>10. Laid(h9, s1, s2, s3, s4, s5, s6, s7, s8, s9)
  BY <1>9, FieldByField, Zenon
<1> QED
  BY <1>10 DEF h2, h3, h4, h5, h6, h7, h8, h9

\* The header is read back as it was written, field by field.
LEMMA HeaderRead ==
  ASSUME OptionInv, header # <<>>, dwNumChannels * bytes \in Nat,
         dwSamplesPerSec * dwNumChannels * bytes \in Nat
  PROVE  /\ header \in [1 .. 28 -> Bytes]
         /\ dwPCMBytes + 36 < Dword => riff = dwPCMBytes + 36
         /\ dwNumChannels < Word16 => channels = dwNumChannels
         /\ freq = dwSamplesPerSec
         /\ dwSamplesPerSec * dwNumChannels * bytes < Dword =>
              perSecond = dwSamplesPerSec * dwNumChannels * bytes
         /\ dwNumChannels * bytes < Word16 => block = dwNumChannels * bytes
         /\ bits = wBitsPerSample /\ data = dwPCMBytes
<1> DEFINE s1 == LowHigh32(dwPCMBytes + 44 - 8)
           s2 == LowHigh32(2 + 2 + 4 + 4 + 2 + 2)
           s3 == LowHigh16(1)
           s4 == LowHigh16(dwNumChannels)
           s5 == LowHigh32(dwSamplesPerSec)
           s6 == LowHigh32(dwSamplesPerSec * dwNumChannels * bytes)
           s7 == LowHigh16(dwNumChannels * bytes)
           s8 == LowHigh16(wBitsPerSample)
           s9 == LowHigh32(dwPCMBytes)
<1>1. header = s1 \o s2 \o s3 \o s4 \o s5 \o s6 \o s7 \o s8 \o s9
  BY DEF OptionInv, WaveHeader
<1>2. /\ wBitsPerSample \in Nat /\ wBitsPerSample < Word16
      /\ dwSamplesPerSec \in Nat /\ dwSamplesPerSec < Dword
      /\ dwNumChannels \in Nat /\ dwPCMBytes \in Nat /\ dwPCMBytes < Dword
      /\ dwPCMBytes + 44 - 8 \in Nat /\ 2 + 2 + 4 + 4 + 2 + 2 \in Nat
  BY Widths DEF OptionInv
<1>3. /\ s1 \in Seq(Bytes) /\ Len(s1) = 4 /\ s2 \in Seq(Bytes) /\ Len(s2) = 4
      /\ s3 \in Seq(Bytes) /\ Len(s3) = 2 /\ s4 \in Seq(Bytes) /\ Len(s4) = 2
      /\ s5 \in Seq(Bytes) /\ Len(s5) = 4 /\ s6 \in Seq(Bytes) /\ Len(s6) = 4
      /\ s7 \in Seq(Bytes) /\ Len(s7) = 2 /\ s8 \in Seq(Bytes) /\ Len(s8) = 2
      /\ s9 \in Seq(Bytes) /\ Len(s9) = 4
  BY <1>2, Word16Bytes, DwordBytes
<1>4. /\ dwPCMBytes + 44 - 8 < Dword =>
           s1[1] + s1[2] * Byte + (s1[3] + s1[4] * Byte) * Word16 = dwPCMBytes + 44 - 8
      /\ dwNumChannels < Word16 => s4[1] + s4[2] * Byte = dwNumChannels
      /\ s5[1] + s5[2] * Byte + (s5[3] + s5[4] * Byte) * Word16 = dwSamplesPerSec
      /\ dwSamplesPerSec * dwNumChannels * bytes < Dword =>
           s6[1] + s6[2] * Byte + (s6[3] + s6[4] * Byte) * Word16
             = dwSamplesPerSec * dwNumChannels * bytes
      /\ dwNumChannels * bytes < Word16 => s7[1] + s7[2] * Byte = dwNumChannels * bytes
      /\ s8[1] + s8[2] * Byte = wBitsPerSample
      /\ s9[1] + s9[2] * Byte + (s9[3] + s9[4] * Byte) * Word16 = dwPCMBytes
  BY <1>2, Word16Bytes, DwordBytes
<1> HIDE DEF s1, s2, s3, s4, s5, s6, s7, s8, s9
<1>5. Laid(header, s1, s2, s3, s4, s5, s6, s7, s8, s9)
  BY <1>1, <1>3, Layout, Zenon
<1>6. header \in [1 .. 28 -> Bytes]
  <2>1. header \in Seq(Bytes) /\ Len(header) = 28
    BY <1>5 DEF Laid
  <2> QED
    BY <2>1, SeqFunction
<1>7. /\ riff = s1[1] + s1[2] * Byte + (s1[3] + s1[4] * Byte) * Word16
      /\ channels = s4[1] + s4[2] * Byte
      /\ freq = s5[1] + s5[2] * Byte + (s5[3] + s5[4] * Byte) * Word16
      /\ perSecond = s6[1] + s6[2] * Byte + (s6[3] + s6[4] * Byte) * Word16
      /\ block = s7[1] + s7[2] * Byte
      /\ bits = s8[1] + s8[2] * Byte
      /\ data = s9[1] + s9[2] * Byte + (s9[3] + s9[4] * Byte) * Word16
  <2>1. /\ riff = header[1] + header[2] * Byte + (header[3] + header[4] * Byte) * Word16
        /\ channels = header[11] + header[12] * Byte
        /\ freq = header[13] + header[14] * Byte + (header[15] + header[16] * Byte) * Word16
        /\ perSecond = header[17] + header[18] * Byte + (header[19] + header[20] * Byte) * Word16
        /\ block = header[21] + header[22] * Byte
        /\ bits = header[23] + header[24] * Byte
        /\ data = header[25] + header[26] * Byte + (header[27] + header[28] * Byte) * Word16
    BY DEF riff, channels, freq, perSecond, block, bits, data, Read16, Read32
  <2>2. /\ header[1] = s1[1] /\ header[2] = s1[2] /\ header[3] = s1[3] /\ header[4] = s1[4]
        /\ header[11] = s4[1] /\ header[12] = s4[2]
        /\ header[13] = s5[1] /\ header[14] = s5[2] /\ header[15] = s5[3] /\ header[16] = s5[4]
        /\ header[17] = s6[1] /\ header[18] = s6[2] /\ header[19] = s6[3] /\ header[20] = s6[4]
        /\ header[21] = s7[1] /\ header[22] = s7[2]
        /\ header[23] = s8[1] /\ header[24] = s8[2]
        /\ header[25] = s9[1] /\ header[26] = s9[2] /\ header[27] = s9[3] /\ header[28] = s9[4]
    BY <1>5 DEF Laid
  <2> QED
    BY <2>1, <2>2, Zenon
<1>8. dwPCMBytes + 44 - 8 = dwPCMBytes + 36
  BY <1>2
<1> QED
  BY <1>4, <1>6, <1>7, <1>8
\* The header agrees with the options and with itself, for every width of a byte.
THEOREM HeaderAgreesCorrect == MainSpec => []HeaderAgrees
<1>1. OptionInv => HeaderAgrees
  <2> SUFFICES ASSUME OptionInv, header # <<>>
               PROVE  /\ bits = wBitsPerSample /\ freq = dwSamplesPerSec /\ data = dwPCMBytes
                      /\ dwNumChannels * bytes < Word16 =>
                           /\ channels = dwNumChannels /\ block * 8 = channels * bits
                           /\ freq * block < Dword => perSecond = freq * block
                      /\ data + 36 < Dword => riff = data + 36
    BY DEF HeaderAgrees
  <2>1. (wBitsPerSample = 8 /\ bytes = 1) \/ (wBitsPerSample = 16 /\ bytes = 2)
    <3>1. wBitsPerSample \in {8, 16}
      BY DEF OptionInv
    <3>2. (8 + 7) \div 8 = 1 /\ (16 + 7) \div 8 = 2
      OBVIOUS
    <3> QED
      BY <3>1, <3>2, Zenon DEF bytes
  <2>2. dwNumChannels \in Nat /\ dwSamplesPerSec \in Nat
    BY Widths DEF OptionInv
  <2>3. \A m, n \in Nat : m * n \in Nat /\ m * n * 1 = m * (n * 1) /\ m * n * 2 = m * (n * 2)
    OBVIOUS
  <2>4. /\ dwSamplesPerSec * dwNumChannels * bytes = dwSamplesPerSec * (dwNumChannels * bytes)
        /\ dwSamplesPerSec * dwNumChannels * bytes \in Nat /\ dwNumChannels * bytes \in Nat
        /\ dwNumChannels * bytes >= dwNumChannels
    BY <2>1, <2>2, <2>3
  <2>5. /\ dwPCMBytes + 36 < Dword => riff = dwPCMBytes + 36
        /\ dwNumChannels < Word16 => channels = dwNumChannels
        /\ freq = dwSamplesPerSec
        /\ dwSamplesPerSec * dwNumChannels * bytes < Dword =>
             perSecond = dwSamplesPerSec * dwNumChannels * bytes
        /\ dwNumChannels * bytes < Word16 => block = dwNumChannels * bytes
        /\ bits = wBitsPerSample /\ data = dwPCMBytes
    BY <2>4, HeaderRead
  <2>6. ASSUME dwNumChannels * bytes < Word16
        PROVE  /\ channels = dwNumChannels /\ block * 8 = channels * bits
               /\ freq * block < Dword => perSecond = freq * block
    <3>1. Word16 \in Nat /\ dwNumChannels < Word16
      BY <2>1, <2>2, <2>6, Widths
    <3>2. channels = dwNumChannels /\ block = dwNumChannels * bytes
      BY <2>5, <2>6, <3>1
    <3>3. dwNumChannels * bytes * 8 = dwNumChannels * wBitsPerSample
      BY <2>1, <2>2
    <3> QED
      BY <2>4, <2>5, <3>2, <3>3
  <2> QED
    BY <2>5, <2>6
<1> QED
  BY <1>1, OptionInit, OptionNext, PTL DEF MainSpec

-----------------------------------------------------------------------------
(* The types. *)

\* Every variable keeps its type; the counts of references stay below 4.
THEOREM MainTypeCorrect == MainSpec => []MainTypeOK
<1>1. RefInv /\ FormatInv /\ StageInv /\ FileInv /\ NumberInv /\ OptionInv => MainTypeOK
  <2> SUFFICES ASSUME RefInv, FormatInv, StageInv, FileInv, NumberInv, OptionInv PROVE MainTypeOK
    OBVIOUS
  <2>1. cRef \in [Object -> 0 .. 3]
    <3>1. \A o \in Object : cRef[o] = held[o] + MainRefs(o) /\ held[o] \in 0 .. 2 /\ MainRefs(o) \in {0, 1}
      BY DEF RefInv, NumberInv, MainRefs
    <3>2. \A o \in Object : cRef[o] \in 0 .. 3
      BY <3>1
    <3> QED
      BY <3>2 DEF RefInv
  <2>2. out \in Seq([n : 1 .. Len(Tracks), channels : Nat]) /\ lost \subseteq 1 .. Len(Tracks)
    <3>1. /\ pos \in Nat /\ Len(Tracks) \in Nat /\ pos <= Len(Tracks)
          /\ out \in Seq(Samples(pos)) /\ lost \subseteq 1 .. pos
      BY FileAssumption DEF FileInv
    <3>2. out \in Seq(Samples(Len(Tracks)))
      BY <3>1, MoreSamples
    <3> QED
      BY <3>1, <3>2 DEF Samples
  <2>3. dwNumChannels \in Nat
    BY Widths DEF OptionInv
  <2>4. ReaderTypeOK
    BY <2>1, <2>2, <2>3 DEF ReaderTypeOK, RefInv, FormatInv, StageInv, FileInv, NumberInv
  <2>5. header = <<>> \/ header \in [1 .. 28 -> 0 .. Byte - 1]
    <3>1. wBitsPerSample \in Nat /\ bytes \in Nat /\ dwSamplesPerSec \in Nat
      BY Widths DEF OptionInv, bytes
    <3>2. \A m, n \in Nat : m * n \in Nat
      OBVIOUS
    <3>3. dwNumChannels * bytes \in Nat /\ dwSamplesPerSec * dwNumChannels * bytes \in Nat
      BY <2>3, <3>1, <3>2
    <3> QED
      BY <3>3, HeaderRead DEF Bytes
  <2>6. pc \in {"options", "usage", "output", "header", "crash", "reader", "init", "waitOpen", "outputs",
                "formats", "start", "waitEnd", "release", "releaseReader", "close", "return", "exited"}
    BY DEF NumberInv, Before, Returned, After
  <2>7. /\ wBitsPerSample \in 0 .. Word16 - 1
        /\ {dwSamplesPerSec, dwNumChannels, dwPCMBytes} \subseteq 0 .. Dword - 1
    BY DEF OptionInv
  <2>8. {pOutputFile, bQuiet, bWaveHeaders, bUsage} \subseteq BOOLEAN
    BY Zenon DEF OptionInv
  <2> QED
    BY <2>4, <2>5, <2>6, <2>7, <2>8 DEF MainTypeOK
<1>2. MainInit => RefInv
  BY DEF MainInit, ReaderInit, RefInv, MainRefs, Before, After, Object
<1> QED
  BY <1>1, <1>2, RefStep, FormatInit, StageInit, FileInit, NumberInit, OptionInit,
     FormatStep, StageStep, FileStep, NumberStep, OptionNext, PTL DEF MainSpec
-----------------------------------------------------------------------------
(* The channels of the samples. *)

\* Steps that leave the samples: the choice is made before the first.
LEMMA ChannelsKept ==
  ASSUME ChannelInv, UNCHANGED out,
         out = <<>> \/ UNCHANGED <<Formats, chosen, makeStereo, dwNumChannels>>
  PROVE  ChannelInv'
BY DEF ChannelInv, Best, Matches

LEMMA ChannelStep ==
  StageInv /\ FormatInv /\ FileInv /\ ChannelInv /\ [MainNext]_wmaVars => ChannelInv'
<1> SUFFICES ASSUME StageInv, FormatInv, FileInv, ChannelInv, [MainNext]_wmaVars PROVE ChannelInv'
  OBVIOUS
<1>0. sdk \in {"none", "opening", "open", "starting"} => out = <<>>
  BY DEF FileInv
<1> USE DEF given, choiceVars, fileVars, setVars
<1>1. CASE Option \/ OpenOutput \/ WriteWaveHeader \/ NoHeader \/ HeaderNowhere \/ NewReader
  BY <1>0, <1>1, ChannelsKept
     DEF Option, OpenOutput, WriteWaveHeader, NoHeader, HeaderNowhere, NewReader, StageInv, Before
<1>2. CASE MainStep
  BY <1>0, <1>2, ChannelsKept
     DEF MainStep, Decode, WaitOpen, FindOutput, PropsFail, ChooseFormat, StartReading, WaitEnd,
         ReleaseObjects, CloseFile, Exit, StageInv
<1>3. CASE SdkSample
  <2>1. /\ sdk = "running" /\ UNCHANGED <<Formats, chosen, makeStereo, dwNumChannels>>
        /\ OnSample(pos + 1)
    BY <1>3 DEF SdkSample
  <2>2. Best(Len(Formats)) /\ chosen # 0
    BY <2>1 DEF FormatInv
  <2>3. Best(Len(Formats))' /\ chosen' # 0
    BY <2>1, <2>2 DEF Best, Matches
  <2>4. CASE UNCHANGED out
    BY <2>1, <2>4, ChannelsKept
  <2>5. CASE out' = Append(out, [n |-> pos + 1, channels |-> IF makeStereo THEN 2
                                                         ELSE Formats[chosen].channels])
    <3> DEFINE number == IF makeStereo THEN 2 ELSE Formats[chosen].channels
    <3>1. out \in Seq(Samples(pos))
      BY DEF FileInv
    <3>2. number' = number
      BY <2>1
    <3>3. \A k \in DOMAIN out : out[k].channels = number
      BY DEF ChannelInv
    <3>4. out' = Append(out, [n |-> pos + 1, channels |-> number])
      BY <2>5
    <3> HIDE DEF number
    <3>5. /\ DOMAIN out' = DOMAIN out \cup {Len(out) + 1}
          /\ \A k \in DOMAIN out : out'[k] = out[k]
          /\ out'[Len(out) + 1].channels = number
      BY <3>1, <3>4
    <3>6. \A k \in DOMAIN out' : out'[k].channels = number'
      BY <3>2, <3>3, <3>5
    <3> QED
      BY <2>3, <3>6 DEF ChannelInv, number
  <2> QED
    BY <2>1, <2>4, <2>5 DEF OnSample
<1>4. CASE SdkOpened \/ SdkStarted \/ SdkTime \/ SdkEof \/ SdkOther
  BY <1>4, ChannelsKept DEF SdkOpened, SdkStarted, SdkTime, SdkEof, SdkOther, SdkError,
     SdkStreamFails, SdkQuery, SdkLetsGo
<1>5. CASE UNCHANGED wmaVars
  BY <1>5, ChannelsKept DEF wmaVars, vars
<1> QED
  BY <1>1, <1>2, <1>3, <1>4, <1>5 DEF MainNext, _tmain, Sdk, SdkStep, Ended

\* The header tells the channels of the samples whenever the file offers them, or
\* mono that is doubled comes first: the choice that is made after the header is
\* written agrees with it.
THEOREM HeaderTrueCorrect == MainSpec => []HeaderTrue
<1>1. FormatInv /\ OptionInv /\ ChannelInv => HeaderTrue
  <2> DEFINE pcm == {k \in DOMAIN Formats : Formats[k].pcm}
             offered == \E k \in pcm : Formats[k].channels = dwNumChannels
             doubled == /\ dwNumChannels = 2
                        /\ \E k \in pcm : Formats[k].channels = 1 /\ \A l \in pcm : k <= l
  <2> SUFFICES ASSUME FormatInv, OptionInv, ChannelInv, header # <<>>, offered \/ doubled,
                      NEW k \in DOMAIN out, dwNumChannels < Word16
               PROVE  out[k].channels = channels
    BY DEF HeaderTrue
  <2>1. Len(Formats) \in Nat /\ DOMAIN Formats = 1 .. Len(Formats) /\ dwNumChannels \in Nat
    BY Widths DEF FormatInv, OptionInv
  <2>2. channels = dwNumChannels
    <3>1. wBitsPerSample \in Nat /\ bytes \in Nat /\ dwSamplesPerSec \in Nat
      BY Widths DEF OptionInv, bytes
    <3>2. \A m, n \in Nat : m * n \in Nat
      OBVIOUS
    <3>3. dwNumChannels * bytes \in Nat /\ dwSamplesPerSec * dwNumChannels * bytes \in Nat
      BY <2>1, <3>1, <3>2
    <3> QED
      BY <3>3, HeaderRead
  <2>3. /\ Best(Len(Formats)) /\ chosen # 0
        /\ out[k].channels = IF makeStereo THEN 2 ELSE Formats[chosen].channels
    <3>1. out # <<>>
      OBVIOUS
    <3> QED
      BY <3>1 DEF ChannelInv
  <2>4. /\ chosen \in 1 .. Len(Formats) /\ Formats[chosen].pcm
        /\ \/ Matches(chosen)
           \/ \A l \in 1 .. Len(Formats) : ~Matches(l) /\ (l < chosen => ~Formats[l].pcm)
        /\ makeStereo <=> (Formats[chosen].channels = 1 /\ dwNumChannels = 2)
    BY <2>1, <2>3 DEF Best
  <2>5. CASE Matches(chosen)
    BY <2>2, <2>3, <2>4, <2>5 DEF Matches
  <2>6. CASE ~Matches(chosen)
    <3>1. ~offered
      BY <2>1, <2>4, <2>6 DEF Matches
    <3>2. PICK l \in pcm : Formats[l].channels = 1 /\ (\A m \in pcm : l <= m) /\ dwNumChannels = 2
      BY <3>1
    <3>3. l = chosen
      BY <2>1, <2>4, <2>6, <3>2
    <3> QED
      BY <2>2, <2>3, <2>4, <3>2, <3>3
  <2> QED
    BY <2>5, <2>6
<1>2. MainInit => ChannelInv
  BY DEF MainInit, ReaderInit, ChannelInv
<1> QED
  BY <1>1, <1>2, FormatInit, StageInit, FileInit, OptionInit,
     FormatStep, StageStep, FileStep, OptionNext, ChannelStep, PTL DEF MainSpec
=============================================================================
