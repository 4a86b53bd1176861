----------------------------- MODULE WmaReader ------------------------------
(***************************************************************************)
(* wmadec.cpp: the main thread's Decode and StartReading against the       *)
(* callbacks (OnStatus, OnSample, OnTime) that the Windows Media reader    *)
(* makes on threads of its own.  They share an auto-reset event, m_hrAsync,*)
(* the reader's clock, the output file, and the WMAReader and WMAStream    *)
(* objects, which live as long as they are referred to.                    *)
(***************************************************************************)
EXTENDS Integers, Sequences

CONSTANTS OutputLists, \* what the outputs of the file may be: per output, is
                       \* it of type audio
          FormatLists, \* what the formats of the audio output may be: is it PCM
                       \* of the rate and width asked for, and its channels
          Tracks,      \* per sample of the file: the output it belongs to
          PerSecond,   \* samples of the file that make ONE_SECOND
          Faults       \* what may fail

ASSUME FileAssumption ==
  /\ OutputLists \subseteq Seq(BOOLEAN)
  /\ FormatLists \subseteq Seq([pcm : BOOLEAN, channels : Nat \ {0}])
  /\ Tracks \in Seq(Nat)
  /\ PerSecond \in Nat \ {0}
ASSUME FaultAssumption ==
  Faults \subseteq {"init", "open", "props", "start", "deliver", "write", "error",
                    "read", "buffer", "fopen"}

NoOutput == -1              \* the DWORD -1 of m_dwOutputNum

VARIABLES Outputs, Formats,  \* the file's
          pc,           \* main: "init", "waitOpen", "outputs", "formats",
                        \* "start", "waitEnd", "release", "return", "exited"
          i,            \* its loop index
          result,       \* the HRESULT of Decode
          event,        \* m_hEvent is set
          hrAsync,      \* m_hrAsync
          dwOutputNum, chosen, makeStereo,  \* chosen: format set, 0 for none
          qwReaderTime, \* m_qwReaderTime, in seconds
          sdk,          \* the reader: "none", "opening", "open", "starting",
                        \* "running", "failed", "eof", "closed"
          clock,        \* time delivered to the reader
          pos,          \* samples it has given to OnSample
          dwNumChannels, \* -n
          source,       \* input: a "file" or, through a WMAStream, "stdin"
          cRef,         \* m_cRef of the two objects
          held,         \* references of the SDK among them
          deleted,      \* objects that are no more
          file,         \* pOutputHandle: "none", "stdout", "open", "closed"
          out,          \* samples in it
          lost          \* samples that are not in it, or not as a whole

given      == <<Outputs, Formats>>
mainVars   == <<pc, i, result>>
choiceVars == <<dwOutputNum, chosen, makeStereo>>
asyncVars  == <<event, hrAsync>>
readerVars == <<qwReaderTime, clock, pos>>
fileVars   == <<file, out, lost>>
refVars    == <<cRef, held, deleted>>
setVars    == <<dwNumChannels, source>>
vars == <<given, mainVars, choiceVars, asyncVars, readerVars, sdk, fileVars, refVars, setVars>>

Object == {"reader", "stream"}
InUse  == IF source = "stdin" THEN Object ELSE {"reader"}

HResult == {"S_OK", "E_FAIL", "E_INVALIDARG"}  \* E_FAIL for any code of the SDK
Failed(hr) == hr # "S_OK"

\* The constructors' values, and what the Windows Media reader starts from.
ReaderInit ==
  /\ Outputs \in OutputLists /\ Formats \in FormatLists
  /\ i = 0 /\ result = "S_OK"
  /\ event = FALSE /\ hrAsync = "S_OK"
  /\ dwOutputNum = NoOutput /\ chosen = 0 /\ makeStereo = FALSE
  /\ qwReaderTime = 0 /\ clock = 0 /\ pos = 0
  /\ sdk = "none"
  /\ cRef = [o \in Object |-> 0] /\ held = [o \in Object |-> 0] /\ deleted = {}
  /\ out = <<>> /\ lost = {}

-----------------------------------------------------------------------------
(* Reference counts. *)

\* AddRef and Release; an object deletes itself when its count is 0.
AddRef(objects) ==
  cRef' = [o \in Object |-> IF o \in objects THEN cRef[o] + 1 ELSE cRef[o]]
Release(o) ==
  /\ cRef' = [cRef EXCEPT ![o] = @ - 1]
  /\ deleted' = IF cRef[o] = 1 THEN deleted \cup {o} ELSE deleted

-----------------------------------------------------------------------------
(* The main thread. *)

Return(hr) == pc' = "release" /\ result' = hr

\* WMAReader::Init: COM, the reader, its advanced interface or the event.
InitFails == "init" \in Faults /\ Return("E_FAIL")

\* Init, then Open or OpenStream, which may fail at once; if not, the SDK keeps
\* the callback and the stream it is given.
Decode ==
  /\ pc = "init"
  /\ \/ /\ pc' = "waitOpen" /\ sdk' = "opening"
        /\ AddRef(InUse) /\ held' = [o \in Object |-> IF o \in InUse THEN 1 ELSE 0]
        /\ UNCHANGED <<result, deleted>>
     \/ InitFails /\ UNCHANGED <<sdk, refVars>>
     \/ "open" \in Faults /\ Return("E_FAIL") /\ UNCHANGED <<sdk, refVars>>
  /\ UNCHANGED <<given, i, choiceVars, asyncVars, readerVars, fileVars, setVars>>

\* "Wait till the open happens".
WaitOpen ==
  /\ pc = "waitOpen" /\ event
  /\ event' = FALSE
  /\ IF Failed(hrAsync) THEN Return(hrAsync)
     ELSE pc' = "outputs" /\ UNCHANGED result
  /\ UNCHANGED <<given, i, hrAsync, choiceVars, readerVars, sdk, fileVars, refVars, setVars>>

\* The value of "i < dwOutputCount, m_dwOutputNum == -1".
GoesOn == dwOutputNum = NoOutput

\* The loop over the outputs: GetOutputProps fails for an output there is not.
FindOutput ==
  /\ pc = "outputs"
  /\ IF GoesOn
     THEN IF i >= Len(Outputs)
          THEN Return("E_FAIL") /\ UNCHANGED <<i, dwOutputNum>>
          ELSE /\ dwOutputNum' = IF Outputs[i + 1] THEN i ELSE dwOutputNum
               /\ i' = i + 1 /\ UNCHANGED <<pc, result>>
     ELSE IF dwOutputNum = NoOutput
          THEN Return("E_INVALIDARG") /\ UNCHANGED <<i, dwOutputNum>>
          ELSE pc' = "formats" /\ i' = 0 /\ UNCHANGED <<result, dwOutputNum>>
  /\ UNCHANGED <<given, chosen, makeStereo, asyncVars, readerVars, sdk, fileVars, refVars, setVars>>

\* A call about outputs or formats fails.
PropsFail ==
  /\ pc \in {"outputs", "formats"} /\ "props" \in Faults
  /\ Return("E_FAIL")
  /\ UNCHANGED <<given, i, choiceVars, asyncVars, readerVars, sdk, fileVars, refVars, setVars>>

\* Faulty variant: the first format that fits is kept.
FitsFirst(f) == f.pcm /\ chosen = 0

\* Format f is set: it has the channels asked for, or is the first that fits.
Fits(f) == f.pcm /\ (f.channels = dwNumChannels \/ chosen = 0)

\* The loop over the formats, and what follows it.
ChooseFormat ==
  /\ pc = "formats"
  /\ IF i < Len(Formats)
     THEN /\ i' = i + 1 /\ UNCHANGED <<pc, result>>
          /\ IF Fits(Formats[i + 1])
             THEN /\ chosen' = i + 1
                  /\ makeStereo' = (Formats[i + 1].channels = 1 /\ dwNumChannels = 2)
             ELSE UNCHANGED <<chosen, makeStereo>>
     ELSE /\ IF chosen = 0 THEN Return("E_INVALIDARG")
             ELSE pc' = "start" /\ UNCHANGED result
          /\ UNCHANGED <<i, chosen, makeStereo>>
  /\ UNCHANGED <<given, dwOutputNum, asyncVars, readerVars, sdk, fileVars, refVars, setVars>>

\* SetUserProvidedClock, Start.
StartReading ==
  /\ pc = "start"
  /\ \/ pc' = "waitEnd" /\ sdk' = "starting" /\ UNCHANGED result
     \/ "start" \in Faults /\ Return("E_FAIL") /\ UNCHANGED sdk
  /\ UNCHANGED <<given, i, choiceVars, asyncVars, readerVars, fileVars, refVars, setVars>>

\* Faulty variant: neither the wait nor the Close.
WaitNot ==
  /\ pc = "waitEnd"
  /\ Return("S_OK")
  /\ UNCHANGED <<given, i, choiceVars, asyncVars, readerVars, sdk, fileVars, refVars, setVars>>

\* The second wait; Close only when the reading has not failed.
WaitEnd ==
  /\ pc = "waitEnd" /\ event
  /\ event' = FALSE
  /\ Return(hrAsync)
  /\ sdk' = IF Failed(hrAsync) THEN sdk ELSE "closed"
  /\ UNCHANGED <<given, i, hrAsync, choiceVars, readerVars, fileVars, refVars, setVars>>

\* _tmain lets go of the stream, if there is one, then of the reader.
ReleaseObjects ==
  /\ pc \in {"release", "releaseReader"}
  /\ IF pc = "release" /\ source = "stdin"
     THEN Release("stream") /\ pc' = "releaseReader"
     ELSE Release("reader") /\ pc' = "close"
  /\ UNCHANGED <<given, i, result, choiceVars, asyncVars, readerVars, sdk, held, fileVars, setVars>>

\* fclose, of a file that -o named.
CloseFile ==
  /\ pc = "close"
  /\ file' = IF file = "open" THEN "closed" ELSE file
  /\ pc' = "return"
  /\ UNCHANGED <<given, i, result, choiceVars, asyncVars, readerVars, sdk, out, lost, refVars, setVars>>

\* _tmain returns; the SDK's threads end with the process.
Exit ==
  /\ pc = "return"
  /\ pc' = "exited"
  /\ UNCHANGED <<given, i, result, choiceVars, asyncVars, readerVars, sdk, fileVars, refVars, setVars>>

MainStep == \/ Decode \/ WaitOpen \/ FindOutput \/ PropsFail \/ ChooseFormat
            \/ StartReading \/ WaitEnd \/ ReleaseObjects \/ CloseFile \/ Exit

-----------------------------------------------------------------------------
(* The callbacks. *)

Signal(hr) == event' = TRUE /\ hrAsync' = hr

\* DeliverTime(t): the reader's clock is at t, or the call fails.
DeliverTime(t) ==
  /\ qwReaderTime' = t
  /\ \/ clock' = t /\ UNCHANGED asyncVars
     \/ "deliver" \in Faults /\ Signal("E_FAIL") /\ UNCHANGED clock

OnOpened(hr) == Signal(hr) /\ UNCHANGED readerVars

\* Faulty variant: the case of WMT_STARTED falls through into that of WMT_EOF.
OnStartedFallsThrough ==
  qwReaderTime' = 1 /\ clock' = 1 /\ Signal("S_OK") /\ UNCHANGED pos

OnStarted == DeliverTime(1) /\ UNCHANGED pos

\* Faulty variant: the time delivered is not kept.
OnTimeForgets ==
  clock' = qwReaderTime + 1 /\ UNCHANGED <<qwReaderTime, pos, asyncVars>>

OnTime == DeliverTime(qwReaderTime + 1) /\ UNCHANGED pos

\* A sample of another output, or without a file, is passed over.  One that fwrite
\* refuses is signalled; one that fwrite cuts short is not, nor is one whose buffer
\* cannot be had.
OnSample(n) ==
  \/ Tracks[n] # dwOutputNum /\ UNCHANGED <<out, lost, asyncVars>>
  \/ file = "none" /\ UNCHANGED <<out, lost, asyncVars>>
  \/ /\ Tracks[n] = dwOutputNum /\ file # "none"
     /\ out' = Append(out, [n |-> n, channels |-> IF makeStereo THEN 2
                                                  ELSE Formats[chosen].channels])
     /\ UNCHANGED <<lost, asyncVars>>
  \/ /\ Tracks[n] = dwOutputNum /\ file # "none" /\ "write" \in Faults
     /\ lost' = lost \cup {n} /\ Signal("E_FAIL")
     /\ UNCHANGED out
  \/ /\ Tracks[n] = dwOutputNum
     /\ "buffer" \in Faults \/ ("write" \in Faults /\ file # "none")
     /\ lost' = lost \cup {n}
     /\ UNCHANGED <<out, asyncVars>>

-----------------------------------------------------------------------------
(* The reader of the Windows Media SDK, as wmadec uses it: with a clock that   *)
(* the user provides it gives all the samples before the time delivered, then  *)
(* calls OnTime.                                                               *)

SdkOpened ==
  /\ sdk = "opening" /\ pc # "exited"
  /\ \/ sdk' = "open" /\ OnOpened("S_OK")
     \/ "open" \in Faults /\ sdk' = "failed" /\ OnOpened("E_FAIL")
  /\ UNCHANGED <<given, mainVars, choiceVars, fileVars, refVars, setVars>>

SdkStarted ==
  /\ sdk = "starting" /\ pc # "exited"
  /\ sdk' = "running" /\ OnStarted
  /\ UNCHANGED <<given, mainVars, choiceVars, fileVars, refVars, setVars>>

Due == pos < Len(Tracks) /\ pos \div PerSecond < clock

SdkSample ==
  /\ sdk = "running" /\ pc # "exited" /\ Due
  /\ pos' = pos + 1
  /\ OnSample(pos + 1)
  /\ UNCHANGED <<given, mainVars, choiceVars, qwReaderTime, clock, sdk, file, refVars, setVars>>

\* WMAStream::Read reports an error on stdin as S_FALSE, a success with too few
\* bytes: to the reader the stream ends here.
SdkStreamFails ==
  /\ sdk = "running" /\ pc # "exited" /\ source = "stdin" /\ "read" \in Faults
  /\ pos' = Len(Tracks) /\ lost' = lost \cup (pos + 1 .. Len(Tracks))
  /\ UNCHANGED <<given, mainVars, choiceVars, asyncVars, qwReaderTime, clock, sdk,
                 file, out, refVars, setVars>>

\* QueryInterface for the advanced callbacks.
SdkQuery ==
  /\ sdk = "opening" /\ pc # "exited" /\ held["reader"] = 1
  /\ AddRef({"reader"}) /\ held' = [held EXCEPT !["reader"] = 2]
  /\ UNCHANGED <<given, mainVars, choiceVars, asyncVars, readerVars, sdk, fileVars, deleted, setVars>>

\* Once closed the reader lets go of what it was given, in its own time.
SdkLetsGo(o) ==
  /\ sdk = "closed" /\ pc # "exited" /\ held[o] > 0
  /\ held' = [held EXCEPT ![o] = @ - 1] /\ Release(o)
  /\ UNCHANGED <<given, mainVars, choiceVars, asyncVars, readerVars, sdk, fileVars, setVars>>

\* A time that could not be delivered never comes.
SdkTime ==
  /\ sdk = "running" /\ pc # "exited" /\ pos < Len(Tracks) /\ ~Due
  /\ clock = qwReaderTime
  /\ OnTime
  /\ UNCHANGED <<given, mainVars, choiceVars, sdk, fileVars, refVars, setVars>>

SdkEof ==
  /\ sdk = "running" /\ pc # "exited" /\ pos = Len(Tracks)
  /\ sdk' = "eof" /\ Signal("S_OK")
  /\ UNCHANGED <<given, mainVars, choiceVars, readerVars, fileVars, refVars, setVars>>

\* WMT_ERROR; the reader may go on after it.
SdkError ==
  /\ sdk = "running" /\ pc # "exited" /\ "error" \in Faults
  /\ sdk' \in {"running", "failed"} /\ Signal("E_FAIL")
  /\ UNCHANGED <<given, mainVars, choiceVars, readerVars, fileVars, refVars, setVars>>

SdkStep == SdkOpened \/ SdkStarted \/ SdkSample \/ SdkTime \/ SdkEof

SdkOther == SdkError \/ SdkStreamFails \/ SdkQuery \/ \E o \in Object : SdkLetsGo(o)

-----------------------------------------------------------------------------
(* Properties. *)

ReaderTypeOK ==
  /\ Outputs \in OutputLists /\ Formats \in FormatLists
  /\ i \in Nat /\ result \in HResult
  /\ event \in BOOLEAN /\ hrAsync \in HResult
  /\ dwOutputNum \in {NoOutput} \cup 0 .. Len(Outputs) - 1
  /\ chosen \in 0 .. Len(Formats) /\ makeStereo \in BOOLEAN
  /\ qwReaderTime \in Nat /\ clock \in 0 .. qwReaderTime
  /\ sdk \in {"none", "opening", "open", "starting", "running", "failed", "eof", "closed"}
  /\ pos \in 0 .. Len(Tracks)
  /\ source \in {"file", "stdin"} /\ dwNumChannels \in Nat
  /\ cRef \in [Object -> 0 .. 3] /\ held \in [Object -> 0 .. 2] /\ deleted \subseteq Object
  /\ file \in {"none", "stdout", "open", "closed"}
  /\ out \in Seq([n : 1 .. Len(Tracks), channels : Nat]) /\ lost \subseteq 1 .. Len(Tracks)

IsOurs(n) == Tracks[n] = dwOutputNum     \* a sample of the chosen output

Decoded == pc \in {"release", "releaseReader", "close", "return", "exited"} /\ ~Failed(result)

\* When Decode succeeds the file, if there is one, holds, in order, every sample of
\* the first audio output and no other, except those that could not be read from
\* stdin or had from the SDK, or that fwrite refused or cut short (no error tells of
\* the second and the last): neither the open nor any earlier event lets the second
\* wait return before the end of the file.
AllDecoded ==
  Decoded /\ file # "none" =>
    /\ {out[k].n : k \in DOMAIN out} = {n \in DOMAIN Tracks : IsOurs(n)} \ lost
    /\ \A k, l \in DOMAIN out : k < l => out[k].n < out[l].n

\* After a decode that has succeeded nothing is written to the file that _tmain
\* has closed, nor lost on the way to it, whatever went wrong meanwhile.  (The path of
\* a failed reading leaves the reader open, so OnSample may still be called there.)
ClosedLast == [][file = "closed" /\ ~Failed(result) => UNCHANGED <<out, lost>>]_vars

\* The format set has the channels asked for when any format does, and mono is
\* doubled exactly when it does not and stereo was asked for.
RightFormat ==
  pc \in {"start", "waitEnd"} =>
    /\ Formats[chosen].pcm
    /\ (\E k \in 1 .. Len(Formats) : Formats[k].pcm /\ Formats[k].channels = dwNumChannels)
         => Formats[chosen].channels = dwNumChannels
    /\ makeStereo <=> (Formats[chosen].channels = 1 /\ dwNumChannels = 2)

\* Nobody uses an object that has deleted itself: neither main on its way through
\* Decode and its own Release, nor the SDK as long as it refers to it, in whatever
\* order the two let go.
AliveInUse ==
  /\ \A o \in Object : held[o] > 0 => o \notin deleted
  /\ pc \in {"init", "waitOpen", "outputs", "formats", "start", "waitEnd", "release"} =>
       InUse \cap deleted = {}
  /\ pc = "releaseReader" => "reader" \notin deleted
=============================================================================
