------------------------------- MODULE Mov123 -------------------------------
(***************************************************************************)
(* mov123.cpp: ConvertMovieSndTrack opens a movie, sets up a sound         *)
(* converter and writes what it converts; the converter asks for the source*)
(* with the callback SoundConverterFillBufferDataProc.                     *)
(***************************************************************************)
EXTENDS Integers, Sequences

CONSTANTS Samples,    \* samples of the audio track
          Unit,       \* samples in a unit of the track's time scale
          Durations,  \* lengths the movie may say it has, in those units
          GetSizes,   \* samples that one GetData may return
          DurationPerSample,    \* what it says a sample lasts
          OutSize,    \* samples the output buffer holds
          Delay,      \* samples the converter keeps back until it is ended
          Faults      \* what may fail

ASSUME SizeAssumption ==
  /\ Samples \in Nat /\ Unit \in Nat \ {0} /\ Durations \subseteq Nat
  /\ GetSizes \subseteq Nat \ {0} /\ DurationPerSample \in Nat
  /\ OutSize \in Nat \ {0} /\ Delay \in Nat
ASSUME FaultAssumption == Faults \subseteq {"path", "movie", "setup", "get", "convert", "write"}

\* What is converted is one sample for one; a chunk is a sequence of samples.
From(t, k) == [j \in 1 .. k |-> t * Unit + j]
Least(m, n) == IF m < n THEN m ELSE n

VARIABLES pc,          \* "open", "setup", "fill", "write", "end", "rest", "exit"
          err,         \* err is noErr
          failed,      \* something went wrong
          duration,    \* the movie's, which need not be the track's
          currentTime, isThereMoreSource,
          buffer,      \* compData.desc.buffer, <<>> for NULL
          conv,        \* samples in the converter
          dry,         \* the converter has been told that there is no more
          chunk,       \* actualOutputBytes of pDecomBuffer
          isSoundDone,
          out          \* the last sample written to stdout, 0 before the first

sourceVars == <<duration, currentTime, isThereMoreSource, buffer>>
vars == <<pc, err, failed, sourceVars, conv, dry, chunk, isSoundDone, out>>

Init ==
  /\ pc = "open" /\ err = FALSE /\ failed = FALSE
  /\ duration \in Durations /\ currentTime = 0 /\ isThereMoreSource = TRUE /\ buffer = <<>>
  /\ conv = <<>> /\ dry = FALSE /\ chunk = <<>> /\ isSoundDone = FALSE
  /\ out = 0

\* convertTime from the sample rate to the time scale: a part of a unit is cut off.
convertTime(k) == k \div Unit

\* goto bail, with err as it is; BailErr has set it.
Bail(e) == pc' = "exit" /\ err' = e /\ failed' = TRUE

\* The path is turned into an FSSpec (goto bail, err untouched) and the movie, or
\* the URL, is opened.
OpenMovie ==
  /\ pc = "open"
  /\ \/ "path" \in Faults /\ Bail(err)
     \/ "movie" \in Faults /\ Bail(TRUE)
     \/ pc' = "setup" /\ UNCHANGED <<err, failed>>
  /\ UNCHANGED <<sourceVars, conv, dry, chunk, isSoundDone, out>>

\* The export component, its procs, the format of the source, the converter.
OpenConverter ==
  /\ pc = "setup"
  /\ \/ "setup" \in Faults /\ Bail(TRUE)
     \/ pc' = "fill" /\ UNCHANGED <<err, failed>>
  /\ UNCHANGED <<sourceVars, conv, dry, chunk, isSoundDone, out>>

\* Faulty variant: the time is not compared with the duration.
PastEndNever == FALSE

PastEnd == currentTime >= duration

\* Faulty variant: the buffer is taken for one sample longer than it is.
GetOneMore(k) ==
  /\ currentTime' = currentTime + convertTime(k) * DurationPerSample
  /\ isThereMoreSource' = (currentTime' < duration)
  /\ buffer' = From(currentTime, k + 1)

\* GetData has returned k samples, from currentTime on.
Get(k) ==
  /\ currentTime' = currentTime + convertTime(k) * DurationPerSample
  /\ isThereMoreSource' = (currentTime' < duration)
  /\ buffer' = From(currentTime, k)

\* What the track has from currentTime on; none when the movie outlasts it.
Rest == Samples - currentTime * Unit

\* SoundConverterFillBufferDataProc: past the end, or after a GetData that failed
\* or had no data, there is no more and no buffer; a callback that follows one
\* that said there is no more finds the buffer cleared.
FillBufferData ==
  \/ /\ PastEnd
     /\ isThereMoreSource' = FALSE /\ buffer' = <<>>
     /\ UNCHANGED <<currentTime, failed>>
  \/ /\ ~PastEnd /\ isThereMoreSource /\ Rest > 0
     /\ \E k \in GetSizes : Get(Least(k, Rest))
     /\ UNCHANGED failed
  \/ /\ ~PastEnd /\ isThereMoreSource
     /\ \/ Rest <= 0 /\ UNCHANGED failed
        \/ "get" \in Faults /\ failed' = TRUE
     /\ isThereMoreSource' = FALSE /\ buffer' = <<>>
     /\ UNCHANGED currentTime
  \/ /\ ~PastEnd /\ ~isThereMoreSource
     /\ UNCHANGED <<currentTime, isThereMoreSource, buffer, failed>>

\* SoundConverterFillBuffer asks for source until it can fill the output; it may
\* ask once more after it has been told that there is none.
AskForSource ==
  /\ pc = "fill" /\ Len(conv) < OutSize + Delay
  /\ FillBufferData
  /\ conv' = conv \o buffer'
  /\ dry' = ~isThereMoreSource'
  /\ UNCHANGED <<pc, err, duration, chunk, isSoundDone, out>>

Ready == Least(OutSize, IF Len(conv) > Delay THEN Len(conv) - Delay ELSE 0)

\* Faulty variant: the flags are not looked at.
FillBufferGoesOn ==
  /\ pc = "fill"
  /\ dry \/ Ready = OutSize
  /\ chunk' = SubSeq(conv, 1, Ready)
  /\ conv' = SubSeq(conv, Ready + 1, Len(conv))
  /\ pc' = "write"
  /\ UNCHANGED <<err, failed, sourceVars, dry, isSoundDone, out>>

\* SoundConverterFillBuffer returns; without kSoundConverterHasLeftOverData in
\* the flags the sound is done.
FillBuffer ==
  /\ pc = "fill"
  /\ dry \/ Ready = OutSize
  /\ chunk' = SubSeq(conv, 1, Ready)
  /\ conv' = SubSeq(conv, Ready + 1, Len(conv))
  /\ isSoundDone' = (dry /\ Len(conv) - Ready <= Delay)
  /\ pc' = "write"
  /\ UNCHANGED <<err, failed, sourceVars, dry, out>>

\* It fails: the loop is left, the conversion ended, and err is returned.
FillBufferFails ==
  /\ pc = "fill" /\ "convert" \in Faults
  /\ Bail(TRUE)
  /\ UNCHANGED <<sourceVars, conv, dry, chunk, isSoundDone, out>>

\* Faulty variant: what is left in the converter is not written.
AfterLoopExits == "exit"

AfterLoop == "end"

Written == out' = IF chunk = <<>> THEN out ELSE chunk[Len(chunk)]

\* fwrite of what the buffer holds, if anything; goto bail when it fails.
WriteOutput ==
  /\ pc = "write"
  /\ \/ /\ Written
        /\ pc' = IF isSoundDone THEN AfterLoop ELSE "fill"
        /\ UNCHANGED <<err, failed>>
     \/ chunk # <<>> /\ "write" \in Faults /\ Bail(err) /\ UNCHANGED out
  /\ UNCHANGED <<sourceVars, conv, dry, chunk, isSoundDone>>

\* SoundConverterEndConversion gives the rest.
EndConversion ==
  /\ pc = "end"
  /\ chunk' = conv /\ conv' = <<>>
  /\ pc' = "rest"
  /\ UNCHANGED <<err, failed, sourceVars, dry, isSoundDone, out>>

\* "if there's any left over data write it out".
WriteRest ==
  /\ pc = "rest"
  /\ \/ Written /\ pc' = "exit" /\ UNCHANGED <<err, failed>>
     \/ chunk # <<>> /\ "write" \in Faults /\ Bail(err) /\ UNCHANGED out
  /\ UNCHANGED <<sourceVars, conv, dry, chunk, isSoundDone>>

\* main returns err.
Exited == pc = "exit" /\ UNCHANGED vars

Next == \/ OpenMovie \/ OpenConverter
        \/ AskForSource \/ FillBuffer \/ FillBufferFails
        \/ WriteOutput \/ EndConversion \/ WriteRest \/ Exited

Spec == Init /\ [][Next]_vars

\* One thread, whose calls return.
FairSpec == Spec /\ WF_vars(Next)

-----------------------------------------------------------------------------
(* Properties. *)

Sample == 1 .. Samples

TypeOK ==
  /\ pc \in {"open", "setup", "fill", "write", "end", "rest", "exit"}
  /\ err \in BOOLEAN /\ failed \in BOOLEAN /\ dry \in BOOLEAN /\ isSoundDone \in BOOLEAN
  /\ duration \in Durations /\ currentTime \in Nat /\ isThereMoreSource \in BOOLEAN
  /\ \A s \in {buffer, conv, chunk} : s \in Seq(Sample)
  /\ out \in {0} \cup Sample

\* What has been fetched, from the last sample written on.
Pending == IF pc \in {"write", "rest"} THEN chunk ELSE <<>>
Line == <<out>> \o Pending \o conv

\* Behind a sample comes the next one, or one of the fewer than Unit samples that a
\* read has left over a whole unit and the next read returns again.
Joined(s) == \A j \in 1 .. Len(s) - 1 : s[j + 1] \in s[j] + 2 - Unit .. s[j] + 1

\* Whatever the sizes GetData returns, no sample of the track is skipped on its way to
\* stdout, and where a read does not end on a unit fewer than Unit samples are
\* written again; each is written once if a unit is one sample.  No chunk is handed
\* over again after the callback has said that there is no more.  (For sound whose
\* samples last one unit of their own rate: durationPerSample is 1.)
NoneSkipped == pc # "exit" /\ DurationPerSample = 1 => Joined(Line)

\* A conversion in which nothing failed has come to the end of the track, or to
\* that of the movie where the movie, with its length cut to whole units, is shorter.
AllConverted ==
  pc = "exit" /\ ~failed /\ DurationPerSample = 1 => out >= Least(Samples, duration * Unit)

\* Every read moves the time on: none is shorter than a unit, the last one included.
\* With a shorter one the loop of main asks for the same samples for ever.
Steady ==
  /\ DurationPerSample > 0 /\ \A k \in GetSizes : k >= Unit
  /\ Samples % Unit = 0 \/ duration \in {d \in Durations : d * Unit <= Samples}

\* Every conversion whose reads move the time on ends: the track, the converter's
\* rest and an early failure all lead out of the loop.
ConversionEnds == Steady ~> (pc = "exit")
=============================================================================
