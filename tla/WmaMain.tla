------------------------------ MODULE WmaMain -------------------------------
(***************************************************************************)
(* wmadec from its command line to its exit: _tmain's options, the output  *)
(* file and the header written to it, then the reader of WmaReader.        *)
(* Numbers keep their widths: a byte has Byte values, a WORD the square    *)
(* and a DWORD the fourth power of that.                                   *)
(***************************************************************************)
EXTENDS GetOpt, WmaReader

CONSTANTS Byte,         \* 256 in the program
          DefaultRate   \* 44100 there

Word16 == Byte * Byte
Dword  == Word16 * Word16

ASSUME ByteAssumption == Byte \in Nat /\ Byte > 4 /\ DefaultRate \in 1 .. Dword - 1

VARIABLES wBitsPerSample, dwSamplesPerSec,
          pOutputFile,              \* -o names one
          bQuiet, bWaveHeaders, bUsage,
          dwPCMBytes,
          header                    \* the bytes WriteWaveHeader wrote, without labels

optionVars == <<wBitsPerSample, dwSamplesPerSec, pOutputFile, bQuiet, bWaveHeaders, bUsage,
                dwPCMBytes>>
wmaVars    == <<vars, optVars, optionVars, header>>

MainInit ==
  /\ OptInit /\ ReaderInit
  /\ pc = "options" /\ file = "stdout" /\ source = "file"
  /\ wBitsPerSample = 16 /\ dwSamplesPerSec = DefaultRate /\ dwNumChannels = 2
  /\ pOutputFile = FALSE /\ bQuiet = FALSE /\ bWaveHeaders = FALSE /\ bUsage = FALSE
  /\ dwPCMBytes = Dword - 1
  /\ header = <<>>

\* One turn of the loop over getopt.  A WORD or DWORD takes what atoi gives modulo
\* its width, and "<= 0" is true of an unsigned 0 only.
Number(letter, old, width) == IF c' = letter THEN atoi(optarg') % width ELSE old

Option ==
  /\ pc = "options" /\ getopt
  /\ wBitsPerSample'  = Number("b", wBitsPerSample, Word16)
  /\ dwSamplesPerSec' = Number("r", dwSamplesPerSec, Dword)
  /\ dwNumChannels'   = Number("n", dwNumChannels, Dword)
  /\ dwPCMBytes'      = Number("l", dwPCMBytes, Dword)
  /\ pOutputFile'  = (pOutputFile \/ c' = "o")
  /\ bQuiet'       = (bQuiet \/ c' = "q")
  /\ bWaveHeaders' = (bWaveHeaders \/ c' = "w")
  /\ bUsage' = (\/ bUsage
                \/ c' \in {"h", "v", NUL}
                \/ c' = "b" /\ wBitsPerSample' \notin {8, 16}
                \/ c' = "r" /\ dwSamplesPerSec' = 0
                \/ c' = "n" /\ dwNumChannels' = 0)
  /\ pc' = IF c' # EOF THEN pc ELSE IF bUsage THEN "usage" ELSE "output"
  /\ UNCHANGED <<given, i, result, choiceVars, asyncVars, readerVars, sdk, fileVars, refVars,
                 source, header>>

\* The file the samples go to.  -q comes first, and an fopen_s that fails is
\* reported and leaves no file.
OpenOutput ==
  /\ pc = "output"
  /\ file' \in IF bQuiet THEN {"none"}
               ELSE IF ~pOutputFile THEN {"stdout"}
               ELSE {"open"} \cup IF "fopen" \in Faults THEN {"none"} ELSE {}
  /\ pc' = "header"
  /\ UNCHANGED <<given, i, result, choiceVars, asyncVars, readerVars, sdk, out, lost, refVars, setVars,
                 optVars, optionVars, header>>

\* Write16BitsLowHigh.
LowHigh16(n) == <<n % Byte, (n \div Byte) % Byte>>

\* Faulty variant: the low half of 32 bits comes last.
HighLow32(n) == LowHigh16((n \div Word16) % Word16) \o LowHigh16(n % Word16)

\* Write32BitsLowHigh.
LowHigh32(n) == LowHigh16(n % Word16) \o LowHigh16((n \div Word16) % Word16)

bytes == (wBitsPerSample + 7) \div 8

WaveHeader ==
  LowHigh32(dwPCMBytes + 44 - 8) \o LowHigh32(2 + 2 + 4 + 4 + 2 + 2)
  \o LowHigh16(1) \o LowHigh16(dwNumChannels) \o LowHigh32(dwSamplesPerSec)
  \o LowHigh32(dwSamplesPerSec * dwNumChannels * bytes)
  \o LowHigh16(dwNumChannels * bytes) \o LowHigh16(wBitsPerSample)
  \o LowHigh32(dwPCMBytes)

WriteWaveHeader ==
  /\ pc = "header" /\ bWaveHeaders /\ file # "none"
  /\ header' = WaveHeader
  /\ pc' = "reader"
  /\ UNCHANGED <<given, i, result, choiceVars, asyncVars, readerVars, sdk, fileVars, refVars, setVars,
                 optVars, optionVars>>

NoHeader ==
  /\ pc = "header" /\ ~bWaveHeaders
  /\ pc' = "reader"
  /\ UNCHANGED <<given, i, result, choiceVars, asyncVars, readerVars, sdk, fileVars, refVars, setVars,
                 optVars, optionVars, header>>

\* fwrite to no file: the C library ends the process.
HeaderNowhere ==
  /\ pc = "header" /\ bWaveHeaders /\ file = "none"
  /\ pc' = "crash"
  /\ UNCHANGED <<given, i, result, choiceVars, asyncVars, readerVars, sdk, fileVars, refVars, setVars,
                 optVars, optionVars, header>>

IsStdin == ~(optind < argc /\ argv[optind] # <<"-">>)

\* Faulty variant: the stream is made without a reference of _tmain's.
NewReaderOnly ==
  /\ pc = "reader"
  /\ source' = IF IsStdin THEN "stdin" ELSE "file"
  /\ AddRef({"reader"})
  /\ pc' = "init"
  /\ UNCHANGED <<given, i, result, choiceVars, asyncVars, readerVars, sdk, fileVars, held, deleted,
                 dwNumChannels, optVars, optionVars, header>>

\* The reader, and for stdin the stream, each with a reference of _tmain's.
NewReader ==
  /\ pc = "reader"
  /\ source' = IF IsStdin THEN "stdin" ELSE "file"
  /\ AddRef(IF IsStdin THEN Object ELSE {"reader"})
  /\ pc' = "init"
  /\ UNCHANGED <<given, i, result, choiceVars, asyncVars, readerVars, sdk, fileVars, held, deleted,
                 dwNumChannels, optVars, optionVars, header>>

_tmain == \/ Option \/ OpenOutput \/ WriteWaveHeader \/ NoHeader \/ HeaderNowhere \/ NewReader
          \/ MainStep /\ UNCHANGED <<optVars, optionVars, header>>

Sdk(step) == step /\ UNCHANGED <<optVars, optionVars, header>>

Ended == pc \in {"exited", "usage", "crash"} /\ UNCHANGED wmaVars

MainNext == _tmain \/ Sdk(SdkStep) \/ Sdk(SdkOther) \/ Ended

MainSpec == MainInit /\ [][MainNext]_wmaVars

\* Windows runs _tmain, and the threads of the Windows Media SDK.
FairSpec == MainSpec /\ WF_wmaVars(_tmain) /\ WF_wmaVars(Sdk(SdkStep))

-----------------------------------------------------------------------------
(* Properties. *)

MainTypeOK ==
  /\ ReaderTypeOK
  /\ pc \in {"options", "usage", "output", "header", "crash", "reader", "init", "waitOpen", "outputs",
             "formats", "start", "waitEnd", "release", "releaseReader", "close", "return", "exited"}
  /\ wBitsPerSample \in 0 .. Word16 - 1
  /\ {dwSamplesPerSec, dwNumChannels, dwPCMBytes} \subseteq 0 .. Dword - 1
  /\ {pOutputFile, bQuiet, bWaveHeaders, bUsage} \subseteq BOOLEAN
  /\ header = <<>> \/ header \in [1 .. 28 -> 0 .. Byte - 1]

\* What a player reads in the header.
Read16(at) == header[at] + header[at + 1] * Byte
Read32(at) == Read16(at) + Read16(at + 2) * Word16
riff == Read32(1)      channels == Read16(11)   freq == Read32(13)  perSecond == Read32(17)
block == Read16(21)    bits == Read16(23)       data == Read32(25)

\* As long as the numbers fit their fields, a player reads in the header what the
\* reader was asked for, sizes that agree with each other, and the length of -l.
HeaderAgrees ==
  header # <<>> =>
    /\ bits = wBitsPerSample /\ freq = dwSamplesPerSec /\ data = dwPCMBytes
    /\ dwNumChannels * bytes < Word16 =>
         /\ channels = dwNumChannels /\ block * 8 = channels * bits
         /\ freq * block < Dword => perSecond = freq * block
    /\ data + 36 < Dword => riff = data + 36

\* The header, written before the file is opened, gives the number of channels of
\* every sample behind it, when the file has a format with that number or its first
\* that fits is the mono that is doubled.  (With neither, the samples have other
\* channels than the header says.)
HeaderTrue ==
  LET pcm == {k \in DOMAIN Formats : Formats[k].pcm}
      offered == \E k \in pcm : Formats[k].channels = dwNumChannels
      doubled == /\ dwNumChannels = 2
                 /\ \E k \in pcm : Formats[k].channels = 1 /\ \A l \in pcm : k <= l
  IN header # <<>> /\ (offered \/ doubled) =>
       \A k \in DOMAIN out : dwNumChannels < Word16 => out[k].channels = channels

\* wmadec ends, whatever the command line, the file and the SDK do.
DecodeEnds == <>(pc \in {"exited", "usage", "crash"})
=============================================================================
