------------------------------- MODULE GetOpt -------------------------------
(***************************************************************************)
(* getopt.cpp, of which socketwrapper and wmadec have a copy each: the     *)
(* options of the command line, one in a call.  A word is a sequence of    *)
(* characters; argv[0] is left out.                                        *)
(***************************************************************************)
EXTENDS Integers, Sequences

CONSTANTS Argvs,  \* the command lines
          Opts,   \* the letters of opts
          Takes   \* those a ':' follows

NUL == "NUL"
EOF == "EOF"
Character == STRING \ {NUL}

\* A C string: its terminator is none of its characters.
ASSUME ArgvAssumption == Argvs \subseteq Seq(Seq(Character))
ASSUME OptsAssumption == Opts \subseteq Character \ {EOF} /\ Takes \subseteq Opts

VARIABLES argv, optind,
          sp,      \* the static sp: index of the character to come
          c,       \* what the last call returned
          optarg,  \* no characters for NULL
          taken    \* what all calls returned

optVars == <<argv, optind, sp, c, optarg, taken>>

argc == Len(argv) + 1
Word == argv[optind]
Char(k) == IF k < Len(Word) THEN Word[k + 1] ELSE NUL   \* argv[optind][k]

OptInit ==
  /\ argv \in Argvs
  /\ optind = 1 /\ sp = 1 /\ c = NUL /\ optarg = <<>> /\ taken = <<>>

Returns(r, text) ==
  /\ c' = r /\ optarg' = text
  /\ taken' = IF r = EOF THEN taken ELSE Append(taken, [c |-> r, arg |-> text])
  /\ UNCHANGED argv

\* No word, or one that is no option: the '-' alone is an operand.
AtOperand == ~(optind < argc /\ Char(0) \in {"+", "-"} /\ Char(1) # NUL)
AtEndMark == Word = <<"-", "-">>
AtLetter  == sp > 1 \/ (~AtOperand /\ ~AtEndMark /\ Char(0) = "-")

Operand  == sp = 1 /\ AtOperand /\ Returns(EOF, optarg) /\ UNCHANGED <<optind, sp>>

EndMark  == /\ sp = 1 /\ ~AtOperand /\ AtEndMark
            /\ optind' = optind + 1
            /\ Returns(EOF, optarg) /\ UNCHANGED sp

\* "'+' for config options".
Config   == /\ sp = 1 /\ ~AtOperand /\ Char(0) = "+"
            /\ optind' = optind + 1
            /\ Returns("+", Tail(Word)) /\ UNCHANGED sp

\* Faulty variant: the next word is begun where this one ended.
ToNextChar == IF Char(sp + 1) = NUL THEN optind' = optind + 1 /\ UNCHANGED sp
                                    ELSE sp' = sp + 1 /\ UNCHANGED optind

\* Faulty variant: a group of letters is left after its first.
ToNextWord == optind' = optind + 1 /\ sp' = 1

\* The next character, or the next word.
Advance == IF Char(sp + 1) = NUL THEN optind' = optind + 1 /\ sp' = 1
                                 ELSE sp' = sp + 1 /\ UNCHANGED optind

Illegal  == AtLetter /\ Char(sp) \notin Opts /\ Advance /\ Returns(NUL, optarg)

Flag     == AtLetter /\ Char(sp) \in Opts \ Takes /\ Advance /\ Returns(Char(sp), <<>>)

\* The argument is the rest of the word or the next word, or is missing.
Argument ==
  /\ AtLetter /\ Char(sp) \in Takes
  /\ sp' = 1
  /\ IF Char(sp + 1) # NUL
     THEN optind' = optind + 1 /\ Returns(Char(sp), SubSeq(Word, sp + 2, Len(Word)))
     ELSE IF optind + 1 >= argc
     THEN optind' = optind + 1 /\ Returns(NUL, optarg)
     ELSE optind' = optind + 2 /\ Returns(Char(sp), argv[optind + 1])

getopt == Operand \/ EndMark \/ Config \/ Illegal \/ Flag \/ Argument

(* The C library's atoi: a sign, and digits up to what is none (no blanks here). *)
Digits == <<"0", "1", "2", "3", "4", "5", "6", "7", "8", "9">>
IsDigit(ch) == \E d \in 1 .. 10 : Digits[d] = ch
DigitValue(ch) == (CHOOSE d \in 1 .. 10 : Digits[d] = ch) - 1

\* At n: the number that the characters from the first to the n-th make.
Numeral(text, first) ==
  LET value[n \in 0 .. Len(text)] ==
        IF n < first THEN 0 ELSE value[n - 1] * 10 + DigitValue(text[n])
  IN value

atoi(text) ==
  LET first == IF text # <<>> /\ text[1] \in {"-", "+"} THEN 2 ELSE 1
      last  == CHOOSE n \in first - 1 .. Len(text) :
                 /\ \A k \in first .. n : IsDigit(text[k])
                 /\ n < Len(text) => ~IsDigit(text[n + 1])
      value == Numeral(text, first)[last]
  IN IF text = <<>> THEN 0 ELSE IF text[1] = "-" THEN -value ELSE value

OptSpec == OptInit /\ [][getopt]_optVars

-----------------------------------------------------------------------------
(* Properties. *)

\* getopt reads no word behind the last and no character behind a word's end,
\* whatever groups, arguments and errors came before: the static sp always fits
\* the word that optind names.
ReadsInside ==
  /\ optind \in 1 .. argc /\ sp \in Nat \ {0}
  /\ sp > 1 => optind < argc /\ sp < Len(Word)

\* The first letter of w that takes an argument, else the place behind w.
FirstTaker(w) == CHOOSE n \in 2 .. Len(w) + 1 : /\ n <= Len(w) => w[n] \in Takes
                                               /\ \A m \in 2 .. n - 1 : w[m] \notin Takes

\* What is said: an option, and the options of w up to the first with an argument.
OneOption(r, text) == <<[c |-> r, arg |-> text]>>
Letters(w) == [j \in 1 .. FirstTaker(w) - 2 |->
                 [c |-> IF w[j + 1] \in Opts THEN w[j + 1] ELSE NUL, arg |-> <<>>]]
Then(said, rest) == [options |-> said \o rest.options, operand |-> rest.operand]

\* Behind those letters of the k-th word: the argument of the one that takes it is
\* the rest of the word, or the next word, or missing.
Behind(line, k, next, nextButOne) ==
  LET w == line[k]  n == FirstTaker(w)
  IN IF n > Len(w) THEN next
     ELSE IF n < Len(w) THEN Then(OneOption(w[n], SubSeq(w, n + 1, Len(w))), next)
     ELSE IF k = Len(line) THEN [options |-> OneOption(NUL, <<>>), operand |-> k + 1]
     ELSE Then(OneOption(w[n], line[k + 1]), nextButOne)

\* What the words from the k-th on say, given what those behind it say: their
\* options, and the first operand.
Says(line, k, next, nextButOne) ==
  LET w == line[k]
  IN IF k > Len(line) \/ w = <<>> \/ w = <<"-">> \/ w = <<"+">> \/ w[1] \notin {"-", "+"}
     THEN [options |-> <<>>, operand |-> k]
     ELSE IF w = <<"-", "-">> THEN [options |-> <<>>, operand |-> k + 1]
     ELSE IF w[1] = "+" THEN Then(OneOption("+", Tail(w)), next)
     ELSE Then(Letters(w), Behind(line, k, next, nextButOne))

Read(line) ==
  LET read[k \in 1 .. Len(line) + 1] == Says(line, k, read[k + 1], read[k + 2]) IN read
Reading == Read(argv)[1]

\* What the calls have returned.  (An error leaves optarg as it was; no caller
\* looks at it.)
Said == [k \in DOMAIN taken |-> IF taken[k].c = NUL THEN [c |-> NUL, arg |-> <<>>]
                                                   ELSE taken[k]]

\* The calls return the options of the line, each once, in order and with its own
\* argument, and the operands begin where the options end.
OptionsRead ==
  /\ Said = SubSeq(Reading.options, 1, Len(Said))
  /\ c = EOF => Said = Reading.options /\ optind = Reading.operand
=============================================================================
