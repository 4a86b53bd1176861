---------------------------- MODULE GetOptProofs ----------------------------
(***************************************************************************)
(* getopt reads inside its words, and atoi returns a number, for every     *)
(* command line.  What is defined by recursion is reasoned about with the  *)
(* least-number principle: a set of counterexamples has a least one.       *)
(***************************************************************************)
EXTENDS GetOpt, WellFoundedInduction, TLAPS

-----------------------------------------------------------------------------
(* getopt. *)

\* What is kept: the words do not change, and the type of what is read.
OptInv ==
  /\ argv \in Seq(Seq(Character))
  /\ ReadsInside

\* A character that is not the terminator lies inside the word.
LEMMA CharInside ==
  ASSUME OptInv, optind < argc, NEW k \in Nat, Char(k) # NUL
  PROVE  k < Len(Word) /\ Len(Word) \in Nat
  <1>1. Word \in Seq(Character)
    BY DEF OptInv, ReadsInside, Word, argc
  <1> QED BY <1>1 DEF Char

\* Where a letter is read there is one: behind the '-' the word goes on.
LEMMA LetterInside ==
  ASSUME OptInv, AtLetter
  PROVE  optind < argc /\ sp < Len(Word) /\ Len(Word) \in Nat
  <1>0. argc \in Nat /\ optind \in 1 .. argc /\ sp \in Nat \ {0}
    BY DEF OptInv, ReadsInside, argc
  <1>1. CASE sp > 1
    <2>1. optind < argc /\ sp < Len(Word)
      BY <1>1 DEF OptInv, ReadsInside
    <2>2. Word \in Seq(Character)
      BY <1>0, <2>1 DEF OptInv, Word, argc
    <2> QED BY <2>1, <2>2
  <1>2. CASE ~(sp > 1)
    <2>1. sp = 1 /\ ~AtOperand
      BY <1>0, <1>2 DEF AtLetter
    <2>2. optind < argc /\ Char(1) # NUL
      BY <2>1 DEF AtOperand
    <2> QED BY <2>1, <2>2, CharInside
  <1> QED BY <1>1, <1>2

\* To advance from a letter keeps the place inside the words.
LEMMA AdvanceInside ==
  ASSUME OptInv, AtLetter, Advance, UNCHANGED argv
  PROVE  ReadsInside'
  <1>1. optind < argc /\ sp < Len(Word) /\ Len(Word) \in Nat
    BY LetterInside
  <1>2. argc \in Nat /\ optind \in 1 .. argc /\ sp \in Nat \ {0} /\ argc' = argc
    BY DEF OptInv, ReadsInside, argc
  <1>3. CASE Char(sp + 1) = NUL
    BY <1>1, <1>2, <1>3 DEF Advance, ReadsInside
  <1>4. CASE Char(sp + 1) # NUL
    <2>1. sp + 1 < Len(Word)
      BY <1>1, <1>2, <1>4, CharInside
    <2>2. optind' = optind /\ sp' = sp + 1 /\ Word' = Word
      BY <1>4 DEF Advance, Word
    <2> QED BY <1>1, <1>2, <2>1, <2>2 DEF ReadsInside
  <1> QED BY <1>3, <1>4

LEMMA OptInitInv == OptInit => OptInv
  <1> SUFFICES ASSUME OptInit PROVE OptInv
    OBVIOUS
  <1>1. argv \in Seq(Seq(Character)) /\ optind = 1 /\ sp = 1
    BY ArgvAssumption DEF OptInit
  <1> QED BY <1>1 DEF OptInv, ReadsInside, argc

LEMMA OptNextInv == OptInv /\ [getopt]_optVars => OptInv'
  <1> SUFFICES ASSUME OptInv, [getopt]_optVars PROVE OptInv'
    OBVIOUS
  <1>0. argc \in Nat /\ optind \in 1 .. argc /\ sp \in Nat \ {0}
    BY DEF OptInv, ReadsInside, argc
  <1>1. argv' = argv
    BY DEF getopt, Operand, EndMark, Config, Illegal, Flag, Argument, Returns, optVars
  <1>2. argv' \in Seq(Seq(Character)) /\ argc' = argc
    BY <1>1 DEF OptInv, argc
  <1>3. CASE Operand
    <2>1. UNCHANGED <<optind, sp>> /\ Word' = Word
      BY <1>1, <1>3 DEF Operand, Word
    <2> QED BY <1>0, <1>2, <2>1 DEF OptInv, ReadsInside
  <1>4. CASE EndMark \/ Config
    <2>1. optind < argc /\ optind' = optind + 1 /\ sp' = 1
      BY <1>4 DEF EndMark, Config, AtOperand
    <2> QED BY <1>0, <1>2, <2>1 DEF OptInv, ReadsInside
  <1>5. CASE Illegal \/ Flag
    <2>1. AtLetter /\ Advance
      BY <1>5 DEF Illegal, Flag
    <2> QED BY <1>1, <1>2, <2>1, AdvanceInside DEF OptInv
  <1>6. CASE Argument
    <2>1. optind < argc
      BY <1>6, LetterInside DEF Argument
    <2>2. sp' = 1 /\ optind' \in {optind + 1, optind + 2}
      BY <1>6 DEF Argument
    <2>3. optind' = optind + 2 => optind + 1 < argc
      BY <1>0, <1>6 DEF Argument
    <2> QED BY <1>0, <1>2, <2>1, <2>2, <2>3 DEF OptInv, ReadsInside
  <1>7. CASE UNCHANGED optVars
    <2>1. UNCHANGED <<optind, sp>> /\ Word' = Word
      BY <1>7 DEF optVars, Word
    <2> QED BY <1>0, <1>2, <2>1 DEF OptInv, ReadsInside
  <1> QED BY <1>3, <1>4, <1>5, <1>6, <1>7 DEF getopt

\* getopt never reads behind the last word or behind the end of a word: the
\* static sp always fits the word that optind names.
THEOREM ReadsInsideCorrect == OptSpec => []ReadsInside
  <1>1. OptInv => ReadsInside
    BY DEF OptInv
  <1> QED
    BY <1>1, OptInitInv, OptNextInv, PTL DEF OptSpec

-----------------------------------------------------------------------------
(* Recursion. *)

\* A set of natural numbers that has a member has a least one.
LEMMA Least ==
  ASSUME NEW S \in SUBSET Nat, S # {}
  PROVE  \E n \in S : \A m \in S : n <= m
<1> DEFINE R == OpToRel(<, Nat)
<1>1. \A x, y \in Nat : y < x => <<y, x>> \in R
  BY DEF OpToRel
<1>2. IsWellFoundedOn(R, Nat)
  BY NatLessThanWellFounded
<1> HIDE DEF R
<1>3. PICK n \in S : \A m \in S : <<m, n>> \notin R
  BY <1>2, WFMin
<1>4. \A m \in S : ~(m < n)
  BY <1>1, <1>3
<1> QED
  BY <1>4

\* The function that Numeral defines by recursion exists.
LEMMA NumeralExists ==
  ASSUME NEW text, NEW first \in Nat \ {0}, NEW len \in Nat
  PROVE \E value : value = [n \in 0 .. len |-> IF n < first THEN 0
                                             ELSE value[n - 1] * 10 + DigitValue(text[n])]
<1> DEFINE Next(v, l) == [n \in 0 .. l |-> IF n < first THEN 0
                                           ELSE v[n - 1] * 10 + DigitValue(text[n])]
           Not == {l \in Nat : ~ \E v : v = Next(v, l)}
<1>1. SUFFICES ASSUME len \in Not PROVE FALSE
  OBVIOUS
<1>2. PICK l \in Not : \A m \in Not : l <= m
  <2>1. Not \in SUBSET Nat
    OBVIOUS
  <2> HIDE DEF Not
  <2> QED
    BY <1>1, <2>1, Least
<1>3. PICK w : l # 0 => w = Next(w, l - 1)
  BY <1>2
<1>4. \A n \in 0 .. l : Next(w, l)[n] = Next(Next(w, l), l)[n]
  BY <1>3
<1> QED
  BY <1>2, <1>4

\* So it is what its equation says.
LEMMA NumeralDef ==
  ASSUME NEW text, NEW first \in Nat \ {0}, Len(text) \in Nat
  PROVE  Numeral(text, first) =
           [n \in 0 .. Len(text) |-> IF n < first THEN 0
                                    ELSE Numeral(text, first)[n - 1] * 10 + DigitValue(text[n])]
BY NumeralExists DEF Numeral
\* The digits up to the n-th make a natural number.
LEMMA NumeralNat ==
  ASSUME NEW text, NEW first \in Nat \ {0}, Len(text) \in Nat,
         NEW last \in 0 .. Len(text), \A k \in first .. last : IsDigit(text[k])
  PROVE  Numeral(text, first)[last] \in Nat
<1> DEFINE value == Numeral(text, first)
           Not == {n \in 0 .. last : value[n] \notin Nat}
<1>1. SUFFICES ASSUME Not # {} PROVE FALSE
  OBVIOUS
<1>2. Not \in SUBSET Nat
  OBVIOUS
<1>3. PICK n \in Not : \A m \in Not : n <= m
  <2> HIDE DEF Not
  <2> QED
    BY <1>1, <1>2, Least
<1>4. value[n] = IF n < first THEN 0 ELSE value[n - 1] * 10 + DigitValue(text[n])
  BY NumeralDef
<1>5. CASE n < first
  BY <1>4, <1>5
<1>6. CASE ~(n < first)
  <2>1. n \in first .. last /\ n - 1 \in 0 .. last /\ n - 1 \notin Not
    BY <1>3, <1>6
  <2>2. value[n - 1] \in Nat
    BY <2>1
  <2>3. DigitValue(text[n]) \in Nat
    BY <2>1 DEF IsDigit, DigitValue
  <2> HIDE DEF value
  <2> QED
    BY <1>3, <1>4, <1>6, <2>2, <2>3
<1> QED
  BY <1>5, <1>6

\* atoi returns a number for every text.
LEMMA AtoiInt == ASSUME NEW text \in Seq(Character) PROVE atoi(text) \in Int
<1> DEFINE first == IF text # <<>> /\ text[1] \in {"-", "+"} THEN 2 ELSE 1
           Ends(n) == /\ \A k \in first .. n : IsDigit(text[k])
                      /\ n < Len(text) => ~IsDigit(text[n + 1])
           Stops == {n \in first - 1 .. Len(text) : n = Len(text) \/ ~IsDigit(text[n + 1])}
           last == CHOOSE n \in first - 1 .. Len(text) : Ends(n)
<1>1. SUFFICES ASSUME text # <<>> PROVE atoi(text) \in Int
  BY DEF atoi
<1>2. Len(text) \in Nat /\ Len(text) >= first - 1 /\ first \in {1, 2}
  BY <1>1
<1>3. PICK n \in Stops : \A m \in Stops : n <= m
  <2>1. Stops \in SUBSET Nat /\ Len(text) \in Stops
    BY <1>2
  <2> HIDE DEF Stops
  <2> QED
    BY <2>1, Least
<1>4. Ends(n)
  <2>1. ASSUME NEW k \in first .. n, ~IsDigit(text[k]) PROVE FALSE
    <3>1. k - 1 \in Stops
      BY <1>2, <2>1
    <3>2. n <= k - 1
      <4> HIDE DEF Stops
      <4> QED
        BY <1>3, <3>1
    <3> QED
      BY <1>2, <2>1, <3>2
  <2> QED
    BY <1>2, <1>3, <2>1
<1>5. last \in first - 1 .. Len(text) /\ Ends(last)
  BY <1>2, <1>3, <1>4
<1>6. Numeral(text, first)[last] \in Nat
  <2>1. last \in 0 .. Len(text)
    BY <1>2, <1>5
  <2> HIDE DEF last, first
  <2> QED
    BY <1>2, <1>5, <2>1, NumeralNat
<1>7. atoi(text) = IF text[1] = "-" THEN -Numeral(text, first)[last]
                                    ELSE Numeral(text, first)[last]
  BY <1>1 DEF atoi
<1> QED
  BY <1>6, <1>7
-----------------------------------------------------------------------------
(* What the words of the line say. *)

Letter == Opts \cup {NUL, "+"}
Item == [c : Letter, arg : Seq(Character)]
Saying == [options : Seq(Item), operand : Nat]

\* The first letter that takes an argument is found by a search from the left.
LEMMA FirstTakerDef ==
  ASSUME NEW w \in Seq(Character), w # <<>>
  PROVE  /\ FirstTaker(w) \in 2 .. Len(w) + 1
         /\ FirstTaker(w) <= Len(w) => w[FirstTaker(w)] \in Takes
         /\ \A m \in 2 .. FirstTaker(w) - 1 : w[m] \notin Takes
<1> DEFINE Ends(n) == n <= Len(w) => w[n] \in Takes
           Stops == {n \in 2 .. Len(w) + 1 : Ends(n)}
<1>1. Len(w) \in Nat \ {0}
  OBVIOUS
<1>2. PICK n \in Stops : \A m \in Stops : n <= m
  <2>1. Stops \in SUBSET Nat /\ Len(w) + 1 \in Stops
    BY <1>1
  <2> HIDE DEF Stops
  <2> QED
    BY <2>1, Least
<1>3. ASSUME NEW m \in 2 .. n - 1 PROVE w[m] \notin Takes
  <2>1. m \notin Stops
    <3> SUFFICES ASSUME m \in Stops PROVE FALSE
      OBVIOUS
    <3>1. n <= m
      BY <1>2
    <3> QED
      BY <1>1, <1>2, <3>1
  <2>2. m \in 2 .. Len(w) + 1
    BY <1>1, <1>2
  <2> QED
    BY <2>1, <2>2
<1>4. n \in 2 .. Len(w) + 1 /\ Ends(n)
  BY <1>2
<1> QED
  BY <1>3, <1>4 DEF FirstTaker

LEMMA LettersType ==
  ASSUME NEW w \in Seq(Character), w # <<>>
  PROVE  Letters(w) \in Seq(Item) /\ Len(Letters(w)) = FirstTaker(w) - 2
<1>1. FirstTaker(w) - 2 \in Nat /\ FirstTaker(w) <= Len(w) + 1
  BY FirstTakerDef
<1>2. \A j \in 1 .. FirstTaker(w) - 2 :
        [c |-> IF w[j + 1] \in Opts THEN w[j + 1] ELSE NUL, arg |-> <<>>] \in Item
  <2>1. <<>> \in Seq(Character) /\ NUL \in Letter /\ Opts \subseteq Letter
    BY DEF Letter
  <2> QED
    BY <2>1 DEF Item
<1> QED
  BY <1>1, <1>2 DEF Letters

LEMMA ThenType ==
  ASSUME NEW said \in Seq(Item), NEW rest \in Saying
  PROVE  Then(said, rest) \in Saying
BY DEF Then, Saying

\* What is said first may be cut anywhere.
LEMMA ThenThen ==
  ASSUME NEW a \in Seq(Item), NEW b \in Seq(Item), NEW rest \in Saying
  PROVE  Then(a \o b, rest) = Then(a, Then(b, rest)) /\ Then(<<>>, rest) = rest
<1>1. rest.options \in Seq(Item) /\ rest = [options |-> rest.options, operand |-> rest.operand]
  BY DEF Saying
<1>2. (a \o b) \o rest.options = a \o (b \o rest.options) /\ <<>> \o rest.options = rest.options
  BY <1>1
<1> QED
  BY <1>1, <1>2 DEF Then

LEMMA OneOptionType ==
  ASSUME NEW r \in Letter, NEW text \in Seq(Character)
  PROVE  OneOption(r, text) \in Seq(Item)
BY DEF OneOption, Item

\* What follows is asked for only where there is a word.
LEMMA BehindType ==
  ASSUME NEW line \in Seq(Seq(Character)), NEW k \in 1 .. Len(line), line[k] # <<>>,
         NEW next \in Saying, NEW nextButOne, k < Len(line) => nextButOne \in Saying
  PROVE  Behind(line, k, next, nextButOne) \in Saying
<1> DEFINE w == line[k]
           n == FirstTaker(w)
<1>1. w \in Seq(Character) /\ Len(w) \in Nat /\ k \in Nat
  OBVIOUS
<1>2. n \in 2 .. Len(w) + 1 /\ (n <= Len(w) => w[n] \in Letter)
  BY <1>1, FirstTakerDef, OptsAssumption DEF Letter
<1> HIDE DEF n
<1>3. CASE n > Len(w)
  BY <1>3 DEF Behind, n
<1>4. CASE n < Len(w)
  <2>1. SubSeq(w, n + 1, Len(w)) \in Seq(Character)
    BY <1>1, <1>2, <1>4
  <2>2. Behind(line, k, next, nextButOne) = Then(OneOption(w[n], SubSeq(w, n + 1, Len(w))), next)
    BY <1>1, <1>2, <1>4 DEF Behind, n
  <2>3. OneOption(w[n], SubSeq(w, n + 1, Len(w))) \in Seq(Item)
    <3>1. w[n] \in Letter
      BY <1>1, <1>2, <1>4
    <3> QED
      BY <2>1, <3>1, OneOptionType
  <2> QED
    BY <2>2, <2>3, ThenType
<1>5. CASE n = Len(w) /\ k = Len(line)
  <2>1. Behind(line, k, next, nextButOne) = [options |-> OneOption(NUL, <<>>), operand |-> k + 1]
    BY <1>1, <1>5 DEF Behind, n
  <2>2. OneOption(NUL, <<>>) \in Seq(Item)
    <3>1. NUL \in Letter /\ <<>> \in Seq(Character)
      BY DEF Letter
    <3> QED
      BY <3>1, OneOptionType
  <2> QED
    BY <1>1, <2>1, <2>2 DEF Saying
<1>6. CASE n = Len(w) /\ k < Len(line)
  <2>1. line[k + 1] \in Seq(Character)
    BY <1>6
  <2>2. Behind(line, k, next, nextButOne) = Then(OneOption(w[n], line[k + 1]), nextButOne)
    BY <1>1, <1>6 DEF Behind, n
  <2>3. OneOption(w[n], line[k + 1]) \in Seq(Item)
    BY <1>2, <1>6, <2>1, OneOptionType
  <2> QED
    BY <1>6, <2>2, <2>3, ThenType
<1> QED
  BY <1>1, <1>2, <1>3, <1>4, <1>5, <1>6

LEMMA SaysType ==
  ASSUME NEW line \in Seq(Seq(Character)), NEW k \in 1 .. Len(line) + 1,
         NEW next, NEW nextButOne,
         k <= Len(line) => next \in Saying, k < Len(line) => nextButOne \in Saying
  PROVE  Says(line, k, next, nextButOne) \in Saying
<1> DEFINE w == line[k]
<1>1. CASE \/ k > Len(line) \/ w = <<>> \/ w = <<"-">> \/ w = <<"+">> \/ w[1] \notin {"-", "+"}
           \/ w = <<"-", "-">>
  BY <1>1 DEF Says, Saying
<1>2. CASE ~(\/ k > Len(line) \/ w = <<>> \/ w = <<"-">> \/ w = <<"+">> \/ w[1] \notin {"-", "+"}
             \/ w = <<"-", "-">>)
  <2>1. w \in Seq(Character) /\ k \in 1 .. Len(line) /\ w # <<>>
    BY <1>2
  <2>2. CASE w[1] = "+"
    <3>1. Tail(w) \in Seq(Character)
      BY <2>1
    <3>2. Says(line, k, next, nextButOne) = Then(OneOption("+", Tail(w)), next)
      BY <1>2, <2>2 DEF Says
    <3>3. OneOption("+", Tail(w)) \in Seq(Item)
      <4>1. "+" \in Letter
        BY DEF Letter
      <4> QED
        BY <3>1, <4>1, OneOptionType
    <3> QED
      BY <2>1, <3>2, <3>3, ThenType
  <2>3. CASE w[1] # "+"
    <3>1. Says(line, k, next, nextButOne) = Then(Letters(w), Behind(line, k, next, nextButOne))
      BY <1>2, <2>3 DEF Says
    <3>2. Letters(w) \in Seq(Item) /\ Behind(line, k, next, nextButOne) \in Saying
      BY <2>1, LettersType, BehindType
    <3> QED
      BY <3>1, <3>2, ThenType
  <2> QED
    BY <2>2, <2>3
<1> QED
  BY <1>1, <1>2

\* Where no word follows, nothing that follows is asked for.
LEMMA SaysLocal ==
  ASSUME NEW line \in Seq(Seq(Character)), NEW k \in 1 .. Len(line) + 1,
         NEW a, NEW b, NEW x, NEW y, k <= Len(line) => a = x, k < Len(line) => b = y
  PROVE  Says(line, k, a, b) = Says(line, k, x, y)
<1>1. k \in Nat /\ Len(line) \in Nat
  OBVIOUS
<1>2. k <= Len(line) => Behind(line, k, a, b) = Behind(line, k, x, y)
  BY <1>1 DEF Behind
<1> QED
  BY <1>1, <1>2 DEF Says

\* The recursion from the last word to the first is well-defined.
LEMMA ReadExists ==
  ASSUME NEW line \in Seq(Seq(Character)), NEW len \in 0 .. Len(line)
  PROVE \E read : read = [k \in Len(line) + 1 - len .. Len(line) + 1 |->
                            Says(line, k, read[k + 1], read[k + 2])]
<1> DEFINE argcs == Len(line) + 1
           Next(r, l) == [k \in argcs - l .. argcs |-> Says(line, k, r[k + 1], r[k + 2])]
           Not == {l \in 0 .. Len(line) : ~ \E r : r = Next(r, l)}
<1>1. SUFFICES ASSUME len \in Not PROVE FALSE
  OBVIOUS
<1>2. PICK l \in Not : \A m \in Not : l <= m
  <2>1. Not \in SUBSET Nat
    OBVIOUS
  <2> HIDE DEF Not
  <2> QED
    BY <1>1, <2>1, Least
<1>3. l \in 0 .. Len(line) /\ Len(line) \in Nat /\ argcs \in Nat
  BY <1>2
<1>4. PICK r : l # 0 => r = Next(r, l - 1)
  <2>1. CASE l = 0
    BY <2>1
  <2>2. CASE l # 0
    <3>1. l - 1 \in 0 .. Len(line) /\ ~(l <= l - 1)
      BY <1>3, <2>2
    <3>2. l - 1 \notin Not
      <4> HIDE DEF Not
      <4> QED
        BY <1>2, <3>1
    <3>3. \E r : r = Next(r, l - 1)
      <4> HIDE DEF Next
      <4> QED
        BY <3>1, <3>2
    <3> QED
      BY <3>3
  <2> QED
    BY <2>1, <2>2
<1>5. ASSUME NEW k \in argcs - l .. argcs
      PROVE  Says(line, k, r[k + 1], r[k + 2])
               = Says(line, k, Next(r, l)[k + 1], Next(r, l)[k + 2])
  <2>1. ASSUME NEW m \in {k + 1, k + 2}, m <= argcs PROVE r[m] = Next(r, l)[m]
    <3>1. l # 0 /\ m \in argcs - (l - 1) .. argcs /\ m \in argcs - l .. argcs
      BY <1>3, <2>1
    <3>2. r[m] = Next(r, l - 1)[m]
      BY <1>4, <3>1
    <3> QED
      BY <3>1, <3>2
  <2>2. k \in 1 .. Len(line) + 1 /\ (k <= Len(line) => k + 1 <= argcs) /\ (k < Len(line) => k + 2 <= argcs)
    BY <1>3
  <2>3. k <= Len(line) => r[k + 1] = Next(r, l)[k + 1]
    BY <2>1, <2>2
  <2>4. k < Len(line) => r[k + 2] = Next(r, l)[k + 2]
    BY <2>1, <2>2
  <2> HIDE DEF Next
  <2> QED
    BY <2>2, <2>3, <2>4, SaysLocal
<1>6. Next(r, l) = Next(Next(r, l), l)
  BY <1>5
<1> HIDE DEF Next
<1>7. l \notin Not
  BY <1>6
<1> QED
  BY <1>2, <1>7

\* So each word says what the equation says, and that is options and an operand.
LEMMA ReadDef ==
  ASSUME NEW line \in Seq(Seq(Character)), NEW k \in 1 .. Len(line) + 1
  PROVE  Read(line)[k] = Says(line, k, Read(line)[k + 1], Read(line)[k + 2])
<1>1. \E read : read = [n \in Len(line) + 1 - Len(line) .. Len(line) + 1 |->
                          Says(line, n, read[n + 1], read[n + 2])]
  BY ReadExists
<1>2. Len(line) + 1 - Len(line) = 1
  OBVIOUS
<1>3. Read(line) = [n \in 1 .. Len(line) + 1 |-> Says(line, n, Read(line)[n + 1], Read(line)[n + 2])]
  BY <1>1, <1>2 DEF Read
<1> HIDE DEF Read
<1> QED
  BY <1>3

LEMMA ReadType ==
  ASSUME NEW line \in Seq(Seq(Character)), NEW k \in 1 .. Len(line) + 1
  PROVE  Read(line)[k] \in Saying
<1> DEFINE Not == {l \in 0 .. Len(line) : Read(line)[Len(line) + 1 - l] \notin Saying}
<1>1. SUFFICES ASSUME Len(line) + 1 - k \in Not PROVE FALSE
  <2>1. Len(line) + 1 - k \in 0 .. Len(line) /\ Len(line) + 1 - (Len(line) + 1 - k) = k
    OBVIOUS
  <2> QED
    BY <2>1
<1>2. PICK l \in Not : \A m \in Not : l <= m
  <2>1. Not \in SUBSET Nat
    OBVIOUS
  <2> HIDE DEF Not
  <2> QED
    BY <1>1, <2>1, Least
<1> DEFINE n == Len(line) + 1 - l
<1>3. l \in 0 .. Len(line) /\ Len(line) \in Nat /\ n \in 1 .. Len(line) + 1
  BY <1>2
<1>4. ASSUME NEW m \in {n + 1, n + 2}, m <= Len(line) + 1 PROVE Read(line)[m] \in Saying
  <2>1. Len(line) + 1 - m \in 0 .. Len(line) /\ Len(line) + 1 - m < l
        /\ Len(line) + 1 - (Len(line) + 1 - m) = m
    BY <1>3, <1>4
  <2>2. Len(line) + 1 - m \notin Not
    <3> HIDE DEF Not
    <3> QED
      BY <1>2, <1>3, <2>1
  <2> QED
    BY <2>1, <2>2
<1>5. (n <= Len(line) => Read(line)[n + 1] \in Saying) /\ (n < Len(line) => Read(line)[n + 2] \in Saying)
  BY <1>3, <1>4
<1>6. Read(line)[n] \in Saying
  <2> HIDE DEF n
  <2> QED
    BY <1>3, <1>5, ReadDef, SaysType
<1> QED
  BY <1>2, <1>6

-----------------------------------------------------------------------------
(* The calls say what the line says. *)

\* What is still to be said, in the k-th word of a line from the place s on: the
\* rest of that word, and the words behind it.
RestOf(line, k, s) ==
  Then(SubSeq(Letters(line[k]), s, Len(Letters(line[k]))),
       Behind(line, k, Read(line)[k + 1], Read(line)[k + 2]))
AheadOf(line, k, s) == IF s = 1 THEN Read(line)[k] ELSE RestOf(line, k, s)
Ahead == AheadOf(argv, optind, sp)
Rest  == RestOf(argv, optind, sp)

\* What was said and what is still to be said are together what the line says, and
\* no letter is read behind the one that takes an argument.
ReadInv ==
  /\ OptInv /\ optarg \in Seq(Character) /\ taken \in Seq(Item)
  /\ c # EOF /\ sp > 1 => sp < FirstTaker(Word)
  /\ c # EOF => Reading = Then(Said, Ahead)
  /\ c = EOF => Said = Reading.options /\ optind = Reading.operand

\* What a call returns is said as it is, but that an error has no argument.
Clean(item) == IF item.c = NUL THEN [c |-> NUL, arg |-> <<>>] ELSE item

LEMMA CleanType == ASSUME NEW item \in Item PROVE Clean(item) \in Item
<1>1. <<>> \in Seq(Character) /\ NUL \in Letter
  BY DEF Letter
<1> QED
  BY <1>1 DEF Clean, Item

LEMMA SaidDef == Said = [k \in DOMAIN taken |-> Clean(taken[k])]
BY DEF Said, Clean

LEMMA SaidType ==
  ASSUME taken \in Seq(Item)
  PROVE  Said \in Seq(Item) /\ Len(Said) = Len(taken)
<1>1. Len(taken) \in Nat /\ DOMAIN taken = 1 .. Len(taken)
  OBVIOUS
<1>2. \A k \in 1 .. Len(taken) : Clean(taken[k]) \in Item
  BY CleanType
<1> QED
  BY <1>1, <1>2, SaidDef

LEMMA SaidAppend ==
  ASSUME taken \in Seq(Item), NEW r \in Letter, NEW text \in Seq(Character),
         taken' = Append(taken, [c |-> r, arg |-> text])
  PROVE  /\ taken' \in Seq(Item)
         /\ Said' = Said \o OneOption(r, IF r = NUL THEN <<>> ELSE text)
<1> DEFINE item == [c |-> r, arg |-> text]
<1>1. item \in Item /\ Len(taken) \in Nat
  BY DEF Item
<1>2. OneOption(r, IF r = NUL THEN <<>> ELSE text) = <<Clean(item)>>
  BY DEF OneOption, Clean
<1>3. taken' = Append(taken, item)
  OBVIOUS
<1>4. Said' = [k \in DOMAIN taken' |-> Clean(taken'[k])]
  BY DEF Said, Clean
<1>5. Said \in Seq(Item) /\ Len(Said) = Len(taken) /\ Clean(item) \in Item
  BY <1>1, SaidType, CleanType
<1> HIDE DEF item
<1>6. taken' \in Seq(Item) /\ DOMAIN taken' = 1 .. Len(taken) + 1 /\ DOMAIN taken = 1 .. Len(taken)
  BY <1>1, <1>3
<1>7. \A k \in 1 .. Len(taken) + 1 : taken'[k] = IF k <= Len(taken) THEN taken[k] ELSE item
  BY <1>1, <1>3
<1>8. Said' = Append(Said, Clean(item))
  <2>1. /\ Append(Said, Clean(item)) \in Seq(Item)
        /\ Len(Append(Said, Clean(item))) = Len(taken) + 1
        /\ \A k \in 1 .. Len(taken) + 1 :
             Append(Said, Clean(item))[k] = IF k <= Len(taken) THEN Said[k] ELSE Clean(item)
    BY <1>1, <1>5
  <2>2. \A k \in 1 .. Len(taken) : Said[k] = Clean(taken[k])
    BY <1>6, SaidDef
  <2>3. Said' \in Seq(Item) /\ Len(Said') = Len(taken) + 1
    <3>1. \A k \in 1 .. Len(taken) + 1 : Clean(taken'[k]) \in Item
      BY <1>6, CleanType
    <3> QED
      BY <1>1, <1>4, <1>6, <3>1
  <2>4. \A k \in 1 .. Len(taken) + 1 : Said'[k] = Append(Said, Clean(item))[k]
    BY <1>1, <1>4, <1>6, <1>7, <2>1, <2>2
  <2> QED
    BY <2>1, <2>3, <2>4
<1>9. Append(Said, Clean(item)) = Said \o <<Clean(item)>>
  BY <1>5
<1> QED
  BY <1>2, <1>6, <1>8, <1>9

\* A call that returns what the line says next leaves the rest to the calls behind.
LEMMA CallSays ==
  ASSUME ReadInv, c # EOF, OptInv', NEW r \in Letter, NEW text \in Seq(Character),
         Returns(r, text), Ahead' \in Saying,
         Ahead = Then(OneOption(r, IF r = NUL THEN <<>> ELSE text), Ahead'),
         sp' > 1 => sp' < FirstTaker(Word')
  PROVE  ReadInv'
<1> DEFINE one == OneOption(r, IF r = NUL THEN <<>> ELSE text)
<1>1. r # EOF
  BY OptsAssumption DEF Letter, EOF, NUL
<1>2. c' = r /\ optarg' = text /\ taken' = Append(taken, [c |-> r, arg |-> text]) /\ argv' = argv
  BY <1>1 DEF Returns
<1>3. taken \in Seq(Item) /\ Reading = Then(Said, Ahead)
  BY DEF ReadInv
<1>4. taken' \in Seq(Item) /\ Said' = Said \o one
  BY <1>2, <1>3, SaidAppend
<1>5. Said \in Seq(Item) /\ one \in Seq(Item)
  <2>1. <<>> \in Seq(Character)
    OBVIOUS
  <2>2. (IF r = NUL THEN <<>> ELSE text) \in Seq(Character)
    BY <2>1
  <2> QED
    BY <1>3, <2>2, SaidType, OneOptionType
<1>6. Reading' = Reading
  BY <1>2 DEF Reading
<1>7. Reading' = Then(Said', Ahead')
  <2> HIDE DEF one
  <2>1. Ahead = Then(one, Ahead')
    BY DEF one
  <2>2. Then(Said \o one, Ahead') = Then(Said, Then(one, Ahead'))
    BY <1>5, ThenThen
  <2> QED
    BY <1>3, <1>4, <1>6, <2>1, <2>2
<1> QED
  BY <1>1, <1>2, <1>4, <1>7 DEF ReadInv

\* At a letter what is ahead is the rest of the word, from that letter on.
LEMMA AheadOfLetter ==
  ASSUME ReadInv, c # EOF, AtLetter
  PROVE  /\ optind \in 1 .. Len(argv) /\ sp \in 1 .. Len(Word) - 1 /\ Word \in Seq(Character)
         /\ sp < FirstTaker(Word) /\ Ahead = Rest
<1>1. OptInv /\ argv \in Seq(Seq(Character)) /\ optind \in Nat \ {0} /\ sp \in Nat \ {0}
  BY DEF ReadInv, OptInv, ReadsInside
<1>2. optind \in 1 .. Len(argv) /\ sp \in 1 .. Len(Word) - 1
  BY <1>1, LetterInside DEF argc
<1>3. Word \in Seq(Character) /\ Word # <<>> /\ Len(Word) \in Nat
  BY <1>1, <1>2 DEF Word
<1>4. CASE sp > 1
  BY <1>2, <1>3, <1>4 DEF ReadInv, Ahead, Rest, AheadOf
<1>5. CASE sp = 1
  <2>1. FirstTaker(Word) > 1
    BY <1>3, FirstTakerDef
  <2>2. Letters(Word) \in Seq(Item)
    BY <1>3, LettersType
  <2>3. SubSeq(Letters(Word), 1, Len(Letters(Word))) = Letters(Word)
    BY <2>2
  <2>4. Char(0) = "-" /\ Char(0) = Word[1] /\ Len(Word) > 1 /\ ~AtEndMark
    BY <1>2, <1>3, <1>5 DEF AtLetter, Char
  <2>5. Read(argv)[optind]
          = Says(argv, optind, Read(argv)[optind + 1], Read(argv)[optind + 2])
    BY <1>1, <1>2, ReadDef
  <2>6. Says(argv, optind, Read(argv)[optind + 1], Read(argv)[optind + 2])
          = Then(Letters(Word), Behind(argv, optind, Read(argv)[optind + 1], Read(argv)[optind + 2]))
    <3>1. Word # <<"-">> /\ Word # <<"+">> /\ Word # <<"-", "-">> /\ Word[1] \in {"-", "+"} /\ Word[1] # "+"
      <4>1. 2 \notin DOMAIN <<"-">> /\ 2 \notin DOMAIN <<"+">>
        OBVIOUS
      <4>2. Word # <<"-">> /\ Word # <<"+">>
        <5>1. 2 \in DOMAIN Word
          BY <1>2, <1>3, <1>5
        <5> QED
          BY <4>1, <5>1
      <4>3. Word[1] \in {"-", "+"} /\ Word[1] # "+"
        BY <2>4
      <4> QED
        BY <2>4, <4>2, <4>3 DEF AtEndMark
    <3>2. ~(optind > Len(argv)) /\ Word = argv[optind]
      BY <1>1, <1>2 DEF Word
    <3> QED
      BY <1>3, <3>1, <3>2 DEF Says
  <2> QED
    BY <1>2, <1>3, <1>5, <2>1, <2>3, <2>5, <2>6 DEF Ahead, Rest, AheadOf, RestOf, Word
<1> QED
  BY <1>2, <1>4, <1>5

LEMMA AheadType ==
  ASSUME NEW line \in Seq(Seq(Character)), NEW k \in 1 .. Len(line) + 1, NEW s \in Nat \ {0},
         s > 1 => k <= Len(line) /\ s < Len(line[k])
  PROVE  AheadOf(line, k, s) \in Saying
<1>1. CASE s = 1
  BY <1>1, ReadType DEF AheadOf
<1>2. CASE s > 1
  <2>1. k \in 1 .. Len(line) /\ line[k] \in Seq(Character) /\ line[k] # <<>>
    BY <1>2
  <2>2. Letters(line[k]) \in Seq(Item)
    BY <2>1, LettersType
  <2>3. SubSeq(Letters(line[k]), s, Len(Letters(line[k]))) \in Seq(Item)
    BY <2>2
  <2>4. Read(line)[k + 1] \in Saying /\ (k < Len(line) => Read(line)[k + 2] \in Saying)
    <3>1. k + 1 \in 1 .. Len(line) + 1 /\ (k < Len(line) => k + 2 \in 1 .. Len(line) + 1)
      BY <2>1
    <3> QED
      BY <3>1, ReadType
  <2>5. Behind(line, k, Read(line)[k + 1], Read(line)[k + 2]) \in Saying
    BY <2>1, <2>4, BehindType
  <2> QED
    <3>1. RestOf(line, k, s) \in Saying
      BY <2>3, <2>5, ThenType DEF RestOf
    <3>2. s # 1
      BY <1>2
    <3> QED
      BY <3>1, <3>2 DEF AheadOf
<1> QED
  BY <1>1, <1>2

\* A letter without argument, or an illegal one, is said by the call that reads it.
LEMMA LetterSaid ==
  ASSUME ReadInv, c # EOF, AtLetter, Char(sp) \notin Takes, Advance, argv' = argv
  PROVE  /\ Ahead = Then(OneOption(IF Char(sp) \in Opts THEN Char(sp) ELSE NUL, <<>>), Ahead')
         /\ sp' > 1 => sp' < FirstTaker(Word')
<1> DEFINE w == Word
           n == FirstTaker(w)
           L == Letters(w)
           one == OneOption(IF Char(sp) \in Opts THEN Char(sp) ELSE NUL, <<>>)
           rest == Behind(argv, optind, Read(argv)[optind + 1], Read(argv)[optind + 2])
<1>1. /\ optind \in 1 .. Len(argv) /\ sp \in 1 .. Len(w) - 1 /\ w \in Seq(Character) /\ w # <<>>
      /\ Len(w) \in Nat /\ sp < n /\ Ahead = Rest /\ argv \in Seq(Seq(Character))
  <2>1. argv \in Seq(Seq(Character))
    BY DEF ReadInv, OptInv
  <2> QED
    BY <2>1, AheadOfLetter
<1>2. Char(sp) = w[sp + 1]
  BY <1>1 DEF Char
<1>3. n \in 2 .. Len(w) + 1 /\ (n <= Len(w) => w[n] \in Takes) /\ n # sp + 1
  <2>1. n \in 2 .. Len(w) + 1 /\ (n <= Len(w) => w[n] \in Takes)
    BY <1>1, FirstTakerDef
  <2> HIDE DEF n, w
  <2> QED
    BY <1>1, <1>2, <2>1
<1>4. sp + 1 < n
  <2> HIDE DEF n, w
  <2> QED
    BY <1>1, <1>3
<1>5. L \in Seq(Item) /\ Len(L) = n - 2
  BY <1>1, LettersType
<1>6. one = <<L[sp]>>
  <2>1. sp \in 1 .. n - 2
    <3> HIDE DEF n, w
    <3> QED
      BY <1>1, <1>3, <1>4
  <2> QED
    BY <1>2, <2>1 DEF Letters, OneOption
<1>7. SubSeq(L, sp, Len(L)) = <<L[sp]>> \o SubSeq(L, sp + 1, Len(L))
  <2> HIDE DEF n, w, L
  <2> QED
    BY <1>1, <1>3, <1>4, <1>5
<1>8. <<L[sp]>> \in Seq(Item) /\ SubSeq(L, sp + 1, Len(L)) \in Seq(Item)
  <2> HIDE DEF n, w, L
  <2> QED
    BY <1>1, <1>3, <1>4, <1>5
<1>9. Read(argv)[optind + 1] \in Saying /\ rest \in Saying
  <2>1. optind + 1 \in 1 .. Len(argv) + 1 /\ (optind < Len(argv) => optind + 2 \in 1 .. Len(argv) + 1)
    BY <1>1
  <2>2. Read(argv)[optind + 1] \in Saying /\ (optind < Len(argv) => Read(argv)[optind + 2] \in Saying)
    BY <1>1, <2>1, ReadType
  <2> QED
    BY <1>1, <2>2, BehindType DEF Word
<1>10. Ahead = Then(one, Then(SubSeq(L, sp + 1, Len(L)), rest))
  <2>1. Rest = Then(SubSeq(L, sp, Len(L)), rest)
    BY DEF Rest, RestOf, Word
  <2> DEFINE a == <<L[sp]>>
             b == SubSeq(L, sp + 1, Len(L))
  <2>2. Then(a \o b, rest) = Then(a, Then(b, rest))
    <3>1. a \in Seq(Item) /\ b \in Seq(Item)
      BY <1>8
    <3> HIDE DEF a, b, rest
    <3> QED
      BY <1>9, <3>1, ThenThen
  <2> HIDE DEF n, w, L, one, rest
  <2> QED
    BY <1>1, <1>6, <1>7, <2>1, <2>2
<1>11. CASE Char(sp + 1) = NUL
  <2>1. optind' = optind + 1 /\ sp' = 1
    BY <1>11 DEF Advance
  <2>2. sp + 1 = Len(w)
    <3>1. ASSUME sp + 1 < Len(w) PROVE FALSE
      <4>1. Char(sp + 1) = w[sp + 2] /\ w[sp + 2] \in Character
        <5> HIDE DEF w
        <5>1. sp + 1 + 1 = sp + 2
          BY <1>1
        <5> QED
          BY <1>1, <3>1, <5>1 DEF Char, w
      <4> QED
        BY <1>11, <4>1 DEF Character
    <3> HIDE DEF w
    <3> QED
      BY <1>1, <3>1
  <2>3. n = Len(w) + 1
    <3> HIDE DEF n, w
    <3> QED
      BY <1>1, <1>3, <1>4, <2>2
  <2>4. SubSeq(L, sp + 1, Len(L)) = <<>>
    <3> HIDE DEF n, w, L
    <3> QED
      BY <1>1, <1>5, <2>2, <2>3
  <2>5. rest = Read(argv)[optind + 1]
    <3>1. FirstTaker(argv[optind]) > Len(argv[optind])
      BY <1>1, <2>3 DEF Word
    <3> QED
      BY <3>1 DEF Behind
  <2>6. Ahead' = Read(argv)[optind + 1]
    BY <2>1 DEF Ahead, AheadOf
  <2>7. Then(<<>>, rest) = rest
    <3> HIDE DEF rest
    <3> QED
      BY <1>8, <1>9, ThenThen
  <2>8. ~(sp' > 1)
    BY <2>1
  <2> HIDE DEF n, w, L, one, rest
  <2>9. Ahead = Then(one, Ahead')
    BY <1>10, <2>4, <2>5, <2>6, <2>7
  <2> QED
    BY <2>8, <2>9 DEF one
<1>12. CASE Char(sp + 1) # NUL
  <2>1. optind' = optind /\ sp' = sp + 1
    BY <1>12 DEF Advance
  <2>2. Ahead' = Then(SubSeq(L, sp + 1, Len(L)), rest)
    <3>1. sp + 1 # 1
      BY <1>1
    <3> QED
      BY <2>1, <3>1 DEF Ahead, AheadOf, RestOf, Word
  <2>3. Word' = Word
    BY <2>1 DEF Word
  <2> QED
    BY <1>4, <1>10, <2>1, <2>2, <2>3
<1> QED
  BY <1>11, <1>12

\* The second character tells an option from the '-' or '+' alone.
LEMMA WordAtOption ==
  ASSUME OptInv, ~AtOperand
  PROVE  /\ optind \in 1 .. Len(argv) /\ Word \in Seq(Character) /\ Len(Word) > 1
         /\ Word[1] = Char(0) /\ Word[1] \in {"-", "+"}
         /\ Word # <<>> /\ Word # <<"-">> /\ Word # <<"+">>
<1>1. optind < argc /\ Char(0) \in {"-", "+"} /\ Char(1) # NUL
  BY DEF AtOperand
<1>2. argv \in Seq(Seq(Character)) /\ optind \in 1 .. Len(argv) /\ Len(argv) \in Nat
  BY <1>1 DEF OptInv, ReadsInside, argc
<1>3. Word \in Seq(Character)
  BY <1>2 DEF Word
<1>4. 1 < Len(Word) /\ Len(Word) \in Nat
  BY <1>1, CharInside
<1>5. Char(0) = Word[1] /\ Word # <<>>
  BY <1>3, <1>4 DEF Char
<1>6. 2 \in DOMAIN Word
  BY <1>3, <1>4
<1>7. 2 \notin DOMAIN <<"-">> /\ 2 \notin DOMAIN <<"+">>
  OBVIOUS
<1>8. Word # <<"-">> /\ Word # <<"+">>
  BY <1>6, <1>7
<1> QED
  BY <1>1, <1>2, <1>3, <1>4, <1>5, <1>8

\* An operand says of itself that it is none of the options.
LEMMA SaysOperand ==
  ASSUME OptInv, AtOperand
  PROVE  Says(argv, optind, Read(argv)[optind + 1], Read(argv)[optind + 2])
           = [options |-> <<>>, operand |-> optind]
<1>1. argv \in Seq(Seq(Character)) /\ optind \in 1 .. Len(argv) + 1 /\ Len(argv) \in Nat
  BY DEF OptInv, ReadsInside, argc
<1>2. CASE optind > Len(argv)
  BY <1>2 DEF Says
<1>3. CASE ~(optind > Len(argv))
  <2>1. Word \in Seq(Character) /\ optind < argc /\ Len(Word) \in Nat
    BY <1>1, <1>3 DEF Word, argc
  <2>2. SUFFICES ASSUME Word # <<>>, Word[1] \in {"-", "+"}
                 PROVE  Word = <<"-">> \/ Word = <<"+">>
    BY DEF Says, Word
  <2>3. Char(0) = Word[1]
    BY <2>1, <2>2 DEF Char
  <2>4. Char(1) = NUL
    BY <2>1, <2>2, <2>3 DEF AtOperand
  <2>5. Len(Word) = 1
    <3>1. ASSUME Len(Word) > 1 PROVE FALSE
      <4>1. Char(1) = Word[2] /\ Word[2] \in Character
        BY <2>1, <3>1 DEF Char
      <4> QED
        BY <2>4, <4>1 DEF Character
    <3> DEFINE len == Len(Word)
    <3>2. len \in Nat /\ len # 0 /\ ~(len > 1)
      BY <2>1, <2>2, <3>1
    <3> HIDE DEF len
    <3>3. len = 1
      BY <3>2
    <3> QED
      BY <3>3 DEF len
  <2>6. Word = <<Word[1]>>
    BY <2>1, <2>5
  <2> QED
    BY <2>2, <2>6
<1> QED
  BY <1>2, <1>3

\* Where the calls end, all is said, and the operands begin.
LEMMA EndSaid ==
  ASSUME ReadInv, c # EOF, sp = 1, OptInv', NEW text \in Seq(Character), Returns(EOF, text),
         Says(argv, optind, Read(argv)[optind + 1], Read(argv)[optind + 2])
           = [options |-> <<>>, operand |-> optind']
  PROVE  ReadInv'
<1>1. argv \in Seq(Seq(Character)) /\ optind \in 1 .. Len(argv) + 1
  BY DEF ReadInv, OptInv, ReadsInside, argc
<1>2. Ahead = [options |-> <<>>, operand |-> optind']
  BY <1>1, ReadDef DEF Ahead, AheadOf
<1>3. Said \in Seq(Item) /\ Said' = Said /\ taken' = taken /\ taken \in Seq(Item)
  <2>1. taken \in Seq(Item)
    BY DEF ReadInv
  <2> QED
    BY <2>1, SaidType DEF Returns, Said
<1>4. Said \o <<>> = Said
  BY <1>3
<1>5. Reading = [options |-> Said, operand |-> optind']
  BY <1>2, <1>4 DEF ReadInv, Then
<1>6. Reading' = Reading /\ c' = EOF /\ optarg' = text
  BY DEF Reading, Returns
<1> QED
  BY <1>3, <1>5, <1>6 DEF ReadInv

LEMMA OperandSaid == ASSUME ReadInv, c # EOF, Operand, OptInv' PROVE ReadInv'
<1>1. OptInv /\ optarg \in Seq(Character)
  BY DEF ReadInv
<1>2. sp = 1 /\ AtOperand /\ Returns(EOF, optarg) /\ optind' = optind
  BY DEF Operand
<1> QED
  BY <1>1, <1>2, SaysOperand, EndSaid

LEMMA EndMarkSaid == ASSUME ReadInv, c # EOF, EndMark, OptInv' PROVE ReadInv'
<1>1. OptInv /\ optarg \in Seq(Character)
  BY DEF ReadInv
<1>2. sp = 1 /\ ~AtOperand /\ Returns(EOF, optarg) /\ optind' = optind + 1 /\ Word = <<"-", "-">>
  BY DEF EndMark, AtEndMark
<1>3. /\ Word # <<>> /\ Word # <<"-">> /\ Word # <<"+">> /\ Word[1] \in {"-", "+"}
      /\ ~(optind > Len(argv))
  <2>1. Len(argv) \in Nat
    BY <1>1 DEF OptInv
  <2> QED
    BY <1>1, <1>2, <2>1, WordAtOption
<1>4. Says(argv, optind, Read(argv)[optind + 1], Read(argv)[optind + 2])
        = [options |-> <<>>, operand |-> optind + 1]
  BY <1>2, <1>3 DEF Says, Word
<1> QED
  BY <1>1, <1>2, <1>4, EndSaid

LEMMA ConfigSaid == ASSUME ReadInv, c # EOF, Config, OptInv' PROVE ReadInv'
<1>1. OptInv /\ argv \in Seq(Seq(Character))
  BY DEF ReadInv, OptInv
<1>2. /\ sp = 1 /\ ~AtOperand /\ Returns("+", Tail(Word)) /\ optind' = optind + 1 /\ sp' = 1
      /\ Char(0) = "+"
  BY DEF Config
<1>3. /\ Word # <<>> /\ Word # <<"-">> /\ Word # <<"+">> /\ Word[1] = "+" /\ Word \in Seq(Character)
      /\ ~(optind > Len(argv)) /\ optind \in 1 .. Len(argv)
  <2>1. Len(argv) \in Nat
    BY <1>1
  <2> QED
    BY <1>1, <1>2, <2>1, WordAtOption
<1>4. Word # <<"-", "-">>
  <2>1. <<"-", "-">>[1] # "+"
    OBVIOUS
  <2> QED
    BY <1>3, <2>1
<1>5. Ahead = Then(OneOption("+", Tail(Word)), Read(argv)[optind + 1])
  <2>1. Says(argv, optind, Read(argv)[optind + 1], Read(argv)[optind + 2])
          = Then(OneOption("+", Tail(Word)), Read(argv)[optind + 1])
    BY <1>3, <1>4 DEF Says, Word
  <2>2. optind \in 1 .. Len(argv) + 1
    BY <1>3
  <2> QED
    BY <1>1, <1>2, <2>1, <2>2, ReadDef DEF Ahead, AheadOf
<1>6. Ahead' = Read(argv)[optind + 1]
  BY <1>2 DEF Ahead, AheadOf, Returns
<1>7. Read(argv)[optind + 1] \in Saying
  <2>1. optind + 1 \in 1 .. Len(argv) + 1
    BY <1>3
  <2> QED
    BY <1>1, <2>1, ReadType
<1>8. "+" # NUL /\ "+" \in Letter /\ Tail(Word) \in Seq(Character) /\ ~(sp' > 1)
  BY <1>2, <1>3 DEF NUL, Letter
<1> QED
  BY <1>2, <1>5, <1>6, <1>7, <1>8, CallSays

\* To read on keeps the place inside the words, so what is ahead can be said.
LEMMA AheadNext == ASSUME OptInv' PROVE Ahead' \in Saying
<1>1. /\ argv' \in Seq(Seq(Character)) /\ optind' \in 1 .. Len(argv') + 1 /\ sp' \in Nat \ {0}
      /\ sp' > 1 => optind' <= Len(argv') /\ sp' < Len(argv'[optind'])
  BY DEF OptInv, ReadsInside, argc, Word
<1> QED
  BY <1>1, AheadType DEF Ahead

LEMMA IllegalSaid == ASSUME ReadInv, c # EOF, Illegal, OptInv' PROVE ReadInv'
<1>1. AtLetter /\ Char(sp) \notin Opts /\ Advance /\ Returns(NUL, optarg) /\ argv' = argv
  BY DEF Illegal, Returns
<1>2. /\ Ahead = Then(OneOption(NUL, <<>>), Ahead')
      /\ sp' > 1 => sp' < FirstTaker(Word')
  <2>1. Char(sp) \notin Takes
    BY <1>1, OptsAssumption
  <2> QED
    BY <1>1, <2>1, LetterSaid
<1>3. NUL \in Letter /\ optarg \in Seq(Character)
  BY DEF Letter, ReadInv
<1> QED
  BY <1>1, <1>2, <1>3, AheadNext, CallSays

LEMMA FlagSaid == ASSUME ReadInv, c # EOF, Flag, OptInv' PROVE ReadInv'
<1>1. /\ AtLetter /\ Char(sp) \in Opts /\ Char(sp) \notin Takes /\ Advance
      /\ Returns(Char(sp), <<>>) /\ argv' = argv
  BY DEF Flag, Returns
<1>2. /\ Ahead = Then(OneOption(Char(sp), <<>>), Ahead')
      /\ sp' > 1 => sp' < FirstTaker(Word')
  BY <1>1, LetterSaid
<1>3. Char(sp) \in Letter /\ <<>> \in Seq(Character)
  BY <1>1 DEF Letter
<1> QED
  BY <1>1, <1>2, <1>3, AheadNext, CallSays

LEMMA ArgumentSaid == ASSUME ReadInv, c # EOF, Argument, OptInv' PROVE ReadInv'
<1> DEFINE w == Word
           n == FirstTaker(w)
           L == Letters(w)
           next == Read(argv)[optind + 1]
           nextButOne == Read(argv)[optind + 2]
           rest == Behind(argv, optind, next, nextButOne)
<1>1. /\ AtLetter /\ Char(sp) \in Takes /\ sp' = 1 /\ argv' = argv
      /\ ~(sp' > 1)
  BY DEF Argument, Returns
<1>2. /\ optind \in 1 .. Len(argv) /\ sp \in 1 .. Len(w) - 1 /\ w \in Seq(Character) /\ w # <<>>
      /\ Len(w) \in Nat /\ Len(argv) \in Nat /\ sp < n /\ Ahead = Rest
      /\ argv \in Seq(Seq(Character)) /\ optarg \in Seq(Character)
  <2>1. argv \in Seq(Seq(Character)) /\ optarg \in Seq(Character)
    BY DEF ReadInv, OptInv
  <2> QED
    BY <1>1, <2>1, AheadOfLetter
<1>3. Char(sp) = w[sp + 1]
  BY <1>2 DEF Char
<1>4. n \in 2 .. Len(w) + 1 /\ \A m \in 2 .. n - 1 : w[m] \notin Takes
  BY <1>2, FirstTakerDef
<1>5. n = sp + 1
  <2>1. sp + 1 \notin 2 .. n - 1
    BY <1>1, <1>3, <1>4
  <2> HIDE DEF n, w
  <2> QED
    BY <1>2, <1>4, <2>1
<1>6. Ahead = rest
  <2>1. L \in Seq(Item) /\ Len(L) = n - 2
    BY <1>2, LettersType
  <2>2. SubSeq(L, sp, Len(L)) = <<>>
    <3> HIDE DEF n, w, L
    <3> QED
      BY <1>2, <1>5, <2>1
  <2>3. rest \in Saying
    <3>1. optind + 1 \in 1 .. Len(argv) + 1 /\ (optind < Len(argv) => optind + 2 \in 1 .. Len(argv) + 1)
      BY <1>2
    <3>2. next \in Saying /\ (optind < Len(argv) => nextButOne \in Saying)
      BY <1>2, <3>1, ReadType
    <3> QED
      BY <1>2, <3>2, BehindType DEF Word
  <2>4. Rest = Then(SubSeq(L, sp, Len(L)), rest)
    BY DEF Rest, RestOf, Word
  <2>5. Then(<<>>, rest) = rest
    <3>1. <<>> \in Seq(Item)
      OBVIOUS
    <3> HIDE DEF rest
    <3> QED
      BY <2>3, <3>1, ThenThen
  <2> QED
    BY <1>2, <2>2, <2>4, <2>5
<1>7. Ahead' = Read(argv)[optind']
  BY <1>1 DEF Ahead, AheadOf
<1>8. Char(sp) \in Letter /\ Char(sp) # NUL /\ NUL \in Letter /\ Char(sp) = w[n]
  <2>1. Char(sp) # NUL
    BY <1>1, OptsAssumption DEF Character
  <2> QED
    BY <1>1, <1>3, <1>5, <2>1, OptsAssumption DEF Letter
<1>9. Ahead' \in Saying
  BY AheadNext
<1>10. CASE Char(sp + 1) # NUL
  <2>1. optind' = optind + 1 /\ Returns(Char(sp), SubSeq(w, sp + 2, Len(w)))
    BY <1>10 DEF Argument
  <2>2. n < Len(w)
    <3>1. sp + 1 < Len(w)
      BY <1>2, <1>10 DEF Char
    <3> HIDE DEF n, w
    <3> QED
      BY <1>2, <1>5, <3>1
  <2>3. SubSeq(w, sp + 2, Len(w)) = SubSeq(w, n + 1, Len(w)) /\ SubSeq(w, n + 1, Len(w)) \in Seq(Character)
    <3>1. n + 1 = sp + 2
      <4> HIDE DEF n, w
      <4> QED
        BY <1>2, <1>5
    <3>2. SubSeq(w, sp + 2, Len(w)) = SubSeq(w, n + 1, Len(w))
      <4> HIDE DEF n, w
      <4> QED
        BY <3>1
    <3>3. SubSeq(w, n + 1, Len(w)) \in Seq(Character)
      <4> HIDE DEF n, w
      <4>1. n \in Nat /\ Len(w) \in Nat /\ n + 1 >= 1
        BY <1>2, <1>4
      <4> QED
        BY <1>2, <2>2, <4>1
    <3> QED
      BY <3>2, <3>3
  <2>4. rest = Then(OneOption(w[n], SubSeq(w, n + 1, Len(w))), next)
    <3>1. ~(n > Len(w))
      <4> HIDE DEF n, w
      <4> QED
        BY <1>2, <1>4, <2>2
    <3> QED
      BY <2>2, <3>1 DEF Behind, Word
  <2> HIDE DEF n, w, L, rest, next
  <2>5. Ahead' = next
    BY <1>7, <2>1 DEF next
  <2>6. Ahead = Then(OneOption(Char(sp), SubSeq(w, sp + 2, Len(w))), Ahead')
    BY <1>6, <1>8, <2>3, <2>4, <2>5
  <2> QED
    BY <1>1, <1>8, <1>9, <2>1, <2>3, <2>6, CallSays
<1>11. CASE Char(sp + 1) = NUL
  <2>1. n = Len(w)
    <3>1. ASSUME sp + 1 < Len(w) PROVE FALSE
      <4>1. Char(sp + 1) = w[sp + 2] /\ w[sp + 2] \in Character
        <5>1. sp + 1 + 1 = sp + 2
          BY <1>2
        <5> HIDE DEF w
        <5> QED
          BY <1>2, <3>1, <5>1 DEF Char, w
      <4> QED
        BY <1>11, <4>1 DEF Character
    <3> HIDE DEF n, w
    <3> QED
      BY <1>2, <1>5, <3>1
  <2>2. ~(n > Len(w)) /\ ~(n < Len(w))
    <3> HIDE DEF n, w
    <3> QED
      BY <1>2, <1>4, <2>1
  <2>3. CASE optind = Len(argv)
    <3>1. optind' = optind + 1 /\ Returns(NUL, optarg)
      BY <1>2, <1>11, <2>3 DEF Argument, argc
    <3>2. rest = [options |-> OneOption(NUL, <<>>), operand |-> optind + 1]
      BY <2>2, <2>3 DEF Behind, Word
    <3>3. Ahead' = [options |-> <<>>, operand |-> optind + 1]
      <4>1. optind + 1 \in 1 .. Len(argv) + 1 /\ optind + 1 > Len(argv)
        BY <1>2, <2>3
      <4>2. Read(argv)[optind + 1]
              = Says(argv, optind + 1, Read(argv)[optind + 1 + 1], Read(argv)[optind + 1 + 2])
        BY <1>2, <4>1, ReadDef
      <4> QED
        BY <1>7, <3>1, <4>1, <4>2 DEF Says
    <3>4. OneOption(NUL, <<>>) \o <<>> = OneOption(NUL, <<>>)
      <4>1. OneOption(NUL, <<>>) \in Seq(Item)
        <5>1. <<>> \in Seq(Character)
          OBVIOUS
        <5> QED
          BY <1>8, <5>1, OneOptionType
      <4> QED
        BY <4>1
    <3> HIDE DEF n, w, L, rest, next
    <3>5. Ahead = Then(OneOption(NUL, <<>>), Ahead')
      BY <1>6, <3>2, <3>3, <3>4 DEF Then
    <3> QED
      BY <1>1, <1>2, <1>8, <1>9, <3>1, <3>5, CallSays
  <2>4. CASE optind # Len(argv)
    <3>1. optind' = optind + 2 /\ Returns(Char(sp), argv[optind + 1])
      BY <1>2, <1>11, <2>4 DEF Argument, argc
    <3>2. rest = Then(OneOption(w[n], argv[optind + 1]), nextButOne)
      BY <2>2, <2>4 DEF Behind, Word
    <3>3. argv[optind + 1] \in Seq(Character)
      BY <1>2, <2>4
    <3> HIDE DEF n, w, L, rest, nextButOne
    <3>4. Ahead' = nextButOne
      BY <1>7, <3>1 DEF nextButOne
    <3>5. Ahead = Then(OneOption(Char(sp), argv[optind + 1]), Ahead')
      BY <1>6, <1>8, <3>2, <3>4
    <3> QED
      BY <1>1, <1>8, <1>9, <3>1, <3>3, <3>5, CallSays
  <2> QED
    BY <2>3, <2>4
<1> QED
  BY <1>10, <1>11

\* At the beginning all is ahead.
LEMMA ReadInitInv == OptInit => ReadInv
<1> SUFFICES ASSUME OptInit PROVE ReadInv
  OBVIOUS
<1>1. OptInv /\ argv \in Seq(Seq(Character))
  BY OptInitInv DEF OptInv
<1>2. optind = 1 /\ sp = 1 /\ c = NUL /\ optarg = <<>> /\ taken = <<>>
  BY DEF OptInit
<1>3. Said = <<>>
  <2>1. taken \in Seq(Item) /\ Len(taken) = 0
    BY <1>2
  <2> QED
    BY <2>1, SaidType
<1>4. Ahead \in Saying /\ Reading = Ahead
  <2>1. 1 \in 1 .. Len(argv) + 1
    BY <1>1
  <2> QED
    BY <1>1, <1>2, <2>1, ReadType DEF Ahead, AheadOf, Reading
<1>5. Then(<<>>, Ahead) = Ahead
  <2>1. <<>> \in Seq(Item)
    OBVIOUS
  <2> QED
    BY <1>4, <2>1, ThenThen
<1>6. c # EOF
  BY <1>2 DEF NUL, EOF
<1>7. optarg \in Seq(Character) /\ taken \in Seq(Item) /\ ~(sp > 1)
  BY <1>2
<1> QED
  BY <1>1, <1>3, <1>4, <1>5, <1>6, <1>7 DEF ReadInv

\* Callers stop at EOF: until then each call says what the line says next.
LEMMA ReadNextInv == ASSUME ReadInv, c # EOF, getopt PROVE ReadInv'
<1>1. OptInv'
  BY OptNextInv DEF ReadInv
<1> QED
  BY <1>1, OperandSaid, EndMarkSaid, ConfigSaid, IllegalSaid, FlagSaid, ArgumentSaid DEF getopt

LEMMA ReadKept == ASSUME ReadInv, UNCHANGED optVars PROVE ReadInv'
BY DEF optVars, ReadInv, OptInv, ReadsInside, argc, Word, Reading, Said, Ahead

LEMMA ReadShows == ReadInv => OptionsRead
<1> SUFFICES ASSUME ReadInv PROVE Said = SubSeq(Reading.options, 1, Len(Said))
  BY DEF OptionsRead, ReadInv
<1>1. Said \in Seq(Item)
  BY SaidType DEF ReadInv
<1>2. CASE c = EOF
  <2>1. Reading.options = Said
    BY <1>2 DEF ReadInv
  <2>2. SubSeq(Said, 1, Len(Said)) = Said
    BY <1>1
  <2> QED
    BY <2>1, <2>2
<1>3. CASE c # EOF
  <2>1. Reading.options = Said \o Ahead.options
    BY <1>3 DEF ReadInv, Then
  <2>2. Ahead.options \in Seq(Item)
    <3>1. /\ argv \in Seq(Seq(Character)) /\ optind \in 1 .. Len(argv) + 1 /\ sp \in Nat \ {0}
          /\ sp > 1 => optind <= Len(argv) /\ sp < Len(argv[optind])
      BY DEF ReadInv, OptInv, ReadsInside, argc, Word
    <3>2. Ahead \in Saying
      BY <3>1, AheadType DEF Ahead
    <3> QED
      BY <3>2 DEF Saying
  <2>3. SubSeq(Said \o Ahead.options, 1, Len(Said)) = Said
    BY <1>1, <2>2
  <2> QED
    BY <2>1, <2>3
<1> QED
  BY <1>2, <1>3
=============================================================================
