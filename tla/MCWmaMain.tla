----------------------------- MODULE MCWmaMain ------------------------------
(* Files and command lines for wmadec: outputs and formats in every order that   *)
(* matters to the loops, with samples of three outputs interleaved over several  *)
(* seconds, decoded from a plain command line; and every command line of up to   *)
(* two options with two of the files.                                            *)
EXTENDS WmaMain

CONSTANT MaxFormats

Any == {<<FALSE, TRUE, TRUE>>, <<TRUE, FALSE>>, <<FALSE>>, <<>>}

Interleaved == <<1, 0, 1, 2, 1, 0>>

Format(p, n) == [pcm |-> p, channels |-> n]

\* Every short list of formats, and one in which each kind comes twice.
UpTo == UNION {[1 .. n -> [pcm : BOOLEAN, channels : {1, 2, 6}]] : n \in 0 .. MaxFormats}
MonoFirst == <<Format(FALSE, 2), Format(TRUE, 1), Format(TRUE, 6), Format(TRUE, 2), Format(TRUE, 1)>>
MCFormatLists == UpTo \cup {MonoFirst}

\* Options alone, joined and with their arguments, and what is illegal.
Groups == {<<<<"-", "q">>>>, <<<<"-", "w">>>>, <<<<"-", "d", "w", "o">>, <<"f">>>>,
           <<<<"-", "b">>, <<"8">>>>, <<<<"-", "b", "7", "2">>>>, <<<<"-", "r">>, <<"0">>>>,
           <<<<"-", "r", "9">>>>, <<<<"-", "n", "1">>>>, <<<<"-", "n", "-", "1">>>>,
           <<<<"-", "n", "6", "w">>>>, <<<<"-", "w", "l", "4", "0">>>>, <<<<"-", "h">>>>,
           <<<<"-", "x">>>>, <<<<"+", "p">>>>, <<<<"-", "l">>>>}
Operands == {<<>>, <<<<"-">>>>, <<<<"f">>>>, <<<<"-", "-">>, <<"-", "q">>>>}
Plain == {<<<<"-", "w">>>>, <<<<"-", "w">>, <<"f">>>>}
MCArgvs == Plain \cup Operands \cup {g \o x : g \in Groups, x \in Operands \cup Groups}

\* Every file with the plain lines, a few files with the others.
MCInit ==
  /\ MainInit
  /\ argv \notin Plain => /\ Outputs = <<FALSE, TRUE, TRUE>>
                          /\ Formats \in {MonoFirst, <<Format(TRUE, 6)>>}
MCSpec == /\ MCInit /\ [][MainNext]_wmaVars
          /\ WF_wmaVars(_tmain) /\ WF_wmaVars(Sdk(SdkStep))
=============================================================================
