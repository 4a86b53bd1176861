------------------------------ MODULE MCSwMain ------------------------------
(* Command lines of socketwrapper: every line of up to MaxCommands commands with *)
(* and without ports; every short list of words that getopt treats differently;  *)
(* every short -c argument with bars and blanks anywhere.  "#" is #PIPE#.        *)
EXTENDS SwMain

CONSTANTS MaxCommands, MaxWords, MaxText

MCCommandLines == UNION {[1 .. n -> BOOLEAN] : n \in 1 .. MaxCommands}

Bar(line) == [k \in 1 .. 2 * Len(line) - 1 |->
                IF k % 2 = 0 THEN "|" ELSE IF line[(k + 1) \div 2] THEN "#" ELSE "a"]
In  == <<<<"-", "i">>, <<"1">>>>
Out == <<<<"-", "o", "1">>>>
Ports == {<<>>, In, Out, Out \o In}
Full == {p \o <<<<"-", "c">>, Bar(line)>> : p \in Ports, line \in MCCommandLines}

Words == {<<>>, <<"-">>, <<"-", "-">>, <<"+", "p">>, <<"-", "c">>, <<"-", "w", "c">>,
          <<"-", "c", "a">>, <<"a", "|", "a">>, <<"-", "i">>, <<"8">>, <<"-", "w", "x", "d">>,
          <<"-", "w">>, <<"-", "d", "w">>}
Short == UNION {[1 .. n -> Words] : n \in 0 .. MaxWords}

Texts == UNION {[1 .. n -> {"a", "#", "|", " "}] : n \in 0 .. MaxText}
Odd == {<<<<"-", "c">>, t>> : t \in Texts}

MCArgvs == Full \cup Short \cup Odd
=============================================================================
