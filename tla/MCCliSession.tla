---------------------------- MODULE MCCliSession ----------------------------
(* Instances of CliSession for TLC. *)
EXTENDS CliSession

\* The order of the main program, all tests turned on; the other way round; and
\* the two tests that it turns on as it stands.
MainOrder == <<"connect", "general", "sleep", "power", "mixer", "display",
               "rescan", "titles", "songinfo">>
MCPlans == {MainOrder, Reverse(MainOrder), <<"titles", "songinfo">>}
=============================================================================
