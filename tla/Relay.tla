------------------------------- MODULE Relay -------------------------------
(***************************************************************************)
(* What socketwrapper promises its caller, whatever the pipeline between:  *)
(* the blocks given to it come out in the order they went in, none twice,  *)
(* none invented, and after it has gone nothing more comes out.            *)
(***************************************************************************)
EXTENDS Naturals, Sequences

CONSTANT MaxBlocks        \* bound on the blocks the source gives

VARIABLES sent,           \* blocks the source has given, numbered 1 .. sent
          delivered,      \* blocks that reached the sink
          over            \* the relay has exited

vars == <<sent, delivered, over>>

Init == sent = 0 /\ delivered = <<>> /\ over = FALSE

Send == /\ sent < MaxBlocks
        /\ sent' = sent + 1
        /\ UNCHANGED <<delivered, over>>

Deliver == /\ ~over
           /\ Len(delivered) < sent
           /\ delivered' = Append(delivered, Len(delivered) + 1)
           /\ UNCHANGED <<sent, over>>

Finish == ~over /\ over' = TRUE /\ UNCHANGED <<sent, delivered>>

Next == Send \/ Deliver \/ Finish

Spec == Init /\ [][Next]_vars
=============================================================================
