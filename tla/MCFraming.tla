----------------------------- MODULE MCFraming -----------------------------
(***************************************************************************)
(* Framing on small instances for TLC.                                     *)
(***************************************************************************)
EXTENDS Framing

Junk == [ok |-> FALSE, ext |-> 0, pay |-> 0, raw |-> 0]
HeaderOf(e, p) == [ok |-> TRUE, ext |-> e, pay |-> p, raw |-> p]

\* Packets within the limits, at them, above them, above the wire fields, and
\* compressed under and over the limit; their bodies are junk or look like headers.
Shape(e, r, z, b) == [ext |-> e, raw |-> r, zip |-> z, body |-> b]
Packets ==
    {Shape(0, 0, FALSE, Junk), Shape(1, 4, FALSE, HeaderOf(0, 1)), Shape(0, 1, TRUE, Junk),
     Shape(0, 4, TRUE, HeaderOf(0, 0)), Shape(0, 5, FALSE, Junk), Shape(0, 5, TRUE, Junk),
     Shape(2, 0, FALSE, HeaderOf(0, 0)), Shape(3, 0, FALSE, Junk), Shape(0, 6, FALSE, Junk)}

MCSources == SeqOf(Packets, 2)
MCTails == SeqOf({Junk, HeaderOf(0, 0), HeaderOf(1, 1), HeaderOf(0, 5)}, 2)
             \cup {<<Junk, Junk, Junk, Junk>>, <<Junk, Junk, Junk, Junk, HeaderOf(0, 0), Junk>>,
                   <<HeaderOf(2, 4), Junk, Junk, Junk, Junk, Junk, Junk>>}
=============================================================================
