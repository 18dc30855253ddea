--------------------------- MODULE MCTextDocument ---------------------------
(* TextDocument for TLC: one character of each interesting width.          *)
EXTENDS TextDocument

WidthMC == [a |-> 1, euro |-> 3, emoji |-> 4, CR |-> 1, LF |-> 1]

\* What editors insert: text and their platform's line break.
PieceMC == { <<"a", "euro">>, <<"emoji">>, <<"LF">>, <<"CR", "LF">> }
=============================================================================
