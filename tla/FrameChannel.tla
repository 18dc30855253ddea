---------------------------- MODULE FrameChannel ----------------------------
(***************************************************************************)
(* What the framing of messages promises when every frame declares its own *)
(* length: each read takes exactly one frame, the oldest, and what a frame *)
(* holds is no concern of the others.                                      *)
(***************************************************************************)
EXTENDS Naturals, Sequences

CONSTANT Verdict(_)    \* what is made of a frame on its own

VARIABLES
    sent,   \* frames
    got     \* verdicts handed out

Init == got = <<>>

Take == /\ Len(got) < Len(sent)
        /\ got' = Append(got, Verdict(sent[Len(got) + 1]))
        /\ UNCHANGED sent

Spec == Init /\ [][Take]_<<sent, got>>
=============================================================================
