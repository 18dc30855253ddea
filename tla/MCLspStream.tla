--------------------------- MODULE MCLspStream --------------------------------
(* MessageReader and LspStream for TLC.                                      *)
EXTENDS LspStream

LengthLine(n) == << <<"len", n>> >>
Field == << <<"field", 0>> >>
NoColon == << <<"word", 0>> >>

Json(i) == << <<"json", i>>, <<"json", i>> >>
JsonRpcMC == { Json(1), Json(2) }
RequestsMC == { Json(1) }

\* A body that looks like the head of another frame.
LooksLikeHead == << <<"len", 2>>, <<"nl", 0>>, <<"nl", 0>> >>

f(head, body) == [head |-> head, body |-> body]

GoodMC ==
    { f(<<LengthLine(2)>>, Json(1)), f(<<Field, LengthLine(2)>>, Json(2)),
      f(<<LengthLine(7), LengthLine(2), Field>>, Json(1)),
      f(<<LengthLine(0)>>, <<>>),
      f(<<LengthLine(1)>>, << <<"nl", 0>> >>),
      f(<<LengthLine(3)>>, LooksLikeHead),
      f(<<LengthLine(2)>>, << <<"json", 1>>, <<"word", 0>> >>) }

BadMC ==
    { f(<<NoColon, LengthLine(2)>>, Json(1)), f(<<LengthLine(2), NoColon>>, Json(2)),
      f(<<>>, Json(1)), f(<<Field>>, Json(2)),
      f(<<LengthLine(1)>>, Json(1)), f(<<LengthLine(3)>>, Json(2)),
      f(<<LengthLine(NotANumber)>>, Json(1)), f(<<LengthLine(Negative)>>, Json(2)),
      f(<<LengthLine(2)>>, << <<"word", 0>>, <<"nl", 0>>, <<"nl", 0>> >>) }

AnyMC == GoodMC \cup BadMC
=============================================================================
