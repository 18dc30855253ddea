------------------------------- MODULE MCShell -------------------------------
(* Shell for TLC: every lsp command of up to MaxArgs words, parse commands   *)
(* of up to three, every line of up to four characters of a small alphabet,  *)
(* and the other commands.                                                   *)
EXTENDS Shell

MCProgram == <<"no3">>

\* A line with these words.
Spaced(ws) == FoldLeft(LAMBDA l, w : IF l = <<>> THEN <<w>> ELSE l \o <<SpaceChar, w>>, <<>>, ws)

LspWords == { <<"lsp">> \o a : a \in SeqOf(Word, MaxArgs) }

ParseWords ==
    { <<"impl", "parse">> \o a : a \in
        {<<>>, <<"a">>, <<"--nonsense">>, <<"--dump", "--dump">>, <<"a", "--help">>,
         <<"--output=a", "a", "--output=b">>, <<"a", "--format=minify">>}
        \cup { s \o <<o>> : s \in {<<"a">>, <<"a", "b">>, <<"b", "a">>, <<"a", "a">>},
                            o \in {"--output=a", "--output=b"} }
        \cup { <<"b", "a", "--format=yaml", "--output=c">>, <<"c", "b", "a", "--output=c">> } }

OtherWords ==
    { <<"help">>, <<"license">>, <<"license", "x">>, <<"b">>, <<"n", "x">>, <<"fmt", "x">>,
      <<"w">>, <<"w", "x">>, <<"w", "-h">>, <<"impl", "self-test">>, <<"shell">>,
      <<"version", "--brief">>, <<"version", "--minify">>, <<"version", "--of=Linker">>,
      <<"version", "--json", "--minify", "--of=Core">>, <<"--version", "--json", "--brief">> }

MCArguments ==
    { [i \in DOMAIN ws |-> <<ws[i]>>] : ws \in {<<>>, <<"lsp">>, <<"x", "--help">>, <<"x", "-p", "80">>}
                                       \cup ParseWords \cup OtherWords }

MCLaterLines ==
    { Spaced(<<"x">> \o a) : a \in SeqOf(Word, 1) }
      \cup { Spaced(ws) : ws \in {<<"license">>, <<"impl", "parse", "a">>} }

MCLines ==
    { Spaced(ws) : ws \in LspWords \cup ParseWords \cup OtherWords }
      \cup { <<"impl", SpaceChar, "parse", SpaceChar, Quote, "a", SpaceChar, "b", Quote>> }
      \cup MCLaterLines
      \cup SeqOf({"h", SpaceChar, Quote}, 4)
      \cup { <<"exit">> }
=============================================================================
