------------------------------- MODULE Version -------------------------------
(***************************************************************************)
(* The version command (version/Run.cc): the components of the toolchain,  *)
(* what is known of them and what the command refuses.                     *)
(***************************************************************************)
EXTENDS Naturals, Sequences, FiniteSets

\* The components in the order of a full report.
EveryComponent ==
    <<"Core", "Lexer", "Sequencer", "Parser", "IRAlpha", "IRAlphaOpt",
      "IRBeta", "IRBetaOpt", "IRGamma", "IRGammaOpt", "Codegen">>

Component == { EveryComponent[i] : i \in DOMAIN EveryComponent }

\* Those whose library says which version it is; the others are 0.0.0.
Released == {"Core", "Lexer", "Sequencer", "Parser"}

Dependencies ==
    [c \in Component |->
       CASE c = "Core"                      -> <<>>
         [] c = "Lexer"                     -> <<"Core">>
         [] c \in {"Sequencer", "Parser"}   -> <<"Core", "Lexer">>
         [] c = "IRAlpha"                   -> <<"Core", "Parser">>
         [] c \in {"IRAlphaOpt", "IRBeta"}  -> <<"Core", "IRAlpha">>
         [] c \in {"IRBetaOpt", "IRGamma"}  -> <<"Core", "IRBeta">>
         [] c \in {"IRGammaOpt", "Codegen"} -> <<"Core", "IRGamma">>]

GetComponentManifest(c) ==
    [component_name |-> c, released |-> c \in Released, dependencies |-> Dependencies[c]]

GetSoftwareVersionArray(of) == [i \in DOMAIN of |-> GetComponentManifest(of[i])]

\* The hash is one of the full report, whatever was asked for.
GetSoftwareHash == GetSoftwareVersionArray(EveryComponent)

\* A full report names what a component depends on before the component.
ASSUME ReportAssumption ==
    \A i \in DOMAIN EveryComponent :
      LET needed == GetSoftwareHash[i].dependencies
      IN  \A k \in DOMAIN needed : \E j \in 1..(i - 1) : EveryComponent[j] = needed[k]
-----------------------------------------------------------------------------
Flag == {"--help", "--system-info", "--minify", "--brief", "--json"}

OfWord == [w \in { "--of=" \o c : c \in Component \cup {"Linker"} } |->
             CHOOSE c \in Component \cup {"Linker"} : w = "--of=" \o c]

\* Without --of the report is full.
ComponentsOf(words) ==
    LET named == SelectSeq(words, LAMBDA w : w \in DOMAIN OfWord)
    IN  IF named = <<>> THEN EveryComponent ELSE [i \in DOMAIN named |-> OfWord[named[i]]]

GetSoftwareComponents(of) == \A i \in DOMAIN of : of[i] \in Component

\* What boost's parser refuses; a word that is no option is passed over.
VersionRefused(words) ==
    \/ \E i \in DOMAIN words : words[i] = "--nonsense"
    \/ \E i, j \in DOMAIN words : i # j /\ words[i] = words[j] /\ words[i] \in Flag

\* What CommandVersion returns.
CommandVersion(words) ==
    LET Has(flag) == \E i \in DOMAIN words : words[i] = flag IN
      /\ ~VersionRefused(words)
      /\ \/ Has("--help")
         \/ /\ GetSoftwareComponents(ComponentsOf(words))
            /\ Has("--system-info") \/ Has("--minify") => Has("--json")
            /\ ~(Has("--brief") /\ Has("--json"))
=============================================================================
