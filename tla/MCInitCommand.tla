---------------------------- MODULE MCInitCommand ----------------------------
(* InitCommand for TLC.  Packages of two names can be created, one of them   *)
(* for two owners; every other command is refused, each for its own reason.  *)
EXTENDS InitCommand

\* Four identifiers, one of them a part of another: a, aB, BaB, a-1.
MCTable ==
    (<<1>> :> <<1>>) @@ (<<1, 2>> :> <<1, -2>>) @@ (<<2, 1, 2>> :> <<-2, 1, -2>>)
      @@ (<<1, Hyphen, 31>> :> <<1, Hyphen, 31>>)

MCDefaultLicense == <<1>>

name(owner, pack, generation) ==
    [owner |-> owner, pack |-> pack, generation |-> generation, written |-> TRUE]

Abc == <<1, 2, 3>>
OnGh == name(<<7, 8, Hyphen, -10, Hyphen, 1>>, Abc, NoGeneration)
InStd == name(Std, Abc, NoGeneration)
SecondOnGl == name(<<7, 12, Hyphen, 31>>, <<1, Hyphen, 2>>, <<32>>)

Ask(n, license, kinds) ==
    [bad |-> FALSE, help |-> FALSE, kinds |-> kinds, named |-> TRUE,
     name |-> n, license |-> license]

Accepted ==
    { Ask(OnGh, <<-1, -2>>, {}), Ask(InStd, <<1, Hyphen, 31>>, {"std"}),
      Ask(SecondOnGl, <<2, 1, 2>>, {"lib"}) }

RefusedNames ==
    { [OnGh EXCEPT !.owner = o] : o \in
        { <<10>>, <<7, 8, Hyphen>>, <<7, 8, Hyphen, Hyphen, 1>> } }
    \cup { [OnGh EXCEPT !.pack = s] : s \in
        { <<1, 2>>, <<1, 2, Hyphen>>, [i \in 1..33 |-> 1] } }
    \cup { [OnGh EXCEPT !.written = FALSE] }

RefusedLicenses ==
    { <<>>, <<-2, -2>>, <<1, 1, 2>>, <<3, -1, Hyphen>>, <<-1, 2, 1>>, <<2, 1, 3, 3>> }

Misuse ==
    { [Ask(OnGh, <<1>>, {}) EXCEPT !.bad = TRUE],
      [Ask(OnGh, <<1>>, {"lib", "exe"}) EXCEPT !.help = TRUE],
      [Ask(OnGh, <<1>>, {}) EXCEPT !.named = FALSE],
      Ask(OnGh, <<1>>, {"lib", "exe"}) }

MCAsked ==
    Accepted \cup Misuse
      \cup { Ask(n, <<1>>, {}) : n \in RefusedNames }
      \cup { Ask(OnGh, license, {}) : license \in RefusedLicenses }

MCBase == { PackageNamePart(a.name) : a \in Accepted }
=============================================================================
