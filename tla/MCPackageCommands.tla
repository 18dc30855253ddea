------------------------- MODULE MCPackageCommands -------------------------
(* Two source files, of which one is nested.  Format is called in every    *)
(* layout on one manifest.  The others, each with something of its own,    *)
(* are for config-check, and three of them for format on a directory.      *)
EXTENDS PackageCommands

MCName == {"a", "b"}
MCNested == {"b"}

MCValidName == {"@gh-john/pack", "@std/core"}
MCValidLicense == {"MIT", "mit"}    \* letter case does not matter

Switch == [stage \in Stage |-> <<>>]

Base ==
    [format |-> <<1, 0>>, name |-> "@gh-john/pack", description |-> "d", license |-> "mit",
     category |-> "exe", version |-> <<1, 2>>, contacts |-> <<>>,
     platforms |-> [allow |-> <<>>, deny |-> <<>>],
     optimization |-> [profiles |-> [p \in RequiredProfile |-> Switch],
                       requirements |-> [r \in Requirement |-> 1]],
     dependencies |-> <<>>, blockchain |-> <<>>]

WithProfile(p, s) ==
    [Base EXCEPT !.optimization.profiles =
        [q \in DOMAIN @ \cup {p} |-> IF q = p THEN s ELSE @[q]]]

\* The numbers of a version, below, at and above the two limits.
Numbers == {0, 1, Narrow - 1, Narrow, Narrow + 1, Long}
Versions == {<<>>, <<1>>, <<1, 2, 3, 4>>}
              \cup {<<1, n>> : n \in Numbers}
              \cup {<<n, 0, m>> : n \in {0, Narrow}, m \in Numbers}

Contacts ==
    [name : {"n"}, email : {"e", Bad}, phone : {"none", "p", Bad},
     roles : {<<>>, <<"support", "owner", "support">>, <<"janitor">>}]

Flags == [Switch EXCEPT !["llvm"] = <<"O3", "O2", "O3">>]
BadFlags == [Switch EXCEPT !["llvm"] = <<Bad>>]
NoSwitch == [stage \in {} |-> <<>>]

Documents ==
    {Base}
    \cup {[Base EXCEPT !.format = v] : v \in {<<1, 7>>, <<2, 0>>, <<1>>}}
    \cup {[Base EXCEPT !.name = "pack"], [Base EXCEPT !.description = Bad],
          [Base EXCEPT !.license = Bad], [Base EXCEPT !.category = Bad]}
    \cup {[Base EXCEPT !.version = v] : v \in Versions}
    \cup {[Base EXCEPT !.contacts = <<c>>] : c \in Contacts}
    \cup {[Base EXCEPT !.platforms.deny = <<f>>] : f \in {"x", Bad}}
    \cup {WithProfile(p, s) : p \in {"debug", "size"}, s \in {Flags, BadFlags, NoSwitch}}
    \cup {[Base EXCEPT !.optimization.requirements =
              [r \in DOMAIN @ \ {"min-cores"} |-> @[r]]],
          [Base EXCEPT !.optimization.requirements =
              [r \in Requirement |-> Narrow]]}
    \cup {[Base EXCEPT !.dependencies = <<[uuid |-> u, version |-> v]>>] :
             u \in {"u", Bad}, v \in {<<1>>, <<1, Narrow>>, <<1, 2, 3>>, <<1, 2, Long>>}}
    \cup {[Base EXCEPT !.blockchain =
              <<[uuid |-> "u", category |-> "package", pubkey |-> "k", signature |-> s]>>] :
             s \in {"s", Bad}}

Layout == [config : {"none", "valid", "invalid"}, directory : BOOLEAN,
           output : {"in place", "respelled", "elsewhere", "inside"}]

OnFile == {l \in Layout : l.config = "invalid" /\ ~l.directory /\ l.output = "in place"}
OnDirectory == {l \in Layout : l.directory /\ l.output = "in place"}
Unconfigured ==
    {l \in Layout : l.config = "none" /\ (l.output = "inside" => l.directory)}

MCPackages ==
    (OnFile \X Documents)
    \cup (OnDirectory \X {Base, [Base EXCEPT !.version = <<Long, 0>>],
                          WithProfile("size", NoSwitch)})
    \cup (Unconfigured \X {Base})
=============================================================================
