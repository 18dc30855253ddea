--------------------------- MODULE ManifestObject ---------------------------
(***************************************************************************)
(* class Manifest and its parts (core/package/Manifest.hh), as far as the  *)
(* program builds a manifest itself, and the one the init command builds   *)
(* (init/InitPackage.cc).  The fields are those of Manifest's              *)
(* ObjectToInstance.                                                       *)
(***************************************************************************)
EXTENDS Manifest

CONSTANT DefaultLicense    \* "LGPL-2.1", however licences are written down

Version(major, minor, patch) == [major |-> major, minor |-> minor, patch |-> patch]

NewSwitch == [stage \in Stage |-> {}]
SetFlags(switch, stage, flags) == [switch EXCEPT ![stage] = flags]

NewRequirements ==
    [r \in Requirement |->
       CASE r = "min-cores" -> 1 [] r = "min-memory" -> 2 * 1024 * 1024 [] r = "min-storage" -> 0]

NewPlatforms == [allow |-> <<"*">>, deny |-> <<"*">>]

NewOptimization ==
    [profiles |-> [p \in RequiredProfile |-> NewSwitch], requirements |-> NewRequirements]

SetProfile(optimization, name, switch) ==
    [optimization EXCEPT !.profiles =
       [p \in DOMAIN @ \cup {name} |-> IF p = name THEN switch ELSE @[p]]]

NewManifest(name, category) ==
    [name         |-> name,
     description  |-> "",
     license      |-> DefaultLicense,
     category     |-> category,
     version      |-> Version(0, 1, 0),
     contacts     |-> <<>>,
     platforms    |-> NewPlatforms,
     profiles     |-> NewOptimization.profiles,
     requirements |-> NewOptimization.requirements,
     dependencies |-> <<>>]

SetDescription(m, description) == [m EXCEPT !.description = description]
SetLicense(m, license) == [m EXCEPT !.license = license]
SetVersion(m, version) == [m EXCEPT !.version = version]
SetOptimization(m, o) == [m EXCEPT !.profiles = o.profiles, !.requirements = o.requirements]

\* Manifest::ToJson and what it says of its output.
CorrectSchema(m) == Verify(ToJson(m))
-----------------------------------------------------------------------------
\* A switch as the calls of its setters leave it.
Levels(first, llvm, lto, runtime) ==
    LET level == <<<<"alpha", first>>, <<"beta", first>>, <<"gamma", first>>,
                   <<"llvm", llvm>>, <<"lto", lto>>, <<"runtime", runtime>>>>
    IN  FoldLeft(LAMBDA s, set : SetFlags(s, set[1], {set[2]}), NewSwitch, level)

InitialOptimization ==
    SetProfile(SetProfile(SetProfile(NewOptimization,
        "rapid",   Levels("-O0", "-O1", "-O0", "-O0")),
        "debug",   Levels("-O2", "-O3", "-O0", "-O1")),
        "release", Levels("-O3", "-O3", "-O3", "-O3"))

InitialManifestDefaultLicense(options) ==
    SetOptimization(
      SetVersion(
        SetDescription(NewManifest(options.name, options.category), options.description),
        options.version),
      InitialOptimization)

InitialManifest(options) ==
    SetOptimization(
      SetVersion(
        SetLicense(
          SetDescription(NewManifest(options.name, options.category), options.description),
          options.license),
        options.version),
      InitialOptimization)
=============================================================================
