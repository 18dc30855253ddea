----------------------------- MODULE InitCommand -----------------------------
(***************************************************************************)
(* The init command from its first word on (init/Run.cc): what it refuses, *)
(* the output directory, and then PackageInit's steps; with the texts and  *)
(* the manifest it writes.                                                 *)
(***************************************************************************)
EXTENDS PackageInit, PackageTexts

CONSTANTS
    Asked,          \* what a command may be told: records of
                    \*   bad: options that boost's parser refuses
                    \*   help, kinds, named, name, license
    DefaultLicense,
    Narrow, Long

ValidName == { a.name : a \in { b \in Asked : IsValidName(b.name) } }
ValidLicense == { SPDX_IDENTIFIERS[key] : key \in DOMAIN SPDX_IDENTIFIERS }
                  \cup DOMAIN SPDX_IDENTIFIERS

M == INSTANCE ManifestObject

VARIABLES
    asked,      \* of each process
    stage,      \* where it is: "options", "output", "mkdir", "package" or "returned"
    result,     \* what it returned before it came to the package
    spelling,   \* what FindClosestSPDXLicense gave it
    output      \* the output directory exists

commandVars == <<asked, stage, result, spelling, output>>

allVars == <<vars, commandVars>>

Kind == {"lib", "std", "exe"}

None == <<>>

\* A command that names no package comes to none.
BaseOf(a) == IF a.named /\ IsValidName(a.name) THEN PackageNamePart(a.name)
             ELSE CHOOSE b \in Base : TRUE

ASSUME AskedAssumption ==
    /\ \A a \in Asked :
         a.kinds \subseteq Kind /\ a.license \in Seq(Int) /\ a.name.owner \in Seq(Int)
    /\ Base # {} /\ \A a \in Asked : BaseOf(a) \in Base
    /\ DefaultLicense \in ValidLicense
    /\ Narrow \in Nat /\ Narrow > 2 * 1024 * 1024

CommandInit ==
    /\ Init
    /\ asked \in [Process -> Asked]
    /\ base = [p \in Process |-> BaseOf(asked[p])]
    /\ stage = [p \in Process |-> "options"]
    /\ result = [p \in Process |-> FALSE]
    /\ spelling = [p \in Process |-> None]
    /\ output \in BOOLEAN /\ (exists # {} => output)

At(p, s) == stage[p] = s

GoTo(p, s) == stage' = [stage EXCEPT ![p] = s]

Return(p, r) == GoTo(p, "returned") /\ result' = [result EXCEPT ![p] = r]
-----------------------------------------------------------------------------
\* What the command makes of its words, in the order of its tests.
Verdict(a) ==
    IF a.bad THEN "misused"
    ELSE IF a.help THEN "help"
    ELSE IF ~a.named \/ Cardinality(a.kinds) > 1 THEN "misused"
    ELSE IF ~IsExactSPDXLicenseMatch(a.license) THEN "license"
    ELSE IF ~IsValidName(a.name) THEN "name"
    ELSE "accepted"

Verdicts == [a \in Asked |-> Verdict(a)]

Closest == [a \in Asked |-> FindClosestSPDXLicense(a.license)]

Spell(p) == \E id \in Closest[asked[p]] : spelling' = [spelling EXCEPT ![p] = id]

Judge(p, verdict) == At(p, "options") /\ Verdicts[asked[p]] = verdict

ShowHelp(p) ==
    /\ Judge(p, "help")
    /\ Return(p, TRUE)
    /\ UNCHANGED <<vars, asked, spelling, output>>

RefuseOptions(p) ==
    /\ Judge(p, "misused") \/ Judge(p, "name")
    /\ Return(p, FALSE)
    /\ UNCHANGED <<vars, asked, spelling, output>>

\* DisplayPoliteLicenseRejection
RefuseLicense(p) ==
    /\ Judge(p, "license")
    /\ Spell(p)
    /\ Return(p, FALSE)
    /\ UNCHANGED <<vars, asked, output>>

AcceptOptions(p) ==
    /\ Judge(p, "accepted")
    /\ GoTo(p, "output") /\ Spell(p)
    /\ UNCHANGED <<vars, asked, result, output>>

LookForOutput(p) ==
    /\ At(p, "output")
    /\ GoTo(p, IF output THEN "package" ELSE "mkdir")
    /\ UNCHANGED <<vars, asked, result, spelling, output>>

\* A directory that appeared in between counts as a failure.
MakeOutput(p) ==
    /\ At(p, "mkdir")
    /\ IF output THEN Return(p, FALSE) ELSE GoTo(p, "package") /\ UNCHANGED result
    /\ output' = TRUE
    /\ UNCHANGED <<vars, asked, spelling>>

RefuseOutput(p) ==
    /\ At(p, "output") \/ At(p, "mkdir")
    /\ Return(p, FALSE)
    /\ UNCHANGED <<vars, asked, spelling, output>>

Package(p) ==
    /\ At(p, "package") /\ Step(p)
    /\ UNCHANGED commandVars

Perform(p) ==
    \/ ShowHelp(p) \/ RefuseOptions(p) \/ RefuseLicense(p)
    \/ AcceptOptions(p)
    \/ LookForOutput(p) \/ MakeOutput(p) \/ RefuseOutput(p)
    \/ Package(p)

\* Killed before that, a command is one that takes no further step.
KillCommand(p) == At(p, "package") /\ Kill(p) /\ UNCHANGED commandVars

CommandNext == \E p \in Process : Perform(p) \/ KillCommand(p)

CommandSpec == CommandInit /\ [][CommandNext]_allVars
-----------------------------------------------------------------------------
\* package_category
CategoryOf(kinds) == IF kinds = {} THEN "exe" ELSE CHOOSE kind \in kinds : TRUE

\* The InitOptions of a command that accepted its words.
Options(p) ==
    [name |-> asked[p].name, description |-> "none was provided",
     license |-> spelling[p], version |-> M!Version(0, 1, 0),
     category |-> CategoryOf(asked[p].kinds)]

Creating == { p \in Process : At(p, "package") /\ pc[p] = "create" }

\* What the files of a package will hold; the licence depends on the service.
Contents(p) ==
    { PackageFiles(Options(p), license, M!ToJson(M!InitialManifest(Options(p)))) :
        license \in GenerateLicense(Options(p).license) }
-----------------------------------------------------------------------------
Edits == [a \in Asked |-> [key \in DOMAIN SPDX_IDENTIFIERS |->
                             EditDistance(key, LowerCase(a.license))]]

\* The licence that init suggests when it refuses one (init/Run.cc:118-122), and
\* the spelling it writes down when it accepts one (init/Run.cc:280): of all
\* identifiers none takes fewer edits, letter case aside, whatever the order of
\* the table.  The spelling of an accepted licence is therefore its own.
SpellingIsNearest ==
    \A p \in Process : spelling[p] # None =>
      LET edits == Edits[asked[p]]
      IN  \A key \in DOMAIN SPDX_IDENTIFIERS : edits[LowerCase(spelling[p])] <= edits[key]

\* What init accepts it can write: the manifest of every accepted command passes
\* the schema check (init/InitPackage.cc:203), reads back as it was built, and
\* has the name, the licence in its proper letter case and the kind asked for.
PackageAsAsked ==
    \A p \in Creating :
      LET m == M!InitialManifest(Options(p)) IN
        /\ M!CorrectSchema(m) /\ M!ObjectToInstance(M!ToJson(m)) = m
        /\ m.name = asked[p].name
        /\ m.license = SPDX_IDENTIFIERS[LowerCase(asked[p].license)]
        /\ \/ m.category \in asked[p].kinds
           \/ asked[p].kinds = {} /\ m.category = "exe"

\* A user name that GitHub can have.
GithubUser(user) ==
    user # <<>> /\ user[1] # Hyphen /\ Last(user) # Hyphen /\ ~DoubleHyphen(user)

\* The texts of a new package have no placeholder left in them, for any kind of
\* package, any accepted name and whether the service has the licence's text or
\* not, and where they link to GitHub the link can lead somewhere
\* (init/InitialData.cc).
TextsComplete ==
    \A p \in Creating :
      /\ \A contents \in Contents(p) : \A file \in ToSet(Front(contents)) :
           \A i \in DOMAIN file[2] : file[2][i][1] # "hole"
      /\ OnGithub(asked[p].name) => GithubUser(GithubUsername(asked[p].name))
=============================================================================
