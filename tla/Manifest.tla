------------------------------ MODULE Manifest ------------------------------
(***************************************************************************)
(* The package manifest no3.json: what VerifyUntrustedJSON accepts, what   *)
(* FromJson makes of it and what ToJson writes (core/package/Manifest.cc). *)
(*                                                                         *)
(* A JSON document is a record of its keys.  Bad stands for every value    *)
(* that is absent, of a wrong type or not one of the words allowed.  A     *)
(* version is the sequence of its numbers, of any size in a document.      *)
(***************************************************************************)
EXTENDS Integers, Sequences, SequencesExt

CONSTANTS
    ValidName,     \* names that IsValidName accepts
    ValidLicense,  \* licences that IsValidLicense accepts
    Narrow,        \* numbers of a manifest are below it: 2^32
    Long           \* std::stoul throws from it on: 2^64

ASSUME ManifestAssumption ==
    Narrow \in Nat \ {0} /\ Long \in Nat /\ Narrow <= Long

Bad == "bad"

Category == {"exe", "lib", "std"}
Role == {"owner", "contributor", "maintainer", "support"}
Stage == {"alpha", "beta", "gamma", "llvm", "lto", "runtime"}
RequiredProfile == {"rapid", "debug", "release"}
Requirement == {"min-cores", "min-memory", "min-storage"}

IsList(s) == s \in Seq(ToSet(s))

\* A document of which only the values are in question: versions and
\* requirements are numbers, flags are lists.
IsDocument(j) ==
    /\ j.version \in Seq(Nat)
    /\ \A k \in DOMAIN j.dependencies : j.dependencies[k].version \in Seq(Nat)
    /\ \A p \in DOMAIN j.optimization.profiles :
         LET s == j.optimization.profiles[p]
         IN  \A stage \in Stage \cap DOMAIN s : IsList(s[stage])
    /\ \A r \in Requirement \cap DOMAIN j.optimization.requirements :
         j.optimization.requirements[r] \in Nat
-----------------------------------------------------------------------------
(* namespace check *)

ValidateSemVersion(v) == Len(v) \in {2, 3}

\* A switch is a function from stages to sequences of flags.
ValidateSwitch(s) ==
    /\ Stage \subseteq DOMAIN s
    /\ \A stage \in Stage : ~Contains(s[stage], Bad)

ValidateOptimizationProfilesOnly(o) ==
    /\ RequiredProfile \subseteq DOMAIN o.profiles
    /\ Requirement \subseteq DOMAIN o.requirements

\* Of the profiles only the required ones are looked at.
ValidateOptimization(o) ==
    /\ RequiredProfile \subseteq DOMAIN o.profiles
    /\ \A p \in RequiredProfile : ValidateSwitch(o.profiles[p])
    /\ Requirement \subseteq DOMAIN o.requirements

ValidateContact(c) ==
    /\ c.name # Bad /\ c.email # Bad /\ c.phone # Bad
    /\ ToSet(c.roles) \subseteq Role

\* 36 characters, dashes and hexadecimal digits; the keys and signatures of
\* ed25519.
ValidateUUID(u) == u # Bad
ValidateKeyPair(k) == k # Bad
ValidateSignature(s) == s # Bad

ValidateDependency(d) == ValidateUUID(d.uuid) /\ ValidateSemVersion(d.version)

\* A block of the ownership chain.
ValidateBlock(b) ==
    /\ ValidateUUID(b.uuid) /\ b.category # Bad
    /\ ValidateKeyPair(b.pubkey) /\ ValidateSignature(b.signature)

Verify(j) ==
    /\ ValidateSemVersion(j.format) /\ j.format[1] = 1
    /\ j.name \in ValidName
    /\ j.description # Bad
    /\ j.license \in ValidLicense
    /\ j.category \in Category
    /\ ValidateSemVersion(j.version)
    /\ \A k \in DOMAIN j.contacts : ValidateContact(j.contacts[k])
    /\ ~Contains(j.platforms.allow \o j.platforms.deny, Bad)
    /\ ValidateOptimization(j.optimization)
    /\ \A k \in DOMAIN j.dependencies : ValidateDependency(j.dependencies[k])
    /\ \A k \in DOMAIN j.blockchain : ValidateBlock(j.blockchain[k])
-----------------------------------------------------------------------------
(* namespace convert *)

\* ConvertSemanticVersion: std::stoul, then a uint32_t.
ConvertVersion(v) ==
    [major |-> v[1] % Narrow, minor |-> v[2] % Narrow,
     patch |-> IF Len(v) = 3 THEN v[3] % Narrow ELSE 0]

VersionThrows(v) == \E k \in DOMAIN v : v[k] >= Long

ConvertSwitch(s) == [stage \in Stage |-> ToSet(s[stage])]

ConvertContact(c) ==
    [name |-> c.name, email |-> c.email, phone |-> c.phone, roles |-> ToSet(c.roles)]

ConvertDependency(d) == [uuid |-> d.uuid, version |-> ConvertVersion(d.version)]

\* ObjectToInstance of an accepted document, which may throw, or worse: const
\* json::operator[] on a key that is not there is undefined.
Throws(j) ==
    \/ VersionThrows(j.version)
    \/ \E k \in DOMAIN j.dependencies : VersionThrows(j.dependencies[k].version)
    \/ \E p \in DOMAIN j.optimization.profiles : ~ValidateSwitch(j.optimization.profiles[p])

ObjectToInstance(j) ==
    [name         |-> j.name,
     description  |-> j.description,
     license      |-> j.license,
     category     |-> j.category,
     version      |-> ConvertVersion(j.version),
     contacts     |-> [k \in DOMAIN j.contacts |-> ConvertContact(j.contacts[k])],
     platforms    |-> j.platforms,
     profiles     |-> [p \in DOMAIN j.optimization.profiles |->
                         ConvertSwitch(j.optimization.profiles[p])],
     requirements |-> [r \in Requirement |-> j.optimization.requirements[r] % Narrow],
     dependencies |-> [k \in DOMAIN j.dependencies |-> ConvertDependency(j.dependencies[k])]]
-----------------------------------------------------------------------------
(* Manifest::ToJson *)

EncodeVersionAlwaysShort(v) == <<v.major, v.minor>>

EncodeVersion(v) ==
    <<v.major, v.minor>> \o (IF v.patch = 0 THEN <<>> ELSE <<v.patch>>)

EncodeSwitch(s) == [stage \in Stage |-> SetToSeq(s[stage])]

EncodeContact(c) ==
    [name |-> c.name, email |-> c.email, phone |-> c.phone, roles |-> SetToSeq(c.roles)]

EncodeDependency(d) == [uuid |-> d.uuid, version |-> EncodeVersion(d.version)]

\* Of the profiles it writes the required ones; of the blockchain nothing.
ToJson(m) ==
    [format       |-> <<1, 0>>,
     name         |-> m.name,
     description  |-> m.description,
     license      |-> m.license,
     category     |-> m.category,
     version      |-> EncodeVersion(m.version),
     contacts     |-> [k \in DOMAIN m.contacts |-> EncodeContact(m.contacts[k])],
     platforms    |-> m.platforms,
     optimization |-> [profiles |-> [p \in RequiredProfile |-> EncodeSwitch(m.profiles[p])],
                       requirements |-> m.requirements],
     dependencies |-> [k \in DOMAIN m.dependencies |-> EncodeDependency(m.dependencies[k])],
     blockchain   |-> <<>>]
=============================================================================
