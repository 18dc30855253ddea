----------------------------- MODULE PackageName -----------------------------
(***************************************************************************)
(* Package names: Manifest::IsValidName of core/package/Manifest.cc, and   *)
(* what init/InitialData.cc and init/Run.cc take from a name.              *)
(*                                                                         *)
(* A name is "@owner/pack" or "@owner/pack:generation"; "written" is FALSE *)
(* of a text without one of the signs or with a generation that is no      *)
(* number.                                                                 *)
(***************************************************************************)
EXTENDS Spdx, SequencesExt

Std == <<19, 20, 4>>     \* "std"
Gh == <<7, 8, Hyphen>>   \* "gh-"
NoGeneration == <<>>

HasHyphen(s) == \E i \in DOMAIN s : s[i] = Hyphen

DoubleHyphen(s) == \E i \in 1..(Len(s) - 1) : s[i] = Hyphen /\ s[i + 1] = Hyphen

\* "[a-zA-Z0-9][a-zA-Z0-9-]*[a-zA-Z0-9]" with so many characters between.
Hyphenated(s, between) ==
    /\ Len(s) - 2 \in between
    /\ s[1] \in Alnum /\ s[Len(s)] \in Alnum
    /\ \A i \in DOMAIN s : s[i] \in Alnum \cup {Hyphen}

UserMatches(s) ==
    \/ s # <<>> /\ \A i \in DOMAIN s : s[i] \in Alnum
    \/ Hyphenated(s, 1..Len(s))

\* The provider's prefix may be missing.
OwnerMatches(s) ==
    \/ UserMatches(s)
    \/ \E k \in 2..Len(s) :
         /\ s[k] = Hyphen /\ \A i \in 1..(k - 1) : s[i] \in Letter
         /\ UserMatches(SubSeq(s, k + 1, Len(s)))

IsValidName(name) ==
    /\ name.written
    /\ OwnerMatches(name.owner) /\ Hyphenated(name.pack, 1..30)
    /\ ~DoubleHyphen(name.owner) /\ ~DoubleHyphen(name.pack)
    /\ name.owner = Std \/ HasHyphen(name.owner)
-----------------------------------------------------------------------------
\* GetGithubUsername, where there is one
OnGithub(name) == IsPrefix(Gh, name.owner)
GithubUsername(name) == SubSeq(name.owner, Len(Gh) + 1, Len(name.owner))

\* What follows the slash, the generation included.
PackageNamePart(name) == <<name.pack, name.generation>>

\* Words are told apart by spaces and have a capital.
BeutifyName(text) ==
    [i \in DOMAIN text |->
       IF text[i] = Hyphen THEN Space
       ELSE IF i = 1 \/ text[i - 1] = Hyphen THEN toupper(text[i])
       ELSE text[i]]

BeutifyPart(part) == <<BeutifyName(part[1]), part[2]>>

\* Of letters, digits, hyphens, dots and plus signs only the last are encoded.
URLEncode(text) ==
    FlattenSeq([i \in DOMAIN text |->
      IF text[i] = Plus THEN <<Percent, 32, 2>> ELSE <<text[i]>>])

ShieldsIOEscapeContent(text) ==
    URLEncode(FlattenSeq([i \in DOMAIN text |->
      IF text[i] = Hyphen THEN <<Hyphen, Hyphen>> ELSE <<text[i]>>]))
=============================================================================
