-------------------------------- MODULE Spdx --------------------------------
(***************************************************************************)
(* SPDX licence identifiers: core/static/SPDX.cc, SPDX-API.cc and the      *)
(* table of SPDX-Identifiers.cc, whose keys are the identifiers in lower   *)
(* case.                                                                   *)
(*                                                                         *)
(* A text is a sequence of characters.  A letter is a number from 1 on and *)
(* its upper case the negative of it; what is no letter has no case.       *)
(***************************************************************************)
EXTENDS Integers, Sequences, FiniteSets, FiniteSetsExt

CONSTANT SPDX_IDENTIFIERS    \* identifiers by their lower case

Letter == 1..26
Digit == 30..39
Hyphen == 40
Plus == 41
Space == 42
Dot == 43
Percent == 44

Alnum == Letter \cup { -c : c \in Letter } \cup Digit

tolower(c) == IF -c \in Letter THEN -c ELSE c
toupper(c) == IF c \in Letter THEN -c ELSE c

LowerCase(text) == [i \in DOMAIN text |-> tolower(text[i])]

ASSUME SpdxAssumption ==
    /\ DOMAIN SPDX_IDENTIFIERS # {} /\ IsFiniteSet(DOMAIN SPDX_IDENTIFIERS)
    /\ \A key \in DOMAIN SPDX_IDENTIFIERS :
         /\ key \in Seq(Int) /\ SPDX_IDENTIFIERS[key] \in Seq(Int)
         /\ LowerCase(SPDX_IDENTIFIERS[key]) = key
-----------------------------------------------------------------------------
LevensteinWithoutSubstitution(a, b) ==
    LET m == Len(a)
        n == Len(b)
        dp[at \in (0..m) \X (0..n)] ==
          LET i == at[1]
              j == at[2]
          IN  IF i = m THEN n - j
              ELSE IF j = n THEN m - i
              ELSE IF a[i + 1] = b[j + 1] THEN dp[<<i + 1, j + 1>>]
              ELSE 1 + Min({dp[<<i, j + 1>>], dp[<<i + 1, j>>]})
    IN  dp[<<0, 0>>]

\* The memo only saves time.
Levenstein(a, b) ==
    LET m == Len(a)
        n == Len(b)
        dp[at \in (0..m) \X (0..n)] ==
          LET i == at[1]
              j == at[2]
          IN  IF i = m THEN n - j
              ELSE IF j = n THEN m - i
              ELSE IF a[i + 1] = b[j + 1] THEN dp[<<i + 1, j + 1>>]
              ELSE 1 + Min({dp[<<i, j + 1>>], dp[<<i + 1, j>>], dp[<<i + 1, j + 1>>]})
    IN  dp[<<0, 0>>]

\* FindClosestSPDXLicense returns the first of the least distance, in the order
\* of a hash table: any of them.
FindClosestSPDXLicense(query) ==
    LET dist == [key \in DOMAIN SPDX_IDENTIFIERS |-> Levenstein(key, LowerCase(query))]
    IN  { SPDX_IDENTIFIERS[key] : key \in
            { k \in DOMAIN dist : \A other \in DOMAIN dist : dist[k] <= dist[other] } }

IsExactSPDXLicenseMatch(query) == LowerCase(query) \in DOMAIN SPDX_IDENTIFIERS

NoText == <<>>

\* GetSPDXLicenseText: the service's text for the identifier in lower case,
\* unless the request, its answer or the key "text" in it is missing.
GetSPDXLicenseText(query) ==
    IF IsExactSPDXLicenseMatch(query)
    THEN {NoText, <<"text of", LowerCase(query)>>}
    ELSE {NoText}
-----------------------------------------------------------------------------
\* What an edit distance is: of the ways to pair some characters of a, in
\* their order, with as many of b, the one that leaves least to do.  A pair of
\* different characters is one substitution, a character without partner one
\* deletion or insertion.
Rank(i, S) == Cardinality({ j \in S : j <= i })

EditDistance(a, b) ==
    Min({ Len(a) + Len(b) - 2 * Cardinality(pairing[1])
            + Cardinality({ i \in pairing[1] : \E j \in pairing[2] :
                              Rank(i, pairing[1]) = Rank(j, pairing[2]) /\ a[i] # b[j] })
          : pairing \in { st \in (SUBSET DOMAIN a) \X (SUBSET DOMAIN b) :
                            Cardinality(st[1]) = Cardinality(st[2]) } })
=============================================================================
