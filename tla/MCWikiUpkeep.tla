---------------------------- MODULE MCWikiUpkeep ----------------------------
\* A small instance of the upkeep of claims for TLC.
EXTENDS WikiUpkeep, TLC

\* No definition tells one claim from another.
Interchangeable == Permutations(Claim)
=============================================================================
