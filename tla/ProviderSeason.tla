---------------------------- MODULE ProviderSeason ----------------------------
(***************************************************************************)
(* What the provider of fixtures may answer, and what the scripts that ask  *)
(* it are given (source/shadow_ingest.py).                                  *)
(***************************************************************************)
EXTENDS Naturals, FiniteSets

CONSTANTS
  Matches,       \* match ids
  Responses,     \* responses the provider may give: match id -> kickoff
  Ttl,           \* cache_ttl_seconds of the pipeline; the loop sets none
  MaxFixtures    \* --max-fixtures

ASSUME SeasonAssumption ==
  /\ Matches \subseteq Nat /\ IsFiniteSet(Matches)
  /\ Responses # {}
  /\ \A r \in Responses : DOMAIN r \subseteq Matches /\ r \in [DOMAIN r -> Nat]
  /\ {Ttl, MaxFixtures} \subseteq Nat
===============================================================================
