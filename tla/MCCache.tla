------------------------------- MODULE MCCache -------------------------------
(* The replay cache at capacity 2 with three keys: evictions, refreshes     *)
(* and overwrites in every order of up to MaxUses uses.                     *)
EXTENDS CacheHistory
=============================================================================
