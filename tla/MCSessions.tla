------------------------------ MODULE MCSessions ------------------------------
(***************************************************************************)
(* Small instances of Sessions: one person, one agent, one challenge. A     *)
(* code and a token live one tick.                                         *)
(***************************************************************************)
EXTENDS Sessions, TLC

SmallTTL == [tier \in Tiers |-> 1]

Interchangeable == Permutations(Threads) \cup Permutations(Tokens) \cup Permutations(PublicKeys)
=============================================================================
