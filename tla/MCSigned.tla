------------------------------ MODULE MCSigned ------------------------------
(***************************************************************************)
(* Small instances of SignedWrites. The processes are interchangeable.     *)
(***************************************************************************)
EXTENDS SignedWrites, TLC

Interchangeable == Permutations(Processes)
=============================================================================
