--------------------------- MODULE MCDecisionRoom ---------------------------
(***************************************************************************)
(* An instance of DecisionRoom for TLC: two packets about two candidates,  *)
(* one of them with a longer text.                                         *)
(***************************************************************************)
EXTENDS DecisionRoom, TLC

CONSTANTS brief, wordy, oldRelease, newRelease

Candidates == [d \in {brief, wordy} |-> IF d = brief THEN oldRelease ELSE newRelease]

Interchangeable == Permutations(RunIds) \union Permutations(Nonces) \union Permutations(Terminals)
=============================================================================
