------------------------------ MODULE MCExports ------------------------------
(***************************************************************************)
(* Instances of Exports for TLC: a run with a short identifier and one     *)
(* with an identifier of 76 characters, a plain reviewer and one who puts a*)
(* link into the comment.                                                  *)
(***************************************************************************)
EXTENDS Exports, TLC

CONSTANTS short, long

IdentifierLength == [r \in RunIds |-> IF r = short THEN 75 ELSE 76]

Interchangeable ==
    Permutations(Nonces) \union Permutations(Killable) \union Permutations(Exporters \ Killable)
=============================================================================
