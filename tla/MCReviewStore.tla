--------------------------- MODULE MCReviewStore ----------------------------
(***************************************************************************)
(* Instances of ReviewStore for TLC: the clients, reviewers and nonces are *)
(* model values, and interchangeable where no liveness is checked.         *)
(***************************************************************************)
EXTENDS ReviewStore, TLC

Interchangeable ==
    Permutations(Clients) \union Permutations(Nonces)
      \union Permutations(Digests) \union Permutations(RunIds)
=============================================================================
