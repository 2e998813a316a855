-------------------------- MODULE MCDecisionSystem ---------------------------
(***************************************************************************)
(* An instance of DecisionSystem for TLC: each packet is of a candidate of *)
(* its own, and identifiers are short.                                     *)
(***************************************************************************)
EXTENDS DecisionSystem

ItsCandidate     == [d \in Digests |-> d]
ShortIdentifiers == [r \in RunIds |-> 1]

Seen == INSTANCE DecisionRoom WITH
    Terminals <- Clients, Actions <- ReviewActions, Times <- 0..MaxTime,
    bound <- db.runs, issued <- IssuedNonces(db),
    open <- OpenChallenges(db), closed <- Verdicts(db), step <- RoomStep, job <- RoomJob

\* The terminals, with each call as one step, behave as DecisionRoom.
ImplementsRoom == Seen!Spec

\* The exports behave as over an atomic database.
ImplementsExports == Shelf!Spec
=============================================================================
