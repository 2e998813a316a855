--------------------------- MODULE ReviewProtocol ---------------------------
(***************************************************************************)
(* What the review store promises, with neither transactions nor callers:  *)
(* a run is bound to one packet, has at most one open challenge, and is    *)
(* closed by at most one human verdict, given inside the window of the     *)
(* challenge that was open.  ReviewStore implements this specification.    *)
(***************************************************************************)
EXTENDS Naturals

CONSTANTS RunIds, Digests, Nonces, Reviewers, Actions, Times, MinTtl, MaxTtl

VARIABLES bound,    \* the packet each run is bound to
          issued,   \* the nonces that were ever handed out
          open,     \* the challenges a verdict may still redeem
          closed    \* the verdicts

vars == <<bound, issued, open, closed>>

Init == bound = {} /\ issued = {} /\ open = {} /\ closed = {}

Closed(r) == \E v \in closed : v.run_id = r

\* A run is bound once and for all.
Bind(r, d) ==
    /\ ~\E b \in bound : b.run_id = r
    /\ bound' = bound \union {[run_id |-> r, decision_digest |-> d]}
    /\ UNCHANGED <<issued, open, closed>>

\* A fresh challenge takes the place of the run's open one.
Issue(b, n, t, ttl) ==
    /\ ~Closed(b.run_id)
    /\ n \notin issued
    /\ issued' = issued \union {n}
    /\ open' = {o \in open : o.run_id # b.run_id}
                 \union {[run_id |-> b.run_id, decision_digest |-> b.decision_digest,
                          nonce |-> n, issued_at |-> t, expires_at |-> t + ttl]}
    /\ UNCHANGED <<bound, closed>>

\* A verdict uses up the open challenge, inside its window.
Decide(o, who, act, t) ==
    /\ ~Closed(o.run_id)
    /\ o.issued_at <= t /\ t <= o.expires_at
    /\ open' = open \ {o}
    /\ closed' = closed \union
         {[run_id |-> o.run_id, decision_digest |-> o.decision_digest, nonce |-> o.nonce,
           reviewer |-> who, action |-> act, reviewed_at |-> t]}
    /\ UNCHANGED <<bound, issued>>

Next ==
    \/ \E r \in RunIds, d \in Digests : Bind(r, d)
    \/ \E b \in bound, n \in Nonces, t \in Times, ttl \in MinTtl..MaxTtl : Issue(b, n, t, ttl)
    \/ \E o \in open, who \in Reviewers, act \in Actions, t \in Times : Decide(o, who, act, t)

Spec == Init /\ [][Next]_vars
=============================================================================
