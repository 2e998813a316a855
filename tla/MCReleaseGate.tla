---------------------------- MODULE MCReleaseGate ----------------------------
(***************************************************************************)
(* An instance of ReleaseGate for TLC.  The second version of the builder  *)
(* and the second policy each turn the blocked case into a passing one, so *)
(* that the key, the wheel and the published results can all be wrong.     *)
(***************************************************************************)
EXTENDS ReleaseGate, TLC

CONSTANTS frozen, revised, strict, lax

AllScenarios == {"pass", "blocked", "fail"}
AllDecisions == {"PASS", "BLOCKED", "FAIL"}

FrozenKey == [pass |-> "PASS", blocked |-> "BLOCKED", fail |-> "FAIL"]
LenientKey == [FrozenKey EXCEPT !.blocked = "PASS"]

\* A packet is its decision and what it was made from.
PacketOf(b, p, s) ==
    <<IF s = "blocked" /\ (b = revised \/ p = lax) THEN "PASS" ELSE FrozenKey[s], b, p>>

PacketTable == [b \in Builders |-> [p \in Policies |-> [s \in Scenarios |-> PacketOf(b, p, s)]]]
PacketSet   == UNION {{PacketOf(b, p, s) : s \in Scenarios} : b \in Builders, p \in Policies}
FirstOf     == [packet \in PacketSet |-> packet[1]]

\* The answers stay the same when the cases are revised.
KeyTable == [b \in Builders |-> FrozenKey]
KeySet   == {FrozenKey, LenientKey, [pass |-> "PASS", blocked |-> "BLOCKED"], <<>>}
=============================================================================
