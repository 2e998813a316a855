-------------------------- MODULE ReleaseGateProofs --------------------------
(***************************************************************************)
(* Theorems about ReleaseGate, for any versions of cases and policy, any   *)
(* answer keys and any number of the developer's actions.                  *)
(*                                                                         *)
(* A check reads the tree and finds something true; it stays true as long  *)
(* as the tree is left alone (GateInv), and so all of it holds at the end. *)
(***************************************************************************)
EXTENDS ReleaseGate, SequenceTheorems, TLAPS

USE DEF developer, Stages, Passed, PastDrift, PastSmoke, PastBuild, PastClaims,
        PastEvaluation, PastAssets, PastDecisions, PastCases

-----------------------------------------------------------------------------
(* Types *)

\* The evaluation of a whole case against a key with a scenario.
LEMMA EvaluationTyped ==
    ASSUME NEW t, t.cases \in Builders, t.policy \in Policies, t.key \in Keys,
           DOMAIN t.key # {}
    PROVE  Evaluation(t) \in Evaluations
  <1> DEFINE decision == [s \in Scenarios |-> DecisionOf[Decided[t.cases][t.policy][s]]]
             a == [s \in DOMAIN t.key |-> decision[s] = t.key[s]]
             b == [s \in Scenarios \ {"pass"} |-> decision[s]]
  <1>1. DOMAIN t.key \in (SUBSET Scenarios) \ {{}}
    BY KeyAssumption
  <1>2. a \in [DOMAIN t.key -> BOOLEAN]
    OBVIOUS
  <1>3. a \in UNION {[S -> BOOLEAN] : S \in (SUBSET Scenarios) \ {{}}}
    BY <1>1, <1>2
  <1>4. b \in [Scenarios \ {"pass"} -> Decisions]
    BY DecisionAssumption
  <1>5. Evaluation(t) = [agreement |-> a, adversarial |-> b]
    BY DEF Evaluation
  <1> HIDE DEF a, b
  <1> QED
    BY <1>3, <1>4, <1>5 DEF Evaluations

\* A step of a generator that does not raise keeps the tree a tree.
LEMMA AfterTyped ==
    ASSUME NEW t \in Trees, NEW s \in ToolSteps, ~Raises(t, s)
    PROVE  After(t, s) \in Trees
  <1>1. CASE s = "write results"
    <2>1. t.cases \in Builders /\ t.key \in Keys /\ DOMAIN t.key # {} /\ t.policy \in Policies
      BY <1>1 DEF Raises, Evaluates, Trees
    <2>2. Evaluation(t) \in Evaluations
      BY <2>1, EvaluationTyped
    <2>3. After(t, s) = [t EXCEPT !.results = Evaluation(t)]
      BY <1>1 DEF After
    <2> QED
      BY <2>2, <2>3 DEF Trees
  <1>2. CASE s = "write expected"
    <2>1. t.cases \in Builders /\ t.policy \in Policies
      BY <1>2 DEF Raises, Trees
    <2>2. Decided[t.cases][t.policy] \in Packets
      BY <2>1 DEF Packets
    <2>3. After(t, s) = [t EXCEPT !.expected = Decided[t.cases][t.policy]]
      BY <1>2 DEF After
    <2> QED
      BY <2>2, <2>3 DEF Trees
  <1>3. CASE s = "write key"
    <2>1. BuiltKey[t.builder] \in Keys
      BY KeyAssumption DEF Trees
    <2>2. After(t, s) = [t EXCEPT !.key = BuiltKey[t.builder]]
      BY <1>3 DEF After
    <2> QED
      BY <2>1, <2>2 DEF Trees
  <1>4. CASE s \in {"clear cases", "write cases"}
    BY <1>4 DEF After, Trees
  <1>5. CASE s \in {"clear expected", "clear results"}
    BY <1>5 DEF After, Trees
  <1>6. CASE s \in {"clear package", "copy cases", "copy policy"}
    BY <1>6 DEF After, Trees
  <1> QED
    BY <1>1, <1>2, <1>3, <1>4, <1>5, <1>6 DEF ToolSteps

LEMMA Steps2 ==
    ASSUME NEW S, NEW a \in S, NEW b \in S
    PROVE  <<a, b>> \in Seq(S)
  OBVIOUS

LEMMA Steps3 ==
    ASSUME NEW S, NEW a \in S, NEW b \in S, NEW c \in S
    PROVE  <<a, b, c>> \in Seq(S)
  OBVIOUS

LEMMA ProgramTyped ==
    ASSUME NEW p \in Programs
    PROVE  Program[p] \in Seq(ToolSteps)
  <1>1. CASE p = "build_cases"
    <2>1. Program[p] = <<"clear cases", "write cases", "write key">>
      BY <1>1 DEF Program
    <2> QED
      BY <2>1, Steps3 DEF ToolSteps
  <1>2. CASE p = "generate_decisions"
    <2>1. Program[p] = <<"clear expected", "write expected">>
      BY <1>2 DEF Program
    <2> QED
      BY <2>1, Steps2 DEF ToolSteps
  <1>3. CASE p = "sync_package_assets"
    <2>1. Program[p] = <<"clear package", "copy cases", "copy policy">>
      BY <1>3 DEF Program
    <2> QED
      BY <2>1, Steps3 DEF ToolSteps
  <1>4. CASE p = "evaluate"
    <2>1. Program[p] = <<"clear results", "write results">>
      BY <1>4 DEF Program
    <2> QED
      BY <2>1, Steps2 DEF ToolSteps
  <1> QED
    BY <1>1, <1>2, <1>3, <1>4 DEF Programs

LEMMA InitIInv == Init => IInv
  <1> SUFFICES ASSUME Init PROVE IInv
    OBVIOUS
  <1>1. PICK b \in Builders, p \in Policies :
          LET t == [builder |-> b, policy |-> p, key |-> BuiltKey[b], cases |-> b,
                    expected |-> Decided[b][p], package_cases |-> b, package_policy |-> p,
                    results |-> Partial]
          IN  tree = [t EXCEPT !.results = Evaluation(t)]
    BY DEF Init
  <1> DEFINE t == [builder |-> b, policy |-> p, key |-> BuiltKey[b], cases |-> b,
                   expected |-> Decided[b][p], package_cases |-> b, package_policy |-> p,
                   results |-> Partial]
  <1>2. BuiltKey[b] \in Keys /\ Decided[b][p] \in Packets /\ DOMAIN BuiltKey[b] # {}
    BY KeyAssumption DEF Packets
  <1>3. t \in Trees /\ t.cases = b /\ t.policy = p /\ t.key = BuiltKey[b]
    BY <1>2 DEF Trees
  <1>4. tree = [t EXCEPT !.results = Evaluation(t)]
    BY <1>1
  <1> HIDE DEF t
  <1>5. Evaluation(t) \in Evaluations
    BY <1>2, <1>3, EvaluationTyped
  <1>6. tree \in Trees
    BY <1>3, <1>4, <1>5 DEF Trees
  <1>7. <<>> \in Seq(ToolSteps)
    BY EmptySeq
  <1>8. TypeOK
    BY <1>6, <1>7, WorkAssumption DEF Init, TypeOK
  <1>9. KeptInv /\ GateInv /\ ChecksLeaveTheTreeAlone
    BY DEF Init, KeptInv, GateInv, ChecksLeaveTheTreeAlone
  <1> QED
    BY <1>8, <1>9 DEF IInv

-----------------------------------------------------------------------------
(* The developer: whatever happens to the tree, the gate is disturbed *)

LEMMA DisturbedKeepsIInv ==
    ASSUME TypeOK', KeptInv', start' = None
    PROVE  IInv'
  BY DEF IInv, GateInv, ChecksLeaveTheTreeAlone

LEMMA DevelopKeepsIInv == IInv /\ Develop => IInv'
  <1> SUFFICES ASSUME IInv, Develop PROVE IInv'
    OBVIOUS
  <1> USE DEF IInv
  <1>1. CASE Edit
    <2>1. start' = None /\ UNCHANGED <<index, dist, gate, kept, tool>> /\ work' \in 0..MaxWork
      BY <1>1, WorkAssumption DEF Edit, Busy, TypeOK
    <2>2. tree' \in Trees
      BY <1>1 DEF Edit, TypeOK, Trees
    <2> QED
      BY <2>1, <2>2, DisturbedKeepsIInv DEF TypeOK, KeptInv
  <1>2. CASE Stage
    <2>1. /\ start' = None /\ index' = tree /\ work' \in 0..MaxWork
          /\ UNCHANGED <<tree, dist, gate, kept, tool>>
      BY <1>2, WorkAssumption DEF Stage, Busy, TypeOK
    <2> QED
      BY <2>1, DisturbedKeepsIInv DEF TypeOK, KeptInv
  <1>3. CASE \E p \in Programs : RunTool(p)
    <2>1. /\ start' = None /\ tool' \in Seq(ToolSteps) /\ work' \in 0..MaxWork
          /\ UNCHANGED <<tree, index, dist, gate, kept>>
      BY <1>3, ProgramTyped, WorkAssumption DEF RunTool, Busy, TypeOK
    <2> QED
      BY <2>1, DisturbedKeepsIInv DEF TypeOK, KeptInv
  <1>4. CASE ToolStep
    <2>1. start' = None /\ UNCHANGED <<index, dist, gate, kept, work>>
      BY <1>4 DEF ToolStep
    <2>2. Head(tool) \in ToolSteps /\ Tail(tool) \in Seq(ToolSteps)
      BY <1>4, HeadTailProperties DEF ToolStep, TypeOK
    <2>3. tool' \in Seq(ToolSteps)
      BY <1>4, <2>2, EmptySeq DEF ToolStep
    <2>4. tree' \in Trees
      BY <1>4, <2>2, AfterTyped DEF ToolStep, TypeOK
    <2> QED
      BY <2>1, <2>3, <2>4, DisturbedKeepsIInv DEF TypeOK, KeptInv
  <1>5. CASE ToolDies
    <2>1. start' = None /\ tool' = <<>> /\ UNCHANGED <<tree, index, dist, gate, kept, work>>
      BY <1>5 DEF ToolDies
    <2> QED
      BY <2>1, EmptySeq, DisturbedKeepsIInv DEF TypeOK, KeptInv
  <1> QED
    BY <1>1, <1>2, <1>3, <1>4, <1>5 DEF Develop

-----------------------------------------------------------------------------
(* The gate *)

\* A check that reads the tree: what it has found is added to what was found.
LEMMA CheckKeepsTypes ==
    ASSUME TypeOK, NEW name, NEW ok, NEW next \in Stages, Check(name, ok, next)
    PROVE  TypeOK'
  BY DEF Check, TypeOK

LEMMA ChecksKeepIInv ==
    ASSUME IInv,
           \/ VerifyCases \/ CheckDecisions \/ CheckAssets \/ CheckEvaluation
           \/ VerifyPublicClaims \/ SmokeWheel \/ NoDrift
    PROVE  IInv'
  <1> USE DEF IInv
  <1>1. TypeOK'
    BY CheckKeepsTypes DEF VerifyCases, CheckDecisions, CheckAssets, CheckEvaluation,
       VerifyPublicClaims, SmokeWheel, NoDrift
  <1>2. UNCHANGED <<tree, dist, kept, start, developer>> /\ gate' # "compare" /\ gate # "compare"
    BY DEF VerifyCases, CheckDecisions, CheckAssets, CheckEvaluation,
       VerifyPublicClaims, SmokeWheel, NoDrift, Check
  <1>3. KeptInv' /\ ChecksLeaveTheTreeAlone'
    BY <1>2 DEF KeptInv, ChecksLeaveTheTreeAlone
  <1> SUFFICES GateInv'
    BY <1>1, <1>3
  <1>4. /\ Evaluates(tree)' = Evaluates(tree) /\ Evaluation(tree)' = Evaluation(tree)
        /\ Succeeded(tree.results)' = Succeeded(tree.results)
    BY <1>2 DEF Evaluates, Evaluation, Succeeded
  <1>5. CASE gate' = "failed"
    BY <1>2, <1>5 DEF GateInv
  <1>6. CASE VerifyCases /\ gate' # "failed"
    BY <1>2, <1>4, <1>6 DEF VerifyCases, Check, GateInv
  <1>7. CASE CheckDecisions /\ gate' # "failed"
    BY <1>2, <1>4, <1>7 DEF CheckDecisions, Check, GateInv
  <1>8. CASE CheckAssets /\ gate' # "failed"
    BY <1>2, <1>4, <1>8 DEF CheckAssets, Check, GateInv
  <1>9. CASE CheckEvaluation /\ gate' # "failed"
    BY <1>2, <1>4, <1>9 DEF CheckEvaluation, Check, GateInv
  <1>10. CASE VerifyPublicClaims /\ gate' # "failed"
    BY <1>2, <1>4, <1>10 DEF VerifyPublicClaims, Check, GateInv
  <1>11. CASE SmokeWheel /\ gate' # "failed"
    BY <1>2, <1>4, <1>11 DEF SmokeWheel, Check, GateInv
  <1>12. CASE NoDrift /\ gate' # "failed"
    BY <1>2, <1>4, <1>12 DEF NoDrift, Check, GateInv
  <1> QED
    BY <1>1, <1>3, <1>5, <1>6, <1>7, <1>8, <1>9, <1>10, <1>11, <1>12

LEMMA GateKeepsIInv == IInv /\ Gate => IInv'
  <1> SUFFICES ASSUME IInv, Gate PROVE IInv'
    OBVIOUS
  <1> USE DEF IInv
  <1>1. CASE GateStarts
    <2>1. /\ gate' = "cases" /\ dist' = None /\ start' \in {tree, None}
          /\ UNCHANGED <<tree, kept, index, tool, work>>
      BY <1>1 DEF GateStarts
    <2>2. TypeOK'
      BY <2>1 DEF TypeOK
    <2>3. KeptInv' /\ GateInv' /\ ChecksLeaveTheTreeAlone'
      BY <2>1 DEF KeptInv, GateInv, ChecksLeaveTheTreeAlone
    <2> QED
      BY <2>2, <2>3
  <1>2. CASE GenerateCases
    <2>1. /\ gate = "cases" /\ gate' = "compare"
          /\ kept' = [key |-> tree.key, cases |-> tree.builder]
          /\ tree' = [tree EXCEPT !.key = BuiltKey[tree.builder]]
          /\ UNCHANGED <<dist, start, index, tool, work>>
      BY <1>2 DEF GenerateCases
    <2>2. BuiltKey[tree.builder] \in Keys
      BY KeyAssumption DEF TypeOK, Trees
    <2>3. tree' \in Trees /\ kept' \in [key : Keys \union {Missing}, cases : Builders]
      BY <2>1, <2>2 DEF TypeOK, Trees
    <2>4. TypeOK'
      BY <2>1, <2>3 DEF TypeOK
    <2>5. KeptInv' /\ ChecksLeaveTheTreeAlone'
      BY <2>1, <2>3 DEF KeptInv, ChecksLeaveTheTreeAlone
    <2>6. GateInv'
      BY <2>1 DEF GateInv
    <2> QED
      BY <2>4, <2>5, <2>6
  <1>3. CASE CompareCases
    <2>1. /\ gate = "compare" /\ kept' = None
          /\ tree' = IF kept.key # Missing THEN [tree EXCEPT !.key = kept.key] ELSE tree
          /\ gate' = IF tree.cases = kept.cases THEN "verify" ELSE "failed"
          /\ UNCHANGED <<dist, start, index, tool, work>>
      BY <1>3 DEF CompareCases
    <2>2. TypeOK'
      <3>1. kept.key # Missing => kept.key \in Keys
        BY <2>1 DEF KeptInv
      <3>2. tree' \in Trees
        BY <2>1, <3>1 DEF TypeOK, Trees
      <3> QED
        BY <2>1, <3>2 DEF TypeOK
    <2>3. start # None => \/ start.key = Missing
                          \/ tree' = start
      BY <2>1 DEF GateInv, TypeOK, Trees
    <2>4. ASSUME start # None, gate' = "verify" PROVE tree'.cases = tree'.builder
      BY <2>1, <2>4 DEF GateInv, TypeOK, Trees
    <2>5. KeptInv' /\ GateInv' /\ ChecksLeaveTheTreeAlone'
      BY <2>1, <2>3, <2>4 DEF KeptInv, GateInv, ChecksLeaveTheTreeAlone
    <2> QED
      BY <2>2, <2>5
  <1>4. CASE \/ VerifyCases \/ CheckDecisions \/ CheckAssets \/ CheckEvaluation
             \/ VerifyPublicClaims \/ SmokeWheel \/ NoDrift
    BY <1>4, ChecksKeepIInv
  <1>5. CASE BuildWheel
    <2>1. /\ gate = "build" /\ gate' = "smoke"
          /\ dist' = [cases |-> tree.package_cases, policy |-> tree.package_policy]
          /\ UNCHANGED <<tree, kept, start, index, tool, work>>
      BY <1>5 DEF BuildWheel
    <2>2. dist' \in Wheels
      BY <2>1 DEF TypeOK, Trees, Wheels
    <2>3. TypeOK'
      BY <2>1, <2>2 DEF TypeOK
    <2>4. Evaluates(tree)' = Evaluates(tree) /\ Evaluation(tree)' = Evaluation(tree)
      BY <2>1 DEF Evaluates, Evaluation
    <2>5. KeptInv' /\ GateInv' /\ ChecksLeaveTheTreeAlone'
      BY <2>1, <2>4 DEF KeptInv, GateInv, ChecksLeaveTheTreeAlone
    <2> QED
      BY <2>3, <2>5
  <1>6. CASE GateDies
    <2>1. /\ gate' = "idle" /\ kept' = None /\ start' = None
          /\ UNCHANGED <<tree, dist, index, tool, work>>
      BY <1>6 DEF GateDies
    <2> QED
      BY <2>1, DisturbedKeepsIInv DEF TypeOK, KeptInv
  <1> QED
    BY <1>1, <1>2, <1>3, <1>4, <1>5, <1>6 DEF Gate

-----------------------------------------------------------------------------
(* The theorems *)

LEMMA NextKeepsIInv == IInv /\ [Next]_vars => IInv'
  <1> SUFFICES ASSUME IInv, [Next]_vars PROVE IInv'
    OBVIOUS
  <1>1. CASE Develop
    BY <1>1, DevelopKeepsIInv
  <1>2. CASE Gate
    BY <1>2, GateKeepsIInv
  <1>3. CASE UNCHANGED vars
    <2>1. Evaluates(tree)' = Evaluates(tree) /\ Evaluation(tree)' = Evaluation(tree)
      BY <1>3 DEF Evaluates, Evaluation, vars
    <2>2. Succeeded(tree.results)' = Succeeded(tree.results)
      BY <1>3 DEF Succeeded, vars
    <2>3. TypeOK' /\ KeptInv' /\ ChecksLeaveTheTreeAlone'
      BY <1>3 DEF IInv, TypeOK, KeptInv, ChecksLeaveTheTreeAlone, vars
    <2>4. GateInv'
      BY <1>3, <2>1, <2>2 DEF IInv, GateInv, vars
    <2> QED
      BY <2>3, <2>4 DEF IInv
  <1> QED
    BY <1>1, <1>2, <1>3 DEF Next

\* The inductive invariant of the gate and the tree it looks at
\* (release_gate.py 60-129).
THEOREM GateInvariant == Spec => []IInv
  BY InitIInv, NextKeepsIInv, PTL DEF Spec

\* Tree, index, wheel and what the gate remembers keep their types, whatever is
\* edited and generated.
THEOREM GateTypes == Spec => []TypeOK
  <1>1. IInv => TypeOK
    BY DEF IInv
  <1> QED
    BY <1>1, GateInvariant, PTL

\* A gate that passes undisturbed vouches for every generated part of the tree,
\* for the evaluation, the wheel and the index (release_gate.py 74-127).
THEOREM PassedGatesAreSound == Spec => []PassedGatesVouchForTheTree
  <1>1. IInv => PassedGatesVouchForTheTree
    <2> SUFFICES ASSUME IInv, gate = Passed, start # None
                 PROVE  /\ Consistent(tree) /\ Succeeded(tree.results) /\ tree = index
                        /\ dist = [cases |-> tree.builder, policy |-> tree.policy]
                        /\ \A s \in Scenarios : DecisionOf[tree.expected[s]] = Wanted[s]
      BY DEF PassedGatesVouchForTheTree
    <2>1. /\ Consistent(tree) /\ Succeeded(tree.results) /\ tree = index
          /\ dist = [cases |-> tree.builder, policy |-> tree.policy]
      BY DEF IInv, GateInv, Consistent
    <2>2. tree.expected = Decided[dist.cases][dist.policy]
      BY <2>1 DEF Consistent
    <2>3. \A s \in Scenarios : DecisionOf[Decided[dist.cases][dist.policy][s]] = Wanted[s]
      BY DEF IInv, GateInv
    <2> QED
      BY <2>1, <2>2, <2>3
  <1> QED
    BY <1>1, GateInvariant, PTL

\* An undisturbed check leaves the tree as it found it, but for an answer key
\* that was missing (build_cases.py 213-219).
THEOREM ChecksOnlyRead == Spec => []ChecksLeaveTheTreeAlone
  <1>1. IInv => ChecksLeaveTheTreeAlone
    BY DEF IInv
  <1> QED
    BY <1>1, GateInvariant, PTL
=============================================================================
