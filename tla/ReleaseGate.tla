----------------------------- MODULE ReleaseGate -----------------------------
(***************************************************************************)
(* The working tree of the repository, the scripts that generate parts of  *)
(* it from others (build_cases, generate_decisions, sync_package_assets,   *)
(* evaluate), and the release gate that runs them with --check, builds the *)
(* package, tries it and compares the tree with the git index.  A developer*)
(* edits the sources, runs the generators and stages the tree, also while  *)
(* the gate runs; generators and gate may be interrupted anywhere.         *)
(*                                                                         *)
(* Texts are abstracted to the version of the source they come from.  A    *)
(* directory that is missing or half written is Partial: it equals no text *)
(* a generator produces, and decide refuses a partial case (see            *)
(* DecisionService).                                                       *)
(***************************************************************************)
EXTENDS Naturals, Sequences

CONSTANTS Builders,  \* versions of the frozen cases, as written in build_cases.py
          Policies,  \* versions of policy/gates.json
          Scenarios, \* "pass", "blocked", "fail"
          Decisions,
          Decided,   \* Decided[b][p][s]: the decision packet of a scenario
          DecisionOf,\* the decision in a packet
          BuiltKey,  \* BuiltKey[b][s]: the answers build_cases.py holds
          Wanted,    \* Wanted[s]: the decisions the wheel is tried for
          Keys,      \* answer keys, also those somebody has edited
          Partial, Missing, None,
          MaxWork    \* bounds the developer's actions

ASSUME WorkAssumption == MaxWork \in Nat
\* An answer key is a mapping of scenarios; the builder's is not empty.
ASSUME KeyAssumption ==
    /\ BuiltKey \in [Builders -> Keys] /\ Missing \notin Keys
    /\ \A k \in Keys : DOMAIN k \subseteq Scenarios
    /\ \A b \in Builders : DOMAIN BuiltKey[b] # {}
ASSUME DecisionAssumption ==
    \A b \in Builders, p \in Policies, s \in Scenarios :
        DecisionOf[Decided[b][p][s]] \in Decisions

VARIABLES tree,  \* the working tree
          index, \* what is staged for the commit
          dist,  \* the wheel: the packaged cases and policy
          gate,  \* what the gate does next
          kept,  \* what build_cases --check remembers
          tool,  \* what the developer's generator still has to do
          work,  \* the developer's actions so far
          start  \* history: the tree when the gate began, None if disturbed since

developer == <<index, tool, work>>
vars      == <<tree, index, dist, gate, kept, tool, work, start>>

Passed == "passed"

Stages == {"idle", "cases", "compare", "verify", "decisions", "assets", "evaluation",
           "claims", "build", "smoke", "drift", Passed, "failed"}

-----------------------------------------------------------------------------
(* evaluate.py *)

\* Mutant: an answer key without a scenario agrees with everything.
EvaluatesAnyKey(t) == t.cases # Partial /\ t.key # Missing

\* The answer key is indexed by scenario; without a scenario the agreement is a
\* division by zero.
Evaluates(t) == t.cases # Partial /\ t.key # Missing /\ DOMAIN t.key # {}

\* Agreement scenario by scenario of the key, and the adversarial decisions.
Evaluation(t) ==
    LET decision == [s \in Scenarios |-> DecisionOf[Decided[t.cases][t.policy][s]]]
    IN  [agreement   |-> [s \in DOMAIN t.key |-> decision[s] = t.key[s]],
         adversarial |-> [s \in Scenarios \ {"pass"} |-> decision[s]]]

Succeeded(results) ==
    results # Partial /\ \A s \in DOMAIN results.agreement : results.agreement[s]

-----------------------------------------------------------------------------
(* The generators without --check, as the steps of each *)

Program ==
    [build_cases         |-> <<"clear cases", "write cases", "write key">>,
     generate_decisions  |-> <<"clear expected", "write expected">>,
     sync_package_assets |-> <<"clear package", "copy cases", "copy policy">>,
     evaluate            |-> <<"clear results", "write results">>]

Programs == {"build_cases", "generate_decisions", "sync_package_assets", "evaluate"}

ToolSteps == {"clear cases", "write cases", "write key", "clear expected", "write expected",
              "clear package", "copy cases", "copy policy", "clear results", "write results"}

\* The tree after a step that does not raise.
After(t, s) ==
    CASE s = "clear cases"    -> [t EXCEPT !.cases = Partial]
      [] s = "write cases"    -> [t EXCEPT !.cases = t.builder]
      [] s = "write key"      -> [t EXCEPT !.key = BuiltKey[t.builder]]
      [] s = "clear expected" -> [t EXCEPT !.expected = Partial]
      [] s = "write expected" -> [t EXCEPT !.expected = Decided[t.cases][t.policy]]
      [] s = "clear package"  -> [t EXCEPT !.package_cases = Partial, !.package_policy = Partial]
      [] s = "copy cases"     -> [t EXCEPT !.package_cases = t.cases]
      [] s = "copy policy"    -> [t EXCEPT !.package_policy = t.policy]
      [] s = "clear results"  -> [t EXCEPT !.results = Partial]
      [] s = "write results"  -> [t EXCEPT !.results = Evaluation(t)]

Raises(t, s) ==
    \/ s = "write expected" /\ t.cases = Partial
    \/ s = "write results" /\ ~Evaluates(t)

-----------------------------------------------------------------------------
Consistent(t) ==
    /\ t.cases = t.builder
    /\ t.expected = Decided[t.cases][t.policy]
    /\ t.package_cases = t.cases /\ t.package_policy = t.policy
    /\ Evaluates(t) /\ t.results = Evaluation(t)

\* The developer begins with a tree that was generated and committed.
Init ==
    /\ \E b \in Builders, p \in Policies :
          LET t == [builder |-> b, policy |-> p, key |-> BuiltKey[b], cases |-> b,
                    expected |-> Decided[b][p], package_cases |-> b, package_policy |-> p,
                    results |-> Partial]
          IN  tree = [t EXCEPT !.results = Evaluation(t)]
    /\ index = tree /\ start = None
    /\ dist = None /\ gate = "idle" /\ kept = None
    /\ tool = <<>> /\ work = 0

-----------------------------------------------------------------------------
(* The developer *)

Busy ==
    /\ work < MaxWork /\ work' = work + 1
    /\ start' = None
    /\ UNCHANGED <<dist, gate, kept>>

Edit ==
    /\ Busy
    /\ \/ \E b \in Builders : tree' = [tree EXCEPT !.builder = b]
       \/ \E p \in Policies : tree' = [tree EXCEPT !.policy = p]
       \/ \E k \in Keys \union {Missing} : tree' = [tree EXCEPT !.key = k]
    /\ UNCHANGED <<index, tool>>

\* git add
Stage ==
    /\ Busy
    /\ index' = tree
    /\ UNCHANGED <<tree, tool>>

RunTool(p) ==
    /\ Busy /\ tool = <<>>
    /\ tool' = Program[p]
    /\ UNCHANGED <<tree, index>>

ToolStep ==
    /\ tool # <<>>
    /\ IF Raises(tree, Head(tool))
       THEN tool' = <<>> /\ UNCHANGED tree
       ELSE tool' = Tail(tool) /\ tree' = After(tree, Head(tool))
    /\ start' = None
    /\ UNCHANGED <<index, dist, gate, kept, work>>

ToolDies ==
    /\ tool # <<>>
    /\ tool' = <<>>
    /\ start' = None
    /\ UNCHANGED <<tree, index, dist, gate, kept, work>>

-----------------------------------------------------------------------------
(* The gate *)

\* clean_generated removes the wheel.
GateStarts ==
    /\ gate \in {"idle", Passed, "failed"}
    /\ gate' = "cases"
    /\ dist' = None
    /\ start' = IF tool = <<>> THEN tree ELSE None
    /\ UNCHANGED <<tree, kept, developer>>

\* build_cases --check: build_into writes the cases to a temporary directory,
\* but the answer key to its place in the tree.
GenerateCases ==
    /\ gate = "cases"
    /\ kept' = [key |-> tree.key, cases |-> tree.builder]
    /\ tree' = [tree EXCEPT !.key = BuiltKey[tree.builder]]
    /\ gate' = "compare"
    /\ UNCHANGED <<dist, start, developer>>

\* Mutant: the comparison raises before the answer key is put back.
CompareFirst ==
    /\ gate = "compare"
    /\ tree' = IF kept.key # Missing /\ tree.cases = kept.cases
               THEN [tree EXCEPT !.key = kept.key] ELSE tree
    /\ gate' = IF tree.cases = kept.cases THEN "verify" ELSE "failed"
    /\ kept' = None
    /\ UNCHANGED <<dist, start, developer>>

\* A key that was there is put back; then the cases are compared, not the key.
CompareCases ==
    /\ gate = "compare"
    /\ tree' = IF kept.key # Missing THEN [tree EXCEPT !.key = kept.key] ELSE tree
    /\ gate' = IF tree.cases = kept.cases THEN "verify" ELSE "failed"
    /\ kept' = None
    /\ UNCHANGED <<dist, start, developer>>

\* One check of the list: the next one follows, or the gate stops.
Check(name, ok, next) ==
    /\ gate = name
    /\ gate' = IF ok THEN next ELSE "failed"
    /\ UNCHANGED <<tree, dist, kept, start, developer>>

VerifyCases == Check("verify", tree.cases # Partial, "decisions")
CheckDecisions == Check("decisions",
                        tree.cases # Partial /\ tree.expected = Decided[tree.cases][tree.policy],
                        "assets")
CheckAssets    == Check("assets",
                        tree.package_cases = tree.cases /\ tree.package_policy = tree.policy,
                        "evaluation")

\* evaluate --check compares the bytes, whatever they say.
CheckEvaluation == Check("evaluation", Evaluates(tree) /\ tree.results = Evaluation(tree), "claims")

\* Mutant: the published results need only be there.
VerifyResultsExist == Check("claims", tree.results # Partial, "build")

VerifyPublicClaims == Check("claims", Succeeded(tree.results), "build")

\* python -m build packs what is in src/ by now.
BuildWheel ==
    /\ gate = "build"
    /\ dist' = [cases |-> tree.package_cases, policy |-> tree.package_policy]
    /\ gate' = "smoke"
    /\ UNCHANGED <<tree, kept, start, developer>>

SmokeWheel ==
    Check("smoke",
          /\ dist.cases # Partial /\ dist.policy # Partial
          /\ \A s \in Scenarios : DecisionOf[Decided[dist.cases][dist.policy][s]] = Wanted[s],
          "drift")

\* git diff --exit-code
NoDrift == Check("drift", tree = index, Passed)

GateDies ==
    /\ gate \notin {"idle", Passed, "failed"}
    /\ gate' = "idle" /\ kept' = None /\ start' = None
    /\ UNCHANGED <<tree, dist, developer>>

-----------------------------------------------------------------------------
Develop == Edit \/ Stage \/ (\E p \in Programs : RunTool(p)) \/ ToolStep \/ ToolDies

Gate ==
    \/ GateStarts \/ GenerateCases \/ CompareCases \/ VerifyCases \/ CheckDecisions
    \/ CheckAssets \/ CheckEvaluation \/ VerifyPublicClaims \/ BuildWheel \/ SmokeWheel
    \/ NoDrift \/ GateDies

Next == Develop \/ Gate

Spec == Init /\ [][Next]_vars

-----------------------------------------------------------------------------
Packets     == {Decided[b][p] : b \in Builders, p \in Policies}
Evaluations == [agreement   : UNION {[S -> BOOLEAN] : S \in (SUBSET Scenarios) \ {{}}},
                adversarial : [Scenarios \ {"pass"} -> Decisions]]
Trees == [builder : Builders, policy : Policies, key : Keys \union {Missing},
          cases : Builders \union {Partial}, expected : Packets \union {Partial},
          package_cases : Builders \union {Partial}, package_policy : Policies \union {Partial},
          results : Evaluations \union {Partial}]
Wheels == [cases : Builders \union {Partial}, policy : Policies \union {Partial}]

TypeOK ==
    /\ tree \in Trees /\ index \in Trees /\ start \in Trees \union {None}
    /\ dist \in Wheels \union {None}
    /\ kept \in [key : Keys \union {Missing}, cases : Builders] \union {None}
    /\ gate \in Stages
    /\ tool \in Seq(ToolSteps)
    /\ work \in 0..MaxWork

\* A gate that passes, and that nobody disturbed, vouches for the whole tree:
\* each generated part is that of its sources, the evaluation has succeeded,
\* the wheel holds the tree's cases and policy and decides them as announced,
\* and all of it is staged; whatever was edited, generated in the wrong order
\* or left half generated before (release_gate.py 74-127).
PassedGatesVouchForTheTree ==
    gate = Passed /\ start # None =>
        /\ Consistent(tree) /\ Succeeded(tree.results) /\ tree = index
        /\ dist = [cases |-> tree.builder, policy |-> tree.policy]
        /\ \A s \in Scenarios : DecisionOf[tree.expected[s]] = Wanted[s]

\* The checks read the tree and leave it as it was, but while build_cases
\* --check has its own answer key in the place of the tree's; a key that was
\* missing stays generated (build_cases.py 213-219).
ChecksLeaveTheTreeAlone ==
    start # None /\ gate # "compare" => start.key = Missing \/ tree = start

-----------------------------------------------------------------------------
(* The inductive invariant behind the safety properties *)

\* The stages at which a check has been passed.
PastDrift      == {Passed}
PastSmoke      == PastDrift \union {"drift"}
PastBuild      == PastSmoke \union {"smoke"}
PastClaims     == PastBuild \union {"build"}
PastEvaluation == PastClaims \union {"claims"}
PastAssets     == PastEvaluation \union {"evaluation"}
PastDecisions  == PastAssets \union {"assets"}
PastCases      == PastDecisions \union {"verify", "decisions"}

\* What build_cases --check remembers is there until it is put back.
KeptInv == gate = "compare" => kept \in [key : Keys \union {Missing}, cases : Builders]

\* While nobody disturbs the gate, what a check has found stays true.
GateInv ==
    start # None =>
        /\ gate = "cases" => tree = start
        /\ gate = "compare" => /\ kept = [key |-> start.key, cases |-> start.builder]
                               /\ tree = [start EXCEPT !.key = BuiltKey[start.builder]]
        /\ gate \in PastCases => tree.cases = tree.builder
        /\ gate \in PastDecisions => tree.expected = Decided[tree.cases][tree.policy]
        /\ gate \in PastAssets => /\ tree.package_cases = tree.cases
                                  /\ tree.package_policy = tree.policy
        /\ gate \in PastEvaluation => Evaluates(tree) /\ tree.results = Evaluation(tree)
        /\ gate \in PastClaims => Succeeded(tree.results)
        /\ gate \in PastBuild => dist = [cases |-> tree.package_cases,
                                         policy |-> tree.package_policy]
        /\ gate \in PastSmoke => \A s \in Scenarios :
              DecisionOf[Decided[dist.cases][dist.policy][s]] = Wanted[s]
        /\ gate \in PastDrift => tree = index

IInv == TypeOK /\ KeptInv /\ GateInv /\ ChecksLeaveTheTreeAlone
=============================================================================
