# A formal model of the go-live decision agent

The program under `src/src/go_live_decision_agent` turns a directory of release
evidence into a decision packet (FAIL, BLOCKED or PASS), binds the packet to a
digest, and collects one human review of it in a SQLite file with a hash-chained
ledger. This directory holds TLA+ modules of that program, TLC configurations
that check them on small instances, and proofs, checked by TLAPS, that the main
safety properties hold for every instance.

## The system

| Component (source) | State | Operations | What is hard |
|---|---|---|---|
| Review store (`store.py`, `review.py`) | SQLite tables runs, challenges, reviews, events; the write lock | `create_run`, `issue_challenge`, `record_review`, `verify_ledger`, `snapshot` | several processes, a wait for the lock, three tables written together, process death, a clock read before the lock |
| Gate engine (`engine.py`, `domain.py`) | none | `evaluate_case`, `verify_packet` | combinations of evidence defects and waivers, dates at the ends of windows, precedence |
| Case validation (`case_validation.py`) | none; reads a case directory | `validate_case` | files are hashed and then opened again while others write |
| Decision service (`service.py`, `adapters.py`) | policy and advisor of the service | `decide` | a kept note that answers for another packet |
| Case builder (`scripts/build_cases.py`) | the case directory, the answer key | `main`, `build_into`, `--check` | the directory is incomplete until the manifest is written; the check writes into the tree |
| Policy loading (`policy.py`) | none | `load_policy` | exact set of gates |
| Exports (`exporters.py`, `paths.py`) | three files per run | `snapshot`, `write_exports`, `verify_export_equivalence` | two reads of the database, three writes in place, other exports and reviews meanwhile, what one that was killed leaves behind |
| Command line (`cli.py`) | output files | `decide`, `review-init`, `review`, `validate`, `export`, `verify-ledger`, `demo` | a file is written before the database refuses; the case is read twice; interruptions and retries |
| Release scripts (`scripts/release_gate.py` and the scripts it runs) | generated parts of the tree, the wheel | generators, their `--check`, the gate | the order of generators, half-done ones, edits while the gate runs, a check that writes |
| Browser view (`ui.py`) | none | shows one decision | |
| Serialization, canonical JSON | none | digests, reading a packet back | |
| Scans, document generators | none | | |

`decide` reads a case directory that the builder (or a person) writes, and a
policy file; it returns a packet and a note. `cli.py` hands the packet to
`create_run`; from then on, processes meet only in the database: a challenge is
issued for the run, a reviewer redeems its nonce, an export reads both. Outside
the database they meet in files: a reviewer learns the digest to review from the
file `decide` wrote, and exports of one run write the same three files. The
release scripts work on the repository itself: cases are built from
`build_cases.py`, expected packets and evaluation results from the cases and the
policy, the packaged copies from both, and the gate checks all of it.

What makes the components correct: the decision is exactly the documented one
on what was read; what was read is what the manifest binds; a packet accounts
for all its evidence; a note speaks of its own packet; a run is bound to one
packet and closed by at most one review, given on its last challenge and in
time; the ledger only grows, verifies, and tells the same story as the tables;
what an export reports is a packet and a review that belong together; every
command that succeeds for a run speaks of its one packet; a gate that passes
vouches for the whole tree.

## Modules

| Module | What it is |
|---|---|
| `ReviewTables` | the tables, the rows of a request, the SQL statements and the ledger, as operators on a database value |
| `ReviewStore` | the store as processes that run transactions on a shared file; properties; inductive invariant; refinement mapping |
| `ReviewProtocol` | what the store promises, without transactions or callers: bind, issue, decide |
| `ReviewTablesProofs`, `ReviewStoreProofs` | lemmas on the tables; theorems on the store |
| `GateEngine` | `engine.py` and the part of `policy.py` it rests on, as operators, and the documents' definition of a decision (`DecisionFor`) |
| `CaseValidation` | what the manifest binds and which cases are admissible |
| `DecisionService` | `decide` step by step over a directory with a builder and an editor; properties; invariant |
| `DecisionServiceProofs` | theorems on the engine for every case; theorems on `decide` |
| `Exports` | the export command over the database of `ReviewProtocol` and a shared directory; properties; invariant |
| `DecisionRoom` | the other commands of `cli.py` over `ReviewProtocol`, the case, the output files and the reviewers who read them; properties; invariant |
| `ReleaseGate` | the working tree, the generators, the index and the gate; properties; invariant |
| `ExportsProofs`, `ExportHistoryProofs` | theorems on the exports: what holds of each process whatever the others do; what holds of a run by the history of its exports |
| `DecisionRoomProofs`, `ReleaseGateProofs` | theorems on the two |
| `DecisionSystem`, `DecisionSystemProofs` | store, commands and exports in one: the terminals call the transactional store, the exports read what it commits; theorems on the composition |
| `MCReviewStore`, `MCDecisionService`, `MCExports`, `MCDecisionRoom`, `MCReleaseGate`, `MCDecisionSystem` | instances for TLC |

`ReviewProtocol` is the joint: `ReviewStore` is shown, by TLC and by proof, to
implement it, and `Exports` and `DecisionRoom` take its variables and its actions
as their database (`Store == INSTANCE ReviewProtocol`), so that a command meets
the atomic operations that the transactions of the store amount to. That this
is sound when all run at once is what `DecisionSystem` is for: there the same
terminals and exports run over `ReviewStore` itself, and are shown to implement
`DecisionRoom` and `Exports`.

### Review store: state and actions

`db` is the committed database, `lock` the holder of SQLite's write lock, `tx`
the working copy of the holder. A call of client `c` is a walk of `pc[c]`:
`StartCall` checks the arguments (`who # Blank`, the lifetime between `MinTtl`
and `MaxTtl`) and captures the clock, as `store.py` does before it connects;
`Begin` is BEGIN IMMEDIATE; one action per statement follows (`SelectFor...`,
`Supersede`, `...Inserted`, `ChallengeConsumed`, `EventAppended`), then
`Commit`, then `Return` to the caller. A guard that fails (`Refuse`), a nonce
that is already a primary key (`NonceConflict`), a busy handler that gives up
(`BusyTimeout`) and a process that stops (`Crash`) all end in `Abandon`: the
connection closes and the working copy is lost. A reviewer may hold any nonce
that was committed, or one that never was.

Left out of the data: packet contents (a packet is its digest), `created_at`,
comments, and the construction of the schema. A hash is a free constructor, so
equal hashes mean equal histories; this is the usual assumption on SHA-256. The
clock is shared and does not run backwards.

### Decision service: state and actions

`disk` maps the three case files and the manifest to contents, `Null` for a
file that is missing or cut short. The builder removes the files one by one
(`Remove`, rmtree), writes candidate, evidence and waivers (`Write`), seals
them with the manifest (`Seal`), and may die anywhere (`BuilderDies`). `Edit`
is external: somebody overwrites one file in place. `decide` is
`StartDecide`, `ReadManifest`, one `CheckFile` per file, one `ReadFile` per file
(the last with the checks of `validate_case`), and `Conclude` (`load_policy`,
`evaluate_case`, `verify_packet`, `advise`, `verify_advice`: nothing another
process could change is read between them, except the policy file, which stays
fixed in the model). The checks are taken in any order, the code's is the
manifest's. Its result is `decided`, with the decision added to the history
variable `emitted`, or `rejected` (a `GoLiveDecisionError`, exit code 2).

A candidate is one value for its identifier and version; an item's field,
enumeration and digest checks are the Boolean `intact`; texts are left out. An
evidence file is a set, so the same item twice is not represented, while two
different items with one identifier are.

### Exports: state and actions

A process `p` that exports goes through `step[p]`: `StartExport` is
`validate_identifier`; `ReadPacket` and `ReadReview` are the two queries of
`snapshot`, each on a connection of its own, with any number of store steps
between them, `ReadReview` followed by the three calls of `safe_child`, which
refuse a file name of more than 80 characters; `OpenFile` and `WriteFile`, three
times in the order of `Order`, are the halves of `write_text`; `VerifyJson`,
`VerifyMarkdown`, `VerifyHtml` and `VerifyLinks` are the four reads of
`verify_export_equivalence`. The command ends `exported` (exit code 0),
`refused` (a `GoLiveDecisionError`, exit code 2) or `raised` (an exception that
`main` does not catch: a text that is no JSON, a first line that is not there).
`Kill` is external.

A text is a sequence of blocks, each naming the snapshot it is part of. The text
of a reviewed snapshot is longer than that of a draft, in every format, so it has
two blocks. Opening empties the file; the text then goes to its beginning in one
call and over whatever is there by then, so a shorter text may leave the end of
a longer one standing (`Overwrite`). JSON parses only if it is exactly one
document; the digests of Markdown and HTML are read from the first marker
(`Mark`). Besides the link in a reviewer's comment, a packet may hold one, in an
evidence identifier, whose characters the code does not restrict (`Linked`).
`failed`, `alone`, `serial` and `reported` are history variables that no action reads
but to keep them.

### Commands: state and actions

A terminal `t` runs one command at a time: `decide` (`StartDecide`, `ReadCase`,
`OpenOutput`, `WriteOutput`, `CreateRun`), `review-init` (`StartReviewInit`,
`LoadPacket`, `IssueChallenge`), `review` (`Review`, a single transaction) and
`validate` (`StartValidate`, `ReadCandidate`, `ReadCaseAgain`), each ended by
`PrintAnswer`, by an error (`End`, exit code 2) or by `Interrupt`, which is
external, as are `Rebuild` (the case changes or is left in pieces) and
`ReadOutput` (a reviewer opens a file). The order of the code is kept: the output
file is written before `--run-id` is checked and before the run is created.
`CreateRun` binds a new run, accepts an existing one with the same packet and
refuses it with another. A reviewer types the digest of a packet seen in a file,
of any decide, also of one that was refused.

What `decide` does while the case changes under it is `DecisionService`'s
subject; here it reads the case at one moment. A packet's text has one block, or
two if it is in `Long`, and is written as in `Exports`. Every record a command
needs is in `job[t]`. `told`, `settled` and `read` are history variables, `own`
says whether anything interfered with the command so far.

### Composition: state and actions

`DecisionSystem` has the variables of `ReviewStore`, `DecisionRoom` and `Exports`,
the terminals being the store's clients. A step of a command that does not write to the
database is the action of `DecisionRoom` (`Locally`). The three calls are made
where `cli.py` makes them (`CallsTheStore`): `decide` at `cli.py:105` for the packet
it has just written, `review-init` at `cli.py:119` for the packet it has loaded,
`review` at `cli.py:130` for a digest its reviewer has read in a file. The
command then waits while the transaction takes its statements (`GoesOn`), ends
with an error if the call raises or the process is interrupted inside it
(`Fails`), and prints the answer once the call returns (`ReturnsToCommand`). The
exports and the surroundings are as in their modules (`Exported`, `Around`); both
read `db`, the committed database.

`RoomStep` and `RoomJob` say how such a behaviour looks to `DecisionRoom`: a call
is one step, taken at its COMMIT, from which on the command has its answer. A
call that fails, or an interruption before the COMMIT, is an `Interrupt` or a
refusal there; an interruption between the COMMIT and the answer is an
`Interrupt` of a command that has its answer and has not printed it.

### Release gate: state and actions

`tree` holds, for every source and every generated part, the version it was made
from: the builder, the policy, the answer key, the cases, the expected packets,
the packaged cases and policy, the evaluation results; `Partial` is a part that
is missing or half written. A developer edits a source (`Edit`), stages the tree
(`Stage`, git add) and runs a generator (`RunTool`), whose steps (`Program`) are
taken one at a time (`ToolStep`) and which may raise or die (`ToolDies`). The
gate takes the checks in the order of `release_gate.py`, one action each;
`build_cases --check` is two, since it writes the builder's answer key into the
tree (`GenerateCases`) and puts the old one back after it has built the cases
elsewhere (`CompareCases`). `BuildWheel` packs the packaged copies, `SmokeWheel`
decides the three scenarios from the wheel, `NoDrift` compares tree and index.
`start` is the tree when the gate began, or `None` once anybody else has moved.

Left out of the gate: checks that compare nothing of the above (contracts,
pictures, scans, links, linters, types, tests, audits, `twine`, `check_dist`) and
the sentences of the README that `verify_public_claims` looks for. The evaluation
is the agreement with the key and the three adversarial decisions; the rates of
traced gates and the search of the sources for the key are left out.

## Runs

| Run | Instance | What it shows |
|---|---|---|
| `store` | 2 processes, 1 run, 2 packets, 2 nonces, clock 0..2, lifetime 1 | all safety of the store, that the last event hash determines ledger and tables, the inductive invariant, and refinement of `ReviewProtocol` |
| `store_live` | 2 processes, 1 run, 1 nonce | every transaction frees the lock, every call returns |
| `store_expiry` | 2 processes, 1 nonce | counterexample: an expired nonce is accepted |
| `engine` | 2 gates (one waivable), 105 evidence files, 13 waiver files, 2 policies | the decision, the effect of waivers, `verify_packet` |
| `decide` | 2 builds, 1 edit, 2 decisions, 2 candidates, 2 evidence and 2 waiver files | races of `decide` with the writers, advice, the invariant |
| `fail_evidence`, `digest`, `manifest` | small | counterexamples to sentences of the documents |
| `exports` | 2 processes, 2 runs (identifiers of 75 and 76 characters), 1 packet, 1 nonce, 2 reviewers, one of them with a link, kills | whatever overlaps and dies, what is reported was committed; overlapping exports that all succeed leave one digest; exports one after the other leave whole and current files |
| `exports_mixed` | 2 processes, 1 run, no kills | counterexample: two exports succeed and leave a file with the end of another snapshot |
| `decision_room` | 2 terminals, 2 runs, 2 packets of 2 candidates, 1 output file, 1 nonce, 1 reviewer | races, retries and interruptions of the commands, and what reviewers read |
| `release_gate` | 2 builders, 2 policies, 4 answer keys, 3 scenarios, 5 actions of the developer | what a passed gate vouches for, and that the checks leave the tree alone |

`MCDecisionSystem` is an instance of the composition to be run by hand (one
terminal, one export, one of everything; 720120 distinct states, a few minutes);
it checks `CallInv`, `ReportsAreAccountable` and the two refinements. It is small, and
what the composition rests on is its proof.

That the store keeps several runs apart is not a run of its own: `store` has one
run, and the theorems, which hold for any set of runs, cover the rest.

Why the bounds are enough for the cases of interest: two processes suffice for
a write between another's clock reading and its lock; two nonces let one
challenge supersede another, be reused as a primary key and be redeemed late;
two packets let two processes fight for a run; with lifetime 1 and clock up to 2
a challenge is redeemable at its first and last instant and expired at the next.
Lifetimes 0 and 2 are asked for and refused. In `engine`, each evidence
defect occurs alone, with another defect, beside a second item, and with every
kind of waiver (none, one, the same one twice, expired, not yet valid, signed by
another, for another candidate, proposed, undated, inverted, tampered, for a
non-waivable or an unknown gate); the second gate is there for precedence. Two
builds and one edit put every file boundary of one rebuild inside `decide`. In
`exports`, two processes suffice because a file is disturbed by one other writer;
each may export again and again, so that what one killed export leaves behind
meets the next, and the review may come at any of the points between; 75 and 76
characters are the two sides of the limit. In `decision_room`, two terminals
fight for a run with two packets or retry the same one, and both write the one
output file, the shorter text over the longer and the other way round. In `release_gate`, the second builder and the
second policy each turn the blocked case into a passing one, so that key, results
and wheel can all be wrong; five actions are an edit, three generators run
and a staging, in any order and around the gate. The bounds (`MaxTime`,
`MaxBuilds`, `MaxEdits`, `MaxDecisions`, `MaxWork`) are only guards of `Tick`,
`StartBuild`, `Edit`, `StartDecide` and the developer's actions. Deadlock is
checked everywhere but in the decision runs, which end when their bounds are
used up.

Symmetry is used for processes, nonces, packets and runs where the modules only
compare them (in `exports` and `decision_room` not for packets, whose texts
differ), and not where liveness is checked.

### Fairness

`FairSpec` assumes weak fairness of each process's own steps inside a call and
nothing of callers, of the clock, or of crashes. The code justifies it: the
statements of a transaction run one after the other without waiting, and the
only wait, BEGIN IMMEDIATE, is cut off by the busy handler after `timeout=10`
(`store.py:34`), which is `BusyTimeout`. So a waiting call may be starved of the
lock but comes back. `decide`, the exports and the release gate need no liveness
check: outside the database they wait for nobody.

### Sentences of the documents that the code does not bear out

- `security-controls.md:7` says expired nonces are rejected. `record_review`
  reads the clock before it waits for the lock (`store.py:206`), for up to ten
  seconds; what holds, and is proved, is that the time the review bears lies in
  the window.
- `decision-semantics.md:9` counts only current, valid failing evidence;
  `engine.py:122` fails a gate on any item that says FAIL.
- `ui.py:45` says any evidence change changes the digest; the packet holds the
  identifiers of its evidence, not the contents.
- `evidence-contract.md:13` says the manifest binds the files; the bytes that
  are hashed (`case_validation.py:58`) and the bytes that are decided on
  (`case_validation.py:115`) are read separately.
- `export-contract.md:3-4` says the three formats represent the same snapshot.
  The files are written in place (`exporters.py:139`), and the verification
  compares the first marker of the Markdown and the HTML only
  (`exporters.py:157`): two exports around a review, both with exit code 0, may
  leave a draft with the end of the reviewed text behind it. What holds is that
  the digest reported is that of a committed snapshot (proved), that overlapping
  exports that all succeed leave three files with one digest, and that exports
  that do not overlap leave whole and current files.

Four more show in the models without a run of their own. `decision-semantics.md:11-13`
lists evidence of the wrong candidate under BLOCKED; `case_validation.py:79` ends
with an error instead (`CaseAdmissible`). `exporters.py:166` speaks of an external
or active dependency; the test before it looks for `http://` anywhere, also in a
reviewer's comment, which is escaped text and final, so every later export of the
run is refused (`HasLink`, and exactly then, by `AloneExportsAreWhole`).
`review-command.schema.json` gives run identifiers no upper limit and `paths.py:9`
80 characters; an export needs them to be at most 75 (`PathsResolve`).
`evaluation-contract.md:7` promises agreement across the three scenarios;
`evaluate.py:62` goes by the key's own list, and `build_cases.py --check` puts the
key back without comparing it, so a gate may pass on a key without a scenario
(`Evaluates`, `CompareCases`).

## Proofs

All proofs are for arbitrary sets of runs, packets, nonces, clients, gates, file
contents and arbitrary bounds.

**Store.** The safety properties are not inductive: that the ledger matches the
tables after COMMIT depends on what the open transaction has done so far. `IInv`
adds that the lock holder is the one client inside a transaction (`LockInv`);
that the working copy at each stage is the committed database with exactly the
statements run so far, whose guards hold on the committed database (`StageInv`);
that captured clock readings are not in the future and that the nonce a reviewer
holds was issued before (`ClockInv`); and `WellFormed(db)`. Since no one else
commits while the lock is held, `Commit` is then one application of `Effect` to
`db`, and `ReviewTablesProofs` shows that `Effect` keeps each part of
`WellFormed`. `InductiveInvariant` follows, and from it the state theorems, the
two action properties (`LedgerIsAppendOnly`, `ReviewsAreFinal`) and
`StoreImplementsProtocol`: `Commit` maps to a step of `ReviewProtocol`, every
other action to a stutter (`StepsFollowTheProtocol`). Assumptions: the lifetimes are natural numbers in
order, `Null` is no nonce, no client and no number, the blank name is no
reviewer, reviewers' actions are the three of the code.

What the hash chain is worth is proved of any two ledgers, not only of reachable
ones. Two chains that verify and have one head are equal (`HeadFixesTheEvents`):
each hash covers the one before, so from the head backwards every event is the
same; the proof takes the least distance from the end at which they differ. The
tables are the replay of the ledger (`Replay`, part of `LedgerMatchesTables`),
although no event is written for superseding and consuming a challenge or for
the nonce of a review. So two databases the store could have written whose
ledgers end in one hash are one database (`HeadFixesTheDatabase`,
`HeadIdentifiesTheDatabase`), and a ledger with a payload exchanged, two events
swapped or one taken out, its links repaired, fails `verify_ledger` or ends in
another hash (`AlteredLedgersShow`). What
the code does not do with this: `verify_ledger` keeps no head to compare with, so
it accepts a ledger whose last events are gone, and it does not read the tables.

**Engine.** `EvaluateDecides` relates two different definitions: the code's, by
reasons and counts of applicable waivers, and the documents', by what evidence
and which waiver there is. The lemmas go gate by gate: no reasons is `Proven`,
only waivable reasons is `Uncertain`, one applicable waiver is `Waived`.
Assumptions: the case is typed (`CaseTyped`) and its evidence is bound to its
candidate, which `validate_case` ensures and `DecisionServiceProofs` proves of
every case that reaches the engine.

**decide.** `DecideInv` adds to the types what an undisturbed `decide` knows of
the directory (`ReadingInv`) and what stands behind each decision returned
(`EmittedInv`). The writers keep it because they either change nothing of the
disk or mark it disturbed. Assumptions: written files are typed and `Null` is
not a file (`PayloadAssumption`, `FileAssumption`).

`WaiversAreBounded` compares two evaluations of one case, with its
waivers and without: gate by gate, no applicable waiver means the same outcome,
one lifts the waivable reasons only, several add a reason.

Three theorems compare two cases. `GatesAreJudgedAlone`: a gate's outcome depends
on its own evidence and on the waivers that name it. `BetterEvidenceNeverHurts`: if every item is
replaced by one that is no worse (`NoWorse`: approved if it was, not failing if it
was not, observed no later, valid no shorter), the decision is no worse; a waiver
that is no longer needed does no harm. Adding an item is no such step: it may
contradict another. `DigestsOverlookExpiry` is the general form of the run `digest`:
items may expire on other days, on the same side of the assessment, and packet
and digest stay the same.

**Exports.** That a reported snapshot was committed is not inductive: it has to
be known of everything on the way. `CoreInv` says that runs are bound to one packet
and verdicts are about it (`StoreInv`), that what a process has read is committed
(`SnapshotInv`), that every block of every file and of every reading is a
committed snapshot (`FileInv`), and that files a process has opened are there, so
that no reading fails (`ProgressInv`). A committed snapshot stays committed since
the database only grows; `Overwrite` only combines blocks that were committed.
The two reads are harmless because a run keeps its packet. Assumptions:
identifiers have a length (`LengthAssumption`) and `Null` is none of the values it
stands against (`NullIsNothing`).

What the files of one run hold depends on the history of its exports, and `IInv`
adds three parts to `CoreInv`, one per property. `AloneInv`: nobody else exports
the run of a process that is alone, and the files it has written and read so far
are its own text (`Undisturbed`); a file left by a killed export is emptied
before it is written, so its length does not matter. `SerialInv`: while the
exports of a run never overlapped each is alone, and once a reviewed snapshot was
reported, each that got past its second read has that snapshot, because the
verdict is final and unique (`InTurn`). `AgreeInv`: while no export of the run
has failed, the three files carry one digest, or some export has still to read
them and has not been written over where it has read (`Unconfirmed`). A step that
writes makes its process such a witness; the last witness stops being one only
when it has read a third file that agrees with the two before. A step concerns
one run (`ForOtherRuns`), so each action is looked at for its own process and
run only (`OneProcessSteps`).

**Commands.** `IInv` adds what a command knows at each step (`Knows`), what is in
a file that one decide alone is writing (`OutputInv`), and that an undisturbed
validate has its candidate from the case as it is (`ValidateInv`). The packet a
command prints for a run is bound to it, because runs keep their packet; a
verdict is about the digest its reviewer typed, because the challenge bears it.
Assumptions: the two targets that are no run are not runs, `Null` is no text.

**Composition.** `SystemInv` joins the three invariants, the commands' with
`RoomStep` and `RoomJob` for their steps, and `CallInv`: every call of the store has
a command waiting for it, about the same run and packet, and a terminal without a
command remembers nothing. `SystemRunsTheStore` says the commands are callers
`ReviewStore` allows; `SystemImplementsRoom` and `SystemImplementsExports` are the refinements, where
`Commit` gives `CreateRun`, `IssueChallenge` or `Review` and the exports see a step of
the protocol. From them every invariant proved of commands and exports over the
atomic database holds over transactions (`CommandsKeepTheirPromises`,
`ExportsKeepTheirPromises`), and `ReportsRestOnTheRecord` puts all three together: what an export
reported as reviewed is in the ledger, redeemed the last challenge of its run
inside its window, is about a packet its reviewer had read in a file, and
whatever a command printed for the run was that packet. No single module can
say this. The hypothesis `ConstantsFit` collects what `DecisionRoom` and `Exports`
assume of their constants (the two targets that are no run are no runs,
identifiers have a length, `Null` is none of the values it stands against); the
instance for TLC satisfies it.

**Release gate.** `GateInv` lists, stage by stage, what the checks passed so far
have found, and that it holds as long as nobody else moves; the actions of the
developer and of generators set `start` to `None`. Assumptions: keys map
scenarios, the builder's key is not empty, packets have a decision, and `MaxWork`
is a number.

**Only model-checked.** Liveness and fairness of the store (`LockIsReleased`,
`EveryCallReturns`), which TLAPS does not reach, and the counterexamples. Every
invariant and every action property the passing runs check is proved.

## Plan

Done: the store, its protocol, its hash chain and proofs; engine, validation,
`decide` and their proofs, with monotonicity in the evidence; the exports; the
commands; the release gate; the proofs on each; the composition of store,
commands and exports and its proofs. Left:

1. The digest determines the packet of a reviewed run, from the run's creation
   to its export: reading a stored packet back (`serialization.py`).
2. The composition with `DecisionService`: `decide` in `DecisionRoom` reads the case
   at one moment.

## Not modelled

The browser view, text scans, link checks, generators of schemas and pictures,
`ci_gate.py` and `check_dist.py`: they keep no state and decide nothing that
another part relies on. `demo` writes one file from the packaged cases and
`verify-ledger` only reads, once each; their cores (`decide`, `verify_ledger`)
are in `DecisionService` and `ReviewTables`. SQLite's own recovery is taken as
atomic. Symbolic links and the characters of identifiers are left out, and so is
the creation of the tables, which every command repeats without effect.
