--------------------------- MODULE DecisionSystem ----------------------------
(***************************************************************************)
(* The parts around the database put together: the terminals of            *)
(* DecisionRoom call create_run, issue_challenge and record_review of      *)
(* ReviewStore, statement by statement and under its lock, while the       *)
(* processes of Exports read what is committed.                            *)
(*                                                                         *)
(* A terminal's process is a client of the store: a command that calls the *)
(* store waits until the call returns, ends with an error if it fails, and *)
(* dies with it when the process is interrupted.                           *)
(*                                                                         *)
(* DecisionRoom and Exports take the database as the atomic one of         *)
(* ReviewProtocol.  Here it is the committed database of ReviewStore, and  *)
(* both are shown to be implemented.                                       *)
(***************************************************************************)
EXTENDS ReviewStore

CONSTANTS Outputs, Long, CandidateOf, NoDatabase, BadName, \* of DecisionRoom
          Exporters, Killable, Length, Linked              \* of Exports

VARIABLES case, output, step, job, own, told, settled, read, \* of DecisionRoom
          files, stage, turn, snapshot, seen, outcome,       \* of Exports,
          failed, alone, serial, reported                    \* stage is its step

room       == <<case, output, step, job, own, told, settled, read>>
exports    == <<files, stage, turn, snapshot, seen, outcome, failed, alone, serial, reported>>
systemVars == <<vars, room, exports>>

Desk == INSTANCE DecisionRoom WITH
    Terminals <- Clients, Actions <- ReviewActions, Times <- 0..MaxTime,
    bound <- db.runs, issued <- IssuedNonces(db),
    open <- OpenChallenges(db), closed <- Verdicts(db)

Shelf == INSTANCE ExportHistoryProofs WITH
    Actions <- ReviewActions, Times <- 0..MaxTime, step <- stage,
    bound <- db.runs, issued <- IssuedNonces(db),
    open <- OpenChallenges(db), closed <- Verdicts(db)

\* What DecisionRoom and Exports assume of their constants.
ConstantsFit ==
    /\ NoDatabase \notin RunIds /\ BadName \notin RunIds
    /\ Length \in [RunIds -> Nat]
    /\ Null \notin Digests \union RunIds
    /\ Null \notin Seq(Digests) /\ Null \notin Seq(Shelf!Snapshots)

SystemInit == Init /\ Desk!Init /\ Shelf!Init

-----------------------------------------------------------------------------
(* Commands *)

\* A step of a command that calls nothing of the store that writes.
Locally(t) ==
    /\ pc[t] = "idle" /\ UNCHANGED vars
    /\ \/ \E r \in Desk!Targets, o \in Outputs : Desk!StartDecide(t, r, o)
       \/ Desk!ReadCase(t) \/ Desk!OpenOutput(t) \/ Desk!WriteOutput(t)
       \/ job[t].run = BadName /\ Desk!CreateRun(t)
       \/ \E r \in RunIds : Desk!StartReviewInit(t, r)
       \/ Desk!LoadPacket(t)
       \/ Desk!StartValidate(t) \/ Desk!ReadCandidate(t) \/ Desk!ReadCaseAgain(t)
       \/ Desk!PrintAnswer(t) \/ Desk!Interrupt(t)

\* The calls: decide for its packet, review-init for the packet it has loaded,
\* review for a digest that the reviewer has read in a file.
CallsTheStore(t) ==
    /\ \/ /\ step[t] = "bind" /\ job[t].run \in RunIds
          /\ CallCreate(t)
          /\ call'[t].run_id = job[t].run /\ call'[t].decision_digest = job[t].packet
       \/ /\ step[t] = "issue"
          /\ CallIssue(t)
          /\ call'[t].run_id = job[t].run /\ call'[t].decision_digest = job[t].packet
       \/ /\ step[t] = "idle"
          /\ CallReview(t)
          /\ call'[t].decision_digest \in read[call'[t].reviewer]
    /\ UNCHANGED room

\* The call goes on, and nobody sees anything but what it commits.
GoesOn(t) ==
    /\ Step(t) /\ pc'[t] # "idle"
    /\ UNCHANGED room

\* The call raises, or the process is interrupted inside it.
Fails(t) ==
    /\ \/ pc[t] # "reply" /\ Step(t) /\ pc'[t] = "idle"
       \/ Crash(t)
    /\ Desk!End(t)
    /\ UNCHANGED <<case, output, told, settled, read>>

\* What the command of a terminal is about: review has its arguments in the call.
JobSeen(t) ==
    IF pc[t] = "reply" /\ call[t].op = "record_review"
    THEN [Desk!NoJob EXCEPT !.command = "review", !.run = call[t].run_id,
                            !.packet = call[t].decision_digest]
    ELSE job[t]

\* The call returns to its command, which prints the answer.
ReturnsToCommand(t) ==
    /\ Return(t)
    /\ job' = [job EXCEPT ![t] = JobSeen(t)]
    /\ Desk!Go(t, "print")
    /\ UNCHANGED <<case, output, own, told, settled, read>>

AtTerminal(t) ==
    \/ Locally(t) \/ CallsTheStore(t) \/ GoesOn(t) \/ Fails(t) \/ ReturnsToCommand(t)

-----------------------------------------------------------------------------
(* The system *)

\* The case is rebuilt, or somebody opens a file that decide wrote.
Around ==
    /\ UNCHANGED vars
    /\ \/ \E d \in Digests \union {Null} : Desk!Rebuild(d)
       \/ \E who \in Reviewers, o \in Outputs : Desk!ReadOutput(who, o)

Exported(p) ==
    /\ UNCHANGED <<vars, room>>
    /\ (\E r \in RunIds : Shelf!StartExport(p, r)) \/ Shelf!Export(p) \/ Shelf!Kill(p)

SystemNext ==
    \/ Tick /\ UNCHANGED <<room, exports>>
    \/ (\E t \in Clients : AtTerminal(t)) /\ UNCHANGED exports
    \/ Around /\ UNCHANGED exports
    \/ \E p \in Exporters : Exported(p)

System == SystemInit /\ [][SystemNext]_systemVars

-----------------------------------------------------------------------------
(* What the parts see of each other *)

\* To DecisionRoom a call of the store is one step, taken when it commits: from
\* then on the command has its answer to print.
RoomStep == [t \in Clients |-> IF pc[t] = "reply" THEN "print" ELSE step[t]]
RoomJob  == [t \in Clients |-> JobSeen(t)]

\* The step of the command that waits for a call, and what both are about.
Belongs(t) ==
    \/ /\ call[t].op = "create_run" /\ step[t] = "bind"
       /\ call[t].run_id = job[t].run /\ call[t].decision_digest = job[t].packet
    \/ /\ call[t].op = "issue_challenge" /\ step[t] = "issue"
       /\ call[t].run_id = job[t].run /\ call[t].decision_digest = job[t].packet
    \/ /\ call[t].op = "record_review" /\ step[t] = "idle"
       /\ call[t].decision_digest \in read[call[t].reviewer]

\* Every call has a command waiting for it, and a terminal without a command
\* remembers nothing.
CallInv ==
    \A t \in Clients :
        /\ pc[t] # "idle" => Belongs(t)
        /\ step[t] = "idle" => job[t] = Desk!NoJob /\ own[t] = FALSE
        /\ step[t] \in {"load", "issue"} => job[t].command = "review-init"

\* An export that was reported as reviewed rests on everything at once: the
\* ledger holds the run's creation for that packet and the review, the review
\* redeemed the last challenge of the run inside its window, its reviewer had
\* read that packet in a file, and whatever a command printed for the run was
\* that packet.
ReportsAreAccountable ==
    \A s \in reported :
        /\ InLedger(db.events, [run_id |-> s.run_id, decision_digest |-> s.packet])
        /\ \A a \in told : a.run_id = s.run_id => a.decision_digest = s.packet
        /\ s.review # Null =>
              /\ s.packet \in read[s.review.reviewer]
              /\ \E v \in db.reviews, ch \in db.challenges :
                    /\ Verdict(v) = s.review /\ v.run_id = s.run_id
                    /\ v.decision_digest = s.packet
                    /\ InLedger(db.events, ReviewFact(v))
                    /\ Redeems(v, ch) /\ IssuedLast(db.events, ch)
=============================================================================
