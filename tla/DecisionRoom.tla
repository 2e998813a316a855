---------------------------- MODULE DecisionRoom ----------------------------
(***************************************************************************)
(* The commands of cli.py that decide, challenge, review and validate, run *)
(* at several terminals over one database, one case directory and the      *)
(* files decide writes.  A terminal may be interrupted between any two     *)
(* steps; the case may be rebuilt and the files read at any time.          *)
(*                                                                         *)
(* The database is the one of ReviewProtocol, which ReviewStore implements;*)
(* what decide does with a directory that changes while it reads it is in  *)
(* DecisionService, here it reads the case at one moment; the export       *)
(* command, which changes neither case nor database, is in Exports.        *)
(***************************************************************************)
EXTENDS Naturals, Sequences

CONSTANTS RunIds, Digests, Nonces, Reviewers, Actions, Times, MinTtl, MaxTtl,
          Terminals,
          Outputs,     \* the paths given as --output
          Long,        \* the packets whose text is longer than the others'
          CandidateOf, \* the candidate each packet speaks of
          NoDatabase,  \* decide without --db
          BadName,     \* decide with --db and a missing or malformed --run-id
          Null         \* no packet, no file

ASSUME TargetAssumption == NoDatabase \notin RunIds /\ BadName \notin RunIds
\* A file that is not there is no text.
ASSUME NullAssumption == Null \notin Seq(Digests)

VARIABLES bound, issued, open, closed, \* the database
          case,      \* the packet decide computes from the directory, or Null
          output,    \* output[o]: the text of the file
          step,      \* step[t]: what the command at terminal t does next
          job,       \* job[t]: its arguments and what it has learnt so far
          own,       \* own[t]: nobody interfered with what it reads and writes
          told,      \* history: the packets that commands printed for a run
          settled,   \* history: the run whose undisturbed decide wrote the file last
          read       \* history: the packets each reviewer has read in a file

store   == <<bound, issued, open, closed>>
process == <<step, job, own>>
history == <<told, settled, read>>
vars    == <<store, case, output, process, history>>

Store == INSTANCE ReviewProtocol

Targets  == RunIds \union {NoDatabase, BadName}
Steps    == {"idle", "read", "open", "write", "bind", "load", "issue", "first", "second",
             "print"}
Commands == {"decide", "review-init", "review", "validate"}

Jobs == [command : Commands, run : Targets, out : Outputs \union {Null},
         packet : Digests \union {Null},
         candidate : {CandidateOf[d] : d \in Digests} \union {Null}]

NoJob == [command |-> "decide", run |-> NoDatabase, out |-> Null, packet |-> Null,
          candidate |-> Null]

\* The text of a packet, and the packets a text shows: a shorter text over a
\* longer one leaves the end of the longer one standing.
Text(d)              == IF d \in Long THEN <<d, d>> ELSE <<d>>
Overwrite(old, text) == text \o SubSeq(old, Len(text) + 1, Len(old))
Shown(text)          == {text[i] : i \in DOMAIN text}

-----------------------------------------------------------------------------
Init ==
    /\ Store!Init
    /\ case = Null
    /\ output = [o \in Outputs |-> Null]
    /\ step = [t \in Terminals |-> "idle"]
    /\ job = [t \in Terminals |-> NoJob]
    /\ own = [t \in Terminals |-> FALSE]
    /\ told = {}
    /\ settled = [o \in Outputs |-> Null]
    /\ read = [who \in Reviewers |-> {}]

Go(t, to) == step' = [step EXCEPT ![t] = to]

\* The command has ended: with its answer and exit code 0, with an error and
\* exit code 2, or interrupted.
End(t) ==
    /\ Go(t, "idle")
    /\ job' = [job EXCEPT ![t] = NoJob]
    /\ own' = [own EXCEPT ![t] = FALSE]

Goes(t, to) == Go(t, to) /\ UNCHANGED <<job, own>>

Learn(t, packet, to) ==
    /\ job' = [job EXCEPT ![t].packet = packet]
    /\ Go(t, to)
    /\ UNCHANGED own

Writing(t, o) ==
    /\ step[t] \in {"read", "open", "write", "bind", "print"}
    /\ job[t].command = "decide" /\ job[t].out = o

-----------------------------------------------------------------------------
(* decide *)

StartDecide(t, r, o) ==
    /\ step[t] = "idle"
    /\ Go(t, "read")
    /\ job' = [job EXCEPT ![t] = [NoJob EXCEPT !.run = r, !.out = o]]
    /\ own' = [q \in Terminals |->
                 IF q = t THEN \A other \in Terminals \ {t} : ~Writing(other, o)
                 ELSE own[q] /\ ~Writing(q, o)]
    /\ settled' = [settled EXCEPT ![o] = Null]
    /\ UNCHANGED <<store, case, output, told, read>>

\* Mutant: a case that is not valid does not end the command.
ReadCaseUnchecked(t) ==
    /\ step[t] = "read"
    /\ Learn(t, case, "open")
    /\ UNCHANGED <<store, case, output, history>>

\* GoLiveDecisionService.decide
ReadCase(t) ==
    /\ step[t] = "read"
    /\ IF case = Null THEN End(t) ELSE Learn(t, case, "open")
    /\ UNCHANGED <<store, case, output, history>>

\* Mutant: the file keeps what it holds.
OpenForUpdate(t) ==
    /\ step[t] = "open"
    /\ output' = [output EXCEPT ![job[t].out] = IF @ = Null THEN <<>> ELSE @]
    /\ Goes(t, "write")
    /\ UNCHANGED <<store, case, history>>

\* _write_json: open(path, "w") empties the file,
OpenOutput(t) ==
    /\ step[t] = "open"
    /\ output' = [output EXCEPT ![job[t].out] = <<>>]
    /\ Goes(t, "write")
    /\ UNCHANGED <<store, case, history>>

\* and the text goes to its beginning in one call.
WriteOutput(t) ==
    /\ step[t] = "write"
    /\ output' = [output EXCEPT ![job[t].out] = Overwrite(@, Text(job[t].packet))]
    /\ Goes(t, IF job[t].run = NoDatabase THEN "print" ELSE "bind")
    /\ UNCHANGED <<store, case, history>>

\* Mutant: a run that exists is accepted with any packet.
CreateRunOnce(t) ==
    /\ step[t] = "bind"
    /\ LET r == job[t].run
       IN  \/ /\ r \in RunIds /\ Store!Bind(r, job[t].packet)
              /\ Goes(t, "print")
           \/ /\ \E b \in bound : b.run_id = r
              /\ Goes(t, "print") /\ UNCHANGED store
           \/ r = BadName /\ End(t) /\ UNCHANGED store
    /\ UNCHANGED <<case, output, history>>

\* The argument is checked, and the run created, after the file was written;
\* a run that exists is accepted with its own packet and refused with another.
CreateRun(t) ==
    /\ step[t] = "bind"
    /\ LET r == job[t].run
       IN  \/ /\ r \in RunIds /\ Store!Bind(r, job[t].packet)
              /\ Goes(t, "print")
           \/ \E b \in bound :
                /\ b.run_id = r
                /\ IF b.decision_digest = job[t].packet
                   THEN Goes(t, "print")
                   ELSE End(t)
                /\ UNCHANGED store
           \/ r = BadName /\ End(t) /\ UNCHANGED store
    /\ UNCHANGED <<case, output, history>>

-----------------------------------------------------------------------------
(* review-init *)

StartReviewInit(t, r) ==
    /\ step[t] = "idle"
    /\ Go(t, "load")
    /\ job' = [job EXCEPT ![t] = [NoJob EXCEPT !.command = "review-init", !.run = r]]
    /\ UNCHANGED <<store, case, output, own, history>>

LoadPacket(t) ==
    /\ step[t] = "load"
    /\ \/ \E b \in bound : b.run_id = job[t].run /\ Learn(t, b.decision_digest, "issue")
       \/ (\A b \in bound : b.run_id # job[t].run) /\ End(t)
    /\ UNCHANGED <<store, case, output, history>>

IssueChallenge(t) ==
    /\ step[t] = "issue"
    /\ LET b == [run_id |-> job[t].run, decision_digest |-> job[t].packet]
       IN  \/ /\ b \in bound
              /\ \E n \in Nonces, now \in Times, ttl \in MinTtl..MaxTtl :
                    Store!Issue(b, n, now, ttl)
              /\ Goes(t, "print")
           \/ /\ b \notin bound \/ Store!Closed(job[t].run)
              /\ End(t) /\ UNCHANGED store
    /\ UNCHANGED <<case, output, history>>

-----------------------------------------------------------------------------
(* review *)

\* Mutant: the digest is not compared.
RedeemsByNonce(o, r, d, n, now) ==
    o.nonce = n /\ o.run_id = r /\ ~Store!Closed(r) /\ now <= o.expires_at

\* record_review's conditions on the open challenge that the nonce names.
Redeems(o, r, d, n, now) ==
    /\ o.nonce = n /\ o.run_id = r /\ o.decision_digest = d
    /\ ~Store!Closed(r) /\ now <= o.expires_at

\* A reviewer types the digest of a packet read in a file, and a nonce.  A
\* review that is refused changes nothing.
Review(t, r, who, act, d, n, now) ==
    /\ step[t] = "idle"
    /\ \E o \in open :
          /\ Redeems(o, r, d, n, now)
          /\ Store!Decide(o, who, act, now)
    /\ job' = [job EXCEPT ![t] = [NoJob EXCEPT !.command = "review", !.run = r, !.packet = d]]
    /\ Go(t, "print")
    /\ UNCHANGED <<case, output, own, history>>

-----------------------------------------------------------------------------
(* validate *)

StartValidate(t) ==
    /\ step[t] = "idle"
    /\ Go(t, "first")
    /\ job' = [job EXCEPT ![t] = [NoJob EXCEPT !.command = "validate"]]
    /\ own' = [own EXCEPT ![t] = TRUE]
    /\ UNCHANGED <<store, case, output, history>>

\* validate_case, for the candidate,
ReadCandidate(t) ==
    /\ step[t] = "first"
    /\ IF case = Null THEN End(t)
       ELSE /\ job' = [job EXCEPT ![t].candidate = CandidateOf[case]]
            /\ Go(t, "second") /\ UNCHANGED own
    /\ UNCHANGED <<store, case, output, history>>

\* Mutant: a packet that was stored before may answer for the case.
ReadStoredPacket(t) ==
    /\ step[t] = "second"
    /\ \E d \in {case} \union {b.decision_digest : b \in bound} :
          IF d = Null THEN End(t) ELSE Learn(t, d, "print")
    /\ UNCHANGED <<store, case, output, history>>

\* and decide, which reads the case again.
ReadCaseAgain(t) ==
    /\ step[t] = "second"
    /\ IF case = Null THEN End(t) ELSE Learn(t, case, "print")
    /\ UNCHANGED <<store, case, output, history>>

-----------------------------------------------------------------------------
\* The answer on the standard output, and exit code 0.
PrintAnswer(t) ==
    /\ step[t] = "print"
    /\ LET j == job[t]
       IN  /\ told' = IF j.run \in RunIds
                      THEN told \union {[run_id |-> j.run, decision_digest |-> j.packet]}
                      ELSE told
           /\ settled' = IF j.command = "decide" /\ j.run \in RunIds /\ own[t]
                         THEN [settled EXCEPT ![j.out] = j.run]
                         ELSE settled
    /\ End(t)
    /\ UNCHANGED <<store, case, output, read>>

Interrupt(t) ==
    /\ step[t] # "idle"
    /\ End(t)
    /\ UNCHANGED <<store, case, output, history>>

\* The case is built anew, or left in pieces.
Rebuild(d) ==
    /\ d # case
    /\ case' = d
    /\ own' = [t \in Terminals |-> own[t] /\ job[t].command # "validate"]
    /\ UNCHANGED <<store, output, step, job, history>>

\* Somebody opens a file that decide has written.
ReadOutput(who, o) ==
    /\ output[o] # Null
    /\ read' = [read EXCEPT ![who] = @ \union Shown(output[o])]
    /\ UNCHANGED <<store, case, output, process, told, settled>>

Command(t) ==
    \/ \E r \in Targets, o \in Outputs : StartDecide(t, r, o)
    \/ ReadCase(t) \/ OpenOutput(t) \/ WriteOutput(t) \/ CreateRun(t)
    \/ \E r \in RunIds : StartReviewInit(t, r)
    \/ LoadPacket(t) \/ IssueChallenge(t)
    \/ \E r \in RunIds, who \in Reviewers, act \in Actions, n \in issued, now \in Times :
          \E d \in read[who] : Review(t, r, who, act, d, n, now)
    \/ StartValidate(t) \/ ReadCandidate(t) \/ ReadCaseAgain(t)
    \/ PrintAnswer(t) \/ Interrupt(t)

Next ==
    \/ \E t \in Terminals : Command(t)
    \/ \E d \in Digests \union {Null} : Rebuild(d)
    \/ \E who \in Reviewers, o \in Outputs : ReadOutput(who, o)

Spec == Init /\ [][Next]_vars

-----------------------------------------------------------------------------
TypeOK ==
    /\ bound \subseteq [run_id : RunIds, decision_digest : Digests]
    /\ case \in Digests \union {Null}
    /\ output \in [Outputs -> Seq(Digests) \union {Null}]
    /\ step \in [Terminals -> Steps]
    /\ job \in [Terminals -> Jobs]
    /\ own \in [Terminals -> BOOLEAN]
    /\ told \subseteq [run_id : RunIds, decision_digest : Digests]
    /\ settled \in [Outputs -> RunIds \union {Null}]
    /\ read \in [Reviewers -> SUBSET Digests]

\* All that decide, review-init and review ever print with exit code 0 about a
\* run speaks of the one packet the database holds for it, whatever is rebuilt,
\* raced for, interrupted and tried again (cli.py 105, store.py 118-123).
RunsTellOneStory ==
    \A a \in told : \A b \in bound :
        /\ [run_id |-> a.run_id, decision_digest |-> a.decision_digest] \in bound
        /\ b.run_id = a.run_id => b.decision_digest = a.decision_digest

\* A verdict is about a packet its reviewer has read, although the file that a
\* decide leaves may hold a packet the database has refused (cli.py 100-105):
\* "a review command is bound to the ... decision digest" (review-protocol.md 3).
VerdictsAreOfPacketsRead == \A v \in closed : v.decision_digest \in read[v.reviewer]

\* Once a decide has bound a run and printed its answer, and no other decide
\* has used its output file since it started, the file holds the run's packet
\* and nothing else, whatever earlier decides left there (cli.py 65-67, 100).
SettledOutputsMatchTheRun ==
    \A o \in Outputs : settled[o] # Null =>
        \E b \in bound : b.run_id = settled[o] /\ output[o] = Text(b.decision_digest)

\* A validate during which the case is not rebuilt prints the candidate and the
\* digest of one case, although it reads the case twice (cli.py 74-76).
UndisturbedValidationsAgree ==
    \A t \in Terminals :
        step[t] = "print" /\ job[t].command = "validate" /\ own[t]
        => job[t].candidate = CandidateOf[job[t].packet]

-----------------------------------------------------------------------------
(* The inductive invariant behind the safety properties *)

\* A run is bound to one packet, and challenges are about it.
StoreInv ==
    /\ \A b, c \in bound : b.run_id = c.run_id => b = c
    /\ \A o \in open : [run_id |-> o.run_id, decision_digest |-> o.decision_digest] \in bound

\* What a command knows at each of its steps.
Knows(t) ==
    /\ step[t] \in {"read", "open", "write", "bind"} => job[t].command = "decide"
    /\ step[t] \in {"load", "issue"} => job[t].command = "review-init"
    /\ step[t] \in {"first", "second"} => job[t].command = "validate"
    /\ step[t] # "idle" /\ job[t].command = "decide" => job[t].out \in Outputs
    /\ job[t].command = "validate" => job[t].run = NoDatabase
    /\ step[t] \in {"load", "issue"} => job[t].run \in RunIds
    /\ step[t] \in {"open", "write", "bind"} => job[t].packet \in Digests
    /\ step[t] \in {"issue", "print"} /\ job[t].run \in RunIds =>
          [run_id |-> job[t].run, decision_digest |-> job[t].packet] \in bound

JobInv == \A t \in Terminals : Knows(t)

\* A file being written is there; one that a single decide writes holds what
\* that decide has put there; a settled one has no writer.
OutputInv ==
    /\ \A t \in Terminals : step[t] = "write" => output[job[t].out] # Null
    /\ \A t \in Terminals, o \in Outputs :
          Writing(t, o) /\ own[t] =>
              /\ \A other \in Terminals \ {t} : ~Writing(other, o)
              /\ step[t] = "write" => output[o] = <<>>
              /\ step[t] \in {"bind", "print"} => output[o] = Text(job[t].packet)
    /\ \A o \in Outputs : settled[o] # Null => \A t \in Terminals : ~Writing(t, o)

\* An undisturbed validate has taken the candidate from the case as it is.
ValidateInv ==
    \A t \in Terminals :
        step[t] = "second" /\ own[t] => job[t].candidate = CandidateOf[case]

IInv ==
    /\ TypeOK /\ StoreInv /\ JobInv /\ OutputInv /\ ValidateInv
    /\ told \subseteq bound
    /\ VerdictsAreOfPacketsRead /\ SettledOutputsMatchTheRun /\ UndisturbedValidationsAgree
=============================================================================
