------------------------ MODULE DecisionSystemProofs -------------------------
(***************************************************************************)
(* Theorems about DecisionSystem: the commands over the transactional      *)
(* store implement DecisionRoom, the exports beside them implement Exports,*)
(* and so what is proved of each holds of the whole.                       *)
(*                                                                         *)
(* A call of the store maps to one step of DecisionRoom, its commit: before*)
(* it nothing of the call is visible, after it the command is about to     *)
(* print.  A call that fails, or is interrupted, maps to an interruption of*)
(* its command.                                                            *)
(***************************************************************************)
EXTENDS DecisionSystem, ReviewStoreProofs

Room == INSTANCE DecisionRoomProofs WITH
    Terminals <- Clients, Actions <- ReviewActions, Times <- 0..MaxTime,
    bound <- db.runs, issued <- IssuedNonces(db),
    open <- OpenChallenges(db), closed <- Verdicts(db),
    step <- RoomStep, job <- RoomJob

\* What the database shows to the others.
Shown == <<db.runs, IssuedNonces(db), OpenChallenges(db), Verdicts(db)>>

USE NullAssumption DEF Stages

-----------------------------------------------------------------------------
(* The store *)

\* In every step of the system the store takes a step of its own, or none.
LEMMA StoreStepsOrRests == [SystemNext]_systemVars => [Next]_vars
  <1> SUFFICES ASSUME [SystemNext]_systemVars PROVE [Next]_vars
    OBVIOUS
  <1>1. ASSUME NEW t \in Clients, AtTerminal(t) PROVE [Next]_vars
    <2>1. CASE Locally(t)
      BY <2>1 DEF Locally
    <2>2. CASE CallsTheStore(t)
      BY <2>2 DEF CallsTheStore, Next, Call
    <2>3. CASE GoesOn(t)
      BY <2>3 DEF GoesOn, Next
    <2>4. CASE Fails(t)
      BY <2>4 DEF Fails, Next
    <2>5. CASE ReturnsToCommand(t)
      BY <2>5 DEF ReturnsToCommand, Next, Step
    <2> QED
      BY <1>1, <2>1, <2>2, <2>3, <2>4, <2>5 DEF AtTerminal
  <1> QED
    BY <1>1 DEF SystemNext, Next, Around, Exported, systemVars

\* The store inside the system is ReviewStore: its invariants and theorems hold
\* of the database the commands and the exports share.
THEOREM SystemRunsTheStore == System => Spec
  BY StoreStepsOrRests, PTL DEF System, SystemInit, Spec

LEMMA SystemKeepsIInv == IInv /\ [SystemNext]_systemVars => IInv'
  BY StoreStepsOrRests, NextKeepsIInv

\* A step of a call that is not its commit shows nothing to the others.
LEMMA UnseenSteps ==
    ASSUME IInv, NEW t \in Clients, Step(t), ~Commit(t), pc[t] # "reply"
    PROVE  /\ db' = db
           /\ \A c \in Clients : (pc'[c] = "reply") <=> (pc[c] = "reply")
           /\ \A c \in Clients : c # t => pc'[c] = pc[c] /\ call'[c] = call[c]
           /\ pc[t] # "idle"
           /\ pc'[t] # "idle" => call' = call
           /\ pc' \in [Clients -> Stages]
  <1>0. pc \in [Clients -> Stages] /\ call \in [Clients -> Requests \union {NoCall}]
    BY DEF IInv, TypeOK
  <1>1. CASE Begin(t)
    BY <1>0, <1>1 DEF Begin
  <1>2. CASE BusyTimeout(t) \/ Refuse(t) \/ NonceConflict(t)
    BY <1>0, <1>2 DEF BusyTimeout, Refuse, NonceConflict, Abandon
  <1>3. ASSUME NEW from \in Stages \ {"idle", "reply"}, NEW to \in Stages \ {"idle", "reply"},
               NEW copy, Statement(t, from, to, copy)
        PROVE  /\ db' = db /\ call' = call /\ pc[t] # "idle"
               /\ pc' \in [Clients -> Stages]
               /\ \A c \in Clients : (pc'[c] = "reply") <=> (pc[c] = "reply")
               /\ \A c \in Clients : c # t => pc'[c] = pc[c]
    BY <1>0, <1>3 DEF Statement
  <1>4. CASE SelectForCreate(t) \/ SelectForIssue(t) \/ SelectForReview(t) \/ Supersede(t)
    BY <1>3, <1>4 DEF SelectForCreate, SelectForIssue, SelectForReview, Supersede
  <1>5. CASE \/ RunInserted(t) \/ ChallengeInserted(t) \/ ReviewInserted(t)
             \/ ChallengeConsumed(t) \/ EventAppended(t)
    BY <1>3, <1>5 DEF RunInserted, ChallengeInserted, ReviewInserted, ChallengeConsumed,
         EventAppended
  <1>6. ~Return(t)
    BY DEF Return
  <1> QED
    BY <1>1, <1>2, <1>3, <1>4, <1>5, <1>6 DEF Step

-----------------------------------------------------------------------------
(* Commands and their calls *)

Domains ==
    /\ DOMAIN step = Clients /\ DOMAIN job = Clients /\ own = [t \in Clients |-> own[t]]
    /\ DOMAIN read = Reviewers
    /\ \A t \in Clients : DOMAIN job[t] = DOMAIN Desk!NoJob

SystemInv == IInv /\ CallInv /\ Domains

\* A step at terminal t leaves the other terminals alone, except that a decide
\* may find others in its way, and a command that has ended leaves nothing.
Orderly(t) ==
    /\ Domains'
    /\ \A q \in Clients \ {t} : /\ step'[q] = step[q] /\ job'[q] = job[q]
                                /\ own[q] = FALSE => own'[q] = FALSE
    /\ step'[t] = "idle" => job'[t] = Desk!NoJob /\ own'[t] = FALSE
    /\ step'[t] \in {"load", "issue"} => job'[t].command = "review-init"
    /\ read' = read

LEMMA EndIsOrderly ==
    ASSUME Domains, NEW t \in Clients, Desk!End(t), read' = read
    PROVE  Orderly(t) /\ step'[t] = "idle"
  BY DEF Domains, Orderly, Desk!End, Desk!Go

LEMMA LocalStepsAreOrderly ==
    ASSUME Domains, CallInv, NEW t \in Clients, Locally(t)
    PROVE  Orderly(t)
  <1> USE DEF Desk!NoJob, Domains, Orderly, Desk!Go, Desk!Goes, Desk!Learn, Desk!history, Desk!store
  <1>1. ASSUME NEW r, NEW o, Desk!StartDecide(t, r, o) PROVE Orderly(t)
    BY <1>1 DEF Desk!StartDecide
  <1>2. CASE Desk!ReadCase(t)
    BY <1>2, EndIsOrderly DEF Desk!ReadCase
  <1>3. CASE Desk!OpenOutput(t) \/ Desk!WriteOutput(t)
    BY <1>3 DEF Desk!OpenOutput, Desk!WriteOutput
  <1>4. CASE Desk!CreateRun(t)
    BY <1>4, EndIsOrderly DEF Desk!CreateRun
  <1>5. ASSUME NEW r, Desk!StartReviewInit(t, r) PROVE Orderly(t)
    BY <1>5 DEF Desk!StartReviewInit
  <1>6. CASE Desk!LoadPacket(t)
    BY <1>6, EndIsOrderly DEF Desk!LoadPacket, CallInv
  <1>7. CASE Desk!StartValidate(t)
    BY <1>7 DEF Desk!StartValidate
  <1>8. CASE Desk!ReadCandidate(t) \/ Desk!ReadCaseAgain(t)
    BY <1>8, EndIsOrderly DEF Desk!ReadCandidate, Desk!ReadCaseAgain
  <1>9. CASE Desk!PrintAnswer(t) \/ Desk!Interrupt(t)
    BY <1>9, EndIsOrderly DEF Desk!PrintAnswer, Desk!Interrupt
  <1> QED
    BY <1>1, <1>2, <1>3, <1>4, <1>5, <1>6, <1>7, <1>8, <1>9 DEF Locally
\* The calls of the other terminals go on waiting as they did.
LEMMA OtherTerminals ==
    ASSUME SystemInv, NEW t \in Clients, Orderly(t),
           \A q \in Clients \ {t} : pc'[q] = pc[q] /\ call'[q] = call[q],
           pc'[t] # "idle" => Belongs(t)'
    PROVE  CallInv' /\ Domains'
  BY DEF SystemInv, CallInv, Belongs, Orderly

LEMMA UnchangedRoomIsOrderly ==
    ASSUME SystemInv, NEW t \in Clients, UNCHANGED room
    PROVE  Orderly(t)
  BY DEF SystemInv, CallInv, Domains, Orderly, room

LEMMA CallsKeepSystemInv ==
    ASSUME SystemInv, NEW t \in Clients, CallsTheStore(t)
    PROVE  CallInv' /\ Domains'
  <1>1. pc \in [Clients -> Stages] /\ call \in [Clients -> Requests \union {NoCall}]
    BY DEF SystemInv, IInv, TypeOK
  <1>2. Orderly(t)
    BY UnchangedRoomIsOrderly DEF CallsTheStore
  <1>3. \E q : StartCall(t, q)
    BY DEF CallsTheStore, CallCreate, CallIssue, CallReview
  <1>4. \A q \in Clients \ {t} : pc'[q] = pc[q] /\ call'[q] = call[q]
    BY <1>1, <1>3 DEF StartCall
  <1>5. Belongs(t)'
    <2>1. CASE step[t] = "bind" /\ CallCreate(t)
               /\ call'[t].run_id = job[t].run /\ call'[t].decision_digest = job[t].packet
      <3>1. call'[t].op = "create_run"
        BY <1>1, <2>1 DEF CallCreate, StartCall
      <3> QED
        BY <2>1, <3>1 DEF Belongs, CallsTheStore, room
    <2>2. CASE step[t] = "issue" /\ CallIssue(t)
               /\ call'[t].run_id = job[t].run /\ call'[t].decision_digest = job[t].packet
      <3>1. call'[t].op = "issue_challenge"
        BY <1>1, <2>2 DEF CallIssue, StartCall
      <3> QED
        BY <2>2, <3>1 DEF Belongs, CallsTheStore, room
    <2>3. CASE step[t] = "idle" /\ CallReview(t)
               /\ call'[t].decision_digest \in read[call'[t].reviewer]
      <3>1. call'[t].op = "record_review"
        BY <1>1, <2>3 DEF CallReview, StartCall
      <3> QED
        BY <2>3, <3>1 DEF Belongs, CallsTheStore, room
    <2> QED
      BY <2>1, <2>2, <2>3 DEF CallsTheStore
  <1> QED
    BY <1>2, <1>4, <1>5, OtherTerminals

\* COMMIT, seen from the other parts.
LEMMA CommitSeen ==
    ASSUME IInv, NEW t \in Clients, Commit(t)
    PROVE  /\ pc[t] = "commit" /\ pc' = [pc EXCEPT ![t] = "reply"] /\ call' = call
           /\ pc \in [Clients -> Stages]
  BY DEF Commit, IInv, TypeOK

\* A call that goes on: it shows nothing, or it commits.
LEMMA GoingOn ==
    ASSUME IInv, NEW t \in Clients, Step(t), pc'[t] # "idle"
    PROVE  /\ pc[t] # "idle" /\ call' = call
           /\ \A q \in Clients \ {t} : pc'[q] = pc[q]
           /\ \/ Commit(t)
              \/ db' = db /\ \A c \in Clients : (pc'[c] = "reply") <=> (pc[c] = "reply")
  <1>1. pc \in [Clients -> Stages]
    BY DEF IInv, TypeOK
  <1>2. CASE Commit(t)
    BY <1>1, <1>2, CommitSeen
  <1>3. CASE pc[t] = "reply"
    <2>1. Return(t)
      BY <1>3 DEF Step, Begin, BusyTimeout, Refuse, NonceConflict, SelectForCreate,
           SelectForIssue, SelectForReview, Supersede, RunInserted, ChallengeInserted,
           ReviewInserted, ChallengeConsumed, EventAppended, Statement, Commit
    <2> QED
      BY <1>1, <2>1 DEF Return
  <1>4. CASE ~Commit(t) /\ pc[t] # "reply"
    BY <1>4, UnseenSteps
  <1> QED
    BY <1>2, <1>3, <1>4

\* A call that fails: nothing is committed, and the process has no call left.
LEMMA Failing ==
    ASSUME IInv, NEW t \in Clients, Fails(t)
    PROVE  /\ db' = db /\ pc[t] # "idle" /\ pc'[t] = "idle"
           /\ \A q \in Clients \ {t} : pc'[q] = pc[q] /\ call'[q] = call[q]
  <1>1. pc \in [Clients -> Stages] /\ call \in [Clients -> Requests \union {NoCall}]
    BY DEF IInv, TypeOK
  <1>2. CASE Crash(t)
    BY <1>1, <1>2 DEF Crash, Abandon
  <1>3. CASE pc[t] # "reply" /\ Step(t) /\ pc'[t] = "idle"
    <2>1. ~Commit(t)
      BY <1>3, CommitSeen
    <2> QED
      BY <1>3, <2>1, UnseenSteps
  <1> QED
    BY <1>2, <1>3 DEF Fails

LEMMA TerminalsKeepSystemInv ==
    ASSUME SystemInv, NEW t \in Clients, AtTerminal(t)
    PROVE  CallInv' /\ Domains'
  <1>1. CASE Locally(t)
    <2>1. Orderly(t) /\ pc' = pc /\ call' = call /\ pc[t] = "idle"
      BY <1>1, LocalStepsAreOrderly DEF SystemInv, Locally, vars
    <2> QED
      BY <2>1, OtherTerminals
  <1>2. CASE CallsTheStore(t)
    BY <1>2, CallsKeepSystemInv
  <1>3. CASE GoesOn(t)
    <2>1. Orderly(t) /\ pc[t] # "idle" /\ call' = call
          /\ \A q \in Clients \ {t} : pc'[q] = pc[q]
      BY <1>3, UnchangedRoomIsOrderly, GoingOn DEF SystemInv, GoesOn
    <2>2. Belongs(t)'
      BY <1>3, <2>1 DEF SystemInv, CallInv, Belongs, GoesOn, room
    <2> QED
      BY <2>1, <2>2, OtherTerminals
  <1>4. CASE Fails(t)
    BY <1>4, Failing, EndIsOrderly, OtherTerminals DEF SystemInv, Fails
  <1>5. CASE ReturnsToCommand(t)
    <2>1. pc \in [Clients -> Stages] /\ call \in [Clients -> Requests \union {NoCall}]
      BY DEF SystemInv, IInv, TypeOK
    <2>2. pc'[t] = "idle" /\ \A q \in Clients \ {t} : pc'[q] = pc[q] /\ call'[q] = call[q]
      BY <1>5, <2>1 DEF ReturnsToCommand, Return
    <2>3. Orderly(t)
      BY <1>5 DEF ReturnsToCommand, SystemInv, Domains, Orderly, Desk!Go, Desk!NoJob, JobSeen
    <2> QED
      BY <2>2, <2>3, OtherTerminals
  <1> QED
    BY <1>1, <1>2, <1>3, <1>4, <1>5 DEF AtTerminal
LEMMA AroundKeepsSystemInv == SystemInv /\ Around => CallInv' /\ Domains'
  <1> SUFFICES ASSUME SystemInv, Around PROVE CallInv' /\ Domains'
    OBVIOUS
  <1>1. pc' = pc /\ call' = call
    BY DEF Around, vars
  <1>2. CASE \E d \in Digests \union {Null} : Desk!Rebuild(d)
    BY <1>1, <1>2 DEF SystemInv, CallInv, Domains, Belongs, Desk!Rebuild, Desk!history
  <1>3. CASE \E who \in Reviewers, o \in Outputs : Desk!ReadOutput(who, o)
    <2>1. UNCHANGED <<step, job, own>> /\ DOMAIN read' = DOMAIN read
          /\ \A who \in Reviewers : read[who] \subseteq read'[who]
      BY <1>3 DEF SystemInv, Domains, Desk!ReadOutput, Desk!process
    <2>2. ASSUME NEW t \in Clients, pc[t] # "idle" PROVE Belongs(t)'
      <3>1. Belongs(t) /\ call[t] \in Requests
        BY <2>2, Inside DEF SystemInv, CallInv
      <3>2. call[t].op = "record_review" => call[t].reviewer \in Reviewers
        BY <3>1, RequestKinds DEF ReviewRequests
      <3> QED
        BY <1>1, <2>1, <3>1, <3>2 DEF Belongs
    <2> QED
      BY <1>1, <2>1, <2>2 DEF SystemInv, CallInv, Domains
  <1> QED
    BY <1>2, <1>3 DEF Around

\* The invariant of the system: the store's own, and each call belongs to the
\* command that waits for it (cli.py 105, 115, 126).
THEOREM SystemInvariant == System => []SystemInv
  <1>1. SystemInit => SystemInv
    BY InitIInv DEF SystemInit, SystemInv, CallInv, Domains, Init, Desk!Init
  <1>2. SystemInv /\ [SystemNext]_systemVars => SystemInv'
    <2> SUFFICES ASSUME SystemInv, [SystemNext]_systemVars PROVE CallInv' /\ Domains'
      BY SystemKeepsIInv DEF SystemInv
    <2>1. CASE UNCHANGED <<pc, call, room>>
      BY <2>1 DEF SystemInv, CallInv, Domains, Belongs, room
    <2>2. CASE \E t \in Clients : AtTerminal(t)
      BY <2>2, TerminalsKeepSystemInv
    <2>3. CASE Around
      BY <2>3, AroundKeepsSystemInv
    <2> QED
      BY <2>1, <2>2, <2>3 DEF SystemNext, systemVars, vars, Tick, Exported
  <1> QED
    BY <1>1, <1>2, PTL DEF System

-----------------------------------------------------------------------------
(* What DecisionRoom sees *)

\* What the database shows depends on the committed database only.
LEMMA SameDatabaseShown == ASSUME db' = db PROVE UNCHANGED Shown
  BY DEF Shown, IssuedNonces, OpenChallenges, Verdicts

\* A step of a terminal outside calls is the same step for DecisionRoom.
LEMMA SeenOutside ==
    ASSUME Domains, NEW t \in Clients, pc[t] = "idle", UNCHANGED <<pc, call>>
    PROVE  /\ RoomStep[t] = step[t] /\ RoomJob[t] = job[t]
           /\ \A x : step' = [step EXCEPT ![t] = x] => RoomStep' = [RoomStep EXCEPT ![t] = x]
           /\ \A x : job' = [job EXCEPT ![t] = x] => RoomJob' = [RoomJob EXCEPT ![t] = x]
           /\ step' = step => RoomStep' = RoomStep
           /\ job' = job => RoomJob' = RoomJob
  BY DEF Domains, RoomStep, RoomJob, JobSeen
\* Both agree on who writes a file.
LEMMA SameWriters ==
    ASSUME SystemInv
    PROVE  \A t \in Clients : \A o : Room!Writing(t, o) <=> Desk!Writing(t, o)
  <1> SUFFICES ASSUME NEW t \in Clients, NEW o PROVE Room!Writing(t, o) <=> Desk!Writing(t, o)
    OBVIOUS
  <1> USE DEF Room!Writing, Desk!Writing, RoomStep, RoomJob, JobSeen, Desk!NoJob
  <1>1. CASE pc[t] # "reply"
    BY <1>1
  <1>2. CASE pc[t] = "reply"
    <2>1. Belongs(t)
      BY <1>2 DEF SystemInv, CallInv
    <2> QED
      BY <1>2, <2>1 DEF Belongs, SystemInv, CallInv
  <1> QED
    BY <1>1, <1>2

LEMMA SameNoJob == Room!NoJob = Desk!NoJob
  BY DEF Room!NoJob, Desk!NoJob

LEMMA EndIsSeen ==
    ASSUME Domains, NEW t \in Clients, pc[t] = "idle", UNCHANGED <<pc, call>>, Desk!End(t)
    PROVE  Room!End(t)
  BY SeenOutside, SameNoJob DEF Desk!End, Desk!Go, Room!End, Room!Go

LEMMA LearnIsSeen ==
    ASSUME Domains, NEW t \in Clients, pc[t] = "idle", UNCHANGED <<pc, call>>,
           NEW packet, NEW to, Desk!Learn(t, packet, to)
    PROVE  Room!Learn(t, packet, to)
  <1>1. job' = [job EXCEPT ![t] = [job[t] EXCEPT !.packet = packet]]
    BY DEF Desk!Learn
  <1>2. RoomJob' = [RoomJob EXCEPT ![t] = [RoomJob[t] EXCEPT !.packet = packet]]
    BY <1>1, SeenOutside
  <1>3. RoomStep' = [RoomStep EXCEPT ![t] = to]
    BY SeenOutside DEF Desk!Learn, Desk!Go
  <1> QED
    BY <1>2, <1>3 DEF Desk!Learn, Room!Learn, Room!Go

LEMMA DecideIsSeen ==
    ASSUME SystemInv, NEW t \in Clients, pc[t] = "idle", UNCHANGED vars
    PROVE  /\ \A r, o : Desk!StartDecide(t, r, o) => Room!StartDecide(t, r, o)
           /\ Desk!ReadCase(t) => Room!ReadCase(t)
           /\ Desk!OpenOutput(t) => Room!OpenOutput(t)
           /\ Desk!WriteOutput(t) => Room!WriteOutput(t)
           /\ Desk!CreateRun(t) => Room!CreateRun(t)
  <1>0. Domains /\ UNCHANGED <<pc, call, db>> /\ UNCHANGED Shown
    BY SameDatabaseShown DEF SystemInv, vars
  <1> USE DEF Desk!Go, Room!Go, Desk!Goes, Room!Goes, Desk!Learn, Room!Learn,
              Desk!store, Room!store, Desk!history, Room!history, Shown
  <1>1. ASSUME NEW r, NEW o, Desk!StartDecide(t, r, o) PROVE Room!StartDecide(t, r, o)
    BY <1>0, <1>1, SeenOutside, SameWriters, SameNoJob DEF Desk!StartDecide, Room!StartDecide
  <1>2. ASSUME Desk!ReadCase(t) PROVE Room!ReadCase(t)
    BY <1>0, <1>2, SeenOutside, EndIsSeen DEF Desk!ReadCase, Room!ReadCase
  <1>3. ASSUME Desk!OpenOutput(t) PROVE Room!OpenOutput(t)
    BY <1>0, <1>3, SeenOutside DEF Desk!OpenOutput, Room!OpenOutput
  <1>4. ASSUME Desk!WriteOutput(t) PROVE Room!WriteOutput(t)
    <2>1. RoomJob[t] = job[t] /\ RoomStep[t] = step[t]
      BY <1>0, SeenOutside
    <2>2. Room!Goes(t, IF RoomJob[t].run = NoDatabase THEN "print" ELSE "bind")
      <3>1. ASSUME NEW to, Desk!Goes(t, to) PROVE Room!Goes(t, to)
        BY <1>0, <3>1, SeenOutside
      <3>2. CASE job[t].run = NoDatabase
        <4>1. Desk!Goes(t, "print")
          BY <1>4, <3>2 DEF Desk!WriteOutput
        <4> QED
          BY <2>1, <3>1, <3>2, <4>1
      <3>3. CASE job[t].run # NoDatabase
        <4>1. Desk!Goes(t, "bind")
          BY <1>4, <3>3 DEF Desk!WriteOutput
        <4> QED
          BY <2>1, <3>1, <3>3, <4>1
      <3> QED
        BY <3>2, <3>3
    <2>3. output' = [output EXCEPT ![RoomJob[t].out] =
                       Room!Overwrite(@, Room!Text(RoomJob[t].packet))]
      BY <1>4, <2>1 DEF Desk!WriteOutput, Desk!Overwrite, Room!Overwrite, Desk!Text, Room!Text
    <2> QED
      BY <1>0, <1>4, <2>1, <2>2, <2>3 DEF Desk!WriteOutput, Room!WriteOutput
  <1>5. ASSUME Desk!CreateRun(t) PROVE Room!CreateRun(t)
    BY <1>0, <1>5, SeenOutside, EndIsSeen DEF Desk!CreateRun, Room!CreateRun,
       Desk!Store!Bind, Room!Store!Bind
  <1> QED
    BY <1>1, <1>2, <1>3, <1>4, <1>5
LEMMA OtherCommandsAreSeen ==
    ASSUME SystemInv, NEW t \in Clients, pc[t] = "idle", UNCHANGED vars
    PROVE  /\ \A r : Desk!StartReviewInit(t, r) => Room!StartReviewInit(t, r)
           /\ Desk!LoadPacket(t) => Room!LoadPacket(t)
           /\ Desk!StartValidate(t) => Room!StartValidate(t)
           /\ Desk!ReadCandidate(t) => Room!ReadCandidate(t)
           /\ Desk!ReadCaseAgain(t) => Room!ReadCaseAgain(t)
           /\ Desk!PrintAnswer(t) => Room!PrintAnswer(t)
           /\ Desk!Interrupt(t) => Room!Interrupt(t)
  <1>0. Domains /\ UNCHANGED <<pc, call, db>> /\ UNCHANGED Shown
    BY SameDatabaseShown DEF SystemInv, vars
  <1> USE DEF Desk!Go, Room!Go, Desk!store, Room!store, Desk!history, Room!history, Shown
  <1>1. ASSUME NEW r, Desk!StartReviewInit(t, r) PROVE Room!StartReviewInit(t, r)
    BY <1>0, <1>1, SeenOutside, SameNoJob DEF Desk!StartReviewInit, Room!StartReviewInit
  <1>2. ASSUME Desk!LoadPacket(t) PROVE Room!LoadPacket(t)
    BY <1>0, <1>2, LearnIsSeen, SeenOutside, EndIsSeen DEF Desk!LoadPacket, Room!LoadPacket
  <1>3. ASSUME Desk!StartValidate(t) PROVE Room!StartValidate(t)
    BY <1>0, <1>3, SeenOutside, SameNoJob DEF Desk!StartValidate, Room!StartValidate
  <1>4. ASSUME Desk!ReadCandidate(t) PROVE Room!ReadCandidate(t)
    <2>1. RoomJob[t] = job[t] /\ RoomStep[t] = step[t]
      BY <1>0, SeenOutside
    <2>2. CASE case = Null
      BY <1>0, <1>4, <2>1, <2>2, EndIsSeen DEF Desk!ReadCandidate, Room!ReadCandidate
    <2>3. CASE case # Null
      <3>1. job' = [job EXCEPT ![t] = [job[t] EXCEPT !.candidate = CandidateOf[case]]]
        BY <1>4, <2>3 DEF Desk!ReadCandidate
      <3>2. RoomJob' = [RoomJob EXCEPT ![t] = [RoomJob[t] EXCEPT !.candidate = CandidateOf[case]]]
        BY <1>0, <2>1, <3>1, SeenOutside
      <3>3. RoomStep' = [RoomStep EXCEPT ![t] = "second"]
        BY <1>0, <1>4, <2>3, SeenOutside DEF Desk!ReadCandidate
      <3> QED
        BY <1>0, <1>4, <2>1, <2>3, <3>2, <3>3 DEF Desk!ReadCandidate, Room!ReadCandidate
    <2> QED
      BY <2>2, <2>3
  <1>5. ASSUME Desk!ReadCaseAgain(t) PROVE Room!ReadCaseAgain(t)
    BY <1>0, <1>5, LearnIsSeen, EndIsSeen, SeenOutside DEF Desk!ReadCaseAgain, Room!ReadCaseAgain
  <1>6. ASSUME Desk!PrintAnswer(t) PROVE Room!PrintAnswer(t)
    BY <1>0, <1>6, SeenOutside, EndIsSeen DEF Desk!PrintAnswer, Room!PrintAnswer
  <1>7. ASSUME Desk!Interrupt(t) PROVE Room!Interrupt(t)
    BY <1>0, <1>7, SeenOutside, EndIsSeen DEF Desk!Interrupt, Room!Interrupt
  <1> QED
    BY <1>1, <1>2, <1>3, <1>4, <1>5, <1>6, <1>7

LEMMA LocalStepsAreSeen ==
    ASSUME SystemInv, NEW t \in Clients, Locally(t)
    PROVE  Room!Next
  <1>1. pc[t] = "idle" /\ UNCHANGED vars
    BY DEF Locally
  <1>2. Room!Targets = Desk!Targets
    BY DEF Room!Targets, Desk!Targets
  <1>3. Room!Command(t)
    BY <1>1, <1>2, DecideIsSeen, OtherCommandsAreSeen DEF Locally, Room!Command
  <1> QED
    BY <1>3 DEF Room!Next

LEMMA AroundIsSeen == SystemInv /\ Around => Room!Next
  <1> SUFFICES ASSUME SystemInv, Around PROVE Room!Next
    OBVIOUS
  <1>1. UNCHANGED <<pc, call, db>> /\ UNCHANGED Shown
    BY SameDatabaseShown DEF Around, vars
  <1>2. ASSUME NEW d \in Digests \union {Null}, Desk!Rebuild(d) PROVE Room!Rebuild(d)
    <2>1. RoomStep' = RoomStep /\ RoomJob' = RoomJob
      BY <1>1, <1>2 DEF RoomStep, RoomJob, JobSeen, Desk!Rebuild
    <2>2. \A t \in Clients : own[t] /\ job[t].command # "validate"
                            <=> own[t] /\ RoomJob[t].command # "validate"
      BY DEF RoomJob, JobSeen, SystemInv, CallInv, Belongs, Desk!NoJob
    <2> QED
      BY <1>1, <1>2, <2>1, <2>2 DEF Desk!Rebuild, Room!Rebuild, Shown, Desk!history,
         Room!history, Room!store
  <1>3. ASSUME NEW who, NEW o, Desk!ReadOutput(who, o) PROVE Room!ReadOutput(who, o)
    <2>1. RoomStep' = RoomStep /\ RoomJob' = RoomJob /\ own' = own
      BY <1>1, <1>3 DEF RoomStep, RoomJob, JobSeen, Desk!ReadOutput, Desk!process
    <2> QED
      BY <1>1, <1>3, <2>1 DEF Desk!ReadOutput, Room!ReadOutput, Shown, Room!process,
         Room!store, Desk!Shown, Room!Shown
  <1> QED
    BY <1>2, <1>3 DEF Around, Room!Next
\* DecisionRoom and ReviewStore speak of one protocol.
LEMMA SameProtocol ==
    /\ \A r, d : Protocol!Bind(r, d) => Room!Store!Bind(r, d)
    /\ \A b, n, at, ttl : Protocol!Issue(b, n, at, ttl) => Room!Store!Issue(b, n, at, ttl)
    /\ \A o, who, act, at : Protocol!Decide(o, who, act, at) => Room!Store!Decide(o, who, act, at)
    /\ \A r : Protocol!Closed(r) <=> Room!Store!Closed(r)
  BY DEF Protocol!Bind, Protocol!Issue, Protocol!Decide, Protocol!Closed,
     Room!Store!Bind, Room!Store!Issue, Room!Store!Decide, Room!Store!Closed

\* At COMMIT the command goes on to print; a review has its arguments by then.
LEMMA SeenAtCommit ==
    ASSUME SystemInv, NEW t \in Clients, Commit(t), UNCHANGED room
    PROVE  /\ call[t] \in Requests /\ Belongs(t)
           /\ RoomStep[t] = step[t] /\ RoomJob[t] = job[t]
           /\ RoomStep' = [RoomStep EXCEPT ![t] = "print"]
           /\ call[t].op # "record_review" => RoomJob' = RoomJob
           /\ call[t].op = "record_review" =>
                 RoomJob' = [RoomJob EXCEPT ![t] =
                   [Room!NoJob EXCEPT !.command = "review", !.run = call[t].run_id,
                                      !.packet = call[t].decision_digest]]
  <1>1. /\ pc[t] = "commit" /\ pc' = [pc EXCEPT ![t] = "reply"] /\ call' = call
        /\ pc \in [Clients -> Stages]
    BY CommitSeen DEF SystemInv
  <1>2. call[t] \in Requests /\ Belongs(t)
    BY <1>1, CommitKinds DEF SystemInv, CallInv
  <1>3. \A q \in Clients : RoomStep'[q] = IF q = t THEN "print" ELSE RoomStep[q]
    BY <1>1 DEF RoomStep, room
  <1>4. \A q \in Clients \ {t} : RoomJob'[q] = RoomJob[q]
    BY <1>1 DEF RoomJob, JobSeen, room
  <1>5. RoomStep[t] = step[t] /\ RoomJob[t] = job[t]
    BY <1>1 DEF RoomStep, RoomJob, JobSeen
  <1>6. RoomStep' = [RoomStep EXCEPT ![t] = "print"]
    BY <1>3 DEF RoomStep
  <1>7. CASE call[t].op # "record_review"
    <2>1. RoomJob'[t] = RoomJob[t]
      BY <1>1, <1>7 DEF RoomJob, JobSeen, room
    <2>2. RoomJob' = RoomJob
      BY <1>4, <2>1 DEF RoomJob
    <2> QED
      BY <1>2, <1>5, <1>6, <1>7, <2>2
  <1>8. CASE call[t].op = "record_review"
    <2> DEFINE seenJob == [Room!NoJob EXCEPT !.command = "review", !.run = call[t].run_id,
                                             !.packet = call[t].decision_digest]
    <2>1. RoomJob'[t] = seenJob
      BY <1>1, <1>8, SameNoJob DEF RoomJob, JobSeen
    <2> HIDE DEF seenJob
    <2>2. RoomJob' = [RoomJob EXCEPT ![t] = seenJob]
      BY <1>4, <2>1 DEF RoomJob
    <2> QED
      BY <1>2, <1>5, <1>6, <1>8, <2>2 DEF seenJob
  <1> QED
    BY <1>7, <1>8

LEMMA CreateIsSeen ==
    ASSUME SystemInv, NEW t \in Clients, Commit(t), UNCHANGED room,
           call[t].op = "create_run"
    PROVE  Room!CreateRun(t)
  <1> DEFINE q == call[t]
  <1>1. /\ q \in Requests /\ RoomStep[t] = "bind" /\ RoomJob[t] = job[t]
        /\ q.run_id = RoomJob[t].run /\ q.decision_digest = RoomJob[t].packet
        /\ RoomStep' = [RoomStep EXCEPT ![t] = "print"] /\ RoomJob' = RoomJob
    BY SeenAtCommit DEF Belongs
  <1>2. Room!Goes(t, "print") /\ UNCHANGED <<case, output, told, settled, read>>
    BY <1>1 DEF Room!Goes, Room!Go, room
  <1>3. CASE Applicable(db, q) /\ db' = Effect(db, q)
    <2>1. q.run_id \in RunIds /\ Room!Store!Bind(q.run_id, q.decision_digest)
      BY <1>1, <1>3, CreateBinds, SameProtocol, RequestKinds DEF SystemInv
    <2> QED
      BY <1>1, <1>2, <2>1 DEF Room!CreateRun, Room!history
  <1>4. CASE BoundToDigest(db, q) /\ db' = db
    <2>1. RunRow(q) \in db.runs /\ RunRow(q).run_id = RoomJob[t].run
          /\ RunRow(q).decision_digest = RoomJob[t].packet
      BY <1>1, <1>4 DEF BoundToDigest, RunRow
    <2>2. UNCHANGED Shown
      BY <1>4, SameDatabaseShown
    <2> QED
      BY <1>1, <1>2, <2>1, <2>2 DEF Room!CreateRun, Room!history, Room!store, Shown
  <1> QED
    BY <1>3, <1>4, CommitKinds DEF SystemInv

LEMMA IssueIsSeen ==
    ASSUME SystemInv, NEW t \in Clients, Commit(t), UNCHANGED room,
           call[t].op = "issue_challenge"
    PROVE  Room!IssueChallenge(t)
  <1> DEFINE q == call[t]
  <1>1. /\ q \in Requests /\ RoomStep[t] = "issue" /\ RoomJob[t] = job[t]
        /\ q.run_id = RoomJob[t].run /\ q.decision_digest = RoomJob[t].packet
        /\ RoomStep' = [RoomStep EXCEPT ![t] = "print"] /\ RoomJob' = RoomJob
    BY SeenAtCommit DEF Belongs
  <1>2. Room!Goes(t, "print") /\ UNCHANGED <<case, output, told, settled, read>>
    BY <1>1 DEF Room!Goes, Room!Go, room
  <1>3. Applicable(db, q) /\ db' = Effect(db, q)
    BY CommitKinds DEF SystemInv
  <1>4. q \in IssueRequests /\ q.nonce \in Nonces /\ q.ttl \in MinTtl..MaxTtl
    BY <1>1, RequestKinds DEF IssueRequests
  <1>5. q.now \in 0..MaxTime
    BY <1>4, TimeAssumption DEF SystemInv, IInv, TypeOK, ClockInv, IssueRequests
  <1>6. RunRow(q) \in db.runs
        /\ RunRow(q) = [run_id |-> RoomJob[t].run, decision_digest |-> RoomJob[t].packet]
    BY <1>1, <1>3 DEF Applicable, Issuable, BoundToDigest, RunRow
  <1>7. Room!Store!Issue(RunRow(q), q.nonce, q.now, q.ttl)
    BY <1>3, <1>4, IssueOpens, SameProtocol DEF SystemInv
  <1> HIDE DEF q
  <1> QED
    BY <1>1, <1>2, <1>4, <1>5, <1>6, <1>7 DEF Room!IssueChallenge, Room!history

LEMMA ReviewIsSeen ==
    ASSUME SystemInv, NEW t \in Clients, Commit(t), UNCHANGED room,
           call[t].op = "record_review"
    PROVE  Room!Command(t)
  <1> DEFINE q == call[t]
  <1>1. /\ q \in Requests /\ RoomStep[t] = "idle" /\ q.decision_digest \in read[q.reviewer]
        /\ RoomStep' = [RoomStep EXCEPT ![t] = "print"]
        /\ RoomJob' = [RoomJob EXCEPT ![t] =
               [Room!NoJob EXCEPT !.command = "review", !.run = q.run_id,
                                  !.packet = q.decision_digest]]
    BY SeenAtCommit DEF Belongs
  <1>2. Applicable(db, q) /\ db' = Effect(db, q)
    BY CommitKinds DEF SystemInv
  <1>3. q \in ReviewRequests /\ q.reviewer \in Reviewers /\ q.action \in ReviewActions
        /\ q.run_id \in RunIds
    BY <1>1, RequestKinds DEF ReviewRequests
  <1>4. q.now \in 0..MaxTime
    BY <1>3, TimeAssumption DEF SystemInv, IInv, TypeOK, ClockInv, ReviewRequests
  <1>5. \A ch \in db.challenges : ch.nonce = q.nonce => ch.issued_at <= q.now
    BY <1>3 DEF SystemInv, IInv, ClockInv
  <1>6. PICK o \in OpenChallenges(db) :
           /\ o.run_id = q.run_id /\ o.decision_digest = q.decision_digest
           /\ o.nonce = q.nonce /\ Protocol!Decide(o, q.reviewer, q.action, q.now)
    BY <1>2, <1>3, <1>5, ReviewDecides DEF SystemInv
  <1> HIDE DEF q
  <1>7. Room!Redeems(o, q.run_id, q.decision_digest, q.nonce, q.now)
    <2>1. ~Protocol!Closed(o.run_id) /\ q.now <= o.expires_at
      BY <1>6 DEF Protocol!Decide
    <2> QED
      BY <1>6, <2>1, SameProtocol DEF Room!Redeems
  <1>8. q.nonce \in IssuedNonces(db)
    BY <1>6 DEF OpenChallenges, IssuedNonces, ChallengeFact
  <1>9. Room!Review(t, q.run_id, q.reviewer, q.action, q.decision_digest, q.nonce, q.now)
    BY <1>1, <1>6, <1>7, SameProtocol DEF Room!Review, Room!Go, Room!history, room
  <1> QED
    BY <1>1, <1>3, <1>4, <1>8, <1>9 DEF Room!Command
\* A call that fails interrupts its command, or a review that nobody has seen.
LEMMA FailureIsSeen ==
    ASSUME SystemInv, NEW t \in Clients, Fails(t)
    PROVE  [Room!Next]_Room!vars
  <1>1. /\ db' = db /\ pc[t] # "idle" /\ pc'[t] = "idle" /\ UNCHANGED Shown
        /\ \A q \in Clients \ {t} : pc'[q] = pc[q] /\ call'[q] = call[q]
    BY Failing, SameDatabaseShown DEF SystemInv
  <1>2. /\ step' = [step EXCEPT ![t] = "idle"] /\ job' = [job EXCEPT ![t] = Desk!NoJob]
        /\ own' = [own EXCEPT ![t] = FALSE] /\ UNCHANGED <<case, output, told, settled, read>>
    BY DEF Fails, Desk!End, Desk!Go
  <1>3. \A q \in Clients : /\ RoomStep'[q] = IF q = t THEN "idle" ELSE RoomStep[q]
                           /\ RoomJob'[q] = IF q = t THEN Desk!NoJob ELSE RoomJob[q]
    BY <1>1, <1>2 DEF SystemInv, Domains, RoomStep, RoomJob, JobSeen
  <1>4. RoomStep' = [RoomStep EXCEPT ![t] = "idle"]
        /\ RoomJob' = [RoomJob EXCEPT ![t] = Desk!NoJob]
    BY <1>3 DEF RoomStep, RoomJob
  <1>5. CASE RoomStep[t] # "idle"
    <2>1. Room!Interrupt(t)
      BY <1>1, <1>2, <1>4, <1>5, SameNoJob DEF Room!Interrupt, Room!End, Room!Go,
         Room!history, Room!store, Shown
    <2> QED
      BY <2>1 DEF Room!Next, Room!Command
  <1>6. CASE RoomStep[t] = "idle"
    <2>1. pc[t] # "reply" /\ step[t] = "idle" /\ RoomJob[t] = job[t]
      BY <1>6 DEF RoomStep, RoomJob, JobSeen
    <2>2. job[t] = Desk!NoJob /\ own[t] = FALSE
      BY <2>1 DEF SystemInv, CallInv
    <2>3. RoomStep' = RoomStep /\ RoomJob' = RoomJob
      BY <1>4, <1>6, <2>1, <2>2 DEF RoomStep, RoomJob
    <2>4. own' = own
      BY <1>2, <2>2 DEF SystemInv, Domains
    <2> QED
      BY <1>1, <1>2, <2>3, <2>4 DEF Room!vars, Room!store, Room!process, Room!history, Shown
  <1> QED
    BY <1>5, <1>6

LEMMA TerminalsAreSeen ==
    ASSUME SystemInv, NEW t \in Clients, AtTerminal(t)
    PROVE  [Room!Next]_Room!vars
  <1>0. pc \in [Clients -> Stages] /\ call \in [Clients -> Requests \union {NoCall}]
    BY DEF SystemInv, IInv, TypeOK
  <1>1. CASE Locally(t)
    BY <1>1, LocalStepsAreSeen
  <1>2. CASE CallsTheStore(t)
    <2>1. PICK q : StartCall(t, q)
      BY <1>2 DEF CallsTheStore, CallCreate, CallIssue, CallReview
    <2>2. RoomStep' = RoomStep /\ RoomJob' = RoomJob
      BY <1>0, <1>2, <2>1 DEF CallsTheStore, StartCall, RoomStep, RoomJob, JobSeen, room
    <2>3. UNCHANGED Shown
      BY <2>1, SameDatabaseShown DEF StartCall
    <2> QED
      BY <1>2, <2>2, <2>3 DEF CallsTheStore, room, Room!vars, Room!store, Room!process,
         Room!history, Shown
  <1>3. CASE GoesOn(t)
    <2>1. CASE Commit(t)
      <3>1. Room!Command(t)
        <4>1. call[t] \in Requests /\ UNCHANGED room
          BY <1>3, <2>1, SeenAtCommit DEF GoesOn
        <4> QED
          BY <2>1, <4>1, CreateIsSeen, IssueIsSeen, ReviewIsSeen, RequestKinds DEF Room!Command
      <3> QED
        BY <3>1 DEF Room!Next
    <2>2. CASE ~Commit(t)
      <3>1. call' = call /\ \A c \in Clients : (pc'[c] = "reply") <=> (pc[c] = "reply")
        BY <1>3, <2>2, GoingOn DEF GoesOn, SystemInv
      <3>2. RoomStep' = RoomStep /\ RoomJob' = RoomJob
        BY <1>3, <3>1 DEF GoesOn, RoomStep, RoomJob, JobSeen, room
      <3>3. UNCHANGED Shown
        BY <1>3, <2>2, GoingOn, SameDatabaseShown DEF GoesOn, SystemInv
      <3> QED
        BY <1>3, <3>2, <3>3 DEF GoesOn, room, Room!vars, Room!store, Room!process,
           Room!history, Shown
    <2> QED
      BY <2>1, <2>2
  <1>4. CASE Fails(t)
    BY <1>4, FailureIsSeen
  <1>5. CASE ReturnsToCommand(t)
    <2>1. /\ pc[t] = "reply" /\ pc' = [pc EXCEPT ![t] = "idle"]
          /\ call' = [call EXCEPT ![t] = NoCall] /\ UNCHANGED Shown
          /\ job' = [job EXCEPT ![t] = JobSeen(t)] /\ step' = [step EXCEPT ![t] = "print"]
          /\ UNCHANGED <<case, output, own, told, settled, read>>
      BY <1>5, SameDatabaseShown DEF ReturnsToCommand, Return, Desk!Go
    <2>2. \A q \in Clients : pc'[q] = IF q = t THEN "idle" ELSE pc[q]
      BY <1>0, <2>1
    <2>3. \A q \in Clients : step'[q] = IF q = t THEN "print" ELSE step[q]
      BY <2>1 DEF SystemInv, Domains
    <2>4. RoomStep' = RoomStep
      BY <2>1, <2>2, <2>3 DEF RoomStep
    <2>5. \A q \in Clients : JobSeen(q)' = JobSeen(q)
      BY <1>0, <2>1, <2>2 DEF SystemInv, Domains, JobSeen
    <2>6. RoomJob' = RoomJob
      BY <2>5 DEF RoomJob
    <2> QED
      BY <2>1, <2>4, <2>6 DEF Room!vars, Room!store, Room!process, Room!history, Shown
  <1> QED
    BY <1>1, <1>2, <1>3, <1>4, <1>5 DEF AtTerminal

\* The commands over the transactional store implement DecisionRoom: each of
\* their calls, statement by statement, interleaved with others, refused, timed
\* out or interrupted anywhere, is the one atomic step that DecisionRoom takes
\* at its commit, or no step (cli.py 105, 115, 126; store.py 32-41).
THEOREM SystemImplementsRoom == System => Room!Spec
  <1>1. SystemInit => Room!Init
    <2> SUFFICES ASSUME SystemInit PROVE Room!Init
      OBVIOUS
    <2>1. RoomStep = [t \in Clients |-> "idle"] /\ RoomJob = [t \in Clients |-> Room!NoJob]
      BY SameNoJob DEF SystemInit, Init, Desk!Init, RoomStep, RoomJob, JobSeen
    <2> QED
      BY <2>1 DEF SystemInit, Desk!Init, Room!Init, Desk!Store!Init, Room!Store!Init
  <1>2. SystemInv /\ [SystemNext]_systemVars => [Room!Next]_Room!vars
    <2> SUFFICES ASSUME SystemInv, [SystemNext]_systemVars PROVE [Room!Next]_Room!vars
      OBVIOUS
    <2>1. CASE UNCHANGED <<db, pc, call, room>>
      <3>1. UNCHANGED Shown
        BY <2>1, SameDatabaseShown
      <3>2. RoomStep' = RoomStep /\ RoomJob' = RoomJob
        BY <2>1 DEF RoomStep, RoomJob, JobSeen, room
      <3> QED
        BY <2>1, <3>1, <3>2 DEF room, Room!vars, Room!store, Room!process, Room!history, Shown
    <2>2. CASE \E t \in Clients : AtTerminal(t)
      BY <2>2, TerminalsAreSeen
    <2>3. CASE Around
      BY <2>3, AroundIsSeen
    <2> QED
      BY <2>1, <2>2, <2>3 DEF SystemNext, systemVars, vars, Tick, Exported
  <1> QED
    BY <1>1, <1>2, SystemInvariant, PTL DEF System, Room!Spec
-----------------------------------------------------------------------------
(* What Exports sees *)

\* Exports and ReviewStore speak of one protocol.
LEMMA SameProtocolForExports == Protocol!Next => Shelf!Store!Next
  BY DEF Protocol!Next, Protocol!Bind, Protocol!Issue, Protocol!Decide, Protocol!Closed,
     Shelf!Store!Next, Shelf!Store!Bind, Shelf!Store!Issue, Shelf!Store!Decide,
     Shelf!Store!Closed

\* The exports beside the transactional store implement Exports: to them the
\* store and all commands are the atomic steps that COMMIT makes visible
\* (store.py 297-308, exporters.py 131-167).
THEOREM SystemImplementsExports == System => Shelf!Spec
  <1>1. SystemInit => Shelf!Init
    BY DEF SystemInit
  <1>2. IInv /\ [SystemNext]_systemVars => [Shelf!Next]_Shelf!vars
    <2> SUFFICES ASSUME IInv, [SystemNext]_systemVars PROVE [Shelf!Next]_Shelf!vars
      OBVIOUS
    <2> USE DEF Shelf!vars, Shelf!store, Shelf!process, Shelf!history
    <2>1. CASE UNCHANGED exports
      <3>1. [Protocol!Next]_Protocol!vars
        BY StoreStepsOrRests, StepsFollowTheProtocol
      <3>2. CASE Protocol!Next
        BY <2>1, <3>2, SameProtocolForExports DEF exports, Shelf!Next, Shelf!StoreStep
      <3>3. CASE UNCHANGED Protocol!vars
        BY <2>1, <3>3 DEF exports, Protocol!vars
      <3> QED
        BY <3>1, <3>2, <3>3
    <2>2. CASE \E p \in Exporters : Exported(p)
      BY <2>2 DEF Exported, Shelf!Next
    <2> QED
      BY <2>1, <2>2 DEF SystemNext, systemVars, exports
  <1> QED
    BY <1>1, <1>2, SystemInvariant, PTL DEF System, Shelf!Spec, SystemInv
-----------------------------------------------------------------------------
(* What is proved of the parts holds of the whole *)

\* Over the transactional store, all commands that succeed for a run print its
\* packet, every verdict is about a packet its reviewer has read, a settled file
\* holds its run's packet and undisturbed validates agree.
THEOREM CommandsKeepTheirPromises ==
    ASSUME ConstantsFit
    PROVE  System => [](/\ Room!RunsTellOneStory
                        /\ Room!VerdictsAreOfPacketsRead
                        /\ Room!SettledOutputsMatchTheRun
                        /\ Room!UndisturbedValidationsAgree)
  <1>1. Room!Spec => []Room!RunsTellOneStory
    BY Room!OneStoryPerRun DEF ConstantsFit
  <1>2. Room!Spec => []Room!VerdictsAreOfPacketsRead
    BY Room!VerdictsRestOnReading DEF ConstantsFit
  <1>3. Room!Spec => []Room!SettledOutputsMatchTheRun
    BY Room!SettledOutputsAreRight DEF ConstantsFit
  <1>4. Room!Spec => []Room!UndisturbedValidationsAgree
    BY Room!ValidationsAgree DEF ConstantsFit
  <1> QED
    BY <1>1, <1>2, <1>3, <1>4, SystemImplementsRoom, PTL

\* Beside the transactional store, whatever is reported was committed, an export
\* that is alone leaves whole files, overlapping ones that all succeed agree, and
\* a reviewed run never shows a draft again.
THEOREM ExportsKeepTheirPromises ==
    ASSUME ConstantsFit
    PROVE  System => [](/\ Shelf!ReportedSnapshotsAreCommitted
                        /\ Shelf!AloneExportsAreWhole
                        /\ Shelf!SucceededExportsAgree
                        /\ Shelf!SerialExportsNeverRegress)
  <1>1. Shelf!Spec => []Shelf!ReportedSnapshotsAreCommitted
    BY Shelf!ReportsAreCommitted DEF ConstantsFit
  <1>2. Shelf!Spec => []Shelf!AloneExportsAreWhole
    BY Shelf!AloneExportsAreWholeFiles DEF ConstantsFit
  <1>3. Shelf!Spec => []Shelf!SucceededExportsAgree
    BY Shelf!SucceededExportsAgreeOnTheDigest DEF ConstantsFit
  <1>4. Shelf!Spec => []Shelf!SerialExportsNeverRegress
    BY Shelf!ReviewedFilesStayReviewed DEF ConstantsFit
  <1> QED
    BY <1>1, <1>2, <1>3, <1>4, SystemImplementsExports, PTL

LEMMA AccountsAgree ==
    SystemInv /\ Room!IInv /\ Shelf!ReportedSnapshotsAreCommitted => ReportsAreAccountable
  <1> SUFFICES ASSUME SystemInv, Room!IInv, Shelf!ReportedSnapshotsAreCommitted,
                      NEW s \in reported
               PROVE  /\ InLedger(db.events, [run_id |-> s.run_id, decision_digest |-> s.packet])
                      /\ \A a \in told : a.run_id = s.run_id => a.decision_digest = s.packet
                      /\ s.review # Null =>
                            /\ s.packet \in read[s.review.reviewer]
                            /\ \E v \in db.reviews, ch \in db.challenges :
                                  /\ Verdict(v) = s.review /\ v.run_id = s.run_id
                                  /\ v.decision_digest = s.packet
                                  /\ InLedger(db.events, ReviewFact(v))
                                  /\ Redeems(v, ch) /\ IssuedLast(db.events, ch)
    BY DEF ReportsAreAccountable
  <1>1. LedgerAgreesWithTables(db) /\ ChallengesAgreeWithReviews(db) /\ LatestChallengeCounts(db)
    BY DEF SystemInv, IInv, WellFormed
  <1> DEFINE b == [run_id |-> s.run_id, decision_digest |-> s.packet]
  <1>2. b \in db.runs
    BY DEF Shelf!ReportedSnapshotsAreCommitted, Shelf!Committed
  <1>3. InLedger(db.events, b)
    BY <1>1, <1>2 DEF LedgerAgreesWithTables, Recorded, InLedger
  <1>4. ASSUME NEW a \in told, a.run_id = s.run_id PROVE a.decision_digest = s.packet
    <2>1. a \in db.runs /\ b.run_id = s.run_id /\ b.decision_digest = s.packet
      BY DEF Room!IInv
    <2> QED
      BY <1>2, <1>4, <2>1 DEF Room!IInv, Room!StoreInv
  <1>5. ASSUME s.review # Null
        PROVE  /\ s.packet \in read[s.review.reviewer]
               /\ \E v \in db.reviews, ch \in db.challenges :
                     /\ Verdict(v) = s.review /\ v.run_id = s.run_id
                     /\ v.decision_digest = s.packet
                     /\ InLedger(db.events, ReviewFact(v))
                     /\ Redeems(v, ch) /\ IssuedLast(db.events, ch)
    <2>1. /\ s.review \in Verdicts(db) /\ s.review.run_id = s.run_id
          /\ s.review.decision_digest = s.packet
      BY <1>5 DEF Shelf!ReportedSnapshotsAreCommitted, Shelf!Committed
    <2>2. s.packet \in read[s.review.reviewer]
      BY <2>1 DEF Room!IInv, Room!VerdictsAreOfPacketsRead
    <2>3. PICK v \in db.reviews : Verdict(v) = s.review
      BY <2>1 DEF Verdicts
    <2>4. v.run_id = s.run_id /\ v.decision_digest = s.packet
      BY <2>1, <2>3 DEF Verdict
    <2>5. InLedger(db.events, ReviewFact(v))
      BY <1>1 DEF LedgerAgreesWithTables, Recorded, InLedger
    <2>6. PICK ch \in db.challenges : Redeems(v, ch)
      BY <1>1 DEF ChallengesAgreeWithReviews
    <2>7. IssuedLast(db.events, ch)
      BY <1>1, <2>6 DEF LatestChallengeCounts, Redeems
    <2> QED
      BY <2>2, <2>3, <2>4, <2>5, <2>6, <2>7
  <1> QED
    BY <1>3, <1>4, <1>5

\* The chain of evidence behind an export that was reported as reviewed, from
\* the ledger over the challenge and the reading of the packet to what commands
\* have printed: no interleaving of processes, failures and kills breaks it.
THEOREM ReportsRestOnTheRecord ==
    ASSUME ConstantsFit
    PROVE  System => []ReportsAreAccountable
  <1>1. Room!Spec => []Room!IInv
    BY Room!RoomInvariant DEF ConstantsFit
  <1>2. Shelf!Spec => []Shelf!ReportedSnapshotsAreCommitted
    BY Shelf!ReportsAreCommitted DEF ConstantsFit
  <1> QED
    BY <1>1, <1>2, AccountsAgree, SystemInvariant, SystemImplementsRoom,
       SystemImplementsExports, PTL
=============================================================================
