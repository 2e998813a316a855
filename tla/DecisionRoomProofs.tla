------------------------- MODULE DecisionRoomProofs -------------------------
(***************************************************************************)
(* Theorems about DecisionRoom, for any number of terminals, runs, packets,*)
(* output files and reviewers.                                             *)
(*                                                                         *)
(* Two arguments run side by side.  A command prints what the database     *)
(* holds, since bindings are never taken back (JobInv).  A file that one   *)
(* decide writes alone holds what that decide has put there (OutputInv).   *)
(***************************************************************************)
EXTENDS DecisionRoom, SequenceTheorems, TLAPS

USE TargetAssumption, NullAssumption DEF store, process, history, Knows

-----------------------------------------------------------------------------
(* Texts *)

LEMMA TextIsText ==
    ASSUME NEW d \in Digests
    PROVE  Text(d) \in Seq(Digests) /\ Text(d) # <<>>
  BY DEF Text

LEMMA OverwriteIsText ==
    ASSUME NEW old \in Seq(Digests), NEW text \in Seq(Digests)
    PROVE  Overwrite(old, text) \in Seq(Digests)
  <1>1. Len(text) + 1 \in Int /\ Len(old) \in Int /\ Len(text) \in Nat
    BY LenProperties
  <1>2. \A i \in Len(text) + 1 .. Len(old) : old[i] \in Digests
    BY <1>1, ElementOfSeq
  <1>3. SubSeq(old, Len(text) + 1, Len(old)) \in Seq(Digests)
    BY <1>1, <1>2, SubSeqProperties
  <1> QED
    BY <1>3, ConcatProperties DEF Overwrite

\* Over an empty file the text stands alone.
LEMMA OverwriteNothing ==
    ASSUME NEW text \in Seq(Digests)
    PROVE  Overwrite(<<>>, text) = text
  <1>1. Len(text) \in Nat /\ Len(<<>>) = 0
    BY LenProperties, EmptySeq
  <1>2. SubSeq(<<>>, Len(text) + 1, Len(<<>>)) = <<>>
    BY <1>1, SubSeqEmpty
  <1> QED
    BY <1>2, ConcatEmptySeq DEF Overwrite

-----------------------------------------------------------------------------
LEMMA InitIInv == Init => IInv
  <1> SUFFICES ASSUME Init PROVE IInv
    OBVIOUS
  <1> USE DEF Init, Store!Init
  <1>1. NoJob \in Jobs
    BY DEF NoJob, Jobs, Commands, Targets
  <1>2. TypeOK
    BY <1>1 DEF TypeOK, Steps
  <1>3. StoreInv /\ ValidateInv /\ told \subseteq bound /\ VerdictsAreOfPacketsRead
    BY DEF StoreInv, ValidateInv, VerdictsAreOfPacketsRead
  <1>4. JobInv
    BY DEF JobInv, NoJob
  <1>5. OutputInv /\ SettledOutputsMatchTheRun
    BY DEF OutputInv, SettledOutputsMatchTheRun, Writing
  <1>6. UndisturbedValidationsAgree
    BY DEF UndisturbedValidationsAgree
  <1> QED
    BY <1>2, <1>3, <1>4, <1>5, <1>6 DEF IInv

LEMMA StutterKeepsIInv == IInv /\ UNCHANGED vars => IInv'
  <1> SUFFICES ASSUME IInv, UNCHANGED vars PROVE IInv'
    OBVIOUS
  <1> USE DEF IInv, vars
  <1>1. TypeOK' /\ StoreInv' /\ JobInv' /\ (told \subseteq bound)'
    BY DEF TypeOK, StoreInv, JobInv
  <1>2. OutputInv' /\ ValidateInv'
    BY DEF OutputInv, ValidateInv, Writing
  <1>3. VerdictsAreOfPacketsRead' /\ SettledOutputsMatchTheRun' /\ UndisturbedValidationsAgree'
    BY DEF VerdictsAreOfPacketsRead, SettledOutputsMatchTheRun, UndisturbedValidationsAgree
  <1> QED
    BY <1>1, <1>2, <1>3

\* A command that ends leaves nothing to be kept.
LEMMA EndKeepsIInv ==
    ASSUME IInv, NEW t \in Terminals, End(t), UNCHANGED <<store, case, output, history>>
    PROVE  IInv'
  <1> USE DEF IInv, End, Go
  <1>1. NoJob \in Jobs
    BY DEF NoJob, Jobs, Commands, Targets
  <1>2. \A q \in Terminals :
          IF q = t THEN step'[q] = "idle" /\ job'[q] = NoJob /\ own'[q] = FALSE
          ELSE step'[q] = step[q] /\ job'[q] = job[q] /\ own'[q] = own[q]
    BY DEF TypeOK
  <1>3. \A q \in Terminals, o \in Outputs : Writing(q, o)' => Writing(q, o) /\ q # t
    BY <1>2 DEF Writing
  <1>4. TypeOK'
    BY <1>1 DEF TypeOK, Steps
  <1>5. StoreInv' /\ (told \subseteq bound)' /\ VerdictsAreOfPacketsRead'
    BY DEF StoreInv, VerdictsAreOfPacketsRead
  <1>6. JobInv'
    BY <1>2 DEF JobInv, NoJob
  <1>7. OutputInv'
    BY <1>2, <1>3 DEF OutputInv
  <1>8. ValidateInv' /\ UndisturbedValidationsAgree'
    BY <1>2 DEF ValidateInv, UndisturbedValidationsAgree
  <1>9. SettledOutputsMatchTheRun'
    BY DEF SettledOutputsMatchTheRun
  <1> QED
    BY <1>4, <1>5, <1>6, <1>7, <1>8, <1>9

-----------------------------------------------------------------------------
(* Commands that start *)

LEMMA StartDecideKeepsIInv ==
    ASSUME IInv, NEW t \in Terminals, NEW r \in Targets, NEW o \in Outputs,
           StartDecide(t, r, o)
    PROVE  IInv'
  <1> USE DEF IInv, StartDecide, Go
  <1> DEFINE new == [NoJob EXCEPT !.run = r, !.out = o]
  <1>1. /\ new \in Jobs
        /\ new.command = "decide" /\ new.out = o
    BY DEF NoJob, Jobs, Commands
  <1> HIDE DEF new
  <1>2. /\ job' = [job EXCEPT ![t] = new]
        /\ step[t] = "idle"
    BY DEF new
  <1>3. \A q \in Terminals :
          IF q = t THEN step'[q] = "read" /\ job'[q] = new
          ELSE step'[q] = step[q] /\ job'[q] = job[q]
    BY <1>2 DEF TypeOK
  <1>4. \A q \in Terminals, f \in Outputs :
          Writing(q, f)' <=> (q = t /\ f = o) \/ (q # t /\ Writing(q, f))
    BY <1>1, <1>2, <1>3 DEF Writing
  <1>5. \A q \in Terminals :
          own'[q] <=> IF q = t THEN \A other \in Terminals \ {t} : ~Writing(other, o)
                      ELSE own[q] /\ ~Writing(q, o)
    OBVIOUS
  <1>6. TypeOK'
    <2>1. own' \in [Terminals -> BOOLEAN]
      BY DEF TypeOK, Writing
    <2> QED
      BY <1>1, <1>2, <2>1 DEF TypeOK, Steps
  <1>7. StoreInv' /\ (told \subseteq bound)' /\ VerdictsAreOfPacketsRead'
    BY DEF StoreInv, VerdictsAreOfPacketsRead
  <1>8. JobInv'
    <2>1. bound' = bound
      OBVIOUS
    <2>2. ASSUME NEW q \in Terminals, q # t
          PROVE  step'[q] = step[q] /\ job'[q] = job[q]
      BY <2>2, <1>3
    <2>3. step'[t] = "read" /\ job'[t] = new
      BY <1>3
    <2> QED
      BY <2>1, <2>2, <2>3, <1>1 DEF JobInv
  <1>9. OutputInv'
    <2>1. \A q \in Terminals : step'[q] = "write" => output'[job'[q].out] # Null
      BY <1>3 DEF OutputInv
    <2>2. ASSUME NEW q \in Terminals, NEW f \in Outputs, Writing(q, f)', own'[q]
          PROVE  /\ \A other \in Terminals \ {q} : ~Writing(other, f)'
                 /\ step'[q] = "write" => output'[f] = <<>>
                 /\ step'[q] \in {"bind", "print"} => output'[f] = Text(job'[q].packet)
      BY <2>2, <1>3, <1>4, <1>5 DEF OutputInv
    <2>3. \A f \in Outputs : settled'[f] # Null => \A q \in Terminals : ~Writing(q, f)'
      BY <1>4 DEF OutputInv, TypeOK
    <2> QED
      BY <2>1, <2>2, <2>3 DEF OutputInv
  <1>10. ValidateInv' /\ UndisturbedValidationsAgree'
    BY <1>1, <1>3, <1>5 DEF ValidateInv, UndisturbedValidationsAgree
  <1>11. SettledOutputsMatchTheRun'
    BY DEF SettledOutputsMatchTheRun, TypeOK
  <1> QED
    BY <1>6, <1>7, <1>8, <1>9, <1>10, <1>11

\* A step of a command that is not writing a file and does not touch one.
LEMMA AsideKeepsOutputs ==
    ASSUME IInv, NEW t \in Terminals,
           \A o \in Outputs : ~Writing(t, o)',
           \A q \in Terminals \ {t} :
               step'[q] = step[q] /\ job'[q] = job[q] /\ own'[q] = own[q],
           step'[t] # "write", bound \subseteq bound', UNCHANGED <<output, settled>>
    PROVE  OutputInv' /\ SettledOutputsMatchTheRun'
  <1>1. \A q \in Terminals, o \in Outputs : Writing(q, o)' => Writing(q, o) /\ q # t
    BY DEF Writing
  <1>2. OutputInv'
    BY <1>1 DEF IInv, OutputInv
  <1>3. SettledOutputsMatchTheRun'
    BY DEF IInv, SettledOutputsMatchTheRun
  <1> QED
    BY <1>2, <1>3

LEMMA StartReviewInitKeepsIInv ==
    ASSUME IInv, NEW t \in Terminals, NEW r \in RunIds, StartReviewInit(t, r)
    PROVE  IInv'
  <1> USE DEF IInv, StartReviewInit, Go
  <1> DEFINE new == [NoJob EXCEPT !.command = "review-init", !.run = r]
  <1>1. new \in Jobs /\ new.command = "review-init" /\ new.run = r
    BY DEF NoJob, Jobs, Commands, Targets
  <1> HIDE DEF new
  <1>2. job' = [job EXCEPT ![t] = new]
    BY DEF new
  <1>3. \A q \in Terminals :
          IF q = t THEN step'[q] = "load" /\ job'[q] = new
          ELSE step'[q] = step[q] /\ job'[q] = job[q] /\ own'[q] = own[q]
    BY <1>2 DEF TypeOK
  <1>4. TypeOK'
    BY <1>1, <1>2 DEF TypeOK, Steps
  <1>5. StoreInv' /\ (told \subseteq bound)' /\ VerdictsAreOfPacketsRead'
    BY DEF StoreInv, VerdictsAreOfPacketsRead
  <1>6. JobInv'
    <2>1. bound' = bound
      OBVIOUS
    <2>2. ASSUME NEW q \in Terminals, q # t
          PROVE  step'[q] = step[q] /\ job'[q] = job[q]
      BY <2>2, <1>3
    <2>3. step'[t] = "load" /\ job'[t] = new
      BY <1>3
    <2> QED
      BY <2>1, <2>2, <2>3, <1>1 DEF JobInv
  <1>7. OutputInv' /\ SettledOutputsMatchTheRun'
    BY <1>3, AsideKeepsOutputs DEF Writing
  <1>8. ValidateInv' /\ UndisturbedValidationsAgree'
    BY <1>3 DEF ValidateInv, UndisturbedValidationsAgree
  <1> QED
    BY <1>4, <1>5, <1>6, <1>7, <1>8

LEMMA StartValidateKeepsIInv ==
    ASSUME IInv, NEW t \in Terminals, StartValidate(t)
    PROVE  IInv'
  <1> USE DEF IInv, StartValidate, Go
  <1> DEFINE new == [NoJob EXCEPT !.command = "validate"]
  <1>1. new \in Jobs /\ new.command = "validate" /\ new.run = NoDatabase
    BY DEF NoJob, Jobs, Commands, Targets
  <1> HIDE DEF new
  <1>2. job' = [job EXCEPT ![t] = new]
    BY DEF new
  <1>3. \A q \in Terminals :
          IF q = t THEN step'[q] = "first" /\ job'[q] = new
          ELSE step'[q] = step[q] /\ job'[q] = job[q] /\ own'[q] = own[q]
    BY <1>2 DEF TypeOK
  <1>4. TypeOK'
    BY <1>1, <1>2 DEF TypeOK, Steps
  <1>5. StoreInv' /\ (told \subseteq bound)' /\ VerdictsAreOfPacketsRead'
    BY DEF StoreInv, VerdictsAreOfPacketsRead
  <1>6. JobInv'
    <2>1. bound' = bound
      OBVIOUS
    <2>2. ASSUME NEW q \in Terminals, q # t
          PROVE  step'[q] = step[q] /\ job'[q] = job[q]
      BY <2>2, <1>3
    <2>3. step'[t] = "first" /\ job'[t] = new
      BY <1>3
    <2> QED
      BY <2>1, <2>2, <2>3, <1>1 DEF JobInv
  <1>7. OutputInv' /\ SettledOutputsMatchTheRun'
    BY <1>3, AsideKeepsOutputs DEF Writing
  <1>8. ValidateInv' /\ UndisturbedValidationsAgree'
    BY <1>3 DEF ValidateInv, UndisturbedValidationsAgree
  <1> QED
    BY <1>4, <1>5, <1>6, <1>7, <1>8

-----------------------------------------------------------------------------
(* Steps that leave the files alone *)

LEMMA MoveKeepsIInv ==
    ASSUME IInv, NEW t \in Terminals, NEW to \in Steps \ {"write"}, NEW new \in Jobs,
           step' = [step EXCEPT ![t] = to], job' = [job EXCEPT ![t] = new],
           UNCHANGED <<case, output, own, history>>,
           bound \subseteq bound', bound' \subseteq [run_id : RunIds, decision_digest : Digests],
           StoreInv', VerdictsAreOfPacketsRead', Knows(t)',
           \A o \in Outputs :
              Writing(t, o)' => /\ Writing(t, o)
                                /\ own[t] /\ to \in {"bind", "print"} =>
                                      output[o] = Text(new.packet),
           to = "second" /\ own[t] => new.candidate = CandidateOf[case],
           to = "print" /\ new.command = "validate" /\ own[t] =>
              new.candidate = CandidateOf[new.packet]
    PROVE  IInv'
  <1> USE DEF IInv
  <1>1. step'[t] = to /\ job'[t] = new
    BY DEF TypeOK
  <1>2. \A q \in Terminals \ {t} : step'[q] = step[q] /\ job'[q] = job[q]
    BY DEF TypeOK
  <1>3. TypeOK'
    BY DEF TypeOK
  <1>4. JobInv'
    <2>1. \A q \in Terminals \ {t} : Knows(q) => Knows(q)'
      BY <1>2
    <2> QED
      BY <2>1 DEF JobInv
  <1>5. \A q \in Terminals \ {t}, o \in Outputs : Writing(q, o)' <=> Writing(q, o)
    BY <1>2 DEF Writing
  <1>6. OutputInv'
    <2>1. \A q \in Terminals : step'[q] = "write" => output'[job'[q].out] # Null
      BY <1>1, <1>2 DEF OutputInv
    <2>2. ASSUME NEW q \in Terminals, NEW f \in Outputs, Writing(q, f)', own'[q]
          PROVE  /\ \A other \in Terminals \ {q} : ~Writing(other, f)'
                 /\ step'[q] = "write" => output'[f] = <<>>
                 /\ step'[q] \in {"bind", "print"} => output'[f] = Text(job'[q].packet)
      <3>1. CASE q = t
        BY <3>1, <2>2, <1>1, <1>5 DEF OutputInv
      <3>2. CASE q # t
        BY <3>2, <2>2, <1>2, <1>5 DEF OutputInv
      <3> QED
        BY <3>1, <3>2
    <2>3. \A f \in Outputs : settled'[f] # Null => \A q \in Terminals : ~Writing(q, f)'
      BY <1>5 DEF OutputInv
    <2> QED
      BY <2>1, <2>2, <2>3 DEF OutputInv
  <1>7. ValidateInv' /\ UndisturbedValidationsAgree'
    BY <1>1, <1>2 DEF ValidateInv, UndisturbedValidationsAgree
  <1>8. SettledOutputsMatchTheRun'
    BY DEF SettledOutputsMatchTheRun
  <1>9. (told \subseteq bound)'
    OBVIOUS
  <1> QED
    BY <1>3, <1>4, <1>6, <1>7, <1>8, <1>9

\* What holds of the database when it is left alone.
LEMMA SameStore ==
    ASSUME IInv, UNCHANGED <<store, read>>
    PROVE  /\ bound \subseteq bound'
           /\ bound' \subseteq [run_id : RunIds, decision_digest : Digests]
           /\ StoreInv' /\ VerdictsAreOfPacketsRead'
  BY DEF IInv, TypeOK, StoreInv, VerdictsAreOfPacketsRead

\* What holds of it once a run is bound,
LEMMA BindKeepsStore ==
    ASSUME IInv, NEW r \in RunIds, NEW d \in Digests, Store!Bind(r, d), UNCHANGED read
    PROVE  /\ bound \subseteq bound'
           /\ bound' \subseteq [run_id : RunIds, decision_digest : Digests]
           /\ [run_id |-> r, decision_digest |-> d] \in bound'
           /\ StoreInv' /\ VerdictsAreOfPacketsRead'
  <1> DEFINE new == [run_id |-> r, decision_digest |-> d]
  <1>1. /\ bound' = bound \union {new} /\ open' = open /\ closed' = closed
        /\ \A b \in bound : b.run_id # new.run_id
    BY DEF Store!Bind
  <1>2. \A b, c \in bound' : b.run_id = c.run_id => b = c
    BY <1>1 DEF IInv, StoreInv
  <1>3. StoreInv'
    BY <1>1, <1>2 DEF IInv, StoreInv
  <1>4. VerdictsAreOfPacketsRead'
    BY <1>1 DEF IInv, VerdictsAreOfPacketsRead
  <1> QED
    BY <1>1, <1>3, <1>4 DEF IInv, TypeOK

\* a challenge is issued,
LEMMA IssueKeepsStore ==
    ASSUME IInv, NEW b \in bound, NEW n, NEW now, NEW ttl, Store!Issue(b, n, now, ttl),
           UNCHANGED read
    PROVE  /\ bound' = bound /\ StoreInv' /\ VerdictsAreOfPacketsRead'
  <1> DEFINE new == [run_id |-> b.run_id, decision_digest |-> b.decision_digest,
                     nonce |-> n, issued_at |-> now, expires_at |-> now + ttl]
  <1>1. /\ bound' = bound /\ closed' = closed
        /\ open' \subseteq open \union {new}
    BY DEF Store!Issue
  <1>2. b = [run_id |-> b.run_id, decision_digest |-> b.decision_digest]
    BY DEF IInv, TypeOK
  <1>3. [run_id |-> new.run_id, decision_digest |-> new.decision_digest] \in bound
    BY <1>2
  <1> HIDE DEF new
  <1>4. StoreInv'
    BY <1>1, <1>3 DEF IInv, StoreInv
  <1>5. VerdictsAreOfPacketsRead'
    BY <1>1 DEF IInv, VerdictsAreOfPacketsRead
  <1> QED
    BY <1>1, <1>4, <1>5

\* and a verdict is given on a packet its reviewer has read.
LEMMA DecideKeepsStore ==
    ASSUME IInv, NEW o \in open, NEW who, NEW act, NEW now, Store!Decide(o, who, act, now),
           o.decision_digest \in read[who], UNCHANGED read
    PROVE  /\ bound' = bound /\ StoreInv' /\ VerdictsAreOfPacketsRead'
  <1> DEFINE new == [run_id |-> o.run_id, decision_digest |-> o.decision_digest,
                     nonce |-> o.nonce, reviewer |-> who, action |-> act,
                     reviewed_at |-> now]
  <1>1. /\ bound' = bound /\ closed' = closed \union {new} /\ open' \subseteq open
    BY DEF Store!Decide
  <1>2. new.decision_digest \in read[new.reviewer]
    OBVIOUS
  <1> HIDE DEF new
  <1>3. StoreInv'
    BY <1>1 DEF IInv, StoreInv
  <1>4. VerdictsAreOfPacketsRead'
    BY <1>1, <1>2 DEF IInv, VerdictsAreOfPacketsRead
  <1> QED
    BY <1>1, <1>3, <1>4

-----------------------------------------------------------------------------
(* The moves, command by command *)

\* The record of a command that has learnt a packet.
LEMMA LearntJob ==
    ASSUME TypeOK, NEW t \in Terminals, NEW d \in Digests
    PROVE  LET new == [job[t] EXCEPT !.packet = d]
           IN  /\ new \in Jobs /\ new.packet = d
               /\ new.command = job[t].command /\ new.run = job[t].run
               /\ new.out = job[t].out /\ new.candidate = job[t].candidate
  BY DEF TypeOK, Jobs

LEMMA ReadCaseKeepsIInv ==
    ASSUME IInv, NEW t \in Terminals, ReadCase(t)
    PROVE  IInv'
  <1>1. CASE case = Null
    BY <1>1, EndKeepsIInv DEF ReadCase
  <1>2. CASE case # Null
    <2> DEFINE new == [job[t] EXCEPT !.packet = case]
    <2>1. case \in Digests /\ TypeOK /\ Knows(t)
      BY <1>2 DEF IInv, TypeOK, JobInv
    <2>2. /\ new \in Jobs /\ new.packet = case
          /\ new.command = job[t].command /\ new.run = job[t].run /\ new.out = job[t].out
      BY <2>1, LearntJob
    <2>3. job' = [job EXCEPT ![t] = new]
      BY <1>2 DEF ReadCase, Learn
    <2> HIDE DEF new
    <2>4. /\ step[t] = "read" /\ step' = [step EXCEPT ![t] = "open"]
          /\ UNCHANGED <<store, case, output, own, history>>
      BY <1>2 DEF ReadCase, Learn, Go
    <2>5. step'[t] = "open" /\ job'[t] = new
      BY <2>1, <2>3, <2>4 DEF TypeOK
    <2>6. Knows(t)'
      BY <2>1, <2>2, <2>4, <2>5
    <2>7. \A o \in Outputs :
            Writing(t, o)' => /\ Writing(t, o)
                              /\ own[t] /\ "open" \in {"bind", "print"} =>
                                    output[o] = Text(new.packet)
      BY <2>2, <2>4, <2>5 DEF Writing
    <2> QED
      BY <2>2, <2>3, <2>4, <2>6, <2>7, SameStore, MoveKeepsIInv DEF Steps
  <1> QED
    BY <1>1, <1>2

\* A command that goes on to print its answer.
LEMMA GoesToPrint ==
    ASSUME IInv, NEW t \in Terminals, Goes(t, "print"),
           step[t] \in {"bind", "issue"},
           UNCHANGED <<case, output, history>>,
           bound \subseteq bound', bound' \subseteq [run_id : RunIds, decision_digest : Digests],
           StoreInv', VerdictsAreOfPacketsRead',
           [run_id |-> job[t].run, decision_digest |-> job[t].packet] \in bound'
    PROVE  IInv'
  <1>1. TypeOK /\ Knows(t) /\ OutputInv
    BY DEF IInv, JobInv
  <1>2. /\ step' = [step EXCEPT ![t] = "print"]
        /\ job' = [job EXCEPT ![t] = job[t]] /\ job[t] \in Jobs
        /\ UNCHANGED <<own, job>>
    BY <1>1 DEF Goes, Go, TypeOK
  <1>3. step'[t] = "print" /\ job'[t] = job[t]
    BY <1>1, <1>2 DEF TypeOK
  <1>4. Knows(t)'
    BY <1>1, <1>3
  <1>5. \A o \in Outputs :
          Writing(t, o)' => Writing(t, o) /\ (own[t] => output[o] = Text(job[t].packet))
    BY <1>1, <1>3 DEF Writing, OutputInv
  <1> QED
    BY <1>1, <1>2, <1>4, <1>5, MoveKeepsIInv DEF Steps

LEMMA CreateRunKeepsIInv ==
    ASSUME IInv, NEW t \in Terminals, CreateRun(t)
    PROVE  IInv'
  <1> DEFINE r == job[t].run
             d == job[t].packet
  <1>1. d \in Digests /\ step[t] = "bind" /\ UNCHANGED <<case, output, history>>
    BY DEF CreateRun, IInv, JobInv
  <1>2. CASE r \in RunIds /\ Store!Bind(r, d) /\ Goes(t, "print")
    BY <1>1, <1>2, BindKeepsStore, GoesToPrint
  <1>3. CASE \E b \in bound : /\ b.run_id = r /\ b.decision_digest = d
                              /\ Goes(t, "print") /\ UNCHANGED store
    <2>1. PICK b \in bound : /\ b.run_id = r /\ b.decision_digest = d
                             /\ Goes(t, "print") /\ UNCHANGED store
      BY <1>3
    <2>2. b = [run_id |-> r, decision_digest |-> d]
      BY <2>1 DEF IInv, TypeOK
    <2>3. [run_id |-> r, decision_digest |-> d] \in bound'
      BY <2>1, <2>2
    <2> QED
      BY <1>1, <2>1, <2>3, SameStore, GoesToPrint
  <1>4. CASE End(t) /\ UNCHANGED store
    BY <1>1, <1>4, EndKeepsIInv
  <1> QED
    BY <1>2, <1>3, <1>4 DEF CreateRun

LEMMA LoadPacketKeepsIInv ==
    ASSUME IInv, NEW t \in Terminals, LoadPacket(t)
    PROVE  IInv'
  <1>1. CASE \E b \in bound : b.run_id = job[t].run /\ Learn(t, b.decision_digest, "issue")
    <2>1. PICK b \in bound : b.run_id = job[t].run /\ Learn(t, b.decision_digest, "issue")
      BY <1>1
    <2> DEFINE d   == b.decision_digest
               new == [job[t] EXCEPT !.packet = d]
    <2>2. d \in Digests /\ TypeOK /\ Knows(t) /\ b = [run_id |-> job[t].run, decision_digest |-> d]
      BY <2>1 DEF IInv, TypeOK, JobInv
    <2>3. /\ new \in Jobs /\ new.packet = d
          /\ new.command = job[t].command /\ new.run = job[t].run /\ new.out = job[t].out
      BY <2>2, LearntJob
    <2>4. job' = [job EXCEPT ![t] = new]
      BY <2>1 DEF Learn
    <2> HIDE DEF new
    <2>5. /\ step[t] = "load" /\ step' = [step EXCEPT ![t] = "issue"]
          /\ UNCHANGED <<store, case, output, own, history>>
      BY <2>1 DEF LoadPacket, Learn, Go
    <2>6. step'[t] = "issue" /\ job'[t] = new
      BY <2>2, <2>4, <2>5 DEF TypeOK
    <2>7. Knows(t)'
      <3>1. [run_id |-> new.run, decision_digest |-> new.packet] \in bound'
        BY <2>2, <2>3, <2>5
      <3> QED
        BY <2>2, <2>3, <2>5, <2>6, <3>1
    <2>8. \A o \in Outputs : ~Writing(t, o)'
      BY <2>6 DEF Writing
    <2> QED
      BY <2>3, <2>4, <2>5, <2>7, <2>8, SameStore, MoveKeepsIInv DEF Steps
  <1>2. CASE End(t)
    BY <1>2, EndKeepsIInv DEF LoadPacket
  <1> QED
    BY <1>1, <1>2 DEF LoadPacket

LEMMA IssueChallengeKeepsIInv ==
    ASSUME IInv, NEW t \in Terminals, IssueChallenge(t)
    PROVE  IInv'
  <1> DEFINE b == [run_id |-> job[t].run, decision_digest |-> job[t].packet]
  <1>1. step[t] = "issue" /\ UNCHANGED <<case, output, history>>
    BY DEF IssueChallenge
  <1>2. CASE /\ b \in bound
             /\ \E n \in Nonces, now \in Times, ttl \in MinTtl..MaxTtl :
                   Store!Issue(b, n, now, ttl)
             /\ Goes(t, "print")
    <2>1. PICK n \in Nonces, now \in Times, ttl \in MinTtl..MaxTtl :
                   Store!Issue(b, n, now, ttl)
      BY <1>2
    <2>2. bound' = bound /\ StoreInv' /\ VerdictsAreOfPacketsRead'
      BY <1>1, <1>2, <2>1, IssueKeepsStore
    <2>3. bound' \subseteq [run_id : RunIds, decision_digest : Digests]
      BY <2>2 DEF IInv, TypeOK
    <2> QED
      BY <1>1, <1>2, <2>2, <2>3, GoesToPrint
  <1>3. CASE End(t) /\ UNCHANGED store
    BY <1>1, <1>3, EndKeepsIInv
  <1> QED
    BY <1>2, <1>3 DEF IssueChallenge

LEMMA ReviewKeepsIInv ==
    ASSUME IInv, NEW t \in Terminals, NEW r \in RunIds, NEW who \in Reviewers,
           NEW act \in Actions, NEW n \in issued, NEW now \in Times, NEW d \in read[who],
           Review(t, r, who, act, d, n, now)
    PROVE  IInv'
  <1> DEFINE new == [NoJob EXCEPT !.command = "review", !.run = r, !.packet = d]
  <1>1. PICK o \in open : Redeems(o, r, d, n, now) /\ Store!Decide(o, who, act, now)
    BY DEF Review
  <1>2. o.run_id = r /\ o.decision_digest = d
    BY <1>1 DEF Redeems
  <1>3. /\ step[t] = "idle" /\ step' = [step EXCEPT ![t] = "print"]
        /\ job' = [job EXCEPT ![t] = new]
        /\ UNCHANGED <<case, output, own, history>>
    BY DEF Review, Go
  <1>4. bound' = bound /\ StoreInv' /\ VerdictsAreOfPacketsRead'
    BY <1>1, <1>2, <1>3, DecideKeepsStore
  <1>5. /\ [run_id |-> r, decision_digest |-> d] \in bound
        /\ bound \subseteq [run_id : RunIds, decision_digest : Digests]
    BY <1>2 DEF IInv, StoreInv, TypeOK
  <1>6. d \in Digests
    BY <1>5
  <1>7. new \in Jobs /\ new.command = "review" /\ new.run = r /\ new.packet = d
    BY <1>6 DEF NoJob, Jobs, Commands, Targets
  <1> HIDE DEF new
  <1>8. step'[t] = "print" /\ job'[t] = new
    BY <1>3 DEF IInv, TypeOK
  <1>9. Knows(t)'
    BY <1>4, <1>5, <1>7, <1>8
  <1>10. \A o2 \in Outputs : ~Writing(t, o2)'
    BY <1>7, <1>8 DEF Writing
  <1> QED
    BY <1>3, <1>4, <1>5, <1>7, <1>9, <1>10, MoveKeepsIInv DEF Steps

LEMMA ReadCandidateKeepsIInv ==
    ASSUME IInv, NEW t \in Terminals, ReadCandidate(t)
    PROVE  IInv'
  <1>1. CASE case = Null
    BY <1>1, EndKeepsIInv DEF ReadCandidate
  <1>2. CASE case # Null
    <2> DEFINE new == [job[t] EXCEPT !.candidate = CandidateOf[case]]
    <2>1. case \in Digests /\ TypeOK /\ Knows(t)
      BY <1>2 DEF IInv, TypeOK, JobInv
    <2>2. /\ new \in Jobs /\ new.candidate = CandidateOf[case]
          /\ new.command = job[t].command /\ new.run = job[t].run /\ new.out = job[t].out
      BY <2>1 DEF TypeOK, Jobs
    <2>3. job' = [job EXCEPT ![t] = new]
      BY <1>2 DEF ReadCandidate
    <2> HIDE DEF new
    <2>4. /\ step[t] = "first" /\ step' = [step EXCEPT ![t] = "second"]
          /\ UNCHANGED <<store, case, output, own, history>>
      BY <1>2 DEF ReadCandidate, Go
    <2>5. step'[t] = "second" /\ job'[t] = new
      BY <2>1, <2>3, <2>4 DEF TypeOK
    <2>6. Knows(t)'
      BY <2>1, <2>2, <2>4, <2>5
    <2>7. \A o \in Outputs : ~Writing(t, o)'
      BY <2>5 DEF Writing
    <2> QED
      BY <2>2, <2>3, <2>4, <2>6, <2>7, SameStore, MoveKeepsIInv DEF Steps
  <1> QED
    BY <1>1, <1>2

LEMMA ReadCaseAgainKeepsIInv ==
    ASSUME IInv, NEW t \in Terminals, ReadCaseAgain(t)
    PROVE  IInv'
  <1>1. CASE case = Null
    BY <1>1, EndKeepsIInv DEF ReadCaseAgain
  <1>2. CASE case # Null
    <2> DEFINE new == [job[t] EXCEPT !.packet = case]
    <2>1. case \in Digests /\ TypeOK /\ Knows(t)
      BY <1>2 DEF IInv, TypeOK, JobInv
    <2>2. /\ new \in Jobs /\ new.packet = case /\ new.candidate = job[t].candidate
          /\ new.command = job[t].command /\ new.run = job[t].run /\ new.out = job[t].out
      BY <2>1, LearntJob
    <2>3. job' = [job EXCEPT ![t] = new]
      BY <1>2 DEF ReadCaseAgain, Learn
    <2> HIDE DEF new
    <2>4. /\ step[t] = "second" /\ step' = [step EXCEPT ![t] = "print"]
          /\ UNCHANGED <<store, case, output, own, history>>
      BY <1>2 DEF ReadCaseAgain, Learn, Go
    <2>5. step'[t] = "print" /\ job'[t] = new
      BY <2>1, <2>3, <2>4 DEF TypeOK
    <2>6. new.command = "validate" /\ new.run = NoDatabase
      BY <2>1, <2>2, <2>4
    <2>7. Knows(t)'
      BY <2>5, <2>6
    <2>8. \A o \in Outputs : ~Writing(t, o)'
      BY <2>5, <2>6 DEF Writing
    <2>9. own[t] => new.candidate = CandidateOf[new.packet]
      BY <2>2, <2>4 DEF IInv, ValidateInv
    <2> QED
      BY <2>2, <2>3, <2>4, <2>7, <2>8, <2>9, SameStore, MoveKeepsIInv DEF Steps
  <1> QED
    BY <1>1, <1>2

-----------------------------------------------------------------------------
(* Steps that write a file *)

LEMMA WritingKeepsIInv ==
    ASSUME IInv, NEW t \in Terminals, step[t] \in {"open", "write"},
           NEW to \in {"write", "bind", "print"}, NEW text \in Seq(Digests),
           Goes(t, to), output' = [output EXCEPT ![job[t].out] = text],
           to = "print" => job[t].run \notin RunIds,
           own[t] => IF to = "write" THEN text = <<>> ELSE text = Text(job[t].packet),
           UNCHANGED <<store, case, history>>
    PROVE  IInv'
  <1> USE DEF IInv, Goes, Go
  <1> DEFINE o == job[t].out
  <1>1. /\ Knows(t) /\ o \in Outputs /\ job[t].command = "decide"
        /\ Writing(t, o)
    BY DEF JobInv, Writing
  <1>2. text # Null
    OBVIOUS
  <1>3. \A f \in Outputs : output'[f] = IF f = o THEN text ELSE output[f]
    BY <1>1 DEF TypeOK
  <1>4. \A q \in Terminals : step'[q] = IF q = t THEN to ELSE step[q]
    BY DEF TypeOK
  <1>5. TypeOK'
    BY <1>1 DEF TypeOK, Steps
  <1>6. StoreInv' /\ (told \subseteq bound)' /\ VerdictsAreOfPacketsRead'
    BY SameStore
  <1>7. JobInv'
    <2>1. Knows(t)'
      BY <1>1, <1>4
    <2>2. \A q \in Terminals \ {t} : Knows(q)'
      BY <1>4 DEF JobInv
    <2> QED
      BY <2>1, <2>2 DEF JobInv
  <1>8. \A q \in Terminals, f \in Outputs : Writing(q, f)' <=> Writing(q, f)
    BY <1>1, <1>4 DEF Writing
  <1>9. OutputInv'
    <2>1. \A q \in Terminals : step'[q] = "write" => output'[job[q].out] # Null
      <3> SUFFICES ASSUME NEW q \in Terminals, step'[q] = "write"
                   PROVE  output'[job[q].out] # Null
        OBVIOUS
      <3>1. job[q].out \in Outputs /\ (q # t => step[q] = "write")
        BY <1>1, <1>4 DEF JobInv
      <3> QED
        BY <3>1, <1>2, <1>3 DEF OutputInv
    <2>2. ASSUME NEW q \in Terminals, NEW f \in Outputs, Writing(q, f)', own'[q]
          PROVE  /\ \A other \in Terminals \ {q} : ~Writing(other, f)'
                 /\ step'[q] = "write" => output'[f] = <<>>
                 /\ step'[q] \in {"bind", "print"} => output'[f] = Text(job'[q].packet)
      <3>1. /\ Writing(q, f) /\ own[q]
            /\ \A other \in Terminals \ {q} : ~Writing(other, f)
        BY <2>2, <1>8 DEF OutputInv
      <3>2. CASE q = t
        <4>1. f = o
          BY <3>1, <3>2 DEF Writing
        <4> QED
          BY <3>1, <3>2, <4>1, <1>3, <1>4, <1>8
      <3>3. CASE q # t
        <4>1. f # o
          BY <3>1, <3>3, <1>1
        <4> QED
          BY <3>1, <3>3, <4>1, <1>3, <1>4, <1>8 DEF OutputInv
      <3> QED
        BY <3>2, <3>3
    <2>3. \A f \in Outputs : settled'[f] # Null => \A q \in Terminals : ~Writing(q, f)'
      BY <1>8 DEF OutputInv
    <2> QED
      BY <2>1, <2>2, <2>3 DEF OutputInv
  <1>10. ValidateInv' /\ UndisturbedValidationsAgree'
    BY <1>1, <1>4 DEF ValidateInv, UndisturbedValidationsAgree
  <1>11. SettledOutputsMatchTheRun'
    <2>1. settled[o] = Null
      BY <1>1 DEF OutputInv
    <2> QED
      BY <2>1, <1>3 DEF SettledOutputsMatchTheRun
  <1> QED
    BY <1>5, <1>6, <1>7, <1>9, <1>10, <1>11

LEMMA OpenOutputKeepsIInv ==
    ASSUME IInv, NEW t \in Terminals, OpenOutput(t)
    PROVE  IInv'
  BY EmptySeq, WritingKeepsIInv DEF OpenOutput

LEMMA WriteOutputKeepsIInv ==
    ASSUME IInv, NEW t \in Terminals, WriteOutput(t)
    PROVE  IInv'
  <1> DEFINE o    == job[t].out
             d    == job[t].packet
             text == Overwrite(output[o], Text(d))
             to   == IF job[t].run = NoDatabase THEN "print" ELSE "bind"
  <1>1. /\ o \in Outputs /\ d \in Digests /\ job[t].command = "decide"
        /\ step[t] = "write" /\ output[o] # Null
    BY DEF WriteOutput, IInv, JobInv, OutputInv
  <1>2. output[o] \in Seq(Digests)
    BY <1>1 DEF IInv, TypeOK
  <1>3. text \in Seq(Digests)
    BY <1>1, <1>2, TextIsText, OverwriteIsText
  <1>4. own[t] => text = Text(d)
    <2>1. own[t] => output[o] = <<>>
      BY <1>1 DEF IInv, OutputInv, Writing
    <2> QED
      BY <2>1, <1>1, TextIsText, OverwriteNothing
  <1>5. Goes(t, to) /\ output' = [output EXCEPT ![o] = text] /\ UNCHANGED <<store, case, history>>
    BY DEF WriteOutput
  <1>6. /\ to \in {"write", "bind", "print"} /\ to # "write"
        /\ to = "print" => job[t].run \notin RunIds
    OBVIOUS
  <1> HIDE DEF text, to
  <1> QED
    BY <1>1, <1>3, <1>4, <1>5, <1>6, WritingKeepsIInv

-----------------------------------------------------------------------------
(* Answers, and what happens around the commands *)

LEMMA PrintAnswerKeepsIInv ==
    ASSUME IInv, NEW t \in Terminals, PrintAnswer(t)
    PROVE  IInv'
  <1> USE DEF IInv, End, Go
  <1> DEFINE j     == job[t]
             fresh == j.command = "decide" /\ j.run \in RunIds /\ own[t]
  <1>1. NoJob \in Jobs
    BY DEF NoJob, Jobs, Commands, Targets
  <1>2. /\ step[t] = "print" /\ step' = [step EXCEPT ![t] = "idle"]
        /\ job' = [job EXCEPT ![t] = NoJob] /\ own' = [own EXCEPT ![t] = FALSE]
        /\ UNCHANGED <<store, case, output, read>>
    BY DEF PrintAnswer
  <1>3. \A q \in Terminals :
          IF q = t THEN step'[q] = "idle" /\ job'[q] = NoJob /\ own'[q] = FALSE
          ELSE step'[q] = step[q] /\ job'[q] = job[q] /\ own'[q] = own[q]
    BY <1>2 DEF TypeOK
  <1>4. \A q \in Terminals, o \in Outputs : Writing(q, o)' => Writing(q, o) /\ q # t
    BY <1>3 DEF Writing
  <1>5. Knows(t)
    BY DEF JobInv
  <1>6. told' \subseteq bound
    <2>1. j.run \in RunIds => [run_id |-> j.run, decision_digest |-> j.packet] \in bound
      BY <1>2, <1>5
    <2> QED
      BY <2>1 DEF PrintAnswer
  <1>7. settled' = IF fresh THEN [settled EXCEPT ![j.out] = j.run] ELSE settled
    BY DEF PrintAnswer
  <1>8. ASSUME fresh
        PROVE  /\ j.out \in Outputs
               /\ \A o \in Outputs : o = j.out => \A q \in Terminals : ~Writing(q, o)'
               /\ output[j.out] = Text(j.packet)
               /\ [run_id |-> j.run, decision_digest |-> j.packet] \in bound
    <2>1. j.out \in Outputs /\ [run_id |-> j.run, decision_digest |-> j.packet] \in bound
      BY <1>2, <1>5, <1>8
    <2>2. Writing(t, j.out) /\ own[t]
      BY <1>2, <1>8 DEF Writing
    <2>3. /\ \A q \in Terminals \ {t} : ~Writing(q, j.out)
          /\ output[j.out] = Text(j.packet)
      BY <1>2, <2>1, <2>2 DEF OutputInv
    <2>4. \A o \in Outputs : o = j.out => \A q \in Terminals : ~Writing(q, o)'
      BY <1>4, <2>3
    <2> QED
      BY <2>1, <2>3, <2>4
  <1>9. \A o \in Outputs : settled'[o] = IF fresh /\ o = j.out THEN j.run ELSE settled[o]
    BY <1>7, <1>8 DEF TypeOK
  <1> HIDE DEF fresh
  <1>10. TypeOK'
    <2>1. told' \subseteq [run_id : RunIds, decision_digest : Digests]
      BY <1>6 DEF TypeOK
    <2>2. fresh => j.run \in RunIds
      BY DEF fresh
    <2>3. settled' \in [Outputs -> RunIds \union {Null}]
      BY <1>7, <2>2 DEF TypeOK
    <2> QED
      BY <1>1, <1>2, <2>1, <2>3 DEF TypeOK, Steps
  <1>11. StoreInv' /\ VerdictsAreOfPacketsRead' /\ (told \subseteq bound)'
    BY <1>2, <1>6, SameStore
  <1>12. JobInv'
    BY <1>2, <1>3 DEF JobInv, NoJob
  <1>13. OutputInv'
    <2>1. \A q \in Terminals : step'[q] = "write" => output'[job'[q].out] # Null
      BY <1>2, <1>3 DEF OutputInv
    <2>2. ASSUME NEW q \in Terminals, NEW f \in Outputs, Writing(q, f)', own'[q]
          PROVE  /\ \A other \in Terminals \ {q} : ~Writing(other, f)'
                 /\ step'[q] = "write" => output'[f] = <<>>
                 /\ step'[q] \in {"bind", "print"} => output'[f] = Text(job'[q].packet)
      BY <2>2, <1>2, <1>3, <1>4 DEF OutputInv
    <2>3. \A f \in Outputs : settled'[f] # Null => \A q \in Terminals : ~Writing(q, f)'
      <3> SUFFICES ASSUME NEW f \in Outputs, settled'[f] # Null, NEW q \in Terminals
                   PROVE  ~Writing(q, f)'
        OBVIOUS
      <3>1. CASE fresh /\ f = j.out
        BY <3>1, <1>8
      <3>2. CASE ~(fresh /\ f = j.out)
        BY <3>2, <1>4, <1>9 DEF OutputInv
      <3> QED
        BY <3>1, <3>2
    <2> QED
      BY <2>1, <2>2, <2>3 DEF OutputInv
  <1>14. ValidateInv' /\ UndisturbedValidationsAgree'
    BY <1>2, <1>3 DEF ValidateInv, UndisturbedValidationsAgree
  <1>15. SettledOutputsMatchTheRun'
    <2> SUFFICES ASSUME NEW o \in Outputs, settled'[o] # Null
                 PROVE  \E b \in bound : b.run_id = settled'[o]
                                       /\ output[o] = Text(b.decision_digest)
      BY <1>2 DEF SettledOutputsMatchTheRun
    <2>1. CASE fresh /\ o = j.out
      BY <2>1, <1>8, <1>9
    <2>2. CASE ~(fresh /\ o = j.out)
      BY <2>2, <1>9 DEF SettledOutputsMatchTheRun
    <2> QED
      BY <2>1, <2>2
  <1> QED
    BY <1>10, <1>11, <1>12, <1>13, <1>14, <1>15

LEMMA RebuildKeepsIInv ==
    ASSUME IInv, NEW d \in Digests \union {Null}, Rebuild(d)
    PROVE  IInv'
  <1> USE DEF IInv, Rebuild
  <1>1. \A q \in Terminals : own'[q] <=> own[q] /\ job[q].command # "validate"
    OBVIOUS
  <1>2. TypeOK'
    <2>1. own' \in [Terminals -> BOOLEAN]
      BY DEF TypeOK
    <2> QED
      BY <2>1 DEF TypeOK
  <1>3. StoreInv' /\ (told \subseteq bound)' /\ VerdictsAreOfPacketsRead' /\ JobInv'
    BY DEF StoreInv, VerdictsAreOfPacketsRead, JobInv
  <1>4. OutputInv' /\ SettledOutputsMatchTheRun'
    BY <1>1 DEF OutputInv, SettledOutputsMatchTheRun, Writing
  <1>5. ValidateInv' /\ UndisturbedValidationsAgree'
    BY <1>1 DEF ValidateInv, UndisturbedValidationsAgree, JobInv
  <1> QED
    BY <1>2, <1>3, <1>4, <1>5

LEMMA ReadOutputKeepsIInv ==
    ASSUME IInv, NEW who \in Reviewers, NEW o \in Outputs, ReadOutput(who, o)
    PROVE  IInv'
  <1> USE DEF IInv, ReadOutput
  <1>1. Shown(output[o]) \subseteq Digests
    <2>1. output[o] \in Seq(Digests)
      BY DEF TypeOK
    <2> QED
      BY <2>1 DEF Shown
  <1>2. TypeOK'
    BY <1>1 DEF TypeOK
  <1>3. \A w : read[w] \subseteq read'[w] \/ w \notin Reviewers
    BY DEF TypeOK
  <1>4. VerdictsAreOfPacketsRead'
    <2>1. \A v \in closed : read[v.reviewer] \subseteq read'[v.reviewer]
      BY DEF TypeOK
    <2> QED
      BY <2>1 DEF VerdictsAreOfPacketsRead
  <1>5. StoreInv' /\ (told \subseteq bound)' /\ JobInv'
    BY DEF StoreInv, JobInv
  <1>6. OutputInv' /\ SettledOutputsMatchTheRun'
    BY DEF OutputInv, SettledOutputsMatchTheRun, Writing
  <1>7. ValidateInv' /\ UndisturbedValidationsAgree'
    BY DEF ValidateInv, UndisturbedValidationsAgree
  <1> QED
    BY <1>2, <1>4, <1>5, <1>6, <1>7

-----------------------------------------------------------------------------
(* The theorems *)

LEMMA NextKeepsIInv == IInv /\ [Next]_vars => IInv'
  <1> SUFFICES ASSUME IInv, [Next]_vars PROVE IInv'
    OBVIOUS
  <1>1. ASSUME NEW t \in Terminals, Command(t) PROVE IInv'
    <2>1. CASE \E r \in Targets, o \in Outputs : StartDecide(t, r, o)
      BY <2>1, StartDecideKeepsIInv
    <2>2. CASE ReadCase(t) \/ OpenOutput(t) \/ WriteOutput(t) \/ CreateRun(t)
      BY <2>2, ReadCaseKeepsIInv, OpenOutputKeepsIInv, WriteOutputKeepsIInv,
         CreateRunKeepsIInv
    <2>3. CASE \E r \in RunIds : StartReviewInit(t, r)
      BY <2>3, StartReviewInitKeepsIInv
    <2>4. CASE LoadPacket(t) \/ IssueChallenge(t)
      BY <2>4, LoadPacketKeepsIInv, IssueChallengeKeepsIInv
    <2>5. CASE \E r \in RunIds, who \in Reviewers, act \in Actions, n \in issued,
                  now \in Times : \E d \in read[who] : Review(t, r, who, act, d, n, now)
      BY <2>5, ReviewKeepsIInv
    <2>6. CASE StartValidate(t) \/ ReadCandidate(t) \/ ReadCaseAgain(t)
      BY <2>6, StartValidateKeepsIInv, ReadCandidateKeepsIInv, ReadCaseAgainKeepsIInv
    <2>7. CASE PrintAnswer(t)
      BY <2>7, PrintAnswerKeepsIInv
    <2>8. CASE Interrupt(t)
      BY <2>8, EndKeepsIInv DEF Interrupt
    <2> QED
      BY <1>1, <2>1, <2>2, <2>3, <2>4, <2>5, <2>6, <2>7, <2>8 DEF Command
  <1>2. CASE \E d \in Digests \union {Null} : Rebuild(d)
    BY <1>2, RebuildKeepsIInv
  <1>3. CASE \E who \in Reviewers, o \in Outputs : ReadOutput(who, o)
    BY <1>3, ReadOutputKeepsIInv
  <1>4. CASE UNCHANGED vars
    BY <1>4, StutterKeepsIInv
  <1> QED
    BY <1>1, <1>2, <1>3, <1>4 DEF Next

\* The inductive invariant of the commands, their database and their files
\* (cli.py 73-139).
THEOREM RoomInvariant == Spec => []IInv
  BY InitIInv, NextKeepsIInv, PTL DEF Spec

\* Every variable of the decision room keeps its type.
THEOREM RoomTypes == Spec => []TypeOK
  <1>1. IInv => TypeOK
    BY DEF IInv
  <1> QED
    BY <1>1, RoomInvariant, PTL

\* Whatever commands print about a run, in whatever order they race, fail, are
\* interrupted and tried again, is the packet the database holds for it
\* (cli.py 105, store.py 118-123).
THEOREM OneStoryPerRun == Spec => []RunsTellOneStory
  <1>1. IInv => RunsTellOneStory
    <2> SUFFICES ASSUME IInv, NEW a \in told, NEW b \in bound
                 PROVE  /\ [run_id |-> a.run_id, decision_digest |-> a.decision_digest] \in bound
                        /\ b.run_id = a.run_id => b.decision_digest = a.decision_digest
      BY DEF RunsTellOneStory
    <2>1. a \in bound /\ a \in [run_id : RunIds, decision_digest : Digests]
      BY DEF IInv, TypeOK
    <2>2. a = [run_id |-> a.run_id, decision_digest |-> a.decision_digest]
      BY <2>1
    <2> QED
      BY <2>1, <2>2 DEF IInv, StoreInv
  <1> QED
    BY <1>1, RoomInvariant, PTL

\* No verdict is about a packet its reviewer has not read, although decide
\* leaves files with packets the database refused (cli.py 100-105).
THEOREM VerdictsRestOnReading == Spec => []VerdictsAreOfPacketsRead
  <1>1. IInv => VerdictsAreOfPacketsRead
    BY DEF IInv
  <1> QED
    BY <1>1, RoomInvariant, PTL

\* The file of a decide that had it for itself and bound its run holds the
\* packet of the run, whatever was in the file before (cli.py 65-67).
THEOREM SettledOutputsAreRight == Spec => []SettledOutputsMatchTheRun
  <1>1. IInv => SettledOutputsMatchTheRun
    BY DEF IInv
  <1> QED
    BY <1>1, RoomInvariant, PTL

\* The two readings of an undisturbed validate agree (cli.py 74-76).
THEOREM ValidationsAgree == Spec => []UndisturbedValidationsAgree
  <1>1. IInv => UndisturbedValidationsAgree
    BY DEF IInv
  <1> QED
    BY <1>1, RoomInvariant, PTL
=============================================================================
