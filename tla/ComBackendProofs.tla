-------------------------- MODULE ComBackendProofs --------------------------
(***************************************************************************)
(* Proofs about ComBackend, for every number of calls, drawings, restarts  *)
(* and clients.                                                            *)
(***************************************************************************)
EXTENDS ComBackend, SequenceTheorems, FiniteSetTheorems, TLAPS

LEMMA WithoutType ==
  ASSUME line \in Seq(Calls), NEW i \in 1 .. Len(line)
  PROVE  Without(i) \in Seq(Calls)
<1>1. Len(line) - 1 \in Nat
  OBVIOUS
<1>2. ASSUME NEW j \in 1 .. Len(line) - 1
      PROVE  (IF j < i THEN line[j] ELSE line[j + 1]) \in Calls
  BY <1>2
<1> QED BY <1>1, <1>2, IsASeq DEF Without

LEMMA MarkTypes ==
  ASSUME TypeOK
  PROVE  /\ [marks EXCEPT ![bound] = @ + 1] \in [Docs -> Nat]
         /\ [marks EXCEPT ![bound] = Closed(bound)] \in [Docs -> Nat]
<1>1. marks \in [Docs -> Nat]
  BY DEF TypeOK
<1>2. ASSUME NEW d \in Docs
      PROVE  marks[d] + 1 \in Nat /\ Closed(d) \in Nat
  BY <1>1 DEF Closed
<1>3. CASE bound \in Docs
  BY <1>1, <1>2, <1>3
<1>4. CASE bound \notin Docs
  BY <1>1, <1>4
<1> QED BY <1>3, <1>4

LEMMA InitInv == Init => IInv
<1> SUFFICES ASSUME Init PROVE IInv
  OBVIOUS
<1>1. TypeOK
  <2>1. /\ quarantined \in BOOLEAN /\ timeoutUncertain \in BOOLEAN /\ integrity \in BOOLEAN
        /\ bound \in Docs \cup {None} /\ scope \in Docs \cup {None} /\ attached \in Nat \cup {None}
        /\ active \in Docs /\ holder \in Calls \cup {None}
    BY DEF Init, CoordinatorInit
  <2>2. line \in Seq(Calls) /\ sta \in Seq(Calls)
    BY DEF Init, CoordinatorInit
  <2>3. depth \in Int /\ cad \in Nat /\ marks \in [Docs -> Nat]
    BY DEF Init
  <2>4. /\ op \in [Calls -> AllKinds \cup {"none"}]
        /\ pc \in [Calls -> {"fresh", "line", "sent", "back"}]
        /\ told \in [Calls -> {"nothing", "refused", "timeout", "cancelled"} \cup Ended]
        /\ job \in [Calls -> {"none", "queued", "running"} \cup Ended]
    BY DEF Init
  <2> QED BY <2>1, <2>2, <2>3, <2>4 DEF TypeOK
<1>2. CoroutinesInv /\ AnswersTruthful
  BY NoneAssumption DEF Init, CoroutinesInv, AnswersTruthful
<1>3. HolderInv /\ WritingInv
  BY DEF Init, CoordinatorInit, HolderInv, WritingInv, Writing
<1> QED BY <1>1, <1>2, <1>3 DEF IInv

-----------------------------------------------------------------------------
(* Types *)

LEMMA CallingTypes ==
  ASSUME TypeOK, NEW c \in Calls, Calling(c)
  PROVE  TypeOK'
<1> USE KindsAssumption DEF TypeOK, Made, Dispatch, Answer, AllKinds, Ended, threadVars, backendVars, cadVars, coordinatorVars
<1>1. CASE CallRead(c)
  BY <1>1 DEF CallRead
<1>2. ASSUME NEW k \in Kinds, CallRefused(c, k) PROVE TypeOK'
  BY <1>2 DEF CallRefused
<1>3. ASSUME NEW k \in Kinds, CallEnters(c, k) PROVE TypeOK'
  BY <1>3 DEF CallEnters
<1>4. ASSUME NEW k \in Kinds, CallWaits(c, k) PROVE TypeOK'
  BY <1>4 DEF CallWaits
<1> QED BY <1>1, <1>2, <1>3, <1>4 DEF Calling

LEMMA StaTypes ==
  ASSUME TypeOK, NEW c \in Calls, StaStep(c)
  PROVE  TypeOK'
<1> USE DEF TypeOK, Takes, Running, EndJob, ScopeKept, QuarantineIntegrity, Quarantine, Ended,
        loopVars, backendVars, cadVars, coordinatorVars
<1>1. CASE AppLostInTransaction(c) BY <1>1 DEF AppLostInTransaction
<1>2. CASE AttachFails(c) BY <1>2 DEF AttachFails
<1>3. CASE DrawingChanged(c) BY <1>3 DEF DrawingChanged
<1>4. CASE JobStarts(c) BY <1>4 DEF JobStarts
<1>5. CASE JobSucceeds(c)
  <2>1. marks' \in [Docs -> Nat]
    BY <1>5, MarkTypes DEF JobSucceeds
  <2>2. active' \in Docs
    BY <1>5 DEF JobSucceeds
  <2> QED BY <1>5, <2>1, <2>2 DEF JobSucceeds
<1>6. CASE JobFails(c) BY <1>6 DEF JobFails
<1>7. CASE RollbackTorn(c)
  <2>1. [marks EXCEPT ![bound] = Closed(bound)] \in [Docs -> Nat]
    BY MarkTypes
  <2> QED BY <1>7, <2>1 DEF RollbackTorn
<1>8. CASE IntegrityFails(c) BY <1>8 DEF IntegrityFails
<1> QED BY <1>1, <1>2, <1>3, <1>4, <1>5, <1>6, <1>7, <1>8 DEF StaStep

LEMMA LoopTypes ==
  ASSUME TypeOK, NEW c \in Calls, LoopStep(c)
  PROVE  TypeOK'
<1> USE DEF TypeOK, Wakes, IsNext, Dispatch, Answer, Release, Waiting, Ended,
        threadVars, backendVars, cadVars, coordinatorVars
<1>1. CASE WaiterEnters(c) BY <1>1 DEF WaiterEnters
<1>2. CASE WaiterRefused(c) BY <1>2 DEF WaiterRefused
<1>3. CASE Returns(c)
  <2>1. quarantined' \in BOOLEAN /\ timeoutUncertain' \in BOOLEAN
    BY <1>3, Zenon DEF Returns
  <2>2. depth' \in Int
    BY <1>3 DEF Returns
  <2> QED BY <1>3, <2>1, <2>2 DEF Returns
<1>4. ASSUME NEW what \in {"timeout", "cancelled"}, GivesUp(c, what) PROVE TypeOK'
  <2>1. quarantined' \in BOOLEAN /\ timeoutUncertain' \in BOOLEAN
    BY <1>4, Zenon DEF GivesUp
  <2> QED BY <1>4, <2>1 DEF GivesUp
<1>5. CASE CancelledInLine(c)
  <2>1. line' \in Seq(Calls)
    BY <1>5, WithoutType DEF CancelledInLine
  <2> QED BY <1>5, <2>1 DEF CancelledInLine
<1> QED BY <1>1, <1>2, <1>3, <1>4, <1>5 DEF LoopStep, TimesOut, CancelledAfterDispatch

LEMMA EnvironmentTypes ==
  ASSUME TypeOK, CadRestarts \/ UserSwitchesDrawing \/ \E c \in Calls : NativeStep(c)
  PROVE  TypeOK'
<1> USE DEF TypeOK, Ended, loopVars, threadVars, backendVars, cadVars, coordinatorVars
<1>1. CASE CadRestarts BY <1>1 DEF CadRestarts
<1>2. CASE UserSwitchesDrawing BY <1>2 DEF UserSwitchesDrawing
<1>3. ASSUME NEW c \in Calls, NEW how \in Ended, NativeEnds(c, how) PROVE TypeOK'
  BY <1>3 DEF NativeEnds
<1> QED BY <1>1, <1>2, <1>3 DEF NativeStep

-----------------------------------------------------------------------------
(* What a step does to the mutations that are with AutoCAD *)

\* A call that is handed over is the only one, because it has taken the lock.
LEMMA NobodyWrites ==
  ASSUME IInv, holder = None, EnsureWritable
  PROVE  Writing = {}
BY NoneAssumption DEF IInv, WritingInv, EnsureWritable, Writing

\* The inductive invariant but for the types, which each kind of step keeps.
LEMMA CallingKeepsInv ==
  ASSUME IInv, NEW c \in Calls, Calling(c)
  PROVE  IInv'
<1>0. TypeOK'
  BY CallingTypes DEF IInv
<1>k. ASSUME NEW k \in Kinds \ {"read"} PROVE k \in Mutations
  BY <1>k, KindsAssumption DEF AllKinds
<1> USE NoneAssumption DEF IInv, TypeOK, CoroutinesInv, HolderInv, WritingInv, AnswersTruthful, Writing, Made,
        Dispatch, Answer, threadVars, backendVars, cadVars, coordinatorVars
<1>1. CASE CallRead(c)
  <2>1. Writing' = Writing
    BY <1>1 DEF CallRead, Mutations, Transactional
  <2>2. CoroutinesInv' /\ AnswersTruthful'
    BY <1>1 DEF CallRead, Mutations, Transactional, Ended
  <2>3. HolderInv'
    BY <1>1 DEF CallRead
  <2>4. WritingInv'
    BY <1>1, <2>1 DEF CallRead
  <2> QED BY <1>0, <2>2, <2>3, <2>4
<1>2. ASSUME NEW k \in Kinds \ {"read"}, CallRefused(c, k) PROVE IInv'
  <2>1. Writing' = Writing
    BY <1>2 DEF CallRefused
  <2>2. CoroutinesInv' /\ AnswersTruthful'
    BY <1>2, <1>k DEF CallRefused, Mutations, Transactional
  <2>3. HolderInv'
    BY <1>2 DEF CallRefused
  <2>4. WritingInv'
    BY <1>2, <2>1 DEF CallRefused
  <2> QED BY <1>0, <2>2, <2>3, <2>4
<1>3. ASSUME NEW k \in Kinds \ {"read"}, CallEnters(c, k) PROVE IInv'
  <2>0. Writing = {} /\ holder = None
    BY <1>3, NobodyWrites DEF CallEnters, LockFree
  <2>1. Writing' = {c}
    BY <1>3, <1>k, <2>0 DEF CallEnters
  <2>2. CoroutinesInv' /\ AnswersTruthful'
    BY <1>3, <1>k, <2>0 DEF CallEnters, Mutations, Transactional, Ended
  <2>3. HolderInv'
    BY <1>3, <1>k DEF CallEnters
  <2>4. WritingInv'
    BY <1>3, <2>1 DEF CallEnters
  <2> QED BY <1>0, <2>2, <2>3, <2>4
<1>4. ASSUME NEW k \in Kinds \ {"read"}, CallWaits(c, k) PROVE IInv'
  <2>1. Writing' = Writing
    BY <1>4 DEF CallWaits
  <2>2. CoroutinesInv' /\ AnswersTruthful'
    BY <1>4, <1>k DEF CallWaits, Mutations, Transactional
  <2>3. HolderInv'
    BY <1>4 DEF CallWaits
  <2>4. WritingInv'
    BY <1>4, <2>1 DEF CallWaits
  <2> QED BY <1>0, <2>2, <2>3, <2>4
<1> QED BY <1>1, <1>2, <1>3, <1>4 DEF Calling

\* A thread's step moves one job on; the coroutines and the lock do not notice.
JobMoves(c) ==
  /\ job[c] \in {"queued", "running"}
  /\ \E how \in {"running"} \cup Ended : job' = [job EXCEPT ![c] = how]
  /\ UNCHANGED <<holder, op, pc, told>>
  /\ quarantined' = quarantined \/ quarantined' = TRUE

LEMMA JobKeepsInv ==
  ASSUME IInv, TypeOK', NEW c \in Calls, JobMoves(c)
  PROVE  IInv'
<1> PICK how \in {"running"} \cup Ended : job' = [job EXCEPT ![c] = how]
  BY DEF JobMoves
<1> USE DEF IInv, TypeOK, CoroutinesInv, HolderInv, WritingInv, AnswersTruthful, Writing, JobMoves, Ended
<1>1. Writing' \subseteq Writing
  OBVIOUS
<1>2. CoroutinesInv'
  OBVIOUS
<1>3. AnswersTruthful'
  <2> SUFFICES ASSUME NEW d \in Calls, op[d] \in Mutations
               PROVE  /\ told[d] \in {"refused", "cancelled", "timeout"} => job'[d] = "none"
                      /\ told[d] \in {"ok", "error"} => job'[d] = told[d]
    OBVIOUS
  <2>1. CASE d = c
    <3>1. job[d] # "none" /\ job[d] \notin {"ok", "error"}
      BY <2>1
    <3>2. told[d] \notin {"refused", "cancelled", "timeout", "ok", "error"}
      BY <3>1
    <3> QED BY <3>2
  <2>2. CASE d # c
    <3>1. job'[d] = job[d]
      BY <2>2
    <3> QED BY <3>1
  <2> QED BY <2>1, <2>2
<1>4. HolderInv'
  OBVIOUS
<1>5. WritingInv'
  BY <1>1
<1> QED BY <1>2, <1>3, <1>4, <1>5

LEMMA StaMoves ==
  ASSUME NEW c \in Calls, StaStep(c)
  PROVE  JobMoves(c)
<1> USE DEF JobMoves, Takes, Running, EndJob, QuarantineIntegrity, Quarantine, Ended, coordinatorVars, loopVars
<1>1. CASE AppLostInTransaction(c) BY <1>1 DEF AppLostInTransaction
<1>2. CASE AttachFails(c) BY <1>2 DEF AttachFails
<1>3. CASE DrawingChanged(c) BY <1>3 DEF DrawingChanged
<1>4. CASE JobStarts(c) BY <1>4 DEF JobStarts
<1>5. CASE JobSucceeds(c) BY <1>5 DEF JobSucceeds
<1>6. CASE JobFails(c) BY <1>6 DEF JobFails
<1>7. CASE RollbackTorn(c) BY <1>7 DEF RollbackTorn
<1>8. CASE IntegrityFails(c) BY <1>8 DEF IntegrityFails
<1> QED BY <1>1, <1>2, <1>3, <1>4, <1>5, <1>6, <1>7, <1>8 DEF StaStep

LEMMA NativeMoves ==
  ASSUME NEW c \in Calls, NativeStep(c)
  PROVE  JobMoves(c)
BY DEF NativeStep, NativeEnds, JobMoves, coordinatorVars, loopVars

LEMMA StaKeepsInv ==
  ASSUME IInv, NEW c \in Calls, StaStep(c)
  PROVE  IInv'
BY StaTypes, StaMoves, JobKeepsInv DEF IInv

LEMMA NativeKeepsInv ==
  ASSUME IInv, NEW c \in Calls, NativeStep(c)
  PROVE  IInv'
<1>1. TypeOK'
  BY EnvironmentTypes DEF IInv
<1>2. JobMoves(c)
  BY NativeMoves
<1> QED BY <1>1, <1>2, JobKeepsInv

\* The step that gives the result, or the quarantine, in exchange for the lock.
LEMMA LoopKeepsInv ==
  ASSUME IInv, NEW c \in Calls, LoopStep(c)
  PROVE  IInv'
<1>0. TypeOK'
  BY LoopTypes DEF IInv
<1> USE NoneAssumption DEF IInv, TypeOK, CoroutinesInv, HolderInv, WritingInv, AnswersTruthful, Writing, Wakes,
        IsNext, Dispatch, Answer, Release, Waiting, threadVars, backendVars, cadVars, coordinatorVars
<1>1. CASE WaiterEnters(c)
  <2>0. Writing = {} /\ holder = None /\ op[c] \in Mutations
    BY <1>1, NobodyWrites DEF WaiterEnters
  <2>1. Writing' = {c}
    BY <1>1, <2>0 DEF WaiterEnters
  <2>2. CoroutinesInv' /\ AnswersTruthful'
    BY <1>1, <2>0 DEF WaiterEnters, Ended
  <2>3. HolderInv'
    BY <1>1, <2>0 DEF WaiterEnters
  <2>4. WritingInv'
    BY <1>1, <2>1 DEF WaiterEnters
  <2> QED BY <1>0, <2>2, <2>3, <2>4
<1>2. CASE WaiterRefused(c)
  <2>1. Writing' = Writing
    BY <1>2 DEF WaiterRefused
  <2>2. CoroutinesInv' /\ AnswersTruthful' /\ HolderInv'
    BY <1>2 DEF WaiterRefused
  <2>3. WritingInv'
    BY <1>2, <2>1 DEF WaiterRefused
  <2> QED BY <1>0, <2>2, <2>3
<1>3. CASE Returns(c)
  <2>1. Writing' = Writing /\ c \notin Writing
    BY <1>3 DEF Returns, Ended
  <2>2. CoroutinesInv'
    BY <1>3 DEF Returns
  <2>3. AnswersTruthful'
    BY <1>3 DEF Returns, Ended
  <2>4. HolderInv'
    BY <1>3 DEF Returns
  <2>5. WritingInv'
    BY <1>3, <2>1 DEF Returns
  <2> QED BY <1>0, <2>2, <2>3, <2>4, <2>5
<1>4. ASSUME NEW what \in {"timeout", "cancelled"}, GivesUp(c, what) PROVE IInv'
  <2>1. Writing' = Writing /\ (quarantined => quarantined')
    BY <1>4 DEF GivesUp
  <2>2. CoroutinesInv'
    BY <1>4 DEF GivesUp
  <2>3. AnswersTruthful'
    BY <1>4 DEF GivesUp, Mutations, Transactional
  <2>4. HolderInv'
    BY <1>4 DEF GivesUp
  <2>5. WritingInv'
    <3>1. CASE op[c] = "read"
      BY <1>4, <2>1, <3>1 DEF GivesUp, Mutations, Transactional
    <3>2. CASE op[c] # "read"
      BY <1>4, <2>1, <3>2 DEF GivesUp
    <3> QED BY <3>1, <3>2
  <2> QED BY <1>0, <2>2, <2>3, <2>4, <2>5
<1>5. CASE CancelledInLine(c)
  <2>1. Writing' = Writing
    BY <1>5 DEF CancelledInLine
  <2>2. CoroutinesInv' /\ AnswersTruthful' /\ HolderInv'
    BY <1>5 DEF CancelledInLine
  <2>3. WritingInv'
    BY <1>5, <2>1 DEF CancelledInLine
  <2> QED BY <1>0, <2>2, <2>3
<1> QED BY <1>1, <1>2, <1>3, <1>4, <1>5 DEF LoopStep, TimesOut, CancelledAfterDispatch

LEMMA NextKeepsInv == IInv /\ [Next]_vars => IInv'
<1> SUFFICES ASSUME IInv, [Next]_vars PROVE IInv'
  OBVIOUS
<1>1. CASE \E c \in Calls : Calling(c) \/ StaStep(c) \/ NativeStep(c) \/ LoopStep(c)
  BY <1>1, CallingKeepsInv, StaKeepsInv, NativeKeepsInv, LoopKeepsInv
<1>2. CASE CadRestarts \/ UserSwitchesDrawing
  <2>1. TypeOK'
    BY <1>2, EnvironmentTypes DEF IInv
  <2>2. UNCHANGED <<holder, quarantined, op, pc, told, job>>
    BY <1>2 DEF CadRestarts, UserSwitchesDrawing, coordinatorVars, loopVars, threadVars
  <2> QED BY <2>1, <2>2 DEF IInv, CoroutinesInv, HolderInv, WritingInv, AnswersTruthful, Writing
<1>3. CASE UNCHANGED vars
  BY <1>3 DEF vars, coordinatorVars, loopVars, threadVars, backendVars, cadVars, IInv, TypeOK, CoroutinesInv,
     HolderInv, WritingInv, AnswersTruthful, Writing
<1> QED BY <1>1, <1>2, <1>3 DEF Next

-----------------------------------------------------------------------------
(* What holds of every behaviour *)

\* A mutation that is with AutoCAD holds the writer lock, or its caller gave up on
\* it and the quarantine took the place of the lock; callers were told the truth
\* (mutation_coordinator.py:55-72, com_backend.py:1015-1024).
THEOREM InductiveInvariant == Spec => []IInv
<1>1. Init => IInv
  BY InitInv
<1>2. IInv /\ [Next]_vars => IInv'
  BY NextKeepsInv
<1> QED BY <1>1, <1>2, PTL DEF Spec

\* Every variable of the two lanes and of their coordinator keeps its type, for
\* any number of calls (com_backend.py:535-556, mutation_coordinator.py:18-23).
THEOREM TypeCorrectness == Spec => []TypeOK
BY InductiveInvariant, PTL DEF IInv

\* What a caller was told about its mutation is true of the drawing: refused and
\* cancelled in the line mean not handed over, an answer means not with AutoCAD
\* any more (com_backend.py:1105-1162, server.py:653-685).
THEOREM Truthful == Spec => []AnswersTruthful
BY InductiveInvariant, PTL DEF IInv

-----------------------------------------------------------------------------
(* The two lanes implement FailStopWriter *)

AbstractStep == [Authority!Next]_(Authority!vars)

\* The three things a step can do to the mutations that are with AutoCAD.
Stays == Writing' = Writing /\ quarantined' \in {quarantined, TRUE}
Starts(c) == Writing = {} /\ Writing' = {c} /\ ~quarantined /\ UNCHANGED quarantined
Ends(c) == Writing = {c} /\ Writing' = {} /\ quarantined' \in {quarantined, TRUE}

LEMMA EachIsAbstract ==
  ASSUME Stays \/ \E c \in Calls : Starts(c) \/ Ends(c)
  PROVE  AbstractStep
<1>1. CASE Stays
  BY <1>1 DEF Stays, AbstractStep, Authority!Next, Authority!Shut, Authority!vars
<1>2. ASSUME NEW c \in Calls, Starts(c) PROVE AbstractStep
  BY <1>2 DEF Starts, AbstractStep, Authority!Next, Authority!Start
<1>3. ASSUME NEW c \in Calls, Ends(c) PROVE AbstractStep
  BY <1>3 DEF Ends, AbstractStep, Authority!Next, Authority!Finish
<1> QED BY <1>1, <1>2, <1>3

LEMMA CallingIsAbstract ==
  ASSUME IInv, NEW c \in Calls, Calling(c)
  PROVE  AbstractStep
<1>k. ASSUME NEW k \in Kinds \ {"read"} PROVE k \in Mutations
  BY <1>k, KindsAssumption DEF AllKinds
<1> USE DEF IInv, TypeOK, CoroutinesInv, Writing, Made, Dispatch, Answer, threadVars, backendVars, cadVars, coordinatorVars
<1>1. CASE CallRead(c)
  <2>1. Stays
    BY <1>1 DEF CallRead, Stays, Mutations, Transactional
  <2> QED BY <2>1, EachIsAbstract
<1>2. ASSUME NEW k \in Kinds \ {"read"}, CallRefused(c, k) PROVE AbstractStep
  <2>1. Stays
    BY <1>2 DEF CallRefused, Stays
  <2> QED BY <2>1, EachIsAbstract
<1>3. ASSUME NEW k \in Kinds \ {"read"}, CallEnters(c, k) PROVE AbstractStep
  <2>1. Writing = {} /\ ~quarantined
    BY <1>3, NobodyWrites DEF CallEnters, LockFree, EnsureWritable
  <2>2. Starts(c)
    BY <1>3, <1>k, <2>1 DEF CallEnters, Starts
  <2> QED BY <2>2, EachIsAbstract
<1>4. ASSUME NEW k \in Kinds \ {"read"}, CallWaits(c, k) PROVE AbstractStep
  <2>1. Stays
    BY <1>4 DEF CallWaits, Stays
  <2> QED BY <2>1, EachIsAbstract
<1> QED BY <1>1, <1>2, <1>3, <1>4 DEF Calling

LEMMA JobIsAbstract ==
  ASSUME IInv, NEW c \in Calls, JobMoves(c)
  PROVE  AbstractStep
<1> PICK how \in {"running"} \cup Ended : job' = [job EXCEPT ![c] = how]
  BY DEF JobMoves
<1>0. quarantined' \in {quarantined, TRUE}
  BY DEF JobMoves
<1> USE DEF IInv, TypeOK, WritingInv, Writing, JobMoves, Ended
<1>1. CASE c \in Writing /\ how # "running"
  <2>1. Writing = {c} /\ Writing' = {}
    BY <1>1
  <2>2. Ends(c)
    BY <1>0, <2>1 DEF Ends
  <2> QED BY <2>2, EachIsAbstract
<1>2. CASE ~(c \in Writing /\ how # "running")
  <2>1. Writing' = Writing
    BY <1>2
  <2>2. Stays
    BY <1>0, <2>1 DEF Stays
  <2> QED BY <2>2, EachIsAbstract
<1> QED BY <1>1, <1>2

LEMMA LoopIsAbstract ==
  ASSUME IInv, NEW c \in Calls, LoopStep(c)
  PROVE  AbstractStep
<1> USE DEF IInv, TypeOK, CoroutinesInv, Writing, Wakes, IsNext, Dispatch, Answer,
        threadVars, backendVars, cadVars, coordinatorVars
<1>1. CASE WaiterEnters(c)
  <2>1. Writing = {} /\ ~quarantined /\ op[c] \in Mutations
    BY <1>1, NobodyWrites DEF WaiterEnters, EnsureWritable
  <2>2. Starts(c)
    BY <1>1, <2>1 DEF WaiterEnters, Starts
  <2> QED BY <2>2, EachIsAbstract
<1>2. CASE WaiterRefused(c) \/ CancelledInLine(c)
  <2>1. Stays
    BY <1>2 DEF WaiterRefused, CancelledInLine, Stays
  <2> QED BY <2>1, EachIsAbstract
<1>3. CASE Returns(c)
  <2>1. quarantined' \in {quarantined, TRUE}
    BY <1>3, Zenon DEF Returns
  <2>2. Writing' = Writing
    BY <1>3 DEF Returns
  <2> QED BY <2>1, <2>2, EachIsAbstract DEF Stays
<1>4. ASSUME NEW what \in {"timeout", "cancelled"}, GivesUp(c, what) PROVE AbstractStep
  <2>1. quarantined' \in {quarantined, TRUE}
    BY <1>4, Zenon DEF GivesUp
  <2>2. Writing' = Writing
    BY <1>4 DEF GivesUp
  <2> QED BY <2>1, <2>2, EachIsAbstract DEF Stays
<1> QED BY <1>1, <1>2, <1>3, <1>4 DEF LoopStep, TimesOut, CancelledAfterDispatch

\* The COM and the native lane are together one fail-stop writer: never two
\* mutations with AutoCAD, and none handed over after the quarantine
\* (mutation_coordinator.py:44-72, com_backend.py:1105-1162, server.py:653-685).
THEOREM ImplementsFailStop == Spec => FailStop
<1>1. Init => Authority!Init
  BY DEF Init, CoordinatorInit, Authority!Init, Writing
<1>2. IInv /\ [Next]_vars => AbstractStep
  <2> SUFFICES ASSUME IInv, [Next]_vars PROVE AbstractStep
    OBVIOUS
  <2>1. CASE UNCHANGED vars
    BY <2>1, EachIsAbstract DEF vars, coordinatorVars, loopVars, threadVars, Stays, Writing
  <2>2. CASE CadRestarts \/ UserSwitchesDrawing
    BY <2>2, EachIsAbstract DEF CadRestarts, UserSwitchesDrawing, coordinatorVars, loopVars, threadVars, Stays, Writing
  <2>3. ASSUME NEW c \in Calls, Calling(c) \/ StaStep(c) \/ NativeStep(c) \/ LoopStep(c) PROVE AbstractStep
    BY <2>3, NativeMoves, StaMoves, JobIsAbstract, CallingIsAbstract, LoopIsAbstract
  <2> QED BY <2>1, <2>2, <2>3 DEF Next
<1> QED BY <1>1, <1>2, InductiveInvariant, PTL DEF Spec, FailStop, Authority!Spec, AbstractStep

-----------------------------------------------------------------------------
(* The depth of one client's transactions *)

OneClient == Clients = 1 /\ "read" \notin Kinds /\ ~UndoMayFail

\* The thread works for the one call that is in progress, or was.
LEMMA SoleJob ==
  ASSUME TypeOK, OneAtATime, NEW c \in Calls, sta # <<>>, Head(sta) = c
  PROVE  /\ sta = <<c>> /\ Tail(sta) = <<>> /\ InFlight \subseteq {c} /\ op[c] # "native"
         /\ job[c] \in {"queued", "running"} /\ (c \in InFlight \/ quarantined)
         /\ ~Closing /\ (Opening <=> op[c] = "begin" /\ job[c] = "running")
<1>1. PICK d \in Calls :
        /\ sta = <<d>> /\ InFlight \subseteq {d}
        /\ job[d] \in {"queued", "running"} /\ op[d] # "native"
        /\ d \in InFlight \/ quarantined
  BY DEF OneAtATime
<1>2. d = c /\ Tail(sta) = <<>>
  BY <1>1
<1>3. Opening <=> op[c] = "begin" /\ job[c] = "running"
  BY <1>1, <1>2 DEF Opening, Running
<1> QED BY <1>1, <1>2, <1>3 DEF Closing

\* Nothing is in progress when a single client makes its next call.
LEMMA NothingInFlight ==
  ASSUME Clients = 1, OneAtATime, Cardinality(InFlight) < Clients
  PROVE  InFlight = {}
<1> SUFFICES ASSUME NEW c \in InFlight PROVE FALSE
  OBVIOUS
<1>1. InFlight = {c}
  BY DEF OneAtATime, InFlight
<1>2. Cardinality({c}) = 1
  BY FS_Singleton
<1> QED BY <1>1, <1>2

LEMMA CallingDepth ==
  ASSUME OneClient, IInv, DepthInv, NEW c \in Calls, Calling(c)
  PROVE  DepthInv'
<1> USE DEF IInv, TypeOK, OneClient, DepthInv
<1>1. pc[c] = "fresh" /\ job[c] = "none" /\ InFlight = {} /\ holder = None /\ line = <<>>
  <2>1. pc[c] = "fresh" /\ Cardinality(InFlight) < Clients
    BY DEF Calling, CallRead, CallRefused, CallEnters, CallWaits, Made
  <2>2. job[c] = "none" /\ InFlight = {}
    BY <2>1, NothingInFlight DEF CoroutinesInv
  <2>3. holder = None
    BY <2>2 DEF HolderInv, InFlight
  <2> QED BY <2>1, <2>2, <2>3 DEF OneAtATime
<1>2. \A d \in Calls : sta = <<d>> => d # c
  BY <1>1 DEF OneAtATime
<1>3. ASSUME NEW k \in Kinds \ {"read"}, CallRefused(c, k) PROVE DepthInv'
  <2>1. /\ op' = [op EXCEPT ![c] = k] /\ pc' = [pc EXCEPT ![c] = "back"]
        /\ UNCHANGED <<coordinatorVars, threadVars, backendVars, cadVars>>
    BY <1>3 DEF CallRefused, Made, Answer
  <2>2. InFlight' = {}
    BY <1>1, <2>1 DEF InFlight
  <2>3. \A d \in Calls : (Running(d)' <=> Running(d)) /\ (Running(d) => op'[d] = op[d])
    BY <1>1, <2>1 DEF Running, threadVars
  <2>4. (Opening' <=> Opening) /\ ~Closing /\ ~Closing'
    BY <1>1, <2>2, <2>3 DEF Opening, Closing
  <2>5. OneAtATime'
    BY <1>1, <1>2, <2>1, <2>2 DEF OneAtATime, coordinatorVars, threadVars
  <2>6. OpenMarks' = OpenMarks /\ InUse' = InUse
    BY <2>1, <2>4 DEF OpenMarks, InUse, coordinatorVars, threadVars, backendVars
  <2>7. DepthInRange => DepthInRange'
    BY <1>1, <2>1, <2>2 DEF DepthInRange, Pending, threadVars, backendVars
  <2>8. MarksInScope => MarksInScope'
    BY <2>1, <2>6 DEF MarksInScope, backendVars, cadVars
  <2>9. RunsInScope => RunsInScope'
    <3>1. UNCHANGED <<attached, bound, scope>>
      BY <2>1 DEF threadVars, backendVars
    <3>2. \A d \in Calls : Running(d)' => Running(d) /\ op'[d] = op[d]
      BY <2>3
    <3> QED BY <3>1, <3>2 DEF RunsInScope
  <2> QED BY <2>1, <2>5, <2>6, <2>7, <2>8, <2>9 DEF backendVars, cadVars
<1>4. ASSUME NEW k \in Kinds \ {"read"}, CallEnters(c, k) PROVE DepthInv'
  <2>1. /\ op' = [op EXCEPT ![c] = k] /\ pc' = [pc EXCEPT ![c] = "sent"]
        /\ job' = [job EXCEPT ![c] = IF k = "native" THEN "running" ELSE "queued"]
        /\ sta' = IF k = "native" THEN sta ELSE Append(sta, c)
        /\ UNCHANGED <<line, quarantined, bound, backendVars, cadVars>>
        /\ Admissible(k) /\ ~quarantined
    BY <1>4 DEF CallEnters, Made, Dispatch, EnsureWritable
  <2>2. sta = <<>> /\ sta' = IF k = "native" THEN <<>> ELSE <<c>>
    <3>1. sta = <<>>
      BY <1>1, <2>1 DEF OneAtATime
    <3>2. Append(<<>>, c) = <<c>>
      OBVIOUS
    <3> QED BY <2>1, <3>1, <3>2
  <2>3. InFlight' = {c}
    BY <1>1, <2>1 DEF InFlight
  <2>4. \A d \in Calls : ~Running(d) /\ ~Running(d)'
    BY <2>1, <2>2 DEF Running
  <2>5. OpenMarks = depth /\ OpenMarks' = depth /\ InUse
    BY <1>1, <2>1, <2>3, <2>4 DEF OpenMarks, Opening, Closing, InUse, backendVars
  <2>6. OneAtATime'
    BY <1>1, <2>1, <2>2, <2>3 DEF OneAtATime
  <2>7. DepthInRange'
    BY <1>1, <2>1, <2>2, <2>3, <2>5 DEF DepthInRange, Pending, Admissible, backendVars
  <2>8. MarksInScope'
    BY <2>1, <2>5 DEF MarksInScope, backendVars, cadVars
  <2>9. RunsInScope'
    BY <2>4 DEF RunsInScope
  <2> QED BY <2>1, <2>6, <2>7, <2>8, <2>9 DEF backendVars, cadVars
<1>5. ASSUME NEW k \in Kinds \ {"read"} PROVE ~CallWaits(c, k)
  BY <1>1 DEF CallWaits, LockFree
<1> QED BY <1>3, <1>4, <1>5 DEF Calling

\* What is left to show when a function has ended.
LEMMA JobEndsDepth ==
  ASSUME IInv, DepthInv, NEW c \in Calls, sta # <<>>, Head(sta) = c,
         NEW how \in {"ok", "error"}, EndJob(c, how), UNCHANGED <<line, op, pc>>,
         quarantined' = quarantined \/ quarantined' = TRUE,
         attached' # None => attached' <= cad',
         NEW open, open = (IF how = "ok" /\ op[c] \in {"commit", "rollback"} THEN depth' - 1 ELSE depth'),
         ~quarantined' =>
           /\ depth' \in 0 .. Limit
           /\ how = "ok" /\ op[c] \in {"commit", "rollback"} => depth' > 0
           /\ how = "ok" /\ op[c] = "new" => depth' = 0
           /\ attached' = None => depth' = 0
           /\ open > 0 => scope' # None
           /\ \A d \in Docs : marks'[d] = IF attached' = cad' /\ d = scope' THEN open ELSE 0
  PROVE  DepthInv'
<1> USE DEF IInv, TypeOK, DepthInv
<1>1. /\ sta' = <<>> /\ InFlight' = InFlight /\ InFlight \subseteq {c} /\ (c \in InFlight \/ quarantined)
      /\ job' = [job EXCEPT ![c] = how]
  BY SoleJob DEF EndJob, InFlight
<1>2. OneAtATime' /\ "read" \notin {op'[d] : d \in Calls}
  BY <1>1 DEF OneAtATime
<1>3. ASSUME InUse' PROVE DepthInRange' /\ MarksInScope' /\ RunsInScope'
  <2>1. ~quarantined' /\ c \in InFlight
    BY <1>1, <1>3 DEF InUse
  <2>2. ~Opening' /\ (Closing' <=> how = "ok" /\ op[c] \in {"commit", "rollback"})
    BY <1>1, <2>1 DEF Opening, Closing, Running, InFlight
  <2>3. OpenMarks' = open
    BY <2>2 DEF OpenMarks
  <2>4. DepthInRange'
    BY <1>1, <2>1 DEF DepthInRange, Pending
  <2>5. MarksInScope'
    BY <2>1, <2>3 DEF MarksInScope
  <2>6. RunsInScope'
    BY <1>1 DEF RunsInScope, Running
  <2> QED BY <2>4, <2>5, <2>6
<1> QED BY <1>2, <1>3

LEMMA JobStartsDepth ==
  ASSUME OneClient, IInv, DepthInv, NEW c \in Calls, JobStarts(c)
  PROVE  DepthInv'
<1> USE DEF IInv, TypeOK, DepthInv
<1>1. /\ sta = <<c>> /\ InFlight \subseteq {c} /\ op[c] # "native"
      /\ (c \in InFlight \/ quarantined) /\ ~Closing /\ ~Opening
  BY SoleJob DEF JobStarts, Takes
<1>2. DepthInRange /\ MarksInScope /\ OpenMarks = depth
  BY <1>1 DEF InUse, OpenMarks
<1>3. /\ sta' = sta /\ attached' = cad /\ cad \in Nat /\ bound' = active /\ active \in Docs
      /\ job' = [job EXCEPT ![c] = "running"] /\ job[c] = "queued"
      /\ scope' = (IF op[c] = "new" THEN ScopeKept ELSE active)
      /\ depth' = (IF op[c] = "begin" THEN depth + 1 ELSE depth)
      /\ UNCHANGED <<line, op, pc, quarantined, cad, marks>>
      /\ ~(AppLost /\ depth > 0) /\ ~OtherDrawing(op[c])
  BY DEF JobStarts, Takes, coordinatorVars, loopVars, cadVars
<1>4. InFlight' = InFlight /\ depth \in 0 .. Limit /\ cad # None
  BY <1>2, <1>3, NoneAssumption DEF InFlight, DepthInRange
<1>5. ~Closing' /\ (Opening' <=> op[c] = "begin")
  BY <1>1, <1>3, <1>4 DEF Closing, Opening, Running
<1>6. OpenMarks' = depth
  BY <1>3, <1>4, <1>5 DEF OpenMarks
<1>7. OneAtATime'
  BY <1>1, <1>3, <1>4 DEF OneAtATime
<1>8. DepthInRange'
  <2>1. /\ op[c] = "begin" => depth < Limit
        /\ op[c] \in {"commit", "rollback"} => depth > 0
        /\ op[c] = "new" => depth = 0
    BY <1>1, <1>2, <1>3 DEF DepthInRange, Pending
  <2> QED BY <1>1, <1>3, <1>4, <2>1, LimitAssumption DEF DepthInRange, Pending
<1>9. MarksInScope'
  <2>1. depth > 0 => attached = cad /\ op[c] # "new" /\ scope = active
    <3> SUFFICES ASSUME depth > 0 PROVE attached = cad /\ op[c] # "new" /\ scope = active
      OBVIOUS
    <3>1. attached = cad
      BY <1>2, <1>3 DEF MarksInScope, AppLost
    <3>2. op[c] # "new"
      BY <1>1, <1>2, <1>3 DEF DepthInRange, Pending
    <3> QED BY <1>2, <1>3, <3>1, <3>2 DEF OtherDrawing, ScopeKept, AppLost, MarksInScope
  <2>2. \A d \in Docs : marks[d] = IF d = scope' THEN depth ELSE 0
    <3>1. CASE depth > 0
      BY <1>2, <1>3, <2>1, <3>1 DEF MarksInScope
    <3>2. CASE depth = 0
      BY <1>2, <3>2 DEF MarksInScope
    <3> QED BY <1>4, <3>1, <3>2
  <2>3. depth > 0 => scope' # None
    BY <1>3, <2>1, NoneAssumption
  <2> QED BY <1>3, <1>4, <1>6, <2>2, <2>3 DEF MarksInScope
<1>10. RunsInScope'
  BY <1>1, <1>3, <1>4 DEF RunsInScope, Running
<1>11. "read" \notin {op'[d] : d \in Calls} /\ (attached' # None => attached' <= cad')
  BY <1>3
<1> QED BY <1>7, <1>8, <1>9, <1>10, <1>11

LEMMA StaDepth ==
  ASSUME OneClient, IInv, DepthInv, NEW c \in Calls, StaStep(c)
  PROVE  DepthInv'
<1> USE DEF IInv, TypeOK, OneClient, DepthInv
<1>0. sta # <<>> /\ Head(sta) = c /\ UNCHANGED <<line, op, pc>>
      /\ (quarantined' = quarantined \/ quarantined' = TRUE)
  BY DEF StaStep, AppLostInTransaction, AttachFails, DrawingChanged, JobStarts, JobSucceeds, JobFails, RollbackTorn,
     IntegrityFails, Takes, Running, QuarantineIntegrity, Quarantine, coordinatorVars, loopVars
<1>1. /\ sta = <<c>> /\ InFlight \subseteq {c} /\ ~Closing
      /\ (Opening <=> op[c] = "begin" /\ job[c] = "running")
  BY <1>0, SoleJob
<1>2. DepthInRange /\ MarksInScope /\ RunsInScope /\ depth \in 0 .. Limit
  BY <1>0 DEF InUse, DepthInRange
<1>3. OpenMarks = IF op[c] = "begin" /\ job[c] = "running" THEN depth - 1 ELSE depth
  BY <1>1 DEF OpenMarks
<1>4. CASE AppLostInTransaction(c) \/ IntegrityFails(c)
  <2>1. quarantined' = TRUE /\ EndJob(c, "error") /\ (attached' # None => attached' <= cad')
    BY <1>4 DEF AppLostInTransaction, IntegrityFails, QuarantineIntegrity, Quarantine, cadVars
  <2> QED BY <1>0, <2>1, JobEndsDepth
<1>5. CASE AttachFails(c)
  <2>1. job[c] = "queued" /\ attached # cad /\ ~(AppLost /\ depth > 0)
        /\ attached' = None /\ EndJob(c, "error") /\ UNCHANGED <<depth, cad, marks>>
    BY <1>5 DEF AttachFails, Takes, cadVars
  <2>2. depth = 0
    BY <1>2, <2>1 DEF MarksInScope, AppLost
  <2>3. \A d \in Docs : marks'[d] = 0
    BY <1>2, <2>1 DEF MarksInScope
  <2>4. /\ depth' = 0 /\ depth' \in 0 .. Limit /\ (depth' > 0 => scope' # None)
        /\ \A d \in Docs : marks'[d] = IF attached' = cad' /\ d = scope' THEN depth' ELSE 0
    BY <1>2, <2>1, <2>2, <2>3
  <2>5. attached' # None => attached' <= cad'
    BY <2>1
  <2> QED BY <1>0, <2>1, <2>4, <2>5, JobEndsDepth
<1>6. CASE DrawingChanged(c)
  <2>1. job[c] = "queued" /\ ~(AppLost /\ depth > 0) /\ depth > 0
        /\ attached' = cad /\ EndJob(c, "error") /\ UNCHANGED <<depth, cad, marks, scope>>
    BY <1>6 DEF DrawingChanged, OtherDrawing, Takes, cadVars
  <2>2. attached = cad /\ cad # None
    BY <1>2, <2>1, NoneAssumption DEF MarksInScope, AppLost
  <2> QED BY <1>0, <1>2, <1>3, <2>1, <2>2, JobEndsDepth DEF MarksInScope
<1>7. CASE JobStarts(c)
  BY <1>7, JobStartsDepth
<1>8. CASE JobFails(c)
  <2>1. job[c] = "running" /\ EndJob(c, "error") /\ UNCHANGED <<attached, scope, cad, marks>>
        /\ depth' = IF op[c] = "begin" THEN depth - 1 ELSE depth
    BY <1>8 DEF JobFails, Running, cadVars
  <2>2. depth' = OpenMarks /\ depth' \in 0 .. Limit
    BY <1>1, <1>2, <1>3, <2>1, LimitAssumption DEF DepthInRange, Pending
  <2>3. attached # None
    BY <1>2, <1>8 DEF RunsInScope, JobFails
  <2> QED BY <1>0, <1>2, <2>1, <2>2, <2>3, JobEndsDepth DEF MarksInScope
<1>9. CASE JobSucceeds(c)
  <2>1. /\ job[c] = "running" /\ EndJob(c, "ok") /\ attached = cad
        /\ UNCHANGED <<attached, scope, depth, cad>>
        /\ marks' = CASE op[c] = "begin" -> [marks EXCEPT ![bound] = @ + 1]
                      [] op[c] \in {"commit", "rollback"} -> [marks EXCEPT ![bound] = Closed(bound)]
                      [] OTHER -> marks
    BY <1>9 DEF JobSucceeds, Running, backendVars
  <2>2. attached # None /\ bound \in Docs /\ (op[c] # "new" => bound = scope)
    BY <1>2, <1>9 DEF RunsInScope, JobSucceeds
  <2>3. /\ op[c] = "begin" => depth > 0
        /\ op[c] \in {"commit", "rollback"} => depth > 0
        /\ op[c] = "new" => depth = 0
    BY <1>1, <1>2, <2>1 DEF DepthInRange, Pending
  <2> DEFINE open == IF op[c] \in {"commit", "rollback"} THEN depth - 1 ELSE depth
  <2>4. /\ marks \in [Docs -> Nat] /\ depth \in Nat
        /\ \A d \in Docs : marks[d] = IF d = scope THEN OpenMarks ELSE 0
    BY <1>2, <2>1, LimitAssumption DEF MarksInScope
  <2>5. \A d \in Docs : marks'[d] = IF d = scope THEN open ELSE 0
    <3>1. CASE op[c] = "begin"
      BY <1>3, <2>1, <2>2, <2>3, <2>4, <3>1
    <3>2. CASE op[c] \in {"commit", "rollback"}
      BY <1>3, <2>1, <2>2, <2>3, <2>4, <3>2 DEF Closed
    <3>3. CASE op[c] \notin {"begin", "commit", "rollback"}
      BY <1>3, <2>1, <2>4, <3>3
    <3> QED BY <3>1, <3>2, <3>3
  <2>6. open > 0 => scope # None
    <3>1. CASE op[c] = "new"
      BY <2>3, <3>1
    <3>2. CASE op[c] # "new"
      BY <2>2, <3>2, NoneAssumption
    <3> QED BY <3>1, <3>2
  <2>7. open = IF "ok" = "ok" /\ op[c] \in {"commit", "rollback"} THEN depth' - 1 ELSE depth'
    BY <2>1
  <2> HIDE DEF open
  <2> QED BY <1>0, <1>2, <2>1, <2>2, <2>3, <2>5, <2>6, <2>7, JobEndsDepth
<1>10. ~RollbackTorn(c)
  BY DEF RollbackTorn
<1> QED BY <1>4, <1>5, <1>6, <1>7, <1>8, <1>9, <1>10 DEF StaStep

LEMMA NativeDepth ==
  ASSUME IInv, DepthInv, NEW c \in Calls, NativeStep(c)
  PROVE  DepthInv'
<1> USE DEF IInv, TypeOK, DepthInv
<1>1. PICK how \in Ended : op[c] = "native" /\ job' = [job EXCEPT ![c] = how]
        /\ UNCHANGED <<coordinatorVars, loopVars, sta, bound, backendVars, cadVars>>
  BY DEF NativeStep, NativeEnds
<1>2. UNCHANGED <<line, quarantined, op, pc, sta, bound, depth, attached, scope, cad, marks>> /\ InFlight' = InFlight
  BY <1>1 DEF coordinatorVars, loopVars, backendVars, cadVars, InFlight
<1>3. \A d \in Calls : op[d] # "native" => job'[d] = job[d]
  BY <1>1
<1>4. \A d \in Calls : sta = <<d>> => d # c
  BY <1>1 DEF OneAtATime
<1>5. \A d \in Calls : Running(d)' => Running(d) /\ d # c
  BY <1>1, <1>2, <1>4 DEF Running, OneAtATime
<1>6. OneAtATime'
  BY <1>1, <1>2, <1>4 DEF OneAtATime
<1>7. Opening' = Opening /\ Closing' = Closing
  BY <1>1, <1>2, <1>3 DEF Opening, Closing, Running
<1>8. InUse' = InUse /\ OpenMarks' = OpenMarks
  BY <1>2, <1>7 DEF InUse, OpenMarks
<1>9. DepthInRange => DepthInRange'
  BY <1>1, <1>2, <1>3 DEF DepthInRange, Pending
<1>10. (MarksInScope => MarksInScope') /\ (RunsInScope => RunsInScope')
  BY <1>2, <1>5, <1>8 DEF MarksInScope, RunsInScope
<1> QED BY <1>2, <1>6, <1>8, <1>9, <1>10

\* The call in progress ends; the thread may still work for it.
LEMMA LoopDepth ==
  ASSUME OneClient, IInv, DepthInv, NEW c \in Calls, LoopStep(c)
  PROVE  DepthInv'
<1> USE DEF IInv, TypeOK, OneClient, DepthInv
<1>1. ~WaiterEnters(c) /\ ~WaiterRefused(c) /\ ~CancelledInLine(c)
  BY DEF WaiterEnters, WaiterRefused, Wakes, IsNext, CancelledInLine, OneAtATime
<1>2. pc[c] = "sent" => InFlight = {c}
  BY DEF OneAtATime, InFlight
<1>3. CASE Returns(c)
  <2>1. /\ pc[c] = "sent" /\ job[c] \in Ended /\ pc' = [pc EXCEPT ![c] = "back"]
        /\ quarantined' = (quarantined \/ job[c] = "unknown")
        /\ depth' = CASE job[c] = "ok" /\ op[c] \in {"commit", "rollback"} -> depth - 1
                      [] job[c] = "ok" /\ op[c] = "new" -> 0
                      [] OTHER -> depth
        /\ scope' = IF job[c] = "ok" /\ op[c] = "new" THEN None ELSE scope
        /\ UNCHANGED <<line, op, job, sta, bound, attached, cad, marks>>
    BY <1>3 DEF Returns, Waiting, Answer, threadVars, cadVars
  <2>2. InFlight' = {} /\ sta = <<>>
    BY <1>2, <2>1 DEF InFlight, OneAtATime, Ended
  <2>3. OneAtATime' /\ RunsInScope'
    BY <2>1, <2>2 DEF OneAtATime, RunsInScope, Running
  <2>4. ASSUME InUse' PROVE DepthInRange' /\ MarksInScope'
    <3>1. DepthInRange /\ MarksInScope
      BY <2>1, <2>2, <2>4 DEF InUse
    <3>2. ~Opening /\ ~Opening' /\ ~Closing' /\ (Closing <=> job[c] = "ok" /\ op[c] \in {"commit", "rollback"})
      BY <1>2, <2>1, <2>2 DEF Opening, Closing, Running
    <3>3. /\ Closing => depth > 0
          /\ job[c] = "ok" /\ op[c] = "new" => depth = 0
      BY <1>2, <2>1, <3>1, <3>2 DEF DepthInRange, Pending
    <3>4. depth' = OpenMarks /\ OpenMarks' = depth' /\ depth' \in 0 .. Limit
      BY <2>1, <3>1, <3>2, <3>3, LimitAssumption DEF OpenMarks, DepthInRange
    <3>5. DepthInRange'
      BY <2>1, <2>2, <3>4 DEF DepthInRange, Pending
    <3>6. depth' > 0 => scope' = scope
      BY <2>1, <3>2, <3>3, <3>4
    <3>7. \A d \in Docs : marks'[d] = IF attached' = cad' /\ d = scope' THEN depth' ELSE 0
      <4>1. \A d \in Docs : marks[d] = IF attached = cad /\ d = scope THEN depth' ELSE 0
        BY <3>1, <3>4 DEF MarksInScope
      <4>2. CASE depth' > 0
        BY <2>1, <3>6, <4>1, <4>2
      <4>3. CASE depth' = 0
        BY <2>1, <4>1, <4>3
      <4> QED BY <3>4, <4>2, <4>3
    <3>8. (attached' = None => depth' = 0) /\ (depth' > 0 => scope' # None)
      BY <2>1, <3>1, <3>2, <3>3, <3>4, <3>6 DEF MarksInScope
    <3> QED BY <3>4, <3>5, <3>7, <3>8 DEF MarksInScope
  <2> QED BY <2>1, <2>3, <2>4
<1>4. ASSUME NEW what \in {"timeout", "cancelled"}, GivesUp(c, what) PROVE DepthInv'
  <2>1. /\ pc[c] = "sent" /\ pc' = [pc EXCEPT ![c] = "back"] /\ quarantined' = TRUE
        /\ UNCHANGED <<line, op, job, sta, bound, depth, attached, scope, cad, marks>>
    BY <1>4 DEF GivesUp, Waiting, Answer, threadVars, cadVars
  <2>2. /\ InFlight' = {}
        /\ \A d \in Calls : sta = <<d>> => d = c
    <3>1. InFlight' = {}
      BY <1>2, <2>1 DEF InFlight
    <3>2. ASSUME NEW d \in Calls, sta = <<d>> PROVE d = c
      <4>1. sta # <<>> /\ Head(sta) = d
        BY <3>2
      <4>2. InFlight \subseteq {d}
        BY <4>1, SoleJob
      <4> QED BY <1>2, <2>1, <4>2
    <3> QED BY <3>1, <3>2
  <2>3. OneAtATime'
    BY <2>1, <2>2 DEF OneAtATime
  <2>4. ASSUME InUse' PROVE DepthInRange' /\ MarksInScope' /\ RunsInScope'
    <3>1. sta = <<c>> /\ job[c] \in {"queued", "running"} /\ InUse
      BY <2>1, <2>2, <2>4 DEF InUse, OneAtATime
    <3>2. Opening' = Opening /\ ~Closing' /\ ~Closing
      BY <1>2, <2>1, <2>2, <3>1 DEF Opening, Closing, Running
    <3>3. OpenMarks' = OpenMarks
      BY <2>1, <3>2 DEF OpenMarks
    <3>4. DepthInRange'
      BY <2>1, <2>2, <3>1 DEF DepthInRange, Pending
    <3> QED BY <2>1, <3>1, <3>3, <3>4 DEF MarksInScope, RunsInScope, Running
  <2> QED BY <2>1, <2>3, <2>4
<1> QED BY <1>1, <1>3, <1>4 DEF LoopStep, TimesOut, CancelledAfterDispatch

LEMMA EnvironmentDepth ==
  ASSUME IInv, DepthInv, CadRestarts \/ UserSwitchesDrawing \/ UNCHANGED vars
  PROVE  DepthInv'
<1> USE DEF IInv, TypeOK, DepthInv
<1>1. UNCHANGED <<line, quarantined, op, pc, job, sta, bound, depth, attached, scope>>
  BY DEF CadRestarts, UserSwitchesDrawing, vars, coordinatorVars, loopVars, threadVars, backendVars
<1>2. InFlight' = InFlight /\ \A d \in Calls : Running(d)' = Running(d)
  BY <1>1 DEF InFlight, Running
<1>3. OneAtATime' /\ InUse' = InUse /\ (DepthInRange => DepthInRange') /\ (RunsInScope => RunsInScope')
  BY <1>1, <1>2 DEF OneAtATime, InUse, DepthInRange, Pending, RunsInScope
<1>4. OpenMarks' = OpenMarks
  BY <1>1, <1>2 DEF OpenMarks, Opening, Closing
<1>5. CASE CadRestarts
  <2>1. cad \in Nat /\ cad' = cad + 1 /\ (attached # None => attached \in Nat /\ attached <= cad)
        /\ \A d \in Docs : marks'[d] = 0
    BY <1>5 DEF CadRestarts
  <2>2. attached' # cad' /\ (attached' # None => attached' <= cad')
    BY <1>1, <2>1, NoneAssumption
  <2>3. MarksInScope => MarksInScope'
    BY <1>1, <1>4, <2>1, <2>2 DEF MarksInScope
  <2> QED BY <1>1, <1>3, <2>2, <2>3
<1>6. CASE UNCHANGED <<cad, marks>>
  BY <1>1, <1>3, <1>4, <1>6 DEF MarksInScope
<1> QED BY <1>5, <1>6 DEF UserSwitchesDrawing, vars, cadVars

LEMMA InitDepth == Init => DepthInv
<1> SUFFICES ASSUME Init PROVE DepthInv
  OBVIOUS
<1>1. InFlight = {} /\ sta = <<>> /\ depth = 0 /\ OneAtATime
  BY DEF Init, CoordinatorInit, InFlight, OneAtATime
<1>2. ~Opening /\ ~Closing /\ \A c \in Calls : ~Running(c) /\ ~Pending(c, {"queued", "running", "ok"})
      /\ ~Pending(c, {"queued"}) /\ ~Pending(c, {"running"})
  BY <1>1 DEF Opening, Closing, Running, Pending
<1>3. OpenMarks = 0
  BY <1>1, <1>2 DEF OpenMarks
<1>4. DepthInRange /\ MarksInScope /\ RunsInScope
  BY <1>1, <1>2, <1>3, LimitAssumption DEF DepthInRange, MarksInScope, RunsInScope, Init
<1> QED BY <1>1, <1>4 DEF DepthInv, Init

\* The depth and the undo marks agree also while a call is in progress and while
\* the thread works for one that was given up, if one client calls at a time, no
\* reads, and a queued UNDO command does not fail (com_backend.py:4138-4218).
THEOREM InductiveDepth ==
  ASSUME OneClient
  PROVE  Spec => []DepthInv
<1>1. Init => DepthInv
  BY InitDepth
<1>2. IInv /\ DepthInv /\ [Next]_vars => DepthInv'
  BY CallingDepth, StaDepth, NativeDepth, LoopDepth, EnvironmentDepth DEF Next
<1> QED BY <1>1, <1>2, InductiveInvariant, PTL DEF Spec

\* When nobody uses the backend, the tracked depth is the number of undo marks that
\* are open in its drawing, and no other drawing has one.
THEOREM DepthIsRight ==
  ASSUME OneClient
  PROVE  Spec => []DepthIsMarks
<1>1. DepthInv => DepthIsMarks
  <2> SUFFICES ASSUME DepthInv, Calm PROVE depth \in 0 .. Limit /\ \A d \in Docs : marks[d] = IF d = scope THEN depth ELSE 0
    BY DEF DepthIsMarks
  <2>1. DepthInRange /\ MarksInScope /\ ~Opening /\ ~Closing
    BY DEF DepthInv, InUse, Calm, Opening, Closing, Running
  <2>2. OpenMarks = depth
    BY <2>1 DEF OpenMarks
  <2> QED BY <2>1, <2>2 DEF MarksInScope, DepthInRange, Calm
<1> QED BY <1>1, InductiveDepth, PTL

\* An edit that takes effect while a transaction is tracked, on time or late, takes
\* effect in a drawing in which the transaction's undo mark is open.
THEOREM EditsAreInTransaction ==
  ASSUME OneClient
  PROVE  Spec => EditsStayInTransaction
<1>1. IInv /\ DepthInv /\ [Next]_vars => [\A c \in Calls : EditTakesEffect(c) /\ depth > 0 => marks[bound] > 0]_vars
  <2> SUFFICES ASSUME IInv, DepthInv, NEW c \in Calls, EditTakesEffect(c), depth > 0
               PROVE  marks[bound] > 0
    OBVIOUS
  <2>1. sta # <<>> /\ Head(sta) = c /\ op[c] = "edit" /\ attached = cad
    BY DEF EditTakesEffect, Running, JobSucceeds
  <2>2. MarksInScope /\ RunsInScope /\ ~Opening /\ ~Closing
    BY <2>1, SoleJob DEF IInv, DepthInv, InUse
  <2>3. OpenMarks = depth /\ bound \in Docs /\ bound = scope
    BY <2>1, <2>2 DEF OpenMarks, RunsInScope, EditTakesEffect
  <2> QED BY <2>1, <2>2, <2>3 DEF MarksInScope
<1> QED BY <1>1, InductiveInvariant, InductiveDepth, PTL DEF Spec, EditsStayInTransaction

=============================================================================
