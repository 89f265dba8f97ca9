-------------------------- MODULE LogicalBatchProofs --------------------------
(***************************************************************************)
(* Proofs about LogicalBatch, for every set of clients, every number of     *)
(* chunks, every queue size and any number of crashes and edits.            *)
(***************************************************************************)
EXTENDS LogicalBatch, TLAPS

-----------------------------------------------------------------------------
(* Types *)

LEMMA MarksAreContent ==
  ASSUME NEW c \in Client
  PROVE  /\ Marks(c) \in Content
         /\ \A i \in 1 .. Size[c] : <<c, i>> \in Mark
<1>1. \A x \in Marks(c) : x \in Mark
  BY DEF Mark
<1>2. \A i \in 1 .. Size[c] : <<c, i>> \in Marks(c)
  BY DEF Marks
<1> QED BY <1>1, <1>2 DEF Content

LEMMA RepliesAreTyped ==
  /\ NoReply \in Reply /\ Error \in Reply /\ Refused \in Reply
  /\ \A o \in Outcome, s \in Content, n \in Nat : Answer(o, s, n) \in Reply
BY DEF NoReply, Error, Refused, Answer, Reply, Outcome, Content, Manifest

LEMMA CancelledIsTyped ==
  ASSUME NEW req \in Request
  PROVE  /\ Cancelled(req) \in Request
         /\ ~Cancelled(req).live
         /\ \A f \in {"op", "client", "rid", "fp", "parent", "chunk"} : Cancelled(req)[f] = req[f]
BY DEF Cancelled, Request

LEMMA CancelledQueueIsTyped ==
  ASSUME NEW q \in Seq(Request)
  PROVE  /\ [i \in DOMAIN q |-> Cancelled(q[i])] \in Seq(Request)
         /\ Len([i \in DOMAIN q |-> Cancelled(q[i])]) = Len(q)
BY CancelledIsTyped

\* The two halves of TypeOK: the drawing and its checkpoints, and the pipe.
WorldTypeOK ==
  /\ drawing \in Content /\ isOpen \in BOOLEAN /\ runtimeId \in Nat /\ saved \in Content
  /\ manifests \in SUBSET Manifest
  /\ artifact \in [Client -> SUBSET Content]
  /\ contexts \in SUBSET Client
  /\ r2 \in [Client -> Phase]
PipeTypeOK ==
  /\ queue \in Seq(Request) /\ deferred \in SUBSET Request /\ running \in SUBSET Request
  /\ pipe \in SUBSET Client
  /\ reply \in [Client -> Reply]
  /\ edits \in Nat /\ crashes \in Nat

LEMMA RespondTypes ==
  ASSUME PipeTypeOK, NEW req \in running, NEW answer \in Reply, Respond(req, answer)
  PROVE  PipeTypeOK'
<1>1. req.client \in Client
  BY DEF PipeTypeOK, Request
<1>2. Error \in Reply
  BY RepliesAreTyped
<1>3. reply' \in [Client -> Reply] /\ pipe' \in SUBSET Client
  BY <1>1, <1>2 DEF PipeTypeOK, Respond, pipeVars
<1> QED BY <1>3 DEF PipeTypeOK, Respond, boundVars

LEMMA DeferTypes ==
  ASSUME PipeTypeOK, NEW req \in running, Defer(req)
  PROVE  PipeTypeOK'
BY DEF PipeTypeOK, Defer, pipeVars, boundVars

\* Handlers leave the types of the drawing and of the checkpoints intact.
LEMMA BeginTypes ==
  ASSUME WorldTypeOK, PipeTypeOK, NEW req \in running, BeginLogicalBatch(req)
  PROVE  WorldTypeOK' /\ PipeTypeOK'
<1>1. req.client \in Client
  BY DEF PipeTypeOK, Request
<1>2. Answer("OPEN", drawing, runtimeId) \in Reply /\ Error \in Reply
  BY RepliesAreTyped DEF WorldTypeOK, Outcome
<1>3. PipeTypeOK'
  BY <1>2, RespondTypes DEF BeginLogicalBatch
<1>4. artifact' \in [Client -> SUBSET Content] /\ manifests' \in SUBSET Manifest
  BY <1>1 DEF BeginLogicalBatch, CreateCheckpoint, CreateFails, WorldTypeOK, Manifest
<1> QED BY <1>3, <1>4 DEF BeginLogicalBatch, WorldTypeOK, drawingVars, recoveryVars

LEMMA CommittedIsContent ==
  ASSUME WorldTypeOK, PipeTypeOK, NEW req \in running, Bound(req),
         req.op \in {"chunk", "mutate"}
  PROVE  Committed(req) \in Content
<1>1. req.client \in Client /\ req.chunk \in 1 .. Size[req.client]
  BY DEF PipeTypeOK, Request, Bound
<1>2. <<req.client, req.chunk>> \in Mark
  BY <1>1, MarksAreContent
<1> QED BY <1>2 DEF Committed, Content, WorldTypeOK

LEMMA BatchTypes ==
  ASSUME WorldTypeOK, PipeTypeOK, NEW req \in running, Bound(req), ExecuteBatch(req)
  PROVE  WorldTypeOK' /\ PipeTypeOK'
<1>1. Committed(req) \in Content
  BY CommittedIsContent DEF ExecuteBatch
<1>2. drawing' \in Content /\ runtimeId \in Nat
  BY <1>1 DEF ExecuteBatch, WorldTypeOK
<1>3. \A o \in {"COMMITTED_VERIFIED", "COMMIT_INTEGRITY_FAIL", "ROLLED_BACK_VERIFIED"} :
        Answer(o, drawing', runtimeId) \in Reply /\ Answer(o, Committed(req), runtimeId) \in Reply
  BY <1>1, <1>2, RepliesAreTyped DEF Outcome
<1>4. PipeTypeOK'
  BY <1>3, RespondTypes DEF ExecuteBatch, IntegrityOutcome
<1> QED BY <1>2, <1>4 DEF ExecuteBatch, WorldTypeOK, storeVars, recoveryVars

LEMMA MutateTypes ==
  ASSUME WorldTypeOK, PipeTypeOK, NEW req \in running, Bound(req), MetadataSet(req)
  PROVE  WorldTypeOK' /\ PipeTypeOK'
<1> USE DEF MetadataSet
<1>0. req.client \in Client
  BY DEF PipeTypeOK, Request
<1>1. CASE MutateRefused(req)
  <2>1. PipeTypeOK'
    BY <1>1, RepliesAreTyped, RespondTypes DEF MutateRefused
  <2> QED BY <1>1, <2>1 DEF MutateRefused, WorldTypeOK, drawingVars, storeVars, recoveryVars
<1>2. CASE MutateCommits(req)
  <2>1. drawing' \in Content /\ runtimeId \in Nat
    BY <1>2, CommittedIsContent DEF MutateCommits, WorldTypeOK
  <2>2. \A o \in {"COMMITTED_VERIFIED", "COMMIT_INTEGRITY_FAIL"} :
          Answer(o, drawing', runtimeId) \in Reply
    BY <2>1, RepliesAreTyped DEF Outcome
  <2>3. PipeTypeOK'
    BY <1>2, <2>2, RepliesAreTyped, RespondTypes DEF MutateCommits, IntegrityOutcome
  <2>4. artifact' \in [Client -> SUBSET Content] /\ manifests' \in SUBSET Manifest
    BY <1>0, <1>2 DEF MutateCommits, CreateCheckpoint, WorldTypeOK, Manifest
  <2>5. contexts' \in SUBSET Client
    BY <1>0, <1>2 DEF MutateCommits, WorldTypeOK
  <2> QED BY <1>2, <2>1, <2>3, <2>4, <2>5 DEF MutateCommits, WorldTypeOK
<1>3. CASE MutateAborts(req)
  <2>1. Answer("ROLLED_BACK_VERIFIED", drawing, runtimeId) \in Reply
    BY RepliesAreTyped DEF WorldTypeOK, Outcome
  <2>2. PipeTypeOK'
    BY <1>3, <2>1, RepliesAreTyped, RespondTypes DEF MutateAborts
  <2>3. artifact' \in [Client -> SUBSET Content] /\ manifests' \in SUBSET Manifest
    BY <1>0, <1>3 DEF MutateAborts, CreateFails, CheckpointLeft, WorldTypeOK, Manifest, storeVars
  <2> QED BY <1>3, <2>2, <2>3 DEF MutateAborts, WorldTypeOK, drawingVars, recoveryVars
<1> QED BY <1>1, <1>2, <1>3

LEMMA ReadTypes ==
  ASSUME WorldTypeOK, PipeTypeOK, NEW req \in running,
         DocumentState(req) \/ ListRecoveries(req) \/ HandlerFails(req)
  PROVE  WorldTypeOK' /\ PipeTypeOK'
<1>1. Answer("STATE", drawing, runtimeId) \in Reply
  BY RepliesAreTyped DEF WorldTypeOK, Outcome
<1>2. [Answer("ROWS", {}, 0) EXCEPT !.rows = manifests] \in Reply
  BY DEF Answer, Reply, Outcome, Content, WorldTypeOK
<1>3. PipeTypeOK'
  BY <1>1, <1>2, RepliesAreTyped, RespondTypes DEF DocumentState, ListRecoveries, HandlerFails
<1> QED
  BY <1>3 DEF DocumentState, ListRecoveries, HandlerFails, WorldTypeOK,
              drawingVars, storeVars, recoveryVars

LEMMA StoreTypes ==
  ASSUME WorldTypeOK, NEW c \in Client, FinalizeCheckpoint(c) \/ CleanupFails(c)
  PROVE  artifact' \in [Client -> SUBSET Content] /\ manifests' \in SUBSET Manifest
BY DEF WorldTypeOK, FinalizeCheckpoint, CleanupFails

LEMMA FinalizeTypes ==
  ASSUME WorldTypeOK, PipeTypeOK, NEW req \in running, FinalizeRecovery(req)
  PROVE  WorldTypeOK' /\ PipeTypeOK'
<1>1. req.client \in Client
  BY DEF PipeTypeOK, Request
<1>2. Answer("FINALIZED", drawing, runtimeId) \in Reply
  BY RepliesAreTyped DEF WorldTypeOK, Outcome
<1>3. PipeTypeOK'
  BY <1>2, RepliesAreTyped, RespondTypes DEF FinalizeRecovery
<1>4. artifact' \in [Client -> SUBSET Content] /\ manifests' \in SUBSET Manifest
  BY <1>1, StoreTypes DEF FinalizeRecovery
<1>5. contexts' \in SUBSET Client
  BY DEF FinalizeRecovery, WorldTypeOK
<1> QED BY <1>3, <1>4, <1>5 DEF FinalizeRecovery, WorldTypeOK, drawingVars

LEMMA R1Types ==
  ASSUME WorldTypeOK, PipeTypeOK, NEW req \in running, ResolveR1(req)
  PROVE  WorldTypeOK' /\ PipeTypeOK'
<1>1. req.client \in Client
  BY DEF PipeTypeOK, Request
<1>2. CASE R1Unavailable(req)
  <2>1. Answer("ROLLBACK_FAILED", drawing, runtimeId) \in Reply
    BY RepliesAreTyped DEF WorldTypeOK, Outcome
  <2>2. PipeTypeOK'
    BY <1>2, <2>1, RespondTypes DEF R1Unavailable
  <2> QED BY <1>2, <2>2 DEF R1Unavailable, WorldTypeOK, drawingVars, storeVars, recoveryVars
<1>3. CASE R1Compensates(req)
  <2>1. drawing' \in Content /\ runtimeId \in Nat
    BY <1>3 DEF R1Compensates, WorldTypeOK, Content
  <2>2. \A o \in {"ROLLED_BACK_VERIFIED", "ROLLBACK_FAILED"} :
          Answer(o, drawing', runtimeId) \in Reply
    BY <2>1, RepliesAreTyped DEF Outcome
  <2>3. PipeTypeOK'
    BY <1>3, <2>2, RepliesAreTyped, RespondTypes DEF R1Compensates
  <2>4. artifact' \in [Client -> SUBSET Content] /\ manifests' \in SUBSET Manifest
    BY <1>1, <1>3, StoreTypes DEF R1Compensates, WorldTypeOK, storeVars
  <2>5. contexts' \in SUBSET Client
    BY <1>3 DEF R1Compensates, WorldTypeOK
  <2> QED BY <1>3, <2>1, <2>3, <2>4, <2>5 DEF R1Compensates, WorldTypeOK
<1> QED BY <1>2, <1>3 DEF ResolveR1

LEMMA R2Types ==
  ASSUME WorldTypeOK, PipeTypeOK, NEW req \in running,
         BeginR2(req) \/ ContinueR2Close(req) \/ ContinueR2Verify(req)
  PROVE  WorldTypeOK' /\ PipeTypeOK'
<1>1. req.client \in Client /\ req.parent \in Content
  BY DEF PipeTypeOK, Request
<1>2. Answer("ROLLBACK_FAILED", {}, 0) \in Reply /\ Answer("ROLLED_BACK_VERIFIED", drawing, runtimeId) \in Reply
  BY RepliesAreTyped DEF WorldTypeOK, Outcome, Content
<1>3. R2Failure(req) => PipeTypeOK' /\ r2' \in [Client -> Phase] /\ contexts' \in SUBSET Client
  BY <1>1, <1>2, RespondTypes DEF R2Failure, WorldTypeOK, Phase
<1>4. CASE BeginR2(req)
  <2>1. PipeTypeOK' /\ r2' \in [Client -> Phase] /\ contexts' \in SUBSET Client
    BY <1>1, <1>3, <1>4, DeferTypes DEF BeginR2, WorldTypeOK, Phase
  <2> QED BY <1>4, <2>1 DEF BeginR2, WorldTypeOK, drawingVars, storeVars
<1>5. CASE ContinueR2Close(req)
  <2>1. CASE R2Restores(req)
    BY <1>1, <1>5, <2>1, DeferTypes
       DEF ContinueR2Close, R2Restores, WorldTypeOK, Phase, storeVars
  <2>2. CASE R2StopsClosed(req)
    BY <1>1, <1>3, <1>5, <2>2 DEF ContinueR2Close, R2StopsClosed, WorldTypeOK, storeVars
  <2>3. CASE R2Failure(req) /\ UNCHANGED drawingVars
    BY <1>3, <1>5, <2>3 DEF ContinueR2Close, WorldTypeOK, drawingVars, storeVars
  <2> QED BY <1>5, <2>1, <2>2, <2>3 DEF ContinueR2Close
<1>6. CASE ContinueR2Verify(req)
  <2>1. PipeTypeOK' /\ r2' \in [Client -> Phase] /\ contexts' \in SUBSET Client
    BY <1>1, <1>2, <1>3, <1>6, RespondTypes DEF ContinueR2Verify, WorldTypeOK, Phase
  <2>2. artifact' \in [Client -> SUBSET Content] /\ manifests' \in SUBSET Manifest
    BY <1>1, <1>6, StoreTypes DEF ContinueR2Verify, WorldTypeOK, storeVars
  <2> QED BY <1>6, <2>1, <2>2 DEF ContinueR2Verify, WorldTypeOK, drawingVars
<1> QED BY <1>4, <1>5, <1>6

LEMMA HandleTypes ==
  ASSUME WorldTypeOK, PipeTypeOK, NEW req \in running, Bound(req), Handle(req)
  PROVE  WorldTypeOK' /\ PipeTypeOK'
BY BeginTypes, BatchTypes, MutateTypes, ReadTypes, FinalizeTypes, R1Types, R2Types DEF Handle

LEMMA DispatchTypes ==
  ASSUME WorldTypeOK, PipeTypeOK, RequestsBound, Dispatch
  PROVE  WorldTypeOK' /\ PipeTypeOK'
<1>1. CASE DrainQueued
  <2>1. Head(queue) \in Request /\ Tail(queue) \in Seq(Request)
    BY <1>1 DEF DrainQueued, PipeTypeOK
  <2>2. Head(queue).client \in Client
    BY <2>1 DEF Request
  <2> QED
    BY <1>1, <2>1, <2>2 DEF DrainQueued, Take, CancelRecovery, WorldTypeOK, PipeTypeOK, Phase,
       drawingVars, storeVars, pipeVars, boundVars
<1>2. CASE DrainDeferred
  <2>1. PICK req \in deferred : Take(req) /\ deferred' = deferred \ {req}
    BY <1>2 DEF DrainDeferred
  <2>2. req \in Request /\ req.client \in Client
    BY <2>1 DEF PipeTypeOK, Request
  <2> QED
    BY <1>2, <2>1, <2>2 DEF DrainDeferred, Take, CancelRecovery, WorldTypeOK, PipeTypeOK, Phase,
       drawingVars, storeVars, pipeVars, boundVars
<1>3. ASSUME NEW req \in running, Handle(req)
      PROVE  WorldTypeOK' /\ PipeTypeOK'
  BY <1>3, HandleTypes DEF RequestsBound, InFlight
<1> QED BY <1>1, <1>2, <1>3 DEF Dispatch

LEMMA EnvironmentTypes ==
  ASSUME WorldTypeOK, PipeTypeOK, Environment
  PROVE  WorldTypeOK' /\ PipeTypeOK'
<1>1. Error \in Reply
  BY RepliesAreTyped
<1>2. CASE ForeignEdit
  <2>1. Foreign \in Mark
    BY DEF Mark
  <2> QED
    BY <1>2, <2>1, BoundsAssumption DEF ForeignEdit, WorldTypeOK, PipeTypeOK, Content, storeVars, recoveryVars,
       pipeVars
<1>3. CASE Save
  BY <1>3 DEF Save, WorldTypeOK, PipeTypeOK, storeVars, recoveryVars, pipeVars, boundVars
<1>4. CASE Crash
  <2>1. \A req \in running : req.client \in Client
    BY DEF PipeTypeOK, Request
  <2>2. artifact' \in [Client -> SUBSET Content]
    BY <1>4, <2>1 DEF Crash, HalfWrittenArtifacts, WorldTypeOK
  <2>3. reply' \in [Client -> Reply]
    BY <1>1, <1>4 DEF Crash, PipeTypeOK
  <2>4. queue' \in Seq(Request) /\ deferred' \in SUBSET Request /\ running' \in SUBSET Request
        /\ pipe' \in SUBSET Client /\ edits' \in Nat /\ crashes' \in Nat
    BY <1>4, BoundsAssumption DEF Crash, PipeTypeOK
  <2>5. WorldTypeOK'
    BY <1>4, <2>2 DEF Crash, WorldTypeOK, Phase
  <2> QED
    BY <2>3, <2>4, <2>5 DEF PipeTypeOK
<1>5. CASE Reopen
  BY <1>5 DEF Reopen, WorldTypeOK, PipeTypeOK, storeVars, recoveryVars, pipeVars, boundVars
<1> QED BY <1>2, <1>3, <1>4, <1>5 DEF Environment

LEMMA TimeoutTypes ==
  ASSUME WorldTypeOK, PipeTypeOK, PipeTimeout
  PROVE  WorldTypeOK' /\ PipeTypeOK'
<1>1. queue' \in Seq(Request)
  BY CancelledQueueIsTyped DEF PipeTimeout, PipeTypeOK
<1>2. deferred' \in SUBSET Request /\ running' \in SUBSET Request
  BY CancelledIsTyped DEF PipeTimeout, PipeTypeOK
<1>3. reply' \in [Client -> Reply]
  BY RepliesAreTyped DEF PipeTimeout, PipeTypeOK
<1> QED
  BY <1>1, <1>2, <1>3 DEF PipeTimeout, WorldTypeOK, PipeTypeOK, drawingVars, storeVars, recoveryVars,
     boundVars

LEMMA SendTypes ==
  ASSUME WorldTypeOK, PipeTypeOK, ClientTypeOK, NEW c \in Client, Send(c), UNCHANGED fate
  PROVE  WorldTypeOK' /\ PipeTypeOK' /\ ClientTypeOK'
<1>1. OpOf[pc[c]] \in Op
  BY DEF Send, ClientTypeOK, Pc, OpOf, Op
<1>2. RequestOf(c) \in Request
  BY <1>1 DEF RequestOf, Request, ClientTypeOK
<1>3. queue' \in Seq(Request) /\ pipe' \in SUBSET Client
  BY <1>2 DEF Send, Connect, ConnectFail, PipeTypeOK
<1>4. reply' \in [Client -> Reply]
  BY RepliesAreTyped DEF Send, Connect, ConnectFail, PipeTypeOK
<1> QED
  BY <1>3, <1>4 DEF Send, Connect, ConnectFail, WorldTypeOK, PipeTypeOK, ClientTypeOK, clientVars,
     drawingVars, storeVars, recoveryVars, boundVars

LEMMA LearnTypes ==
  ASSUME WorldTypeOK, PipeTypeOK, ClientTypeOK, NEW c \in Client, Learn(c), Bridgeless,
         UNCHANGED fate
  PROVE  WorldTypeOK' /\ PipeTypeOK' /\ ClientTypeOK'
<1>1. WorldTypeOK' /\ PipeTypeOK'
  BY RepliesAreTyped DEF Learn, Consume, Bridgeless, WorldTypeOK, PipeTypeOK, drawingVars, storeVars,
     recoveryVars, boundVars
<1>2. reply[c].fp \in Content /\ reply[c].rid \in Nat
  BY DEF PipeTypeOK, Reply
<1>3. ASSUME NEW p \in Pc, Goto(c, p)
      PROVE  pc' \in [Client -> Pc] /\ status' \in [Client -> Status]
  BY <1>3 DEF Goto, ClientTypeOK
<1>4. ASSUME NEW s \in Status, Report(c, s)
      PROVE  pc' \in [Client -> Pc] /\ status' \in [Client -> Status]
  BY <1>4 DEF Report, ClientTypeOK, Pc
<1>5. pc' \in [Client -> Pc] /\ status' \in [Client -> Status]
  <2>1. \A p \in {"begin", "mutate", "discover", "chunk", "readback", "finalize",
                  "confirm", "reconcile", "compensate", "restore"} : p \in Pc
    BY DEF Pc
  <2>2. \A s \in {"COMMITTED", "ROLLED_BACK_VERIFIED", "REFUSED", "UNCERTAIN"} : s \in Status
    BY DEF Status
  <2> QED
    BY <1>3, <1>4, <2>1, <2>2 DEF Learn, Concludes, OnBind, OnDiscover, OnReadback, OnRestore, OnBegin, Opened, OnChunk, Accepted,
       OnFinalize, OnConfirm, OnReconcile, OnMutate, OnSetterFinalize, OnCompensate, Undo
<1>6. rid' \in [Client -> Nat] /\ pre' \in [Client -> Content] /\ cur' \in [Client -> Content]
      /\ k' \in [Client -> Nat]
  BY <1>2 DEF Learn, Concludes, OnBind, OnDiscover, OnReadback, OnRestore, OnBegin, Opened, OnChunk, Accepted, OnFinalize,
     OnConfirm, OnReconcile, OnMutate, OnSetterFinalize, OnCompensate, ClientTypeOK
<1> QED BY <1>1, <1>5, <1>6 DEF ClientTypeOK

LEMMA StepTypes ==
  ASSUME WorldTypeOK, PipeTypeOK, ClientTypeOK, RequestsBound, [Next]_vars
  PROVE  WorldTypeOK' /\ PipeTypeOK' /\ ClientTypeOK'
<1>1. CASE \E c \in Client : ClientStep(c)
  BY <1>1, SendTypes, LearnTypes DEF ClientStep
<1>2. CASE \E c \in Client : ClientDies(c) /\ Bridgeless /\ UNCHANGED fate
  BY <1>2 DEF ClientDies, Report, Bridgeless, WorldTypeOK, PipeTypeOK, ClientTypeOK, Pc, Status,
     drawingVars, storeVars, recoveryVars, boundVars
<1>3. CASE BridgeStep /\ UNCHANGED clientVars /\ Decide
  <2>1. WorldTypeOK' /\ PipeTypeOK'
    BY <1>3, DispatchTypes, EnvironmentTypes, TimeoutTypes DEF BridgeStep
  <2>2. ClientTypeOK'
    BY <1>3 DEF Decide, ClientTypeOK, clientVars, Fate
  <2> QED BY <2>1, <2>2
<1>4. CASE UNCHANGED vars
  BY <1>4 DEF vars, bridgeVars, clientVars, WorldTypeOK, PipeTypeOK, ClientTypeOK
<1> QED BY <1>1, <1>2, <1>3, <1>4 DEF Next

-----------------------------------------------------------------------------
(* The protocol between a client and the bridge *)

TypesOK == WorldTypeOK /\ PipeTypeOK /\ ClientTypeOK
ProtocolInv == Chained /\ ReceiptsChain /\ RequestsBound /\ LiveIsCurrent /\ OneLive

LEMMA InFlightTypes ==
  ASSUME PipeTypeOK
  PROVE  InFlight \subseteq Request /\ \A req \in InFlight : req.client \in Client
<1>1. \A i \in DOMAIN queue : queue[i] \in Request
  BY DEF PipeTypeOK
<1>2. InFlight \subseteq Request
  BY <1>1 DEF PipeTypeOK, InFlight
<1> QED BY <1>2 DEF Request

\* A receipt that says COMMITTED_VERIFIED names the predecessor plus the chunk.
Faithful(req, answer) ==
  answer.outcome = "COMMITTED_VERIFIED" => answer.fp = req.fp \cup {<<req.client, req.chunk>>}

LEMMA OtherAnswersAreFaithful ==
  ASSUME NEW req
  PROVE  /\ Faithful(req, Error) /\ Faithful(req, Refused)
         /\ \A s, n : \A o \in Outcome \ {"COMMITTED_VERIFIED"} : Faithful(req, Answer(o, s, n))
BY DEF Faithful, Error, Refused, Answer

\* Whatever a handler does to the drawing, it answers or defers its request.
LEMMA HandleAnswers ==
  ASSUME WorldTypeOK, PipeTypeOK, NEW req \in running, Bound(req), Handle(req)
  PROVE  Defer(req) \/ \E a \in Reply : Respond(req, a) /\ Faithful(req, a)
<1> USE RepliesAreTyped, OtherAnswersAreFaithful
<1>1. drawing \in Content /\ runtimeId \in Nat /\ drawing' \in Content
  BY HandleTypes DEF WorldTypeOK
<1>2. \A o \in Outcome \ {"COMMITTED_VERIFIED"} :
        /\ Answer(o, drawing, runtimeId) \in Reply /\ Faithful(req, Answer(o, drawing, runtimeId))
        /\ Answer(o, drawing', runtimeId) \in Reply /\ Faithful(req, Answer(o, drawing', runtimeId))
  BY <1>1
<1>3. ASSUME req.fp = drawing
      PROVE  /\ Answer(IntegrityOutcome(req), drawing', runtimeId) \in Reply
             /\ Faithful(req, Answer(IntegrityOutcome(req), drawing', runtimeId))
  <2>1. Answer(IntegrityOutcome(req), drawing', runtimeId) \in Reply
    BY <1>1 DEF IntegrityOutcome, Outcome
  <2>2. CASE drawing' = Committed(req)
    BY <1>3, <2>1, <2>2 DEF Faithful, Answer, Committed
  <2>3. CASE drawing' # Committed(req)
    BY <1>2, <2>1, <2>3 DEF IntegrityOutcome, Outcome
  <2> QED BY <2>2, <2>3
<1>4. CASE HandlerFails(req) \/ DocumentState(req) \/ FinalizeRecovery(req) \/ BeginLogicalBatch(req)
  BY <1>2, <1>4 DEF HandlerFails, DocumentState, FinalizeRecovery, BeginLogicalBatch, Outcome
<1>5. CASE ExecuteBatch(req)
  <2> DEFINE answer == Answer(IntegrityOutcome(req), Committed(req), runtimeId)
  <2>1. drawing = req.fp /\ (Respond(req, answer)
                           \/ Respond(req, Answer("ROLLED_BACK_VERIFIED", drawing, runtimeId)))
    BY <1>5 DEF ExecuteBatch
  <2>2. answer \in Reply
    BY <1>1, <1>5, CommittedIsContent DEF ExecuteBatch, IntegrityOutcome, Outcome
  <2>3. Faithful(req, answer)
    BY <2>1 DEF Faithful, Answer, Committed
  <2> HIDE DEF answer
  <2> QED BY <1>2, <2>1, <2>2, <2>3 DEF Outcome
<1>6. CASE MetadataSet(req)
  BY <1>2, <1>3, <1>6 DEF MetadataSet, MutateRefused, MutateCommits, MutateAborts, Outcome
<1>7. CASE ListRecoveries(req)
  <2> DEFINE rows == [Answer("ROWS", {}, 0) EXCEPT !.rows = manifests]
  <2>1. rows \in Reply /\ rows.outcome = "ROWS"
    BY DEF Answer, Reply, Outcome, Content, WorldTypeOK
  <2> QED BY <1>7, <2>1 DEF ListRecoveries, Faithful
<1>8. CASE ResolveR1(req)
  BY <1>2, <1>8 DEF ResolveR1, R1Unavailable, R1Compensates, Outcome
<1>9. R2Failure(req) => \E a \in Reply : Respond(req, a) /\ Faithful(req, a)
  <2>1. {} \in Content /\ 0 \in Nat
    BY DEF Content
  <2> QED BY <2>1 DEF R2Failure, Outcome
<1>10. CASE BeginR2(req) \/ ContinueR2Close(req) \/ ContinueR2Verify(req)
  BY <1>2, <1>9, <1>10 DEF BeginR2, ContinueR2Close, R2Restores, R2StopsClosed, ContinueR2Verify, Outcome
<1> QED BY <1>4, <1>5, <1>6, <1>7, <1>8, <1>10 DEF Handle

LEMMA RespondProtocol ==
  ASSUME TypesOK, ProtocolInv, UNCHANGED clientVars,
         NEW req \in running, NEW a \in Reply, Respond(req, a), Faithful(req, a)
  PROVE  ProtocolInv'
<1> USE DEF TypesOK, ProtocolInv
<1>1. Chained'
  BY DEF Chained, clientVars
<1>2. InFlight' \subseteq InFlight /\ running' = {} /\ req \in InFlight /\ req.client \in Client
  BY DEF InFlight, Respond, PipeTypeOK, Request
<1>3. RequestsBound'
  BY <1>2 DEF RequestsBound, Bound, clientVars
<1>4. OneLive'
  BY DEF OneLive, Respond
<1>5. req.live => \A q \in InFlight' : ~q.live
  BY DEF OneLive, InFlight, Respond
<1>6. LiveIsCurrent'
  BY <1>2, <1>5 DEF LiveIsCurrent, Current, Respond, RequestOf, clientVars, pipeVars
<1>7. ReceiptsChain'
  <2>1. CASE ~req.live
    BY <2>1 DEF Respond, ReceiptsChain, clientVars, pipeVars
  <2>2. CASE req.live
    <3>1. pipe' = {} /\ reply' \in {[reply EXCEPT ![req.client] = a], [reply EXCEPT ![req.client] = Error]}
      BY <2>2 DEF Respond
    <3>2. pc[req.client] # "done" => req.fp = cur[req.client] /\ req.chunk = k[req.client]
      BY <1>2, <2>2 DEF LiveIsCurrent, Current, RequestOf
    <3>3. Error.outcome = "ERROR"
      BY DEF Error, Answer
    <3>4. ASSUME NEW c \in Client, pc[c] \in {"chunk", "mutate"}, reply'[c].outcome = "COMMITTED_VERIFIED"
          PROVE  reply'[c].fp = cur[c] \cup {<<c, k[c]>>}
      <4>1. CASE c # req.client
        BY <3>1, <3>4, <4>1 DEF ReceiptsChain, PipeTypeOK
      <4>2. CASE c = req.client
        BY <1>2, <3>1, <3>2, <3>3, <3>4, <4>2 DEF Faithful, PipeTypeOK
      <4> QED BY <4>1, <4>2
    <3> QED BY <3>1, <3>4 DEF ReceiptsChain, clientVars
  <2> QED BY <2>1, <2>2
<1> QED BY <1>1, <1>3, <1>4, <1>6, <1>7

LEMMA DeferProtocol ==
  ASSUME TypesOK, ProtocolInv, UNCHANGED clientVars, NEW req \in running, Defer(req)
  PROVE  ProtocolInv'
<1> USE DEF TypesOK, ProtocolInv
<1>1. Chained' /\ ReceiptsChain'
  BY DEF Chained, ReceiptsChain, Defer, clientVars, pipeVars
<1>2. InFlight' \subseteq InFlight
  BY DEF InFlight, Defer
<1>3. RequestsBound' /\ LiveIsCurrent'
  BY <1>2 DEF RequestsBound, Bound, LiveIsCurrent, Current, RequestOf, Defer, clientVars, pipeVars
<1>4. OneLive'
  BY DEF OneLive, Defer
<1> QED BY <1>1, <1>3, <1>4

LEMMA QueueHead ==
  ASSUME NEW q \in Seq(Request), q # <<>>
  PROVE  /\ 1 \in DOMAIN q /\ Head(q) = q[1]
         /\ Len(Tail(q)) = Len(q) - 1
         /\ \A i \in DOMAIN Tail(q) : i + 1 \in DOMAIN q /\ Tail(q)[i] = q[i + 1]
OBVIOUS

LEMMA DrainProtocol ==
  ASSUME TypesOK, ProtocolInv, UNCHANGED clientVars, DrainQueued \/ DrainDeferred
  PROVE  ProtocolInv'
<1> USE DEF TypesOK, ProtocolInv
<1>1. Chained' /\ ReceiptsChain'
  BY DEF Chained, ReceiptsChain, DrainQueued, DrainDeferred, clientVars, pipeVars
<1>2. InFlight' \subseteq InFlight /\ OneLive'
  <2>1. CASE DrainQueued
    <3>1. /\ 1 \in DOMAIN queue /\ Head(queue) = queue[1]
          /\ Len(queue') = Len(queue) - 1
          /\ \A i \in DOMAIN queue' : i + 1 \in DOMAIN queue /\ queue'[i] = queue[i + 1]
      BY <2>1, QueueHead DEF DrainQueued, PipeTypeOK
    <3>2. running = {} /\ running' \subseteq {Head(queue)} /\ deferred' = deferred
          /\ (running' # {} => Head(queue).live)
      BY <2>1 DEF DrainQueued, Take
    <3>3. InFlight' \subseteq InFlight
      BY <3>1, <3>2 DEF InFlight
    <3>4. Len(queue) \in Nat /\ DOMAIN queue = 1 .. Len(queue) /\ DOMAIN queue' = 1 .. Len(queue')
      BY <2>1, <3>1 DEF PipeTypeOK, DrainQueued
    <3>5. Head(queue).live => queue[1].live /\ 1 = Len(queue) /\ \A q \in deferred : ~q.live
      BY <3>1 DEF OneLive
    <3>6. \A i \in DOMAIN queue' : queue'[i].live =>
             i = Len(queue') /\ \A q \in deferred' \cup running' : ~q.live
      BY <3>1, <3>2, <3>4, <3>5 DEF OneLive
    <3>7. OneLive'
      BY <3>2, <3>5, <3>6 DEF OneLive
    <3> QED BY <3>3, <3>7
  <2>2. CASE DrainDeferred
    <3>1. PICK req \in deferred : Take(req) /\ deferred' = deferred \ {req}
      BY <2>2 DEF DrainDeferred
    <3>2. running = {} /\ running' \subseteq {req} /\ queue' = queue /\ (running' # {} => req.live)
      BY <2>2, <3>1 DEF DrainDeferred, Take
    <3>3. InFlight' \subseteq InFlight
      BY <3>1, <3>2 DEF InFlight
    <3>4. OneLive'
      BY <3>1, <3>2 DEF OneLive
    <3> QED BY <3>3, <3>4
  <2> QED BY <2>1, <2>2
<1>3. RequestsBound' /\ LiveIsCurrent'
  BY <1>2 DEF RequestsBound, Bound, LiveIsCurrent, Current, RequestOf, DrainQueued, DrainDeferred,
     clientVars, pipeVars
<1> QED BY <1>1, <1>2, <1>3

\* After a timeout or a crash no request is live.
LEMMA AbandonProtocol ==
  ASSUME TypesOK, ProtocolInv, UNCHANGED clientVars, PipeTimeout \/ Crash
  PROVE  ProtocolInv'
<1> USE DEF TypesOK, ProtocolInv
<1>1. Chained'
  BY DEF Chained, clientVars
<1>2. ReceiptsChain'
  <2>1. Error.outcome = "ERROR"
    BY DEF Error, Answer
  <2>2. pipe' = {} /\ reply' = [c \in Client |-> IF c \in pipe THEN Error ELSE reply[c]]
    BY DEF PipeTimeout, Crash
  <2> QED BY <2>1, <2>2 DEF ReceiptsChain, clientVars
<1>3. CASE PipeTimeout
  <2>1. \A i \in DOMAIN queue : queue[i] \in Request
    BY DEF PipeTypeOK
  <2>2. DOMAIN queue' = DOMAIN queue /\ \A i \in DOMAIN queue : queue'[i] = Cancelled(queue[i])
    BY <1>3 DEF PipeTimeout
  <2>3. \A q \in InFlight' : \E req \in InFlight : req \in Request /\ q = Cancelled(req)
    BY <1>3, <2>1, <2>2 DEF InFlight, PipeTimeout, PipeTypeOK
  <2>4. \A q \in InFlight' : ~q.live /\ Bound(q)'
    BY <2>3, CancelledIsTyped DEF RequestsBound, Bound, clientVars
  <2>5. \A p, q \in running' : p = q
    BY <1>3 DEF PipeTimeout, OneLive
  <2>6. OneLive'
    BY <2>4, <2>5 DEF OneLive, InFlight
  <2> QED BY <1>1, <1>2, <2>4, <2>6 DEF RequestsBound, LiveIsCurrent, Current
<1>4. CASE Crash
  <2>1. InFlight' = {} /\ queue' = <<>> /\ deferred' = {} /\ running' = {}
    BY <1>4 DEF Crash, InFlight
  <2> QED BY <1>1, <1>2, <2>1 DEF RequestsBound, LiveIsCurrent, OneLive
<1> QED BY <1>3, <1>4

LEMMA IdleProtocol ==
  ASSUME TypesOK, ProtocolInv, UNCHANGED <<clientVars, queue, deferred, running, pipeVars>>
  PROVE  ProtocolInv'
BY DEF TypesOK, ProtocolInv, Chained, ReceiptsChain, RequestsBound, Bound, LiveIsCurrent, Current,
   RequestOf, OneLive, InFlight, clientVars, pipeVars

LEMMA SendProtocol ==
  ASSUME TypesOK, ProtocolInv, NEW c \in Client, Send(c)
  PROVE  ProtocolInv'
<1> USE DEF TypesOK, ProtocolInv
<1>1. Chained'
  BY DEF Chained, Send, clientVars
<1>2. Error.outcome = "ERROR" /\ Error # NoReply
  BY DEF Error, NoReply, Answer
<1>3. CASE Connect(c, RequestOf(c)) /\ Len(queue) < QueueMax
  <2> DEFINE req == RequestOf(c)
  <2>1. queue' = Append(queue, req) /\ pipe = {} /\ pipe' = {c} /\ reply' = reply
        /\ deferred' = deferred /\ running' = running
    BY <1>3 DEF Connect
  <2>2. \A q \in InFlight : ~q.live
    BY <2>1 DEF LiveIsCurrent, Current
  <2>3. Len(queue) \in Nat /\ DOMAIN queue = 1 .. Len(queue)
    BY DEF PipeTypeOK
  <2>4. /\ Len(queue') = Len(queue) + 1 /\ DOMAIN queue' = 1 .. Len(queue')
        /\ \A i \in DOMAIN queue : queue'[i] = queue[i]
        /\ queue'[Len(queue')] = req
    <3> HIDE DEF req
    <3>1. queue \in Seq(Request) /\ Len(queue) \in Nat
      BY DEF PipeTypeOK
    <3>2. req \in Request
      <4>1. OpOf[pc[c]] \in Op
        BY DEF Send, ClientTypeOK, Pc, OpOf, Op
      <4> QED BY <4>1 DEF req, RequestOf, Request, ClientTypeOK
    <3> QED BY <2>1, <3>1, <3>2
  <2>5. InFlight' = InFlight \cup {req}
    BY <2>1, <2>3, <2>4 DEF InFlight
  <2>6. Bound(req)
    <3>1. req.client = c /\ req.parent = pre[c] /\ req.fp = cur[c] /\ req.chunk = k[c]
          /\ req.op = OpOf[pc[c]]
      BY DEF RequestOf
    <3>2. /\ pc[c] = "bind" => req.op = "state"
          /\ req.op = "begin" => pc[c] = "begin"
          /\ req.op = "mutate" => pc[c] = "mutate"
          /\ req.op = "chunk" => pc[c] = "chunk"
          /\ req.op = "finalize" => pc[c] = "finalize"
      BY <3>1 DEF OpOf, ClientTypeOK, Pc
    <3>3. pc[c] = "mutate" => k[c] \in 1 .. Size[c]
      BY SizeAssumption DEF Chained
    <3> QED BY <3>1, <3>2, <3>3 DEF Bound, Chained
  <2>7. RequestsBound'
    BY <2>5, <2>6 DEF RequestsBound, Bound, Send, clientVars
  <2>8. LiveIsCurrent'
    BY <2>1, <2>2, <2>5 DEF LiveIsCurrent, Current, RequestOf, Send, clientVars
  <2>9. OneLive'
    BY <2>1, <2>2, <2>3, <2>4 DEF OneLive, InFlight
  <2>10. ReceiptsChain'
    BY <2>1 DEF ReceiptsChain, Send, clientVars
  <2> QED BY <1>1, <2>7, <2>8, <2>9, <2>10
<1>4. CASE UNCHANGED <<queue, pipe, deferred, running>> /\ reply' = [reply EXCEPT ![c] = Error]
  <2>1. ReceiptsChain'
    BY <1>2, <1>4 DEF ReceiptsChain, Send, clientVars, PipeTypeOK
  <2> QED
    BY <1>1, <1>4, <2>1 DEF RequestsBound, Bound, LiveIsCurrent, Current, RequestOf, OneLive,
       InFlight, Send, clientVars
<1> QED BY <1>3, <1>4 DEF Send, Connect, ConnectFail

\* Learning touches one client, and its predecessor only while it binds.
LEMMA LearnEffect ==
  ASSUME TypesOK, ProtocolInv, NEW c \in Client, Learn(c)
  PROVE  /\ \A d \in Client \ {c} : /\ pc'[d] = pc[d] /\ rid'[d] = rid[d] /\ pre'[d] = pre[d]
                                    /\ cur'[d] = cur[d] /\ k'[d] = k[d]
         /\ pc'[c] # "bind" /\ pc[c] # "done"
         /\ pc[c] # "bind" => pre'[c] = pre[c]
         /\ reply' = [reply EXCEPT ![c] = NoReply] /\ c \notin pipe
<1> USE DEF TypesOK, ProtocolInv
<1>1. /\ \A d \in Client \ {c} : rid'[d] = rid[d] /\ pre'[d] = pre[d] /\ cur'[d] = cur[d] /\ k'[d] = k[d]
      /\ pc[c] # "bind" => pre'[c] = pre[c]
  BY DEF Learn, Concludes, OnBind, OnDiscover, OnReadback, OnRestore, OnBegin, Opened, OnChunk, Accepted, OnFinalize, OnConfirm,
     OnReconcile, OnMutate, OnSetterFinalize, OnCompensate, ClientTypeOK, Got
<1>2. \E p \in Pc \ {"bind"} : pc' = [pc EXCEPT ![c] = p]
  BY DEF Learn, Concludes, OnBind, OnDiscover, OnReadback, OnRestore, OnBegin, Opened, OnChunk, Accepted, OnFinalize, OnConfirm,
     OnReconcile, OnMutate, OnSetterFinalize, OnCompensate, Goto, Report, Undo, Pc
<1>3. pc[c] # "done" /\ reply[c] # NoReply /\ reply' = [reply EXCEPT ![c] = NoReply]
  BY DEF Learn, Concludes, OnBind, OnDiscover, OnReadback, OnRestore, OnBegin, Opened, OnChunk, Accepted, OnFinalize, OnConfirm,
     OnReconcile, OnMutate, OnSetterFinalize, OnCompensate, Got, Consume
<1>4. c \notin pipe
  BY <1>3 DEF ReceiptsChain
<1> QED BY <1>1, <1>2, <1>3, <1>4 DEF ClientTypeOK

\* What a client chains next, by where it goes.
LEMMA LearnChains ==
  ASSUME TypesOK, ProtocolInv, NEW c \in Client, Learn(c)
  PROVE  /\ pc'[c] \in {"bind", "begin", "mutate"} => cur'[c] = pre'[c] /\ k'[c] = 1
         /\ pc'[c] = "chunk" =>
              k'[c] \in 1 .. Size[c] /\ cur'[c] = pre'[c] \cup ({c} \X (1 .. k'[c] - 1))
         /\ pc'[c] \in {"readback", "finalize", "confirm", "reconcile"} =>
              cur'[c] = pre'[c] \cup Marks(c)
         /\ pc'[c] = "mutate" => c \in Setter
<1> USE DEF TypesOK, ProtocolInv
<1>0. pc \in [Client -> Pc] /\ k \in [Client -> Nat] /\ Size[c] \in Nat \ {0}
  BY SizeAssumption DEF ClientTypeOK
<1>1. CASE OnBind(c)
  <2>1. k'[c] = k[c] /\ pc[c] = "bind"
    BY <1>1 DEF OnBind, Got
  <2> QED BY <1>0, <1>1, <2>1 DEF OnBind, Goto, Report, Chained, ClientTypeOK
<1>2. CASE OnDiscover(c) \/ OnRestore(c) \/ OnConfirm(c) \/ OnReconcile(c) \/ OnReadback(c)
           \/ OnFinalize(c) \/ OnSetterFinalize(c) \/ OnCompensate(c)
  <2>1. /\ pc'[c] \in {"restore", "compensate", "done", "finalize", "confirm", "reconcile"}
        /\ cur'[c] = cur[c] /\ pre'[c] = pre[c]
    BY <1>0, <1>2 DEF OnDiscover, OnRestore, OnConfirm, OnReconcile, OnReadback, OnFinalize,
       OnSetterFinalize, OnCompensate, Goto, Report, Undo
  <2>2. pc'[c] \in {"finalize", "confirm", "reconcile"} => pc[c] \in {"readback", "finalize", "confirm"}
    BY <1>0, <1>2 DEF OnDiscover, OnRestore, OnConfirm, OnReconcile, OnReadback, OnFinalize,
       OnSetterFinalize, OnCompensate, Goto, Report, Undo, Got
  <2> QED BY <2>1, <2>2 DEF Chained
<1>3. CASE OnBegin(c)
  <2>1. pc[c] = "begin" /\ pc'[c] \in {"chunk", "done", "discover"}
        /\ cur'[c] = cur[c] /\ pre'[c] = pre[c] /\ k'[c] = k[c]
    BY <1>0, <1>3 DEF OnBegin, Opened, Got, Goto, Report
  <2>2. cur[c] = pre[c] /\ k[c] = 1
    BY <2>1 DEF Chained
  <2>3. {c} \X (1 .. 1 - 1) = {}
    OBVIOUS
  <2> QED BY <1>0, <2>1, <2>2, <2>3
<1>4. CASE OnChunk(c)
  <2>1. /\ pc[c] = "chunk" /\ pre'[c] = pre[c]
        /\ k[c] \in 1 .. Size[c] /\ cur[c] = pre[c] \cup ({c} \X (1 .. k[c] - 1))
    BY <1>4 DEF OnChunk, Accepted, Got, Chained
  <2>2. CASE Goto(c, "restore")
    BY <1>0, <2>2 DEF Goto
  <2>3. CASE Is(c, "COMMITTED_VERIFIED") /\ ~Goto(c, "restore")
    <3>1. /\ cur'[c] = reply[c].fp /\ k'[c] = k[c] + 1
          /\ pc'[c] = (IF k[c] = Size[c] THEN "readback" ELSE "chunk")
      BY <1>0, <1>4, <2>3 DEF OnChunk, Accepted, Goto, ClientTypeOK
    <3>2. cur'[c] = cur[c] \cup {<<c, k[c]>>}
      BY <2>1, <2>3, <3>1 DEF ReceiptsChain, Is
    <3>3. ({c} \X (1 .. k[c] - 1)) \cup {<<c, k[c]>>} = {c} \X (1 .. k[c])
      <4>1. (1 .. k[c] - 1) \cup {k[c]} = 1 .. k[c]
        BY <2>1, <1>0
      <4> QED BY <4>1
    <3>4. cur'[c] = pre'[c] \cup ({c} \X (1 .. k[c])) /\ k'[c] - 1 = k[c]
      BY <1>0, <2>1, <3>1, <3>2, <3>3
    <3>5. CASE k[c] = Size[c]
      BY <3>1, <3>4, <3>5 DEF Marks
    <3>6. CASE k[c] # Size[c]
      BY <1>0, <2>1, <3>1, <3>4, <3>6
    <3> QED BY <3>5, <3>6
  <2> QED BY <1>4, <2>2, <2>3 DEF OnChunk, Accepted
<1>5. CASE OnMutate(c)
  <2>1. pc[c] = "mutate" /\ pre'[c] = pre[c] /\ cur[c] = pre[c] /\ k[c] = 1 /\ Size[c] = 1
    BY <1>5, SetterAssumption DEF OnMutate, Got, Chained
  <2>2. pc'[c] \in {"done", "readback", "compensate", "discover"}
    BY <1>0, <1>5 DEF OnMutate, Goto, Report
  <2>3. pc'[c] = "readback" => Is(c, "COMMITTED_VERIFIED") /\ cur'[c] = reply[c].fp
    BY <1>0, <1>5 DEF OnMutate, Goto, Report, ClientTypeOK
  <2>4. pc'[c] = "readback" => cur'[c] = pre[c] \cup {<<c, 1>>}
    BY <2>1, <2>3 DEF ReceiptsChain, Is
  <2>5. Marks(c) = {<<c, 1>>}
    <3>1. 1 .. 1 = {1}
      OBVIOUS
    <3> QED BY <2>1, <3>1 DEF Marks
  <2> QED BY <2>1, <2>2, <2>4, <2>5
<1> QED BY <1>1, <1>2, <1>3, <1>4, <1>5 DEF Learn, Concludes

LEMMA LearnProtocol ==
  ASSUME TypesOK, ProtocolInv, NEW c \in Client, Learn(c), Bridgeless
  PROVE  ProtocolInv'
<1> USE LearnEffect
<1>1. Chained'
  BY LearnChains DEF ProtocolInv, Chained
<1>2. InFlight' = InFlight /\ OneLive'
  BY DEF ProtocolInv, OneLive, InFlight, Bridgeless
<1>3. NoReply.outcome = "NONE"
  BY DEF NoReply, Answer
<1>4. ReceiptsChain'
  BY <1>3 DEF ProtocolInv, TypesOK, PipeTypeOK, ReceiptsChain, Bridgeless
<1>5. \A req \in InFlight : req.client \in Client
  BY InFlightTypes DEF TypesOK
<1>6. RequestsBound'
  BY <1>2, <1>5 DEF ProtocolInv, RequestsBound, Bound
<1>7. \A req \in InFlight : req.live => req.client # c
  BY DEF ProtocolInv, LiveIsCurrent, Current
<1>8. LiveIsCurrent'
  BY <1>2, <1>5, <1>7 DEF ProtocolInv, LiveIsCurrent, Current, RequestOf, Bridgeless
<1> QED BY <1>1, <1>2, <1>4, <1>6, <1>8 DEF ProtocolInv

LEMMA DeathProtocol ==
  ASSUME TypesOK, ProtocolInv, NEW c \in Client, ClientDies(c), Bridgeless
  PROVE  ProtocolInv'
<1> USE DEF TypesOK, ProtocolInv
<1>1. pc' = [pc EXCEPT ![c] = "done"] /\ UNCHANGED <<rid, pre, cur, k, reply>>
  BY DEF ClientDies, Report
<1>2. InFlight' = InFlight /\ OneLive' /\ pipe' = pipe
  BY DEF OneLive, InFlight, Bridgeless
<1>3. Chained' /\ ReceiptsChain'
  BY <1>1, <1>2 DEF Chained, ReceiptsChain, ClientTypeOK
<1>4. \A req \in InFlight : req.client \in Client
  BY InFlightTypes
<1>5. RequestsBound' /\ LiveIsCurrent'
  BY <1>1, <1>2, <1>4 DEF RequestsBound, Bound, LiveIsCurrent, Current, RequestOf, ClientTypeOK
<1> QED BY <1>2, <1>3, <1>5

LEMMA StepProtocol ==
  ASSUME TypesOK, ProtocolInv, [Next]_vars
  PROVE  ProtocolInv'
<1>1. CASE \E c \in Client : ClientStep(c)
  BY <1>1, SendProtocol, LearnProtocol DEF ClientStep
<1>2. CASE \E c \in Client : ClientDies(c) /\ Bridgeless /\ UNCHANGED fate
  BY <1>2, DeathProtocol
<1>3. CASE BridgeStep /\ UNCHANGED clientVars /\ Decide
  <2>1. ASSUME NEW req \in running, Handle(req)
        PROVE  ProtocolInv'
    <3>1. Bound(req)
      BY DEF ProtocolInv, RequestsBound, InFlight
    <3> QED
      BY <1>3, <2>1, <3>1, HandleAnswers, RespondProtocol, DeferProtocol DEF TypesOK
  <2>2. CASE DrainQueued \/ DrainDeferred
    BY <1>3, <2>2, DrainProtocol
  <2>3. CASE PipeTimeout \/ Crash
    BY <1>3, <2>3, AbandonProtocol
  <2>4. CASE ForeignEdit \/ Save \/ Reopen
    BY <1>3, <2>4, IdleProtocol DEF ForeignEdit, Save, Reopen, boundVars
  <2> QED BY <1>3, <2>1, <2>2, <2>3, <2>4 DEF BridgeStep, Dispatch, Environment
<1>4. CASE UNCHANGED vars
  BY <1>4, IdleProtocol DEF vars, bridgeVars, pipeVars
<1> QED BY <1>1, <1>2, <1>3, <1>4 DEF Next

-----------------------------------------------------------------------------
(* What a handler does to the drawing, the file and the checkpoints *)

Quiet == UNCHANGED <<manifests, drawing, saved>>

\* It opens the one checkpoint, with the drawing of the request as predecessor.
Opens(req) ==
  /\ manifests = {} /\ drawing = req.fp /\ req.op \in {"begin", "mutate"}
  /\ manifests' = {[owner |-> req.client, parent |-> drawing]}
  /\ saved' = saved

\* It works, or restores, under the checkpoint of its client.
OwnMarksOnly(c) ==
  isOpen' /\ runtimeId' = runtimeId =>
    \A x \in (drawing \ drawing') \cup (drawing' \ drawing) : x \in Marks(c)
Works(req) ==
  /\ \E m \in manifests : m.owner = req.client /\ m.parent = req.parent
  /\ manifests' = manifests
  /\ saved' \in {saved, req.parent}
  /\ OwnMarksOnly(req.client)

\* It gives the checkpoint up: the drawing is the accepted one or the restored one.
Releases(req) ==
  /\ req.op \notin {"state", "list"}
  /\ \E m \in manifests :
       m.owner = req.client /\ (drawing' = m.parent \/ (req.op = "finalize" /\ drawing' = req.fp))
  /\ manifests' = manifests \ Owned(req.client)
  /\ saved' = saved

LEMMA HandleWorld ==
  ASSUME WorldTypeOK, PipeTypeOK, NEW req \in running, Bound(req), Handle(req)
  PROVE  Quiet \/ Opens(req) \/ Works(req) \/ Releases(req)
<1>1. CASE HandlerFails(req) \/ DocumentState(req) \/ ListRecoveries(req)
  BY <1>1 DEF HandlerFails, DocumentState, ListRecoveries, Quiet, drawingVars, storeVars
<1>2. CASE BeginLogicalBatch(req)
  BY <1>2 DEF BeginLogicalBatch, CreateCheckpoint, CreateFails, Quiet, Opens, drawingVars
<1>3. CASE ExecuteBatch(req)
  <2>1. CheckpointPresent(req.client, req.parent) /\ UNCHANGED <<manifests, saved>>
    BY <1>3 DEF ExecuteBatch, storeVars
  <2>2. <<req.client, req.chunk>> \in Marks(req.client)
    BY <1>3 DEF ExecuteBatch, Bound, Marks
  <2>3. OwnMarksOnly(req.client)
    BY <1>3, <2>2 DEF ExecuteBatch, OwnMarksOnly, Committed
  <2> QED BY <2>1, <2>3 DEF Works, CheckpointPresent
<1>4. CASE MetadataSet(req)
  <2>1. CASE MutateRefused(req)
    BY <2>1 DEF MutateRefused, Quiet, drawingVars, storeVars
  <2>2. CASE MutateCommits(req) /\ drawing = req.fp
    BY <1>4, <2>2 DEF MetadataSet, MutateCommits, CreateCheckpoint, Opens
  <2>3. CASE MutateAborts(req) /\ drawing = req.fp
    BY <1>4, <2>3 DEF MetadataSet, MutateAborts, CreateFails, CheckpointLeft, Opens, Quiet,
       drawingVars, storeVars
  <2> QED BY <1>4, <2>1, <2>2, <2>3 DEF MetadataSet
<1>5. CASE FinalizeRecovery(req)
  <2>1. drawing = req.fp /\ UNCHANGED <<drawing, saved>> /\ AnyCheckpoint(req.client)
    BY <1>5 DEF FinalizeRecovery, drawingVars
  <2>2. CASE FinalizeCheckpoint(req.client)
    BY <1>5, <2>1, <2>2 DEF FinalizeRecovery, FinalizeCheckpoint, AnyCheckpoint, Releases
  <2>3. CASE CleanupFails(req.client)
    BY <2>1, <2>3 DEF CleanupFails, Quiet
  <2> QED BY <1>5, <2>2, <2>3 DEF FinalizeRecovery
<1>6. CASE ResolveR1(req)
  <2>1. CASE R1Unavailable(req)
    BY <2>1 DEF R1Unavailable, Quiet, drawingVars, storeVars
  <2>2. CASE R1Compensates(req)
    <3>1. /\ CheckpointPresent(req.client, req.parent) /\ req.op = "r1"
          /\ saved' = saved /\ drawing' = drawing \ Marks(req.client)
      BY <1>6, <2>2 DEF ResolveR1, R1Compensates
    <3>2. CASE FinalizeCheckpoint(req.client) /\ drawing' = req.parent
      <4>1. PICK m \in manifests : m.owner = req.client /\ m.parent = req.parent
        BY <3>1 DEF CheckpointPresent
      <4>2. drawing' = m.parent /\ manifests' = manifests \ Owned(req.client)
        BY <3>2, <4>1 DEF FinalizeCheckpoint
      <4> QED BY <3>1, <4>1, <4>2 DEF Releases
    <3>3. CASE manifests' = manifests
      BY <3>1, <3>3 DEF CheckpointPresent, Works, OwnMarksOnly
    <3> QED BY <2>2, <3>2, <3>3 DEF R1Compensates, CleanupFails, storeVars
  <2> QED BY <1>6, <2>1, <2>2 DEF ResolveR1
<1>7. CASE BeginR2(req)
  BY <1>7 DEF BeginR2, Quiet, drawingVars, storeVars
<1>8. CASE ContinueR2Close(req)
  <2>1. CheckpointPresent(req.client, req.parent) /\ manifests' = manifests
    BY <1>8 DEF ContinueR2Close, storeVars
  <2>2. CASE R2Restores(req)
    <3>1. runtimeId' # runtimeId
      BY <2>2 DEF R2Restores, WorldTypeOK
    <3> QED BY <2>1, <2>2, <3>1 DEF R2Restores, CheckpointPresent, Works, OwnMarksOnly
  <2>3. CASE R2StopsClosed(req)
    BY <2>1, <2>3 DEF R2StopsClosed, CheckpointPresent, Works, OwnMarksOnly
  <2>4. CASE UNCHANGED drawingVars
    BY <2>1, <2>4 DEF Quiet, drawingVars
  <2> QED BY <1>8, <2>2, <2>3, <2>4 DEF ContinueR2Close
<1>9. CASE ContinueR2Verify(req)
  <2>1. CheckpointPresent(req.client, req.parent) /\ req.op = "r2" /\ UNCHANGED <<drawing, saved>>
    BY <1>9 DEF ContinueR2Verify, drawingVars
  <2>2. CASE FinalizeCheckpoint(req.client) /\ drawing = req.parent
    <3>1. PICK m \in manifests : m.owner = req.client /\ m.parent = req.parent
      BY <2>1 DEF CheckpointPresent
    <3>2. drawing' = m.parent /\ manifests' = manifests \ Owned(req.client)
      BY <2>1, <2>2, <3>1 DEF FinalizeCheckpoint
    <3> QED BY <2>1, <3>1, <3>2 DEF Releases
  <2>3. CASE manifests' = manifests
    BY <2>1, <2>3 DEF Quiet
  <2> QED BY <1>9, <2>2, <2>3 DEF ContinueR2Verify, CleanupFails, storeVars
<1> QED BY <1>1, <1>2, <1>3, <1>4, <1>5, <1>6, <1>7, <1>8, <1>9 DEF Handle

-----------------------------------------------------------------------------
(* One checkpoint, whole contents *)

LEMMA StepManifests ==
  ASSUME TypesOK, ProtocolInv, ManifestsBound, [Next]_vars
  PROVE  ManifestsBound'
<1>1. CASE manifests' \subseteq manifests /\ UNCHANGED <<pc, pre>>
  BY <1>1 DEF ManifestsBound, OneCheckpoint
<1>2. CASE \E c \in Client : ClientStep(c)
  <2>1. PICK c \in Client : Send(c) \/ (Learn(c) /\ Bridgeless)
    BY <1>2 DEF ClientStep
  <2>2. CASE Send(c)
    BY <1>1, <2>2 DEF Send, Connect, ConnectFail, storeVars, clientVars
  <2>3. CASE Learn(c) /\ Bridgeless
    <3>1. manifests' = manifests /\ \A m \in manifests : m.owner \in Client
      BY <2>3 DEF Bridgeless, storeVars, TypesOK, WorldTypeOK, Manifest
    <3> QED BY <2>3, <3>1, LearnEffect DEF ManifestsBound, OneCheckpoint
  <2> QED BY <2>1, <2>2, <2>3
<1>3. CASE \E c \in Client : ClientDies(c) /\ Bridgeless /\ UNCHANGED fate
  <2>1. manifests' = manifests /\ \A m \in manifests : m.owner \in Client
    BY <1>3 DEF Bridgeless, storeVars, TypesOK, WorldTypeOK, Manifest
  <2>2. \A d \in Client : pc'[d] \in {pc[d], "done"} /\ pre'[d] = pre[d]
    BY <1>3 DEF ClientDies, Report, TypesOK, ClientTypeOK
  <2> QED BY <2>1, <2>2 DEF ManifestsBound, OneCheckpoint
<1>4. CASE BridgeStep /\ UNCHANGED clientVars /\ Decide
  <2>1. UNCHANGED <<pc, pre>>
    BY <1>4 DEF clientVars
  <2>2. CASE ~\E req \in running : Handle(req)
    <3>1. manifests' = manifests
      BY <1>4, <2>2 DEF BridgeStep, Dispatch, DrainQueued, DrainDeferred, PipeTimeout, Environment,
         ForeignEdit, Save, Crash, Reopen, storeVars
    <3> QED BY <1>1, <2>1, <3>1
  <2>3. ASSUME NEW req \in running, Handle(req)
        PROVE  ManifestsBound'
    <3>1. Bound(req)
      BY DEF ProtocolInv, RequestsBound, InFlight
    <3>2. CASE Opens(req)
      BY <2>1, <3>1, <3>2 DEF Opens, Bound, ManifestsBound, OneCheckpoint
    <3>3. CASE Quiet \/ Works(req) \/ Releases(req)
      BY <1>1, <2>1, <3>3 DEF Quiet, Works, Releases
    <3> QED BY <2>3, <3>1, <3>2, <3>3, HandleWorld DEF TypesOK
  <2> QED BY <2>2, <2>3
<1>5. CASE UNCHANGED vars
  BY <1>1, <1>5 DEF vars, bridgeVars, clientVars
<1> QED BY <1>2, <1>3, <1>4, <1>5 DEF Next

LEMMA WholePlusMarks ==
  ASSUME NEW content, NEW c \in Client, Whole(content)
  PROVE  Whole(content \cup Marks(c))
<1>1. \A d \in Client \ {c} : Marks(d) \cap Marks(c) = {}
  BY DEF Marks
<1>2. ASSUME NEW d \in Client
      PROVE  Marks(d) \subseteq content \cup Marks(c) \/ Marks(d) \cap (content \cup Marks(c)) = {}
  <2>1. CASE d = c
    BY <2>1
  <2>2. CASE d # c
    BY <1>1, <2>2 DEF Whole
  <2> QED BY <2>1, <2>2
<1> QED BY <1>2 DEF Whole

LEMMA ForeignIsNobodysMark ==
  \A c \in Client : Foreign \notin Marks(c)
<1>1. \A c \in Client : Marks(c) \subseteq Client \X Nat
  BY SizeAssumption DEF Marks
<1> QED BY <1>1, ForeignAssumption

LEMMA StepWhole ==
  ASSUME ~MidBatchSave, TypesOK, ProtocolInv, ManifestsBound, ParentsWhole, AllOrNothing, [Next]_vars
  PROVE  ParentsWhole' /\ AllOrNothing'
<1>1. CASE Quiet
  BY <1>1 DEF Quiet, ParentsWhole, AllOrNothing, NoTornDrawing
<1>2. CASE \E c \in Client : ClientStep(c)
  BY <1>1, <1>2 DEF ClientStep, Send, Connect, ConnectFail, Bridgeless, Quiet, storeVars, drawingVars
<1>3. CASE \E c \in Client : ClientDies(c) /\ Bridgeless /\ UNCHANGED fate
  BY <1>1, <1>3 DEF Bridgeless, Quiet, storeVars, drawingVars
<1>4. CASE BridgeStep
  <2>1. CASE DrainQueued \/ DrainDeferred \/ PipeTimeout \/ Reopen
    BY <1>1, <2>1 DEF DrainQueued, DrainDeferred, PipeTimeout, Reopen, Quiet, storeVars, drawingVars
  <2>2. CASE ForeignEdit
    <3>1. Whole(drawing) => Whole(drawing')
      BY <2>2, ForeignIsNobodysMark DEF ForeignEdit, Whole
    <3> QED BY <2>2, <3>1 DEF ForeignEdit, ParentsWhole, AllOrNothing, NoTornDrawing, storeVars
  <2>3. CASE Save
    BY <2>3 DEF Save, ParentsWhole, AllOrNothing, NoTornDrawing, storeVars
  <2>4. CASE Crash
    BY <2>4 DEF Crash, ParentsWhole, AllOrNothing, NoTornDrawing
  <2>5. ASSUME NEW req \in running, Handle(req)
        PROVE  ParentsWhole' /\ AllOrNothing'
    <3>1. Bound(req)
      BY DEF ProtocolInv, RequestsBound, InFlight
    <3>2. CASE Opens(req)
      <4>1. Whole(drawing) /\ manifests' # {} /\ \A m \in manifests' : m.parent = drawing
        BY <3>2 DEF Opens, AllOrNothing, NoTornDrawing
      <4> QED BY <3>2, <4>1 DEF Opens, ParentsWhole, AllOrNothing, NoTornDrawing
    <3>3. CASE Works(req)
      <4>1. PICK m \in manifests : m.owner = req.client /\ m.parent = req.parent
        BY <3>3 DEF Works
      <4>2. Whole(req.parent) /\ manifests' # {}
        BY <3>3, <4>1 DEF Works, ParentsWhole
      <4> QED BY <3>3, <4>2 DEF Works, ParentsWhole, AllOrNothing, NoTornDrawing
    <3>4. CASE Releases(req)
      <4>1. PICK m \in manifests :
              /\ m.owner = req.client
              /\ drawing' = m.parent \/ (req.op = "finalize" /\ drawing' = req.fp)
        BY <3>4 DEF Releases
      <4>2. req.client \in Client
        BY DEF TypesOK, PipeTypeOK, Request
      <4>3. m.parent = pre[req.client] /\ Whole(m.parent)
        BY <4>1 DEF ManifestsBound, ParentsWhole
      <4>4. CASE req.op = "finalize" /\ drawing' = req.fp
        <5>1. req.fp = pre[req.client] \cup Marks(req.client)
          BY <3>1, <4>4 DEF Bound
        <5>2. Whole(drawing')
          BY <4>2, <4>3, <4>4, <5>1, WholePlusMarks
        <5> QED BY <3>4, <5>2 DEF Releases, ParentsWhole, AllOrNothing, NoTornDrawing
      <4>5. CASE drawing' = m.parent
        BY <3>4, <4>3, <4>5 DEF Releases, ParentsWhole, AllOrNothing, NoTornDrawing
      <4> QED BY <4>1, <4>4, <4>5
    <3> QED BY <1>1, <2>5, <3>1, <3>2, <3>3, <3>4, HandleWorld DEF TypesOK
  <2> QED BY <1>4, <2>1, <2>2, <2>3, <2>4, <2>5 DEF BridgeStep, Dispatch, Environment
<1>5. CASE UNCHANGED vars
  BY <1>1, <1>5 DEF vars, bridgeVars, Quiet
<1> QED BY <1>2, <1>3, <1>4, <1>5 DEF Next

-----------------------------------------------------------------------------
(* The theorems *)

LEMMA InitInv ==
  ASSUME Init
  PROVE  TypesOK /\ ProtocolInv /\ ManifestsBound /\ ParentsWhole /\ AllOrNothing
<1> USE DEF Init, BridgeInit, ClientInit
<1>1. NoReply \in Reply /\ {} \in Content
  BY RepliesAreTyped DEF Content
<1>2. TypesOK
  BY <1>1 DEF TypesOK, WorldTypeOK, PipeTypeOK, ClientTypeOK, Pc, Status, Fate, Phase
<1>3. InFlight = {} /\ DOMAIN queue = {}
  BY DEF InFlight
<1>4. ProtocolInv
  BY <1>3 DEF ProtocolInv, Chained, ReceiptsChain, RequestsBound, LiveIsCurrent, OneLive
<1>5. Whole({})
  BY DEF Whole
<1> QED BY <1>2, <1>4, <1>5 DEF ManifestsBound, OneCheckpoint, ParentsWhole, AllOrNothing, NoTornDrawing

LEMMA InvariantParts ==
  IInv <=> TypesOK /\ ProtocolInv /\ ManifestsBound /\ ParentsWhole /\ AllOrNothing
BY DEF IInv, TypesOK, ProtocolInv, WorldTypeOK, PipeTypeOK, AllTypeOK, TypeOK

\* The invariant that needs no assumption about who saves the drawing.
LEMMA Inductive ==
  Spec => [](TypesOK /\ ProtocolInv /\ ManifestsBound)
<1>1. Init => TypesOK /\ ProtocolInv /\ ManifestsBound
  BY InitInv
<1>2. TypesOK /\ ProtocolInv /\ ManifestsBound /\ [Next]_vars
      => TypesOK' /\ ProtocolInv' /\ ManifestsBound'
  BY StepTypes, StepProtocol, StepManifests DEF TypesOK, ProtocolInv
<1> QED BY <1>1, <1>2, PTL DEF Spec

\* Every state of the bridge, its queue, its checkpoint store and its clients has
\* its type, whatever is lost, restored or cancelled.
THEOREM TypeCorrectness == Spec => []AllTypeOK
<1>1. TypesOK => AllTypeOK
  BY DEF TypesOK, WorldTypeOK, PipeTypeOK, AllTypeOK, TypeOK
<1> QED BY <1>1, Inductive, PTL

\* NativeCheckpointStore.Create never lets a second unresolved checkpoint into the
\* lineage of a drawing.
THEOREM SingleCheckpoint == Spec => []OneCheckpoint
<1>1. ManifestsBound => OneCheckpoint
  BY DEF ManifestsBound
<1> QED BY <1>1, Inductive, PTL

\* Of all queued, deferred and running requests at most one is live: the one the
\* connected client waits for.  The others were cancelled by RequestTimeout.
THEOREM SingleLiveRequest == Spec => []OneLiveRequest
<1>1. TypesOK /\ ProtocolInv => OneLiveRequest
  <2> SUFFICES ASSUME TypesOK, ProtocolInv, NEW p \in InFlight, NEW q \in InFlight, p.live, q.live
               PROVE  p = q /\ pipe = {p.client}
    BY DEF OneLiveRequest
  <2>1. pipe = {p.client}
    BY DEF ProtocolInv, LiveIsCurrent, Current
  <2>2. ASSUME NEW i \in DOMAIN queue, NEW j \in DOMAIN queue, p = queue[i], q = queue[j]
        PROVE  p = q
    BY <2>2 DEF ProtocolInv, OneLive
  <2>3. ASSUME NEW i \in DOMAIN queue, queue[i].live, NEW r \in deferred \cup running, r.live
        PROVE  FALSE
    BY <2>3 DEF ProtocolInv, OneLive
  <2>4. p \in deferred \cup running /\ q \in deferred \cup running => p = q
    BY DEF ProtocolInv, OneLive
  <2> QED BY <2>1, <2>2, <2>3, <2>4 DEF InFlight
<1> QED BY <1>1, Inductive, PTL

\* The inductive invariant of the model, which the other invariants of the protocol
\* rest on: as long as nobody saves the drawing while a checkpoint is pending.
THEOREM InductiveInvariant ==
  ASSUME ~MidBatchSave
  PROVE  Spec => []IInv
<1>1. Init => IInv
  BY InitInv, InvariantParts
<1>2. IInv /\ [Next]_vars => IInv'
  <2> SUFFICES ASSUME IInv, [Next]_vars
               PROVE  IInv'
    OBVIOUS
  <2>1. TypesOK' /\ ProtocolInv' /\ ManifestsBound' /\ ParentsWhole' /\ AllOrNothing'
    BY InvariantParts, StepTypes, StepProtocol, StepManifests, StepWhole DEF TypesOK, ProtocolInv
  <2> QED BY <2>1 DEF IInv, TypesOK, ProtocolInv, WorldTypeOK, PipeTypeOK, AllTypeOK, TypeOK
<1> QED BY <1>1, <1>2, PTL DEF Spec

\* No drawing file, and no drawing without a pending checkpoint, ever holds a
\* part of a logical batch or of a metadata set, for any number of chunks, of
\* clients, of crashes and of foreign edits, as long as nobody saves the drawing
\* while a checkpoint is pending.
THEOREM Atomicity ==
  ASSUME ~MidBatchSave
  PROVE  Spec => []AllOrNothing
<1>1. IInv => AllOrNothing
  BY DEF IInv
<1> QED BY <1>1, InductiveInvariant, PTL

LEMMA StepFence ==
  ASSUME TypesOK, ProtocolInv, ManifestsBound, Next,
         NEW m \in manifests \cap manifests', isOpen', runtimeId' = runtimeId,
         NEW d \in Client \ {m.owner}
  PROVE  Marks(d) \cap drawing' = Marks(d) \cap drawing
<1>1. CASE drawing' = drawing
  BY <1>1
<1>2. CASE ForeignEdit
  BY <1>2, ForeignIsNobodysMark DEF ForeignEdit
<1>3. ASSUME NEW req \in running, Handle(req)
      PROVE  Marks(d) \cap drawing' = Marks(d) \cap drawing
  <2>1. Bound(req)
    BY DEF ProtocolInv, RequestsBound, InFlight
  <2>2. CASE Works(req)
    <3>1. m.owner = req.client
      BY <2>2 DEF Works, ManifestsBound, OneCheckpoint
    <3>2. Marks(d) \cap Marks(m.owner) = {}
      BY DEF Marks
    <3> QED BY <2>2, <3>1, <3>2 DEF Works, OwnMarksOnly
  <2>3. CASE Releases(req)
    BY <2>3 DEF Releases, Owned, ManifestsBound, OneCheckpoint
  <2> QED BY <1>1, <1>3, <2>1, <2>2, <2>3, HandleWorld DEF TypesOK, Quiet, Opens
<1>4. CASE \E c \in Client : ClientStep(c)
  BY <1>1, <1>4 DEF ClientStep, Send, Connect, ConnectFail, Bridgeless, drawingVars
<1>5. CASE \E c \in Client : ClientDies(c) /\ Bridgeless /\ UNCHANGED fate
  BY <1>1, <1>5 DEF Bridgeless, drawingVars
<1>6. CASE DrainQueued \/ DrainDeferred \/ PipeTimeout \/ Save \/ Reopen
  BY <1>1, <1>6 DEF DrainQueued, DrainDeferred, PipeTimeout, Save, Reopen, drawingVars
<1>7. CASE Crash
  BY <1>7 DEF Crash
<1> QED BY <1>2, <1>3, <1>4, <1>5, <1>6, <1>7 DEF Next, BridgeStep, Dispatch, Environment

\* While the checkpoint of one client is pending in one open drawing, no step of
\* the bridge, of another client or of the environment touches the marks of
\* anybody else.
THEOREM Fencing == Spec => Fence
<1>1. TypesOK /\ ProtocolInv /\ ManifestsBound /\ [Next]_vars =>
      [\A m \in manifests \cap manifests' :
         isOpen' /\ runtimeId' = runtimeId =>
           \A d \in Client \ {m.owner} : Marks(d) \cap drawing' = Marks(d) \cap drawing]_vars
  BY StepFence
<1> QED BY <1>1, Inductive, PTL DEF Spec, Fence

-----------------------------------------------------------------------------
(* What is still in the bridge when a client has its answer *)

LEMMA ErrorSaysNothing ==
  Error.outcome = "ERROR" /\ NoReply.outcome = "NONE" /\ Error # NoReply
BY DEF Error, NoReply, Answer

LEMMA TwinsAreSymmetric ==
  \A p, q : Twins(p, q) => Twins(q, p)
BY DEF Twins

\* The parts of the invariant that only depend on which requests of a client are
\* left: fewer are no harm.
LEMMA FewerRequests ==
  ASSUME SettledInv, UNCHANGED <<pc, status>>,
         \A q \in InFlight' : \E p \in InFlight : q.client = p.client /\ q.op = p.op
  PROVE  Unreported' /\ NoStaleRequest'
BY DEF SettledInv, Unreported, NoStaleRequest

\* A client that has been answered has sent its request.
LEMMA UnsentAfter ==
  ASSUME TypesOK, ProtocolInv, NEW req \in running, NEW a \in Reply, Respond(req, a), a.outcome # "NONE"
  PROVE  \A d \in Client : Unsent(d)' => Unsent(d)
<1> USE DEF TypesOK, ProtocolInv
<1>1. CASE ~req.live
  BY <1>1 DEF Respond, Unsent, pipeVars
<1>2. CASE req.live
  <2>1. pipe = {req.client}
    BY <1>2 DEF LiveIsCurrent, Current, InFlight
  <2>2. a # NoReply
    BY ErrorSaysNothing
  <2> QED BY <1>2, <2>1, <2>2, ErrorSaysNothing DEF Respond, Unsent, PipeTypeOK
<1> QED BY <1>1, <1>2

LEMMA RespondSettled ==
  ASSUME TypesOK, ProtocolInv, SettledInv, UNCHANGED clientVars,
         NEW req \in running, NEW a \in Reply, Respond(req, a), a.outcome # "NONE"
  PROVE  SettledInv'
<1> USE DEF TypesOK, ProtocolInv, SettledInv
<1>1. /\ InFlight' \subseteq InFlight /\ running' = {} /\ UNCHANGED <<queue, deferred>>
      /\ req \in InFlight /\ req.client \in Client
  BY DEF InFlight, Respond, PipeTypeOK, Request
<1>2. Unreported' /\ NoStaleRequest'
  BY <1>1, FewerRequests DEF clientVars
<1>3. SentOnce' /\ Drained'
  BY <1>1 DEF SentOnce, Drained
<1>4. \A d \in Client : Unsent(d)' => Unsent(d)
  BY UnsentAfter
<1>5. RestoreIsLast'
  BY <1>1, <1>4, InFlightTypes DEF RestoreIsLast, Passed, clientVars
<1>6. Answered'
  <2>1. CASE ~req.live
    BY <1>1, <2>1 DEF Respond, Answered, Reached, pipeVars
  <2>2. CASE req.live
    <3>1. \A q \in InFlight' : q.client # req.client
      BY <1>1, <2>2 DEF Drained, InFlight
    <3>2. \A d \in Client : d # req.client => reply'[d] = reply[d]
      BY <2>2 DEF Respond, PipeTypeOK
    <3> QED BY <1>1, <3>1, <3>2 DEF Answered, Reached
  <2> QED BY <2>1, <2>2
<1> QED BY <1>2, <1>3, <1>5, <1>6

LEMMA DeferSettled ==
  ASSUME TypesOK, ProtocolInv, SettledInv, UNCHANGED clientVars,
         NEW req \in running, Defer(req), req.op = "r2"
  PROVE  SettledInv'
<1> USE DEF TypesOK, ProtocolInv, SettledInv
<1>1. running = {req} /\ running' = {} /\ deferred' = deferred \cup running
      /\ UNCHANGED <<queue, pipe, reply>>
  BY DEF Defer, OneLive, pipeVars
<1>2. InFlight' = InFlight
  BY <1>1 DEF InFlight
<1>3. Unreported' /\ NoStaleRequest' /\ Answered'
  BY <1>1, <1>2 DEF Unreported, NoStaleRequest, Answered, Reached, clientVars
<1>4. SentOnce'
  BY <1>1, TwinsAreSymmetric DEF SentOnce
<1>5. RestoreIsLast'
  BY <1>1, <1>2 DEF RestoreIsLast, Passed, Unsent, clientVars
<1>6. Drained'
  BY <1>1 DEF Drained
<1> QED BY <1>3, <1>4, <1>5, <1>6

\* What is taken from the queue was the last request of a client that still waits.
LEMMA DrainQueuedSettled ==
  ASSUME TypesOK, ProtocolInv, SettledInv, UNCHANGED clientVars, DrainQueued
  PROVE  SettledInv'
<1> USE DEF TypesOK, ProtocolInv, SettledInv
<1> DEFINE h == queue[1]
<1>1. /\ 1 \in DOMAIN queue /\ Head(queue) = h
      /\ Len(queue') = Len(queue) - 1 /\ Len(queue) \in Nat /\ DOMAIN queue' = 1 .. Len(queue')
      /\ \A i \in DOMAIN queue' : i \in Nat /\ i + 1 \in DOMAIN queue /\ queue'[i] = queue[i + 1] /\ i + 1 # 1
  <2>1. queue \in Seq(Request) /\ queue # <<>> /\ queue' = Tail(queue)
    BY DEF DrainQueued, PipeTypeOK
  <2>2. /\ 1 \in DOMAIN queue /\ Head(queue) = queue[1] /\ Len(queue') = Len(queue) - 1
        /\ \A i \in DOMAIN queue' : i + 1 \in DOMAIN queue /\ queue'[i] = queue[i + 1]
    BY <2>1, QueueHead
  <2>3. Len(queue) \in Nat /\ DOMAIN queue' = 1 .. Len(queue')
    BY <2>1
  <2> QED BY <2>2, <2>3
<1>2. running = {} /\ deferred' = deferred /\ UNCHANGED <<pipe, reply>>
      /\ running' = IF h.live THEN {h} ELSE {}
  BY <1>1 DEF DrainQueued, Take, pipeVars
<1>3. InFlight' \subseteq InFlight /\ h \in InFlight
  BY <1>1, <1>2 DEF InFlight
<1>4. h.live => DOMAIN queue' = {} /\ \A q \in deferred : ~q.live
  BY <1>1 DEF OneLive
<1> HIDE DEF h
<1>5. Unreported' /\ NoStaleRequest' /\ Answered'
  BY <1>2, <1>3 DEF Unreported, NoStaleRequest, Answered, Reached, clientVars
<1>6. RestoreIsLast'
  BY <1>2, <1>3 DEF RestoreIsLast, Passed, Unsent, clientVars
<1>7. \A q \in deferred : ~Twins(h, q)
  BY <1>1 DEF SentOnce, h
<1>8. SentOnce'
  <2>1. \A i, j \in DOMAIN queue' : Twins(queue'[i], queue'[j]) => i = j
    BY <1>1 DEF SentOnce
  <2>2. \A i \in DOMAIN queue' : \A p \in deferred' \cup running' : ~Twins(queue'[i], p)
    BY <1>1, <1>2, <1>4 DEF SentOnce
  <2> QED BY <1>2, <1>7, <2>1, <2>2, TwinsAreSymmetric DEF SentOnce
<1>9. Drained'
  <2>1. CASE ~h.live
    BY <1>1, <1>2, <2>1 DEF Drained
  <2>2. CASE h.live
    <3>1. \A q \in deferred : q.client # h.client
      BY <1>3, <1>7, <2>2 DEF RestoreIsLast, Twins, InFlight
    <3> QED BY <1>2, <1>4, <2>2, <3>1 DEF Drained
  <2> QED BY <2>1, <2>2
<1> QED BY <1>5, <1>6, <1>8, <1>9

LEMMA DrainDeferredSettled ==
  ASSUME TypesOK, ProtocolInv, SettledInv, UNCHANGED clientVars, DrainDeferred
  PROVE  SettledInv'
<1> USE DEF TypesOK, ProtocolInv, SettledInv
<1>1. PICK req \in deferred : Take(req) /\ deferred' = deferred \ {req}
  BY DEF DrainDeferred
<1>2. running = {} /\ UNCHANGED <<queue, pipe, reply>>
      /\ running' = IF req.live THEN {req} ELSE {}
  BY <1>1 DEF DrainDeferred, Take, pipeVars
<1>3. InFlight' \subseteq InFlight
  BY <1>1, <1>2 DEF InFlight
<1>4. Unreported' /\ NoStaleRequest' /\ Answered'
  BY <1>2, <1>3 DEF Unreported, NoStaleRequest, Answered, Reached, clientVars
<1>5. RestoreIsLast'
  BY <1>1, <1>2, <1>3 DEF RestoreIsLast, Passed, Unsent, clientVars
<1>6. SentOnce'
  BY <1>1, <1>2 DEF SentOnce
<1>7. Drained'
  BY <1>1, <1>2 DEF Drained, OneLive
<1> QED BY <1>4, <1>5, <1>6, <1>7

LEMMA AbandonSettled ==
  ASSUME TypesOK, ProtocolInv, SettledInv, UNCHANGED clientVars, PipeTimeout \/ Crash
  PROVE  SettledInv'
<1> USE DEF TypesOK, ProtocolInv, SettledInv
<1>1. pipe' = {} /\ reply' = [c \in Client |-> IF c \in pipe THEN Error ELSE reply[c]]
  BY DEF PipeTimeout, Crash
<1>2. \A d \in Client : (Unsent(d)' => Unsent(d)) /\ (Reached(d)' => Reached(d))
  BY <1>1, ErrorSaysNothing DEF Unsent, Reached
<1>3. CASE PipeTimeout
  <2>1. \A i \in DOMAIN queue : queue[i] \in Request
    BY DEF PipeTypeOK
  <2>2. /\ DOMAIN queue' = DOMAIN queue /\ \A i \in DOMAIN queue : queue'[i] = Cancelled(queue[i])
        /\ \A q \in deferred' : \E p \in deferred : q = Cancelled(p)
        /\ \A q \in running' : \E p \in running : q = Cancelled(p)
    BY <1>3 DEF PipeTimeout
  <2>3. \A p \in Request : /\ Cancelled(p).client = p.client /\ Cancelled(p).op = p.op
                           /\ ~Cancelled(p).live
    BY CancelledIsTyped
  <2>4. \A q \in InFlight' : ~q.live /\ \E p \in InFlight : q.client = p.client /\ q.op = p.op
    BY <2>1, <2>2, <2>3 DEF InFlight, PipeTypeOK
  <2>5. Unreported' /\ NoStaleRequest'
    BY <2>4, FewerRequests DEF clientVars
  <2>6. RestoreIsLast' /\ Answered'
    <3>1. \A q \in InFlight' : Passed(q)'
      BY <1>2, <2>4, InFlightTypes DEF RestoreIsLast, Passed, clientVars
    <3>2. \A q \in deferred' : q.op = "r2"
      BY <2>2, <2>3 DEF RestoreIsLast, PipeTypeOK
    <3>3. Answered'
      BY <1>2, <2>4 DEF Answered
    <3> QED BY <2>4, <3>1, <3>2, <3>3 DEF RestoreIsLast
  <2>7. Drained'
    BY <2>4 DEF Drained, InFlight
  <2>8. SentOnce'
    <3>1. \A p, q \in Request : Twins(Cancelled(p), Cancelled(q)) => Twins(p, q)
      BY <2>3 DEF Twins
    <3>2. \A p \in deferred \cup running : p \in Request
      BY DEF PipeTypeOK
    <3>3. \A i, j \in DOMAIN queue' : Twins(queue'[i], queue'[j]) => i = j
      BY <2>1, <2>2, <3>1 DEF SentOnce
    <3>4. \A i \in DOMAIN queue' : \A p \in deferred' \cup running' : ~Twins(queue'[i], p)
      BY <2>1, <2>2, <3>1, <3>2 DEF SentOnce
    <3>5. \A p, q \in deferred' : Twins(p, q) => p = q
      BY <2>2, <3>1, <3>2 DEF SentOnce
    <3>6. \A p \in deferred', q \in running' : ~Twins(p, q)
      BY <2>2, <3>1, <3>2 DEF SentOnce
    <3> QED BY <3>3, <3>4, <3>5, <3>6 DEF SentOnce
  <2> QED BY <2>5, <2>6, <2>7, <2>8
<1>4. CASE Crash
  <2>1. InFlight' = {} /\ queue' = <<>> /\ deferred' = {} /\ running' = {}
    BY <1>4 DEF Crash, InFlight
  <2>2. Unreported' /\ NoStaleRequest'
    BY <2>1, FewerRequests DEF clientVars
  <2> QED BY <2>1, <2>2 DEF SentOnce, RestoreIsLast, Drained, Answered
<1> QED BY <1>3, <1>4

LEMMA IdleSettled ==
  ASSUME SettledInv, UNCHANGED <<clientVars, queue, deferred, running, pipeVars>>
  PROVE  SettledInv'
BY DEF SettledInv, Unreported, SentOnce, RestoreIsLast, Passed, Unsent, Drained, Answered, Reached,
   NoStaleRequest, InFlight, clientVars, pipeVars

\* A request that a client may send once has not been sent before.
LEMMA SendSettled ==
  ASSUME TypesOK, ProtocolInv, SettledInv, NEW c \in Client, Send(c)
  PROVE  SettledInv'
<1> USE DEF TypesOK, ProtocolInv, SettledInv
<1>1. pc[c] # "done" /\ Unsent(c) /\ UNCHANGED <<pc, status>> /\ status[c] = "none"
  BY DEF Send, Unsent, Unreported, clientVars
<1>2. CASE Connect(c, RequestOf(c)) /\ Len(queue) < QueueMax
  <2>0. PICK req \in Request : req = RequestOf(c)
    <3>1. OpOf[pc[c]] \in Op
      BY <1>1 DEF ClientTypeOK, Pc, OpOf, Op
    <3> QED BY <3>1 DEF RequestOf, Request, ClientTypeOK
  <2>1. queue' = Append(queue, req) /\ pipe = {} /\ pipe' = {c} /\ reply' = reply
        /\ deferred' = deferred /\ running' = running
    BY <1>2, <2>0 DEF Connect
  <2>2. \A q \in InFlight : ~q.live
    BY <2>1 DEF LiveIsCurrent, Current
  <2>3. req.client = c /\ req.op = OpOf[pc[c]]
    BY <2>0 DEF RequestOf
  <2>4. /\ req.op \in Creates => pc[c] \in Creates
        /\ req.op = "r2" => pc[c] = "restore"
        /\ pc[c] = "restore" => req.op = "r2"
        /\ pc[c] = "bind" => req.op = "state"
    BY <2>3 DEF OpOf, ClientTypeOK, Pc, Creates
  <2>5. /\ Len(queue') = Len(queue) + 1 /\ DOMAIN queue' = 1 .. Len(queue') /\ DOMAIN queue = 1 .. Len(queue)
        /\ \A i \in DOMAIN queue : queue'[i] = queue[i]
        /\ queue'[Len(queue')] = req /\ Len(queue) \in Nat
    <3>1. queue \in Seq(Request) /\ Len(queue) \in Nat
      BY DEF PipeTypeOK
    <3> QED BY <2>1, <2>3, <3>1
  <2>6. InFlight' = InFlight \cup {req}
    BY <2>1, <2>5 DEF InFlight
  <2>7. \A q \in InFlight : ~Twins(req, q)
    BY <1>1, <2>3, <2>4 DEF RestoreIsLast, Passed, Twins, Creates
  <2>8. Unreported'
    BY <1>1 DEF Unreported
  <2>9. SentOnce'
    <3>1. \A i \in DOMAIN queue' : i \in DOMAIN queue \/ i = Len(queue')
      BY <2>5
    <3>2. \A q \in InFlight : ~Twins(q, req)
      BY <2>7, TwinsAreSymmetric
    <3>3. \A i, j \in DOMAIN queue' : Twins(queue'[i], queue'[j]) => i = j
      <4> SUFFICES ASSUME NEW i \in DOMAIN queue', NEW j \in DOMAIN queue', Twins(queue'[i], queue'[j])
                   PROVE  i = j
        OBVIOUS
      <4>1. i \in DOMAIN queue => queue'[i] = queue[i] /\ queue[i] \in InFlight
        BY <2>5 DEF InFlight
      <4>2. j \in DOMAIN queue => queue'[j] = queue[j] /\ queue[j] \in InFlight
        BY <2>5 DEF InFlight
      <4> QED BY <2>5, <2>7, <3>1, <3>2, <4>1, <4>2 DEF SentOnce
    <3>4. \A i \in DOMAIN queue' : \A p \in deferred' \cup running' : ~Twins(queue'[i], p)
      BY <2>1, <2>5, <2>7, <3>1 DEF SentOnce, InFlight
    <3> QED BY <2>1, <3>3, <3>4 DEF SentOnce
  <2>10. RestoreIsLast'
    <3>1. \A d \in Client : Unsent(d)' => Unsent(d) /\ d # c
      BY <2>1 DEF Unsent
    <3>2. \A q \in InFlight : Passed(q)'
      BY <1>1, <3>1, InFlightTypes DEF RestoreIsLast, Passed
    <3>3. Passed(req)'
      BY <1>1, <2>3, <2>4, <3>1 DEF Passed, Creates
    <3>4. \A p, q \in InFlight' : q.op = "r2" /\ p.live /\ p.client = q.client => p.op = "r2"
      <4> SUFFICES ASSUME NEW p \in InFlight', NEW q \in InFlight', q.op = "r2", p.live, p.client = q.client
                   PROVE  p.op = "r2"
        OBVIOUS
      <4>1. p = req
        BY <2>2, <2>6
      <4>2. pc[c] = "restore"
        BY <1>1, <2>3, <2>4, <2>6, <4>1 DEF RestoreIsLast, Passed
      <4> QED BY <2>4, <4>1, <4>2
    <3> QED BY <2>1, <2>6, <3>2, <3>3, <3>4 DEF RestoreIsLast
  <2>11. Drained'
    BY <2>1, <2>2 DEF Drained, InFlight
  <2>12. Answered'
    BY <1>1, <2>1, <2>3, <2>6, ErrorSaysNothing DEF Answered, Reached, Unsent
  <2>13. NoStaleRequest'
    BY <1>1, <2>3, <2>6 DEF NoStaleRequest
  <2> QED BY <2>8, <2>9, <2>10, <2>11, <2>12, <2>13
<1>3. CASE UNCHANGED <<queue, pipe, deferred, running>> /\ reply' = [reply EXCEPT ![c] = Error]
  <2>1. InFlight' = InFlight
    BY <1>3 DEF InFlight
  <2>2. \A d \in Client : (Unsent(d)' => Unsent(d)) /\ (Reached(d)' => Reached(d))
    BY <1>3, ErrorSaysNothing DEF Unsent, Reached, PipeTypeOK
  <2>3. RestoreIsLast'
    BY <1>1, <1>3, <2>1, <2>2, InFlightTypes DEF RestoreIsLast, Passed
  <2>4. Unreported' /\ NoStaleRequest' /\ Answered'
    BY <1>1, <2>1, <2>2 DEF Unreported, NoStaleRequest, Answered
  <2> QED BY <1>3, <2>3, <2>4 DEF SentOnce, Drained
<1> QED BY <1>2, <1>3 DEF Send, Connect, ConnectFail

\* What a client reports when, and where it goes.
LEMMA LearnReports ==
  ASSUME TypesOK, NEW c \in Client, Learn(c)
  PROVE  /\ \A d \in Client \ {c} : status'[d] = status[d]
         /\ pc'[c] # "done" => status'[c] = status[c]
         /\ pc[c] = "restore" => pc'[c] = "done"
         /\ pc'[c] \in Creates => pc[c] = "bind"
         /\ pc'[c] = "reconcile" => pc[c] = "confirm" /\ Is(c, "ROWS") /\ ~Discovered(c)
         /\ \/ status'[c] \in {status[c], "UNCERTAIN"}
            \/ status'[c] = "COMMITTED" /\ (pc[c] = "reconcile" \/ (pc[c] = "finalize" /\ Is(c, "FINALIZED")))
            \/ status'[c] = "ROLLED_BACK_VERIFIED" /\ UndoneReply(c)
            \/ status'[c] = "REFUSED" /\ (pc[c] = "bind" \/ (pc[c] = "mutate" /\ Is(c, "REFUSED")))
         /\ status'[c] = "COMMITTED" /\ pc[c] = "reconcile" => status[c] = "COMMITTED" \/ ReadBack(c)
<1>0. pc \in [Client -> Pc] /\ status \in [Client -> Status]
  BY DEF TypesOK, ClientTypeOK
<1> USE <1>0 DEF Got, Goto, Report, Creates, UndoneReply
<1>1. CASE OnBind(c) BY <1>1 DEF OnBind
<1>2. CASE OnBegin(c) \/ OnChunk(c) BY <1>2 DEF OnBegin, OnChunk
<1>3. CASE OnDiscover(c) \/ OnReadback(c) BY <1>3 DEF OnDiscover, OnReadback, Undo
<1>4. CASE OnRestore(c) BY <1>4 DEF OnRestore, Restored
<1>5. CASE OnFinalize(c) \/ OnSetterFinalize(c) BY <1>5 DEF OnFinalize, OnSetterFinalize
<1>6. CASE OnConfirm(c) BY <1>6 DEF OnConfirm
<1>7. CASE OnReconcile(c) BY <1>7 DEF OnReconcile, ReadBack
<1>8. CASE OnMutate(c) BY <1>8 DEF OnMutate, Restored
<1>9. CASE OnCompensate(c) BY <1>9 DEF OnCompensate, Restored
<1> QED BY <1>1, <1>2, <1>3, <1>4, <1>5, <1>6, <1>7, <1>8, <1>9 DEF Learn, Concludes

LEMMA LearnSettled ==
  ASSUME TypesOK, ProtocolInv, SettledInv, NEW c \in Client, Learn(c), Bridgeless
  PROVE  SettledInv'
<1> USE DEF TypesOK, ProtocolInv, SettledInv
<1>1. /\ InFlight' = InFlight /\ UNCHANGED <<queue, deferred, running, pipe>>
      /\ reply' = [reply EXCEPT ![c] = NoReply]
      /\ \A d \in Client \ {c} : pc'[d] = pc[d] /\ reply'[d] = reply[d]
      /\ pc[c] # "done" /\ pc'[c] # "bind" /\ reply'[c] = NoReply
  BY LearnEffect DEF Bridgeless, InFlight, PipeTypeOK
<1>2. status[c] = "none"
  BY <1>1 DEF Unreported
<1>3. Unreported'
  BY <1>1, LearnReports DEF Unreported
<1>4. SentOnce' /\ Drained'
  BY <1>1 DEF SentOnce, Drained
<1>5. Answered'
  BY <1>1, ErrorSaysNothing DEF Answered, Reached
<1>6. RestoreIsLast'
  <2>1. \A q \in InFlight : Passed(q)'
    <3> SUFFICES ASSUME NEW q \in InFlight PROVE Passed(q)'
      OBVIOUS
    <3>1. Passed(q) /\ q.client \in Client
      BY InFlightTypes DEF RestoreIsLast
    <3>2. CASE q.client = c
      BY <1>1, <3>1, <3>2, LearnReports DEF Passed, Creates
    <3>3. CASE q.client # c
      BY <1>1, <3>1, <3>3 DEF Passed, Unsent
    <3> QED BY <3>2, <3>3
  <2> QED BY <1>1, <2>1 DEF RestoreIsLast
<1>7. NoStaleRequest'
  <2>1. ASSUME status'[c] \in {"COMMITTED", "ROLLED_BACK_VERIFIED", "REFUSED"},
               NEW req \in InFlight, req.client = c
        PROVE  req.op \in {"state", "list"}
    <3>1. pc[c] = "bind" \/ Reached(c)
      BY <1>2, <2>1, LearnReports DEF Reached, UndoneReply, ReadBack, Is
    <3> QED BY <2>1, <3>1 DEF Answered, RequestsBound, Bound
  <2>2. \A d \in Client \ {c} : status'[d] = status[d]
    BY LearnReports
  <2> QED BY <1>1, <2>1, <2>2 DEF NoStaleRequest
<1> QED BY <1>3, <1>4, <1>5, <1>6, <1>7

LEMMA DeathSettled ==
  ASSUME TypesOK, ProtocolInv, SettledInv, NEW c \in Client, ClientDies(c), Bridgeless
  PROVE  SettledInv'
<1> USE DEF TypesOK, ProtocolInv, SettledInv
<1>1. /\ pc' = [pc EXCEPT ![c] = "done"] /\ status' = [status EXCEPT ![c] = "DEAD"]
      /\ UNCHANGED <<queue, deferred, running, pipe, reply>>
  BY DEF ClientDies, Report, Bridgeless
<1>2. InFlight' = InFlight
  BY <1>1 DEF InFlight
<1>3. Unreported' /\ NoStaleRequest'
  BY <1>1, <1>2 DEF Unreported, NoStaleRequest, ClientTypeOK
<1>4. \A q \in InFlight : Passed(q)'
  BY <1>1, InFlightTypes DEF RestoreIsLast, Passed, Unsent, Creates, ClientTypeOK
<1> QED BY <1>1, <1>2, <1>3, <1>4 DEF SentOnce, RestoreIsLast, Drained, Answered, Reached

\* What an answer says of the checkpoint and of the drawing is so when it is given.
Evidence(req, a) ==
  /\ a.outcome # "NONE"
  /\ a.outcome = "FINALIZED" \/ (a.outcome = "ROLLED_BACK_VERIFIED" /\ req.op # "chunk") =>
       Owned(req.client)' = {}
  /\ a.outcome = "ROLLED_BACK_VERIFIED" /\ req.op \notin {"chunk", "mutate"} =>
       \E m \in manifests : m.owner = req.client /\ drawing' = m.parent
  /\ req.op = "mutate" /\ a.outcome \in {"ROLLED_BACK_VERIFIED", "REFUSED"} => drawing' = drawing
  /\ a.outcome = "REFUSED" => req.op = "mutate"
  /\ a.outcome = "ROWS" => a.rows = manifests
  /\ a.outcome = "STATE" => req.op = "state" /\ a.fp = drawing
  /\ a.outcome = "FINALIZED" =>
       req.op = "finalize" /\ drawing = req.fp /\ drawing' = drawing /\ Owned(req.client) # {}

LEMMA HandleEvidence ==
  ASSUME WorldTypeOK, PipeTypeOK, NEW req \in running, Bound(req), Handle(req)
  PROVE  (Defer(req) /\ req.op = "r2") \/ \E a \in Reply : Respond(req, a) /\ Evidence(req, a)
<1> USE RepliesAreTyped
<1>1. drawing \in Content /\ runtimeId \in Nat /\ drawing' \in Content
  BY HandleTypes DEF WorldTypeOK
<1>2. /\ Evidence(req, Error)
      /\ \A o \in {"OPEN", "COMMITTED_VERIFIED", "COMMIT_INTEGRITY_FAIL", "ROLLBACK_FAILED"} :
           \A s, n : Evidence(req, Answer(o, s, n))
  BY DEF Evidence, Error, Answer
<1>3. \A s, n, o : Answer(o, s, n).outcome = o /\ Answer(o, s, n).rows = {} /\ Answer(o, s, n).fp = s
  BY DEF Answer
<1>4. CASE HandlerFails(req) \/ DocumentState(req) \/ BeginLogicalBatch(req)
  <2>1. req.op = "state" => Evidence(req, Answer("STATE", drawing, runtimeId))
    BY DEF Evidence, Answer
  <2> QED BY <1>1, <1>2, <1>4, <2>1 DEF HandlerFails, DocumentState, BeginLogicalBatch, Outcome
<1>5. CASE ExecuteBatch(req)
  <2>1. Committed(req) \in Content
    BY <1>5, CommittedIsContent DEF ExecuteBatch
  <2>2. Evidence(req, Answer("ROLLED_BACK_VERIFIED", drawing, runtimeId))
    BY <1>3, <1>5 DEF Evidence, ExecuteBatch
  <2> QED BY <1>1, <1>2, <1>5, <2>1, <2>2 DEF ExecuteBatch, IntegrityOutcome, Outcome
<1>6. CASE MetadataSet(req)
  <2>0. Refused.outcome = "REFUSED" /\ req.op = "mutate"
    BY <1>6 DEF Refused, Answer, MetadataSet
  <2>1. CASE MutateRefused(req)
    BY <2>0, <2>1 DEF MutateRefused, Evidence, drawingVars
  <2>2. CASE MutateCommits(req)
    BY <1>1, <1>2, <2>2 DEF MutateCommits, IntegrityOutcome, Outcome
  <2>3. CASE MutateAborts(req)
    <3>1. drawing' = drawing /\ manifests = {}
      BY <2>3 DEF MutateAborts, drawingVars
    <3>2. Evidence(req, Refused)
      BY <2>0, <3>1 DEF Evidence
    <3>3. UNCHANGED storeVars => Evidence(req, Answer("ROLLED_BACK_VERIFIED", drawing, runtimeId))
      BY <1>3, <2>0, <3>1 DEF Evidence, Owned, storeVars
    <3> QED BY <1>1, <1>2, <2>3, <3>2, <3>3 DEF MutateAborts, Outcome
  <2> QED BY <1>6, <2>1, <2>2, <2>3 DEF MetadataSet
<1>7. CASE ListRecoveries(req)
  <2> DEFINE rows == [Answer("ROWS", {}, 0) EXCEPT !.rows = manifests]
  <2>1. rows \in Reply /\ rows.outcome = "ROWS" /\ rows.rows = manifests
    BY DEF Answer, Reply, Outcome, Content, WorldTypeOK
  <2> QED BY <1>7, <2>1 DEF ListRecoveries, Evidence
<1>8. CASE FinalizeRecovery(req)
  <2>1. CASE FinalizeCheckpoint(req.client) /\ Respond(req, Answer("FINALIZED", drawing, runtimeId))
    <3>1. Owned(req.client)' = {} /\ Owned(req.client) # {}
      BY <1>8, <2>1 DEF FinalizeRecovery, FinalizeCheckpoint, AnyCheckpoint, Owned
    <3>2. req.op = "finalize" /\ drawing = req.fp /\ drawing' = drawing
      BY <1>8 DEF FinalizeRecovery, drawingVars
    <3>3. Evidence(req, Answer("FINALIZED", drawing, runtimeId))
      BY <1>3, <3>1, <3>2 DEF Evidence
    <3> QED BY <1>1, <2>1, <3>3 DEF Outcome
  <2>2. CASE Respond(req, Error)
    BY <1>2, <2>2
  <2> QED BY <1>8, <2>1, <2>2 DEF FinalizeRecovery
<1>9. CASE ResolveR1(req)
  <2>1. CASE R1Unavailable(req)
    BY <1>1, <1>2, <2>1 DEF R1Unavailable, Outcome
  <2>2. CASE R1Compensates(req)
    <3>1. CASE /\ FinalizeCheckpoint(req.client) /\ drawing' = req.parent
               /\ Respond(req, Answer("ROLLED_BACK_VERIFIED", drawing', runtimeId))
      <4>1. Owned(req.client)' = {}
        BY <3>1 DEF FinalizeCheckpoint, Owned
      <4>2. req.op = "r1" /\ \E m \in manifests : m.owner = req.client /\ m.parent = req.parent
        BY <1>9 DEF ResolveR1, CheckpointPresent
      <4> QED BY <1>1, <1>3, <3>1, <4>1, <4>2 DEF Evidence, Outcome
    <3>2. CASE Respond(req, Error) \/ Respond(req, Answer("ROLLBACK_FAILED", drawing', runtimeId))
      BY <1>1, <1>2, <3>2 DEF Outcome
    <3> QED BY <2>2, <3>1, <3>2 DEF R1Compensates
  <2> QED BY <1>9, <2>1, <2>2 DEF ResolveR1
<1>10. R2Failure(req) => \E a \in Reply : Respond(req, a) /\ Evidence(req, a)
  <2>1. {} \in Content /\ 0 \in Nat
    BY DEF Content
  <2> QED BY <1>2, <2>1 DEF R2Failure, Outcome
<1>11. CASE BeginR2(req) \/ ContinueR2Close(req)
  BY <1>10, <1>11 DEF BeginR2, ContinueR2Close, R2Restores, R2StopsClosed
<1>12. CASE ContinueR2Verify(req)
  <2>1. CASE /\ drawing = req.parent /\ FinalizeCheckpoint(req.client)
             /\ Respond(req, Answer("ROLLED_BACK_VERIFIED", drawing, runtimeId))
    <3>1. Owned(req.client)' = {}
      BY <2>1 DEF FinalizeCheckpoint, Owned
    <3>2. /\ req.op = "r2" /\ drawing' = drawing
          /\ \E m \in manifests : m.owner = req.client /\ m.parent = req.parent
      BY <1>12 DEF ContinueR2Verify, CheckpointPresent, drawingVars
    <3> QED BY <1>1, <1>3, <2>1, <3>1, <3>2 DEF Evidence, Outcome
  <2>2. CASE R2Failure(req)
    BY <1>10, <2>2
  <2> QED BY <1>12, <2>1, <2>2 DEF ContinueR2Verify
<1> QED BY <1>4, <1>5, <1>6, <1>7, <1>8, <1>9, <1>11, <1>12 DEF Handle

LEMMA StepSettled ==
  ASSUME TypesOK, ProtocolInv, SettledInv, [Next]_vars
  PROVE  SettledInv'
<1>1. CASE \E c \in Client : ClientStep(c)
  BY <1>1, SendSettled, LearnSettled DEF ClientStep
<1>2. CASE \E c \in Client : ClientDies(c) /\ Bridgeless /\ UNCHANGED fate
  BY <1>2, DeathSettled
<1>3. CASE BridgeStep /\ UNCHANGED clientVars /\ Decide
  <2>1. ASSUME NEW req \in running, Handle(req)
        PROVE  SettledInv'
    <3>1. Bound(req)
      BY DEF ProtocolInv, RequestsBound, InFlight
    <3> QED
      BY <1>3, <2>1, <3>1, HandleEvidence, RespondSettled, DeferSettled DEF TypesOK, Evidence
  <2>2. CASE DrainQueued \/ DrainDeferred
    BY <1>3, <2>2, DrainQueuedSettled, DrainDeferredSettled
  <2>3. CASE PipeTimeout \/ Crash
    BY <1>3, <2>3, AbandonSettled
  <2>4. CASE ForeignEdit \/ Save \/ Reopen
    BY <1>3, <2>4, IdleSettled DEF ForeignEdit, Save, Reopen, boundVars
  <2> QED BY <1>3, <2>1, <2>2, <2>3, <2>4 DEF BridgeStep, Dispatch, Environment
<1>4. CASE UNCHANGED vars
  BY <1>4, IdleSettled DEF vars, bridgeVars, pipeVars
<1> QED BY <1>1, <1>2, <1>3, <1>4 DEF Next

-----------------------------------------------------------------------------
(* A definite report leaves no checkpoint behind *)

LEMMA RepliesAfter ==
  ASSUME PipeTypeOK, NEW req \in running, NEW a, Respond(req, a)
  PROVE  \A d \in Client :
           reply'[d] = reply[d] \/ (d = req.client /\ req.live /\ reply'[d] \in {a, Error})
BY DEF Respond, PipeTypeOK, pipeVars

\* A step that handles no request leaves the checkpoints alone and tells no client
\* more than that its request failed.
Calm ==
  /\ UNCHANGED <<clientVars, manifests>>
  /\ \A d \in Client : reply'[d] \in {reply[d], Error} /\ (Unsent(d)' => Unsent(d))
  /\ \A q \in InFlight' : \E p \in InFlight : q.client = p.client /\ q.op = p.op

LEMMA BridgeIsCalm ==
  ASSUME TypesOK, BridgeStep, UNCHANGED clientVars, ~\E req \in running : Handle(req)
  PROVE  Calm
<1> USE DEF TypesOK
<1>1. CASE DrainQueued
  <2>1. InFlight' \subseteq InFlight
    <3>1. /\ 1 \in DOMAIN queue /\ Head(queue) = queue[1]
          /\ \A i \in DOMAIN queue' : i + 1 \in DOMAIN queue /\ queue'[i] = queue[i + 1]
      BY <1>1, QueueHead DEF DrainQueued, PipeTypeOK
    <3>2. running' \subseteq {Head(queue)} /\ deferred' = deferred
      BY <1>1 DEF DrainQueued, Take
    <3> QED BY <3>1, <3>2 DEF InFlight
  <2> QED BY <1>1, <2>1 DEF DrainQueued, Calm, Unsent, storeVars, pipeVars
<1>2. CASE DrainDeferred
  <2>1. PICK req \in deferred : Take(req) /\ deferred' = deferred \ {req}
    BY <1>2 DEF DrainDeferred
  <2>2. InFlight' \subseteq InFlight
    BY <1>2, <2>1 DEF InFlight, DrainDeferred, Take
  <2> QED BY <1>2, <2>2 DEF DrainDeferred, Calm, Unsent, storeVars, pipeVars
<1>3. CASE PipeTimeout
  <2>1. \A i \in DOMAIN queue : queue[i] \in Request
    BY DEF PipeTypeOK
  <2>2. DOMAIN queue' = DOMAIN queue /\ \A i \in DOMAIN queue : queue'[i] = Cancelled(queue[i])
    BY <1>3 DEF PipeTimeout
  <2>3. \A q \in InFlight' : \E p \in InFlight : p \in Request /\ q = Cancelled(p)
    BY <1>3, <2>1, <2>2 DEF InFlight, PipeTimeout, PipeTypeOK
  <2>4. \A q \in InFlight' : \E p \in InFlight : q.client = p.client /\ q.op = p.op
    BY <2>3, CancelledIsTyped
  <2> QED BY <1>3, <2>4, ErrorSaysNothing DEF PipeTimeout, Calm, Unsent, storeVars
<1>4. CASE Crash
  <2>1. InFlight' = {}
    BY <1>4 DEF Crash, InFlight
  <2> QED BY <1>4, <2>1, ErrorSaysNothing DEF Crash, Calm, Unsent
<1>5. CASE ForeignEdit \/ Save \/ Reopen
  <2>1. InFlight' = InFlight
    BY <1>5 DEF ForeignEdit, Save, Reopen, InFlight
  <2> QED BY <1>5, <2>1 DEF ForeignEdit, Save, Reopen, Calm, Unsent, storeVars, pipeVars
<1> QED BY <1>1, <1>2, <1>3, <1>4, <1>5 DEF BridgeStep, Dispatch, Environment

\* Only the request for a checkpoint brings one about, for its own client.
LEMMA OwnedAfter ==
  ASSUME WorldTypeOK, PipeTypeOK, NEW req \in running, Bound(req), Handle(req), NEW d \in Client
  PROVE  Owned(d)' \subseteq Owned(d) \/ (d = req.client /\ req.op \in Creates)
BY HandleWorld DEF Quiet, Opens, Works, Releases, Owned, Creates

LEMMA CalmRelease ==
  ASSUME ReleaseInv, Calm
  PROVE  ReleaseInv'
<1> USE DEF ReleaseInv, Calm, clientVars
<1>1. \A d \in Client : Owned(d)' = Owned(d) /\ (OnlyReads(d) => OnlyReads(d)')
  BY DEF Owned, OnlyReads
<1>2. DefiniteReleases'
  BY <1>1 DEF DefiniteReleases
<1>3. ASSUME NEW d \in Client
      PROVE  /\ (pc'[d] = "finalize" /\ Is(d, "FINALIZED")') \/ UndoneReply(d)' => Owned(d)' = {}
             /\ pc'[d] = "confirm" /\ Is(d, "ROWS")' => Owned(d)' \subseteq reply'[d].rows
             /\ pc'[d] = "reconcile" => Owned(d)' = {} /\ OnlyReads(d)'
  BY <1>1, ErrorSaysNothing DEF UndoneReply, Is
<1> QED BY <1>2, <1>3

LEMMA HandleRelease ==
  ASSUME TypesOK, ProtocolInv, ManifestsBound, SettledInv, ReleaseInv, UNCHANGED clientVars,
         NEW req \in running, Handle(req)
  PROVE  ReleaseInv'
<1> USE DEF TypesOK, clientVars
<1>1. Bound(req) /\ req \in InFlight /\ req.client \in Client
  BY DEF ProtocolInv, RequestsBound, InFlight, PipeTypeOK, Request
<1>2. \A d \in Client : Owned(d)' \subseteq Owned(d) \/ (d = req.client /\ req.op \in Creates)
  BY <1>1, OwnedAfter
<1>3. \A d \in Client : Reached(d) => d # req.client
  BY <1>1 DEF SettledInv, Answered
<1>4. \A d \in Client : OnlyReads(d) => OnlyReads(d)' /\ Owned(d)' \subseteq Owned(d)
  <2>1. InFlight' \subseteq InFlight
    BY <1>1, HandleEvidence DEF InFlight, Defer, Respond
  <2> QED BY <1>1, <1>2, <2>1 DEF OnlyReads, Creates
<1>5. DefiniteReleases'
  BY <1>4 DEF ReleaseInv, DefiniteReleases, SettledInv, NoStaleRequest, OnlyReads
<1>6. ASSUME NEW d \in Client, reply'[d] = reply[d]
      PROVE  /\ (pc'[d] = "finalize" /\ Is(d, "FINALIZED")') \/ UndoneReply(d)' => Owned(d)' = {}
             /\ pc'[d] = "confirm" /\ Is(d, "ROWS")' => Owned(d)' \subseteq reply'[d].rows
  <2>1. Is(d, "FINALIZED") \/ UndoneReply(d) \/ Is(d, "ROWS") => Owned(d)' \subseteq Owned(d)
    BY <1>2, <1>3 DEF Is, Reached, UndoneReply
  <2> QED BY <1>6, <2>1 DEF ReleaseInv, Is, UndoneReply
<1>7. ASSUME NEW a \in Reply, Respond(req, a), Evidence(req, a), req.live
      PROVE  LET d == req.client
             IN  /\ (pc'[d] = "finalize" /\ Is(d, "FINALIZED")') \/ UndoneReply(d)' => Owned(d)' = {}
                 /\ pc'[d] = "confirm" /\ Is(d, "ROWS")' => Owned(d)' \subseteq reply'[d].rows
  <2> DEFINE d == req.client
  <2>1. reply'[d] = a \/ reply'[d].outcome = "ERROR"
    BY <1>1, <1>7, ErrorSaysNothing DEF Respond, PipeTypeOK
  <2>2. pc[d] # "done" => req.op = OpOf[pc[d]]
    BY <1>1, <1>7 DEF ProtocolInv, LiveIsCurrent, Current, RequestOf
  <2>3. /\ pc[d] \in {"mutate", "compensate", "restore"} => req.op # "chunk"
        /\ pc[d] = "confirm" => req.op = "list"
    BY <1>1, <2>2 DEF OpOf, ClientTypeOK, Pc
  <2>4. pc[d] = "confirm" => Owned(d)' \subseteq manifests
    BY <1>1, <1>2, <2>3 DEF Owned, Creates
  <2>5. (pc[d] = "finalize" /\ a.outcome = "FINALIZED")
        \/ (pc[d] \in {"mutate", "compensate", "restore"} /\ a.outcome = "ROLLED_BACK_VERIFIED") => Owned(d)' = {}
    BY <1>7, <2>3 DEF Evidence
  <2>6. a.outcome = "ROWS" => a.rows = manifests
    BY <1>7 DEF Evidence
  <2> HIDE DEF d
  <2>7. /\ (pc'[d] = "finalize" /\ Is(d, "FINALIZED")') \/ UndoneReply(d)' => Owned(d)' = {}
        /\ pc'[d] = "confirm" /\ Is(d, "ROWS")' => Owned(d)' \subseteq reply'[d].rows
    BY <2>1, <2>4, <2>5, <2>6 DEF Is, UndoneReply
  <2> QED BY <2>7 DEF d
<1>8. ASSUME NEW d \in Client
      PROVE  /\ (pc'[d] = "finalize" /\ Is(d, "FINALIZED")') \/ UndoneReply(d)' => Owned(d)' = {}
             /\ pc'[d] = "confirm" /\ Is(d, "ROWS")' => Owned(d)' \subseteq reply'[d].rows
  <2>1. CASE reply'[d] = reply[d]
    BY <1>6, <2>1
  <2>2. CASE reply'[d] # reply[d]
    <3>1. ~Defer(req)
      BY <2>2 DEF Defer, pipeVars
    <3>2. PICK a \in Reply : Respond(req, a) /\ Evidence(req, a)
      BY <1>1, <3>1, HandleEvidence
    <3>3. d = req.client /\ req.live
      BY <2>2, <3>2, RepliesAfter
    <3> QED BY <1>7, <3>2, <3>3
  <2> QED BY <2>1, <2>2
<1>9. \A d \in Client : pc'[d] = "reconcile" => Owned(d)' = {} /\ OnlyReads(d)'
  BY <1>4 DEF ReleaseInv
<1> QED BY <1>5, <1>8, <1>9 DEF ReleaseInv

LEMMA SentRequest ==
  ASSUME TypesOK, NEW c \in Client, Send(c)
  PROVE  \A req \in InFlight' : req \in InFlight \/ (req.client = c /\ req.op = OpOf[pc[c]])
<1> USE DEF TypesOK
<1>1. CASE UNCHANGED queue
  BY <1>1 DEF Send, Connect, ConnectFail, InFlight
<1>2. CASE queue' = Append(queue, RequestOf(c))
  <2>1. PICK req \in Request : req = RequestOf(c)
    <3>1. OpOf[pc[c]] \in Op
      BY DEF Send, ClientTypeOK, Pc, OpOf, Op
    <3> QED BY <3>1 DEF RequestOf, Request, ClientTypeOK
  <2>2. \A i \in DOMAIN queue' : (i \in DOMAIN queue /\ queue'[i] = queue[i]) \/ queue'[i] = req
    <3>1. queue \in Seq(Request)
      BY DEF PipeTypeOK
    <3> QED BY <1>2, <2>1, <3>1
  <2>3. req.client = c /\ req.op = OpOf[pc[c]]
    BY <2>1 DEF RequestOf
  <2>4. deferred' = deferred /\ running' = running
    BY DEF Send, Connect, ConnectFail
  <2> QED BY <2>2, <2>3, <2>4 DEF InFlight
<1> QED BY <1>1, <1>2 DEF Send, Connect, ConnectFail

LEMMA SendRelease ==
  ASSUME TypesOK, ProtocolInv, SettledInv, ReleaseInv, NEW c \in Client, Send(c)
  PROVE  ReleaseInv'
<1> USE DEF TypesOK, ReleaseInv
<1>1. /\ UNCHANGED <<manifests, pc, status>>
      /\ \A d \in Client : reply'[d] \in {reply[d], Error}
  BY DEF Send, Connect, ConnectFail, PipeTypeOK, clientVars, storeVars
<1>2. \A d \in Client : Owned(d)' = Owned(d)
  BY <1>1 DEF Owned
<1>3. \A req \in InFlight' : req \in InFlight \/ (req.client = c /\ req.op = OpOf[pc[c]])
  BY SentRequest
<1>4. \A d \in Client : pc[d] = "reconcile" /\ OnlyReads(d) => OnlyReads(d)'
  BY <1>3 DEF OnlyReads, OpOf, Pc
<1>5. DefiniteReleases'
  BY <1>1, <1>2 DEF DefiniteReleases
<1>6. ASSUME NEW d \in Client
      PROVE  /\ (pc'[d] = "finalize" /\ Is(d, "FINALIZED")') \/ UndoneReply(d)' => Owned(d)' = {}
             /\ pc'[d] = "confirm" /\ Is(d, "ROWS")' => Owned(d)' \subseteq reply'[d].rows
             /\ pc'[d] = "reconcile" => Owned(d)' = {} /\ OnlyReads(d)'
  BY <1>1, <1>2, <1>4, ErrorSaysNothing DEF UndoneReply, Is
<1> QED BY <1>5, <1>6

LEMMA LearnRelease ==
  ASSUME TypesOK, ProtocolInv, ManifestsBound, SettledInv, ReleaseInv, NEW c \in Client, Learn(c), Bridgeless
  PROVE  ReleaseInv'
<1> USE DEF TypesOK, ProtocolInv
<1>1. /\ InFlight' = InFlight /\ manifests' = manifests
      /\ \A d \in Client \ {c} : pc'[d] = pc[d] /\ reply'[d] = reply[d] /\ status'[d] = status[d]
      /\ pc[c] # "done" /\ reply'[c] = NoReply
  BY LearnEffect, LearnReports DEF Bridgeless, InFlight, PipeTypeOK, storeVars
<1>2. \A d \in Client : Owned(d)' = Owned(d) /\ OnlyReads(d)' = OnlyReads(d)
  BY <1>1 DEF Owned, OnlyReads
<1>3. status[c] = "none"
  BY <1>1 DEF SettledInv, Unreported
<1>4. status'[c] \in {"COMMITTED", "ROLLED_BACK_VERIFIED"} => Owned(c) = {}
  BY <1>3, LearnReports DEF ReleaseInv
<1>5. pc'[c] = "reconcile" => Owned(c) = {} /\ OnlyReads(c)
  <2> SUFFICES ASSUME pc'[c] = "reconcile" PROVE Owned(c) = {} /\ OnlyReads(c)
    OBVIOUS
  <2>1. pc[c] = "confirm" /\ Is(c, "ROWS") /\ ~Discovered(c)
    BY LearnReports
  <2>2. Owned(c) = {}
    BY <2>1 DEF ReleaseInv, Discovered, ManifestsBound, Owned
  <2>3. OnlyReads(c)
    BY <2>1 DEF SettledInv, Answered, Reached, Is, OnlyReads
  <2> QED BY <2>2, <2>3
<1>6. DefiniteReleases'
  BY <1>1, <1>2, <1>4 DEF ReleaseInv, DefiniteReleases
<1>7. ASSUME NEW d \in Client
      PROVE  /\ (pc'[d] = "finalize" /\ Is(d, "FINALIZED")') \/ UndoneReply(d)' => Owned(d)' = {}
             /\ pc'[d] = "confirm" /\ Is(d, "ROWS")' => Owned(d)' \subseteq reply'[d].rows
             /\ pc'[d] = "reconcile" => Owned(d)' = {} /\ OnlyReads(d)'
  <2>1. CASE d = c
    BY <1>1, <1>2, <1>5, <2>1, ErrorSaysNothing DEF UndoneReply, Is
  <2>2. CASE d # c
    BY <1>1, <1>2, <2>2 DEF ReleaseInv, UndoneReply, Is
  <2> QED BY <2>1, <2>2
<1> QED BY <1>6, <1>7 DEF ReleaseInv

LEMMA StepRelease ==
  ASSUME TypesOK, ProtocolInv, ManifestsBound, SettledInv, ReleaseInv, [Next]_vars
  PROVE  ReleaseInv'
<1>1. CASE \E c \in Client : ClientStep(c)
  BY <1>1, SendRelease, LearnRelease DEF ClientStep
<1>2. CASE \E c \in Client : ClientDies(c) /\ Bridgeless /\ UNCHANGED fate
  <2>1. PICK c \in Client : ClientDies(c) /\ Bridgeless
    BY <1>2
  <2>2. /\ pc' = [pc EXCEPT ![c] = "done"] /\ status' = [status EXCEPT ![c] = "DEAD"]
        /\ UNCHANGED <<reply, manifests, queue, deferred, running>>
    BY <2>1 DEF ClientDies, Report, Bridgeless, storeVars
  <2>3. \A d \in Client : Owned(d)' = Owned(d) /\ OnlyReads(d)' = OnlyReads(d)
    BY <2>2 DEF Owned, OnlyReads, InFlight
  <2>4. \A d \in Client : pc'[d] = pc[d] \/ pc'[d] = "done"
    BY <2>2 DEF TypesOK, ClientTypeOK
  <2>5. DefiniteReleases'
    BY <2>2, <2>3 DEF ReleaseInv, DefiniteReleases, TypesOK, ClientTypeOK
  <2> QED BY <2>2, <2>3, <2>4, <2>5 DEF ReleaseInv, UndoneReply, Is
<1>3. CASE BridgeStep /\ UNCHANGED clientVars /\ Decide
  BY <1>3, HandleRelease, BridgeIsCalm, CalmRelease
<1>4. CASE UNCHANGED vars
  <2>1. Calm
    BY <1>4 DEF vars, bridgeVars, Calm, Unsent, InFlight
  <2> QED BY <2>1, CalmRelease
<1> QED BY <1>1, <1>2, <1>3, <1>4 DEF Next

-----------------------------------------------------------------------------
(* A checkpoint is created once, and its work decided once *)

\* What a handler may make of the drawing.
LEMMA HandleReach ==
  ASSUME NEW req \in running, Bound(req), Handle(req)
  PROVE  /\ \A x \in drawing' : x \in drawing \cup saved \cup Marks(req.client)
                                \/ \E m \in manifests : x \in m.parent
         /\ req.op \in {"state", "list"} => UNCHANGED <<drawing, manifests>>
<1>1. CASE HandlerFails(req) \/ DocumentState(req) \/ ListRecoveries(req)
  BY <1>1 DEF HandlerFails, DocumentState, ListRecoveries, drawingVars, storeVars
<1>2. CASE BeginLogicalBatch(req) \/ FinalizeRecovery(req) \/ BeginR2(req) \/ ContinueR2Verify(req)
  BY <1>2 DEF BeginLogicalBatch, FinalizeRecovery, BeginR2, ContinueR2Verify, drawingVars
<1>3. CASE ExecuteBatch(req) \/ MetadataSet(req)
  <2>1. req.op \in {"chunk", "mutate"}
    BY <1>3 DEF ExecuteBatch, MetadataSet
  <2>2. <<req.client, req.chunk>> \in Marks(req.client)
    BY <2>1 DEF Bound, Marks
  <2>3. drawing' \in {Committed(req), drawing}
    BY <1>3 DEF ExecuteBatch, MetadataSet, MutateRefused, MutateCommits, MutateAborts, drawingVars
  <2> QED BY <2>1, <2>2, <2>3 DEF Committed
<1>4. CASE ResolveR1(req)
  BY <1>4 DEF ResolveR1, R1Unavailable, R1Compensates, drawingVars
<1>5. CASE ContinueR2Close(req)
  BY <1>5 DEF ContinueR2Close, CheckpointPresent, R2Restores, R2StopsClosed, drawingVars
<1> QED BY <1>1, <1>2, <1>3, <1>4, <1>5 DEF Handle

\* What becomes of the checkpoints and of the fates in one step of the bridge.
LEMMA FatesAfter ==
  ASSUME WorldTypeOK, PipeTypeOK, NEW req \in running, Bound(req), Handle(req), Decide, NEW d \in Client
  PROVE  /\ d # req.client => Owned(d)' = Owned(d) \/ (Owned(d) = {} /\ Owned(d)' = {})
         /\ ~(Owned(d) # {} /\ Owned(d)' = {}) => fate'[d] = fate[d]
         /\ Owned(d) # {} /\ Owned(d)' = {} =>
              fate'[d] = IF Marks(d) \subseteq drawing' THEN "kept" ELSE "undone"
<1>1. d # req.client => Owned(d)' = Owned(d) \/ (Owned(d) = {} /\ Owned(d)' = {})
  BY HandleWorld DEF Quiet, Opens, Works, Releases, Owned
<1> QED BY <1>1 DEF Decide

LEMMA HandleFresh ==
  ASSUME TypesOK, ProtocolInv, SettledInv, FreshInv, UNCHANGED clientVars, Decide,
         NEW req \in running, Handle(req)
  PROVE  FreshInv'
<1> USE DEF TypesOK, clientVars
<1>1. Bound(req) /\ req \in InFlight /\ req.client \in Client
  BY DEF ProtocolInv, RequestsBound, InFlight, PipeTypeOK, Request
<1>2. \A d \in Client : Owned(d)' \subseteq Owned(d) \/ (d = req.client /\ req.op \in Creates)
  BY <1>1, OwnedAfter
<1>3. \A d \in Client : ~(Owned(d) # {} /\ Owned(d)' = {}) => fate'[d] = fate[d]
  BY <1>1, FatesAfter
<1>4. ASSUME NEW d \in Client, Fresh(d), ~(d = req.client /\ req.op \in Creates)
      PROVE  Fresh(d)'
  BY <1>2, <1>3, <1>4 DEF Fresh
<1>5. \A d \in Client : Unsent(d)' => Unsent(d)
  <2>1. CASE Defer(req)
    BY <2>1 DEF Defer, Unsent, pipeVars
  <2>2. CASE \E a \in Reply : Respond(req, a) /\ Evidence(req, a)
    BY <2>2, UnsentAfter DEF Evidence
  <2> QED BY <1>1, <2>1, <2>2, HandleEvidence
<1>6. ASSUME NEW d \in Client, pc'[d] = "bind" \/ (pc'[d] \in Creates /\ Unsent(d)')
      PROVE  Fresh(d)'
  <2>1. Fresh(d)
    BY <1>5, <1>6 DEF FreshInv
  <2>2. ~(d = req.client /\ req.op \in Creates)
    BY <1>1, <1>5, <1>6 DEF SettledInv, RestoreIsLast, Passed
  <2> QED BY <1>4, <2>1, <2>2
<1>7. ASSUME NEW q \in InFlight', q.op \in Creates
      PROVE  Fresh(q.client)'
  <2>1. q \in {queue[i] : i \in DOMAIN queue} \cup deferred /\ q \in InFlight
    BY <1>1, <1>7, HandleEvidence DEF Defer, Respond, InFlight, Creates
  <2>2. Fresh(q.client) /\ q.client \in Client
    BY <1>7, <2>1, InFlightTypes DEF FreshInv
  <2>3. ~(q.client = req.client /\ req.op \in Creates)
    BY <1>7, <2>1 DEF SettledInv, SentOnce, Twins
  <2> QED BY <1>4, <2>2, <2>3
<1>8. ASSUME NEW d \in Client, Owned(d)' # {}
      PROVE  fate'[d] = "open"
  <2>1. fate[d] = "open"
    BY <1>1, <1>2, <1>8 DEF FreshInv, Fresh
  <2> QED BY <1>3, <1>8, <2>1
<1> QED BY <1>6, <1>7, <1>8 DEF FreshInv

LEMMA CalmFresh ==
  ASSUME TypesOK, FreshInv, Calm, \A d \in Client : fate'[d] = fate[d]
  PROVE  FreshInv'
<1>1. \A d \in Client : Owned(d)' = Owned(d) /\ Fresh(d)' = Fresh(d)
  BY DEF Calm, Owned, Fresh
<1> QED BY <1>1, InFlightTypes DEF FreshInv, Calm, TypesOK, clientVars

LEMMA StepFresh ==
  ASSUME TypesOK, ProtocolInv, SettledInv, FreshInv, [Next]_vars
  PROVE  FreshInv'
<1> USE DEF TypesOK
<1>1. CASE \E c \in Client : ClientStep(c)
  <2>1. PICK c \in Client : Send(c) \/ (Learn(c) /\ Bridgeless)
    BY <1>1 DEF ClientStep
  <2>2. UNCHANGED <<manifests, fate>>
    BY <1>1, <2>1 DEF ClientStep, Send, Connect, ConnectFail, Bridgeless, storeVars
  <2>3. \A d \in Client : Owned(d)' = Owned(d) /\ Fresh(d)' = Fresh(d)
    BY <2>2 DEF Owned, Fresh
  <2>4. CASE Send(c)
    <3>1. pc' = pc /\ \A d \in Client : Unsent(d)' => Unsent(d)
      BY <2>4, ErrorSaysNothing DEF Send, Connect, ConnectFail, Unsent, PipeTypeOK, clientVars
    <3>2. OpOf[pc[c]] \in Creates => Fresh(c)
      BY <2>4 DEF FreshInv, Send, Unsent, OpOf, Creates, ClientTypeOK, Pc
    <3> QED BY <2>2, <2>3, <2>4, <3>1, <3>2, SentRequest, InFlightTypes DEF FreshInv
  <2>5. CASE Learn(c) /\ Bridgeless
    <3>1. /\ InFlight' = InFlight /\ pipe' = pipe /\ pc'[c] # "bind"
          /\ \A d \in Client \ {c} : pc'[d] = pc[d] /\ reply'[d] = reply[d]
          /\ pc'[c] \in Creates => pc[c] = "bind"
      BY <2>5, LearnEffect, LearnReports DEF Bridgeless, InFlight, PipeTypeOK
    <3>2. ASSUME NEW d \in Client, pc'[d] = "bind" \/ (pc'[d] \in Creates /\ Unsent(d)')
          PROVE  Fresh(d)
      <4>1. CASE d = c
        BY <3>1, <3>2, <4>1 DEF FreshInv
      <4>2. CASE d # c
        BY <3>1, <3>2, <4>2 DEF FreshInv, Unsent
      <4> QED BY <4>1, <4>2
    <3> QED BY <2>2, <2>3, <3>1, <3>2, InFlightTypes DEF FreshInv
  <2> QED BY <2>1, <2>4, <2>5
<1>2. CASE \E c \in Client : ClientDies(c) /\ Bridgeless /\ UNCHANGED fate
  <2>1. PICK c \in Client : ClientDies(c) /\ Bridgeless /\ UNCHANGED fate
    BY <1>2
  <2>2. /\ pc' = [pc EXCEPT ![c] = "done"]
        /\ UNCHANGED <<reply, manifests, queue, deferred, running, pipe, fate>>
    BY <2>1 DEF ClientDies, Report, Bridgeless, storeVars
  <2>3. InFlight' = InFlight /\ \A d \in Client : Owned(d)' = Owned(d) /\ Fresh(d)' = Fresh(d)
    BY <2>2 DEF Owned, Fresh, InFlight
  <2>4. \A d \in Client : (pc'[d] = pc[d] \/ pc'[d] = "done") /\ (Unsent(d)' => Unsent(d))
    BY <2>2 DEF ClientTypeOK, Unsent
  <2> QED BY <2>2, <2>3, <2>4, InFlightTypes DEF FreshInv, Creates
<1>3. CASE BridgeStep /\ UNCHANGED clientVars /\ Decide
  <2>1. CASE ~\E req \in running : Handle(req)
    <3>1. Calm
      BY <1>3, <2>1, BridgeIsCalm
    <3>2. \A d \in Client : fate'[d] = fate[d]
      BY <1>3, <3>1 DEF Decide, Owned, Calm
    <3> QED BY <3>1, <3>2, CalmFresh
  <2> QED BY <1>3, <2>1, HandleFresh
<1>4. CASE UNCHANGED vars
  <2>1. Calm /\ fate' = fate
    BY <1>4 DEF vars, bridgeVars, Calm, Unsent, InFlight
  <2> QED BY <2>1, CalmFresh
<1> QED BY <1>1, <1>2, <1>3, <1>4 DEF Next

-----------------------------------------------------------------------------
(* What was undone is gone *)

LEMMA MarksOfOthers ==
  /\ \A c, d \in Client : c # d => Marks(c) \cap Marks(d) = {}
  /\ \A c \in Client : Marks(c) # {}
<1>1. \A c \in Client : 1 \in 1 .. Size[c]
  BY SizeAssumption
<1>2. \A c \in Client : <<c, 1>> \in Marks(c)
  BY <1>1 DEF Marks
<1>3. \A c, d \in Client : c # d => Marks(c) \cap Marks(d) = {}
  BY DEF Marks
<1> QED BY <1>2, <1>3

\* Outside of the handlers the drawing and the file only change into each other, but
\* for the mark of the user.
CalmWorld ==
  /\ drawing' \subseteq drawing \cup saved \cup {Foreign}
  /\ saved' = saved \/ (saved' = drawing /\ manifests = {})

LEMMA BridgeIsCalmWorld ==
  ASSUME ~MidBatchSave, BridgeStep, ~\E req \in running : Handle(req)
  PROVE  CalmWorld
<1>1. CASE DrainQueued \/ DrainDeferred \/ PipeTimeout \/ Reopen
  BY <1>1 DEF DrainQueued, DrainDeferred, PipeTimeout, Reopen, CalmWorld, drawingVars
<1>2. CASE ForeignEdit \/ Save \/ Crash
  BY <1>2 DEF ForeignEdit, Save, Crash, CalmWorld
<1> QED BY <1>1, <1>2 DEF BridgeStep, Dispatch, Environment

LEMMA CalmGone ==
  ASSUME GoneInv, Calm, CalmWorld, \A d \in Client : fate'[d] = fate[d]
  PROVE  GoneInv'
<1> USE DEF Calm, clientVars
<1>1. \A d \in Client : Owned(d)' = Owned(d)
  BY DEF Owned
<1>2. ASSUME NEW d \in Client, fate'[d] # "kept"
      PROVE  /\ Marks(d) \cap saved' = {}
             /\ \A m \in manifests' : Marks(d) \cap m.parent = {}
             /\ Owned(d)' = {} => Marks(d) \cap drawing' = {}
  <2>1. /\ Marks(d) \cap saved = {}
        /\ \A m \in manifests : Marks(d) \cap m.parent = {}
        /\ Owned(d) = {} => Marks(d) \cap drawing = {}
    BY <1>2 DEF GoneInv
  <2>2. manifests = {} => Owned(d) = {}
    BY DEF Owned
  <2> QED BY <1>1, <2>1, <2>2, ForeignIsNobodysMark DEF CalmWorld
<1>3. ASSUME NEW d \in Client, Gone(d)
      PROVE  Gone(d)'
  <2>1. Marks(d) \cap saved = {}
    BY <1>3 DEF GoneInv, Gone
  <2> QED BY <1>3, <2>1, ForeignIsNobodysMark DEF CalmWorld, Gone
<1>4. \A d \in Client : /\ UndoneReply(d)' => UndoneReply(d)
                        /\ Is(d, "REFUSED")' => Is(d, "REFUSED")
  BY ErrorSaysNothing DEF UndoneReply, Is
<1> QED BY <1>2, <1>3, <1>4 DEF GoneInv

LEMMA HandleGone ==
  ASSUME TypesOK, ProtocolInv, ManifestsBound, SettledInv, FreshInv, GoneInv, UNCHANGED clientVars, Decide,
         NEW req \in running, Handle(req)
  PROVE  GoneInv'
<1> USE DEF TypesOK, clientVars
<1> DEFINE c == req.client
<1>1. Bound(req) /\ req \in InFlight /\ c \in Client
  BY DEF ProtocolInv, RequestsBound, InFlight, PipeTypeOK, Request
<1>2. ASSUME NEW d \in Client
      PROVE  /\ d # c => Owned(d)' = Owned(d) /\ fate'[d] = fate[d]
             /\ fate[d] = "kept" => fate'[d] = "kept"
             /\ Owned(d) # {} => fate[d] = "open"
             /\ Owned(d) = {} => fate'[d] = fate[d]
             /\ Owned(d) # {} /\ Owned(d)' = {} =>
                  fate'[d] = IF Marks(d) \subseteq drawing' THEN "kept" ELSE "undone"
  BY <1>1, FatesAfter DEF FreshInv
<1>3. ASSUME NEW d \in Client, fate'[d] # "kept"
      PROVE  /\ fate[d] # "kept" /\ Marks(d) \cap saved = {}
             /\ \A m \in manifests : Marks(d) \cap m.parent = {}
             /\ Owned(d) = {} => Marks(d) \cap drawing = {}
  BY <1>2, <1>3 DEF GoneInv
\* The marks of the others stay where they are, or go.
<1>4. ASSUME NEW d \in Client \ {c}, fate[d] # "kept", Marks(d) \cap drawing = {}
      PROVE  Marks(d) \cap drawing' = {}
  <2>1. Marks(d) \cap saved = {} /\ \A m \in manifests : Marks(d) \cap m.parent = {}
    BY <1>4 DEF GoneInv
  <2> QED BY <1>1, <1>4, <2>1, HandleReach, MarksOfOthers
<1>5. ASSUME NEW d \in Client, fate'[d] # "kept"
      PROVE  Marks(d) \cap saved' = {} /\ \A m \in manifests' : Marks(d) \cap m.parent = {}
  <2>1. CASE Opens(req)
    <3>1. Owned(d) = {}
      BY <2>1 DEF Opens, Owned
    <3> QED BY <1>3, <1>5, <2>1, <3>1 DEF Opens
  <2>2. CASE Quiet \/ Works(req) \/ Releases(req)
    BY <1>3, <1>5, <2>2 DEF Quiet, Works, Releases
  <2> QED BY <1>1, <2>1, <2>2, HandleWorld
<1>6. ASSUME NEW d \in Client, fate'[d] # "kept", Owned(d)' = {}
      PROVE  Marks(d) \cap drawing' = {}
  <2>1. CASE d # c
    BY <1>2, <1>3, <1>4, <1>6, <2>1
  <2>2. CASE d = c /\ Quiet
    BY <1>3, <1>6, <2>2 DEF Quiet, Owned
  <2>3. CASE d = c /\ (Opens(req) \/ Works(req))
    <3>1. \E m \in manifests' : m.owner = c
      <4>1. CASE Opens(req)
        BY <4>1 DEF Opens
      <4>2. CASE Works(req)
        BY <4>2 DEF Works
      <4> QED BY <2>3, <4>1, <4>2
    <3>2. Owned(d)' # {}
      BY <2>3, <3>1 DEF Owned
    <3> QED BY <1>6, <3>2
  <2>4. CASE d = c /\ Releases(req)
    <3>1. PICK m \in manifests : m.owner = c /\ (drawing' = m.parent \/ (req.op = "finalize" /\ drawing' = req.fp))
      BY <2>4 DEF Releases
    <3>2. Owned(d) # {}
      BY <2>4, <3>1 DEF Owned
    <3>3. CASE drawing' = m.parent
      BY <1>3, <1>6, <3>1, <3>3
    <3>4. CASE req.op = "finalize" /\ drawing' = req.fp
      <4>1. Marks(d) \subseteq drawing'
        BY <1>1, <2>4, <3>4 DEF Bound
      <4> QED BY <1>2, <1>6, <3>2, <4>1
    <3> QED BY <3>1, <3>3, <3>4
  <2> QED BY <1>1, <2>1, <2>2, <2>3, <2>4, HandleWorld
\* A client whose work is gone has no request left that could bring it back.
<1>7. ASSUME NEW d \in Client, Gone(d), d = c => req.op \in {"state", "list"}
      PROVE  Gone(d)'
  <2>1. CASE d # c
    BY <1>2, <1>4, <1>7, <2>1 DEF Gone
  <2>2. CASE d = c
    <3>1. drawing' = drawing /\ manifests' = manifests
      BY <1>1, <1>7, <2>2, HandleReach
    <3>2. Owned(d)' = Owned(d)
      BY <3>1 DEF Owned
    <3> QED BY <1>1, <1>7, <3>1, <3>2, FatesAfter DEF Gone
  <2> QED BY <2>1, <2>2
<1>8. ASSUME NEW d \in Client, status[d] \in {"ROLLED_BACK_VERIFIED", "REFUSED"}
      PROVE  Gone(d)'
  <2>1. Gone(d)
    BY <1>8 DEF GoneInv
  <2>2. d = c => req.op \in {"state", "list"}
    BY <1>1, <1>8 DEF SettledInv, NoStaleRequest
  <2> QED BY <1>7, <2>1, <2>2
<1>9. ASSUME NEW d \in Client, UndoneReply(d)' \/ (pc[d] = "mutate" /\ Is(d, "REFUSED")')
      PROVE  Gone(d)'
  <2>1. CASE reply'[d] = reply[d]
    <3>1. Reached(d) /\ Gone(d)
      BY <1>9, <2>1 DEF GoneInv, UndoneReply, Is, Reached
    <3> QED BY <1>1, <1>7, <3>1 DEF SettledInv, Answered
  <2>2. CASE reply'[d] # reply[d]
    <3>1. PICK a \in Reply : Respond(req, a) /\ Evidence(req, a)
      <4>1. ~Defer(req)
        BY <2>2 DEF Defer, pipeVars
      <4> QED BY <1>1, <4>1, HandleEvidence
    <3>2. d = c /\ req.live /\ reply'[d] \in {a, Error}
      BY <2>2, <3>1, RepliesAfter
    <3>3. pc[d] # "done" /\ req.op = OpOf[pc[d]]
      BY <1>1, <1>9, <3>2 DEF ProtocolInv, LiveIsCurrent, Current, RequestOf, UndoneReply
    <3>4. a.outcome \in {"ROLLED_BACK_VERIFIED", "REFUSED"} /\ (req.op # "mutate" => a.outcome = "ROLLED_BACK_VERIFIED")
      BY <1>9, <3>1, <3>2, ErrorSaysNothing DEF UndoneReply, Is, Evidence
    <3>5. req.op \in {"mutate", "r1", "r2"}
      BY <1>9, <3>3 DEF UndoneReply, OpOf, Pc
    <3>6. CASE req.op = "mutate"
      <4>1. drawing' = drawing
        BY <3>1, <3>4, <3>6 DEF Evidence
      <4>2. Owned(d) = {} /\ fate[d] = "open"
        BY <1>1, <3>2, <3>6 DEF FreshInv, Fresh, Creates
      <4>3. Marks(d) \cap drawing = {}
        BY <4>2 DEF GoneInv
      <4> QED BY <1>2, <4>1, <4>2, <4>3 DEF Gone
    <3>7. CASE req.op \in {"r1", "r2"}
      <4>1. PICK m \in manifests : m.owner = c /\ drawing' = m.parent
        BY <3>1, <3>4, <3>7 DEF Evidence
      <4>2. Owned(d) # {} /\ Owned(d)' = {}
        BY <3>1, <3>2, <3>4, <3>7, <4>1 DEF Evidence, Owned
      <4>3. Marks(d) \cap drawing' = {}
        BY <1>2, <4>1, <4>2 DEF GoneInv
      <4>4. fate'[d] = "undone"
        BY <1>2, <4>2, <4>3, MarksOfOthers
      <4> QED BY <4>3, <4>4 DEF Gone
    <3> QED BY <3>5, <3>6, <3>7
  <2> QED BY <2>1, <2>2
<1> QED BY <1>5, <1>6, <1>8, <1>9 DEF GoneInv, UndoneReply

LEMMA StepGone ==
  ASSUME ~MidBatchSave, TypesOK, ProtocolInv, ManifestsBound, SettledInv, FreshInv, GoneInv, [Next]_vars
  PROVE  GoneInv'
<1> USE DEF TypesOK
<1>1. CASE \E c \in Client : ClientStep(c)
  <2>1. PICK c \in Client : Send(c) \/ (Learn(c) /\ Bridgeless)
    BY <1>1 DEF ClientStep
  <2>2. UNCHANGED <<manifests, drawing, saved, fate>>
    BY <1>1, <2>1 DEF ClientStep, Send, Connect, ConnectFail, Bridgeless, storeVars, drawingVars
  <2>3. \A d \in Client : Owned(d)' = Owned(d) /\ Gone(d)' = Gone(d)
    BY <2>2 DEF Owned, Gone
  <2>4. CASE Send(c)
    <3>1. UNCHANGED <<pc, status>> /\ \A d \in Client : reply'[d] \in {reply[d], Error}
      BY <2>4 DEF Send, Connect, ConnectFail, PipeTypeOK, clientVars
    <3>2. \A d \in Client : (UndoneReply(d)' => UndoneReply(d)) /\ (Is(d, "REFUSED")' => Is(d, "REFUSED"))
      BY <3>1, ErrorSaysNothing DEF UndoneReply, Is
    <3> QED BY <2>2, <2>3, <3>1, <3>2 DEF GoneInv
  <2>5. CASE Learn(c) /\ Bridgeless
    <3>1. /\ \A d \in Client \ {c} : pc'[d] = pc[d] /\ reply'[d] = reply[d] /\ status'[d] = status[d]
          /\ reply'[c] = NoReply /\ status[c] = "none"
      BY <2>5, LearnEffect, LearnReports DEF PipeTypeOK, SettledInv, Unreported
    <3>2. status'[c] \in {"ROLLED_BACK_VERIFIED", "REFUSED"} => Gone(c)
      <4>1. pc[c] = "bind" => Gone(c)
        BY DEF FreshInv, Fresh, GoneInv, Gone
      <4> QED BY <2>5, <3>1, <4>1, LearnReports DEF GoneInv
    <3>3. ~UndoneReply(c)' /\ ~Is(c, "REFUSED")'
      BY <3>1, ErrorSaysNothing DEF UndoneReply, Is
    <3>4. ASSUME NEW d \in Client
          PROVE  /\ UndoneReply(d)' \/ (pc'[d] = "mutate" /\ Is(d, "REFUSED")') => Gone(d)
                 /\ status'[d] \in {"ROLLED_BACK_VERIFIED", "REFUSED"} => Gone(d)
      <4>1. CASE d = c
        BY <3>2, <3>3, <4>1
      <4>2. CASE d # c
        BY <3>1, <4>2 DEF GoneInv, UndoneReply, Is
      <4> QED BY <4>1, <4>2
    <3> QED BY <2>2, <2>3, <3>4 DEF GoneInv
  <2> QED BY <2>1, <2>4, <2>5
<1>2. CASE \E c \in Client : ClientDies(c) /\ Bridgeless /\ UNCHANGED fate
  <2>1. PICK c \in Client : ClientDies(c) /\ Bridgeless /\ UNCHANGED fate
    BY <1>2
  <2>2. /\ pc' = [pc EXCEPT ![c] = "done"] /\ status' = [status EXCEPT ![c] = "DEAD"]
        /\ UNCHANGED <<reply, manifests, drawing, saved, fate>>
    BY <2>1 DEF ClientDies, Report, Bridgeless, storeVars, drawingVars
  <2>3. \A d \in Client : Owned(d)' = Owned(d) /\ Gone(d)' = Gone(d)
    BY <2>2 DEF Owned, Gone
  <2>4. \A d \in Client : /\ pc'[d] = pc[d] \/ pc'[d] = "done"
                          /\ status'[d] = status[d] \/ status'[d] = "DEAD"
    BY <2>2 DEF ClientTypeOK
  <2> QED BY <2>2, <2>3, <2>4 DEF GoneInv, UndoneReply, Is
<1>3. CASE BridgeStep /\ UNCHANGED clientVars /\ Decide
  <2>1. CASE ~\E req \in running : Handle(req)
    <3>1. Calm /\ CalmWorld
      BY <1>3, <2>1, BridgeIsCalm, BridgeIsCalmWorld
    <3>2. \A d \in Client : fate'[d] = fate[d]
      BY <1>3, <3>1 DEF Decide, Owned, Calm
    <3> QED BY <3>1, <3>2, CalmGone
  <2> QED BY <1>3, <2>1, HandleGone
<1>4. CASE UNCHANGED vars
  <2>1. Calm /\ CalmWorld /\ fate' = fate
    BY <1>4 DEF vars, bridgeVars, Calm, CalmWorld, Unsent, InFlight
  <2> QED BY <2>1, CalmGone
<1> QED BY <1>1, <1>2, <1>3, <1>4 DEF Next

-----------------------------------------------------------------------------
(* What was kept is there *)

LEMMA CalmKept ==
  ASSUME KeptInv, Calm, \A d \in Client : fate'[d] = fate[d]
  PROVE  KeptInv'
<1> SUFFICES ASSUME NEW d \in Client,
                    status'[d] = "COMMITTED" \/ (pc'[d] = "finalize" /\ Is(d, "FINALIZED")')
                    \/ (pc'[d] = "reconcile" /\ ReadBack(d)')
             PROVE  fate'[d] = "kept"
  BY DEF KeptInv
<1>1. status'[d] = status[d] /\ pc'[d] = pc[d] /\ cur'[d] = cur[d] /\ reply'[d] \in {reply[d], Error}
  BY DEF Calm, clientVars
<1> QED BY <1>1, ErrorSaysNothing DEF KeptInv, Calm, Is, ReadBack

\* An answer that a client takes for success is given when its marks are there.
LEMMA HandleKept ==
  ASSUME TypesOK, ProtocolInv, FreshInv, GoneInv, ReleaseInv, KeptInv, UNCHANGED clientVars, Decide,
         NEW req \in running, Handle(req)
  PROVE  KeptInv'
<1> USE DEF TypesOK
<1>1. Bound(req) /\ req \in InFlight /\ req.client \in Client
  BY DEF ProtocolInv, RequestsBound, InFlight, PipeTypeOK, Request
<1>2. \A d \in Client : /\ fate[d] = "kept" => fate'[d] = "kept"
                        /\ Owned(d) # {} /\ Owned(d)' = {} =>
                            fate'[d] = IF Marks(d) \subseteq drawing' THEN "kept" ELSE "undone"
  BY <1>1, FatesAfter DEF FreshInv
<1> SUFFICES ASSUME NEW d \in Client,
                    status'[d] = "COMMITTED" \/ (pc'[d] = "finalize" /\ Is(d, "FINALIZED")')
                    \/ (pc'[d] = "reconcile" /\ ReadBack(d)')
             PROVE  fate'[d] = "kept"
  BY DEF KeptInv
<1>3. status'[d] = status[d] /\ pc'[d] = pc[d] /\ cur'[d] = cur[d]
  BY DEF clientVars
<1>4. CASE reply'[d] = reply[d] \/ status[d] = "COMMITTED"
  BY <1>2, <1>3, <1>4 DEF KeptInv, Is, ReadBack
<1>5. CASE reply'[d] # reply[d] /\ status[d] # "COMMITTED"
  <2>1. PICK a \in Reply : Respond(req, a) /\ Evidence(req, a)
    <3>1. ~Defer(req)
      BY <1>5 DEF Defer, pipeVars
    <3> QED BY <1>1, <3>1, HandleEvidence
  <2>2. d = req.client /\ reply'[d] \in {a, Error}
    BY <1>5, <2>1, RepliesAfter
  <2>3. pc[d] \in {"finalize", "reconcile"} /\ cur[d] = pre[d] \cup Marks(d)
    BY <1>3, <1>5 DEF ProtocolInv, Chained
  <2>4. CASE pc[d] = "finalize" /\ a.outcome = "FINALIZED"
    <3>1. Marks(d) \subseteq drawing'
      BY <1>1, <2>1, <2>2, <2>4 DEF Evidence, Bound
    <3> QED BY <1>2, <2>1, <2>2, <2>4, <3>1 DEF Evidence
  <2>5. CASE pc[d] = "reconcile" /\ a.outcome = "STATE" /\ a.fp = cur[d]
    <3>1. Marks(d) \subseteq drawing
      BY <2>1, <2>3, <2>5 DEF Evidence
    <3>2. Owned(d) = {}
      BY <2>5 DEF ReleaseInv
    <3>3. fate[d] = "kept"
      BY <3>1, <3>2, MarksOfOthers DEF GoneInv
    <3> QED BY <1>2, <3>3
  <2>6. (pc[d] = "finalize" /\ a.outcome = "FINALIZED") \/ (pc[d] = "reconcile" /\ a.outcome = "STATE" /\ a.fp = cur[d])
    BY <1>3, <1>5, <2>2, ErrorSaysNothing DEF Is, ReadBack
  <2> QED BY <2>4, <2>5, <2>6
<1> QED BY <1>4, <1>5

LEMMA StepKept ==
  ASSUME TypesOK, ProtocolInv, SettledInv, ReleaseInv, FreshInv, GoneInv, KeptInv, [Next]_vars
  PROVE  KeptInv'
<1> USE DEF TypesOK
<1>1. CASE \E c \in Client : ClientStep(c)
  <2>1. PICK c \in Client : Send(c) \/ (Learn(c) /\ Bridgeless)
    BY <1>1 DEF ClientStep
  <2>2. fate' = fate
    BY <1>1 DEF ClientStep
  <2>3. CASE Send(c)
    <3>1. UNCHANGED <<pc, status, cur>> /\ \A d \in Client : reply'[d] \in {reply[d], Error}
      BY <2>3 DEF Send, Connect, ConnectFail, PipeTypeOK, clientVars
    <3> QED BY <2>2, <3>1, ErrorSaysNothing DEF KeptInv, Is, ReadBack
  <2>4. CASE Learn(c) /\ Bridgeless
    <3>1. /\ \A d \in Client \ {c} : pc'[d] = pc[d] /\ reply'[d] = reply[d] /\ status'[d] = status[d]
                                      /\ cur'[d] = cur[d]
          /\ reply'[c] = NoReply /\ status[c] = "none"
      BY <2>4, LearnEffect, LearnReports DEF PipeTypeOK, SettledInv, Unreported
    <3>2. status'[c] = "COMMITTED" => fate[c] = "kept"
      BY <2>4, <3>1, LearnReports DEF KeptInv
    <3>3. ASSUME NEW d \in Client,
                 status'[d] = "COMMITTED" \/ (pc'[d] = "finalize" /\ Is(d, "FINALIZED")')
                 \/ (pc'[d] = "reconcile" /\ ReadBack(d)')
          PROVE  fate[d] = "kept"
      <4>1. CASE d = c
        BY <3>1, <3>2, <3>3, <4>1, ErrorSaysNothing DEF Is, ReadBack
      <4>2. CASE d # c
        BY <3>1, <3>3, <4>2 DEF KeptInv, Is, ReadBack
      <4> QED BY <4>1, <4>2
    <3> QED BY <2>2, <3>3 DEF KeptInv
  <2> QED BY <2>1, <2>3, <2>4
<1>2. CASE \E c \in Client : ClientDies(c) /\ Bridgeless /\ UNCHANGED fate
  <2>1. PICK c \in Client : /\ pc' = [pc EXCEPT ![c] = "done"]
                            /\ status' = [status EXCEPT ![c] = "DEAD"]
                            /\ UNCHANGED <<reply, cur, fate>>
    BY <1>2 DEF ClientDies, Report
  <2>2. \A d \in Client : /\ pc'[d] = pc[d] \/ pc'[d] = "done"
                          /\ status'[d] = status[d] \/ status'[d] = "DEAD"
    BY <2>1 DEF ClientTypeOK
  <2> QED BY <2>1, <2>2 DEF KeptInv, Is, ReadBack
<1>3. CASE BridgeStep /\ UNCHANGED clientVars /\ Decide
  <2>1. CASE ~\E req \in running : Handle(req)
    <3>1. Calm
      BY <1>3, <2>1, BridgeIsCalm
    <3>2. \A d \in Client : fate'[d] = fate[d]
      BY <1>3, <3>1 DEF Decide, Owned, Calm
    <3> QED BY <3>1, <3>2, CalmKept
  <2> QED BY <1>3, <2>1, HandleKept
<1>4. CASE UNCHANGED vars
  <2>1. Calm /\ fate' = fate
    BY <1>4 DEF vars, bridgeVars, Calm, Unsent, InFlight
  <2> QED BY <2>1, CalmKept
<1> QED BY <1>1, <1>2, <1>3, <1>4 DEF Next

-----------------------------------------------------------------------------
LEMMA InitReports ==
  ASSUME Init
  PROVE  SettledInv /\ ReleaseInv /\ FreshInv /\ GoneInv /\ KeptInv
<1> USE DEF Init, BridgeInit, ClientInit
<1>1. InFlight = {} /\ DOMAIN queue = {} /\ \A c \in Client : Owned(c) = {} /\ reply[c].outcome = "NONE"
  BY ErrorSaysNothing DEF InFlight, Owned
<1>2. SettledInv
  BY <1>1 DEF SettledInv, Unreported, SentOnce, RestoreIsLast, Drained, Answered, Reached, NoStaleRequest
<1>3. ReleaseInv
  BY <1>1 DEF ReleaseInv, UndoneReply, Is, DefiniteReleases
<1>4. FreshInv
  BY <1>1 DEF FreshInv, Fresh
<1>5. GoneInv
  BY <1>1 DEF GoneInv, UndoneReply, Is
<1>6. KeptInv
  BY <1>1 DEF KeptInv, ReadBack, Is
<1> QED BY <1>2, <1>3, <1>4, <1>5, <1>6

\* What holds of the requests and of the checkpoints, whoever saves the drawing.
LEMMA InductiveReports ==
  Spec => [](SettledInv /\ ReleaseInv /\ FreshInv)
<1>1. Init => TypesOK /\ ProtocolInv /\ ManifestsBound /\ SettledInv /\ ReleaseInv /\ FreshInv
  BY InitInv, InitReports
<1>2. TypesOK /\ ProtocolInv /\ ManifestsBound /\ SettledInv /\ ReleaseInv /\ FreshInv /\ [Next]_vars
      => SettledInv' /\ ReleaseInv' /\ FreshInv'
  BY StepSettled, StepRelease, StepFresh
<1> QED BY <1>1, <1>2, Inductive, PTL DEF Spec

\* The inductive invariant behind the reports: what an answer proves, and that a
\* checkpoint is created once and its work decided once.
THEOREM ReportsInvariant ==
  ASSUME ~MidBatchSave
  PROVE  Spec => []ReportInv
<1>1. Init => GoneInv /\ KeptInv
  BY InitReports
<1>2. TypesOK /\ ProtocolInv /\ ManifestsBound /\ SettledInv /\ ReleaseInv /\ FreshInv /\ GoneInv /\ KeptInv
      /\ [Next]_vars => GoneInv' /\ KeptInv'
  BY StepGone, StepKept
<1> QED BY <1>1, <1>2, Inductive, InductiveReports, PTL DEF Spec, ReportInv

\* After a definite report no request of the client that could still change the
\* drawing or a checkpoint is queued, deferred or running, whatever timed out before.
THEOREM NothingIsLate == Spec => []NoStaleRequest
<1>1. SettledInv => NoStaleRequest
  BY DEF SettledInv
<1> QED BY <1>1, InductiveReports, PTL

\* A client that reports COMMITTED or ROLLED_BACK_VERIFIED has left no manifest
\* behind, lost finalizes and failed cleanups included.
THEOREM CheckpointsAreReleased == Spec => []DefiniteReleases
<1>1. ReleaseInv => DefiniteReleases
  BY DEF ReleaseInv
<1> QED BY <1>1, InductiveReports, PTL

\* What a client reported as rolled back or refused is neither in the drawing nor in
\* the file, then or later, as long as nobody saves the drawing while a checkpoint is
\* pending.
THEOREM UndoneStaysUndone ==
  ASSUME ~MidBatchSave
  PROVE  Spec => []RolledBackMeansGone
<1>1. ReportInv => RolledBackMeansGone
  BY DEF ReportInv, GoneInv, RolledBackMeansGone, Gone
<1> QED BY <1>1, ReportsInvariant, PTL

-----------------------------------------------------------------------------
(* The batches implement the atomic drawing *)

KeptClients == {c \in Client : fate[c] = "kept"}
AbstractStep == [Abstract!AbsNext]_<<View, saved, KeptClients, status>>

\* The one manifest is the one that View chooses.
LEMMA TheOnly ==
  ASSUME NEW S, \A m, n \in S : m = n, NEW m \in S
  PROVE  (CHOOSE n \in S : TRUE) = m
OBVIOUS

LEMMA ViewIs ==
  /\ OneCheckpoint =>
       (manifests = {} => View = drawing) /\ \A m \in manifests : View = m.parent
  /\ OneCheckpoint' =>
       (manifests' = {} => View' = drawing') /\ \A m \in manifests' : View' = m.parent
<1>1. OneCheckpoint => \A m \in manifests : (CHOOSE n \in manifests : TRUE) = m
  BY TheOnly DEF OneCheckpoint
<1>2. OneCheckpoint' => \A m \in manifests' : (CHOOSE n \in manifests' : TRUE) = m
  BY TheOnly DEF OneCheckpoint
<1> QED BY <1>1, <1>2 DEF View

LEMMA AbstractInit ==
  ASSUME Init
  PROVE  Abstract!AbsInit
BY DEF Init, BridgeInit, ClientInit, Abstract!AbsInit, View

\* A step that decides nothing and reports nothing shows at most as an edit, as a
\* save or as a reload.
LEMMA EnvironmentIsAbstract ==
  ASSUME ~MidBatchSave, OneCheckpoint, OneCheckpoint', BridgeStep, UNCHANGED <<status, fate, manifests>>,
         ~\E req \in running : Handle(req)
  PROVE  AbstractStep
<1> USE DEF AbstractStep
<1>1. KeptClients' = KeptClients /\ status' = status
  BY DEF KeptClients
<1>2. CASE manifests # {}
  <2>1. View' = View
    BY <1>2, ViewIs
  <2>2. saved' = saved
    BY <1>2 DEF BridgeStep, Dispatch, DrainQueued, DrainDeferred, PipeTimeout, Environment,
       ForeignEdit, Save, Crash, Reopen, drawingVars
  <2> QED BY <1>1, <2>1, <2>2
<1>3. CASE manifests = {}
  <2>1. View = drawing /\ View' = drawing'
    BY <1>3, ViewIs
  <2>2. CASE ForeignEdit
    BY <1>1, <2>1, <2>2 DEF ForeignEdit, Abstract!AbsNext, Abstract!Edit, KeptClients
  <2>3. CASE Save
    BY <1>1, <2>1, <2>3 DEF Save, Abstract!AbsNext, Abstract!SaveView, KeptClients
  <2>4. CASE Crash
    BY <1>1, <2>1, <2>4 DEF Crash, Abstract!AbsNext, Abstract!Reload, KeptClients
  <2>5. CASE DrainQueued \/ DrainDeferred \/ PipeTimeout \/ Reopen
    BY <1>1, <2>1, <2>5 DEF DrainQueued, DrainDeferred, PipeTimeout, Reopen, drawingVars
  <2> QED BY <2>2, <2>3, <2>4, <2>5 DEF BridgeStep, Dispatch, Environment
<1> QED BY <1>2, <1>3

\* The work of a client shows when its checkpoint is given up for the accepted
\* drawing, and then as a whole.
LEMMA HandleIsAbstract ==
  ASSUME TypesOK, ProtocolInv, ManifestsBound, ManifestsBound', SettledInv, FreshInv, GoneInv,
         UNCHANGED clientVars, Decide, NEW req \in running, Handle(req)
  PROVE  AbstractStep
<1> USE DEF TypesOK, AbstractStep
<1> DEFINE c == req.client
<1>1. Bound(req) /\ req \in InFlight /\ c \in Client
  BY DEF ProtocolInv, RequestsBound, InFlight, PipeTypeOK, Request
<1>2. status' = status /\ OneCheckpoint /\ OneCheckpoint'
  BY DEF clientVars, ManifestsBound
<1>3. (\A d \in Client : Owned(d) # {} => Owned(d)' # {}) => KeptClients' = KeptClients
  BY DEF Decide, KeptClients
<1>4. CASE Quiet
  <2>1. View' = View
    BY <1>4 DEF Quiet, View
  <2>2. \A d \in Client : Owned(d)' = Owned(d)
    BY <1>4 DEF Quiet, Owned
  <2> QED BY <1>2, <1>3, <1>4, <2>1, <2>2 DEF Quiet
<1>5. CASE Opens(req)
  <2>1. View' = View
    BY <1>2, <1>5, ViewIs DEF Opens
  <2>2. \A d \in Client : Owned(d) = {}
    BY <1>5 DEF Opens, Owned
  <2> QED BY <1>2, <1>3, <1>5, <2>1, <2>2 DEF Opens
<1>6. CASE Works(req)
  <2>1. PICK m \in manifests : m.parent = req.parent
    BY <1>6 DEF Works
  <2>2. View = req.parent /\ View' = View
    BY <1>2, <1>6, <2>1, ViewIs DEF Works
  <2>3. \A d \in Client : Owned(d)' = Owned(d)
    BY <1>6 DEF Works, Owned
  <2>4. KeptClients' = KeptClients
    BY <1>3, <2>3
  <2>5. CASE saved' = saved
    BY <1>2, <2>2, <2>4, <2>5
  <2>6. CASE saved' = req.parent
    BY <1>2, <2>2, <2>4, <2>6 DEF Abstract!AbsNext, Abstract!SaveView, KeptClients
  <2> QED BY <1>6, <2>5, <2>6 DEF Works
<1>7. CASE Releases(req)
  <2>1. PICK m \in manifests :
          m.owner = c /\ (drawing' = m.parent \/ (req.op = "finalize" /\ drawing' = req.fp))
    BY <1>7 DEF Releases
  <2>2. View = m.parent /\ View' = drawing'
    <3>1. manifests' = {}
      BY <1>2, <1>7, <2>1 DEF Releases, Owned, OneCheckpoint
    <3> QED BY <1>2, <2>1, <3>1, ViewIs
  <2>3. Owned(c) # {} /\ Owned(c)' = {} /\ \A d \in Client \ {c} : Owned(d) = {}
    BY <1>2, <1>7, <2>1 DEF Releases, Owned, OneCheckpoint
  <2>4. /\ fate[c] = "open" /\ Marks(c) \cap m.parent = {}
        /\ fate' = [fate EXCEPT ![c] = IF Marks(c) \subseteq drawing' THEN "kept" ELSE "undone"]
    BY <1>1, <2>1, <2>3 DEF FreshInv, GoneInv, Decide, ClientTypeOK
  <2>5. CASE drawing' = m.parent
    <3>1. fate'[c] = "undone"
      BY <1>1, <2>4, <2>5, MarksOfOthers DEF ClientTypeOK
    <3>2. KeptClients' = KeptClients
      BY <2>4, <3>1 DEF KeptClients, ClientTypeOK
    <3> QED BY <1>2, <1>7, <2>2, <2>5, <3>2 DEF Releases
  <2>6. CASE req.op = "finalize" /\ drawing' = req.fp
    <3>1. drawing' = m.parent \cup Marks(c)
      BY <1>1, <2>1, <2>6 DEF Bound, ManifestsBound
    <3>2. KeptClients' = KeptClients \cup {c} /\ c \notin KeptClients
      BY <1>1, <2>4, <3>1 DEF KeptClients, ClientTypeOK
    <3>3. status[c] \notin {"ROLLED_BACK_VERIFIED", "REFUSED"}
      BY <1>1, <2>6 DEF SettledInv, NoStaleRequest
    <3>4. Abstract!Apply(c)
      BY <1>2, <1>7, <2>2, <3>1, <3>2, <3>3 DEF Releases, Abstract!Apply, KeptClients
    <3> QED BY <1>1, <3>4 DEF Abstract!AbsNext
  <2> QED BY <2>1, <2>5, <2>6
<1> QED BY <1>1, <1>4, <1>5, <1>6, <1>7, HandleWorld

\* What a client reports is so, and it reports once.
LEMMA ClientIsAbstract ==
  ASSUME TypesOK, ClientTypeOK', ProtocolInv, SettledInv, FreshInv, GoneInv, KeptInv, NEW c \in Client,
         ClientStep(c) \/ (ClientDies(c) /\ Bridgeless /\ UNCHANGED fate)
  PROVE  AbstractStep
<1> USE DEF TypesOK, AbstractStep
<1>1. /\ View' = View /\ saved' = saved
      /\ KeptClients' = KeptClients /\ {d \in Client : fate'[d] = "kept"} = {d \in Client : fate[d] = "kept"}
  <2>1. UNCHANGED <<manifests, drawing, saved, fate>>
    BY DEF ClientStep, Send, Connect, ConnectFail, Bridgeless, storeVars, drawingVars
  <2> QED BY <2>1 DEF View, KeptClients
<1>2. CASE status' = status
  BY <1>1, <1>2
<1>3. ASSUME NEW s \in {"COMMITTED", "ROLLED_BACK_VERIFIED", "REFUSED", "UNCERTAIN", "DEAD"},
             status' = [status EXCEPT ![c] = s], status[c] = "none",
             s = "COMMITTED" => fate[c] = "kept",
             s \in {"ROLLED_BACK_VERIFIED", "REFUSED"} => fate[c] # "kept"
      PROVE  AbstractStep
  <2>1. Abstract!Tell(c, s)
    BY <1>1, <1>3 DEF Abstract!Tell, KeptClients
  <2> QED BY <2>1 DEF Abstract!AbsNext
<1>4. CASE ClientDies(c)
  BY <1>3, <1>4 DEF ClientDies, Report, SettledInv, Unreported
<1>5. CASE Send(c)
  BY <1>2, <1>5 DEF Send, clientVars
<1>6. CASE Learn(c)
  <2>1. status[c] = "none" /\ \A d \in Client \ {c} : status'[d] = status[d]
    BY <1>6, LearnEffect, LearnReports DEF SettledInv, Unreported
  <2>2. status' = [status EXCEPT ![c] = status'[c]]
    BY <2>1 DEF ClientTypeOK
  <2>3. status'[c] = "none" => status' = status
    BY <2>1, <2>2 DEF ClientTypeOK
  <2>4. status'[c] = "COMMITTED" => fate[c] = "kept"
    BY <1>6, <2>1, LearnReports DEF KeptInv
  <2>5. status'[c] \in {"ROLLED_BACK_VERIFIED", "REFUSED"} => fate[c] # "kept"
    BY <1>6, <2>1, LearnReports DEF GoneInv, Gone, FreshInv, Fresh
  <2>6. status'[c] \in {"none", "COMMITTED", "ROLLED_BACK_VERIFIED", "REFUSED", "UNCERTAIN"}
    BY <1>6, <2>1, LearnReports
  <2> QED BY <1>2, <1>3, <2>1, <2>2, <2>3, <2>4, <2>5, <2>6
<1> QED BY <1>4, <1>5, <1>6 DEF ClientStep

LEMMA StepIsAbstract ==
  ASSUME ~MidBatchSave, TypesOK, TypesOK', ProtocolInv, ManifestsBound, ManifestsBound', ReportInv, [Next]_vars
  PROVE  AbstractStep
<1> USE DEF ReportInv
<1>1. CASE \E c \in Client : ClientStep(c) \/ (ClientDies(c) /\ Bridgeless /\ UNCHANGED fate)
  BY <1>1, ClientIsAbstract DEF TypesOK
<1>2. CASE BridgeStep /\ UNCHANGED clientVars /\ Decide
  <2>1. CASE ~\E req \in running : Handle(req)
    <3>1. Calm /\ status' = status
      BY <1>2, <2>1, BridgeIsCalm DEF clientVars
    <3>2. fate' = fate /\ manifests' = manifests
      BY <1>2, <3>1 DEF Decide, Owned, Calm, TypesOK, ClientTypeOK
    <3> QED BY <1>2, <2>1, <3>1, <3>2, EnvironmentIsAbstract DEF ManifestsBound
  <2> QED BY <1>2, <2>1, HandleIsAbstract
<1>3. CASE UNCHANGED vars
  BY <1>3 DEF vars, bridgeVars, clientVars, drawingVars, storeVars, View, KeptClients, AbstractStep
<1> QED BY <1>1, <1>2, <1>3 DEF Next

\* The bridge with its clients is an atomic drawing, as long as nobody saves the
\* drawing while a checkpoint is pending: the work of a client shows as a whole or
\* not at all, and every definite report is true for good.
THEOREM ImplementsAtomicDrawing ==
  ASSUME ~MidBatchSave
  PROVE  Spec => AtomicDrawingSpec
<1>1. Init => Abstract!AbsInit
  BY AbstractInit
<1>2. /\ TypesOK /\ ProtocolInv /\ ManifestsBound /\ ReportInv
      /\ TypesOK' /\ ManifestsBound' /\ [Next]_vars
      => [Abstract!AbsNext]_Abstract!absVars
  BY StepIsAbstract DEF AbstractStep, Abstract!absVars, KeptClients
<1> QED BY <1>1, <1>2, Inductive, ReportsInvariant, PTL DEF Spec, AtomicDrawingSpec, Abstract!AbsSpec

=============================================================================
