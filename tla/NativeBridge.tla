----------------------------- MODULE NativeBridge -----------------------------
(***************************************************************************)
(* The native AutoCAD bridge (native/CDT.AutoCAD.Bridge) seen by the        *)
(* clients that mutate one drawing lineage: the single-instance pipe, the   *)
(* bounded request queue drained on the Idle thread, the mutation handlers  *)
(* and the durable recovery checkpoint (artifact file plus manifest file).  *)
(*                                                                          *)
(* A drawing content is the set of marks its entities carry: <<c, i>> is    *)
(* what chunk i of client c's request adds, Foreign is any edit made        *)
(* outside the bridge.  A fingerprint identifies a content, so the content  *)
(* itself stands for it.  The actions of the clients are in the modules     *)
(* that extend this one.                                                    *)
(***************************************************************************)
EXTENDS Naturals, FiniteSets, Sequences

CONSTANTS
  Client,        \* owners: one request id (uuid4) per logical batch or metadata set
  Size,          \* Size[c]: number of chunks of the request of client c
  Foreign,       \* the mark of an edit made outside the bridge
  QueueMax,      \* MaxPendingRequests
  MaxEdits,      \* bound on foreign edits
  MaxCrashes,    \* bound on crashes of the AutoCAD process
  MidBatchSave   \* may somebody save the drawing while a checkpoint is pending?

ASSUME SizeAssumption == Size \in [Client -> Nat \ {0}]
ASSUME QueueMaxAssumption == QueueMax \in Nat \ {0}
ASSUME BoundsAssumption == MaxEdits \in Nat /\ MaxCrashes \in Nat
ASSUME SaveAssumption == MidBatchSave \in BOOLEAN
ASSUME ForeignAssumption == Foreign \notin Client \X Nat

VARIABLES
  drawing,     \* content of the open drawing, in memory
  isOpen,      \* is the drawing open in AutoCAD?
  runtimeId,   \* the newest runtime_document_id the registry handed out
  saved,       \* content of the .dwg file
  manifests,   \* recovery manifests on disk: [owner, parent]
  artifact,    \* artifact[c]: {} or {content of the checkpoint file owned by c}
  contexts,    \* owners with an in-memory R1 context
  r2,          \* r2[c]: phase of the R2 restore requested by c
  queue,       \* the bounded channel of pending requests
  deferred,    \* requests that returned DeferredBridgeResult
  running,     \* {} or the request the Idle thread executes
  pipe,        \* {} or the client whose connection the pipe host serves
  reply,       \* reply[c]: the answer waiting at client c
  edits, crashes

drawingVars == <<drawing, isOpen, runtimeId, saved>>
storeVars == <<manifests, artifact>>
recoveryVars == <<contexts, r2>>
pipeVars == <<pipe, reply>>
boundVars == <<edits, crashes>>
bridgeVars == <<drawing, isOpen, runtimeId, saved, manifests, artifact, contexts,
                r2, queue, deferred, running, pipe, reply, edits, crashes>>

-----------------------------------------------------------------------------
(* Data *)

Marks(c) == {c} \X (1 .. Size[c])
Mark == (UNION {Marks(c) : c \in Client}) \cup {Foreign}
Content == SUBSET Mark

Op == {"begin", "chunk", "mutate", "state", "list", "finalize", "r1", "r2"}
Request == [op : Op, client : Client, rid : Nat, fp : Content, parent : Content,
            chunk : Nat, live : BOOLEAN]
Manifest == [owner : Client, parent : Content]
Outcome == {"NONE", "ERROR", "REFUSED", "OPEN", "COMMITTED_VERIFIED",
            "COMMIT_INTEGRITY_FAIL", "ROLLED_BACK_VERIFIED", "ROLLBACK_FAILED",
            "STATE", "ROWS", "FINALIZED"}
Reply == [outcome : Outcome, fp : Content, rid : Nat, rows : SUBSET Manifest]
Phase == {"none", "WaitCheckpointActive", "WaitRestoredActive"}

Answer(outcome, fp, rid) ==
  [outcome |-> outcome, fp |-> fp, rid |-> rid, rows |-> {}]
NoReply == Answer("NONE", {}, 0)
Error == Answer("ERROR", {}, 0)      \* completion unknown: fault, timeout or lost answer
Refused == Answer("REFUSED", {}, 0)  \* a coded refusal raised before any effect

TypeOK ==
  /\ drawing \in Content /\ isOpen \in BOOLEAN /\ runtimeId \in Nat /\ saved \in Content
  /\ manifests \in SUBSET Manifest
  /\ artifact \in [Client -> SUBSET Content]
  /\ contexts \in SUBSET Client
  /\ r2 \in [Client -> Phase]
  /\ queue \in Seq(Request) /\ deferred \in SUBSET Request /\ running \in SUBSET Request
  /\ pipe \in SUBSET Client
  /\ reply \in [Client -> Reply]
  /\ edits \in Nat /\ crashes \in Nat

BridgeInit ==
  /\ drawing = {} /\ isOpen = TRUE /\ runtimeId = 1 /\ saved = {}
  /\ manifests = {} /\ artifact = [c \in Client |-> {}]
  /\ contexts = {} /\ r2 = [c \in Client |-> "none"]
  /\ queue = <<>> /\ deferred = {} /\ running = {}
  /\ pipe = {} /\ reply = [c \in Client |-> NoReply]
  /\ edits = 0 /\ crashes = 0

-----------------------------------------------------------------------------
(* The pipe host: one connection at a time *)

\* A client connects and its request is parsed and enqueued, or the queue is full.
Connect(c, req) ==
  /\ pipe = {}
  /\ IF Len(queue) < QueueMax
       THEN queue' = Append(queue, req) /\ pipe' = {c} /\ UNCHANGED reply
       ELSE reply' = [reply EXCEPT ![c] = Error] /\ UNCHANGED <<queue, pipe>>
  /\ UNCHANGED <<drawingVars, storeVars, recoveryVars, deferred, running, boundVars>>

\* The connection times out (the pipe serves another client) or breaks.
ConnectFail(c) ==
  /\ reply' = [reply EXCEPT ![c] = Error]
  /\ UNCHANGED <<drawingVars, storeVars, recoveryVars, queue, deferred, running, pipe, boundVars>>

Cancelled(req) == [req EXCEPT !.live = FALSE]

\* RequestTimeout: the wait is abandoned, the request is only marked cancelled.
PipeTimeout ==
  /\ pipe # {}
  /\ reply' = [c \in Client |-> IF c \in pipe THEN Error ELSE reply[c]]
  /\ pipe' = {}
  /\ queue' = [i \in DOMAIN queue |-> Cancelled(queue[i])]
  /\ deferred' = {Cancelled(req) : req \in deferred}
  /\ running' = {Cancelled(req) : req \in running}
  /\ UNCHANGED <<drawingVars, storeVars, recoveryVars, boundVars>>

-----------------------------------------------------------------------------
(* The dispatcher on the AutoCAD Idle thread *)

\* CancelRecoveryRequest: drops the R2 state of a cancelled request.
CancelRecovery(req) ==
  r2' = IF req.op = "r2" THEN [r2 EXCEPT ![req.client] = "none"] ELSE r2

Take(req) ==
  IF req.live
    THEN running' = {req} /\ UNCHANGED <<contexts, r2>>
    ELSE CancelRecovery(req) /\ UNCHANGED <<running, contexts>>

\* Mutant of DrainQueued: the newest request overtakes the older ones.
MutantDrainQueued ==
  /\ running = {} /\ queue # <<>>
  /\ Take(queue[Len(queue)])
  /\ queue' = SubSeq(queue, 1, Len(queue) - 1)
  /\ UNCHANGED <<drawingVars, storeVars, deferred, pipeVars, boundVars>>

DrainQueued ==
  /\ running = {} /\ queue # <<>>
  /\ Take(Head(queue))
  /\ queue' = Tail(queue)
  /\ UNCHANGED <<drawingVars, storeVars, deferred, pipeVars, boundVars>>

DrainDeferred ==
  /\ running = {}
  /\ \E req \in deferred : Take(req) /\ deferred' = deferred \ {req}
  /\ UNCHANGED <<drawingVars, storeVars, queue, pipeVars, boundVars>>

\* The handler ends; the answer reaches a client that still waits, or is lost.
Respond(req, answer) ==
  /\ running' = {}
  /\ IF req.live
       THEN /\ pipe' = {}
            /\ \E a \in {answer, Error} : reply' = [reply EXCEPT ![req.client] = a]
       ELSE UNCHANGED pipeVars
  /\ UNCHANGED <<queue, deferred, boundVars>>

\* DeferredBridgeResult: the request is looked at again in a later Idle tick.
Defer(req) ==
  /\ running' = {} /\ deferred' = deferred \cup {req}
  /\ UNCHANGED <<queue, pipeVars, boundVars>>

-----------------------------------------------------------------------------
(* The checkpoint store and the document registry *)

Owned(c) == {m \in manifests : m.owner = c}
CheckpointPresent(c, parent) ==
  \E m \in manifests : m.owner = c /\ m.parent = parent /\ artifact[c] = {parent}
AnyCheckpoint(c) == \E m \in manifests : m.owner = c /\ artifact[c] = {m.parent}

\* Mutant of CreateCheckpoint: only the owner's own checkpoint is in the way.
MutantCreateCheckpoint(c) ==
  /\ Owned(c) = {}
  /\ artifact' = [artifact EXCEPT ![c] = {drawing}]
  /\ manifests' = manifests \cup {[owner |-> c, parent |-> drawing]}

\* Create: the document has no unresolved checkpoint; artifact first, manifest second.
CreateCheckpoint(c) ==
  /\ manifests = {}
  /\ artifact' = [artifact EXCEPT ![c] = {drawing}]
  /\ manifests' = {[owner |-> c, parent |-> drawing]}
CreateFails(c) ==
  artifact' \in {artifact, [artifact EXCEPT ![c] = {drawing}]} /\ UNCHANGED manifests

\* Mutant of FinalizeCheckpoint: the manifest is forgotten.
MutantFinalizeCheckpoint(c) ==
  artifact' = [artifact EXCEPT ![c] = {}] /\ UNCHANGED manifests

\* Finalize: deletes the artifact, then the manifest; either deletion may fail.
FinalizeCheckpoint(c) ==
  artifact' = [artifact EXCEPT ![c] = {}] /\ manifests' = manifests \ Owned(c)
CleanupFails(c) ==
  artifact' \in {artifact, [artifact EXCEPT ![c] = {}]} /\ UNCHANGED manifests

Resolved(req) == isOpen /\ req.rid = runtimeId

-----------------------------------------------------------------------------
(* The handlers; each runs to its end on the Idle thread *)

\* Any precondition that fails, and any exception before an effect.  A deferred
\* R2 request that fails here (Require throws) keeps its R2 state.
HandlerFails(req) ==
  Respond(req, Error) /\ UNCHANGED <<drawingVars, storeVars, recoveryVars>>

\* BeginLogicalBatch: STATE_DRIFT guard, then the predecessor checkpoint.
BeginLogicalBatch(req) ==
  /\ req.op = "begin"
  /\ Resolved(req) /\ drawing = req.fp
  /\ \/ CreateCheckpoint(req.client) /\ Respond(req, Answer("OPEN", drawing, runtimeId))
     \/ CreateFails(req.client) /\ Respond(req, Error)
  /\ UNCHANGED <<drawingVars, recoveryVars>>

\* What a committed transaction leaves when the read-back of the affected
\* entities does or does not match the provisional state.
Committed(req) == drawing \cup {<<req.client, req.chunk>>}
IntegrityOutcome(req) == IF drawing' = Committed(req) THEN "COMMITTED_VERIFIED"
                         ELSE "COMMIT_INTEGRITY_FAIL"

\* ExecuteBatch*: one chunk under the logical checkpoint, in one transaction.  The
\* affected entities are read back, the fingerprint chains from the provisional one.
ExecuteBatch(req) ==
  /\ req.op = "chunk"
  /\ Resolved(req) /\ drawing = req.fp
  /\ CheckpointPresent(req.client, req.parent) /\ r2[req.client] = "none"
  /\ \/ /\ drawing' \in {Committed(req), drawing}
        /\ Respond(req, Answer(IntegrityOutcome(req), Committed(req), runtimeId))
     \/ /\ Respond(req, Answer("ROLLED_BACK_VERIFIED", drawing, runtimeId))  \* R0 abort
        /\ UNCHANGED drawing
  /\ UNCHANGED <<isOpen, runtimeId, saved, storeVars, recoveryVars>>

\* MetadataSet / Execute: a mutation that owns its checkpoint.
MutateRefused(req) ==
  /\ ~Resolved(req) \/ drawing # req.fp \/ manifests # {}
  /\ Respond(req, Refused)
  /\ UNCHANGED <<drawingVars, storeVars, recoveryVars>>

MutateCommits(req) ==
  /\ CreateCheckpoint(req.client)
  /\ drawing' \in {Committed(req), drawing}
  /\ \/ /\ contexts' = contexts \cup {req.client}
        /\ Respond(req, Answer(IntegrityOutcome(req), drawing', runtimeId))
     \/ UNCHANGED contexts /\ Respond(req, Error)   \* exception after Commit
  /\ UNCHANGED <<isOpen, runtimeId, saved, r2>>

\* Nothing committed: R0 abort or an exception; the catch block swallows a
\* failed Finalize, which leaves the manifest, with or without its artifact.
CheckpointLeft(c) ==
  /\ manifests' = {[owner |-> c, parent |-> drawing]}
  /\ artifact' \in {artifact, [artifact EXCEPT ![c] = {drawing}]}

MutateAborts(req) ==
  /\ manifests = {}
  /\ \/ CreateFails(req.client) /\ Respond(req, Error)
     \/ CheckpointLeft(req.client) /\ \E a \in {Error, Refused} : Respond(req, a)
     \/ /\ \E a \in {Refused, Answer("ROLLED_BACK_VERIFIED", drawing, runtimeId)} :
             Respond(req, a)
        /\ UNCHANGED storeVars
  /\ UNCHANGED <<drawingVars, recoveryVars>>

MetadataSet(req) ==
  /\ req.op = "mutate"
  /\ \/ MutateRefused(req)
     \/ Resolved(req) /\ drawing = req.fp /\ (MutateCommits(req) \/ MutateAborts(req))

\* DocumentState; runtime id 0 stands for "the active document" of documents.list.
DocumentState(req) ==
  /\ req.op = "state"
  /\ isOpen /\ req.rid \in {0, runtimeId}
  /\ Respond(req, Answer("STATE", drawing, runtimeId))
  /\ UNCHANGED <<drawingVars, storeVars, recoveryVars>>

ListRecoveries(req) ==
  /\ req.op = "list"
  /\ Respond(req, [Answer("ROWS", {}, 0) EXCEPT !.rows = manifests])
  /\ UNCHANGED <<drawingVars, storeVars, recoveryVars>>

FinalizeRecovery(req) ==
  /\ req.op = "finalize"
  /\ Resolved(req) /\ AnyCheckpoint(req.client) /\ r2[req.client] = "none"
  /\ drawing = req.fp
  /\ \/ /\ FinalizeCheckpoint(req.client)
        /\ contexts' = contexts \ {req.client}
        /\ Respond(req, Answer("FINALIZED", drawing, runtimeId))
     \/ CleanupFails(req.client) /\ UNCHANGED contexts /\ Respond(req, Error)
  /\ UNCHANGED <<drawingVars, r2>>

-----------------------------------------------------------------------------
(* Recovery *)

\* ResolveR1: the inverse transaction commits before the result is compared.
R1Unavailable(req) ==
  /\ req.client \notin contexts
  /\ Respond(req, Answer("ROLLBACK_FAILED", drawing, runtimeId))
  /\ UNCHANGED <<drawingVars, storeVars, recoveryVars>>

R1Compensates(req) ==
  /\ req.client \in contexts
  /\ drawing' = drawing \ Marks(req.client)
  /\ IF drawing' = req.parent
       THEN \/ /\ FinalizeCheckpoint(req.client)
               /\ contexts' = contexts \ {req.client}
               /\ Respond(req, Answer("ROLLED_BACK_VERIFIED", drawing', runtimeId))
            \/ CleanupFails(req.client) /\ UNCHANGED contexts /\ Respond(req, Error)
       ELSE /\ Respond(req, Answer("ROLLBACK_FAILED", drawing', runtimeId))
            /\ UNCHANGED <<storeVars, contexts>>
  /\ UNCHANGED <<isOpen, runtimeId, saved, r2>>

ResolveR1(req) ==
  /\ req.op = "r1"
  /\ CheckpointPresent(req.client, req.parent) /\ r2[req.client] = "none"
  /\ Resolved(req)
  /\ R1Unavailable(req) \/ R1Compensates(req)

R2Failure(req) ==
  /\ Respond(req, Answer("ROLLBACK_FAILED", {}, 0))
  /\ r2' = [r2 EXCEPT ![req.client] = "none"]
  /\ UNCHANGED contexts

\* BeginR2: opens the checkpoint and waits for it to become active.
BeginR2(req) ==
  /\ req.op = "r2" /\ r2[req.client] = "none"
  /\ CheckpointPresent(req.client, req.parent) /\ Resolved(req)
  /\ \/ /\ r2' = [r2 EXCEPT ![req.client] = "WaitCheckpointActive"]
        /\ Defer(req) /\ UNCHANGED contexts
     \/ R2Failure(req)
  /\ UNCHANGED <<drawingVars, storeVars>>

\* The original closes without saving, the checkpoint is copied over it, it
\* reopens under a new runtime id.  Each step may be the last one.
R2Restores(req) ==
  /\ saved' = req.parent /\ drawing' = req.parent
  /\ isOpen' = TRUE /\ runtimeId' = runtimeId + 1
  /\ r2' = [r2 EXCEPT ![req.client] = "WaitRestoredActive"]
  /\ Defer(req) /\ UNCHANGED contexts

R2StopsClosed(req) ==
  /\ saved' \in {saved, req.parent} /\ drawing' = saved' /\ isOpen' = FALSE
  /\ UNCHANGED runtimeId
  /\ R2Failure(req)

ContinueR2Close(req) ==
  /\ req.op = "r2" /\ r2[req.client] = "WaitCheckpointActive"
  /\ CheckpointPresent(req.client, req.parent)
  /\ \/ R2Restores(req)
     \/ R2StopsClosed(req)
     \/ R2Failure(req) /\ UNCHANGED drawingVars    \* activation failed
  /\ UNCHANGED storeVars

ContinueR2Verify(req) ==
  /\ req.op = "r2" /\ r2[req.client] = "WaitRestoredActive"
  /\ CheckpointPresent(req.client, req.parent)
  /\ \/ /\ drawing = req.parent
        /\ FinalizeCheckpoint(req.client)
        /\ contexts' = contexts \ {req.client}
        /\ r2' = [r2 EXCEPT ![req.client] = "none"]
        /\ Respond(req, Answer("ROLLED_BACK_VERIFIED", drawing, runtimeId))
     \/ drawing = req.parent /\ CleanupFails(req.client) /\ R2Failure(req)
     \/ R2Failure(req) /\ UNCHANGED storeVars      \* activation failed, or not exact
  /\ UNCHANGED drawingVars

Handle(req) ==
  \/ HandlerFails(req)
  \/ BeginLogicalBatch(req)
  \/ ExecuteBatch(req)
  \/ MetadataSet(req)
  \/ DocumentState(req)
  \/ ListRecoveries(req)
  \/ FinalizeRecovery(req)
  \/ ResolveR1(req)
  \/ BeginR2(req)
  \/ ContinueR2Close(req)
  \/ ContinueR2Verify(req)

Dispatch == DrainQueued \/ DrainDeferred \/ \E req \in running : Handle(req)

-----------------------------------------------------------------------------
(* The environment: the AutoCAD user and the process *)

\* The user, or another plug-in, draws or erases something.
ForeignEdit ==
  /\ isOpen /\ edits < MaxEdits
  /\ drawing' = IF Foreign \in drawing THEN drawing \ {Foreign} ELSE drawing \cup {Foreign}
  /\ edits' = edits + 1
  /\ UNCHANGED <<isOpen, runtimeId, saved, storeVars, recoveryVars, queue, deferred,
                 running, pipeVars, crashes>>

Save ==
  /\ isOpen /\ saved # drawing
  /\ MidBatchSave \/ manifests = {}
  /\ saved' = drawing
  /\ UNCHANGED <<drawing, isOpen, runtimeId, storeVars, recoveryVars, queue, deferred,
                 running, pipeVars, boundVars>>

\* What a handler killed half-way leaves on disk besides the effects of the
\* whole handler: an artifact without manifest, or a manifest without artifact.
AboutToCreate(req) ==
  /\ req.op \in {"begin", "mutate"}
  /\ Resolved(req) /\ drawing = req.fp /\ manifests = {}

AboutToFinalize(req) ==
  /\ AnyCheckpoint(req.client)
  /\ \/ req.op = "finalize" /\ drawing = req.fp
     \/ req.op = "r1" /\ req.client \in contexts /\ drawing \ Marks(req.client) = req.parent
     \/ req.op = "r2" /\ r2[req.client] = "WaitRestoredActive" /\ drawing = req.parent

HalfWrittenArtifacts ==
  {artifact}
  \cup {[artifact EXCEPT ![req.client] = {drawing}] : req \in {q \in running : AboutToCreate(q)}}
  \cup {[artifact EXCEPT ![req.client] = {}] : req \in {q \in running : AboutToFinalize(q)}}

\* The AutoCAD process dies: everything in memory is gone.
Crash ==
  /\ crashes < MaxCrashes /\ crashes' = crashes + 1
  /\ isOpen' = FALSE /\ drawing' = saved
  /\ artifact' \in HalfWrittenArtifacts
  /\ contexts' = {} /\ r2' = [c \in Client |-> "none"]
  /\ queue' = <<>> /\ deferred' = {} /\ running' = {}
  /\ reply' = [c \in Client |-> IF c \in pipe THEN Error ELSE reply[c]]
  /\ pipe' = {}
  /\ UNCHANGED <<runtimeId, saved, manifests, edits>>

\* The drawing is opened again, under a runtime id of its own.
Reopen ==
  /\ ~isOpen
  /\ isOpen' = TRUE /\ runtimeId' = runtimeId + 1
  /\ UNCHANGED <<drawing, saved, storeVars, recoveryVars, queue, deferred, running,
                 pipeVars, boundVars>>

Environment == ForeignEdit \/ Save \/ Crash \/ Reopen

BridgeStep == Dispatch \/ PipeTimeout \/ Environment

=============================================================================
