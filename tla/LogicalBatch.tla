----------------------------- MODULE LogicalBatch -----------------------------
(***************************************************************************)
(* The clients of the native bridge that mutate one drawing: executors of   *)
(* logical batches (native_bridge/logical_batch.py; feature_stream.py is    *)
(* the same protocol) and metadata setters (native_bridge/public_runtime.py *)
(* metadata_set).  Each sends one request at a time, never resends one, and *)
(* turns what it learns into one of the statuses it reports.                *)
(***************************************************************************)
EXTENDS NativeBridge

CONSTANTS
  Setter,        \* the clients that run metadata_set; the others run a batch
  MaxClientDeaths  \* bound on clients killed in the middle of their work

ASSUME SetterAssumption == Setter \subseteq Client /\ \A c \in Setter : Size[c] = 1
ASSUME DeathAssumption == MaxClientDeaths \in Nat

VARIABLES
  pc,       \* the next request of the client, or "done"
  rid,      \* runtime_document_id the client is bound to
  pre,      \* expected_parent_fp: the predecessor fingerprint
  cur,      \* current_fp: fingerprint chained through the chunk receipts
  k,        \* index of the next chunk
  status,   \* what the client reported to its caller
  fate      \* history: what became of the checkpoint's work when it vanished

clientVars == <<pc, rid, pre, cur, k, status>>
vars == <<bridgeVars, clientVars, fate>>

Status == {"none", "COMMITTED", "ROLLED_BACK_VERIFIED", "REFUSED", "UNCERTAIN", "DEAD"}
Fate == {"open", "kept", "undone"}
Pc == {"bind", "begin", "mutate", "discover", "chunk", "readback", "finalize",
       "confirm", "reconcile", "compensate", "restore", "done"}

OpOf == [p \in Pc |->
  CASE p \in {"bind", "readback", "reconcile"} -> "state"
    [] p \in {"discover", "confirm"} -> "list"
    [] p = "compensate" -> "r1"
    [] p = "restore" -> "r2"
    [] OTHER -> p]

ClientTypeOK ==
  /\ pc \in [Client -> Pc]
  /\ rid \in [Client -> Nat]
  /\ pre \in [Client -> Content] /\ cur \in [Client -> Content]
  /\ k \in [Client -> Nat]
  /\ status \in [Client -> Status]
  /\ fate \in [Client -> Fate]

ClientInit ==
  /\ pc = [c \in Client |-> "bind"]
  /\ rid = [c \in Client |-> 0]
  /\ pre = [c \in Client |-> {}] /\ cur = [c \in Client |-> {}]
  /\ k = [c \in Client |-> 1]
  /\ status = [c \in Client |-> "none"]
  /\ fate = [c \in Client |-> "open"]

-----------------------------------------------------------------------------
(* Sending a request: NamedPipeTransport.round_trip *)

RequestOf(c) ==
  [op |-> OpOf[pc[c]], client |-> c, rid |-> rid[c], fp |-> cur[c],
   parent |-> pre[c], chunk |-> k[c], live |-> TRUE]

Send(c) ==
  /\ pc[c] # "done" /\ reply[c] = NoReply /\ c \notin pipe
  /\ Connect(c, RequestOf(c)) \/ ConnectFail(c)
  /\ UNCHANGED clientVars

\* The client takes its answer and goes on, or reports a status and stops.
Consume(c) == reply' = [reply EXCEPT ![c] = NoReply]
Goto(c, p) == pc' = [pc EXCEPT ![c] = p] /\ UNCHANGED status
Report(c, s) == pc' = [pc EXCEPT ![c] = "done"] /\ status' = [status EXCEPT ![c] = s]

Got(c, p) == pc[c] = p /\ reply[c] # NoReply
Is(c, outcome) == reply[c].outcome = outcome

-----------------------------------------------------------------------------
(* Steps that both kinds of client share *)

\* The caller's expected state: runtime id and fingerprint of the active document.
OnBind(c) ==
  /\ Got(c, "bind")
  /\ IF Is(c, "STATE")
       THEN /\ rid' = [rid EXCEPT ![c] = reply[c].rid]
            /\ pre' = [pre EXCEPT ![c] = reply[c].fp]
            /\ cur' = [cur EXCEPT ![c] = reply[c].fp]
            /\ Goto(c, IF c \in Setter THEN "mutate" ELSE "begin")
       ELSE Report(c, "REFUSED") /\ UNCHANGED <<rid, pre, cur>>
  /\ UNCHANGED k

\* Where the client goes when its work has to be undone.
Undo(c) == IF c \in Setter THEN "compensate" ELSE "restore"

\* _discover_logical_binding / _discover_metadata_checkpoint.
Discovered(c) == \E m \in reply[c].rows : m.owner = c /\ m.parent = pre[c]

OnDiscover(c) ==
  /\ Got(c, "discover")
  /\ \/ Discovered(c) /\ Goto(c, Undo(c))
     \/ ~Discovered(c) /\ Report(c, "UNCERTAIN")
     \/ c \notin Setter /\ Report(c, "UNCERTAIN")      \* LOGICAL_JOURNAL_FAILED
  /\ UNCHANGED <<rid, pre, cur, k>>

\* The independent read-back must equal the chained fingerprint.
ReadBack(c) == Is(c, "STATE") /\ reply[c].fp = cur[c]

OnReadback(c) ==
  /\ Got(c, "readback")
  /\ \/ ReadBack(c) /\ Goto(c, "finalize")
     \/ Goto(c, Undo(c))       \* mismatch, journal failure or metadata_get failure
  /\ UNCHANGED <<rid, pre, cur, k>>

Restored(c) == Is(c, "ROLLED_BACK_VERIFIED") /\ reply[c].fp = pre[c]

OnRestore(c) ==
  /\ Got(c, "restore")
  /\ \/ Restored(c) /\ Report(c, "ROLLED_BACK_VERIFIED")
     \/ ~Restored(c) /\ Report(c, "UNCERTAIN")
     \/ c \notin Setter /\ Report(c, "UNCERTAIN")      \* LOGICAL_JOURNAL_FAILED
  /\ UNCHANGED <<rid, pre, cur, k>>

\* The worker process is killed; its request stays with the bridge.
ClientDies(c) ==
  /\ pc[c] # "done"
  /\ Cardinality({d \in Client : status[d] = "DEAD"}) < MaxClientDeaths
  /\ Report(c, "DEAD")
  /\ UNCHANGED <<rid, pre, cur, k, reply>>

-----------------------------------------------------------------------------
(* NativeLogicalBatchExecutor._execute *)

\* _validate_begin: the checkpoint is this client's, for this predecessor.
Opened(c) == Is(c, "OPEN")

OnBegin(c) ==
  /\ Got(c, "begin")
  /\ \/ Opened(c) /\ Goto(c, "chunk")
     \/ Opened(c) /\ Report(c, "UNCERTAIN")           \* LOGICAL_JOURNAL_FAILED
     \/ ~Opened(c) /\ Goto(c, "discover")
  /\ UNCHANGED <<rid, pre, cur, k>>

\* The chunk that was asked for is committed, as far as the receipt tells: create,
\* insert and transform answer with the objects they were given.
Accepted(c) == Is(c, "COMMITTED_VERIFIED")

\* Mutant of OnChunk: the last chunk is forgotten.
MutantOnChunk(c) ==
  /\ Got(c, "chunk")
  /\ \/ /\ Accepted(c)
        /\ cur' = [cur EXCEPT ![c] = reply[c].fp]
        /\ k' = [k EXCEPT ![c] = @ + 1]
        /\ Goto(c, IF k[c] + 1 >= Size[c] THEN "readback" ELSE "chunk")
     \/ Goto(c, "restore") /\ UNCHANGED <<cur, k>>
  /\ UNCHANGED <<rid, pre>>

\* A verified chunk chains its fingerprint; anything else restores the predecessor.
OnChunk(c) ==
  /\ Got(c, "chunk")
  /\ \/ /\ Accepted(c)
        /\ cur' = [cur EXCEPT ![c] = reply[c].fp]
        /\ k' = [k EXCEPT ![c] = @ + 1]
        /\ Goto(c, IF k[c] = Size[c] THEN "readback" ELSE "chunk")
     \/ Goto(c, "restore") /\ UNCHANGED <<cur, k>>     \* bad outcome, receipt or journal
  /\ UNCHANGED <<rid, pre>>

OnFinalize(c) ==
  /\ Got(c, "finalize") /\ c \notin Setter
  /\ \/ Is(c, "FINALIZED") /\ Report(c, "COMMITTED")
     \/ Is(c, "FINALIZED") /\ Goto(c, "restore")       \* logical_commit not journalled
     \/ ~Is(c, "FINALIZED") /\ Goto(c, "confirm")
  /\ UNCHANGED <<rid, pre, cur, k>>

\* Mutant of OnConfirm: a failed listing counts as an empty one.
MutantLenientConfirm(c) ==
  /\ Got(c, "confirm")
  /\ IF ~Discovered(c) THEN Goto(c, "reconcile") ELSE Goto(c, "restore")
  /\ UNCHANGED <<rid, pre, cur, k>>

\* Mutant of OnConfirm: the listing is asked for until it succeeds.
MutantRetryConfirm(c) ==
  /\ Got(c, "confirm")
  /\ CASE ~Is(c, "ROWS") -> Goto(c, "confirm")
       [] Discovered(c) -> Goto(c, "restore")
       [] OTHER -> Goto(c, "reconcile")
  /\ UNCHANGED <<rid, pre, cur, k>>

\* _logical_checkpoint_present: did the lost finalize take effect?
OnConfirm(c) ==
  /\ Got(c, "confirm")
  /\ IF Is(c, "ROWS") /\ ~Discovered(c) THEN Goto(c, "reconcile") ELSE Goto(c, "restore")
  /\ UNCHANGED <<rid, pre, cur, k>>

OnReconcile(c) ==
  /\ Got(c, "reconcile")
  /\ \/ ReadBack(c) /\ Report(c, "COMMITTED")
     \/ Goto(c, "restore")                             \* LOGICAL_FINALIZE_UNKNOWN, journal
  /\ UNCHANGED <<rid, pre, cur, k>>

-----------------------------------------------------------------------------
(* NativePublicRuntime.metadata_set *)

\* Mutant of OnMutate: a transport failure is taken for a refusal.
MutantOnMutate(c) ==
  /\ Got(c, "mutate")
  /\ CASE Is(c, "REFUSED") \/ Is(c, "ERROR") -> Report(c, "REFUSED") /\ UNCHANGED cur
       [] Restored(c) -> Report(c, "ROLLED_BACK_VERIFIED") /\ UNCHANGED cur
       [] Is(c, "COMMITTED_VERIFIED") ->
            cur' = [cur EXCEPT ![c] = reply[c].fp] /\ Goto(c, "readback")
       [] OTHER -> Goto(c, "compensate") /\ UNCHANGED cur
  /\ UNCHANGED <<rid, pre, k>>

OnMutate(c) ==
  /\ Got(c, "mutate")
  /\ CASE Is(c, "REFUSED") -> Report(c, "REFUSED") /\ UNCHANGED cur
       [] Restored(c) -> Report(c, "ROLLED_BACK_VERIFIED") /\ UNCHANGED cur
       [] Is(c, "COMMITTED_VERIFIED") ->
            cur' = [cur EXCEPT ![c] = reply[c].fp] /\ Goto(c, "readback")
       [] Is(c, "COMMIT_INTEGRITY_FAIL") -> Goto(c, "compensate") /\ UNCHANGED cur
       [] OTHER -> Goto(c, "discover") /\ UNCHANGED cur
  /\ UNCHANGED <<rid, pre, k>>

\* A finalize that is not confirmed is compensated like any other failure.
OnSetterFinalize(c) ==
  /\ Got(c, "finalize") /\ c \in Setter
  /\ IF Is(c, "FINALIZED") THEN Report(c, "COMMITTED") ELSE Goto(c, "compensate")
  /\ UNCHANGED <<rid, pre, cur, k>>

\* R1 first; its answer may rebind the runtime id R2 is asked for.
OnCompensate(c) ==
  /\ Got(c, "compensate")
  /\ IF Restored(c)
       THEN Report(c, "ROLLED_BACK_VERIFIED") /\ UNCHANGED rid
       ELSE /\ Goto(c, "restore")
            /\ rid' = [rid EXCEPT ![c] = IF reply[c].rid = 0 THEN @ ELSE reply[c].rid]
  /\ UNCHANGED <<pre, cur, k>>

-----------------------------------------------------------------------------
(* The specification *)

\* A batch or a feature from the independent read-back on.
Concludes(c) == OnReadback(c) \/ OnFinalize(c) \/ OnConfirm(c) \/ OnReconcile(c) \/ OnRestore(c)

Learn(c) ==
  /\ \/ OnBind(c) \/ OnBegin(c) \/ OnDiscover(c) \/ OnChunk(c) \/ Concludes(c)
     \/ OnMutate(c) \/ OnSetterFinalize(c) \/ OnCompensate(c)
  /\ Consume(c)

\* What no client touches, the history included: manifests do not change here.
Bridgeless == UNCHANGED <<drawingVars, storeVars, recoveryVars, queue, deferred,
                          running, pipe, boundVars>>

ClientStep(c) ==
  /\ Send(c) \/ (Learn(c) /\ Bridgeless)
  /\ UNCHANGED fate

\* History: the work of c is decided when its manifest disappears.
Decide ==
  fate' = [c \in Client |->
             IF Owned(c) # {} /\ Owned(c)' = {}
               THEN IF Marks(c) \subseteq drawing' THEN "kept" ELSE "undone"
               ELSE fate[c]]

Next ==
  \/ \E c \in Client : ClientStep(c)
  \/ \E c \in Client : ClientDies(c) /\ Bridgeless /\ UNCHANGED fate
  \/ BridgeStep /\ UNCHANGED clientVars /\ Decide

Init == BridgeInit /\ ClientInit

Spec == Init /\ [][Next]_vars

\* Clients keep going and the pipe host's timer fires; nothing is asked of the
\* Idle thread, which a modal dialog may block for ever.
FairSpec ==
  /\ Spec
  /\ \A c \in Client : WF_vars(ClientStep(c))
  /\ WF_vars(PipeTimeout /\ UNCHANGED clientVars /\ Decide)

-----------------------------------------------------------------------------
(* Properties *)

InFlight == {queue[i] : i \in DOMAIN queue} \cup deferred \cup running

\* The state and the history have their types.
AllTypeOK == TypeOK /\ ClientTypeOK

Whole(content) ==
  \A c \in Client : Marks(c) \subseteq content \/ Marks(c) \cap content = {}

\* "durable all-or-nothing": a drawing without a pending checkpoint holds no part
\* of a client's work, whatever was lost, timed out, restored or reloaded before.
NoTornDrawing == manifests = {} => Whole(drawing)

\* logical_batch_atomic: neither does the drawing file, ever.
AllOrNothing == NoTornDrawing /\ Whole(saved)

\* A client that reports ROLLED_BACK_VERIFIED or a refusal leaves nothing of its
\* work in the drawing or in the file, then or later.
RolledBackMeansGone ==
  \A c \in Client : status[c] \in {"ROLLED_BACK_VERIFIED", "REFUSED"} =>
    Marks(c) \cap (drawing \cup saved) = {}

\* Create refuses a second unresolved checkpoint: one manifest per lineage.
OneCheckpoint == \A m, n \in manifests : m = n

\* A client that reports COMMITTED or ROLLED_BACK_VERIFIED leaves no manifest
\* behind that would refuse every later mutation with RECOVERY_PENDING.
DefiniteReleases ==
  \A c \in Client : status[c] \in {"COMMITTED", "ROLLED_BACK_VERIFIED"} => Owned(c) = {}

\* The single-instance pipe and the cancellation of timed-out requests leave at
\* most one live request, that of the connected client.
OneLiveRequest ==
  \A p, q \in InFlight : p.live /\ q.live => p = q /\ pipe = {p.client}

\* After a definite report no request of that client that could still change
\* the drawing or its checkpoint waits anywhere in the bridge.
NoStaleRequest ==
  \A c \in Client : status[c] \in {"COMMITTED", "ROLLED_BACK_VERIFIED", "REFUSED"} =>
    \A req \in InFlight : req.client = c => req.op \in {"state", "list"}

\* While the checkpoint of one client is pending, in one open drawing, the marks
\* of every other client stay as they are: chunks of two batches never mix.
Fence ==
  [][\A m \in manifests \cap manifests' :
       isOpen' /\ runtimeId' = runtimeId =>
         \A d \in Client \ {m.owner} : Marks(d) \cap drawing' = Marks(d) \cap drawing]_vars

\* Every client reports, even when the Idle thread never runs again.
ClientsFinish == \A c \in Client : <>(pc[c] = "done")

\* The whole is an atomic drawing: while a checkpoint is pending the drawing
\* counts as its predecessor.
View == IF manifests = {} THEN drawing ELSE (CHOOSE m \in manifests : TRUE).parent
Abstract == INSTANCE AtomicDrawing WITH
  MarksOf <- Marks, view <- View, disk <- saved,
  kept <- {c \in Client : fate[c] = "kept"}, told <- status
AtomicDrawingSpec == Abstract!AbsSpec

-----------------------------------------------------------------------------
(* The inductive invariant behind AllOrNothing *)

\* The fingerprint a client has chained says how far its work has come.
Chained ==
  \A c \in Client :
    /\ pc[c] \in {"bind", "begin", "mutate"} => cur[c] = pre[c] /\ k[c] = 1
    /\ pc[c] = "chunk" =>
         k[c] \in 1 .. Size[c] /\ cur[c] = pre[c] \cup ({c} \X (1 .. k[c] - 1))
    /\ pc[c] \in {"readback", "finalize", "confirm", "reconcile"} =>
         cur[c] = pre[c] \cup Marks(c)
    /\ pc[c] = "mutate" => c \in Setter

\* A verified receipt extends that fingerprint by the chunk that was asked for.
ReceiptsChain ==
  \A c \in Client :
    /\ reply[c] # NoReply => c \notin pipe
    /\ pc[c] \in {"chunk", "mutate"} /\ reply[c].outcome = "COMMITTED_VERIFIED" =>
         reply[c].fp = cur[c] \cup {<<c, k[c]>>}

\* Every request, cancelled or not, is about its client's predecessor state.
Bound(req) ==
  req.op \notin {"state", "list"} =>
    /\ pc[req.client] # "bind"
    /\ req.parent = pre[req.client]
    /\ req.op \in {"begin", "mutate"} => req.fp = pre[req.client]
    /\ req.op \in {"chunk", "mutate"} => req.chunk \in 1 .. Size[req.client]
    /\ req.op = "finalize" => req.fp = pre[req.client] \cup Marks(req.client)
RequestsBound == \A req \in InFlight : Bound(req)

\* A live request is what the connected client waits for, and the only one.
Current(req) ==
  req.live =>
    /\ pipe = {req.client}
    /\ pc[req.client] # "done" => req = RequestOf(req.client)
LiveIsCurrent == \A req \in InFlight : Current(req)
OneLive ==
  /\ \A i \in DOMAIN queue : queue[i].live =>
       i = Len(queue) /\ \A req \in deferred \cup running : ~req.live
  /\ \A p, q \in deferred : p.live /\ q.live => p = q
  /\ \A p \in deferred, q \in running : ~(p.live /\ q.live)
  /\ \A p, q \in running : p = q

\* The one manifest holds the predecessor its owner is bound to.
ManifestsBound ==
  /\ OneCheckpoint
  /\ \A m \in manifests : pc[m.owner] # "bind" /\ m.parent = pre[m.owner]

\* What a checkpoint restores is whole.
ParentsWhole == \A m \in manifests : Whole(m.parent)

IInv ==
  /\ AllTypeOK
  /\ Chained /\ ReceiptsChain
  /\ RequestsBound /\ LiveIsCurrent /\ OneLive
  /\ ManifestsBound /\ ParentsWhole /\ AllOrNothing

-----------------------------------------------------------------------------
(* The inductive invariants behind the reports: what is still in the bridge *)

\* A client asks once for a checkpoint of its own, and once for an R2 restore.
Creates == {"begin", "mutate"}
Twins(p, q) ==
  /\ p.client = q.client
  /\ {p.op, q.op} \subseteq Creates \/ (p.op = "r2" /\ q.op = "r2")
SentOnce ==
  /\ \A i, j \in DOMAIN queue : Twins(queue[i], queue[j]) => i = j
  /\ \A i \in DOMAIN queue : \A p \in deferred \cup running : ~Twins(queue[i], p)
  /\ \A p, q \in deferred : Twins(p, q) => p = q
  /\ \A p \in deferred, q \in running : ~Twins(p, q)

\* Only an R2 restore is deferred, and nothing is asked for after it.
Unsent(c) == reply[c] = NoReply /\ c \notin pipe
Passed(req) ==
  /\ req.op \in Creates =>
       pc[req.client] # "bind" /\ (pc[req.client] \in Creates => ~Unsent(req.client))
  /\ req.op = "r2" =>
       pc[req.client] = "done" \/ (pc[req.client] = "restore" /\ ~Unsent(req.client))
RestoreIsLast ==
  /\ \A req \in InFlight : Passed(req)
  /\ \A req \in deferred : req.op = "r2"
  /\ \A p, q \in InFlight : q.op = "r2" /\ p.live /\ p.client = q.client => p.op = "r2"

\* What the Idle thread has taken, it took last of all that the client has sent:
\* an answer of the bridge is proof that nothing of the client is left behind.
Drained ==
  \A p \in deferred \cup running : p.live =>
    /\ \A i \in DOMAIN queue : queue[i].client # p.client
    /\ \A q \in deferred \cup running : q.client = p.client => q = p
    /\ p \in deferred => p \notin running
Reached(c) == reply[c].outcome \notin {"NONE", "ERROR"}
Answered == \A c \in Client : Reached(c) => \A req \in InFlight : req.client # c

Unreported == \A c \in Client : pc[c] # "done" => status[c] = "none"

SettledInv ==
  Unreported /\ SentOnce /\ RestoreIsLast /\ Drained /\ Answered /\ NoStaleRequest

\* What an answer that a client takes for a definite one says of its checkpoint.
OnlyReads(c) == \A req \in InFlight : req.client = c => req.op \in {"state", "list"}
UndoneReply(c) ==
  pc[c] \in {"mutate", "compensate", "restore"} /\ Is(c, "ROLLED_BACK_VERIFIED")
ReleaseInv ==
  /\ \A c \in Client :
       /\ (pc[c] = "finalize" /\ Is(c, "FINALIZED")) \/ UndoneReply(c) => Owned(c) = {}
       /\ pc[c] = "confirm" /\ Is(c, "ROWS") => Owned(c) \subseteq reply[c].rows
       /\ pc[c] = "reconcile" => Owned(c) = {} /\ OnlyReads(c)
  /\ DefiniteReleases

\* A client whose request for a checkpoint has not been executed has none yet.
Fresh(c) == Owned(c) = {} /\ fate[c] = "open"
FreshInv ==
  /\ \A c \in Client :
       /\ pc[c] = "bind" \/ (pc[c] \in Creates /\ Unsent(c)) => Fresh(c)
       /\ Owned(c) # {} => fate[c] = "open"
  /\ \A req \in InFlight : req.op \in Creates => Fresh(req.client)

\* Work that was not kept is nowhere but under the pending checkpoint.
Gone(c) == fate[c] # "kept" /\ Marks(c) \cap drawing = {}
GoneInv ==
  /\ \A c \in Client : fate[c] # "kept" =>
       /\ Marks(c) \cap saved = {}
       /\ \A m \in manifests : Marks(c) \cap m.parent = {}
       /\ Owned(c) = {} => Marks(c) \cap drawing = {}
  /\ \A c \in Client :
       /\ UndoneReply(c) \/ (pc[c] = "mutate" /\ Is(c, "REFUSED")) => Gone(c)
       /\ status[c] \in {"ROLLED_BACK_VERIFIED", "REFUSED"} => Gone(c)

\* A client that has been told of its success, or has read its own work back after
\* its checkpoint was gone, is right.
KeptInv ==
  \A c \in Client :
    \/ status[c] = "COMMITTED"
    \/ pc[c] = "finalize" /\ Is(c, "FINALIZED")
    \/ pc[c] = "reconcile" /\ ReadBack(c)
    => fate[c] = "kept"

ReportInv == SettledInv /\ ReleaseInv /\ FreshInv /\ GoneInv /\ KeptInv

=============================================================================
