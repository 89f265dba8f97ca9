# Verification of CDT-AutoCAD

CDT-AutoCAD lets a language-model client drive AutoCAD through MCP tools.  This
directory holds TLA+ models of the parts of it whose correctness depends on
ordering, failure and recovery, the TLC runs that check them on small instances,
and TLAPS proofs of what matters most for instances of any size.

Paths below are relative to the repository: `native/` is
`native/CDT.AutoCAD.Bridge/`, the Python files are in `src/cdt_autocad/`.

## 1. The system

Two processes change a drawing together: a Python worker and AutoCAD with a
managed bridge inside it.  Around them stand a supervisor that replaces the
worker without dropping the listener, and, for the split deployment, a
workstation agent that a control host reaches over HTTP.

```
MCP client --HTTP--> SupervisorProxyApp --lease--> worker g1, g2, ... (server.py)
                     ReloadSupervisor                 |  backends: COM | ezdxf | remote
                     SourceWatcher                    |  native_bridge: public runtime,
                                                      |  logical batch, feature stream
                                                named pipe, one connection at a time
                                                      v
                     AutoCAD: PipeHost -> queue -> Idle dispatcher -> mutation service
                              checkpoint store (files), document registry, drawing
```

| component | state | operations | hard because | what makes it correct |
|---|---|---|---|---|
| pipe host, Idle dispatcher (`PipeHost.cs`, `BridgeDispatcher.cs`, `PendingRequest.cs`) | the connection, a bounded queue, a deferred queue, a cancel flag per request | connect, enqueue, time out, drain, defer, complete | a timed-out request stays queued or runs on; the Idle thread may be blocked for ever | at most one live request; an abandoned one has no late effect |
| mutation service (`NativeMutationService.cs`) | R1 contexts and R2 states in memory | begin, chunk, metadata set and single mutation, finalize, list, R1, two-phase R2 | commits before it knows whether anybody listens; R2 spans Idle ticks and closes the document | work is whole or absent; nobody touches another's batch |
| checkpoint store (`NativeCheckpointStore.cs`) | artifact and manifest files | create, require, list, finalize | two files, no transaction; survives crashes | one unresolved checkpoint per lineage |
| document registry (`DocumentRegistry.cs`) | runtime ids | resolve, refresh | R2 and restarts change the id | requests with stale ids are refused |
| logical batch executor, feature stream (`native_bridge/logical_batch.py`, `feature_stream.py`) | chained fingerprint, binding, journal | bind, begin, chunks, read-back, finalize, reconcile, restore | every answer may be lost, every journal write may fail | the status it reports is true for good |
| native public runtime (`native_bridge/public_runtime.py`) | none between calls | metadata set with R1 then R2 | as above, and runtime ids are rebound | as above |
| hot reload supervisor (`hot_reload.py`) | current and candidate generation, gate, lease counts, lock | bootstrap, reload, failed reload, shutdown, lease | drains, probes and stops are awaits that fail or time out; a worker goes on with calls that were given up | authority changes hands only when nobody waits for its holder; the gate leads to a live worker |
| supervisor process (`supervisor.py`) | worker processes, in-flight counter, watcher task | start, stop, probe, admit, proxy, watch, serve | abandoned calls go on in the worker; exit in mid-reload | admission bound; no request is cut off |
| mutation coordinator (`mutation_coordinator.py`) | writer lock, quarantine | writer, quarantine | shared by two backends | no mutation after uncertainty |
| COM backend, local runtime (`backends/com_backend.py`, `local_runtime.py`) | STA thread and its queue, cached application, document scope, transaction depth, latches | tools, transactions, commands | calls outlive their timeouts; AutoCAD dies and returns; the user switches drawings | uncertainty blocks mutation; the depth is the open undo marks; edits stay in the drawing of their transaction |
| remote runtime, agent (`backends/remote_runtime.py`, `runtime_transport.py`, `workstation_agent.py`, `runtime_binding.py`) | generation pin, binding file with its marker, dispatch lock, threads of calls | call, health, save, load | two hosts, lost requests and answers, late threads, restarts of either side | no mutation while the outcome of another is unknown, or against another generation |
| COM drawing methods (`backends/com_backend.py`) | none between calls but the quarantine latch and the set of created viewports | some fifty methods: create, modify, solids, blocks, xrefs, viewports, styles, export | each is a dozen COM calls, any of which may fail or lie, while the user works in the same AutoCAD | an error leaves nothing behind or quarantines, but for named gaps; an ok that was compared is real |
| evidence files (`artifact_seal`, `solid_export` in `com_backend.py`) | a directory of sealed copies with manifests, a .sat with its manifest | seal, export | a job that outlives its timeout, saves while the file is copied, kills between two files | a manifest describes the file beside it |
| ezdxf backend (`backends/ezdxf_backend.py`) | document and path, undo, redo and transaction snapshots, quarantine | tools, transactions, undo, open, save, export | worker threads outlive their calls; a call may raise half-way | one mutator; the history is a tape of this drawing; "saved" is true; references resolve |
| contained I/O (`contained_io.py`) | a file under a fixed directory | atomic write, bound read | directories exchanged under the writer, failing flushes, kills and power failures, POSIX and Windows | never torn, never lost, acknowledged is durable |
| semantic step executor (`native_bridge/semantic_executor.py`) | chain of verified steps, block, journal | execute a step: preflight, dispatch, read back, finalize, or R1, or R2 | lost and late answers, user edits in between, journal faults, death | the chain holds only steps that did what was planned |
| semantic model (`semantic/`) | none | fingerprint, delta, validation of an action's delta | rules that interact | an accepted delta is the planned one |
| protocol and extraction (`BridgeProtocol.cs`, `protocol.py`, `Native*Extractor.cs`, `EntityPidStore.cs`) | the drawing database | parse, extract | pure | canonical form |
| server, config, identity, security, provenance, diagnostics | none | tool table, checks | glue | - |

## 2. Modules

| module | models | instance of |
|---|---|---|
| `NativeBridge` | AutoCAD's side of the pipe: drawing, file, checkpoints, queues, the handlers, user edits and saves, crashes | - |
| `LogicalBatch` | its clients, composed with it; the properties; the inductive invariant | extends `NativeBridge` |
| `AtomicDrawing` | the promise: one client's work is one step or none, and reports are true | implemented by `LogicalBatch` |
| `MCLogicalBatch` | instances for TLC | extends `LogicalBatch` |
| `LogicalBatchProofs` | TLAPS proofs | extends `LogicalBatch` |
| `HotReload` | supervisor, launcher, probes, watcher, exit | - |
| `SupervisorProxy` | the public requests, composed with it; the properties; the inductive invariant | extends `HotReload` |
| `SingleAuthority` | the promise: authority changes hands only when nobody waits for an answer of its holder | implemented by `SupervisorProxy` |
| `MCSupervisor` | instances for TLC | extends `SupervisorProxy` |
| `SupervisorProofs` | TLAPS proofs | extends `SupervisorProxy` |
| `MutationCoordinator` | the writer lock with its line of waiters, the quarantine | - |
| `ComBackend` | the COM lane and the native lane of one worker, composed with it: event loop, STA thread, AutoCAD; the properties; the inductive invariant | extends `MutationCoordinator` |
| `FailStopWriter` | the promise: one mutation at a time, none after a quarantine | implemented by `ComBackend` |
| `MCComBackend` | instances for TLC | extends `ComBackend` |
| `ComBackendProofs` | TLAPS proofs | extends `ComBackend` |
| `SplitHost` | provider, binding file, connection and agent of the split deployment; the properties; the inductive invariant | - |
| `MCSplitHost` | instances for TLC | extends `SplitHost` |
| `SplitHostProofs` | TLAPS proofs | extends `SplitHost` |
| `EzdxfDrawing` | the drawing of the headless backend and what each operation makes of it | - |
| `UndoTape` | the promise: an undo history is a tape with a cursor | implemented by `EzdxfBackend` |
| `EzdxfBackend` | calls, lock, worker threads, history, files; the properties; the inductive invariants | extends `EzdxfDrawing` |
| `MCEzdxf` | four scenarios for TLC | extends `EzdxfBackend` |
| `EzdxfBackendProofs` | TLAPS proofs | extends `EzdxfBackend` |
| `ContainedIO` | writers and readers of one file in a directory that may be exchanged; the properties; the inductive invariant | - |
| `MCContainedIO` | instances for TLC | extends `ContainedIO` |
| `SemanticDelta` | fingerprint, delta and the rules for one action's delta | - |
| `SemanticExecutor` | the step executor, the bridge behind it, user, losses, late calls, journal, death; the properties; the inductive invariant | extends `SemanticDelta` |
| `SemanticProofs` | TLAPS proofs | extends `SemanticExecutor` |
| `MCSemantic` | five scenarios for TLC | extends `SemanticExecutor` |
| `ComMethods` | the drawing methods of the COM backend as recipes of COM calls; the properties; the inductive invariant | - |
| `MCComMethods` | instances for TLC | extends `ComMethods` |
| `ComMethodsProofs` | TLAPS proofs | extends `ComMethods` |
| `ArtifactSeal` | evidence files of the COM backend; the properties; the inductive invariant | - |
| `MCArtifactSeal` | instances for TLC | extends `ArtifactSeal` |
| `FileProofs` | TLAPS proofs of both modules of files | extends `ContainedIO`, `ArtifactSeal` |

`ComBackend` and `ComMethods` look at one backend from two sides: the first follows
calls, deadlines and the lock and takes a drawing operation as one kind of step; the
second follows one call at a time through its COM calls.  `ArtifactSeal` has the same
queue as `ComBackend`, with the file work that goes on behind it.

### 2.1 NativeBridge and LogicalBatch

State.  `drawing` is the open drawing, a set of marks: `<<c, i>>` for chunk i of
client c and `Foreign` for whatever the user draws.  A fingerprint is the content
it is computed from.  `saved` is the .dwg, `isOpen` and `runtimeId` the registry's
view, `manifests` and `artifact` the two files of a checkpoint (the id of a
checkpoint is its owner), `contexts` the R1 contexts, `r2` the entries of
`_r2RecoveryStates`, `queue`, `deferred` and `running` the dispatcher, `pipe` the
client connected to the single-instance pipe and `reply` what it reads.

Actions.  `Connect`, `ConnectFail` and `PipeTimeout` are the pipe host;
`DrainQueued` and `DrainDeferred` take a request onto the Idle thread and
`Handle` runs one handler to its end: one action per operation and outcome, with
every early return as a disjunct.  `ResolveR2` is two requests to the dispatcher:
`BeginR2` defers, `ContinueR2*` closes, copies, reopens, verifies.  A crash may
fall before any handler or half-way through the file operations
(`AboutToCreate`, `AboutToFinalize`, `HalfWrittenArtifacts`).  Each `On*` action
of `LogicalBatch` is what a client does with one answer, lost answers and journal
failures included, up to the next request or its report.

Abstractions.  One drawing lineage; a transaction of AutoCAD that is aborted
restores the drawing exactly; an undecided chunk is one mark, whatever it draws;
`mutate` stands for MetadataSet, Execute and the owning ExecuteBatch, which share
begin, commit and compensation; `metadata_get` is merged with the read-back; the
deferred queue is a set and the per-tick budget is not modelled (both allow more
orders than the code); an edit in the middle of a handler is the same as one right
after it.  Left out: the user closing the document, a torn `File.Copy`, another
document becoming active during R2, several documents.

### 2.2 HotReload and SupervisorProxy

State.  `step` is the await at which the owner of `_reload_lock` stands, and
replaces `_phase`; `current`, `accepting`, `next` are the supervisor's fields;
`lease[r]` stands for `_active_counts`; `proc` is what `poll()` would show, with
"doomed" for a process that was sent a kill and outlived the wait; `raised` remembers
that a stop has raised.  `inbox[g]` and `work[g]` are the requests that were sent to a
worker and those it has begun, which no field of the supervisor knows: a request in the
inbox may be in the socket, on the event loop or in the line of writers.

Actions.  Between two awaits there is one action; each way a probe can end is a
disjunct (`ReloadFails` stands for every exception on the way to `_fail_reload`).
A request that has timed out has given its lease back and stays in `inbox` or `work`;
`Execute` and `AbandonedEnds` are the worker, for which nobody waits any more.
The activation probe of the old generation (`OldSafe`) sees little of this.  On the COM
backend it calls `document_info`, which waits behind a call on the STA thread: for
requests in `Sta` the probe answers only when they have ended.  It does not wait for a
native mutation, which has a thread of its own, nor for one in the line of writers; on
ezdxf it asks only `system_status`; and a call that merely runs is not among what
`_mutation_state_uncertain` looks at.  So the other requests may still be held when the
candidate is promoted, and are until the old process is stopped.  `ServeEnds` is the `finally` of `_serve`; when
it interrupts a reload (`MayExit`), CancelledError passes `except Exception` and
`_fail_reload` does not run.  Health reports are nondeterministic;
builds, authentication and headers are left out.

### 2.3 MutationCoordinator and ComBackend

State.  `quarantined`, `holder` and `line` are the coordinator: its flag, its
`asyncio.Lock` and the coroutines that wait for it.  `pc`, `op` and `told` are the
tool calls, `job` and `sta` their functions in the one-thread executor (native
mutations run in a thread of their own), `attached`, `scope`, `depth` and the two
latches the fields of `ComBackend`; `cad`, `active` and `marks` are AutoCAD: how often
it was started, its active drawing, the open undo marks of each drawing.

Actions.  `Calling` is a call up to its first await: a read is dispatched, a
mutation is refused, enters or waits (`Admissible` is the check of the depth that
`transaction_commit`, `transaction_rollback` and `document_new` make before they wait).
`StaStep` is the STA thread: `_app` and `_doc` with each way they fail, then the
operation.  `LoopStep` is the event loop when a lock is handed on, a function has
ended, a deadline is reached or a request is cancelled.

Abstractions.  The drawing operations are one kind of call, `edit`, that changes the
bound drawing, fails before it does, or is refuted by its read-back; the UNDO that
rollback queues in AutoCAD is asynchronous and its effect is not modelled;
`document_open` is like `document_new`; shutdown is left out, exports are in `ArtifactSeal`.

### 2.4 SplitHost

State.  `kind`, `pc`, `told`, `heard`, `pinned`, `holder` and `quarantined` are the provider:
its calls, `_expected_generation`, the writer and the quarantine of its coordinator.
`bindGeneration` and `bindPending` are the binding file, the only part of the
provider that survives a restart.  `net` and `answer` are the one exchange of a call.
`agent`, `dispatching`, `thread` and `comQuarantined` are the agent: its generation, the
dispatch lock, the threads of `_run_bounded`, and the quarantine of the ComBackend in it.

Actions.  `Ask` and `Pin` are the two halves of `_ensure_generation`; `Mark`, `SendMutation`
and the actions that close a call are `_dispatch_mutation` and `_call` cut at their
awaits, which is where the provider can die.  `Clean` are the error codes that
`_dispatch_mutation` takes as proof that nothing was changed.  `ConnectionLost` may come
before the request has arrived or after the answer was sent: the request stays in
the net.  A save of the file may fail before the rename, or after it in the fsync of
the directory, so the new contents may be on disk although it failed.  `Deadline`
leaves the thread running (`late`).

Abstractions.  A call that waits for the writer lock is one that has not entered yet;
the operator's reconciliation, authentication, sizes of messages and the
configuration without a binding file are left out.

### 2.5 EzdxfBackend and EzdxfDrawing

State.  A drawing keeps what operations look up or require of each other: layers and
their switches, entities with layer, space and block, blocks with what they contain,
layouts, header values.  `doc`, `docPath`, `dirty`, `undo`, `redo`, `txs`, `quarantined`,
`uncertain` and `lock` are the backend's fields; `work`, `seen`, `held` and `raised` are the
worker thread of each call: its step, the generation of the document it started with,
the drawing it will bind, and its outcome.  `half` and `lateBegin` remember what a call that raised
or was given up has done.

Actions.  `Enter`, `Return`, `Timeout`, `CancelWaiting` and `CancelInside` are the coroutine
of a call; `Worker` is its thread, which goes on after the call was given up.  Each
drawing operation is an operator of `EzdxfDrawing` from a drawing to its possible
outcomes, raised ones with what they leave behind included.

Abstractions.  Geometry is one bit.  The some forty methods that only differ in the
entity they draw are one operation per way of failing.  The library is modelled from how
the code uses it.  A snapshot is the drawing, with a mark of the document it was taken of.

### 2.6 ContainedIO

State.  An inode is the version of one writer or the original file.  `entry` and `durable`
say what a directory's entry refers to, now and after a power failure; `whole` and
`synced` which versions are complete and flushed; `parent` which directory is at the path;
`anchor` and `bound` what a process holds open.

Actions are the system calls of `write_contained_bytes_atomic` (and its text and JSON
variants) and of the bound read, with the identity checks between them and the
cleanup of each failure.  `windows` chooses between the two implementations: without a
directory descriptor and its flush on Windows.  Contents, modes and the walk of a path
are left out.

### 2.7 SemanticDelta and SemanticExecutor

`SemanticDelta` is pure: a snapshot maps identities to entities, `Fp` is the normal form
of which the fingerprint is a hash, `ComputeSemanticDelta` and `ValidateActionDelta` are
the rules of `delta.py`.  A line may be turned round without another fingerprint, circles keep their
normal, polylines must be simple.

`SemanticExecutor` has `pc`, `act`, `before`, `after`, `receipt`, `runtime`, `entries` and `blocked`
for the executor, `journal` for its file, `cad` for AutoCAD with the checkpoint, and `late` for calls
that were given up and may still run.  Each action is one call and what the executor
does with its outcome (`Dispatch`, `ReadBack`, `Finalize`, the two recoveries with their
read-backs).  Commits may be kept from the drawing or joined by another change
(`Persisted`), since reactors of AutoCAD can do both.  Hashing and rounding are exact.

### 2.8 ComMethods

A drawing is a set of cells: the objects a method makes and the settings it changes,
each with who has put it there.  A recipe is the sequence of steps of one method: bind a
document, use, make, set, read back and compare, delete, borrow and give back a setting.
What a failing step leads to is part of the step: raise, through the except block, with or
without a quarantine.  Each COM method is a recipe; methods whose recipes are equal share
one.  A step that is only for an optional argument which was not given is skipped
(`Skip`), as is the deletion of what was not made (`CleanSkip`).

Faults.  Every change may do nothing and say nothing, and every failing change may have
been made or not (`ChangeStep`, `BackStep`, `CleanBack`, `RestoreStep`, `CommandStep`),
wherever it stands: whether the code looks again is a step of the recipe (`Check`) and
not a property of the change.  `Delete` may do nothing, or raise and have deleted
(`ReadsBack`).  What an except block reads before it deletes may fail: with a quarantine
for a handle, with an exception that nothing there catches for a collection
(`result = "escapes"` in `CleanDrop`; `escaped`).  The client is told "error" of all of
them.  One fault is left out: a call that fails to add an object has added none
(`MakeStep`, `AttachStep`, `RegionsStep`), since the method has no handle of it to clean
up with; and the properties an object gets while it is made are not cells.  After any step the user may
activate another drawing or change a setting.  `pending` holds, per drawing, the style
commands that AutoCAD has not run yet, each by the call that has queued it.

### 2.9 ArtifactSeal

`source` is the .dwg with its modification time, `sealed` and `manifests` the destination,
`sat` and `satManifest` the export.  A call is a job of the STA thread (`RunJob`) and a file part on the event loop
(`HashSource` to `WriteManifest`, `HashExport`, `WriteExportManifest`), which is not
interrupted by other calls but by the user's saves, by the next job, and by a kill.

## 3. Runs

All runs use `CHECK_DEADLOCK FALSE`: when every client has reported, every call was
answered, the budget of calls is used up or the server has exited, the system stops
and should.

| run | instance | shows |
|---|---|---|
| `crash` | a batch of two chunks, a setter, queue of 2, one AutoCAD crash anywhere, one executor killed | all or nothing on screen and on disk; implements `AtomicDrawing`; no live request after a definite report; nobody touches another's work |
| `edits` | a batch, a setter, one user edit, queue of 1, an Idle thread that need not run | what is reported rolled back is gone; a definite report leaves no checkpoint; every client ends |
| `reload` | 3 requests, one of them on the STA thread, 3 generations, 1 death, exits, stops that raise, fair supervisor | until a stop raises: live worker behind the gate, no request cut off; a closed gate opens again; implements `SingleAuthority` |
| `overlap` (violated) | 2 requests off the STA thread, 2 generations, no failures | two generations execute requests at the same time (section 6) |
| `lanes` | three concurrent calls of both lanes, timeouts, cancellations, lost native answers, COM calls that hang for ever | one writer, none after a quarantine (implements `FailStopWriter`); callers are told the truth; every call is answered |
| `one_client` | one client that waits for each answer, nested transactions, two drawings, one death of AutoCAD | the depth is the open marks; edits stay in the drawing of their transaction |
| `split_restarts` | three calls of all kinds, two restarts of the provider and one of the agent, failing saves | one unresolved mutation at most, across restarts; no two mutations inside AutoCAD |
| `ezdxf` | four scenarios: long sequences on layers and blocks; every operation once; two impatient callers; late exports | one mutator; the history is an `UndoTape` of this drawing within its limit; "saved" is the file; references resolve; a retryable timeout is harmless, but for a `transaction_begin` and a PDF export that come late |
| `contained_io` | two writers, a reader, two exchanges of the directory, one failing flush, kills, a power failure, POSIX and Windows | never torn, never lost while undisturbed, acknowledged is durable, reads are current |
| `semantic` | five scenarios of one or two steps on lines, circles and polylines, with edits, lost answers, journal faults and a death | the chain tells the truth; the state is known while steps go on; the journal has the chain; the way back is kept |
| `com_methods` | each recipe, inside and outside of a transaction, two switches of the drawing, one edit of a setting; viewport and read sequences | an error leaves nothing behind but what `Unguarded` names, or quarantines; an ok of a method that compares is real; edits stay in the transaction's drawing; no false alarm |
| `seal` | two seals, two exports, two saves, one kill, two contents | manifests are true of their files |

Bounds.  Two clients are enough for every pairwise race on the one checkpoint
and the one pipe; two chunks give a first, a last and a point in between; a queue
of 2 fills up with cancelled requests, one of 1 at once; one crash or edit meets
every state the others leave.  Three requests on three generations give a request
that was abandoned, one that waits and one that arrives, across two
consecutive reloads: the second meets what the first has left.  Three calls of the lanes are one that executes, one that waits
and one that arrives after the first is given up.  `one_client` has no reads, because
a read that hangs in the queue can hide that AutoCAD is gone (section 6).  Three remote
calls and two restarts give a mutation whose outcome is lost, the provider that
inherits its marker, and one that inherits it again.  The eight calls of the first
`ezdxf` scenario fill an undo depth of 2 and run through it both ways, with two entities and
one block, which an INSERT needs; two impatient callers are one abandoned worker
and one that comes after it.  Two writers with two exchanges give a directory that goes
and comes back under a writer.  Two steps give a chain with a link; three identities
are one planned, one created and one that somebody else touches.  Two switches take
the user away and back during one method.  `MaxEdits`, `MaxCrashes`,
`MaxClientDeaths`, `MaxDeaths`, `MaxGenerations`, `MaxRestarts`, `MaxProviders`, `MaxAgents`,
`MaxHandle`, `MaxSwaps`, `MaxFlushFailures`, `MaxSwitches`, `MaxSaves`, `MaxKills` and the
budgets of the scenarios are the only bounds on counters, and they guard the events
they count.

What is proved for every instance and follows from nothing else that is left to check
(`AllTypeOK`, `OneCheckpoint`, `OneLiveRequest`, `FenceHolds`, `NoLeak`, `FenceIsDurable` and the
inductive invariants) is not run again: a line `INVARIANT IInv` in the configuration of its
module (`DepthInv` in `OneClient.cfg`, `EvidenceInv` in `seal.cfg`) checks it on the instance.

Fairness.  `edits` assumes that a client continues when it has an answer, a
failure or no pipe to connect to, and that the 8 s timer of the pipe host fires
(`PipeTimeout`); nothing is assumed of the Idle thread, which AutoCAD may never
run.  `reload` assumes weak fairness of what the supervisor does once a reload
has begun: every await in it has a timeout (probe, drain and stop).  Requests may
hold their leases for ever.  `lanes` assumes weak fairness of the event loop, of
its timers (`asyncio.wait_for`) and of the pipe's deadline, per call; nothing is assumed
of the STA thread, which hangs as long as AutoCAD does.  The other runs assume no fairness.

## 4. Proofs

`LogicalBatchProofs` proves for any clients, chunk counts, queue sizes and numbers
of crashes and edits:

- `TypeCorrectness`, `SingleCheckpoint`, `SingleLiveRequest`, `Fencing`;
- `NothingIsLate` (`[]NoStaleRequest`) and `CheckpointsAreReleased` (`[]DefiniteReleases`);
- when nobody saves while a checkpoint is pending (`MidBatchSave = FALSE`; section 6 says what
  happens otherwise), `InductiveInvariant` and from it `Atomicity` (`[]AllOrNothing`), and
  `ReportsInvariant` and from it `UndoneStaysUndone` (`[]RolledBackMeansGone`) and
  `ImplementsAtomicDrawing`, the refinement of `AtomicDrawing`.

The argument is the invariant `IInv`.  `AllOrNothing` alone is not inductive:
that finalize commits a whole batch depends on the fingerprint the client sends
(`Chained`, `ReceiptsChain`), on requests still being those of their client's
present state (`RequestsBound`, `LiveIsCurrent`, `OneLive`: a cancelled request may
run, but not a second live one) and on what the one manifest restores being whole
(`ManifestsBound`, `ParentsWhole`).  The types and the protocol part are proved
first (`StepTypes`, `StepProtocol`) since nothing in them depends on the drawing.

What a report is worth rests on a second invariant, `ReportInv`.  `SettledInv` is about
requests: a client asks once for a checkpoint and once for an R2 restore, only the
restore is deferred and nothing follows it, and the Idle thread takes requests in order;
so an answer of the bridge proves that nothing of its client is left behind (`Drained`,
`Answered`), and every definite report follows such an answer.  `ReleaseInv` says which
answers prove the checkpoint gone.  `FreshInv`: a checkpoint is created once, so the fate
of the work is decided once.  `GoneInv`: work that was not kept is in no file, under no
checkpoint of another, and in the drawing only while its own checkpoint is pending.
`KeptInv`: a client that was told of its finalize, or found its checkpoint gone and read its
own work back, was indeed kept.  The refinement then maps one handler, the finalize, to
`Apply`, the reports to `Tell` and what the user does to `Edit`, `SaveView` and `Reload`;
every other step stutters.

`SupervisorProofs` proves for any finite set of requests, on and off the STA thread, any
number of generations and deaths, and stops that may raise:

- `Invariance`, `TypeCorrectness`, `Fenced` (`[]FenceHolds`);
- `FormerFinishes` (`[]FormerOnlyFinishes`): besides the authoritative generation only the
  one it replaced holds requests, all of them given up, and, unless a stop has raised,
  only from its replacement to its stop;
- `OpenGate` and `NobodyIsCut`, which speak of a server in which no stop has raised;
- `NothingLeaks`, when stops succeed (`StopMayFail = FALSE`);
- `ImplementsAuthority`, the refinement of `SingleAuthority`.

The invariant relates what the supervisor cannot see to what it can: only the
authoritative worker and the one it replaced hold requests, a lease on a running worker is
on the authoritative one (`AuthorityInv`), at each step of a reload (`ReloadInv`).  That a
third generation never joins in rests on the order of a reload: the candidate has held
nothing before its promotion, and the replaced worker is dead, or the watcher has ended,
before the next one begins.  What more holds until a stop raises is `StopsSucceedInv`.  `CountInv` is needed for
types: the counter stays natural because it counts the leases.

`ComBackendProofs` proves for any calls, drawings and restarts: `TypeCorrectness`,
`Truthful` and `ImplementsFailStop`, the refinement of `FailStopWriter`.  The invariant says
that a mutation which is with AutoCAD holds the lock, or its caller has given up on
it and the quarantine has taken the place of the lock (`WritingInv`).
For one client, no reads and an UNDO command that does not fail once queued (`OneClient`, the
setting of the run `one_client`) it also proves `DepthIsRight` and `EditsAreInTransaction`, from
the invariant `DepthInv`: the thread works for the one call in progress or, under
quarantine, for the last one given up (`OneAtATime`); a begin that runs has counted a
mark it has not opened, and a commit that has closed its mark still has it counted
(`OpenMarks`); only the depth of a backend that was given up may be wrong (`InUse`).
Section 6 says what happens without each of the three assumptions.

`SplitHostProofs` proves for any calls and restarts: `NeverRetriedBlindly`,
`DurableFence` and `OneWriterInside`.  The invariant: an unresolved mutation is marked on
disk and holds the lock or has quarantined the writer (`FenceInv`); a holder is
never quarantined, so whoever sends finds nothing unresolved (`HolderInv`); the save
that pins the generation happens before anything was sent (`PinInv`); and a thread
inside the adapter belongs to a call without a definite answer (`AnswerInv`), which
carries the fence of the provider over to the agent.

`FileProofs` proves for any writers, readers, directories, exchanges and failed
flushes: `WritesAreAtomic`, `FileIsKept`, `Durable` and `ReadsAreCurrent`, on POSIX and on
Windows.  `NeverTorn` alone is not inductive: a power failure may bring back any version the
directory has durably referred to.  The invariant adds that a version which is linked, durably
linked, or about to be renamed is complete and flushed (`LinkedAreFlushed`), so the flush before
the rename is what the proof rests on.  That the file is never lost rests on `CalmInv`: while
nobody exchanges the directory and no flush of it fails, every process holds the one at the path, the entry
and its durable copy refer to something, and a writer that is about to remove its file is not
linked: it has not renamed yet, since all the ways to a cleanup after the rename begin with a failed
flush or an exchange.  `ReplacedInv` follows a version from the rename to the answer: the
original is not linked any more, and from the flush on not durably either.

`SemanticProofs` proves for every pair of snapshots, every action and all
identities, coordinates and layers: if `ValidateActionDelta` accepts, the step did what was
planned and changed nothing else (`AcceptedIsPerformed`), and no two entities lie over each
other that did not before (`AcceptedDrawsNothingTwice`).  Each verb is a lemma; the
second theorem follows from the check for duplicates, applied to the one entity that
can have changed.  For the executor it proves, for any drawings, plans of one target, user edits,
losses, late calls, journal faults and deaths: `ChainIsTrue`, `StateIsKnown`,
`ChainIsOnDisk` and `WayBackStays`.

The chain is true because an entry is only made of an accepted delta, whose theorem is the one
above, and of a journal entry that has been written (`ChainInv`).  That the executor knows the
drawing is the harder one, since a call that was given up may still run.  `LateInv`: such a
call either has blocked the executor, or is an R1, after which R2 has given the
drawing a new runtime id, and the bridge refuses a call that names the old one.  For the way back,
the invariant has to speak of steps and not of calls: a finalize that runs late must
belong to a step on record, even when the checkpoint it meets was made by a call that
ran late itself.  Whoever speaks of a step, a checkpoint, a call or the journal, agrees on the
state it was planned for (`Claims`, `StepsInv`), so the owner's number is enough for the
bridge to tell one step from another.

`FileProofs` also proves, for any calls, contents, saves and kills: `SealedIsVouchedFor`
and `ExportIsDescribed`.  The invariant: one file part runs at a time and is that of
the first in `loop` (`LoopInv`, `JobsInv`); whoever is about to write a manifest has just compared
the sealed bytes with its hash, and nobody copies over a name that has a manifest
(`SealInv`); exports go on in the order of their jobs, so the last to write the .sat is
the last to describe it (`ExportInv`).

`EzdxfBackendProofs` proves for any calls, requests, drawings, undo depths, timeouts and
cancellations:

- `SingleMutator` (`[]OneMutator`), `HistoryIsHonest`, `CleanIsSaved`, `OwnSnapshots` and
  `LateIsHarmless`;
- `ImplementsTape`, the refinement of `UndoTape`;
- when no two spellings stand for one layer (`ExactNames`, the setting of the run; section 6 says
  what happens otherwise), `ReferencesStay`, which includes the types.

It goes in three layers.  The first (`IInv`) has no drawing in it: who is inside holds the
lock; it was let in without a quarantine, or to bind another drawing once no worker was
uncertain; and an abandoned worker that may change the drawing is the uncertain one, under
quarantine.  A worker moves on by itself and leaves lock and quarantine alone (`WorkerMoves`).
From it follows what the rest needs: while a call that may change the drawing
is inside, no other worker is at such work (`InsideAlone`), and nothing changes the drawing
between its worker's end and its own (`InsideUndisturbed`).

The second layer (`HistoryInv`) is about the history, and holds every drawing operation at arm's
length: of each it only uses that it keeps a drawing well typed and with its binding.  None of
the three properties is inductive.  A save marks the drawing clean on the event loop, after a
worker has written the file, so `DoneInv` says that what a worker has done is still so when its
call goes on.  A worker that starts to edit must still have the drawing its call was let in with
(`SeenInv`).  And a transaction_begin takes its snapshot in one step and pushes it in another; in between
another drawing may be bound only if it was abandoned, which is why the property has to
exempt it (`BindingInv`).  For the refinement, `undo \o Reverse(redo)` is shown not to change when undo or
redo move a drawing from one end to the other, and to lose its oldest drawing at the
limit.

The third layer (`SoundInv`) is that every drawing there is, in memory, in a snapshot, in the hands
of a worker or on disk, has its references: one lemma per operation, of which `Purge` is the one
that needs `ExactNames`.

`ComMethodsProofs` proves for any drawings, sequences of calls, switches and edits:
`FailureLeavesNothing` (`[]NothingLeftBehind`), `SuccessIsTrue` (`[]SuccessIsReal`),
`TransactionIsKept` and `AlarmIsReal`.  It never follows a method through its calls.  First,
each of the thirty-six recipes is shown to be `Sound` with its except block and its purpose:
drawings are got before anything is done to them (`BindsFirst`, `InPlace`); an exception
that nothing catches comes before anything is touched, or the method is one that reports
(`Early`); what has been touched when a handler is entered has its entry in it (`Covered`); a
predecessor is read before what it is needed for is changed (`Remembered`, `Restored`); and what a method
is not for is undone, what it is for is made or, unless the method is `Unread`, compared (`Undone`,
`Made`, `Seen`).  The rest of the
proof uses of a recipe only that it is sound, so a new method needs one more lemma, or
shows where its handler has a gap.

The invariant `IInv` then says where the dirt is.  While the recipe runs, what is dirty was put
there by a step before and not taken away since (`DirtInv`, with `Standing`), but for a borrowed setting
whose return has silently failed, and what was
made or compared is there (`GainInv`, with `Sure`).  In the except block, what is dirty will be handled by one
of the entries that are left, or is `Unguarded` (`CleanupInv`): the theorem is only as strong as that
set is small, and section 6 lists the lines it stands for.
`PlaceInv` is what a drawing got once is worth: it is the one that was active, and in a transaction the
transaction's.  The visual style needs two parts of its own, since AutoCAD sets it when it
runs the command: a command that is still queued is the last in its drawing (`QueueInv`), and a style that is
new has nothing queued behind it (`StyleInv`).  That there is no false alarm rests
on `CalmInv`: as long as nothing has misbehaved, whatever is compared is as it was set.

Only model-checked: the
liveness properties `ClientsFinish`, `GateReopens` and `CallsReturn`, since
liveness under fairness is out of the prover's reach.

## 5. Plan

Done: the bridge with its clients, the supervisor with its requests, the two lanes
of a worker, the split host, the headless backend with its files, the semantic
executor, the COM methods, the evidence files.  Next, in this order:

1. `SupervisorProxy` with `ComBackend`: what a reload does to a worker that is
   quarantined or has a late call, instead of the nondeterministic health report.
2. `SemanticExecutor` over `NativeBridge` instead of its own, smaller bridge.
3. Two server processes on one drawing and one evidence directory.

## 6. Limits

### What the code does not promise

The properties above hold under conditions that they or their instances name.  These
are the behaviours outside of them, all of which the models contain or would
contain with the constant or bound that is named.

The bridge and its clients.

- Between two chunks the Idle loop lets the user work.  A QSAVE there writes a part of
  the batch; finalize deletes the checkpoint without a look at the file
  (NativeMutationService.cs:1281); if AutoCAD ends before the next save, the drawing
  reopens with a part of a batch and nothing to restore from.  `MidBatchSave = FALSE` in
  the runs and in the theorems excludes it.
- If `_checkpoints.Require` throws on the second tick of an R2 request, its entry in
  `_r2RecoveryStates` stays, and every later resolve or finalize of that checkpoint is
  told that a restore is in progress (NativeMutationService.cs:1230).  This is in all
  runs; it blocks, and breaks none of their properties.

The supervisor.

- Two generations may execute mutations at the same time.  The 504 of a request gives its
  lease back while the worker goes on (supervisor.py:370), and the activation probe does
  not see a call that runs outside the STA thread (supervisor.py:227-234, 255-271;
  hot_reload.py:222-224): after the promotion the old worker goes on with it until
  `launcher.stop(old)` has ended it, which takes up to the stop timeout.
  docs/THREAT_MODEL.md:56 lists "Mixed-generation mutation/race" as fenced, and
  hot_reload.py:1 promises "single-writer generation fencing".  `overlap` is the
  counterexample, `FormerOnlyFinishes` and `SingleAuthority` what holds instead.
- `launcher.stop(old)` stands inside the `try` of `reload` (hot_reload.py:235): when the old
  process outlives its kill, the promotion is undone and the healthy new worker is
  stopped.  The runs contain it; `GateLeadsToWorker` and `NoRequestCut` speak of a server in
  which no stop has raised.
- When the stop of a failed candidate raises, `_fail_reload` does not reach the line that
  opens the gate, and the watcher ends (hot_reload.py:352): the gate may stay closed.
  `GateReopens` names it as an exception.
- The admission check and the increment of the counter are on different sides of the
  await that reads the body (supervisor.py:341), so more requests than
  `max_concurrent_requests` may be under way.
- A server that exits in the middle of a reload leaves the candidate running
  (supervisor.py:591): CancelledError is no Exception.  `NoLeak` speaks of a server
  that serves.

The COM backend and the split host.

- The quarantine is checked when a mutation is submitted and not when the STA thread
  takes it (com_backend.py:1127): behind a read that finds AutoCAD gone, it edits the
  AutoCAD that was started since.  `one_client` therefore has no reads.
- `document_new` compares the depth before it waits for the writer lock and overlooks a
  `transaction_begin` that holds it (com_backend.py:1325): with `Clients = 2` in
  `OneClient.cfg` a document is created under an open transaction.
- A rollback whose SendCommand raises has closed its undo mark and keeps its count
  (com_backend.py:4191): `UndoMayFail = TRUE` in `OneClient.cfg` violates `DepthIsMarks`.
- The dispatch lock of the agent is handed on at a deadline while the late thread is
  inside the adapter (workstation_agent.py:271).  `WritersDoNotOverlap`, which only the
  provider's fence upholds, is proved; a read can overlap.
- An integrity quarantine inside the agent reaches the provider as "state_conflict", which it
  takes for a clean refusal (remote_runtime.py:293); native mutations go on.

The COM methods.

- `copy`, `mirror` and `xref_attach` ask for the active drawing twice, the visual style follows it,
  and `xref_detach` detaches in one and verifies in another: `Wandering` and the
  condition of `SuccessIsReal` exempt them while the user changes drawings.
- `viewport_delete` looks its handle up before the document scope is renewed.
- Errors that leave their work without a quarantine (`Unguarded`).  Three reads in except
  blocks are outside of what the handlers catch: `ModelSpace` for a created solid
  (com_backend.py:3573), `Blocks` for an attached definition (958, 959, 962) and the layout's
  `Block` for a viewport (3149): when they fail, the object stays (`Escapes`).  Methods that
  change something outside of any `try` answer "error" when what follows the change fails, or the change itself
  after it had its effect (`Reporting`): object_set_properties (1938-1945), object_move,
  object_rotate and object_scale (1958-2017), the solid transformations (3947-4003),
  object_delete and drawing_purge, layer_set_current, layout_create and layout_set_current, viewport_set_scale
  and viewport_lock (3228-3257), the view directions, save, and reload, unload and detach of an xref.
  A layout or BACKGROUNDPLOT that was borrowed (`Borrowed`) stays when giving it back fails or does
  nothing: nobody reads it back (1532-1546, 3152-3182), and the layout is switched before
  the `try` (1506, 3130).
- Answers "ok" that nothing was compared for (`Unread`): object_set_properties (1938-1945),
  object_move, object_rotate, object_scale, the solid transformations, layer_set_current (2516),
  layout_set_current (3039), viewport_set_scale (3234), viewport_lock (3249),
  view_set_direction (3395), object_delete, drawing_purge, and solid_boolean, which
  reports whether the tool still exists and does not look at it.  `SuccessIsReal` promises of
  them only that nothing else was changed.
- A restoration overwrites what the user has set meanwhile.

The evidence files.

- An export that has timed out still writes the .sat, under the manifest of an
  earlier one (com_backend.py:4113); a kill between the two leaves the same.
  `ExportDescribed` speaks of exports that were answered.
- A copy that races a save leaves wrong bytes under the name of a hash; no manifest
  vouches for them, but later seals of that content are refused.
- `document_state` in a seal may describe an earlier version than the sealed bytes.

The headless backend and the files.

- A `transaction_begin` that was given up and reported as retryable pushes its snapshot
  later on (ezdxf_backend.py:472, 1606): `SnapshotsOfThisDrawing` exempts it.  A late PDF export
  overwrites a later one.
- A call that raises half-way leaves its change in the drawing without a snapshot and without
  setting `dirty` (`half`; ezdxf_backend.py:1293).
- `layer_set_current` accepts a frozen layer; purge compares spellings exactly (1549);
  an audit that repairs nothing drops the redo snapshots (1522).
- When the flush of the directory fails after the rename, or the directory was exchanged, the
  cleanup removes the only version of the file: `NeverLost` is stated for an undisturbed
  directory.

The semantic executor.

- What the user draws between a commit and the read-back makes the step fail, and a
  restore by R2 takes it away (semantic_executor.py:771).  `KnownState` speaks of
  drawings that nobody else has changed.
- A line that is turned round has the same fingerprint and counts as modified
  (fingerprint.py:47, delta.py:25): the step fails although the state is the planned one.
- A process that dies between dispatch and finalize leaves its checkpoint to the next.

### Not modelled

- Tool tables and argument validation (`server.py`, `protocol.py`, `BridgeProtocol.cs`)
  have no state but the backend that was picked; a request of the models is a valid one.
- Extraction from the drawing database and metadata storage (`Native*Extractor.cs`,
  `EntityPidStore.cs`): pure reads and writes through AutoCAD's interfaces.
- Configuration, identity, security, diagnostics and scripts: checks without state.  The
  provenance registry is written by no tool.
- COM methods that only list or read beyond one `read`, those that queue a command and
  answer at once (audit, undo, redo, zoom), and the details of `PurgeAll`.
- `replace_contained_file`, several documents, two servers on one drawing.
- What the single drawing operations do to geometry is AutoCAD's and the library's.

PROJECT.json lists every component with its status.
