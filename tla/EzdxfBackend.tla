---------------------------- MODULE EzdxfBackend ----------------------------
(* The headless DXF backend: concurrent calls that take turns on an asyncio
   lock, one worker thread per call that the call may abandon (timeout,
   cancellation) but cannot stop, and under them the bound drawing with its
   path, its undo, redo and transaction snapshots and the files on disk.   *)
EXTENDS EzdxfDrawing, SequencesExt

CONSTANTS Calls,        \* callers; each has one call under way at most
          Paths,        \* .dxf files
          UndoDepth, TxDepth,
          Scenarios     \* what the clients of a behaviour do, see Scenario

VARIABLES
    doc, docPath, dirty, generation,    \* the bound drawing
    undo, redo, txs,                    \* _undo_stack, _redo_stack, _transaction_stack
    quarantined, uncertain,             \* _quarantined, _uncertain_task: the call whose worker it is
    lock,                               \* _lock: its holder
    files, pdf,                         \* the .dxf files; the drawing the exported PDF shows
    req, phase, target,                 \* a caller's request, where its coroutine is, the path it resolved
    work, seen, held, raised,           \* its worker: step, generation it started in, drawing it holds, outcome
    answer,                             \* what the caller was told last
    half,                               \* what a call that raised has changed without recording it
    lateBegin,                          \* a transaction_begin was abandoned
    scenario, budget

docVars == <<doc, docPath, dirty, generation>>
histVars == <<undo, redo, txs>>
diskVars == <<files, pdf>>
guardVars == <<quarantined, uncertain, lock>>
callVars == <<req, phase, target>>
workVars == <<work, seen, held, raised>>
ghostVars == <<half, lateBegin>>
vars == <<docVars, histVars, guardVars, diskVars, callVars, workVars, answer, ghostVars, scenario, budget>>

Control == {"new", "open", "save", "read", "export", "begin", "commit", "rollback", "undo", "redo"}

\* Who calls, what they ask for, how many calls there are in all, whether
\* calls time out and are cancelled, what is on the disk at first.
Scenario ==
    [callers : SUBSET Calls, requests : SUBSET Control, edits : SUBSET Edits, budget : Nat,
     impatient : BOOLEAN, disk : SUBSET Drawing]

ASSUME BackendAssumption ==
    /\ UndoDepth \in Nat \ {0} /\ TxDepth \in Nat \ {0}
    /\ Nil \notin Calls /\ Nil \notin Paths
    /\ Scenarios \subseteq Scenario
    /\ \A s \in Scenarios : \A d \in s.disk : Sound(d) /\ d.binding = 0

\* Mutant: undo and redo are not declared integrity sensitive.
MutantSensitive(r) == r.kind \notin {"new", "open", "read", "export", "begin", "commit", "undo", "redo"}

\* integrity_sensitive=True; record_history=True; quarantine_exit=True.
Sensitive(r) == r.kind \notin {"new", "open", "read", "export", "begin", "commit"}
Records(r) == r.kind \notin Control
Rebinds(r) == r.kind \in {"new", "open"}

Init ==
    /\ doc = Nil /\ docPath = Nil /\ dirty = FALSE /\ generation = 0
    /\ undo = <<>> /\ redo = <<>> /\ txs = <<>>
    /\ quarantined = FALSE /\ uncertain = Nil /\ lock = Nil
    /\ req = [c \in Calls |-> Nil] /\ phase = [c \in Calls |-> "idle"] /\ target = [c \in Calls |-> Nil]
    /\ work = [c \in Calls |-> "none"] /\ seen = [c \in Calls |-> 0]
    /\ held = [c \in Calls |-> Nil] /\ raised = [c \in Calls |-> FALSE]
    /\ answer = [c \in Calls |-> "none"]
    /\ half = {} /\ lateBegin = FALSE
    /\ scenario \in Scenarios /\ budget = scenario.budget
    /\ files \in [Paths -> scenario.disk] /\ pdf = Nil
-----------------------------------------------------------------------------
(* The coroutine of a call: _run and what its caller does around it.       *)

Requests ==
    [kind : scenario.requests \ {"open", "save"}]
    \cup (IF "open" \in scenario.requests THEN [kind : {"open"}, path : Paths] ELSE {})
    \cup (IF "save" \in scenario.requests THEN [kind : {"save"}, path : Paths \cup {Nil}] ELSE {})
    \cup scenario.edits

\* A save without a path goes to the path of the drawing as it is now, before
\* the call waits for the lock; without either it is refused at once.
Invoke(c, r) ==
    /\ c \in scenario.callers /\ budget > 0 /\ phase[c] = "idle" /\ work[c] \in {"none", "done"}
    /\ budget' = budget - 1
    /\ req' = [req EXCEPT ![c] = r]
    /\ LET path == IF r.kind = "open" THEN r.path
                   ELSE IF r.kind # "save" THEN Nil ELSE IF r.path # Nil THEN r.path ELSE docPath
           refused == r.kind \in {"open", "save"} /\ (path = Nil \/ (r.kind = "open" /\ files[path] = Nil))
       IN /\ target' = [target EXCEPT ![c] = path]
          /\ phase' = [phase EXCEPT ![c] = IF refused THEN "idle" ELSE "waiting"]
          /\ answer' = [answer EXCEPT ![c] = IF refused THEN "error" ELSE "none"]
    /\ work' = [work EXCEPT ![c] = "none"] /\ held' = [held EXCEPT ![c] = Nil]
    /\ raised' = [raised EXCEPT ![c] = FALSE] /\ seen' = [seen EXCEPT ![c] = 0]
    /\ UNCHANGED <<docVars, histVars, guardVars, diskVars, ghostVars, scenario>>

\* Mutant: the abandoned worker is forgotten whether it is done or not.
MutantReaped == Nil

\* _reap_uncertain_task: the worker is done, perhaps so long ago that its caller
\* has since made another call, whose worker is not yet started.
Reaped == IF uncertain # Nil /\ work[uncertain] \in {"none", "done"} THEN Nil ELSE uncertain

Answer(c, a) == /\ answer' = [answer EXCEPT ![c] = a] /\ phase' = [phase EXCEPT ![c] = "idle"]

\* The lock is taken; the call is refused or its worker thread is started.
Enter(c) ==
    /\ phase[c] = "waiting" /\ lock = Nil
    /\ uncertain' = Reaped
    /\ \/ /\ (Rebinds(req[c]) /\ Reaped # Nil) \/ (quarantined /\ ~Rebinds(req[c]))
          /\ Answer(c, "refused")
          /\ UNCHANGED <<lock, work, seen>>
       \/ /\ ~(Rebinds(req[c]) /\ Reaped # Nil) /\ ~(quarantined /\ ~Rebinds(req[c]))
          /\ lock' = c
          /\ phase' = [phase EXCEPT ![c] = "inside"]
          /\ work' = [work EXCEPT ![c] = "started"]
          /\ seen' = [seen EXCEPT ![c] = IF doc = Nil THEN -1 ELSE generation]
          /\ UNCHANGED answer
    /\ UNCHANGED <<docVars, histVars, quarantined, diskVars, req, target, held, raised, ghostVars, scenario, budget>>

\* Mutant: open transactions survive the binding of another drawing.
MutantRebase(d) == undo' = <<d>> /\ redo' = <<>> /\ UNCHANGED txs

\* _reset_history_baseline
Rebase(d) == undo' = <<d>> /\ redo' = <<>> /\ txs' = <<>>

\* document_new, document_open: the drawing the worker holds is bound.
Bind(c) ==
    /\ generation' = generation + 1
    /\ doc' = [held[c] EXCEPT !.binding = generation']
    /\ docPath' = target[c] /\ dirty' = FALSE /\ quarantined' = FALSE
    /\ Rebase(doc')
    /\ half' = {}

\* drawing_audit without repairs, drawing_purge without removals: a last
\* snapshot that equals the one before is dropped. Snapshots of equal drawings
\* need not be equal: they hold time stamps.
DropRepeat(c) ==
    LET n == Len(undo)
    IN /\ \/ /\ req[c].kind \in {"audit", "purge"} /\ held[c] = doc
             /\ n >= 2 /\ undo[n] = undo[n - 1]
             /\ undo' = SubSeq(undo, 1, n - 1)
          \/ UNCHANGED undo
       /\ UNCHANGED <<redo, txs>>

\* The worker is done and its call still listens.
Return(c) ==
    /\ phase[c] = "inside" /\ work[c] = "done"
    /\ lock' = Nil
    /\ Answer(c, IF raised[c] THEN "error" ELSE "ok")
    /\ \/ /\ Rebinds(req[c]) /\ ~raised[c]
          /\ Bind(c)
       \/ /\ req[c].kind = "save" /\ ~raised[c]
          /\ docPath' = target[c] /\ dirty' = FALSE /\ half' = half \ {"disk"}
          /\ UNCHANGED <<doc, generation, histVars, quarantined>>
       \/ /\ raised[c] \/ (~Rebinds(req[c]) /\ req[c].kind # "save")
          /\ IF raised[c] THEN UNCHANGED histVars ELSE DropRepeat(c)
          /\ UNCHANGED <<docVars, quarantined, half>>
    /\ UNCHANGED <<uncertain, diskVars, req, target, workVars, lateBegin, scenario, budget>>

\* The worker runs on; the drawing is quarantined if it may change it. The
\* deadline is awaited, so the worker of a timed-out call is not done.
Abandon(c, told) ==
    /\ scenario.impatient /\ phase[c] = "inside"
    /\ lock' = Nil
    /\ Answer(c, told)
    /\ IF Sensitive(req[c]) THEN quarantined' = TRUE /\ uncertain' = c ELSE UNCHANGED <<quarantined, uncertain>>
    /\ lateBegin' = (lateBegin \/ req[c].kind = "begin")
    /\ UNCHANGED <<docVars, histVars, diskVars, req, target, workVars, half, scenario, budget>>

Timeout(c) == work[c] # "done" /\ Abandon(c, IF Sensitive(req[c]) THEN "unknown" ELSE "retryable")
CancelInside(c) == Abandon(c, "cancelled")

CancelWaiting(c) ==
    /\ scenario.impatient /\ phase[c] = "waiting"
    /\ Answer(c, "cancelled")
    /\ UNCHANGED <<docVars, histVars, guardVars, diskVars, req, target, workVars, ghostVars, scenario, budget>>
-----------------------------------------------------------------------------
(* The worker thread of a call, which outlives it.                         *)

Finish(c, failed) ==
    /\ work' = [work EXCEPT ![c] = "done"] /\ raised' = [raised EXCEPT ![c] = failed]

WorkerFrame == UNCHANGED <<guardVars, callVars, answer, lateBegin, scenario, budget>>

\* Nothing is bound, or there is nothing to read: the worker raises at once.
Raise(c) ==
    /\ work[c] = "started"
    /\ \/ doc = Nil /\ ~Rebinds(req[c])
       \/ req[c].kind = "open" /\ files[target[c]] = Nil
       \/ req[c].kind = "begin" /\ Len(txs) >= TxDepth
       \/ req[c].kind \in {"commit", "rollback"} /\ txs = <<>>
       \/ req[c].kind = "undo" /\ Len(undo) < 2
       \/ req[c].kind = "redo" /\ redo = <<>>
    /\ Finish(c, TRUE)
    /\ UNCHANGED <<docVars, histVars, diskVars, seen, held, half>> /\ WorkerFrame

\* object_get, object_list, object_measure, layer_list ...: nothing changes.
Read(c) ==
    /\ work[c] = "started" /\ req[c].kind = "read" /\ doc # Nil
    /\ Finish(c, FALSE)
    /\ UNCHANGED <<docVars, histVars, diskVars, seen, held, half>> /\ WorkerFrame

\* ezdxf.new and ezdxf.read: the drawing is the worker's until it is bound.
Load(c) ==
    /\ work[c] = "started" /\ Rebinds(req[c])
    /\ req[c].kind = "open" => files[target[c]] # Nil
    /\ held' = [held EXCEPT ![c] = IF req[c].kind = "new" THEN EmptyDrawing ELSE files[target[c]]]
    /\ Finish(c, FALSE)
    /\ UNCHANGED <<docVars, histVars, diskVars, seen, half>> /\ WorkerFrame

\* document_save: one atomic replacement; one that fails after the rename
\* takes the file with it.
Write(c) ==
    /\ work[c] = "started" /\ req[c].kind = "save" /\ doc # Nil
    /\ \/ /\ files' = [files EXCEPT ![target[c]] = [doc EXCEPT !.binding = 0]]
          /\ Finish(c, FALSE) /\ UNCHANGED half
       \/ /\ UNCHANGED files /\ Finish(c, TRUE) /\ UNCHANGED half
       \/ /\ files' = [files EXCEPT ![target[c]] = Nil]
          /\ Finish(c, TRUE) /\ half' = half \cup {"disk"}
    /\ UNCHANGED <<docVars, histVars, pdf, seen, held>> /\ WorkerFrame

\* document_export_pdf: the drawing is rendered, then the file replaced.
Render(c) ==
    /\ work[c] = "started" /\ req[c].kind = "export" /\ doc # Nil
    /\ held' = [held EXCEPT ![c] = doc] /\ work' = [work EXCEPT ![c] = "ran"]
    /\ UNCHANGED <<docVars, histVars, diskVars, seen, raised, half>> /\ WorkerFrame

Publish(c) ==
    /\ work[c] = "ran" /\ req[c].kind = "export"
    /\ \/ pdf' = held[c] /\ Finish(c, FALSE)
       \/ UNCHANGED pdf /\ Finish(c, TRUE)
    /\ UNCHANGED <<docVars, histVars, files, seen, held, half>> /\ WorkerFrame

\* A drawing operation changes the drawing, and may have when it raises.
Edit(c) ==
    /\ work[c] = "started" /\ Records(req[c]) /\ doc # Nil
    /\ Creates(req[c]) => doc.seed <= MaxHandle
    /\ held' = [held EXCEPT ![c] = doc]
    /\ \E o \in Outcomes(req[c], doc) :
          /\ doc' = o.d
          /\ IF o.ok THEN work' = [work EXCEPT ![c] = "ran"] /\ UNCHANGED <<raised, half>>
             ELSE Finish(c, TRUE) /\ half' = IF o.d = doc THEN half ELSE half \cup {"history", "disk"}
    /\ UNCHANGED <<docPath, dirty, generation, histVars, diskVars, seen>> /\ WorkerFrame

\* _wrapped, _record_mutation: recorded when the drawing is still the one the
\* call was started for.
Newest(s, n) == IF Len(s) <= n THEN s ELSE SubSeq(s, Len(s) - n + 1, Len(s))

\* Mutant: a change is recorded but the drawing still counts as saved.
MutantRecordClean(d) ==
    /\ undo' = Newest(Append(undo, d), UndoDepth + 1) /\ redo' = <<>>
    /\ half' = half \ {"history"} /\ UNCHANGED dirty

\* Mutant: with the history full the change is not recorded.
MutantRecordMutation(d) ==
    /\ dirty' = TRUE
    /\ undo' = IF Len(undo) > UndoDepth THEN undo ELSE Append(undo, d)
    /\ redo' = <<>> /\ half' = half \ {"history"}

\* Mutant: what was undone stays redoable after a new change.
MutantRecordKeepsRedo(d) ==
    /\ dirty' = TRUE
    /\ undo' = Newest(Append(undo, d), UndoDepth + 1)
    /\ half' = half \ {"history"} /\ UNCHANGED redo

RecordMutation(d) ==
    /\ dirty' = TRUE
    /\ undo' = Newest(Append(undo, d), UndoDepth + 1)
    /\ redo' = <<>>
    /\ half' = half \ {"history"}

Record(c) ==
    /\ work[c] = "ran" /\ Records(req[c])
    /\ IF seen[c] = generation THEN RecordMutation(doc) ELSE UNCHANGED <<dirty, undo, redo, half>>
    /\ Finish(c, FALSE)
    /\ UNCHANGED <<doc, docPath, generation, txs, diskVars, seen, held>> /\ WorkerFrame

\* transaction_begin: the depth is checked and the drawing serialised, then
\* the snapshot is pushed.
Snapshot(c) ==
    /\ work[c] = "started" /\ req[c].kind = "begin" /\ doc # Nil /\ Len(txs) < TxDepth
    /\ held' = [held EXCEPT ![c] = doc] /\ work' = [work EXCEPT ![c] = "ran"]
    /\ UNCHANGED <<docVars, histVars, diskVars, seen, raised, half>> /\ WorkerFrame

Push(c) ==
    /\ work[c] = "ran" /\ req[c].kind = "begin"
    /\ txs' = Append(txs, held[c])
    /\ Finish(c, FALSE)
    /\ UNCHANGED <<docVars, undo, redo, diskVars, seen, held, half>> /\ WorkerFrame

Commit(c) ==
    /\ work[c] = "started" /\ req[c].kind = "commit" /\ txs # <<>> /\ doc # Nil
    /\ txs' = Front(txs)
    /\ Finish(c, FALSE)
    /\ UNCHANGED <<docVars, undo, redo, diskVars, seen, held, half>> /\ WorkerFrame

\* _restore_snapshot
Restore(d) == doc' = d /\ generation' = generation + 1

Rollback(c) ==
    /\ work[c] = "started" /\ req[c].kind = "rollback" /\ txs # <<>> /\ doc # Nil
    /\ txs' = Front(txs)
    /\ Restore(Last(txs)) /\ RecordMutation(Last(txs))
    /\ Finish(c, FALSE)
    /\ UNCHANGED <<docPath, diskVars, seen, held>> /\ WorkerFrame

Undo(c) ==
    /\ work[c] = "started" /\ req[c].kind = "undo" /\ Len(undo) >= 2 /\ doc # Nil
    /\ undo' = Front(undo) /\ redo' = Append(redo, Last(undo))
    /\ Restore(Last(undo')) /\ dirty' = TRUE /\ half' = half \ {"history"}
    /\ Finish(c, FALSE)
    /\ UNCHANGED <<docPath, txs, diskVars, seen, held>> /\ WorkerFrame

Redo(c) ==
    /\ work[c] = "started" /\ req[c].kind = "redo" /\ redo # <<>> /\ doc # Nil
    /\ redo' = Front(redo) /\ undo' = Append(undo, Last(redo))
    /\ Restore(Last(redo)) /\ dirty' = TRUE /\ half' = half \ {"history"}
    /\ Finish(c, FALSE)
    /\ UNCHANGED <<docPath, txs, diskVars, seen, held>> /\ WorkerFrame
-----------------------------------------------------------------------------
Coroutine(c) == Enter(c) \/ Return(c) \/ Timeout(c)

Worker(c) ==
    \/ Raise(c) \/ Read(c) \/ Load(c) \/ Write(c) \/ Render(c) \/ Publish(c) \/ Edit(c) \/ Record(c)
    \/ Snapshot(c) \/ Push(c) \/ Commit(c) \/ Rollback(c) \/ Undo(c) \/ Redo(c)

Next ==
    \E c \in Calls :
       \/ \E r \in Requests : Invoke(c, r)
       \/ Coroutine(c) \/ CancelInside(c) \/ CancelWaiting(c)
       \/ Worker(c)

Spec == Init /\ [][Next]_vars
-----------------------------------------------------------------------------
Busy(c) == work[c] \in {"started", "ran"}
Unrecorded == \E c \in Calls : work[c] = "ran" /\ Records(req[c])

LaneTypeOK ==
    /\ quarantined \in BOOLEAN /\ uncertain \in Calls \cup {Nil} /\ lock \in Calls \cup {Nil}
    /\ DOMAIN req = Calls
    /\ phase \in [Calls -> {"idle", "waiting", "inside"}]
    /\ work \in [Calls -> {"none", "started", "ran", "done"}]

TypeOK ==
    /\ doc \in Drawing \cup {Nil} /\ docPath \in Paths \cup {Nil} /\ dirty \in BOOLEAN /\ generation \in Nat
    /\ undo \in Seq(Drawing) /\ redo \in Seq(Drawing) /\ txs \in Seq(Drawing)
    /\ LaneTypeOK
    /\ files \in [Paths -> Drawing \cup {Nil}] /\ pdf \in Drawing \cup {Nil}
    /\ target \in [Calls -> Paths \cup {Nil}] /\ seen \in [Calls -> Nat \cup {-1}]
    /\ held \in [Calls -> Drawing \cup {Nil}] /\ raised \in [Calls -> BOOLEAN]
    /\ answer \in [Calls -> {"none", "ok", "error", "refused", "retryable", "unknown", "cancelled"}]
    /\ half \subseteq {"history", "disk"} /\ lateBegin \in BOOLEAN
    /\ scenario \in Scenarios /\ budget \in Nat

(* One worker at most may be changing the drawing or its file, and while an
   abandoned one may, no other call is inside: _run's lock and quarantine,
   across any timeouts and cancellations.                                  *)
OneMutator ==
    /\ \A c, d \in Calls : Busy(c) /\ Busy(d) /\ Sensitive(req[c]) /\ Sensitive(req[d]) => c = d
    /\ \A c \in Calls : Busy(c) /\ Sensitive(req[c]) =>
          \/ lock = c
          \/ quarantined /\ uncertain = c /\ lock = Nil

(* Who is inside holds the lock; it was let in without a quarantine, or to bind
   another drawing when no worker was uncertain; a worker that was left alone
   and may change the drawing is the uncertain one, under the quarantine.     *)
LaneInv ==
    \A c \in Calls :
        /\ phase[c] = "inside" <=> lock = c
        /\ phase[c] = "waiting" => work[c] = "none"
        /\ phase[c] = "inside" => IF Rebinds(req[c]) THEN uncertain = Nil ELSE ~quarantined
        /\ Busy(c) /\ Sensitive(req[c]) /\ phase[c] # "inside" => quarantined /\ uncertain = c

IInv == LaneTypeOK /\ LaneInv

(* Between calls the newest undo snapshot is the drawing, unless a call that
   raised has left a change behind: _record_mutation runs for every change,
   undo, redo and rollback included.                                       *)
HistoryHonest == doc # Nil /\ ~Unrecorded /\ "history" \notin half => undo # <<>> /\ Last(undo) = doc

(* A drawing reported as saved is the one in its file: no order of edits,
   saves, opens, abandoned saves and rollbacks makes the flag lie, unless a
   call that raised has changed either (document_info's "saved").          *)
CleanMeansSaved ==
    doc # Nil /\ ~dirty /\ docPath # Nil /\ ~Unrecorded /\ "disk" \notin half
        => files[docPath] = [doc EXCEPT !.binding = 0]

(* Snapshots are of the bound drawing, never of one bound before, so that no
   undo or rollback brings another drawing under this one's path.  An abandoned
   transaction_begin is the exception: its snapshot may be of a drawing that
   was bound after its caller had given up.                                *)
SnapshotsOfThisDrawing ==
    ~lateBegin => \A s \in Range(undo) \cup Range(redo) \cup Range(txs) : s.binding = doc.binding

(* All is well formed: the types, and in the drawing INSERTs refer to blocks
   that exist and layers in use are in the table, through every edit, purge,
   undo, redo and rollback.                                                *)
ReferencesResolve == TypeOK /\ (doc # Nil => BlocksResolve(doc) /\ LayersResolve(doc))

(* What was answered as a retryable timeout changes nothing later on but the
   transaction stack and the exported PDF: the two calls whose late effects
   the code does not treat as integrity sensitive.                         *)
RetryableIsHarmless ==
    [][\A c \in Calls : answer[c] = "retryable" /\ work'[c] # work[c] /\ req'[c] = req[c] /\ phase'[c] = phase[c]
          => UNCHANGED <<docVars, undo, redo, files, quarantined>>]_vars

\* A call under way has what it asked for and, if it needs one, a path; a worker
\* that is half done has a drawing and works on one.
CallInv ==
    \A c \in Calls :
        /\ phase[c] # "idle" \/ Busy(c) =>
              /\ req[c] \in Requests
              /\ req[c].kind \in {"open", "save"} => target[c] \in Paths
              /\ req[c].kind = "new" => target[c] = Nil
        /\ work[c] = "ran" => doc # Nil /\ held[c] # Nil
        /\ answer[c] = "retryable" => phase[c] = "idle" /\ ~Sensitive(req[c])

\* Nobody binds or restores a drawing under a worker that may change it.
SeenInv ==
    \A c \in Calls : Busy(c) /\ Sensitive(req[c]) => seen[c] = IF doc = Nil THEN -1 ELSE generation

\* What a worker has done is still so when its call, which has the lock, goes on.
DoneInv ==
    \A c \in Calls : phase[c] = "inside" /\ work[c] = "done" /\ ~raised[c] =>
        /\ Rebinds(req[c]) => held[c] # Nil /\ held[c].binding = 0
        /\ req[c].kind = "open" => files[target[c]] = held[c]
        /\ req[c].kind = "save" => files[target[c]] = [doc EXCEPT !.binding = 0]
        /\ Records(req[c]) => redo = <<>>

\* Files belong to no binding, snapshots to the bound drawing; so does the one that a
\* transaction_begin is about to push, unless it was abandoned.
BindingInv ==
    /\ \A p \in Paths : files[p] # Nil => files[p].binding = 0
    /\ doc = Nil => undo = <<>> /\ redo = <<>> /\ txs = <<>>
    /\ \A c \in Calls : Busy(c) /\ req[c].kind = "begin" /\ ~lateBegin =>
          phase[c] = "inside" /\ (work[c] = "ran" => held[c].binding = doc.binding)

HistoryInv ==
    /\ CallInv /\ SeenInv /\ DoneInv /\ BindingInv
    /\ HistoryHonest /\ CleanMeansSaved /\ SnapshotsOfThisDrawing

\* Every drawing there is, in memory and on disk, is sound.
SoundInv ==
    \A d \in {doc} \cup Range(undo) \cup Range(redo) \cup Range(txs) \cup Range(files) \cup Range(held) :
        d # Nil => Sound(d)

(* Undo and redo together are the abstract tape, which keeps UndoDepth steps. *)
Tape == INSTANCE UndoTape WITH Depth <- UndoDepth, tape <- undo \o Reverse(redo), cursor <- Len(undo)
TapeSpec == Tape!TapeSpec
=============================================================================
