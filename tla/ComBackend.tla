---------------------------- MODULE ComBackend ----------------------------
(***************************************************************************)
(* The COM backend (backends/com_backend.py) and the native lane of        *)
(* server.py, the two writers behind MutationCoordinator.                  *)
(*                                                                         *)
(* A tool call is a coroutine of the provider's event loop.  A COM call    *)
(* submits one function to a one-thread executor, the STA, and waits for   *)
(* it with a deadline; giving up on the wait does not stop the function.   *)
(* A native mutation runs in a thread of its own.  AutoCAD and its user    *)
(* are the environment: the user switches drawings, AutoCAD can die and be *)
(* started again, a COM call can fail, and one can hang for ever.          *)
(***************************************************************************)
EXTENDS MutationCoordinator, Integers

CONSTANTS Docs,          \* drawings, by the (Name, FullName) key of _doc
          Kinds,         \* the kinds of call that a run lets clients make
          Clients,       \* bound: calls in progress at the same time
          Limit,         \* settings.transaction_depth
          MaxRestarts,   \* bound: how often AutoCAD dies
          UndoMayFail    \* SendCommand may raise after EndUndoMark has succeeded

Transactional == {"begin", "commit", "rollback"}
Mutations == {"edit", "new", "native"} \cup Transactional
AllKinds == {"read"} \cup Mutations

ASSUME KindsAssumption == Kinds \subseteq AllKinds
ASSUME NoneAssumption == None \notin Calls /\ None \notin Docs /\ None \notin Nat
ASSUME LimitAssumption == Limit \in Nat \ {0} /\ Clients \in Nat /\ MaxRestarts \in Nat
ASSUME UndoAssumption == UndoMayFail \in BOOLEAN

VARIABLES op,                \* what each call does, "none" before it is made
          pc,                \* its coroutine: fresh, line, sent or back
          told,              \* what its caller was told
          job,               \* the function it handed to a thread
          sta,               \* the executor's queue; the head may be running
          bound,             \* the Document object that the running function holds
          depth,             \* _transaction_depth
          timeoutUncertain,  \* _timeout_uncertain
          integrity,         \* _integrity_uncertain_reason is not None
          attached,          \* the AutoCAD instance in _apps, or None
          scope,             \* _document_scope_key
          cad,               \* the AutoCAD instance that is alive
          active,            \* its active drawing
          marks              \* undo marks that are open in each drawing

loopVars == <<op, pc, told>>
threadVars == <<job, sta, bound>>
backendVars == <<depth, timeoutUncertain, integrity, attached, scope>>
cadVars == <<cad, active, marks>>
vars == <<coordinatorVars, loopVars, threadVars, backendVars, cadVars>>

Ended == {"ok", "error", "unknown"}

Init ==
  /\ CoordinatorInit
  /\ op = [c \in Calls |-> "none"]
  /\ pc = [c \in Calls |-> "fresh"]
  /\ told = [c \in Calls |-> "nothing"]
  /\ job = [c \in Calls |-> "none"]
  /\ sta = <<>>
  /\ bound = None
  /\ depth = 0
  /\ timeoutUncertain = FALSE
  /\ integrity = FALSE
  /\ attached = None
  /\ scope = None
  /\ cad = 0
  /\ active \in Docs
  /\ marks = [d \in Docs |-> 0]

-----------------------------------------------------------------------------
(* Making a call                                                           *)

InFlight == {c \in Calls : pc[c] \in {"line", "sent"}}

\* The checks that a method makes before its first await.
Admissible(k) ==
  /\ k = "begin" => depth < Limit
  /\ k \in {"commit", "rollback"} => depth > 0
  /\ k = "new" => depth <= 0

\* The checks of _run_after_mutation_gate, made with the lock held.
GateOpen(k) == k = "native" \/ (~integrity /\ ~timeoutUncertain /\ EnsureWritable)

\* executor.submit, or asyncio.to_thread for the native lane.
Dispatch(c, k) ==
  /\ pc' = [pc EXCEPT ![c] = "sent"]
  /\ job' = [job EXCEPT ![c] = IF k = "native" THEN "running" ELSE "queued"]
  /\ sta' = IF k = "native" THEN sta ELSE Append(sta, c)
  /\ UNCHANGED <<told, bound, backendVars, cadVars>>

Answer(c, what) ==
  /\ pc' = [pc EXCEPT ![c] = "back"]
  /\ told' = [told EXCEPT ![c] = what]

Made(c, k) ==
  /\ pc[c] = "fresh"
  /\ Cardinality(InFlight) < Clients
  /\ op' = [op EXCEPT ![c] = k]

\* A read takes no lock and meets no gate.
CallRead(c) ==
  /\ Made(c, "read")
  /\ Dispatch(c, "read")
  /\ UNCHANGED coordinatorVars

CallRefused(c, k) ==
  /\ Made(c, k)
  /\ ~(Admissible(k) /\ EnsureWritable /\ (LockFree => GateOpen(k)))
  /\ Answer(c, "refused")
  /\ UNCHANGED <<coordinatorVars, threadVars, backendVars, cadVars>>

\* A free lock is taken without suspending: check and dispatch are one step.
CallEnters(c, k) ==
  /\ Made(c, k)
  /\ Admissible(k) /\ EnsureWritable /\ LockFree /\ GateOpen(k)
  /\ holder' = c
  /\ Dispatch(c, k)
  /\ UNCHANGED <<line, quarantined>>

CallWaits(c, k) ==
  /\ Made(c, k)
  /\ Admissible(k) /\ EnsureWritable /\ ~LockFree
  /\ line' = Append(line, c)
  /\ pc' = [pc EXCEPT ![c] = "line"]
  /\ UNCHANGED <<holder, quarantined, told, threadVars, backendVars, cadVars>>

\* The lock is handed over; quarantine is checked again, the depth is not.
Wakes(c) ==
  /\ pc[c] = "line"
  /\ IsNext(c)
  /\ line' = Tail(line)
  /\ UNCHANGED <<quarantined, op>>

\* Mutant: quarantine is checked before the lock is awaited, not after.
MutantWaiterEnters(c) ==
  /\ Wakes(c)
  /\ holder' = c
  /\ Dispatch(c, op[c])

WaiterEnters(c) ==
  /\ Wakes(c)
  /\ EnsureWritable /\ GateOpen(op[c])
  /\ holder' = c
  /\ Dispatch(c, op[c])

WaiterRefused(c) ==
  /\ Wakes(c)
  /\ ~(EnsureWritable /\ GateOpen(op[c]))
  /\ Answer(c, "refused")
  /\ UNCHANGED <<holder, threadVars, backendVars, cadVars>>

-----------------------------------------------------------------------------
(* The STA thread                                                          *)

\* _app finds that the cached application no longer answers.
AppLost == attached \notin {None, cad}

Takes(c) ==
  /\ sta # <<>>
  /\ Head(sta) = c
  /\ job[c] = "queued"

EndJob(c, how) ==
  /\ job' = [job EXCEPT ![c] = how]
  /\ sta' = Tail(sta)
  /\ bound' = None

QuarantineIntegrity ==
  /\ integrity' = TRUE
  /\ Quarantine

\* The application went away under an open transaction: no silent reattach.
AppLostInTransaction(c) ==
  /\ Takes(c)
  /\ AppLost /\ depth > 0
  /\ attached' = None
  /\ scope' = None
  /\ QuarantineIntegrity
  /\ EndJob(c, "error")
  /\ UNCHANGED <<line, holder, loopVars, depth, timeoutUncertain, cadVars>>

\* Without a transaction the provider forgets the application and reattaches.
ScopeKept == IF AppLost THEN None ELSE scope

AttachFails(c) ==
  /\ Takes(c)
  /\ attached # cad
  /\ ~(AppLost /\ depth > 0)
  /\ attached' = None
  /\ scope' = ScopeKept
  /\ EndJob(c, "error")
  /\ UNCHANGED <<coordinatorVars, loopVars, depth, timeoutUncertain, integrity, cadVars>>

\* Mutant: _doc follows the user to whatever drawing is active.
MutantOtherDrawing(k) == FALSE

\* _doc refuses another drawing than the one the transaction was begun in.
OtherDrawing(k) ==
  /\ k # "new"
  /\ depth > 0
  /\ ScopeKept \notin {None, active}

DrawingChanged(c) ==
  /\ Takes(c)
  /\ ~(AppLost /\ depth > 0)
  /\ OtherDrawing(op[c])
  /\ attached' = cad
  /\ EndJob(c, "error")
  /\ UNCHANGED <<coordinatorVars, loopVars, depth, timeoutUncertain, integrity, scope, cadVars>>

\* From here on the function works on the Document object it has got.
JobStarts(c) ==
  /\ Takes(c)
  /\ ~(AppLost /\ depth > 0)
  /\ ~OtherDrawing(op[c])
  /\ attached' = cad
  /\ scope' = IF op[c] = "new" THEN ScopeKept ELSE active
  /\ bound' = active
  /\ job' = [job EXCEPT ![c] = "running"]
  /\ depth' = IF op[c] = "begin" THEN depth + 1 ELSE depth
  /\ UNCHANGED <<coordinatorVars, loopVars, sta, timeoutUncertain, integrity, cadVars>>

Running(c) == sta # <<>> /\ Head(sta) = c /\ job[c] = "running"

Closed(d) == IF marks[d] > 0 THEN marks[d] - 1 ELSE 0

JobSucceeds(c) ==
  /\ Running(c)
  /\ attached = cad
  /\ EndJob(c, "ok")
  /\ marks' = CASE op[c] = "begin" -> [marks EXCEPT ![bound] = @ + 1]
                [] op[c] \in {"commit", "rollback"} -> [marks EXCEPT ![bound] = Closed(bound)]
                [] OTHER -> marks
  /\ IF op[c] = "new"
       THEN active' \in {d \in Docs \ {active} : marks[d] = 0}
       ELSE UNCHANGED active
  /\ UNCHANGED <<coordinatorVars, loopVars, backendVars, cad>>

\* Mutant: a failed StartUndoMark leaves its count behind.
MutantJobFails(c) ==
  /\ Running(c)
  /\ EndJob(c, "error")
  /\ UNCHANGED <<coordinatorVars, loopVars, backendVars, cadVars>>

\* A COM error before the drawing changed; begin takes its count back.
JobFails(c) ==
  /\ Running(c)
  /\ EndJob(c, "error")
  /\ depth' = IF op[c] = "begin" THEN depth - 1 ELSE depth
  /\ UNCHANGED <<coordinatorVars, loopVars, timeoutUncertain, integrity, attached, scope, cadVars>>

\* rollback has closed the undo mark when queueing the UNDO command raises.
RollbackTorn(c) ==
  /\ UndoMayFail
  /\ Running(c)
  /\ op[c] = "rollback"
  /\ attached = cad
  /\ marks' = [marks EXCEPT ![bound] = Closed(bound)]
  /\ EndJob(c, "error")
  /\ UNCHANGED <<coordinatorVars, loopVars, backendVars, cad, active>>

\* A read-back refutes the result: a cleanup that left its entity, a save that
\* is not clean, a screenshot that changed the drawing.
IntegrityFails(c) ==
  /\ Running(c)
  /\ op[c] \in {"edit", "read"}
  /\ QuarantineIntegrity
  /\ EndJob(c, "error")
  /\ UNCHANGED <<line, holder, loopVars, depth, timeoutUncertain, attached, scope, cadVars>>

\* The native call ends; its client may have lost the answer.
NativeEnds(c, how) ==
  /\ op[c] = "native"
  /\ job[c] = "running"
  /\ job' = [job EXCEPT ![c] = how]
  /\ UNCHANGED <<coordinatorVars, loopVars, sta, bound, backendVars, cadVars>>

-----------------------------------------------------------------------------
(* The coroutine gets its result, or gives up on it                        *)

Waiting(c) == pc[c] = "sent"

\* The result arrives, the lock is released, and the method's last lines run
\* without a suspension in between.
Returns(c) ==
  /\ Waiting(c)
  /\ job[c] \in Ended
  /\ Answer(c, job[c])
  /\ Release(c)
  /\ quarantined' = (quarantined \/ job[c] = "unknown")
  /\ depth' = CASE job[c] = "ok" /\ op[c] \in {"commit", "rollback"} -> depth - 1
                [] job[c] = "ok" /\ op[c] = "new" -> 0
                [] OTHER -> depth
  /\ timeoutUncertain' = IF job[c] = "ok" /\ op[c] = "new" THEN FALSE ELSE timeoutUncertain
  /\ scope' = IF job[c] = "ok" /\ op[c] = "new" THEN None ELSE scope
  /\ UNCHANGED <<line, op, threadVars, integrity, attached, cadVars>>

\* _latch_uncertain_completion, and its counterpart in _run_native_mutation.
GivesUp(c, what) ==
  /\ Waiting(c)
  /\ Answer(c, IF op[c] = "read" THEN what ELSE "unknown")
  /\ Release(c)
  /\ quarantined' = (quarantined \/ op[c] # "read")
  /\ timeoutUncertain' = (timeoutUncertain \/ op[c] \notin {"read", "native"})
  /\ UNCHANGED <<line, op, threadVars, depth, integrity, attached, scope, cadVars>>

\* Mutant: the deadline counts from the start of the function, not from its submission.
MutantTimesOut(c) == op[c] # "native" /\ job[c] = "running" /\ GivesUp(c, "timeout")

\* asyncio.wait ran into com_call_timeout_seconds; the function goes on.
TimesOut(c) == op[c] # "native" /\ GivesUp(c, "timeout")

\* Mutant: cancellation of a dispatched mutation is taken for its end.
MutantCancelledAfterDispatch(c) ==
  /\ Waiting(c)
  /\ Answer(c, "cancelled")
  /\ Release(c)
  /\ UNCHANGED <<line, quarantined, op, threadVars, backendVars, cadVars>>

CancelledAfterDispatch(c) == GivesUp(c, "cancelled")

CancelledInLine(c) ==
  /\ pc[c] = "line"
  /\ \E i \in 1 .. Len(line) : line[i] = c /\ line' = Without(i)
  /\ Answer(c, "cancelled")
  /\ UNCHANGED <<holder, quarantined, op, threadVars, backendVars, cadVars>>

-----------------------------------------------------------------------------
(* AutoCAD and its user                                                    *)

CadRestarts ==
  /\ cad < MaxRestarts
  /\ cad' = cad + 1
  /\ marks' = [d \in Docs |-> 0]
  /\ active' \in Docs
  /\ UNCHANGED <<coordinatorVars, loopVars, threadVars, backendVars>>

UserSwitchesDrawing ==
  /\ active' \in Docs \ {active}
  /\ UNCHANGED <<coordinatorVars, loopVars, threadVars, backendVars, cad, marks>>

-----------------------------------------------------------------------------
Calling(c) ==
  \/ "read" \in Kinds /\ CallRead(c)
  \/ \E k \in Kinds \ {"read"} : CallRefused(c, k) \/ CallEnters(c, k) \/ CallWaits(c, k)

StaStep(c) ==
  \/ AppLostInTransaction(c) \/ AttachFails(c) \/ DrawingChanged(c) \/ JobStarts(c)
  \/ JobSucceeds(c) \/ JobFails(c) \/ RollbackTorn(c) \/ IntegrityFails(c)

NativeStep(c) == \E how \in Ended : NativeEnds(c, how)

LoopStep(c) ==
  \/ WaiterEnters(c) \/ WaiterRefused(c)
  \/ Returns(c) \/ TimesOut(c) \/ CancelledAfterDispatch(c) \/ CancelledInLine(c)

Next ==
  \/ \E c \in Calls : Calling(c) \/ StaStep(c) \/ NativeStep(c) \/ LoopStep(c)
  \/ CadRestarts
  \/ UserSwitchesDrawing

\* The event loop runs what is ready and its timers fire; a native call ends by
\* the pipe's deadline.  Nothing makes a COM call return.
Fairness ==
  \A c \in Calls :
    /\ WF_vars(WaiterEnters(c) \/ WaiterRefused(c))
    /\ WF_vars(Returns(c))
    /\ WF_vars(TimesOut(c))
    /\ WF_vars(NativeStep(c))

Spec == Init /\ [][Next]_vars /\ Fairness

-----------------------------------------------------------------------------
(* Properties                                                              *)

\* Values have their types; the depth is an integer because two commits that
\* both passed the check before the lock can take it below zero.
TypeOK ==
  /\ line \in Seq(Calls)
  /\ holder \in Calls \cup {None}
  /\ quarantined \in BOOLEAN
  /\ op \in [Calls -> AllKinds \cup {"none"}]
  /\ pc \in [Calls -> {"fresh", "line", "sent", "back"}]
  /\ told \in [Calls -> {"nothing", "refused", "timeout", "cancelled"} \cup Ended]
  /\ job \in [Calls -> {"none", "queued", "running"} \cup Ended]
  /\ sta \in Seq(Calls)
  /\ bound \in Docs \cup {None}
  /\ depth \in Int
  /\ timeoutUncertain \in BOOLEAN
  /\ integrity \in BOOLEAN
  /\ attached \in Nat \cup {None}
  /\ scope \in Docs \cup {None}
  /\ cad \in Nat
  /\ active \in Docs
  /\ marks \in [Docs -> Nat]

\* The mutations that were handed to a thread and have not ended.
Writing == {c \in Calls : op[c] \in Mutations /\ job[c] \in {"queued", "running"}}

Authority == INSTANCE FailStopWriter WITH writing <- Writing, shut <- quarantined

\* The two lanes together are one fail-stop writer: at most one mutation is with
\* AutoCAD, also when its caller has given up on it, and none is handed over once
\* a completion is unknown or an integrity check has failed.
FailStop == Authority!Spec

\* What a caller is told is true of the drawing: a refused mutation, or one that
\* was cancelled in the line, was never handed over; one that is reported as done
\* or as failed is no longer with AutoCAD, so only "unknown" leaves it open.
AnswersTruthful ==
  \A c \in Calls : op[c] \in Mutations =>
    /\ told[c] \in {"refused", "cancelled", "timeout"} => job[c] = "none"
    /\ told[c] \in {"ok", "error"} => job[c] = told[c]

\* Every call is answered, also when the STA hangs on a COM call for ever.
CallsReturn == \A c \in Calls : pc[c] # "fresh" ~> pc[c] = "back"

\* Nobody is using the backend, and it has not given up on AutoCAD or lost it.
Calm ==
  /\ InFlight = {} /\ sta = <<>>
  /\ ~quarantined
  /\ attached \in {None, cad}

\* The tracked depth is the number of undo marks that are open in the drawing the
\* backend is scoped to, no other drawing has one, and the depth is in its range:
\* what commit, rollback and the supervisor's safe-state check read.
DepthIsMarks ==
  Calm =>
    /\ depth \in 0 .. Limit
    /\ \A d \in Docs : marks[d] = IF d = scope THEN depth ELSE 0

\* An edit that takes effect while a transaction is tracked takes effect in a
\* drawing in which the transaction's undo mark is open: never in another
\* drawing the user went to, and never in an AutoCAD that was started since.
EditTakesEffect(c) == Running(c) /\ op[c] = "edit" /\ JobSucceeds(c)

EditsStayInTransaction ==
  [][\A c \in Calls : EditTakesEffect(c) /\ depth > 0 => marks[bound] > 0]_vars

-----------------------------------------------------------------------------
(* The inductive invariant behind FailStop and AnswersTruthful             *)

\* How far a coroutine has got tells what it has handed over, and a mutation
\* that waits for its result is the one that holds the lock.
CoroutinesInv ==
  \A c \in Calls :
    /\ pc[c] # "fresh" => op[c] # "none"
    /\ pc[c] = "line" => op[c] \in Mutations
    /\ pc[c] \in {"fresh", "line"} => job[c] = "none"
    /\ pc[c] # "back" => told[c] = "nothing"
    /\ pc[c] = "sent" /\ op[c] \in Mutations => holder = c

HolderInv == holder # None => pc[holder] = "sent" /\ op[holder] \in Mutations

\* A mutation that is with AutoCAD has the lock, or its caller gave up on it and
\* the quarantine took the place of the lock.
WritingInv ==
  /\ \A c \in Writing : quarantined \/ holder = c
  /\ \A c, d \in Writing : c = d

IInv == TypeOK /\ CoroutinesInv /\ HolderInv /\ WritingInv /\ AnswersTruthful

-----------------------------------------------------------------------------
(* The inductive invariant behind DepthIsMarks, for one client             *)

\* One call at a time: nobody waits in the line, and the thread works for the call in
\* progress or, under quarantine, for the last one that was given up.
OneAtATime ==
  /\ line = <<>>
  /\ \A c, d \in InFlight : c = d
  /\ sta # <<>> =>
       \E c \in Calls :
         /\ sta = <<c>> /\ InFlight \subseteq {c}
         /\ job[c] \in {"queued", "running"} /\ op[c] # "native"
         /\ c \in InFlight \/ quarantined

\* A begin that runs has counted its mark and not opened it; a commit that has closed
\* its mark still has it counted.
Opening == \E c \in Calls : Running(c) /\ op[c] = "begin"
Closing == \E c \in InFlight : job[c] = "ok" /\ op[c] \in {"commit", "rollback"}
OpenMarks == IF Opening \/ Closing THEN depth - 1 ELSE depth

\* Only the depth of a backend that is given up may be wrong.
InUse == ~quarantined \/ sta # <<>>

Pending(c, how) == (c \in InFlight \/ sta = <<c>>) /\ job[c] \in how

DepthInRange ==
  /\ depth \in 0 .. Limit
  /\ \A c \in Calls :
       /\ op[c] = "begin" /\ Pending(c, {"queued"}) => depth < Limit
       /\ op[c] = "begin" /\ Pending(c, {"running"}) => depth > 0
       /\ op[c] \in {"commit", "rollback"} /\ Pending(c, {"queued", "running", "ok"}) => depth > 0
       /\ op[c] = "new" /\ Pending(c, {"queued", "running", "ok"}) => depth = 0

MarksInScope ==
  /\ attached = None => depth = 0
  /\ OpenMarks > 0 => scope # None
  /\ \A d \in Docs : marks[d] = IF attached = cad /\ d = scope THEN OpenMarks ELSE 0

RunsInScope ==
  \A c \in Calls : Running(c) =>
    attached # None /\ bound \in Docs /\ (op[c] # "new" => bound = scope)

DepthInv ==
  /\ OneAtATime
  /\ "read" \notin {op[c] : c \in Calls}
  /\ attached # None => attached <= cad
  /\ InUse => DepthInRange /\ MarksInScope /\ RunsInScope

=============================================================================
