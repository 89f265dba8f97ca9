------------------------------- MODULE HotReload -------------------------------
(***************************************************************************)
(* The hot reload supervisor (hot_reload.py ReloadSupervisor) with the      *)
(* subprocess launcher, the health probe and the source watcher of          *)
(* supervisor.py: it owns one authoritative worker generation and replaces  *)
(* it behind a closed gate.  Each action is what the coroutine that holds   *)
(* the reload lock does between two awaits.  What the public requests do    *)
(* with their leases is in SupervisorProxy.                                 *)
(***************************************************************************)
EXTENDS Naturals

CONSTANTS
  Request,         \* public HTTP requests
  Sta,             \* those that execute on the STA thread of a COM worker; the others
                   \* execute in ezdxf worker threads or native mutation threads
  MaxGenerations,  \* bound on worker generations
  MaxDeaths,       \* bound on workers that die by themselves
  StopMayFail,     \* may launcher.stop raise (the process outlives kill and the wait)?
  MayExit          \* may the server be told to exit in the middle of a reload?

ASSUME GenerationsAssumption == MaxGenerations \in Nat \ {0}
ASSUME StaAssumption == Sta \subseteq Request
ASSUME FailureAssumption == MaxDeaths \in Nat /\ StopMayFail \in BOOLEAN /\ MayExit \in BOOLEAN

VARIABLES
  step,       \* where the owner of the reload lock is; "idle" when the lock is free
  current,    \* the authoritative generation, or 0
  old,        \* the generation a reload replaces
  candidate,  \* the generation a reload has started, or 0
  accepting,  \* is the gate open?
  next,       \* next_generation
  proc,       \* proc[g]: the worker process; "doomed" is killed but not yet gone
  watcher,    \* the source watcher task
  deaths,
  raised,     \* has launcher.stop ever raised?
  lease,      \* lease[r]: the generation request r holds a lease on, or 0
  inbox,      \* inbox[g]: requests the worker of generation g has been sent and not begun
  work        \* work[g]: requests the worker of generation g executes

reloadVars == <<step, current, old, candidate, accepting, next, watcher>>
workerVars == <<proc, deaths, raised>>
requestVars == <<lease, inbox, work>>
supervisorVars == <<reloadVars, workerVars, requestVars>>

Gen == 1 .. MaxGenerations
Step == {"off", "bootStartup", "bootStop", "idle", "startup", "drain", "oldHealth",
         "candidateHealth", "stopOld", "stopCandidate", "shutdownDrain", "shutdownStop",
         "exited"}

HotReloadTypeOK ==
  /\ step \in Step
  /\ current \in {0} \cup Gen /\ old \in {0} \cup Gen /\ candidate \in {0} \cup Gen
  /\ accepting \in BOOLEAN /\ next \in Nat \ {0}
  /\ proc \in [Gen -> {"none", "alive", "doomed", "dead"}]
  /\ watcher \in {"off", "running", "dead", "cancelled"}
  /\ deaths \in Nat /\ raised \in BOOLEAN
  /\ lease \in [Request -> {0} \cup Gen]
  /\ inbox \in [Gen -> SUBSET Request] /\ work \in [Gen -> SUBSET Request]

HotReloadInit ==
  /\ step = "off" /\ current = 0 /\ old = 0 /\ candidate = 0
  /\ accepting = FALSE /\ next = 1
  /\ proc = [g \in Gen |-> "none"] /\ watcher = "off" /\ deaths = 0 /\ raised = FALSE
  /\ lease = [r \in Request |-> 0]
  /\ inbox = [g \in Gen |-> {}] /\ work = [g \in Gen |-> {}]

-----------------------------------------------------------------------------
(* Workers *)

Running(g) == g # 0 /\ proc[g] \in {"alive", "doomed"}
Active(g) == {r \in Request : lease[r] = g}     \* active_counts of generation g
Held(g) == inbox[g] \cup work[g]

\* launcher.start: the generation number is used up even when Popen raises.
Spawn ==
  /\ next \in Gen /\ next' = next + 1
  /\ candidate' = next /\ proc' = [proc EXCEPT ![next] = "alive"]

Dies(g) ==
  /\ proc' = [proc EXCEPT ![g] = "dead"]
  /\ inbox' = [inbox EXCEPT ![g] = {}] /\ work' = [work EXCEPT ![g] = {}]

Kill(g) == Dies(g) /\ UNCHANGED raised

\* stop raises: the process outlived terminate, kill and both waits.
StopRaises(g) ==
  /\ StopMayFail /\ Running(g)
  /\ proc' = [proc EXCEPT ![g] = "doomed"] /\ raised' = TRUE
  /\ UNCHANGED <<inbox, work>>

WorkerDies(g) ==
  /\ \/ proc[g] = "alive" /\ deaths < MaxDeaths /\ deaths' = deaths + 1
     \/ proc[g] = "doomed" /\ UNCHANGED deaths
  /\ Dies(g)
  /\ UNCHANGED <<reloadVars, raised, lease>>

-----------------------------------------------------------------------------
(* bootstrap *)

BootStart ==
  /\ step = "off"
  /\ Spawn /\ step' = "bootStartup"
  /\ UNCHANGED <<current, old, accepting, watcher, deaths, raised, requestVars>>

BootReady ==
  /\ step = "bootStartup" /\ Running(candidate)
  /\ current' = candidate /\ accepting' = TRUE /\ watcher' = "running"
  /\ candidate' = 0 /\ step' = "idle"
  /\ UNCHANGED <<old, next, workerVars, requestVars>>

BootUnhealthy ==
  /\ step = "bootStartup" /\ step' = "bootStop"
  /\ UNCHANGED <<current, old, candidate, accepting, next, watcher, workerVars, requestVars>>

BootStop ==
  /\ step = "bootStop" /\ step' = "exited"
  /\ Kill(candidate) \/ StopRaises(candidate)
  /\ UNCHANGED <<current, old, candidate, accepting, next, watcher, deaths, lease>>

-----------------------------------------------------------------------------
(* reload *)

\* The watcher saw a new source build and takes the reload lock.
ReloadStart ==
  /\ step = "idle" /\ watcher = "running"
  /\ Spawn /\ step' = "startup" /\ old' = current
  /\ UNCHANGED <<current, accepting, watcher, deaths, raised, requestVars>>

\* Popen raises, or no port is free: the failed reload ends where it began.
ReloadCannotStart ==
  /\ step = "idle" /\ watcher = "running"
  /\ next \in Gen /\ next' = next + 1
  /\ old' = current /\ accepting' = TRUE
  /\ UNCHANGED <<step, current, candidate, watcher, workerVars, requestVars>>

\* Startup health is proven: new requests are fenced off.
CandidateStarted ==
  /\ step = "startup" /\ Running(candidate)
  /\ accepting' = FALSE /\ step' = "drain"
  /\ UNCHANGED <<current, old, candidate, next, watcher, workerVars, requestVars>>

\* Mutant of Drained: the drain does not wait for the leases.
MutantDrained ==
  /\ step = "drain"
  /\ step' = "oldHealth"
  /\ UNCHANGED <<current, old, candidate, accepting, next, watcher, workerVars, requestVars>>

Drained ==
  /\ step = "drain" /\ Active(old) = {}
  /\ step' = "oldHealth"
  /\ UNCHANGED <<current, old, candidate, accepting, next, watcher, workerVars, requestVars>>

\* The activation probe of the old generation finds it safe.  On the COM backend it
\* asks document_info, which waits behind a call on the STA thread.  It waits neither
\* for a native mutation, nor for a mutation in the writer's line, nor on the ezdxf
\* backend for anything, and a call that merely runs is not among what makes a state
\* uncertain: the old generation may still be at work.
OldSafe ==
  /\ step = "oldHealth" /\ Running(old) /\ work[old] \cap Sta = {}
  /\ step' = "candidateHealth"
  /\ UNCHANGED <<current, old, candidate, accepting, next, watcher, workerVars, requestVars>>

Promote ==
  /\ step = "candidateHealth" /\ Running(candidate)
  /\ current' = candidate /\ accepting' = TRUE /\ step' = "stopOld"
  /\ UNCHANGED <<old, candidate, next, watcher, workerVars, requestVars>>

\* Mutant of StopOld: the worker that is current by now is stopped.
MutantStopOld ==
  /\ step = "stopOld" /\ Kill(current)
  /\ step' = "idle" /\ candidate' = 0
  /\ UNCHANGED <<current, old, accepting, next, watcher, deaths, lease>>

StopOld ==
  /\ step = "stopOld" /\ Kill(old)
  /\ step' = "idle" /\ candidate' = 0
  /\ UNCHANGED <<current, old, accepting, next, watcher, deaths, lease>>

\* Any failure on the way leads to _fail_reload.
ReloadFails ==
  /\ \/ step \in {"startup", "oldHealth", "candidateHealth"}
     \/ step = "drain" /\ Active(old) # {}      \* DRAIN_TIMEOUT
  /\ step' = "stopCandidate"
  /\ UNCHANGED <<current, old, candidate, accepting, next, watcher, workerVars, requestVars>>

StopOldRaises ==
  /\ step = "stopOld" /\ StopRaises(old)
  /\ step' = "stopCandidate"
  /\ UNCHANGED <<current, old, candidate, accepting, next, watcher, deaths, lease>>

\* Mutant of FailReload: the gate stays as the fence left it.
MutantFailReload ==
  /\ step = "stopCandidate" /\ Kill(candidate)
  /\ current' = old /\ candidate' = 0 /\ step' = "idle"
  /\ UNCHANGED <<old, accepting, next, watcher, deaths, lease>>

\* _fail_reload: stops the candidate, reinstates the old generation, opens the gate.
FailReload ==
  /\ step = "stopCandidate" /\ Kill(candidate)
  /\ current' = old /\ accepting' = TRUE /\ candidate' = 0 /\ step' = "idle"
  /\ UNCHANGED <<old, next, watcher, deaths, lease>>

\* The exception leaves reload and ends the watcher task.
FailReloadRaises ==
  /\ step = "stopCandidate" /\ StopRaises(candidate)
  /\ step' = "idle" /\ watcher' = "dead"
  /\ UNCHANGED <<current, old, candidate, accepting, next, deaths, lease>>

-----------------------------------------------------------------------------
(* The end of _serve: the watcher is cancelled, then shutdown takes the lock *)

Reloading == step \in {"startup", "drain", "oldHealth", "candidateHealth", "stopOld", "stopCandidate"}

\* A stop that is cancelled has already sent its terminate.
ServeEnds ==
  /\ step = "idle" \/ (MayExit /\ Reloading)
  /\ watcher' = "cancelled"
  /\ accepting' = FALSE /\ step' = "shutdownDrain"
  /\ CASE step = "stopOld" -> Kill(old)
       [] step = "stopCandidate" -> Kill(candidate)
       [] OTHER -> UNCHANGED <<proc, raised, inbox, work>>
  /\ UNCHANGED <<current, old, candidate, next, deaths, lease>>

ShutdownDrained ==
  /\ step = "shutdownDrain" /\ Active(current) = {}
  /\ step' = "shutdownStop"
  /\ UNCHANGED <<current, old, candidate, accepting, next, watcher, workerVars, requestVars>>

ShutdownTimesOut ==
  /\ step = "shutdownDrain" /\ Active(current) # {}
  /\ step' = "exited"
  /\ UNCHANGED <<current, old, candidate, accepting, next, watcher, workerVars, requestVars>>

ShutdownStop ==
  /\ step = "shutdownStop" /\ step' = "exited"
  /\ \/ Kill(current) /\ current' = 0
     \/ StopRaises(current) /\ UNCHANGED current
  /\ UNCHANGED <<old, candidate, accepting, next, watcher, deaths, lease>>

-----------------------------------------------------------------------------
(* Leases *)

\* Mutant of AcquireLease: a lease is given whether or not the gate is open.
MutantAcquireLease(r) ==
  /\ current # 0
  /\ lease' = [lease EXCEPT ![r] = current]

AcquireLease(r) ==
  /\ accepting /\ current # 0
  /\ lease' = [lease EXCEPT ![r] = current]

ReleaseLease(r) == lease' = [lease EXCEPT ![r] = 0]

\* What the supervisor does once started, unless an exception stops it.
Progress ==
  \/ BootReady \/ BootUnhealthy \/ BootStop
  \/ CandidateStarted \/ Drained \/ OldSafe \/ Promote \/ StopOld
  \/ ReloadFails \/ FailReload
  \/ ShutdownDrained \/ ShutdownTimesOut \/ ShutdownStop

SupervisorStep ==
  \/ Progress
  \/ BootStart \/ ReloadStart \/ ReloadCannotStart
  \/ StopOldRaises \/ FailReloadRaises
  \/ ServeEnds
  \/ \E g \in Gen : WorkerDies(g)

=============================================================================
