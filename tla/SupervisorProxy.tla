---------------------------- MODULE SupervisorProxy ----------------------------
(***************************************************************************)
(* The public facade of the supervised deployment (supervisor.py            *)
(* SupervisorProxyApp): admission, one lease per request, the upstream      *)
(* budget, and the workers that execute what they were sent whether or not  *)
(* somebody still waits.                                                    *)
(***************************************************************************)
EXTENDS HotReload, FiniteSets

CONSTANT MaxConcurrent   \* max_concurrent_requests

ASSUME ConcurrentAssumption == MaxConcurrent \in Nat \ {0}
ASSUME RequestAssumption == IsFiniteSet(Request)

VARIABLES
  rq,        \* rq[r]: what the proxy does for request r
  inflight   \* _inflight_requests

proxyVars == <<rq, inflight>>
vars == <<supervisorVars, proxyVars>>

RequestState == {"new", "reading", "sent", "done"}

TypeOK ==
  /\ HotReloadTypeOK
  /\ rq \in [Request -> RequestState]
  /\ inflight \in Nat

Init == HotReloadInit /\ rq = [r \in Request |-> "new"] /\ inflight = 0

Becomes(r, s) == rq' = [rq EXCEPT ![r] = s]

\* The admission check; the body is read only afterwards.
Admit(r) ==
  /\ rq[r] = "new" /\ watcher \in {"running", "dead"}     \* server.serve()
  /\ \/ inflight < MaxConcurrent /\ Becomes(r, "reading")
     \/ inflight >= MaxConcurrent /\ Becomes(r, "done")      \* 503 concurrency_limit_exceeded
  /\ UNCHANGED <<supervisorVars, inflight>>

\* The body is complete: the request is counted, takes its lease and is sent.
Forward(r) ==
  /\ rq[r] = "reading"
  /\ AcquireLease(r) /\ Becomes(r, "sent") /\ inflight' = inflight + 1
  /\ IF Running(current) THEN inbox' = [inbox EXCEPT ![current] = @ \cup {r}] ELSE UNCHANGED inbox
  /\ UNCHANGED <<reloadVars, workerVars, work>>

\* 413 request_too_large, or 503 reload_in_progress while the gate is closed.
Refuse(r) ==
  /\ rq[r] = "reading" /\ Becomes(r, "done")
  /\ UNCHANGED <<supervisorVars, inflight>>

\* The proxy is through with the request and gives its lease back.
GiveUp(r) ==
  /\ rq[r] = "sent" /\ Becomes(r, "done")
  /\ ReleaseLease(r) /\ inflight' = inflight - 1
  /\ UNCHANGED <<reloadVars, workerVars, inbox>>

Answered(r) ==
  /\ lease[r] # 0 /\ r \in work[lease[r]]
  /\ work' = [work EXCEPT ![lease[r]] = @ \ {r}]
  /\ GiveUp(r)

\* 504 upstream_timeout: the worker goes on.
TimedOut(r) == GiveUp(r) /\ UNCHANGED work

\* 502 active_worker_unavailable.
WorkerGone(r) == ~Running(lease[r]) /\ GiveUp(r) /\ UNCHANGED work

\* The worker begins to execute a request, whether or not the proxy still waits.
Execute(r) ==
  \E g \in Gen :
    /\ r \in inbox[g]
    /\ inbox' = [inbox EXCEPT ![g] = @ \ {r}]
    /\ work' = [work EXCEPT ![g] = @ \cup {r}]
    /\ UNCHANGED <<reloadVars, workerVars, lease, proxyVars>>

\* The worker ends a call nobody waits for any more.
AbandonedEnds(r) ==
  \E g \in Gen :
    /\ r \in work[g] /\ lease[r] # g
    /\ work' = [work EXCEPT ![g] = @ \ {r}]
    /\ UNCHANGED <<reloadVars, workerVars, lease, inbox, proxyVars>>

RequestStep(r) ==
  \/ Admit(r) \/ Forward(r) \/ Refuse(r) \/ Execute(r) \/ Answered(r)
  \/ TimedOut(r) \/ WorkerGone(r) \/ AbandonedEnds(r)

Next ==
  \/ SupervisorStep /\ UNCHANGED proxyVars
  \/ \E r \in Request : RequestStep(r)

Spec == Init /\ [][Next]_vars

\* Every await of the supervisor ends: probes, drains and stops have timeouts.
FairSpec == Spec /\ WF_vars(Progress /\ UNCHANGED proxyVars)

-----------------------------------------------------------------------------
(* Properties *)

\* T11 and the title of hot_reload.py ("single-writer generation fencing"): two
\* generations never execute requests at the same time.  The code does not keep this:
\* a 504 gives the lease back while the worker goes on, and the activation probe does
\* not see a call that runs outside the STA thread (_mutation_state_uncertain).
OneGenerationExecutes == \A g, h \in Gen : work[g] # {} /\ work[h] # {} => g = h

\* What holds instead: besides the authoritative generation only the one it replaced
\* may hold requests, all of them given up by the proxy, and, unless a stop has
\* raised, only between its replacement and its stop (reload, lines 225-235).
FormerOnlyFinishes ==
  \A g \in Gen : Held(g) # {} /\ g # current =>
    /\ g = old /\ \A r \in Held(g) : lease[r] # g
    /\ raised \/ step = "stopOld"

\* Once drained, no request holds a lease on a running worker until the gate
\* opens again: what the activation probes found stays true (reload, lines 220-226).
FenceHolds ==
  step \in {"oldHealth", "candidateHealth"} => \A r \in Request : ~Running(lease[r])

\* The supervisor never stops a worker on which a request holds a lease: a
\* reload and a shutdown cost no client its answer (_wait_for_drain), unless a stop
\* has raised.
NoRequestCut ==
  [][\A g \in Gen :
       proc[g] = "alive" /\ proc'[g] # "alive" /\ deaths' = deaths /\ ~raised => Active(g) = {}]_vars

\* While the gate is open the authoritative worker runs and is not being killed,
\* unless a worker died by itself or a stop has raised (T11: a failed candidate
\* "preserves last healthy generation").
GateLeadsToWorker == accepting /\ deaths = 0 /\ ~raised => current # 0 /\ proc[current] = "alive"

\* Between two reloads only the authoritative worker runs: a failed candidate is
\* stopped, and so is a replaced generation (_fail_reload, reload line 235).
NoLeak == step = "idle" => \A g \in Gen : Running(g) => g = current

\* A gate closed for a drain opens again, for the new generation or the old one,
\* unless the server exits or stopping the failed candidate raises, which ends the
\* watcher (reload ends in a promotion or in _fail_reload).
GateReopens == (step = "drain") ~> (accepting \/ watcher \in {"cancelled", "dead"})

Holders == {r \in Request : lease[r] # 0}

\* The workers behind the proxy implement one authority that changes hands only
\* when nobody waits for an answer of its holder.
Abstract == INSTANCE SingleAuthority WITH
  MaySeize <- StopMayFail,
  owner <- current,
  waits <- {e \in Gen \X Request : lease[e[2]] = e[1] /\ Running(e[1])},
  late <- {e \in Gen \X Request : e[2] \in Held(e[1]) /\ lease[e[2]] # e[1]}
AuthoritySpec == Abstract!AuthoritySpec

-----------------------------------------------------------------------------
(* The inductive invariant behind the proofs *)

\* Generations that do not exist yet and dead ones execute nothing.
GenerationsInv ==
  /\ current < next /\ old < next /\ candidate < next
  /\ \A r \in Request : lease[r] < next
  /\ \A g \in Gen : g >= next => proc[g] = "none"
  /\ \A g \in Gen : ~Running(g) => Held(g) = {}

\* Leases on running workers are on the authoritative one; only it and the one it
\* replaced hold requests, and before a reload and up to its promotion only it does.
AuthorityInv ==
  /\ \A r \in Request : Running(lease[r]) => lease[r] = current
  /\ \A g \in Gen : Held(g) # {} => g \in {current, old}
  /\ (step = "idle" /\ watcher = "running") \/ step \in {"startup", "drain", "oldHealth", "candidateHealth"} =>
       \A g \in Gen : Held(g) # {} => g = current

\* What holds at each point of a reload.
ReloadInv ==
  /\ step \in {"off", "bootStartup", "bootStop"} => current = 0 /\ old = 0
  /\ step \in {"bootStartup", "bootStop", "startup", "drain", "oldHealth", "candidateHealth"} =>
       candidate # 0
  /\ Reloading \/ step \in {"idle", "shutdownDrain", "shutdownStop"} => current # 0
  /\ step \in {"startup", "drain", "oldHealth", "candidateHealth"} =>
       old = current /\ candidate # current
  /\ step \in {"drain", "oldHealth", "candidateHealth"} => ~accepting
  /\ step \in {"oldHealth", "candidateHealth", "shutdownStop"} =>
       \A r \in Request : ~Running(lease[r])
  /\ step = "stopOld" => candidate = current /\ old # current /\ old # 0
  /\ step = "stopCandidate" => candidate # 0 /\ old # 0 /\ old # candidate /\ current \in {old, candidate}
  /\ step \in {"shutdownDrain", "shutdownStop", "exited"} => ~accepting
  /\ accepting => current # 0

\* The counter of the admission check counts the leases.
CountInv ==
  /\ inflight = Cardinality(Holders)
  /\ \A r \in Request : lease[r] # 0 <=> rq[r] = "sent"

\* What more holds until a stop raises.
StopsSucceedInv ==
  /\ \A g \in Gen : proc[g] # "doomed"
  /\ step = "stopCandidate" => current = old
  /\ deaths = 0 /\ current # 0 => proc[current] = "alive"
  /\ step = "off" => \A g \in Gen : ~Running(g)
  /\ step = "bootStartup" => \A g \in Gen : Running(g) => g = candidate
  /\ NoLeak
  /\ step \in {"startup", "drain", "oldHealth", "candidateHealth", "stopCandidate"} =>
       \A g \in Gen : Running(g) => g \in {current, candidate}
  /\ step = "stopOld" => \A g \in Gen : Running(g) => g \in {current, old}
  /\ step # "stopOld" => \A g \in Gen : Held(g) # {} => g = current

IInv ==
  /\ TypeOK /\ GenerationsInv /\ AuthorityInv /\ ReloadInv /\ CountInv
  /\ raised => StopMayFail
  /\ raised \/ StopsSucceedInv

=============================================================================
