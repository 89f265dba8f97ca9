--------------------------- MODULE SupervisorProofs ---------------------------
(***************************************************************************)
(* Proofs about SupervisorProxy, for every set of requests and every number *)
(* of generations and deaths.                                               *)
(***************************************************************************)
EXTENDS SupervisorProxy, FiniteSetTheorems, TLAPS

-----------------------------------------------------------------------------
(* The invariant holds at the start and is kept by every step *)

LEMMA InitInv == Init => IInv
<1> SUFFICES ASSUME Init PROVE IInv
  OBVIOUS
<1>1. TypeOK
  <2>1. step \in Step /\ watcher \in {"off", "running", "dead", "cancelled"}
    BY DEF Init, HotReloadInit, Step
  <2>2. /\ proc \in [Gen -> {"none", "alive", "doomed", "dead"}]
        /\ inbox \in [Gen -> SUBSET Request] /\ work \in [Gen -> SUBSET Request]
    BY DEF Init, HotReloadInit
  <2>3. lease \in [Request -> {0} \cup Gen] /\ rq \in [Request -> RequestState]
    BY DEF Init, HotReloadInit, RequestState
  <2>4. /\ current \in {0} \cup Gen /\ old \in {0} \cup Gen /\ candidate \in {0} \cup Gen
        /\ next \in Nat \ {0} /\ deaths \in Nat /\ inflight \in Nat
    BY DEF Init, HotReloadInit
  <2>5. accepting \in BOOLEAN /\ raised \in BOOLEAN
    BY DEF Init, HotReloadInit
  <2> QED BY <2>1, <2>2, <2>3, <2>4, <2>5 DEF TypeOK, HotReloadTypeOK
<1>2. GenerationsInv /\ AuthorityInv /\ ReloadInv
  <2>1. \A g \in Gen : Held(g) = {}
    BY DEF Init, HotReloadInit, Held
  <2>2. GenerationsInv
    BY <2>1, GenerationsAssumption DEF Init, HotReloadInit, GenerationsInv, Gen
  <2>3. AuthorityInv
    BY <2>1 DEF Init, HotReloadInit, AuthorityInv, Running
  <2>4. ReloadInv
    BY DEF Init, HotReloadInit, ReloadInv, Reloading
  <2> QED BY <2>2, <2>3, <2>4
<1>3. StopsSucceedInv /\ ~raised
  <2>1. \A g \in Gen : Held(g) = {} /\ ~Running(g)
    BY DEF Init, HotReloadInit, Held, Running
  <2> QED BY <2>1 DEF Init, HotReloadInit, StopsSucceedInv, NoLeak
<1>4. CountInv
  <2>1. Holders = {}
    BY DEF Init, HotReloadInit, Holders
  <2> QED BY <2>1, FS_EmptySet DEF Init, HotReloadInit, CountInv
<1> QED BY <1>1, <1>2, <1>3, <1>4 DEF IInv

LEMMA SameCount ==
  ASSUME CountInv, UNCHANGED <<lease, rq, inflight>>
  PROVE  CountInv'
<1>1. Holders' = Holders
  BY DEF Holders
<1> QED BY <1>1 DEF CountInv

LEMMA KillTypes ==
  ASSUME TypeOK, NEW g, Kill(g) \/ StopRaises(g) \/ UNCHANGED <<proc, raised, inbox, work>>
  PROVE  /\ proc' \in [Gen -> {"none", "alive", "doomed", "dead"}] /\ raised' \in BOOLEAN
         /\ inbox' \in [Gen -> SUBSET Request] /\ work' \in [Gen -> SUBSET Request]
BY DEF TypeOK, HotReloadTypeOK, Kill, Dies, StopRaises

LEMMA KillEmpties ==
  ASSUME TypeOK, NEW g \in Gen, Dies(g)
  PROVE  /\ Held(g)' = {} /\ proc'[g] = "dead"
         /\ \A h \in Gen : Held(h)' \subseteq Held(h) /\ (h # g => proc'[h] = proc[h])
BY DEF TypeOK, HotReloadTypeOK, Dies, Held

LEMMA BootstrapKeepsInv ==
  ASSUME IInv, BootStart \/ BootReady \/ BootUnhealthy \/ BootStop, UNCHANGED proxyVars
  PROVE  IInv'
<1>0. CountInv'
  <2>1. UNCHANGED <<lease, rq, inflight>>
    BY DEF proxyVars, BootStart, BootReady, BootUnhealthy, BootStop, Spawn, requestVars
  <2> QED BY <2>1, SameCount DEF IInv
<1> USE GenerationsAssumption
    DEF IInv, TypeOK, HotReloadTypeOK, GenerationsInv, AuthorityInv, ReloadInv, Reloading, StopsSucceedInv,
        NoLeak, Running, Gen, Step, requestVars, workerVars, proxyVars, Held
<1>1. CASE BootStart
  <2>1. TypeOK' BY <1>0, <1>1 DEF BootStart, Spawn
  <2>2. GenerationsInv' BY <1>0, <1>1 DEF BootStart, Spawn
  <2>3. AuthorityInv' BY <1>0, <1>1 DEF BootStart, Spawn
  <2>4. ReloadInv' BY <1>0, <1>1 DEF BootStart, Spawn
  <2>5. (raised => StopMayFail)' /\ (raised \/ StopsSucceedInv)' BY <1>0, <1>1 DEF BootStart, Spawn
  <2> QED BY <1>0, <2>1, <2>2, <2>3, <2>4, <2>5
<1>2. CASE BootReady BY <1>0, <1>2 DEF BootReady
<1>3. CASE BootUnhealthy BY <1>0, <1>3 DEF BootUnhealthy
<1>4. CASE BootStop
  <2>1. TypeOK'
    <3>1. /\ proc' \in [Gen -> {"none", "alive", "doomed", "dead"}] /\ raised' \in BOOLEAN
          /\ inbox' \in [Gen -> SUBSET Request] /\ work' \in [Gen -> SUBSET Request]
      BY <1>4, KillTypes DEF BootStop
    <3>2. step' \in Step
      BY <1>4 DEF BootStop
    <3>3. UNCHANGED <<current, old, candidate, accepting, next, watcher, deaths, lease, rq, inflight>>
      BY <1>4 DEF BootStop
    <3> QED BY <3>1, <3>2, <3>3
  <2>2. GenerationsInv'
    <3>1. CASE Kill(candidate) BY <1>4, <3>1 DEF BootStop, Kill, Dies
    <3>2. CASE StopRaises(candidate) BY <1>4, <3>2 DEF BootStop, StopRaises
    <3> QED BY <1>4, <3>1, <3>2 DEF BootStop
  <2>3. AuthorityInv' BY <1>0, <1>4 DEF BootStop, Kill, Dies, StopRaises
  <2>4. ReloadInv' BY <1>0, <1>4 DEF BootStop, Kill, Dies, StopRaises
  <2>5. (raised => StopMayFail)' /\ (raised \/ StopsSucceedInv)'
    <3>1. CASE Kill(candidate) BY <1>4, <3>1 DEF BootStop, Kill, Dies
    <3>2. CASE StopRaises(candidate) BY <1>4, <3>2 DEF BootStop, StopRaises
    <3> QED BY <1>4, <3>1, <3>2 DEF BootStop
  <2> QED BY <1>0, <2>1, <2>2, <2>3, <2>4, <2>5
<1> QED BY <1>1, <1>2, <1>3, <1>4

LEMMA ReloadKeepsInv ==
  ASSUME IInv, UNCHANGED proxyVars,
         \/ ReloadStart \/ ReloadCannotStart \/ CandidateStarted \/ Drained \/ OldSafe \/ Promote
         \/ StopOld \/ ReloadFails \/ StopOldRaises \/ FailReload \/ FailReloadRaises
  PROVE  IInv'
<1>0. CountInv'
  <2>1. UNCHANGED <<lease, rq, inflight>>
    BY DEF proxyVars, ReloadStart, ReloadCannotStart, CandidateStarted, Drained, OldSafe, Promote, StopOld,
         ReloadFails, StopOldRaises, FailReload, FailReloadRaises, requestVars
  <2> QED BY <2>1, SameCount DEF IInv
<1> USE GenerationsAssumption
    DEF IInv, TypeOK, HotReloadTypeOK, GenerationsInv, AuthorityInv, ReloadInv, Reloading, StopsSucceedInv,
        NoLeak, Running, Gen, Step, requestVars, workerVars, proxyVars, Held
<1>1. CASE ReloadStart
  <2>1. TypeOK' BY <1>0, <1>1 DEF ReloadStart, Spawn
  <2>2. GenerationsInv' BY <1>0, <1>1 DEF ReloadStart, Spawn
  <2>3. AuthorityInv' BY <1>0, <1>1 DEF ReloadStart, Spawn
  <2>4. ReloadInv' BY <1>0, <1>1 DEF ReloadStart, Spawn
  <2>5. (raised => StopMayFail)' /\ (raised \/ StopsSucceedInv)' BY <1>0, <1>1 DEF ReloadStart, Spawn
  <2> QED BY <1>0, <2>1, <2>2, <2>3, <2>4, <2>5
<1>2. CASE ReloadCannotStart BY <1>0, <1>2 DEF ReloadCannotStart
<1>3. CASE CandidateStarted BY <1>0, <1>3 DEF CandidateStarted
<1>4. CASE Drained BY <1>0, <1>4 DEF Drained, Active
<1>5. CASE OldSafe BY <1>0, <1>5 DEF OldSafe
<1>6. CASE Promote BY <1>0, <1>6 DEF Promote
<1>7. CASE StopOld
  <2>1. TypeOK' BY <1>0, <1>7 DEF StopOld, Kill, Dies
  <2>2. GenerationsInv' BY <1>0, <1>7 DEF StopOld, Kill, Dies
  <2>3. AuthorityInv' BY <1>0, <1>7 DEF StopOld, Kill, Dies
  <2>4. ReloadInv' BY <1>0, <1>7 DEF StopOld, Kill, Dies
  <2>5. (raised => StopMayFail)' /\ (raised \/ StopsSucceedInv)' BY <1>0, <1>7 DEF StopOld, Kill, Dies
  <2> QED BY <1>0, <2>1, <2>2, <2>3, <2>4, <2>5
<1>8. CASE ReloadFails BY <1>0, <1>8 DEF ReloadFails
<1>9. CASE StopOldRaises BY <1>0, <1>9 DEF StopOldRaises, StopRaises
<1>10. CASE FailReload BY <1>0, <1>10 DEF FailReload, Kill, Dies
<1>11. CASE FailReloadRaises BY <1>0, <1>11 DEF FailReloadRaises, StopRaises
<1> QED BY <1>1, <1>2, <1>3, <1>4, <1>5, <1>6, <1>7, <1>8, <1>9, <1>10, <1>11

LEMMA EndKeepsInv ==
  ASSUME IInv, UNCHANGED proxyVars,
         \/ ServeEnds \/ ShutdownDrained \/ ShutdownTimesOut \/ ShutdownStop
         \/ \E g \in Gen : WorkerDies(g)
  PROVE  IInv'
<1>0. CountInv'
  <2>1. UNCHANGED <<lease, rq, inflight>>
    BY DEF proxyVars, ServeEnds, ShutdownDrained, ShutdownTimesOut, ShutdownStop, WorkerDies, requestVars
  <2> QED BY <2>1, SameCount DEF IInv
<1> USE GenerationsAssumption
    DEF IInv, TypeOK, HotReloadTypeOK, GenerationsInv, AuthorityInv, ReloadInv, Reloading, StopsSucceedInv,
        NoLeak, Running, Gen, Step, requestVars, workerVars, proxyVars, Held
<1>1. CASE ServeEnds
  <2>1. /\ step = "idle" \/ Reloading
        /\ watcher' = "cancelled" /\ accepting' = FALSE /\ step' = "shutdownDrain"
        /\ UNCHANGED <<current, old, candidate, next, deaths, lease, rq, inflight>>
    BY <1>0, <1>1 DEF ServeEnds
  <2>2. \/ step # "stopOld" /\ UNCHANGED <<proc, raised, inbox, work>>
        \/ step = "stopOld" /\ Kill(old)
        \/ step = "stopCandidate" /\ Kill(candidate)
    BY <1>0, <1>1 DEF ServeEnds
  <2>3. TypeOK'
    <3>1. \E g : Kill(g) \/ StopRaises(g) \/ UNCHANGED <<proc, raised, inbox, work>>
      BY <2>2
    <3>2. /\ proc' \in [Gen -> {"none", "alive", "doomed", "dead"}] /\ raised' \in BOOLEAN
          /\ inbox' \in [Gen -> SUBSET Request] /\ work' \in [Gen -> SUBSET Request]
      BY <3>1, KillTypes DEF IInv, TypeOK
    <3>3. /\ step' \in Step /\ accepting' \in BOOLEAN
          /\ watcher' \in {"off", "running", "dead", "cancelled"}
      BY <2>1
    <3> QED BY <2>1, <3>2, <3>3 DEF TypeOK, HotReloadTypeOK
  <2>4. GenerationsInv'
    <3>1. CASE UNCHANGED <<proc, raised, inbox, work>> BY <2>1, <3>1
    <3>2. CASE Kill(old) /\ step = "stopOld" BY <2>1, <3>2 DEF Kill, Dies
    <3>3. CASE Kill(candidate) /\ step = "stopCandidate" BY <2>1, <3>3 DEF Kill, Dies
    <3> QED BY <2>2, <3>1, <3>2, <3>3
  <2>5. AuthorityInv' BY <2>1, <2>2 DEF Kill, Dies
  <2>6. ReloadInv' BY <2>1
  <2>7. (raised => StopMayFail)' /\ (raised \/ StopsSucceedInv)'
    <3>1. CASE step # "stopOld" /\ UNCHANGED <<proc, raised, inbox, work>> BY <2>1, <3>1
    <3>2. CASE Kill(old) /\ step = "stopOld" BY <2>1, <3>2 DEF Kill, Dies
    <3>3. CASE Kill(candidate) /\ step = "stopCandidate" BY <2>1, <3>3 DEF Kill, Dies
    <3> QED BY <2>2, <3>1, <3>2, <3>3
  <2> QED BY <1>0, <2>3, <2>4, <2>5, <2>6, <2>7
<1>2. CASE ShutdownDrained BY <1>0, <1>2 DEF ShutdownDrained, Active
<1>3. CASE ShutdownTimesOut BY <1>0, <1>3 DEF ShutdownTimesOut
<1>4. CASE ShutdownStop
  <2>1. TypeOK'
    <3>1. /\ proc' \in [Gen -> {"none", "alive", "doomed", "dead"}] /\ raised' \in BOOLEAN
          /\ inbox' \in [Gen -> SUBSET Request] /\ work' \in [Gen -> SUBSET Request]
      BY <1>4, KillTypes DEF ShutdownStop
    <3>2. step' \in Step /\ current' \in {0} \cup Gen
      BY <1>4 DEF ShutdownStop
    <3>3. UNCHANGED <<old, candidate, accepting, next, watcher, deaths, lease, rq, inflight>>
      BY <1>4 DEF ShutdownStop
    <3> QED BY <3>1, <3>2, <3>3
  <2>2. GenerationsInv' BY <1>0, <1>4 DEF ShutdownStop, Kill, Dies, StopRaises
  <2>3. AuthorityInv' BY <1>0, <1>4 DEF ShutdownStop, Kill, Dies, StopRaises
  <2>4. ReloadInv' BY <1>0, <1>4 DEF ShutdownStop, Kill, Dies, StopRaises
  <2>5. (raised => StopMayFail)' /\ (raised \/ StopsSucceedInv)' BY <1>0, <1>4 DEF ShutdownStop, Kill, Dies, StopRaises
  <2> QED BY <1>0, <2>1, <2>2, <2>3, <2>4, <2>5
<1>5. ASSUME NEW g \in Gen, WorkerDies(g) PROVE IInv'
  <2>1. TypeOK' BY <1>0, <1>5 DEF WorkerDies, Dies, reloadVars
  <2>2. GenerationsInv' BY <1>0, <1>5 DEF WorkerDies, Dies, reloadVars
  <2>3. AuthorityInv' BY <1>0, <1>5 DEF WorkerDies, Dies, reloadVars
  <2>4. ReloadInv' BY <1>0, <1>5 DEF WorkerDies, Dies, reloadVars
  <2>5. (raised => StopMayFail)' /\ (raised \/ StopsSucceedInv)' BY <1>0, <1>5 DEF WorkerDies, Dies, reloadVars
  <2> QED BY <1>0, <2>1, <2>2, <2>3, <2>4, <2>5
<1> QED BY <1>1, <1>2, <1>3, <1>4, <1>5

LEMMA CountOfOneMore ==
  ASSUME TypeOK, CountInv, NEW r \in Request, lease[r] = 0, NEW g \in Gen,
         lease' = [lease EXCEPT ![r] = g], rq' = [rq EXCEPT ![r] = "sent"],
         inflight' = inflight + 1
  PROVE  CountInv'
<1>1. Holders' = Holders \cup {r} /\ r \notin Holders
  BY DEF Holders, TypeOK, HotReloadTypeOK, Gen
<1>2. IsFiniteSet(Holders)
  BY RequestAssumption, FS_Subset DEF Holders
<1>3. Cardinality(Holders') = Cardinality(Holders) + 1
  BY <1>1, <1>2, FS_AddElement
<1>4. \A q \in Request : lease'[q] # 0 <=> rq'[q] = "sent"
  BY DEF CountInv, TypeOK, HotReloadTypeOK, Gen
<1> QED BY <1>3, <1>4 DEF CountInv

LEMMA CountOfOneLess ==
  ASSUME TypeOK, CountInv, NEW r \in Request, GiveUp(r)
  PROVE  CountInv' /\ inflight' \in Nat
<1>1. Holders' = Holders \ {r} /\ r \in Holders
  BY DEF Holders, CountInv, TypeOK, HotReloadTypeOK, GiveUp, ReleaseLease
<1>2. IsFiniteSet(Holders)
  BY RequestAssumption, FS_Subset DEF Holders
<1>3. Cardinality(Holders') = Cardinality(Holders) - 1 /\ IsFiniteSet(Holders')
  BY <1>1, <1>2, FS_RemoveElement
<1>4. Cardinality(Holders') \in Nat
  BY <1>3, FS_CardinalityType
<1>5. \A q \in Request : lease'[q] # 0 <=> rq'[q] = "sent"
  BY DEF CountInv, TypeOK, HotReloadTypeOK, GiveUp, ReleaseLease, Becomes
<1> QED BY <1>3, <1>4, <1>5 DEF CountInv, GiveUp

LEMMA SupervisorSame ==
  ASSUME IInv, UNCHANGED supervisorVars
  PROVE  /\ HotReloadTypeOK' /\ GenerationsInv' /\ AuthorityInv' /\ ReloadInv'
         /\ (raised => StopMayFail)' /\ (raised \/ StopsSucceedInv)'
<1> USE DEF IInv, TypeOK, supervisorVars, reloadVars, workerVars, requestVars, Running, Held
<1>1. HotReloadTypeOK' BY DEF HotReloadTypeOK
<1>2. GenerationsInv' BY DEF GenerationsInv
<1>3. AuthorityInv' BY DEF AuthorityInv
<1>4. ReloadInv' BY DEF ReloadInv, Reloading
<1>5. (raised => StopMayFail)' /\ (raised \/ StopsSucceedInv)' BY DEF StopsSucceedInv, NoLeak
<1> QED BY <1>1, <1>2, <1>3, <1>4, <1>5

\* A step of the proxy or of a worker touches leases and requests only.
LEMMA RequestsOnly ==
  ASSUME IInv, UNCHANGED <<reloadVars, workerVars>>, CountInv', inflight' \in Nat,
         rq' \in [Request -> RequestState], lease' \in [Request -> {0} \cup Gen],
         inbox' \in [Gen -> SUBSET Request], work' \in [Gen -> SUBSET Request],
         \A r \in Request : lease'[r] \in {0, lease[r]} \/ (accepting /\ lease'[r] = current),
         \A g \in Gen : Held(g)' # {} => Held(g) # {} \/ (accepting /\ g = current /\ Running(g))
  PROVE  IInv'
<1> USE DEF reloadVars, workerVars, Running
<1>1. TypeOK'
  BY DEF IInv, TypeOK, HotReloadTypeOK
<1>2. GenerationsInv'
  <2>1. \A r \in Request : lease'[r] < next
    BY GenerationsAssumption DEF IInv, GenerationsInv, TypeOK, HotReloadTypeOK, Gen
  <2>2. \A g \in Gen : ~Running(g) => Held(g)' = {}
    BY DEF IInv, GenerationsInv
  <2> QED BY <2>1, <2>2 DEF IInv, GenerationsInv
<1>3. AuthorityInv'
  <2>1. \A r \in Request : Running(lease'[r]) => lease'[r] = current
    BY DEF IInv, AuthorityInv
  <2>2. \A g \in Gen : Held(g)' # {} => g \in {current, old}
    BY DEF IInv, AuthorityInv
  <2>3. (step = "idle" /\ watcher = "running") \/ step \in {"startup", "drain", "oldHealth", "candidateHealth"} =>
          \A g \in Gen : Held(g)' # {} => g = current
    BY DEF IInv, AuthorityInv
  <2> QED BY <2>1, <2>2, <2>3 DEF AuthorityInv
<1>4. ReloadInv'
  <2>1. step \in {"oldHealth", "candidateHealth", "shutdownStop"} =>
          \A r \in Request : ~Running(lease'[r])
    BY DEF IInv, ReloadInv
  <2> QED BY <2>1 DEF IInv, ReloadInv, Reloading
<1>5. (raised => StopMayFail)' /\ (raised \/ StopsSucceedInv)'
  BY DEF IInv, StopsSucceedInv, NoLeak
<1> QED BY <1>1, <1>2, <1>3, <1>4, <1>5 DEF IInv

LEMMA RequestsKeepInv ==
  ASSUME IInv, NEW r \in Request, RequestStep(r)
  PROVE  IInv'
<1>1. CASE Admit(r) \/ Refuse(r)
  <2>1. UNCHANGED <<supervisorVars, inflight>> /\ rq[r] \in {"new", "reading"}
    BY <1>1 DEF Admit, Refuse
  <2>2. rq' = [rq EXCEPT ![r] = "reading"] \/ rq' = [rq EXCEPT ![r] = "done"]
    BY <1>1 DEF Admit, Refuse, Becomes
  <2>3. Holders' = Holders
    BY <2>1 DEF Holders, supervisorVars, requestVars
  <2>4. CountInv'
    BY <2>1, <2>2, <2>3 DEF CountInv, IInv, TypeOK, supervisorVars, requestVars
  <2>5. TypeOK'
    BY <2>1, <2>2, SupervisorSame DEF IInv, TypeOK, RequestState
  <2> QED BY <2>1, <2>4, <2>5, SupervisorSame DEF IInv
<1> USE DEF IInv, TypeOK, HotReloadTypeOK
<1>2. CASE Forward(r)
  <2>1. /\ accepting /\ current \in Gen
        /\ lease' = [lease EXCEPT ![r] = current] /\ rq' = [rq EXCEPT ![r] = "sent"]
        /\ inflight' = inflight + 1
        /\ UNCHANGED <<reloadVars, workerVars, work>>
    BY <1>2 DEF Forward, AcquireLease, Becomes
  <2>2. CountInv'
    BY <1>2, <2>1, CountOfOneMore DEF Forward, CountInv
  <2>3. inbox' \in [Gen -> SUBSET Request]
    BY <1>2 DEF Forward
  <2>4. \A g \in Gen : Held(g)' # {} => Held(g) # {} \/ (accepting /\ g = current /\ Running(g))
    <3>1. CASE Running(current) /\ inbox' = [inbox EXCEPT ![current] = @ \cup {r}]
      BY <2>1, <3>1 DEF Held
    <3>2. CASE UNCHANGED inbox
      BY <2>1, <3>2 DEF Held
    <3> QED BY <1>2, <3>1, <3>2 DEF Forward
  <2>5. rq' \in [Request -> RequestState] /\ inflight' \in Nat
    BY <2>1 DEF RequestState
  <2> QED BY <2>1, <2>2, <2>3, <2>4, <2>5, RequestsOnly
<1>4. CASE Execute(r) \/ AbandonedEnds(r)
  <2>1. CountInv' BY <1>4, SameCount DEF Execute, AbandonedEnds, proxyVars
  <2>2. PICK g \in Gen :
           \/ /\ r \in inbox[g] /\ inbox' = [inbox EXCEPT ![g] = @ \ {r}]
              /\ work' = [work EXCEPT ![g] = @ \cup {r}]
           \/ work' = [work EXCEPT ![g] = @ \ {r}] /\ UNCHANGED inbox
    BY <1>4 DEF Execute, AbandonedEnds
  <2>3. UNCHANGED <<reloadVars, workerVars, lease, rq, inflight>>
    BY <1>4 DEF Execute, AbandonedEnds, proxyVars
  <2>4. inbox' \in [Gen -> SUBSET Request] /\ work' \in [Gen -> SUBSET Request]
    BY <2>2
  <2>5. \A h \in Gen : Held(h)' # {} => Held(h) # {}
    BY <2>2 DEF Held
  <2> QED BY <2>1, <2>3, <2>4, <2>5, RequestsOnly
<1>5. CASE Answered(r) \/ TimedOut(r) \/ WorkerGone(r)
  <2>1. GiveUp(r)
    BY <1>5 DEF Answered, TimedOut, WorkerGone
  <2>2. CountInv' /\ inflight' \in Nat
    BY <2>1, CountOfOneLess
  <2>3. UNCHANGED inbox /\ (UNCHANGED work \/ work' = [work EXCEPT ![lease[r]] = @ \ {r}])
    BY <1>5 DEF Answered, TimedOut, WorkerGone, GiveUp
  <2>4. work' \in [Gen -> SUBSET Request] /\ \A g \in Gen : Held(g)' \subseteq Held(g)
    BY <2>3 DEF Held
  <2>5. /\ UNCHANGED <<reloadVars, workerVars>> /\ rq' \in [Request -> RequestState]
        /\ lease' = [lease EXCEPT ![r] = 0]
    BY <2>1 DEF GiveUp, ReleaseLease, Becomes, RequestState
  <2> QED BY <2>2, <2>3, <2>4, <2>5, RequestsOnly
<1> QED BY <1>1, <1>2, <1>4, <1>5 DEF RequestStep

LEMMA StutteringKeepsInv ==
  ASSUME IInv, UNCHANGED vars
  PROVE  IInv'
<1>1. CountInv' BY SameCount DEF IInv, vars, supervisorVars, requestVars, proxyVars
<1>2. TypeOK' BY DEF IInv, TypeOK, HotReloadTypeOK, vars, supervisorVars, reloadVars, workerVars, requestVars, proxyVars
<1> QED BY <1>1, <1>2, SupervisorSame DEF IInv, vars

THEOREM Invariance == Spec => []IInv
<1>1. Init => IInv
  BY InitInv
<1>2. IInv /\ [Next]_vars => IInv'
  BY BootstrapKeepsInv, ReloadKeepsInv, EndKeepsInv, RequestsKeepInv, StutteringKeepsInv
     DEF Next, SupervisorStep, Progress
<1> QED BY <1>1, <1>2, PTL DEF Spec

-----------------------------------------------------------------------------
(* The properties *)

\* Every variable of the supervisor and the proxy keeps its type.
THEOREM TypeCorrectness == Spec => []TypeOK
<1>1. IInv => TypeOK
  BY DEF IInv
<1> QED BY <1>1, Invariance, PTL

\* Besides the authoritative generation only the one it replaced holds requests, all
\* of them given up, and, unless a stop has raised, only until it is stopped.
THEOREM FormerFinishes == Spec => []FormerOnlyFinishes
<1>1. IInv => FormerOnlyFinishes
  <2> SUFFICES ASSUME IInv, NEW g \in Gen, Held(g) # {}, g # current
      PROVE  /\ g = old /\ \A r \in Held(g) : lease[r] # g
             /\ raised \/ step = "stopOld"
    BY DEF FormerOnlyFinishes
  <2> USE DEF IInv, TypeOK, HotReloadTypeOK
  <2>1. g = old /\ Running(g)
    BY DEF AuthorityInv, GenerationsInv
  <2>2. \A r \in Held(g) : lease[r] # g
    BY <2>1 DEF AuthorityInv, Held
  <2>3. CASE ~raised
    <3>1. StopsSucceedInv
      BY <2>3
    <3> QED BY <2>1, <2>2, <3>1 DEF StopsSucceedInv
  <2> QED BY <2>1, <2>2, <2>3
<1> QED BY <1>1, Invariance, PTL

\* What the activation probes found stays true until the promotion.
THEOREM Fenced == Spec => []FenceHolds
<1>1. IInv => FenceHolds
  BY DEF IInv, ReloadInv, FenceHolds
<1> QED BY <1>1, Invariance, PTL

\* An open gate leads to a live worker unless one died by itself or a stop raised.
THEOREM OpenGate == Spec => []GateLeadsToWorker
<1>1. IInv => GateLeadsToWorker
  BY DEF IInv, ReloadInv, Reloading, StopsSucceedInv, GateLeadsToWorker
<1> QED BY <1>1, Invariance, PTL

\* When stops succeed, only the authoritative worker runs between two reloads.
THEOREM NothingLeaks == ~StopMayFail => (Spec => []NoLeak)
<1> SUFFICES ASSUME ~StopMayFail PROVE Spec => []NoLeak
  OBVIOUS
<1>1. IInv => NoLeak
  BY DEF IInv, StopsSucceedInv
<1> QED BY <1>1, Invariance, PTL

-----------------------------------------------------------------------------
(* Steps *)

\* Until a stop raises, the supervisor kills only workers without leases.
LEMMA KillsAreGuarded ==
  ASSUME IInv, ~raised, SupervisorStep, NEW g \in Gen, proc[g] = "alive", proc'[g] # "alive",
         deaths' = deaths
  PROVE  Active(g) = {}
<1> USE DEF IInv, TypeOK, HotReloadTypeOK
<1>1. ASSUME g # current PROVE Active(g) = {}
  BY <1>1 DEF AuthorityInv, Active, Running, Gen
<1>2. ASSUME NEW h \in Gen, h # current, Kill(h) \/ StopRaises(h) PROVE Active(g) = {}
  BY <1>1, <1>2 DEF Kill, Dies, StopRaises
<1>3. CASE BootStart \/ ReloadStart
  BY <1>3 DEF BootStart, ReloadStart, Spawn, GenerationsInv, Gen
<1>4. CASE BootStop
  <2>1. candidate \in Gen /\ candidate # current
    BY <1>4 DEF BootStop, ReloadInv, Gen
  <2> QED BY <1>4, <2>1, <1>2 DEF BootStop
<1>5. CASE StopOld \/ StopOldRaises
  <2>1. old \in Gen /\ old # current
    BY <1>5 DEF StopOld, StopOldRaises, ReloadInv, Gen
  <2> QED BY <1>5, <2>1, <1>2 DEF StopOld, StopOldRaises
<1>6. CASE FailReload \/ FailReloadRaises
  <2>1. StopsSucceedInv
    OBVIOUS
  <2>2. candidate \in Gen /\ candidate # current
    BY <1>6, <2>1 DEF FailReload, FailReloadRaises, ReloadInv, StopsSucceedInv, Gen
  <2> QED BY <1>6, <2>2, <1>2 DEF FailReload, FailReloadRaises
<1>7. CASE ServeEnds
  <2>1. StopsSucceedInv
    OBVIOUS
  <2>2. CASE step = "stopOld"
    <3>1. old \in Gen /\ old # current /\ Kill(old)
      BY <1>7, <2>2 DEF ServeEnds, ReloadInv, Gen
    <3> QED BY <3>1, <1>2
  <2>3. CASE step = "stopCandidate"
    <3>1. candidate \in Gen /\ candidate # current /\ Kill(candidate)
      BY <1>7, <2>1, <2>3 DEF ServeEnds, ReloadInv, StopsSucceedInv, Gen
    <3> QED BY <3>1, <1>2
  <2> QED BY <1>7, <2>2, <2>3 DEF ServeEnds
<1>8. CASE ShutdownStop
  BY <1>1, <1>8 DEF ShutdownStop, ReloadInv, Active, Running
<1>9. ASSUME NEW h \in Gen, WorkerDies(h) PROVE Active(g) = {}
  BY <1>9 DEF WorkerDies, Dies, StopsSucceedInv
<1>10. CASE UNCHANGED proc
  BY <1>10
<1> QED
  BY <1>3, <1>4, <1>5, <1>6, <1>7, <1>8, <1>9, <1>10
     DEF SupervisorStep, Progress, BootReady, BootUnhealthy, ReloadCannotStart, CandidateStarted,
         Drained, OldSafe, Promote, ReloadFails, ShutdownDrained, ShutdownTimesOut, workerVars

\* The supervisor never stops a worker on which a request holds a lease, unless a
\* stop has raised.
THEOREM NobodyIsCut == Spec => NoRequestCut
<1> DEFINE Cut == \A g \in Gen :
             proc[g] = "alive" /\ proc'[g] # "alive" /\ deaths' = deaths /\ ~raised => Active(g) = {}
<1>1. IInv /\ [Next]_vars => [Cut]_vars
  <2> SUFFICES ASSUME IInv, Next PROVE Cut
    BY DEF vars, supervisorVars, workerVars
  <2>1. CASE SupervisorStep
    BY <2>1, KillsAreGuarded
  <2>2. CASE ~SupervisorStep
    BY <2>2 DEF Next, RequestStep, Admit, Forward, Refuse, Execute, Answered, TimedOut, WorkerGone,
                AbandonedEnds, GiveUp, supervisorVars, workerVars
  <2> QED BY <2>1, <2>2
<1> QED BY <1>1, Invariance, PTL DEF Spec, NoRequestCut

-----------------------------------------------------------------------------
(* Refinement of SingleAuthority *)

Waits == {e \in Gen \X Request : lease[e[2]] = e[1] /\ Running(e[1])}
Late == {e \in Gen \X Request : e[2] \in Held(e[1]) /\ lease[e[2]] # e[1]}
AbstractStep == [Abstract!AuthorityNext]_(Abstract!authorityVars)

\* Leases and workers go, and what a worker still held under a lease becomes late.
LEMMA PartIsAbstract ==
  ASSUME IInv, UNCHANGED current,
         \A g \in Gen, r \in Request : lease'[r] = g /\ Running(g)' => lease[r] = g /\ Running(g),
         \A g \in Gen : Held(g)' \subseteq Held(g)
  PROVE  AbstractStep
<1>1. Waits' \in SUBSET Waits
  BY DEF Waits
<1>2. Late' \in SUBSET (Late \cup (Waits \ Waits'))
  <2> SUFFICES ASSUME NEW g \in Gen, NEW r \in Request, <<g, r>> \in Late', <<g, r>> \notin Late
      PROVE  <<g, r>> \in Waits /\ <<g, r>> \notin Waits'
    BY DEF Late
  <2>1. r \in Held(g) /\ lease[r] = g /\ lease'[r] # g
    BY DEF Late
  <2>2. Running(g)
    BY <2>1 DEF IInv, GenerationsInv
  <2> QED BY <2>1, <2>2 DEF Waits
<1>3. Abstract!Part
  BY <1>1, <1>2 DEF Abstract!Part, Waits, Late
<1> QED BY <1>3 DEF AbstractStep, Abstract!AuthorityNext

LEMMA HandIsAbstract ==
  ASSUME current' \in Gen, UNCHANGED <<lease, inbox, work, proc>>,
         \A r \in Request : ~Running(lease[r]), \A g \in Gen : Held(g) # {} => g = current
  PROVE  AbstractStep
<1>1. Waits = {} /\ Waits' = Waits
  BY DEF Waits, Running
<1>2. Late' = Late /\ \A e \in Late : e[1] = current
  BY DEF Late, Held
<1>3. Abstract!Hand(current')
  BY <1>1, <1>2 DEF Abstract!Hand, Waits, Late
<1> QED BY <1>3 DEF AbstractStep, Abstract!AuthorityNext

LEMMA SeizeIsAbstract ==
  ASSUME IInv, FailReload, current # old
  PROVE  AbstractStep
<1> USE DEF IInv, TypeOK, HotReloadTypeOK
<1>1. StopMayFail
  BY DEF FailReload, StopsSucceedInv
<1>2. /\ current \in Gen /\ old \in Gen /\ candidate = current /\ current' = old
      /\ Kill(current) /\ UNCHANGED lease
  BY DEF FailReload, ReloadInv, Gen
<1>3. Waits' = {}
  BY <1>2 DEF Waits, AuthorityInv, Running, Kill, Dies
<1>4. \A g \in Gen : Held(g)' = IF g = old THEN Held(g) ELSE {}
  BY <1>2 DEF AuthorityInv, Held, Kill, Dies
<1>5. Late' = {e \in Late : e[1] = old}
  BY <1>2, <1>4 DEF Late
<1> HIDE DEF IInv, TypeOK, HotReloadTypeOK
<1>6. PICK g \in Gen : g = old
  BY <1>2
<1>7. Abstract!Seize(g)
  BY <1>1, <1>2, <1>3, <1>5, <1>6 DEF Abstract!Seize, Waits, Late
<1> QED BY <1>7 DEF AbstractStep, Abstract!AuthorityNext

LEMMA AbdicateIsAbstract ==
  ASSUME IInv, step = "shutdownStop", Kill(current), current' = 0, UNCHANGED lease
  PROVE  AbstractStep
<1> USE DEF IInv, TypeOK, HotReloadTypeOK
<1>1. current \in Gen
  BY DEF ReloadInv, Gen
<1>2. Waits = {}
  BY DEF Waits, ReloadInv
<1>3. Waits' = {}
  BY <1>2 DEF Waits, Kill, Dies, Running
<1>4. \A g \in Gen : Held(g)' = IF g = current THEN {} ELSE Held(g)
  BY <1>1 DEF Held, Kill, Dies
<1>5. Late' = {e \in Late : e[1] # current}
  BY <1>4 DEF Late
<1>6. Abstract!Abdicate
  BY <1>2, <1>3, <1>5 DEF Abstract!Abdicate, Waits, Late
<1> QED BY <1>6 DEF AbstractStep, Abstract!AuthorityNext

LEMMA SupervisorIsAbstract ==
  ASSUME IInv, SupervisorStep
  PROVE  AbstractStep
<1> USE DEF IInv, TypeOK, HotReloadTypeOK
<1>1. CASE BootReady \/ Promote
  <2>1. \A g \in Gen : Held(g) # {} => g = current
    BY <1>1 DEF BootReady, Promote, AuthorityInv, ReloadInv, Gen
  <2>2. \A r \in Request : ~Running(lease[r])
    BY <1>1 DEF BootReady, Promote, AuthorityInv, ReloadInv, Running
  <2>3. current' \in Gen /\ UNCHANGED <<lease, inbox, work, proc>>
    BY <1>1 DEF BootReady, Promote, ReloadInv, requestVars, workerVars, Running
  <2> QED BY <2>1, <2>2, <2>3, HandIsAbstract
<1>2. CASE FailReload /\ current # old
  BY <1>2, SeizeIsAbstract
<1>3. CASE ShutdownStop /\ Kill(current) /\ current' = 0
  BY <1>3, AbdicateIsAbstract DEF ShutdownStop
<1>4. CASE BootStart \/ ReloadStart
  <2>1. /\ UNCHANGED <<current, lease, inbox, work>> /\ next \in Gen
        /\ proc' = [proc EXCEPT ![next] = "alive"]
    BY <1>4 DEF BootStart, ReloadStart, Spawn, requestVars
  <2>2. \A r \in Request : lease'[r] # next
    BY <2>1, GenerationsAssumption DEF GenerationsInv, Gen
  <2>3. \A g \in Gen, r \in Request : lease'[r] = g /\ Running(g)' => lease[r] = g /\ Running(g)
    BY <2>1, <2>2 DEF Running
  <2>4. \A g \in Gen : Held(g)' \subseteq Held(g)
    BY <2>1 DEF Held
  <2> QED BY <2>1, <2>3, <2>4, PartIsAbstract
<1>5. ASSUME UNCHANGED <<current, lease>>,
             \/ \E g : Dies(g) \/ StopRaises(g)
             \/ UNCHANGED <<proc, inbox, work>>
      PROVE  AbstractStep
  <2>1. \A g \in Gen : Running(g)' => Running(g)
    BY <1>5 DEF Dies, StopRaises, Running
  <2>2. \A g \in Gen : Held(g)' \subseteq Held(g)
    BY <1>5 DEF Dies, StopRaises, Held
  <2> QED BY <1>5, <2>1, <2>2, PartIsAbstract
<1>6. CASE \/ BootUnhealthy \/ ReloadCannotStart \/ CandidateStarted \/ Drained \/ OldSafe
           \/ ReloadFails \/ ShutdownDrained \/ ShutdownTimesOut
  <2>1. UNCHANGED <<current, lease, proc, inbox, work>>
    BY <1>6 DEF BootUnhealthy, ReloadCannotStart, CandidateStarted, Drained, OldSafe, ReloadFails,
                ShutdownDrained, ShutdownTimesOut, workerVars, requestVars
  <2> QED BY <2>1, <1>5
<1>7. CASE \/ BootStop \/ StopOld \/ StopOldRaises \/ FailReloadRaises
           \/ (FailReload /\ current = old) \/ ServeEnds
           \/ (ShutdownStop /\ ~(Kill(current) /\ current' = 0))
           \/ \E g \in Gen : WorkerDies(g)
  <2>1. UNCHANGED <<current, lease>>
    BY <1>7 DEF BootStop, StopOld, StopOldRaises, FailReload, FailReloadRaises, ServeEnds, ShutdownStop,
                WorkerDies, reloadVars
  <2>2. (\E g : Dies(g) \/ StopRaises(g)) \/ UNCHANGED <<proc, inbox, work>>
    BY <1>7 DEF BootStop, StopOld, StopOldRaises, FailReload, FailReloadRaises, ServeEnds, ShutdownStop,
                WorkerDies, Kill
  <2> QED BY <2>1, <2>2, <1>5
<1> QED BY <1>1, <1>2, <1>3, <1>4, <1>6, <1>7 DEF SupervisorStep, Progress

LEMMA SendIsAbstract ==
  ASSUME IInv, NEW r \in Request, Forward(r)
  PROVE  AbstractStep
<1> USE DEF IInv, TypeOK, HotReloadTypeOK
<1>1. /\ current \in Gen /\ lease[r] = 0 /\ lease' = [lease EXCEPT ![r] = current]
      /\ UNCHANGED <<current, proc, work>>
  BY DEF Forward, AcquireLease, CountInv, Gen, reloadVars, workerVars
<1>2. CASE Running(current)
  <2>1. inbox' = [inbox EXCEPT ![current] = @ \cup {r}]
    BY <1>2 DEF Forward
  <2>2. Waits' = Waits \cup {<<current, r>>}
    BY <1>1, <1>2 DEF Waits, Running, Gen
  <2>3. \A g \in Gen, q \in Request : q \in Held(g)' <=> q \in Held(g) \/ (g = current /\ q = r)
    BY <1>1, <2>1 DEF Held
  <2>4. Late' = Late \ {<<current, r>>}
    BY <1>1, <2>3 DEF Late, Gen
  <2>5. Abstract!Send(r)
    BY <1>1, <2>2, <2>4 DEF Abstract!Send, Waits, Late, Gen
  <2> QED BY <2>5 DEF AbstractStep, Abstract!AuthorityNext
<1>3. CASE ~Running(current)
  <2>1. \A g \in Gen : Held(g)' \subseteq Held(g)
    BY <1>1, <1>3 DEF Forward, Held
  <2>2. \A g \in Gen, q \in Request : lease'[q] = g /\ Running(g)' => lease[q] = g /\ Running(g)
    BY <1>1, <1>3 DEF Running
  <2> QED BY <1>1, <2>1, <2>2, PartIsAbstract
<1> QED BY <1>2, <1>3

LEMMA RequestIsAbstract ==
  ASSUME IInv, NEW r \in Request, RequestStep(r)
  PROVE  AbstractStep
<1> USE DEF IInv, TypeOK, HotReloadTypeOK
<1>1. CASE Execute(r)
  <2>1. UNCHANGED <<current, lease, proc>>
    BY <1>1 DEF Execute, reloadVars, workerVars
  <2>2. \A g \in Gen : Held(g)' \subseteq Held(g)
    BY <1>1 DEF Execute, Held
  <2> QED BY <2>1, <2>2, PartIsAbstract DEF Running
<1>2. CASE Admit(r) \/ Refuse(r) \/ AbandonedEnds(r)
  <2>1. UNCHANGED <<current, lease, proc>>
    BY <1>2 DEF Admit, Refuse, AbandonedEnds, supervisorVars, reloadVars, workerVars, requestVars
  <2>2. \A g \in Gen : Held(g)' \subseteq Held(g)
    BY <1>2 DEF Admit, Refuse, AbandonedEnds, supervisorVars, requestVars, Held
  <2> QED BY <2>1, <2>2, PartIsAbstract DEF Running
<1>3. CASE Answered(r) \/ TimedOut(r) \/ WorkerGone(r)
  <2>1. /\ UNCHANGED <<current, proc, inbox>> /\ lease' = [lease EXCEPT ![r] = 0]
        /\ UNCHANGED work \/ work' = [work EXCEPT ![lease[r]] = @ \ {r}]
    BY <1>3 DEF Answered, TimedOut, WorkerGone, GiveUp, ReleaseLease, reloadVars, workerVars
  <2>2. \A g \in Gen : Held(g)' \subseteq Held(g)
    BY <2>1 DEF Held
  <2>3. \A g \in Gen, q \in Request : lease'[q] = g /\ Running(g)' => lease[q] = g /\ Running(g)
    BY <2>1 DEF Running, Gen
  <2> QED BY <2>1, <2>2, <2>3, PartIsAbstract
<1> QED BY <1>1, <1>2, <1>3, SendIsAbstract DEF RequestStep

\* The supervised deployment implements one authority that changes hands only when
\* nobody waits for an answer of its holder; only after a stop has raised may it be
\* taken back by killing the holder.
THEOREM ImplementsAuthority == Spec => AuthoritySpec
<1>1. Init => Abstract!AuthorityInit
  <2> SUFFICES ASSUME Init PROVE current = 0 /\ Waits = {} /\ Late = {}
    BY DEF Abstract!AuthorityInit, Waits, Late
  <2> QED BY DEF Init, HotReloadInit, Waits, Late, Held, Running
<1>2. IInv /\ [Next]_vars => AbstractStep
  <2>1. CASE UNCHANGED vars
    BY <2>1 DEF vars, supervisorVars, reloadVars, workerVars, requestVars, AbstractStep,
                Abstract!authorityVars, Running, Held
  <2>2. ASSUME IInv, Next PROVE AbstractStep
    BY <2>2, SupervisorIsAbstract, RequestIsAbstract DEF Next
  <2> QED BY <2>1, <2>2
<1> QED BY <1>1, <1>2, Invariance, PTL DEF Spec, AuthoritySpec, Abstract!AuthoritySpec, AbstractStep

=============================================================================
