---------------------------- MODULE SplitHost ----------------------------
(***************************************************************************)
(* The split-host pilot: a provider that is restarted (RemoteAutoCAD-      *)
(* RuntimeAdapter, RemoteRuntimeTransport), its durable binding file       *)
(* (RuntimeBinding) and the workstation agent that executes its calls      *)
(* (WorkstationRuntimeAgent) behind an HTTP connection that loses requests *)
(* and answers.                                                            *)
(*                                                                         *)
(* The binding file holds the generation of the agent the provider is      *)
(* pinned to and a marker, pending, that is set before a mutation is sent  *)
(* and cleared when its outcome is known.  The agent runs a call in a      *)
(* thread and stops waiting for it at its deadline; the thread goes on.    *)
(***************************************************************************)
EXTENDS Naturals, FiniteSets

CONSTANTS Calls,         \* the tool calls a behaviour may contain
          None,
          Kinds,         \* the kinds of call that a run lets clients make
          MaxProviders,  \* bound: how often the provider is restarted
          MaxAgents,     \* bound: how often the agent is restarted
          SaveMayFail    \* writing the binding file may raise OSError

Mutations == {"com", "native"}
AllKinds == {"read"} \cup Mutations

ASSUME KindsAssumption == Kinds \subseteq AllKinds
ASSUME NoneAssumption == None \notin Calls
ASSUME BoundsAssumption == MaxProviders \in Nat /\ MaxAgents \in Nat /\ SaveMayFail \in BOOLEAN

VARIABLES kind,            \* what each call is, "none" before it is made
          pc,              \* its coroutine in the provider
          told,            \* what its caller was told
          heard,           \* the generation that _ensure_generation has just been told
          pinned,          \* _expected_generation, 0 when None
          holder,          \* who is inside writer("remote")
          quarantined,     \* the provider's coordinator is quarantined
          restarts,        \* how often the provider was restarted
          bindGeneration,  \* the binding file: its generation, 0 when there is no file
          bindPending,     \* and its marker
          net,             \* the exchange of a call: none, request or reply
          answer,          \* the error_code of its reply
          agent,           \* the generation of the agent that is alive
          dispatching,     \* who holds the agent's dispatch lock
          thread,          \* the thread of a call in the agent
          comQuarantined   \* the COM backend inside the agent is quarantined

providerVars == <<kind, pc, told, heard, pinned, holder, quarantined, restarts>>
bindingVars == <<bindGeneration, bindPending>>
netVars == <<net, answer>>
agentVars == <<agent, dispatching, thread, comQuarantined>>
vars == <<providerVars, bindingVars, netVars, agentVars>>

Init ==
  /\ kind = [c \in Calls |-> "none"]
  /\ pc = [c \in Calls |-> "fresh"]
  /\ told = [c \in Calls |-> "nothing"]
  /\ heard = 0
  /\ pinned = 0
  /\ holder = None
  /\ quarantined = FALSE
  /\ restarts = 0
  /\ bindGeneration = 0
  /\ bindPending = FALSE
  /\ net = [c \in Calls |-> "none"]
  /\ answer = [c \in Calls |-> "none"]
  /\ agent = 1
  /\ dispatching = None
  /\ thread = [c \in Calls |-> "none"]
  /\ comQuarantined = FALSE

Goes(c, where) == pc' = [pc EXCEPT ![c] = where]

Tell(c, what) ==
  /\ Goes(c, "back")
  /\ told' = [told EXCEPT ![c] = what]

Release(c) == holder' = IF holder = c THEN None ELSE holder

-----------------------------------------------------------------------------
(* _ensure_generation: the first call pins the agent's generation          *)

NobodyAsks == \A d \in Calls : pc[d] # "asking"

\* Mutant: without _generation_lock every early call asks and saves for itself.
MutantAsk(c) ==
  /\ pc[c] = "fresh" /\ pinned = 0
  /\ kind' = [kind EXCEPT ![c] = CHOOSE k \in Kinds : k # "read"]
  /\ heard' = agent
  /\ Goes(c, "asking")
  /\ UNCHANGED <<told, pinned, holder, quarantined, restarts, bindingVars, netVars, agentVars>>

\* transport.health() answers, with _generation_lock held.
Ask(c) ==
  /\ pc[c] = "fresh" /\ pinned = 0 /\ NobodyAsks
  /\ \E k \in Kinds : kind' = [kind EXCEPT ![c] = k]
  /\ heard' = agent
  /\ Goes(c, "asking")
  /\ UNCHANGED <<told, pinned, holder, quarantined, restarts, bindingVars, netVars, agentVars>>

Pin(c) ==
  /\ pc[c] = "asking"
  /\ bindGeneration' = heard /\ bindPending' = FALSE
  /\ pinned' = heard
  /\ Goes(c, "ready")
  /\ UNCHANGED <<kind, told, heard, holder, quarantined, restarts, netVars, agentVars>>

\* The agent is down, or the file cannot be written (or only not made durable).
PinFails(c) ==
  /\ pc[c] = "asking"
  /\ \/ UNCHANGED bindingVars
     \/ SaveMayFail /\ bindGeneration' = heard /\ bindPending' = FALSE
  /\ Tell(c, "unavailable")
  /\ UNCHANGED <<kind, heard, pinned, holder, quarantined, restarts, netVars, agentVars>>

Make(c) ==
  /\ pc[c] = "fresh" /\ pinned # 0
  /\ \E k \in Kinds : kind' = [kind EXCEPT ![c] = k]
  /\ Goes(c, "ready")
  /\ UNCHANGED <<told, heard, pinned, holder, quarantined, restarts, bindingVars, netVars, agentVars>>

-----------------------------------------------------------------------------
(* _call and _dispatch_mutation: the marker, the request, the outcome      *)

Post(c) ==
  /\ Goes(c, "sent")
  /\ net' = [net EXCEPT ![c] = "request"]
  /\ UNCHANGED <<kind, told, heard, pinned, holder, quarantined, restarts, bindingVars, answer, agentVars>>

SendRead(c) == pc[c] = "ready" /\ kind[c] = "read" /\ Post(c)

Refuse(c) ==
  /\ pc[c] = "ready" /\ kind[c] \in Mutations
  /\ quarantined
  /\ Tell(c, "refused")
  /\ UNCHANGED <<kind, heard, pinned, holder, quarantined, restarts, bindingVars, netVars, agentVars>>

\* Mutant: the quarantine is not looked at.
MutantMayWrite(c) == pc[c] = "ready" /\ kind[c] \in Mutations /\ holder = None

MayWrite(c) == pc[c] = "ready" /\ kind[c] \in Mutations /\ ~quarantined /\ holder = None

\* The writer lock, and the marker before anything is sent.
Mark(c) ==
  /\ MayWrite(c)
  /\ holder' = c
  /\ bindPending' = TRUE
  /\ Goes(c, "marked")
  /\ UNCHANGED <<kind, told, heard, pinned, quarantined, restarts, bindGeneration, netVars, agentVars>>

MarkFails(c) ==
  /\ SaveMayFail
  /\ MayWrite(c)
  /\ bindPending' \in {bindPending, TRUE}
  /\ Tell(c, "unsaved")
  /\ UNCHANGED <<kind, heard, pinned, holder, quarantined, restarts, bindGeneration, netVars, agentVars>>

SendMutation(c) == pc[c] = "marked" /\ Post(c)

\* The marker is cleared, unless the file cannot be written.
ClearMarker ==
  /\ \/ bindPending' = FALSE
     \/ SaveMayFail /\ UNCHANGED bindPending
  /\ UNCHANGED bindGeneration

\* The preflight or the request itself finds the connection refused.
Unreachable(c) ==
  /\ pc[c] = "marked"
  /\ ClearMarker
  /\ Tell(c, "unavailable")
  /\ Release(c)
  /\ UNCHANGED <<kind, heard, pinned, quarantined, restarts, netVars, agentVars>>

Replied(c) == pc[c] = "sent" /\ net[c] = "reply"

\* The codes that _dispatch_mutation takes as proof that nothing was changed.
Clean == {"stale", "quarantined", "conflict"}

ReadReturns(c) ==
  /\ Replied(c) /\ kind[c] = "read"
  /\ Tell(c, answer[c])
  /\ UNCHANGED <<kind, heard, pinned, holder, quarantined, restarts, bindingVars, netVars, agentVars>>

OutcomeKnown(c) ==
  /\ Replied(c) /\ kind[c] \in Mutations
  /\ answer[c] \in Clean \cup {"ok"}
  /\ IF answer[c] = "ok" THEN bindPending' = FALSE /\ UNCHANGED bindGeneration ELSE ClearMarker
  /\ Tell(c, answer[c])
  /\ Release(c)
  /\ UNCHANGED <<kind, heard, pinned, quarantined, restarts, netVars, agentVars>>

\* The mutation is done but its completion cannot be saved: the marker is written
\* again, the writer quarantined.  Each of the two writes may have reached the disk.
CompletionNotSaved(c) ==
  /\ SaveMayFail
  /\ Replied(c) /\ kind[c] \in Mutations /\ answer[c] = "ok"
  /\ bindPending' \in BOOLEAN
  /\ quarantined' = TRUE
  /\ Tell(c, "unsaved")
  /\ Release(c)
  /\ UNCHANGED <<kind, heard, pinned, restarts, bindGeneration, netVars, agentVars>>

\* Nothing is known: the marker stays and the writer is quarantined.
GivesUp(c) ==
  /\ quarantined' = (quarantined \/ kind[c] \in Mutations)
  /\ Tell(c, "unknown")
  /\ Release(c)
  /\ UNCHANGED <<kind, heard, pinned, restarts, bindingVars, netVars, agentVars>>

OutcomeUnknown(c) ==
  /\ Replied(c) /\ kind[c] \in Mutations
  /\ answer[c] \in {"uncertain", "error"}
  /\ GivesUp(c)

\* A timeout, a reset or an unreadable answer, whatever became of the request.
ConnectionLost(c) == pc[c] = "sent" /\ GivesUp(c)

Cancelled(c) == pc[c] = "marked" /\ GivesUp(c)

\* A new provider reads the binding file; the calls of the old one are gone.
ProviderRestarts ==
  /\ restarts < MaxProviders
  /\ restarts' = restarts + 1
  /\ pc' = [c \in Calls |-> IF pc[c] \in {"fresh", "back"} THEN pc[c] ELSE "gone"]
  /\ holder' = None
  /\ pinned' = bindGeneration
  /\ quarantined' = bindPending
  /\ UNCHANGED <<kind, told, heard, bindingVars, netVars, agentVars>>

-----------------------------------------------------------------------------
(* The agent                                                               *)

Reply(c, code) ==
  /\ net' = [net EXCEPT ![c] = "reply"]
  /\ answer' = [answer EXCEPT ![c] = code]

StaleGeneration(c) ==
  /\ net[c] = "request" /\ thread[c] = "none"
  /\ pinned # agent
  /\ Reply(c, "stale")
  /\ UNCHANGED <<providerVars, bindingVars, agentVars>>

\* The generation is the pinned one and the dispatch lock is free.
Accepts(c) ==
  /\ net[c] = "request" /\ thread[c] = "none"
  /\ pinned = agent
  /\ dispatching = None

ComRefuses(c) ==
  /\ Accepts(c)
  /\ kind[c] = "com" /\ comQuarantined
  /\ Reply(c, "quarantined")
  /\ UNCHANGED <<providerVars, bindingVars, agentVars>>

Dispatch(c) ==
  /\ Accepts(c)
  /\ ~(kind[c] = "com" /\ comQuarantined)
  /\ dispatching' = c
  /\ thread' = [thread EXCEPT ![c] = "running"]
  /\ UNCHANGED <<providerVars, bindingVars, netVars, agent, comQuarantined>>

ThreadEnds(c) ==
  /\ thread[c] = "running"
  /\ thread' = [thread EXCEPT ![c] = "ended"]
  /\ dispatching' = None
  /\ UNCHANGED <<providerVars, bindingVars, agent>>

\* The call succeeds, refuses its precondition, fails, or cannot tell.
Finishes(c, code) == ThreadEnds(c) /\ Reply(c, code) /\ UNCHANGED comQuarantined

\* A read-back refutes a COM call: the agent's COM backend is quarantined, and
\* the StateConflictError goes over the wire as any other conflict.
IntegrityFails(c) ==
  /\ kind[c] # "native"
  /\ ThreadEnds(c)
  /\ Reply(c, "conflict")
  /\ comQuarantined' = TRUE

\* The deadline of _run_bounded, or the COM backend's own: the thread goes on.
Deadline(c) ==
  /\ thread[c] = "running"
  /\ thread' = [thread EXCEPT ![c] = "late"]
  /\ dispatching' = None
  /\ Reply(c, "uncertain")
  /\ comQuarantined' \in {comQuarantined, comQuarantined \/ kind[c] = "com"}
  /\ UNCHANGED <<providerVars, bindingVars, agent>>

LateEnds(c) ==
  /\ thread[c] = "late"
  /\ thread' = [thread EXCEPT ![c] = "ended"]
  /\ UNCHANGED <<providerVars, bindingVars, netVars, agent, dispatching, comQuarantined>>

AgentRestarts ==
  /\ agent <= MaxAgents
  /\ agent' = agent + 1
  /\ dispatching' = None
  /\ thread' = [c \in Calls |-> IF thread[c] \in {"running", "late"} THEN "ended" ELSE thread[c]]
  /\ comQuarantined' = FALSE
  /\ UNCHANGED <<providerVars, bindingVars, netVars>>

-----------------------------------------------------------------------------
ProviderStep(c) ==
  \/ Ask(c) \/ Pin(c) \/ PinFails(c) \/ Make(c)
  \/ SendRead(c) \/ Refuse(c) \/ Mark(c) \/ MarkFails(c) \/ SendMutation(c) \/ Unreachable(c)
  \/ ReadReturns(c) \/ OutcomeKnown(c) \/ CompletionNotSaved(c) \/ OutcomeUnknown(c)
  \/ ConnectionLost(c) \/ Cancelled(c)

AgentStep(c) ==
  \/ StaleGeneration(c) \/ ComRefuses(c) \/ Dispatch(c)
  \/ \E code \in {"ok", "conflict", "error", "uncertain"} : Finishes(c, code)
  \/ IntegrityFails(c) \/ Deadline(c) \/ LateEnds(c)

Next ==
  \/ \E c \in Calls : ProviderStep(c) \/ AgentStep(c)
  \/ ProviderRestarts
  \/ AgentRestarts

Spec == Init /\ [][Next]_vars

-----------------------------------------------------------------------------
(* Properties                                                              *)

TypeOK ==
  /\ kind \in [Calls -> AllKinds \cup {"none"}]
  /\ pc \in [Calls -> {"fresh", "asking", "ready", "marked", "sent", "back", "gone"}]
  /\ told \in [Calls -> {"nothing", "ok", "unavailable", "refused", "unsaved", "unknown", "error", "uncertain"} \cup Clean]
  /\ heard \in Nat /\ pinned \in Nat /\ restarts \in Nat /\ bindGeneration \in Nat /\ agent \in Nat
  /\ holder \in Calls \cup {None} /\ dispatching \in Calls \cup {None}
  /\ quarantined \in BOOLEAN /\ bindPending \in BOOLEAN /\ comQuarantined \in BOOLEAN
  /\ net \in [Calls -> {"none", "request", "reply"}]
  /\ answer \in [Calls -> {"none", "ok", "error", "uncertain"} \cup Clean]
  /\ thread \in [Calls -> {"none", "running", "late", "ended"}]

\* The mutations that were sent and whose outcome no provider has ever known.
Unresolved ==
  {c \in Calls : kind[c] \in Mutations /\ net[c] # "none" /\ told[c] \notin Clean \cup {"ok", "unsaved"}}

\* While the outcome of a mutation is unknown no other mutation is sent: not by
\* the provider that lost it, and not by one that was started after a crash at
\* any point between the marker, the request, the answer and the cleared marker.
NoBlindRetry == \A c, d \in Unresolved : c = d

\* A mutation of unknown outcome is marked on disk, so that a crash of the
\* provider at any time keeps the fence.
FenceIsDurable == Unresolved # {} => bindPending

\* The calls that are inside the native adapter.
Executing == {c \in Calls : thread[c] \in {"running", "late"}}

\* The agent never has two mutations inside AutoCAD, although it stops waiting
\* for a call at its deadline, hands the dispatch lock on, and keeps no quarantine.
WritersDoNotOverlap == \A c, d \in Executing : kind[c] \in Mutations /\ kind[d] \in Mutations => c = d

-----------------------------------------------------------------------------
(* The inductive invariant                                                 *)

\* How far a call has got tells what it has sent and whether it has the lock.
ProgressInv ==
  \A c \in Calls :
    /\ pc[c] \in {"fresh", "asking", "ready", "marked"} => net[c] = "none"
    /\ pc[c] # "back" => told[c] = "nothing"
    /\ pc[c] = "marked" => kind[c] \in Mutations
    /\ pc[c] \in {"marked", "sent"} /\ kind[c] \in Mutations => holder = c

HolderInv ==
  holder # None =>
    /\ pc[holder] \in {"marked", "sent"} /\ kind[holder] \in Mutations
    /\ bindPending /\ ~quarantined

\* Nothing is sent before the generation is pinned, and one call pins it: the
\* file that it writes without a marker never hides one.
PinInv ==
  /\ \A c \in Calls : pc[c] \in {"ready", "marked", "sent"} \/ net[c] # "none" => pinned # 0
  /\ agent # 0
  /\ \A c \in Calls : pc[c] = "asking" => pinned = 0 /\ heard # 0
  /\ \A c, d \in Calls : pc[c] = "asking" /\ pc[d] = "asking" => c = d
  /\ pinned # 0 => bindGeneration = pinned

\* What callers were told is what the agent answered, and an answer other than
\* "uncertain" is given when the thread has ended.
AnswerInv ==
  \A c \in Calls :
    /\ kind[c] \in Mutations /\ told[c] \in Clean \cup {"ok"} => net[c] = "reply" /\ answer[c] = told[c]
    /\ kind[c] \in Mutations /\ told[c] = "unsaved" => net[c] = "none" \/ (net[c] = "reply" /\ answer[c] = "ok")
    /\ net[c] = "reply" => answer[c] # "none"
    /\ thread[c] = "running" => net[c] = "request"
    /\ thread[c] = "late" => net[c] = "reply" /\ answer[c] = "uncertain"

FenceInv == \A c \in Unresolved : bindPending /\ (holder = c \/ quarantined)

IInv == TypeOK /\ ProgressInv /\ HolderInv /\ PinInv /\ AnswerInv /\ FenceInv /\ NoBlindRetry
=============================================================================
