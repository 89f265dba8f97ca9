-------------------------- MODULE SplitHostProofs --------------------------
(***************************************************************************)
(* Proofs about SplitHost, for every number of calls and of restarts.      *)
(***************************************************************************)
EXTENDS SplitHost, TLAPS

LEMMA InitInv == Init => IInv
<1> SUFFICES ASSUME Init PROVE IInv
  OBVIOUS
<1>1. TypeOK
  BY DEF Init, TypeOK, AllKinds
<1>2. Unresolved = {}
  BY DEF Init, Unresolved
<1>3. ProgressInv /\ HolderInv /\ PinInv /\ AnswerInv
  BY DEF Init, ProgressInv, HolderInv, PinInv, AnswerInv, Mutations, Clean
<1> QED BY <1>1, <1>2, <1>3 DEF IInv, FenceInv, NoBlindRetry

-----------------------------------------------------------------------------
(* Types *)

LEMMA ProviderTypes ==
  ASSUME TypeOK, AnswerInv, NEW c \in Calls, ProviderStep(c)
  PROVE  TypeOK'
<1> USE KindsAssumption DEF TypeOK, AllKinds, Clean, Goes, Tell, Release, Post, GivesUp, ClearMarker, Replied,
        bindingVars, netVars, agentVars
<1>1. CASE Ask(c) BY <1>1 DEF Ask
<1>2. CASE Pin(c) BY <1>2 DEF Pin
<1>3. CASE PinFails(c) BY <1>3 DEF PinFails
<1>4. CASE Make(c) BY <1>4 DEF Make
<1>5. CASE SendRead(c) BY <1>5 DEF SendRead
<1>6. CASE Refuse(c) BY <1>6 DEF Refuse
<1>7. CASE Mark(c) BY <1>7 DEF Mark
<1>8. CASE MarkFails(c) BY <1>8 DEF MarkFails
<1>9. CASE SendMutation(c) BY <1>9 DEF SendMutation
<1>10. CASE Unreachable(c) BY <1>10 DEF Unreachable
<1>11. CASE ReadReturns(c) BY <1>11 DEF ReadReturns, AnswerInv
<1>12. CASE OutcomeKnown(c) BY <1>12 DEF OutcomeKnown
<1>13. CASE CompletionNotSaved(c) BY <1>13 DEF CompletionNotSaved
<1>14. ASSUME GivesUp(c) PROVE TypeOK'
  <2>1. quarantined' \in BOOLEAN
    BY <1>14, Zenon
  <2> QED BY <1>14, <2>1
<1> QED
  BY <1>1, <1>2, <1>3, <1>4, <1>5, <1>6, <1>7, <1>8, <1>9, <1>10, <1>11, <1>12, <1>13, <1>14
  DEF ProviderStep, OutcomeUnknown, ConnectionLost, Cancelled

LEMMA AgentTypes ==
  ASSUME TypeOK, NEW c \in Calls, AgentStep(c)
  PROVE  TypeOK'
<1> USE DEF TypeOK, Clean, Reply, Accepts, ThreadEnds, providerVars, bindingVars, netVars, agentVars
<1>1. CASE StaleGeneration(c) BY <1>1 DEF StaleGeneration
<1>2. CASE ComRefuses(c) BY <1>2 DEF ComRefuses
<1>3. CASE Dispatch(c) BY <1>3 DEF Dispatch
<1>4. ASSUME NEW code \in {"ok", "conflict", "error", "uncertain"}, Finishes(c, code) PROVE TypeOK'
  BY <1>4 DEF Finishes
<1>5. CASE IntegrityFails(c) BY <1>5 DEF IntegrityFails
<1>6. CASE Deadline(c)
  <2>1. comQuarantined' \in BOOLEAN
    BY <1>6, Zenon DEF Deadline
  <2> QED BY <1>6, <2>1 DEF Deadline
<1>7. CASE LateEnds(c) BY <1>7 DEF LateEnds
<1> QED BY <1>1, <1>2, <1>3, <1>4, <1>5, <1>6, <1>7 DEF AgentStep

LEMMA RestartTypes ==
  ASSUME TypeOK, ProviderRestarts \/ AgentRestarts
  PROVE  TypeOK'
<1>1. CASE ProviderRestarts
  BY <1>1 DEF ProviderRestarts, TypeOK, bindingVars, netVars, agentVars
<1>2. CASE AgentRestarts
  <2>1. thread' \in [Calls -> {"none", "running", "late", "ended"}]
    BY <1>2 DEF AgentRestarts, TypeOK
  <2>2. agent' \in Nat
    BY <1>2, BoundsAssumption DEF AgentRestarts, TypeOK
  <2>4. comQuarantined' \in BOOLEAN /\ dispatching' \in Calls \cup {None}
    BY <1>2, Zenon DEF AgentRestarts
  <2>3. UNCHANGED <<providerVars, bindingVars, netVars>>
    BY <1>2 DEF AgentRestarts
  <2> QED BY <2>1, <2>2, <2>3, <2>4 DEF TypeOK, providerVars, bindingVars, netVars
<1> QED BY <1>1, <1>2

-----------------------------------------------------------------------------
(* The unresolved mutations *)

Fenced == FenceInv /\ NoBlindRetry

\* The writer lock is free or its holder has not sent yet: then nothing that a
\* provider whose writer is not quarantined has sent is unresolved.
LEMMA NothingUnresolved ==
  ASSUME IInv, ~quarantined, holder = None \/ pc[holder] = "marked"
  PROVE  Unresolved = {}
BY NoneAssumption DEF IInv, TypeOK, FenceInv, ProgressInv, Unresolved

\* Nothing is sent before the generation is pinned.
LEMMA NothingSent ==
  ASSUME IInv, pinned = 0
  PROVE  Unresolved = {}
BY DEF IInv, PinInv, Unresolved

LEMMA NoneIsFenced ==
  ASSUME Unresolved' = {}
  PROVE  Fenced'
BY DEF Fenced, FenceInv, NoBlindRetry

-----------------------------------------------------------------------------
(* The provider's steps *)

LEMMA PinningKeepsInv ==
  ASSUME IInv, NEW c \in Calls, Ask(c) \/ Pin(c) \/ PinFails(c) \/ Make(c)
  PROVE  ProgressInv' /\ HolderInv' /\ PinInv' /\ AnswerInv' /\ Fenced'
<1> USE DEF IInv, TypeOK, Goes, Tell, bindingVars, netVars, agentVars
<1>1. CASE Ask(c)
  <2>1. Unresolved' = {}
    BY <1>1, NothingSent DEF Ask, Unresolved, PinInv, ProgressInv
  <2>2. ProgressInv'
    BY <1>1 DEF Ask, ProgressInv
  <2>3. HolderInv'
    BY <1>1 DEF Ask, HolderInv
  <2>4. PinInv'
    BY <1>1 DEF Ask, PinInv, ProgressInv, NobodyAsks
  <2>5. AnswerInv'
    BY <1>1 DEF Ask, AnswerInv, PinInv, ProgressInv, Clean
  <2> QED BY <2>1, <2>2, <2>3, <2>4, <2>5, NoneIsFenced
<1>2. CASE Pin(c)
  <2>1. Unresolved' = {}
    BY <1>2, NothingSent DEF Pin, Unresolved, PinInv, ProgressInv
  <2>2. ProgressInv'
    BY <1>2 DEF Pin, ProgressInv
  <2>3. HolderInv'
    BY <1>2, NoneAssumption DEF Pin, HolderInv, PinInv
  <2>4. PinInv'
    BY <1>2 DEF Pin, PinInv, ProgressInv
  <2>5. AnswerInv'
    BY <1>2 DEF Pin, AnswerInv
  <2> QED BY <2>1, <2>2, <2>3, <2>4, <2>5, NoneIsFenced
<1>3. CASE PinFails(c)
  <2>1. Unresolved' = {}
    BY <1>3, NothingSent DEF PinFails, Unresolved, PinInv, ProgressInv
  <2>2. ProgressInv'
    BY <1>3 DEF PinFails, ProgressInv
  <2>3. HolderInv'
    BY <1>3, NoneAssumption DEF PinFails, HolderInv, PinInv
  <2>4. PinInv'
    BY <1>3 DEF PinFails, PinInv, ProgressInv
  <2>5. AnswerInv'
    BY <1>3 DEF PinFails, AnswerInv, Clean
  <2> QED BY <2>1, <2>2, <2>3, <2>4, <2>5, NoneIsFenced
<1>4. CASE Make(c)
  <2>1. Unresolved' = Unresolved
    BY <1>4 DEF Make, Unresolved, ProgressInv
  <2>2. ProgressInv'
    BY <1>4 DEF Make, ProgressInv
  <2>3. HolderInv'
    BY <1>4 DEF Make, HolderInv
  <2>4. PinInv'
    BY <1>4 DEF Make, PinInv, ProgressInv
  <2>5. AnswerInv'
    BY <1>4 DEF Make, AnswerInv, ProgressInv, Clean
  <2>6. Fenced'
    BY <1>4, <2>1 DEF Make, Fenced, FenceInv, NoBlindRetry
  <2> QED BY <2>2, <2>3, <2>4, <2>5, <2>6
<1> QED BY <1>1, <1>2, <1>3, <1>4

\* Before a mutation is sent: only a holder of the lock writes the marker.
LEMMA SendingKeepsInv ==
  ASSUME IInv, NEW c \in Calls,
         SendRead(c) \/ Refuse(c) \/ Mark(c) \/ MarkFails(c) \/ SendMutation(c) \/ Unreachable(c)
  PROVE  ProgressInv' /\ HolderInv' /\ PinInv' /\ AnswerInv' /\ Fenced'
<1> USE DEF IInv, TypeOK, Goes, Tell, Post, bindingVars, netVars, agentVars
<1>1. CASE SendRead(c)
  <2>1. Unresolved' = Unresolved
    BY <1>1 DEF SendRead, Unresolved, Mutations
  <2>2. ProgressInv'
    BY <1>1 DEF SendRead, ProgressInv, Mutations
  <2>3. HolderInv'
    BY <1>1 DEF SendRead, HolderInv
  <2>4. PinInv'
    BY <1>1 DEF SendRead, PinInv
  <2>5. AnswerInv'
    BY <1>1 DEF SendRead, AnswerInv, ProgressInv, Clean, Mutations
  <2>6. Fenced'
    BY <1>1, <2>1 DEF SendRead, Fenced, FenceInv, NoBlindRetry
  <2> QED BY <2>2, <2>3, <2>4, <2>5, <2>6
<1>2. CASE Refuse(c)
  <2>1. Unresolved' = Unresolved
    BY <1>2 DEF Refuse, Unresolved, ProgressInv
  <2>2. ProgressInv'
    BY <1>2 DEF Refuse, ProgressInv
  <2>3. HolderInv'
    BY <1>2 DEF Refuse, HolderInv
  <2>4. PinInv'
    BY <1>2 DEF Refuse, PinInv
  <2>5. AnswerInv'
    BY <1>2 DEF Refuse, AnswerInv, Clean
  <2>6. Fenced'
    BY <1>2, <2>1 DEF Refuse, Fenced, FenceInv, NoBlindRetry
  <2> QED BY <2>2, <2>3, <2>4, <2>5, <2>6
<1>3. CASE Mark(c)
  <2>1. Unresolved' = {}
    BY <1>3, NothingUnresolved DEF Mark, MayWrite, Unresolved, ProgressInv
  <2>2. ProgressInv'
    BY <1>3, NoneAssumption DEF Mark, MayWrite, ProgressInv
  <2>3. HolderInv'
    BY <1>3 DEF Mark, MayWrite, HolderInv
  <2>4. PinInv'
    BY <1>3 DEF Mark, MayWrite, PinInv
  <2>5. AnswerInv'
    BY <1>3 DEF Mark, AnswerInv
  <2> QED BY <2>1, <2>2, <2>3, <2>4, <2>5, NoneIsFenced
<1>4. CASE MarkFails(c)
  <2>1. Unresolved' = {}
    BY <1>4, NothingUnresolved DEF MarkFails, MayWrite, Unresolved, ProgressInv
  <2>2. ProgressInv'
    BY <1>4 DEF MarkFails, MayWrite, ProgressInv
  <2>3. HolderInv'
    BY <1>4 DEF MarkFails, MayWrite, HolderInv
  <2>4. PinInv'
    BY <1>4 DEF MarkFails, MayWrite, PinInv
  <2>5. AnswerInv'
    BY <1>4 DEF MarkFails, MayWrite, AnswerInv, ProgressInv, Clean
  <2> QED BY <2>1, <2>2, <2>3, <2>4, <2>5, NoneIsFenced
<1>5. CASE SendMutation(c)
  <2>0. holder = c /\ ~quarantined /\ bindPending
    BY <1>5, NoneAssumption DEF SendMutation, ProgressInv, HolderInv
  <2>1. Unresolved = {}
    BY <1>5, <2>0, NothingUnresolved DEF SendMutation
  <2>2. Unresolved' \subseteq {c}
    BY <1>5, <2>1 DEF SendMutation, Unresolved
  <2>3. ProgressInv'
    BY <1>5 DEF SendMutation, ProgressInv
  <2>4. HolderInv'
    BY <1>5 DEF SendMutation, HolderInv
  <2>5. PinInv'
    BY <1>5 DEF SendMutation, PinInv
  <2>6. AnswerInv'
    BY <1>5 DEF SendMutation, AnswerInv, ProgressInv, Clean
  <2>7. Fenced'
    BY <1>5, <2>0, <2>2 DEF SendMutation, Fenced, FenceInv, NoBlindRetry
  <2> QED BY <2>3, <2>4, <2>5, <2>6, <2>7
<1>6. CASE Unreachable(c)
  <2>0. holder = c /\ ~quarantined
    BY <1>6, NoneAssumption DEF Unreachable, ProgressInv, HolderInv
  <2>1. Unresolved' = {}
    BY <1>6, <2>0, NothingUnresolved DEF Unreachable, Unresolved, ProgressInv
  <2>2. ProgressInv'
    BY <1>6, <2>0 DEF Unreachable, Release, ProgressInv
  <2>3. HolderInv'
    BY <1>6, <2>0 DEF Unreachable, Release, HolderInv
  <2>4. PinInv'
    BY <1>6 DEF Unreachable, ClearMarker, PinInv
  <2>5. AnswerInv'
    BY <1>6 DEF Unreachable, AnswerInv, Clean
  <2> QED BY <2>1, <2>2, <2>3, <2>4, <2>5, NoneIsFenced
<1> QED BY <1>1, <1>2, <1>3, <1>4, <1>5, <1>6

\* After it was sent: its outcome is known, or the quarantine takes the place of the lock.
LEMMA ClosingKeepsInv ==
  ASSUME IInv, NEW c \in Calls, ReadReturns(c) \/ OutcomeKnown(c) \/ CompletionNotSaved(c)
  PROVE  ProgressInv' /\ HolderInv' /\ PinInv' /\ AnswerInv' /\ Fenced'
<1> USE DEF IInv, TypeOK, Tell, Goes, Replied, bindingVars, netVars, agentVars
<1>1. CASE ReadReturns(c)
  <2>0. kind[c] = "read"
    BY <1>1 DEF ReadReturns
  <2>1. Unresolved' = Unresolved
    BY <1>1 DEF ReadReturns, Unresolved, Mutations
  <2>2. ProgressInv'
    BY <1>1 DEF ReadReturns, ProgressInv
  <2>3. HolderInv'
    BY <1>1 DEF ReadReturns, HolderInv, Mutations
  <2>4. PinInv'
    BY <1>1 DEF ReadReturns, PinInv
  <2>5. AnswerInv'
    BY <1>1 DEF ReadReturns, AnswerInv, Mutations
  <2>6. Fenced'
    BY <1>1, <2>1 DEF ReadReturns, Fenced, FenceInv, NoBlindRetry
  <2> QED BY <2>2, <2>3, <2>4, <2>5, <2>6
<1>2. ASSUME OutcomeKnown(c) \/ CompletionNotSaved(c)
      PROVE  ProgressInv' /\ HolderInv' /\ PinInv' /\ AnswerInv' /\ Fenced'
  <2>0. /\ pc[c] = "sent" /\ kind[c] \in Mutations /\ net[c] = "reply" /\ told[c] = "nothing"
        /\ holder = c /\ holder' = None
        /\ pc' = [pc EXCEPT ![c] = "back"]
        /\ UNCHANGED <<kind, pinned, heard, agent, bindGeneration, net, answer, thread>>
    BY <1>2 DEF OutcomeKnown, CompletionNotSaved, ProgressInv, Release, ClearMarker
  <2>1. /\ told'[c] \in Clean \cup {"ok", "unsaved"}
        /\ told' = [told EXCEPT ![c] = told'[c]]
        /\ told'[c] = "unsaved" => answer[c] = "ok"
        /\ told'[c] # "unsaved" => told'[c] = answer[c]
    BY <1>2 DEF OutcomeKnown, CompletionNotSaved, Clean
  <2>2. c \in Unresolved
    BY <2>0 DEF Unresolved, Clean
  <2>3. Unresolved = {c}
    BY <2>2 DEF NoBlindRetry, Unresolved
  <2>4. Unresolved' = {}
    BY <2>0, <2>1, <2>3 DEF Unresolved
  <2>5. ProgressInv'
    BY <2>0, <2>1, NoneAssumption DEF ProgressInv
  <2>6. HolderInv'
    BY <2>0 DEF HolderInv
  <2>7. PinInv'
    BY <2>0 DEF PinInv
  <2>8. AnswerInv'
    BY <2>0, <2>1 DEF AnswerInv, Clean
  <2> QED BY <2>4, <2>5, <2>6, <2>7, <2>8, NoneIsFenced
<1> QED BY <1>1, <1>2

LEMMA GivingUpKeepsInv ==
  ASSUME IInv, NEW c \in Calls, pc[c] \in {"marked", "sent"}, GivesUp(c)
  PROVE  ProgressInv' /\ HolderInv' /\ PinInv' /\ AnswerInv' /\ Fenced'
<1> USE DEF IInv, TypeOK, GivesUp, Tell, Goes, bindingVars, netVars, agentVars
<1>1. Unresolved' = Unresolved
  BY DEF Unresolved, ProgressInv, Clean
<1>3. kind[c] \in Mutations => holder = c /\ quarantined'
  BY DEF ProgressInv
<1>4. holder = c => kind[c] \in Mutations
  BY NoneAssumption DEF HolderInv
<1>5. ProgressInv'
  BY <1>3 DEF ProgressInv, Release
<1>6. HolderInv'
  BY <1>3, <1>4 DEF HolderInv, Release
<1>7. PinInv'
  BY DEF PinInv
<1>8. AnswerInv'
  BY DEF AnswerInv, Clean
<1>9. Fenced'
  BY <1>1, <1>3, <1>4 DEF Fenced, FenceInv, NoBlindRetry, Release
<1> QED BY <1>5, <1>6, <1>7, <1>8, <1>9

LEMMA ProviderKeepsInv ==
  ASSUME IInv, NEW c \in Calls, ProviderStep(c)
  PROVE  IInv'
<1>1. TypeOK'
  BY ProviderTypes DEF IInv
<1>2. ProgressInv' /\ HolderInv' /\ PinInv' /\ AnswerInv' /\ Fenced'
  BY PinningKeepsInv, SendingKeepsInv, ClosingKeepsInv, GivingUpKeepsInv
     DEF ProviderStep, OutcomeUnknown, ConnectionLost, Cancelled, Replied
<1> QED BY <1>1, <1>2 DEF IInv, Fenced

-----------------------------------------------------------------------------
(* The agent's steps and the restarts *)

LEMMA AgentKeepsInv ==
  ASSUME IInv, NEW c \in Calls, AgentStep(c)
  PROVE  IInv'
<1>1. TypeOK'
  BY AgentTypes DEF IInv
<1>2. /\ UNCHANGED <<kind, pc, told, heard, pinned, holder, quarantined, bindGeneration, bindPending, agent>>
      /\ \/ net[c] = "request" /\ (\E code \in {"ok", "error", "uncertain"} \cup Clean : Reply(c, code))
         \/ UNCHANGED <<net, answer>>
  BY DEF AgentStep, StaleGeneration, ComRefuses, Accepts, Dispatch, Finishes, IntegrityFails, Deadline, LateEnds,
     ThreadEnds, IInv, AnswerInv, Clean, providerVars, bindingVars, netVars, agentVars
<1>3. Unresolved' = Unresolved
  BY <1>2 DEF Unresolved, Reply, IInv, TypeOK
<1>4. ProgressInv'
  BY <1>2 DEF ProgressInv, Reply, IInv, TypeOK
<1>5. HolderInv'
  BY <1>2 DEF HolderInv, IInv
<1>6. PinInv'
  BY <1>2 DEF PinInv, Reply, IInv, TypeOK
<1>7. AnswerInv'
  <2> USE DEF IInv, TypeOK, AnswerInv, Reply, ThreadEnds, Accepts, providerVars, netVars
  <2>1. CASE StaleGeneration(c)
    BY <2>1 DEF StaleGeneration, agentVars
  <2>2. CASE ComRefuses(c)
    BY <2>2 DEF ComRefuses, agentVars
  <2>3. CASE Dispatch(c)
    BY <2>3 DEF Dispatch
  <2>4. ASSUME NEW code \in {"ok", "conflict", "error", "uncertain"}, Finishes(c, code) PROVE AnswerInv'
    BY <2>4 DEF Finishes
  <2>5. CASE IntegrityFails(c)
    BY <2>5 DEF IntegrityFails
  <2>6. CASE Deadline(c)
    BY <2>6 DEF Deadline
  <2>7. CASE LateEnds(c)
    BY <2>7 DEF LateEnds
  <2> QED BY <2>1, <2>2, <2>3, <2>4, <2>5, <2>6, <2>7 DEF AgentStep
<1>8. FenceInv' /\ NoBlindRetry'
  BY <1>2, <1>3 DEF IInv, FenceInv, NoBlindRetry
<1> QED BY <1>1, <1>4, <1>5, <1>6, <1>7, <1>8 DEF IInv

\* The marker on disk is all that the next provider knows of an unresolved mutation.
LEMMA RestartKeepsInv ==
  ASSUME IInv, ProviderRestarts \/ AgentRestarts
  PROVE  IInv'
<1>0. TypeOK'
  BY RestartTypes DEF IInv
<1>1. CASE ProviderRestarts
  <2> USE <1>1 DEF ProviderRestarts, IInv, TypeOK, bindingVars, netVars, agentVars
  <2>1. Unresolved' = Unresolved
    BY DEF Unresolved
  <2>2. ProgressInv'
    BY DEF ProgressInv
  <2>3. HolderInv'
    BY DEF HolderInv
  <2>4. PinInv'
    BY DEF PinInv
  <2>5. AnswerInv'
    BY DEF AnswerInv
  <2>6. FenceInv' /\ NoBlindRetry'
    BY <2>1 DEF FenceInv, NoBlindRetry
  <2> QED BY <1>0, <2>2, <2>3, <2>4, <2>5, <2>6 DEF IInv
<1>2. CASE AgentRestarts
  <2> USE <1>2 DEF AgentRestarts, IInv, TypeOK, providerVars, bindingVars, netVars
  <2>1. Unresolved' = Unresolved
    BY DEF Unresolved
  <2>2. ProgressInv' /\ HolderInv'
    BY DEF ProgressInv, HolderInv
  <2>3. PinInv'
    BY BoundsAssumption DEF PinInv
  <2>4. AnswerInv'
    BY DEF AnswerInv
  <2>5. FenceInv' /\ NoBlindRetry'
    BY <2>1 DEF FenceInv, NoBlindRetry
  <2> QED BY <1>0, <2>2, <2>3, <2>4, <2>5 DEF IInv
<1> QED BY <1>1, <1>2

LEMMA NextKeepsInv == IInv /\ [Next]_vars => IInv'
<1> SUFFICES ASSUME IInv, [Next]_vars PROVE IInv'
  OBVIOUS
<1>1. CASE Next
  BY <1>1, ProviderKeepsInv, AgentKeepsInv, RestartKeepsInv DEF Next
<1>2. CASE UNCHANGED vars
  <2>1. UNCHANGED <<kind, pc, told, heard, pinned, holder, quarantined, restarts, bindGeneration, bindPending,
                    net, answer, agent, dispatching, thread, comQuarantined>>
    BY <1>2 DEF vars, providerVars, bindingVars, netVars, agentVars
  <2>2. TypeOK' /\ Unresolved' = Unresolved
    BY <2>1 DEF IInv, TypeOK, Unresolved
  <2>3. ProgressInv' /\ HolderInv' /\ PinInv' /\ AnswerInv'
    BY <2>1 DEF IInv, ProgressInv, HolderInv, PinInv, AnswerInv
  <2> QED BY <2>1, <2>2, <2>3 DEF IInv, FenceInv, NoBlindRetry
<1> QED BY <1>1, <1>2

-----------------------------------------------------------------------------
(* What holds of every behaviour *)

\* A mutation whose outcome is unknown holds the provider's writer lock or has
\* quarantined it, and is marked in the binding file (remote_runtime.py:284-361,
\* runtime_binding.py:12-50).
THEOREM InductiveInvariant == Spec => []IInv
<1>1. Init => IInv
  BY InitInv
<1>2. IInv /\ [Next]_vars => IInv'
  BY NextKeepsInv
<1> QED BY <1>1, <1>2, PTL DEF Spec

\* No mutation is sent while the outcome of another is unknown, whoever sent it
\* and however often the provider was restarted since (remote_runtime.py:173-180,
\* 284-321).
THEOREM NeverRetriedBlindly == Spec => []NoBlindRetry
BY InductiveInvariant, PTL DEF IInv

\* The marker is on disk whenever the outcome of a mutation is unknown, although
\* the first pin writes the file without it (remote_runtime.py:271-286).
THEOREM DurableFence == Spec => []FenceIsDurable
<1>1. IInv => FenceIsDurable
  BY DEF IInv, FenceInv, FenceIsDurable
<1> QED BY <1>1, InductiveInvariant, PTL

\* The agent never has two mutations inside AutoCAD, although it does not wait
\* for a thread beyond its deadline (workstation_agent.py:200-277).
THEOREM OneWriterInside == Spec => []WritersDoNotOverlap
<1>1. ASSUME IInv PROVE WritersDoNotOverlap
  <2>1. ASSUME NEW c \in Executing, kind[c] \in Mutations PROVE c \in Unresolved
    <3>1. CASE thread[c] = "running"
      BY <1>1, <2>1, <3>1 DEF IInv, AnswerInv, Executing, Unresolved
    <3>2. CASE thread[c] = "late"
      BY <1>1, <2>1, <3>2 DEF IInv, AnswerInv, Executing, Unresolved, Clean
    <3> QED BY <2>1, <3>1, <3>2 DEF Executing
  <2> QED BY <1>1, <2>1 DEF IInv, NoBlindRetry, WritersDoNotOverlap
<1> QED BY <1>1, InductiveInvariant, PTL
=============================================================================
