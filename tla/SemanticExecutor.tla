-------------------------- MODULE SemanticExecutor --------------------------
(* native_bridge/semantic_executor.py: an executor that carries out planned
   actions on a drawing another person may edit, over a bridge that may lose an
   answer or act late, with a journal that may fail, in a process that may die.
   Each call of the bridge runs to its end on AutoCAD's thread.            *)
EXTENDS SemanticDelta, FiniteSets

CONSTANT Scenarios  \* each: a drawing, whether the bridge keeps checkpoints, the
                    \* actions a caller may plan but for their parent, and bounds on
                    \* steps, edits, lost answers, journal faults and deaths

Bound == {"steps", "edits", "losses", "faults", "deaths"}

ASSUME ExecutorAssumption ==
    \A c \in Scenarios : /\ Snapshot(c.drawing) /\ c.recovers \in BOOLEAN
                         /\ \A a \in c.plans : Action(a) /\ OneTarget(a)
                         /\ c.max \in [Bound -> Nat]

ASSUME LayerAssumption == 0 \in Layer   \* where a new entity is put

VARIABLES
    scenario,   \* never changes
    cad,        \* AutoCAD: drawing, runtime document id, checkpoint, pids ever used
    late,       \* calls given up by their caller that AutoCAD may still run
    pc, act,    \* the executor's step and its action
    before, after, receipt,
    runtime,    \* the runtime document id the step goes on with
    entries, blocked,
    journal,    \* the committed steps on disk, over all runs
    result,     \* the answer to the last action
    edited,     \* did somebody else change the drawing since the executor read it?
    counts      \* of steps, edits, losses, faults, deaths

execVars == <<pc, act, before, after, receipt, runtime, entries, blocked>>
vars == <<scenario, cad, late, execVars, journal, result, edited, counts>>

Blank == [ents |-> [p \in {} |-> 0], doc |-> 0]

Init ==
    /\ scenario \in Scenarios
    /\ cad = [drawing |-> scenario.drawing, rid |-> 1, cp |-> {}, used |-> DOMAIN scenario.drawing.ents]
    /\ late = {} /\ pc = "idle" /\ act = <<>>
    /\ before = Blank /\ after = Blank /\ receipt = <<>> /\ runtime = 1
    /\ entries = <<>> /\ blocked = "no" /\ journal = {} /\ result = "none" /\ edited = TRUE
    /\ counts = [k \in Bound |-> 0]

Left(k) == counts[k] < scenario.max[k]
Step == counts.steps
Run == counts.deaths
-----------------------------------------------------------------------------
(* NativeMutationService: the outcomes one call may have.                  *)

Outcome(c, o) == [cad |-> c, ans |-> [outcome |-> o]]
Unchanged(o) == {Outcome(cad, o)}

With(d, p, e) == [d EXCEPT !.ents = [q \in DOMAIN d.ents \cup {p} |-> IF q = p THEN e ELSE d.ents[q]]]
Without(d, p) == [d EXCEPT !.ents = [q \in DOMAIN d.ents \ {p} |-> d.ents[q]]]

\* ApplyMutation to the entity p
Applied(a, d, p) ==
    CASE a.verb = "create" -> With(d, p, [type |-> a.type, layer |-> 0, geom |-> [a.geom EXCEPT !.n = 0]])
      [] a.verb = "update" -> With(d, p, [d.ents[p] EXCEPT !.geom = Requested(a, d.ents[p]).geom])
      [] OTHER -> Without(d, p)

\* What the drawing holds after the commit: reactors and faults may have kept
\* the mutation from it, or changed the document, the target or another entity.
Persisted(a, d, p) ==
    LET exact == Applied(a, d, p)
    IN  {exact, d} \cup {[exact EXCEPT !.doc = x] : x \in DocState}
        \cup {[exact EXCEPT !.ents[q].layer = l] : q \in DOMAIN exact.ents, l \in Layer}

NewCheckpoint(a, p, owner) ==
    [before |-> cad.drawing, pid |-> p, verb |-> a.verb, owner |-> owner, context |-> TRUE]

Committed(e, cp) ==
    [cad EXCEPT !.drawing = e, !.cp = IF scenario.recovers THEN @ \cup {cp} ELSE @, !.used = @ \cup {cp.pid}]

Commits(a, p, owner) ==
    {[cad |-> Committed(e, NewCheckpoint(a, p, owner)),
      ans |-> [outcome |-> o, pid |-> p, post |-> Fp(e), cp |-> scenario.recovers]] :
        e \in Persisted(a, cad.drawing, p), o \in {"COMMITTED_VERIFIED", "COMMIT_INTEGRITY_FAIL"}}

Execute(a, owner) ==
    LET d == cad.drawing
        pids == IF a.verb = "create" THEN Pid \ cad.used ELSE a.targets
    IN  IF Fp(d) # a.parent THEN Unchanged("STATE_DRIFT")
        ELSE IF pids = {} THEN Unchanged("SNAPSHOT_CAPACITY_EXCEEDED")
        ELSE IF cad.cp # {} THEN Unchanged("RECOVERY_PENDING")
        ELSE IF ~(a.targets \subseteq DOMAIN d.ents) THEN Unchanged("ENTITY_NOT_FOUND")
        ELSE IF \E p \in a.targets : d.ents[p].type # a.type THEN Unchanged("ENTITY_TYPE_MISMATCH")
        ELSE Unchanged("ROLLED_BACK_VERIFIED") \cup UNION {Commits(a, p, owner) : p \in pids}

Resolved(req) == req.rid = cad.rid /\ \E cp \in cad.cp : cp.owner = req.owner
Kept == CHOOSE cp \in cad.cp : TRUE

FinalizeRecovery(req) ==
    IF Resolved(req) /\ Fp(cad.drawing) = req.fp
    THEN {Outcome([cad EXCEPT !.cp = {}], "FINALIZED")} ELSE Unchanged("refused")

\* ResolveR1 undoes what was done to the one entity.
Inverted(d, cp) ==
    CASE cp.verb = "create" -> Without(d, cp.pid)
      [] cp.verb = "update" -> IF cp.pid \in DOMAIN d.ents
                               THEN [d EXCEPT !.ents[cp.pid].geom = cp.before.ents[cp.pid].geom] ELSE d
      [] OTHER -> With(d, cp.pid, cp.before.ents[cp.pid])

ResolveR1(req) ==
    IF ~Resolved(req) THEN Unchanged("refused")
    ELSE IF ~Kept.context THEN Unchanged("ROLLBACK_FAILED")
    ELSE LET d == Inverted(cad.drawing, Kept)
         IN  IF Fp(d) = Fp(Kept.before)
             THEN {Outcome([cad EXCEPT !.drawing = d, !.cp = {}], "ROLLED_BACK_VERIFIED")}
             ELSE {Outcome([cad EXCEPT !.drawing = d], "ROLLBACK_FAILED")}

\* BeginR2, ContinueR2: the checkpoint becomes the drawing, under a new id.
ResolveR2(req) ==
    IF ~Resolved(req) THEN Unchanged("refused")
    ELSE LET c == [cad EXCEPT !.drawing = Kept.before, !.rid = @ + 1]
         IN  {Outcome([c EXCEPT !.cp = {}], "ROLLED_BACK_VERIFIED"), Outcome(c, "ROLLBACK_FAILED")}
             \cup Unchanged("ROLLBACK_FAILED")

Native(req) ==
    CASE req.op = "mutate" -> Execute(req.act, req.owner)
      [] req.op = "finalize" -> FinalizeRecovery(req)
      [] req.op = "r1" -> ResolveR1(req)
      [] OTHER -> ResolveR2(req)

\* The caller gets the answer, or an error after the call or instead of it.
Calls(req) ==
    {[cad |-> o.cad, ans |-> o.ans, late |-> late, loss |-> 0] : o \in Native(req)}
    \cup IF Left("losses")
         THEN {[cad |-> o.cad, ans |-> [outcome |-> "error"], late |-> late, loss |-> 1] : o \in Native(req)}
              \cup {[cad |-> cad, ans |-> [outcome |-> "error"], late |-> late \cup {req}, loss |-> 1]}
         ELSE {}

Request(op, rid) == [op |-> op, rid |-> rid, owner |-> Step, run |-> Run,
                     act |-> IF op = "mutate" THEN act ELSE <<>>,
                     fp |-> IF op = "finalize" THEN Fp(after) ELSE Blank]

\* document_snapshot: {} when it fails
Snapshots(rid) ==
    (IF rid = cad.rid THEN {[seen |-> {cad.drawing}, loss |-> 0]} ELSE {[seen |-> {}, loss |-> 0]})
    \cup IF Left("losses") THEN {[seen |-> {}, loss |-> 1]} ELSE {}
-----------------------------------------------------------------------------
(* The journal, and the ends of a step.                                    *)

Event == [step |-> Step, run |-> Run, entry |-> BuildStateChainEntry(entries, act, before, cad.drawing)]

\* _append_or_block: an append that fails may have reached the disk all the same.
\* b is what blocks the executor already.
Appends(events, committedState, b) ==
    {[journal |-> journal \cup events, blocked |-> b, fault |-> 0]}
    \cup IF Left("faults")
         THEN {[journal |-> j, fault |-> 1,
                blocked |-> IF committedState THEN "STATE_UNCERTAIN" ELSE IF b = "no" THEN "JOURNAL_FAILED" ELSE b] :
                  j \in {journal, journal \cup events}}
         ELSE {}

Spend(loss, fault) == counts' = [counts EXCEPT !.losses = @ + loss, !.faults = @ + fault]

\* The step ends with an event and an answer.
Ends(loss, j, answer) ==
    /\ journal' = j.journal /\ blocked' = j.blocked
    /\ result' = IF j.fault = 0 THEN answer ELSE "error"
    /\ pc' = "idle" /\ Spend(loss, j.fault)

\* _raise_uncertain_after_dispatch, _uncertain
Uncertain(loss) == \E j \in Appends({}, TRUE, "STATE_UNCERTAIN") : Ends(loss, j, "error")

GoOn(s, loss) == pc' = s /\ Spend(loss, 0) /\ UNCHANGED <<blocked, journal, result>>

\* _recover_after_commit when there is a checkpoint
Recover(loss) == IF receipt.cp THEN GoOn("r1", loss) ELSE Uncertain(loss)
-----------------------------------------------------------------------------
(* execute_step                                                            *)

LastEntry == entries[Len(entries)]

Predecessor(fp) == fp = act'.parent /\ (entries # <<>> => fp = LastEntry.postState)

Begin(a, parent) ==
    /\ pc = "idle" /\ blocked = "no" /\ Left("steps")
    /\ act' = [verb |-> a.verb, type |-> a.type, targets |-> a.targets, geom |-> a.geom,
               allowed |-> a.allowed, parent |-> parent]
    /\ runtime' = cad.rid /\ before' = cad.drawing /\ after' = Blank /\ receipt' = <<>>
    /\ edited' = FALSE /\ counts' = [counts EXCEPT !.steps = @ + 1]
    /\ IF Predecessor(Fp(cad.drawing))
       THEN pc' = "dispatch" /\ UNCHANGED <<blocked, result>>
       ELSE blocked' = "STATE_DRIFT" /\ result' = "error" /\ UNCHANGED pc
    /\ UNCHANGED <<cad, late, entries, journal>>

PreWrite == {"STATE_DRIFT", "SNAPSHOT_CAPACITY_EXCEEDED", "ENTITY_NOT_FOUND", "ENTITY_TYPE_MISMATCH"}
Receipts == {"COMMITTED_VERIFIED", "COMMIT_INTEGRITY_FAIL", "ROLLED_BACK_VERIFIED"}

\* Mutant: an error after the dispatch counts as a refusal.
MutantRefused(o) == o \in PreWrite \cup {"error"}

Refused(o) == o \in PreWrite

Dispatch ==
    /\ pc = "dispatch"
    /\ \E r \in Calls(Request("mutate", runtime)) :
          /\ cad' = r.cad /\ late' = r.late /\ receipt' = r.ans
          /\ LET o == r.ans.outcome
             IN  IF Refused(o)
                 THEN \E j \in Appends({}, FALSE, IF o = "STATE_DRIFT" THEN o ELSE "no") : Ends(r.loss, j, "error")
                 ELSE IF o \in Receipts THEN GoOn("readback", r.loss) ELSE Uncertain(r.loss)
    /\ UNCHANGED <<act, before, after, runtime, entries, edited>>

ReadBackFails(s) ==
    /\ s.seen = {}
    /\ IF receipt.outcome = "ROLLED_BACK_VERIFIED" THEN Uncertain(s.loss) ELSE Recover(s.loss)
    /\ UNCHANGED <<after, entries, edited>>

ReadBackRolledBack(s) ==
    /\ s.seen # {} /\ receipt.outcome = "ROLLED_BACK_VERIFIED"
    /\ after' = cad.drawing /\ edited' = FALSE
    /\ IF Fp(cad.drawing) = act.parent
       THEN \E j \in Appends({}, FALSE, "no") : Ends(s.loss, j, "rolled_back") ELSE Uncertain(s.loss)
    /\ UNCHANGED entries

Accepted(d) ==
    /\ receipt.outcome = "COMMITTED_VERIFIED" /\ receipt.post = Fp(d)
    /\ ValidateActionDelta(act, before, d)
    /\ IF act.verb = "create" THEN receipt.pid \in DOMAIN d.ents \ DOMAIN before.ents ELSE receipt.pid \in act.targets
    /\ VerifyStateChain(Append(entries, BuildStateChainEntry(entries, act, before, d)))

\* Mutant: the step is entered into the chain without waiting for the journal.
MutantReadBackCommitted(s) ==
    /\ s.seen # {} /\ receipt.outcome # "ROLLED_BACK_VERIFIED"
    /\ after' = cad.drawing /\ edited' = FALSE
    /\ IF ~Accepted(cad.drawing) THEN Recover(s.loss) /\ UNCHANGED entries
       ELSE /\ entries' = Append(entries, Event.entry)
            /\ IF receipt.cp THEN GoOn("finalize", s.loss) ELSE Ends(s.loss, [journal |-> journal, blocked |-> "no", fault |-> 0], "committed")

ReadBackCommitted(s) ==
    /\ s.seen # {} /\ receipt.outcome # "ROLLED_BACK_VERIFIED"
    /\ after' = cad.drawing /\ edited' = FALSE
    /\ IF ~Accepted(cad.drawing) THEN Recover(s.loss) /\ UNCHANGED entries
       ELSE \E j \in Appends({Event}, TRUE, "no") :
               /\ entries' = IF j.fault = 0 THEN Append(entries, Event.entry) ELSE entries
               /\ IF j.fault = 0 /\ receipt.cp
                  THEN pc' = "finalize" /\ Spend(s.loss, 0) /\ journal' = j.journal /\ UNCHANGED <<blocked, result>>
                  ELSE Ends(s.loss, j, "committed")

ReadBack ==
    /\ pc = "readback"
    /\ \E s \in Snapshots(runtime) : ReadBackFails(s) \/ ReadBackRolledBack(s) \/ ReadBackCommitted(s)
    /\ UNCHANGED <<cad, late, act, before, receipt, runtime>>

Finalize ==
    /\ pc = "finalize"
    /\ \E r \in Calls(Request("finalize", runtime)) :
          /\ cad' = r.cad /\ late' = r.late
          /\ IF r.ans.outcome = "FINALIZED"
             THEN Ends(r.loss, [journal |-> journal, blocked |-> "no", fault |-> 0], "committed")
             ELSE \E j \in Appends({}, TRUE, "RECOVERY_PENDING") : Ends(r.loss, j, "error")
    /\ UNCHANGED <<act, before, after, receipt, runtime, entries, edited>>
-----------------------------------------------------------------------------
(* _recover_after_commit                                                   *)

ResolveWithR1 ==
    /\ pc = "r1"
    /\ \E r \in Calls(Request("r1", runtime)) :
          /\ cad' = r.cad /\ late' = r.late
          /\ GoOn(IF r.ans.outcome = "ROLLED_BACK_VERIFIED" THEN "r1read" ELSE "r2", r.loss)
    /\ UNCHANGED <<act, before, after, receipt, runtime, entries, edited>>

RollbackFails(loss) == \E j \in Appends({}, TRUE, "ROLLBACK_FAILED") : Ends(loss, j, "error")

Restored(d) == Fp(d) = Fp(before)

\* What the bridge says is restored is read back.
CheckRestored(s, next) ==
    /\ edited' = (edited /\ s.seen = {})
    /\ IF s.seen # {} /\ Restored(cad.drawing)
       THEN \E j \in Appends({}, TRUE, "no") : Ends(s.loss, j, "rolled_back")
       ELSE IF next = "r2" THEN GoOn("r2", s.loss) ELSE RollbackFails(s.loss)

ReadR1 ==
    /\ pc = "r1read" /\ \E s \in Snapshots(runtime) : CheckRestored(s, "r2")
    /\ UNCHANGED <<cad, late, act, before, after, receipt, runtime, entries>>

\* _recovery_runtime asks for the drawing's id; R2 answers with a new one.
ResolveWithR2 ==
    /\ pc = "r2"
    /\ \E rid \in {runtime, cad.rid} : \E r \in Calls(Request("r2", rid)) :
          /\ cad' = r.cad /\ late' = r.late
          /\ IF r.ans.outcome = "ROLLED_BACK_VERIFIED"
             THEN GoOn("r2read", r.loss) /\ runtime' = r.cad.rid
             ELSE RollbackFails(r.loss) /\ runtime' = rid
    /\ UNCHANGED <<act, before, after, receipt, entries, edited>>

ReadR2 ==
    /\ pc = "r2read" /\ \E s \in Snapshots(runtime) : CheckRestored(s, "end")
    /\ UNCHANGED <<cad, late, act, before, after, receipt, runtime, entries>>
-----------------------------------------------------------------------------
(* Everybody else.                                                         *)

\* The user changes the document, turns a line round, or reopens the drawing.
UserEdits ==
    /\ Left("edits") /\ counts' = [counts EXCEPT !.edits = @ + 1]
    /\ LET d == cad.drawing
       IN  cad' \in {[cad EXCEPT !.drawing.doc = x] : x \in DocState \ {d.doc}}
                    \cup {[cad EXCEPT !.drawing.ents[p] = Turned(@)] : p \in {q \in DOMAIN d.ents : d.ents[q].type = "LINE"}}
                    \cup {[cad EXCEPT !.rid = @ + 1, !.cp = {[cp EXCEPT !.context = FALSE] : cp \in cad.cp}]}
    /\ edited' = (edited \/ Fp(cad'.drawing) # Fp(cad.drawing))
    /\ UNCHANGED <<late, execVars, journal, result>>

\* AutoCAD runs a call that nobody waits for any longer.
RunLate(req) ==
    /\ late' = late \ {req}
    /\ \E o \in Native(req) : cad' = o.cad
    /\ edited' = (edited \/ (req.run # Run /\ cad' # cad))
    /\ UNCHANGED <<execVars, journal, result, counts>>

\* The process dies; another one starts with a journal of its own.
Die ==
    /\ Left("deaths") /\ counts' = [counts EXCEPT !.deaths = @ + 1]
    /\ pc' = "idle" /\ entries' = <<>> /\ blocked' = "no" /\ result' = "none" /\ edited' = TRUE
    /\ UNCHANGED <<cad, late, act, before, after, receipt, runtime, journal>>

\* A caller plans for what it has read or for the last step's state.
Caller == \E a \in scenario.plans :
    \E parent \in {Fp(cad.drawing)} \cup {entries[i].postState : i \in DOMAIN entries} : Begin(a, parent)

Executor ==
    /\ Dispatch \/ ReadBack \/ Finalize \/ ResolveWithR1 \/ ReadR1 \/ ResolveWithR2 \/ ReadR2
    /\ UNCHANGED scenario

Others == Caller \/ UserEdits \/ (\E req \in late : RunLate(req)) \/ Die

Next == Executor \/ (Others /\ UNCHANGED scenario)

Spec == Init /\ [][Next]_vars
-----------------------------------------------------------------------------
Checkpoint(cp) ==
    /\ DOMAIN cp = {"before", "pid", "verb", "owner", "context"}
    /\ Snapshot(cp.before) /\ cp.pid \in Pid /\ cp.verb \in Verb /\ cp.owner \in Nat
    /\ cp.verb # "create" => cp.pid \in DOMAIN cp.before.ents

Reasons == {"STATE_DRIFT", "STATE_UNCERTAIN", "JOURNAL_FAILED", "RECOVERY_PENDING", "ROLLBACK_FAILED"}

CadOK(c) ==
    /\ DOMAIN c = {"drawing", "rid", "cp", "used"}
    /\ Snapshot(c.drawing) /\ c.rid \in Nat /\ c.used \subseteq Pid
    /\ \A cp \in c.cp : Checkpoint(cp) /\ \A other \in c.cp : cp = other

RequestOK(r) ==
    /\ r.op \in {"mutate", "finalize", "r1", "r2"}
    /\ r.rid \in Nat /\ r.owner \in Nat /\ r.run \in Nat
    /\ r.op = "mutate" => Action(r.act)

TypeOK ==
    /\ scenario \in Scenarios /\ counts \in [Bound -> Nat]
    /\ CadOK(cad) /\ \A r \in late : RequestOK(r)
    /\ pc \in {"idle", "dispatch", "readback", "finalize", "r1", "r1read", "r2", "r2read"}
    /\ pc # "idle" => Snapshot(before) /\ Action(act) /\ OneTarget(act)
    /\ blocked \in {"no"} \cup Reasons
    /\ result \in {"none", "committed", "rolled_back", "error"} /\ edited \in BOOLEAN /\ runtime \in Nat
    /\ \A e \in journal : e.run \in Nat /\ e.step \in Nat
    /\ IsFiniteSet(journal)

(* Every entry of the chain is the state before it with the planned change and
   nothing else, planned for that state, and the next entry starts from it,
   whatever the drawing's user and AutoCAD's reactors did meanwhile.       *)
ChainTellsTruth ==
    \A i \in DOMAIN entries :
        LET e == entries[i]
        IN  /\ Performed(e.action, e.before, e.after) /\ NothingDrawnTwice(e.before, e.after)
            /\ e.action.parent = Fp(e.before)
            /\ i > 1 => Fp(e.before) = Fp(entries[i - 1].after)

(* While the executor goes on, the drawing is what its last answer says, unless
   somebody else changed it: no call it gave up on can still reach it.     *)
KnownState ==
    pc = "idle" /\ blocked = "no" /\ ~edited =>
        /\ result = "committed" => Fp(cad.drawing) = Fp(after)
        /\ result = "rolled_back" => Fp(cad.drawing) = Fp(before)
        /\ entries # <<>> => Fp(cad.drawing) = LastEntry.postState

(* The executor's state is well formed: the types, and the chain in memory is
   on disk; the disk may be one step ahead, and only of an executor that has
   stopped.                                                                *)
JournalHasChain ==
    LET here == {e \in journal : e.run = Run}
    IN  /\ TypeOK
        /\ \A i \in DOMAIN entries : \E e \in here : e.entry = entries[i]
        /\ Cardinality(here) <= Len(entries) + IF blocked = "no" THEN 0 ELSE 1

(* The checkpoint of a step is given up only when the drawing is back at the
   state before the step or the step is on record.                         *)
WayBackKept ==
    [][\A cp \in cad.cp : cad'.cp = {} =>
          \/ Fp(cad'.drawing) = Fp(cp.before)
          \/ \E e \in journal : e.step = cp.owner /\ Fp(e.entry.before) = Fp(cp.before)]_vars
-----------------------------------------------------------------------------
(* The inductive invariant.                                                *)

\* Each entry tells the truth of itself; the chain is entries of the journal.
ChainInv ==
    /\ entries \in Seq({e.entry : e \in journal}) /\ VerifyStateChain(entries)
    /\ \A i \in DOMAIN entries :
          LET e == entries[i]
          IN  /\ Snapshot(e.before) /\ Snapshot(e.after)
              /\ Performed(e.action, e.before, e.after) /\ NothingDrawnTwice(e.before, e.after)
              /\ e.action.parent = Fp(e.before) /\ e.parentState = Fp(e.before) /\ e.postState = Fp(e.after)

\* What the executor knows between its calls.
KnowledgeInv ==
    /\ pc # "idle" => blocked = "no" /\ act.parent = Fp(before)
    /\ pc \notin {"idle", "finalize"} /\ entries # <<>> => LastEntry.postState = Fp(before)
    /\ pc = "dispatch" /\ ~edited => Fp(cad.drawing) = Fp(before)
    /\ pc = "finalize" => entries # <<>> /\ LastEntry.postState = Fp(after)
    /\ pc = "finalize" /\ ~edited => Fp(cad.drawing) = Fp(after)

\* A call this process has given up either stops it, or is an R1 that meets another
\* runtime id once R2 has succeeded.
LateInv ==
    /\ runtime <= cad.rid
    /\ \A r \in late :
          /\ r.run <= Run /\ r.rid <= cad.rid
          /\ r.run = Run => blocked # "no" \/ (r.op = "r1" /\ (pc = "r2" \/ r.rid < cad.rid))

\* Whoever speaks of a step agrees on the state it was planned for: checkpoints, calls
\* under way or given up, and the journal.
Claims ==
    {<<cp.owner, Fp(cp.before)>> : cp \in cad.cp}
    \cup {<<r.owner, r.act.parent>> : r \in {r \in late : r.op = "mutate"}}
    \cup {<<e.step, Fp(e.entry.before)>> : e \in journal}
    \cup (IF pc = "idle" THEN {} ELSE {<<Step, act.parent>>})

\* A checkpoint is finalized only for a step that is on record.
StepsInv ==
    /\ \A x \in Claims : x[1] <= Step /\ \A y \in Claims : x[1] = y[1] => x[2] = y[2]
    /\ \A r \in late : r.op = "finalize" => \E e \in journal : e.step = r.owner
    /\ pc = "finalize" => \E e \in journal : e.step = Step

IInv ==
    /\ JournalHasChain /\ (\A e \in journal : e.run <= Run)
    /\ ChainInv /\ KnowledgeInv /\ KnownState /\ LateInv /\ StepsInv
=============================================================================
