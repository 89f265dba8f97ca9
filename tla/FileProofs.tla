----------------------------- MODULE FileProofs -----------------------------
(***************************************************************************)
(* Proofs about the modules of files.  ContainedIO: for every number of    *)
(* writers, readers, directories, exchanges and failed flushes.            *)
(* ArtifactSeal: for every number of calls, of saves and of kills, and for *)
(* whatever a drawing may hold.                                            *)
(***************************************************************************)
EXTENDS ContainedIO, ArtifactSeal, TLAPS

-----------------------------------------------------------------------------
(* Contained files *)

LEMMA InitInv == Init => IInv
<1> SUFFICES ASSUME Init PROVE IInv
  OBVIOUS
<1>1. TypeOK
  <2>1. entry \in [Dirs -> Inodes \cup {Nil}] /\ durable \in [Dirs -> Inodes \cup {Nil}]
    BY DEF Init, Inodes
  <2>2. temp \in [Writers -> BOOLEAN]
    BY DEF Init
  <2>3. swaps \in 0..MaxSwaps /\ flushFailures \in 0..MaxFlushFailures
    BY ContainedAssumption DEF Init
  <2> QED BY <2>1, <2>2, <2>3 DEF Init, TypeOK, Inodes, Procs
<1>2. LinkedAreFlushed
  BY DEF Init, LinkedAreFlushed, Flushed, Procs
<1>3. CalmInv /\ ReplacedInv /\ ReaderInv
  BY ContainedAssumption DEF Init, CalmInv, ReplacedInv, ReaderInv, Procs, Inodes
<1> QED BY <1>1, <1>2, <1>3 DEF IInv

-----------------------------------------------------------------------------
(* Types *)

LEMMA WriterTypes ==
  ASSUME TypeOK, NEW w \in Writers, WriterStep(w) \/ Kill(w)
  PROVE  TypeOK'
<1> USE DEF TypeOK, At, Goto, Answer, Env, fsVars, procVars, Inodes, Procs
<1>1. CASE OpenParent(w) BY <1>1, ContainedAssumption DEF OpenParent
<1>2. CASE CreateTemp(w) BY <1>2 DEF CreateTemp
<1>3. CASE WriteBody(w) BY <1>3 DEF WriteBody
<1>4. CASE Sync(w) BY <1>4 DEF Sync
<1>5. CASE CheckParent(w) BY <1>5 DEF CheckParent
<1>6. CASE RecheckParent(w) BY <1>6 DEF RecheckParent
<1>7. CASE CheckFile(w) BY <1>7 DEF CheckFile
<1>8. CASE Replace(w) BY <1>8 DEF Replace
<1>9. CASE FlushParent(w) BY <1>9, ContainedAssumption DEF FlushParent
<1>10. CASE LookUpBound(w) BY <1>10 DEF LookUpBound
<1>11. CASE Unlink(w) BY <1>11 DEF Unlink
<1>12. CASE RemoveTemp(w) BY <1>12 DEF RemoveTemp
<1>13. CASE WindowsReplace(w)
  <2>1. CASE InUse(entry[anchor[w]]) BY <1>13, <2>1 DEF WindowsReplace
  <2>2. CASE ~InUse(entry[anchor[w]])
    <3>1. /\ entry' = [entry EXCEPT ![anchor[w]] = w] /\ temp' = [temp EXCEPT ![w] = FALSE]
          /\ pc' = [pc EXCEPT ![w] = "replaced"] /\ pc[w] = "checked"
          /\ UNCHANGED <<durable, whole, synced, anchor, bound, told, flushFailures, windows, parent, swaps, power>>
      BY <1>13, <2>2 DEF WindowsReplace
    <3> QED BY <3>1
  <2> QED BY <2>1, <2>2
<1>14. CASE DeleteByHandle(w) BY <1>14 DEF DeleteByHandle
<1>15. CASE Kill(w) BY <1>15 DEF Kill
<1> QED
  BY <1>1, <1>2, <1>3, <1>4, <1>5, <1>6, <1>7, <1>8, <1>9, <1>10, <1>11, <1>12, <1>13, <1>14, <1>15
  DEF WriterStep, PosixAnchor, WindowsAnchor

LEMMA ReaderTypes ==
  ASSUME TypeOK, NEW r \in Readers, ReaderStep(r)
  PROVE  TypeOK'
<1> USE DEF TypeOK, At, Goto, Answer, Env, fsVars, procVars, Inodes, Procs
<1>1. CASE OpenParent(r) BY <1>1, ContainedAssumption DEF OpenParent
<1>2. CASE OpenExisting(r)
  <2>1. anchor[r] \in Dirs /\ entry[anchor[r]] \in Inodes \cup {Nil}
    BY <1>2 DEF OpenExisting
  <2>2. bound' \in [Readers -> Inodes \cup {Nil}]
    BY <1>2, <2>1 DEF OpenExisting
  <2>3. CASE entry[anchor[r]] = Nil BY <1>2, <2>2, <2>3 DEF OpenExisting
  <2>4. CASE entry[anchor[r]] # Nil BY <1>2, <2>2, <2>4 DEF OpenExisting
  <2> QED BY <2>3, <2>4
<1>3. CASE FinishRead(r) BY <1>3 DEF FinishRead
<1>4. CASE Verify(r) BY <1>4 DEF Verify
<1>5. CASE Fail(r) BY <1>5 DEF Fail
<1> QED BY <1>1, <1>2, <1>3, <1>4, <1>5 DEF ReaderStep

LEMMA MachineTypes ==
  ASSUME TypeOK, (\E d \in Dirs : SwapParent(d)) \/ PowerFails
  PROVE  TypeOK'
<1> USE DEF TypeOK, fsVars, procVars
<1>1. ASSUME NEW d \in Dirs, SwapParent(d) PROVE TypeOK'
  BY <1>1, ContainedAssumption DEF SwapParent
<1>2. CASE PowerFails
  BY <1>2 DEF PowerFails
<1> QED BY <1>1, <1>2

-----------------------------------------------------------------------------
(* What is linked *)

LEMMA WriterKeepsLinks ==
  ASSUME IInv, NEW w \in Writers, WriterStep(w) \/ Kill(w)
  PROVE  LinkedAreFlushed'
<1> USE DEF IInv, TypeOK, LinkedAreFlushed, Flushed, At, Goto, Answer, Env, fsVars, procVars, Procs
<1>1. CASE OpenParent(w) BY <1>1 DEF OpenParent
<1>2. CASE CreateTemp(w) BY <1>2 DEF CreateTemp
<1>3. CASE WriteBody(w) BY <1>3 DEF WriteBody
<1>4. CASE Sync(w) BY <1>4 DEF Sync
<1>5. CASE CheckParent(w) BY <1>5 DEF CheckParent
<1>6. CASE RecheckParent(w) BY <1>6 DEF RecheckParent
<1>7. CASE CheckFile(w) BY <1>7 DEF CheckFile
<1>8. CASE Replace(w) BY <1>8 DEF Replace
<1>9. CASE FlushParent(w) BY <1>9 DEF FlushParent
<1>10. CASE LookUpBound(w) BY <1>10 DEF LookUpBound
<1>11. CASE Unlink(w) BY <1>11 DEF Unlink
<1>12. CASE RemoveTemp(w) BY <1>12 DEF RemoveTemp
<1>13. CASE WindowsReplace(w) BY <1>13 DEF WindowsReplace
<1>14. CASE DeleteByHandle(w) BY <1>14 DEF DeleteByHandle
<1>15. CASE Kill(w) BY <1>15 DEF Kill
<1> QED
  BY <1>1, <1>2, <1>3, <1>4, <1>5, <1>6, <1>7, <1>8, <1>9, <1>10, <1>11, <1>12, <1>13, <1>14, <1>15
  DEF WriterStep, PosixAnchor, WindowsAnchor

LEMMA OthersKeepLinks ==
  ASSUME IInv, (\E r \in Readers : ReaderStep(r)) \/ (\E d \in Dirs : SwapParent(d)) \/ PowerFails
  PROVE  LinkedAreFlushed'
<1> USE DEF IInv, TypeOK, LinkedAreFlushed, Flushed, At, Goto, Answer, Env, fsVars, procVars, Procs
<1>1. ASSUME NEW r \in Readers, OpenParent(r) PROVE LinkedAreFlushed'
  BY <1>1 DEF OpenParent
<1>2. ASSUME NEW r \in Readers, OpenExisting(r) \/ FinishRead(r) \/ Verify(r) \/ Fail(r)
      PROVE  LinkedAreFlushed'
  <2>1. UNCHANGED <<power, entry, durable, whole, synced>>
    BY <1>2 DEF OpenExisting, FinishRead, Verify, Fail
  <2>2. \A w \in Writers : pc'[w] = pc[w] \/ pc'[w] \in {"reading", "verifying", "failing", "end"}
    BY <1>2 DEF OpenExisting, FinishRead, Verify, Fail
  <2> QED BY <2>1, <2>2
<1>3. ASSUME NEW d \in Dirs, SwapParent(d) PROVE LinkedAreFlushed'
  BY <1>3 DEF SwapParent
<1>4. CASE PowerFails
  BY <1>4 DEF PowerFails
<1> QED BY <1>1, <1>2, <1>3, <1>4 DEF ReaderStep

-----------------------------------------------------------------------------
(* While nothing disturbs the directory *)

\* Who has begun and not ended holds the directory at the path.
LEMMA HoldsParent ==
  ASSUME TypeOK, CalmInv, Undisturbed, NEW p \in Procs, pc[p] \notin {"start", "end"}
  PROVE  anchor[p] = parent /\ parent \in Dirs
BY DEF TypeOK, CalmInv

\* What no step of a writer touches, and how it moves on.
LEMMA WriterStepIsSmall ==
  ASSUME IInv, NEW w \in Writers, WriterStep(w) \/ Kill(w)
  PROVE  /\ UNCHANGED <<windows, parent, swaps, power, bound>>
         /\ \E s : pc' = [pc EXCEPT ![w] = s]
         /\ told' = told \/ \E a : told' = [told EXCEPT ![w] = a]
         /\ Undisturbed' => Undisturbed
<1> USE DEF Env, Goto, Answer, fsVars, procVars
<1>1. /\ UNCHANGED <<windows, parent, swaps, power, bound>>
      /\ \E s : pc' = [pc EXCEPT ![w] = s]
      /\ told' = told \/ \E a : told' = [told EXCEPT ![w] = a]
  BY DEF WriterStep, PosixAnchor, WindowsAnchor, Kill, OpenParent, CreateTemp, WriteBody, Sync, CheckParent,
           RecheckParent, CheckFile, Replace, FlushParent, LookUpBound, Unlink, RemoveTemp, WindowsReplace,
           DeleteByHandle
<1>2. flushFailures' = flushFailures \/ FlushParent(w)
  BY DEF WriterStep, PosixAnchor, WindowsAnchor, Kill, OpenParent, CreateTemp, WriteBody, Sync, CheckParent,
         RecheckParent, CheckFile, Replace, LookUpBound, Unlink, RemoveTemp, WindowsReplace, DeleteByHandle
<1>3. Undisturbed' => Undisturbed
  BY <1>1, <1>2 DEF FlushParent, Undisturbed, IInv, TypeOK
<1> QED BY <1>1, <1>3

LEMMA WriterKeepsCalm ==
  ASSUME IInv, NEW w \in Writers, WriterStep(w) \/ Kill(w)
  PROVE  CalmInv'
<1> SUFFICES ASSUME Undisturbed' PROVE CalmInv'
  BY DEF CalmInv
<1>1. UNCHANGED <<windows, parent, swaps, power>> /\ Undisturbed
  BY WriterStepIsSmall
<1>2. w \in Procs /\ (pc[w] \notin {"start", "end"} => anchor[w] = parent) /\ parent \in Dirs
  BY <1>1, HoldsParent DEF IInv, Procs, TypeOK
<1> USE DEF IInv, TypeOK, CalmInv, At, Goto, Answer, Env, fsVars, procVars, Procs, Inodes
<1>3. CASE OpenParent(w) BY <1>1, <1>2, <1>3 DEF OpenParent
<1>4. CASE CreateTemp(w) BY <1>1, <1>2, <1>4 DEF CreateTemp
<1>5. CASE WriteBody(w) BY <1>1, <1>2, <1>5 DEF WriteBody
<1>6. CASE Sync(w) BY <1>1, <1>2, <1>6 DEF Sync
<1>7. CASE CheckParent(w) BY <1>1, <1>2, <1>7 DEF CheckParent
<1>8. CASE RecheckParent(w) BY <1>1, <1>2, <1>8 DEF RecheckParent, ParentCurrent
<1>9. CASE CheckFile(w)
  <2>1. CASE entry[parent] = w BY <1>1, <1>2, <1>9, <2>1 DEF CheckFile
  <2>2. CASE entry[parent] # w BY <1>1, <1>2, <1>9, <2>2 DEF CheckFile
  <2> QED BY <2>1, <2>2
<1>10. CASE Replace(w) BY <1>1, <1>2, <1>10, ContainedAssumption DEF Replace
<1>11. CASE FlushParent(w) BY <1>1, <1>2, <1>11 DEF FlushParent, Undisturbed
<1>12. CASE LookUpBound(w) BY <1>1, <1>2, <1>12 DEF LookUpBound
<1>13. CASE Unlink(w) BY <1>1, <1>13 DEF Unlink
<1>14. CASE RemoveTemp(w) BY <1>1, <1>2, <1>14 DEF RemoveTemp
<1>15. CASE WindowsReplace(w) BY <1>1, <1>2, <1>15, ContainedAssumption DEF WindowsReplace
<1>16. CASE DeleteByHandle(w) BY <1>1, <1>2, <1>16 DEF DeleteByHandle
<1>17. CASE Kill(w) BY <1>1, <1>2, <1>17 DEF Kill
<1> QED
  BY <1>3, <1>4, <1>5, <1>6, <1>7, <1>8, <1>9, <1>10, <1>11, <1>12, <1>13, <1>14, <1>15, <1>16, <1>17
  DEF WriterStep, PosixAnchor, WindowsAnchor

\* A reader's step and the machine's leave the directory entries alone, except for
\* a power failure, after which nothing goes on.
LEMMA ReaderStepIsSmall ==
  ASSUME TypeOK, NEW r \in Readers, ReaderStep(r)
  PROVE  /\ UNCHANGED <<windows, parent, swaps, power, fsVars, flushFailures>>
         /\ \A p \in Procs \ {r} : pc'[p] = pc[p] /\ anchor'[p] = anchor[p] /\ told'[p] = told[p]
         /\ anchor'[r] \in {anchor[r], parent}
<1> USE DEF TypeOK, At, Goto, Answer, Env, fsVars, procVars, Procs
<1>1. CASE OpenParent(r) BY <1>1 DEF OpenParent
<1>2. CASE OpenExisting(r) BY <1>2 DEF OpenExisting
<1>3. CASE FinishRead(r) BY <1>3 DEF FinishRead
<1>4. CASE Verify(r) BY <1>4 DEF Verify
<1>5. CASE Fail(r) BY <1>5 DEF Fail
<1> QED BY <1>1, <1>2, <1>3, <1>4, <1>5 DEF ReaderStep

LEMMA OthersKeepCalm ==
  ASSUME IInv, (\E r \in Readers : ReaderStep(r)) \/ (\E d \in Dirs : SwapParent(d)) \/ PowerFails
  PROVE  CalmInv' /\ ReplacedInv'
<1>1. ASSUME NEW r \in Readers, ReaderStep(r) PROVE CalmInv' /\ ReplacedInv'
  <2>1. Writers \subseteq Procs \ {r} /\ r \in Procs
    BY ContainedAssumption DEF Procs
  <2> QED BY <1>1, <2>1, ReaderStepIsSmall DEF IInv, CalmInv, ReplacedInv, Undisturbed, fsVars
<1>2. ASSUME NEW d \in Dirs, SwapParent(d) PROVE CalmInv' /\ ReplacedInv'
  <2>1. ~Undisturbed'
    BY <1>2 DEF SwapParent, Undisturbed, IInv, TypeOK
  <2> QED BY <2>1 DEF CalmInv, ReplacedInv
<1>3. CASE PowerFails
  <2>1. ~power' /\ UNCHANGED <<windows, parent, procVars, swaps, flushFailures>> /\ durable' = entry'
    BY <1>3 DEF PowerFails
  <2>2. parent \in Dirs /\ entry'[parent] \in {entry[parent], durable[parent]}
    BY <1>3 DEF PowerFails, IInv, TypeOK
  <2> QED BY <2>1, <2>2 DEF IInv, CalmInv, ReplacedInv, Undisturbed, procVars
<1> QED BY <1>1, <1>2, <1>3

LEMMA WriterKeepsReplaced ==
  ASSUME IInv, NEW w \in Writers, WriterStep(w) \/ Kill(w), Undisturbed
  PROVE  ReplacedInv'
<1> SUFFICES ASSUME ~windows, Undisturbed' PROVE ReplacedInv'
  BY WriterStepIsSmall DEF ReplacedInv
<1>1. w \in Procs /\ (pc[w] \notin {"start", "end"} => anchor[w] = parent) /\ parent \in Dirs
  BY HoldsParent DEF IInv, Procs, TypeOK
<1> USE DEF IInv, TypeOK, CalmInv, ReplacedInv, At, Goto, Answer, Env, fsVars, procVars, Procs, Inodes
<1>3. CASE OpenParent(w) BY <1>1, <1>3 DEF OpenParent
<1>4. CASE CreateTemp(w) BY <1>1, <1>4 DEF CreateTemp
<1>5. CASE WriteBody(w) BY <1>1, <1>5 DEF WriteBody
<1>6. CASE Sync(w) BY <1>1, <1>6 DEF Sync
<1>7. CASE CheckParent(w) BY <1>1, <1>7 DEF CheckParent
<1>8. CASE RecheckParent(w) BY <1>1, <1>8 DEF RecheckParent
<1>9. CASE CheckFile(w)
  <2>1. CASE entry[parent] = w BY <1>1, <1>9, <2>1 DEF CheckFile
  <2>2. CASE entry[parent] # w BY <1>1, <1>9, <2>2 DEF CheckFile
  <2> QED BY <2>1, <2>2
<1>10. CASE Replace(w) BY <1>1, <1>10, ContainedAssumption DEF Replace
<1>11. CASE FlushParent(w) BY <1>1, <1>11 DEF FlushParent, Undisturbed
<1>12. CASE LookUpBound(w) BY <1>1, <1>12 DEF LookUpBound
<1>13. CASE Unlink(w) BY <1>1, <1>13 DEF Unlink
<1>14. CASE RemoveTemp(w) BY <1>1, <1>14 DEF RemoveTemp
<1>15. CASE Kill(w) BY <1>1, <1>15 DEF Kill
<1> QED
  BY <1>3, <1>4, <1>5, <1>6, <1>7, <1>8, <1>9, <1>10, <1>11, <1>12, <1>13, <1>14, <1>15
  DEF WriterStep, PosixAnchor, WindowsAnchor

LEMMA StepKeepsReading ==
  ASSUME IInv, Next
  PROVE  ReaderInv'
<1> USE DEF IInv, TypeOK, ReaderInv, At, Goto, Answer, Env, fsVars, procVars, Procs
<1>1. ASSUME NEW w \in Writers, WriterStep(w) \/ Kill(w) PROVE ReaderInv'
  BY <1>1, WriterStepIsSmall, ContainedAssumption
<1>2. ASSUME NEW r \in Readers, ReaderStep(r) PROVE ReaderInv'
  <2>1. CASE OpenParent(r) BY <2>1 DEF OpenParent
  <2>2. CASE OpenExisting(r) BY <2>2 DEF OpenExisting
  <2>3. CASE FinishRead(r) BY <2>3 DEF FinishRead
  <2>4. CASE Verify(r) BY <2>4 DEF Verify
  <2>5. CASE Fail(r) BY <2>5 DEF Fail
  <2> QED BY <1>2, <2>1, <2>2, <2>3, <2>4, <2>5 DEF ReaderStep
<1>3. CASE (\E d \in Dirs : SwapParent(d)) \/ PowerFails
  BY <1>3 DEF SwapParent, PowerFails
<1> QED BY <1>1, <1>2, <1>3 DEF Next

-----------------------------------------------------------------------------
(* The theorems *)

\* A file that a name refers to, before or after a power failure, is complete and
\* flushed; so is the one that is about to be renamed to it. While nothing disturbs
\* the directory, the file is never gone and what was flushed stays replaced.
THEOREM InductiveInvariant == Spec => []IInv
<1>1. Init => IInv
  BY InitInv
<1>2. IInv /\ [Next]_vars => IInv'
  <2> SUFFICES ASSUME IInv, [Next]_vars PROVE IInv'
    OBVIOUS
  <2>1. CASE Next
    <3>1. TypeOK' /\ LinkedAreFlushed'
      BY <2>1, WriterTypes, ReaderTypes, MachineTypes, WriterKeepsLinks, OthersKeepLinks DEF Next, IInv
    <3>2. CalmInv'
      BY <2>1, WriterKeepsCalm, OthersKeepCalm DEF Next
    <3>3. ReplacedInv'
      BY <2>1, WriterKeepsReplaced, WriterStepIsSmall, OthersKeepCalm DEF Next, ReplacedInv
    <3> QED BY <2>1, <3>1, <3>2, <3>3, StepKeepsReading DEF IInv
  <2>2. CASE UNCHANGED vars
    BY <2>2 DEF IInv, TypeOK, LinkedAreFlushed, Flushed, CalmInv, ReplacedInv, ReaderInv, Undisturbed, vars, fsVars, procVars
  <2> QED BY <2>1, <2>2
<1> QED BY <1>1, <1>2, PTL DEF Spec

\* open_contained_atomic_writer leaves no torn file under the target's name, however
\* many processes write at once and die, and whenever the power fails.
THEOREM WritesAreAtomic == Spec => []NeverTorn
<1>1. IInv => NeverTorn
  BY DEF IInv, LinkedAreFlushed, Flushed, NeverTorn
<1> QED BY <1>1, InductiveInvariant, PTL

\* A write that fails before the rename, is overtaken by another or killed, and a power
\* failure, do not cost the file (open_contained_atomic_writer's cleanup).
THEOREM FileIsKept == Spec => []NeverLost
<1>1. IInv => NeverLost
  BY DEF IInv, CalmInv, NeverLost
<1> QED BY <1>1, InductiveInvariant, PTL

\* On POSIX a power failure does not undo a write that was acknowledged.
THEOREM Durable == Spec => []AcknowledgedIsDurable
<1>1. IInv => AcknowledgedIsDurable
  BY DEF IInv, TypeOK, Inodes, Procs, CalmInv, ReplacedInv, AcknowledgedIsDurable
<1> QED BY <1>1, InductiveInvariant, PTL

\* open_contained_reader succeeds with a whole version, which is the one the name
\* refers to when it is answered.
THEOREM ReadsAreCurrent == Spec => ReadsCurrent
<1> DEFINE Current == \A r \in Readers : told[r] = "none" /\ told'[r] = "ok" =>
                         bound[r] \in whole /\ entry[anchor[r]] = bound[r]
<1>1. IInv /\ [Next]_vars => [Current]_vars
  <2> SUFFICES ASSUME IInv, Next, NEW r \in Readers, told[r] = "none", told'[r] = "ok"
               PROVE  bound[r] \in whole /\ entry[anchor[r]] = bound[r]
    OBVIOUS
  <2> USE DEF IInv, TypeOK, Goto, Answer, Env, fsVars, procVars, Procs
  <2>1. ASSUME NEW w \in Writers, WriterStep(w) \/ Kill(w) PROVE told'[r] = told[r]
    BY <2>1, WriterStepIsSmall, ContainedAssumption
  <2>2. Verify(r)
    <3>1. ASSUME NEW s \in Readers, ReaderStep(s) PROVE s = r /\ Verify(r)
      BY <3>1 DEF ReaderStep, OpenParent, OpenExisting, FinishRead, Verify, Fail
    <3> QED BY <2>1, <3>1 DEF Next, SwapParent, PowerFails
  <2>3. entry[anchor[r]] = bound[r] /\ bound[r] # Nil /\ anchor[r] \in Dirs
    BY <2>2 DEF Verify, At, ReaderInv
  <2> QED BY <2>3 DEF LinkedAreFlushed, Flushed
<1> QED BY <1>1, InductiveInvariant, PTL DEF Spec, ReadsCurrent

-----------------------------------------------------------------------------
(* Evidence files *)

LEMMA SealInitInv == SealInit => EvidenceInv
<1> SUFFICES ASSUME SealInit PROVE EvidenceInv
  OBVIOUS
<1>1. SealTypeOK
  <2>1. source \in Versions /\ sealed \in [Data -> Data \cup {None}] /\ manifests \subseteq Data
    BY DEF SealInit, Versions
  <2>2. saves \in 0 .. MaxSaves /\ kills \in 0 .. MaxKills
    BY SealAssumption DEF SealInit
  <2>3. jobs \in Seq(Calls) /\ loop \in Seq(Calls)
    BY DEF SealInit
  <2>4. /\ hashed \in [Calls -> Versions \cup Exporters \cup {None}] /\ copied \in [Calls -> Versions \cup {None}]
        /\ \A c \in Exporters : hashed[c] \in Exporters \cup {None}
    BY DEF SealInit, Calls
  <2> QED BY <2>1, <2>2, <2>3, <2>4 DEF SealInit, SealTypeOK, Pc
<1>2. LoopInv /\ JobsInv
  BY DEF SealInit, LoopInv, JobsInv, FilePart
<1>3. SealInv /\ ExportInv /\ ManifestsTrue /\ ExportDescribed
  BY DEF SealInit, SealInv, ExportInv, ManifestsTrue, ExportDescribed, FilePart, Calls
<1> QED BY <1>1, <1>2, <1>3 DEF EvidenceInv

-----------------------------------------------------------------------------
(* Types *)

LEMMA AppendType ==
  ASSUME NEW S, NEW s \in Seq(S), NEW x \in S
  PROVE  Append(s, x) \in Seq(S)
OBVIOUS

LEMMA ExceptType ==
  ASSUME NEW S, NEW T, NEW g \in [S -> T], NEW c, NEW x \in T
  PROVE  /\ [g EXCEPT ![c] = x] \in [S -> T]
         /\ \A e \in S \ {c} : [g EXCEPT ![c] = x][e] = g[e]
OBVIOUS

LEMMA JobTypes ==
  ASSUME SealTypeOK, NEW c \in Calls, Submit(c) \/ TimesOut(c) \/ RunJob(c) \/ FileFails(c)
  PROVE  SealTypeOK'
<1> USE DEF SealTypeOK, Answers, GoesTo, Ends, files, Pc
<1>1. CASE Submit(c)
  <2>1. CASE c \in Sealers /\ quarantined BY <1>1, <2>1 DEF Submit
  <2>2. CASE ~(c \in Sealers /\ quarantined)
    <3>1. jobs' = Append(jobs, c) /\ stage' = [stage EXCEPT ![c] = "queued"] /\ answer' = answer
      BY <1>1, <2>2, Zenon DEF Submit
    <3>2. UNCHANGED <<document, files, loop, quarantined, hashed, copied, saves, kills>>
      BY <1>1, Zenon DEF Submit
    <3> QED BY <3>1, <3>2
  <2> QED BY <2>1, <2>2
<1>2. CASE TimesOut(c)
  <2>1. quarantined' \in BOOLEAN
    BY <1>2, Zenon DEF TimesOut
  <2> QED BY <1>2, <2>1 DEF TimesOut
<1>3. CASE RunJob(c)
  <2>1. source' \in Versions /\ sat' \in Exporters \cup {None}
    BY <1>3 DEF RunJob, Acts, Written, Versions, Calls
  <2>2. jobs' \in Seq(Calls)
    BY <1>3 DEF RunJob
  <2>4. loop' \in Seq(Calls)
    <3>1. loop' = Append(loop, c) \/ loop' = loop
      BY <1>3, Zenon DEF RunJob, Resume
    <3>2. Append(loop, c) \in Seq(Calls)
      BY AppendType
    <3> QED BY <3>1, <3>2, Zenon
  <2>3. stage' \in [Calls -> Pc] /\ answer' \in [Calls -> {"none", "SEALED", "EXPORTED", "error", "timeout", "lost"}]
    <3>1. CASE stage[c] = "queued" BY <1>3, <3>1 DEF RunJob, Resume
    <3>2. CASE stage[c] # "queued" BY <1>3, <3>2 DEF RunJob, Resume
    <3> QED BY <3>1, <3>2
  <2> QED BY <1>3, <2>1, <2>2, <2>3, <2>4 DEF RunJob
<1>4. CASE FileFails(c)
  BY <1>4 DEF FileFails
<1> QED BY <1>1, <1>2, <1>3, <1>4

SealStep(c) ==
  \/ HashSource(c) \/ LookUp(c) \/ OpenSource(c) \/ RenameCopy(c)
  \/ VerifySealed(c) \/ RehashSource(c) \/ WriteManifest(c)

ExportStep(c) == HashExport(c) \/ WriteExportManifest(c)

\* What a step of a file part does to the loop.
Moves(c) ==
  /\ loop # <<>> /\ c = Head(loop) /\ c \in Calls /\ UNCHANGED jobs
  /\ \/ \E p \in FilePart : GoesTo(c, p) /\ UNCHANGED <<loop, answer>>
     \/ \E a \in {"SEALED", "EXPORTED", "error"} : Ends(c, a)

LEMMA SealMoves ==
  ASSUME NEW c \in Sealers, SealStep(c) \/ FileFails(c)
  PROVE  Moves(c)
<1> USE DEF Moves, Runs, Files, FilePart
<1>0. c \in Calls BY DEF Calls
<1>1. CASE HashSource(c) BY <1>0, <1>1 DEF HashSource
<1>2. CASE LookUp(c) BY <1>0, <1>2 DEF LookUp
<1>3. CASE OpenSource(c) BY <1>0, <1>3 DEF OpenSource
<1>4. CASE RenameCopy(c) BY <1>0, <1>4 DEF RenameCopy
<1>5. CASE VerifySealed(c) BY <1>0, <1>5 DEF VerifySealed
<1>6. CASE RehashSource(c) BY <1>0, <1>6 DEF RehashSource
<1>7. CASE WriteManifest(c) BY <1>0, <1>7 DEF WriteManifest
<1>8. CASE FileFails(c) BY <1>0, <1>8 DEF FileFails
<1> QED BY <1>1, <1>2, <1>3, <1>4, <1>5, <1>6, <1>7, <1>8 DEF SealStep

LEMMA ExportMoves ==
  ASSUME NEW c \in Exporters, ExportStep(c) \/ FileFails(c)
  PROVE  Moves(c)
<1> USE DEF Moves, Runs, Files, FilePart
<1>0. c \in Calls BY DEF Calls
<1>1. CASE HashExport(c) BY <1>0, <1>1 DEF HashExport
<1>2. CASE WriteExportManifest(c) BY <1>0, <1>2 DEF WriteExportManifest
<1>3. CASE FileFails(c) BY <1>0, <1>3 DEF FileFails
<1> QED BY <1>1, <1>2, <1>3 DEF ExportStep

LEMMA MoveTypes ==
  ASSUME SealTypeOK, NEW c \in Calls, Moves(c)
  PROVE  /\ jobs' \in Seq(Calls) /\ loop' \in Seq(Calls) /\ stage' \in [Calls -> Pc]
         /\ answer' \in [Calls -> {"none", "SEALED", "EXPORTED", "error", "timeout", "lost"}]
<1> USE DEF SealTypeOK, Pc, FilePart, GoesTo, Ends, Answers
<1>1. CASE \E p \in FilePart : GoesTo(c, p) /\ UNCHANGED <<loop, answer>>
  BY <1>1 DEF Moves
<1>2. CASE \E a \in {"SEALED", "EXPORTED", "error"} : Ends(c, a)
  BY <1>2 DEF Moves
<1> QED BY <1>1, <1>2 DEF Moves

LEMMA SealTypes ==
  ASSUME SealTypeOK, SealInv, NEW c \in Sealers, SealStep(c)
  PROVE  SealTypeOK'
<1>0. c \in Calls /\ c \notin Exporters
  BY SealAssumption DEF Calls
<1>1. /\ jobs' \in Seq(Calls) /\ loop' \in Seq(Calls) /\ stage' \in [Calls -> Pc]
      /\ answer' \in [Calls -> {"none", "SEALED", "EXPORTED", "error", "timeout", "lost"}]
  BY <1>0, SealMoves, MoveTypes
<1>2. Files(c)
  BY DEF SealStep, HashSource, LookUp, OpenSource, RenameCopy, VerifySealed, RehashSource, WriteManifest
<1>3. hashed' = hashed \/ hashed' = [hashed EXCEPT ![c] = source]
  BY DEF SealStep, HashSource, LookUp, OpenSource, RenameCopy, VerifySealed, RehashSource, WriteManifest
<1>4. copied' = copied \/ copied' = [copied EXCEPT ![c] = source]
  BY DEF SealStep, HashSource, LookUp, OpenSource, RenameCopy, VerifySealed, RehashSource, WriteManifest
<1>5. sealed' \in [Data -> Data \cup {None}]
  BY <1>0 DEF SealStep, HashSource, LookUp, OpenSource, RenameCopy, VerifySealed, RehashSource, WriteManifest,
              SealTypeOK, SealInv, Runs, FilePart, Versions
<1>6. manifests' \subseteq Data
  BY <1>0 DEF SealStep, HashSource, LookUp, OpenSource, RenameCopy, VerifySealed, RehashSource, WriteManifest,
              SealTypeOK, SealInv, Runs, FilePart, Versions
<1>7. /\ hashed' \in [Calls -> Versions \cup Exporters \cup {None}] /\ copied' \in [Calls -> Versions \cup {None}]
      /\ \A e \in Exporters : hashed'[e] \in Exporters \cup {None}
  <2>1. source \in Versions \cup Exporters \cup {None} /\ source \in Versions \cup {None}
    BY DEF SealTypeOK
  <2>0. hashed \in [Calls -> Versions \cup Exporters \cup {None}] /\ copied \in [Calls -> Versions \cup {None}]
    BY DEF SealTypeOK
  <2>2. hashed' \in [Calls -> Versions \cup Exporters \cup {None}]
    BY <1>3, <2>0, <2>1, ExceptType
  <2>3. copied' \in [Calls -> Versions \cup {None}]
    BY <1>4, <2>0, <2>1, ExceptType
  <2>4. \A e \in Exporters : e \in Calls \ {c}
    BY <1>0 DEF Calls
  <2>5. \A e \in Exporters : hashed'[e] = hashed[e]
    BY <1>3, <2>0, <2>1, <2>4, ExceptType
  <2>6. \A e \in Exporters : hashed'[e] \in Exporters \cup {None}
    BY <2>5 DEF SealTypeOK
  <2> QED BY <2>2, <2>3, <2>6
<1>8. UNCHANGED <<document, source, sat, satManifest, quarantined, saves, kills>>
  BY <1>2 DEF Files
<1> QED BY <1>1, <1>5, <1>6, <1>7, <1>8 DEF SealTypeOK

LEMMA ExportTypes ==
  ASSUME SealTypeOK, ExportInv, NEW c \in Exporters, ExportStep(c)
  PROVE  SealTypeOK'
<1>0. c \in Calls
  BY DEF Calls
<1>1. /\ jobs' \in Seq(Calls) /\ loop' \in Seq(Calls) /\ stage' \in [Calls -> Pc]
      /\ answer' \in [Calls -> {"none", "SEALED", "EXPORTED", "error", "timeout", "lost"}]
  BY <1>0, ExportMoves, MoveTypes
<1>2. CASE HashExport(c) BY <1>0, <1>1, <1>2 DEF HashExport, SealTypeOK, Files
<1>3. CASE WriteExportManifest(c)
  BY <1>0, <1>1, <1>3 DEF WriteExportManifest, SealTypeOK, ExportInv, FilePart, Runs
<1> QED BY <1>2, <1>3 DEF ExportStep

LEMMA WorldTypes ==
  ASSUME SealTypeOK, Edit \/ UserSave \/ ServerDies
  PROVE  SealTypeOK'
<1> USE SealAssumption DEF SealTypeOK, files, Pc
<1>1. CASE Edit BY <1>1 DEF Edit
<1>2. CASE UserSave BY <1>2 DEF UserSave, Written, Versions
<1>3. CASE ServerDies
  <2>1. jobs' = <<>> /\ loop' = <<>> /\ quarantined' = FALSE /\ kills' \in 0 .. MaxKills
    BY <1>3 DEF ServerDies
  <2>2. stage' \in [Calls -> Pc] /\ answer' \in [Calls -> {"none", "SEALED", "EXPORTED", "error", "timeout", "lost"}]
    BY <1>3 DEF ServerDies
  <2>3. UNCHANGED <<document, files, hashed, copied, saves>>
    BY <1>3 DEF ServerDies
  <2>4. UNCHANGED <<source, sealed, manifests, sat, satManifest>>
    BY <2>3
  <2>5. /\ document' \in Data /\ source' \in Versions /\ sealed' \in [Data -> Data \cup {None}]
        /\ manifests' \subseteq Data /\ sat' \in Exporters \cup {None}
        /\ satManifest' = None \/ satManifest' \in [solids : Exporters, hash : Exporters]
    BY <2>3, <2>4
  <2>6. /\ hashed' \in [Calls -> Versions \cup Exporters \cup {None}] /\ copied' \in [Calls -> Versions \cup {None}]
        /\ \A e \in Exporters : hashed'[e] \in Exporters \cup {None}
        /\ saves' \in 0 .. MaxSaves
    BY <2>3
  <2>7. jobs' \in Seq(Calls) /\ loop' \in Seq(Calls)
    BY <2>1
  <2>8. quarantined' \in BOOLEAN
    BY <2>1, Zenon
  <2> QED BY <2>1, <2>2, <2>5, <2>6, <2>7, <2>8, Zenon
<1> QED BY <1>1, <1>2, <1>3

-----------------------------------------------------------------------------
(* The queue and the loop *)

LEMMA MoveKeepsLoop ==
  ASSUME SealTypeOK, LoopInv, JobsInv, NEW c \in Calls, Moves(c)
  PROVE  LoopInv' /\ JobsInv'
<1> USE DEF SealTypeOK, LoopInv, JobsInv, GoesTo, Ends, Answers, FilePart
<1>0. c = loop[1] /\ stage[c] \in {"hash"} \cup FilePart /\ \A i \in DOMAIN jobs : jobs[i] # c
  BY DEF Moves
<1>1. CASE \E p \in FilePart : GoesTo(c, p) /\ UNCHANGED <<loop, answer>>
  BY <1>0, <1>1 DEF Moves
<1>2. CASE \E a \in {"SEALED", "EXPORTED", "error"} : Ends(c, a)
  <2>1. \A i \in DOMAIN loop' : i + 1 \in DOMAIN loop /\ loop'[i] = loop[i + 1] /\ loop[i + 1] # c
    BY <1>0, <1>2 DEF Moves
  <2>2. LoopInv'
    BY <1>0, <1>2, <2>1
  <2>3. JobsInv'
    BY <1>0, <1>2 DEF Moves
  <2> QED BY <2>2, <2>3
<1> QED BY <1>1, <1>2 DEF Moves

LEMMA JobKeepsLoop ==
  ASSUME SealTypeOK, LoopInv, JobsInv, NEW c \in Calls, Submit(c) \/ TimesOut(c) \/ RunJob(c)
  PROVE  LoopInv' /\ JobsInv'
<1> USE DEF SealTypeOK, LoopInv, JobsInv, GoesTo, Answers, FilePart
<1>1. CASE Submit(c)
  <2>1. \A i \in DOMAIN loop : loop[i] # c
    BY <1>1 DEF Submit
  <2>2. \A i \in DOMAIN jobs : jobs[i] # c
    BY <1>1 DEF Submit
  <2>3. CASE Answers(c, "error") /\ UNCHANGED <<jobs, loop>>
    BY <1>1, <2>1, <2>2, <2>3 DEF Submit
  <2>4. CASE jobs' = Append(jobs, c) /\ GoesTo(c, "queued") /\ UNCHANGED <<answer, loop>>
    <3>1. LoopInv'
      BY <1>1, <2>1, <2>4 DEF Submit
    <3>2. /\ DOMAIN jobs' = 1 .. Len(jobs) + 1
          /\ \A i \in DOMAIN jobs' : jobs'[i] = IF i = Len(jobs) + 1 THEN c ELSE jobs[i]
      BY <2>4
    <3>3. JobsInv'
      BY <1>1, <2>2, <2>4, <3>2 DEF Submit
    <3> QED BY <3>1, <3>3
  <2> QED BY <1>1, <2>3, <2>4, Zenon DEF Submit
<1>2. CASE TimesOut(c)
  <2>1. UNCHANGED <<jobs, loop>> /\ stage[c] = "queued" /\ Answers(c, "timeout")
    BY <1>2, Zenon DEF TimesOut
  <2> QED BY <2>1
<1>3. CASE RunJob(c)
  <2>1. \A i \in DOMAIN jobs' :
          i \in Int /\ i + 1 \in DOMAIN jobs /\ jobs'[i] = jobs[i + 1] /\ jobs[i + 1] # c
    BY <1>3 DEF RunJob
  <2>2. c = jobs[1] /\ stage[c] \in {"queued", "end"} /\ \A i \in DOMAIN loop : loop[i] # c
    BY <1>3 DEF RunJob
  <2>3. CASE stage[c] = "queued" /\ GoesTo(c, "hash") /\ loop' = Append(loop, c) /\ UNCHANGED answer
    <3>1. JobsInv'
      BY <2>1, <2>2, <2>3
    <3>2. /\ DOMAIN loop' = 1 .. Len(loop) + 1
          /\ \A i \in DOMAIN loop' : loop'[i] = IF i = Len(loop) + 1 THEN c ELSE loop[i]
      BY <2>3
    <3>3. LoopInv'
      BY <2>2, <2>3, <3>2
    <3> QED BY <3>1, <3>3
  <2>4. CASE stage[c] = "queued" /\ Answers(c, "error") /\ UNCHANGED loop
    BY <2>1, <2>2, <2>4
  <2>5. CASE UNCHANGED <<stage, answer, loop>>
    BY <2>1, <2>5
  <2> QED BY <1>3, <2>3, <2>4, <2>5, Zenon DEF RunJob, Resume
<1> QED BY <1>1, <1>2, <1>3

LEMMA WorldKeepsLoop ==
  ASSUME SealTypeOK, LoopInv, JobsInv, Edit \/ UserSave \/ ServerDies
  PROVE  LoopInv' /\ JobsInv'
<1> USE DEF SealTypeOK, LoopInv, JobsInv, FilePart
<1>1. CASE Edit BY <1>1 DEF Edit
<1>2. CASE UserSave BY <1>2 DEF UserSave
<1>3. CASE ServerDies BY <1>3 DEF ServerDies, Pc
<1> QED BY <1>1, <1>2, <1>3

-----------------------------------------------------------------------------
(* Seals *)

SealSafe == SealInv /\ ManifestsTrue
ExportSafe == ExportInv /\ ExportDescribed

\* While one call is at the head of the loop no other is within its file part.
LEMMA Alone ==
  ASSUME SealTypeOK, LoopInv, loop # <<>>, NEW c \in Calls, c = Head(loop), NEW d \in Calls, d # c
  PROVE  stage[d] \notin FilePart
BY DEF SealTypeOK, LoopInv

LEMMA SealStepKeepsSeals ==
  ASSUME EvidenceInv, NEW c \in Sealers, SealStep(c)
  PROVE  SealSafe'
<1>0. c \in Calls /\ stage \in [Calls -> Pc] /\ loop # <<>> /\ c = Head(loop)
  BY SealMoves DEF EvidenceInv, SealTypeOK, Calls, Moves
<1>1. \A d \in Sealers : d # c => d \in Calls /\ stage[d] \notin FilePart
  BY <1>0, Alone DEF EvidenceInv, Calls
<1> USE DEF EvidenceInv, SealSafe, ManifestsTrue, SealInv, FilePart, Files, GoesTo, Ends, Answers, Runs
<1>2. CASE HashSource(c)
  BY <1>0, <1>1, <1>2 DEF HashSource, SealTypeOK
<1>3. CASE LookUp(c)
  BY <1>0, <1>1, <1>3, SealAssumption DEF LookUp, Versions, SealTypeOK
<1>4. CASE OpenSource(c)
  BY <1>0, <1>1, <1>4 DEF OpenSource, SealTypeOK
<1>5. CASE RenameCopy(c)
  BY <1>0, <1>1, <1>5 DEF RenameCopy, SealTypeOK, Versions
<1>6. CASE VerifySealed(c)
  BY <1>0, <1>1, <1>6 DEF VerifySealed
<1>7. CASE RehashSource(c)
  BY <1>0, <1>1, <1>7 DEF RehashSource
<1>8. CASE WriteManifest(c)
  BY <1>0, <1>1, <1>8 DEF WriteManifest
<1> QED BY <1>2, <1>3, <1>4, <1>5, <1>6, <1>7, <1>8 DEF SealStep

\* The steps that touch neither the files of a seal nor where a seal is in its file
\* part keep what is true of seals.
LEMMA SealsUntouched ==
  ASSUME SealSafe, UNCHANGED <<sealed, manifests, hashed, copied>>,
         \A d \in Sealers : stage'[d] = stage[d] \/ stage'[d] \notin FilePart
  PROVE  SealSafe'
BY DEF SealSafe, SealInv, ManifestsTrue, FilePart

LEMMA OtherStepsKeepSeals ==
  ASSUME EvidenceInv,
         \/ \E c \in Calls : Submit(c) \/ TimesOut(c) \/ RunJob(c) \/ FileFails(c)
         \/ \E c \in Exporters : ExportStep(c)
         \/ Edit \/ UserSave \/ ServerDies
  PROVE  SealSafe'
<1>0. SealSafe /\ stage \in [Calls -> Pc] /\ \A d \in Sealers : d \in Calls /\ d \notin Exporters
  BY SealAssumption DEF EvidenceInv, SealSafe, SealTypeOK, Calls
<1> USE DEF FilePart, GoesTo, Answers, Ends, files
<1>1. ASSUME NEW c \in Calls, Submit(c) PROVE SealSafe'
  <2>1. stage' = [stage EXCEPT ![c] = "end"] \/ stage' = [stage EXCEPT ![c] = "queued"]
    BY <1>1, Zenon DEF Submit
  <2> QED BY <1>0, <1>1, <2>1, SealsUntouched DEF Submit
<1>2. ASSUME NEW c \in Calls, TimesOut(c) PROVE SealSafe'
  BY <1>0, <1>2, SealsUntouched DEF TimesOut
<1>3. ASSUME NEW c \in Calls, RunJob(c) PROVE SealSafe'
  <2>1. stage' = [stage EXCEPT ![c] = "hash"] \/ stage' = [stage EXCEPT ![c] = "end"] \/ stage' = stage
    BY <1>3, Zenon DEF RunJob, Resume
  <2> QED BY <1>0, <1>3, <2>1, SealsUntouched DEF RunJob
<1>4. ASSUME NEW c \in Calls, FileFails(c) PROVE SealSafe'
  BY <1>0, <1>4, SealsUntouched DEF FileFails
<1>5. ASSUME NEW c \in Exporters, HashExport(c) PROVE SealSafe'
  <2>1. SealSafe /\ \A d \in Sealers : stage'[d] = stage[d] /\ hashed'[d] = hashed[d]
    BY <1>0, <1>5 DEF HashExport, EvidenceInv, SealTypeOK
  <2> QED BY <1>5, <2>1 DEF HashExport, SealSafe, SealInv, ManifestsTrue
<1>6. ASSUME NEW c \in Exporters, WriteExportManifest(c) PROVE SealSafe'
  BY <1>0, <1>6, SealsUntouched DEF WriteExportManifest
<1>7. CASE Edit
  BY <1>0, <1>7, SealsUntouched DEF Edit
<1>8. CASE UserSave
  BY <1>0, <1>8, SealsUntouched DEF UserSave
<1>9. CASE ServerDies
  BY <1>0, <1>9, SealsUntouched DEF ServerDies, Pc
<1> QED BY <1>1, <1>2, <1>3, <1>4, <1>5, <1>6, <1>7, <1>8, <1>9 DEF ExportStep

-----------------------------------------------------------------------------
(* Exports *)

\* A step that leaves an export and its file alone, and adds none to the loop.
LeavesExports ==
  /\ sat' = sat /\ satManifest' = satManifest
  /\ loop' = loop \/ (loop # <<>> /\ loop' = Tail(loop))
  /\ \A e \in Exporters : /\ stage'[e] = stage[e] \/ stage'[e] \notin {"hash"} \cup FilePart
                          /\ answer'[e] = answer[e] \/ answer'[e] # "EXPORTED"
                          /\ hashed'[e] = hashed[e]

LEMMA ExportsUntouched ==
  ASSUME SealTypeOK, ExportSafe, LeavesExports
  PROVE  ExportSafe'
<1> USE DEF LeavesExports
<1>1. \A i \in DOMAIN loop' : i \in Int
  BY DEF SealTypeOK
<1>2. PICK k \in {0, 1} : \A i \in DOMAIN loop' : i + k \in DOMAIN loop /\ loop'[i] = loop[i + k]
  <2>1. CASE loop' = loop BY <2>1, <1>1
  <2>2. CASE loop # <<>> /\ loop' = Tail(loop) BY <2>2 DEF SealTypeOK
  <2> QED BY <2>1, <2>2
<1>3. ASSUME NEW e \in Exporters
      PROVE  /\ sat' = e => \A i, j \in DOMAIN loop' : loop'[i] = e /\ i < j => loop'[j] \notin Exporters
             /\ sat' = e /\ answer'[e] = "EXPORTED" => \A i \in DOMAIN loop' : loop'[i] \notin Exporters
  <2>1. ASSUME sat' = e, NEW i \in DOMAIN loop', NEW j \in DOMAIN loop', loop'[i] = e, i < j
        PROVE  loop'[j] \notin Exporters
    <3>1. i + k < j + k
      BY <1>1, <2>1
    <3> QED BY <1>2, <2>1, <3>1 DEF ExportSafe, ExportInv
  <2>2. ASSUME sat' = e, answer'[e] = "EXPORTED" PROVE \A i \in DOMAIN loop' : loop'[i] \notin Exporters
    BY <1>2, <2>2 DEF ExportSafe, ExportInv
  <2> QED BY <2>1, <2>2
<1>4. ExportDescribed'
  BY DEF ExportSafe, ExportDescribed
<1>5. ASSUME NEW e \in Exporters
      PROVE  /\ stage'[e] \in {"hash"} \cup FilePart => sat' # None
             /\ stage'[e] \in FilePart => stage'[e] = "manifest" /\ hashed'[e] \in Exporters
             /\ stage'[e] = "manifest" /\ sat' = e => hashed'[e] = e
  <2>1. stage'[e] \in FilePart \/ stage'[e] = "manifest" \/ stage'[e] = "hash" => stage'[e] = stage[e]
    BY DEF FilePart
  <2>2. sat' = sat /\ hashed'[e] = hashed[e]
    OBVIOUS
  <2> QED BY <2>1, <2>2 DEF ExportSafe, ExportInv
<1>6. ExportInv'
  BY <1>3, <1>5 DEF ExportInv
<1> QED BY <1>4, <1>6 DEF ExportSafe

LEMMA ExportStepKeepsExports ==
  ASSUME EvidenceInv, NEW c \in Exporters, ExportStep(c)
  PROVE  ExportSafe'
<1>0. /\ c \in Calls /\ stage \in [Calls -> Pc] /\ loop # <<>> /\ c = loop[1] /\ 1 \in DOMAIN loop
      /\ \A d \in Exporters : d \in Calls
  BY ExportMoves DEF EvidenceInv, SealTypeOK, Calls, Moves
<1>1. \A d \in Exporters : d # c => stage[d] \notin FilePart
  BY <1>0, Alone DEF EvidenceInv
<1>2. CASE HashExport(c)
  <2>1. sat \in Exporters
    BY <1>2 DEF HashExport, Runs, EvidenceInv, ExportInv, SealTypeOK
  <2>2. /\ stage' = [stage EXCEPT ![c] = "manifest"] /\ hashed' = [hashed EXCEPT ![c] = sat]
        /\ UNCHANGED <<loop, answer, sat, satManifest>>
    BY <1>2 DEF HashExport, GoesTo, Files
  <2>3. /\ stage'[c] = "manifest" /\ hashed'[c] = sat
        /\ \A e \in Exporters : e # c => stage'[e] = stage[e] /\ hashed'[e] = hashed[e]
    BY <1>0, <2>2 DEF EvidenceInv, SealTypeOK
  <2>4. sat # None
    BY <1>2 DEF HashExport, Runs, EvidenceInv, ExportInv
  <2>5. ASSUME NEW e \in Exporters
        PROVE  /\ stage'[e] \in {"hash"} \cup FilePart => sat' # None
               /\ stage'[e] \in FilePart => stage'[e] = "manifest" /\ hashed'[e] \in Exporters
               /\ stage'[e] = "manifest" /\ sat' = e => hashed'[e] = e
    BY <1>1, <2>1, <2>2, <2>3, <2>4 DEF FilePart
  <2>6. ExportInv'
    BY <2>2, <2>5 DEF EvidenceInv, ExportInv
  <2>7. ExportDescribed'
    BY <2>2 DEF EvidenceInv, ExportDescribed
  <2> QED BY <2>6, <2>7 DEF ExportSafe
<1>3. CASE WriteExportManifest(c)
  <2>1. /\ stage[c] = "manifest" /\ stage' = [stage EXCEPT ![c] = "end"] /\ answer' = [answer EXCEPT ![c] = "EXPORTED"]
        /\ UNCHANGED <<sat, hashed>> /\ loop' = Tail(loop) /\ satManifest' = [solids |-> c, hash |-> hashed[c]]
    BY <1>3 DEF WriteExportManifest, Runs, Ends, Answers, GoesTo
  <2>2. \A i \in DOMAIN loop' : i \in Int /\ 1 < i + 1 /\ i + 1 \in DOMAIN loop /\ loop'[i] = loop[i + 1]
    BY <1>0, <2>1 DEF EvidenceInv, SealTypeOK
  <2>3. CASE sat = c
    <3>1. hashed[c] = c
      BY <2>1, <2>3 DEF EvidenceInv, ExportInv
    <3>2. \A i \in DOMAIN loop' : loop'[i] \notin Exporters
      BY <1>0, <2>2, <2>3 DEF EvidenceInv, ExportInv
    <3> QED BY <1>0, <2>1, <2>3, <3>1, <3>2 DEF EvidenceInv, ExportSafe, ExportInv, ExportDescribed, SealTypeOK, FilePart
  <2>4. CASE sat # c
    <3>1. \A e \in Exporters : sat = e => answer[e] # "EXPORTED"
      BY <1>0 DEF EvidenceInv, ExportInv
    <3>2. \A e \in Exporters : sat = e =>
            \A i, j \in DOMAIN loop' : loop'[i] = e /\ i < j => loop'[j] \notin Exporters
      BY <1>0, <2>2 DEF EvidenceInv, ExportInv
    <3> QED BY <1>0, <1>1, <2>1, <2>4, <3>1, <3>2 DEF EvidenceInv, ExportSafe, ExportInv, ExportDescribed, SealTypeOK, FilePart
  <2> QED BY <2>3, <2>4
<1> QED BY <1>2, <1>3 DEF ExportStep

LEMMA RunJobKeepsExports ==
  ASSUME EvidenceInv, NEW c \in Calls, RunJob(c)
  PROVE  ExportSafe'
<1>0. /\ stage \in [Calls -> Pc] /\ answer \in [Calls -> {"none", "SEALED", "EXPORTED", "error", "timeout", "lost"}]
      /\ loop \in Seq(Calls) /\ SealTypeOK /\ ExportSafe
      /\ \A e \in Exporters : e \in Calls
  BY DEF EvidenceInv, SealTypeOK, Calls, ExportSafe
<1>1. /\ stage[c] \in {"queued", "end"} /\ answer[c] # "EXPORTED"
      /\ \A i \in DOMAIN loop : loop[i] # c
  BY DEF RunJob, EvidenceInv, SealTypeOK, JobsInv, LoopInv, FilePart
<1>2. UNCHANGED <<satManifest, hashed>>
  BY DEF RunJob
<1>3. sat' = sat \/ (c \in Exporters /\ sat' = c)
  <2>1. ASSUME c \in Sealers, Acts(c) PROVE sat' = sat
    BY <2>1 DEF Acts
  <2>2. ASSUME c \notin Sealers, Acts(c) PROVE c \in Exporters /\ sat' = c
    BY <2>2 DEF Acts, Calls
  <2>3. Acts(c) \/ UNCHANGED <<source, sat>>
    BY DEF RunJob
  <2> QED BY <2>1, <2>2, <2>3, Zenon
<1>4. \/ /\ stage' = [stage EXCEPT ![c] = "hash"] /\ loop' = Append(loop, c) /\ answer' = answer
         /\ c \in Sealers \/ (c \in Exporters /\ sat' = c)
      \/ stage' = [stage EXCEPT ![c] = "end"] /\ loop' = loop /\ answer' = [answer EXCEPT ![c] = "error"]
      \/ UNCHANGED <<stage, loop, answer>>
  <2>1. ASSUME Acts(c) PROVE c \in Sealers \/ (c \in Exporters /\ sat' = c)
    BY <2>1, Zenon DEF Acts, Calls
  <2>2. \/ Acts(c) /\ Resume(c) /\ UNCHANGED answer
        \/ /\ IF stage[c] = "queued" THEN Answers(c, "error") ELSE UNCHANGED <<stage, answer>>
           /\ UNCHANGED loop
    BY Zenon DEF RunJob
  <2> QED BY <2>1, <2>2, Zenon DEF Resume, GoesTo, Answers
<1>5. loop' = Append(loop, c) =>
        /\ DOMAIN loop' = 1 .. Len(loop) + 1
        /\ \A i \in DOMAIN loop' : loop'[i] = IF i = Len(loop) + 1 THEN c ELSE loop[i]
  BY <1>0
<1>6. /\ stage'[c] \notin FilePart /\ answer'[c] # "EXPORTED"
      /\ \A e \in Exporters : e # c => stage'[e] = stage[e] /\ answer'[e] = answer[e]
  BY <1>0, <1>1, <1>4 DEF FilePart
<1>7. CASE c \in Exporters /\ sat' = c
  <2>1. c # None
    BY <1>7, SealAssumption
  <2>2. \A i \in DOMAIN loop' : loop'[i] = c => \A j \in DOMAIN loop' : ~ i < j
    BY <1>0, <1>1, <1>4, <1>5
  <2>3. ASSUME NEW e \in Exporters
        PROVE  /\ stage'[e] \in {"hash"} \cup FilePart => sat' # None
               /\ stage'[e] \in FilePart => stage'[e] = "manifest" /\ hashed'[e] \in Exporters
               /\ stage'[e] = "manifest" /\ sat' = e => hashed'[e] = e
    BY <1>0, <1>2, <1>6, <1>7, <2>1 DEF ExportSafe, ExportInv, FilePart
  <2>4. ExportInv'
    BY <1>6, <1>7, <2>2, <2>3 DEF ExportInv
  <2>5. ExportDescribed'
    BY <1>6, <1>7 DEF ExportDescribed
  <2> QED BY <2>4, <2>5 DEF ExportSafe
<1>8. CASE sat' = sat /\ c \notin Exporters /\ loop' = Append(loop, c)
  <2>1. \A e \in Exporters : e # c
    BY <1>8
  <2>2. ASSUME NEW e \in Exporters, sat' = e
        PROVE  /\ \A i, j \in DOMAIN loop' : loop'[i] = e /\ i < j => loop'[j] \notin Exporters
               /\ answer'[e] = "EXPORTED" => \A i \in DOMAIN loop' : loop'[i] \notin Exporters
    BY <1>0, <1>5, <1>6, <1>8, <2>1, <2>2 DEF ExportSafe, ExportInv
  <2>3. ExportInv'
    BY <1>0, <1>2, <1>6, <1>8, <2>1, <2>2 DEF ExportSafe, ExportInv
  <2>4. ExportDescribed'
    BY <1>0, <1>2, <1>6, <1>8, <2>1 DEF ExportSafe, ExportDescribed
  <2> QED BY <2>3, <2>4 DEF ExportSafe
<1>9. CASE sat' = sat /\ loop' = loop
  <2>1. \A e \in Exporters : /\ stage'[e] = stage[e] \/ stage'[e] \notin {"hash"} \cup FilePart
                             /\ answer'[e] = answer[e] \/ answer'[e] # "EXPORTED"
                             /\ hashed'[e] = hashed[e]
    BY <1>0, <1>1, <1>2, <1>4, <1>9 DEF FilePart
  <2>2. LeavesExports
    BY <1>2, <1>9, <2>1 DEF LeavesExports
  <2> QED BY <1>0, <2>2, ExportsUntouched
<1> QED BY <1>3, <1>4, <1>7, <1>8, <1>9, SealAssumption

LEMMA OtherStepsKeepExports ==
  ASSUME EvidenceInv,
         \/ \E c \in Calls : Submit(c) \/ TimesOut(c) \/ FileFails(c)
         \/ \E c \in Sealers : SealStep(c)
         \/ Edit \/ UserSave \/ ServerDies
  PROVE  ExportSafe'
<1>0. /\ stage \in [Calls -> Pc] /\ answer \in [Calls -> {"none", "SEALED", "EXPORTED", "error", "timeout", "lost"}]
      /\ hashed \in [Calls -> Versions \cup Exporters \cup {None}] /\ SealTypeOK /\ ExportSafe
      /\ \A e \in Exporters : e \in Calls /\ e \notin Sealers
  BY SealAssumption DEF EvidenceInv, SealTypeOK, Calls, ExportSafe
<1> USE DEF FilePart, GoesTo, Answers, Ends, files
<1>1. ASSUME NEW c \in Calls, Submit(c) PROVE ExportSafe'
  <2>1. /\ stage' = [stage EXCEPT ![c] = "end"] \/ stage' = [stage EXCEPT ![c] = "queued"]
        /\ answer' = answer \/ answer' = [answer EXCEPT ![c] = "error"]
    BY <1>1, Zenon DEF Submit
  <2>2. UNCHANGED <<sat, satManifest, loop, hashed>>
    BY <1>1 DEF Submit
  <2>3. LeavesExports
    <3>1. \A e \in Exporters : /\ stage'[e] = stage[e] \/ stage'[e] \in {"end", "queued"}
                               /\ answer'[e] = answer[e] \/ answer'[e] = "error"
      BY <1>0, <2>1
    <3> QED BY <2>2, <3>1 DEF LeavesExports
  <2> QED BY <1>0, <2>3, ExportsUntouched
<1>2. ASSUME NEW c \in Calls, TimesOut(c) PROVE ExportSafe'
  <2>1. LeavesExports
    <3>1. UNCHANGED <<sat, satManifest, loop, hashed>>
      BY <1>2 DEF TimesOut
    <3>2. \A e \in Exporters : /\ stage'[e] = stage[e] \/ stage'[e] = "end"
                               /\ answer'[e] = answer[e] \/ answer'[e] = "timeout"
      BY <1>0, <1>2 DEF TimesOut
    <3> QED BY <3>1, <3>2 DEF LeavesExports
  <2> QED BY <1>0, <2>1, ExportsUntouched
<1>3. ASSUME NEW c \in Calls, FileFails(c) PROVE ExportSafe'
  <2>1. LeavesExports
    BY <1>0, <1>3 DEF FileFails, LeavesExports
  <2> QED BY <1>0, <2>1, ExportsUntouched
<1>4. ASSUME NEW c \in Sealers, SealStep(c) PROVE ExportSafe'
  <2>1. Moves(c) /\ \A e \in Exporters : e # c
    BY <1>0, <1>4, SealMoves
  <2>2. loop' = loop \/ (loop # <<>> /\ loop' = Tail(loop))
    <3>1. loop' = loop \/ loop' = Tail(loop)
      BY <2>1, Zenon DEF Moves
    <3> QED BY <2>1, <3>1, Zenon DEF Moves
  <2>3. \A e \in Exporters : stage'[e] = stage[e] /\ answer'[e] = answer[e]
    BY <1>0, <2>1 DEF Moves
  <2>4. hashed' = hashed \/ hashed' = [hashed EXCEPT ![c] = source]
    BY <1>4 DEF SealStep, HashSource, LookUp, OpenSource, RenameCopy, VerifySealed, RehashSource, WriteManifest
  <2>5. UNCHANGED <<sat, satManifest>>
    BY <1>4 DEF SealStep, HashSource, LookUp, OpenSource, RenameCopy, VerifySealed, RehashSource, WriteManifest, Files
  <2>6. \A e \in Exporters : hashed'[e] = hashed[e]
    BY <1>0, <2>1, <2>4
  <2>7. LeavesExports
    BY <2>2, <2>3, <2>5, <2>6, Zenon DEF LeavesExports
  <2> QED BY <1>0, <2>7, ExportsUntouched
<1>5. CASE Edit
  <2>0. UNCHANGED <<sat, satManifest, loop, stage, answer, hashed>>
    BY <1>5 DEF Edit
  <2>1. LeavesExports
    BY <2>0 DEF LeavesExports
  <2> QED BY <1>0, <2>1, ExportsUntouched
<1>6. CASE UserSave
  <2>0. UNCHANGED <<sat, satManifest, loop, stage, answer, hashed>>
    BY <1>6 DEF UserSave
  <2>1. LeavesExports
    BY <2>0 DEF LeavesExports
  <2> QED BY <1>0, <2>1, ExportsUntouched
<1>7. CASE ServerDies
  <2>1. /\ loop' = <<>> /\ UNCHANGED <<sat, satManifest, hashed>>
        /\ \A e \in Exporters : stage'[e] \in {"start", "end"} /\ (answer'[e] = answer[e] \/ answer'[e] = "lost")
    BY <1>0, <1>7 DEF ServerDies
  <2> QED BY <1>0, <2>1 DEF ExportSafe, ExportInv, ExportDescribed
<1> QED BY <1>1, <1>2, <1>3, <1>4, <1>5, <1>6, <1>7

-----------------------------------------------------------------------------
(* The theorems *)

LEMMA NextKeepsInv == EvidenceInv /\ [SealNext]_sealVars => EvidenceInv'
<1> SUFFICES ASSUME EvidenceInv, [SealNext]_sealVars PROVE EvidenceInv'
  OBVIOUS
<1>0. SealTypeOK /\ LoopInv /\ JobsInv /\ SealInv /\ ExportInv
  BY DEF EvidenceInv
<1>1. ASSUME NEW c \in Calls, Submit(c) \/ TimesOut(c) \/ RunJob(c) PROVE EvidenceInv'
  BY <1>0, <1>1, JobTypes, JobKeepsLoop, OtherStepsKeepSeals, OtherStepsKeepExports, RunJobKeepsExports
  DEF EvidenceInv, SealSafe, ExportSafe
<1>2. ASSUME NEW c \in Calls, FileFails(c) PROVE EvidenceInv'
  <2>1. Moves(c)
    BY <1>2, SealMoves, ExportMoves DEF Calls
  <2> QED BY <1>0, <1>2, <2>1, JobTypes, MoveKeepsLoop, OtherStepsKeepSeals, OtherStepsKeepExports
          DEF EvidenceInv, SealSafe, ExportSafe
<1>3. ASSUME NEW c \in Sealers, SealStep(c) PROVE EvidenceInv'
  <2>1. Moves(c) /\ c \in Calls
    BY <1>3, SealMoves DEF Calls
  <2> QED BY <1>0, <1>3, <2>1, SealTypes, MoveKeepsLoop, SealStepKeepsSeals, OtherStepsKeepExports
          DEF EvidenceInv, SealSafe, ExportSafe
<1>4. ASSUME NEW c \in Exporters, ExportStep(c) PROVE EvidenceInv'
  <2>1. Moves(c) /\ c \in Calls
    BY <1>4, ExportMoves DEF Calls
  <2> QED BY <1>0, <1>4, <2>1, ExportTypes, MoveKeepsLoop, OtherStepsKeepSeals, ExportStepKeepsExports
          DEF EvidenceInv, SealSafe, ExportSafe
<1>5. CASE Edit \/ UserSave \/ ServerDies
  BY <1>0, <1>5, WorldTypes, WorldKeepsLoop, OtherStepsKeepSeals, OtherStepsKeepExports
  DEF EvidenceInv, SealSafe, ExportSafe
<1>6. CASE UNCHANGED sealVars
  BY <1>6 DEF EvidenceInv, SealTypeOK, LoopInv, JobsInv, SealInv, ExportInv, ManifestsTrue, ExportDescribed, sealVars, files
<1> QED
  BY <1>1, <1>2, <1>3, <1>4, <1>5, <1>6 DEF SealNext, SealStep, ExportStep

\* The strengthening that the other two theorems rest on: one call at a time is
\* within its file part, and exports go on in the order of their jobs.
THEOREM EvidenceInvariant == SealSpec => []EvidenceInv
<1>1. SealInit => EvidenceInv
  BY SealInitInv
<1>2. EvidenceInv /\ [SealNext]_sealVars => EvidenceInv'
  BY NextKeepsInv
<1> QED BY <1>1, <1>2, PTL DEF SealSpec

\* A manifest that artifact_seal has written vouches for the bytes beside it, however
\* often the user saves and the server is killed between its file operations.
THEOREM SealedIsVouchedFor == SealSpec => []ManifestsTrue
<1>1. EvidenceInv => ManifestsTrue
  BY DEF EvidenceInv
<1> QED BY <1>1, EvidenceInvariant, PTL

\* The .sat file of the export that was answered, and not exported over, is described
\* by the manifest beside it, however the jobs of several exports interleave.
THEOREM ExportIsDescribed == SealSpec => []ExportDescribed
<1>1. EvidenceInv => ExportDescribed
  BY DEF EvidenceInv
<1> QED BY <1>1, EvidenceInvariant, PTL
=============================================================================
