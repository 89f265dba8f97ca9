---------------------------- MODULE ContainedIO -----------------------------
(* contained_io.py: atomic writers and readers of one file name in a directory
   that other programs may move away and back, on POSIX and on Windows, with
   processes that die, directory flushes that fail and a power failure. A file
   is an inode; each writer makes one of its own.                          *)
EXTENDS Integers, FiniteSets

CONSTANTS Writers, Readers,
          Dirs,                 \* directories that may stand at the target's path
          Original,             \* inode of the file that is there at first
          Nil,
          MaxSwaps,             \* bound: times the directory at the path is exchanged
          MaxFlushFailures      \* bound: directory flushes that fail

ASSUME ContainedAssumption ==
    /\ Writers \cap Readers = {} /\ Original \notin Writers
    /\ Nil \notin Writers \cup Dirs \cup {Original}
    /\ MaxSwaps \in Nat /\ MaxFlushFailures \in Nat

Inodes == Writers \cup {Original}

VARIABLES
    windows,        \* os.name == "nt"; never changes
    parent,         \* the directory at the target's path
    entry,          \* per directory, the inode under the target's name
    durable,        \* per directory, the entry that survives a power failure
    whole, synced,  \* inodes whose content is complete, and survives
    temp,           \* per writer, whether its temporary name exists
    pc, anchor,     \* per writer and reader: its step, the directory it holds
    bound,          \* per reader, the inode it has open
    told,           \* per writer and reader: "none", "ok", "error"
    swaps, flushFailures, power

fsVars == <<entry, durable, whole, synced, temp>>
procVars == <<pc, anchor, bound, told>>
vars == <<windows, parent, fsVars, procVars, swaps, flushFailures, power>>

Procs == Writers \cup Readers

Init ==
    /\ windows \in BOOLEAN
    /\ parent \in Dirs
    /\ entry = [d \in Dirs |-> IF d = parent THEN Original ELSE Nil] /\ durable = entry
    /\ whole = {Original} /\ synced = {Original}
    /\ temp = [w \in Writers |-> FALSE]
    /\ pc = [p \in Procs |-> "start"] /\ anchor = [p \in Procs |-> Nil]
    /\ bound = [r \in Readers |-> Nil]
    /\ told = [p \in Procs |-> "none"]
    /\ swaps = 0 /\ flushFailures = 0 /\ power = TRUE

At(p, s) == power /\ pc[p] = s
Goto(p, s) == pc' = [pc EXCEPT ![p] = s]
Answer(p, a) == told' = [told EXCEPT ![p] = a] /\ Goto(p, "end")
Env == UNCHANGED <<windows, parent, swaps, power>>
-----------------------------------------------------------------------------
(* open_contained_atomic_writer                                            *)

\* The parent directory is opened component by component and held.
OpenParent(p) ==
    /\ At(p, "start")
    /\ anchor' = [anchor EXCEPT ![p] = parent]
    /\ Goto(p, "opened")
    /\ UNCHANGED <<fsVars, bound, told, flushFailures>> /\ Env

CreateTemp(w) ==
    /\ At(w, "opened") /\ temp' = [temp EXCEPT ![w] = TRUE] /\ Goto(w, "writing")
    /\ UNCHANGED <<entry, durable, whole, synced, anchor, bound, told, flushFailures>> /\ Env

\* The caller writes the content; it may raise.
WriteBody(w) ==
    /\ At(w, "writing")
    /\ \/ whole' = whole \cup {w} /\ Goto(w, "written")
       \/ Goto(w, "removing") /\ UNCHANGED whole
    /\ UNCHANGED <<entry, durable, synced, temp, anchor, bound, told, flushFailures>> /\ Env

\* Mutant: the content is not flushed before the file is renamed.
MutantSync(w) ==
    /\ At(w, "written") /\ Goto(w, "synced")
    /\ UNCHANGED <<fsVars, anchor, bound, told, flushFailures>> /\ Env

\* stream.flush, os.fsync
Sync(w) ==
    /\ At(w, "written") /\ synced' = synced \cup {w} /\ Goto(w, "synced")
    /\ UNCHANGED <<entry, durable, whole, temp, anchor, bound, told, flushFailures>> /\ Env

ParentCurrent(p) == parent = anchor[p]

\* assert_parent_current before the rename
CheckParent(w) ==
    /\ At(w, "synced") /\ Goto(w, IF ParentCurrent(w) THEN "checked" ELSE "removing")
    /\ UNCHANGED <<fsVars, anchor, bound, told, flushFailures>> /\ Env

\* Mutant: the target is unlinked first and the new file linked afterwards.
MutantReplace(w) ==
    /\ At(w, "checked")
    /\ IF entry[anchor[w]] # Nil
       THEN /\ entry' = [entry EXCEPT ![anchor[w]] = Nil] /\ UNCHANGED <<temp, pc>>
       ELSE /\ entry' = [entry EXCEPT ![anchor[w]] = w] /\ temp' = [temp EXCEPT ![w] = FALSE]
            /\ Goto(w, "flushing")
    /\ UNCHANGED <<durable, whole, synced, anchor, bound, told, flushFailures>> /\ Env

\* os.replace: the name changes hands in one step.
Replace(w) ==
    /\ At(w, "checked")
    /\ entry' = [entry EXCEPT ![anchor[w]] = w]
    /\ temp' = [temp EXCEPT ![w] = FALSE]
    /\ Goto(w, "flushing")
    /\ UNCHANGED <<durable, whole, synced, anchor, bound, told, flushFailures>> /\ Env

InUse(i) == \E r \in Readers : pc[r] \in {"reading", "verifying", "failing"} /\ bound[r] = i

\* NtSetInformationFile: Windows does not replace a file that is open.
WindowsReplace(w) ==
    /\ At(w, "checked")
    /\ IF InUse(entry[anchor[w]])
       THEN Goto(w, "removing") /\ UNCHANGED <<entry, temp>>
       ELSE /\ entry' = [entry EXCEPT ![anchor[w]] = w]
            /\ temp' = [temp EXCEPT ![w] = FALSE]
            /\ Goto(w, "replaced")
    /\ UNCHANGED <<durable, whole, synced, anchor, bound, told, flushFailures>> /\ Env

\* Mutant: the directory is not flushed.
MutantFlushParent(w) ==
    /\ At(w, "flushing") /\ Goto(w, "replaced")
    /\ UNCHANGED <<fsVars, anchor, bound, told, flushFailures>> /\ Env

\* os.fsync of the directory (POSIX only); one that fails raises.
FlushParent(w) ==
    /\ At(w, "flushing")
    /\ \/ /\ durable' = [durable EXCEPT ![anchor[w]] = entry[anchor[w]]]
          /\ Goto(w, "replaced") /\ UNCHANGED flushFailures
       \/ /\ flushFailures < MaxFlushFailures /\ flushFailures' = flushFailures + 1
          /\ Goto(w, "removing") /\ UNCHANGED durable
    /\ UNCHANGED <<entry, whole, synced, temp, anchor, bound, told>> /\ Env

\* assert_parent_current and assert_current_file after the rename
RecheckParent(w) ==
    /\ At(w, "replaced") /\ Goto(w, IF ParentCurrent(w) THEN "rechecked" ELSE "removing")
    /\ UNCHANGED <<fsVars, anchor, bound, told, flushFailures>> /\ Env

CheckFile(w) ==
    /\ At(w, "rechecked")
    /\ IF entry[anchor[w]] = w THEN Answer(w, "ok") ELSE Goto(w, "removing") /\ UNCHANGED told
    /\ UNCHANGED <<fsVars, anchor, bound, flushFailures>> /\ Env

\* remove_bound_file on Windows deletes what the handle is bound to, under its
\* temporary name or the target's.
DeleteByHandle(w) ==
    /\ At(w, "removing")
    /\ entry' = [d \in Dirs |-> IF entry[d] = w THEN Nil ELSE entry[d]]
    /\ temp' = [temp EXCEPT ![w] = FALSE]
    /\ Answer(w, "error")
    /\ UNCHANGED <<durable, whole, synced, anchor, bound, flushFailures>> /\ Env

\* remove_bound_file on POSIX looks the name up and, when it is bound to the
\* file, unlinks the name.
LookUpBound(w) ==
    /\ At(w, "removing")
    /\ Goto(w, IF entry[anchor[w]] = w THEN "unlinking" ELSE "dropping")
    /\ UNCHANGED <<fsVars, anchor, bound, told, flushFailures>> /\ Env

\* os.unlink, and a flush of the directory that may fail
Unlink(w) ==
    /\ At(w, "unlinking")
    /\ entry' = [entry EXCEPT ![anchor[w]] = Nil]
    /\ durable' \in {durable, [durable EXCEPT ![anchor[w]] = Nil]}
    /\ Goto(w, "dropping")
    /\ UNCHANGED <<whole, synced, temp, anchor, bound, told, flushFailures>> /\ Env

\* remove_temp, and the exception goes on.
RemoveTemp(w) ==
    /\ At(w, "dropping")
    /\ temp' = [temp EXCEPT ![w] = FALSE]
    /\ Answer(w, "error")
    /\ UNCHANGED <<entry, durable, whole, synced, anchor, bound, flushFailures>> /\ Env
-----------------------------------------------------------------------------
(* open_contained_reader                                                   *)

OpenExisting(r) ==
    /\ At(r, "opened")
    /\ bound' = [bound EXCEPT ![r] = entry[anchor[r]]]
    /\ IF entry[anchor[r]] = Nil THEN Answer(r, "error") ELSE Goto(r, "reading") /\ UNCHANGED told
    /\ UNCHANGED <<fsVars, anchor, flushFailures>> /\ Env

\* Mutant: what has been read is returned without looking again.
MutantFinishRead(r) ==
    /\ At(r, "reading") /\ Answer(r, "ok")
    /\ UNCHANGED <<fsVars, anchor, bound, flushFailures>> /\ Env

\* The content is read, then parent and entry are checked.
FinishRead(r) ==
    /\ At(r, "reading")
    /\ Goto(r, IF ParentCurrent(r) THEN "verifying" ELSE "failing")
    /\ UNCHANGED <<fsVars, anchor, bound, told, flushFailures>> /\ Env

Verify(r) ==
    /\ At(r, "verifying")
    /\ Answer(r, IF entry[anchor[r]] = bound[r] THEN "ok" ELSE "error")
    /\ UNCHANGED <<fsVars, anchor, bound, flushFailures>> /\ Env

Fail(r) ==
    /\ At(r, "failing") /\ Answer(r, "error")
    /\ UNCHANGED <<fsVars, anchor, bound, flushFailures>> /\ Env
-----------------------------------------------------------------------------
(* The rest of the machine.                                                *)

\* Another program moves the directory away and puts another in its place.
SwapParent(d) ==
    /\ power /\ swaps < MaxSwaps /\ d # parent
    /\ parent' = d /\ swaps' = swaps + 1
    /\ UNCHANGED <<windows, fsVars, procVars, flushFailures, power>>

\* The process of a writer is killed.
Kill(w) ==
    /\ power /\ pc[w] # "end" /\ Goto(w, "end")
    /\ UNCHANGED <<windows, parent, fsVars, anchor, bound, told, swaps, flushFailures, power>>

\* Directories fall back to what was flushed or keep what was not; content
\* that was not flushed is torn.
PowerFails ==
    /\ power /\ power' = FALSE
    /\ \E kept \in SUBSET Dirs : entry' = [d \in Dirs |-> IF d \in kept THEN entry[d] ELSE durable[d]]
    /\ durable' = entry'
    /\ whole' = whole \cap synced
    /\ UNCHANGED <<windows, parent, synced, temp, procVars, swaps, flushFailures>>

PosixAnchor(w) == ~windows /\ (Replace(w) \/ FlushParent(w) \/ LookUpBound(w) \/ Unlink(w) \/ RemoveTemp(w))
WindowsAnchor(w) == windows /\ (WindowsReplace(w) \/ DeleteByHandle(w))

WriterStep(w) ==
    \/ OpenParent(w) \/ CreateTemp(w) \/ WriteBody(w) \/ Sync(w) \/ CheckParent(w) \/ RecheckParent(w) \/ CheckFile(w)
    \/ PosixAnchor(w) \/ WindowsAnchor(w)

ReaderStep(r) == OpenParent(r) \/ OpenExisting(r) \/ FinishRead(r) \/ Verify(r) \/ Fail(r)

Next ==
    \/ \E w \in Writers : WriterStep(w) \/ Kill(w)
    \/ \E r \in Readers : ReaderStep(r)
    \/ \E d \in Dirs : SwapParent(d)
    \/ PowerFails

Spec == Init /\ [][Next]_vars
-----------------------------------------------------------------------------
Undisturbed == swaps = 0 /\ flushFailures = 0

TypeOK ==
    /\ windows \in BOOLEAN /\ parent \in Dirs /\ power \in BOOLEAN
    /\ entry \in [Dirs -> Inodes \cup {Nil}] /\ durable \in [Dirs -> Inodes \cup {Nil}]
    /\ whole \subseteq Inodes /\ synced \subseteq Inodes /\ temp \in [Writers -> BOOLEAN]
    /\ anchor \in [Procs -> Dirs \cup {Nil}] /\ bound \in [Readers -> Inodes \cup {Nil}]
    /\ \A p \in Procs : anchor[p] = Nil => pc[p] \in {"start", "end"}
    /\ pc \in [Procs -> {"start", "opened", "writing", "written", "synced", "checked", "flushing", "replaced",
                         "rechecked", "removing", "unlinking", "dropping", "reading", "verifying", "failing", "end"}]
    /\ told \in [Procs -> {"none", "ok", "error"}]
    /\ swaps \in 0..MaxSwaps /\ flushFailures \in 0..MaxFlushFailures

(* A version that is linked, or about to be, is complete and flushed.      *)
Flushed == whole \cap synced
LinkedAreFlushed ==
    /\ \A d \in Dirs : entry[d] \in Flushed \cup {Nil} /\ durable[d] \in Flushed \cup {Nil}
    /\ \A w \in Writers : power /\ pc[w] = "written" => w \in whole
    /\ \A w \in Writers : power /\ pc[w] \in {"synced", "checked"} => w \in Flushed

(* While nothing disturbs the directory, everybody holds the one at the path; a
   file is there, now and after a power failure; and a writer that is about to
   remove its file is not linked, or is not any longer.                    *)
CalmInv ==
    Undisturbed =>
        /\ \A p \in Procs : anchor[p] \in {Nil, parent}
        /\ entry[parent] # Nil /\ durable[parent] # Nil
        /\ \A w \in Writers : power =>
              /\ pc[w] # "unlinking"
              /\ pc[w] \in {"start", "opened", "writing", "written", "synced", "checked", "removing", "dropping"}
                    => entry[parent] # w

(* Then the original is not linked once it was replaced, and does not come back
   after a power failure once the directory was flushed.                   *)
ReplacedInv ==
    ~windows /\ Undisturbed =>
        \A w \in Writers :
            /\ power /\ pc[w] \in {"flushing", "replaced", "rechecked"} => entry[parent] # Original
            /\ power /\ pc[w] \in {"replaced", "rechecked"} => durable[parent] # Original
            /\ told[w] = "ok" => /\ anchor[w] = parent
                                 /\ entry[parent] # Original /\ durable[parent] # Original

\* A reader has something to read.
ReaderInv == \A r \in Readers : pc[r] \in {"reading", "verifying", "failing"} => bound[r] # Nil

IInv == TypeOK /\ LinkedAreFlushed /\ CalmInv /\ ReplacedInv /\ ReaderInv

(* Whatever dies and whenever the power fails, the name never refers to a
   torn file.                                                              *)
NeverTorn == \A d \in Dirs : entry[d] # Nil => entry[d] \in whole

(* A write that fails or is killed does not cost the file, whoever else is
   writing, as long as no flush fails and nobody moves the directory.      *)
NeverLost == Undisturbed => \A d \in Dirs : d = parent => entry[d] # Nil

(* What was acknowledged on POSIX survives a power failure: after it the name
   refers to what a writer has put there, not to the original again, and not
   to nothing.                                                             *)
AcknowledgedIsDurable ==
    ~windows /\ Undisturbed => \A w \in Writers : told[w] = "ok" => durable[anchor[w]] \in Writers

(* A reader returns a whole version, and on success what it has read is what
   the name refers to while its directory is at the path.                  *)
ReadsCurrent ==
    [][\A r \in Readers : told[r] = "none" /\ told'[r] = "ok" =>
          bound[r] \in whole /\ entry[anchor[r]] = bound[r]]_vars
=============================================================================
