---------------------------- MODULE ArtifactSeal ----------------------------
(***************************************************************************)
(* Evidence files of the COM backend: artifact_seal saves the drawing,     *)
(* copies the file under the name of its hash and writes a manifest;       *)
(* solid_export writes a .sat file and a manifest.  The AutoCAD part of a  *)
(* call is a job of the STA thread; its file part runs on the event loop   *)
(* without an await, but not without the user, who saves meanwhile, nor    *)
(* without the next job.  The server may be killed anywhere.               *)
(***************************************************************************)
EXTENDS Integers, Sequences, FiniteSets

CONSTANTS Sealers,     \* calls of artifact_seal, for one destination directory
          Exporters,   \* calls of solid_export, for one path, of different solids
          Data,        \* what a drawing may hold; a hash and a name stand for it
          None,
          MaxSaves,    \* bound: how often the user saves
          MaxKills     \* bound: how often the server is killed

ASSUME SealAssumption == /\ Sealers \cap Exporters = {} /\ None \notin Data \cup Exporters
                         /\ {MaxSaves, MaxKills} \subseteq Nat

Calls == Sealers \cup Exporters

VARIABLES
  document,    \* what the drawing holds in AutoCAD
  source,      \* the drawing file: its bytes, and how often it was written (its mtime)
  sealed,      \* per name, the bytes under it in the destination, or None
  manifests,   \* the names with a manifest; it gives the hash that is in the name
  sat,         \* the call whose solids are in the .sat file, or None
  satManifest, \* what its manifest says: whose solids, and the hash of whose file
  jobs,        \* the queue of the STA thread
  loop,        \* calls whose job has ended, in the order they go on; the first runs
  quarantined, \* _timeout_uncertain
  stage, answer,
  hashed,      \* the source as the call has hashed it; whose file, for an export
  copied,      \* the source as the call has opened it to copy it
  saves, kills

files == <<source, sealed, manifests, sat, satManifest>>
sealVars == <<document, files, jobs, loop, quarantined, stage, answer, hashed, copied, saves, kills>>

Versions == [data : Data, stamp : Nat]
Pc == {"start", "queued", "hash", "lookup", "copy", "rename", "verify", "rehash", "manifest", "end"}

SealTypeOK ==
  /\ document \in Data /\ source \in Versions
  /\ sealed \in [Data -> Data \cup {None}] /\ manifests \subseteq Data
  /\ sat \in Exporters \cup {None}
  /\ satManifest = None \/ satManifest \in [solids : Exporters, hash : Exporters]
  /\ jobs \in Seq(Calls) /\ loop \in Seq(Calls) /\ quarantined \in BOOLEAN
  /\ stage \in [Calls -> Pc]
  /\ answer \in [Calls -> {"none", "SEALED", "EXPORTED", "error", "timeout", "lost"}]
  /\ hashed \in [Calls -> Versions \cup Exporters \cup {None}]
  /\ copied \in [Calls -> Versions \cup {None}]
  /\ \A c \in Exporters : hashed[c] \in Exporters \cup {None}
  /\ saves \in 0 .. MaxSaves /\ kills \in 0 .. MaxKills

SealInit ==
  /\ document \in Data
  /\ source \in [data : Data, stamp : {0}]
  /\ sealed = [d \in Data |-> None] /\ manifests = {}
  /\ sat = None /\ satManifest = None
  /\ jobs = <<>> /\ loop = <<>> /\ quarantined = FALSE
  /\ stage = [c \in Calls |-> "start"] /\ answer = [c \in Calls |-> "none"]
  /\ hashed = [c \in Calls |-> None] /\ copied = [c \in Calls |-> None]
  /\ saves = 0 /\ kills = 0

GoesTo(c, p) == stage' = [stage EXCEPT ![c] = p]
Answers(c, a) == answer' = [answer EXCEPT ![c] = a] /\ GoesTo(c, "end")
Ends(c, a) == Answers(c, a) /\ loop' = Tail(loop)
Written(d) == [data |-> d, stamp |-> source.stamp + 1]
-----------------------------------------------------------------------------
(* The AutoCAD part: ComBackend._run                                        *)

\* No file part is under way: the event loop can do something else.
LoopFree == \A c \in Calls : stage[c] \in {"start", "queued", "hash", "end"}

\* A seal waits for the writer lock and is refused in quarantine; an export is a
\* read to the backend and takes neither.
Submit(c) ==
  /\ stage[c] = "start" /\ LoopFree
  /\ c \in Sealers => \A s \in Sealers : stage[s] \notin {"queued", "hash"}
  /\ IF c \in Sealers /\ quarantined
     THEN Answers(c, "error") /\ UNCHANGED jobs
     ELSE jobs' = Append(jobs, c) /\ GoesTo(c, "queued") /\ UNCHANGED answer
  /\ UNCHANGED <<document, files, loop, quarantined, hashed, copied, saves, kills>>

\* The deadline of a job that waits or runs; it is not withdrawn.
TimesOut(c) ==
  /\ stage[c] = "queued" /\ LoopFree /\ Answers(c, "timeout")
  /\ quarantined' = (quarantined \/ c \in Sealers)
  /\ UNCHANGED <<document, files, jobs, loop, hashed, copied, saves, kills>>

\* Mutant: a job that ends goes on before those that have ended earlier.
MutantResume(c) ==
  IF stage[c] = "queued"
  THEN /\ GoesTo(c, "hash")
       /\ loop' = IF loop # <<>> /\ stage[loop[1]] # "hash"
                  THEN <<loop[1], c>> \o Tail(loop) ELSE <<c>> \o loop
  ELSE UNCHANGED <<stage, loop>>

\* The call goes on when its turn comes, unless it has been given up.
Resume(c) ==
  IF stage[c] = "queued" THEN GoesTo(c, "hash") /\ loop' = Append(loop, c) ELSE UNCHANGED <<stage, loop>>

\* _save_and_resolve; Document.Export.  AutoCAD replaces the file as a whole.
Acts(c) ==
  IF c \in Sealers THEN source' = Written(document) /\ UNCHANGED sat
                   ELSE sat' = c /\ UNCHANGED source

\* A job that fails may have written its file all the same.
RunJob(c) ==
  /\ jobs # <<>> /\ c = Head(jobs) /\ jobs' = Tail(jobs)
  /\ \/ Acts(c) /\ Resume(c) /\ UNCHANGED answer
     \/ /\ Acts(c) \/ UNCHANGED <<source, sat>>
        /\ IF stage[c] = "queued" THEN Answers(c, "error") ELSE UNCHANGED <<stage, answer>>
        /\ UNCHANGED loop
  /\ UNCHANGED <<document, sealed, manifests, satManifest, quarantined, hashed, copied, saves, kills>>
-----------------------------------------------------------------------------
(* The file part of artifact_seal                                           *)

Runs(c, p) == loop # <<>> /\ c = Head(loop) /\ stage[c] = p
Files(c) == UNCHANGED <<document, source, sat, satManifest, jobs, quarantined, saves, kills>>

\* contained_sha256_metadata(source)
HashSource(c) ==
  /\ Runs(c, "hash") /\ c \in Sealers
  /\ hashed' = [hashed EXCEPT ![c] = source] /\ GoesTo(c, "lookup")
  /\ UNCHANGED <<sealed, manifests, loop, answer, copied>> /\ Files(c)

\* Mutant: the file is copied again whatever is there.
MutantLookUp(c) ==
  /\ Runs(c, "lookup") /\ GoesTo(c, "copy") /\ UNCHANGED <<loop, answer>>
  /\ UNCHANGED <<sealed, manifests, hashed, copied>> /\ Files(c)

\* A file of that name is kept when its bytes are right, and refused otherwise.
LookUp(c) ==
  /\ Runs(c, "lookup")
  /\ \/ sealed[hashed[c].data] = None /\ GoesTo(c, "copy") /\ UNCHANGED <<loop, answer>>
     \/ sealed[hashed[c].data] = hashed[c].data /\ GoesTo(c, "verify") /\ UNCHANGED <<loop, answer>>
     \/ sealed[hashed[c].data] \notin {None, hashed[c].data} /\ Ends(c, "error")
  /\ UNCHANGED <<sealed, manifests, hashed, copied>> /\ Files(c)

\* copy_contained_file: the source is opened again, the copy takes its name at the
\* end, and only then is it known whether the source was replaced meanwhile.
OpenSource(c) ==
  /\ Runs(c, "copy")
  /\ copied' = [copied EXCEPT ![c] = source] /\ GoesTo(c, "rename")
  /\ UNCHANGED <<sealed, manifests, loop, answer, hashed>> /\ Files(c)

RenameCopy(c) ==
  /\ Runs(c, "rename")
  /\ sealed' = [sealed EXCEPT ![hashed[c].data] = copied[c].data]
  /\ IF source = copied[c] THEN GoesTo(c, "verify") /\ UNCHANGED <<loop, answer>> ELSE Ends(c, "error")
  /\ UNCHANGED <<manifests, hashed, copied>> /\ Files(c)

VerifySealed(c) ==
  /\ Runs(c, "verify")
  /\ IF sealed[hashed[c].data] = hashed[c].data
     THEN GoesTo(c, "rehash") /\ UNCHANGED <<loop, answer>> ELSE Ends(c, "error")
  /\ UNCHANGED <<sealed, manifests, hashed, copied>> /\ Files(c)

\* "source changed while sealing", "source metadata changed while sealing"
RehashSource(c) ==
  /\ Runs(c, "rehash")
  /\ IF source = hashed[c] THEN GoesTo(c, "manifest") /\ UNCHANGED <<loop, answer>> ELSE Ends(c, "error")
  /\ UNCHANGED <<sealed, manifests, hashed, copied>> /\ Files(c)

WriteManifest(c) ==
  /\ Runs(c, "manifest") /\ c \in Sealers
  /\ manifests' = manifests \cup {hashed[c].data} /\ Ends(c, "SEALED")
  /\ UNCHANGED <<sealed, hashed, copied>> /\ Files(c)
-----------------------------------------------------------------------------
(* The file part of solid_export                                            *)

\* contained_sha256_metadata of what is at the path, whoever exported it last
HashExport(c) ==
  /\ Runs(c, "hash") /\ c \in Exporters
  /\ hashed' = [hashed EXCEPT ![c] = sat] /\ GoesTo(c, "manifest")
  /\ UNCHANGED <<sealed, manifests, loop, answer, copied>> /\ Files(c)

WriteExportManifest(c) ==
  /\ Runs(c, "manifest") /\ c \in Exporters
  /\ satManifest' = [solids |-> c, hash |-> hashed[c]] /\ Ends(c, "EXPORTED")
  /\ UNCHANGED <<document, source, sat, jobs, quarantined, saves, kills>>
  /\ UNCHANGED <<sealed, manifests, hashed, copied>>
-----------------------------------------------------------------------------
(* What happens meanwhile                                                   *)

\* A file cannot be opened, read or written.
FileFails(c) ==
  /\ loop # <<>> /\ c = Head(loop) /\ Ends(c, "error")
  /\ UNCHANGED <<document, files, jobs, quarantined, hashed, copied, saves, kills>>

Edit ==
  /\ document' \in Data
  /\ UNCHANGED <<files, jobs, loop, quarantined, stage, answer, hashed, copied, saves, kills>>

UserSave ==
  /\ saves < MaxSaves /\ saves' = saves + 1 /\ source' = Written(document)
  /\ UNCHANGED <<document, sealed, manifests, sat, satManifest>>
  /\ UNCHANGED <<jobs, loop, quarantined, stage, answer, hashed, copied, kills>>

\* The server process is killed; another one starts.
ServerDies ==
  /\ kills < MaxKills /\ kills' = kills + 1
  /\ jobs' = <<>> /\ loop' = <<>> /\ quarantined' = FALSE
  /\ LET cut == {c \in Calls : stage[c] \notin {"start", "end"}}
     IN /\ stage' = [c \in Calls |-> IF c \in cut THEN "end" ELSE stage[c]]
        /\ answer' = [c \in Calls |-> IF c \in cut THEN "lost" ELSE answer[c]]
  /\ UNCHANGED <<document, files, hashed, copied, saves>>

SealNext ==
  \/ \E c \in Calls : Submit(c) \/ TimesOut(c) \/ RunJob(c) \/ FileFails(c)
  \/ \E c \in Sealers : HashSource(c) \/ LookUp(c) \/ OpenSource(c) \/ RenameCopy(c)
                        \/ VerifySealed(c) \/ RehashSource(c) \/ WriteManifest(c)
  \/ \E c \in Exporters : HashExport(c) \/ WriteExportManifest(c)
  \/ Edit \/ UserSave \/ ServerDies

SealSpec == SealInit /\ [][SealNext]_sealVars
-----------------------------------------------------------------------------
(* Properties                                                               *)

\* A manifest in the destination vouches for the bytes next to it, although the
\* user saves and the server dies between any two steps of any call.
ManifestsTrue == \A d \in manifests : sealed[d] = d

\* The .sat file of an export that was answered, and that nobody has exported over,
\* has the manifest of that export, with the hash of that file.
ExportDescribed ==
  \A c \in Exporters : answer[c] = "EXPORTED" /\ sat = c =>
    satManifest = [solids |-> c, hash |-> c]

-----------------------------------------------------------------------------
(* The inductive invariant                                                  *)

FilePart == {"lookup", "copy", "rename", "verify", "rehash", "manifest"}

\* The loop holds each call once, and only the first is within its file part.
LoopInv ==
  /\ \A i, j \in DOMAIN loop : loop[i] = loop[j] => i = j
  /\ \A i \in DOMAIN loop : stage[loop[i]] \in {"hash"} \cup FilePart
  /\ \A c \in Calls : stage[c] \in FilePart => loop # <<>> /\ c = loop[1]

\* A job is in the queue once, and its call has not gone on.
JobsInv ==
  /\ \A i, j \in DOMAIN jobs : jobs[i] = jobs[j] => i = j
  /\ \A i \in DOMAIN jobs : stage[jobs[i]] \in {"queued", "end"} /\ answer[jobs[i]] # "EXPORTED"
  /\ \A c \in Calls : stage[c] = "start" => answer[c] = "none"

\* A name that is about to be copied to has no manifest; one that is about to get a
\* manifest has the right bytes.
SealInv ==
  \A c \in Sealers :
    /\ stage[c] \in FilePart => hashed[c] \in Versions
    /\ stage[c] = "rename" => copied[c] \in Versions
    /\ stage[c] \in {"copy", "rename"} => hashed[c].data \notin manifests
    /\ stage[c] \in {"rehash", "manifest"} => sealed[hashed[c].data] = hashed[c].data

\* Exports go on in the order of their jobs.
ExportInv ==
  \A c \in Exporters :
    /\ stage[c] \in {"hash"} \cup FilePart => sat # None
    /\ stage[c] \in FilePart => stage[c] = "manifest" /\ hashed[c] \in Exporters
    /\ stage[c] = "manifest" /\ sat = c => hashed[c] = c
    /\ sat = c => \A i, j \in DOMAIN loop : loop[i] = c /\ i < j => loop[j] \notin Exporters
    /\ sat = c /\ answer[c] = "EXPORTED" => \A i \in DOMAIN loop : loop[i] \notin Exporters

EvidenceInv == SealTypeOK /\ LoopInv /\ JobsInv /\ SealInv /\ ExportInv /\ ManifestsTrue /\ ExportDescribed
=============================================================================
