----------------------------- MODULE BlobStore ------------------------------
(***************************************************************************)
(* The content-addressed store (storage/blob_store.py), the database rows  *)
(* that name its files, and the two cleaners that unlink files: deletion   *)
(* of a regenerable artifact (artifact_lifecycle.py) and the two-step      *)
(* garbage collection (workspace_health.py).  Files and rows share no      *)
(* transaction, so each file operation and each transaction is a step.     *)
(*                                                                         *)
(* A path is a namespace and a digest: two writes with the same path are   *)
(* writes of the same bytes.  File times are whole ticks of a clock that   *)
(* is slow enough for GC's candidate order, sizes and digests not to       *)
(* matter beyond identity.                                                 *)
(***************************************************************************)
EXTENDS Integers, FiniteSets

CONSTANTS
    Path,     \* content-addressed paths
    Write,    \* write operations; each stores one row at most
    Kinds,    \* the row kinds that occur, a subset of AllKinds
    MinAge,   \* minimum_age_seconds, in ticks
    MaxTime   \* bound: the clock stops here

\* "kept": revision artifacts, assets and calibration members; "job": artifact
\* rows of a job that may be regenerated; "mask": the mask and preview blobs of
\* prompted_edit_sessions and prompted_edit_alternatives.
AllKinds == {"kept", "job", "mask"}

ASSUME KindsAssumption == Kinds \subseteq AllKinds /\ Kinds # {}
ASSUME TimeAssumption == MinAge \in Nat /\ MaxTime \in Nat \ {0}
ASSUME DisjointAssumption == Path \cap Write = {}

VARIABLES
    now,       \* the clock
    file,      \* st_mtime of the file at a path, 0 if there is none
    temp,      \* st_mtime of a write's incoming- file, 0 if there is none
    wpc,       \* where the write is
    path,      \* the path its bytes hash to
    kind,      \* the kind of row it inserts
    recorded,  \* the writes whose row is in the database
    dpc,       \* the deletion request for a write's row
    gpc,       \* where the garbage-collection request is
    gnow,      \* time.time() at the start of its plan
    grefs,     \* the paths the request read from _referenced_blobs
    reviewed,  \* candidates of the plan the user reviewed
    todo,      \* candidates not looked at yet
    marked,    \* the candidate that passed its checks and goes next
    collected, \* history: paths whose file the collector took last
    oldest,    \* history: the oldest time a file at a path ever had, 0 if none
    prompt,    \* history: writes that committed before any file at their path
               \* had reached MinAge
    held       \* history: writes whose row was there when apply began

fileVars == <<now, file, temp>>
writeVars == <<wpc, path, kind, recorded, oldest, prompt, collected>>
gcVars == <<gpc, gnow, grefs, reviewed, todo, marked, held>>
bvars == <<fileVars, writeVars, dpc, gcVars>>

NoCandidate == <<>>

Mtime(x) == IF x \in Path THEN file[x] ELSE temp[x]

\* Mutant: the safety age is not looked at.
OldAnyAge(x) == Mtime(x) # 0

\* Files that the plan in progress sees and that have reached the safety age.
Old(x) == Mtime(x) # 0 /\ gnow - Mtime(x) >= MinAge

-----------------------------------------------------------------------------
BInit ==
    /\ now = 1
    /\ file = [p \in Path |-> 0]
    /\ temp = [w \in Write |-> 0]
    /\ wpc = [w \in Write |-> "idle"]
    /\ path \in [Write -> Path]
    /\ kind \in [Write -> Kinds]
    /\ recorded = {}
    /\ oldest = [p \in Path |-> 0]
    /\ collected = {}
    /\ prompt = {}
    /\ dpc = [w \in Write |-> "idle"]
    /\ gpc = "idle"
    /\ gnow = 0
    /\ grefs = {}
    /\ reviewed = {}
    /\ todo = {}
    /\ marked = NoCandidate
    /\ held = {}

Tick ==
    /\ now < MaxTime
    /\ now' = now + 1
    /\ UNCHANGED <<file, temp, writeVars, dpc, gcVars>>

-----------------------------------------------------------------------------
(* put_stream, then the caller's verify and insert *)

\* NamedTemporaryFile and the copy loop; the last chunk sets the time.
WriteTemp(w) ==
    /\ wpc[w] \in {"idle", "writing"}
    /\ wpc[w] = "writing" => temp[w] # 0
    /\ temp' = [temp EXCEPT ![w] = now]
    /\ wpc' = [wpc EXCEPT ![w] = "writing"]
    /\ UNCHANGED <<now, file, path, kind, recorded, oldest, prompt, collected, dpc, gcVars>>

\* destination.exists(), answered before either branch acts on it.
LookUp(w) ==
    /\ wpc[w] = "writing"
    /\ wpc' = [wpc EXCEPT ![w] = IF file[path[w]] = 0 THEN "placing" ELSE "reusing"]
    /\ UNCHANGED <<fileVars, path, kind, recorded, oldest, prompt, collected, dpc, gcVars>>

\* os.replace: the file gets the temporary's time, even if another write of
\* the same bytes has placed one meanwhile.
Place(w) ==
    /\ wpc[w] = "placing"
    /\ temp[w] # 0
    /\ file' = [file EXCEPT ![path[w]] = temp[w]]
    /\ temp' = [temp EXCEPT ![w] = 0]
    /\ collected' = collected \ {path[w]}
    /\ oldest' = [oldest EXCEPT ![path[w]] = IF @ = 0 \/ temp[w] < @ THEN temp[w] ELSE @]
    /\ wpc' = [wpc EXCEPT ![w] = "stored"]
    /\ UNCHANGED <<now, path, kind, recorded, prompt, dpc, gcVars>>

\* The existing file is verified, keeps its old time, and the temporary goes.
Reuse(w) ==
    /\ wpc[w] = "reusing"
    /\ temp[w] # 0
    /\ file[path[w]] # 0
    /\ temp' = [temp EXCEPT ![w] = 0]
    /\ wpc' = [wpc EXCEPT ![w] = "stored"]
    /\ UNCHANGED <<now, file, path, kind, recorded, oldest, prompt, collected, dpc, gcVars>>

\* Any exception: a read error, a vanished temporary or destination.
WriteFails(w) ==
    /\ wpc[w] \in {"writing", "placing", "reusing"}
    /\ temp' = [temp EXCEPT ![w] = 0]
    /\ wpc' = [wpc EXCEPT ![w] = "failed"]
    /\ UNCHANGED <<now, file, path, kind, recorded, oldest, prompt, collected, dpc, gcVars>>

\* The repository or worker verifies the blob before its transaction.
Verify(w) ==
    /\ wpc[w] = "stored"
    /\ wpc' = [wpc EXCEPT ![w] = IF file[path[w]] = 0 THEN "failed" ELSE "verified"]
    /\ UNCHANGED <<fileVars, path, kind, recorded, oldest, prompt, collected, dpc, gcVars>>

\* The transaction inserts the row; it does not look at the file again.
InsertRow(w) ==
    /\ wpc[w] = "verified"
    /\ recorded' = recorded \cup {w}
    /\ prompt' = IF now - oldest[path[w]] < MinAge THEN prompt \cup {w} ELSE prompt
    /\ wpc' = [wpc EXCEPT ![w] = "done"]
    /\ UNCHANGED <<fileVars, path, kind, oldest, collected, dpc, gcVars>>

\* A job that is no longer current publishes nothing; its blob is an orphan.
Abandon(w) ==
    /\ wpc[w] \in {"stored", "verified"}
    /\ wpc' = [wpc EXCEPT ![w] = "failed"]
    /\ UNCHANGED <<fileVars, path, kind, recorded, oldest, prompt, collected, dpc, gcVars>>

-----------------------------------------------------------------------------
(* delete_regenerable_artifact *)

\* path_for before the transaction.
ResolvePath(w) ==
    /\ w \in recorded
    /\ kind[w] = "job"
    /\ dpc[w] = "idle"
    /\ dpc' = [dpc EXCEPT ![w] = IF file[path[w]] # 0 THEN "resolved" ELSE "unresolved"]
    /\ UNCHANGED <<fileVars, writeVars, gcVars>>

\* Artifact rows that name path p (the artifacts table holds no masks).
ArtifactRows(p, R) == {v \in R : path[v] = p /\ kind[v] # "mask"}

\* DELETE ... then count the rows that remain, in one transaction.
DeleteArtifactRow(w) ==
    /\ dpc[w] \in {"resolved", "unresolved"}
    /\ recorded' = recorded \ {w}
    /\ dpc' = [dpc EXCEPT ![w] =
                  IF @ = "resolved" /\ ArtifactRows(path[w], recorded \ {w}) = {}
                  THEN "unlinking" ELSE "done"]
    /\ UNCHANGED <<fileVars, wpc, path, kind, oldest, prompt, collected, gcVars>>

\* path.unlink after the transaction.
UnlinkArtifact(w) ==
    /\ dpc[w] = "unlinking"
    /\ file' = [file EXCEPT ![path[w]] = 0]
    /\ dpc' = [dpc EXCEPT ![w] = "done"]
    /\ UNCHANGED <<now, temp, writeVars, gcVars>>

-----------------------------------------------------------------------------
(* Garbage collection *)

\* Mutant: rows of jobs are not counted as references.
ReferencedKept == {path[w] : w \in {v \in recorded : kind[v] = "kept"}}

\* The tables that _referenced_blobs reads: assets, artifacts and calibration
\* rows.  It does not read those of prompted edits.
IsRead(w) == kind[w] # "mask"

ReferencedBlobs == {path[w] : w \in {v \in recorded : IsRead(v)}}

\* plan_garbage_collection, the scan: old, unreferenced blobs and old
\* temporaries, each with the time it was seen with.
Candidates(refs) == {<<x, Mtime(x)>> : x \in {y \in (Path \ refs) \cup Write : Old(y)}}

\* Every plan begins by reading the references; the scan is a later step.
PlanReads ==
    /\ gpc = "idle"
    /\ gpc' = "planning"
    /\ gnow' = now
    /\ grefs' = ReferencedBlobs
    /\ UNCHANGED <<fileVars, writeVars, dpc, reviewed, todo, marked, held>>

\* POST gc/plan returns; the user reviews what it shows.
PlanScans ==
    /\ gpc = "planning"
    /\ gpc' = "idle"
    /\ reviewed' = Candidates(grefs)
    /\ gnow' = 0
    /\ grefs' = {}
    /\ UNCHANGED <<fileVars, writeVars, dpc, todo, marked, held>>

\* POST gc/apply recomputes the plan ...
ApplyReads ==
    /\ gpc = "idle"
    /\ reviewed # {}
    /\ gpc' = "recomputing"
    /\ gnow' = now
    /\ grefs' = ReferencedBlobs
    /\ held' = recorded
    /\ UNCHANGED <<fileVars, writeVars, dpc, reviewed, todo, marked>>

\* ... and answers 409 unless it is the reviewed one.
ApplyCompares ==
    /\ gpc = "recomputing"
    /\ \/ Candidates(grefs) = reviewed /\ gpc' = "accepted" /\ UNCHANGED held
       \/ Candidates(grefs) # reviewed /\ gpc' = "idle" /\ held' = {}
    /\ gnow' = 0
    /\ grefs' = {}
    /\ UNCHANGED <<fileVars, writeVars, dpc, reviewed, todo, marked>>

\* execute_garbage_collection reads the references once more, once.
ExecuteReads ==
    /\ gpc = "accepted"
    /\ gpc' = "executing"
    /\ grefs' = ReferencedBlobs
    /\ todo' = reviewed
    /\ UNCHANGED <<fileVars, writeVars, dpc, gnow, reviewed, marked, held>>

\* One candidate: skipped if referenced in that reading, gone or changed.
ExecuteChecks(c) ==
    /\ gpc = "executing"
    /\ marked = NoCandidate
    /\ c \in todo
    /\ todo' = todo \ {c}
    /\ marked' = IF c[1] \notin grefs /\ Mtime(c[1]) = c[2] THEN c ELSE NoCandidate
    /\ UNCHANGED <<fileVars, writeVars, dpc, gpc, gnow, grefs, reviewed, held>>

\* path.unlink; a file that vanished meanwhile raises and ends the request.
ExecuteUnlinks ==
    /\ marked # NoCandidate
    /\ LET x == marked[1] IN
       /\ file' = IF x \in Path THEN [file EXCEPT ![x] = 0] ELSE file
       /\ temp' = IF x \in Write THEN [temp EXCEPT ![x] = 0] ELSE temp
       /\ todo' = IF Mtime(x) = 0 THEN {} ELSE todo
       /\ collected' = IF Mtime(x) = 0 THEN collected ELSE collected \cup ({x} \cap Path)
    /\ marked' = NoCandidate
    /\ UNCHANGED <<now, wpc, path, kind, recorded, oldest, prompt, dpc, gpc, gnow, grefs, reviewed, held>>

ExecuteEnds ==
    /\ gpc = "executing"
    /\ todo = {}
    /\ marked = NoCandidate
    /\ gpc' = "idle"
    /\ grefs' = {}
    /\ held' = {}
    /\ UNCHANGED <<fileVars, writeVars, dpc, gnow, reviewed, todo, marked>>

-----------------------------------------------------------------------------
\* The process is lost: requests and writes end where they are, files stay,
\* and so does the plan the user holds.
Crash ==
    /\ wpc' = [w \in Write |-> IF wpc[w] \in {"idle", "done"} THEN wpc[w] ELSE "failed"]
    /\ dpc' = [w \in Write |-> IF dpc[w] \in {"resolved", "unresolved"} THEN "idle"
                               ELSE IF dpc[w] = "unlinking" THEN "done"
                               ELSE dpc[w]]
    /\ gpc' = "idle"
    /\ gnow' = 0
    /\ grefs' = {}
    /\ todo' = {}
    /\ marked' = NoCandidate
    /\ held' = {}
    /\ UNCHANGED <<fileVars, path, kind, recorded, oldest, prompt, collected, reviewed>>

BNext ==
    \/ Tick
    \/ \E w \in Write :
          \/ WriteTemp(w) \/ LookUp(w) \/ Place(w) \/ Reuse(w) \/ WriteFails(w)
          \/ Verify(w) \/ InsertRow(w) \/ Abandon(w)
          \/ ResolvePath(w) \/ DeleteArtifactRow(w) \/ UnlinkArtifact(w)
    \/ PlanReads \/ PlanScans \/ ApplyReads \/ ApplyCompares \/ ExecuteReads
    \/ \E c \in todo : ExecuteChecks(c)
    \/ ExecuteUnlinks \/ ExecuteEnds
    \/ Crash

BSpec == BInit /\ [][BNext]_bvars

-----------------------------------------------------------------------------
(* Correctness. *)

Items == Path \cup Write

\* Every variable has its type; candidates carry the time of a file that existed.
BTypeOK ==
    /\ now \in 1 .. MaxTime
    /\ file \in [Path -> 0 .. MaxTime]
    /\ temp \in [Write -> 0 .. MaxTime]
    /\ wpc \in [Write -> {"idle", "writing", "placing", "reusing", "stored", "verified", "done", "failed"}]
    /\ path \in [Write -> Path]
    /\ kind \in [Write -> Kinds]
    /\ recorded \subseteq Write
    /\ gnow \in 0 .. MaxTime
    /\ oldest \in [Path -> 0 .. MaxTime]
    /\ collected \subseteq Path
    /\ prompt \subseteq Write
    /\ dpc \in [Write -> {"idle", "resolved", "unresolved", "unlinking", "done"}]
    /\ gpc \in {"idle", "planning", "recomputing", "accepted", "executing"}
    /\ grefs \subseteq Path
    /\ reviewed \subseteq Items \X (1 .. MaxTime)
    /\ todo \subseteq Items \X (1 .. MaxTime)
    /\ marked = NoCandidate \/ marked \in Items \X (1 .. MaxTime)

\* The collector removes item x in this step.
Collects(x) == marked # NoCandidate /\ marked' = NoCandidate /\ Mtime(x) # 0 /\ Mtime(x)' = 0

\* The safety age protects a publication in flight: a write that commits its
\* row, in a table that the collector reads, before any file with its bytes has
\* reached MinAge never loses the file to garbage collection, wherever the
\* collector is meanwhile and whoever else writes or reuses the same bytes.
PromptPublicationSurvives ==
    \A w \in prompt \cap recorded : IsRead(w) => path[w] \notin collected

\* Files, rows and collector stay in step.
StoreInv == BTypeOK /\ PromptPublicationSurvives

\* Content that a row of a table the collector reads referenced when apply
\* began, and still references, is never collected: the reviewed plan may be
\* old, and rows come and go while the request runs.
ReadRowsAreSpared ==
    [][\A w \in held \cap recorded : IsRead(w) => ~Collects(path[w])]_bvars

\* The document claims it of every row of the database
\* (docs/workspace-health.md:28-32); it fails for the masks of prompted edits.
ReferencedIsExcluded == [][\A w \in held \cap recorded : ~Collects(path[w])]_bvars

\* Every revision row has its file, whatever the cleaners do to other rows
\* with the same bytes.
KeptFilesExist == \A w \in recorded : kind[w] = "kept" => file[path[w]] # 0

=============================================================================
