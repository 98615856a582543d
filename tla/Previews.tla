------------------------------ MODULE Previews ------------------------------
(***************************************************************************)
(* The previews of one project (processing.py): a request to render reads  *)
(* the draft and the preview head, saves the draft in one transaction and  *)
(* submits the job in a second one; the worker reuses the planes of the    *)
(* baseline job where the plan allows it; publication and geometry take    *)
(* the head preview as their evidence.  Planes are modelled by what they   *)
(* were computed from, so two planes are equal when their bytes are.       *)
(* Workers.tla has the pool and JobStore.tla the job table: here a job     *)
(* that is replaced is canceled at once, and a restart fails active jobs.  *)
(***************************************************************************)
EXTENDS Naturals, Sequences

CONSTANTS
    Request,    \* requests to render a preview
    Config,     \* records [picture, palette, cleanup, rest]; picture stands for
                \* source, crop and canvas
    Command,    \* editor commands
    Local,      \* the commands that fill or recolour inside one region
    MaxSaves,   \* bound: generations of the draft
    MaxOps,     \* bound: commands in the draft
    MaxEngine   \* bound: installed releases

ASSUME LocalAssumption == Local \subseteq Command
ASSUME BoundAssumption == MaxOps \in Nat /\ {MaxSaves, MaxEngine} \subseteq Nat \ {0}

VARIABLES
    engine,     \* __version__ of the running process
    draft,      \* [config, ops, gen] of project_drafts
    req,        \* what each handler has read and where it is
    job,        \* the project's preview jobs, by submission
    head,       \* the job_heads row, 0 if there is none
    gone,       \* planes whose file is missing from the workspace
    published,  \* the revision last published: what it holds and its evidence
    geometry    \* the input the geometry job last submitted was given

vars == <<engine, draft, req, job, head, gone, published, geometry>>

Ops == UNION {[1 .. n -> Command] : n \in 0 .. MaxOps}
Jobs == 1 .. Len(job)

(* The engine's stages, by what their result depends on *)

Quantized(e, c) == [stage |-> "quantized", engine |-> e, picture |-> c.picture,
                    palette |-> c.palette]
Cleaned(e, q, c) == [stage |-> "cleaned", engine |-> e, of |-> q, cleanup |-> c.cleanup]
Replayed(e, q, p, c, ops) == [quantized |-> q, cleaned |-> p, ops |-> ops, engine |-> e,
                              rest |-> c.rest]

\* The unconditional pipeline.
Full(e, c, ops) ==
    LET q == Quantized(e, c) IN Replayed(e, q, Cleaned(e, q, c), c, ops)

\* preview_derivation_identity
Key(e, c, ops) == [engine |-> e, config |-> c, ops |-> ops]

NoPlanes == <<>>
NoRevision == [fresh |-> FALSE]
NoGeometry == [job |-> 0]

-----------------------------------------------------------------------------
Init ==
    /\ engine = 1
    /\ draft \in {[config |-> c, ops |-> <<>>, gen |-> 1] : c \in Config}
    /\ req = [r \in Request |-> [pc |-> "idle"]]
    /\ job = <<>>
    /\ head = 0
    /\ gone = {}
    /\ published = NoRevision
    /\ geometry = NoGeometry

\* Every other committed change of the draft: autosave, history commands,
\* acceptance of an alternative.
SaveDraft(c, ops) ==
    /\ draft.gen < MaxSaves
    /\ draft' = [config |-> c, ops |-> ops, gen |-> draft.gen + 1]
    /\ UNCHANGED <<engine, req, job, head, gone, published, geometry>>

-----------------------------------------------------------------------------
(* start_preview *)

\* The reads before the save: the operations, and the head as baseline.
ReadState(r, c) ==
    /\ req[r].pc = "idle"
    /\ req' = [req EXCEPT ![r] =
            [pc |-> "read", config |-> c, ops |-> draft.ops, gen |-> draft.gen,
             baseline |-> IF head # 0 /\ job[head].state = "succeeded" THEN head ELSE 0]]
    /\ UNCHANGED <<engine, draft, job, head, gone, published, geometry>>

\* drafts.save with the caller's generation; a stale request ends here.
SaveRequested(r) ==
    /\ req[r].pc = "read"
    /\ draft.gen < MaxSaves
    /\ IF req[r].gen = draft.gen
       THEN /\ draft' = [config |-> req[r].config, ops |-> req[r].ops, gen |-> draft.gen + 1]
            /\ req' = [req EXCEPT ![r].pc = "saved"]
       ELSE /\ req' = [req EXCEPT ![r].pc = "done"]
            /\ UNCHANGED draft
    /\ UNCHANGED <<engine, job, head, gone, published, geometry>>

\* manager.submit: the job becomes the head and its predecessor is canceled.
Submit(r) ==
    /\ req[r].pc = "saved"
    /\ LET new == [config |-> req[r].config, ops |-> req[r].ops, baseline |-> req[r].baseline,
                   key |-> Key(engine, req[r].config, req[r].ops), state |-> "queued",
                   reused |-> NoPlanes, planes |-> NoPlanes, cacheFault |-> FALSE,
                   created |-> draft.gen]
           old == IF head # 0 /\ job[head].state \in {"queued", "loading", "rendering"}
                  THEN [job EXCEPT ![head].state = "canceled"] ELSE job
       IN  job' = Append(old, new)
    /\ head' = Len(job) + 1
    /\ req' = [req EXCEPT ![r].pc = "done"]
    /\ UNCHANGED <<engine, draft, gone, published, geometry>>

-----------------------------------------------------------------------------
(* The worker *)

Baseline(j) == job[job[j].baseline]
Contents(planes) == {planes.quantized, planes.cleaned}

\* _load_reprocessing_baseline checks every cached file first: verify raises
\* FileNotFoundError, which its caller does not catch, so the job fails.
LoadBaseline(j) ==
    /\ job[j].state = "queued"
    /\ job' =
        IF job[j].baseline = 0
        THEN [job EXCEPT ![j].state = "rendering"]
        ELSE IF Contents(Baseline(j).planes) \cap gone # {}
        THEN [job EXCEPT ![j].state = "failed", ![j].cacheFault = TRUE]
        ELSE [job EXCEPT ![j].state = "loading"]
    /\ UNCHANGED <<engine, draft, req, head, gone, published, geometry>>

\* ... and reads them afterwards.
ReadBaseline(j) ==
    /\ job[j].state = "loading"
    /\ job' =
        IF Contents(Baseline(j).planes) \cap gone # {}
        THEN [job EXCEPT ![j].state = "failed", ![j].cacheFault = TRUE]
        ELSE [job EXCEPT ![j].state = "rendering", ![j].reused = Baseline(j).planes]
    /\ UNCHANGED <<engine, draft, req, head, gone, published, geometry>>

\* Mutant: the release is not compared.
ScopedAnyEngine(j) ==
    LET b == Baseline(j) IN
    /\ job[j].reused # NoPlanes
    /\ b.config = job[j].config
    /\ \E x \in Local : job[j].ops = Append(b.ops, x)

\* _plan_reprocessing: one local command more than the baseline, and nothing
\* else that differs.  Whether the selection is strictly interior is left open.
Scoped(j) ==
    LET b == Baseline(j) IN
    /\ job[j].reused # NoPlanes
    /\ b.key.engine = engine
    /\ \A part \in {"picture", "palette", "cleanup", "rest"} : b.config[part] = job[j].config[part]
    /\ \E x \in Local : job[j].ops = Append(b.ops, x)

\* The stages of make_preview_work.  A scoped run takes two planes from the
\* baseline and replays every command on them; put_bytes restores lost files.
Render(j) ==
    /\ job[j].state = "rendering"
    /\ \E scoped \in {FALSE} \cup (IF Scoped(j) THEN {TRUE} ELSE {}) :
        LET c == job[j].config
            q == IF scoped THEN job[j].reused.quantized ELSE Quantized(engine, c)
            p == IF scoped THEN job[j].reused.cleaned ELSE Cleaned(engine, q, c)
            planes == Replayed(engine, q, p, c, job[j].ops)
        IN  /\ job' = [job EXCEPT ![j].state = "succeeded", ![j].planes = planes]
            /\ gone' = gone \ Contents(planes)
    /\ UNCHANGED <<engine, draft, req, head, published, geometry>>

-----------------------------------------------------------------------------
(* The consumers of the head preview *)

\* Mutant: any succeeded head counts.
FreshAnySuccess == head # 0 /\ job[head].state = "succeeded"
                   /\ Contents(job[head].planes) \cap gone = {}

\* _select_preview_evidence_locked: fresh, or stale or missing.
Fresh == /\ head # 0
         /\ job[head].state = "succeeded"
         /\ job[head].key = Key(engine, draft.config, draft.ops)
         /\ Contents(job[head].planes) \cap gone = {}

\* publish_revision; the transaction refuses a draft that moved since the read,
\* so one step sees the read and the commit.
Publish ==
    /\ draft.gen < MaxSaves
    /\ draft' = [draft EXCEPT !.gen = @ + 1]
    /\ published' = [fresh |-> Fresh, config |-> draft.config, ops |-> draft.ops,
                     engine |-> engine,
                     planes |-> IF Fresh THEN job[head].planes ELSE NoPlanes]
    /\ UNCHANGED <<engine, req, job, head, gone, geometry>>

\* Mutant: the configuration the preview was rendered from is not compared.
StartGeometryAnyConfig ==
    /\ head # 0
    /\ job[head].state = "succeeded"
    /\ Contents(job[head].planes) \cap gone = {}
    /\ geometry' = [job |-> head, planes |-> job[head].planes, config |-> draft.config,
                    ops |-> draft.ops]
    /\ UNCHANGED <<engine, draft, req, job, head, gone, published>>

\* GeometryService._verified_input, from a client that has the draft's current
\* generation and names the head: the configurations are compared, not the
\* operations.
StartGeometry ==
    /\ head # 0
    /\ job[head].state = "succeeded"
    /\ Contents(job[head].planes) \cap gone = {}
    /\ job[head].config = draft.config
    /\ geometry' = [job |-> head, planes |-> job[head].planes, config |-> draft.config,
                    ops |-> draft.ops]
    /\ UNCHANGED <<engine, draft, req, job, head, gone, published>>

-----------------------------------------------------------------------------
(* The environment *)

\* A file of a cached plane is lost: a partial restore, a cleaning tool, the
\* unlink of a path another job's row shares (see BlobStore.tla).
Lose(j) ==
    /\ job[j].state = "succeeded"
    /\ \E x \in Contents(job[j].planes) \ gone : gone' = gone \cup {x}
    /\ UNCHANGED <<engine, draft, req, job, head, published, geometry>>

\* A restart, with the same release or a newer one: handlers are gone and
\* reconciliation fails the jobs that were active.
Restart ==
    /\ \E e \in engine .. MaxEngine : engine' = e
    /\ req' = [r \in Request |-> IF req[r].pc = "idle" THEN req[r] ELSE [pc |-> "done"]]
    /\ job' = [j \in Jobs |-> IF job[j].state \in {"queued", "loading", "rendering"}
                              THEN [job[j] EXCEPT !.state = "failed"] ELSE job[j]]
    /\ UNCHANGED <<draft, head, gone, published, geometry>>

Next ==
    \/ \E c \in Config, ops \in Ops : SaveDraft(c, ops)
    \/ \E r \in Request : (\E c \in Config : ReadState(r, c)) \/ SaveRequested(r) \/ Submit(r)
    \/ \E j \in Jobs : LoadBaseline(j) \/ ReadBaseline(j) \/ Render(j) \/ Lose(j)
    \/ Publish
    \/ StartGeometry
    \/ Restart

Spec == Init /\ [][Next]_vars

-----------------------------------------------------------------------------
(* Properties *)

TypeOK ==
    /\ engine \in 1 .. MaxEngine
    /\ draft.config \in Config /\ draft.ops \in Ops /\ draft.gen \in 1 .. MaxSaves
    /\ head \in 0 .. Len(job)
    /\ \A r \in Request : req[r].pc \in {"idle", "read", "saved", "done"}
    /\ \A j \in Jobs :
        /\ job[j].state \in {"queued", "loading", "rendering", "succeeded", "failed", "canceled"}
        /\ job[j].baseline \in 0 .. j - 1
        /\ job[j].state = "succeeded" <=> job[j].planes # NoPlanes
        /\ job[j].state \in {"queued", "loading", "rendering"} => head = j

\* Reuse is invisible: whatever baseline was found, even of an older release, a
\* succeeded preview holds the planes that an unconditional run of its own
\* configuration and commands computes
\* (docs/scoped-reprocessing.md; the decision is _plan_reprocessing).
ScopedIsFull ==
    \A j \in Jobs : job[j].state = "succeeded" =>
        job[j].planes = Full(job[j].key.engine, job[j].config, job[j].ops)

\* A revision published with fresh evidence carries the render of exactly the
\* configuration and commands it froze, by the release that published it
\* (publish_draft_and_continue), although requests to render, saves and
\* publications interleave and the head may be of an older draft.
FreshEvidenceIsExact ==
    published.fresh =>
        published.planes = Full(published.engine, published.config, published.ops)

\* Geometry is built from a preview of the draft's configuration as it was when
\* the request was accepted (GeometryService._verified_input).
GeometryOfThisConfig ==
    geometry.job # 0 =>
        geometry.planes = Full(job[geometry.job].key.engine, geometry.config,
                               job[geometry.job].ops)

\* Jobs keep their types, and geometry the labels of its configuration.
EvidenceInv == TypeOK /\ GeometryOfThisConfig

\* GeometryRequestError says that a request must identify "current, verified
\* project evidence", and that a client whose draft changed must "render a
\* current preview before generating geometry" (geometry/service.py): the
\* labels that become solids are those of the draft's commands.  The service
\* compares configurations only, so a draft whose commands changed is built
\* from labels that do not show them.
GeometryIsCurrent == geometry.job # 0 => geometry.planes.ops = geometry.ops

\* docs/scoped-reprocessing.md: an ambiguous cache "is treated as missing and can
\* never fail the preview itself".  A cached file that is gone raises
\* FileNotFoundError, which is not among the errors that are caught.
CacheNeverFailsPreview == \A j \in Jobs : ~job[j].cacheFault

\* _project_summary shows "preview_ready" when the head succeeded and was
\* created no earlier than the draft's last update; the preview it then shows
\* is of the saved draft.  Not so when a save commits between the two
\* transactions of start_preview.
ReadyIsCurrent ==
    head # 0 /\ job[head].state = "succeeded" /\ job[head].created = draft.gen =>
        job[head].config = draft.config /\ job[head].ops = draft.ops

=============================================================================
