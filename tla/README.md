# Verification of Image23MF Studio

TLA+ models, TLC configurations and TLAPS proofs for the program under `src/`: a local web
application (Python service in `src/src/image23mf`, editor in `src/frontend`) that turns an image
into a multi-filament 3MF print. The modules model the parts where concurrency, failure and
ordering decide whether a user's work survives: durable jobs and their workers, start-up recovery,
the content-addressed store and its cleaners, the draft and its undo history, prompted-edit
sessions, the evidence that leads from a preview to a print, murals, backups and project bundles,
calibration records, the processes of the installed application, and the editor's panels.

## 1. Inventory of the system

The program is one process: a FastAPI application (`api/app.py`) whose request handlers run on a
thread pool, a `LocalWorkerManager` with its own bounded pool, and one SQLite database in WAL mode.
Handlers and workers share nothing in memory but the manager's dictionaries and a few locks;
everything else goes through `immediate_transaction` (BEGIN IMMEDIATE), which serializes writers, and
through files in the workspace directory. The process may be killed at any time; the next start
reconciles. Beside it run external tools, command-line backups and restores, the installer, and the
browser, which talks to the service over HTTP and polls.

| component | state | operations | interacts with |
| --- | --- | --- | --- |
| Job table (`storage/jobs.py`, `contracts/jobs.py`) | `jobs`, `job_heads` rows | enqueue, start, report progress, succeed, fail, cancel, supersede, recover | workers, API, recovery |
| Worker manager (`workers.py`) | tokens, futures, closed flag, executor queue | submit, cancel, execute, publish, shutdown | job table, blob store |
| Start-up recovery (`recovery.py`) | `startup_reconciliations` rows | reconcile at start-up and on demand | job table, blob store |
| Blob store (`storage/blob_store.py`) | files under `assets/`, `artifacts/`, `cache/`, `temp/` | put, verify | every producer of files |
| Artifact lifecycle (`artifact_lifecycle.py`) | `artifacts` rows | delete a regenerable artifact | blob store, API |
| Garbage collection (`workspace_health.py`) | a reviewed plan held by the client | plan, apply | blob store, all tables that name files |
| Drafts and history (`storage/repositories.py`, `storage/history.py`) | draft, revisions, lineages, states, head, receipts | save, edit, undo, redo, discard, publish, branch, accept an alternative | preview evidence |
| Prompted edits (`prompted_edits/`) | sessions, alternatives, consents | prepare, execute, retry, cancel, complete, reject, accept | workers, provider, revisions |
| Previews (`processing.py`, `derivation.py`) | preview jobs and their planes | start a preview, reuse a baseline, publish, admit geometry | drafts, workers |
| Geometry and export jobs (`geometry/jobs.py`, `exporting.py`) | lock table, memory cache, artifacts of jobs | compute once, store, remember, share or replace an export | workers, blob store |
| Murals (`mural/`) | plan, builds | save and delete the plan, build, validate, download | previews, workers |
| External tools (`external/runner.py`) | a subprocess group, temporary files | start, poll, terminate, reap | workers |
| macOS shell (`macos/`, `storage/migrations.py`) | lock, pid files, database, releases, symlink | launch, stop, install, migrate, roll back, uninstall | everything |
| Workspace backup (`workspace_bundles.py`) | archives, stage and displaced directories | back up, verify, restore | the application, file system |
| Project bundles (`bundles.py`) | archives | export, verify, restore | drafts and revisions |
| Calibration (`calibration/`) | drafts, runs, proposals, catalogs | edit, attest, seal, import, derive, review, promote | blob store |
| Editor panels (`src/frontend`) | coordinator state, calls in flight | start, poll, cancel, retry, restore, dispose | API |

What is hard in this code: a job's row is written by request threads, pool threads and recovery,
each deciding on what it read a moment earlier; `submit` and `cancel` keep the row and the
in-memory token in step without holding one lock over both; the process can vanish between any two
transactions; files and the rows that name them are not covered by one transaction, and two
independent cleaners remove files; the draft is saved, undone, redone, published and discarded with
optimistic generations and retried by the browser after lost answers; evidence is looked up before the
transaction that relies on it; a restore exchanges two directories by renames; a launcher
migrates before it holds the lock; answers reach a panel after the user went on.

The properties that make each component correct:

* job table: one live job per key and it is the newest; outcomes are final; output is visible only
  after success and only from the newest request;
* worker manager: no live row without a thread that will finish it; superseded and canceled work is
  told so; shutdown completes; every job ends;
* recovery: whatever a dead process left behind becomes failed, and nothing else does;
* blob store and its cleaners: a file that a row names stays, a file in flight stays;
* drafts and history: the draft always equals the state the cursor names, a retried command has its
  effect once, undo and redo stay inside the undo window, no accepted save is overwritten unseen;
* prompted edits: candidates can be accepted exactly while they are up for review, a finished job has
  delivered, an executed session comes to an end;
* previews, geometry, exports: reuse never shows, published evidence is of what was published, one
  computation per derivation, one job for identical requests;
* murals: what can be downloaded shows the current draft in the saved layout;
* external tools and shell: one server at a time, a stopped one is gone, an update that fails changes
  nothing, saved rows survive updates;
* backups and bundles: archives are whole and of one moment, no failure of a restore loses rows,
  imports neither share identities nor claim evidence they have not;
* calibration: a sealed run is what was attested and stays, a promoted value rests on separating
  evidence of one process;
* panels: what is called current is what was asked for last and nothing was changed since, late answers
  change nothing, no job is left running unattended.

## 2. Modules

| module | models | composition |
| --- | --- | --- |
| `LatestWins` | what the job table promises: each key has at most one running request, the newest; an outcome is final and only the newest succeeds | abstract |
| `JobStore` | `storage/jobs.py`, the publication transaction of `workers.py`, row deletion of `artifact_lifecycle.py` | implements `LatestWins` |
| `Workers` | `workers.py`, `recovery.py`, the lifespan of `api/app.py` | extends `JobStore` and implements it |
| `BlobStore` | `storage/blob_store.py`, `artifact_lifecycle.py`, the collector of `workspace_health.py`, the rows that name files | |
| `UndoLine` | what the history promises: a line of states and a position on it | abstract |
| `DraftHistory` | `DraftRepository`, `RevisionPublisher`, `DraftHistoryRepository` and the handlers that call them | implements `UndoLine` |
| `PromptedEdits` | `prompted_edits/`, with the job table and the pool as a session sees them | |
| `Previews` | `start_preview` and the reuse plan of `processing.py`, `derivation.py`, the evidence taken by publication and by `geometry/service.py` | |
| `Outputs` | `geometry/jobs.py` and `exporting.py`: per-key locks, caches, the request guard | |
| `ToolRunner` | one call of `external/runner.py` over a tool with a child | |
| `MacShell` | `macos/launcher.py`, `desktop.py`, `lifecycle.py`, the migration runner | extends `ToolRunner` |
| `MuralBuilds` | `mural/service.py`, `repository.py`, `provenance.py`, `builds.py` | |
| `WorkspaceBundles` | `workspace_bundles.py` and its command line | |
| `ProjectBundles` | `bundles.py` | |
| `Calibration` | `calibration/drafts.py`, `registry.py`, `promotion.py`, `catalogs.py`, `evidence.py` | |
| `EditorPanels` | the preview, output and mural coordinators of the editor | |
| `StoreProofs`, `ServiceProofs`, `PreviewsProofs`, `OutputsProofs`, `ShellProofs`, `BundlesProofs`, `CalibrationProofs`, `PanelProofs` | theorems (section 6) | extend the modules they are about and `TLAPS` |
| `MC*` | model values, instances and symmetry for TLC | extend the module of their name |

`MCStores` checks `BlobStore`, `JobStore` and `DraftHistory` in one run, `MCServices` checks
`PromptedEdits` and `MuralBuilds`, `MCBundles` checks `WorkspaceBundles` and `ProjectBundles`: a behaviour is about one of them, named by the variable
`scene`, and the state of the others stays what it was. The operators of the
stores have names of their own for that reason (`BInit`, `JobNext`, `HNext`, `PInit`, ...), as have those of
`MuralBuilds` (`MInit`, `MNext`).

**State and actions.** Variables are columns of the tables, fields of the objects, and the program
counters of threads that are between two transactions. One action is one transaction (everything a
handler does under `immediate_transaction`, triggers included), one section under a lock, one file
operation, one rename or one check of a token. A request that is refused writes nothing and is no
step, unless its refusal leads the thread somewhere else. Timestamps, stages, messages and
formats are left out; pictures, meshes and packages are named by what they were computed from, so two
of them are equal when their bytes are.

* `JobStore`: the columns `state`, `key`, `generation`, `type`, `progress`, `failure` of `jobs`;
  `head`, `headGen` of `job_heads`; `rows`, the artifact rows of a job. `EnqueueKeyed` inserts the
  job, supersedes the live head and moves the head in one step, as `enqueue` does. `Publish` is
  `_publish_current_result`'s transaction.
* `Workers`: a job's `pc` follows the thread that handles it, from `submit` (enqueue, then the
  section that registers the token) through `_execute` to `_forget`. `cancel` is the look-up of
  the token and then the transaction. The work callable is a choice: it reports, returns, raises,
  crashes or notices its cancellation. `LoseMemory` is loss of the process, `Startup` the
  reconciliation of the next one.
* `BlobStore`: a path is a namespace and a digest. A write is temporary, look-up, replace or reuse,
  verification and row. The collector plans, is reviewed, recomputes, compares, reads the references
  once and works through the candidates. The clock only tells ages apart. A write is `prompt` if its
  row commits before any file with its bytes has reached the safety age; `recorded` are the writes
  whose row stands, `held` those whose row stood when the collector began to apply its plan. `IsRead`
  are the rows whose table is among those that `_referenced_blobs` reads; rows of kind `"mask"`, of the
  prompted-edit tables, are not.
* `DraftHistory`: one project. A *content* is a configuration with its ordered operations. Requests
  carry what their client had seen; they are delivered late, repeatedly or never. `save_draft` and
  `start_preview` read the draft before their transaction, so `ReadDraft` is a step. Nodes, lineages,
  cursor, tip and floor are the history tables. Operations without an HTTP route at this commit
  (`discard`, `publish_draft`) are modelled too. `Line` maps the graph of nodes to `UndoLine`.
* `PromptedEdits`: sessions and alternatives, with a program counter for each execute request, its
  job's worker and each cancel request. The provider is a choice of any subset of positions, an
  error or silence up to the deadline. The two sections of `submit` are one step here.
* `Previews`: a request reads the draft and the head, saves, and submits (`Submit`) in three steps; a
  job loads its baseline and renders in two. Each plane is the record of what it was computed from.
  Files may be lost, and a restart may bring a newer engine.
* `Outputs`: a geometry job is a thread that looks into the memory cache, registers the key's
  lock, waits, looks again, computes, stores, remembers and leaves; an export request asks, enters the
  guard, checks what there is and submits. Damaged files and restarts are the environment.
* `ToolRunner`, `MacShell`: processes, the flock, pid files, the database file with its schema
  version and rows, release directories and the symlink; the installer's `step` follows
  `install_release` and `uninstall_application` line by line.
* `MuralBuilds`: the plan and the builds of one project; draft edits, previews and publications are
  environment. A plan's source is a picture of a preview, with the draft as it is (`DraftSource`), or of a
  published revision (`RevisionSource`); it is put together (`Ask`) before the transaction that saves it and
  checked there (`Valid`): a draft's against the draft and its preview, a revision's against the revision only.
  `Matching` is the comparison of labels and geometry on which every build rests.
* `WorkspaceBundles`: a workspace is its rows and files; a place holds one or nothing. `Stage`,
  `Previous` and `Failed` are the directories a restore makes beside the target. Each rename may fail,
  and the process may be killed or interrupted between any two steps. `Overlap` lets the application
  run during a restore. A row is saved in two steps, the file (`StoreFile`) and the row (`InsertRow`), each
  in the directory that is the target at that moment.
* `ProjectBundles`: export reads `ReadProject`, `ReadRevisions`, `ReadDraft`, `ReadNodes`, `ReadHead`
  between edits, and ends with the checks of the manifest (`Check`); `Begin` and `Commit` are the halves
  of a restore. Identities are pairs that tell who chose them.
* `Calibration`: request handlers read row, members and evidence in steps of their own (`pc`);
  `Seal` is the insertion of a run. A catalog's version names the base and the runs behind it.
* `EditorPanels`: the browser runs a handler or the continuation of one call at a time; a call is
  served, answered late or lost. `quiet` are cancellations sent without waiting for an answer. `draft` is what is
  on screen. A preview or output is asked for with a version that was on screen before the window waited for
  its saves (`submitPreview`), a retry with the version of the failed request, and a restored job that is
  still active is followed whatever draft it is of; `asked` remembers what the latest of these was about. The
  server goes by the saved generation and accepts versions that are no longer on screen.

A component's invariants are checked as one conjunction of named parts (`TableInv`, `StoreInv`,
`HistoryInv`, `ManagerInv`, `SessionInv`, `EvidenceInv`, `OutputInv`, `ShellInv`, `MuralInv`, `BackupInv`,
`BundleInv`, `CalibrationInv`, `PanelInv`): the type invariant of the module and what holds between its
variables. The properties that say most have runs and names of their own.

## 3. Runs

| run | configuration, distinct states | what it shows |
| --- | --- | --- |
| `stores` | `MCStores.cfg`, 589 532 | *Files*, with rows of every kind: no publication that commits within the safety age loses its file to the collector, nor a row that stood when the collector began, if the collector reads its table. *Jobs*: any caller, any transaction, any order: the table's invariants and `LatestWins`. *Draft*: three requests of any kind or four history commands, late and repeated: nobody overwrites a draft unseen, a lineage has one base revision, the node graph is `UndoLine` |
| `stores_masks` | `MCStoresMasks.cfg` | The second finding of section 7 |
| `workers` | `MCWorkers.cfg`, 231 631 | No live row without a thread, replaced work is signaled, tokens match the pool, every step is one of `JobStore`; jobs and shutdown end |
| `restart_prompted` | `MCWorkersPrompted.cfg` | The first finding of section 7 |
| `prompted_safety` | `MCPromptedEditsSafety.cfg`, 1 298 434 | Two sessions, one perhaps a retry, all faults: candidates appear exactly while a session is reviewable; a succeeded job has delivered |
| `previews` | `MCPreviews.cfg`, 1 059 886 | Reuse of a baseline is invisible, fresh evidence is the render of what was published, geometry is of its configuration |
| `outputs` | `MCOutputs.cfg`, 110 741 | A derivation is computed once, no lock leaks, identical exports share a job, a retry replaces a damaged export, every job ends |
| `processes` | `MCMacShell.cfg`, 1 086 194 | One server, stopped ones are gone, saved rows survive updates and rollbacks, a failed update changes nothing, the current release opens the workspace, tool calls end |
| `services` | `MCServices.cfg`, 356 637 | *Murals*, of previews and of a published revision: a download shows the current draft in the saved layout, a saved plan shows its source, a build packages what its author saw, answers from the cache are exact, builds end. *Prompted edits*: an executed session ends, if nothing outside its own requests interferes |
| `bundles` | `MCBundles.cfg`, 861 169 | *Workspace*: archives and target are whole, exit statuses are honest, no row is lost, failures can be recovered from, commands end. *Project*: an archive is of one moment, what is restored is complete, unique and claims no evidence it has not |
| `calibration` | `MCCalibration.cfg`, 396 007 | A sealed run is what was attested and stays; catalogs form a line and rest on separating evidence of one process |
| `editor_panels` | `MCEditorPanels.cfg`, 558 836 | What is called current is what was asked for last and nothing was changed since, late answers change nothing, no known job is unattended, no panel stays busy |

All runs but `restart_prompted` and `stores_masks` pass. Five more configurations show a property failing; each is
run with `tlc -config <file> <module>`:

| configuration | module | shows |
| --- | --- | --- |
| `MCWorkersReconcile.cfg` | `MCWorkers` | `OnlyAbandonedJobsFail`: the on-demand reconciliation fails jobs whose workers are alive |
| `MCBundlesBeside.cfg` | `MCBundles` | `TargetIsWhole` with `Overlap = TRUE`: a file is stored, the directories are exchanged, and its row is inserted into the restored workspace |
| `MCBundlesReturns.cfg` | `MCBundles` | `NothingIsLost` with `Overlap = TRUE`: an application that runs during a restore saves rows that nothing holds afterwards |
| `MCEditorPanelsLateMural.cfg` | `MCEditorPanels` | `NoLateUpdates` for the mural panel, if its transport answered after an abort: a canceled build's late answer would still change it |
| `MCEditorPanelsOnScreen.cfg` | `MCEditorPanels` | `CurrentIsOnScreen`: a result that was made for a version no longer on screen is shown as current |

## 4. Bounds

Supersession needs an old, a current and a newer generation of a key, hence three jobs; more keys do
not interact, since every statement of `JobRepository` names one key, and the theorems hold for any
number. Two jobs on two threads give supersession of running work. The races of the blob
store are between one writer and one cleaner, with a second writer of the same or other bytes. An undo
limit of one reaches the floor with two commands, and four go below it, come back and branch
(`UNDO_LIMIT` is 100 in the code and is used only in the subtraction that `Ancestor` models). Two
sessions are needed for a retry, two executes for a double one. Two requests, three configurations that
differ in one component each and two releases reach every decision of the reuse plan. Three threads
over two derivations are a leader, a follower and a bystander; a cache of one forces eviction.
Two processes and two installations are an old server and an update that meets a second start. Two
previews, two builds and one edit are what a plan can become stale against; once a revision is published
(`FewerWithRevisions` of `MCServices`) there are one build, two saves and no fault, which a plan of a revision needs. Two failing renames are the
exchange and its undoing; one row that is saved and one that is archived tell what a directory holds. Three
nodes are an edit, its undo and a branch. Three runs agree, contradict each other and come from
another process.

Named bounds: `MaxProgress`, `MaxLosses`, `MaxWorkers`, `MaxTime`, `Many`, `MaxNodes`, `MaxRevisions`,
`MaxSaves`, `MaxOps`, `MaxEngine`, `MaxActors`, `MaxFaults`, `MaxProcs`, `MaxInstalls`, `MaxPreviews`,
`MaxBuilds`, `MaxEdits`, `MaxChanges`, `MaxExports`, `MaxRestores`, `MaxOrdinal`,
`MaxGeneration`, `MaxPromotions`, `MaxCalls`, `MaxTroubles`. `Focus` of `MCCalibration` keeps drafts and
promotions apart: while a draft is open, at most one run exists. `Short` of `MCStores` stops the
clock of two writes to different files, and of a mask beside another row, at three instead of four: one is still old when the other is new. Symmetry is used where values are
alike and only safety is checked. The runs disable the deadlock check because each system may stop:
requests, writes, faults and time run out in the instance.

## 5. Fairness

A pool thread that has begun runs on (`WF` of `Advance`), as does a `cancel` between its two halves,
shutdown's drain and the start-up that follows a loss: these are threads of a preemptive scheduler that
wait for nothing but short transactions and locks. A work callable is assumed to return, raise or notice
cancellation in the end: its tools run under deadlines. `Outputs` assumes the same of geometry and export
threads; a thread that waits for a lock competes with as many others as there are jobs, each of which takes it
once. In `PromptedEdits` a handler that has begun and a worker go on; the provider needs no
fairness because `_call_provider` leaves its loop at the deadline. In `ToolRunner` the polling
thread runs and the clock reaches the deadline; the tool may never exit. A mural build's thread goes on, and a command of
`WorkspaceBundles` until it ends or is stopped. In `EditorPanels` the browser runs every
continuation, a call is answered or fails, and jobs end, which is `AllEnds` of `Workers`. Clients are
never fair: nobody has to submit, cancel, retry or shut down.

## 6. Proofs

Every theorem holds for every value of the constants that satisfies the assumptions of its modules,
so for any number of jobs, threads, paths, sessions, editors, restores, and for any bound. Where a
theorem has a hypothesis of its own it is named here. In each module an inductive invariant is proved
first, action by action, and what the runs check follows from it. TLC checked each inductive
invariant on the instance of its run before it was proved.

* **`StoreProofs`: jobs and their threads.** `IInv` joins the invariants of `TableInv` with two facts the code relies on
  silently: a head names an existing job of its own key and generation, and an identifier not yet
  handed out has no row of any kind. With them an enqueue knows that the job it supersedes is the only
  live one, and a publication that the running job is the newest. From it follow `TableInv`, the finality
  of outcomes, that only the newest succeeds, and the step-by-step refinement of `LatestWins`
  (`JobStoreImplementsBoard`). `WorkersImplementJobStore` shows that every step of the manager is a
  transaction of the table or leaves it alone, so the table's theorems hold of real threads
  (`WorkersPublishNewest`). `WInv` says what a thread's position says of its row, that the queue
  holds exactly the pending jobs, once each, and that closing has signaled the registered
  tokens; `ManagerInv` and `NoStrandedJob` follow.
* **`StoreProofs`: files.** Rows are of every kind; the theorems protect those whose table the collector
  reads (`IsRead`), and the run `stores_masks` shows what happens to the others. The argument compares three times of a path: of the
  oldest file it ever had, of the row, and of the plan. Whatever the collector may take is aged; such a row
  of a prompt write was there before its file was aged, hence before the plan that may take it
  was read, hence among the references. `PromptPublicationsAreSafe` states `StoreInv`,
  `CollectorSparesReferences` states `ReadRowsAreSpared`.
* **`StoreProofs`: drafts and history.** `HInv` is about one path, that from the newest anchor to the
  tip: the checkpoint is its first node, the floor lies `UndoLimit` commands behind its end (or is the
  anchor), and the cursor lies between floor and tip (`OnTipPath`). An edit replaces the path by that to
  the cursor and one node; undo and redo move the cursor on it; everything else starts a path of
  one node. `RequestsFit` says when a request's view is still the draft: composed in the same life of the
  draft, of the same generation. `HistoryIsSound` (`HistoryInv`), `UndoStaysOnItsRevision`
  (`LineHasOneBase`), `NoLostUpdate` (`ActsOnWhatWasSeen`) and, transaction by transaction, the
  refinement of `UndoLine` (`HistoryImplementsUndoLine`) follow. `PathTo` and `Ancestor` are recursive
  functions; what they return for every graph (`PathUnfolds`, `PathIsLine`, `PathKept`, `AncestorIs`) is
  proved by looking at the least node that would violate it (`Least`, from the theorem `WFMin` of
  the library), which takes a set where induction takes an operator.
* **`ServiceProofs`: sessions, under every fault.** `PInv` says what the position of a request says
  of its job, that a worker which returned has written its session (`OutcomeFits`), and what a status
  says of the alternatives and children (`RowsFit`). `SessionInv` and `SuccessIsDelivered` follow.
* **`PreviewsProofs`: evidence.** `VInv`: a preview that succeeded never changes, so a baseline is
  what it was when it is read; an active job is of the release that runs, because a restart fails the
  others; a job's key is that of what it renders. Reuse then needs one lemma per scope of the plan: what
  the baseline's planes depend on is equal.
* **`OutputsProofs`: locks, caches, exports.** `OInv` has a part for each thing that threads share. The
  lock table counts its users: an entry is dropped when the last user leaves, so no two entries are of
  one key and the owner of a key's entry is the only one who computes. The cache part keeps the history of
  what was computed: a key that was computed has a result that can be found, is being computed,
  or was disturbed. The export part says what stays true while a request has the guard.
* **`ShellProofs`: processes, updates, tools.** `ShellIInv` follows who may run when. The flock has one
  holder; a launcher writes the pid file only while it serves, so the process the installer signaled
  holds both (`VictimFits`) and is gone once the stop has returned. An update that nobody disturbed is
  alone with the database (`AloneFits`), hence its copy is what it found, what it applied is the schema,
  and what it restores is complete (`UpdateFits`). A desktop app migrates under the flock, so no row is
  saved behind its backup (`RowsFit`). What runs, or may be restored, is never newer than the current
  release (`OpensFit`). `ShellInv`, `CurrentOpensWorkspace` and `FailedUpdateChangesNothing` follow; a
  disturbed update is one during which the user starts the application, which the code cannot prevent.
* **`ServiceProofs`: mural builds.** `MInv` carries the type of a source from preview or revision to plan, request and
  package, with the two invariants of the run. `_stale_reason` compares a draft's plan with the draft and its
  preview, but holds the plan of a published revision for valid whatever the draft has become; that
  `DownloadIsCurrent` holds nevertheless (`OfferedIsCurrent`) rests on the part of `MInv` that no build was
  ever made of such a plan, because `_matching_labels` wants a geometry of the same revision and no geometry
  names one (`GeometryRevision`). Should geometry be published with a revision some day, the property has to be
  looked at again. `AnswersAndSavesAreExact` (with `OutputsFit`: a stored package has a file, a
  build that succeeded a verdict) is the safety part of `RequestsAreMet`.
* **`BundlesProofs`: workspaces.** Where the application may run beside a restore, archives are
  still whole, because every row of the snapshot has to find its file when the files are walked
  (`ArchivesAreWhole`), but the target need not be (`MCBundlesBeside.cfg`). Under `~Overlap` the target is
  whole too, at most one restore is between its first and
  last step, and `RestoreFits` says for each of its steps where the former workspace is: in the target, in
  its own previous directory or in the rollback archive. `HonestExit`, `NothingIsLost` and the safety part
  of `FailuresEndWell` follow. The hypothesis is what `docs/workspace-backup-restore.md:77` asks of the
  user, to quit the application first; the preflight checks it once.
* **`BundlesProofs`: projects.** `ReadInv`: nodes and revisions are only appended, so what was read is a
  prefix of what there is. The tip is the newest node, each revision has a node of its lineage, and the check
  that the draft's cursor and tip are among the nodes that were read therefore puts the tip of the
  moment of the head among them: the prefix is the whole. `BundleIsAMoment` follows for every
  length of the history.
  `RestoreInv` is about what is made of an archive: it is closed and of a past of the project
  (`ArchivesStand`), and the identities that the n-th import chose carry its number (`MadeHere`), so one that
  `_available_id` kept was free and one that it chose is in nobody else's project. The renaming of
  nodes is injective, which is what keeps the restored cursor at the restored draft. `BundleInv` follows.
* **`CalibrationProofs`.** `CInv` says what a request still knows while the draft's generation is the one it
  read: the evidence it zips is the draft's, the attestation is of the candidate. Runs are never
  changed (`RecordsStayFinal`), so what a catalog was derived from stays what it was, and `Transition` and
  `Proposed` give the separation of each promoted value and the one process behind them.
* **`PanelProofs`.** Hypothesis `Contract`: the mural transport answers nothing after an abort, as `fetch` does. It is
  needed: `MCEditorPanelsLateMural.cfg` shows `NoLateUpdates` failing without it. Nothing is assumed of the
  versions that requests and restored jobs are of. Numbers of requests are given out once, so at most one call of a panel carries the latest number, and the
  checks after each `await` let only that one publish (`NumbersFit`, `NewestFits`). A job that runs has an owner:
  the request in progress, a cancellation on the wire, or nobody because the call that would have told was lost
  (`WorkFits`). What is shown as current was taken under the number of the latest request, which remembers the count of
  changes at its start, for the project on screen (`CurrentIsAsked`, `PreviewFits`, `MuralFits`). That a call makes at most one job for each of its steps, which
  bounds the jobs, is an injection from jobs to the calls and steps that asked for them (`JobsCounted`).
  `PanelInv` and `NoLateUpdates` follow.

Assumptions about constants are of three kinds: bounds are natural numbers; model values that stand for
"nothing" differ from what they are not (`NoKey`, `NoJob`, `None`, `Nothing`, `Nobody`); sets that the
program has are not empty or are finite where they are counted (`Type`, `Alt`, `Job`, `Process`,
`Paint`). Every run evaluates those of its modules.

**Only model-checked.** Liveness (`AllEnds`, `SessionsEnd`, `JobsEnd`, `CallsEnd`, `Settles`, and the
parts of `RequestsAreMet` and `FailuresEndWell` about ends), which is out of the prover's reach.
Each other property of a passing run is stated by a theorem.

## 7. Disagreements

Two runs show the findings that are listed for the program. `restart_prompted`: `_retry_action` has
no entry for `prompted_edit`, so one interrupted job of that type makes every start-up raise,
against `docs/startup-recovery.md:11`. `stores_masks`: `_referenced_blobs` does not read the mask and preview
paths of the prompted-edit tables, so a reviewed collection removes their files once they are old, against
`docs/workspace-health.md:32`.

The following definitions state what a comment, a message or a document says, or what one would
hope for, and do not hold of the code. No run contains them; to see a counterexample, add the name to the
INVARIANTS or PROPERTIES of the configuration given.

| property | configuration | what happens |
| --- | --- | --- |
| `KeptFilesExist` (`BlobStore`) | `MCStores.cfg` | the file of a deleted artifact is unlinked after a revision row for the same bytes has committed |
| `RetryReturnsOriginal` (`DraftHistory`) | `MCStores.cfg` | the retry of an edit whose answer was lost, after a publication, is answered as a reuse of its UUID |
| `NoStrandedSession` (`PromptedEdits`) | `MCPromptedEditsSafety.cfg` | after a crash, a shutdown, a job cancel or an unreadable input a session stays queued or running |
| `OneCallPerConsent` (`PromptedEdits`) | `MCPromptedEditsSafety.cfg` | two execute requests both read "prepared" and both reach the provider |
| `GeometryIsCurrent` (`Previews`) | `MCPreviews.cfg` | geometry is admitted on the configuration only, also if the draft's commands changed since |
| `CacheNeverFailsPreview` (`Previews`) | `MCPreviews.cfg` | a cached file that is gone fails the preview |
| `ReadyIsCurrent` (`Previews`) | `MCPreviews.cfg` | a save between the two transactions of `start_preview` leaves "preview ready" over another draft |
| `RegenerationRepairs` (`Outputs`) | `MCOutputs.cfg` | damaged geometry is recomputed and cannot be stored over the damaged file |
| `DescendantsTerminated` (`ToolRunner`) | `MCMacShell.cfg` | a tool's child that ignores SIGTERM outlives the call |
| `NoMixedSchemas`, `ServerIsFindable` (`MacShell`) | `MCMacShell.cfg` | the old release is started while the installer migrates; the installer's unlink removes the pid file of a new server |
| `NoBlindOverwrite` (`MuralBuilds`) | `MCServices.cfg` | a plan is deleted and made again with generation 1; a delayed save replaces it |
| `ValidPlansLoad` (`MuralBuilds`) | `MCServices.cfg` | a plan of a published revision is saved and stays valid, and every build of it is refused for its geometry |
| `RebuildRepairs` (`MuralBuilds`) | `MCServices.cfg` | a damaged package cannot be replaced by the rebuilt one |
| `RemovedAfterActivation` (`WorkspaceBundles`) | `MCBundles.cfg` | an interruption between the two renames removes the previous workspace (the rollback archive has it) |
| `EmptyOnlyKeepsWorkspaces` (`WorkspaceBundles`) | `MCBundles.cfg` with `Overlap = TRUE` | the target is filled after it was looked at |
| `ActiveIsLast` (`ProjectBundles`) | `MCBundles.cfg` | a project published after its row was read is archived with an older active revision |
| `NoFalseCorruption`, `DerivedIsAcceptable` (`Calibration`) | `MCCalibration.cfg` | a draft that changes while it is read is reported corrupt; a proposal may be derived that cannot be accepted |
| `CurrentIsOnScreen` (`EditorPanels`) | `MCEditorPanelsOnScreen.cfg` | the coordinator calls a result current that is of an earlier version: one captured before the window waited for its saves, repeated by a retry, or of a restored job that was still active. The editor's own label also asks whether there are unsaved changes and whether the preview matches the draft, so the document's promise (`docs/editor-preview-workflow.md:64`) is not contradicted |
| `AlwaysSettles`, `CanceledMeansStopped` (`EditorPanels`) | `MCEditorPanels.cfg` | the mural panel shows a superseded build as running; a cancellation before the start request is answered shows "canceled" while the server makes the job |

Generations restart at 1 when a draft is deleted and created again, so a request composed from
the deleted draft may be valid again. No route deletes a draft at this commit; `ActsOnWhatWasSeen` and
`LineHasOneBase` therefore speak about the life of one draft.

## 8. Not modelled

The image engine, editor selections, geometry and meshes, mural partitioning and packaging: pure
functions on arrays, polygons and floating-point numbers; what depends on what among them is in
`Previews`, `Outputs` and `MuralBuilds`. File formats, the slicer and tracer (external programs), static
catalogs, routing, request validation and error mapping, single-row updates of project records, test and
benchmark tooling. SQLite is taken at its word: `BEGIN IMMEDIATE` serializes writers and commits
survive; its busy timeout and disk errors are not modelled. The parts of a modelled component that are
left out are named in the notes of `PROJECT.json`.

## 9. What is left

Every safety property of a passing run has its theorem; liveness stays with TLC. The
theorems say nothing of the components of section 8, of which the image engine, geometry and
packaging are by far the largest: they are sequential computations, whose correctness is a matter of
arithmetic on arrays and polygons that neither TLC nor the provers reach.
