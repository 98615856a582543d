------------------------------ MODULE MacShell ------------------------------
(***************************************************************************)
(* The processes of the installed application: launchers and the desktop   *)
(* app that want to serve the workspace (macos/launcher.py, desktop.py),   *)
(* the installer that stops them, migrates the database and switches the   *)
(* release (macos/lifecycle.py), the forward migrations each runs          *)
(* (storage/migrations.py), and the tool process a server has started      *)
(* (ToolRunner).  Everything interleaves; processes share the files of the *)
(* runtime directory, the flock and the database.                          *)
(***************************************************************************)
EXTENDS ToolRunner, Integers

CONSTANTS
    Proc,           \* processes started over a behaviour, one pid each
    Nobody,         \* no process
    Installer,      \* the installer's migration subprocess
    Desktop,        \* the processes of Proc that are the desktop app
    DesktopVersion, \* the release inside the desktop app
    Release,        \* releases, each named by its CURRENT_DATABASE_VERSION
    Row,            \* what users save
    MaxProcs,       \* bound: processes that take part when no tool runs
    MaxInstalls,    \* bound: runs of the installer
    MaxFaults       \* bound: failed migrations and processes that die

ASSUME ReleaseAssumption ==
    /\ Release \subseteq Nat \ {0} /\ DesktopVersion \in Release
    /\ Desktop \subseteq Proc /\ MaxInstalls \in Nat \ {0} /\ MaxFaults \in Nat
ASSUME NameAssumption == Nobody \notin Proc /\ Installer \notin Proc \cup {Nobody}

VARIABLES
    state,      \* of each process
    version,    \* the release each process runs
    lock,       \* who holds server.lock
    pidFile,    \* whom server.pid and server.json name
    schema,     \* highest row of schema_migrations, 0 without a database file
    rows,       \* rows in the database file
    seen,       \* applied version a migrating process has read, -1 before
    conn,       \* a process's database connection: "none", "live" or "lost"
    copy,       \* backups held for rollback: by the installer and by the desktop app
    releases,   \* release directories
    current,    \* target of the current symlink, 0 if there is none
    step,       \* where the installer is
    op,         \* "install" or "uninstall"
    target,     \* version being installed
    previous,   \* current when the installer began
    existed,    \* database_existed
    victim,     \* the process the installer signaled
    outcome,    \* how the last installation ended
    installs, faults,
    saved,      \* history: rows acknowledged to a user
    before,     \* history: database and release when the installer had stopped the server
    disturbed,  \* history: a process ran while an update had the database
    halfway,    \* history: an update died and none has succeeded since
    mixed       \* history: a release wrote a database migrated past it

files == <<lock, pidFile>>
database == <<schema, rows, seen, conn, copy>>
install == <<releases, current, step, op, target, previous, existed, victim, outcome>>
counts == <<installs, faults>>
history == <<saved, before, halfway, mixed>>
shellVars == <<state, version, files, database, install, counts, history, disturbed>>
vars == <<shellVars, toolVars>>

Migrator == Proc \cup {Installer}
Absent == [schema |-> 0, rows |-> {}]
Live(p) == state[p] \notin {"off", "gone"}
Window == {"exists", "backup", "migrate", "restore", "activate"}

Init ==
    /\ \/ schema = 0 /\ current = 0
       \/ schema \in Release /\ current = schema
    /\ \E A \in SUBSET Proc :
          /\ state = [p \in Proc |-> IF p \in A THEN "off" ELSE "gone"]
          /\ \/ /\ A = {CHOOSE p \in Proc : p \notin Desktop} /\ ToolInit
                /\ installs = MaxInstalls - 1 /\ faults = MaxFaults /\ current # 0
             \/ /\ Cardinality(A) = MaxProcs /\ NoToolInit
                /\ installs = 0 /\ faults = 0
    /\ version = [p \in Proc |-> 0]
    /\ lock = Nobody /\ pidFile = Nobody
    /\ releases = {current} \ {0}
    /\ rows = {}
    /\ seen = [a \in Migrator |-> -1] /\ conn = [a \in Migrator |-> "none"]
    /\ copy = [a \in Migrator |-> Absent]
    /\ step = "idle" /\ op = "install" /\ target = 0 /\ previous = 0 /\ existed = FALSE
    /\ victim = Nobody /\ outcome = "none"
    /\ saved = {} /\ before = Absent /\ disturbed = FALSE
    /\ halfway = FALSE /\ mixed = FALSE

To(p, s) == state' = [state EXCEPT ![p] = s]

-----------------------------------------------------------------------------
(* apply_migrations: the applied versions are read outside the transaction *)
(* of each migration; one that another process has applied since fails.    *)
ReadApplied(a, supported) ==
    /\ seen[a] = -1 /\ schema <= supported
    /\ seen' = [seen EXCEPT ![a] = schema]
    /\ conn' = [conn EXCEPT ![a] = "live"]
    /\ UNCHANGED <<schema, rows, copy>>

ApplyNext(a, supported) ==
    /\ seen[a] \in 0 .. supported - 1
    /\ conn[a] = "live" => schema = seen[a]
    /\ schema' = IF conn[a] = "live" THEN schema + 1 ELSE schema
    /\ seen' = [seen EXCEPT ![a] = @ + 1]
    /\ UNCHANGED <<rows, conn, copy>>

Migrated(a, supported) == seen[a] = supported

(* UnsupportedDatabaseVersionError, MigrationError, or any other failure   *)
(* of the step (a fault).                                                  *)
Refused(a, supported) ==
    \/ seen[a] = -1 /\ schema > supported
    \/ seen[a] \in 0 .. supported - 1 /\ conn[a] = "live" /\ schema # seen[a]

MigrationFails(a, supported) ==
    \/ Refused(a, supported) /\ UNCHANGED faults
    \/ faults < MaxFaults /\ seen[a] < supported /\ faults' = faults + 1

(* os.replace and unlink of the database leave open connections behind. *)
Detached(a) == [b \in Migrator |-> IF b = a THEN "none"
                                   ELSE IF conn[b] = "live" THEN "lost" ELSE conn[b]]

Replace(a, with) ==
    /\ schema' = with.schema /\ rows' = with.rows
    /\ conn' = Detached(a)
    /\ seen' = [seen EXCEPT ![a] = -1]
    /\ UNCHANGED copy

Disconnect(a) ==
    /\ seen' = [seen EXCEPT ![a] = -1]
    /\ conn' = [conn EXCEPT ![a] = "none"]

-----------------------------------------------------------------------------
(* launcher.main: migrate_workspace, and only then the lock. *)
Launch(p) ==
    /\ state[p] = "off" /\ p \notin Desktop /\ current # 0
    /\ To(p, "migrating")
    /\ version' = [version EXCEPT ![p] = current]
    /\ UNCHANGED <<files, database, install, counts, history, toolVars>>

(* desktop.run: the lock, a backup, then create_app with the migrations. *)
OpenDesktop(p) ==
    /\ state[p] = "off" /\ p \in Desktop
    /\ IF lock = Nobody
       THEN To(p, "backing") /\ lock' = p /\ pidFile' = p
       ELSE To(p, "gone") /\ UNCHANGED files     \* already running
    /\ version' = [version EXCEPT ![p] = DesktopVersion]
    /\ UNCHANGED <<database, install, counts, history, toolVars>>

BackUpDesktop(p) ==
    /\ state[p] = "backing"
    /\ To(p, "migrating")
    /\ copy' = [copy EXCEPT ![p] = [schema |-> schema, rows |-> rows]]
    /\ UNCHANGED <<version, files, schema, rows, seen, conn, install, counts, history, toolVars>>

Migrate(p) ==
    /\ state[p] = "migrating"
    /\ ReadApplied(p, version[p]) \/ ApplyNext(p, version[p])
    /\ UNCHANGED <<state, version, files, install, counts, history, toolVars>>

(* A launcher that cannot migrate ends; the desktop app puts its backup    *)
(* back, or removes the database if it finds that it made one.             *)
FailLaunch(p) ==
    /\ state[p] = "migrating"
    /\ MigrationFails(p, version[p])
    /\ To(p, "gone")
    /\ IF p \in Desktop
       THEN Replace(p, copy[p]) /\ lock' = Nobody /\ pidFile' = Nobody
       ELSE Disconnect(p) /\ UNCHANGED <<schema, rows, copy>> /\ UNCHANGED files
    /\ UNCHANGED <<version, install, installs, history, toolVars>>

(* InstanceLock.__enter__ of a launcher; the loser opens the winner's URL. *)
\* Mutant: the pid file decides who is running
EnterByPidFile(p) ==
    /\ state[p] = "migrating" /\ Migrated(p, version[p])
    /\ \/ pidFile = Nobody /\ p \notin Desktop /\ To(p, "serving") /\ lock' = p /\ pidFile' = p
       \/ pidFile # Nobody /\ p \notin Desktop /\ To(p, "gone") /\ UNCHANGED files
       \/ p \in Desktop /\ To(p, "serving") /\ UNCHANGED files
    /\ Disconnect(p)
    /\ UNCHANGED <<version, schema, rows, copy, install, counts, history, toolVars>>

Enter(p) ==
    /\ state[p] = "migrating" /\ Migrated(p, version[p])
    /\ \/ lock = Nobody /\ To(p, "serving") /\ lock' = p /\ pidFile' = p
       \/ lock = p /\ To(p, "serving") /\ UNCHANGED files
       \/ lock \notin {Nobody, p} /\ To(p, "gone") /\ UNCHANGED files
    /\ Disconnect(p)
    /\ UNCHANGED <<version, schema, rows, copy, install, counts, history, toolVars>>

(* A request opens the database, migrations included, and then writes. *)
OpenRequest(p) ==
    /\ state[p] = "serving" /\ conn[p] = "none" /\ schema <= version[p] /\ saved # Row
    /\ conn' = [conn EXCEPT ![p] = "live"]
    /\ schema' = version[p]
    /\ UNCHANGED <<state, version, files, rows, seen, copy, install, counts, history, toolVars>>

Write(p, r) ==
    /\ state[p] \in {"serving", "quitting"} /\ conn[p] # "none" /\ r \notin saved
    /\ conn' = [conn EXCEPT ![p] = "none"]
    /\ rows' = IF conn[p] = "live" THEN rows \cup {r} ELSE rows
    /\ saved' = saved \cup {r}
    /\ mixed' = (mixed \/ (conn[p] = "live" /\ schema # version[p]))
    /\ UNCHANGED <<state, version, files, schema, seen, copy, install, counts, before, halfway, toolVars>>

(* The owner of the tool call is the server that holds the lock. *)
UseTool ==
    /\ \E p \in Proc : state[p] = "serving" /\ Start
    /\ UNCHANGED shellVars

ToolMoves ==
    /\ Poll \/ Check \/ Terminate \/ Grace \/ Kill \/ Reap \/ Finish \/ ToolWorld
    /\ UNCHANGED shellVars

SetToken == wanted' = (wanted \/ runner \in {"poll", "check"})

(* The user quits, or SIGTERM: shutdown cancels the jobs and their tool.   *)
AskToQuit(p) ==
    /\ To(p, "quitting")
    /\ SetToken
    /\ UNCHANGED <<runner, group, stubborn, exitCode, expired, stopped, result, scratch>>

Quit(p) ==
    /\ state[p] = "serving"
    /\ AskToQuit(p)
    /\ UNCHANGED <<version, files, database, install, counts, history>>

(* InstanceLock.__exit__, after the workers have drained.  Uvicorn raises a *)
(* SIGTERM again when it has shut down: only the desktop app has a handler  *)
(* for it, a launcher then ends without __exit__.                           *)
Leave(p) ==
    /\ state[p] = "quitting" /\ conn[p] = "none" /\ runner \notin Running
    /\ To(p, "gone")
    /\ lock' = Nobody
    /\ pidFile' = Nobody \/ (p \notin Desktop /\ UNCHANGED pidFile)
    /\ UNCHANGED <<version, database, install, counts, history, toolVars>>

(* The process dies: the kernel drops its lock, the files stay. *)
Vanish(p) ==
    /\ To(p, "gone")
    /\ lock' = IF lock = p THEN Nobody ELSE lock
    /\ conn' = [conn EXCEPT ![p] = "none"]
    /\ IF state[p] \in {"serving", "quitting"} THEN Abandon ELSE UNCHANGED toolVars

CrashServer(p) ==
    /\ Live(p) /\ faults < MaxFaults
    /\ faults' = faults + 1
    /\ Vanish(p)
    /\ UNCHANGED <<version, pidFile, schema, rows, seen, copy, install, installs, history>>

-----------------------------------------------------------------------------
(* install_release: the release directory is staged and renamed into place *)
(* (or one of the same name is validated and reused); then the server is   *)
(* stopped.  uninstall_application begins by stopping it too.              *)
Begin(o, v) ==
    /\ step = "idle" /\ installs < MaxInstalls
    /\ installs' = installs + 1
    /\ op' = o /\ target' = v /\ previous' = current
    /\ releases' = IF o = "install" THEN releases \cup {v} ELSE releases
    /\ step' = "stop" /\ outcome' = "none"
    /\ UNCHANGED <<state, version, files, database, current, existed, victim, faults, history,
                   toolVars>>

(* stop_running_instance: no pid file, nobody is running; a pid that is    *)
(* dead or not a launcher's is only forgotten; a launcher gets SIGTERM.    *)
StopLook ==
    /\ step = "stop"
    /\ IF pidFile = Nobody \/ pidFile \in Desktop \/ (pidFile \in Proc /\ ~Live(pidFile))
       THEN /\ step' = "exists" /\ pidFile' = Nobody
            /\ UNCHANGED <<state, victim, toolVars>>
       ELSE /\ step' = "wait" /\ victim' = pidFile
            /\ AskToQuit(pidFile)
            /\ UNCHANGED pidFile
    /\ UNCHANGED <<version, lock, database, releases, current, op, target, previous, existed,
                   outcome, counts, history>>

(* Five seconds for it to go, then SIGKILL. *)
StopWait ==
    /\ step = "wait"
    /\ step' = "unlink"
    /\ IF Live(victim)
       THEN Vanish(victim)
       ELSE UNCHANGED <<state, lock, conn, toolVars>>
    /\ UNCHANGED <<version, pidFile, schema, rows, seen, copy, releases, current, op, target,
                   previous, existed, victim, outcome, counts, history>>

(* The files of the stopped process are removed whoever wrote them last. *)
StopUnlink ==
    /\ step = "unlink"
    /\ step' = "exists" /\ pidFile' = Nobody
    /\ UNCHANGED <<state, version, lock, database, releases, current, op, target, previous,
                   existed, victim, outcome, counts, history, toolVars>>

CheckDatabase ==
    /\ step = "exists" /\ op = "install"
    /\ step' = "backup" /\ existed' = (schema # 0)
    /\ before' = [schema |-> schema, rows |-> rows]
    /\ UNCHANGED <<state, version, files, database, releases, current, op, target, previous,
                   victim, outcome, counts, saved, halfway, mixed, toolVars>>

\* Mutant: the backup is taken after the migrations
BackUpLate ==
    /\ step = "backup"
    /\ step' = "migrate"
    /\ copy' = [copy EXCEPT ![Installer] = [schema |-> target, rows |-> rows]]
    /\ UNCHANGED <<state, version, files, schema, rows, seen, conn, releases, current, op, target,
                   previous, existed, victim, outcome, counts, history, toolVars>>

BackUp ==
    /\ step = "backup"
    /\ step' = "migrate"
    /\ copy' = [copy EXCEPT ![Installer] = [schema |-> schema, rows |-> rows]]
    /\ UNCHANGED <<state, version, files, schema, rows, seen, conn, releases, current, op, target,
                   previous, existed, victim, outcome, counts, history, toolVars>>

MigrateInstalled ==
    /\ step = "migrate"
    /\ \/ /\ ReadApplied(Installer, target) \/ ApplyNext(Installer, target)
          /\ UNCHANGED step
       \/ /\ Migrated(Installer, target)
          /\ Disconnect(Installer) /\ step' = "activate"
          /\ UNCHANGED <<schema, rows, copy>>
    /\ UNCHANGED <<state, version, files, releases, current, op, target, previous, existed, victim,
                   outcome, counts, history, toolVars>>

FailMigration ==
    /\ step = "migrate"
    /\ MigrationFails(Installer, target)
    /\ step' = "restore"
    /\ UNCHANGED <<state, version, files, database, releases, current, op, target, previous,
                   existed, victim, outcome, installs, history, toolVars>>

(* The backup replaces the database; with neither a backup nor an earlier  *)
(* database what the migrations made is removed.  The staged release goes  *)
(* unless it is the one in use.                                            *)
\* Mutant: only a database the update created is undone
RollBackNew ==
    /\ step = "restore"
    /\ IF ~existed
       THEN Replace(Installer, copy[Installer])
       ELSE Disconnect(Installer) /\ UNCHANGED <<schema, rows, copy>>
    /\ releases' = IF previous = target THEN releases ELSE releases \ {target}
    /\ step' = "idle" /\ outcome' = "failed"
    /\ UNCHANGED <<state, version, files, current, op, target, previous, existed, victim, counts,
                   history, toolVars>>

RollBack ==
    /\ step = "restore"
    /\ IF copy[Installer] # Absent \/ ~existed
       THEN Replace(Installer, copy[Installer])
       ELSE Disconnect(Installer) /\ UNCHANGED <<schema, rows, copy>>
    /\ releases' = IF previous = target THEN releases ELSE releases \ {target}
    /\ step' = "idle" /\ outcome' = "failed"
    /\ UNCHANGED <<state, version, files, current, op, target, previous, existed, victim, counts,
                   history, toolVars>>

Activate ==
    /\ step = "activate"
    /\ current' = target
    /\ step' = "idle" /\ outcome' = "installed" /\ halfway' = FALSE
    /\ UNCHANGED <<state, version, files, database, releases, op, target, previous, existed,
                   victim, counts, saved, before, mixed, toolVars>>

(* uninstall_application: the workspace stays. *)
Remove ==
    /\ step = "exists" /\ op = "uninstall"
    /\ current' = 0 /\ releases' = {} /\ pidFile' = Nobody
    /\ step' = "idle" /\ outcome' = "removed"
    /\ UNCHANGED <<state, version, lock, database, op, target, previous, existed, victim, counts,
                   history, toolVars>>

CrashInstaller ==
    /\ step # "idle" /\ faults < MaxFaults
    /\ faults' = faults + 1
    /\ step' = "idle" /\ outcome' = "crashed" /\ halfway' = TRUE
    /\ Disconnect(Installer)
    /\ UNCHANGED <<state, version, files, schema, rows, copy, releases, current, op, target,
                   previous, existed, victim, installs, saved, before, mixed,
                   toolVars>>

-----------------------------------------------------------------------------
Serve(p) == OpenRequest(p) \/ (\E r \in Row : Write(p, r)) \/ Quit(p) \/ Leave(p) \/ CrashServer(p)
Open(p) == Launch(p) \/ OpenDesktop(p) \/ BackUpDesktop(p) \/ Migrate(p) \/ FailLaunch(p) \/ Enter(p)
InstallStep ==
    \/ \E o \in {"install", "uninstall"}, v \in Release : Begin(o, v)
    \/ StopLook \/ StopWait \/ StopUnlink \/ CheckDatabase \/ BackUp \/ MigrateInstalled
    \/ FailMigration \/ RollBack \/ Activate \/ Remove \/ CrashInstaller

Next ==
    \/ /\ (\E p \in Proc : Open(p) \/ Serve(p)) \/ InstallStep
       /\ disturbed' = (disturbed \/ (step' \in Window /\ \E p \in Proc : state'[p] \notin {"off", "gone"}))
    \/ UseTool
    \/ ToolMoves

Spec == Init /\ [][Next]_vars /\ ToolFairness

-----------------------------------------------------------------------------
TypeOK ==
    /\ state \in [Proc -> {"off", "backing", "migrating", "serving", "quitting", "gone"}]
    /\ lock \in Proc \cup {Nobody} /\ pidFile \in Proc \cup {Nobody}
    /\ schema \in Nat /\ rows \subseteq saved /\ saved \subseteq Row
    /\ seen \in [Migrator -> Nat \cup {-1}] /\ conn \in [Migrator -> {"none", "live", "lost"}]
    /\ releases \subseteq Release /\ current \in releases \cup {0}
    /\ runner \in Running \cup {"idle", "done", "dead"} /\ group \subseteq Tool

(* Two processes never serve one workspace, whatever pid files say, however *)
(* processes die and whichever kind of application is opened.              *)
OneServer == \A p, q \in Proc :
    {state[p], state[q]} \subseteq {"serving", "quitting"} => p = q

(* A row a user was told is saved stays in the database through updates,   *)
(* rollbacks, failed starts and crashes, as long as nothing was running    *)
(* while an update had the database.                                       *)
SavedRowsSurvive == ~disturbed => saved \subseteq rows

(* A failed update leaves the database and the release as they were.       *)
FailedUpdateChangesNothing ==
    [][(step = "restore" /\ step' = "idle" /\ outcome' = "failed" /\ ~disturbed) =>
            /\ [schema |-> schema', rows |-> rows'] = before
            /\ current' = previous /\ current' \in releases' \cup {0}]_vars

(* When the installer is idle the release behind the stable launcher can   *)
(* open the workspace, unless the last update died halfway or was not      *)
(* alone, or the desktop app is newer.                                     *)
CurrentOpensWorkspace ==
    (step = "idle" /\ DesktopVersion <= current /\ ~halfway /\ ~disturbed) =>
        schema <= current

(* Once stop_running_instance has returned the process it signaled is gone, *)
(* wedged or not.                                                          *)
StoppedIsGone == (step \in Window /\ victim # Nobody) => ~Live(victim)

(* Processes, files and tools are where the shell believes them to be.     *)
ShellInv ==
    /\ TypeOK
    /\ OneServer
    /\ SavedRowsSurvive
    /\ StoppedIsGone
    /\ NothingLeft
    /\ KilledTreeIsGone
    /\ GoodOnlyIfFinished

(* macos-local-app.md, step 4: two application schemas can never write one *)
(* workspace.  Fails: nothing keeps a user from starting the old release   *)
(* between the stop and the migrations.                                    *)
NoMixedSchemas == ~mixed

(* macos-local-app.md: a stale state file is harmless.  A missing one is   *)
(* not: the installer finds the server only through it, and its unlink can *)
(* remove the file of a server that has just started.                      *)
ServerIsFindable == \A p \in Proc : state[p] = "serving" => pidFile = p
=============================================================================
