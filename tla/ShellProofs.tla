----------------------------- MODULE ShellProofs ----------------------------
(***************************************************************************)
(* The installed application, for every set of processes, releases and     *)
(* rows and any number of installations and faults.                        *)
(*                                                                         *)
(* The argument rests on who may run when.  The flock has one holder, the  *)
(* pid file of a launcher is written by a serving one, and the process the *)
(* installer has signaled is the one that holds both; so once the server   *)
(* has been stopped it is gone.  An update that nobody disturbed is alone  *)
(* with the database: its copy is what it found, the schema is what it     *)
(* has applied, and what it restores is complete.  A desktop app that      *)
(* migrates holds the flock, so no row is saved behind its backup.         *)
(***************************************************************************)
EXTENDS MacShell, TLAPS

Steps == {"idle", "stop", "wait", "unlink"} \cup Window
States == {"off", "backing", "migrating", "serving", "quitting", "gone"}
Database == [schema : Nat, rows : SUBSET saved]

\* Types of all that the shell keeps.
ShellTypes ==
    /\ state \in [Proc -> States]
    /\ version \in [Proc -> Release \cup {0}]
    /\ lock \in Proc \cup {Nobody} /\ pidFile \in Proc \cup {Nobody}
    /\ victim \in (Proc \ Desktop) \cup {Nobody}
    /\ schema \in Nat /\ rows \subseteq saved /\ saved \subseteq Row
    /\ seen \in [Migrator -> Nat \cup {-1}] /\ conn \in [Migrator -> {"none", "live", "lost"}]
    /\ copy \in [Migrator -> Database] /\ before \in Database
    /\ releases \subseteq Release /\ current \in releases \cup {0}
    /\ step \in Steps /\ op \in {"install", "uninstall"} /\ target \in Release \cup {0}
    /\ previous \in Release \cup {0} /\ existed \in BOOLEAN
    /\ outcome \in {"none", "installed", "removed", "failed", "crashed"}
    /\ disturbed \in BOOLEAN /\ halfway \in BOOLEAN

\* The states in which a process has the flock.
Locked(p) ==
    \/ state[p] \in {"backing", "serving", "quitting"}
    \/ state[p] = "migrating" /\ p \in Desktop

\* The flock has one holder; a launcher is named by the pid file only once it serves.
LocksFit ==
    /\ \A p \in Proc : Locked(p) => lock = p
    /\ \A p \in Proc : state[p] = "backing" => p \in Desktop
    /\ \A p \in Proc \ Desktop : state[p] \in {"off", "migrating"} => pidFile # p

\* A signaled process that still lives is found again by the next installation.
VictimFits == victim # Nobody =>
    /\ state[victim] # "off"
    /\ Live(victim) => /\ state[victim] = "quitting" /\ pidFile = victim
                       /\ step \in {"idle", "stop", "wait"}

\* An undisturbed update is alone with the database.
AloneFits == step \in Window /\ ~disturbed => \A p \in Proc : ~Live(p)

\* What an installation knows of the release, the database and its copy.
UpdateFits ==
    /\ step # "idle" => previous = current
    /\ step # "idle" /\ op = "install" => target \in releases
    /\ step \in Window \ {"exists"} => op = "install"
    /\ step \notin {"migrate", "restore"} => seen[Installer] = -1
    /\ step \in {"backup", "migrate", "restore"} => existed = (before.schema # 0)
    /\ ~disturbed =>
        /\ step = "backup" => schema = before.schema /\ rows = before.rows
        /\ step \in {"migrate", "restore"} => copy[Installer] = before
        /\ step = "migrate" /\ seen[Installer] # -1 =>
              conn[Installer] = "live" /\ schema = seen[Installer]
        /\ step = "activate" => schema = target

\* Rows acknowledged to a user are in the database and in every copy that may replace it.
RowsFit == ~disturbed =>
    /\ saved \subseteq rows
    /\ step \in {"migrate", "restore"} => saved \subseteq copy[Installer].rows
    /\ \A p \in Desktop : state[p] = "migrating" => saved \subseteq copy[p].rows
    /\ \A p \in Proc : state[p] \in {"serving", "quitting"} => conn[p] # "lost"

\* Nothing that runs or may be restored is newer than the current release.
OpensFit == ~disturbed /\ DesktopVersion <= current =>
    /\ \A p \in Proc : Live(p) => version[p] <= current
    /\ ~halfway =>
        /\ step \notin {"migrate", "restore", "activate"} => schema <= current
        /\ step \in {"migrate", "restore"} => copy[Installer].schema <= current
        /\ \A p \in Desktop : state[p] = "migrating" => copy[p].schema <= current

\* The tool call.  A main process that is gone does not come back.
ToolFits ==
    /\ runner \in Running \cup {"idle", "done", "dead"} /\ group \subseteq Tool
    /\ exitCode \in {"none", "ok", "error", "signal"} /\ stopped \in {"no", "canceled", "timeout"}
    /\ "leader" \in group => exitCode = "none"
    /\ "leader" \in group => runner \in Running \cup {"dead"} /\ result = "none"
    /\ runner = "idle" => exitCode = "none" /\ group = {}
    /\ runner \in {"idle", "done"} => ~scratch
    /\ runner \in Running \ {"finish"} => result = "none"
    /\ runner = "idle" => result = "none"
    /\ runner = "finish" => "leader" \notin group
    /\ result = "ok" => exitCode = "ok" /\ stopped = "no"
    /\ exitCode = "signal" /\ "leader" \in stubborn => group = {}

\* The inductive invariant.
ShellIInv ==
    /\ ShellTypes /\ LocksFit /\ VictimFits /\ AloneFits
    /\ UpdateFits /\ RowsFit /\ OpensFit /\ ToolFits

-----------------------------------------------------------------------------
(* A step of the shell: of a process, or of the installer.                 *)
ShellStep == (\E p \in Proc : Open(p) \/ Serve(p)) \/ InstallStep

Disturbs ==
    disturbed' = (disturbed \/
        (step' \in Window /\ \E p \in Proc : state'[p] \notin {"off", "gone"}))

\* Every step keeps the types.
LEMMA TypesStep ==
    ASSUME ShellTypes, LocksFit, UpdateFits, ShellStep, disturbed' \in BOOLEAN
    PROVE  ShellTypes'
<1> USE ReleaseAssumption, NameAssumption DEF ShellTypes, LocksFit, Locked, UpdateFits,
        Steps, States, Window, Migrator, Database, Absent, files, database, install, counts,
        history
<1>1. ASSUME NEW p \in Proc, Launch(p) PROVE ShellTypes'
    BY <1>1 DEF Launch, To
<1>2. ASSUME NEW p \in Proc, OpenDesktop(p) PROVE ShellTypes'
    BY <1>2, SMTT(40) DEF OpenDesktop, To
<1>3. ASSUME NEW p \in Proc, BackUpDesktop(p) PROVE ShellTypes'
    BY <1>3 DEF BackUpDesktop, To
<1>4. ASSUME NEW p \in Proc, Migrate(p) PROVE ShellTypes'
    BY <1>4 DEF Migrate, ReadApplied, ApplyNext
<1>5. ASSUME NEW p \in Proc, FailLaunch(p) PROVE ShellTypes'
    BY <1>5 DEF FailLaunch, To, Replace, Detached, Disconnect, MigrationFails, Refused
<1>6. ASSUME NEW p \in Proc, Enter(p) PROVE ShellTypes'
    BY <1>6 DEF Enter, To, Migrated, Disconnect
<1>7. ASSUME NEW p \in Proc, OpenRequest(p) PROVE ShellTypes'
    BY <1>7 DEF OpenRequest
<1>8. ASSUME NEW p \in Proc, NEW r \in Row, Write(p, r) PROVE ShellTypes'
    BY <1>8 DEF Write
<1>9. ASSUME NEW p \in Proc, Quit(p) PROVE ShellTypes'
    BY <1>9 DEF Quit, AskToQuit, To
<1>10. ASSUME NEW p \in Proc, Leave(p) PROVE ShellTypes'
    BY <1>10 DEF Leave, To
<1>11. ASSUME NEW p \in Proc, CrashServer(p) PROVE ShellTypes'
    BY <1>11 DEF CrashServer, Vanish, To, Live
<1>12. ASSUME NEW o \in {"install", "uninstall"}, NEW v \in Release, Begin(o, v) PROVE ShellTypes'
    BY <1>12 DEF Begin
<1>13. CASE StopLook
    BY <1>13 DEF StopLook, AskToQuit, To, Live
<1>14. CASE StopWait
    BY <1>14 DEF StopWait, Vanish, To, Live
<1>15. CASE StopUnlink
    BY <1>15 DEF StopUnlink
<1>16. CASE CheckDatabase
    BY <1>16 DEF CheckDatabase
<1>17. CASE BackUp
    BY <1>17 DEF BackUp
<1>18. CASE MigrateInstalled
    BY <1>18 DEF MigrateInstalled, ReadApplied, ApplyNext, Migrated, Disconnect
<1>19. CASE FailMigration
    BY <1>19 DEF FailMigration, MigrationFails, Refused
<1>20. CASE RollBack
    BY <1>20 DEF RollBack, Replace, Detached, Disconnect
<1>21. CASE Activate
    BY <1>21 DEF Activate
<1>22. CASE Remove
    BY <1>22 DEF Remove
<1>23. CASE CrashInstaller
    BY <1>23 DEF CrashInstaller, Disconnect
<1>q. QED
    BY <1>1, <1>2, <1>3, <1>4, <1>5, <1>6, <1>7, <1>8, <1>9, <1>10, <1>11, <1>12, <1>13,
       <1>14, <1>15, <1>16, <1>17, <1>18, <1>19, <1>20, <1>21, <1>22, <1>23 DEF ShellStep,
       Open, Serve, InstallStep

\* The flock is taken by one process before it serves and left when it ends.
LEMMA LocksStep ==
    ASSUME ShellTypes, LocksFit, VictimFits, ShellStep
    PROVE  LocksFit'
<1> USE NameAssumption DEF ShellTypes, LocksFit, Locked, VictimFits, States, files,
        database, install, counts, history
<1>1. ASSUME NEW p \in Proc, Launch(p) PROVE LocksFit'
    BY <1>1 DEF Launch, To
<1>2. ASSUME NEW p \in Proc, OpenDesktop(p) PROVE LocksFit'
    BY <1>2 DEF OpenDesktop, To
<1>3. ASSUME NEW p \in Proc, BackUpDesktop(p) PROVE LocksFit'
    BY <1>3 DEF BackUpDesktop, To
<1>4. ASSUME NEW p \in Proc, Migrate(p) PROVE LocksFit'
    BY <1>4 DEF Migrate, ReadApplied, ApplyNext
<1>5. ASSUME NEW p \in Proc, FailLaunch(p) PROVE LocksFit'
    BY <1>5 DEF FailLaunch, To, Replace, Detached, Disconnect, MigrationFails, Refused
<1>6. ASSUME NEW p \in Proc, Enter(p) PROVE LocksFit'
    BY <1>6 DEF Enter, To, Migrated, Disconnect
<1>7. ASSUME NEW p \in Proc, OpenRequest(p) PROVE LocksFit'
    BY <1>7 DEF OpenRequest
<1>8. ASSUME NEW p \in Proc, NEW r \in Row, Write(p, r) PROVE LocksFit'
    BY <1>8 DEF Write
<1>9. ASSUME NEW p \in Proc, Quit(p) PROVE LocksFit'
    BY <1>9 DEF Quit, AskToQuit, To
<1>10. ASSUME NEW p \in Proc, Leave(p) PROVE LocksFit'
    BY <1>10 DEF Leave, To
<1>11. ASSUME NEW p \in Proc, CrashServer(p) PROVE LocksFit'
    BY <1>11 DEF CrashServer, Vanish, To, Live
<1>12. ASSUME NEW o \in {"install", "uninstall"}, NEW v \in Release, Begin(o, v) PROVE LocksFit'
    BY <1>12 DEF Begin
<1>13. CASE StopLook
    BY <1>13 DEF StopLook, AskToQuit, To, Live
<1>14. CASE StopWait
    BY <1>14 DEF StopWait, Vanish, To, Live
<1>15. CASE StopUnlink
    BY <1>15 DEF StopUnlink
<1>16. CASE CheckDatabase
    BY <1>16 DEF CheckDatabase
<1>17. CASE BackUp
    BY <1>17 DEF BackUp
<1>18. CASE MigrateInstalled
    BY <1>18 DEF MigrateInstalled, ReadApplied, ApplyNext, Migrated, Disconnect
<1>19. CASE FailMigration
    BY <1>19 DEF FailMigration, MigrationFails, Refused
<1>20. CASE RollBack
    BY <1>20 DEF RollBack, Replace, Detached, Disconnect
<1>21. CASE Activate
    BY <1>21 DEF Activate
<1>22. CASE Remove
    BY <1>22 DEF Remove
<1>23. CASE CrashInstaller
    BY <1>23 DEF CrashInstaller, Disconnect
<1>q. QED
    BY <1>1, <1>2, <1>3, <1>4, <1>5, <1>6, <1>7, <1>8, <1>9, <1>10, <1>11, <1>12, <1>13,
       <1>14, <1>15, <1>16, <1>17, <1>18, <1>19, <1>20, <1>21, <1>22, <1>23 DEF ShellStep,
       Open, Serve, InstallStep

\* A process that was signaled goes; an installer that finds no pid file has none to wait for.
LEMMA VictimStep ==
    ASSUME ShellTypes, LocksFit, VictimFits, ShellStep
    PROVE  VictimFits'
<1> USE NameAssumption DEF ShellTypes, LocksFit, Locked, VictimFits, States, Live, Window,
        Steps, files, database, install, counts, history
<1>1. ASSUME NEW p \in Proc, Launch(p) PROVE VictimFits'
    BY <1>1 DEF Launch, To
<1>2. ASSUME NEW p \in Proc, OpenDesktop(p) PROVE VictimFits'
    BY <1>2 DEF OpenDesktop, To
<1>3. ASSUME NEW p \in Proc, BackUpDesktop(p) PROVE VictimFits'
    BY <1>3 DEF BackUpDesktop, To
<1>4. ASSUME NEW p \in Proc, Migrate(p) PROVE VictimFits'
    BY <1>4 DEF Migrate, ReadApplied, ApplyNext
<1>5. ASSUME NEW p \in Proc, FailLaunch(p) PROVE VictimFits'
    BY <1>5 DEF FailLaunch, To, Replace, Detached, Disconnect, MigrationFails, Refused
<1>6. ASSUME NEW p \in Proc, Enter(p) PROVE VictimFits'
    BY <1>6 DEF Enter, To, Migrated, Disconnect
<1>7. ASSUME NEW p \in Proc, OpenRequest(p) PROVE VictimFits'
    BY <1>7 DEF OpenRequest
<1>8. ASSUME NEW p \in Proc, NEW r \in Row, Write(p, r) PROVE VictimFits'
    BY <1>8 DEF Write
<1>9. ASSUME NEW p \in Proc, Quit(p) PROVE VictimFits'
    BY <1>9 DEF Quit, AskToQuit, To
<1>10. ASSUME NEW p \in Proc, Leave(p) PROVE VictimFits'
    BY <1>10 DEF Leave, To
<1>11. ASSUME NEW p \in Proc, CrashServer(p) PROVE VictimFits'
    BY <1>11 DEF CrashServer, Vanish, To, Live
<1>12. ASSUME NEW o \in {"install", "uninstall"}, NEW v \in Release, Begin(o, v) PROVE VictimFits'
    BY <1>12 DEF Begin
<1>13. CASE StopLook
    BY <1>13 DEF StopLook, AskToQuit, To, Live
<1>14. CASE StopWait
    BY <1>14 DEF StopWait, Vanish, To, Live
<1>15. CASE StopUnlink
    BY <1>15 DEF StopUnlink
<1>16. CASE CheckDatabase
    BY <1>16 DEF CheckDatabase
<1>17. CASE BackUp
    BY <1>17 DEF BackUp
<1>18. CASE MigrateInstalled
    BY <1>18 DEF MigrateInstalled, ReadApplied, ApplyNext, Migrated, Disconnect
<1>19. CASE FailMigration
    BY <1>19 DEF FailMigration, MigrationFails, Refused
<1>20. CASE RollBack
    BY <1>20 DEF RollBack, Replace, Detached, Disconnect
<1>21. CASE Activate
    BY <1>21 DEF Activate
<1>22. CASE Remove
    BY <1>22 DEF Remove
<1>23. CASE CrashInstaller
    BY <1>23 DEF CrashInstaller, Disconnect
<1>q. QED
    BY <1>1, <1>2, <1>3, <1>4, <1>5, <1>6, <1>7, <1>8, <1>9, <1>10, <1>11, <1>12, <1>13,
       <1>14, <1>15, <1>16, <1>17, <1>18, <1>19, <1>20, <1>21, <1>22, <1>23 DEF ShellStep,
       Open, Serve, InstallStep

\* As long as no update was disturbed, nobody runs while one has the database.
LEMMA AloneStep ==
    ASSUME Disturbs, ShellTypes
    PROVE  AloneFits'
BY DEF Disturbs, AloneFits, Live, ShellTypes

\* What an update has read and copied stays what the database was.
LEMMA UpdateStep ==
    ASSUME ShellTypes, LocksFit, VictimFits, AloneFits, UpdateFits, RowsFit, OpensFit,
           Disturbs, ShellStep, ShellTypes', AloneFits'
    PROVE  UpdateFits'
<1> USE NameAssumption, ReleaseAssumption DEF ShellTypes, UpdateFits, Migrator, Absent,
        Live, Window, Steps, Disturbs, AloneFits, files, database, install, counts, history
<1>1. ASSUME NEW p \in Proc, Launch(p) PROVE UpdateFits'
    BY <1>1 DEF Launch, To
<1>2. ASSUME NEW p \in Proc, OpenDesktop(p) PROVE UpdateFits'
    BY <1>2 DEF OpenDesktop, To
<1>3. ASSUME NEW p \in Proc, BackUpDesktop(p) PROVE UpdateFits'
    BY <1>3 DEF BackUpDesktop, To
<1>4. ASSUME NEW p \in Proc, Migrate(p) PROVE UpdateFits'
    BY <1>4 DEF Migrate, ReadApplied, ApplyNext
<1>5. ASSUME NEW p \in Proc, FailLaunch(p) PROVE UpdateFits'
    BY <1>5 DEF FailLaunch, To, Replace, Detached, Disconnect, MigrationFails, Refused
<1>6. ASSUME NEW p \in Proc, Enter(p) PROVE UpdateFits'
    BY <1>6 DEF Enter, To, Migrated, Disconnect
<1>7. ASSUME NEW p \in Proc, OpenRequest(p) PROVE UpdateFits'
    BY <1>7 DEF OpenRequest
<1>8. ASSUME NEW p \in Proc, NEW r \in Row, Write(p, r) PROVE UpdateFits'
    BY <1>8 DEF Write
<1>9. ASSUME NEW p \in Proc, Quit(p) PROVE UpdateFits'
    BY <1>9 DEF Quit, AskToQuit, To
<1>10. ASSUME NEW p \in Proc, Leave(p) PROVE UpdateFits'
    BY <1>10 DEF Leave, To
<1>11. ASSUME NEW p \in Proc, CrashServer(p) PROVE UpdateFits'
    BY <1>11 DEF CrashServer, Vanish, To, Live
<1>12. ASSUME NEW o \in {"install", "uninstall"}, NEW v \in Release, Begin(o, v) PROVE UpdateFits'
    BY <1>12 DEF Begin
<1>13. CASE StopLook
    BY <1>13 DEF StopLook, AskToQuit, To, Live
<1>14. CASE StopWait
    BY <1>14 DEF StopWait, Vanish, To, Live
<1>15. CASE StopUnlink
    BY <1>15 DEF StopUnlink
<1>16. CASE CheckDatabase
    BY <1>16 DEF CheckDatabase
<1>17. CASE BackUp
  <2>1. before = [schema |-> before.schema, rows |-> before.rows]
    BY DEF ShellTypes, Database
  <2>2. copy'[Installer] = [schema |-> schema, rows |-> rows]
    BY <1>17 DEF BackUp, ShellTypes, Migrator
  <2>3. /\ step = "backup" /\ step' = "migrate"
        /\ UNCHANGED <<before, existed, seen, op, target, releases, previous, current>>
    BY <1>17 DEF BackUp, files, database, install, counts, history
  <2>4. ~disturbed' => ~disturbed
    BY DEF Disturbs
  <2> QED
    BY <2>1, <2>2, <2>3, <2>4 DEF UpdateFits, Window
<1>18. CASE MigrateInstalled
    BY <1>18 DEF MigrateInstalled, ReadApplied, ApplyNext, Migrated, Disconnect
<1>19. CASE FailMigration
    BY <1>19 DEF FailMigration, MigrationFails, Refused
<1>20. CASE RollBack
    BY <1>20 DEF RollBack, Replace, Detached, Disconnect
<1>21. CASE Activate
    BY <1>21 DEF Activate
<1>22. CASE Remove
    BY <1>22 DEF Remove
<1>23. CASE CrashInstaller
    BY <1>23 DEF CrashInstaller, Disconnect
<1>q. QED
    BY <1>1, <1>2, <1>3, <1>4, <1>5, <1>6, <1>7, <1>8, <1>9, <1>10, <1>11, <1>12, <1>13,
       <1>14, <1>15, <1>16, <1>17, <1>18, <1>19, <1>20, <1>21, <1>22, <1>23 DEF ShellStep,
       Open, Serve, InstallStep

\* A row that was acknowledged is in the database and in every copy that may replace it.
LEMMA RowsStep ==
    ASSUME ShellTypes, LocksFit, VictimFits, AloneFits, UpdateFits, RowsFit, OpensFit,
           Disturbs, ShellStep, ShellTypes', AloneFits'
    PROVE  RowsFit'
<1> USE NameAssumption, ReleaseAssumption DEF ShellTypes, RowsFit, UpdateFits, LocksFit,
        Locked, States, Migrator, Absent, Database, Live, Window, Steps, Disturbs,
        AloneFits, files, database, install, counts, history
<1>1. ASSUME NEW p \in Proc, Launch(p) PROVE RowsFit'
    BY <1>1 DEF Launch, To
<1>2. ASSUME NEW p \in Proc, OpenDesktop(p) PROVE RowsFit'
    BY <1>2 DEF OpenDesktop, To
<1>3. ASSUME NEW p \in Proc, BackUpDesktop(p) PROVE RowsFit'
    BY <1>3 DEF BackUpDesktop, To
<1>4. ASSUME NEW p \in Proc, Migrate(p) PROVE RowsFit'
    BY <1>4 DEF Migrate, ReadApplied, ApplyNext
<1>5. ASSUME NEW p \in Proc, FailLaunch(p) PROVE RowsFit'
    BY <1>5 DEF FailLaunch, To, Replace, Detached, Disconnect, MigrationFails, Refused
<1>6. ASSUME NEW p \in Proc, Enter(p) PROVE RowsFit'
  <2> SUFFICES ASSUME ~disturbed' PROVE RowsFit'
    OBVIOUS
  <2>0. ~disturbed
    OBVIOUS
  <2>1. saved' \subseteq rows'
    BY <1>6, <2>0 DEF Enter, To, Migrated, Disconnect
  <2>2. step' \in {"migrate", "restore"} => saved' \subseteq copy'[Installer].rows
    BY <1>6, <2>0 DEF Enter, To, Migrated, Disconnect
  <2>3. \A q \in Desktop : state'[q] = "migrating" => saved' \subseteq copy'[q].rows
    BY <1>6, <2>0 DEF Enter, To, Migrated, Disconnect
  <2>4. \A q \in Proc : state'[q] \in {"serving", "quitting"} => conn'[q] # "lost"
    BY <1>6, <2>0 DEF Enter, To, Migrated, Disconnect
  <2> QED
    BY <2>1, <2>2, <2>3, <2>4
<1>7. ASSUME NEW p \in Proc, OpenRequest(p) PROVE RowsFit'
    BY <1>7 DEF OpenRequest
<1>8. ASSUME NEW p \in Proc, NEW r \in Row, Write(p, r) PROVE RowsFit'
  <2> SUFFICES ASSUME ~disturbed' PROVE RowsFit'
    OBVIOUS
  <2>0. ~disturbed
    OBVIOUS
  <2>1. saved' \subseteq rows'
    BY <1>8, <2>0 DEF Write
  <2>2. step' \in {"migrate", "restore"} => saved' \subseteq copy'[Installer].rows
    BY <1>8, <2>0 DEF Write
  <2>3. \A q \in Desktop : state'[q] = "migrating" => saved' \subseteq copy'[q].rows
    BY <1>8, <2>0 DEF Write
  <2>4. \A q \in Proc : state'[q] \in {"serving", "quitting"} => conn'[q] # "lost"
    BY <1>8, <2>0 DEF Write
  <2> QED
    BY <2>1, <2>2, <2>3, <2>4
<1>9. ASSUME NEW p \in Proc, Quit(p) PROVE RowsFit'
    BY <1>9 DEF Quit, AskToQuit, To
<1>10. ASSUME NEW p \in Proc, Leave(p) PROVE RowsFit'
    BY <1>10 DEF Leave, To
<1>11. ASSUME NEW p \in Proc, CrashServer(p) PROVE RowsFit'
    BY <1>11 DEF CrashServer, Vanish, To, Live
<1>12. ASSUME NEW o \in {"install", "uninstall"}, NEW v \in Release, Begin(o, v) PROVE RowsFit'
    BY <1>12 DEF Begin
<1>13. CASE StopLook
  <2> SUFFICES ASSUME ~disturbed' PROVE RowsFit'
    OBVIOUS
  <2>0. ~disturbed
    OBVIOUS
  <2>1. saved' \subseteq rows'
    BY <1>13, <2>0 DEF StopLook, AskToQuit, To, Live
  <2>2. step' \in {"migrate", "restore"} => saved' \subseteq copy'[Installer].rows
    BY <1>13, <2>0 DEF StopLook, AskToQuit, To, Live
  <2>3. \A q \in Desktop : state'[q] = "migrating" => saved' \subseteq copy'[q].rows
    BY <1>13, <2>0 DEF StopLook, AskToQuit, To, Live
  <2>4. \A q \in Proc : state'[q] \in {"serving", "quitting"} => conn'[q] # "lost"
    BY <1>13, <2>0 DEF StopLook, AskToQuit, To, Live
  <2> QED
    BY <2>1, <2>2, <2>3, <2>4
<1>14. CASE StopWait
  <2> SUFFICES ASSUME ~disturbed' PROVE RowsFit'
    OBVIOUS
  <2>0. ~disturbed
    OBVIOUS
  <2>1. saved' \subseteq rows'
    BY <1>14, <2>0 DEF StopWait, Vanish, To, Live
  <2>2. step' \in {"migrate", "restore"} => saved' \subseteq copy'[Installer].rows
    BY <1>14, <2>0 DEF StopWait, Vanish, To, Live
  <2>3. \A q \in Desktop : state'[q] = "migrating" => saved' \subseteq copy'[q].rows
    BY <1>14, <2>0 DEF StopWait, Vanish, To, Live
  <2>4. \A q \in Proc : state'[q] \in {"serving", "quitting"} => conn'[q] # "lost"
    BY <1>14, <2>0 DEF StopWait, Vanish, To, Live
  <2> QED
    BY <2>1, <2>2, <2>3, <2>4
<1>15. CASE StopUnlink
    BY <1>15 DEF StopUnlink
<1>16. CASE CheckDatabase
    BY <1>16 DEF CheckDatabase
<1>17. CASE BackUp
    BY <1>17 DEF BackUp
<1>18. CASE MigrateInstalled
    BY <1>18 DEF MigrateInstalled, ReadApplied, ApplyNext, Migrated, Disconnect
<1>19. CASE FailMigration
    BY <1>19 DEF FailMigration, MigrationFails, Refused
<1>20. CASE RollBack
    BY <1>20 DEF RollBack, Replace, Detached, Disconnect
<1>21. CASE Activate
    BY <1>21 DEF Activate
<1>22. CASE Remove
    BY <1>22 DEF Remove
<1>23. CASE CrashInstaller
    BY <1>23 DEF CrashInstaller, Disconnect
<1>q. QED
    BY <1>1, <1>2, <1>3, <1>4, <1>5, <1>6, <1>7, <1>8, <1>9, <1>10, <1>11, <1>12, <1>13,
       <1>14, <1>15, <1>16, <1>17, <1>18, <1>19, <1>20, <1>21, <1>22, <1>23 DEF ShellStep,
       Open, Serve, InstallStep

\* Neither a migration nor a rollback takes the database past the current release.
LEMMA OpensStep ==
    ASSUME ShellTypes, LocksFit, VictimFits, AloneFits, UpdateFits, RowsFit, OpensFit,
           Disturbs, ShellStep, ShellTypes', AloneFits'
    PROVE  OpensFit'
<1> USE NameAssumption, ReleaseAssumption DEF ShellTypes, OpensFit, RowsFit, UpdateFits,
        LocksFit, Locked, Migrator, Absent, Database, Live, Window, Steps, Disturbs,
        AloneFits, files, database, install, counts, history
<1>1. ASSUME NEW p \in Proc, Launch(p) PROVE OpensFit'
    BY <1>1 DEF Launch, To
<1>2. ASSUME NEW p \in Proc, OpenDesktop(p) PROVE OpensFit'
    BY <1>2 DEF OpenDesktop, To
<1>3. ASSUME NEW p \in Proc, BackUpDesktop(p) PROVE OpensFit'
    BY <1>3 DEF BackUpDesktop, To
<1>4. ASSUME NEW p \in Proc, Migrate(p) PROVE OpensFit'
  <2> SUFFICES ASSUME ~disturbed', DesktopVersion <= current'
               PROVE  OpensFit'
    BY DEF OpensFit
  <2>0. ~disturbed
    BY DEF Disturbs
  <2>1. step \notin Window /\ Live(p)
    BY <1>4, <2>0 DEF Migrate, AloneFits, Live
  <2>6. version[p] \in Nat /\ current \in Nat
    <3>1. version[p] \in Release \cup {0} /\ current \in Release \cup {0}
      BY DEF ShellTypes
    <3>2. \A v \in Release \cup {0} : v \in Nat
      BY ReleaseAssumption
    <3> QED
      BY <3>1, <3>2
  <2>2. UNCHANGED <<state, version, step, current, copy, halfway>>
    BY <1>4 DEF Migrate, ReadApplied, ApplyNext, files, database, install, counts, history
  <2>3. version[p] <= current
    BY <1>4, <2>0, <2>1, <2>2 DEF OpensFit
  <2>4. schema' = schema \/ schema' <= version[p]
    <3>1. ReadApplied(p, version[p]) \/ ApplyNext(p, version[p])
      BY <1>4 DEF Migrate
    <3>2. schema \in Nat
      BY DEF ShellTypes
    <3>3. CASE ReadApplied(p, version[p])
      BY <3>3 DEF ReadApplied
    <3>4. CASE ApplyNext(p, version[p])
      BY <3>4, <3>2, <2>6 DEF ApplyNext
    <3> QED
      BY <3>1, <3>3, <3>4
  <2>5. schema' \in Nat
    BY DEF ShellTypes
  <2> QED
    BY <2>0, <2>1, <2>2, <2>3, <2>4, <2>5, <2>6 DEF OpensFit, Live, Window
<1>5. ASSUME NEW p \in Proc, FailLaunch(p) PROVE OpensFit'
    BY <1>5 DEF FailLaunch, To, Replace, Detached, Disconnect, MigrationFails, Refused
<1>6. ASSUME NEW p \in Proc, Enter(p) PROVE OpensFit'
    BY <1>6, SMTT(40) DEF Enter, To, Migrated, Disconnect
<1>7. ASSUME NEW p \in Proc, OpenRequest(p) PROVE OpensFit'
    BY <1>7 DEF OpenRequest
<1>8. ASSUME NEW p \in Proc, NEW r \in Row, Write(p, r) PROVE OpensFit'
    BY <1>8 DEF Write
<1>9. ASSUME NEW p \in Proc, Quit(p) PROVE OpensFit'
    BY <1>9 DEF Quit, AskToQuit, To
<1>10. ASSUME NEW p \in Proc, Leave(p) PROVE OpensFit'
    BY <1>10 DEF Leave, To
<1>11. ASSUME NEW p \in Proc, CrashServer(p) PROVE OpensFit'
    BY <1>11 DEF CrashServer, Vanish, To, Live
<1>12. ASSUME NEW o \in {"install", "uninstall"}, NEW v \in Release, Begin(o, v) PROVE OpensFit'
    BY <1>12 DEF Begin
<1>13. CASE StopLook
    BY <1>13 DEF StopLook, AskToQuit, To, Live
<1>14. CASE StopWait
    BY <1>14 DEF StopWait, Vanish, To, Live
<1>15. CASE StopUnlink
    BY <1>15 DEF StopUnlink
<1>16. CASE CheckDatabase
    BY <1>16 DEF CheckDatabase
<1>17. CASE BackUp
    BY <1>17 DEF BackUp
<1>18. CASE MigrateInstalled
    BY <1>18 DEF MigrateInstalled, ReadApplied, ApplyNext, Migrated, Disconnect
<1>19. CASE FailMigration
    BY <1>19 DEF FailMigration, MigrationFails, Refused
<1>20. CASE RollBack
    BY <1>20 DEF RollBack, Replace, Detached, Disconnect
<1>21. CASE Activate
    BY <1>21 DEF Activate
<1>22. CASE Remove
    BY <1>22 DEF Remove
<1>23. CASE CrashInstaller
    BY <1>23 DEF CrashInstaller, Disconnect
<1>q. QED
    BY <1>1, <1>2, <1>3, <1>4, <1>5, <1>6, <1>7, <1>8, <1>9, <1>10, <1>11, <1>12, <1>13,
       <1>14, <1>15, <1>16, <1>17, <1>18, <1>19, <1>20, <1>21, <1>22, <1>23 DEF ShellStep,
       Open, Serve, InstallStep

-----------------------------------------------------------------------------
(* The tool call: its own steps and those of the tool.                     *)
LEMMA ToolSteps ==
    ASSUME ToolFits, Call \/ ToolWorld
    PROVE  ToolFits'
<1> USE DEF ToolFits, Running, Tool
<1>1. CASE Start
    BY <1>1 DEF Start
<1>2. CASE Poll
    BY <1>2 DEF Poll, Go
<1>3. CASE Check
    BY <1>3 DEF Check
<1>4. CASE Terminate
    BY <1>4 DEF Terminate, Die
<1>5. CASE Grace
    BY <1>5 DEF Grace
<1>6. CASE Kill
    BY <1>6 DEF Kill, Die
<1>7. CASE Reap
    BY <1>7 DEF Reap, Outcome
<1>8. CASE Finish
    BY <1>8 DEF Finish
<1>9. CASE Fork
    BY <1>9 DEF Fork
<1>10. CASE CancelTool \/ Expire
  <2>1. UNCHANGED <<runner, group, stubborn, exitCode, stopped, result, scratch>>
    BY <1>10 DEF CancelTool, Expire
  <2> QED
    BY <2>1
<1>11. ASSUME NEW t \in Tool, NEW c \in {"ok", "error"}, Exit(t, c) PROVE ToolFits'
    BY <1>11 DEF Exit, Die
<1>q. QED
    BY <1>1, <1>2, <1>3, <1>4, <1>5, <1>6, <1>7, <1>8, <1>9, <1>10, <1>11 DEF Call, ToolWorld

\* A cancellation by the shell, or the end of the server, leaves the rest.
LEMMA ToolLeft ==
    ASSUME ToolFits,
           Abandon \/ UNCHANGED toolVars
           \/ UNCHANGED <<runner, group, stubborn, exitCode, expired, stopped, result, scratch>>
    PROVE  ToolFits'
BY DEF ToolFits, Abandon, toolVars, Running

\* No step of the shell does more to the call.
LEMMA ShellLeavesTool ==
    ASSUME ToolFits, ShellStep
    PROVE  ToolFits'
<1>1. ASSUME NEW p \in Proc, Launch(p) PROVE ToolFits'
    BY <1>1, ToolLeft DEF Launch
<1>2. ASSUME NEW p \in Proc, OpenDesktop(p) PROVE ToolFits'
    BY <1>2, ToolLeft DEF OpenDesktop
<1>3. ASSUME NEW p \in Proc, BackUpDesktop(p) PROVE ToolFits'
    BY <1>3, ToolLeft DEF BackUpDesktop
<1>4. ASSUME NEW p \in Proc, Migrate(p) PROVE ToolFits'
    BY <1>4, ToolLeft DEF Migrate
<1>5. ASSUME NEW p \in Proc, FailLaunch(p) PROVE ToolFits'
    BY <1>5, ToolLeft DEF FailLaunch
<1>6. ASSUME NEW p \in Proc, Enter(p) PROVE ToolFits'
    BY <1>6, ToolLeft DEF Enter
<1>7. ASSUME NEW p \in Proc, OpenRequest(p) PROVE ToolFits'
    BY <1>7, ToolLeft DEF OpenRequest
<1>8. ASSUME NEW p \in Proc, NEW r \in Row, Write(p, r) PROVE ToolFits'
    BY <1>8, ToolLeft DEF Write
<1>9. ASSUME NEW p \in Proc, Quit(p) PROVE ToolFits'
    BY <1>9, ToolLeft DEF Quit, AskToQuit
<1>10. ASSUME NEW p \in Proc, Leave(p) PROVE ToolFits'
    BY <1>10, ToolLeft DEF Leave
<1>11. ASSUME NEW p \in Proc, CrashServer(p) PROVE ToolFits'
    BY <1>11, ToolLeft DEF CrashServer, Vanish
<1>12. ASSUME NEW o \in {"install", "uninstall"}, NEW v \in Release, Begin(o, v) PROVE ToolFits'
    BY <1>12, ToolLeft DEF Begin
<1>13. CASE StopLook
    BY <1>13, ToolLeft DEF StopLook, AskToQuit
<1>14. CASE StopWait
    BY <1>14, ToolLeft DEF StopWait, Vanish
<1>15. CASE StopUnlink
    BY <1>15, ToolLeft DEF StopUnlink
<1>16. CASE CheckDatabase
    BY <1>16, ToolLeft DEF CheckDatabase
<1>17. CASE BackUp
    BY <1>17, ToolLeft DEF BackUp
<1>18. CASE MigrateInstalled
    BY <1>18, ToolLeft DEF MigrateInstalled
<1>19. CASE FailMigration
    BY <1>19, ToolLeft DEF FailMigration
<1>20. CASE RollBack
    BY <1>20, ToolLeft DEF RollBack
<1>21. CASE Activate
    BY <1>21, ToolLeft DEF Activate
<1>22. CASE Remove
    BY <1>22, ToolLeft DEF Remove
<1>23. CASE CrashInstaller
    BY <1>23, ToolLeft DEF CrashInstaller
<1>q. QED
    BY <1>1, <1>2, <1>3, <1>4, <1>5, <1>6, <1>7, <1>8, <1>9, <1>10, <1>11, <1>12, <1>13,
       <1>14, <1>15, <1>16, <1>17, <1>18, <1>19, <1>20, <1>21, <1>22, <1>23 DEF ShellStep,
       Open, Serve, InstallStep

-----------------------------------------------------------------------------
LEMMA InvInit == Init => ShellIInv
<1> SUFFICES ASSUME Init PROVE ShellIInv
    OBVIOUS
<1>0. /\ schema = current /\ schema \in Release \cup {0}
      /\ releases = {current} \ {0}
    BY DEF Init
<1>1. ShellTypes
  <2>1. state \in [Proc -> States] /\ version \in [Proc -> Release \cup {0}]
    BY DEF Init, States
  <2>2. schema \in Nat /\ current \in releases \cup {0} /\ releases \subseteq Release
    BY <1>0, ReleaseAssumption
  <2>3. copy \in [Migrator -> Database] /\ before \in Database
    BY DEF Init, Absent, Database
  <2>4. /\ seen \in [Migrator -> Nat \cup {-1}] /\ conn \in [Migrator -> {"none", "live", "lost"}]
        /\ target \in Release \cup {0} /\ previous \in Release \cup {0}
    BY DEF Init
  <2> QED
    BY <2>1, <2>2, <2>3, <2>4 DEF Init, ShellTypes, Steps
<1>2. LocksFit /\ VictimFits /\ AloneFits
    BY NameAssumption DEF Init, LocksFit, Locked, VictimFits, AloneFits, Window
<1>3. UpdateFits
    BY DEF Init, UpdateFits, Window, Migrator
<1>4. RowsFit
    BY DEF Init, RowsFit
<1>5. OpensFit
  <2>1. schema <= current
    BY <1>0, ReleaseAssumption
  <2>2. \A p \in Proc : ~Live(p)
    BY DEF Init, Live
  <2>3. step = "idle" /\ \A p \in Proc : state[p] # "migrating"
    BY DEF Init
  <2> QED
    BY <2>1, <2>2, <2>3, ReleaseAssumption DEF OpensFit
<1>6. ToolFits
    BY DEF Init, ToolInit, NoToolInit, ToolFits, Running
<1>q. QED
    BY <1>1, <1>2, <1>3, <1>4, <1>5, <1>6 DEF ShellIInv

LEMMA InvNext == ShellIInv /\ [Next]_vars => ShellIInv'
<1> SUFFICES ASSUME ShellIInv, [Next]_vars PROVE ShellIInv'
    OBVIOUS
<1> USE DEF ShellIInv
<1>1. ASSUME ShellStep, Disturbs PROVE ShellIInv'
  <2>1. disturbed' \in BOOLEAN
    BY <1>1 DEF Disturbs
  <2>2. ShellTypes'
    BY <1>1, <2>1, TypesStep
  <2>3. LocksFit' /\ VictimFits'
    BY <1>1, LocksStep, VictimStep
  <2>4. AloneFits'
    BY <1>1, <2>2, AloneStep
  <2>5. UpdateFits' /\ RowsFit' /\ OpensFit'
    BY <1>1, <2>2, <2>4, UpdateStep, RowsStep, OpensStep
  <2>6. ToolFits'
    BY <1>1, ShellLeavesTool
  <2> QED
    BY <2>2, <2>3, <2>4, <2>5, <2>6
<1>2. ASSUME UNCHANGED shellVars
      PROVE  (/\ ShellTypes /\ LocksFit /\ VictimFits /\ AloneFits
              /\ UpdateFits /\ RowsFit /\ OpensFit)'
  <2>1. (ShellTypes /\ LocksFit /\ VictimFits /\ AloneFits)'
    BY <1>2 DEF shellVars, files, database, install, counts, history, ShellTypes, Database,
       LocksFit, Locked, VictimFits, AloneFits, Live
  <2>2. (UpdateFits /\ RowsFit /\ OpensFit)'
    BY <1>2 DEF shellVars, files, database, install, counts, history, UpdateFits, RowsFit,
       OpensFit, Live
  <2> QED
    BY <2>1, <2>2
<1>3. CASE UseTool \/ ToolMoves
  <2>1. ToolFits'
    BY <1>3, ToolSteps DEF UseTool, ToolMoves, Call
  <2> QED
    BY <1>2, <1>3, <2>1 DEF UseTool, ToolMoves
<1>4. CASE UNCHANGED vars
    BY <1>2, <1>4, ToolLeft DEF vars
<1>q. QED
    BY <1>1, <1>3, <1>4 DEF Next, ShellStep, Disturbs

LEMMA InvHolds == Spec => []ShellIInv
    BY InvInit, InvNext, PTL DEF Spec

LEMMA Implied == ShellIInv => ShellInv /\ CurrentOpensWorkspace
<1> SUFFICES ASSUME ShellIInv PROVE ShellInv /\ CurrentOpensWorkspace
    OBVIOUS
<1> USE DEF ShellIInv
<1>1. TypeOK
    BY DEF ShellTypes, ToolFits, TypeOK, States
<1>2. OneServer
    BY DEF LocksFit, Locked, OneServer
<1>3. SavedRowsSurvive
    BY DEF RowsFit, SavedRowsSurvive
<1>4. StoppedIsGone
    BY DEF VictimFits, StoppedIsGone, Window
<1>5. NothingLeft /\ KilledTreeIsGone /\ GoodOnlyIfFinished
    BY DEF ToolFits, Running, NothingLeft, KilledTreeIsGone, GoodOnlyIfFinished
<1>6. CurrentOpensWorkspace
    BY DEF OpensFit, CurrentOpensWorkspace
<1>q. QED
    BY <1>1, <1>2, <1>3, <1>4, <1>5, <1>6 DEF ShellInv

(* For any number of processes, installations, faults and rows: one server  *)
(* per workspace (InstanceLock), acknowledged rows survive undisturbed      *)
(* updates, a stopped process is gone, a tool call leaves nothing behind    *)
(* and reports only a good exit as good.                                    *)
THEOREM ShellIsSound == Spec => []ShellInv
    BY InvHolds, Implied, PTL

(* The release behind the stable launcher opens the workspace after every   *)
(* install_release that ended by itself and alone.                          *)
THEOREM CurrentOpens == Spec => []CurrentOpensWorkspace
    BY InvHolds, Implied, PTL

\* Only the rollback ends an installation as failed.
LEMMA OnlyRollBackFails ==
    ASSUME ShellStep, step = "restore", step' = "idle", outcome' = "failed"
    PROVE  RollBack
<1>1. ASSUME NEW p \in Proc, Launch(p) PROVE RollBack
    BY <1>1 DEF Launch, install
<1>2. ASSUME NEW p \in Proc, OpenDesktop(p) PROVE RollBack
    BY <1>2 DEF OpenDesktop, install
<1>3. ASSUME NEW p \in Proc, BackUpDesktop(p) PROVE RollBack
    BY <1>3 DEF BackUpDesktop, install
<1>4. ASSUME NEW p \in Proc, Migrate(p) PROVE RollBack
    BY <1>4 DEF Migrate, install
<1>5. ASSUME NEW p \in Proc, FailLaunch(p) PROVE RollBack
    BY <1>5 DEF FailLaunch, install
<1>6. ASSUME NEW p \in Proc, Enter(p) PROVE RollBack
    BY <1>6 DEF Enter, install
<1>7. ASSUME NEW p \in Proc, OpenRequest(p) PROVE RollBack
    BY <1>7 DEF OpenRequest, install
<1>8. ASSUME NEW p \in Proc, NEW r \in Row, Write(p, r) PROVE RollBack
    BY <1>8 DEF Write, install
<1>9. ASSUME NEW p \in Proc, Quit(p) PROVE RollBack
    BY <1>9 DEF Quit, install
<1>10. ASSUME NEW p \in Proc, Leave(p) PROVE RollBack
    BY <1>10 DEF Leave, install
<1>11. ASSUME NEW p \in Proc, CrashServer(p) PROVE RollBack
    BY <1>11 DEF CrashServer, install
<1>12. ASSUME NEW o \in {"install", "uninstall"}, NEW v \in Release, Begin(o, v) PROVE RollBack
    BY <1>12 DEF Begin, install
<1>13. CASE StopLook
    BY <1>13 DEF StopLook, install
<1>14. CASE StopWait
    BY <1>14 DEF StopWait, install
<1>15. CASE StopUnlink
    BY <1>15 DEF StopUnlink, install
<1>16. CASE CheckDatabase
    BY <1>16 DEF CheckDatabase, install
<1>17. CASE BackUp
    BY <1>17 DEF BackUp, install
<1>18. CASE MigrateInstalled
    BY <1>18 DEF MigrateInstalled, install
<1>19. CASE FailMigration
    BY <1>19 DEF FailMigration, install
<1>20. CASE RollBack
    BY <1>20
<1>21. CASE Activate
    BY <1>21 DEF Activate, install
<1>22. CASE Remove
    BY <1>22 DEF Remove, install
<1>23. CASE CrashInstaller
    BY <1>23 DEF CrashInstaller, install
<1>q. QED
    BY <1>1, <1>2, <1>3, <1>4, <1>5, <1>6, <1>7, <1>8, <1>9, <1>10, <1>11, <1>12, <1>13,
       <1>14, <1>15, <1>16, <1>17, <1>18, <1>19, <1>20, <1>21, <1>22, <1>23 DEF ShellStep,
       Open, Serve, InstallStep

\* The rollback restores what the installation had found.
LEMMA FailureUndone ==
    ASSUME ShellIInv, [Next]_vars,
           step = "restore", step' = "idle", outcome' = "failed", ~disturbed
    PROVE  /\ [schema |-> schema', rows |-> rows'] = before
           /\ current' = previous /\ current' \in releases' \cup {0}
<1> USE DEF ShellIInv
<1>1. ShellStep
  <2>1. ~UNCHANGED shellVars
    BY DEF shellVars, install
  <2> QED
    BY <2>1 DEF Next, UseTool, ToolMoves, vars, ShellStep
<1>2. RollBack
    BY <1>1, OnlyRollBackFails
<1>3. copy[Installer] = before /\ (existed => before.schema # 0) /\ previous = current
    BY DEF UpdateFits, ShellTypes
<1>4. before = [schema |-> before.schema, rows |-> before.rows]
    BY DEF ShellTypes, Database
<1>5. schema' = before.schema /\ rows' = before.rows
  <2>1. CASE copy[Installer] # Absent \/ ~existed
    BY <1>2, <1>3, <2>1 DEF RollBack, Replace
  <2>2. CASE ~(copy[Installer] # Absent \/ ~existed)
    <3>1. Absent.schema = 0
      BY DEF Absent
    <3> QED
      BY <1>3, <2>2, <3>1
  <2> QED
    BY <2>1, <2>2
<1>6. current' = previous
    BY <1>2, <1>3 DEF RollBack
<1>7. current' \in releases' \cup {0}
    BY <1>2, <1>3 DEF RollBack, ShellTypes
<1>q. QED
    BY <1>4, <1>5, <1>6, <1>7

(* A failed installation leaves database and release as they were.          *)
THEOREM FailedUpdatesAreUndone == Spec => FailedUpdateChangesNothing
<1>1. ShellIInv /\ [Next]_vars =>
        [(step = "restore" /\ step' = "idle" /\ outcome' = "failed" /\ ~disturbed) =>
            /\ [schema |-> schema', rows |-> rows'] = before
            /\ current' = previous /\ current' \in releases' \cup {0}]_vars
    BY FailureUndone
<1>q. QED
    BY <1>1, InvHolds, PTL DEF Spec, FailedUpdateChangesNothing

=============================================================================
