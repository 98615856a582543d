-------------------------- MODULE WorkspaceBundles --------------------------
(***************************************************************************)
(* Backup and restore of a whole workspace (workspace_bundles.py and its   *)
(* command line).  A workspace is a directory: rows of the database and    *)
(* the files they name, one file per row.  Backups run beside the live     *)
(* application; a restore builds a stage beside the target and exchanges   *)
(* the two directories by renames, any of which may fail or be the last    *)
(* thing the process does.                                                 *)
(***************************************************************************)
EXTENDS Naturals, FiniteSets

CONSTANTS
    Row,            \* what users save
    Archived,       \* the row in the archive that is restored
    Op,             \* invocations of the command
    None,           \* no directory, no archive
    Overlap,        \* BOOLEAN: others change the target while a restore is under way
    Stops,          \* ways a command may be stopped: {"crash", "interrupt"} or fewer
    MaxFaults,      \* bound: file operations that fail
    MaxChanges      \* bound: changes the application makes

ASSUME RowAssumption == Archived \notin Row /\ None \notin Row
ASSUME NoneAssumption == None \notin [database : BOOLEAN, rows : SUBSET (Row \cup {Archived}),
                                      files : SUBSET (Row \cup {Archived})]
ASSUME BoundAssumption == /\ Overlap \in BOOLEAN /\ Stops \subseteq {"crash", "interrupt"}
                          /\ MaxFaults \in Nat /\ MaxChanges \in Nat

VARIABLES
    dir,       \* directories: the target, and each command's hidden ones
    bundle,    \* the archive to restore: "good", "other" or "torn"
    app,       \* the application holds the runtime lock of this workspace
    ready,     \* rows whose file the application has stored and verified, not yet inserted
    op,        \* the commands
    rollback,  \* rollback archives and backups, by command
    faults, changes,
    saved,     \* history: rows saved by the application and not deleted
    honest     \* history: every command that ended told the truth about the target

vars == <<dir, bundle, app, ready, op, rollback, faults, changes, saved, honest>>

Workspace == [database : BOOLEAN, rows : SUBSET (Row \cup {Archived}),
              files : SUBSET (Row \cup {Archived})]
Empty == [database |-> FALSE, rows |-> {}, files |-> {}]
Holding(s) == [database |-> TRUE, rows |-> s, files |-> s]
Content == Holding({Archived})

Stage(o) == <<"stage", o>>
Previous(o) == <<"previous", o>>
Failed(o) == <<"failed", o>>
Target == <<"target", None>>
Place == {Target} \cup {"stage", "previous", "failed"} \X Op

State(d) == IF d = None THEN "missing" ELSE IF d = Empty THEN "empty" ELSE "populated"
Closed(w) == w.rows \subseteq w.files

Init ==
    /\ \E t \in {None, Empty, Holding({}), Holding(Row)} :
          /\ dir = [p \in Place |-> IF p = Target THEN t ELSE None]
          /\ saved = IF t = None THEN {} ELSE t.rows
    /\ bundle = "good"
    /\ app = FALSE /\ ready = {}
    /\ op \in [Op -> [pc : {"idle"}, command : {"backup", "restore"}, choice : {"empty_only", "replace"},
                      state : {"missing"}, digest : {"good"}, snap : {Empty}, moved : {FALSE},
                      code : {"none"}]]
    /\ \A o \in Op : op[o].command = "backup" => op[o].choice = "empty_only"
    /\ op[CHOOSE o \in Op : TRUE].command = "restore"
    /\ rollback = [o \in Op |-> None]
    /\ faults = 0 /\ changes = 0 /\ honest = TRUE

-----------------------------------------------------------------------------
(* The application: a file is stored and verified before the transaction   *)
(* that inserts its row, which does not look at the file again; a row is   *)
(* deleted before its file, and a file just stored is not collected.  A    *)
(* request opens the workspace by its path and makes it if it is missing.  *)
Restoring(o) == op[o].command = "restore" /\ op[o].pc \notin {"idle", "done", "dead"}

MayChange == Overlap \/ \A o \in Op : ~Restoring(o)

StartApp ==
    /\ ~app /\ app' = TRUE /\ MayChange
    /\ UNCHANGED <<dir, bundle, ready, op, rollback, faults, changes, saved, honest>>

QuitApp ==
    /\ app /\ app' = FALSE /\ ready' = {}
    /\ UNCHANGED <<dir, bundle, op, rollback, faults, changes, saved, honest>>

Here == IF dir[Target] = None THEN Empty ELSE dir[Target]
Change(w) ==
    /\ app /\ MayChange
    /\ changes < MaxChanges /\ changes' = changes + 1
    /\ dir' = [dir EXCEPT ![Target] = [w EXCEPT !.database = TRUE]]
    /\ UNCHANGED <<bundle, app, op, rollback, faults, honest>>

StoreFile(r) ==
    /\ r \notin ready /\ ready' = ready \cup {r}
    /\ Change([Here EXCEPT !.files = @ \cup {r}]) /\ UNCHANGED saved

InsertRow(r) ==
    /\ r \in ready \ Here.rows /\ ready' = ready \ {r}
    /\ Change([Here EXCEPT !.rows = @ \cup {r}]) /\ saved' = saved \cup {r}

DeleteRow(r) ==
    /\ r \in Here.rows
    /\ Change([Here EXCEPT !.rows = @ \ {r}]) /\ saved' = saved \ {r}
    /\ UNCHANGED ready

UnlinkFile(r) ==
    /\ r \in Here.files \ (Here.rows \cup ready)
    /\ Change([Here EXCEPT !.files = @ \ {r}]) /\ UNCHANGED <<ready, saved>>

Use(r) == StoreFile(r) \/ InsertRow(r) \/ DeleteRow(r) \/ UnlinkFile(r)

(* The archive is replaced by another one or damaged. *)
Tamper ==
    /\ faults < MaxFaults /\ faults' = faults + 1
    /\ bundle = "good" /\ bundle' \in {"other", "torn"}
    /\ \E o \in Op : op[o].digest = bundle /\ op[o].pc \in {"idle", "preflight", "stage", "unpack"}
    /\ UNCHANGED <<dir, app, ready, op, rollback, changes, saved, honest>>

-----------------------------------------------------------------------------
At(o, pc) == op[o].pc = pc
Go(o, pc) == op' = [op EXCEPT ![o].pc = pc]
(* The exit status of workspace_bundle_cli.main. *)
Ends(o, code) == op' = [op EXCEPT ![o].pc = "done", ![o].code = code]
May == faults < MaxFaults /\ faults' = faults + 1
Same == UNCHANGED <<bundle, app, ready, changes, saved>>

(* export: a snapshot of the database, then the files as they are found;   *)
(* every row must find its file, and every file is read again as it is     *)
(* written.  The archive appears by one rename.                            *)
Snapshot(o) ==
    /\ At(o, IF op[o].command = "backup" THEN "idle" ELSE "rollback")
    /\ IF dir[Target] = None \/ ~Here.database
       THEN Ends(o, "error")
       ELSE op' = [op EXCEPT ![o].pc = "walk", ![o].snap = [Here EXCEPT !.files = {}]]
    /\ UNCHANGED <<dir, rollback, faults, honest>> /\ Same

Walk(o) ==
    /\ At(o, "walk")
    /\ IF op[o].snap.rows \subseteq Here.files
       THEN op' = [op EXCEPT ![o].pc = "write", ![o].snap.files = Here.files]
       ELSE Ends(o, "error")
    /\ UNCHANGED <<dir, rollback, faults, honest>> /\ Same

Write(o) ==
    /\ At(o, "write")
    /\ IF op[o].snap.files \subseteq Here.files
       THEN /\ rollback' = [rollback EXCEPT ![o] = op[o].snap]
            /\ IF op[o].command = "backup" THEN Ends(o, "ok") ELSE Go(o, "stage")
       ELSE Ends(o, "error") /\ UNCHANGED rollback
    /\ UNCHANGED <<dir, faults, honest>> /\ Same

-----------------------------------------------------------------------------
(* restore *)
Preflight(o) ==
    /\ At(o, "idle") /\ op[o].command = "restore" /\ MayChange
    /\ IF bundle = "torn" THEN Ends(o, "error")
       ELSE IF State(dir[Target]) = "populated" /\ op[o].choice = "empty_only"
       THEN Ends(o, "conflict")
       ELSE op' = [op EXCEPT ![o].pc = "preflight", ![o].digest = bundle,
                             ![o].state = State(dir[Target])]
    /\ UNCHANGED <<dir, rollback, faults, honest>> /\ Same

(* packaged_app_uses_workspace, then the rollback archive of a populated   *)
(* target.                                                                 *)
\* Mutant: no rollback archive is made
CheckActiveOnly(o) ==
    /\ At(o, "preflight")
    /\ IF app THEN Ends(o, "error") ELSE Go(o, "stage")
    /\ UNCHANGED <<dir, rollback, faults, honest>> /\ Same

CheckActive(o) ==
    /\ At(o, "preflight")
    /\ IF app THEN Ends(o, "error")
       ELSE Go(o, IF op[o].state = "populated" THEN "rollback" ELSE "stage")
    /\ UNCHANGED <<dir, rollback, faults, honest>> /\ Same

(* The archive is verified again, then unpacked, each member against its   *)
(* hash, and the staged workspace checked.                                 *)
Verify(o) ==
    /\ At(o, "stage")
    /\ IF bundle = op[o].digest
       THEN Go(o, "unpack") /\ dir' = [dir EXCEPT ![Stage(o)] = Empty]
       ELSE Ends(o, "error") /\ UNCHANGED dir
    /\ UNCHANGED <<rollback, faults, honest>> /\ Same

Unpack(o) ==
    /\ At(o, "unpack")
    /\ \/ /\ bundle = op[o].digest /\ UNCHANGED faults
          /\ dir' = [dir EXCEPT ![Stage(o)] = Content] /\ Go(o, "out")
       \/ /\ IF bundle = op[o].digest THEN May ELSE UNCHANGED faults
          /\ dir' = [dir EXCEPT ![Stage(o)] = None] /\ Ends(o, "error")
    /\ UNCHANGED <<rollback, honest>> /\ Same

(* os.replace on directories: the destination must be absent or empty.     *)
Movable(p, q) == dir[p] # None /\ State(dir[q]) # "populated"
Move(p, q) == dir' = [dir EXCEPT ![q] = dir[p], ![p] = None]

(* One rename of _activate_restore: it succeeds, or it fails.              *)
Try(o, p, q, success, failure) ==
    \/ Movable(p, q) /\ Move(p, q) /\ success /\ UNCHANGED faults
    \/ /\ IF Movable(p, q) THEN May ELSE UNCHANGED faults
       /\ failure /\ UNCHANGED dir

SwapOut(o) ==
    /\ At(o, "out")
    /\ IF dir[Target] = None THEN Go(o, "in") /\ UNCHANGED <<dir, faults>>
       ELSE Try(o, Target, Previous(o),
                op' = [op EXCEPT ![o].pc = "in", ![o].moved = TRUE], Go(o, "undo"))
    /\ UNCHANGED <<rollback, honest>> /\ Same

SwapIn(o) ==
    /\ At(o, "in")
    /\ Try(o, Stage(o), Target, Go(o, "sync"), Go(o, "undo"))
    /\ UNCHANGED <<rollback, honest>> /\ Same

(* fsync of the parent directory; then the old workspace is removed.       *)
Sync(o) ==
    /\ At(o, "sync")
    /\ \/ /\ dir' = [dir EXCEPT ![Previous(o)] = None]
          /\ Ends(o, "ok") /\ UNCHANGED faults
          /\ honest' = (honest /\ dir[Target] = Content)
       \/ May /\ Go(o, "undo") /\ UNCHANGED <<dir, honest>>
    /\ UNCHANGED rollback /\ Same

(* The handler: what is at the target goes aside, the old workspace back.  *)
\* Mutant: nothing is put back
UndoNothing(o) ==
    /\ At(o, "undo") /\ Go(o, "remove")
    /\ UNCHANGED <<dir, rollback, faults, honest>> /\ Same

Undo(o) ==
    /\ At(o, "undo")
    /\ IF op[o].moved
       THEN IF dir[Target] = None THEN Go(o, "back") /\ UNCHANGED <<dir, faults>>
            ELSE Try(o, Target, Failed(o), Go(o, "back"), Ends(o, "recover"))
       ELSE IF dir[Stage(o)] = None /\ dir[Target] # None
       THEN Try(o, Target, Stage(o), Go(o, "resync"), Ends(o, "recover"))
       ELSE Go(o, "remove") /\ UNCHANGED <<dir, faults>>
    /\ UNCHANGED <<rollback, honest>> /\ Same

\* Mutant: the previous workspace is removed when it cannot be put back
PutBackOrRemove(o) ==
    /\ At(o, "back")
    /\ \/ Movable(Previous(o), Target) /\ Move(Previous(o), Target) /\ Go(o, "resync") /\ UNCHANGED faults
       \/ May /\ dir' = [dir EXCEPT ![Previous(o)] = None] /\ Ends(o, "recover")
    /\ UNCHANGED <<rollback, honest>> /\ Same

PutBack(o) ==
    /\ At(o, "back")
    /\ Try(o, Previous(o), Target, Go(o, "resync"), Ends(o, "recover"))
    /\ UNCHANGED <<rollback, honest>> /\ Same

Resync(o) ==
    /\ At(o, "resync")
    /\ \/ Go(o, "remove") /\ UNCHANGED faults
       \/ May /\ Ends(o, "recover")
    /\ UNCHANGED <<dir, rollback, honest>> /\ Same

(* The previous workspace was put back and no replacement was committed.   *)
Remove(o) ==
    /\ At(o, "remove")
    /\ dir' = [dir EXCEPT ![Stage(o)] = None, ![Previous(o)] = None]
    /\ Ends(o, "error")
    /\ honest' = (honest /\ State(dir[Target]) = op[o].state
                         /\ (op[o].state = "populated" => dir[Target] = rollback[o]))
    /\ UNCHANGED <<rollback, faults>> /\ Same

(* The process dies, or is interrupted from the keyboard: no handler of    *)
(* Exception runs then, but the finally clause does.                       *)
Stop(o) ==
    /\ op[o].pc \notin {"idle", "done", "dead"}
    /\ \/ "crash" \in Stops /\ Go(o, "dead") /\ UNCHANGED dir
       \/ /\ "interrupt" \in Stops /\ Ends(o, "interrupted")
          /\ dir' = [dir EXCEPT ![Previous(o)] = None]
    /\ UNCHANGED <<rollback, faults, honest>> /\ Same

Step(o) ==
    \/ Snapshot(o) \/ Walk(o) \/ Write(o) \/ Preflight(o) \/ CheckActive(o) \/ Verify(o)
    \/ Unpack(o) \/ SwapOut(o) \/ SwapIn(o) \/ Sync(o) \/ Undo(o) \/ PutBack(o)
    \/ Resync(o) \/ Remove(o)

Next ==
    \/ StartApp \/ QuitApp \/ Tamper
    \/ \E r \in Row : Use(r)
    \/ \E o \in Op : Step(o) \/ Stop(o)

Spec == Init /\ [][Next]_vars /\ \A o \in Op : WF_vars(Step(o))

-----------------------------------------------------------------------------
TypeOK ==
    /\ dir \in [Place -> Workspace \cup {None}]
    /\ rollback \in [Op -> Workspace \cup {None}] /\ ready \subseteq Row
    /\ \A o \in Op : op[o].code \in {"none", "ok", "error", "conflict", "recover", "interrupted"}
    /\ \A o \in Op : op[o].code # "none" => op[o].pc = "done"

(* Every archive that is published holds a file for each of its rows,      *)
(* although the application stored and deleted while it was made.          *)
ArchivesAreClosed == \A o \in Op : rollback[o] # None => Closed(rollback[o])

(* While nothing else changes the target during a restore, what is found   *)
(* there is always a workspace with all its files, however a restore ended.*)
(* Beside an application in use it may not be: Overlap.                    *)
TargetIsWhole == Closed(Here)

(* While nothing else changes the target during a restore, every row the   *)
(* users saved is in a directory or an archive that is left, after any     *)
(* failure, crash or interruption.                                         *)
NothingIsLost == \A r \in saved :
    \/ \E p \in Place : dir[p] # None /\ r \in dir[p].rows
    \/ \E o \in Op : rollback[o] # None /\ r \in rollback[o].rows

(* A command that says it restored has put the archive's content in place; *)
(* one that says it failed has left, or put back, what was there.          *)
HonestExit == honest

(* When the exchange could not be undone, the directories that the error   *)
(* names (the target, the previous and the staged workspace) hold the      *)
(* former workspace, and nothing is removed.                               *)
RecoveryIsPossible == [][\A o \in Op :
    (op'[o].code = "recover" /\ op[o].code # "recover" /\ op[o].moved) =>
        /\ dir'[Previous(o)] # None \/ dir'[Target] # None
        /\ op[o].state = "populated" =>
              \E p \in {Target, Previous(o)} : dir'[p] = rollback[o]]_vars

(* A command ends, and a restore that ended by itself and could undo what  *)
(* it did leaves no stage and no previous workspace behind.                *)
CommandsEnd == \A o \in Op :
    op[o].pc # "idle" ~> /\ op[o].pc \in {"done", "dead"}
                         /\ op[o].code \in {"ok", "error", "conflict"} =>
                                dir[Stage(o)] = None /\ dir[Previous(o)] = None

(* What is archived and what is found at the target is whole, and a        *)
(* command's answer is true.                                               *)
BackupInv == TypeOK /\ ArchivesAreClosed /\ TargetIsWhole /\ HonestExit

(* A restore that fails can be recovered from, and every command ends.     *)
FailuresEndWell == RecoveryIsPossible /\ CommandsEnd

(* The comment on the finally clause: "Activation succeeded and the        *)
(* separate rollback archive is durable."  Fails: an interruption between  *)
(* the two renames removes the previous workspace with no target in place. *)
RemovedAfterActivation == [][\A o \in Op :
    (dir[Previous(o)] # None /\ dir'[Previous(o)] = None) => dir'[Target] # None]_vars

(* empty_only changes nothing on a populated target.  Fails: the state of  *)
(* the target is looked at once, before the archive is verified again.     *)
EmptyOnlyKeepsWorkspaces == [][\A o \in Op :
    (op[o].choice = "empty_only" /\ SwapOut(o)) => State(dir[Target]) # "populated"]_vars
=============================================================================
