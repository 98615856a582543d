---------------------------- MODULE BundlesProofs ---------------------------
(***************************************************************************)
(* Workspace backups and restores for every number of commands, rows and   *)
(* faults, and project bundles for every number of edits, exports and      *)
(* imports.                                                                *)
(***************************************************************************)
EXTENDS WorkspaceBundles, ProjectBundles, TLAPS

Going == {"preflight", "rollback", "walk", "write", "stage", "unpack", "out", "in", "sync",
          "undo", "back", "resync", "remove"}
Pc == Going \cup {"idle", "done", "dead"}
Code == {"none", "ok", "error", "conflict", "recover", "interrupted"}
Bundle == {"good", "other", "torn"}

Invocation == [pc : Pc, command : {"backup", "restore"}, choice : {"empty_only", "replace"},
               state : {"missing", "empty", "populated"}, digest : Bundle, snap : Workspace,
               moved : BOOLEAN, code : Code]

WorkspaceTypes ==
    /\ op \in [Op -> Invocation] /\ bundle \in Bundle /\ saved \subseteq Row /\ ready \subseteq Row
    /\ dir \in [Place -> Workspace \cup {None}]
    /\ rollback \in [Op -> Workspace \cup {None}]
    /\ \A o \in Op : op[o].code # "none" => op[o].pc = "done"

\* What is archived has its files.
ClosedFit ==
    /\ \A o \in Op : op[o].pc = "write" => Closed(op[o].snap)
    /\ ArchivesAreClosed

\* What a command has not touched yet.
OpsFit == \A o \in Op :
    /\ op[o].command = "backup" => op[o].pc \in {"idle", "walk", "write", "done", "dead"}
    /\ op[o].pc = "idle" \/ op[o].command = "backup" => dir[Previous(o)] = None
    /\ op[o].pc = "idle" => dir[Stage(o)] = None /\ ~op[o].moved
    /\ op[o].pc \in {"idle", "preflight", "rollback", "walk", "write"} => rollback[o] = None

\* w is what the restore found at the target.
Original(o, w) == /\ State(w) = op[o].state
                  /\ op[o].state = "populated" => w = rollback[o]
Untouched(o) == ~op[o].moved /\ dir[Previous(o)] = None
Before(o) == Original(o, dir[Target]) /\ Untouched(o)
Aside(o) == op[o].moved /\ dir[Previous(o)] # None /\ Original(o, dir[Previous(o)])

\* Where the original workspace is at each step of a restore.
RestoreFits(o) ==
    /\ op[o].pc \in {"preflight", "rollback", "walk", "write"} =>
          State(dir[Target]) = op[o].state /\ Untouched(o)
    /\ op[o].pc \in {"rollback", "walk", "write"} => op[o].state = "populated"
    /\ op[o].pc = "walk" => op[o].snap = [dir[Target] EXCEPT !.files = {}]
    /\ op[o].pc = "write" => op[o].snap = dir[Target]
    /\ op[o].pc \in {"stage", "unpack", "out"} => Before(o)
    /\ op[o].pc = "out" => dir[Stage(o)] = Content
    /\ op[o].pc = "in" => /\ dir[Stage(o)] = Content /\ dir[Target] = None
                          /\ Before(o) \/ Aside(o)
    /\ op[o].pc = "sync" => /\ dir[Target] = Content /\ dir[Stage(o)] = None
                            /\ Aside(o) \/ (Original(o, None) /\ Untouched(o))
    /\ op[o].pc = "undo" =>
          \/ Before(o) /\ dir[Stage(o)] = Content
          \/ Aside(o) /\ dir[Target] \in {None, Content}
          \/ /\ dir[Target] = Content /\ dir[Stage(o)] = None
             /\ Original(o, None) /\ Untouched(o)
    /\ op[o].pc = "back" => Aside(o) /\ dir[Target] = None
    /\ op[o].pc \in {"resync", "remove"} => Original(o, dir[Target]) /\ dir[Previous(o)] = None
    /\ op[o].pc = "resync" /\ op[o].moved => dir[Target] # None
    /\ dir[Stage(o)] \in {None, Empty, Content}

\* While nothing else changes the target during a restore, whatever is found
\* anywhere has its files, and so will the rows the application is to insert.
HasItsFiles(w) == w # None => Closed(w)
WholeFit ==
    /\ \A p \in Place : HasItsFiles(dir[p])
    /\ ready \subseteq Here.files /\ (ready # {} => app)
    /\ \A o \in Op : Restoring(o) /\ op[o].pc # "preflight" => ~app

OneRestore == \A o, q \in Op : Restoring(o) /\ Restoring(q) => o = q

\* What holds while nothing else changes the target during a restore.
AloneInv ==
    /\ OneRestore
    /\ \A o \in Op : Restoring(o) => RestoreFits(o)
    /\ HonestExit /\ NothingIsLost

-----------------------------------------------------------------------------
(* Places and workspaces *)

LEMMA Places ==
    /\ Target \in Place
    /\ \A o \in Op : /\ {Stage(o), Previous(o), Failed(o)} \subseteq Place
                     /\ Target \notin {Stage(o), Previous(o), Failed(o)}
                     /\ Stage(o) # Previous(o) /\ Stage(o) # Failed(o) /\ Previous(o) # Failed(o)
    /\ \A o, q \in Op : o # q =>
          {Stage(o), Previous(o), Failed(o)} \cap {Stage(q), Previous(q), Failed(q)} = {}
BY DEF Place, Target, Stage, Previous, Failed

LEMMA Workspaces ==
    /\ Empty \in Workspace /\ Content \in Workspace /\ None \notin Workspace
    /\ Empty.rows = {} /\ Empty.files = {} /\ Content.rows = {Archived} /\ Content.files = {Archived}
    /\ Content # Empty /\ Closed(Empty) /\ Closed(Content)
    /\ Empty # None /\ Content # None
    /\ State(None) = "missing" /\ State(Empty) = "empty" /\ State(Content) = "populated"
<1>1. Empty \in Workspace /\ Content \in Workspace
    BY DEF Empty, Content, Holding, Workspace
<1>2. None \notin Workspace
    BY NoneAssumption DEF Workspace
<1>3. Empty.rows = {} /\ Empty.files = {} /\ Content.rows = {Archived} /\ Content.files = {Archived}
    BY Zenon DEF Empty, Content, Holding
<1>4. Content # Empty
    BY <1>3
<1>5. Closed(Empty) /\ Closed(Content)
    BY <1>3 DEF Closed
<1> QED
    BY <1>1, <1>2, <1>3, <1>4, <1>5 DEF State

LEMMA States ==
    ASSUME NEW w \in Workspace \cup {None}
    PROVE  /\ State(w) \in {"missing", "empty", "populated"}
           /\ State(w) = "missing" <=> w = None
           /\ State(w) = "empty" <=> w = Empty
           /\ State(w) # "populated" => w = None \/ w.rows = {}
BY Workspaces DEF State

-----------------------------------------------------------------------------
(* What a step does to the record of its command *)

Kept(o) == /\ op'[o].command = op[o].command /\ op'[o].choice = op[o].choice
           /\ op'[o].moved = op[o].moved
Others(o) == \A q \in Op : q # o => op'[q] = op[q]

LEMMA GoStep ==
    ASSUME op \in [Op -> Invocation], NEW o \in Op, NEW x \in Pc, Go(o, x)
    PROVE  /\ op' \in [Op -> Invocation] /\ Others(o) /\ Kept(o) /\ op'[o].pc = x
           /\ op'[o].state = op[o].state /\ op'[o].digest = op[o].digest
           /\ op'[o].snap = op[o].snap /\ op'[o].code = op[o].code
<1> DEFINE new == [op[o] EXCEPT !.pc = x]
<1>1. op[o] \in Invocation
    OBVIOUS
<1>2. /\ new \in Invocation /\ new.pc = x /\ new.command = op[o].command
      /\ new.choice = op[o].choice /\ new.state = op[o].state /\ new.digest = op[o].digest
      /\ new.snap = op[o].snap /\ new.code = op[o].code
    BY <1>1 DEF Invocation
<1>3. new.moved = op[o].moved
    BY <1>1, Zenon DEF Invocation
<1>4. op' = [op EXCEPT ![o] = new]
    BY DEF Go
<1> HIDE DEF new
<1>5. op' \in [Op -> Invocation] /\ op'[o] = new /\ Others(o)
    BY <1>2, <1>4 DEF Others
<1> QED
    BY <1>2, <1>3, <1>5 DEF Kept

LEMMA EndsStep ==
    ASSUME op \in [Op -> Invocation], NEW o \in Op, NEW c \in Code, Ends(o, c)
    PROVE  /\ op' \in [Op -> Invocation] /\ Others(o) /\ Kept(o) /\ op'[o].pc = "done"
           /\ op'[o].state = op[o].state /\ op'[o].code = c
<1> DEFINE new == [op[o] EXCEPT !.pc = "done", !.code = c]
<1>1. op[o] \in Invocation
    OBVIOUS
<1>2. /\ new \in Invocation /\ new.pc = "done" /\ new.command = op[o].command
      /\ new.choice = op[o].choice /\ new.state = op[o].state /\ new.code = c
    BY <1>1 DEF Invocation, Pc, Going
<1>3. new.moved = op[o].moved
    BY <1>1, Zenon DEF Invocation
<1>4. op' = [op EXCEPT ![o] = new]
    BY DEF Ends
<1> HIDE DEF new
<1>5. op' \in [Op -> Invocation] /\ op'[o] = new /\ Others(o)
    BY <1>2, <1>4 DEF Others
<1> QED
    BY <1>2, <1>3, <1>5 DEF Kept

\* The three steps that note something in the record.
LEMMA SnapStep ==
    ASSUME op \in [Op -> Invocation], NEW o \in Op, NEW x \in Pc, NEW w \in Workspace,
           op' = [op EXCEPT ![o] = [op[o] EXCEPT !.pc = x, !.snap = w]]
    PROVE  /\ op' \in [Op -> Invocation] /\ Others(o) /\ Kept(o) /\ op'[o].pc = x
           /\ op'[o].state = op[o].state /\ op'[o].snap = w /\ op'[o].code = op[o].code
<1> DEFINE new == [op[o] EXCEPT !.pc = x, !.snap = w]
<1>1. op[o] \in Invocation
    OBVIOUS
<1>2. /\ new \in Invocation /\ new.pc = x /\ new.command = op[o].command
      /\ new.choice = op[o].choice /\ new.state = op[o].state /\ new.snap = w
      /\ new.code = op[o].code
    BY <1>1 DEF Invocation
<1>3. new.moved = op[o].moved
    BY <1>1, Zenon DEF Invocation
<1> HIDE DEF new
<1>4. op' \in [Op -> Invocation] /\ op'[o] = new /\ Others(o)
    BY <1>2 DEF Others, new
<1> QED
    BY <1>2, <1>3, <1>4 DEF Kept

LEMMA PreflightStep ==
    ASSUME op \in [Op -> Invocation], NEW o \in Op, NEW b \in Bundle,
           NEW s \in {"missing", "empty", "populated"},
           op' = [op EXCEPT ![o].pc = "preflight", ![o].digest = b, ![o].state = s]
    PROVE  /\ op' \in [Op -> Invocation] /\ Others(o) /\ Kept(o) /\ op'[o].pc = "preflight"
           /\ op'[o].state = s /\ op'[o].code = op[o].code
<1> DEFINE new == [op[o] EXCEPT !.pc = "preflight", !.digest = b, !.state = s]
<1>1. op[o] \in Invocation
    OBVIOUS
<1>2. /\ new \in Invocation /\ new.pc = "preflight" /\ new.command = op[o].command
      /\ new.choice = op[o].choice /\ new.state = s /\ new.code = op[o].code
    BY <1>1 DEF Invocation, Pc, Going
<1>3. new.moved = op[o].moved
    BY <1>1, Zenon DEF Invocation
<1>4. op' = [op EXCEPT ![o] = new]
    OBVIOUS
<1> HIDE DEF new
<1>5. op' \in [Op -> Invocation] /\ op'[o] = new /\ Others(o)
    BY <1>2, <1>4, ZenonT(60) DEF Others
<1> QED
    BY <1>2, <1>3, <1>5 DEF Kept

LEMMA MovedStep ==
    ASSUME op \in [Op -> Invocation], NEW o \in Op,
           op' = [op EXCEPT ![o].pc = "in", ![o].moved = TRUE]
    PROVE  /\ op' \in [Op -> Invocation] /\ Others(o) /\ op'[o].pc = "in" /\ op'[o].moved
           /\ op'[o].command = op[o].command /\ op'[o].choice = op[o].choice
           /\ op'[o].state = op[o].state /\ op'[o].code = op[o].code
<1> DEFINE new == [op[o] EXCEPT !.pc = "in", !.moved = TRUE]
<1>1. op[o] \in Invocation
    OBVIOUS
<1>2. /\ new \in Invocation /\ new.pc = "in" /\ new.command = op[o].command
      /\ new.choice = op[o].choice /\ new.state = op[o].state /\ new.code = op[o].code
    BY <1>1 DEF Invocation, Pc, Going
<1>3. new.moved
    BY <1>1, Zenon DEF Invocation
<1>4. op' = [op EXCEPT ![o] = new]
    OBVIOUS
<1> HIDE DEF new
<1>5. op' \in [Op -> Invocation] /\ op'[o] = new /\ Others(o)
    BY <1>2, <1>4 DEF Others
<1> QED
    BY <1>2, <1>3, <1>5

-----------------------------------------------------------------------------
(* What a step does to the directories *)

DirFits == dir \in [Place -> Workspace \cup {None}]

LEMMA MoveStep ==
    ASSUME DirFits, NEW p \in Place, NEW q \in Place, p # q, Movable(p, q), Move(p, q)
    PROVE  /\ DirFits' /\ dir'[q] = dir[p] /\ dir'[p] = None
           /\ \A r \in Place : r # p /\ r # q => dir'[r] = dir[r]
           /\ dir[p] # None /\ dir[q] \in {None, Empty}
BY States DEF DirFits, Movable, Move

LEMMA SetStep ==
    ASSUME DirFits, NEW p \in Place, NEW w \in Workspace \cup {None}, dir' = [dir EXCEPT ![p] = w]
    PROVE  /\ DirFits' /\ dir'[p] = w
           /\ \A r \in Place : r # p => dir'[r] = dir[r]
BY DEF DirFits

\* Every directory after a step is one from before it, or empty or fresh.
FromBefore == \A p \in Place : \/ dir'[p] \in {None, Empty, Content}
                               \/ \E q \in Place : dir'[p] = dir[q]

\* What is common to the steps of a command.
LEMMA CommandStep ==
    ASSUME WorkspaceTypes, ClosedFit, OpsFit, NEW o \in Op,
           op' \in [Op -> Invocation], Others(o), UNCHANGED <<bundle, ready, saved>>, DirFits',
           op'[o].command = op[o].command, op'[o].pc # "idle",
           op'[o].code # "none" => op'[o].pc = "done",
           op[o].command = "backup" => /\ op'[o].pc \in {"walk", "write", "done", "dead"}
                                       /\ dir'[Previous(o)] = None,
           op'[o].pc = "write" => Closed(op'[o].snap),
           op'[o].pc \in {"preflight", "rollback", "walk", "write"} =>
               UNCHANGED rollback /\ op[o].pc \in {"idle", "preflight", "rollback", "walk", "write"},
           \/ UNCHANGED rollback
           \/ \E w \in Workspace : Closed(w) /\ rollback' = [rollback EXCEPT ![o] = w],
           \A q \in Op : q # o => /\ dir'[Previous(q)] = dir[Previous(q)]
                                  /\ dir'[Stage(q)] = dir[Stage(q)]
    PROVE  WorkspaceTypes' /\ ClosedFit' /\ OpsFit'
<1>1. rollback' \in [Op -> Workspace \cup {None}]
      /\ \A q \in Op : q # o => rollback'[q] = rollback[q]
    BY DEF WorkspaceTypes
<1>2. WorkspaceTypes'
    BY <1>1 DEF WorkspaceTypes, Others, DirFits
<1>4. \A q \in Op : op'[q].pc = "write" => Closed(op'[q].snap)
    BY DEF Others, ClosedFit
<1>5. \A q \in Op : rollback'[q] # None => Closed(rollback'[q])
    BY DEF ClosedFit, ArchivesAreClosed, WorkspaceTypes
<1>6. ClosedFit'
    BY <1>4, <1>5 DEF ClosedFit, ArchivesAreClosed, Closed
<1>7. OpsFit'
    <2> SUFFICES ASSUME NEW q \in Op
                 PROVE  /\ op'[q].command = "backup" =>
                              op'[q].pc \in {"idle", "walk", "write", "done", "dead"}
                        /\ op'[q].pc = "idle" \/ op'[q].command = "backup" => dir'[Previous(q)] = None
                        /\ op'[q].pc = "idle" => dir'[Stage(q)] = None /\ ~op'[q].moved
                        /\ op'[q].pc \in {"idle", "preflight", "rollback", "walk", "write"} =>
                              rollback'[q] = None
        BY DEF OpsFit, Previous, Stage
    <2>1. CASE q = o
        BY <2>1 DEF OpsFit
    <2>2. CASE q # o
        BY <1>1, <2>2 DEF OpsFit, Others
    <2> QED
        BY <2>1, <2>2
<1> QED
    BY <1>2, <1>6, <1>7

LEMMA HereFits ==
    ASSUME WorkspaceTypes
    PROVE  Here \in Workspace
BY Workspaces, Places DEF Here, WorkspaceTypes

\* Export, in a backup and before a restore.
LEMMA ExportSteps ==
    ASSUME WorkspaceTypes, ClosedFit, OpsFit, NEW o \in Op, Snapshot(o) \/ Walk(o) \/ Write(o)
    PROVE  /\ WorkspaceTypes' /\ ClosedFit' /\ OpsFit'
           /\ op'[o].pc \in {"walk", "write", "stage", "done"} /\ Others(o) /\ Kept(o)
           /\ op[o].pc \in {"idle", "rollback", "walk", "write"}
           /\ op[o].pc = "idle" => op[o].command = "backup"
           /\ op'[o].pc = "stage" => op[o].command = "restore"
           /\ op'[o].state = op[o].state /\ UNCHANGED <<dir, saved, honest>>
           /\ op'[o].pc = "walk" => /\ op'[o].snap = [Here EXCEPT !.files = {}]
                                    /\ dir[Target] # None /\ op[o].pc # "walk"
           /\ op'[o].pc = "write" => op[o].pc = "walk"
                  /\ op'[o].snap = [op[o].snap EXCEPT !.files = Here.files]
           /\ op'[o].pc \in {"walk", "write"} => UNCHANGED rollback
           /\ op'[o].pc = "stage" =>
                  op[o].pc = "write" /\ rollback' = [rollback EXCEPT ![o] = op[o].snap]
           /\ \A q \in Op : rollback[q] # None => rollback'[q] = rollback[q]
           /\ \A q \in Op : q # o => rollback'[q] = rollback[q]
<1> DEFINE Facts ==
           /\ op' \in [Op -> Invocation] /\ Others(o) /\ Kept(o)
           /\ op'[o].pc \in {"walk", "write", "stage", "done"}
           /\ op[o].pc \in {"idle", "rollback", "walk", "write"}
           /\ op[o].pc = "idle" => op[o].command = "backup"
           /\ op'[o].pc = "stage" => op[o].command = "restore"
           /\ op'[o].state = op[o].state /\ UNCHANGED <<dir, ready, saved, honest, bundle>>
           /\ op'[o].code # "none" => op'[o].pc = "done"
           /\ op'[o].pc = "walk" => /\ op'[o].snap = [Here EXCEPT !.files = {}]
                                    /\ dir[Target] # None /\ op[o].pc # "walk"
           /\ op'[o].pc = "write" => /\ op[o].pc = "walk" /\ Closed(op'[o].snap)
                                     /\ op'[o].snap = [op[o].snap EXCEPT !.files = Here.files]
           /\ op'[o].pc \in {"walk", "write"} => UNCHANGED rollback
           /\ op'[o].pc = "stage" =>
                  op[o].pc = "write" /\ rollback' = [rollback EXCEPT ![o] = op[o].snap]
           /\ \/ UNCHANGED rollback
              \/ op[o].pc = "write" /\ rollback' = [rollback EXCEPT ![o] = op[o].snap]
<1>1. op \in [Op -> Invocation] /\ op[o] \in Invocation /\ op[o].snap \in Workspace
    BY DEF WorkspaceTypes, Invocation
<1>2. Here \in Workspace
    BY HereFits
<1>3. op[o].code = "none" \/ op[o].pc = "done"
    BY DEF WorkspaceTypes
<1>4. "walk" \in Pc /\ "write" \in Pc /\ "stage" \in Pc /\ "ok" \in Code /\ "error" \in Code
    BY DEF Pc, Going, Code
<1>5. op[o].command \in {"backup", "restore"}
    BY <1>1 DEF Invocation
<1>6. ASSUME Snapshot(o)
      PROVE  Facts
    <2>1. At(o, IF op[o].command = "backup" THEN "idle" ELSE "rollback")
          /\ UNCHANGED <<dir, rollback, ready, saved, honest, bundle>>
        BY <1>6 DEF Snapshot, Same
    <2>2. CASE Ends(o, "error")
        BY <1>1, <1>3, <1>4, <1>5, <2>1, <2>2, EndsStep DEF At
    <2>3. CASE dir[Target] # None
               /\ op' = [op EXCEPT ![o].pc = "walk", ![o].snap = [Here EXCEPT !.files = {}]]
        <3>1. [Here EXCEPT !.files = {}] \in Workspace
            BY <1>2 DEF Workspace
        <3>2. op' = [op EXCEPT ![o] = [op[o] EXCEPT !.pc = "walk", !.snap = [Here EXCEPT !.files = {}]]]
            BY <2>3
        <3> HIDE DEF Here
        <3>3. /\ op' \in [Op -> Invocation] /\ Others(o) /\ Kept(o) /\ op'[o].pc = "walk"
              /\ op'[o].state = op[o].state /\ op'[o].snap = [Here EXCEPT !.files = {}]
              /\ op'[o].code = op[o].code
            BY <1>1, <1>4, <3>1, <3>2, SnapStep
        <3> QED
            BY <1>3, <1>5, <2>1, <2>3, <3>3 DEF At
    <2> QED
        BY <1>6, <2>2, <2>3 DEF Snapshot
<1>7. ASSUME Walk(o)
      PROVE  Facts
    <2>1. At(o, "walk") /\ UNCHANGED <<dir, rollback, ready, saved, honest, bundle>>
        BY <1>7 DEF Walk, Same
    <2>2. CASE Ends(o, "error")
        BY <1>1, <1>3, <1>4, <1>5, <2>1, <2>2, EndsStep DEF At
    <2>3. CASE op[o].snap.rows \subseteq Here.files
               /\ op' = [op EXCEPT ![o].pc = "write", ![o].snap.files = Here.files]
        <3> DEFINE w == [op[o].snap EXCEPT !.files = Here.files]
        <3>1. w \in Workspace /\ w.rows = op[o].snap.rows /\ w.files = Here.files
            BY <1>1, <1>2 DEF Workspace
        <3>2. op' = [op EXCEPT ![o] = [op[o] EXCEPT !.pc = "write", !.snap = w]]
            BY <2>3
        <3>3. Closed(w)
            BY <2>3, <3>1 DEF Closed
        <3>4. w = [op[o].snap EXCEPT !.files = Here.files]
            OBVIOUS
        <3> HIDE DEF w
        <3>5. /\ op' \in [Op -> Invocation] /\ Others(o) /\ Kept(o) /\ op'[o].pc = "write"
              /\ op'[o].state = op[o].state /\ op'[o].snap = w /\ op'[o].code = op[o].code
            BY <1>1, <1>4, <3>1, <3>2, SnapStep
        <3> QED
            BY <1>3, <1>5, <2>1, <3>3, <3>4, <3>5 DEF At
    <2> QED
        BY <1>7, <2>2, <2>3 DEF Walk
<1>8. ASSUME Write(o)
      PROVE  Facts
    <2>1. At(o, "write") /\ UNCHANGED <<dir, ready, saved, honest, bundle>>
        BY <1>8 DEF Write, Same
    <2>2. CASE Ends(o, "error") /\ UNCHANGED rollback
        BY <1>1, <1>3, <1>4, <1>5, <2>1, <2>2, EndsStep DEF At
    <2>3. CASE Ends(o, "ok") /\ rollback' = [rollback EXCEPT ![o] = op[o].snap]
        BY <1>1, <1>3, <1>4, <1>5, <2>1, <2>3, EndsStep DEF At
    <2>4. CASE /\ Go(o, "stage") /\ rollback' = [rollback EXCEPT ![o] = op[o].snap]
               /\ op[o].command # "backup"
        BY <1>1, <1>3, <1>4, <1>5, <2>1, <2>4, GoStep DEF At
    <2> QED
        BY <1>8, <2>2, <2>3, <2>4 DEF Write
<1>9. Facts
    BY <1>6, <1>7, <1>8
<1> HIDE DEF Facts
<1>10. Closed(op[o].snap) \/ op[o].pc # "write"
    BY DEF ClosedFit
<1>11. rollback[o] = None \/ op[o].pc = "done" \/ op[o].pc \notin {"idle", "rollback", "walk", "write"}
    BY DEF OpsFit
<1>12. DirFits' /\ FromBefore
    BY <1>9 DEF Facts, DirFits, FromBefore, WorkspaceTypes
<1>13. \A q \in Op : dir'[Previous(q)] = dir[Previous(q)] /\ dir'[Stage(q)] = dir[Stage(q)]
    BY <1>9 DEF Facts
<1>14. op[o].command = "backup" => dir[Previous(o)] = None
    BY DEF OpsFit
<1>15. WorkspaceTypes' /\ ClosedFit' /\ OpsFit'
    <2>1. \/ UNCHANGED rollback
          \/ \E w \in Workspace : Closed(w) /\ rollback' = [rollback EXCEPT ![o] = w]
        BY <1>1, <1>9, <1>10 DEF Facts
    <2> QED
        BY <1>9, <1>12, <1>13, <1>14, <2>1, CommandStep DEF Facts, Kept
<1>16. rollback \in [Op -> Workspace \cup {None}]
    BY DEF WorkspaceTypes
<1>17. \A q \in Op : q # o => rollback'[q] = rollback[q]
    BY <1>9, <1>16 DEF Facts
<1>18. rollback[o] # None => rollback'[o] = rollback[o]
    BY <1>9, <1>11 DEF Facts
<1> QED
    BY <1>9, <1>15, <1>17, <1>18 DEF Facts

\* The steps of a restore change only these directories.
Mine(o) == {Target, Stage(o), Previous(o), Failed(o)}
Local(o) == DirFits' /\ FromBefore /\ \A r \in Place : r \in Mine(o) \/ dir'[r] = dir[r]
Sets(p, w) == dir'[p] = w /\ \A r \in Place : r # p => dir'[r] = dir[r]
Moves(p, q) == /\ dir'[q] = dir[p] /\ dir'[p] = None
               /\ \A r \in Place : r # p /\ r # q => dir'[r] = dir[r]
               /\ dir[p] # None /\ dir[q] \in {None, Empty}

\* The command goes on to x, and its record says nothing else.
Goes(o, x) == /\ op' \in [Op -> Invocation] /\ Others(o) /\ Kept(o) /\ op'[o].pc = x
              /\ op'[o].state = op[o].state /\ (op'[o].code # "none" => x = "done")

LEMMA LocalMove ==
    ASSUME DirFits, NEW o \in Op, NEW p \in Mine(o), NEW q \in Mine(o), p # q,
           Movable(p, q), Move(p, q)
    PROVE  Local(o) /\ Moves(p, q)
<1>1. p \in Place /\ q \in Place
    BY Places DEF Mine
<1>2. DirFits' /\ Moves(p, q)
    BY <1>1, MoveStep DEF Moves
<1> QED
    BY <1>1, <1>2 DEF Local, Moves, FromBefore

LEMMA LocalSet ==
    ASSUME DirFits, NEW o \in Op, NEW p \in Mine(o), NEW w \in {None, Empty, Content},
           dir' = [dir EXCEPT ![p] = w]
    PROVE  Local(o) /\ Sets(p, w)
<1>1. p \in Place /\ w \in Workspace \cup {None}
    BY Places, Workspaces DEF Mine
<1>2. DirFits' /\ Sets(p, w)
    BY <1>1, SetStep DEF Sets
<1> QED
    BY <1>1, <1>2 DEF Local, Sets, FromBefore

LEMMA LocalSame ==
    ASSUME DirFits, NEW o \in Op, dir' = dir
    PROVE  Local(o)
BY DEF Local, DirFits, FromBefore

LEMMA GoesOn ==
    ASSUME WorkspaceTypes, NEW o \in Op, op[o].pc # "done", NEW x \in Pc, Go(o, x)
    PROVE  Goes(o, x)
BY GoStep DEF Goes, WorkspaceTypes

LEMMA GoesDone ==
    ASSUME WorkspaceTypes, NEW o \in Op, NEW c \in Code, Ends(o, c)
    PROVE  Goes(o, "done") /\ op'[o].code = c
BY EndsStep DEF Goes, WorkspaceTypes

\* What is common to the steps of a restore.
LEMMA PlainStep ==
    ASSUME WorkspaceTypes, ClosedFit, OpsFit, NEW o \in Op, op[o].command = "restore",
           op' \in [Op -> Invocation], Others(o), op'[o].command = op[o].command,
           op'[o].code # "none" => op'[o].pc = "done",
           UNCHANGED <<bundle, ready, saved, rollback>>, Local(o),
           op'[o].pc \notin {"idle", "walk", "write"},
           op'[o].pc \in {"preflight", "rollback"} => op[o].pc \in {"idle", "preflight"}
    PROVE  WorkspaceTypes' /\ ClosedFit' /\ OpsFit'
<1>1. \A q \in Op : q # o => /\ dir'[Previous(q)] = dir[Previous(q)]
                             /\ dir'[Stage(q)] = dir[Stage(q)]
    BY Places DEF Local, Mine
<1> QED
    BY <1>1, CommandStep DEF Local

LEMMA ARestore ==
    ASSUME OpsFit, WorkspaceTypes, NEW o \in Op,
           op[o].pc \in Going \ {"walk", "write"}
    PROVE  op[o].command = "restore" /\ op[o].pc # "done"
BY DEF OpsFit, WorkspaceTypes, Invocation, Going

LEMMA Labels == Going \subseteq Pc /\ "done" \in Pc /\ "dead" \in Pc
BY DEF Pc

LEMMA PreflightSteps ==
    ASSUME WorkspaceTypes, ClosedFit, OpsFit, NEW o \in Op, Preflight(o)
    PROVE  /\ WorkspaceTypes' /\ ClosedFit' /\ OpsFit'
           /\ At(o, "idle") /\ op[o].command = "restore" /\ MayChange /\ Others(o) /\ Kept(o)
           /\ UNCHANGED <<dir, rollback, saved, honest>>
           /\ \/ op'[o].pc = "done"
              \/ op'[o].pc = "preflight" /\ op'[o].state = State(dir[Target])
<1>1. At(o, "idle") /\ op[o].command = "restore" /\ MayChange
      /\ UNCHANGED <<dir, rollback, ready, saved, honest, bundle>>
    BY DEF Preflight, Same
<1>2. /\ op' \in [Op -> Invocation] /\ Others(o) /\ Kept(o)
      /\ op'[o].code # "none" => op'[o].pc = "done"
      /\ \/ op'[o].pc = "done"
         \/ op'[o].pc = "preflight" /\ op'[o].state = State(dir[Target])
    <2>1. CASE Ends(o, "error") \/ Ends(o, "conflict")
        BY <2>1, GoesDone DEF Goes, Code
    <2>2. CASE op' = [op EXCEPT ![o].pc = "preflight", ![o].digest = bundle,
                                ![o].state = State(dir[Target])]
        <3>1. State(dir[Target]) \in {"missing", "empty", "populated"}
            BY Places, States DEF WorkspaceTypes
        <3>2. op[o].code = "none"
            BY <1>1 DEF At, WorkspaceTypes
        <3> QED
            BY <2>2, <3>1, <3>2, PreflightStep DEF WorkspaceTypes
    <2> QED
        BY <2>1, <2>2 DEF Preflight
<1>3. Local(o)
    BY <1>1, LocalSame DEF WorkspaceTypes, DirFits
<1> QED
    BY <1>1, <1>2, <1>3, PlainStep DEF At, Kept

LEMMA CheckActiveStep ==
    ASSUME WorkspaceTypes, ClosedFit, OpsFit, NEW o \in Op, CheckActive(o)
    PROVE  /\ WorkspaceTypes' /\ ClosedFit' /\ OpsFit'
           /\ At(o, "preflight") /\ UNCHANGED <<rollback, saved>>
           /\ UNCHANGED <<dir, honest>>
           /\ \/ Goes(o, "done")
              \/ Goes(o, "rollback") /\ op[o].state = "populated"
              \/ Goes(o, "stage") /\ op[o].state # "populated"
<1>1. At(o, "preflight") /\ UNCHANGED <<rollback, ready, saved, bundle>>
    BY DEF CheckActive, Same
<1>2. op[o].command = "restore" /\ op[o].pc # "done" /\ DirFits
    BY <1>1, ARestore DEF At, Going, WorkspaceTypes, DirFits
<1>3. /\ Local(o)
      /\ UNCHANGED <<dir, honest>>
      /\ \/ Goes(o, "done")
         \/ Goes(o, "rollback") /\ op[o].state = "populated"
         \/ Goes(o, "stage") /\ op[o].state # "populated"
    <2>1. CASE Ends(o, "error")
        BY <1>1, <1>2, <2>1, GoesDone, LocalSame DEF CheckActive, Code
    <2>2. CASE Go(o, IF op[o].state = "populated" THEN "rollback" ELSE "stage")
        BY <1>1, <1>2, <2>2, GoesOn, Labels, LocalSame DEF CheckActive, Going
    <2> QED
        BY <1>1, <2>1, <2>2 DEF CheckActive
<1> QED
    BY <1>1, <1>2, <1>3, PlainStep DEF At, Goes, Kept

LEMMA VerifyStep ==
    ASSUME WorkspaceTypes, ClosedFit, OpsFit, NEW o \in Op, Verify(o)
    PROVE  /\ WorkspaceTypes' /\ ClosedFit' /\ OpsFit'
           /\ At(o, "stage") /\ UNCHANGED <<rollback, saved>>
           /\ UNCHANGED honest
           /\ \/ Goes(o, "done") /\ UNCHANGED dir
              \/ Goes(o, "unpack") /\ Sets(Stage(o), Empty)
<1>1. At(o, "stage") /\ UNCHANGED <<rollback, ready, saved, bundle>>
    BY DEF Verify, Same
<1>2. op[o].command = "restore" /\ op[o].pc # "done" /\ DirFits
    BY <1>1, ARestore DEF At, Going, WorkspaceTypes, DirFits
<1>3. /\ Local(o)
      /\ UNCHANGED honest
      /\ \/ Goes(o, "done") /\ UNCHANGED dir
         \/ Goes(o, "unpack") /\ Sets(Stage(o), Empty)
    <2>1. CASE Ends(o, "error") /\ UNCHANGED dir
        BY <1>1, <1>2, <2>1, GoesDone, LocalSame DEF Verify, Code
    <2>2. CASE Go(o, "unpack") /\ dir' = [dir EXCEPT ![Stage(o)] = Empty]
        BY <1>1, <1>2, <2>2, GoesOn, Labels, LocalSet DEF Verify, Going, Mine
    <2> QED
        BY <1>1, <2>1, <2>2 DEF Verify
<1> QED
    BY <1>1, <1>2, <1>3, PlainStep DEF At, Goes, Kept

LEMMA UnpackStep ==
    ASSUME WorkspaceTypes, ClosedFit, OpsFit, NEW o \in Op, Unpack(o)
    PROVE  /\ WorkspaceTypes' /\ ClosedFit' /\ OpsFit'
           /\ At(o, "unpack") /\ UNCHANGED <<rollback, saved>>
           /\ UNCHANGED honest
           /\ \/ Goes(o, "done") /\ Sets(Stage(o), None)
              \/ Goes(o, "out") /\ Sets(Stage(o), Content)
<1>1. At(o, "unpack") /\ UNCHANGED <<rollback, ready, saved, bundle>>
    BY DEF Unpack, Same
<1>2. op[o].command = "restore" /\ op[o].pc # "done" /\ DirFits
    BY <1>1, ARestore DEF At, Going, WorkspaceTypes, DirFits
<1>3. /\ Local(o)
      /\ UNCHANGED honest
      /\ \/ Goes(o, "done") /\ Sets(Stage(o), None)
         \/ Goes(o, "out") /\ Sets(Stage(o), Content)
    <2>1. CASE Ends(o, "error") /\ dir' = [dir EXCEPT ![Stage(o)] = None]
        BY <1>1, <1>2, <2>1, GoesDone, LocalSet DEF Unpack, Code, Mine
    <2>2. CASE Go(o, "out") /\ dir' = [dir EXCEPT ![Stage(o)] = Content]
        BY <1>1, <1>2, <2>2, GoesOn, Labels, LocalSet DEF Unpack, Going, Mine
    <2> QED
        BY <1>1, <2>1, <2>2 DEF Unpack
<1> QED
    BY <1>1, <1>2, <1>3, PlainStep DEF At, Goes, Kept

LEMMA SwapInStep ==
    ASSUME WorkspaceTypes, ClosedFit, OpsFit, NEW o \in Op, SwapIn(o)
    PROVE  /\ WorkspaceTypes' /\ ClosedFit' /\ OpsFit'
           /\ At(o, "in") /\ UNCHANGED <<rollback, saved>>
           /\ UNCHANGED honest
           /\ \/ Goes(o, "sync") /\ Moves(Stage(o), Target)
              \/ Goes(o, "undo") /\ UNCHANGED dir
<1>1. At(o, "in") /\ UNCHANGED <<rollback, ready, saved, bundle>>
    BY DEF SwapIn, Same
<1>2. op[o].command = "restore" /\ op[o].pc # "done" /\ DirFits
    BY <1>1, ARestore DEF At, Going, WorkspaceTypes, DirFits
<1>3. /\ Local(o)
      /\ UNCHANGED honest
      /\ \/ Goes(o, "sync") /\ Moves(Stage(o), Target)
         \/ Goes(o, "undo") /\ UNCHANGED dir
    <2>1. CASE Movable(Stage(o), Target) /\ Move(Stage(o), Target) /\ Go(o, "sync")
        BY <1>1, <1>2, <2>1, GoesOn, Labels, LocalMove, Places DEF SwapIn, Going, Mine
    <2>2. CASE Go(o, "undo") /\ UNCHANGED dir
        BY <1>1, <1>2, <2>2, GoesOn, Labels, LocalSame DEF SwapIn, Going
    <2> QED
        BY <1>1, <2>1, <2>2 DEF SwapIn, Try
<1> QED
    BY <1>1, <1>2, <1>3, PlainStep DEF At, Goes, Kept

LEMMA SyncStep ==
    ASSUME WorkspaceTypes, ClosedFit, OpsFit, NEW o \in Op, Sync(o)
    PROVE  /\ WorkspaceTypes' /\ ClosedFit' /\ OpsFit'
           /\ At(o, "sync") /\ UNCHANGED <<rollback, saved>>
           /\ \/ /\ Goes(o, "done") /\ Sets(Previous(o), None)
                 /\ honest' = (honest /\ dir[Target] = Content)
              \/ Goes(o, "undo") /\ UNCHANGED <<dir, honest>>
<1>1. At(o, "sync") /\ UNCHANGED <<rollback, ready, saved, bundle>>
    BY DEF Sync, Same
<1>2. op[o].command = "restore" /\ op[o].pc # "done" /\ DirFits
    BY <1>1, ARestore DEF At, Going, WorkspaceTypes, DirFits
<1>3. /\ Local(o)
      /\ \/ /\ Goes(o, "done") /\ Sets(Previous(o), None)
            /\ honest' = (honest /\ dir[Target] = Content)
         \/ Goes(o, "undo") /\ UNCHANGED <<dir, honest>>
    <2>1. CASE /\ Ends(o, "ok") /\ dir' = [dir EXCEPT ![Previous(o)] = None]
               /\ honest' = (honest /\ dir[Target] = Content)
        BY <1>1, <1>2, <2>1, GoesDone, LocalSet DEF Code, Mine
    <2>2. CASE Go(o, "undo") /\ UNCHANGED <<dir, honest>>
        BY <1>1, <1>2, <2>2, GoesOn, Labels, LocalSame DEF Going
    <2> QED
        BY <1>1, <2>1, <2>2 DEF Sync
<1> QED
    BY <1>1, <1>2, <1>3, PlainStep DEF At, Goes, Kept

LEMMA PutBackStep ==
    ASSUME WorkspaceTypes, ClosedFit, OpsFit, NEW o \in Op, PutBack(o)
    PROVE  /\ WorkspaceTypes' /\ ClosedFit' /\ OpsFit'
           /\ At(o, "back") /\ UNCHANGED <<rollback, saved>>
           /\ UNCHANGED honest
           /\ \/ Goes(o, "resync") /\ Moves(Previous(o), Target)
              \/ Goes(o, "done") /\ op'[o].code = "recover" /\ UNCHANGED dir
<1>1. At(o, "back") /\ UNCHANGED <<rollback, ready, saved, bundle>>
    BY DEF PutBack, Same
<1>2. op[o].command = "restore" /\ op[o].pc # "done" /\ DirFits
    BY <1>1, ARestore DEF At, Going, WorkspaceTypes, DirFits
<1>3. /\ Local(o)
      /\ UNCHANGED honest
      /\ \/ Goes(o, "resync") /\ Moves(Previous(o), Target)
         \/ Goes(o, "done") /\ op'[o].code = "recover" /\ UNCHANGED dir
    <2>1. CASE Movable(Previous(o), Target) /\ Move(Previous(o), Target) /\ Go(o, "resync")
        BY <1>1, <1>2, <2>1, GoesOn, Labels, LocalMove, Places DEF PutBack, Going, Mine
    <2>2. CASE Ends(o, "recover") /\ UNCHANGED dir
        BY <1>1, <1>2, <2>2, GoesDone, LocalSame DEF PutBack, Code
    <2> QED
        BY <1>1, <2>1, <2>2 DEF PutBack, Try
<1> QED
    BY <1>1, <1>2, <1>3, PlainStep DEF At, Goes, Kept

LEMMA ResyncStep ==
    ASSUME WorkspaceTypes, ClosedFit, OpsFit, NEW o \in Op, Resync(o)
    PROVE  /\ WorkspaceTypes' /\ ClosedFit' /\ OpsFit'
           /\ At(o, "resync") /\ UNCHANGED <<rollback, saved>>
           /\ UNCHANGED <<dir, honest>>
           /\ \/ Goes(o, "remove")
              \/ Goes(o, "done") /\ op'[o].code = "recover"
<1>1. At(o, "resync") /\ UNCHANGED <<rollback, ready, saved, bundle>>
    BY DEF Resync, Same
<1>2. op[o].command = "restore" /\ op[o].pc # "done" /\ DirFits
    BY <1>1, ARestore DEF At, Going, WorkspaceTypes, DirFits
<1>3. /\ Local(o)
      /\ UNCHANGED <<dir, honest>>
      /\ \/ Goes(o, "remove")
         \/ Goes(o, "done") /\ op'[o].code = "recover"
    <2>1. CASE Go(o, "remove")
        BY <1>1, <1>2, <2>1, GoesOn, Labels, LocalSame DEF Resync, Going
    <2>2. CASE Ends(o, "recover")
        BY <1>1, <1>2, <2>2, GoesDone, LocalSame DEF Resync, Code
    <2> QED
        BY <1>1, <2>1, <2>2 DEF Resync
<1> QED
    BY <1>1, <1>2, <1>3, PlainStep DEF At, Goes, Kept

LEMMA SwapOutStep ==
    ASSUME WorkspaceTypes, ClosedFit, OpsFit, NEW o \in Op, SwapOut(o)
    PROVE  /\ WorkspaceTypes' /\ ClosedFit' /\ OpsFit'
           /\ At(o, "out") /\ UNCHANGED <<rollback, saved, honest>> /\ Others(o)
           /\ op'[o].state = op[o].state /\ op'[o].command = op[o].command
           /\ \/ dir[Target] = None /\ Goes(o, "in") /\ UNCHANGED dir
              \/ op'[o].pc = "in" /\ op'[o].moved /\ Moves(Target, Previous(o))
              \/ Goes(o, "undo") /\ UNCHANGED dir
<1>1. At(o, "out") /\ UNCHANGED <<rollback, ready, saved, bundle, honest>>
    BY DEF SwapOut, Same
<1>2. op[o].command = "restore" /\ op[o].pc # "done" /\ DirFits
    BY <1>1, ARestore DEF At, Going, WorkspaceTypes, DirFits
<1>3. /\ Local(o) /\ op' \in [Op -> Invocation] /\ Others(o) /\ op'[o].command = op[o].command
      /\ op'[o].state = op[o].state /\ (op'[o].code # "none" => op'[o].pc = "done")
      /\ \/ dir[Target] = None /\ Goes(o, "in") /\ UNCHANGED dir
         \/ op'[o].pc = "in" /\ op'[o].moved /\ Moves(Target, Previous(o))
         \/ Goes(o, "undo") /\ UNCHANGED dir
    <2>1. CASE dir[Target] = None /\ Go(o, "in") /\ UNCHANGED dir
        BY <1>2, <2>1, GoesOn, Labels, LocalSame DEF Going, Goes, Kept
    <2>2. CASE Go(o, "undo") /\ UNCHANGED dir
        BY <1>2, <2>2, GoesOn, Labels, LocalSame DEF Going, Goes, Kept
    <2>3. CASE /\ Movable(Target, Previous(o)) /\ Move(Target, Previous(o))
               /\ op' = [op EXCEPT ![o].pc = "in", ![o].moved = TRUE]
        <3>1. Local(o) /\ Moves(Target, Previous(o))
            BY <1>2, <2>3, LocalMove, Places DEF Mine
        <3>2. op[o].code = "none"
            BY <1>2 DEF WorkspaceTypes
        <3> QED
            BY <2>3, <3>1, <3>2, MovedStep DEF WorkspaceTypes
    <2> QED
        BY <2>1, <2>2, <2>3 DEF SwapOut, Try
<1>4. op'[o].pc \in {"in", "undo"}
    BY <1>3 DEF Goes
<1> QED
    BY <1>1, <1>2, <1>3, <1>4, PlainStep

LEMMA UndoStep ==
    ASSUME WorkspaceTypes, ClosedFit, OpsFit, NEW o \in Op, Undo(o)
    PROVE  /\ WorkspaceTypes' /\ ClosedFit' /\ OpsFit'
           /\ At(o, "undo") /\ UNCHANGED <<rollback, saved, honest>>
           /\ \/ op[o].moved /\ dir[Target] = None /\ Goes(o, "back") /\ UNCHANGED dir
              \/ op[o].moved /\ Goes(o, "back") /\ Moves(Target, Failed(o))
              \/ /\ ~op[o].moved /\ dir[Stage(o)] = None
                 /\ Goes(o, "resync") /\ Moves(Target, Stage(o))
              \/ /\ ~op[o].moved /\ (dir[Stage(o)] # None \/ dir[Target] = None)
                 /\ Goes(o, "remove") /\ UNCHANGED dir
              \/ Goes(o, "done") /\ op'[o].code = "recover" /\ UNCHANGED dir
<1>1. At(o, "undo") /\ UNCHANGED <<rollback, ready, saved, bundle, honest>>
    BY DEF Undo, Same
<1>2. op[o].command = "restore" /\ op[o].pc # "done" /\ DirFits
    BY <1>1, ARestore DEF At, Going, WorkspaceTypes, DirFits
<1> DEFINE Facts ==
           \/ op[o].moved /\ dir[Target] = None /\ Goes(o, "back") /\ UNCHANGED dir
           \/ op[o].moved /\ Goes(o, "back") /\ Moves(Target, Failed(o))
           \/ /\ ~op[o].moved /\ dir[Stage(o)] = None
              /\ Goes(o, "resync") /\ Moves(Target, Stage(o))
           \/ /\ ~op[o].moved /\ (dir[Stage(o)] # None \/ dir[Target] = None)
              /\ Goes(o, "remove") /\ UNCHANGED dir
           \/ Goes(o, "done") /\ op'[o].code = "recover" /\ UNCHANGED dir
<1>3. Local(o) /\ Facts
    <2>1. CASE op[o].moved /\ dir[Target] = None /\ Go(o, "back") /\ UNCHANGED dir
        BY <1>2, <2>1, GoesOn, Labels, LocalSame DEF Going
    <2>2. CASE /\ op[o].moved /\ Go(o, "back")
               /\ Movable(Target, Failed(o)) /\ Move(Target, Failed(o))
        BY <1>2, <2>2, GoesOn, Labels, LocalMove, Places DEF Going, Mine
    <2>3. CASE /\ ~op[o].moved /\ dir[Stage(o)] = None /\ Go(o, "resync")
               /\ Movable(Target, Stage(o)) /\ Move(Target, Stage(o))
        BY <1>2, <2>3, GoesOn, Labels, LocalMove, Places DEF Going, Mine
    <2>4. CASE /\ ~op[o].moved /\ (dir[Stage(o)] # None \/ dir[Target] = None)
               /\ Go(o, "remove") /\ UNCHANGED dir
        BY <1>2, <2>4, GoesOn, Labels, LocalSame DEF Going
    <2>5. CASE Ends(o, "recover") /\ UNCHANGED dir
        BY <1>2, <2>5, GoesDone, LocalSame DEF Code
    <2> QED
        BY <2>1, <2>2, <2>3, <2>4, <2>5 DEF Undo, Try
<1>4. /\ op' \in [Op -> Invocation] /\ Others(o) /\ Kept(o)
      /\ op'[o].code # "none" => op'[o].pc = "done"
      /\ op'[o].pc \in {"back", "resync", "remove", "done"}
    BY <1>3 DEF Goes
<1> QED
    BY <1>1, <1>2, <1>3, <1>4, PlainStep DEF Kept

LEMMA RemoveStep ==
    ASSUME WorkspaceTypes, ClosedFit, OpsFit, NEW o \in Op, Remove(o)
    PROVE  /\ WorkspaceTypes' /\ ClosedFit' /\ OpsFit'
           /\ At(o, "remove") /\ UNCHANGED <<rollback, saved>> /\ Goes(o, "done")
           /\ honest' = (honest /\ Original(o, dir[Target]))
           /\ \A p \in Place : \/ dir'[p] = dir[p]
                               \/ p \in {Stage(o), Previous(o)} /\ dir'[p] = None
<1>1. /\ At(o, "remove") /\ UNCHANGED <<rollback, ready, saved, bundle>>
      /\ dir' = [dir EXCEPT ![Stage(o)] = None, ![Previous(o)] = None]
      /\ honest' = (honest /\ Original(o, dir[Target]))
    BY DEF Remove, Same, Original
<1>2. op[o].command = "restore" /\ op[o].pc # "done" /\ DirFits
    BY <1>1, ARestore DEF At, Going, WorkspaceTypes, DirFits
<1>3. Goes(o, "done")
    BY GoesDone DEF Remove, Code
<1>4. DirFits' /\ \A p \in Place : \/ dir'[p] = dir[p]
                                   \/ p \in {Stage(o), Previous(o)} /\ dir'[p] = None
    BY <1>1, <1>2, Places DEF DirFits
<1>5. Local(o)
    BY <1>4 DEF Local, FromBefore, Mine
<1> QED
    BY <1>1, <1>2, <1>3, <1>4, <1>5, PlainStep DEF Goes, Kept

LEMMA StopStep ==
    ASSUME WorkspaceTypes, ClosedFit, OpsFit, NEW o \in Op, Stop(o)
    PROVE  /\ WorkspaceTypes' /\ ClosedFit' /\ OpsFit'
           /\ op[o].pc \in Going /\ UNCHANGED <<rollback, saved, honest>>
           /\ Others(o) /\ op'[o].command = op[o].command /\ op'[o].pc \in {"done", "dead"}
           /\ op'[o].code # "recover"
           /\ UNCHANGED dir \/ Sets(Previous(o), None)
<1>1. op[o].pc \in Going /\ op[o].pc # "idle" /\ UNCHANGED <<rollback, ready, saved, bundle, honest>>
    BY DEF Stop, Same, WorkspaceTypes, Invocation, Pc, Going
<1>2. op[o].pc # "done" /\ DirFits /\ op[o].code = "none"
    BY <1>1 DEF Going, WorkspaceTypes, DirFits
<1>3. /\ op' \in [Op -> Invocation] /\ Others(o) /\ op'[o].command = op[o].command
      /\ op'[o].code # "none" => op'[o].pc = "done"
      /\ op'[o].pc \in {"done", "dead"} /\ op'[o].code # "recover"
      /\ Local(o) /\ (UNCHANGED dir \/ Sets(Previous(o), None))
    <2>1. CASE Go(o, "dead") /\ UNCHANGED dir
        <3>1. Local(o) /\ Goes(o, "dead")
            BY <1>2, <2>1, GoesOn, Labels, LocalSame
        <3>2. op'[o].code = op[o].code
            BY <2>1, GoStep, Labels DEF WorkspaceTypes
        <3> QED
            BY <1>2, <2>1, <3>1, <3>2 DEF Goes, Kept
    <2>2. CASE Ends(o, "interrupted") /\ dir' = [dir EXCEPT ![Previous(o)] = None]
        <3>1. Local(o) /\ Sets(Previous(o), None)
            BY <1>2, <2>2, LocalSet DEF Mine
        <3>2. Goes(o, "done") /\ op'[o].code = "interrupted"
            BY <2>2, GoesDone DEF Code
        <3> QED
            BY <3>1, <3>2 DEF Goes, Kept
    <2> QED
        BY <2>1, <2>2 DEF Stop
<1>4. CASE op[o].command = "restore"
    BY <1>1, <1>3, <1>4, PlainStep
<1>5. CASE op[o].command = "backup"
    <2>1. dir'[Previous(o)] = None
        BY <1>3, <1>5, Places DEF OpsFit, Sets
    <2>2. \A q \in Op : q # o => /\ dir'[Previous(q)] = dir[Previous(q)]
                                 /\ dir'[Stage(q)] = dir[Stage(q)]
        BY <1>3, Places DEF Local, Mine
    <2>3. WorkspaceTypes' /\ ClosedFit' /\ OpsFit'
        BY <1>1, <1>3, <2>1, <2>2, CommandStep DEF Local
    <2> QED
        BY <1>1, <1>3, <2>3
<1> QED
    BY <1>4, <1>5 DEF WorkspaceTypes, Invocation

-----------------------------------------------------------------------------
(* The application *)

LEMMA UseStep ==
    ASSUME WorkspaceTypes, ClosedFit, OpsFit, NEW r \in Row, Use(r)
    PROVE  /\ WorkspaceTypes' /\ ClosedFit' /\ OpsFit'
           /\ app /\ MayChange /\ UNCHANGED <<app, op, rollback, honest>>
           /\ \A p \in Place : p # Target => dir'[p] = dir[p]
           /\ dir'[Target] \in Workspace
           /\ LET w == dir'[Target] IN
              \/ /\ w.files = Here.files \cup {r} /\ ready' = ready \cup {r}
                 /\ w.rows = Here.rows /\ saved' = saved
              \/ /\ r \in ready /\ w.files = Here.files /\ ready' = ready \ {r}
                 /\ w.rows = Here.rows \cup {r} /\ saved' = saved \cup {r}
              \/ /\ w.files = Here.files /\ ready' = ready
                 /\ w.rows = Here.rows \ {r} /\ saved' = saved \ {r}
              \/ /\ r \notin Here.rows \cup ready /\ w.files = Here.files \ {r}
                 /\ w.rows = Here.rows /\ UNCHANGED <<ready, saved>>
<1> DEFINE Kinds(w) ==
              \/ /\ w.files = Here.files \cup {r} /\ ready' = ready \cup {r}
                 /\ w.rows = Here.rows /\ saved' = saved
              \/ /\ r \in ready /\ w.files = Here.files /\ ready' = ready \ {r}
                 /\ w.rows = Here.rows \cup {r} /\ saved' = saved \cup {r}
              \/ /\ w.files = Here.files /\ ready' = ready
                 /\ w.rows = Here.rows \ {r} /\ saved' = saved \ {r}
              \/ /\ r \notin Here.rows \cup ready /\ w.files = Here.files \ {r}
                 /\ w.rows = Here.rows /\ UNCHANGED <<ready, saved>>
<1>1. Here \in Workspace
    BY HereFits
<1>2. PICK w \in Workspace : Change(w) /\ Kinds(w)
    <2>1. ASSUME NEW f \in SUBSET (Row \cup {Archived})
          PROVE  /\ [Here EXCEPT !.files = f] \in Workspace
                 /\ [Here EXCEPT !.files = f].rows = Here.rows /\ [Here EXCEPT !.files = f].files = f
                 /\ [Here EXCEPT !.rows = f] \in Workspace
                 /\ [Here EXCEPT !.rows = f].rows = f /\ [Here EXCEPT !.rows = f].files = Here.files
        BY <1>1 DEF Workspace
    <2>2. /\ {Here.files \cup {r}, Here.files \ {r}} \subseteq SUBSET (Row \cup {Archived})
          /\ {Here.rows \cup {r}, Here.rows \ {r}} \subseteq SUBSET (Row \cup {Archived})
        BY <1>1 DEF Workspace
    <2> HIDE DEF Here
    <2>3. CASE StoreFile(r)
        BY <2>1, <2>2, <2>3 DEF StoreFile
    <2>4. CASE InsertRow(r)
        BY <2>1, <2>2, <2>4 DEF InsertRow
    <2>5. CASE DeleteRow(r)
        BY <2>1, <2>2, <2>5 DEF DeleteRow
    <2>6. CASE UnlinkFile(r)
        BY <2>1, <2>2, <2>6 DEF UnlinkFile
    <2> QED
        BY <2>3, <2>4, <2>5, <2>6 DEF Use
<1> DEFINE v == [w EXCEPT !.database = TRUE]
<1>3. v \in Workspace /\ v.rows = w.rows /\ v.files = w.files
    BY <1>2 DEF Workspace
<1>4. dir' = [dir EXCEPT ![Target] = v]
    BY <1>2 DEF Change
<1> HIDE DEF v
<1>5. DirFits' /\ Sets(Target, v)
    BY <1>3, <1>4, Places, SetStep DEF Sets, DirFits, WorkspaceTypes
<1>6. app /\ MayChange /\ UNCHANGED <<app, op, rollback, honest, bundle>>
    BY <1>2 DEF Change
<1>7. saved' \subseteq Row /\ ready' \subseteq Row
    BY <1>2 DEF WorkspaceTypes
<1>8. WorkspaceTypes'
    BY <1>5, <1>6, <1>7 DEF WorkspaceTypes, DirFits
<1>9. ClosedFit'
    BY <1>6 DEF ClosedFit, ArchivesAreClosed, Closed
<1>10. OpsFit'
    <2>1. \A o \in Op : dir'[Previous(o)] = dir[Previous(o)] /\ dir'[Stage(o)] = dir[Stage(o)]
        BY <1>5, Places DEF Sets
    <2> QED
        BY <1>6, <2>1 DEF OpsFit, Previous, Stage
<1>11. Kinds(dir'[Target]) /\ dir'[Target] \in Workspace
    BY <1>2, <1>3, <1>5, Places DEF Sets
<1> QED
    BY <1>5, <1>6, <1>8, <1>9, <1>10, <1>11, Places DEF Sets

\* Starting and leaving the application and another archive change no directory.
LEMMA OutsideSteps ==
    ASSUME WorkspaceTypes, ClosedFit, OpsFit, StartApp \/ QuitApp \/ Tamper
    PROVE  /\ WorkspaceTypes' /\ ClosedFit' /\ OpsFit'
           /\ UNCHANGED <<dir, op, rollback, saved, honest>> /\ ready' \subseteq ready
<1>1. UNCHANGED <<dir, op, rollback, saved, honest>> /\ bundle' \in Bundle /\ ready' \subseteq ready
    BY DEF StartApp, QuitApp, Tamper, WorkspaceTypes, Bundle
<1> QED
    BY <1>1 DEF WorkspaceTypes, ClosedFit, OpsFit, ArchivesAreClosed, Closed, Previous, Stage

-----------------------------------------------------------------------------
(* One restore alone *)

Inv == WorkspaceTypes /\ ClosedFit /\ OpsFit /\ AloneInv

\* A row that was saved is found again if every directory that held one is
\* still somewhere, or is in a rollback archive.
LEMMA NothingLostFrame ==
    ASSUME WorkspaceTypes, NothingIsLost, UNCHANGED saved,
           \A p \in Place : \/ dir[p] \in {None, Empty, Content}
                            \/ \E q \in Place : dir'[q] = dir[p]
                            \/ \E q \in Op : rollback'[q] = dir[p],
           \A q \in Op : rollback[q] # None => rollback'[q] = rollback[q]
    PROVE  NothingIsLost'
<1> SUFFICES ASSUME NEW r \in saved
             PROVE  \/ \E p \in Place : dir'[p] # None /\ r \in dir'[p].rows
                    \/ \E o \in Op : rollback'[o] # None /\ r \in rollback'[o].rows
    BY DEF NothingIsLost
<1>1. r # Archived
    BY RowAssumption DEF WorkspaceTypes
<1>2. CASE \E p \in Place : dir[p] # None /\ r \in dir[p].rows
    <2>1. PICK p \in Place : dir[p] # None /\ r \in dir[p].rows
        BY <1>2
    <2>2. dir[p] \notin {None, Empty, Content}
        BY <1>1, <2>1, Workspaces
    <2> QED
        BY <2>1, <2>2
<1>3. CASE \E o \in Op : rollback[o] # None /\ r \in rollback[o].rows
    BY <1>3
<1> QED
    BY <1>2, <1>3 DEF NothingIsLost

\* The original workspace is in the rollback archive, or has no rows.
LEMMA OriginalKept ==
    ASSUME NEW o \in Op, NEW w \in Workspace \cup {None}, Original(o, w)
    PROVE  w \in {None, Empty} \/ rollback[o] = w
BY States DEF Original

\* A step of the only restore, or of a command that begins one.
LEMMA AloneFrame ==
    ASSUME Inv, NEW o \in Op, Others(o),
           \A q \in Op : Restoring(q) => q = o,
           Restoring(o)' => RestoreFits(o)',
           HonestExit', NothingIsLost'
    PROVE  AloneInv'
<1>1. \A q \in Op : q # o => ~Restoring(q)'
    BY DEF Others, Restoring
<1> QED
    BY <1>1 DEF AloneInv, OneRestore

LEMMA OnlyOne ==
    ASSUME Inv, NEW o \in Op, Restoring(o)
    PROVE  RestoreFits(o) /\ honest /\ NothingIsLost /\ \A q \in Op : Restoring(q) => q = o
BY DEF Inv, AloneInv, OneRestore, HonestExit

LEMMA RestoringAt ==
    ASSUME Inv, NEW o \in Op, op[o].pc \in Going, op[o].command = "restore"
    PROVE  Restoring(o)
BY DEF Restoring, Going

LEMMA DirTypes ==
    ASSUME WorkspaceTypes, NEW o \in Op
    PROVE  /\ dir[Target] \in Workspace \cup {None} /\ dir[Stage(o)] \in Workspace \cup {None}
           /\ dir[Previous(o)] \in Workspace \cup {None} /\ dir[Failed(o)] \in Workspace \cup {None}
           /\ op[o].snap \in Workspace /\ rollback[o] \in Workspace \cup {None}
           /\ op[o].state \in {"missing", "empty", "populated"}
BY Places DEF WorkspaceTypes, Invocation

LEMMA AloneExport ==
    ASSUME Inv, NEW o \in Op, Snapshot(o) \/ Walk(o) \/ Write(o)
    PROVE  AloneInv'
<1>1. WorkspaceTypes /\ ClosedFit /\ OpsFit
    BY DEF Inv
<1>2. /\ op'[o].pc \in {"walk", "write", "stage", "done"} /\ Others(o) /\ Kept(o)
      /\ op[o].pc \in {"idle", "rollback", "walk", "write"}
      /\ op[o].pc = "idle" => op[o].command = "backup"
      /\ op'[o].state = op[o].state /\ UNCHANGED <<dir, saved, honest>>
      /\ op'[o].pc = "walk" => /\ op'[o].snap = [Here EXCEPT !.files = {}]
                               /\ dir[Target] # None /\ op[o].pc # "walk"
      /\ op'[o].pc = "write" => op[o].pc = "walk"
             /\ op'[o].snap = [op[o].snap EXCEPT !.files = Here.files]
      /\ op'[o].pc = "stage" =>
             op[o].pc = "write" /\ rollback' = [rollback EXCEPT ![o] = op[o].snap]
      /\ \A q \in Op : rollback[q] # None => rollback'[q] = rollback[q]
      /\ \A q \in Op : q # o => rollback'[q] = rollback[q]
    BY <1>1, ExportSteps
<1>3. HonestExit'
    BY <1>2 DEF Inv, AloneInv, HonestExit
<1>4. NothingIsLost'
    BY <1>1, <1>2, NothingLostFrame DEF Inv, AloneInv
<1>5. CASE op[o].command = "backup"
    <2>1. \A q \in Op : Restoring(q)' <=> Restoring(q)
        BY <1>2, <1>5 DEF Restoring, Kept, Others
    <2>2. ASSUME NEW q \in Op, Restoring(q)
          PROVE  RestoreFits(q)'
        <3>1. q # o /\ RestoreFits(q)
            BY <1>5, <2>2 DEF Restoring, Inv, AloneInv
        <3>2. op'[q] = op[q] /\ rollback'[q] = rollback[q] /\ dir' = dir
            BY <1>2, <3>1 DEF Others
        <3> QED
            BY <3>1, <3>2 DEF RestoreFits, Original, Untouched, Before, Aside, Stage, Previous, Target
    <2> QED
        BY <1>3, <1>4, <2>1, <2>2 DEF Inv, AloneInv, OneRestore
<1>6. CASE op[o].command = "restore"
    <2>1. Restoring(o)
        BY <1>2, <1>6 DEF Restoring
    <2>2. RestoreFits(o) /\ \A q \in Op : Restoring(q) => q = o
        BY <2>1, OnlyOne
    <2>3. op[o].pc \in {"rollback", "walk", "write"}
        BY <1>2, <1>6
    <2>4. State(dir[Target]) = "populated" /\ op[o].state = "populated" /\ Untouched(o)
          /\ dir[Stage(o)] \in {None, Empty, Content}
        BY <2>2, <2>3 DEF RestoreFits
    <2>5. Here = dir[Target] /\ dir[Target] \in Workspace
        BY <1>1, <2>4, DirTypes, States DEF Here
    <2>6. op'[o].pc = "walk" => op'[o].snap = [dir'[Target] EXCEPT !.files = {}]
        BY <1>2, <2>5
    <2>7. op'[o].pc = "write" => op'[o].snap = dir'[Target]
        <3> SUFFICES ASSUME op'[o].pc = "write"
                     PROVE  op'[o].snap = dir'[Target]
            OBVIOUS
        <3>1. op'[o].snap = [op[o].snap EXCEPT !.files = Here.files]
              /\ op[o].snap = [dir[Target] EXCEPT !.files = {}]
            BY <1>2, <2>2 DEF RestoreFits
        <3> DEFINE w == dir[Target]
        <3>2. [[w EXCEPT !.files = {}] EXCEPT !.files = w.files] = w
            BY <2>5, Zenon DEF Workspace
        <3> QED
            BY <1>2, <2>5, <3>1, <3>2
    <2>8. op'[o].pc = "stage" => Before(o)'
        <3>1. op'[o].pc = "stage" => rollback'[o] = dir[Target]
            BY <1>1, <1>2, <2>2 DEF RestoreFits, WorkspaceTypes
        <3> QED
            BY <1>2, <2>4, <3>1 DEF Before, Original, Untouched, Kept, Target, Previous
    <2>9. Untouched(o)' /\ op'[o].state = op[o].state /\ dir'[Stage(o)] = dir[Stage(o)]
        BY <1>2, <2>4 DEF Untouched, Kept, Previous
    <2>10. op'[o].pc \in {"walk", "write", "stage"} => RestoreFits(o)'
        BY <1>2, <2>4, <2>6, <2>7, <2>8, <2>9 DEF RestoreFits, Stage, Target
    <2>11. Restoring(o)' => RestoreFits(o)'
        BY <1>2, <2>10 DEF Restoring
    <2> QED
        BY <1>2, <1>3, <1>4, <2>2, <2>11, AloneFrame
<1> QED
    BY <1>1, <1>5, <1>6 DEF WorkspaceTypes, Invocation

\* A step of the restore under way.
LEMMA AloneRestore ==
    ASSUME Inv, NEW o \in Op, op[o].pc \in Going, op[o].command = "restore", Others(o),
           Restoring(o)' => RestoreFits(o)', honest', NothingIsLost'
    PROVE  AloneInv'
BY RestoringAt, OnlyOne, AloneFrame DEF HonestExit

\* The previous workspace is the original one wherever it is.
LEMMA PreviousIsOriginal ==
    ASSUME NEW o \in Op, RestoreFits(o), op[o].pc \in Going
    PROVE  dir[Previous(o)] = None \/ Original(o, dir[Previous(o)])
BY DEF RestoreFits, Untouched, Before, Aside, Going

\* A step that leaves every restore where it is.
LEMMA AloneSame ==
    ASSUME Inv, UNCHANGED <<dir, op, rollback>>, NothingIsLost', honest'
    PROVE  AloneInv'
<1>1. \A o \in Op : Restoring(o)' <=> Restoring(o)
    BY DEF Restoring
<1>2. ASSUME NEW o \in Op, RestoreFits(o)
      PROVE  RestoreFits(o)'
    BY <1>2 DEF RestoreFits, Original, Untouched, Before, Aside, Stage, Previous, Target
<1> QED
    BY <1>1, <1>2 DEF Inv, AloneInv, OneRestore, HonestExit

\* A step that moves a directory, or removes one that is empty, fresh or archived.
LEMMA MoveLosesNothing ==
    ASSUME WorkspaceTypes, NothingIsLost, UNCHANGED <<saved, rollback>>,
           NEW p \in Place, NEW q \in Place, p # q, Moves(p, q)
    PROVE  NothingIsLost'
<1>1. \A r \in Place : dir[r] \in {None, Empty, Content} \/ \E t \in Place : dir'[t] = dir[r]
    BY DEF Moves
<1> QED
    BY <1>1, NothingLostFrame

LEMMA SetLosesNothing ==
    ASSUME WorkspaceTypes, NothingIsLost, UNCHANGED <<saved, rollback>>,
           NEW p \in Place, NEW w, Sets(p, w),
           dir[p] \in {None, Empty, Content} \/ \E o \in Op : rollback[o] = dir[p]
    PROVE  NothingIsLost'
<1>1. \A r \in Place : \/ dir[r] \in {None, Empty, Content}
                       \/ \E t \in Place : dir'[t] = dir[r]
                       \/ \E o \in Op : rollback'[o] = dir[r]
    BY DEF Sets
<1> QED
    BY <1>1, NothingLostFrame

LEMMA SameLosesNothing ==
    ASSUME WorkspaceTypes, NothingIsLost, UNCHANGED <<saved, rollback, dir>>
    PROVE  NothingIsLost'
BY NothingLostFrame

\* A restore begins only when no other is under way.
LEMMA AlonePreflight ==
    ASSUME Inv, ~Overlap, NEW o \in Op, Preflight(o)
    PROVE  AloneInv'
<1>1. /\ WorkspaceTypes /\ OpsFit /\ At(o, "idle") /\ MayChange /\ Others(o) /\ Kept(o)
      /\ UNCHANGED <<dir, rollback, saved, honest>>
      /\ \/ op'[o].pc = "done"
         \/ op'[o].pc = "preflight" /\ op'[o].state = State(dir[Target])
    BY PreflightSteps DEF Inv
<1>2. \A q \in Op : ~Restoring(q)
    BY <1>1 DEF MayChange
<1>3. dir[Previous(o)] = None /\ dir[Stage(o)] = None /\ ~op[o].moved
    BY <1>1 DEF OpsFit, At
<1>4. op'[o].pc = "preflight" => RestoreFits(o)'
    BY <1>1, <1>3 DEF RestoreFits, Untouched, Kept, Stage, Previous, Target
<1>5. Restoring(o)' => RestoreFits(o)'
    BY <1>1, <1>4 DEF Restoring
<1>6. honest' /\ NothingIsLost'
    BY <1>1, SameLosesNothing DEF Inv, AloneInv, HonestExit
<1> QED
    BY <1>1, <1>2, <1>5, <1>6, AloneFrame DEF HonestExit

\* The facts a step of the restore starts from.
LEMMA AloneStart ==
    ASSUME Inv, NEW o \in Op, op[o].pc \in Going \ {"walk", "write"}
    PROVE  /\ WorkspaceTypes /\ ClosedFit /\ OpsFit /\ op[o].command = "restore"
           /\ RestoreFits(o) /\ honest /\ NothingIsLost
BY ARestore, RestoringAt, OnlyOne DEF Inv

LEMMA AloneCheckActive ==
    ASSUME Inv, NEW o \in Op, CheckActive(o)
    PROVE  AloneInv'
<1>1. /\ At(o, "preflight") /\ UNCHANGED <<rollback, saved, dir, honest>>
      /\ \/ Goes(o, "done")
         \/ Goes(o, "rollback") /\ op[o].state = "populated"
         \/ Goes(o, "stage") /\ op[o].state # "populated"
    BY CheckActiveStep DEF Inv
<1>2. op[o].pc \in Going /\ op[o].pc \in Going \ {"walk", "write"}
    BY <1>1 DEF At, Going
<1>3. /\ WorkspaceTypes /\ op[o].command = "restore" /\ RestoreFits(o)
      /\ honest /\ NothingIsLost /\ Others(o)
    BY <1>1, <1>2, AloneStart DEF Goes
<1>4. State(dir[Target]) = op[o].state /\ Untouched(o) /\ dir[Stage(o)] \in {None, Empty, Content}
    BY <1>1, <1>3 DEF RestoreFits, At
<1>5. State(dir[Target])' = op'[o].state /\ Untouched(o)' /\ dir'[Stage(o)] \in {None, Empty, Content}
    BY <1>1, <1>4 DEF Goes, Kept, Untouched, Target, Previous
<1>6. op'[o].pc = "stage" => Before(o)'
    BY <1>1, <1>5 DEF Goes, Before, Original
<1>7. op'[o].pc = "rollback" => op'[o].state = "populated"
    BY <1>1 DEF Goes
<1>8. op'[o].pc \in {"rollback", "stage", "done"}
    BY <1>1 DEF Goes
<1>9. Restoring(o)' => RestoreFits(o)'
    BY <1>5, <1>6, <1>7, <1>8 DEF RestoreFits, Restoring, Target, Stage
<1> QED
    BY <1>1, <1>2, <1>3, <1>9, AloneRestore, SameLosesNothing

LEMMA AloneVerify ==
    ASSUME Inv, NEW o \in Op, Verify(o)
    PROVE  AloneInv'
<1>1. /\ At(o, "stage") /\ UNCHANGED <<rollback, saved, honest>>
      /\ \/ Goes(o, "done") /\ UNCHANGED dir
         \/ Goes(o, "unpack") /\ Sets(Stage(o), Empty)
    BY VerifyStep DEF Inv
<1>2. op[o].pc \in Going /\ op[o].pc \in Going \ {"walk", "write"}
    BY <1>1 DEF At, Going
<1>3. /\ WorkspaceTypes /\ op[o].command = "restore" /\ RestoreFits(o)
      /\ honest /\ NothingIsLost /\ Others(o)
    BY <1>1, <1>2, AloneStart DEF Goes
<1>4. Before(o) /\ dir[Stage(o)] \in {None, Empty, Content}
    BY <1>1, <1>3 DEF RestoreFits, At
<1>5. CASE Goes(o, "done") /\ UNCHANGED dir
    <2>1. ~Restoring(o)' /\ NothingIsLost'
        BY <1>1, <1>3, <1>5, SameLosesNothing DEF Goes, Restoring
    <2> QED
        BY <1>1, <1>2, <1>3, <2>1, AloneRestore
<1>6. CASE Goes(o, "unpack") /\ Sets(Stage(o), Empty)
    <2>1. /\ dir'[Target] = dir[Target] /\ dir'[Previous(o)] = dir[Previous(o)]
          /\ dir'[Stage(o)] = Empty /\ op'[o].pc = "unpack"
        BY <1>6, Places DEF Sets, Goes
    <2>2. Before(o)'
        BY <1>1, <1>4, <1>6, <2>1 DEF Before, Original, Untouched, Goes, Kept, Target, Previous
    <2>3. RestoreFits(o)'
        BY <2>1, <2>2 DEF RestoreFits, Stage
    <2>4. NothingIsLost'
        BY <1>1, <1>3, <1>4, <1>6, Places, SetLosesNothing
    <2> QED
        BY <1>1, <1>2, <1>3, <2>3, <2>4, AloneRestore
<1> QED
    BY <1>1, <1>5, <1>6

LEMMA AloneUnpack ==
    ASSUME Inv, NEW o \in Op, Unpack(o)
    PROVE  AloneInv'
<1>1. /\ At(o, "unpack") /\ UNCHANGED <<rollback, saved, honest>>
      /\ \/ Goes(o, "done") /\ Sets(Stage(o), None)
         \/ Goes(o, "out") /\ Sets(Stage(o), Content)
    BY UnpackStep DEF Inv
<1>2. op[o].pc \in Going /\ op[o].pc \in Going \ {"walk", "write"}
    BY <1>1 DEF At, Going
<1>3. /\ WorkspaceTypes /\ op[o].command = "restore" /\ RestoreFits(o)
      /\ honest /\ NothingIsLost /\ Others(o)
    BY <1>1, <1>2, AloneStart DEF Goes
<1>4. Before(o) /\ dir[Stage(o)] \in {None, Empty, Content}
    BY <1>1, <1>3 DEF RestoreFits, At
<1>5. NothingIsLost'
    BY <1>1, <1>3, <1>4, Places, SetLosesNothing
<1>6. CASE Goes(o, "done")
    BY <1>1, <1>2, <1>3, <1>5, <1>6, AloneRestore DEF Goes, Restoring
<1>7. CASE Goes(o, "out") /\ Sets(Stage(o), Content)
    <2>1. /\ dir'[Target] = dir[Target] /\ dir'[Previous(o)] = dir[Previous(o)]
          /\ dir'[Stage(o)] = Content /\ op'[o].pc = "out"
        BY <1>7, Places DEF Sets, Goes
    <2>2. Before(o)'
        BY <1>1, <1>4, <1>7, <2>1 DEF Before, Original, Untouched, Goes, Kept, Target, Previous
    <2>3. RestoreFits(o)'
        BY <2>1, <2>2 DEF RestoreFits, Stage
    <2> QED
        BY <1>1, <1>2, <1>3, <1>5, <2>3, AloneRestore
<1> QED
    BY <1>1, <1>6, <1>7

LEMMA AloneSwapOut ==
    ASSUME Inv, NEW o \in Op, SwapOut(o)
    PROVE  AloneInv'
<1>1. /\ At(o, "out") /\ UNCHANGED <<rollback, saved, honest>> /\ Others(o)
      /\ op'[o].state = op[o].state
      /\ \/ dir[Target] = None /\ Goes(o, "in") /\ UNCHANGED dir
         \/ op'[o].pc = "in" /\ op'[o].moved /\ Moves(Target, Previous(o))
         \/ Goes(o, "undo") /\ UNCHANGED dir
    BY SwapOutStep DEF Inv
<1>2. op[o].pc \in Going /\ op[o].pc \in Going \ {"walk", "write"}
    BY <1>1 DEF At, Going
<1>3. /\ WorkspaceTypes /\ op[o].command = "restore" /\ RestoreFits(o)
      /\ honest /\ NothingIsLost
    BY <1>2, AloneStart
<1>4. Before(o) /\ dir[Stage(o)] = Content
    BY <1>1, <1>3 DEF RestoreFits, At
<1>5. CASE UNCHANGED dir /\ ((dir[Target] = None /\ Goes(o, "in")) \/ Goes(o, "undo"))
    <2>1. Before(o)' /\ dir'[Stage(o)] = Content
        BY <1>1, <1>4, <1>5 DEF Before, Original, Untouched, Goes, Kept, Target, Previous, Stage
    <2>2. RestoreFits(o)'
        <3>1. CASE op'[o].pc = "in" /\ dir'[Target] = None
            BY <2>1, <3>1 DEF RestoreFits, Stage, Target
        <3>2. CASE op'[o].pc = "undo"
            BY <2>1, <3>2 DEF RestoreFits, Stage, Target
        <3> QED
            BY <1>5, <3>1, <3>2 DEF Goes
    <2>3. NothingIsLost'
        BY <1>1, <1>3, <1>5, SameLosesNothing
    <2> QED
        BY <1>1, <1>2, <1>3, <2>2, <2>3, AloneRestore
<1>6. CASE op'[o].pc = "in" /\ op'[o].moved /\ Moves(Target, Previous(o))
    <2>1. /\ dir'[Previous(o)] = dir[Target] /\ dir'[Target] = None /\ dir[Target] # None
          /\ dir'[Stage(o)] = dir[Stage(o)]
        BY <1>6, Places DEF Moves
    <2>2. Aside(o)'
        BY <1>1, <1>4, <1>6, <2>1 DEF Before, Aside, Original, Previous
    <2>3. RestoreFits(o)'
        BY <1>4, <1>6, <2>1, <2>2 DEF RestoreFits, Stage, Target
    <2>4. NothingIsLost'
        BY <1>1, <1>3, <1>6, Places, MoveLosesNothing
    <2> QED
        BY <1>1, <1>2, <1>3, <2>3, <2>4, AloneRestore
<1> QED
    BY <1>1, <1>5, <1>6

LEMMA AloneSwapIn ==
    ASSUME Inv, NEW o \in Op, SwapIn(o)
    PROVE  AloneInv'
<1>1. /\ At(o, "in") /\ UNCHANGED <<rollback, saved, honest>>
      /\ \/ Goes(o, "sync") /\ Moves(Stage(o), Target)
         \/ Goes(o, "undo") /\ UNCHANGED dir
    BY SwapInStep DEF Inv
<1>2. op[o].pc \in Going /\ op[o].pc \in Going \ {"walk", "write"}
    BY <1>1 DEF At, Going
<1>3. /\ WorkspaceTypes /\ op[o].command = "restore" /\ RestoreFits(o)
      /\ honest /\ NothingIsLost /\ Others(o)
    BY <1>1, <1>2, AloneStart DEF Goes
<1>4. dir[Stage(o)] = Content /\ dir[Target] = None /\ (Before(o) \/ Aside(o))
    BY <1>1, <1>3 DEF RestoreFits, At
<1>5. CASE Goes(o, "undo") /\ UNCHANGED dir
    <2>1. (Before(o) \/ Aside(o))' /\ dir'[Stage(o)] = Content /\ dir'[Target] = None
        BY <1>1, <1>4, <1>5
        DEF Before, Aside, Original, Untouched, Goes, Kept, Target, Previous, Stage
    <2>2. op'[o].pc = "undo"
        BY <1>5 DEF Goes
    <2>3. RestoreFits(o)'
        BY <2>1, <2>2 DEF RestoreFits, Stage, Target
    <2>4. NothingIsLost'
        BY <1>1, <1>3, <1>5, SameLosesNothing
    <2> QED
        BY <1>1, <1>2, <1>3, <2>3, <2>4, AloneRestore
<1>6. CASE Goes(o, "sync") /\ Moves(Stage(o), Target)
    <2>1. /\ dir'[Target] = Content /\ dir'[Stage(o)] = None
          /\ dir'[Previous(o)] = dir[Previous(o)] /\ op'[o].pc = "sync"
        BY <1>4, <1>6, Places DEF Moves, Goes
    <2>2. (Original(o, None)' /\ Untouched(o)') \/ Aside(o)'
        BY <1>1, <1>4, <1>6, <2>1
        DEF Before, Aside, Original, Untouched, Goes, Kept, Previous
    <2>3. RestoreFits(o)'
        BY <2>1, <2>2 DEF RestoreFits, Stage, Target
    <2>4. NothingIsLost'
        BY <1>1, <1>3, <1>6, Places, MoveLosesNothing
    <2> QED
        BY <1>1, <1>2, <1>3, <2>3, <2>4, AloneRestore
<1> QED
    BY <1>1, <1>5, <1>6

LEMMA AloneSync ==
    ASSUME Inv, NEW o \in Op, Sync(o)
    PROVE  AloneInv'
<1>1. /\ At(o, "sync") /\ UNCHANGED <<rollback, saved>>
      /\ \/ /\ Goes(o, "done") /\ Sets(Previous(o), None)
            /\ honest' = (honest /\ dir[Target] = Content)
         \/ Goes(o, "undo") /\ UNCHANGED <<dir, honest>>
    BY SyncStep DEF Inv
<1>2. op[o].pc \in Going /\ op[o].pc \in Going \ {"walk", "write"}
    BY <1>1 DEF At, Going
<1>3. /\ WorkspaceTypes /\ op[o].command = "restore" /\ RestoreFits(o)
      /\ honest /\ NothingIsLost /\ Others(o)
    BY <1>1, <1>2, AloneStart DEF Goes
<1>4. /\ dir[Target] = Content /\ dir[Stage(o)] = None
      /\ Aside(o) \/ (Original(o, None) /\ Untouched(o))
    BY <1>1, <1>3 DEF RestoreFits, At
<1>5. honest'
    BY <1>1, <1>3, <1>4
<1>6. CASE Goes(o, "done") /\ Sets(Previous(o), None)
    <2>1. dir[Previous(o)] \in {None, Empty} \/ rollback[o] = dir[Previous(o)]
        BY <1>2, <1>3, PreviousIsOriginal, OriginalKept, DirTypes
    <2>2. NothingIsLost'
        BY <1>1, <1>3, <1>6, <2>1, Places, SetLosesNothing
    <2> QED
        BY <1>2, <1>3, <1>5, <1>6, <2>2, AloneRestore DEF Goes, Restoring
<1>7. CASE Goes(o, "undo") /\ UNCHANGED dir
    <2>1. /\ dir'[Target] = Content /\ dir'[Stage(o)] = None
          /\ Aside(o)' \/ (Original(o, None)' /\ Untouched(o)')
        BY <1>1, <1>4, <1>7
        DEF Aside, Original, Untouched, Goes, Kept, Previous, Target, Stage
    <2>2. op'[o].pc = "undo"
        BY <1>7 DEF Goes
    <2>3. RestoreFits(o)'
        BY <2>1, <2>2 DEF RestoreFits, Stage, Target
    <2>4. NothingIsLost'
        BY <1>1, <1>3, <1>7, SameLosesNothing
    <2> QED
        BY <1>2, <1>3, <1>5, <2>3, <2>4, AloneRestore
<1> QED
    BY <1>1, <1>6, <1>7

LEMMA AloneUndo ==
    ASSUME Inv, NEW o \in Op, Undo(o)
    PROVE  AloneInv'
<1>1. /\ At(o, "undo") /\ UNCHANGED <<rollback, saved, honest>>
      /\ \/ op[o].moved /\ dir[Target] = None /\ Goes(o, "back") /\ UNCHANGED dir
         \/ op[o].moved /\ Goes(o, "back") /\ Moves(Target, Failed(o))
         \/ /\ ~op[o].moved /\ dir[Stage(o)] = None
            /\ Goes(o, "resync") /\ Moves(Target, Stage(o))
         \/ /\ ~op[o].moved /\ (dir[Stage(o)] # None \/ dir[Target] = None)
            /\ Goes(o, "remove") /\ UNCHANGED dir
         \/ Goes(o, "done") /\ UNCHANGED dir
    BY UndoStep DEF Inv
<1>2. op[o].pc \in Going /\ op[o].pc \in Going \ {"walk", "write"}
    BY <1>1 DEF At, Going
<1>3. /\ WorkspaceTypes /\ op[o].command = "restore" /\ RestoreFits(o)
      /\ honest /\ NothingIsLost /\ Others(o)
    BY <1>1, <1>2, AloneStart DEF Goes
<1>4. /\ \/ Before(o) /\ dir[Stage(o)] = Content
         \/ Aside(o)
         \/ /\ dir[Target] = Content /\ dir[Stage(o)] = None
            /\ Original(o, None) /\ Untouched(o)
      /\ dir[Stage(o)] \in {None, Empty, Content}
    BY <1>1, <1>3 DEF RestoreFits, At
<1>5. CASE /\ op[o].moved /\ Goes(o, "back")
           /\ Moves(Target, Failed(o)) \/ (dir[Target] = None /\ UNCHANGED dir)
    <2>1. /\ dir'[Target] = None /\ dir'[Stage(o)] = dir[Stage(o)]
          /\ dir'[Previous(o)] = dir[Previous(o)] /\ op'[o].pc = "back"
        BY <1>5, Places DEF Moves, Goes
    <2>2. Aside(o)
        BY <1>4, <1>5 DEF Before, Untouched
    <2>3. Aside(o)'
        BY <1>1, <1>5, <2>1, <2>2 DEF Aside, Original, Goes, Kept, Previous
    <2>4. RestoreFits(o)'
        BY <1>4, <2>1, <2>3 DEF RestoreFits, Stage, Target
    <2>5. NothingIsLost'
        BY <1>1, <1>3, <1>5, Places, MoveLosesNothing, SameLosesNothing
    <2> QED
        BY <1>1, <1>2, <1>3, <2>4, <2>5, AloneRestore
<1>6. CASE /\ ~op[o].moved /\ dir[Stage(o)] = None
           /\ Goes(o, "resync") /\ Moves(Target, Stage(o))
    <2>1. dir[Target] = Content /\ Original(o, None) /\ Untouched(o)
        BY <1>4, <1>6, Workspaces DEF Aside
    <2>2. /\ dir'[Target] = None /\ dir'[Stage(o)] = Content
          /\ dir'[Previous(o)] = None /\ op'[o].pc = "resync" /\ ~op'[o].moved
        BY <1>6, <2>1, Places DEF Moves, Goes, Kept, Untouched
    <2>3. Original(o, dir[Target])'
        BY <1>1, <1>6, <2>1, <2>2 DEF Original, Goes, Target
    <2>4. RestoreFits(o)'
        BY <2>2, <2>3 DEF RestoreFits, Stage, Target, Previous
    <2>5. NothingIsLost'
        BY <1>1, <1>3, <1>6, Places, MoveLosesNothing
    <2> QED
        BY <1>1, <1>2, <1>3, <2>4, <2>5, AloneRestore
<1>7. CASE /\ ~op[o].moved /\ (dir[Stage(o)] # None \/ dir[Target] = None)
           /\ Goes(o, "remove") /\ UNCHANGED dir
    <2>1. Before(o)
        BY <1>4, <1>7, Workspaces DEF Aside
    <2>2. Original(o, dir[Target])' /\ dir'[Previous(o)] = None /\ op'[o].pc = "remove"
          /\ dir'[Stage(o)] \in {None, Empty, Content}
        BY <1>1, <1>4, <1>7, <2>1 DEF Before, Original, Untouched, Goes, Target
    <2>3. RestoreFits(o)'
        BY <2>2 DEF RestoreFits, Stage, Target, Previous
    <2>4. NothingIsLost'
        BY <1>1, <1>3, <1>7, SameLosesNothing
    <2> QED
        BY <1>1, <1>2, <1>3, <2>3, <2>4, AloneRestore
<1>8. CASE Goes(o, "done") /\ UNCHANGED dir
    <2>1. ~Restoring(o)' /\ NothingIsLost'
        BY <1>1, <1>3, <1>8, SameLosesNothing DEF Goes, Restoring
    <2> QED
        BY <1>1, <1>2, <1>3, <2>1, AloneRestore
<1> QED
    BY <1>1, <1>5, <1>6, <1>7, <1>8

LEMMA AlonePutBack ==
    ASSUME Inv, NEW o \in Op, PutBack(o)
    PROVE  AloneInv'
<1>1. /\ At(o, "back") /\ UNCHANGED <<rollback, saved, honest>>
      /\ \/ Goes(o, "resync") /\ Moves(Previous(o), Target)
         \/ Goes(o, "done") /\ UNCHANGED dir
    BY PutBackStep DEF Inv
<1>2. op[o].pc \in Going /\ op[o].pc \in Going \ {"walk", "write"}
    BY <1>1 DEF At, Going
<1>3. /\ WorkspaceTypes /\ op[o].command = "restore" /\ RestoreFits(o)
      /\ honest /\ NothingIsLost /\ Others(o)
    BY <1>1, <1>2, AloneStart DEF Goes
<1>4. Aside(o) /\ dir[Stage(o)] \in {None, Empty, Content}
    BY <1>1, <1>3 DEF RestoreFits, At
<1>5. CASE Goes(o, "resync") /\ Moves(Previous(o), Target)
    <2>1. /\ dir'[Target] = dir[Previous(o)] /\ dir'[Target] # None /\ dir'[Previous(o)] = None
          /\ dir'[Stage(o)] = dir[Stage(o)] /\ op'[o].pc = "resync"
        BY <1>5, Places DEF Moves, Goes
    <2>2. Original(o, dir[Target])'
        BY <1>1, <1>4, <1>5, <2>1 DEF Aside, Original, Goes, Target
    <2>3. RestoreFits(o)'
        BY <1>4, <2>1, <2>2 DEF RestoreFits, Stage, Target, Previous
    <2>4. NothingIsLost'
        BY <1>1, <1>3, <1>5, Places, MoveLosesNothing
    <2> QED
        BY <1>1, <1>2, <1>3, <2>3, <2>4, AloneRestore
<1>6. CASE Goes(o, "done") /\ UNCHANGED dir
    <2>1. ~Restoring(o)' /\ NothingIsLost'
        BY <1>1, <1>3, <1>6, SameLosesNothing DEF Goes, Restoring
    <2> QED
        BY <1>1, <1>2, <1>3, <2>1, AloneRestore
<1> QED
    BY <1>1, <1>5, <1>6

LEMMA AloneResync ==
    ASSUME Inv, NEW o \in Op, Resync(o)
    PROVE  AloneInv'
<1>1. /\ At(o, "resync") /\ UNCHANGED <<rollback, saved, honest, dir>>
      /\ Goes(o, "remove") \/ Goes(o, "done")
    BY ResyncStep DEF Inv
<1>2. op[o].pc \in Going /\ op[o].pc \in Going \ {"walk", "write"}
    BY <1>1 DEF At, Going
<1>3. /\ WorkspaceTypes /\ op[o].command = "restore" /\ RestoreFits(o)
      /\ honest /\ NothingIsLost /\ Others(o)
    BY <1>1, <1>2, AloneStart DEF Goes
<1>4. Original(o, dir[Target]) /\ dir[Previous(o)] = None /\ dir[Stage(o)] \in {None, Empty, Content}
    BY <1>1, <1>3 DEF RestoreFits, At
<1>5. Original(o, dir[Target])' /\ dir'[Previous(o)] = None /\ dir'[Stage(o)] \in {None, Empty, Content}
    BY <1>1, <1>4 DEF Original, Goes, Target
<1>6. op'[o].pc \in {"remove", "done"}
    BY <1>1 DEF Goes
<1>7. Restoring(o)' => RestoreFits(o)'
    BY <1>5, <1>6 DEF RestoreFits, Restoring, Stage, Target, Previous
<1>8. NothingIsLost'
    BY <1>1, <1>3, SameLosesNothing
<1> QED
    BY <1>1, <1>2, <1>3, <1>7, <1>8, AloneRestore

LEMMA AloneRemove ==
    ASSUME Inv, NEW o \in Op, Remove(o)
    PROVE  AloneInv'
<1>1. /\ At(o, "remove") /\ UNCHANGED <<rollback, saved>> /\ Goes(o, "done")
      /\ honest' = (honest /\ Original(o, dir[Target]))
      /\ \A p \in Place : \/ dir'[p] = dir[p]
                          \/ p \in {Stage(o), Previous(o)} /\ dir'[p] = None
    BY RemoveStep DEF Inv
<1>2. op[o].pc \in Going /\ op[o].pc \in Going \ {"walk", "write"}
    BY <1>1 DEF At, Going
<1>3. /\ WorkspaceTypes /\ op[o].command = "restore" /\ RestoreFits(o)
      /\ honest /\ NothingIsLost /\ Others(o)
    BY <1>1, <1>2, AloneStart DEF Goes
<1>4. Original(o, dir[Target]) /\ dir[Previous(o)] = None /\ dir[Stage(o)] \in {None, Empty, Content}
    BY <1>1, <1>3 DEF RestoreFits, At
<1>5. honest' /\ ~Restoring(o)'
    BY <1>1, <1>3, <1>4 DEF Goes, Restoring
<1>6. \A p \in Place : dir[p] \in {None, Empty, Content} \/ \E q \in Place : dir'[q] = dir[p]
    BY <1>1, <1>4
<1>7. NothingIsLost'
    BY <1>1, <1>3, <1>6, NothingLostFrame
<1> QED
    BY <1>2, <1>3, <1>5, <1>7, AloneRestore

\* A restore that is stopped may remove the previous workspace: then its
\* rows are in the rollback archive.
LEMMA AloneStop ==
    ASSUME Inv, NEW o \in Op, Stop(o)
    PROVE  AloneInv'
<1>1. /\ op[o].pc \in Going /\ UNCHANGED <<rollback, saved, honest>>
      /\ Others(o) /\ op'[o].command = op[o].command /\ op'[o].pc \in {"done", "dead"}
      /\ UNCHANGED dir \/ Sets(Previous(o), None)
    BY StopStep DEF Inv
<1>2. ~Restoring(o)'
    BY <1>1 DEF Restoring
<1>3. WorkspaceTypes /\ OpsFit /\ NothingIsLost /\ honest
    BY DEF Inv, AloneInv, HonestExit
<1>4. CASE op[o].command = "restore"
    <2>1. RestoreFits(o)
        BY <1>1, <1>4, RestoringAt, OnlyOne
    <2>2. dir[Previous(o)] \in {None, Empty} \/ rollback[o] = dir[Previous(o)]
        BY <1>1, <1>3, <2>1, PreviousIsOriginal, OriginalKept, DirTypes
    <2>3. NothingIsLost'
        BY <1>1, <1>3, <2>2, Places, SetLosesNothing, SameLosesNothing
    <2> QED
        BY <1>1, <1>2, <1>3, <1>4, <2>3, AloneRestore
<1>5. CASE op[o].command = "backup"
    <2>1. \A p \in Place : dir'[p] = dir[p]
        BY <1>1, <1>3, <1>5 DEF OpsFit, Sets
    <2>2. NothingIsLost'
        BY <1>1, <1>3, <2>1, NothingLostFrame
    <2>3. \A q \in Op : Restoring(q)' => q # o /\ Restoring(q)
        BY <1>1, <1>2 DEF Restoring, Others
    <2>4. ASSUME NEW q \in Op, Restoring(q)'
          PROVE  RestoreFits(q)'
        <3>1. q # o /\ RestoreFits(q)
            BY <2>3, <2>4 DEF Inv, AloneInv
        <3>2. /\ op'[q] = op[q] /\ rollback' = rollback /\ dir'[Target] = dir[Target]
              /\ dir'[Stage(q)] = dir[Stage(q)] /\ dir'[Previous(q)] = dir[Previous(q)]
            BY <1>1, <2>1, <3>1, Places DEF Others
        <3> QED
            BY <3>1, <3>2 DEF RestoreFits, Original, Untouched, Before, Aside, Stage, Previous, Target
    <2> QED
        BY <1>1, <1>3, <2>2, <2>3, <2>4 DEF Inv, AloneInv, OneRestore, HonestExit
<1> QED
    BY <1>3, <1>4, <1>5 DEF WorkspaceTypes, Invocation

\* The application stores and deletes rows only while no restore is under way.
LEMMA AloneUse ==
    ASSUME Inv, ~Overlap, NEW r \in Row, Use(r)
    PROVE  AloneInv'
<1>1. /\ MayChange /\ UNCHANGED <<op, rollback, honest>>
      /\ \A p \in Place : p # Target => dir'[p] = dir[p]
      /\ dir'[Target] # None
      /\ \/ dir'[Target].rows = Here.rows /\ saved' = saved
         \/ dir'[Target].rows = Here.rows \cup {r} /\ saved' = saved \cup {r}
         \/ dir'[Target].rows = Here.rows \ {r} /\ saved' = saved \ {r}
    BY UseStep, Workspaces DEF Inv
<1>2. \A o \in Op : ~Restoring(o)'
    BY <1>1 DEF MayChange, Restoring
<1>3. NothingIsLost'
    <2> SUFFICES ASSUME NEW x \in saved'
                 PROVE  \/ \E p \in Place : dir'[p] # None /\ x \in dir'[p].rows
                        \/ \E o \in Op : rollback'[o] # None /\ x \in rollback'[o].rows
        BY DEF NothingIsLost
    <2>1. CASE x \in dir'[Target].rows
        BY <1>1, <2>1, Places
    <2>2. CASE x \notin dir'[Target].rows
        <3>1. x \in saved /\ x \notin Here.rows
            BY <1>1, <2>2
        <3>2. dir[Target] # None => x \notin dir[Target].rows
            BY <3>1 DEF Here
        <3>3. \/ \E p \in Place : p # Target /\ dir[p] # None /\ x \in dir[p].rows
              \/ \E o \in Op : rollback[o] # None /\ x \in rollback[o].rows
            BY <3>1, <3>2 DEF Inv, AloneInv, NothingIsLost
        <3> QED
            BY <1>1, <3>3
    <2> QED
        BY <2>1, <2>2
<1> QED
    BY <1>1, <1>2, <1>3 DEF Inv, AloneInv, OneRestore, HonestExit

LEMMA AloneOutside ==
    ASSUME Inv, StartApp \/ QuitApp \/ Tamper
    PROVE  AloneInv'
<1>1. UNCHANGED <<dir, op, rollback, saved, honest>>
    BY OutsideSteps DEF Inv
<1>2. NothingIsLost' /\ honest'
    BY <1>1, SameLosesNothing DEF Inv, AloneInv, HonestExit
<1> QED
    BY <1>1, <1>2, AloneSame

-----------------------------------------------------------------------------
(* Whatever is found has its files *)

LEMMA WholeUse ==
    ASSUME Inv, WholeFit, ~Overlap, NEW r \in Row, Use(r)
    PROVE  WholeFit'
<1> DEFINE w == dir'[Target]
<1>1. /\ app /\ MayChange /\ UNCHANGED <<app, op>>
      /\ \A p \in Place : p # Target => dir'[p] = dir[p]
      /\ w \in Workspace /\ w # None
      /\ \/ /\ w.files = Here.files \cup {r} /\ ready' = ready \cup {r}
            /\ w.rows = Here.rows
         \/ /\ r \in ready /\ w.files = Here.files /\ ready' = ready \ {r}
            /\ w.rows = Here.rows \cup {r}
         \/ /\ w.files = Here.files /\ ready' = ready /\ w.rows = Here.rows \ {r}
         \/ /\ r \notin Here.rows \cup ready /\ w.files = Here.files \ {r}
            /\ w.rows = Here.rows /\ ready' = ready
    BY UseStep, Workspaces DEF Inv
<1>2. Here.rows \subseteq Here.files /\ ready \subseteq Here.files
    BY Places, Workspaces DEF WholeFit, HasItsFiles, Here, Closed
<1> HIDE DEF w
<1>3. w.rows \subseteq w.files /\ ready' \subseteq w.files
    BY <1>1, <1>2
<1>4. Here' = w
    BY <1>1 DEF Here, w
<1>5. \A p \in Place : HasItsFiles(dir'[p])
    BY <1>1, <1>3 DEF WholeFit, HasItsFiles, Closed, w
<1>6. \A o \in Op : ~Restoring(o)'
    BY <1>1 DEF MayChange, Restoring
<1> QED
    BY <1>1, <1>3, <1>4, <1>5, <1>6 DEF WholeFit, HasItsFiles

LEMMA WholeOutside ==
    ASSUME Inv, WholeFit, ~Overlap, StartApp \/ QuitApp \/ Tamper
    PROVE  WholeFit'
<1>1. UNCHANGED <<dir, op>>
    BY OutsideSteps DEF Inv
<1>2. Here' = Here
    BY <1>1 DEF Here
<1>3. ready' \subseteq ready /\ (ready' # {} => app')
    BY DEF StartApp, QuitApp, Tamper, WholeFit
<1>4. \A o \in Op : Restoring(o)' /\ op'[o].pc # "preflight" => ~app'
    BY <1>1 DEF StartApp, QuitApp, Tamper, WholeFit, Restoring, MayChange
<1> QED
    BY <1>1, <1>2, <1>3, <1>4 DEF WholeFit, HasItsFiles, Closed

\* A step of a command: once past the look at the runtime lock, nobody else
\* is about to insert a row.
LEMMA WholeStep ==
    ASSUME Inv, WholeFit, NEW o \in Op, Others(o), UNCHANGED <<app, ready>>,
           op'[o].command = op[o].command, FromBefore,
           dir'[Target] = dir[Target] \/ (Restoring(o) /\ op[o].pc # "preflight"),
           op'[o].command = "restore" /\ op'[o].pc \notin {"idle", "preflight", "done", "dead"} =>
               ~app
    PROVE  WholeFit'
<1>1. \A p \in Place : HasItsFiles(dir'[p])
    BY Workspaces DEF FromBefore, WholeFit, HasItsFiles
<1>2. ready \subseteq Here'.files
    <2>1. CASE dir'[Target] = dir[Target]
        BY <2>1 DEF WholeFit, Here
    <2>2. CASE Restoring(o) /\ op[o].pc # "preflight"
        BY <2>2 DEF WholeFit
    <2> QED
        BY <2>1, <2>2
<1>3. \A q \in Op : Restoring(q)' /\ op'[q].pc # "preflight" => ~app
    <2> TAKE q \in Op
    <2>1. CASE q = o
        BY <2>1 DEF Restoring
    <2>2. CASE q # o
        BY <2>2 DEF Restoring, Others, WholeFit
    <2> QED
        BY <2>1, <2>2
<1> QED
    BY <1>1, <1>2, <1>3 DEF WholeFit, HasItsFiles, Closed

LEMMA SameBefore == ASSUME UNCHANGED dir PROVE FromBefore
BY DEF FromBefore

LEMMA SetsBefore ==
    ASSUME NEW p \in Place, NEW w \in {None, Empty, Content}, Sets(p, w)
    PROVE  FromBefore
BY DEF FromBefore, Sets

LEMMA MovesBefore ==
    ASSUME NEW p \in Place, NEW q \in Place, Moves(p, q)
    PROVE  FromBefore
BY DEF FromBefore, Moves

LEMMA WholeCommand ==
    ASSUME Inv, WholeFit, NEW o \in Op, Step(o) \/ Stop(o)
    PROVE  WholeFit'
<1>1. WorkspaceTypes /\ ClosedFit /\ OpsFit
    BY DEF Inv
<1>2. UNCHANGED <<app, ready>>
    BY DEF Step, Stop, Snapshot, Walk, Write, Preflight, CheckActive, Verify, Unpack, SwapOut,
           SwapIn, Sync, Undo, PutBack, Resync, Remove, Same
<1>3. Target \in Place /\ Stage(o) \in Place /\ Previous(o) \in Place /\ Failed(o) \in Place
      /\ Target \notin {Stage(o), Previous(o), Failed(o)}
    BY Places
<1>4. CASE Snapshot(o) \/ Walk(o) \/ Write(o)
    <2>1. /\ Others(o) /\ Kept(o) /\ UNCHANGED dir
          /\ op[o].pc \in {"idle", "rollback", "walk", "write"}
          /\ op[o].pc = "idle" => op[o].command = "backup"
        BY <1>1, <1>4, ExportSteps
    <2> QED
        BY <1>2, <2>1, WholeStep, SameBefore DEF Kept, WholeFit, Restoring
<1>5. CASE Preflight(o)
    <2>1. /\ Others(o) /\ Kept(o) /\ UNCHANGED dir /\ op'[o].pc \in {"preflight", "done"}
        BY <1>1, <1>5, PreflightSteps
    <2> QED
        BY <1>2, <2>1, WholeStep, SameBefore DEF Kept
<1>6. CASE CheckActive(o)
    <2>1. /\ Others(o) /\ Kept(o) /\ UNCHANGED dir
        BY <1>1, <1>6, CheckActiveStep DEF Goes
    <2>2. app => Ends(o, "error")
        BY <1>6 DEF CheckActive
    <2>3. app => op'[o].pc = "done"
        BY <1>1, <2>2, GoesDone DEF Goes, Code
    <2> QED
        BY <1>2, <2>1, <2>3, WholeStep, SameBefore DEF Kept
<1>7. CASE \/ Verify(o) \/ Unpack(o) \/ SwapOut(o) \/ SwapIn(o) \/ Sync(o) \/ Undo(o)
           \/ PutBack(o) \/ Resync(o) \/ Remove(o)
    <2>1. op[o].pc \in {"stage", "unpack", "out", "in", "sync", "undo", "back", "resync", "remove"}
        BY <1>7 DEF Verify, Unpack, SwapOut, SwapIn, Sync, Undo, PutBack, Resync, Remove, At
    <2>2. op[o].command = "restore"
        BY <1>1, <2>1, ARestore DEF Going
    <2>3. Restoring(o) /\ op[o].pc # "preflight" /\ ~app
        BY <2>1, <2>2 DEF Restoring, WholeFit
    <2>4. Others(o) /\ op'[o].command = op[o].command
        BY <1>1, <1>7, VerifyStep, UnpackStep, SwapOutStep, SwapInStep, SyncStep, UndoStep,
           PutBackStep, ResyncStep, RemoveStep DEF Goes, Kept
    <2>5. FromBefore
        <3>1. CASE Verify(o)
            BY <1>1, <1>3, <3>1, VerifyStep, SameBefore, SetsBefore
        <3>2. CASE Unpack(o)
            BY <1>1, <1>3, <3>2, UnpackStep, SetsBefore
        <3>3. CASE SwapOut(o)
            BY <1>1, <1>3, <3>3, SwapOutStep, SameBefore, MovesBefore
        <3>4. CASE SwapIn(o)
            BY <1>1, <1>3, <3>4, SwapInStep, SameBefore, MovesBefore
        <3>5. CASE Sync(o)
            BY <1>1, <1>3, <3>5, SyncStep, SameBefore, SetsBefore
        <3>6. CASE Undo(o)
            BY <1>1, <1>3, <3>6, UndoStep, SameBefore, MovesBefore
        <3>7. CASE PutBack(o)
            BY <1>1, <1>3, <3>7, PutBackStep, SameBefore, MovesBefore
        <3>8. CASE Resync(o)
            BY <1>1, <3>8, ResyncStep, SameBefore
        <3>9. CASE Remove(o)
            BY <1>1, <3>9, RemoveStep DEF FromBefore
        <3> QED
            BY <1>7, <3>1, <3>2, <3>3, <3>4, <3>5, <3>6, <3>7, <3>8, <3>9
    <2> QED
        BY <1>2, <2>3, <2>4, <2>5, WholeStep
<1>8. CASE Stop(o)
    <2>1. /\ Others(o) /\ op'[o].command = op[o].command /\ op'[o].pc \in {"done", "dead"}
          /\ UNCHANGED dir \/ Sets(Previous(o), None)
        BY <1>1, <1>8, StopStep
    <2>2. FromBefore /\ dir'[Target] = dir[Target]
        BY <1>3, <2>1, SameBefore, SetsBefore DEF Sets
    <2> QED
        BY <1>2, <2>1, <2>2, WholeStep
<1> QED
    BY <1>4, <1>5, <1>6, <1>7, <1>8 DEF Step

LEMMA WholeNext ==
    ASSUME Inv, WholeFit, ~Overlap, [Next]_vars
    PROVE  WholeFit'
<1>1. CASE UNCHANGED vars
    BY <1>1 DEF vars, WholeFit, HasItsFiles, Closed, Here, Restoring
<1> QED
    BY <1>1, WholeUse, WholeOutside, WholeCommand DEF Next

-----------------------------------------------------------------------------
(* A restore that fails *)

\* Only the handler of a restore says that it could not undo what it did.
LEMMA RecoverSteps ==
    ASSUME WorkspaceTypes, ClosedFit, NEW o \in Op, Step(o) \/ Stop(o),
           op'[o].code = "recover", op[o].code # "recover"
    PROVE  Undo(o) \/ PutBack(o) \/ Resync(o)
<1>1. \A c \in Code \ {"recover"} : ~Ends(o, c)
    BY EndsStep DEF WorkspaceTypes
<1>2. \A x \in Pc : ~Go(o, x)
    BY GoStep DEF WorkspaceTypes
<1>3. {"ok", "error", "conflict", "interrupted"} \subseteq Code \ {"recover"} /\ Going \subseteq Pc
      /\ {"stage", "rollback", "unpack", "out", "in", "undo", "sync"} \subseteq Pc /\ "dead" \in Pc
    BY DEF Code, Pc, Going
<1>4. ~CheckActive(o) /\ ~Write(o) /\ ~Verify(o) /\ ~Unpack(o) /\ ~SwapIn(o) /\ ~Sync(o)
      /\ ~Remove(o) /\ ~Stop(o)
    BY <1>1, <1>2, <1>3 DEF CheckActive, Write, Verify, Unpack, SwapIn, Sync, Remove, Stop, Try
<1>5. ~SwapOut(o)
    BY <1>2, <1>3, MovedStep DEF SwapOut, Try, WorkspaceTypes
<1>6. ~Preflight(o)
    <2>1. SUFFICES ASSUME op' = [op EXCEPT ![o].pc = "preflight", ![o].digest = bundle,
                                           ![o].state = State(dir[Target])]
                   PROVE  FALSE
        BY <1>1, <1>3 DEF Preflight
    <2>2. bundle \in Bundle /\ State(dir[Target]) \in {"missing", "empty", "populated"}
        BY Places, States DEF WorkspaceTypes
    <2> QED
        BY <2>1, <2>2, PreflightStep DEF WorkspaceTypes
<1>7. op \in [Op -> Invocation] /\ op[o].snap \in Workspace
    BY DEF WorkspaceTypes, Invocation
<1>8. Here \in Workspace
    BY HereFits
<1>9. ~Snapshot(o)
    <2>1. [Here EXCEPT !.files = {}] \in Workspace /\ "walk" \in Pc
        BY <1>8 DEF Workspace, Pc, Going
    <2>2. SUFFICES ASSUME op' = [op EXCEPT ![o] =
                            [op[o] EXCEPT !.pc = "walk", !.snap = [Here EXCEPT !.files = {}]]]
                   PROVE  FALSE
        BY <1>1, <1>3 DEF Snapshot
    <2> HIDE DEF Here
    <2> QED
        BY <1>7, <2>1, <2>2, SnapStep
<1>10. ~Walk(o)
    <2> DEFINE w == [op[o].snap EXCEPT !.files = Here.files]
    <2>1. w \in Workspace /\ "write" \in Pc
        BY <1>7, <1>8 DEF Workspace, Pc, Going
    <2>2. SUFFICES ASSUME op' = [op EXCEPT ![o].pc = "write", ![o].snap.files = Here.files]
                   PROVE  FALSE
        BY <1>1, <1>3 DEF Walk
    <2>3. op' = [op EXCEPT ![o] = [op[o] EXCEPT !.pc = "write", !.snap = w]]
        BY <2>2
    <2> HIDE DEF w
    <2> QED
        BY <1>7, <2>1, <2>3, SnapStep
<1> QED
    BY <1>4, <1>5, <1>6, <1>9, <1>10 DEF Step

\* The original workspace is then at the target or beside it.
LEMMA RecoverFinds ==
    ASSUME Inv, NEW o \in Op, Undo(o) \/ PutBack(o) \/ Resync(o),
           op'[o].code = "recover", op[o].code # "recover", op[o].moved
    PROVE  /\ dir'[Previous(o)] # None \/ dir'[Target] # None
           /\ op[o].state = "populated" =>
                 \E p \in {Target, Previous(o)} : dir'[p] = rollback[o]
<1>1. op[o].pc \in {"undo", "back", "resync"} /\ op[o].pc \in Going \ {"walk", "write"}
    BY DEF Undo, PutBack, Resync, At, Going
<1>2. RestoreFits(o) /\ WorkspaceTypes /\ ClosedFit /\ OpsFit
    BY <1>1, AloneStart
<1>3. UNCHANGED dir
    <2>1. CASE Undo(o)
        BY <1>2, <2>1, UndoStep DEF Goes
    <2>2. CASE PutBack(o)
        BY <1>2, <2>2, PutBackStep DEF Goes
    <2>3. CASE Resync(o)
        BY <1>2, <2>3, ResyncStep
    <2> QED
        BY <2>1, <2>2, <2>3
<1>4. CASE op[o].pc \in {"undo", "back"}
    <2>1. Aside(o)
        BY <1>2, <1>4 DEF RestoreFits, Before, Untouched
    <2> QED
        BY <1>3, <2>1 DEF Aside, Original
<1>5. CASE op[o].pc = "resync"
    BY <1>2, <1>3, <1>5 DEF RestoreFits, Original
<1> QED
    BY <1>1, <1>4, <1>5

-----------------------------------------------------------------------------
(* Every step *)

LEMMA InvInit == Init => WorkspaceTypes /\ ClosedFit /\ OpsFit /\ AloneInv /\ WholeFit
<1> SUFFICES ASSUME Init
             PROVE  WorkspaceTypes /\ ClosedFit /\ OpsFit /\ AloneInv /\ WholeFit
    OBVIOUS
<1>1. PICK t \in {None, Empty, Holding({}), Holding(Row)} :
          /\ dir = [p \in Place |-> IF p = Target THEN t ELSE None]
          /\ saved = IF t = None THEN {} ELSE t.rows
    BY DEF Init
<1>2. t \in Workspace \cup {None} /\ (t # None => Closed(t))
      /\ saved \subseteq Row
    <2>1. ASSUME NEW s \in SUBSET Row
          PROVE  Holding(s) \in Workspace /\ Holding(s).rows = s /\ Holding(s).files = s
        BY DEF Holding, Workspace
    <2> QED
        BY <1>1, <2>1, Workspaces DEF Closed
<1>3. /\ op \in [Op -> [pc : {"idle"}, command : {"backup", "restore"},
                        choice : {"empty_only", "replace"}, state : {"missing"},
                        digest : {"good"}, snap : {Empty}, moved : {FALSE}, code : {"none"}]]
      /\ bundle = "good" /\ rollback = [o \in Op |-> None] /\ honest = TRUE /\ ready = {}
    BY DEF Init
<1>4. \A o \in Op : /\ op[o] \in Invocation /\ op[o].pc = "idle" /\ op[o].code = "none"
                    /\ ~op[o].moved
    <2> TAKE o \in Op
    <2>1. op[o].pc = "idle" /\ op[o].code = "none" /\ op[o] \in Invocation
        BY <1>3, Workspaces, ZenonT(60) DEF Invocation, Pc, Code, Bundle
    <2>2. op[o].moved = FALSE
        BY <1>3, Zenon
    <2> QED
        BY <2>1, <2>2
<1>5. WorkspaceTypes
    BY <1>1, <1>2, <1>3, <1>4 DEF WorkspaceTypes, Bundle
<1>6. ClosedFit
    BY <1>1, <1>2, <1>3, <1>4 DEF ClosedFit, ArchivesAreClosed
<1>7. OpsFit
    BY <1>1, <1>3, <1>4, Places DEF OpsFit
<1>8. AloneInv
    BY <1>1, <1>3, <1>4, Places DEF AloneInv, OneRestore, Restoring, HonestExit, NothingIsLost
<1>9. WholeFit
    BY <1>1, <1>2, <1>3, <1>4, Places DEF WholeFit, HasItsFiles, Restoring
<1> QED
    BY <1>5, <1>6, <1>7, <1>8, <1>9

\* The parts that need no one to be alone.
LEMMA FitsNext ==
    ASSUME WorkspaceTypes, ClosedFit, OpsFit, [Next]_vars
    PROVE  WorkspaceTypes' /\ ClosedFit' /\ OpsFit'
<1>1. CASE UNCHANGED vars
    BY <1>1 DEF vars, WorkspaceTypes, ClosedFit, OpsFit, ArchivesAreClosed, Closed, Previous, Stage
<1>2. CASE StartApp \/ QuitApp \/ Tamper
    BY <1>2, OutsideSteps
<1>3. ASSUME NEW r \in Row, Use(r)
      PROVE  WorkspaceTypes' /\ ClosedFit' /\ OpsFit'
    BY <1>3, UseStep
<1>4. ASSUME NEW o \in Op, Step(o)
      PROVE  WorkspaceTypes' /\ ClosedFit' /\ OpsFit'
    BY <1>4, ExportSteps, PreflightSteps, CheckActiveStep, VerifyStep, UnpackStep, SwapOutStep,
       SwapInStep, SyncStep, UndoStep, PutBackStep, ResyncStep, RemoveStep DEF Step
<1>5. ASSUME NEW o \in Op, Stop(o)
      PROVE  WorkspaceTypes' /\ ClosedFit' /\ OpsFit'
    BY <1>5, StopStep
<1> QED
    BY <1>1, <1>2, <1>3, <1>4, <1>5 DEF Next

LEMMA AloneNext ==
    ASSUME Inv, ~Overlap, [Next]_vars
    PROVE  AloneInv'
<1>1. CASE UNCHANGED vars
    <2>1. UNCHANGED <<dir, op, rollback, saved, honest>>
        BY <1>1 DEF vars
    <2>2. NothingIsLost' /\ honest'
        BY <2>1, SameLosesNothing DEF Inv, AloneInv, HonestExit
    <2> QED
        BY <2>1, <2>2, AloneSame
<1>2. CASE StartApp \/ QuitApp \/ Tamper
    BY <1>2, AloneOutside
<1>3. ASSUME NEW r \in Row, Use(r)
      PROVE  AloneInv'
    BY <1>3, AloneUse
<1>4. ASSUME NEW o \in Op, Step(o)
      PROVE  AloneInv'
    BY <1>4, AloneExport, AlonePreflight, AloneCheckActive, AloneVerify, AloneUnpack, AloneSwapOut,
       AloneSwapIn, AloneSync, AloneUndo, AlonePutBack, AloneResync, AloneRemove DEF Step
<1>5. ASSUME NEW o \in Op, Stop(o)
      PROVE  AloneInv'
    BY <1>5, AloneStop
<1> QED
    BY <1>1, <1>2, <1>3, <1>4, <1>5 DEF Next

\* Whatever else runs beside an export, a restore with its exchange of the
\* directories included: every archive has the file of each of its rows, for
\* the export looks after the snapshot, and again as it writes
\* (workspace_bundles.py, _build_manifest and _write_zip_file_verified).
THEOREM ArchivesAreWhole == Spec => [](TypeOK /\ ArchivesAreClosed)
<1> DEFINE Fits == WorkspaceTypes /\ ClosedFit /\ OpsFit
<1>1. Init => Fits
    BY InvInit
<1>2. Fits /\ [Next]_vars => Fits'
    BY FitsNext
<1>3. Fits => TypeOK /\ ArchivesAreClosed
    BY DEF WorkspaceTypes, TypeOK, Invocation, Code, ClosedFit
<1> QED
    BY <1>1, <1>2, <1>3, PTL DEF Spec

\* While the application is not used and no other restore runs during a
\* restore, each restore has the target for itself.
LEMMA InvHolds == ASSUME ~Overlap PROVE Spec => [](Inv /\ WholeFit)
<1>1. Init => Inv /\ WholeFit
    BY InvInit DEF Inv
<1>2. Inv /\ WholeFit /\ [Next]_vars => (Inv /\ WholeFit)'
    <2>1. Inv /\ [Next]_vars => Inv'
        BY FitsNext, AloneNext DEF Inv
    <2> QED
        BY <2>1, WholeNext
<1> QED
    BY <1>1, <1>2, PTL DEF Spec

\* A command that says it restored has put the archive's content in place, and
\* one that says it failed has left, or put back, what was there; what is found
\* at the target has all its files, although the application stores a file and
\* inserts its row in separate steps (_activate_restore and the exit status of
\* the command).
THEOREM BackupInvariant == ASSUME ~Overlap PROVE Spec => []BackupInv
<1>1. Inv => HonestExit
    BY DEF Inv, AloneInv
<1>2. WholeFit => TargetIsWhole
    BY Places, Workspaces DEF WholeFit, HasItsFiles, TargetIsWhole, Here
<1> QED
    BY <1>1, <1>2, InvHolds, ArchivesAreWhole, PTL DEF BackupInv

\* No failure, crash or interruption of a restore loses a row the users saved:
\* it is in a directory or in a rollback archive that is left.
THEOREM RowsAreKept == ASSUME ~Overlap PROVE Spec => []NothingIsLost
<1>1. Inv => NothingIsLost
    BY DEF Inv, AloneInv
<1> QED
    BY <1>1, InvHolds, PTL

\* When a restore says that it could not undo what it did, the directories its
\* message names hold the former workspace (_restore_recovery_error).
THEOREM FailedRestoreIsRecoverable == ASSUME ~Overlap PROVE Spec => RecoveryIsPossible
<1> DEFINE Recoverable == \A o \in Op :
        (op'[o].code = "recover" /\ op[o].code # "recover" /\ op[o].moved) =>
            /\ dir'[Previous(o)] # None \/ dir'[Target] # None
            /\ op[o].state = "populated" =>
                  \E p \in {Target, Previous(o)} : dir'[p] = rollback[o]
<1>1. Inv /\ [Next]_vars => Recoverable
    <2> SUFFICES ASSUME Inv, [Next]_vars, NEW o \in Op,
                        op'[o].code = "recover", op[o].code # "recover", op[o].moved
                 PROVE  /\ dir'[Previous(o)] # None \/ dir'[Target] # None
                        /\ op[o].state = "populated" =>
                              \E p \in {Target, Previous(o)} : dir'[p] = rollback[o]
        OBVIOUS
    <2>1. op' # op
        OBVIOUS
    <2>2. PICK q \in Op : Step(q) \/ Stop(q)
        BY <2>1 DEF Next, vars, StartApp, QuitApp, Tamper, Use,
               StoreFile, InsertRow, DeleteRow, UnlinkFile, Change
    <2>3. Others(q)
        <3>1. WorkspaceTypes /\ ClosedFit /\ OpsFit
            BY DEF Inv
        <3> QED
            BY <2>2, <3>1, ExportSteps, PreflightSteps, CheckActiveStep, VerifyStep, UnpackStep,
               SwapOutStep, SwapInStep, SyncStep, UndoStep, PutBackStep, ResyncStep, RemoveStep,
               StopStep, ZenonT(60) DEF Step, Goes
    <2>4. q = o
        BY <2>3 DEF Others
    <2> QED
        BY <2>2, <2>4, RecoverSteps, RecoverFinds DEF Inv
<1> QED
    BY <1>1, InvHolds, PTL DEF Spec, RecoveryIsPossible

-----------------------------------------------------------------------------
(* Project bundles.  The export reads statement after statement; what its  *)
(* checks leave is one moment of the project.                              *)

Revision == [parent : Nat \cup {Nothing}, config : Config, status : {"missing", "fresh"},
             artifacts : SUBSET ({0} \X Nat)]
Draft == [base : Nat \cup {Nothing}, config : Config]
HistoryNode == [lineage : Nat \cup {Nothing}, parent : Nat \cup {Nothing}, config : Config]
HistoryHead == [floor : Nat, cursor : Nat, tip : Nat]
Moment == [revisions : Seq(Revision), draft : Draft, nodes : Seq(HistoryNode), head : HistoryHead]
Reading == {"idle", "revisions", "draft", "nodes", "head", "check"}
Export == [pc : Reading, mode : {"full_history", "current_state_only", Nothing}, active : Nat,
           revisions : Seq(Revision), draft : Draft \cup {Nothing}, nodes : Seq(HistoryNode),
           head : HistoryHead \cup {Nothing}, moment : Moment \cup {Nothing}]

ProjectTypes ==
    /\ revisions \in Seq(Revision) /\ nodes \in Seq(HistoryNode)
    /\ draft \in Draft /\ head \in HistoryHead /\ export \in Export

\* What every moment of a project has: the tip is the last node, the draft is
\* the state at the cursor, and every revision has a node of its lineage.
Whole(r, d, n, h) ==
    /\ h.tip = Len(n) /\ h.cursor \in 1 .. Len(n)
    /\ d.base = n[h.cursor].lineage /\ d.config = n[h.cursor].config
    /\ \A i \in 1 .. Len(r) : \E k \in 1 .. Len(n) : n[k].lineage = i

\* Each line of the history has one root, and a node is of its parent's line.
HistoryFits ==
    /\ Whole(revisions, draft, nodes, head)
    /\ \A k \in 1 .. Len(nodes) :
          /\ nodes[k].lineage \in (1 .. Len(revisions)) \cup {Nothing}
          /\ nodes[k].parent # Nothing => /\ nodes[k].parent \in 1 .. Len(nodes)
                                          /\ nodes[nodes[k].parent].lineage = nodes[k].lineage
    /\ \A k, l \in 1 .. Len(nodes) :
          nodes[k].parent = Nothing /\ nodes[l].parent = Nothing
          /\ nodes[k].lineage = nodes[l].lineage => k = l
    /\ head.floor \in 1 .. Len(nodes) /\ nodes[head.floor].parent = Nothing
    /\ nodes[head.floor].lineage = draft.base

Begins(s, t) == Len(s) <= Len(t) /\ \A i \in 1 .. Len(s) : t[i] = s[i]

\* What was read is what was there: revisions and nodes are only added to.
ExportFits ==
    /\ export.pc \in {"draft", "nodes", "head"} => Begins(export.revisions, revisions)
    /\ export.pc = "head" => Begins(export.nodes, nodes)
    /\ export.pc \in {"nodes", "head", "check"} => export.draft \in Draft
    /\ export.pc \in {"nodes", "head"} => export.mode = "full_history"
    /\ export.pc = "check" /\ export.mode = "full_history" =>
          LET m == export.moment IN
          /\ m \in Moment /\ export.head = m.head /\ export.draft \in Draft
          /\ Whole(m.revisions, m.draft, m.nodes, m.head)
          /\ Begins(export.revisions, m.revisions) /\ Begins(export.nodes, m.nodes)

ReadInv == ProjectTypes /\ HistoryFits /\ ExportFits /\ BundleIsAMoment

LEMMA BeginsAll ==
    /\ \A s, t, u : Len(s) \in Nat /\ Len(t) \in Nat /\ Len(u) \in Nat
                   /\ Begins(s, t) /\ Begins(t, u) => Begins(s, u)
    /\ \A s : Len(s) \in Nat => Begins(s, s)
BY DEF Begins

LEMMA BeginsAppend ==
    ASSUME NEW X, NEW s \in Seq(X), NEW x \in X
    PROVE  /\ Append(s, x) \in Seq(X) /\ Len(Append(s, x)) = Len(s) + 1
           /\ Append(s, x)[Len(s) + 1] = x /\ \A i \in 1 .. Len(s) : Append(s, x)[i] = s[i]
           /\ Begins(s, Append(s, x)) /\ Len(s) \in Nat
BY DEF Begins

\* A sequence that begins another of its length is that sequence.
LEMMA BeginsEqual ==
    ASSUME NEW X, NEW s \in Seq(X), NEW t \in Seq(X), Begins(s, t), Len(t) <= Len(s)
    PROVE  s = t
<1>1. Len(s) = Len(t) /\ Len(s) \in Nat /\ Len(t) \in Nat
    BY DEF Begins
<1>2. \A i \in 1 .. Len(s) : s[i] = t[i]
    BY <1>1 DEF Begins
<1> QED
    BY <1>1, <1>2

\* The export keeps what it read while revisions and nodes are added.
LEMMA ReadsStay ==
    ASSUME ProjectTypes, ProjectTypes', ExportFits, UNCHANGED export,
           Begins(nodes, nodes'), Begins(revisions, revisions')
    PROVE  ExportFits'
<1>1. /\ Len(nodes) \in Nat /\ Len(nodes') \in Nat /\ Len(revisions) \in Nat
      /\ Len(revisions') \in Nat /\ Len(export.nodes) \in Nat /\ Len(export.revisions) \in Nat
    BY DEF ProjectTypes, Export
<1>2. export.pc \in {"draft", "nodes", "head"} => Begins(export.revisions, revisions')
    BY <1>1, BeginsAll DEF ExportFits
<1>3. export.pc = "head" => Begins(export.nodes, nodes')
    BY <1>1, BeginsAll DEF ExportFits
<1>4. export.pc \in {"nodes", "head", "check"} => export.draft \in Draft
    BY DEF ExportFits
<1>5. export.pc \in {"nodes", "head"} => export.mode = "full_history"
    BY DEF ExportFits
<1>6. (export.pc = "check" /\ export.mode = "full_history" =>
          LET m == export.moment IN
          /\ m \in Moment /\ export.head = m.head /\ export.draft \in Draft
          /\ Whole(m.revisions, m.draft, m.nodes, m.head)
          /\ Begins(export.revisions, m.revisions) /\ Begins(export.nodes, m.nodes))'
    BY DEF ExportFits, Whole, Begins
<1>7. (export.pc \in {"draft", "nodes", "head"} => Begins(export.revisions, revisions))'
    BY <1>2
<1>8. (export.pc = "head" => Begins(export.nodes, nodes))'
    BY <1>3
<1>9. (/\ export.pc \in {"nodes", "head", "check"} => export.draft \in Draft
       /\ export.pc \in {"nodes", "head"} => export.mode = "full_history")'
    BY <1>4, <1>5
<1> QED
    BY <1>6, <1>7, <1>8, <1>9 DEF ExportFits

LEMMA ProjectEdit ==
    ASSUME ReadInv, NEW c \in Config, Edit(c)
    PROVE  ReadInv'
<1> DEFINE node == [lineage |-> draft.base, parent |-> head.cursor, config |-> c]
<1>1. /\ nodes \in Seq(HistoryNode) /\ draft \in Draft /\ head \in HistoryHead
      /\ revisions \in Seq(Revision) /\ export \in Export /\ Len(revisions) \in Nat
    BY DEF ReadInv, ProjectTypes
<1>2. node \in HistoryNode /\ node.lineage = draft.base /\ node.parent = head.cursor
      /\ node.config = c
    BY <1>1 DEF Draft, HistoryHead, HistoryNode
<1>3. /\ draft' = [draft EXCEPT !.config = c] /\ nodes' = Append(nodes, node)
      /\ head' = [head EXCEPT !.cursor = Len(nodes) + 1, !.tip = Len(nodes) + 1]
      /\ UNCHANGED <<revisions, export, archives>>
    BY DEF Edit
<1> HIDE DEF node
<1>4. /\ nodes' \in Seq(HistoryNode) /\ Len(nodes') = Len(nodes) + 1 /\ Len(nodes) \in Nat
      /\ nodes'[Len(nodes) + 1] = node /\ \A k \in 1 .. Len(nodes) : nodes'[k] = nodes[k]
      /\ Begins(nodes, nodes')
    BY <1>1, <1>2, <1>3, BeginsAppend
<1>5. draft' \in Draft /\ draft'.config = c /\ draft'.base = draft.base
    <2>1. c \in Config /\ draft \in Draft /\ draft' = [draft EXCEPT !.config = c]
        BY <1>1, <1>3
    <2> QED
        BY <2>1 DEF Draft
<1>6. /\ head' \in HistoryHead /\ head'.cursor = Len(nodes) + 1 /\ head'.tip = Len(nodes) + 1
      /\ head'.floor = head.floor
    <2>1. /\ head' = [head EXCEPT !.cursor = Len(nodes) + 1, !.tip = Len(nodes) + 1]
          /\ Len(nodes) + 1 \in Nat /\ head \in HistoryHead
        BY <1>1, <1>3, <1>4
    <2> DEFINE end == Len(nodes) + 1
    <2>2. head' = [head EXCEPT !.cursor = end, !.tip = end] /\ end \in Nat
        BY <2>1
    <2> HIDE DEF end
    <2>3. /\ head' \in HistoryHead /\ head'.cursor = end /\ head'.tip = end
          /\ head'.floor = head.floor
        BY <2>1, <2>2 DEF HistoryHead
    <2> QED
        BY <2>3 DEF end
<1>7. ProjectTypes'
    BY <1>1, <1>3, <1>4, <1>5, <1>6 DEF ProjectTypes
<1>8. HistoryFits
    BY DEF ReadInv
<1>9. HistoryFits'
    <2>1. Whole(revisions, draft, nodes, head)'
        BY <1>2, <1>3, <1>4, <1>5, <1>6, <1>8 DEF HistoryFits, Whole
    <2>2. head.cursor \in 1 .. Len(nodes) /\ nodes[head.cursor].lineage = draft.base
          /\ draft.base \in (1 .. Len(revisions)) \cup {Nothing}
          /\ head.cursor # Nothing /\ head.floor \in 1 .. Len(nodes)
        BY <1>8, NothingAssumption DEF HistoryFits, Whole
    <2>3. \A k \in 1 .. Len(nodes') :
              /\ nodes'[k].lineage \in (1 .. Len(revisions)) \cup {Nothing}
              /\ nodes'[k].parent # Nothing =>
                    /\ nodes'[k].parent \in 1 .. Len(nodes')
                    /\ nodes'[nodes'[k].parent].lineage = nodes'[k].lineage
        <3> TAKE k \in 1 .. Len(nodes')
        <3>1. CASE k = Len(nodes) + 1
            BY <1>2, <1>4, <1>8, <2>2, <3>1 DEF HistoryFits, Whole
        <3>2. CASE k \in 1 .. Len(nodes)
            BY <1>4, <1>8, <3>2 DEF HistoryFits
        <3> QED
            BY <1>4, <3>1, <3>2
    <2>4. \A k, l \in 1 .. Len(nodes') :
              nodes'[k].parent = Nothing /\ nodes'[l].parent = Nothing
              /\ nodes'[k].lineage = nodes'[l].lineage => k = l
        BY <1>2, <1>4, <1>8, <2>2, SMTT(40) DEF HistoryFits
    <2>5. head'.floor \in 1 .. Len(nodes') /\ nodes'[head'.floor].parent = Nothing
          /\ nodes'[head'.floor].lineage = draft'.base
        BY <1>4, <1>5, <1>6, <1>8, <2>2 DEF HistoryFits
    <2> QED
        BY <1>3, <2>1, <2>3, <2>4, <2>5 DEF HistoryFits
<1>10. ExportFits'
    BY <1>1, <1>3, <1>4, <1>7, BeginsAll, ReadsStay DEF ReadInv
<1> QED
    BY <1>3, <1>7, <1>9, <1>10 DEF ReadInv, BundleIsAMoment

LEMMA ProjectMove ==
    ASSUME ReadInv, NEW k \in 1 .. Len(nodes), nodes[k].lineage = nodes[head.cursor].lineage,
           MoveTo(k)
    PROVE  ReadInv'
<1>1. /\ nodes \in Seq(HistoryNode) /\ draft \in Draft /\ head \in HistoryHead
      /\ revisions \in Seq(Revision) /\ export \in Export /\ Len(revisions) \in Nat
      /\ Len(nodes) \in Nat
    BY DEF ReadInv, ProjectTypes
<1>2. /\ draft' = [draft EXCEPT !.config = nodes[k].config]
      /\ head' = [head EXCEPT !.cursor = k]
      /\ UNCHANGED <<revisions, nodes, export, archives>>
    BY DEF MoveTo
<1>3. draft' \in Draft /\ draft'.config = nodes[k].config /\ draft'.base = draft.base
    <2> DEFINE c == nodes[k].config
    <2>1. nodes[k] \in HistoryNode
        BY <1>1
    <2>2. c \in Config
        BY <2>1 DEF HistoryNode
    <2>3. draft' = [draft EXCEPT !.config = c]
        BY <1>2
    <2> HIDE DEF c
    <2>4. draft' \in Draft /\ draft'.config = c /\ draft'.base = draft.base
        BY <1>1, <2>2, <2>3 DEF Draft
    <2> QED
        BY <2>4 DEF c
<1>4. head' \in HistoryHead /\ head'.cursor = k /\ head'.tip = head.tip /\ head'.floor = head.floor
    BY <1>1, <1>2 DEF HistoryHead
<1>5. ProjectTypes'
    BY <1>1, <1>2, <1>3, <1>4 DEF ProjectTypes
<1>6. HistoryFits'
    BY <1>2, <1>3, <1>4 DEF ReadInv, HistoryFits, Whole
<1>7. ExportFits'
    BY <1>1, <1>2, <1>5, BeginsAll, ReadsStay DEF ReadInv
<1> QED
    BY <1>2, <1>5, <1>6, <1>7 DEF ReadInv, BundleIsAMoment

\* Undo goes to the parent: only the root of the line, the floor, has none.
LEMMA ProjectUndo ==
    ASSUME ReadInv, UndoDraft
    PROVE  ReadInv'
<1>1. HistoryFits /\ head.cursor # head.floor
    BY DEF ReadInv, UndoDraft
<1>2. head.cursor \in 1 .. Len(nodes) /\ nodes[head.cursor].parent # Nothing
    BY <1>1 DEF HistoryFits, Whole
<1>3. /\ nodes[head.cursor].parent \in 1 .. Len(nodes)
      /\ nodes[nodes[head.cursor].parent].lineage = nodes[head.cursor].lineage
    BY <1>1, <1>2 DEF HistoryFits
<1> QED
    BY <1>3, ProjectMove DEF UndoDraft

LEMMA ProjectRedo ==
    ASSUME ReadInv, Redo
    PROVE  ReadInv'
<1>1. PICK k \in DOMAIN nodes : nodes[k].parent = head.cursor /\ MoveTo(k)
    BY DEF Redo
<1>2. HistoryFits /\ k \in 1 .. Len(nodes)
    BY DEF ReadInv, ProjectTypes
<1>3. nodes[k].parent # Nothing
    BY <1>1, <1>2, NothingAssumption DEF HistoryFits, Whole
<1>4. nodes[k].lineage = nodes[head.cursor].lineage
    BY <1>1, <1>2, <1>3 DEF HistoryFits
<1> QED
    BY <1>1, <1>2, <1>4, ProjectMove

LEMMA ProjectPublish ==
    ASSUME ReadInv, Publish
    PROVE  ReadInv'
<1> DEFINE id == Len(revisions) + 1
           node == [lineage |-> id, parent |-> Nothing, config |-> draft.config]
<1>1. /\ nodes \in Seq(HistoryNode) /\ draft \in Draft /\ head \in HistoryHead
      /\ revisions \in Seq(Revision) /\ export \in Export /\ Len(revisions) \in Nat
    BY DEF ReadInv, ProjectTypes
<1>2. PICK evidence \in {{}, {<<0, id>>}} :
          revisions' = Append(revisions, [parent |-> draft.base, config |-> draft.config,
              status |-> IF evidence = {} THEN "missing" ELSE "fresh", artifacts |-> evidence])
    BY DEF Publish
<1> DEFINE new == [parent |-> draft.base, config |-> draft.config,
                   status |-> IF evidence = {} THEN "missing" ELSE "fresh", artifacts |-> evidence]
<1>3. new \in Revision
    BY <1>1 DEF Revision, Draft
<1>4. node \in HistoryNode /\ node.lineage = id /\ node.parent = Nothing
      /\ node.config = draft.config
    BY <1>1 DEF HistoryNode, Draft
<1>5. /\ draft' = [draft EXCEPT !.base = id] /\ nodes' = Append(nodes, node)
      /\ head' = [floor |-> Len(nodes) + 1, cursor |-> Len(nodes) + 1, tip |-> Len(nodes) + 1]
      /\ UNCHANGED <<export, archives>> /\ revisions' = Append(revisions, new)
    BY <1>2 DEF Publish
<1> HIDE DEF node, new
<1>6. /\ nodes' \in Seq(HistoryNode) /\ Len(nodes') = Len(nodes) + 1 /\ Len(nodes) \in Nat
      /\ nodes'[Len(nodes) + 1] = node /\ \A k \in 1 .. Len(nodes) : nodes'[k] = nodes[k]
      /\ Begins(nodes, nodes')
    BY <1>1, <1>4, <1>5, BeginsAppend
<1>7. revisions' \in Seq(Revision) /\ Len(revisions') = id /\ Begins(revisions, revisions')
    BY <1>1, <1>3, <1>5, BeginsAppend
<1>8. draft' \in Draft /\ draft'.config = draft.config /\ draft'.base = id
    <2>1. id \in Nat /\ draft' = [draft EXCEPT !.base = id]
        BY <1>1, <1>5
    <2> HIDE DEF id
    <2> QED
        BY <1>1, <2>1 DEF Draft
<1>9. /\ head' \in HistoryHead /\ head'.cursor = Len(nodes) + 1 /\ head'.tip = Len(nodes) + 1
      /\ head'.floor = Len(nodes) + 1
    BY <1>5, <1>6 DEF HistoryHead
<1>10. ProjectTypes'
    BY <1>1, <1>5, <1>6, <1>7, <1>8, <1>9 DEF ProjectTypes
<1>11. HistoryFits
    BY DEF ReadInv
<1>12. HistoryFits'
    <2>1. Whole(revisions, draft, nodes, head)'
        <3>1. \A i \in 1 .. Len(revisions') : \E k \in 1 .. Len(nodes') : nodes'[k].lineage = i
            <4> TAKE i \in 1 .. Len(revisions')
            <4>1. CASE i = id
                BY <1>4, <1>6, <4>1
            <4>2. CASE i # id
                <5>1. i \in 1 .. Len(revisions)
                    BY <1>1, <1>7, <4>2
                <5>2. PICK k \in 1 .. Len(nodes) : nodes[k].lineage = i
                    BY <1>11, <5>1 DEF HistoryFits, Whole
                <5> QED
                    BY <1>6, <5>2
            <4> QED
                BY <4>1, <4>2
        <3> QED
            BY <1>4, <1>6, <1>8, <1>9, <3>1 DEF Whole
    <2>2. id # Nothing /\ \A k \in 1 .. Len(nodes) : nodes[k].lineage # id
        BY <1>1, <1>11, NothingAssumption DEF HistoryFits
    <2>3. \A k \in 1 .. Len(nodes') :
              /\ nodes'[k].lineage \in (1 .. Len(revisions')) \cup {Nothing}
              /\ nodes'[k].parent # Nothing =>
                    /\ nodes'[k].parent \in 1 .. Len(nodes')
                    /\ nodes'[nodes'[k].parent].lineage = nodes'[k].lineage
        <3> TAKE k \in 1 .. Len(nodes')
        <3>1. CASE k = Len(nodes) + 1
            BY <1>1, <1>4, <1>6, <1>7, <3>1
        <3>2. CASE k \in 1 .. Len(nodes)
            <4>1. /\ nodes[k].lineage \in (1 .. Len(revisions)) \cup {Nothing}
                  /\ nodes[k].parent # Nothing => /\ nodes[k].parent \in 1 .. Len(nodes)
                                                  /\ nodes[nodes[k].parent].lineage = nodes[k].lineage
                BY <1>11, <3>2 DEF HistoryFits
            <4> QED
                BY <1>1, <1>6, <1>7, <3>2, <4>1
        <3> QED
            BY <1>6, <3>1, <3>2
    <2>4. \A k, l \in 1 .. Len(nodes') :
              nodes'[k].parent = Nothing /\ nodes'[l].parent = Nothing
              /\ nodes'[k].lineage = nodes'[l].lineage => k = l
        BY <1>4, <1>6, <1>11, <2>2 DEF HistoryFits
    <2>5. head'.floor \in 1 .. Len(nodes') /\ nodes'[head'.floor].parent = Nothing
          /\ nodes'[head'.floor].lineage = draft'.base
        BY <1>4, <1>6, <1>8, <1>9
    <2> QED
        BY <2>1, <2>3, <2>4, <2>5 DEF HistoryFits
<1>13. ExportFits'
    BY <1>1, <1>5, <1>6, <1>7, <1>10, ReadsStay DEF ReadInv
<1> QED
    BY <1>5, <1>10, <1>12, <1>13 DEF ReadInv, BundleIsAMoment

-----------------------------------------------------------------------------
(* The export, one statement at a time *)

\* The project is as it was.
LEMMA ProjectStays ==
    ASSUME ReadInv, UNCHANGED <<revisions, nodes, draft, head>>, export' \in Export
    PROVE  ProjectTypes' /\ HistoryFits'
BY DEF ReadInv, ProjectTypes, HistoryFits, Whole

LEMMA ReadingStarts ==
    ASSUME ReadInv, ReadProject
    PROVE  ReadInv'
<1>1. PICK mode \in {"full_history", "current_state_only"} :
          export' = [Unread EXCEPT !.pc = "revisions", !.mode = mode, !.active = Len(revisions)]
    BY DEF ReadProject
<1>2. UNCHANGED <<revisions, nodes, draft, head, archives>>
    BY DEF ReadProject, Outside, project
<1>3. Len(revisions) \in Nat
    BY DEF ReadInv, ProjectTypes
<1>4. export' \in Export /\ export'.pc = "revisions"
    <2>1. Unread \in Export
        BY DEF Unread, Export, Reading
    <2> HIDE DEF Unread
    <2> QED
        BY <1>1, <1>3, <2>1 DEF Export, Reading
<1>5. ExportFits'
    BY <1>4 DEF ExportFits
<1> QED
    BY <1>2, <1>4, <1>5, ProjectStays DEF ReadInv, BundleIsAMoment

LEMMA RevisionsAreRead ==
    ASSUME ReadInv, ReadRevisions
    PROVE  ReadInv'
<1>1. /\ export' = [export EXCEPT !.pc = "draft", !.revisions = revisions]
      /\ UNCHANGED <<revisions, nodes, draft, head, archives>>
    BY DEF ReadRevisions, Outside, project
<1>2. export \in Export /\ revisions \in Seq(Revision)
    BY DEF ReadInv, ProjectTypes
<1>3. export' \in Export /\ export'.pc = "draft" /\ export'.revisions = revisions
    BY <1>1, <1>2 DEF Export, Reading
<1>4. Begins(export'.revisions, revisions')
    BY <1>1, <1>2, <1>3, BeginsAll
<1>5. ExportFits'
    BY <1>3, <1>4 DEF ExportFits
<1> QED
    BY <1>1, <1>3, <1>5, ProjectStays DEF ReadInv, BundleIsAMoment

LEMMA DraftIsRead ==
    ASSUME ReadInv, ReadDraft
    PROVE  ReadInv'
<1> DEFINE next == IF export.mode = "full_history" THEN "nodes" ELSE "check"
<1>1. /\ export' = [export EXCEPT !.pc = next, !.draft = draft] /\ export.pc = "draft"
      /\ UNCHANGED <<revisions, nodes, draft, head, archives>>
    BY DEF ReadDraft, Outside, project
<1>2. export \in Export /\ draft \in Draft /\ next \in Reading
    BY DEF ReadInv, ProjectTypes, Reading
<1>3. \/ next = "nodes" /\ export.mode = "full_history"
      \/ next = "check" /\ export.mode # "full_history"
    OBVIOUS
<1> HIDE DEF next
<1>4. /\ export' \in Export /\ export'.pc = next /\ export'.revisions = export.revisions
      /\ export'.draft = draft /\ export'.mode = export.mode
    BY <1>1, <1>2 DEF Export
<1>5. Begins(export.revisions, revisions)
    BY <1>1 DEF ReadInv, ExportFits
<1>6. Begins(export'.revisions, revisions')
    BY <1>1, <1>4, <1>5
<1>7. ExportFits'
    BY <1>2, <1>3, <1>4, <1>6 DEF ExportFits
<1> QED
    BY <1>1, <1>4, <1>7, ProjectStays DEF ReadInv, BundleIsAMoment

LEMMA NodesAreRead ==
    ASSUME ReadInv, ReadNodes
    PROVE  ReadInv'
<1>1. /\ export' = [export EXCEPT !.pc = "head", !.nodes = nodes] /\ export.pc = "nodes"
      /\ UNCHANGED <<revisions, nodes, draft, head, archives>>
    BY DEF ReadNodes, Outside, project
<1>2. export \in Export /\ nodes \in Seq(HistoryNode)
    BY DEF ReadInv, ProjectTypes
<1>3. /\ export' \in Export /\ export'.pc = "head" /\ export'.revisions = export.revisions
      /\ export'.nodes = nodes /\ export'.draft = export.draft /\ export'.mode = export.mode
    BY <1>1, <1>2 DEF Export, Reading
<1>4. Begins(export.revisions, revisions) /\ export.draft \in Draft /\ export.mode = "full_history"
    BY <1>1 DEF ReadInv, ExportFits
<1>5. Begins(export'.revisions, revisions') /\ Begins(export'.nodes, nodes')
    BY <1>1, <1>2, <1>3, <1>4, BeginsAll
<1>6. ExportFits'
    BY <1>3, <1>4, <1>5 DEF ExportFits
<1> QED
    BY <1>1, <1>3, <1>6, ProjectStays DEF ReadInv, BundleIsAMoment

LEMMA HeadIsRead ==
    ASSUME ReadInv, ReadHead
    PROVE  ReadInv'
<1> DEFINE now == [revisions |-> revisions, draft |-> draft, nodes |-> nodes, head |-> head]
<1>1. /\ export' = [export EXCEPT !.pc = "check", !.head = head, !.moment = now]
      /\ export.pc = "head" /\ UNCHANGED <<revisions, nodes, draft, head, archives>>
    BY DEF ReadHead, Outside, project
<1>2. export \in Export /\ head \in HistoryHead /\ Whole(revisions, draft, nodes, head)
    BY DEF ReadInv, ProjectTypes, HistoryFits
<1>3. /\ now \in Moment /\ now.revisions = revisions /\ now.draft = draft /\ now.nodes = nodes
      /\ now.head = head
    BY DEF ReadInv, ProjectTypes, Moment
<1> HIDE DEF now
<1>4. /\ export' \in Export /\ export'.pc = "check" /\ export'.revisions = export.revisions
      /\ export'.nodes = export.nodes /\ export'.draft = export.draft /\ export'.head = head
      /\ export'.moment = now
    BY <1>1, <1>2, <1>3 DEF Export, Reading
<1>5. Begins(export.revisions, revisions) /\ Begins(export.nodes, nodes) /\ export.draft \in Draft
    BY <1>1 DEF ReadInv, ExportFits
<1>6. LET m == export'.moment IN
      /\ m \in Moment /\ export'.head = m.head /\ export'.draft \in Draft
      /\ Whole(m.revisions, m.draft, m.nodes, m.head)
      /\ Begins(export'.revisions, m.revisions) /\ Begins(export'.nodes, m.nodes)
    BY <1>2, <1>3, <1>4, <1>5
<1>7. ExportFits'
    BY <1>4, <1>6 DEF ExportFits, Whole, Begins
<1> QED
    BY <1>1, <1>4, <1>7, ProjectStays DEF ReadInv, BundleIsAMoment

\* The check of the manifest: the tip is among the nodes that were read, so
\* they are all the nodes there were when the head was read; every revision
\* has a node among them, whose revision must be in the manifest.
LEMMA ArchiveIsMade ==
    ASSUME ReadInv, Check
    PROVE  ReadInv'
<1>1. /\ export' = Unread /\ export.pc = "check"
      /\ archives' = archives \cup (IF ManifestClosed(export) THEN {export} ELSE {})
      /\ UNCHANGED <<revisions, nodes, draft, head>>
    BY DEF Check, Outside, project
<1>2. export' \in Export /\ export'.pc = "idle"
    BY <1>1 DEF Unread, Export, Reading
<1>3. ExportFits'
    BY <1>2 DEF ExportFits
<1> DEFINE m == export.moment
<1>4. ASSUME HistoryClosed(export), export.mode = "full_history"
      PROVE  /\ m.draft = export.draft /\ m.nodes = export.nodes /\ m.head = export.head
             /\ m.revisions = export.revisions
    <2>1. /\ m \in Moment /\ export.head = m.head /\ export.draft \in Draft
          /\ Whole(m.revisions, m.draft, m.nodes, m.head)
          /\ Begins(export.revisions, m.revisions) /\ Begins(export.nodes, m.nodes)
          /\ export.revisions \in Seq(Revision) /\ export.nodes \in Seq(HistoryNode)
        BY <1>1, <1>4 DEF ReadInv, ExportFits, ProjectTypes, Export
    <2>2. /\ export.head.tip \in 1 .. Len(export.nodes)
          /\ export.draft.config = export.nodes[export.head.cursor].config
          /\ export.draft.base = export.nodes[export.head.cursor].lineage
          /\ \A k \in 1 .. Len(export.nodes) :
                 export.nodes[k].lineage \in (1 .. Len(export.revisions)) \cup {Nothing}
        <3>1. OnPath(export.nodes, export.head.cursor, export.head.tip)
            BY <1>4 DEF HistoryClosed
        <3>2. export.head.tip \in 1 .. Len(export.nodes)
            BY <3>1, Zenon DEF OnPath
        <3> QED
            BY <1>4, <2>1, <3>2 DEF HistoryClosed
    <2> HIDE DEF m
    <2>3. m.revisions \in Seq(Revision) /\ m.nodes \in Seq(HistoryNode) /\ m.draft \in Draft
          /\ m.head \in HistoryHead
        BY <2>1 DEF Moment
    <2>4. m.nodes = export.nodes
        <3>1. Len(m.nodes) <= Len(export.nodes)
            BY <2>1, <2>2, <2>3 DEF Whole
        <3> QED
            BY <2>1, <2>3, <3>1, BeginsEqual
    <2>5. m.revisions = export.revisions
        <3>1. Len(m.revisions) \in Nat /\ Len(export.revisions) \in Nat
            BY <2>1, <2>3
        <3>2. ASSUME Len(m.revisions) > Len(export.revisions)
              PROVE  FALSE
            <4>1. Len(m.revisions) \in 1 .. Len(m.revisions)
                BY <3>1, <3>2
            <4>2. PICK k \in 1 .. Len(m.nodes) : m.nodes[k].lineage = Len(m.revisions)
                BY <2>1, <4>1 DEF Whole
            <4>3. Len(m.revisions) \in (1 .. Len(export.revisions)) \cup {Nothing}
                BY <2>2, <2>4, <4>2
            <4> QED
                BY <3>1, <3>2, <4>3, NothingAssumption
        <3>3. Len(m.revisions) <= Len(export.revisions)
            BY <3>1, <3>2
        <3> QED
            BY <2>1, <2>3, <3>3, BeginsEqual
    <2>6. m.draft = export.draft
        <3>1. m.draft.base = export.draft.base /\ m.draft.config = export.draft.config
            BY <2>1, <2>2, <2>4 DEF Whole
        <3> QED
            BY <2>1, <2>3, <3>1 DEF Draft
    <2> QED
        BY <2>1, <2>4, <2>5, <2>6
<1>5. \A a \in archives' : a \in archives \/ (a = export /\ HistoryClosed(export))
    BY <1>1 DEF ManifestClosed
<1>6. BundleIsAMoment'
    <2> SUFFICES ASSUME NEW a \in archives', a.mode = "full_history"
                 PROVE  /\ a.moment.draft = a.draft /\ a.moment.nodes = a.nodes
                        /\ a.moment.head = a.head /\ a.moment.revisions = a.revisions
        BY DEF BundleIsAMoment
    <2>1. CASE a \in archives
        BY <2>1 DEF ReadInv, BundleIsAMoment
    <2>2. CASE a = export /\ HistoryClosed(export)
        BY <1>4, <2>2
    <2> QED
        BY <1>5, <2>1, <2>2
<1> QED
    BY <1>1, <1>2, <1>3, <1>6, ProjectStays DEF ReadInv

\* What the export has read stays consistent with the project while it goes on.
LEMMA ReadHolds == PSpec => []ReadInv
<1>1. PInit => ReadInv
    <2> SUFFICES ASSUME PInit
                 PROVE  ReadInv
        OBVIOUS
    <2> DEFINE c == [asset |-> Image, paint |-> CHOOSE p \in Paint : TRUE]
               node == [lineage |-> Nothing, parent |-> Nothing, config |-> c]
    <2>1. /\ revisions = <<>> /\ draft = [base |-> Nothing, config |-> c]
          /\ nodes = <<node>> /\ head = [floor |-> 1, cursor |-> 1, tip |-> 1]
          /\ export = Unread /\ archives = {}
        BY DEF PInit
    <2>2. c \in Config
        BY PaintAssumption DEF Config
    <2>3. node \in HistoryNode /\ node.lineage = Nothing /\ node.parent = Nothing /\ node.config = c
        BY <2>2 DEF HistoryNode
    <2>4. draft \in Draft /\ draft.base = Nothing /\ draft.config = c
        <3> HIDE DEF c
        <3> QED
            BY <2>1, <2>2 DEF Draft
    <2>5. head \in HistoryHead /\ export \in Export /\ export.pc = "idle"
        BY <2>1 DEF HistoryHead, Unread, Export, Reading
    <2> HIDE DEF c, node
    <2>6. ProjectTypes
        BY <2>1, <2>3, <2>4, <2>5 DEF ProjectTypes
    <2>7. HistoryFits
        BY <2>1, <2>3, <2>4 DEF HistoryFits, Whole
    <2>8. ExportFits /\ BundleIsAMoment
        BY <2>1, <2>5 DEF ExportFits, BundleIsAMoment
    <2> QED
        BY <2>6, <2>7, <2>8 DEF ReadInv
<1>2. ReadInv /\ [PNext]_pvars => ReadInv'
    <2> SUFFICES ASSUME ReadInv, [PNext]_pvars
                 PROVE  ReadInv'
        OBVIOUS
    <2>1. ASSUME NEW p \in Paint, Edit([asset |-> Image, paint |-> p])
          PROVE  ReadInv'
        <3>1. [asset |-> Image, paint |-> p] \in Config
            BY DEF Config
        <3> QED
            BY <2>1, <3>1, ProjectEdit
    <2>2. CASE UndoDraft \/ Redo \/ Publish
        BY <2>2, ProjectUndo, ProjectRedo, ProjectPublish
    <2>3. CASE ReadProject \/ ReadRevisions \/ ReadDraft \/ ReadNodes \/ ReadHead \/ Check
        BY <2>3, ReadingStarts, RevisionsAreRead, DraftIsRead, NodesAreRead, HeadIsRead, ArchiveIsMade
    <2>4. CASE UNCHANGED <<revisions, nodes, draft, head, export, archives>>
        <3>1. ProjectTypes' /\ HistoryFits'
            BY <2>4, ProjectStays DEF ReadInv, ProjectTypes
        <3>2. Len(nodes) \in Nat /\ Len(revisions) \in Nat
            BY DEF ReadInv, ProjectTypes
        <3>3. ExportFits'
            BY <2>4, <3>1, <3>2, BeginsAll, ReadsStay DEF ReadInv
        <3> QED
            BY <2>4, <3>1, <3>3 DEF ReadInv, BundleIsAMoment
    <2>5. ASSUME NEW r \in Restorer, Begin(r) \/ Commit(r)
          PROVE  UNCHANGED <<revisions, nodes, draft, head, export, archives>>
        BY <2>5 DEF Begin, Commit, project
    <2> QED
        BY <2>1, <2>2, <2>3, <2>4, <2>5 DEF PNext, pvars, project
<1> QED
    BY <1>1, <1>2, PTL DEF PSpec

\* What a full-history bundle holds is the project as it was when the head of
\* its history was read, although table after table was read while the project
\* was edited, undone and published (_build_manifest, _validate_history).
THEOREM BundlesAreMoments == PSpec => []BundleIsAMoment
<1>1. ReadInv => BundleIsAMoment
    BY DEF ReadInv
<1> QED
    BY <1>1, ReadHolds, PTL
-----------------------------------------------------------------------------
(* Restored projects.                                                      *)

\* What was read begins what is there: revisions and nodes are only added to.
ReadsBegin ==
    /\ export.pc \in {"draft", "nodes", "head", "check"} => Begins(export.revisions, revisions)
    /\ export.pc \in {"revisions", "draft", "nodes"} => export.nodes = <<>>
    /\ export.pc \in {"head", "check"} => Begins(export.nodes, nodes)

\* An archive is complete in itself, and of a past of the project.
Stands(a) ==
    /\ a \in Export /\ a.pc = "check" /\ a.draft \in Draft /\ ManifestClosed(a)
    /\ Begins(a.revisions, revisions) /\ Begins(a.nodes, nodes)

ArchivesStand ==
    /\ \A a \in archives : Stands(a)
    /\ DOMAIN restorer = Restorer
    /\ \A r \in Restorer : restorer[r].pc = "stored" => restorer[r].archive \in archives

\* The n-th import has chosen new identities under its own number, and where the
\* project lives it had to choose all of them.
MadeHere ==
    \A n \in DOMAIN projects : \A z \in IdsOf(projects[n]) :
        z[2][1] \in 0 .. n /\ (target.local => z[2][1] # 0)

\* The image has its row once something was restored, and keeps it.
ProjectsFit ==
    /\ projects \in Seq({projects[n] : n \in DOMAIN projects})
    /\ target \in [local : BOOLEAN, image : {Nothing, Image, <<1, "other row">>}]
    /\ projects # <<>> => target.image = TargetImage
    /\ \A n \in DOMAIN projects : projects[n].draft.config.asset = target.image

RestoreInv ==
    /\ ReadsBegin /\ ArchivesStand /\ MadeHere /\ ProjectsFit
    /\ RestoredStandsAtCursor /\ FreshIsExact /\ OneProjectPerBundle /\ IdentitiesAreUnique

\* Appending keeps the beginning.
LEMMA AppendBegins ==
    ASSUME NEW X, NEW s \in Seq(X), NEW x
    PROVE  Begins(s, Append(s, x)) /\ Len(s) \in Nat /\ Len(Append(s, x)) \in Nat
<1>1. s \in Seq(X \cup {x}) /\ x \in X \cup {x}
    OBVIOUS
<1> QED
    BY <1>1, BeginsAppend

\* Revisions and nodes are only appended, by every step.
LEMMA ProjectGrows ==
    ASSUME ReadInv, [PNext]_pvars
    PROVE  /\ Begins(revisions, revisions') /\ Begins(nodes, nodes')
           /\ Len(revisions) \in Nat /\ Len(nodes) \in Nat
           /\ Len(revisions') \in Nat /\ Len(nodes') \in Nat
<1>1. revisions \in Seq(Revision) /\ nodes \in Seq(HistoryNode) /\ draft \in Draft
    BY DEF ReadInv, ProjectTypes
<1>2. Len(revisions) \in Nat /\ Len(nodes) \in Nat
    BY <1>1
<1>3. ASSUME NEW p \in Paint, Edit([asset |-> Image, paint |-> p])
      PROVE  Begins(nodes, nodes') /\ UNCHANGED revisions /\ Len(nodes') \in Nat
    <2> DEFINE c == [asset |-> Image, paint |-> p]
               node == [lineage |-> draft.base, parent |-> head.cursor, config |-> c]
    <2>1. nodes' = Append(nodes, node) /\ UNCHANGED revisions
        BY <1>3 DEF Edit
    <2> HIDE DEF node
    <2> QED
        BY <1>1, <2>1, AppendBegins
<1>4. CASE Publish
    <2>1. \E v : revisions' = Append(revisions, v)
        BY <1>4 DEF Publish
    <2>2. \E n : nodes' = Append(nodes, n)
        BY <1>4 DEF Publish
    <2> QED
        BY <1>1, <2>1, <2>2, AppendBegins
<1>5. CASE UNCHANGED <<revisions, nodes>>
    BY <1>2, <1>5, BeginsAll
<1> QED
    <2>1. CASE UndoDraft \/ Redo
        BY <2>1, <1>5 DEF UndoDraft, Redo, MoveTo
    <2>2. CASE ReadProject \/ ReadRevisions \/ ReadDraft \/ ReadNodes \/ ReadHead \/ Check
        BY <2>2, <1>5 DEF ReadProject, ReadRevisions, ReadDraft, ReadNodes, ReadHead, Check,
           Outside, project
    <2>3. ASSUME NEW r \in Restorer, Begin(r) \/ Commit(r) PROVE UNCHANGED <<revisions, nodes>>
        BY <2>3 DEF Begin, Commit, project
    <2>4. CASE UNCHANGED pvars
        BY <2>4, <1>5 DEF pvars, project
    <2>5. ASSUME NEW p \in Paint, Edit([asset |-> Image, paint |-> p])
          PROVE  /\ Begins(nodes, nodes') /\ Begins(revisions, revisions')
                 /\ Len(nodes') \in Nat /\ Len(revisions') \in Nat
        BY <2>5, <1>3, <1>2, BeginsAll
    <2> QED
        BY <1>2, <1>4, <1>5, <2>1, <2>2, <2>3, <2>4, <2>5 DEF PNext

\* What was read keeps beginning what is there.
LEMMA ReadsBeginStep ==
    ASSUME ReadInv, ReadsBegin, [PNext]_pvars
    PROVE  ReadsBegin'
<1>1. /\ Begins(revisions, revisions') /\ Begins(nodes, nodes')
      /\ Len(revisions) \in Nat /\ Len(nodes) \in Nat
      /\ Len(revisions') \in Nat /\ Len(nodes') \in Nat
    BY ProjectGrows
<1>2. Len(export.revisions) \in Nat /\ Len(export.nodes) \in Nat
    BY DEF ReadInv, ProjectTypes, Export
<1>3. export \in Export
    BY DEF ReadInv, ProjectTypes
<1>4. CASE UNCHANGED export
    <2>1. Begins(export.revisions, revisions) => Begins(export.revisions, revisions')
        BY <1>1, <1>2, BeginsAll
    <2>2. Begins(export.nodes, nodes) => Begins(export.nodes, nodes')
        BY <1>1, <1>2, BeginsAll
    <2> QED
        BY <1>4, <2>1, <2>2 DEF ReadsBegin
<1>5. CASE ReadProject
    BY <1>5 DEF ReadProject, Unread, ReadsBegin
<1>6. CASE Check
    BY <1>6 DEF Check, Unread, ReadsBegin
<1>7. CASE ReadRevisions
    <2>1. /\ export'.pc = "draft" /\ export'.revisions = revisions /\ export'.nodes = export.nodes
          /\ export.pc = "revisions" /\ UNCHANGED revisions
        BY <1>3, <1>7 DEF ReadRevisions, Outside, project, Export
    <2> QED
        BY <1>1, <2>1, BeginsAll DEF ReadsBegin
<1>8. CASE ReadDraft
    <2>1. /\ export'.pc \in {"nodes", "check"} /\ export'.revisions = export.revisions
          /\ export'.nodes = export.nodes /\ export.pc = "draft" /\ UNCHANGED <<revisions, nodes>>
        BY <1>3, <1>8 DEF ReadDraft, Outside, project, Export
    <2>2. export'.nodes = <<>> /\ Begins(<<>>, nodes)
        BY <1>1, <2>1 DEF ReadsBegin, Begins
    <2> QED
        BY <2>1, <2>2 DEF ReadsBegin
<1>9. CASE ReadNodes
    <2>1. /\ export'.pc = "head" /\ export'.revisions = export.revisions
          /\ export'.nodes = nodes /\ export.pc = "nodes" /\ UNCHANGED <<revisions, nodes>>
        BY <1>3, <1>9 DEF ReadNodes, Outside, project, Export
    <2> QED
        BY <1>1, <2>1, BeginsAll DEF ReadsBegin
<1>10. CASE ReadHead
    <2>1. /\ export'.pc = "check" /\ export'.revisions = export.revisions
          /\ export'.nodes = export.nodes /\ export.pc = "head" /\ UNCHANGED <<revisions, nodes>>
        BY <1>3, <1>10 DEF ReadHead, Outside, project, Export
    <2> QED
        BY <2>1 DEF ReadsBegin
<1>11. ASSUME NEW p \in Paint, Edit([asset |-> Image, paint |-> p]) PROVE UNCHANGED export
    BY <1>11 DEF Edit
<1>12. CASE UndoDraft \/ Redo
    BY <1>4, <1>12 DEF UndoDraft, Redo, MoveTo
<1>13. CASE Publish
    BY <1>4, <1>13 DEF Publish
<1>14. ASSUME NEW r \in Restorer, Begin(r) \/ Commit(r) PROVE UNCHANGED export
    BY <1>14 DEF Begin, Commit
<1> QED
    BY <1>4, <1>5, <1>6, <1>7, <1>8, <1>9, <1>10, <1>11, <1>12, <1>13, <1>14 DEF PNext, pvars

\* Archives are complete when they are made and are never changed; who restores has one of them.
LEMMA ArchivesStep ==
    ASSUME ReadInv, ReadsBegin, ArchivesStand, [PNext]_pvars
    PROVE  ArchivesStand'
<1>1. /\ Begins(revisions, revisions') /\ Begins(nodes, nodes')
      /\ Len(revisions) \in Nat /\ Len(nodes) \in Nat
      /\ Len(revisions') \in Nat /\ Len(nodes') \in Nat
    BY ProjectGrows
<1>2. ASSUME NEW a, Stands(a)
      PROVE  Stands(a)'
    <2>1. Len(a.revisions) \in Nat /\ Len(a.nodes) \in Nat
        BY <1>2 DEF Stands, Export
    <2>2. Begins(a.revisions, revisions') /\ Begins(a.nodes, nodes')
        BY <1>1, <1>2, <2>1, BeginsAll DEF Stands
    <2> QED
        BY <1>2, <2>2 DEF Stands
<1>3. CASE UNCHANGED <<archives, restorer>>
    BY <1>2, <1>3 DEF ArchivesStand
<1>4. CASE Check
    <2>1. /\ archives' = archives \cup (IF ManifestClosed(export) THEN {export} ELSE {})
          /\ export.pc = "check" /\ UNCHANGED restorer
        BY <1>4 DEF Check, Outside
    <2>2. ManifestClosed(export) => Stands(export)
        BY <2>1 DEF Stands, ReadInv, ProjectTypes, ExportFits, ReadsBegin
    <2> QED
        BY <1>2, <2>1, <2>2 DEF ArchivesStand
<1>5. ASSUME NEW r \in Restorer, Begin(r)
      PROVE  ArchivesStand'
    <2>1. PICK a \in archives : restorer' = [restorer EXCEPT ![r] = [pc |-> "stored", archive |-> a]]
        BY <1>5 DEF Begin
    <2>2. UNCHANGED archives
        BY <1>5 DEF Begin
    <2> QED
        BY <1>2, <2>1, <2>2 DEF ArchivesStand
<1>6. ASSUME NEW r \in Restorer, Commit(r)
      PROVE  ArchivesStand'
    <2>1. restorer' = [restorer EXCEPT ![r] = [pc |-> "idle"]] /\ UNCHANGED archives
        BY <1>6 DEF Commit
    <2> QED
        BY <1>2, <2>1 DEF ArchivesStand
<1>7. CASE ReadProject \/ ReadRevisions \/ ReadDraft \/ ReadNodes \/ ReadHead
    BY <1>3, <1>7 DEF ReadProject, ReadRevisions, ReadDraft, ReadNodes, ReadHead, Outside
<1>8. CASE UndoDraft \/ Redo \/ Publish
    BY <1>3, <1>8 DEF UndoDraft, Redo, MoveTo, Publish
<1>9. ASSUME NEW p \in Paint, Edit([asset |-> Image, paint |-> p])
      PROVE  UNCHANGED <<archives, restorer>>
    BY <1>9 DEF Edit
<1> QED
    BY <1>3, <1>4, <1>5, <1>6, <1>7, <1>8, <1>9 DEF PNext, pvars

\* The project that a restore writes.
Restored(a) ==
    [archive |-> a, draft |-> RestoredDraft(a),
     revisions |-> [i \in DOMAIN a.revisions |-> RestoredRevision(a.revisions[i], i)],
     nodes |-> RestoredHistory(a).nodes, head |-> RestoredHistory(a).head]

\* An identity is kept if it is free, else replaced under this import's number.
LEMMA NewIdIs ==
    ASSUME NEW kind, NEW x
    PROVE  \/ NewId(kind, <<0, x>>) = <<0, x>> /\ <<kind, <<0, x>>>> \notin Occupied
           \/ NewId(kind, <<0, x>>) = <<Len(projects) + 1, x>> /\ <<kind, <<0, x>>>> \in Occupied
<1> DEFINE id == <<0, x>>
<1>1. id[2] = x
    OBVIOUS
<1>2. NewId(kind, id) = IF <<kind, id>> \notin Occupied THEN id ELSE <<Len(projects) + 1, id[2]>>
    BY Zenon DEF NewId
<1> HIDE DEF id
<1>3. \/ NewId(kind, id) = id /\ <<kind, id>> \notin Occupied
      \/ NewId(kind, id) = <<Len(projects) + 1, x>> /\ <<kind, id>> \in Occupied
    BY <1>1, <1>2
<1> QED
    BY <1>3 DEF id

\* The project's own identities carry the number 0, now and after a step.
LEMMA SourceNames ==
    ASSUME ReadInv, NEW z \in SourceIds
    PROVE  z[2][1] = 0
<1>1. \A i \in DOMAIN revisions : revisions[i] \in Revision
    BY DEF ReadInv, ProjectTypes
<1>2. \A i \in DOMAIN revisions : revisions[i].artifacts \subseteq {0} \X Nat
    BY <1>1 DEF Revision
<1> QED
    BY <1>2 DEF SourceIds, Id

LEMMA SourceNamesNext ==
    ASSUME ReadInv'
    PROVE  \A z \in SourceIds' : z[2][1] = 0
<1>1. \A i \in DOMAIN revisions' : revisions'[i] \in Revision
    BY DEF ReadInv, ProjectTypes
<1>2. \A i \in DOMAIN revisions' : revisions'[i].artifacts \subseteq {0} \X Nat
    BY <1>1 DEF Revision
<1> QED
    BY <1>2 DEF SourceIds, Id

\* What an archive names is named in the project.
LEMMA ArchivedNames ==
    ASSUME ReadInv, NEW a, Stands(a)
    PROVE  /\ \A i \in DOMAIN a.revisions : <<"revision", Id(i)>> \in SourceIds
           /\ \A n \in DOMAIN a.nodes : <<"node", Id(n)>> \in SourceIds
           /\ \A i \in DOMAIN a.revisions : \A k \in a.revisions[i].artifacts :
                 <<"key", k>> \in SourceIds /\ k \in {0} \X Nat
<1>1. a.revisions \in Seq(Revision) /\ a.nodes \in Seq(HistoryNode)
    BY DEF Stands, Export
<1>2. revisions \in Seq(Revision) /\ nodes \in Seq(HistoryNode)
    BY DEF ReadInv, ProjectTypes
<1>3. \A i \in DOMAIN a.revisions : i \in DOMAIN revisions /\ a.revisions[i] = revisions[i]
  <2>1. /\ DOMAIN a.revisions = 1 .. Len(a.revisions) /\ DOMAIN revisions = 1 .. Len(revisions)
        /\ Len(a.revisions) \in Nat /\ Len(revisions) \in Nat
      BY <1>1, <1>2
  <2>2. Begins(a.revisions, revisions)
      BY DEF Stands
  <2> QED
      BY <2>1, <2>2 DEF Begins
<1>4. \A n \in DOMAIN a.nodes : n \in DOMAIN nodes
    BY <1>1, <1>2 DEF Stands, Begins
<1>5. \A i \in DOMAIN revisions : revisions[i].artifacts \subseteq {0} \X Nat
  <2>1. \A i \in DOMAIN revisions : revisions[i] \in Revision
      BY <1>2
  <2> QED
      BY <2>1 DEF Revision
<1>6. ASSUME NEW i \in DOMAIN a.revisions, NEW k \in a.revisions[i].artifacts
      PROVE  <<"key", k>> \in SourceIds
    <2>1. k \in UNION {revisions[j].artifacts : j \in DOMAIN revisions}
        BY <1>3, <1>6
    <2> QED
        BY <2>1 DEF SourceIds
<1>7. \A i \in DOMAIN a.revisions : <<"revision", Id(i)>> \in SourceIds
    BY <1>3 DEF SourceIds
<1>8. \A n \in DOMAIN a.nodes : <<"node", Id(n)>> \in SourceIds
    BY <1>4 DEF SourceIds
<1> QED
    BY <1>3, <1>5, <1>6, <1>7, <1>8

\* An identity of a restored project was free or is of this import.
LEMMA RestoredNames ==
    ASSUME ReadInv, NEW a, Stands(a), NEW z \in IdsOf(Restored(a))
    PROVE  \/ z[2][1] = Len(projects) + 1
           \/ z[2][1] = 0 /\ z \notin Occupied /\ ~target.local
<1> DEFINE p == Restored(a)
<1>1. /\ a.revisions \in Seq(Revision) /\ a.nodes \in Seq(HistoryNode)
      /\ DOMAIN a.revisions \subseteq Nat /\ DOMAIN a.nodes \subseteq Nat
    BY DEF Stands, Export
<1>2. target.local => SourceIds \subseteq Occupied
    BY DEF Occupied
<1>3. ASSUME NEW kind, NEW x, z = <<kind, NewId(kind, <<0, x>>)>>, <<kind, <<0, x>>>> \in SourceIds
      PROVE  \/ z[2][1] = Len(projects) + 1
             \/ z[2][1] = 0 /\ z \notin Occupied /\ ~target.local
    <2>1. CASE NewId(kind, <<0, x>>) = <<0, x>> /\ <<kind, <<0, x>>>> \notin Occupied
        BY <1>2, <1>3, <2>1
    <2>2. CASE NewId(kind, <<0, x>>) = <<Len(projects) + 1, x>>
        BY <1>3, <2>2
    <2> QED
        BY <2>1, <2>2, NewIdIs
<1>4. p.revisions = [i \in DOMAIN a.revisions |-> RestoredRevision(a.revisions[i], i)]
    BY DEF Restored
<1>5. \A i \in DOMAIN a.revisions :
         /\ p.revisions[i].id = NewId("revision", <<0, i>>)
         /\ p.revisions[i].artifacts = {NewId("key", k) : k \in a.revisions[i].artifacts}
    BY <1>1, <1>4, NothingAssumption DEF RestoredRevision, RevisionId, Id
<1>6. p.nodes = RestoredHistory(a).nodes
    BY DEF Restored
<1> HIDE DEF p
<1>7. CASE z \in {<<"revision", x.id>> : x \in {p.revisions[i] : i \in DOMAIN p.revisions}}
    <2>1. PICK i \in DOMAIN a.revisions : z = <<"revision", p.revisions[i].id>>
        BY <1>4, <1>7
    <2>2. z = <<"revision", NewId("revision", <<0, i>>)>> /\ <<"revision", <<0, i>>>> \in SourceIds
        BY <1>5, <2>1, ArchivedNames DEF Id
    <2> QED
        BY <1>3, <2>2
<1>8. CASE z \in {<<"node", x.id>> : x \in {p.nodes[i] : i \in DOMAIN p.nodes}}
    <2>1. PICK n \in DOMAIN p.nodes : z = <<"node", p.nodes[n].id>>
        BY <1>8
    <2>2. CASE a.mode = "full_history"
        <3>1. DOMAIN p.nodes = DOMAIN a.nodes /\ p.nodes[n].id = NodeId(n)
            BY <1>6, <2>1, <2>2 DEF RestoredHistory
        <3>2. NodeId(n) = NewId("node", <<0, n>>)
            BY <1>1, <2>1, <3>1, NothingAssumption DEF NodeId, Id
        <3>3. <<"node", <<0, n>>>> \in SourceIds
            BY <2>1, <3>1, ArchivedNames DEF Id
        <3> QED
            BY <1>3, <2>1, <3>1, <3>2, <3>3
    <2>3. CASE a.mode # "full_history"
        <3>1. p.nodes[n].id = Fresh(Len(projects) + 1)
            BY <1>6, <2>1, <2>3 DEF RestoredHistory
        <3> QED
            BY <2>1, <3>1 DEF Fresh
    <2> QED
        BY <2>2, <2>3
<1>9. CASE z \in {<<"key", k>> : k \in UNION {p.revisions[i].artifacts : i \in DOMAIN p.revisions}}
    <2>1. PICK i \in DOMAIN p.revisions : \E k \in p.revisions[i].artifacts : z = <<"key", k>>
        BY <1>9
    <2>2. i \in DOMAIN a.revisions
        BY <1>4, <2>1
    <2>3. p.revisions[i].artifacts = {NewId("key", k) : k \in a.revisions[i].artifacts}
        BY <1>5, <2>2
    <2>4. PICK k \in a.revisions[i].artifacts : z = <<"key", NewId("key", k)>>
        BY <2>1, <2>3
    <2>5. <<"key", k>> \in SourceIds /\ k = <<0, k[2]>>
        BY <2>2, <2>4, ArchivedNames
    <2> QED
        BY <1>3, <2>4, <2>5
<1> QED
    BY <1>7, <1>8, <1>9 DEF IdsOf, p

\* A sequence is the function of its elements.
LEMMA SequenceParts ==
    ASSUME NEW X, NEW s \in Seq(X)
    PROVE  s = [n \in 1 .. Len(s) |-> s[n]] /\ Len(s) \in Nat /\ DOMAIN s = 1 .. Len(s)
OBVIOUS

\* A restore adds one project; the image has its row from then on.
LEMMA Written ==
    ASSUME ProjectsFit, NEW a, WriteProject(a)
    PROVE  /\ Len(projects) \in Nat /\ DOMAIN projects = 1 .. Len(projects)
           /\ DOMAIN projects' = 1 .. Len(projects) + 1
           /\ projects'[Len(projects) + 1] = Restored(a)
           /\ \A n \in DOMAIN projects : projects'[n] = projects[n]
           /\ target'.image = TargetImage /\ target'.local = target.local
           /\ DOMAIN projects # {} => target'.image = target.image
           /\ projects' \in Seq({projects'[n] : n \in DOMAIN projects'})
           /\ target' \in [local : BOOLEAN, image : {Nothing, Image, <<1, "other row">>}]
           /\ TargetImage' = target'.image
<1> DEFINE S == {projects[n] : n \in DOMAIN projects} \cup {Restored(a)}
<1>1. projects' = Append(projects, Restored(a)) /\ target' = [target EXCEPT !.image = TargetImage]
    BY DEF WriteProject, Restored
<1>2. /\ projects \in Seq({projects[n] : n \in DOMAIN projects})
      /\ target \in [local : BOOLEAN, image : {Nothing, Image, <<1, "other row">>}]
      /\ projects # <<>> => target.image = TargetImage
    BY DEF ProjectsFit
<1>3. projects \in Seq(S) /\ Restored(a) \in S
    <2> HIDE DEF S
    <2>1. Restored(a) \in S /\ \A n \in DOMAIN projects : projects[n] \in S
        BY DEF S
    <2>2. /\ projects = [n \in 1 .. Len(projects) |-> projects[n]]
          /\ Len(projects) \in Nat /\ DOMAIN projects = 1 .. Len(projects)
        BY <1>2, SequenceParts
    <2> QED
        BY <2>1, <2>2
<1> DEFINE q == Restored(a)
<1>4. /\ Len(projects) \in Nat /\ DOMAIN projects = 1 .. Len(projects)
      /\ DOMAIN projects' = 1 .. Len(projects) + 1
      /\ projects'[Len(projects) + 1] = q
      /\ \A n \in DOMAIN projects : projects'[n] = projects[n]
      /\ Len(projects') = Len(projects) + 1 /\ projects' \in Seq(S)
    <2> HIDE DEF S, q
    <2>1. projects' = Append(projects, q) /\ projects \in Seq(S) /\ q \in S
        BY <1>1, <1>3 DEF q
    <2> QED
        BY <2>1
<1>5. projects' \in Seq({projects'[n] : n \in DOMAIN projects'})
    <2> HIDE DEF S, q
    <2>1. /\ projects' = [n \in 1 .. Len(projects') |-> projects'[n]]
          /\ Len(projects') \in Nat /\ DOMAIN projects' = 1 .. Len(projects')
        BY <1>4
    <2> QED
        BY <2>1
<1>6. TargetImage \in {Image, <<1, "other row">>}
    BY <1>2 DEF TargetImage
<1>7. target'.image = TargetImage /\ target'.local = target.local
      /\ target' \in [local : BOOLEAN, image : {Nothing, Image, <<1, "other row">>}]
    BY <1>1, <1>2, <1>6
<1>8. TargetImage' = target'.image
    BY <1>7 DEF TargetImage
<1>9. DOMAIN projects # {} => target'.image = target.image
    <2>1. DOMAIN projects # {} => projects # <<>>
        OBVIOUS
    <2> QED
        BY <1>2, <1>7, <2>1
<1> QED
    BY <1>4, <1>5, <1>7, <1>8, <1>9

\* The project that is written refers to the image's row.
LEMMA WrittenFits ==
    ASSUME ReadInv, ProjectsFit, NEW a, Stands(a), WriteProject(a)
    PROVE  ProjectsFit'
<1>1. a.draft.config \in Config
    BY DEF Stands, Draft
<1>2. Restored(a).draft.config.asset = TargetImage
    BY <1>1 DEF Restored, RestoredDraft, Rewrite, Config
<1>3. /\ Len(projects) \in Nat /\ DOMAIN projects = 1 .. Len(projects)
      /\ DOMAIN projects' = 1 .. Len(projects) + 1
      /\ projects'[Len(projects) + 1] = Restored(a)
      /\ \A n \in DOMAIN projects : projects'[n] = projects[n]
      /\ target'.image = TargetImage /\ (DOMAIN projects # {} => target'.image = target.image)
    BY Written
<1>4. ASSUME NEW n \in DOMAIN projects'
      PROVE  projects'[n].draft.config.asset = target'.image
    <2>1. CASE n \in DOMAIN projects
        BY <1>3, <2>1 DEF ProjectsFit
    <2>2. CASE n = Len(projects) + 1
        BY <1>2, <1>3, <2>2
    <2> QED
        BY <1>3, <2>1, <2>2
<1> QED
    BY <1>4, Written DEF ProjectsFit

\* The project that is written shares no identity with any other.
LEMMA WrittenNames ==
    ASSUME ReadInv, ProjectsFit, MadeHere, IdentitiesAreUnique, NEW a, Stands(a), WriteProject(a),
           UNCHANGED <<revisions, nodes>>
    PROVE  MadeHere' /\ IdentitiesAreUnique'
<1> DEFINE last == Len(projects) + 1
<1>1. /\ Len(projects) \in Nat /\ DOMAIN projects = 1 .. Len(projects)
      /\ DOMAIN projects' = 1 .. last /\ projects'[last] = Restored(a)
      /\ \A n \in DOMAIN projects : projects'[n] = projects[n]
      /\ target'.local = target.local
    BY Written
<1>2. MadeHere'
    <2> SUFFICES ASSUME NEW n \in DOMAIN projects', NEW z \in IdsOf(projects'[n])
                 PROVE  z[2][1] \in 0 .. n /\ (target'.local => z[2][1] # 0)
        BY DEF MadeHere
    <2>1. CASE n \in DOMAIN projects
        BY <1>1, <2>1 DEF MadeHere
    <2>2. CASE n = last
        BY <1>1, <2>2, RestoredNames
    <2> QED
        BY <1>1, <2>1, <2>2
<1>3. ASSUME NEW n \in DOMAIN projects
      PROVE  IdsOf(projects[n]) \cap IdsOf(Restored(a)) = {}
    <2> SUFFICES ASSUME NEW z \in IdsOf(projects[n]), z \in IdsOf(Restored(a))
                 PROVE  FALSE
        OBVIOUS
    <2>1. z \in Occupied
        BY DEF Occupied
    <2>2. z[2][1] \in 0 .. n
        BY DEF MadeHere
    <2> QED
        BY <1>1, <2>1, <2>2, RestoredNames
<1>4. ASSUME NEW m \in DOMAIN projects', NEW n \in DOMAIN projects', m # n
      PROVE  IdsOf(projects'[m]) \cap IdsOf(projects'[n]) = {}
    <2>1. CASE m \in DOMAIN projects /\ n \in DOMAIN projects
        BY <1>1, <1>4, <2>1 DEF IdentitiesAreUnique
    <2>2. CASE m \in DOMAIN projects /\ n = last
        BY <1>1, <1>3, <2>2
    <2>3. CASE m = last /\ n \in DOMAIN projects
        BY <1>1, <1>3, <2>3
    <2> QED
        BY <1>1, <1>4, <2>1, <2>2, <2>3
<1>5. SourceIds' = SourceIds
    BY DEF SourceIds
<1>6. \A n \in DOMAIN projects' : target'.local => IdsOf(projects'[n]) \cap SourceIds = {}
    BY <1>2, SourceNames DEF MadeHere
<1> QED
    BY <1>2, <1>4, <1>5, <1>6 DEF IdentitiesAreUnique

\* The new identity of a node names the node.
LEMMA NodesAreTold ==
    ASSUME NEW m \in Nat, NEW n \in Nat, NodeId(m) = NodeId(n)
    PROVE  m = n
<1>1. NodeId(m) = NewId("node", <<0, m>>) /\ NodeId(n) = NewId("node", <<0, n>>)
    BY NothingAssumption DEF NodeId, Id
<1>2. NodeId(m) \in {<<0, m>>, <<Len(projects) + 1, m>>}
    BY <1>1, NewIdIs
<1>3. NodeId(n) \in {<<0, n>>, <<Len(projects) + 1, n>>}
    BY <1>1, NewIdIs
<1>4. NodeId(m)[2] = m /\ NodeId(n)[2] = n
    BY <1>2, <1>3
<1> QED
    BY <1>4

\* The node at the cursor of a restored project is the archive's, renamed.
LEMMA RestoredCursor ==
    ASSUME NEW a, Stands(a)
    PROVE  LET p == Restored(a) IN
           /\ p.draft.config = Node(p, p.head.cursor).config
           /\ p.draft.base = Node(p, p.head.cursor).lineage
<1> DEFINE p == Restored(a)
           at == p.head.cursor
           all == {p.nodes[i] : i \in DOMAIN p.nodes}
<1>1. /\ p.draft = RestoredDraft(a) /\ p.nodes = RestoredHistory(a).nodes
      /\ p.head = RestoredHistory(a).head
    BY DEF Restored
<1>2. Node(p, at) = CHOOSE x \in all : x.id = at
    BY DEF Node
<1> HIDE DEF p
<1>3. CASE a.mode = "full_history"
    <2> DEFINE c == a.head.cursor
    <2>1. /\ OnPath(a.nodes, a.head.floor, c)
          /\ a.draft.config = a.nodes[c].config /\ a.draft.base = a.nodes[c].lineage
        BY <1>3 DEF Stands, ManifestClosed, HistoryClosed
    <2>2. c \in 1 .. Len(a.nodes)
        BY <2>1, Zenon DEF OnPath
    <2>3. a.nodes \in Seq(HistoryNode)
        BY DEF Stands, Export
    <2>4. DOMAIN a.nodes = 1 .. Len(a.nodes) /\ Len(a.nodes) \in Nat
        BY <2>3
    <2>5. p.nodes = [n \in DOMAIN a.nodes |->
                       [id |-> NodeId(n), lineage |-> RevisionId(a.nodes[n].lineage),
                        parent |-> NodeId(a.nodes[n].parent), config |-> Rewrite(a.nodes[n].config)]]
        BY <1>1, <1>3 DEF RestoredHistory
    <2>6. at = NodeId(c)
        BY <1>1, <1>3 DEF RestoredHistory
    <2> HIDE DEF c, at
    <2>7. p.nodes[c] \in all /\ p.nodes[c].id = at
        <3>1. c \in DOMAIN p.nodes /\ p.nodes[c].id = NodeId(c)
            BY <2>2, <2>4, <2>5
        <3> QED
            BY <2>6, <3>1
    <2>8. \A x \in all : x.id = at => x = p.nodes[c]
        <3> SUFFICES ASSUME NEW n \in DOMAIN a.nodes, p.nodes[n].id = at
                     PROVE  n = c
            BY <2>5
        <3>1. NodeId(n) = NodeId(c)
            BY <2>5, <2>6
        <3> QED
            BY <2>2, <2>4, <3>1, NodesAreTold
    <2> HIDE DEF all
    <2>9. Node(p, at) = p.nodes[c]
        BY <1>2, <2>7, <2>8
    <2>10. /\ p.nodes[c].config = Rewrite(a.draft.config)
           /\ p.nodes[c].lineage = RevisionId(a.draft.base)
        BY <2>1, <2>2, <2>4, <2>5
    <2> QED
        BY <1>1, <2>9, <2>10 DEF RestoredDraft, p, at
<1>4. CASE a.mode # "full_history"
    <2> DEFINE new == Fresh(Len(projects) + 1)
               node == [id |-> new, parent |-> Nothing, lineage |-> RestoredDraft(a).base,
                        config |-> RestoredDraft(a).config]
    <2>1. p.nodes = <<node>> /\ at = new
        BY <1>1, <1>4 DEF RestoredHistory
    <2>2. node.id = new /\ node.lineage = RestoredDraft(a).base /\ node.config = RestoredDraft(a).config
        OBVIOUS
    <2> HIDE DEF node, new, at
    <2>3. all = {node}
        BY <2>1
    <2> HIDE DEF all
    <2>4. Node(p, at) = node
        BY <1>2, <2>1, <2>2, <2>3
    <2> QED
        BY <1>1, <2>2, <2>4 DEF p, at
<1> QED
    BY <1>3, <1>4 DEF p, at

\* Every base and parent of a restored project is a revision of its own.
LEMMA RestoredIsClosed ==
    ASSUME NEW a, Stands(a)
    PROVE  LET p == Restored(a) own == {p.revisions[i].id : i \in DOMAIN p.revisions} \cup {Nothing} IN
           /\ \A i \in DOMAIN p.nodes : /\ p.nodes[i].lineage \in own
                                        /\ p.nodes[i].config.asset = TargetImage
           /\ \A i \in DOMAIN p.revisions : p.revisions[i].parent \in own
           /\ p.draft.config.paint = p.archive.draft.config.paint
<1> DEFINE p == Restored(a)
           own == {p.revisions[i].id : i \in DOMAIN p.revisions} \cup {Nothing}
<1>1. /\ p.draft = RestoredDraft(a) /\ p.nodes = RestoredHistory(a).nodes /\ p.archive = a
      /\ p.revisions = [i \in DOMAIN a.revisions |-> RestoredRevision(a.revisions[i], i)]
    BY DEF Restored
<1>2. /\ a.revisions \in Seq(Revision) /\ a.nodes \in Seq(HistoryNode) /\ a.draft \in Draft
      /\ ReferencesClosed(a) /\ HistoryClosed(a)
    BY DEF Stands, Export, ManifestClosed
<1>3. DOMAIN a.revisions = 1 .. Len(a.revisions)
    BY <1>2
<1>4. \A c \in Config : Rewrite(c).asset = TargetImage /\ Rewrite(c).paint = c.paint
    BY DEF Rewrite, Config
<1> HIDE DEF p
<1>5. \A i \in (1 .. Len(a.revisions)) \cup {Nothing} : RevisionId(i) \in own
    <2>1. \A i \in 1 .. Len(a.revisions) : RevisionId(i) = p.revisions[i].id
        BY <1>1, <1>3 DEF RestoredRevision
    <2>2. RevisionId(Nothing) = Nothing
        BY DEF RevisionId
    <2> QED
        BY <1>1, <1>3, <2>1, <2>2
<1> HIDE DEF own
<1>6. \A i \in DOMAIN p.revisions : p.revisions[i].parent \in own
    BY <1>1, <1>2, <1>5 DEF RestoredRevision, ReferencesClosed
<1>7. p.draft.config.paint = p.archive.draft.config.paint /\ p.draft.base \in own
      /\ p.draft.config.asset = TargetImage
    BY <1>1, <1>2, <1>4, <1>5 DEF RestoredDraft, Draft, ReferencesClosed
<1>8. ASSUME NEW i \in DOMAIN p.nodes
      PROVE  p.nodes[i].lineage \in own /\ p.nodes[i].config.asset = TargetImage
    <2>1. CASE a.mode = "full_history"
        <3>1. /\ i \in DOMAIN a.nodes /\ p.nodes[i].lineage = RevisionId(a.nodes[i].lineage)
              /\ p.nodes[i].config = Rewrite(a.nodes[i].config)
            BY <1>1, <1>8, <2>1 DEF RestoredHistory
        <3>2. a.nodes[i] \in HistoryNode
            BY <1>2, <3>1
        <3>3. a.nodes[i].config \in Config
            BY <3>2 DEF HistoryNode
        <3>4. a.nodes[i].lineage \in (1 .. Len(a.revisions)) \cup {Nothing}
            BY <1>2, <2>1, <3>1 DEF HistoryClosed
        <3> QED
            BY <1>4, <1>5, <3>1, <3>3, <3>4
    <2>2. CASE a.mode # "full_history"
        <3>1. i = 1 /\ p.nodes[1].lineage = p.draft.base /\ p.nodes[1].config = p.draft.config
            BY <1>1, <1>8, <2>2 DEF RestoredHistory
        <3> QED
            BY <1>7, <3>1
    <2> QED
        BY <2>1, <2>2
<1> QED
    BY <1>6, <1>7, <1>8 DEF own, p

\* The project that is written is at its cursor, honest about its evidence, and
\* the only one of its bundle.
LEMMA WrittenStands ==
    ASSUME ProjectsFit, RestoredStandsAtCursor, FreshIsExact, OneProjectPerBundle,
           NEW a, Stands(a), ~Imported(a), WriteProject(a)
    PROVE  RestoredStandsAtCursor' /\ FreshIsExact' /\ OneProjectPerBundle'
<1> DEFINE last == Len(projects) + 1
<1>1. /\ Len(projects) \in Nat /\ DOMAIN projects = 1 .. Len(projects)
      /\ DOMAIN projects' = 1 .. last /\ projects'[last] = Restored(a)
      /\ \A n \in DOMAIN projects : projects'[n] = projects[n]
      /\ target'.image = TargetImage
      /\ DOMAIN projects # {} => target'.image = target.image
    BY Written
<1>2. \A n \in DOMAIN projects' : n \in DOMAIN projects \/ n = last
    BY <1>1
<1>3. RestoredStandsAtCursor'
    <2> SUFFICES ASSUME NEW n \in DOMAIN projects'
                 PROVE  LET p == projects'[n]
                            own == {p.revisions[i].id : i \in DOMAIN p.revisions} \cup {Nothing} IN
                        /\ p.draft.config = Node(p, p.head.cursor).config
                        /\ p.draft.base = Node(p, p.head.cursor).lineage
                        /\ \A i \in DOMAIN p.nodes : /\ p.nodes[i].lineage \in own
                                                     /\ p.nodes[i].config.asset = target'.image
                        /\ \A i \in DOMAIN p.revisions : p.revisions[i].parent \in own
                        /\ p.draft.config.paint = p.archive.draft.config.paint
        BY DEF RestoredStandsAtCursor, Node
    <2>1. CASE n \in DOMAIN projects
        BY <1>1, <2>1 DEF RestoredStandsAtCursor
    <2>2. CASE n = last
        BY <1>1, <2>2, RestoredCursor, RestoredIsClosed
    <2> QED
        BY <1>2, <2>1, <2>2
<1>4. FreshIsExact'
    <2> SUFFICES ASSUME NEW n \in DOMAIN projects'
                 PROVE  LET p == projects'[n] IN
                        \A i \in DOMAIN p.revisions : p.revisions[i].status = "fresh" =>
                            /\ p.revisions[i].config = p.archive.revisions[i].config
                            /\ p.revisions[i].artifacts = p.archive.revisions[i].artifacts
        BY DEF FreshIsExact
    <2>1. CASE n \in DOMAIN projects
        BY <1>1, <2>1 DEF FreshIsExact
    <2>2. CASE n = last
        <3> DEFINE p == Restored(a)
        <3>1. p.archive = a
              /\ p.revisions = [i \in DOMAIN a.revisions |-> RestoredRevision(a.revisions[i], i)]
            BY DEF Restored
        <3> HIDE DEF p
        <3>2. ASSUME NEW i \in DOMAIN p.revisions, p.revisions[i].status = "fresh"
              PROVE  /\ p.revisions[i].config = p.archive.revisions[i].config
                     /\ p.revisions[i].artifacts = p.archive.revisions[i].artifacts
            <4> DEFINE v == a.revisions[i]
                       keys == {NewId("key", k) : k \in v.artifacts}
            <4>1. p.revisions[i] = RestoredRevision(v, i)
                BY <3>1, <3>2
            <4>2. /\ p.revisions[i].config = Rewrite(v.config) /\ p.revisions[i].artifacts = keys
                  /\ p.revisions[i].status =
                        IF v.status = "fresh" /\ (Rewrite(v.config) # v.config \/ keys # v.artifacts)
                        THEN "stale" ELSE v.status
                BY <4>1 DEF RestoredRevision
            <4> HIDE DEF keys
            <4>3. Rewrite(v.config) = v.config /\ keys = v.artifacts
                BY <3>2, <4>2
            <4> QED
                BY <3>1, <4>2, <4>3
        <3> QED
            BY <1>1, <2>2, <3>2 DEF p
    <2> QED
        BY <1>2, <2>1, <2>2
<1>5. OneProjectPerBundle'
    <2> SUFFICES ASSUME NEW m \in DOMAIN projects', NEW n \in DOMAIN projects',
                        projects'[m].archive = projects'[n].archive
                 PROVE  m = n
        BY DEF OneProjectPerBundle
    <2>1. Restored(a).archive = a
        BY DEF Restored
    <2>2. \A k \in DOMAIN projects : projects[k].archive # a
        BY DEF Imported
    <2>3. CASE m \in DOMAIN projects /\ n \in DOMAIN projects
        BY <1>1, <2>3 DEF OneProjectPerBundle
    <2>4. CASE m = last /\ n \in DOMAIN projects
        BY <1>1, <2>1, <2>2, <2>4
    <2>5. CASE m \in DOMAIN projects /\ n = last
        BY <1>1, <2>1, <2>2, <2>5
    <2> QED
        BY <1>2, <2>3, <2>4, <2>5
<1> QED
    BY <1>3, <1>4, <1>5

\* What was restored stays as it was when no restore writes.
LEMMA RestoredStay ==
    ASSUME ReadInv', MadeHere, ProjectsFit, RestoredStandsAtCursor, FreshIsExact,
           OneProjectPerBundle, IdentitiesAreUnique, UNCHANGED <<projects, target>>
    PROVE  /\ MadeHere' /\ ProjectsFit' /\ RestoredStandsAtCursor' /\ FreshIsExact'
           /\ OneProjectPerBundle' /\ IdentitiesAreUnique'
<1>1. MadeHere'
    BY DEF MadeHere, IdsOf
<1>2. ProjectsFit'
    BY DEF ProjectsFit, TargetImage
<1>3. RestoredStandsAtCursor' /\ FreshIsExact' /\ OneProjectPerBundle'
    BY DEF RestoredStandsAtCursor, FreshIsExact, OneProjectPerBundle, Node
<1>4. \A z \in SourceIds' : z[2][1] = 0
    BY SourceNamesNext
<1>5. IdentitiesAreUnique'
    <2>1. \A n \in DOMAIN projects : target.local => IdsOf(projects[n]) \cap SourceIds' = {}
        BY <1>4 DEF MadeHere
    <2> QED
        BY <2>1 DEF IdentitiesAreUnique
<1> QED
    BY <1>1, <1>2, <1>3, <1>5

\* Every step keeps the invariant; only Commit writes.
LEMMA RestoreStep ==
    ASSUME ReadInv, ReadInv', RestoreInv, [PNext]_pvars
    PROVE  RestoreInv'
<1>1. ReadsBegin' /\ ArchivesStand'
    BY ReadsBeginStep, ArchivesStep DEF RestoreInv
<1>2. CASE UNCHANGED <<projects, target>>
    BY <1>1, <1>2, RestoredStay DEF RestoreInv
<1>3. ASSUME NEW r \in Restorer, Commit(r)
      PROVE  RestoreInv'
    <2> DEFINE a == restorer[r].archive
    <2>1. Stands(a)
        BY <1>3 DEF Commit, RestoreInv, ArchivesStand
    <2>2. CASE Imported(a)
        BY <1>2, <1>3, <2>2 DEF Commit
    <2>3. CASE ~Imported(a)
        <3>1. WriteProject(a) /\ UNCHANGED <<revisions, nodes>>
            BY <1>3, <2>3 DEF Commit, project
        <3> HIDE DEF a
        <3> QED
            BY <1>1, <2>1, <2>3, <3>1, WrittenFits, WrittenNames, WrittenStands DEF RestoreInv
    <2> QED
        BY <2>2, <2>3
<1>4. ASSUME NEW p \in Paint, Edit([asset |-> Image, paint |-> p])
      PROVE  UNCHANGED <<projects, target>>
    BY <1>4 DEF Edit
<1>5. CASE UndoDraft \/ Redo \/ Publish
    BY <1>2, <1>5 DEF UndoDraft, Redo, MoveTo, Publish
<1>6. CASE ReadProject \/ ReadRevisions \/ ReadDraft \/ ReadNodes \/ ReadHead \/ Check
    BY <1>2, <1>6 DEF ReadProject, ReadRevisions, ReadDraft, ReadNodes, ReadHead, Check, Outside
<1>7. ASSUME NEW r \in Restorer, Begin(r)
      PROVE  UNCHANGED <<projects, target>>
    BY <1>7 DEF Begin
<1> QED
    BY <1>2, <1>3, <1>4, <1>5, <1>6, <1>7 DEF PNext, pvars

\* Nothing was restored at first.
LEMMA RestoreInit ==
    ASSUME PInit
    PROVE  RestoreInv
<1>1. /\ export.pc = "idle" /\ archives = {} /\ projects = <<>>
      /\ restorer = [r \in Restorer |-> [pc |-> "idle"]]
    BY DEF PInit, Unread
<1>2. ReadsBegin /\ ArchivesStand
    BY <1>1 DEF ReadsBegin, ArchivesStand
<1>3. target \in [local : BOOLEAN, image : {Nothing, Image, <<1, "other row">>}]
    <2>1. target \in {[local |-> TRUE, image |-> Image]}
                     \cup [local : {FALSE}, image : {Nothing, <<1, "other row">>}]
        BY DEF PInit
    <2>2. [local |-> TRUE, image |-> Image]
              \in [local : BOOLEAN, image : {Nothing, Image, <<1, "other row">>}]
        OBVIOUS
    <2>3. [local : {FALSE}, image : {Nothing, <<1, "other row">>}]
              \subseteq [local : BOOLEAN, image : {Nothing, Image, <<1, "other row">>}]
        OBVIOUS
    <2> QED
        BY <2>1, <2>2, <2>3
<1>4. DOMAIN projects = {} /\ projects \in Seq({projects[n] : n \in DOMAIN projects})
    BY <1>1
<1>5. ProjectsFit /\ MadeHere
    BY <1>1, <1>3, <1>4 DEF ProjectsFit, MadeHere
<1>6. RestoredStandsAtCursor /\ FreshIsExact /\ OneProjectPerBundle /\ IdentitiesAreUnique
    BY <1>4 DEF RestoredStandsAtCursor, FreshIsExact, OneProjectPerBundle, IdentitiesAreUnique
<1> QED
    BY <1>2, <1>5, <1>6 DEF RestoreInv

\* Restored projects stand where their bundles stood, closed in themselves,
\* claim fresh evidence only for exactly what it was made for, share no
\* identity with each other or the source, and there is one for each bundle,
\* however often and concurrently it is restored (restore, _available_id,
\* _restore_full_history).
THEOREM RestoredProjectsAreSound == PSpec => []BundleInv
<1>1. PInit => RestoreInv
    BY RestoreInit
<1>2. ReadInv /\ ReadInv' /\ RestoreInv /\ [PNext]_pvars => RestoreInv'
    BY RestoreStep
<1>3. ReadInv /\ RestoreInv => BundleInv
    <2> SUFFICES ASSUME ReadInv, RestoreInv
                 PROVE  BundleInv
        OBVIOUS
    <2>1. draft.config \in Config
        BY DEF ReadInv, ProjectTypes, Draft
    <2>2. DOMAIN nodes = 1 .. Len(nodes)
        BY DEF ReadInv, ProjectTypes
    <2>3. head.cursor \in DOMAIN nodes /\ draft.config = nodes[head.cursor].config
        BY <2>2 DEF ReadInv, HistoryFits, Whole
    <2>4. \A a \in archives : a.pc = "check" /\ a.draft.config \in Config
        BY DEF RestoreInv, ArchivesStand, Stands, Draft
    <2>5. PTypeOK
        BY <2>1, <2>3, <2>4 DEF PTypeOK, RestoreInv, ProjectsFit
    <2> QED
        BY <2>5 DEF BundleInv, RestoreInv
<1> QED
    BY <1>1, <1>2, <1>3, ReadHolds, PTL DEF PSpec

=============================================================================
