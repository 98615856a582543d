------------------------------ MODULE MCStores ------------------------------
(* The three stores of the workspace, its files, its job table and a         *)
(* project's draft with its history, in one instance: a behaviour is about    *)
(* one of them, and the state of the others stays what it was.                *)
EXTENDS BlobStore, JobStore, DraftHistory, TLC

VARIABLE scene  \* which of the three

CONSTANT Many  \* more requests than this only if all of them are history commands

\* The requests on the draft are alike: they are composed by their numbers.
InOrder == \A a, b \in Request : a < b /\ request[b].op # "none" => request[a].op # "none"

Bounded ==
    (\E r \in Request : r > Many /\ request[r].op # "none")
        => \A r \in Request : request[r].op \in {"none", "edit", "undo", "redo"}

\* Writes of different files meet in the collector only, and a mask beside another
\* row needs one file to grow old once: their clock stops a tick earlier than
\* that of two rows that are read and of the same file.
Short == now = MaxTime =>
    \/ \A v, w \in Write : path[v] = path[w] /\ IsRead(v)
    \/ Kinds = {"mask"}

\* One of the initial states of the store.
Untouched ==
    /\ \A v, w \in Write : path[v] = path[w]
    /\ \A w \in Write : kind[w] = "job"

\* A mask matters to the rows that are read when it names the same bytes.  The
\* other row is one that may be deleted: a row that is kept does no more.
MaskBesideRead ==
    \A w \in Write : kind[w] = "mask" /\ Kinds # {"mask"}
        => \E v \in Write : path[v] = path[w] /\ kind[v] = "job"

MCInit ==
    /\ BInit /\ JobInit /\ HInit
    /\ MaskBesideRead
    /\ scene \in {"files", "jobs", "draft"}
    /\ scene # "files" => Untouched
    /\ scene # "draft" => draft = NoDraft

MCNext ==
    /\ scene' = scene
    /\ \/ scene = "files" /\ BNext /\ Short' /\ UNCHANGED <<jobVars, hvars>>
       \/ scene = "jobs" /\ JobNext /\ UNCHANGED <<bvars, hvars>>
       \/ scene = "draft" /\ HNext /\ InOrder' /\ Bounded' /\ UNCHANGED <<bvars, jobVars>>

MCSpec == MCInit /\ [][MCNext]_<<scene, bvars, jobVars, hvars>>

Symmetry == Permutations(Write) \cup Permutations(Path)

=============================================================================
