----------------------------- MODULE MCBundles ------------------------------
(* The two kinds of bundle in one instance: a behaviour is about one of them, *)
(* and the state of the other stays what it was.                              *)
EXTENDS WorkspaceBundles, ProjectBundles

VARIABLE scene  \* which of the two

MCInit ==
    /\ Init /\ PInit
    /\ dir[Target] # Holding({})                     \* reached from the others
    /\ op[CHOOSE o \in Op : TRUE].choice = "replace"  \* the other order is the same
          => \A o \in Op : op[o].command = "restore" => op[o].choice = "replace"
    /\ \/ scene = "workspace" /\ target.local
       \/ /\ scene = "project" /\ dir[Target] = None
          /\ \A o \in Op : op[o].command = "restore" /\ op[o].choice = "replace"

MCNext ==
    /\ scene' = scene
    /\ \/ scene = "workspace" /\ Next /\ UNCHANGED pvars
       \/ scene = "project" /\ PNext /\ UNCHANGED vars

MCSpec ==
    /\ MCInit /\ [][MCNext]_<<scene, vars, pvars>>
    /\ \A o \in Op : WF_vars(scene = "workspace" /\ Step(o))

=============================================================================
