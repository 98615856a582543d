----------------------------- MODULE MCServices -----------------------------
(* Two services on the pool in one instance: prompted edits and mural builds. *)
(* A behaviour is about one of them, and the state of the other stays what it  *)
(* was.  SessionsEnd and BuildsEnd hold of the other scene as nothing starts.  *)
EXTENDS PromptedEdits, MuralBuilds

VARIABLE scene  \* which of the two

\* Once a revision is published less else happens: no fault, one build and two
\* changes of the plan.
FewerWithRevisions ==
    revisions # <<>> => faults = 0 /\ saves <= 2 /\ Len(builds) <= 1

MCInit ==
    /\ Init /\ MInit
    /\ scene \in {"prompted", "mural"}

MCNext ==
    /\ scene' = scene
    /\ \/ scene = "prompted" /\ Next /\ UNCHANGED mvars
       \/ scene = "mural" /\ MNext /\ FewerWithRevisions' /\ UNCHANGED vars

(* The fairness of the two specifications, each in its scene. *)
MCSpec ==
    /\ MCInit /\ [][MCNext]_<<scene, vars, mvars>>
    /\ \A e \in Exec : /\ WF_vars(scene = "prompted" /\ HandlerStep(e))
                       /\ WF_vars(scene = "prompted" /\ WorkerStep(e))
    /\ \A s \in Session : WF_vars(scene = "prompted" /\ CancelStep(s))
    /\ \A j \in 1 .. MaxBuilds :
          WF_mvars(scene = "mural" /\ j \in DOMAIN builds
                   /\ (Load(j) \/ Store(j) \/ Validate(j) \/ Publish(j)))

=============================================================================
