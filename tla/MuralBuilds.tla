----------------------------- MODULE MuralBuilds ----------------------------
(***************************************************************************)
(* The mural plan of one project and the builds made from it               *)
(* (mural/service.py, repository.py, provenance.py, builds.py): editors    *)
(* save and delete the plan while the draft is edited and previewed again, *)
(* and build jobs load, package, validate and publish in their threads.    *)
(* A preview's pictures, labels and geometry are named by the preview and  *)
(* the configuration it rendered; a package by what it was made from.  A   *)
(* published revision keeps the pictures and labels of its preview as rows *)
(* of its own, and a plan may be made of these as well.                    *)
(***************************************************************************)
EXTENDS Naturals, Sequences, FiniteSets

CONSTANTS
    Editor,       \* sessions that edit the plan
    Config,       \* draft configurations
    Layout,       \* mural layouts; all of them fit the bed
    None,         \* no plan, no request, no package
    MaxPreviews,  \* bound: previews started
    MaxRevisions, \* bound: revisions published
    MaxBuilds,    \* bound: build jobs submitted
    MaxEdits,     \* bound: changes of the draft
    MaxSaves,     \* bound: saves and deletions of the plan
    MaxFaults     \* bound: damaged files and failed validations

ASSUME ConfigAssumption == Config # {}
ASSUME BoundAssumption ==
    /\ {MaxRevisions, MaxBuilds, MaxEdits, MaxSaves, MaxFaults} \subseteq Nat
    /\ MaxPreviews \in Nat \ {0}

VARIABLES
    draft,     \* the draft's configuration and generation
    previews,  \* previews by submission: configuration and state
    revisions, \* published revisions with pictures: configuration and preview
    plan,      \* the row of mural_plans, or None
    seen,      \* history: the plan each editor has on screen, or None
    asked,     \* a save request between its reading and its transaction, or None
    builds,    \* build jobs by submission
    file,      \* packages in the store: "none", "ok" or "bad"
    response,  \* the last answer of start: request, job and whether it was cached
    edits, saves, faults,
    blind      \* history: a save replaced a plan its editor had not seen

mvars == <<draft, previews, revisions, plan, seen, asked, builds, file, response,
           edits, saves, faults, blind>>
work == <<builds, file, response>>

Preview == 1 .. MaxPreviews

\* A plan's source is the draft's, with its generation, or a revision's: one of
\* generation and revision is None in the code and 0 here.
Source == [preview: Preview, config: Config, generation: Nat, revision: Nat]
Package == [source: Source, layout: Layout]

ASSUME NoneAssumption == None \notin Package

MInit ==
    /\ draft = [config |-> CHOOSE c \in Config : TRUE, generation |-> 1]
    /\ previews = <<[config |-> draft.config, state |-> "succeeded"]>>
    /\ revisions = <<>>
    /\ plan = None
    /\ seen = [e \in Editor |-> None] /\ asked = [e \in Editor |-> None]
    /\ builds = <<>>
    /\ file = <<>>       \* packages written, by what they were made from
    /\ response = None
    /\ edits = 0 /\ saves = 0 /\ faults = 0 /\ blind = FALSE

-----------------------------------------------------------------------------
(* The surroundings: draft changes and previews (see Previews). *)
EditDraft(c) ==
    /\ edits < MaxEdits /\ c # draft.config
    /\ edits' = edits + 1
    /\ draft' = [config |-> c, generation |-> draft.generation + 1]
    /\ UNCHANGED <<previews, revisions, plan, seen, asked, work, saves, faults, blind>>

StartPreview ==
    /\ Len(previews) < MaxPreviews
    /\ previews' = Append([n \in DOMAIN previews |->
                              IF previews[n].state = "running"
                              THEN [previews[n] EXCEPT !.state = "superseded"] ELSE previews[n]],
                          [config |-> draft.config, state |-> "running"])
    /\ UNCHANGED <<draft, revisions, plan, seen, asked, work, edits, saves, faults, blind>>

FinishPreview(n) ==
    /\ previews[n].state = "running"
    /\ previews' = [previews EXCEPT ![n].state = "succeeded"]
    /\ UNCHANGED <<draft, revisions, plan, seen, asked, work, edits, saves, faults, blind>>

(* Publication copies the rows of the current preview, if it shows the     *)
(* draft, and the draft goes on as the next generation.                    *)
PublishRevision ==
    LET n == Len(previews)
    IN /\ Len(revisions) < MaxRevisions
       /\ previews[n].state = "succeeded" /\ previews[n].config = draft.config
       /\ revisions' = Append(revisions, [config |-> draft.config, preview |-> n])
       /\ draft' = [config |-> draft.config, generation |-> draft.generation + 1]
       /\ UNCHANGED <<previews, plan, seen, asked, work, edits, saves, faults, blind>>

-----------------------------------------------------------------------------
(* A source in the making: of a preview's picture it has the draft as it   *)
(* is, of a revision's picture the revision (_source_state).               *)
DraftSource(n) == [preview |-> n, config |-> draft.config, generation |-> draft.generation,
                   revision |-> 0]
RevisionSource(k) == [preview |-> revisions[k].preview, config |-> revisions[k].config,
                      generation |-> 0, revision |-> k]

Sources ==
    {DraftSource(n) : n \in {m \in DOMAIN previews : previews[m].state = "succeeded"}}
        \cup {RevisionSource(k) : k \in DOMAIN revisions}

(* MuralProvenanceValidator.validate.  A revision's source is compared with *)
(* the revision and nothing else; a draft's has to be a succeeded preview   *)
(* nobody has superseded, of this generation and configuration.             *)
ValidRevision(s) == s.revision \in DOMAIN revisions /\ s = RevisionSource(s.revision)

ValidDraft(s) ==
    /\ s.preview = Len(previews) /\ previews[s.preview].state = "succeeded"
    /\ s.generation = draft.generation
    /\ s.config = draft.config

Valid(s) ==
    /\ IF s.revision # 0 THEN ValidRevision(s) ELSE ValidDraft(s)
    /\ previews[s.preview].config = s.config

Look(e) ==
    /\ seen[e] # plan
    /\ seen' = [seen EXCEPT ![e] = plan]
    /\ UNCHANGED <<draft, previews, revisions, plan, asked, work, edits, saves, faults, blind>>

(* MuralPlanningService._request: the source is put together from what is  *)
(* read before the transaction.                                            *)
Ask(e, s, l) ==
    /\ asked[e] = None /\ saves < MaxSaves
    /\ saves' = saves + 1
    /\ asked' = [asked EXCEPT ![e] =
          [source |-> s, layout |-> l,
           expected |-> IF seen[e] = None THEN 0 ELSE seen[e].generation]]
    /\ UNCHANGED <<draft, previews, revisions, plan, seen, work, edits, faults, blind>>

Generation == IF plan = None THEN 0 ELSE plan.generation

(* MuralPlanRepository.save: one transaction checks the source again and   *)
(* the generation the editor expects, and writes the next one.             *)
\* Mutant: the source is trusted as it was read
SaveUnchecked(e) ==
    LET r == asked[e]
        saved == [generation |-> Generation + 1, source |-> r.source, layout |-> r.layout]
    IN /\ r # None
       /\ asked' = [asked EXCEPT ![e] = None]
       /\ IF r.expected = Generation
          THEN /\ plan' = saved /\ seen' = [seen EXCEPT ![e] = saved]
               /\ blind' = (blind \/ seen[e] # plan)
          ELSE UNCHANGED <<plan, seen, blind>>
       /\ UNCHANGED <<draft, previews, revisions, work, edits, saves, faults>>

Save(e) ==
    LET r == asked[e]
        saved == [generation |-> Generation + 1, source |-> r.source, layout |-> r.layout]
    IN /\ r # None
       /\ asked' = [asked EXCEPT ![e] = None]
       /\ IF Valid(r.source) /\ r.expected = Generation
          THEN /\ plan' = saved /\ seen' = [seen EXCEPT ![e] = saved]
               /\ blind' = (blind \/ seen[e] # plan)
          ELSE UNCHANGED <<plan, seen, blind>>
       /\ UNCHANGED <<draft, previews, revisions, work, edits, saves, faults>>

Delete(e) ==
    /\ asked[e] = None /\ saves < MaxSaves
    /\ saves' = saves + 1
    /\ plan # None /\ seen[e] # None /\ seen[e].generation = plan.generation
    /\ plan' = None /\ seen' = [seen EXCEPT ![e] = None]
    /\ blind' = (blind \/ seen[e] # plan)
    /\ UNCHANGED <<draft, previews, revisions, asked, work, edits, faults>>

-----------------------------------------------------------------------------
(* A build request binds the plan its author saw, by generation and        *)
(* request fingerprint, to a preview's geometry and a material mapping     *)
(* that does not change the panels (names and colours of the filaments).   *)
Request(p, n) == [generation |-> p.generation, source |-> p.source, layout |-> p.layout,
                  geometry |-> n]

(* The revision that a geometry row names: none.  Geometry is started from *)
(* a preview job without one (geometry/service.py), and a publication      *)
(* copies the rows of the preview only.                                    *)
GeometryRevision == 0

\* Mutant: a geometry of the same picture will do
MatchingPicture(g, s) == g = s.preview

(* _matching_labels: the geometry was made from the very preview job of a  *)
(* draft's source, or published with the very revision.                    *)
Matching(g, s) == IF s.revision = 0 THEN g = s.preview ELSE s.revision = GeometryRevision

(* _load_inputs: the plan is still the one requested, its source is valid, *)
(* and the geometry belongs to it.                                         *)
\* Mutant: the generation alone identifies the plan
LoadableByGeneration(r) ==
    /\ plan # None /\ plan.generation = r.generation
    /\ Valid(plan.source)
    /\ r.geometry \in DOMAIN previews /\ previews[r.geometry].state = "succeeded"

Loadable(r) ==
    /\ plan # None
    /\ plan.generation = r.generation
    /\ plan.source = r.source /\ plan.layout = r.layout
    /\ Valid(plan.source)
    /\ Matching(r.geometry, plan.source)

Made(p) == [source |-> p.source, layout |-> p.layout]
FileOf(m) == IF m \in DOMAIN file THEN file[m] ELSE "none"
Written(m, s) == [x \in DOMAIN file \cup {m} |-> IF x = m THEN s ELSE file[x]]

Active(j) == builds[j].state \in {"queued", "running"}

(* _cached_or_active: succeeded builds first, if every file is intact and  *)
(* the slicer accepted them; then active ones.                             *)
Reusable(j) ==
    /\ builds[j].state = "succeeded" /\ FileOf(builds[j].made) = "ok"
    /\ builds[j].verdict = "validated"

OfRequest(r) == {j \in DOMAIN builds : builds[j].request = r}

(* Under the guard: reuse, or submit and so supersede the active build.    *)
Submit(r) ==
    /\ {j \in OfRequest(r) : Active(j) \/ Reusable(j)} = {}
    /\ Len(builds) < MaxBuilds
    /\ builds' = Append([j \in DOMAIN builds |->
                            IF Active(j) THEN [builds[j] EXCEPT !.state = "canceled"]
                                         ELSE builds[j]],
                        [request |-> r, state |-> "queued", made |-> None, verdict |-> "not_run"])
    /\ response' = [request |-> r, job |-> Len(builds) + 1, cached |-> FALSE]

Reuse(r) ==
    /\ \E j \in OfRequest(r) :
          /\ \/ Reusable(j)
             \/ Active(j) /\ {i \in OfRequest(r) : Reusable(i)} = {}
          /\ response' = [request |-> r, job |-> j, cached |-> ~Active(j)]
    /\ UNCHANGED builds

Start(e, n) ==
    /\ seen[e] # None /\ Loadable(Request(seen[e], n))
    /\ Submit(Request(seen[e], n)) \/ Reuse(Request(seen[e], n))
    /\ UNCHANGED <<draft, previews, revisions, plan, seen, asked, file, edits, saves, faults, blind>>

Fate(j, s) == builds' = [builds EXCEPT ![j].state = s]
Surroundings == <<draft, previews, revisions, plan, seen, asked, response, edits, saves, blind>>

(* work: the inputs are loaded again, the panels made from what is loaded. *)
Load(j) ==
    /\ builds[j].state = "queued"
    /\ IF Loadable(builds[j].request)
       THEN builds' = [builds EXCEPT ![j].state = "running", ![j].made = Made(plan)]
       ELSE Fate(j, "failed")
    /\ UNCHANGED <<Surroundings, file, faults>>

(* put_bytes refuses to replace a damaged file of the same name. *)
Store(j) ==
    /\ builds[j].state = "running" /\ builds[j].verdict = "not_run"
    /\ IF FileOf(builds[j].made) = "bad"
       THEN Fate(j, "failed") /\ UNCHANGED file
       ELSE /\ file' = Written(builds[j].made, "ok")
            /\ builds' = [builds EXCEPT ![j].verdict = "stored"]
    /\ UNCHANGED <<Surroundings, faults>>

(* _validate: Bambu Studio accepts the package, or the failure is recorded *)
(* and the build goes on.                                                  *)
Validate(j) ==
    /\ builds[j].state = "running" /\ builds[j].verdict = "stored"
    /\ \/ builds' = [builds EXCEPT ![j].verdict = "validated"] /\ UNCHANGED faults
       \/ /\ faults < MaxFaults /\ faults' = faults + 1
          /\ builds' = [builds EXCEPT ![j].verdict = "failed"]
    /\ UNCHANGED <<Surroundings, file>>

(* LocalWorkerManager._publish_current_result: verified files, then rows. *)
Publish(j) ==
    /\ builds[j].state = "running" /\ builds[j].verdict \in {"validated", "failed"}
    /\ Fate(j, IF FileOf(builds[j].made) = "ok" THEN "succeeded" ELSE "failed")
    /\ UNCHANGED <<Surroundings, file, faults>>

Damage ==
    /\ faults < MaxFaults /\ faults' = faults + 1
    /\ \E m \in DOMAIN file : file[m] = "ok" /\ file' = Written(m, "bad")
    /\ UNCHANGED <<Surroundings, builds>>

-----------------------------------------------------------------------------
(* result: what a reader of a build is told. *)
Stale(j) ==
    \/ plan = None \/ ~Valid(plan.source)
    \/ builds[j].request.generation # plan.generation
    \/ builds[j].made # Made(plan)

DownloadReady(j) ==
    /\ builds[j].state = "succeeded" /\ builds[j].verdict = "validated"
    /\ FileOf(builds[j].made) = "ok"
    /\ ~Stale(j)

MNext ==
    \/ \E c \in Config : EditDraft(c)
    \/ StartPreview \/ PublishRevision
    \/ \E n \in DOMAIN previews : FinishPreview(n)
    \/ \E e \in Editor : \/ Look(e) \/ Save(e) \/ Delete(e)
                         \/ \E n \in DOMAIN previews : Start(e, n)
                         \/ \E s \in Sources, l \in Layout : Ask(e, s, l)
    \/ \E j \in DOMAIN builds : Load(j) \/ Store(j) \/ Validate(j) \/ Publish(j)
    \/ Damage

(* The worker pool runs the jobs that are not canceled. *)
MFairness == \A j \in 1 .. MaxBuilds :
    WF_mvars(j \in DOMAIN builds /\ (Load(j) \/ Store(j) \/ Validate(j) \/ Publish(j)))

MSpec == MInit /\ [][MNext]_mvars /\ MFairness

-----------------------------------------------------------------------------
MTypeOK ==
    /\ draft.config \in Config /\ draft.generation \in 1 .. MaxEdits + MaxRevisions + 1
    /\ \A n \in DOMAIN previews : previews[n].state \in {"running", "succeeded", "superseded"}
    /\ plan # None => plan.source \in Source /\ plan.layout \in Layout
    /\ \A j \in DOMAIN builds : /\ builds[j].made \in Package \cup {None}
                                /\ builds[j].state \in {"queued", "running", "succeeded",
                                                        "failed", "canceled"}
                                /\ builds[j].state = "succeeded" => builds[j].made # None
    /\ DOMAIN file \subseteq Package

(* A package that is offered for download is of the saved plan, the slicer *)
(* accepted it, and it shows the draft as it is now.  A plan of a published *)
(* revision stays valid while the draft moves on, so this rests on there   *)
(* being no package of one: its labels never match a geometry.             *)
DownloadIsCurrent == \A j \in DOMAIN builds : DownloadReady(j) =>
    /\ builds[j].made = Made(plan)
    /\ builds[j].verdict = "validated"
    /\ builds[j].made.source.config = draft.config
    /\ builds[j].made.source.preview = Len(previews)

(* A build packages exactly the plan its author saw, however the plan and  *)
(* the draft changed between the request and the work.                     *)
BuildsWhatWasAsked == \A j \in DOMAIN builds :
    builds[j].made # None => builds[j].made = Made(builds[j].request)

(* At most one build of a project is under way, and it is the newest.      *)
OneBuildAtATime == \A j \in DOMAIN builds : Active(j) => j = Len(builds)

(* Builds follow one another, each of what its author saw.                 *)
MuralInv == MTypeOK /\ BuildsWhatWasAsked /\ OneBuildAtATime

(* An answer from the cache is a finished build of exactly this request    *)
(* that the slicer accepted, and no second job is made of one it has.      *)
AnsweredExactly ==
    [][response' # response =>
         /\ builds'[response'.job].request = response'.request
         /\ response'.cached => builds[response'.job].verdict = "validated"
         /\ (Len(builds') > Len(builds)) =>
               \A j \in DOMAIN builds : builds[j].request = response'.request =>
                   builds[j].state # "succeeded" \/ builds[j].verdict = "failed"
                   \/ FileOf(builds[j].made) = "bad"]_mvars

(* A plan is saved only while its source is what it says, although the     *)
(* request was put together earlier: the current preview of the draft as   *)
(* it is at the moment of the save, or a published revision whose picture  *)
(* shows the revision's configuration.                                     *)
SavedPlanShowsItsSource ==
    [][(plan' # plan /\ plan' # None) =>
         LET s == plan'.source
         IN /\ previews[s.preview].config = s.config
            /\ \/ s.revision = 0 /\ s = DraftSource(Len(previews))
               \/ s.revision \in DOMAIN revisions /\ s = RevisionSource(s.revision)]_mvars

(* Every build ends. *)
BuildsEnd == \A j \in 1 .. MaxBuilds :
    (j \in DOMAIN builds /\ Active(j)) ~> (j \in DOMAIN builds /\ ~Active(j))

(* Plans and answers are exact when they are given, and builds end.        *)
RequestsAreMet == AnsweredExactly /\ SavedPlanShowsItsSource /\ BuildsEnd

(* StaleMuralPlanError: a delayed save never overwrites a newer plan.      *)
(* Fails: a deleted plan's successor starts at generation 1 again, so a    *)
(* save that expects generation 1 of the old plan replaces the new one.    *)
NoBlindOverwrite == ~blind

(* A plan whose source is valid can be built.  Fails: a plan of a published *)
(* revision is saved and stays valid, and every build of it is refused for *)
(* its geometry "was not published with the mural plan's exact revision".  *)
ValidPlansLoad ==
    plan # None /\ Valid(plan.source)
        => \E n \in DOMAIN previews : Loadable(Request(plan, n))

(* A request made after its output was damaged replaces the file.  Fails:  *)
(* nothing removes the damaged file, and put_bytes refuses to replace it.  *)
RebuildRepairs == \A j \in DOMAIN builds :
    ~(builds[j].state = "failed" /\ builds[j].made # None)
=============================================================================
