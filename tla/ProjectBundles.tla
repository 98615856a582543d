--------------------------- MODULE ProjectBundles ---------------------------
(***************************************************************************)
(* Export of one project to a bundle and its restoration (bundles.py).     *)
(* Export reads table after table, each statement seeing the database of   *)
(* its moment, while the project is edited, undone and published; restore  *)
(* verifies the archive, stores its files and writes all rows in one       *)
(* transaction, giving new identities to what exists already.              *)
(***************************************************************************)
EXTENDS Naturals, Sequences, FiniteSets

CONSTANTS
    Paint,         \* what a configuration says besides its source asset
    Restorer,      \* requests that restore a bundle
    Nothing,          \* nothing read, no parent, no base
    MaxNodes,      \* bound: history nodes
    MaxRevisions,  \* bound: published revisions
    MaxExports,    \* bound: archives
    MaxRestores    \* bound: restores begun

ASSUME PaintAssumption == Paint # {}
ASSUME NothingAssumption == Nothing \notin Nat
ASSUME RestoreBoundAssumption == {MaxNodes, MaxRevisions, MaxExports, MaxRestores} \subseteq Nat

VARIABLES
    revisions, draft, nodes, head,  \* the project (see DraftHistory)
    export,     \* the request that exports: where it is, what it has read
    archives,   \* bundles; an archive is named by its content, as by its hash
    target,     \* where bundles are restored: whether it is where the project lives,
                \* and the asset row of the source image there, or Nothing
    projects,   \* what was imported there
    restorer,   \* the requests that restore
    restores

project == <<revisions, draft, nodes, head>>
pvars == <<project, export, archives, target, projects, restorer, restores>>

(* Identities: <<0, x>> where the project was made, <<n, x>> if the n-th   *)
(* import had to choose a new one.  The source image is asset <<0, "image">>. *)
Id(x) == <<0, x>>
Image == Id("image")

Config == [asset : {Image}, paint : Paint]
Fresh(n) == <<n, 0>>
Unread == [pc |-> "idle", mode |-> Nothing, active |-> 0, revisions |-> <<>>, draft |-> Nothing,
           nodes |-> <<>>, head |-> Nothing, moment |-> Nothing]

PInit ==
    /\ revisions = <<>>
    /\ draft = [base |-> Nothing, config |-> [asset |-> Image, paint |-> CHOOSE p \in Paint : TRUE]]
    /\ nodes = <<[lineage |-> Nothing, parent |-> Nothing, config |-> draft.config]>>
    /\ head = [floor |-> 1, cursor |-> 1, tip |-> 1]
    /\ export = Unread
    /\ archives = {}
    /\ target \in {[local |-> TRUE, image |-> Image]}
                  \cup [local : {FALSE}, image : {Nothing, <<1, "other row">>}]
    /\ projects = <<>>
    /\ restorer = [r \in Restorer |-> [pc |-> "idle"]]
    /\ restores = 0

-----------------------------------------------------------------------------
(* The project is worked on.  A lineage is named by its base revision.     *)
OnPath(tree, a, b) ==
    LET up[n \in 1 .. Len(tree)] == n = a \/ (tree[n].parent # Nothing /\ up[tree[n].parent])
    IN b \in 1 .. Len(tree) /\ up[b]

Edit(c) ==
    /\ Len(nodes) < MaxNodes /\ c # draft.config
    /\ draft' = [draft EXCEPT !.config = c]
    /\ nodes' = Append(nodes, [lineage |-> draft.base, parent |-> head.cursor, config |-> c])
    /\ head' = [head EXCEPT !.cursor = Len(nodes) + 1, !.tip = Len(nodes) + 1]
    /\ UNCHANGED <<revisions, export, archives, target, projects, restorer, restores>>

MoveTo(n) ==
    /\ head' = [head EXCEPT !.cursor = n]
    /\ draft' = [draft EXCEPT !.config = nodes[n].config]
    /\ UNCHANGED <<revisions, nodes, export, archives, target, projects, restorer, restores>>

UndoDraft == head.cursor # head.floor /\ MoveTo(nodes[head.cursor].parent)
Redo == \E n \in DOMAIN nodes : /\ nodes[n].parent = head.cursor /\ OnPath(nodes, n, head.tip)
                                /\ MoveTo(n)

Publish ==
    LET id == Len(revisions) + 1 IN
    /\ id <= MaxRevisions /\ Len(nodes) < MaxNodes
    /\ \E evidence \in {{}, {<<0, id>>}} :   \* derivation keys of the fresh preview's artifacts
          revisions' = Append(revisions, [parent |-> draft.base, config |-> draft.config,
              status |-> IF evidence = {} THEN "missing" ELSE "fresh", artifacts |-> evidence])
    /\ draft' = [draft EXCEPT !.base = id]
    /\ nodes' = Append(nodes, [lineage |-> id, parent |-> Nothing, config |-> draft.config])
    /\ head' = [floor |-> Len(nodes) + 1, cursor |-> Len(nodes) + 1, tip |-> Len(nodes) + 1]
    /\ UNCHANGED <<export, archives, target, projects, restorer, restores>>

-----------------------------------------------------------------------------
(* _build_manifest, one statement at a time.  The active revision is the   *)
(* last one published; the row of the project that names it is read first. *)
Outside == UNCHANGED <<project, target, projects, restorer, restores>>

ReadProject ==
    /\ export.pc = "idle" /\ Cardinality(archives) < MaxExports
    /\ \E mode \in {"full_history", "current_state_only"} :
          export' = [Unread EXCEPT !.pc = "revisions", !.mode = mode, !.active = Len(revisions)]
    /\ UNCHANGED archives /\ Outside

ReadRevisions ==
    /\ export.pc = "revisions"
    /\ export' = [export EXCEPT !.pc = "draft", !.revisions = revisions]
    /\ UNCHANGED archives /\ Outside

ReadDraft ==
    /\ export.pc = "draft"
    /\ export' = [export EXCEPT !.pc = IF export.mode = "full_history" THEN "nodes" ELSE "check",
                                !.draft = draft]
    /\ UNCHANGED archives /\ Outside

ReadNodes ==
    /\ export.pc = "nodes"
    /\ export' = [export EXCEPT !.pc = "head", !.nodes = nodes]
    /\ UNCHANGED archives /\ Outside

ReadHead ==
    /\ export.pc = "head"
    /\ export' = [export EXCEPT !.pc = "check", !.head = head,
                  !.moment = [revisions |-> revisions, draft |-> draft,
                              nodes |-> nodes, head |-> head]]
    /\ UNCHANGED archives /\ Outside

(* BundleManifest.references_are_closed, for what an export may have read. *)
ReferencesClosed(m) ==
    LET own == (1 .. Len(m.revisions)) \cup {Nothing} IN
    m.draft.base \in own /\ \A i \in DOMAIN m.revisions : m.revisions[i].parent \in own

(* _validate_history. *)
\* Mutant: nodes of the head need not be on one path, nor the draft its cursor's
HistoryReferencesClosed(m) == m.mode = "full_history" =>
    /\ \A n \in DOMAIN m.nodes : m.nodes[n].lineage \in (1 .. Len(m.revisions)) \cup {Nothing}
    /\ \A f \in {"floor", "cursor", "tip"} : m.head[f] \in DOMAIN m.nodes

HistoryClosed(m) == m.mode = "full_history" =>
    /\ \A n \in DOMAIN m.nodes : m.nodes[n].lineage \in (1 .. Len(m.revisions)) \cup {Nothing}
    /\ OnPath(m.nodes, m.head.floor, m.head.cursor)
    /\ OnPath(m.nodes, m.head.cursor, m.head.tip)
    /\ m.draft.config = m.nodes[m.head.cursor].config
    /\ m.draft.base = m.nodes[m.head.cursor].lineage

ManifestClosed(m) == ReferencesClosed(m) /\ HistoryClosed(m)

Check ==
    /\ export.pc = "check"
    /\ export' = Unread
    /\ archives' = archives \cup (IF ManifestClosed(export) THEN {export} ELSE {})
    /\ Outside

-----------------------------------------------------------------------------
(* restore: the archive is verified and looked up; its files are stored;   *)
(* one transaction looks it up again and writes the rows.                  *)
(* Identities in use where bundles are restored: revisions, history nodes  *)
(* and derivation keys of artifacts, each under its own kind.              *)
IdsOf(p) == {<<"revision", x.id>> : x \in {p.revisions[i] : i \in DOMAIN p.revisions}}
            \cup {<<"node", x.id>> : x \in {p.nodes[i] : i \in DOMAIN p.nodes}}
            \cup {<<"key", k>> : k \in UNION {p.revisions[i].artifacts : i \in DOMAIN p.revisions}}

SourceIds == {<<"revision", Id(i)>> : i \in DOMAIN revisions}
             \cup {<<"node", Id(i)>> : i \in DOMAIN nodes}
             \cup {<<"key", k>> : k \in UNION {revisions[i].artifacts : i \in DOMAIN revisions}}

Occupied == (IF target.local THEN SourceIds ELSE {}) \cup UNION {IdsOf(projects[n]) : n \in DOMAIN projects}

(* _available_id: the identity of the archive, or a new one. *)
NewId(kind, id) == IF <<kind, id>> \notin Occupied THEN id ELSE <<Len(projects) + 1, id[2]>>

Imported(a) == \E n \in DOMAIN projects : projects[n].archive = a

(* The asset is found by the hash of its content, or inserted. *)
TargetImage == IF target.image = Nothing THEN Image ELSE target.image

Rewrite(c) == [c EXCEPT !.asset = TargetImage]

RevisionId(i) == IF i = Nothing THEN Nothing ELSE NewId("revision", Id(i))
NodeId(n) == IF n = Nothing THEN Nothing ELSE NewId("node", Id(n))

(* Fresh evidence stays fresh if neither the configuration nor the         *)
(* artifact manifest is changed by the new identities.                     *)
\* Mutant: the artifacts are not compared
RestoredFreshByConfig(v, i) ==
    LET keys == {NewId("key", k) : k \in v.artifacts} IN
    [id |-> RevisionId(i), parent |-> RevisionId(v.parent), config |-> Rewrite(v.config),
     artifacts |-> keys,
     status |-> IF v.status = "fresh" /\ Rewrite(v.config) # v.config THEN "stale" ELSE v.status]

RestoredRevision(v, i) ==
    LET keys == {NewId("key", k) : k \in v.artifacts} IN
    [id |-> RevisionId(i), parent |-> RevisionId(v.parent), config |-> Rewrite(v.config),
     artifacts |-> keys,
     status |-> IF v.status = "fresh" /\ (Rewrite(v.config) # v.config \/ keys # v.artifacts)
                THEN "stale" ELSE v.status]

RestoredDraft(a) == [base |-> RevisionId(a.draft.base), config |-> Rewrite(a.draft.config)]

(* _restore_full_history; without a history the draft gets a new anchor.   *)
RestoredHistory(a) ==
    IF a.mode = "full_history"
    THEN [nodes |-> [n \in DOMAIN a.nodes |->
                        [id |-> NodeId(n), lineage |-> RevisionId(a.nodes[n].lineage),
                         parent |-> NodeId(a.nodes[n].parent), config |-> Rewrite(a.nodes[n].config)]],
          head |-> [f \in {"floor", "cursor", "tip"} |-> NodeId(a.head[f])]]
    ELSE [nodes |-> <<[id |-> Fresh(Len(projects) + 1), parent |-> Nothing,
                       lineage |-> RestoredDraft(a).base, config |-> RestoredDraft(a).config]>>,
          head |-> [f \in {"floor", "cursor", "tip"} |-> Fresh(Len(projects) + 1)]]

Begin(r) ==
    /\ restorer[r].pc = "idle" /\ restores < MaxRestores /\ restores' = restores + 1
    /\ \E a \in archives : ~Imported(a) /\ restorer' = [restorer EXCEPT ![r] =
                                                            [pc |-> "stored", archive |-> a]]
    /\ UNCHANGED <<project, export, archives, target, projects>>

WriteProject(a) ==
    /\ projects' = Append(projects,
          [archive |-> a, draft |-> RestoredDraft(a),
           revisions |-> [i \in DOMAIN a.revisions |-> RestoredRevision(a.revisions[i], i)],
           nodes |-> RestoredHistory(a).nodes, head |-> RestoredHistory(a).head])
    /\ target' = [target EXCEPT !.image = TargetImage]

Commit(r) ==
    /\ restorer[r].pc = "stored"
    /\ restorer' = [restorer EXCEPT ![r] = [pc |-> "idle"]]
    /\ IF Imported(restorer[r].archive) THEN UNCHANGED <<projects, target>>
                                        ELSE WriteProject(restorer[r].archive)
    /\ UNCHANGED <<project, export, archives, restores>>

PNext ==
    \/ \E p \in Paint : Edit([asset |-> Image, paint |-> p])
    \/ UndoDraft \/ Redo \/ Publish
    \/ ReadProject \/ ReadRevisions \/ ReadDraft \/ ReadNodes \/ ReadHead \/ Check
    \/ \E r \in Restorer : Begin(r) \/ Commit(r)

PSpec == PInit /\ [][PNext]_pvars

-----------------------------------------------------------------------------
PTypeOK ==
    /\ draft.config \in Config
    /\ head.cursor \in DOMAIN nodes /\ draft.config = nodes[head.cursor].config
    /\ \A a \in archives : a.pc = "check" /\ a.draft.config \in Config
    /\ \A n \in DOMAIN projects : projects[n].draft.config.asset = target.image

(* Although export reads table after table while the project changes, what *)
(* a full-history bundle holds is the project as it was at one moment: its *)
(* draft, its whole history with the redo branches, its position in it.    *)
BundleIsAMoment == \A a \in archives : a.mode = "full_history" =>
    /\ a.moment.draft = a.draft /\ a.moment.nodes = a.nodes /\ a.moment.head = a.head
    /\ a.moment.revisions = a.revisions

(* The active revision of a bundle is the last of its revisions (it is not *)
(* if the project is published after its own row was read).                *)
ActiveIsLast == \A a \in archives : a.active = Len(a.revisions)

Node(p, id) == CHOOSE x \in {p.nodes[i] : i \in DOMAIN p.nodes} : x.id = id

(* A restored project stands where the bundle stood: its draft is the      *)
(* state at its cursor, with the identities it was given, and every base   *)
(* and parent is a revision of its own.                                    *)
RestoredStandsAtCursor == \A n \in DOMAIN projects :
    LET p == projects[n] own == {p.revisions[i].id : i \in DOMAIN p.revisions} \cup {Nothing} IN
    /\ p.draft.config = Node(p, p.head.cursor).config
    /\ p.draft.base = Node(p, p.head.cursor).lineage
    /\ \A i \in DOMAIN p.nodes : /\ p.nodes[i].lineage \in own
                                 /\ p.nodes[i].config.asset = target.image
    /\ \A i \in DOMAIN p.revisions : p.revisions[i].parent \in own
    /\ p.draft.config.paint = p.archive.draft.config.paint

(* A restored revision that claims fresh evidence has the configuration    *)
(* and exactly the artifacts for which the evidence was made.              *)
FreshIsExact == \A n \in DOMAIN projects : LET p == projects[n] IN
    \A i \in DOMAIN p.revisions : p.revisions[i].status = "fresh" =>
        /\ p.revisions[i].config = p.archive.revisions[i].config
        /\ p.revisions[i].artifacts = p.archive.revisions[i].artifacts

(* However often and however concurrently a bundle is restored, there is   *)
(* one project for it.                                                     *)
OneProjectPerBundle == \A m, n \in DOMAIN projects :
    projects[m].archive = projects[n].archive => m = n

(* No two projects share a revision, a node or a derivation key.           *)
IdentitiesAreUnique ==
    /\ \A m, n \in DOMAIN projects : m # n => IdsOf(projects[m]) \cap IdsOf(projects[n]) = {}
    /\ target.local => \A n \in DOMAIN projects : IdsOf(projects[n]) \cap SourceIds = {}

(* Restored projects are complete, distinct and no more than was archived.  *)
BundleInv ==
    /\ PTypeOK
    /\ RestoredStandsAtCursor
    /\ FreshIsExact
    /\ OneProjectPerBundle
    /\ IdentitiesAreUnique
=============================================================================
