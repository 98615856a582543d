---------------------------- MODULE DraftHistory ----------------------------
(***************************************************************************)
(* One project's mutable draft, its undo history and its published         *)
(* revisions: DraftRepository and RevisionPublisher                        *)
(* (storage/repositories.py), DraftHistoryRepository (storage/history.py)  *)
(* and the request handlers of processing.py that call them.  Requests are *)
(* composed from a draft some client has seen, and may be delivered late,  *)
(* twice or never: delivery never removes a request.  A handler that reads *)
(* the draft before it opens its transaction does so in a step of its own. *)
(* A refused request (stale generation, moved cursor, failed validation)   *)
(* writes nothing and is no step.                                          *)
(***************************************************************************)
EXTENDS Naturals, Sequences, FiniteSets

CONSTANTS
    Request,       \* client requests; for history commands, their UUIDs
    Content,       \* configurations with their ordered operations
    Ops,           \* the operations clients use, a subset of AllOps
    UndoLimit,     \* UNDO_LIMIT
    MaxNodes,      \* bound: history nodes
    MaxRevisions   \* bound: published revisions

\* "save": PUT /draft and POST /preview without a history command; "edit": PUT
\* /draft with one; "publish": publish_draft_and_continue; "remove":
\* publish_draft, which deletes the draft.
AllOps == {"save", "edit", "undo", "redo", "publish", "branch", "accept", "remove", "discard"}

ASSUME OpsAssumption == Ops \subseteq AllOps
ASSUME LimitAssumption == UndoLimit \in Nat \ {0}
ASSUME BoundsAssumption == MaxNodes \in Nat \ {0} /\ MaxRevisions \in Nat

VARIABLES
    gen,        \* project_drafts.generation, 0 if there is no draft
    draft,      \* its [base, content]; base 0 stands for no revision
    nodes,      \* draft_history_nodes, by creation
    lineage,    \* the number of lineages started
    checkpoint, floor, cursor, tip,  \* draft_history_heads, 0 if there is none
    receipts,   \* draft_history_receipts: <<request, base in its payload>>
    revisions,  \* revisions, by publication
    active,     \* projects.active_revision_id
    request,    \* what each client request carries; op "none": not sent
    handler,    \* the draft a handler of the request read last
    version,    \* history: how many writes changed the draft
    lives,      \* history: how many drafts the project has had
    effects,    \* history: how many writes each request made
    reused      \* history: requests told that their UUID was reused

history == <<nodes, lineage, checkpoint, floor, cursor, tip>>
clients == <<request, handler>>
hvars == <<gen, draft, history, receipts, revisions, active, clients, version, lives, effects,
          reused>>

State == [base : 0 .. MaxRevisions, content : Content]
NoDraft == [base |-> 0, content |-> CHOOSE c \in Content : TRUE]

StateOf(id) == [base |-> nodes[id].base, content |-> nodes[id].content]

-----------------------------------------------------------------------------
(* storage/history.py *)

\* start_lineage: an anchor that is checkpoint, floor, cursor and tip.
StartLineage(state) ==
    LET id == Len(nodes) + 1 IN
    /\ id <= MaxNodes
    /\ lineage' = lineage + 1
    /\ nodes' = Append(nodes, [lineage |-> lineage + 1, parent |-> 0, depth |-> 0,
                               base |-> state.base, content |-> state.content])
    /\ checkpoint' = id /\ floor' = id /\ cursor' = id /\ tip' = id

\* Mutant: one step too many.
AncestorOneMore(tree, id, steps) ==
    LET up[k \in 0 .. steps + 1] ==
            IF k = 0 THEN id
            ELSE IF up[k - 1] = checkpoint \/ tree[up[k - 1]].parent = 0 THEN up[k - 1]
            ELSE tree[up[k - 1]].parent
    IN up[steps + 1]

\* _ancestor: at most `steps` parents up, never above the checkpoint.
Ancestor(tree, id, steps) ==
    LET up[k \in 0 .. steps] ==
            IF k = 0 THEN id
            ELSE IF up[k - 1] = checkpoint \/ tree[up[k - 1]].parent = 0 THEN up[k - 1]
            ELSE tree[up[k - 1]].parent
    IN up[steps]

\* Mutant: the tip stays behind.
AppendNodeTipStays(state) ==
    LET id == Len(nodes) + 1
        tree == Append(nodes, [lineage |-> lineage, parent |-> cursor,
                               depth |-> nodes[cursor].depth + 1,
                               base |-> state.base, content |-> state.content])
    IN  /\ id <= MaxNodes
        /\ nodes' = tree
        /\ cursor' = id
        /\ floor' = Ancestor(tree, id, UndoLimit)
        /\ UNCHANGED <<lineage, checkpoint, tip>>

\* append, its writing half: a child of the cursor becomes cursor and tip.
AppendNode(state) ==
    LET id == Len(nodes) + 1
        tree == Append(nodes, [lineage |-> lineage, parent |-> cursor,
                               depth |-> nodes[cursor].depth + 1,
                               base |-> state.base, content |-> state.content])
    IN  /\ id <= MaxNodes
        /\ nodes' = tree
        /\ cursor' = id
        /\ tip' = id
        /\ floor' = Ancestor(tree, id, UndoLimit)
        /\ UNCHANGED <<lineage, checkpoint>>

\* The nodes from a lineage's anchor to node id.
PathTo(id) ==
    LET path[n \in 1 .. Len(nodes)] ==
            IF nodes[n].parent = 0 THEN <<n>> ELSE Append(path[nodes[n].parent], n)
    IN path[id]

OnPath(a, b) == \E i \in 1 .. Len(PathTo(b)) : PathTo(b)[i] = a

\* _next_on_tip_path
NextOnTipPath ==
    CHOOSE n \in 1 .. Len(nodes) : nodes[n].parent = cursor /\ OnPath(n, tip)

\* The draft row and its head go together (trigger
\* project_draft_delete_closes_history).
RemoveDraft ==
    /\ gen' = 0
    /\ draft' = NoDraft
    /\ checkpoint' = 0 /\ floor' = 0 /\ cursor' = 0 /\ tip' = 0
    /\ UNCHANGED <<nodes, lineage>>

\* retry: what the receipt of an earlier delivery says.
Receipted(r) == \E b \in 0 .. MaxRevisions : <<r, b>> \in receipts

-----------------------------------------------------------------------------
\* import_project has stored the project's first draft.
HInit ==
    /\ gen = 1
    /\ draft \in {[base |-> 0, content |-> c] : c \in Content}
    /\ nodes = <<[lineage |-> 1, parent |-> 0, depth |-> 0,
                  base |-> 0, content |-> draft.content]>>
    /\ lineage = 1
    /\ checkpoint = 1 /\ floor = 1 /\ cursor = 1 /\ tip = 1
    /\ receipts = {}
    /\ revisions = <<>>
    /\ active = 0
    /\ request = [r \in Request |-> [op |-> "none"]]
    /\ handler = [r \in Request |-> NoDraft]
    /\ version = 0
    /\ lives = 1
    /\ effects = [r \in Request |-> 0]
    /\ reused = {}

\* A client composes a request from the draft it sees; rev is the revision it
\* branches from or whose prompted alternative it accepts.
Send(r, op, c, rev) ==
    /\ request[r].op = "none"
    /\ request' = [request EXCEPT ![r] =
            [op |-> op, content |-> c, rev |-> rev, gen |-> gen, cursor |-> cursor,
             state |-> draft, seen |-> version, life |-> lives]]
    /\ handler' = [handler EXCEPT ![r] = draft]
    /\ UNCHANGED <<gen, draft, history, receipts, revisions, active, version, lives, effects,
                   reused>>

\* save_draft, start_preview and publish_revision read the draft outside the
\* transaction, afresh on every delivery.
ReadDraft(r) ==
    /\ request[r].op \in {"save", "edit", "publish"}
    /\ handler' = [handler EXCEPT ![r] = draft]
    /\ UNCHANGED <<gen, draft, history, receipts, revisions, active, request, version,
                   lives, effects, reused>>

\* Bookkeeping of a write that request r made.
Wrote(r) ==
    /\ version' = version + 1
    /\ lives' = IF gen > 0 /\ gen' = 0 THEN lives + 1 ELSE lives
    /\ effects' = [effects EXCEPT ![r] = @ + 1]
    /\ UNCHANGED <<clients, reused>>

\* DraftRepository.save into an existing draft whose generation matches: the
\* generation moves even if the editor state is the same; a node does not.
SaveOver(r) ==
    LET state == [base |-> handler[r].base, content |-> request[r].content] IN
    /\ gen > 0
    /\ request[r].gen = gen
    /\ draft = StateOf(cursor)
    /\ gen' = gen + 1
    /\ draft' = state
    /\ \/ state = draft /\ UNCHANGED history
       \/ state # draft /\ AppendNode(state)

\* DraftRepository.save of a first draft: no node beyond the anchor, and no
\* receipt.
SaveFirst(r) ==
    LET state == [base |-> handler[r].base, content |-> request[r].content] IN
    /\ gen = 0
    /\ request[r].gen = 0
    /\ gen' = 1
    /\ draft' = state
    /\ StartLineage(state)

\* A save without a history command.
Save(r) ==
    /\ request[r].op = "save"
    /\ SaveOver(r) \/ SaveFirst(r)
    /\ Wrote(r)
    /\ UNCHANGED <<receipts, revisions, active>>

\* A save with one: cursor and before-state must be the client's, and a
\* receipt is stored with the write.
Edit(r) ==
    /\ request[r].op = "edit"
    /\ ~Receipted(r)
    /\ \/ /\ gen > 0
          /\ request[r].cursor = cursor
          /\ request[r].state = StateOf(cursor)
          /\ SaveOver(r)
          /\ receipts' = receipts \cup {<<r, handler[r].base>>}
       \/ /\ SaveFirst(r)
          /\ UNCHANGED receipts
    /\ Wrote(r)
    /\ UNCHANGED <<revisions, active>>

\* A redelivered edit whose handler has read another base revision: the payload
\* hash differs from the receipt's.
EditReused(r) ==
    /\ request[r].op = "edit"
    /\ Receipted(r)
    /\ <<r, handler[r].base>> \notin receipts
    /\ reused' = reused \cup {r}
    /\ UNCHANGED <<gen, draft, history, receipts, revisions, active, clients, version, lives,
                   effects>>

\* Mutant: the generation stays.
MoveToSameGeneration(r, target) ==
    /\ ~Receipted(r)
    /\ gen > 0
    /\ request[r].gen = gen
    /\ request[r].cursor = cursor
    /\ draft = StateOf(cursor)
    /\ gen' = gen
    /\ draft' = StateOf(target)
    /\ cursor' = target
    /\ receipts' = receipts \cup {<<r, 0>>}
    /\ Wrote(r)
    /\ UNCHANGED <<nodes, lineage, checkpoint, floor, tip, revisions, active>>

\* move_history: the target's state is materialized under a new generation.
MoveTo(r, target) ==
    /\ ~Receipted(r)
    /\ gen > 0
    /\ request[r].gen = gen
    /\ request[r].cursor = cursor
    /\ draft = StateOf(cursor)
    /\ gen' = gen + 1
    /\ draft' = StateOf(target)
    /\ cursor' = target
    /\ receipts' = receipts \cup {<<r, 0>>}
    /\ Wrote(r)
    /\ UNCHANGED <<nodes, lineage, checkpoint, floor, tip, revisions, active>>

Undo(r) ==
    /\ request[r].op = "undo"
    /\ cursor # floor
    /\ MoveTo(r, nodes[cursor].parent)

Redo(r) ==
    /\ request[r].op = "redo"
    /\ cursor # tip
    /\ MoveTo(r, NextOnTipPath)

\* _publish_locked: a sealed child of `parent` becomes the active revision.
PublishLocked(parent, c) ==
    /\ Len(revisions) < MaxRevisions
    /\ revisions' = Append(revisions, [parent |-> parent, content |-> c])
    /\ active' = Len(revisions) + 1

\* Mutant: the continuation is one more command of the same lineage.
PublishSameLineage(r) ==
    LET continued == [base |-> Len(revisions) + 1, content |-> request[r].content] IN
    /\ request[r].op = "publish"
    /\ gen > 0
    /\ request[r].gen = gen
    /\ handler[r] = draft
    /\ PublishLocked(draft.base, request[r].content)
    /\ gen' = gen + 1
    /\ draft' = continued
    /\ AppendNode(continued)
    /\ Wrote(r)
    /\ UNCHANGED receipts

\* publish_draft_and_continue: the configuration may be normalized on the way;
\* checkpoint_publication closes the lineage behind a node of its own.
PublishAndContinue(r) ==
    LET continued == [base |-> Len(revisions) + 1, content |-> request[r].content] IN
    /\ request[r].op = "publish"
    /\ gen > 0
    /\ request[r].gen = gen
    /\ handler[r] = draft
    /\ PublishLocked(draft.base, request[r].content)
    /\ gen' = gen + 1
    /\ draft' = continued
    /\ Len(nodes) + 2 <= MaxNodes
    /\ lineage' = lineage + 1
    /\ nodes' = nodes \o
          <<[lineage |-> lineage, parent |-> cursor, depth |-> nodes[cursor].depth + 1,
             base |-> nodes[cursor].base, content |-> nodes[cursor].content],
            [lineage |-> lineage + 1, parent |-> 0, depth |-> 0,
             base |-> continued.base, content |-> continued.content]>>
    /\ LET id == Len(nodes) + 2 IN
          checkpoint' = id /\ floor' = id /\ cursor' = id /\ tip' = id
    /\ Wrote(r)
    /\ UNCHANGED receipts

\* branch_revision: the revision's exact state replaces the draft.
Branch(r) ==
    LET rev == request[r].rev
        state == [base |-> rev, content |-> revisions[rev].content]
    IN  /\ request[r].op = "branch"
        /\ request[r].gen = gen
        /\ gen' = gen + 1
        /\ draft' = state
        /\ StartLineage(state)
        /\ Wrote(r)
        /\ UNCHANGED <<receipts, revisions, active>>

\* accept_prompted_alternative: publish the candidate as a child of the
\* session's parent revision and continue from it.
Accept(r) ==
    LET continued == [base |-> Len(revisions) + 1, content |-> request[r].content] IN
    /\ request[r].op = "accept"
    /\ effects[r] = 0
    /\ request[r].gen = gen
    /\ gen > 0 => draft.base = request[r].rev
    /\ PublishLocked(request[r].rev, request[r].content)
    /\ gen' = gen + 1
    /\ draft' = continued
    /\ StartLineage(continued)
    /\ Wrote(r)
    /\ UNCHANGED receipts

\* publish_draft: publish this generation and delete the draft.
PublishDraft(r) ==
    /\ request[r].op = "remove"
    /\ gen > 0
    /\ request[r].gen = gen
    /\ PublishLocked(draft.base, draft.content)
    /\ RemoveDraft
    /\ Wrote(r)
    /\ UNCHANGED receipts

Discard(r) ==
    /\ request[r].op = "discard"
    /\ gen > 0
    /\ request[r].gen = gen
    /\ RemoveDraft
    /\ Wrote(r)
    /\ UNCHANGED <<receipts, revisions, active>>

NeedsRevision == {"branch", "accept"}
NeedsContent == {"save", "edit", "publish", "accept"}

HNext ==
    \/ \E r \in Request, op \in Ops, c \in Content, rev \in 0 .. Len(revisions) :
          /\ op \in NeedsRevision <=> rev # 0
          /\ op \in NeedsContent \/ c = draft.content
          /\ Send(r, op, c, rev)
    \/ \E r \in Request :
          \/ ReadDraft(r) \/ Save(r) \/ Edit(r) \/ EditReused(r)
          \/ Undo(r) \/ Redo(r)
          \/ PublishAndContinue(r) \/ Branch(r) \/ Accept(r)
          \/ PublishDraft(r) \/ Discard(r)

HSpec == HInit /\ [][HNext]_hvars

-----------------------------------------------------------------------------
(* Correctness. *)

Heads == 0 .. Len(nodes)

\* Every column holds a value of its domain.
HTypeOK ==
    /\ gen \in Nat
    /\ draft \in State
    /\ nodes \in Seq([lineage : 1 .. lineage, parent : 0 .. MaxNodes, depth : 0 .. MaxNodes,
                      base : 0 .. MaxRevisions, content : Content])
    /\ lineage \in 1 .. MaxNodes
    /\ checkpoint \in Heads /\ floor \in Heads /\ cursor \in Heads /\ tip \in Heads
    /\ receipts \subseteq Request \X (0 .. MaxRevisions)
    /\ revisions \in Seq([parent : 0 .. MaxRevisions, content : Content])
    /\ active \in 0 .. Len(revisions)
    /\ handler \in [Request -> State]
    /\ reused \subseteq Request

\* The draft row is exactly the history state the cursor names, and there is a
\* head exactly when there is a draft: otherwise _assert_materialized_state
\* refuses every later edit, undo and redo of the project.
Materialized ==
    /\ gen = 0 <=> cursor = 0
    /\ gen > 0 => draft = StateOf(cursor)

\* Undo and redo always find their target: checkpoint, floor, cursor and tip
\* lie on one path of the current lineage, so neither the parent lookup of
\* target() nor _next_on_tip_path can fail or leave the lineage.
CursorOnTipPath ==
    gen > 0 =>
        /\ OnPath(checkpoint, floor) /\ OnPath(floor, cursor) /\ OnPath(cursor, tip)
        /\ nodes[checkpoint].parent = 0
        /\ nodes[checkpoint].lineage = lineage /\ nodes[tip].lineage = lineage

\* Draft row, head and nodes fit together: every history command is possible.
HistoryInv == HTypeOK /\ Materialized /\ CursorOnTipPath

\* Undo never crosses a publication, a branch or an acceptance, and no save
\* carries a base revision read before one past it: every state the user can
\* reach by undo and redo continues from the same revision.  Generations restart
\* with a new draft, but no route deletes a draft at present.
LineHasOneBase ==
    lives = 1 => \A i \in 1 .. Len(PathTo(tip)) : nodes[PathTo(tip)[i]].base = draft.base

\* As long as a draft lives, every write acts on exactly the state its sender
\* saw: no request, however late or often it is delivered, overwrites a newer
\* draft unseen (docs/storage-schema.md:38), and none has its effect twice.
ActsOnWhatWasSeen ==
    [][\A r \in Request : effects'[r] # effects[r] =>
          request[r].life # lives \/ request[r].seen = version]_hvars

\* Repeating the same UUID with the same request returns the original result
\* (docs/api-contract.md:196); it is never called a reuse.
RetryReturnsOriginal == reused = {}

-----------------------------------------------------------------------------
(* Refinement: the node graph is a line with an undo window. *)

line == IF gen = 0 THEN <<>> ELSE [i \in 1 .. Len(PathTo(tip)) |-> StateOf(PathTo(tip)[i])]
pos == IF gen = 0 THEN 0 ELSE Len(PathTo(cursor))

Line == INSTANCE UndoLine WITH Limit <- UndoLimit

\* The history tables implement the undo line.
ImplementsUndoLine == Line!Spec

=============================================================================
