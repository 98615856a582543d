----------------------------- MODULE StoreProofs -----------------------------
(***************************************************************************)
(* What is proved of the three stores of the workspace.                    *)
(*                                                                         *)
(* The files: the collector never takes content that is in use, for any    *)
(* number of paths and concurrent writes and any safety age.  Content is   *)
(* in use when a table that the collector reads has a row of it; the rows  *)
(* of prompted edits are not among them and get no protection.  The        *)
(* argument is about three times of one path: that of the oldest file it   *)
(* ever had, that of the row and that of the plan.                         *)
(*                                                                         *)
(* The draft and its history: the node graph is a line of states with an   *)
(* undo window, for any number of requests, contents, nodes and revisions  *)
(* and any undo limit.  The argument is about one path, that from the      *)
(* newest anchor to the tip: checkpoint, floor and cursor lie on it at     *)
(* known depths.  The paths are recursive functions over the nodes; what   *)
(* they compute follows from the least node that would violate it.         *)
(*                                                                         *)
(* The job table, for every set of jobs and keys, and the worker manager   *)
(* over it for any number of threads.  The table's inductive invariant     *)
(* joins the checked invariants with the identity of the head rows, which  *)
(* is what makes "active implies current" survive an enqueue: the job an   *)
(* enqueue leaves behind is the head it supersedes.  Each step of the      *)
(* manager is a transaction of the table or leaves it alone, so what is    *)
(* proved of the table holds for real threads; its own invariant adds what *)
(* a thread's position says of its row, the queue's contents and the       *)
(* tokens that closing has signaled.                                       *)
(***************************************************************************)
EXTENDS Workers, BlobStore, DraftHistory, WellFoundedInduction, TLAPS

(***************************************************************************)
(*                               The files                                 *)
(***************************************************************************)

\* Path p had a file that has reached the safety age by now.
Aged(p) == oldest[p] # 0 /\ now - oldest[p] >= MinAge

ClockFits ==
    /\ gnow <= now
    /\ \A p \in Path : file[p] # 0 => oldest[p] # 0 /\ oldest[p] <= file[p]

\* Whatever the collector may take or has taken is aged.
CandidatesAged ==
    /\ \A c \in reviewed : c[1] \in Path => Aged(c[1])
    /\ \A c \in todo : c[1] \in Path => Aged(c[1])
    /\ marked # NoCandidate /\ marked[1] \in Path => Aged(marked[1])
    /\ \A p \in collected : Aged(p)

\* There are candidates to look at only while the collector executes.
CollectorFits == gpc # "executing" => todo = {} /\ marked = NoCandidate

\* A row is inserted once.
RowsFit ==
    /\ held \subseteq Write
    /\ \A w \in recorded \cup prompt \cup held : wpc[w] = "done"

\* No candidate is the path of a prompt publication, unless the references
\* that the collector has read name it.
PromptGuarded ==
    \A w \in prompt \cap recorded :
        IsRead(w) =>
        /\ \A c \in todo : c[1] = path[w] => path[w] \in grefs
        /\ marked # NoCandidate => marked[1] # path[w]

\* The references that the collector has read name every row that was there
\* when apply began and still is.
HeldGuarded ==
    \A w \in held \cap recorded :
        IsRead(w) =>
        /\ gpc = "executing" => path[w] \in grefs
        /\ marked # NoCandidate => marked[1] # path[w]

BInv == /\ BTypeOK /\ ClockFits /\ CandidatesAged /\ CollectorFits /\ RowsFit
        /\ PromptGuarded /\ HeldGuarded /\ PromptPublicationSurvives

LEMMA BInitInv == BInit => BInv
<1> SUFFICES ASSUME BInit PROVE BInv
    OBVIOUS
<1> USE TimeAssumption DEF BInit, NoCandidate
<1>1. BTypeOK
    BY DEF BTypeOK
<1>2. ClockFits /\ CandidatesAged /\ CollectorFits
    BY DEF ClockFits, CandidatesAged, CollectorFits
<1>3. RowsFit /\ PromptGuarded /\ HeldGuarded /\ PromptPublicationSurvives
    BY DEF RowsFit, PromptGuarded, HeldGuarded, PromptPublicationSurvives, IsRead
<1> QED
    BY <1>1, <1>2, <1>3 DEF BInv

-----------------------------------------------------------------------------
(* The clock and the writes *)

LEMMA TickInv == ASSUME BInv, Tick PROVE BInv'
<1> USE TimeAssumption DEF BInv, BTypeOK, Tick, writeVars, gcVars
<1>1. BTypeOK'
    OBVIOUS
<1>2. ClockFits' /\ CollectorFits' /\ RowsFit'
    BY DEF ClockFits, CollectorFits, RowsFit
<1>3. CandidatesAged'
    <2>1. \A p \in Path : Aged(p) => Aged(p)'
        BY DEF Aged
    <2> QED
        BY <2>1 DEF CandidatesAged
<1>4. PromptGuarded' /\ HeldGuarded' /\ PromptPublicationSurvives'
    BY DEF PromptGuarded, HeldGuarded, PromptPublicationSurvives, IsRead
<1> QED
    BY <1>1, <1>2, <1>3, <1>4

\* What a write does before and after its file is in place.
LEMMA WriteInv ==
    ASSUME BInv, NEW w \in Write,
           \/ WriteTemp(w) \/ LookUp(w) \/ Reuse(w) \/ WriteFails(w) \/ Verify(w) \/ Abandon(w)
    PROVE  BInv'
<1> USE DEF BInv
<1>1. /\ UNCHANGED <<now, file, path, kind, recorded, oldest, prompt, collected, dpc, gcVars>>
      /\ wpc[w] # "done"
      /\ \A v \in Write \ {w} : wpc'[v] = wpc[v]
      /\ temp' \in [Write -> 0 .. MaxTime]
      /\ wpc' \in [Write -> {"idle", "writing", "placing", "reusing", "stored", "verified",
                             "done", "failed"}]
    <2> USE DEF BTypeOK, fileVars
    <2>1. CASE WriteTemp(w)
        BY <2>1, TimeAssumption DEF WriteTemp
    <2>2. CASE LookUp(w) \/ Verify(w) \/ Abandon(w)
        BY <2>2 DEF LookUp, Verify, Abandon
    <2>3. CASE Reuse(w) \/ WriteFails(w)
        BY <2>3, TimeAssumption DEF Reuse, WriteFails
    <2> QED
        BY <2>1, <2>2, <2>3
<1> USE DEF gcVars
<1>2. BTypeOK'
    BY <1>1 DEF BTypeOK
<1>3. ClockFits' /\ CollectorFits'
    BY <1>1 DEF ClockFits, CollectorFits
<1>4. RowsFit'
    BY <1>1 DEF RowsFit, BTypeOK
<1>5. CandidatesAged'
    BY <1>1 DEF CandidatesAged, Aged
<1>6. PromptGuarded' /\ HeldGuarded' /\ PromptPublicationSurvives'
    BY <1>1 DEF PromptGuarded, HeldGuarded, PromptPublicationSurvives, IsRead
<1> QED
    BY <1>2, <1>3, <1>4, <1>5, <1>6

LEMMA PlaceInv == ASSUME BInv, NEW w \in Write, Place(w) PROVE BInv'
<1> USE TimeAssumption DEF BInv, BTypeOK, Place, gcVars
<1> DEFINE p == path[w]
<1>1. p \in Path /\ temp[w] \in 1 .. MaxTime
    OBVIOUS
<1>2. /\ oldest' = [oldest EXCEPT ![p] = IF @ = 0 \/ temp[w] < @ THEN temp[w] ELSE @]
      /\ file' = [file EXCEPT ![p] = temp[w]]
      /\ UNCHANGED <<now, gnow>>
    OBVIOUS
<1> HIDE DEF p
<1>3. BTypeOK'
    <2>1. oldest' \in [Path -> 0 .. MaxTime] /\ file' \in [Path -> 0 .. MaxTime]
        BY <1>1, <1>2
    <2>2. temp' \in [Write -> 0 .. MaxTime]
        OBVIOUS
    <2> QED
        BY <2>1, <2>2
<1>4. ClockFits'
    BY <1>1, <1>2 DEF ClockFits
<1>5. \A q \in Path : Aged(q) => Aged(q)'
    BY <1>1, <1>2 DEF Aged
<1>6. CandidatesAged'
    BY <1>5 DEF CandidatesAged
<1>7. CollectorFits' /\ RowsFit'
    BY DEF CollectorFits, RowsFit
<1>8. PromptGuarded' /\ HeldGuarded' /\ PromptPublicationSurvives'
    BY DEF PromptGuarded, HeldGuarded, PromptPublicationSurvives, IsRead
<1> QED
    BY <1>3, <1>4, <1>6, <1>7, <1>8

\* A row that is prompt is inserted while nothing at its path is aged, so the
\* collector has no such candidate.
LEMMA InsertRowInv == ASSUME BInv, NEW w \in Write, InsertRow(w) PROVE BInv'
<1> USE TimeAssumption DEF BInv, BTypeOK, InsertRow, fileVars, gcVars
<1>1. /\ wpc[w] = "verified" /\ path[w] \in Path
      /\ w \in prompt' => ~Aged(path[w]) \/ w \in prompt
      /\ recorded' = recorded \cup {w} /\ prompt' \subseteq prompt \cup {w}
    BY DEF Aged
<1>2. w \notin prompt /\ w \notin held /\ w \notin recorded
    BY <1>1 DEF RowsFit
<1>3. BTypeOK'
    OBVIOUS
<1>4. ClockFits' /\ CollectorFits' /\ RowsFit'
    BY DEF ClockFits, CollectorFits, RowsFit
<1>5. CandidatesAged'
    BY DEF CandidatesAged, Aged
<1>6. HeldGuarded'
    BY <1>1, <1>2 DEF HeldGuarded, IsRead
<1>7. PromptGuarded'
    <2>1. ASSUME NEW v \in prompt' \cap recorded', v = w
          PROVE  /\ \A c \in todo : c[1] # path[v]
                 /\ marked # NoCandidate => marked[1] # path[v]
        BY <1>1, <1>2, <2>1 DEF CandidatesAged
    <2>2. ASSUME NEW v \in prompt' \cap recorded', v # w
          PROVE  v \in prompt \cap recorded
        BY <1>1, <2>2
    <2> QED
        BY <2>1, <2>2 DEF PromptGuarded, IsRead
<1>8. PromptPublicationSurvives'
    BY <1>1, <1>2 DEF PromptPublicationSurvives, CandidatesAged, IsRead
<1> QED
    BY <1>3, <1>4, <1>5, <1>6, <1>7, <1>8

-----------------------------------------------------------------------------
(* Deletion of an artifact *)

LEMMA DeletionInv ==
    ASSUME BInv, NEW w \in Write, ResolvePath(w) \/ DeleteArtifactRow(w) \/ UnlinkArtifact(w)
    PROVE  BInv'
<1> USE DEF BInv
<1>1. /\ UNCHANGED <<now, temp, wpc, path, kind, oldest, prompt, collected, gcVars>>
      /\ recorded' \subseteq recorded
      /\ file' \in [Path -> 0 .. MaxTime]
      /\ \A p \in Path : file'[p] \in {0, file[p]}
      /\ dpc' \in [Write -> {"idle", "resolved", "unresolved", "unlinking", "done"}]
    <2> USE DEF BTypeOK, fileVars, writeVars
    <2>1. CASE ResolvePath(w)
        BY <2>1 DEF ResolvePath
    <2>2. CASE DeleteArtifactRow(w)
        BY <2>2 DEF DeleteArtifactRow
    <2>3. CASE UnlinkArtifact(w)
        BY <2>3, TimeAssumption DEF UnlinkArtifact
    <2> QED
        BY <2>1, <2>2, <2>3
<1> USE DEF gcVars
<1>2. BTypeOK'
    BY <1>1 DEF BTypeOK
<1>3. ClockFits' /\ CollectorFits' /\ RowsFit'
    BY <1>1 DEF ClockFits, CollectorFits, RowsFit
<1>4. CandidatesAged'
    BY <1>1 DEF CandidatesAged, Aged
<1>5. PromptGuarded' /\ HeldGuarded' /\ PromptPublicationSurvives'
    BY <1>1 DEF PromptGuarded, HeldGuarded, PromptPublicationSurvives, IsRead
<1> QED
    BY <1>2, <1>3, <1>4, <1>5

-----------------------------------------------------------------------------
(* Garbage collection *)

LEMMA PlanInv == ASSUME BInv, PlanReads \/ PlanScans PROVE BInv'
<1> USE TimeAssumption DEF BInv, BTypeOK, fileVars, writeVars
<1>1. CASE PlanReads
    <2> USE <1>1 DEF PlanReads
    <2>1. BTypeOK'
        BY DEF ReferencedBlobs, IsRead
    <2>2. ClockFits' /\ CollectorFits' /\ RowsFit' /\ CandidatesAged'
        BY DEF ClockFits, CollectorFits, RowsFit, CandidatesAged, Aged
    <2>3. PromptGuarded' /\ HeldGuarded' /\ PromptPublicationSurvives'
        BY DEF PromptGuarded, HeldGuarded, PromptPublicationSurvives, CollectorFits, IsRead
    <2> QED
        BY <2>1, <2>2, <2>3
<1>2. CASE PlanScans
    <2> USE <1>2 DEF PlanScans
    <2>1. /\ Candidates(grefs) \subseteq Items \X (1 .. MaxTime)
          /\ \A c \in Candidates(grefs) : c[1] \in Path => Aged(c[1])
        <3> SUFFICES ASSUME NEW x \in Path \cup Write, Old(x)
                     PROVE  /\ Mtime(x) \in 1 .. MaxTime
                            /\ x \in Path => Aged(x)
            BY DEF Candidates, Items
        <3>1. CASE x \in Path
            BY <3>1 DEF Old, Mtime, ClockFits, Aged
        <3>2. CASE x \notin Path
            BY <3>2 DEF Old, Mtime
        <3> QED
            BY <3>1, <3>2
    <2>2. BTypeOK'
        BY <2>1
    <2>3. ClockFits' /\ CollectorFits' /\ RowsFit'
        BY DEF ClockFits, CollectorFits, RowsFit
    <2>4. CandidatesAged'
        BY <2>1 DEF CandidatesAged, Aged
    <2>5. PromptGuarded' /\ HeldGuarded' /\ PromptPublicationSurvives'
        BY DEF PromptGuarded, HeldGuarded, PromptPublicationSurvives, CollectorFits, IsRead
    <2> QED
        BY <2>2, <2>3, <2>4, <2>5
<1> QED
    BY <1>1, <1>2

LEMMA ApplyInv == ASSUME BInv, ApplyReads \/ ApplyCompares PROVE BInv'
<1> USE TimeAssumption DEF BInv, BTypeOK, fileVars, writeVars, ApplyReads, ApplyCompares
<1>1. BTypeOK'
    BY DEF ReferencedBlobs, IsRead
<1>2. ClockFits' /\ CollectorFits' /\ RowsFit' /\ CandidatesAged'
    BY DEF ClockFits, CollectorFits, RowsFit, CandidatesAged, Aged
<1>3. PromptGuarded' /\ HeldGuarded' /\ PromptPublicationSurvives'
    BY DEF PromptGuarded, HeldGuarded, PromptPublicationSurvives, CollectorFits, IsRead
<1> QED
    BY <1>1, <1>2, <1>3

\* The last reading of the references: it names every row of the tables read.
LEMMA ExecuteReadsInv == ASSUME BInv, ExecuteReads PROVE BInv'
<1> USE DEF BInv, BTypeOK, fileVars, writeVars, ExecuteReads
<1>1. \A w \in recorded : IsRead(w) => path[w] \in grefs'
    BY DEF ReferencedBlobs, IsRead
<1>2. BTypeOK'
    BY DEF ReferencedBlobs, IsRead
<1>3. ClockFits' /\ CollectorFits' /\ RowsFit' /\ CandidatesAged'
    BY DEF ClockFits, CollectorFits, RowsFit, CandidatesAged, Aged
<1>4. PromptGuarded' /\ HeldGuarded' /\ PromptPublicationSurvives'
    BY <1>1 DEF PromptGuarded, HeldGuarded, PromptPublicationSurvives, CollectorFits, IsRead
<1> QED
    BY <1>2, <1>3, <1>4

LEMMA ExecuteChecksInv == ASSUME BInv, NEW c \in todo, ExecuteChecks(c) PROVE BInv'
<1> USE DEF BInv, BTypeOK, fileVars, writeVars, ExecuteChecks
<1>1. marked' \in {c, NoCandidate} /\ (marked' = c => c[1] \notin grefs \/ c = NoCandidate)
    OBVIOUS
<1>2. BTypeOK'
    BY <1>1
<1>3. ClockFits' /\ CollectorFits' /\ RowsFit'
    BY DEF ClockFits, CollectorFits, RowsFit
<1>4. CandidatesAged'
    BY <1>1 DEF CandidatesAged, Aged
<1>5. PromptGuarded' /\ HeldGuarded' /\ PromptPublicationSurvives'
    BY <1>1 DEF PromptGuarded, HeldGuarded, PromptPublicationSurvives, IsRead
<1> QED
    BY <1>2, <1>3, <1>4, <1>5

LEMMA ExecuteUnlinksInv == ASSUME BInv, ExecuteUnlinks PROVE BInv'
<1> USE TimeAssumption DEF BInv, BTypeOK, ExecuteUnlinks, NoCandidate
<1> DEFINE x == marked[1]
<1>1. /\ file' \in [Path -> 0 .. MaxTime] /\ \A p \in Path : file'[p] \in {0, file[p]}
      /\ temp' \in [Write -> 0 .. MaxTime]
      /\ todo' \subseteq todo /\ marked' = <<>>
      /\ collected' \subseteq collected \cup ({x} \cap Path)
    OBVIOUS
<1>2. BTypeOK'
    BY <1>1
<1>3. ClockFits' /\ RowsFit'
    BY <1>1 DEF ClockFits, RowsFit
<1>4. CollectorFits'
    BY <1>1 DEF CollectorFits
<1>5. CandidatesAged'
    BY <1>1 DEF CandidatesAged, Aged
<1>6. PromptGuarded' /\ HeldGuarded'
    BY <1>1 DEF PromptGuarded, HeldGuarded, IsRead
<1>7. PromptPublicationSurvives'
    BY <1>1 DEF PromptGuarded, PromptPublicationSurvives, IsRead
<1> QED
    BY <1>2, <1>3, <1>4, <1>5, <1>6, <1>7

LEMMA CollectorStopsInv == ASSUME BInv, ExecuteEnds \/ Crash PROVE BInv'
<1> USE TimeAssumption DEF BInv, BTypeOK, ExecuteEnds, Crash, fileVars, writeVars
<1>1. BTypeOK'
    OBVIOUS
<1>2. ClockFits' /\ CollectorFits' /\ CandidatesAged'
    BY DEF ClockFits, CollectorFits, CandidatesAged, Aged
<1>3. RowsFit'
    BY DEF RowsFit
<1>4. PromptGuarded' /\ HeldGuarded' /\ PromptPublicationSurvives'
    BY DEF PromptGuarded, HeldGuarded, PromptPublicationSurvives, IsRead
<1> QED
    BY <1>1, <1>2, <1>3, <1>4

LEMMA BNextInv == BInv /\ [BNext]_bvars => BInv'
<1> SUFFICES ASSUME BInv, [BNext]_bvars PROVE BInv'
    OBVIOUS
<1>1. CASE UNCHANGED bvars
    <2> USE <1>1 DEF bvars, fileVars, writeVars, gcVars, BInv
    <2>1. BTypeOK' /\ ClockFits' /\ CandidatesAged' /\ CollectorFits' /\ RowsFit'
        BY DEF BTypeOK, ClockFits, CandidatesAged, Aged, CollectorFits, RowsFit
    <2>2. PromptGuarded' /\ HeldGuarded' /\ PromptPublicationSurvives'
        BY DEF PromptGuarded, HeldGuarded, PromptPublicationSurvives, IsRead
    <2> QED
        BY <2>1, <2>2
<1> QED
    BY <1>1, TickInv, WriteInv, PlaceInv, InsertRowInv, DeletionInv, PlanInv, ApplyInv,
       ExecuteReadsInv, ExecuteChecksInv, ExecuteUnlinksInv, CollectorStopsInv DEF BNext

-----------------------------------------------------------------------------

\* The safety age protects every publication in flight: what a row of a table
\* that the collector reads names, and that was inserted before any file of its
\* bytes had reached the safety age, is never collected.
THEOREM PromptPublicationsAreSafe == BSpec => []StoreInv
<1>1. BInv /\ [BNext]_bvars => BInv'
    BY BNextInv
<1>2. BInv => StoreInv
    BY DEF BInv, StoreInv
<1> QED
    BY <1>1, <1>2, BInitInv, PTL DEF BSpec

\* Content that a row of a table the collector reads named when apply began,
\* and still names, is not collected by it, whatever is written, deleted or lost
\* meanwhile and whatever other rows, of masks too, name the same bytes.
THEOREM CollectorSparesReferences == BSpec => ReadRowsAreSpared
<1>1. BInv /\ [BNext]_bvars => BInv'
    BY BNextInv
<1>2. BInv /\ [BNext]_bvars => [\A w \in held \cap recorded : IsRead(w) => ~Collects(path[w])]_bvars
    <2> SUFFICES ASSUME BInv, BNext, NEW w \in held \cap recorded, IsRead(w),
                        Collects(path[w])
                 PROVE  FALSE
        OBVIOUS
    <2> USE DEF Collects, BInv
    <2>1. path[w] \in Path /\ marked # NoCandidate /\ marked[1] # path[w]
        BY DEF HeldGuarded, BTypeOK, IsRead
    <2>2. CASE ExecuteUnlinks
        BY <2>1, <2>2 DEF ExecuteUnlinks, Mtime, BTypeOK
    <2>3. CASE Crash
        BY <2>1, <2>3 DEF Crash, fileVars, Mtime
    <2>4. CASE ~ExecuteUnlinks /\ ~Crash
        BY <2>1, <2>4 DEF BNext, Tick, WriteTemp, LookUp, Place, Reuse, WriteFails, Verify,
                          InsertRow, Abandon, ResolvePath, DeleteArtifactRow, UnlinkArtifact,
                          PlanReads, PlanScans, ApplyReads, ApplyCompares, ExecuteReads,
                          ExecuteChecks, ExecuteEnds, gcVars
    <2> QED
        BY <2>2, <2>3, <2>4
<1> QED
    BY <1>1, <1>2, BInitInv, PTL DEF BSpec, ReadRowsAreSpared

(***************************************************************************)
(*                       The draft and its history                         *)
(***************************************************************************)

LEMMA Least ==
    ASSUME NEW S, S \subseteq Nat, S # {}
    PROVE  \E m \in S : \A k \in S : m <= k
<1> DEFINE R == OpToRel(<, Nat)
<1>1. IsWellFoundedOn(R, Nat)
    BY NatLessThanWellFounded
<1>2. PICK m \in S : \A k \in S : ~(<<k, m>> \in R)
    <2> HIDE DEF R
    <2> QED BY <1>1, WFMin
<1>3. \A k \in S : ~(k < m)
    <2> SUFFICES ASSUME NEW k \in S PROVE ~(k < m)
        OBVIOUS
    <2>1. <<k, m>> \in R <=> k < m
        BY SMTT(40) DEF OpToRel
    <2> QED BY <1>2, <2>1
<1> QED BY <1>3

IsTree(t) ==
    /\ Len(t) \in Nat
    /\ \A n \in 1 .. Len(t) : t[n].parent \in 0 .. n - 1

PathIn(t, id) ==
    LET to[n \in 1 .. Len(t)] ==
            IF t[n].parent = 0 THEN <<n>> ELSE Append(to[t[n].parent], n)
    IN to[id]

\* p gives the paths to the first k nodes of t.
Paths(p, t, k) ==
    p = [n \in 1 .. k |-> IF t[n].parent = 0 THEN <<n>> ELSE Append(p[t[n].parent], n)]

LEMMA PathsExtend ==
    ASSUME NEW t, IsTree(t), NEW k \in 1 .. Len(t), NEW p, Paths(p, t, k - 1)
    PROVE  \E q : Paths(q, t, k)
<1> DEFINE e(n) == IF t[n].parent = 0 THEN <<n>> ELSE Append(p[t[n].parent], n)
           q == [n \in 1 .. k |-> e(n)]
           f(n) == IF t[n].parent = 0 THEN <<n>> ELSE Append(q[t[n].parent], n)
<1>1. \A n \in 1 .. k - 1 : p[n] = e(n)
    BY DEF Paths
<1>2. \A n \in 1 .. k : q[n] = e(n)
    <2> HIDE DEF e
    <2> QED OBVIOUS
<1>3. \A n \in 1 .. k : t[n].parent \in 0 .. n - 1
    BY DEF IsTree
<1>4. \A n \in 1 .. k : t[n].parent # 0 => t[n].parent \in 1 .. k - 1
    BY <1>3 DEF IsTree
<1>5. \A n \in 1 .. k - 1 : q[n] = p[n]
    <2>1. 1 .. k - 1 \subseteq 1 .. k
        BY DEF IsTree
    <2> HIDE DEF e, q
    <2> QED BY <1>1, <1>2, <2>1
<1>6. \A n \in 1 .. k : t[n].parent # 0 => q[t[n].parent] = p[t[n].parent]
    <2> HIDE DEF q
    <2> QED BY <1>4, <1>5
<1>7. \A n \in 1 .. k : e(n) = f(n)
    <2> HIDE DEF q
    <2> QED BY <1>6
<1>8. q = [n \in 1 .. k |-> f(n)]
    <2> HIDE DEF e, f
    <2> QED BY <1>7
<1> QED
    BY <1>8 DEF Paths

LEMMA PathsExist ==
    ASSUME NEW t, IsTree(t)
    PROVE  \E p : Paths(p, t, Len(t))
<1> DEFINE Bad == {k \in 0 .. Len(t) : ~ \E p : Paths(p, t, k)}
<1>1. SUFFICES Bad = {}
    BY DEF IsTree
<1>2. SUFFICES ASSUME Bad # {} PROVE FALSE
    OBVIOUS
<1>3. PICK k \in Bad : \A i \in Bad : k <= i
    <2>1. Bad \subseteq Nat
        BY DEF IsTree
    <2> HIDE DEF Bad
    <2> QED BY <1>2, <2>1, Least
<1>4. k \in 0 .. Len(t) /\ ~ \E p : Paths(p, t, k)
    BY <1>3
<1>5. k # 0
    <2> DEFINE p == [n \in 1 .. 0 |-> 0]
    <2>1. Paths(p, t, 0)
        BY DEF Paths
    <2> QED BY <1>4, <2>1
<1>6. k - 1 \in 0 .. Len(t) /\ k - 1 < k /\ k \in 1 .. Len(t)
    BY <1>4, <1>5 DEF IsTree
<1>7. \E p : Paths(p, t, k - 1)
    <2>1. ~ (k <= k - 1)
        BY <1>6
    <2> QED BY <1>3, <1>6, <2>1
<1> QED BY <1>4, <1>6, <1>7, PathsExtend

LEMMA PathUnfolds ==
    ASSUME NEW t, IsTree(t), NEW n \in 1 .. Len(t)
    PROVE  PathIn(t, n) = IF t[n].parent = 0 THEN <<n>> ELSE Append(PathIn(t, t[n].parent), n)
<1> DEFINE p == CHOOSE p : Paths(p, t, Len(t))
<1>1. Paths(p, t, Len(t))
    BY PathsExist
<1>2. \A i : PathIn(t, i) = p[i]
    BY DEF PathIn, Paths
<1> HIDE DEF p
<1>3. p[n] = IF t[n].parent = 0 THEN <<n>> ELSE Append(p[t[n].parent], n)
    BY <1>1 DEF Paths
<1> QED
    BY <1>2, <1>3

\* What the path to node n is: it starts at an anchor, climbs from parent to
\* child and ends in n, and what leads to one of its nodes is its beginning.
IsLine(t, n, p) ==
    /\ p \in Seq(1 .. n) /\ Len(p) >= 1
    /\ p[Len(p)] = n
    /\ t[p[1]].parent = 0
    /\ \A i \in 2 .. Len(p) : t[p[i]].parent = p[i - 1]
    /\ \A i \in 1 .. Len(p) :
          /\ Len(PathIn(t, p[i])) = i
          /\ \A j \in 1 .. i : PathIn(t, p[i])[j] = p[j]

LEMMA SeqWider ==
    ASSUME NEW S, NEW T, S \subseteq T, NEW q \in Seq(S)
    PROVE  q \in Seq(T)
<1>1. \A i \in 1 .. Len(q) : q[i] \in T
    OBVIOUS
<1>2. Len(q) \in Nat /\ q = [i \in 1 .. Len(q) |-> q[i]]
    OBVIOUS
<1> QED
    BY <1>1, <1>2

LEMMA LineTypes ==
    ASSUME NEW t, NEW n, NEW p, IsLine(t, n, p)
    PROVE  /\ Len(p) \in Nat /\ Len(p) >= 1
           /\ \A i \in 1 .. Len(p) : p[i] \in 1 .. n
<1> DEFINE S == 1 .. n
<1>1. p \in Seq(S) /\ Len(p) >= 1
    BY DEF IsLine
<1> HIDE DEF S
<1>2. Len(p) \in Nat /\ \A i \in 1 .. Len(p) : p[i] \in S
    BY <1>1
<1> QED
    BY <1>1, <1>2 DEF S

LEMMA AnchorIsLine ==
    ASSUME NEW t, IsTree(t), NEW n \in 1 .. Len(t), t[n].parent = 0
    PROVE  IsLine(t, n, PathIn(t, n)) /\ PathIn(t, n) = <<n>>
<1>1. PathIn(t, n) = <<n>>
    BY PathUnfolds
<1>2. n \in Nat
    BY DEF IsTree
<1> DEFINE p == <<n>>
<1>3. p \in Seq(1 .. n) /\ Len(p) = 1 /\ p[1] = n
    BY <1>2
<1> HIDE DEF p
<1>4. PathIn(t, n) = p
    BY <1>1 DEF p
<1>5. \A i \in 1 .. Len(p) : i = 1
    BY <1>3
<1>6. IsLine(t, n, p)
    BY <1>3, <1>4, <1>5 DEF IsLine
<1> QED
    BY <1>1, <1>4, <1>6

LEMMA ChildIsLine ==
    ASSUME NEW t, IsTree(t), NEW n \in 1 .. Len(t), t[n].parent # 0,
           IsLine(t, t[n].parent, PathIn(t, t[n].parent))
    PROVE  IsLine(t, n, PathIn(t, n))
<1> DEFINE m == t[n].parent
           q == PathIn(t, m)
           p == PathIn(t, n)
<1>1. p = Append(q, n)
    BY PathUnfolds
<1>2. m \in 1 .. n - 1 /\ n \in Nat
    BY DEF IsTree
<1>3. q \in Seq(1 .. m) /\ Len(q) >= 1 /\ q[Len(q)] = m
    BY DEF IsLine
<1>4. q \in Seq(1 .. n)
    <2>1. 1 .. m \subseteq 1 .. n
        BY <1>2
    <2> HIDE DEF q
    <2> QED BY <1>3, <2>1, SeqWider
<1> HIDE DEF q
<1>5. /\ p \in Seq(1 .. n) /\ Len(p) = Len(q) + 1 /\ p[Len(p)] = n
      /\ \A i \in 1 .. Len(q) : p[i] = q[i]
    BY <1>1, <1>2, <1>4
<1> HIDE DEF p
<1>6. t[p[1]].parent = 0
    BY <1>3, <1>5 DEF IsLine, q
<1>7. \A i \in 2 .. Len(p) : t[p[i]].parent = p[i - 1]
    <2> TAKE i \in 2 .. Len(p)
    <2>1. CASE i = Len(p)
        BY <1>3, <1>5, <2>1
    <2>2. CASE i # Len(p)
        <3>1. i \in 2 .. Len(q) /\ i - 1 \in 1 .. Len(q) /\ i \in 1 .. Len(q)
            BY <1>3, <1>5, <2>2
        <3>2. t[q[i]].parent = q[i - 1]
            BY <3>1 DEF IsLine, q
        <3> QED BY <1>5, <3>1, <3>2
    <2> QED BY <2>1, <2>2
<1>8. \A i \in 1 .. Len(p) :
          /\ Len(PathIn(t, p[i])) = i
          /\ \A j \in 1 .. i : PathIn(t, p[i])[j] = p[j]
    <2> TAKE i \in 1 .. Len(p)
    <2>1. CASE i = Len(p)
        BY <1>5, <2>1 DEF p
    <2>2. CASE i # Len(p)
        <3>1. i \in 1 .. Len(q)
            BY <1>3, <1>5, <2>2
        <3>2. Len(PathIn(t, q[i])) = i /\ \A j \in 1 .. i : PathIn(t, q[i])[j] = q[j]
            BY <3>1 DEF IsLine, q
        <3>3. \A j \in 1 .. i : p[j] = q[j]
            BY <1>3, <1>5, <3>1
        <3> QED BY <1>5, <3>1, <3>2, <3>3
    <2> QED BY <2>1, <2>2
<1> QED
    BY <1>3, <1>5, <1>6, <1>7, <1>8 DEF IsLine, p

LEMMA PathIsLine ==
    ASSUME NEW t, IsTree(t), NEW n \in 1 .. Len(t)
    PROVE  IsLine(t, n, PathIn(t, n))
<1> DEFINE Bad == {k \in 1 .. Len(t) : ~IsLine(t, k, PathIn(t, k))}
<1>1. SUFFICES ASSUME Bad # {} PROVE FALSE
    OBVIOUS
<1>2. PICK k \in Bad : \A i \in Bad : k <= i
    <2>1. Bad \subseteq Nat
        BY DEF IsTree
    <2> HIDE DEF Bad
    <2> QED BY <1>1, <2>1, Least
<1>3. k \in 1 .. Len(t) /\ ~IsLine(t, k, PathIn(t, k))
    BY <1>2
<1>4. t[k].parent # 0
    BY <1>3, AnchorIsLine
<1>5. t[k].parent \in 1 .. Len(t) /\ t[k].parent < k
    BY <1>3, <1>4 DEF IsTree
<1>6. ~IsLine(t, t[k].parent, PathIn(t, t[k].parent))
    BY <1>3, <1>4, ChildIsLine
<1>7. t[k].parent \in Bad
    BY <1>5, <1>6
<1>8. k \in Nat /\ t[k].parent \in Nat
    BY <1>3, <1>5 DEF IsTree
<1> QED BY <1>2, <1>5, <1>7, <1>8

\* u has the nodes of t, and perhaps more.
Extends(u, t) ==
    /\ Len(t) <= Len(u)
    /\ \A n \in 1 .. Len(t) : u[n] = t[n]

LEMMA PathKept ==
    ASSUME NEW t, NEW u, IsTree(t), IsTree(u), Extends(u, t), NEW n \in 1 .. Len(t)
    PROVE  PathIn(u, n) = PathIn(t, n)
<1> DEFINE Bad == {k \in 1 .. Len(t) : PathIn(u, k) # PathIn(t, k)}
<1>1. SUFFICES ASSUME Bad # {} PROVE FALSE
    OBVIOUS
<1>2. PICK k \in Bad : \A i \in Bad : k <= i
    <2>1. Bad \subseteq Nat
        BY DEF IsTree
    <2> HIDE DEF Bad
    <2> QED BY <1>1, <2>1, Least
<1>3. k \in 1 .. Len(t) /\ PathIn(u, k) # PathIn(t, k)
    BY <1>2
<1>4. k \in 1 .. Len(u) /\ u[k] = t[k]
    BY <1>3 DEF IsTree, Extends
<1>5. t[k].parent # 0
    BY <1>3, <1>4, AnchorIsLine
<1>6. t[k].parent \in 1 .. Len(t) /\ t[k].parent < k /\ k \in Nat /\ t[k].parent \in Nat
    BY <1>3, <1>5 DEF IsTree
<1>7. /\ PathIn(u, k) = Append(PathIn(u, t[k].parent), k)
      /\ PathIn(t, k) = Append(PathIn(t, t[k].parent), k)
    BY <1>3, <1>4, <1>5, PathUnfolds
<1>8. PathIn(u, t[k].parent) # PathIn(t, t[k].parent)
    BY <1>3, <1>7
<1>9. t[k].parent \in Bad
    BY <1>6, <1>8
<1> QED BY <1>2, <1>6, <1>9

\* The depth after k steps from depth d towards the anchor.
Climb(d, k) == IF d > k THEN d - k ELSE 1

\* u gives the nodes that k steps from id reach.
Climbs(u, t, id, steps) ==
    u = [k \in 0 .. steps |->
            IF k = 0 THEN id
            ELSE IF u[k - 1] = checkpoint \/ t[u[k - 1]].parent = 0 THEN u[k - 1]
            ELSE t[u[k - 1]].parent]

LEMMA ClimbStep ==
    ASSUME NEW t, IsTree(t), NEW id \in 1 .. Len(t), NEW k \in Nat,
           PathIn(t, id)[1] = checkpoint
    PROVE  LET p == PathIn(t, id)
               here == p[Climb(Len(p), k)]
           IN  p[Climb(Len(p), k + 1)]
                  = IF here = checkpoint \/ t[here].parent = 0 THEN here ELSE t[here].parent
<1> DEFINE p == PathIn(t, id)
           d == Climb(Len(p), k)
<1>1. IsLine(t, id, p)
    BY PathIsLine
<1> HIDE DEF p
<1>2. Len(p) \in Nat /\ Len(p) >= 1 /\ t[p[1]].parent = 0
    BY <1>1 DEF IsLine
<1>3. d \in 1 .. Len(p)
    BY <1>2 DEF Climb
<1>0. d = Climb(Len(p), k)
    OBVIOUS
<1> HIDE DEF d
<1>4. CASE d = 1
    <2>1. Climb(Len(p), k + 1) = 1
        BY <1>0, <1>2, <1>4 DEF Climb
    <2> QED BY <1>2, <1>4, <2>1 DEF d, p
<1>5. CASE d # 1
    <2>1. Climb(Len(p), k + 1) = d - 1 /\ d \in 2 .. Len(p)
        BY <1>0, <1>2, <1>3, <1>5 DEF Climb
    <2>2. t[p[d]].parent = p[d - 1]
        BY <1>1, <2>1 DEF IsLine
    <2>3. p[d - 1] \in 1 .. id /\ id \in Nat
        <3>1. d - 1 \in 1 .. Len(p)
            BY <1>2, <2>1
        <3>2. id \in Nat
            BY DEF IsTree
        <3> QED BY <1>1, <3>1, <3>2, LineTypes
    <2>4. Len(PathIn(t, p[d])) = d /\ Len(PathIn(t, p[1])) = 1
        <3>1. \A i \in 1 .. Len(p) : Len(PathIn(t, p[i])) = i
            BY <1>1 DEF IsLine
        <3>2. 1 \in 1 .. Len(p)
            BY <1>2
        <3> QED BY <1>3, <3>1, <3>2
    <2>8. p[1] = checkpoint
        BY DEF p
    <2>5. p[d] # checkpoint
        <3>1. d # 1
            BY <1>2, <2>1
        <3> QED BY <2>4, <2>8, <3>1
    <2>6. t[p[d]].parent # 0
        BY <2>2, <2>3
    <2>7. p[Climb(Len(p), k + 1)] = t[p[d]].parent
        BY <2>1, <2>2
    <2> QED BY <2>5, <2>6, <2>7 DEF d, p
<1> QED BY <1>4, <1>5

LEMMA AncestorIs ==
    ASSUME NEW t, IsTree(t), NEW id \in 1 .. Len(t), NEW steps \in Nat,
           PathIn(t, id)[1] = checkpoint
    PROVE  Ancestor(t, id, steps) = PathIn(t, id)[Climb(Len(PathIn(t, id)), steps)]
<1> DEFINE p == PathIn(t, id)
           x == CHOOSE u : Climbs(u, t, id, steps)
<1>1. IsLine(t, id, p)
    BY PathIsLine
<1>2. Len(p) \in Nat /\ Len(p) >= 1 /\ p[Len(p)] = id
    BY <1>1 DEF IsLine
<1>3. \A k \in Nat : p[Climb(Len(p), k + 1)] =
            LET here == p[Climb(Len(p), k)]
            IN IF here = checkpoint \/ t[here].parent = 0 THEN here ELSE t[here].parent
    BY ClimbStep
<1> HIDE DEF p
<1>4. Climb(Len(p), 0) = Len(p)
    BY <1>2 DEF Climb
<1>5. \E u : Climbs(u, t, id, steps)
    <2> DEFINE e(k) == p[Climb(Len(p), k)]
               u == [k \in 0 .. steps |-> e(k)]
               f(k) == IF k = 0 THEN id
                       ELSE IF u[k - 1] = checkpoint \/ t[u[k - 1]].parent = 0 THEN u[k - 1]
                       ELSE t[u[k - 1]].parent
    <2>1. e(0) = id
        BY <1>2, <1>4
    <2>2. \A k \in 1 .. steps :
              e(k) = IF e(k - 1) = checkpoint \/ t[e(k - 1)].parent = 0 THEN e(k - 1)
                     ELSE t[e(k - 1)].parent
        <3> TAKE k \in 1 .. steps
        <3>1. k - 1 \in Nat /\ (k - 1) + 1 = k
            OBVIOUS
        <3> QED BY <1>3, <3>1
    <2>3. \A k \in 1 .. steps : u[k - 1] = e(k - 1)
        <3> HIDE DEF e
        <3> QED OBVIOUS
    <2>4. \A k \in 0 .. steps : e(k) = f(k)
        <3> HIDE DEF e, u
        <3> TAKE k \in 0 .. steps
        <3>1. CASE k = 0
            BY <2>1, <3>1
        <3>2. CASE k # 0
            <4>1. k \in 1 .. steps
                BY <3>2
            <4> QED BY <2>2, <2>3, <3>2, <4>1
        <3> QED BY <3>1, <3>2
    <2>5. u = [k \in 0 .. steps |-> f(k)]
        <3> HIDE DEF e, f
        <3> QED BY <2>4
    <2> QED BY <2>5 DEF Climbs
<1>6. Climbs(x, t, id, steps)
    BY <1>5
<1>7. Ancestor(t, id, steps) = x[steps]
    BY SMTT(40) DEF Ancestor, Climbs
<1> HIDE DEF x
<1>8. \A k \in 0 .. steps :
          x[k] = IF k = 0 THEN id
                 ELSE IF x[k - 1] = checkpoint \/ t[x[k - 1]].parent = 0 THEN x[k - 1]
                 ELSE t[x[k - 1]].parent
    BY <1>6 DEF Climbs
<1> DEFINE Bad == {k \in 0 .. steps : x[k] # p[Climb(Len(p), k)]}
<1>9. Bad = {}
    <2> SUFFICES ASSUME Bad # {} PROVE FALSE
        OBVIOUS
    <2>1. PICK k \in Bad : \A i \in Bad : k <= i
        <3>1. Bad \subseteq Nat
            OBVIOUS
        <3> HIDE DEF Bad
        <3> QED BY <3>1, Least
    <2>2. k \in 0 .. steps /\ x[k] # p[Climb(Len(p), k)]
        BY <2>1
    <2>3. k # 0
        BY <1>2, <1>4, <1>8, <2>2
    <2>4. k - 1 \in 0 .. steps /\ ~(k <= k - 1) /\ k - 1 \in Nat /\ (k - 1) + 1 = k
        BY <2>2, <2>3
    <2>5. x[k - 1] = p[Climb(Len(p), k - 1)]
        BY <2>1, <2>4
    <2>6. x[k] = IF x[k - 1] = checkpoint \/ t[x[k - 1]].parent = 0 THEN x[k - 1]
                 ELSE t[x[k - 1]].parent
        BY <1>8, <2>2, <2>3
    <2> QED BY <1>3, <2>2, <2>4, <2>5, <2>6
<1>10. x[steps] = p[Climb(Len(p), steps)]
    BY <1>9
<1> QED
    BY <1>7, <1>10 DEF p

-----------------------------------------------------------------------------
(* The inductive invariant. *)

Node == [lineage : Nat, parent : 0 .. MaxNodes, depth : 0 .. MaxNodes,
         base : 0 .. MaxRevisions, content : Content]

\* Nodes hang below earlier ones, at depths and in lineages that their number
\* bounds.
TreeFits ==
    /\ nodes \in Seq(Node)
    /\ Len(nodes) <= MaxNodes
    /\ lineage \in 1 .. Len(nodes)
    /\ \A n \in 1 .. Len(nodes) :
          /\ nodes[n].parent < n
          /\ nodes[n].depth < n
          /\ nodes[n].lineage \in 1 .. lineage

TypesFit ==
    /\ gen \in Nat
    /\ draft \in State
    /\ receipts \subseteq Request \X (0 .. MaxRevisions)
    /\ revisions \in Seq([parent : 0 .. MaxRevisions, content : Content])
    /\ Len(revisions) <= MaxRevisions
    /\ active \in 0 .. Len(revisions)
    /\ handler \in [Request -> State]
    /\ reused \subseteq Request
    /\ version \in Nat
    /\ lives \in Nat \ {0}
    /\ effects \in [Request -> Nat]

Sent == [op : AllOps, content : Content, rev : 0 .. MaxRevisions, gen : Nat, cursor : Nat,
         state : State, seen : Nat, life : Nat \ {0}]

\* A request composed in the present life of the draft, of its present
\* generation, saw the present draft, and so did its handler.
RequestsFit ==
    /\ request \in [Request -> {[op |-> "none"]} \cup Sent]
    /\ \A r \in Request : request[r].op # "none" =>
          /\ request[r].rev <= Len(revisions)
          /\ request[r].op \in NeedsRevision => request[r].rev # 0
          /\ request[r].life <= lives
          /\ request[r].life = lives =>
                /\ request[r].gen <= gen
                /\ request[r].gen = gen => handler[r] = draft /\ request[r].seen = version

\* The head of a living draft: checkpoint, floor, cursor and tip lie on the
\* path to the tip, the floor UndoLimit commands behind it.
OnTipPath ==
    LET p == PathTo(tip) IN
    /\ tip \in 1 .. Len(nodes)
    /\ checkpoint = p[1]
    /\ floor = p[Climb(Len(p), UndoLimit)]
    /\ \E c \in Climb(Len(p), UndoLimit) .. Len(p) : cursor = p[c]
    /\ nodes[checkpoint].lineage = lineage /\ nodes[tip].lineage = lineage

\* The states that undo and redo reach all continue from revision b.
OneBase(b) == \A i \in 1 .. Len(PathTo(tip)) : nodes[PathTo(tip)[i]].base = b

HeadFits == gen > 0 => OnTipPath

\* Without a draft there is no head, and the first draft is not without.
NoHead ==
    /\ gen = 0 => checkpoint = 0 /\ floor = 0 /\ cursor = 0 /\ tip = 0
    /\ lives = 1 => gen > 0

DraftFits == gen > 0 => draft = StateOf(cursor) /\ (lives = 1 => OneBase(draft.base))

HInv == TreeFits /\ TypesFit /\ RequestsFit /\ HeadFits /\ NoHead /\ DraftFits

LEMMA EarlierParents ==
    ASSUME NEW t \in Seq(Node), \A n \in 1 .. Len(t) : t[n].parent < n
    PROVE  IsTree(t)
<1>1. Len(t) \in Nat /\ \A n \in 1 .. Len(t) : t[n] \in Node
    <2> HIDE DEF Node
    <2> QED OBVIOUS
<1>2. \A n \in 1 .. Len(t) : t[n].parent \in 0 .. n - 1
    <2> TAKE n \in 1 .. Len(t)
    <2>1. t[n] \in Node /\ t[n].parent < n /\ n \in Nat
        BY <1>1
    <2>2. t[n].parent \in Nat
        BY <2>1, BoundsAssumption DEF Node
    <2> QED BY <2>1, <2>2
<1> QED
    BY <1>1, <1>2 DEF IsTree

LEMMA NodesAreATree ==
    ASSUME TreeFits
    PROVE  IsTree(nodes) /\ \A id : PathTo(id) = PathIn(nodes, id)
<1>1. IsTree(nodes)
    BY EarlierParents DEF TreeFits
<1>2. \A id : PathTo(id) = PathIn(nodes, id)
    BY DEF PathTo, PathIn
<1> QED
    BY <1>1, <1>2

\* Where the cursor is on the path to the tip.
LEMMA CursorIs ==
    ASSUME TreeFits, OnTipPath
    PROVE  LET p == PathTo(tip)
               q == PathTo(cursor)
           IN  /\ IsLine(nodes, tip, p)
               /\ Len(p) \in Nat /\ Len(q) \in Nat
               /\ Climb(Len(p), UndoLimit) \in 1 .. Len(p)
               /\ Len(q) \in Climb(Len(p), UndoLimit) .. Len(p)
               /\ Len(q) \in 1 .. Len(p)
               /\ \A j \in 1 .. Len(q) : q[j] = p[j]
               /\ cursor = p[Len(q)]
               /\ \A i \in 1 .. Len(p) : p[i] \in 1 .. Len(nodes)
<1> DEFINE p == PathTo(tip)
           q == PathTo(cursor)
           d == Climb(Len(p), UndoLimit)
<1>1. IsTree(nodes) /\ \A id : PathTo(id) = PathIn(nodes, id)
    BY NodesAreATree
<1>2. tip \in 1 .. Len(nodes)
    BY DEF OnTipPath
<1>3. IsLine(nodes, tip, p)
    BY <1>1, <1>2, PathIsLine
<1>4. Len(p) \in Nat /\ Len(p) >= 1 /\ \A i \in 1 .. Len(p) : p[i] \in 1 .. tip
    BY <1>3, LineTypes
<1>5. \A i \in 1 .. Len(p) : p[i] \in 1 .. Len(nodes)
    BY <1>1, <1>2, <1>4 DEF IsTree
<1>6. d \in 1 .. Len(p)
    BY <1>4, LimitAssumption DEF Climb
<1>7. PICK c \in d .. Len(p) : cursor = p[c]
    BY DEF OnTipPath
<1> HIDE DEF d
<1>8. c \in 1 .. Len(p)
    BY <1>4, <1>6
<1>9. Len(PathIn(nodes, p[c])) = c /\ \A j \in 1 .. c : PathIn(nodes, p[c])[j] = p[j]
    <2> HIDE DEF p
    <2> QED BY <1>3, <1>8 DEF IsLine
<1>10. q = PathIn(nodes, p[c])
    BY <1>1, <1>7
<1> HIDE DEF p, q
<1>11. Len(q) = c /\ \A j \in 1 .. c : q[j] = p[j]
    BY <1>9, <1>10
<1> QED
    BY <1>3, <1>4, <1>5, <1>6, <1>7, <1>8, <1>11 DEF p, q, d

\* A history that only grows keeps the paths it has.
LEMMA PathsStay ==
    ASSUME TreeFits, TreeFits', Extends(nodes', nodes), NEW n \in 1 .. Len(nodes)
    PROVE  PathTo(n)' = PathTo(n)
<1>1. IsTree(nodes) /\ PathTo(n) = PathIn(nodes, n)
    BY NodesAreATree
<1>2. IsTree(nodes')
    BY EarlierParents DEF TreeFits
<1>3. PathTo(n)' = PathIn(nodes', n)
    BY DEF PathTo, PathIn
<1> QED
    BY <1>1, <1>2, <1>3, PathKept

\* The head of a lineage that has only its anchor.
LEMMA AnchorIsHead ==
    ASSUME TreeFits', NEW id \in 1 .. Len(nodes'), nodes'[id].parent = 0,
           nodes'[id].lineage = lineage',
           checkpoint' = id, floor' = id, cursor' = id, tip' = id
    PROVE  /\ PathTo(tip)' = <<id>> /\ PathTo(cursor)' = <<id>>
           /\ OnTipPath'
           /\ OneBase(nodes[id].base)'
<1>1. IsTree(nodes')
    BY EarlierParents DEF TreeFits
<1>2. \A n : PathTo(n)' = PathIn(nodes', n)
    BY DEF PathTo, PathIn
<1>3. PathIn(nodes', id) = <<id>>
    BY <1>1, AnchorIsLine
<1>4. PathTo(tip)' = <<id>> /\ PathTo(cursor)' = <<id>>
    BY <1>2, <1>3
<1> DEFINE p == <<id>>
<1>5. Len(p) = 1 /\ p[1] = id
    OBVIOUS
<1>6. PathTo(tip)' = p
    BY <1>4
<1> HIDE DEF p
<1>7. Climb(Len(p), UndoLimit) = 1
    BY <1>5, LimitAssumption DEF Climb
<1>8. 1 \in 1 .. 1 /\ \A i \in 1 .. 1 : i = 1
    OBVIOUS
<1>9. OnTipPath'
    BY <1>5, <1>6, <1>7, <1>8 DEF OnTipPath
<1>10. OneBase(nodes[id].base)'
    BY <1>5, <1>6, <1>8 DEF OneBase
<1> QED
    BY <1>4, <1>9, <1>10

\* An edit: the path to the new tip is the path to the old cursor and the new
\* node, and the floor follows.
LEMMA AppendGrowsPath ==
    ASSUME TreeFits, OnTipPath, NEW point \in State, AppendNode(point)
    PROVE  LET id == Len(nodes) + 1 IN
           /\ TreeFits' /\ Extends(nodes', nodes) /\ OnTipPath'
           /\ PathTo(tip)' = Append(PathTo(cursor), id)
           /\ PathTo(cursor)' = Append(PathTo(cursor), id)
           /\ id \in 1 .. Len(nodes') /\ StateOf(cursor)' = point
           /\ cursor' = id
<1> DEFINE id == Len(nodes) + 1
           q == PathTo(cursor)
           p == PathTo(tip)
           r == Append(q, id)
           e == [lineage |-> lineage, parent |-> cursor, depth |-> nodes[cursor].depth + 1,
                 base |-> point.base, content |-> point.content]
<1>1. /\ Len(q) \in 1 .. Len(p) /\ Len(p) \in Nat
      /\ \A j \in 1 .. Len(q) : q[j] = p[j]
      /\ cursor = p[Len(q)]
      /\ \A i \in 1 .. Len(p) : p[i] \in 1 .. Len(nodes)
    BY CursorIs
<1>2. cursor \in 1 .. Len(nodes) /\ p[1] \in 1 .. Len(nodes) /\ q[1] = p[1]
    <2> HIDE DEF p, q
    <2> QED BY <1>1
<1>3. nodes \in Seq(Node) /\ Len(nodes) \in Nat /\ nodes[cursor] \in Node
    BY <1>2 DEF TreeFits
<1>4. /\ id <= MaxNodes /\ nodes' = Append(nodes, e) /\ cursor' = id /\ tip' = id
      /\ floor' = Ancestor(nodes', id, UndoLimit)
      /\ lineage' = lineage /\ checkpoint' = checkpoint
    BY DEF AppendNode
<1>0. /\ nodes[cursor].depth \in Nat /\ nodes[cursor].depth < cursor
      /\ lineage \in Nat /\ lineage >= 1 /\ lineage <= Len(nodes)
    <2>1. nodes[cursor].depth \in Nat
        BY <1>3, BoundsAssumption DEF Node
    <2>2. nodes[cursor].depth < cursor /\ lineage \in 1 .. Len(nodes)
        BY <1>2 DEF TreeFits
    <2> QED BY <1>3, <2>1, <2>2
<1>5. e \in Node
    <2>1. nodes[cursor].depth \in Nat /\ nodes[cursor].depth < cursor /\ lineage \in Nat
        BY <1>0
    <2>2. cursor \in 0 .. MaxNodes /\ nodes[cursor].depth + 1 \in 0 .. MaxNodes
        BY <1>2, <1>3, <1>4, <2>1, BoundsAssumption
    <2> QED BY <2>1, <2>2 DEF Node, State
<1> HIDE DEF e
<1>6. /\ nodes' \in Seq(Node) /\ Len(nodes') = id /\ nodes'[id] = e
      /\ \A n \in 1 .. Len(nodes) : nodes'[n] = nodes[n]
    <2> HIDE DEF Node
    <2> QED BY <1>3, <1>4, <1>5
<1>7. Extends(nodes', nodes)
    BY <1>3, <1>6 DEF Extends
<1>8. TreeFits'
    <2>1. \A n \in 1 .. id : /\ nodes'[n].parent < n /\ nodes'[n].depth < n
                             /\ nodes'[n].lineage \in 1 .. lineage
        <3> TAKE n \in 1 .. id
        <3>1. CASE n = id
            <4>1. nodes'[n] = e
                BY <1>6, <3>1
            <4>2. /\ e.parent = cursor /\ e.depth = nodes[cursor].depth + 1
                  /\ e.lineage = lineage
                BY DEF e
            <4> QED BY <1>0, <1>2, <1>3, <3>1, <4>1, <4>2
        <3>2. CASE n # id
            BY <1>3, <1>6, <3>2 DEF TreeFits
        <3> QED BY <3>1, <3>2
    <2> QED BY <1>3, <1>4, <1>6, <2>1 DEF TreeFits
<1>9. IsTree(nodes') /\ \A n : PathTo(n)' = PathIn(nodes', n)
    <2>1. IsTree(nodes')
        BY <1>8, EarlierParents DEF TreeFits
    <2> QED BY <2>1 DEF PathTo, PathIn
<1>10. IsTree(nodes) /\ \A n : PathTo(n) = PathIn(nodes, n)
    BY NodesAreATree
<1>11. id \in 1 .. Len(nodes')
    BY <1>3, <1>6
<1>12. PathIn(nodes', id) = r
    <2>1. nodes'[id].parent = cursor /\ cursor # 0
        BY <1>2, <1>6 DEF e
    <2>2. PathIn(nodes', cursor) = q
        BY <1>2, <1>7, <1>9, <1>10, PathKept
    <2> QED BY <1>9, <1>11, <2>1, <2>2, PathUnfolds
<1>13. PathTo(tip)' = r /\ PathTo(cursor)' = r
    BY <1>4, <1>9, <1>12
<1>14. IsLine(nodes', id, r)
    BY <1>9, <1>11, <1>12, PathIsLine
<1> HIDE DEF r
<1>15. Len(r) \in Nat /\ Len(r) >= 1 /\ r[Len(r)] = id
    BY <1>14, LineTypes DEF IsLine
<1>16. q \in Seq(Nat) /\ Len(q) >= 1
    <2>1. IsLine(nodes, cursor, q)
        BY <1>2, <1>10, PathIsLine
    <2>2. 1 .. cursor \subseteq Nat /\ q \in Seq(1 .. cursor)
        BY <2>1 DEF IsLine
    <2> HIDE DEF q
    <2> QED BY <1>1, <2>2, SeqWider
<1>17. r[1] = checkpoint
    <2>1. r[1] = q[1]
        <3> HIDE DEF q
        <3> QED BY <1>3, <1>16 DEF r
    <2> QED BY <1>2, <2>1 DEF OnTipPath
<1>18. floor' = r[Climb(Len(r), UndoLimit)]
    BY <1>4, <1>9, <1>11, <1>12, <1>17, AncestorIs, LimitAssumption
<1>19. Climb(Len(r), UndoLimit) \in 1 .. Len(r)
    BY <1>15, LimitAssumption DEF Climb
<1>20. nodes'[checkpoint].lineage = lineage /\ nodes'[id].lineage = lineage
    BY <1>2, <1>6 DEF e, OnTipPath
<1>21. OnTipPath'
    <2>1. Len(r) \in Climb(Len(r), UndoLimit) .. Len(r)
        BY <1>15, <1>19
    <2> QED BY <1>4, <1>11, <1>13, <1>15, <1>17, <1>18, <1>20, <2>1 DEF OnTipPath
<1>22. StateOf(cursor)' = point
    <2>1. nodes'[id].base = point.base /\ nodes'[id].content = point.content
        BY <1>6 DEF e
    <2>2. point = [base |-> point.base, content |-> point.content]
        BY DEF State
    <2> QED BY <1>4, <2>1, <2>2 DEF StateOf
<1> QED
    BY <1>4, <1>7, <1>8, <1>11, <1>13, <1>21, <1>22 DEF r

\* A step of the cursor along the path to the tip, between floor and tip.
LEMMA CursorMoves ==
    ASSUME TreeFits, OnTipPath, UNCHANGED <<nodes, lineage, checkpoint, floor, tip>>,
           NEW c \in Climb(Len(PathTo(tip)), UndoLimit) .. Len(PathTo(tip)),
           cursor' = PathTo(tip)[c]
    PROVE  /\ TreeFits' /\ OnTipPath'
           /\ PathTo(tip)' = PathTo(tip)
           /\ Len(PathTo(cursor)') = c
           /\ cursor' \in 1 .. Len(nodes)
<1>1. PathTo(tip)' = PathTo(tip) /\ \A n : PathTo(n)' = PathTo(n)
    BY ZenonT(60) DEF PathTo
<1>2. TreeFits'
    BY DEF TreeFits
<1> DEFINE p == PathTo(tip)
<1>3. /\ IsLine(nodes, tip, p) /\ Len(p) \in Nat /\ Climb(Len(p), UndoLimit) \in 1 .. Len(p)
      /\ \A i \in 1 .. Len(p) : p[i] \in 1 .. Len(nodes)
    BY CursorIs
<1>4. \A n : PathTo(n) = PathIn(nodes, n)
    BY NodesAreATree
<1> HIDE DEF p
<1>5. c \in 1 .. Len(p)
    BY <1>3 DEF p
<1>6. Len(PathIn(nodes, p[c])) = c
    BY <1>3, <1>5 DEF IsLine
<1>7. Len(PathTo(cursor)') = c
    <2>1. PathTo(cursor)' = PathTo(p[c])
        BY <1>1 DEF p, PathTo
    <2> QED BY <1>4, <1>6, <2>1
<1>8. OnTipPath'
    BY <1>1, SMTT(40) DEF OnTipPath
<1> QED
    BY <1>1, <1>2, <1>3, <1>5, <1>7, <1>8, SMTT(40) DEF p

LEMMA UndoTarget ==
    ASSUME TreeFits, OnTipPath, cursor # floor
    PROVE  LET p == PathTo(tip)
               c == Len(PathTo(cursor)) - 1
           IN  /\ c \in Climb(Len(p), UndoLimit) .. Len(p)
               /\ nodes[cursor].parent = p[c]
<1> DEFINE p == PathTo(tip)
           k == Len(PathTo(cursor))
           d == Climb(Len(p), UndoLimit)
<1>1. /\ IsLine(nodes, tip, p) /\ Len(p) \in Nat /\ d \in 1 .. Len(p)
      /\ k \in d .. Len(p) /\ cursor = p[k]
    BY CursorIs
<1>2. floor = p[d]
    BY DEF OnTipPath
<1> HIDE DEF p, k, d
<1>3. k # d
    BY <1>1, <1>2
<1>4. k \in 2 .. Len(p) /\ k - 1 \in d .. Len(p)
    BY <1>1, <1>3
<1>5. nodes[p[k]].parent = p[k - 1]
    BY <1>1, <1>4 DEF IsLine
<1> QED
    BY <1>1, <1>4, <1>5 DEF p, k, d

LEMMA RedoTarget ==
    ASSUME TreeFits, OnTipPath, cursor # tip
    PROVE  LET p == PathTo(tip)
               c == Len(PathTo(cursor)) + 1
           IN  /\ c \in Climb(Len(p), UndoLimit) .. Len(p)
               /\ NextOnTipPath = p[c]
<1> DEFINE p == PathTo(tip)
           k == Len(PathTo(cursor))
           d == Climb(Len(p), UndoLimit)
           Next(n) == nodes[n].parent = cursor /\ OnPath(n, tip)
<1>1. /\ IsLine(nodes, tip, p) /\ Len(p) \in Nat /\ d \in 1 .. Len(p)
      /\ k \in d .. Len(p) /\ cursor = p[k] /\ k \in 1 .. Len(p)
      /\ \A i \in 1 .. Len(p) : p[i] \in 1 .. Len(nodes)
    BY CursorIs
<1>2. \A n : OnPath(n, tip) <=> \E i \in 1 .. Len(p) : p[i] = n
    BY DEF OnPath
<1>3. NextOnTipPath = CHOOSE n \in 1 .. Len(nodes) : Next(n)
    BY DEF NextOnTipPath
<1>4. Len(nodes) \in Nat
    BY NodesAreATree DEF IsTree
<1> HIDE DEF p, k, d
<1>5. p[Len(p)] = tip
    BY <1>1 DEF IsLine
<1>6. k # Len(p)
    BY <1>1, <1>5
<1>7. k + 1 \in 2 .. Len(p) /\ k + 1 \in d .. Len(p) /\ (k + 1) - 1 = k /\ k + 1 \in 1 .. Len(p)
    BY <1>1, <1>6
<1>8. nodes[p[k + 1]].parent = p[k]
    <2>1. nodes[p[k + 1]].parent = p[(k + 1) - 1]
        BY <1>1, <1>7 DEF IsLine
    <2> QED BY <1>7, <2>1
<1>9. p[k + 1] \in 1 .. Len(nodes) /\ Next(p[k + 1])
    BY <1>1, <1>2, <1>7, <1>8
<1>10. ASSUME NEW n \in 1 .. Len(nodes), Next(n) PROVE n = p[k + 1]
    <2>1. PICK i \in 1 .. Len(p) : p[i] = n
        BY <1>2, <1>10
    <2>2. cursor # 0
        BY <1>1, <1>4
    <2>3. i # 1
        BY <1>1, <1>10, <2>1, <2>2 DEF IsLine
    <2>4. i \in 2 .. Len(p) /\ i - 1 \in 1 .. Len(p)
        BY <1>1, <2>3
    <2>5. p[i - 1] = p[k]
        BY <1>1, <1>10, <2>1, <2>4 DEF IsLine
    <2>6. \A j \in 1 .. Len(p) : Len(PathIn(nodes, p[j])) = j
        BY <1>1 DEF IsLine
    <2>7. i - 1 = k
        BY <1>1, <2>4, <2>5, <2>6
    <2>8. i = k + 1
        BY <1>1, <2>4, <2>7
    <2> QED BY <2>1, <2>8
<1> HIDE DEF Next
<1>11. NextOnTipPath = p[k + 1]
    BY <1>3, <1>9, <1>10
<1> QED
    BY <1>7, <1>11 DEF p, k, d

LEMMA AppendTwice ==
    ASSUME NEW S, NEW t \in Seq(S), NEW a \in S, NEW b \in S
    PROVE  t \o <<a, b>> = Append(Append(t, a), b)
OBVIOUS

\* A tree with one more node, in the last lineage or in a new one.
LEMMA OneMoreNode ==
    ASSUME NEW t \in Seq(Node), NEW m \in Nat, NEW k \in Nat, m <= k,
           \A n \in 1 .. Len(t) : /\ t[n].parent < n /\ t[n].depth < n
                                  /\ t[n].lineage \in 1 .. m,
           NEW e \in Node, e.parent <= Len(t), e.depth <= Len(t), e.lineage \in 1 .. k
    PROVE  LET u == Append(t, e) IN
           /\ u \in Seq(Node) /\ Len(u) = Len(t) + 1 /\ u[Len(u)] = e
           /\ \A n \in 1 .. Len(t) : u[n] = t[n]
           /\ \A n \in 1 .. Len(u) : /\ u[n].parent < n /\ u[n].depth < n
                                     /\ u[n].lineage \in 1 .. k
<1> DEFINE u == Append(t, e)
<1>1. /\ u \in Seq(Node) /\ Len(t) \in Nat /\ Len(u) = Len(t) + 1 /\ u[Len(u)] = e
      /\ \A n \in 1 .. Len(t) : u[n] = t[n]
    <2> HIDE DEF Node
    <2> QED OBVIOUS
<1>2. e.parent \in Nat /\ e.depth \in Nat
    BY BoundsAssumption DEF Node
<1> HIDE DEF u
<1>3. \A n \in 1 .. Len(u) : u[n].parent < n /\ u[n].depth < n /\ u[n].lineage \in 1 .. k
    <2> TAKE n \in 1 .. Len(u)
    <2>1. CASE n = Len(u)
        BY <1>1, <1>2, <2>1
    <2>2. CASE n # Len(u)
        <3>1. n \in 1 .. Len(t)
            BY <1>1, <2>2
        <3>2. t[n].lineage \in 1 .. m
            BY <3>1
        <3> QED BY <1>1, <3>1, <3>2
    <2> QED BY <2>1, <2>2
<1> QED
    BY <1>1, <1>3 DEF u

\* A new lineage: the head is its anchor.
LEMMA LineageStarts ==
    ASSUME TreeFits, NEW point \in State, StartLineage(point)
    PROVE  /\ TreeFits' /\ Extends(nodes', nodes) /\ OnTipPath' /\ OneBase(point.base)'
           /\ StateOf(cursor)' = point
           /\ PathTo(tip)' = <<cursor'>> /\ PathTo(cursor)' = <<cursor'>>
<1> DEFINE e == [lineage |-> lineage + 1, parent |-> 0, depth |-> 0,
                 base |-> point.base, content |-> point.content]
<1>1. /\ Len(nodes) + 1 <= MaxNodes /\ lineage' = lineage + 1 /\ nodes' = Append(nodes, e)
      /\ checkpoint' = Len(nodes) + 1 /\ floor' = Len(nodes) + 1
      /\ cursor' = Len(nodes) + 1 /\ tip' = Len(nodes) + 1
    BY DEF StartLineage
<1>2. nodes \in Seq(Node) /\ Len(nodes) \in Nat /\ lineage \in 1 .. Len(nodes)
    BY DEF TreeFits
<1>3. e \in Node /\ e.parent = 0 /\ e.depth = 0 /\ e.lineage = lineage + 1
    BY <1>2, BoundsAssumption DEF Node, State
<1> HIDE DEF e
<1>4. /\ nodes' \in Seq(Node) /\ Len(nodes') = Len(nodes) + 1 /\ nodes'[Len(nodes')] = e
      /\ \A n \in 1 .. Len(nodes) : nodes'[n] = nodes[n]
      /\ \A n \in 1 .. Len(nodes') : /\ nodes'[n].parent < n /\ nodes'[n].depth < n
                                     /\ nodes'[n].lineage \in 1 .. lineage'
    <2>1. /\ lineage \in Nat /\ lineage + 1 \in Nat /\ lineage <= lineage + 1
          /\ e.parent <= Len(nodes) /\ e.depth <= Len(nodes) /\ e.lineage \in 1 .. lineage + 1
        BY <1>2, <1>3
    <2>2. \A n \in 1 .. Len(nodes) : /\ nodes[n].parent < n /\ nodes[n].depth < n
                                     /\ nodes[n].lineage \in 1 .. lineage
        BY DEF TreeFits
    <2> QED BY <1>1, <1>2, <1>3, <2>1, <2>2, OneMoreNode
<1>5. TreeFits'
    BY <1>1, <1>2, <1>4 DEF TreeFits
<1>6. Extends(nodes', nodes)
    BY <1>2, <1>4 DEF Extends
<1>7. Len(nodes') \in 1 .. Len(nodes') /\ cursor' = Len(nodes')
    BY <1>1, <1>2, <1>4
<1>8. /\ PathTo(tip)' = <<cursor'>> /\ PathTo(cursor)' = <<cursor'>>
      /\ OnTipPath' /\ OneBase(nodes[cursor].base)'
    BY <1>1, <1>3, <1>4, <1>5, <1>7, AnchorIsHead
<1>9. nodes'[cursor'].base = point.base /\ nodes'[cursor'].content = point.content
    BY <1>4, <1>7 DEF e
<1>10. OneBase(point.base)'
    BY <1>8, <1>9 DEF OneBase
<1>11. StateOf(cursor)' = point
    <2>1. point = [base |-> point.base, content |-> point.content]
        BY DEF State
    <2> QED BY <1>9, <2>1 DEF StateOf
<1> QED
    BY <1>5, <1>6, <1>8, <1>10, <1>11

\* A publication: the closed lineage ends with a node of its own, and the new
\* one has its anchor behind it.
LEMMA ContinuationStarts ==
    ASSUME TreeFits, OnTipPath, TypesFit, NEW r \in Request,
           request[r].content \in Content, PublishAndContinue(r)
    PROVE  /\ TreeFits' /\ Extends(nodes', nodes) /\ OnTipPath' /\ OneBase(draft.base)'
           /\ StateOf(cursor)' = draft' /\ draft' \in State
           /\ PathTo(tip)' = <<cursor'>> /\ PathTo(cursor)' = <<cursor'>>
<1> DEFINE continued == [base |-> Len(revisions) + 1, content |-> request[r].content]
           a == [lineage |-> lineage, parent |-> cursor, depth |-> nodes[cursor].depth + 1,
                 base |-> nodes[cursor].base, content |-> nodes[cursor].content]
           b == [lineage |-> lineage + 1, parent |-> 0, depth |-> 0,
                 base |-> continued.base, content |-> continued.content]
           u == Append(nodes, a)
<1>1. /\ Len(nodes) + 2 <= MaxNodes /\ lineage' = lineage + 1 /\ draft' = continued
      /\ nodes' = nodes \o <<a, b>>
      /\ checkpoint' = Len(nodes) + 2 /\ floor' = Len(nodes) + 2
      /\ cursor' = Len(nodes) + 2 /\ tip' = Len(nodes) + 2
      /\ Len(revisions) < MaxRevisions
    BY DEF PublishAndContinue, PublishLocked
<1>2. nodes \in Seq(Node) /\ Len(nodes) \in Nat /\ lineage \in 1 .. Len(nodes)
    BY DEF TreeFits
<1>3. continued \in State
    <2>1. Len(revisions) \in Nat
        BY DEF TypesFit
    <2>2. Len(revisions) + 1 \in 0 .. MaxRevisions
        BY <1>1, <2>1, BoundsAssumption
    <2> QED BY <2>2 DEF State
<1>4. cursor \in 1 .. Len(nodes) /\ nodes[cursor] \in Node
    <2>1. cursor \in 1 .. Len(nodes)
        BY CursorIs
    <2> QED BY <1>2, <2>1
<1>5. nodes[cursor].depth \in Nat /\ nodes[cursor].depth < cursor
    <2>1. nodes[cursor].depth \in Nat
        BY <1>4, BoundsAssumption DEF Node
    <2> QED BY <1>4, <2>1 DEF TreeFits
<1>6. /\ a \in Node /\ a.parent <= Len(nodes) /\ a.depth <= Len(nodes)
      /\ a.lineage \in 1 .. lineage
    <2>1. nodes[cursor].base \in 0 .. MaxRevisions /\ nodes[cursor].content \in Content
        BY <1>4 DEF Node
    <2>2. /\ cursor \in 0 .. MaxNodes /\ nodes[cursor].depth + 1 \in 0 .. MaxNodes
          /\ cursor <= Len(nodes) /\ nodes[cursor].depth + 1 <= Len(nodes)
          /\ lineage \in Nat /\ lineage \in 1 .. lineage
        <3>1. cursor \in Nat /\ cursor <= Len(nodes) /\ nodes[cursor].depth + 1 <= cursor
            BY <1>2, <1>4, <1>5
        <3>2. lineage \in Nat /\ lineage \in 1 .. lineage
            BY <1>2
        <3>3. /\ nodes[cursor].depth + 1 \in Nat /\ nodes[cursor].depth + 1 <= Len(nodes)
              /\ Len(nodes) <= MaxNodes
            BY <1>1, <1>2, <1>5, <3>1, BoundsAssumption, SMTT(40)
        <3> QED BY <1>2, <3>1, <3>2, <3>3, BoundsAssumption
    <2> QED BY <2>1, <2>2 DEF Node
<1>7. b \in Node /\ b.parent = 0 /\ b.depth = 0 /\ b.lineage = lineage + 1
    <2>1. continued.base \in 0 .. MaxRevisions /\ continued.content \in Content
        BY <1>3 DEF State
    <2> HIDE DEF continued
    <2> QED BY <1>2, <2>1, BoundsAssumption DEF Node
<1>8. continued.base = b.base /\ continued.content = b.content
    OBVIOUS
<1> HIDE DEF a, b
<1>9. nodes' = Append(u, b)
    <2> HIDE DEF Node
    <2> QED BY <1>1, <1>2, <1>6, <1>7, AppendTwice
<1>10. /\ u \in Seq(Node) /\ Len(u) = Len(nodes) + 1
       /\ \A n \in 1 .. Len(nodes) : u[n] = nodes[n]
       /\ \A n \in 1 .. Len(u) : u[n].parent < n /\ u[n].depth < n /\ u[n].lineage \in 1 .. lineage
    <2>1. lineage \in Nat /\ lineage <= lineage
        BY <1>2
    <2>2. \A n \in 1 .. Len(nodes) : /\ nodes[n].parent < n /\ nodes[n].depth < n
                                     /\ nodes[n].lineage \in 1 .. lineage
        BY DEF TreeFits
    <2> QED BY <1>2, <1>6, <2>1, <2>2, OneMoreNode, ZenonT(60)
<1> HIDE DEF u
<1>11. /\ nodes' \in Seq(Node) /\ Len(nodes') = Len(u) + 1 /\ nodes'[Len(nodes')] = b
       /\ \A n \in 1 .. Len(u) : nodes'[n] = u[n]
       /\ \A n \in 1 .. Len(nodes') : /\ nodes'[n].parent < n /\ nodes'[n].depth < n
                                      /\ nodes'[n].lineage \in 1 .. lineage'
    <2>1. /\ lineage \in Nat /\ lineage + 1 \in Nat /\ lineage <= lineage + 1
          /\ b.parent <= Len(u) /\ b.depth <= Len(u) /\ b.lineage \in 1 .. lineage + 1
        BY <1>2, <1>7, <1>10
    <2> DEFINE w == Append(u, b)
    <2>2. /\ w \in Seq(Node) /\ Len(w) = Len(u) + 1 /\ w[Len(w)] = b
          /\ \A n \in 1 .. Len(u) : w[n] = u[n]
          /\ \A n \in 1 .. Len(w) : /\ w[n].parent < n /\ w[n].depth < n
                                     /\ w[n].lineage \in 1 .. lineage + 1
        <3> HIDE DEF Node
        <3> QED BY <1>7, <1>10, <2>1, OneMoreNode
    <2>3. nodes' = w
        BY <1>9
    <2> HIDE DEF w
    <2> QED BY <1>1, <2>2, <2>3
<1>12. TreeFits'
    <2>1. Len(nodes') <= MaxNodes /\ lineage' \in 1 .. Len(nodes')
        BY <1>1, <1>2, <1>10, <1>11, BoundsAssumption
    <2> QED BY <1>11, <2>1 DEF TreeFits
<1>13. Extends(nodes', nodes)
    <2>1. Len(nodes) <= Len(nodes')
        BY <1>2, <1>10, <1>11
    <2>2. \A n \in 1 .. Len(nodes) : nodes'[n] = nodes[n]
        <3>1. \A n \in 1 .. Len(nodes) : n \in 1 .. Len(u)
            BY <1>2, <1>10
        <3> QED BY <1>10, <1>11, <3>1
    <2> QED BY <2>1, <2>2 DEF Extends
<1>14. Len(nodes') \in 1 .. Len(nodes') /\ cursor' = Len(nodes')
    BY <1>1, <1>2, <1>10, <1>11
<1>15. /\ PathTo(tip)' = <<cursor'>> /\ PathTo(cursor)' = <<cursor'>>
       /\ OnTipPath' /\ OneBase(nodes[cursor].base)'
    BY <1>1, <1>7, <1>11, <1>12, <1>14, AnchorIsHead
<1>16. nodes'[cursor'].base = continued.base /\ nodes'[cursor'].content = continued.content
    BY <1>8, <1>11, <1>14
<1>17. OneBase(draft.base)'
    <2>1. draft'.base = nodes'[cursor'].base
        BY <1>1, <1>16
    <2> QED BY <1>15, <2>1 DEF OneBase
<1>18. StateOf(cursor)' = draft'
    <2>1. continued = [base |-> continued.base, content |-> continued.content]
        OBVIOUS
    <2> QED BY <1>1, <1>16, <2>1 DEF StateOf
<1> QED
    BY <1>1, <1>3, <1>12, <1>13, <1>15, <1>17, <1>18

-----------------------------------------------------------------------------
(* The steps. *)

LEMMA SeqEqual ==
    ASSUME NEW S, NEW s \in Seq(S), NEW t \in Seq(S), Len(s) = Len(t),
           \A i \in 1 .. Len(s) : s[i] = t[i]
    PROVE  s = t
OBVIOUS

\* The line in the node graph is one of states.
LineReads ==
    TreeFits /\ OnTipPath /\ gen > 0 =>
        /\ line \in Seq(State) /\ Len(line) = Len(PathTo(tip))
        /\ \A i \in 1 .. Len(line) : line[i] = StateOf(PathTo(tip)[i])
        /\ pos = Len(PathTo(cursor)) /\ pos \in 1 .. Len(line)

LEMMA LineIs == LineReads
<1> SUFFICES ASSUME TreeFits, OnTipPath, gen > 0 PROVE LineReads
    BY DEF LineReads
<1> DEFINE p == PathTo(tip)
<1>1. /\ Len(p) \in Nat /\ \A i \in 1 .. Len(p) : p[i] \in 1 .. Len(nodes)
      /\ Len(PathTo(cursor)) \in 1 .. Len(p)
    BY CursorIs
<1>2. \A n \in 1 .. Len(nodes) : StateOf(n) \in State
    <2> TAKE n \in 1 .. Len(nodes)
    <2>1. nodes[n] \in Node
        BY DEF TreeFits
    <2> QED BY <2>1 DEF Node, StateOf, State
<1>3. line = [i \in 1 .. Len(p) |-> StateOf(p[i])] /\ pos = Len(PathTo(cursor))
    BY DEF line, pos
<1> HIDE DEF p
<1>4. \A i \in 1 .. Len(p) : StateOf(p[i]) \in State
    BY <1>1, <1>2
<1> DEFINE e(i) == StateOf(p[i])
           f == [i \in 1 .. Len(p) |-> e(i)]
<1>5. f \in Seq(State) /\ Len(f) = Len(p) /\ \A i \in 1 .. Len(p) : f[i] = e(i)
    <2>1. \A i \in 1 .. Len(p) : e(i) \in State
        BY <1>4
    <2> HIDE DEF e
    <2> QED BY <1>1, <2>1
<1>6. line = f
    BY <1>3
<1> HIDE DEF f
<1> QED
    BY <1>1, <1>3, <1>5, <1>6 DEF p, LineReads

LEMMA LineIsNext == LineReads'
BY LineIs, PTL

\* An edit of the history is an edit of the line.
LEMMA LineGrows ==
    ASSUME TreeFits, OnTipPath, gen > 0, gen' > 0, NEW point \in State, AppendNode(point)
    PROVE  Line!Edit(point)
<1> DEFINE q == PathTo(cursor)
           p == PathTo(tip)
           id == Len(nodes) + 1
           cut == SubSeq(line, 1, pos)
           grown == Append(cut, point)
<1>1. /\ TreeFits' /\ Extends(nodes', nodes) /\ OnTipPath'
      /\ PathTo(tip)' = Append(q, id) /\ PathTo(cursor)' = Append(q, id)
      /\ StateOf(cursor)' = point /\ cursor' = id
    BY AppendGrowsPath
<1>2. /\ line \in Seq(State) /\ Len(line) = Len(p) /\ pos = Len(q) /\ pos \in 1 .. Len(line)
      /\ \A i \in 1 .. Len(line) : line[i] = StateOf(p[i])
    BY LineIs DEF LineReads
<1>3. /\ line' \in Seq(State) /\ Len(line') = Len(PathTo(tip)')
      /\ \A i \in 1 .. Len(line') : line'[i] = StateOf(PathTo(tip)[i])'
      /\ pos' = Len(PathTo(cursor)')
    <2>1. /\ TreeFits' /\ OnTipPath' /\ gen' > 0
        BY <1>1
    <2> QED BY <2>1, LineIsNext DEF LineReads
<1>4. /\ Len(q) \in Nat /\ Len(p) \in Nat /\ Len(q) \in 1 .. Len(p)
      /\ \A j \in 1 .. Len(q) : q[j] = p[j]
      /\ \A i \in 1 .. Len(p) : p[i] \in 1 .. Len(nodes)
    BY CursorIs
<1>5. q \in Seq(Nat)
    <2>1. IsTree(nodes) /\ q = PathIn(nodes, cursor) /\ cursor \in 1 .. Len(nodes)
        BY <1>4, CursorIs, NodesAreATree
    <2>2. q \in Seq(1 .. cursor)
        BY <2>1, PathIsLine DEF IsLine
    <2>3. 1 .. cursor \subseteq Nat
        OBVIOUS
    <2> HIDE DEF q
    <2> QED BY <2>2, <2>3, SeqWider
<1>6. id \in Nat
    BY NodesAreATree DEF IsTree
<1>7. /\ cut \in Seq(State) /\ Len(cut) = Len(q)
      /\ \A i \in 1 .. Len(q) : cut[i] = StateOf(p[i])
    <2> HIDE DEF p, q
    <2>1. 1 .. pos \subseteq 1 .. Len(line) /\ pos \in Nat /\ Len(line) \in Nat
        BY <1>2
    <2> QED BY <1>2, <2>1
<1> HIDE DEF cut
<1>8. /\ grown \in Seq(State) /\ Len(grown) = Len(q) + 1 /\ grown[Len(q) + 1] = point
      /\ \A i \in 1 .. Len(q) : grown[i] = StateOf(p[i])
    BY <1>4, <1>7
<1> DEFINE r == Append(q, id)
<1>9. /\ Len(r) = Len(q) + 1 /\ r[Len(q) + 1] = id
      /\ \A i \in 1 .. Len(q) : r[i] = q[i]
    <2> HIDE DEF q, id
    <2> QED BY <1>5, <1>6
<1>10. PathTo(tip)' = r /\ PathTo(cursor)' = r
    BY <1>1
<1> HIDE DEF r, q, p, grown, id
<1>11. \A n \in 1 .. Len(nodes) : StateOf(n)' = StateOf(n)
    BY <1>1 DEF Extends, StateOf
<1>12. \A i \in 1 .. Len(line') : line'[i] = grown[i]
    <2> TAKE i \in 1 .. Len(line')
    <2>1. line'[i] = StateOf(PathTo(tip)[i])'
        BY <1>3
    <2>2. StateOf(PathTo(tip)[i])' = [base |-> nodes'[r[i]].base, content |-> nodes'[r[i]].content]
        BY <1>10 DEF StateOf
    <2>3. i \in 1 .. Len(q) + 1
        BY <1>3, <1>9, <1>10
    <2>4. CASE i = Len(q) + 1
        <3>1. [base |-> nodes'[id].base, content |-> nodes'[id].content] = point
            BY <1>1 DEF StateOf
        <3> QED BY <1>8, <1>9, <2>1, <2>2, <2>4, <3>1
    <2>5. CASE i # Len(q) + 1
        <3>1. i \in 1 .. Len(q) /\ i \in 1 .. Len(p)
            BY <1>4, <2>3, <2>5
        <3>2. r[i] = p[i] /\ p[i] \in 1 .. Len(nodes)
            BY <1>4, <1>9, <3>1
        <3>3. [base |-> nodes'[p[i]].base, content |-> nodes'[p[i]].content] = StateOf(p[i])
            BY <1>11, <3>2 DEF StateOf
        <3> QED BY <1>8, <2>1, <2>2, <3>1, <3>2, <3>3
    <2> QED BY <2>4, <2>5
<1>13. line' = grown
    <2>1. Len(line') = Len(grown)
        BY <1>3, <1>8, <1>9, <1>10
    <2> QED BY <1>3, <1>8, <1>12, <2>1, SeqEqual
<1>14. pos' = pos + 1
    BY <1>2, <1>3, <1>9, <1>10
<1> QED
    BY <1>2, <1>13, <1>14 DEF Line!Edit, grown, cut

\* As long as nodes and tip stay, the line does.
LEMMA LineStays ==
    ASSUME gen > 0, gen' > 0, UNCHANGED <<nodes, tip>>
    PROVE  UNCHANGED line
<1> DEFINE p == PathIn(nodes, tip)
           e(i) == [base |-> nodes[p[i]].base, content |-> nodes[p[i]].content]
<1>1. PathTo(tip) = p /\ PathTo(tip)' = p
    BY DEF PathTo, PathIn
<1>2. line = [i \in 1 .. Len(p) |-> e(i)]
    <2>1. line = [i \in 1 .. Len(PathTo(tip)) |-> StateOf(PathTo(tip)[i])]
        BY DEF line
    <2> HIDE DEF p
    <2> QED BY <1>1, <2>1 DEF StateOf
<1>3. line' = [i \in 1 .. Len(p) |-> e(i)]
    <2>1. line' = [i \in 1 .. Len(PathTo(tip)') |-> StateOf(PathTo(tip)[i])']
        BY DEF line
    <2>2. \A i : StateOf(PathTo(tip)[i])' = [base |-> nodes'[PathTo(tip)'[i]].base,
                                           content |-> nodes'[PathTo(tip)'[i]].content]
        BY DEF StateOf
    <2>3. \A i : StateOf(PathTo(tip)[i])' = e(i)
        BY <1>1, <2>2
    <2> HIDE DEF p, e
    <2> QED BY <1>1, <2>1, <2>3
<1> QED
    BY <1>2, <1>3

\* A new lineage is a new line.
LEMMA LineRestarts ==
    ASSUME gen' > 0, NEW point \in State,
           PathTo(tip)' = <<cursor'>>, PathTo(cursor)' = <<cursor'>>, StateOf(cursor)' = point
    PROVE  Line!Restart(point)
<1> DEFINE p == <<cursor'>>
<1>1. Len(p) = 1 /\ p[1] = cursor'
    OBVIOUS
<1>2. PathTo(tip)' = p /\ PathTo(cursor)' = p
    OBVIOUS
<1> HIDE DEF p
<1>3. pos' = 1
    BY <1>1, <1>2 DEF pos
<1>4. line' = [i \in 1 .. Len(PathTo(tip)') |-> StateOf(PathTo(tip)[i])']
    BY DEF line
<1>5. line' = [i \in 1 .. 1 |-> [base |-> nodes'[p[i]].base, content |-> nodes'[p[i]].content]]
    BY <1>1, <1>2, <1>4 DEF StateOf
<1>6. \A i \in 1 .. 1 : [base |-> nodes'[p[i]].base, content |-> nodes'[p[i]].content] = point
    BY <1>1 DEF StateOf
<1>7. line' = [i \in 1 .. 1 |-> point]
    BY <1>5, <1>6
<1>8. [i \in 1 .. 1 |-> point] = <<point>>
    OBVIOUS
<1> QED
    BY <1>3, <1>7, <1>8 DEF Line!Restart

LEMMA CursorIsNat ==
    ASSUME HInv
    PROVE  cursor \in Nat /\ (gen > 0 => cursor \in 1 .. Len(nodes))
<1>1. gen \in Nat
    BY DEF HInv, TypesFit
<1>2. CASE gen = 0
    BY <1>1, <1>2 DEF HInv, NoHead
<1>3. CASE gen > 0
    <2>1. cursor \in 1 .. Len(nodes)
        BY <1>3, CursorIs DEF HInv, HeadFits
    <2> QED BY <2>1
<1> QED
    BY <1>1, <1>2, <1>3

\* A request of the present generation, composed in the first draft's life,
\* has a handler that read the present draft.
LEMMA HandlerIsFresh ==
    ASSUME TypesFit, RequestsFit, NEW r \in Request, request[r].op # "none",
           request[r].gen = gen, lives = 1
    PROVE  handler[r] = draft
<1>1. request[r] \in Sent
    BY DEF RequestsFit
<1>2. request[r].life \in Nat \ {0} /\ request[r].life <= lives
    BY <1>1 DEF RequestsFit, Sent
<1>3. request[r].life = lives
    BY <1>2
<1> QED
    BY <1>3 DEF RequestsFit

\* What every write leaves right that moves the generation on.
LEMMA WriteFits ==
    ASSUME TypesFit, RequestsFit, NoHead, NEW r \in Request, Wrote(r), gen' = gen + 1,
           draft' \in State, receipts' \subseteq Request \X (0 .. MaxRevisions),
           revisions' \in Seq([parent : 0 .. MaxRevisions, content : Content]),
           Len(revisions) <= Len(revisions'), Len(revisions') <= MaxRevisions,
           active' \in 0 .. Len(revisions')
    PROVE  TypesFit' /\ RequestsFit' /\ NoHead' /\ lives' = lives /\ gen' > 0
<1>1. gen \in Nat /\ gen' \in Nat /\ gen' > 0 /\ gen' # 0
    BY DEF TypesFit
<1>2. /\ lives' = lives /\ version' = version + 1
      /\ effects' = [effects EXCEPT ![r] = @ + 1]
      /\ request' = request /\ handler' = handler /\ reused' = reused
    BY <1>1 DEF Wrote, clients
<1>3. effects' \in [Request -> Nat]
    BY <1>2 DEF TypesFit
<1>4. version' \in Nat
    BY <1>2 DEF TypesFit
<1>5. TypesFit'
    BY <1>1, <1>2, <1>3, <1>4 DEF TypesFit
<1>6. Len(revisions) \in Nat /\ Len(revisions') \in Nat
    <2> DEFINE R == [parent : 0 .. MaxRevisions, content : Content]
    <2>1. revisions \in Seq(R) /\ revisions' \in Seq(R)
        BY DEF TypesFit
    <2> HIDE DEF R
    <2> QED BY <2>1
<1>7. ASSUME NEW q \in Request, request[q].op # "none"
      PROVE  /\ request[q].rev <= Len(revisions')
             /\ request[q].life = lives => request[q].gen <= gen' /\ request[q].gen # gen'
    <2>1. request[q] \in Sent
        BY <1>7 DEF RequestsFit
    <2>2. request[q].rev \in Nat /\ request[q].gen \in Nat
        BY <2>1, BoundsAssumption DEF Sent
    <2>3. request[q].rev <= Len(revisions) /\ (request[q].life = lives => request[q].gen <= gen)
        BY <1>7 DEF RequestsFit
    <2> QED BY <1>1, <1>6, <2>2, <2>3
<1>8. RequestsFit'
    BY <1>2, <1>7 DEF RequestsFit
<1>9. NoHead'
    BY <1>1 DEF NoHead
<1> QED
    BY <1>1, <1>2, <1>5, <1>8, <1>9

\* The draft is deleted.
LEMMA CloseInv ==
    ASSUME HInv, NEW r \in Request, Wrote(r), gen > 0, RemoveDraft,
           receipts' \subseteq Request \X (0 .. MaxRevisions),
           revisions' \in Seq([parent : 0 .. MaxRevisions, content : Content]),
           Len(revisions) <= Len(revisions'), Len(revisions') <= MaxRevisions,
           active' \in 0 .. Len(revisions')
    PROVE  HInv' /\ Line!Close
<1>1. /\ gen' = 0 /\ draft' = NoDraft /\ checkpoint' = 0 /\ floor' = 0 /\ cursor' = 0 /\ tip' = 0
      /\ nodes' = nodes /\ lineage' = lineage
    BY DEF RemoveDraft
<1>2. /\ lives' = lives + 1 /\ version' = version + 1
      /\ effects' = [effects EXCEPT ![r] = @ + 1]
      /\ request' = request /\ handler' = handler /\ reused' = reused
    BY <1>1 DEF Wrote, clients
<1>3. lives \in Nat \ {0} /\ lives' \in Nat \ {0} /\ lives' # 1
    BY <1>2 DEF HInv, TypesFit
<1>4. NoDraft \in State
    <2>1. draft.content \in Content
        BY DEF HInv, TypesFit, State
    <2>2. (CHOOSE c \in Content : TRUE) \in Content
        BY <2>1
    <2> QED BY <2>2, BoundsAssumption DEF NoDraft, State
<1>5. effects' \in [Request -> Nat] /\ version' \in Nat
    BY <1>2 DEF HInv, TypesFit
<1>6. TypesFit'
    BY <1>1, <1>2, <1>3, <1>4, <1>5 DEF HInv, TypesFit
<1>7. Len(revisions) \in Nat /\ Len(revisions') \in Nat
    <2> DEFINE R == [parent : 0 .. MaxRevisions, content : Content]
    <2>1. revisions \in Seq(R) /\ revisions' \in Seq(R)
        BY DEF HInv, TypesFit
    <2> HIDE DEF R
    <2> QED BY <2>1
<1>8. ASSUME NEW q \in Request, request[q].op # "none"
      PROVE  request[q].rev <= Len(revisions') /\ request[q].life <= lives'
             /\ request[q].life # lives'
    <2>1. request[q] \in Sent
        BY <1>8 DEF HInv, RequestsFit
    <2>2. request[q].rev \in Nat /\ request[q].life \in Nat
        BY <2>1, BoundsAssumption DEF Sent
    <2>3. request[q].rev <= Len(revisions) /\ request[q].life <= lives
        BY <1>8 DEF HInv, RequestsFit
    <2> QED BY <1>2, <1>3, <1>7, <2>2, <2>3
<1>9. RequestsFit'
    BY <1>2, <1>8 DEF HInv, RequestsFit
<1>10. TreeFits'
    BY <1>1 DEF HInv, TreeFits
<1>11. HeadFits' /\ NoHead' /\ DraftFits'
    BY <1>1, <1>3 DEF HeadFits, NoHead, DraftFits
<1>12. Line!Close
    BY <1>1 DEF Line!Close, line, pos
<1> QED
    BY <1>6, <1>9, <1>10, <1>11, <1>12 DEF HInv

\* A new lineage under a new generation.
LEMMA RestartInv ==
    ASSUME HInv, NEW r \in Request, Wrote(r), gen' = gen + 1, draft' \in State,
           receipts' \subseteq Request \X (0 .. MaxRevisions),
           revisions' \in Seq([parent : 0 .. MaxRevisions, content : Content]),
           Len(revisions) <= Len(revisions'), Len(revisions') <= MaxRevisions,
           active' \in 0 .. Len(revisions'),
           TreeFits', OnTipPath', OneBase(draft.base)', StateOf(cursor)' = draft',
           PathTo(tip)' = <<cursor'>>, PathTo(cursor)' = <<cursor'>>
    PROVE  HInv' /\ Line!Restart(draft')
<1>1. TypesFit' /\ RequestsFit' /\ NoHead' /\ gen' > 0
    BY WriteFits DEF HInv
<1>2. HeadFits' /\ DraftFits'
    BY DEF HeadFits, DraftFits
<1> QED
    BY <1>1, <1>2, LineRestarts DEF HInv

LEMMA RevisionsStay ==
    ASSUME HInv, UNCHANGED <<revisions, active>>
    PROVE  /\ revisions' \in Seq([parent : 0 .. MaxRevisions, content : Content])
           /\ Len(revisions) <= Len(revisions') /\ Len(revisions') <= MaxRevisions
           /\ active' \in 0 .. Len(revisions')
<1> DEFINE R == [parent : 0 .. MaxRevisions, content : Content]
<1>1. revisions \in Seq(R) /\ Len(revisions) <= MaxRevisions /\ active \in 0 .. Len(revisions)
    BY DEF HInv, TypesFit
<1> HIDE DEF R
<1>2. Len(revisions) \in Nat
    BY <1>1
<1> QED
    BY <1>1, <1>2 DEF R

\* An edit of a living draft.
LEMMA SaveOverInv ==
    ASSUME HInv, NEW r \in Request, request[r].op # "none", request[r].content \in Content,
           SaveOver(r), Wrote(r),
           receipts' \subseteq Request \X (0 .. MaxRevisions), UNCHANGED <<revisions, active>>
    PROVE  HInv' /\ (Line!Edit(draft') \/ UNCHANGED <<line, pos>>)
<1> DEFINE point == [base |-> handler[r].base, content |-> request[r].content]
<1>1. /\ gen > 0 /\ request[r].gen = gen /\ draft = StateOf(cursor)
      /\ gen' = gen + 1 /\ draft' = point
      /\ \/ point = draft /\ UNCHANGED history
         \/ point # draft /\ AppendNode(point)
    BY DEF SaveOver
<1>2. point \in State
    <2>1. handler[r].base \in 0 .. MaxRevisions
        BY DEF HInv, TypesFit, State
    <2> QED BY <2>1 DEF State
<1>3. lives = 1 => point.base = draft.base
    BY <1>1, HandlerIsFresh DEF HInv
<1> HIDE DEF point
<1>4. TypesFit' /\ RequestsFit' /\ NoHead' /\ lives' = lives /\ gen' > 0
    <2>1. /\ revisions' \in Seq([parent : 0 .. MaxRevisions, content : Content])
          /\ Len(revisions) <= Len(revisions') /\ Len(revisions') <= MaxRevisions
          /\ active' \in 0 .. Len(revisions')
        BY RevisionsStay
    <2> QED BY <1>1, <1>2, <2>1, WriteFits DEF HInv
<1>5. TreeFits /\ OnTipPath /\ (lives = 1 => OneBase(draft.base))
    BY <1>1 DEF HInv, HeadFits, DraftFits
<1>6. CASE point = draft /\ UNCHANGED history
    <2>1. TreeFits' /\ OnTipPath' /\ StateOf(cursor)' = draft'
        BY <1>1, <1>5, <1>6, ZenonT(60) DEF history, TreeFits, OnTipPath, StateOf, PathTo
    <2>2. lives' = 1 => OneBase(draft.base)'
        BY <1>1, <1>4, <1>5, <1>6, ZenonT(60) DEF history, OneBase, PathTo
    <2>3. HeadFits' /\ DraftFits'
        BY <2>1, <2>2 DEF HeadFits, DraftFits
    <2>4. UNCHANGED <<line, pos>>
        <3>1. gen # 0 /\ gen' # 0
            BY <1>1, <1>4
        <3>2. pos' = pos
            BY <1>6, <3>1 DEF history, pos, PathTo
        <3> QED BY <1>1, <1>4, <1>6, <3>2, LineStays DEF history
    <2> QED BY <1>4, <2>1, <2>3, <2>4 DEF HInv
<1>7. CASE AppendNode(point)
    <2>1. /\ TreeFits' /\ Extends(nodes', nodes) /\ OnTipPath'
          /\ PathTo(tip)' = Append(PathTo(cursor), Len(nodes) + 1)
          /\ StateOf(cursor)' = point /\ cursor' = Len(nodes) + 1
        BY <1>2, <1>5, <1>7, AppendGrowsPath
    <2>2. /\ Len(PathTo(cursor)) \in 1 .. Len(PathTo(tip)) /\ Len(PathTo(tip)) \in Nat
          /\ \A j \in 1 .. Len(PathTo(cursor)) : PathTo(cursor)[j] = PathTo(tip)[j]
          /\ \A i \in 1 .. Len(PathTo(tip)) : PathTo(tip)[i] \in 1 .. Len(nodes)
        BY <1>5, CursorIs
    <2>3. lives' = 1 => OneBase(draft.base)'
        <3> SUFFICES ASSUME lives' = 1 PROVE OneBase(draft.base)'
            OBVIOUS
        <3> DEFINE q == PathTo(cursor)
                   p == PathTo(tip)
                   id == Len(nodes) + 1
                   t == Append(q, id)
        <3>1. /\ Len(t) = Len(q) + 1 /\ t[Len(q) + 1] = id
              /\ \A i \in 1 .. Len(q) : t[i] = q[i]
            <4>1. q \in Seq(1 .. cursor)
                <5>1. IsTree(nodes) /\ q = PathIn(nodes, cursor) /\ cursor \in 1 .. Len(nodes)
                    BY <1>5, <2>2, CursorIs, NodesAreATree
                <5> QED BY <5>1, PathIsLine DEF IsLine
            <4> DEFINE S == 1 .. cursor
            <4>2. q \in Seq(S)
                BY <4>1
            <4> HIDE DEF q, S, id
            <4> QED BY <4>2
        <3>2. draft'.base = draft.base /\ nodes'[id].base = draft.base
            <4>1. draft'.base = draft.base
                BY <1>1, <1>3, <1>4
            <4>2. nodes'[cursor'].base = point.base
                <5>1. StateOf(cursor)'.base = nodes'[cursor'].base
                    BY DEF StateOf
                <5> QED BY <2>1, <5>1
            <4> QED BY <1>1, <2>1, <4>1, <4>2
        <3>3. \A i \in 1 .. Len(p) : nodes[p[i]].base = draft.base
            BY <1>4, <1>5 DEF OneBase
        <3>4. PathTo(tip)' = t
            BY <2>1
        <3> HIDE DEF p, q, t, id
        <3>5. \A i \in 1 .. Len(t) : nodes'[t[i]].base = draft.base
            <4> TAKE i \in 1 .. Len(t)
            <4>1. CASE i = Len(q) + 1
                BY <3>1, <3>2, <4>1
            <4>2. CASE i # Len(q) + 1
                <5>1. i \in 1 .. Len(q) /\ i \in 1 .. Len(p)
                    BY <2>2, <3>1, <4>2 DEF p, q
                <5>2. t[i] = p[i] /\ p[i] \in 1 .. Len(nodes)
                    BY <2>2, <3>1, <5>1 DEF p, q
                <5>3. nodes'[p[i]] = nodes[p[i]]
                    BY <2>1, <5>2 DEF Extends
                <5> QED BY <3>3, <5>1, <5>2, <5>3
            <4> QED BY <4>1, <4>2
        <3> QED BY <3>2, <3>4, <3>5 DEF OneBase
    <2>4. HeadFits' /\ DraftFits'
        BY <1>1, <2>1, <2>3 DEF HeadFits, DraftFits
    <2>5. Line!Edit(draft')
        BY <1>1, <1>2, <1>4, <1>5, <1>7, LineGrows
    <2> QED BY <1>4, <2>1, <2>4, <2>5 DEF HInv
<1> QED
    BY <1>1, <1>6, <1>7

\* The first save of a new draft.
LEMMA SaveFirstInv ==
    ASSUME HInv, NEW r \in Request, request[r].content \in Content, SaveFirst(r), Wrote(r),
           receipts' \subseteq Request \X (0 .. MaxRevisions), UNCHANGED <<revisions, active>>
    PROVE  HInv' /\ Line!Restart(draft')
<1> DEFINE point == [base |-> handler[r].base, content |-> request[r].content]
<1>1. gen = 0 /\ gen' = gen + 1 /\ draft' = point /\ StartLineage(point)
    BY DEF SaveFirst
<1>2. point \in State
    <2>1. handler[r].base \in 0 .. MaxRevisions
        BY DEF HInv, TypesFit, State
    <2> QED BY <2>1 DEF State
<1> HIDE DEF point
<1>0. PICK s \in State : s = point
    BY <1>2
<1>3. /\ TreeFits' /\ OnTipPath' /\ OneBase(s.base)' /\ StateOf(cursor)' = s
      /\ PathTo(tip)' = <<cursor'>> /\ PathTo(cursor)' = <<cursor'>>
    BY <1>0, <1>1, LineageStarts DEF HInv
<1>4. OneBase(draft.base)'
    BY <1>0, <1>1, <1>3 DEF OneBase
<1>5. /\ revisions' \in Seq([parent : 0 .. MaxRevisions, content : Content])
      /\ Len(revisions) <= Len(revisions') /\ Len(revisions') <= MaxRevisions
      /\ active' \in 0 .. Len(revisions')
    BY RevisionsStay
<1> QED
    BY <1>0, <1>1, <1>2, <1>3, <1>4, <1>5, RestartInv

\* A step of undo or redo.
LEMMA MoveInv ==
    ASSUME HInv, NEW r \in Request,
           NEW c \in Climb(Len(PathTo(tip)), UndoLimit) .. Len(PathTo(tip)),
           MoveTo(r, PathTo(tip)[c])
    PROVE  HInv' /\ UNCHANGED line /\ pos' = c
<1> DEFINE target == PathTo(tip)[c]
<1>1. /\ gen > 0 /\ gen' = gen + 1 /\ draft' = StateOf(target) /\ cursor' = target
      /\ receipts' = receipts \cup {<<r, 0>>} /\ Wrote(r)
      /\ UNCHANGED <<nodes, lineage, checkpoint, floor, tip, revisions, active>>
    BY DEF MoveTo
<1>2. TreeFits /\ OnTipPath /\ (lives = 1 => OneBase(draft.base))
    BY <1>1 DEF HInv, HeadFits, DraftFits
<1>3. /\ TreeFits' /\ OnTipPath' /\ PathTo(tip)' = PathTo(tip) /\ Len(PathTo(cursor)') = c
      /\ cursor' \in 1 .. Len(nodes)
    BY <1>1, <1>2, CursorMoves
<1>4. draft' \in State
    <2>1. nodes[target] \in Node
        BY <1>1, <1>3 DEF TreeFits, HInv
    <2> QED BY <1>1, <2>1 DEF StateOf, State, Node
<1>5. receipts' \subseteq Request \X (0 .. MaxRevisions)
    BY <1>1, BoundsAssumption DEF HInv, TypesFit
<1>6. TypesFit' /\ RequestsFit' /\ NoHead' /\ lives' = lives /\ gen' > 0
    <2>1. /\ revisions' \in Seq([parent : 0 .. MaxRevisions, content : Content])
          /\ Len(revisions) <= Len(revisions') /\ Len(revisions') <= MaxRevisions
          /\ active' \in 0 .. Len(revisions')
        BY <1>1, RevisionsStay
    <2> QED BY <1>1, <1>4, <1>5, <2>1, WriteFits DEF HInv
<1>7. StateOf(cursor)' = draft'
    BY <1>1 DEF StateOf
<1>8. lives' = 1 => OneBase(draft.base)'
    <2> SUFFICES ASSUME lives' = 1 PROVE OneBase(draft.base)'
        OBVIOUS
    <2>1. /\ Climb(Len(PathTo(tip)), UndoLimit) \in 1 .. Len(PathTo(tip))
          /\ Len(PathTo(tip)) \in Nat
        BY <1>2, CursorIs
    <2>2. c \in 1 .. Len(PathTo(tip))
        BY <2>1
    <2>3. \A i \in 1 .. Len(PathTo(tip)) : nodes[PathTo(tip)[i]].base = draft.base
        BY <1>2, <1>6 DEF OneBase
    <2>4. draft'.base = draft.base
        BY <1>1, <2>2, <2>3 DEF StateOf
    <2> QED BY <1>1, <1>3, <2>3, <2>4 DEF OneBase
<1>9. HeadFits' /\ DraftFits'
    BY <1>3, <1>7, <1>8 DEF HeadFits, DraftFits
<1>10. UNCHANGED line
    BY <1>1, <1>6, LineStays
<1>11. pos' = c
    BY <1>3, <1>6 DEF pos
<1> QED
    BY <1>3, <1>6, <1>9, <1>10, <1>11 DEF HInv

LEMMA UndoInv ==
    ASSUME HInv, NEW r \in Request, Undo(r)
    PROVE  HInv' /\ Line!Undo
<1>1. gen > 0 /\ cursor # floor /\ MoveTo(r, nodes[cursor].parent)
    BY DEF Undo, MoveTo
<1>2. TreeFits /\ OnTipPath
    BY <1>1 DEF HInv, HeadFits
<1> DEFINE c == Len(PathTo(cursor)) - 1
           n == Len(PathTo(tip))
<1>3. c \in Climb(n, UndoLimit) .. n /\ nodes[cursor].parent = PathTo(tip)[c]
    BY <1>1, <1>2, UndoTarget
<1>4. HInv' /\ UNCHANGED line /\ pos' = c
    <2>1. PICK k \in Climb(n, UndoLimit) .. n : k = c
        BY <1>3
    <2>2. MoveTo(r, PathTo(tip)[k])
        BY <1>1, <1>3, <2>1
    <2> QED BY <2>1, <2>2, MoveInv
<1>5. Len(line) = n /\ pos = Len(PathTo(cursor)) /\ pos \in 1 .. n /\ n \in Nat
    <2>1. n \in Nat
        BY <1>2, CursorIs
    <2> QED BY <1>1, <1>2, <2>1, LineIs DEF LineReads
<1> HIDE DEF n, c
<1>6. c = pos - 1
    BY <1>5 DEF c
<1>7. pos > 1 /\ pos + UndoLimit > n
    BY <1>3, <1>5, <1>6, LimitAssumption DEF Climb
<1> QED
    BY <1>4, <1>5, <1>6, <1>7 DEF Line!Undo

LEMMA RedoInv ==
    ASSUME HInv, NEW r \in Request, Redo(r)
    PROVE  HInv' /\ Line!Redo
<1>1. gen > 0 /\ cursor # tip /\ MoveTo(r, NextOnTipPath)
    BY DEF Redo, MoveTo
<1>2. TreeFits /\ OnTipPath
    BY <1>1 DEF HInv, HeadFits
<1> DEFINE c == Len(PathTo(cursor)) + 1
           n == Len(PathTo(tip))
<1>3. c \in Climb(n, UndoLimit) .. n /\ NextOnTipPath = PathTo(tip)[c]
    BY <1>1, <1>2, RedoTarget
<1>4. HInv' /\ UNCHANGED line /\ pos' = c
    <2>1. PICK k \in Climb(n, UndoLimit) .. n : k = c
        BY <1>3
    <2>2. MoveTo(r, PathTo(tip)[k])
        BY <1>1, <1>3, <2>1
    <2> QED BY <2>1, <2>2, MoveInv
<1>5. Len(line) = n /\ pos = Len(PathTo(cursor)) /\ pos \in 1 .. n /\ n \in Nat
    <2>1. n \in Nat
        BY <1>2, CursorIs
    <2> QED BY <1>1, <1>2, <2>1, LineIs DEF LineReads
<1> HIDE DEF n, c
<1>6. c = pos + 1
    BY <1>5 DEF c
<1>7. pos < n
    BY <1>3, <1>5, <1>6, LimitAssumption DEF Climb
<1> QED
    BY <1>4, <1>5, <1>6, <1>7 DEF Line!Redo

\* A publication adds a revision and makes it the active one.
LEMMA PublishedFits ==
    ASSUME HInv, NEW parent \in 0 .. MaxRevisions, NEW c \in Content, PublishLocked(parent, c)
    PROVE  /\ revisions' \in Seq([parent : 0 .. MaxRevisions, content : Content])
           /\ Len(revisions) <= Len(revisions') /\ Len(revisions') <= MaxRevisions
           /\ active' \in 0 .. Len(revisions')
           /\ Len(revisions) + 1 \in 0 .. MaxRevisions
<1> DEFINE R == [parent : 0 .. MaxRevisions, content : Content]
           e == [parent |-> parent, content |-> c]
<1>1. revisions \in Seq(R) /\ e \in R
    BY DEF HInv, TypesFit
<1>2. /\ Len(revisions) < MaxRevisions /\ revisions' = Append(revisions, e)
      /\ active' = Len(revisions) + 1
    BY DEF PublishLocked
<1> HIDE DEF R, e
<1>3. /\ Len(revisions) \in Nat /\ revisions' \in Seq(R)
      /\ Len(revisions') = Len(revisions) + 1
    BY <1>1, <1>2
<1> QED
    BY <1>2, <1>3, BoundsAssumption DEF R

\* The records of requests that have been sent.
LEMMA SentFits ==
    ASSUME HInv, NEW r \in Request, request[r].op # "none"
    PROVE  /\ request[r].content \in Content /\ request[r].rev \in 0 .. MaxRevisions
           /\ request[r].rev <= Len(revisions)
           /\ request[r].op \in NeedsRevision => request[r].rev # 0
<1>1. request[r] \in Sent
    BY DEF HInv, RequestsFit
<1> QED
    BY <1>1 DEF HInv, RequestsFit, Sent

LEMMA PublishInv ==
    ASSUME HInv, NEW r \in Request, PublishAndContinue(r)
    PROVE  HInv' /\ Line!Restart(draft') /\ draft' \in State
<1>1. /\ request[r].op = "publish" /\ gen > 0 /\ gen' = gen + 1 /\ Wrote(r)
      /\ PublishLocked(draft.base, request[r].content) /\ receipts' = receipts
    BY DEF PublishAndContinue
<1>2. request[r].content \in Content
    BY <1>1, SentFits
<1>3. draft.base \in 0 .. MaxRevisions
    BY DEF HInv, TypesFit, State
<1>4. /\ TreeFits' /\ OnTipPath' /\ OneBase(draft.base)' /\ StateOf(cursor)' = draft'
      /\ draft' \in State
      /\ PathTo(tip)' = <<cursor'>> /\ PathTo(cursor)' = <<cursor'>>
    BY <1>1, <1>2, ContinuationStarts DEF HInv, HeadFits
<1>5. /\ revisions' \in Seq([parent : 0 .. MaxRevisions, content : Content])
      /\ Len(revisions) <= Len(revisions') /\ Len(revisions') <= MaxRevisions
      /\ active' \in 0 .. Len(revisions')
    BY <1>1, <1>2, <1>3, PublishedFits
<1>6. receipts' \subseteq Request \X (0 .. MaxRevisions)
    BY <1>1 DEF HInv, TypesFit
<1> QED
    BY <1>1, <1>4, <1>5, <1>6, RestartInv

LEMMA BranchInv ==
    ASSUME HInv, NEW r \in Request, Branch(r)
    PROVE  HInv' /\ Line!Restart(draft') /\ draft' \in State
<1> DEFINE rev == request[r].rev
           point == [base |-> rev, content |-> revisions[rev].content]
<1>1. /\ request[r].op = "branch" /\ gen' = gen + 1 /\ draft' = point /\ StartLineage(point)
      /\ Wrote(r) /\ UNCHANGED <<receipts, revisions, active>>
    BY DEF Branch
<1>2. rev \in 0 .. MaxRevisions /\ rev <= Len(revisions) /\ rev # 0
    BY <1>1, SentFits DEF NeedsRevision
<1>3. point \in State
    <2> DEFINE R == [parent : 0 .. MaxRevisions, content : Content]
    <2>1. revisions \in Seq(R)
        BY DEF HInv, TypesFit
    <2>2. revisions[rev] \in R
        <3> HIDE DEF R, rev
        <3>1. rev \in 1 .. Len(revisions)
            BY <1>2, <2>1, BoundsAssumption
        <3> QED BY <2>1, <3>1
    <2> QED BY <1>2, <2>2 DEF State
<1> HIDE DEF point
<1>4. PICK s \in State : s = point
    BY <1>3
<1>5. /\ TreeFits' /\ OnTipPath' /\ OneBase(s.base)' /\ StateOf(cursor)' = s
      /\ PathTo(tip)' = <<cursor'>> /\ PathTo(cursor)' = <<cursor'>>
    BY <1>1, <1>4, LineageStarts DEF HInv
<1>6. OneBase(draft.base)'
    BY <1>1, <1>4, <1>5 DEF OneBase
<1>7. /\ revisions' \in Seq([parent : 0 .. MaxRevisions, content : Content])
      /\ Len(revisions) <= Len(revisions') /\ Len(revisions') <= MaxRevisions
      /\ active' \in 0 .. Len(revisions')
    BY <1>1, RevisionsStay
<1>8. receipts' \subseteq Request \X (0 .. MaxRevisions)
    BY <1>1 DEF HInv, TypesFit
<1> QED
    BY <1>1, <1>3, <1>4, <1>5, <1>6, <1>7, <1>8, RestartInv

LEMMA AcceptInv ==
    ASSUME HInv, NEW r \in Request, Accept(r)
    PROVE  HInv' /\ Line!Restart(draft') /\ draft' \in State
<1> DEFINE point == [base |-> Len(revisions) + 1, content |-> request[r].content]
<1>1. /\ request[r].op = "accept" /\ gen' = gen + 1 /\ draft' = point /\ StartLineage(point)
      /\ Wrote(r) /\ PublishLocked(request[r].rev, request[r].content)
      /\ receipts' = receipts
    BY DEF Accept
<1>2. request[r].content \in Content /\ request[r].rev \in 0 .. MaxRevisions
    BY <1>1, SentFits
<1>3. /\ revisions' \in Seq([parent : 0 .. MaxRevisions, content : Content])
      /\ Len(revisions) <= Len(revisions') /\ Len(revisions') <= MaxRevisions
      /\ active' \in 0 .. Len(revisions')
      /\ Len(revisions) + 1 \in 0 .. MaxRevisions
    BY <1>1, <1>2, PublishedFits
<1>4. point \in State
    BY <1>2, <1>3 DEF State
<1> HIDE DEF point
<1>5. PICK s \in State : s = point
    BY <1>4
<1>6. /\ TreeFits' /\ OnTipPath' /\ OneBase(s.base)' /\ StateOf(cursor)' = s
      /\ PathTo(tip)' = <<cursor'>> /\ PathTo(cursor)' = <<cursor'>>
    BY <1>1, <1>5, LineageStarts DEF HInv
<1>7. OneBase(draft.base)'
    BY <1>1, <1>5, <1>6 DEF OneBase
<1>8. receipts' \subseteq Request \X (0 .. MaxRevisions)
    BY <1>1 DEF HInv, TypesFit
<1> QED
    BY <1>1, <1>3, <1>4, <1>5, <1>6, <1>7, <1>8, RestartInv

LEMMA SaveInv ==
    ASSUME HInv, NEW r \in Request, Save(r) \/ Edit(r)
    PROVE  /\ HInv'
           /\ Line!Edit(draft') \/ Line!Restart(draft') \/ UNCHANGED <<line, pos>>
<1>1. /\ request[r].op # "none"
      /\ SaveOver(r) \/ SaveFirst(r)
      /\ Wrote(r) /\ UNCHANGED <<revisions, active>>
      /\ receipts' \subseteq receipts \cup {<<r, handler[r].base>>}
    <2>1. CASE Save(r)
        BY <2>1 DEF Save
    <2>2. CASE Edit(r)
        BY <2>2 DEF Edit
    <2> QED BY <2>1, <2>2
<1>2. request[r].content \in Content
    BY <1>1, SentFits
<1>3. handler[r].base \in 0 .. MaxRevisions
    BY DEF HInv, TypesFit, State
<1>4. receipts' \subseteq Request \X (0 .. MaxRevisions)
    BY <1>1, <1>3 DEF HInv, TypesFit
<1>5. CASE SaveOver(r)
    BY <1>1, <1>2, <1>4, <1>5, SaveOverInv
<1>6. CASE SaveFirst(r)
    BY <1>1, <1>2, <1>4, <1>6, SaveFirstInv
<1> QED
    BY <1>1, <1>5, <1>6

LEMMA RemoveInv ==
    ASSUME HInv, NEW r \in Request, PublishDraft(r) \/ Discard(r)
    PROVE  HInv' /\ Line!Close
<1>1. gen > 0 /\ RemoveDraft /\ Wrote(r) /\ receipts' = receipts
    BY DEF PublishDraft, Discard
<1>2. receipts' \subseteq Request \X (0 .. MaxRevisions)
    BY <1>1 DEF HInv, TypesFit
<1>3. draft.base \in 0 .. MaxRevisions /\ draft.content \in Content
    BY DEF HInv, TypesFit, State
<1>4. /\ revisions' \in Seq([parent : 0 .. MaxRevisions, content : Content])
      /\ Len(revisions) <= Len(revisions') /\ Len(revisions') <= MaxRevisions
      /\ active' \in 0 .. Len(revisions')
    <2>1. CASE PublishDraft(r)
        BY <1>3, <2>1, PublishedFits DEF PublishDraft
    <2>2. CASE Discard(r)
        BY <2>2, RevisionsStay DEF Discard
    <2> QED BY <2>1, <2>2
<1> QED
    BY <1>1, <1>2, <1>4, CloseInv

\* Composing a request and reading the draft leave the history alone.
LEMMA ClientInv ==
    ASSUME HInv,
           \/ \E r \in Request, op \in Ops, c \in Content, rev \in 0 .. Len(revisions) :
                 (op \in NeedsRevision <=> rev # 0) /\ Send(r, op, c, rev)
           \/ \E r \in Request : ReadDraft(r) \/ EditReused(r)
    PROVE  HInv' /\ UNCHANGED <<line, pos>>
<1>1. /\ UNCHANGED <<gen, draft, history, receipts, revisions, active, version, lives, effects>>
      /\ reused' \subseteq Request
    <2>1. reused \subseteq Request
        BY DEF HInv, TypesFit
    <2> QED BY <2>1 DEF Send, ReadDraft, EditReused
<1>2. handler' \in [Request -> State] /\ draft \in State
    <2>1. handler \in [Request -> State] /\ draft \in State
        BY DEF HInv, TypesFit
    <2> QED BY <2>1 DEF Send, ReadDraft, EditReused, clients
<1>3. TypesFit'
    BY <1>1, <1>2 DEF HInv, TypesFit
<1>4. TreeFits' /\ NoHead' /\ UNCHANGED <<line, pos>>
    BY <1>1 DEF HInv, TreeFits, NoHead, history, line, pos, PathTo, StateOf
<1>5. HeadFits' /\ DraftFits'
    <2>1. PathTo(tip)' = PathTo(tip) /\ StateOf(cursor)' = StateOf(cursor)
        BY <1>1 DEF history, PathTo, StateOf
    <2>2. HeadFits'
        BY <1>1, <2>1 DEF HInv, HeadFits, history, OnTipPath
    <2>3. DraftFits'
        BY <1>1, <2>1 DEF HInv, DraftFits, history, OneBase
    <2> QED BY <2>2, <2>3
<1>6. RequestsFit'
    <2>1. ASSUME NEW r \in Request, NEW op \in Ops, NEW c \in Content,
                 NEW rev \in 0 .. Len(revisions), op \in NeedsRevision <=> rev # 0,
                 Send(r, op, c, rev)
          PROVE  RequestsFit'
        <3> DEFINE e == [op |-> op, content |-> c, rev |-> rev, gen |-> gen, cursor |-> cursor,
                         state |-> draft, seen |-> version, life |-> lives]
        <3>1. /\ request' = [request EXCEPT ![r] = e]
              /\ handler' = [handler EXCEPT ![r] = draft]
            BY <2>1 DEF Send
        <3>2. e \in Sent
            <4>1. Len(revisions) \in Nat /\ Len(revisions) <= MaxRevisions
                <5> DEFINE R == [parent : 0 .. MaxRevisions, content : Content]
                <5>1. revisions \in Seq(R) /\ Len(revisions) <= MaxRevisions
                    BY DEF HInv, TypesFit
                <5> HIDE DEF R
                <5> QED BY <5>1
            <4>2. rev \in 0 .. MaxRevisions
                BY <4>1, BoundsAssumption
            <4>3. op \in AllOps
                BY OpsAssumption
            <4>4. cursor \in Nat
                BY CursorIsNat
            <4> QED BY <1>2, <4>2, <4>3, <4>4 DEF Sent, HInv, TypesFit
        <3>3. e.op = op /\ e.rev = rev /\ e.gen = gen /\ e.seen = version /\ e.life = lives
            OBVIOUS
        <3> HIDE DEF e
        <3>4. request \in [Request -> {[op |-> "none"]} \cup Sent]
            BY DEF HInv, RequestsFit
        <3>5. /\ request' \in [Request -> {[op |-> "none"]} \cup Sent]
              /\ request'[r] = e /\ handler'[r] = draft
              /\ \A q \in Request \ {r} : request'[q] = request[q] /\ handler'[q] = handler[q]
            <4> DEFINE X == {[op |-> "none"]} \cup Sent
            <4>1. e \in X
                BY <3>2
            <4>2. request \in [Request -> X]
                BY <3>4
            <4> HIDE DEF X
            <4>3. handler \in [Request -> State]
                BY DEF HInv, TypesFit
            <4>4. request' \in [Request -> X]
                BY <3>1, <4>1, <4>2
            <4> QED BY <3>1, <4>2, <4>3, <4>4 DEF X
        <3>6. gen \in Nat /\ lives \in Nat /\ rev <= Len(revisions)
            BY <2>1 DEF HInv, TypesFit
        <3>7. ASSUME NEW q \in Request, request'[q].op # "none"
              PROVE  /\ request'[q].rev <= Len(revisions)
                     /\ request'[q].op \in NeedsRevision => request'[q].rev # 0
                     /\ request'[q].life <= lives
                     /\ request'[q].life = lives =>
                          /\ request'[q].gen <= gen
                          /\ request'[q].gen = gen =>
                                handler'[q] = draft /\ request'[q].seen = version
            <4>1. CASE q = r
                BY <2>1, <3>3, <3>5, <3>6, <4>1
            <4>2. CASE q # r
                BY <3>5, <3>7, <4>2 DEF HInv, RequestsFit
            <4> QED BY <4>1, <4>2
        <3> QED BY <1>1, <3>5, <3>7 DEF RequestsFit
    <2>2. ASSUME NEW r \in Request, ReadDraft(r) \/ EditReused(r)
          PROVE  RequestsFit'
        <3>1. /\ request' = request
              /\ \A q \in Request : handler'[q] = handler[q] \/ handler'[q] = draft
            BY <2>2 DEF ReadDraft, EditReused, clients, HInv, TypesFit
        <3> QED BY <1>1, <3>1 DEF HInv, RequestsFit
    <2> QED BY <2>1, <2>2
<1> QED
    BY <1>3, <1>4, <1>5, <1>6 DEF HInv

LEMMA HInitInv == HInit => HInv /\ Line!Init
<1> SUFFICES ASSUME HInit PROVE HInv /\ Line!Init
    OBVIOUS
<1> DEFINE e == [lineage |-> 1, parent |-> 0, depth |-> 0, base |-> 0, content |-> draft.content]
<1>1. /\ gen = 1 /\ nodes = <<e>> /\ lineage = 1 /\ lives = 1 /\ active = 0 /\ version = 0
      /\ checkpoint = 1 /\ floor = 1 /\ cursor = 1 /\ tip = 1
      /\ receipts = {} /\ reused = {} /\ revisions = <<>>
      /\ request = [r \in Request |-> [op |-> "none"]]
      /\ handler = [r \in Request |-> NoDraft] /\ effects = [r \in Request |-> 0]
    BY DEF HInit
<1>2. PICK c \in Content : draft = [base |-> 0, content |-> c]
    BY DEF HInit
<1>3. draft \in State /\ draft.base = 0 /\ draft.content \in Content /\ NoDraft \in State
    <2>1. (CHOOSE x \in Content : TRUE) \in Content
        BY <1>2
    <2> QED BY <1>2, <2>1, BoundsAssumption DEF State, NoDraft
<1>4. e \in Node /\ e.parent = 0 /\ e.depth = 0 /\ e.lineage = 1 /\ e.base = 0
    BY <1>3, BoundsAssumption DEF Node
<1>5. e.content = draft.content
    OBVIOUS
<1> HIDE DEF e
<1>6. nodes \in Seq(Node) /\ Len(nodes) = 1 /\ nodes[1] = e
    <2> HIDE DEF Node
    <2> QED BY <1>1, <1>4
<1>7. TreeFits
    BY <1>1, <1>4, <1>6, BoundsAssumption DEF TreeFits
<1>8. TypesFit
    <2>1. revisions \in Seq([parent : 0 .. MaxRevisions, content : Content]) /\ Len(revisions) = 0
        BY <1>1
    <2> QED BY <1>1, <1>3, <2>1, BoundsAssumption DEF TypesFit
<1>9. RequestsFit
    BY <1>1 DEF RequestsFit
<1> DEFINE p == <<1>>
<1>10. Len(p) = 1 /\ p[1] = 1
    OBVIOUS
<1>11. PathTo(tip) = p /\ PathTo(cursor) = p
    <2>1. IsTree(nodes) /\ PathTo(1) = PathIn(nodes, 1)
        BY <1>7, NodesAreATree
    <2>2. PathIn(nodes, 1) = <<1>>
        BY <1>4, <1>6, <2>1, AnchorIsLine
    <2> QED BY <1>1, <2>1, <2>2
<1> HIDE DEF p
<1>12. Climb(1, UndoLimit) = 1
    BY LimitAssumption DEF Climb
<1>13. OnTipPath /\ OneBase(draft.base)
    <2>1. 1 \in 1 .. 1 /\ \A i \in 1 .. 1 : i = 1
        OBVIOUS
    <2>2. OnTipPath
        BY <1>1, <1>4, <1>6, <1>10, <1>11, <1>12, <2>1 DEF OnTipPath
    <2> QED BY <1>3, <1>4, <1>6, <1>10, <1>11, <2>1, <2>2 DEF OneBase
<1>14. draft = StateOf(cursor)
    BY <1>1, <1>2, <1>4, <1>5, <1>6 DEF StateOf
<1>15. HeadFits /\ NoHead /\ DraftFits
    BY <1>1, <1>13, <1>14 DEF HeadFits, NoHead, DraftFits
<1>16. Line!Init
    <2>1. pos = 1
        BY <1>1, <1>10, <1>11 DEF pos
    <2>2. line = [i \in 1 .. 1 |-> StateOf(p[i])]
        <3>1. gen # 0
            BY <1>1
        <3> QED BY <1>10, <1>11, <3>1 DEF line
    <2>3. \A i \in 1 .. 1 : StateOf(p[i]) = draft
        BY <1>1, <1>10, <1>14
    <2>4. line = [i \in 1 .. 1 |-> draft]
        BY <2>2, <2>3
    <2>5. [i \in 1 .. 1 |-> draft] = <<draft>>
        OBVIOUS
    <2> QED BY <1>3, <2>1, <2>4, <2>5 DEF Line!Init
<1> QED
    BY <1>7, <1>8, <1>9, <1>15, <1>16 DEF HInv

Writes(r) ==
    \/ Save(r) \/ Edit(r) \/ Undo(r) \/ Redo(r) \/ PublishAndContinue(r) \/ Branch(r)
    \/ Accept(r) \/ PublishDraft(r) \/ Discard(r)

LEMMA HNextCases ==
    ASSUME HNext
    PROVE  \/ \E r \in Request, op \in Ops, c \in Content, rev \in 0 .. Len(revisions) :
                 (op \in NeedsRevision <=> rev # 0) /\ Send(r, op, c, rev)
           \/ \E r \in Request : ReadDraft(r) \/ EditReused(r)
           \/ \E r \in Request : Writes(r)
BY DEF HNext, Writes

LEMMA AnyWriteInv ==
    ASSUME HInv, NEW r \in Request, Writes(r)
    PROVE  HInv' /\ (Line!Next \/ UNCHANGED <<line, pos>>)
<1>1. CASE Save(r) \/ Edit(r)
    <2>1. /\ HInv'
          /\ Line!Edit(draft') \/ Line!Restart(draft') \/ UNCHANGED <<line, pos>>
        BY <1>1, SaveInv
    <2>2. draft' \in State
        BY <2>1 DEF HInv, TypesFit
    <2> QED BY <2>1, <2>2 DEF Line!Next
<1>2. CASE Undo(r)
    BY <1>2, UndoInv DEF Line!Next
<1>3. CASE Redo(r)
    BY <1>3, RedoInv DEF Line!Next
<1>4. CASE PublishAndContinue(r)
    BY <1>4, PublishInv DEF Line!Next
<1>5. CASE Branch(r)
    BY <1>5, BranchInv DEF Line!Next
<1>6. CASE Accept(r)
    BY <1>6, AcceptInv DEF Line!Next
<1>7. CASE PublishDraft(r) \/ Discard(r)
    BY <1>7, RemoveInv DEF Line!Next
<1> QED
    BY <1>1, <1>2, <1>3, <1>4, <1>5, <1>6, <1>7 DEF Writes

LEMMA HNextInv == HInv /\ [HNext]_hvars => HInv' /\ [Line!Next]_(Line!board)
<1> SUFFICES ASSUME HInv, [HNext]_hvars PROVE HInv' /\ (Line!Next \/ UNCHANGED <<line, pos>>)
    BY DEF Line!board
<1>1. CASE UNCHANGED hvars
    <2>1. UNCHANGED <<gen, draft, history, receipts, revisions, active, request, handler,
                      version, lives, effects, reused>>
        BY <1>1 DEF hvars, clients
    <2>2. PathTo(tip)' = PathTo(tip) /\ StateOf(cursor)' = StateOf(cursor)
        BY <2>1 DEF history, PathTo, StateOf
    <2>3. TreeFits' /\ NoHead'
        BY <2>1 DEF HInv, TreeFits, NoHead, history
    <2>4. TypesFit' /\ RequestsFit'
        BY <2>1 DEF HInv, TypesFit, RequestsFit
    <2>5. HeadFits'
        BY <2>1, <2>2 DEF HInv, HeadFits, history, OnTipPath
    <2>6. DraftFits'
        BY <2>1, <2>2 DEF HInv, DraftFits, history, OneBase
    <2>7. UNCHANGED <<line, pos>>
        BY <2>1 DEF history, line, pos, PathTo, StateOf
    <2> QED BY <2>3, <2>4, <2>5, <2>6, <2>7 DEF HInv
<1>2. CASE HNext
    BY <1>2, HNextCases, ClientInv, AnyWriteInv
<1> QED
    BY <1>1, <1>2

\* What the inductive invariant says of paths is what the properties do.
LEMMA HInvImplies == HInv => HistoryInv /\ LineHasOneBase
<1> SUFFICES ASSUME HInv PROVE HistoryInv /\ LineHasOneBase
    OBVIOUS
<1>1. gen \in Nat /\ (gen = 0 \/ gen > 0)
    BY DEF HInv, TypesFit
<1>2. cursor \in Nat /\ (gen > 0 => cursor \in 1 .. Len(nodes))
    BY CursorIsNat
<1>3. Materialized
    BY <1>1, <1>2 DEF Materialized, HInv, NoHead, DraftFits
<1>4. ASSUME gen > 0
      PROVE  /\ OnPath(checkpoint, floor) /\ OnPath(floor, cursor) /\ OnPath(cursor, tip)
             /\ nodes[checkpoint].parent = 0
             /\ nodes[checkpoint].lineage = lineage /\ nodes[tip].lineage = lineage
             /\ checkpoint \in Heads /\ floor \in Heads /\ cursor \in Heads /\ tip \in Heads
    <2> DEFINE p == PathTo(tip)
               q == PathTo(cursor)
               d == Climb(Len(p), UndoLimit)
    <2>1. TreeFits /\ OnTipPath
        BY <1>4 DEF HInv, HeadFits
    <2>2. /\ IsLine(nodes, tip, p) /\ Len(p) \in Nat /\ Len(q) \in Nat /\ d \in 1 .. Len(p)
          /\ Len(q) \in d .. Len(p) /\ Len(q) \in 1 .. Len(p)
          /\ \A j \in 1 .. Len(q) : q[j] = p[j]
          /\ cursor = p[Len(q)]
          /\ \A i \in 1 .. Len(p) : p[i] \in 1 .. Len(nodes)
        BY <2>1, CursorIs
    <2>3. /\ checkpoint = p[1] /\ floor = p[d] /\ tip \in 1 .. Len(nodes)
          /\ nodes[checkpoint].lineage = lineage /\ nodes[tip].lineage = lineage
        BY <2>1 DEF OnTipPath
    <2>4. \A n : PathTo(n) = PathIn(nodes, n)
        BY <2>1, NodesAreATree
    <2> DEFINE f == PathTo(floor)
    <2>5. f = PathIn(nodes, p[d])
        BY <2>3, <2>4
    <2> HIDE DEF p, q, d, f
    <2>6. Len(f) = d /\ \A j \in 1 .. d : f[j] = p[j]
        BY <2>2, <2>5 DEF IsLine
    <2>7. 1 \in 1 .. Len(f) /\ f[1] = checkpoint
        BY <2>2, <2>3, <2>6
    <2>8. d \in 1 .. Len(q) /\ q[d] = floor
        BY <2>2, <2>3
    <2>9. OnPath(checkpoint, floor) /\ OnPath(floor, cursor)
        BY <2>7, <2>8 DEF OnPath, f, q
    <2>10. OnPath(cursor, tip)
        BY <2>2 DEF OnPath, p
    <2>11. nodes[checkpoint].parent = 0
        BY <2>2, <2>3 DEF IsLine
    <2>12. Len(nodes) \in Nat
        BY <2>1, NodesAreATree DEF IsTree
    <2>13. checkpoint \in Heads /\ floor \in Heads /\ cursor \in Heads /\ tip \in Heads
        BY <2>2, <2>3, <2>12 DEF Heads
    <2> QED BY <2>3, <2>9, <2>10, <2>11, <2>13
<1>5. CursorOnTipPath
    BY <1>4 DEF CursorOnTipPath
<1>6. checkpoint \in Heads /\ floor \in Heads /\ cursor \in Heads /\ tip \in Heads
    <2>1. CASE gen > 0
        BY <1>4, <2>1
    <2>2. CASE gen = 0
        <3>1. Len(nodes) \in Nat
            BY NodesAreATree DEF IsTree, HInv
        <3> QED BY <2>2, <3>1 DEF HInv, NoHead, Heads
    <2> QED BY <1>1, <2>1, <2>2
<1>7. HTypeOK
    <2>1. nodes \in Seq([lineage : 1 .. lineage, parent : 0 .. MaxNodes, depth : 0 .. MaxNodes,
                         base : 0 .. MaxRevisions, content : Content])
        <3> DEFINE T == [lineage : 1 .. lineage, parent : 0 .. MaxNodes, depth : 0 .. MaxNodes,
                         base : 0 .. MaxRevisions, content : Content]
        <3>1. nodes \in Seq(Node) /\ \A n \in 1 .. Len(nodes) : nodes[n].lineage \in 1 .. lineage
            BY DEF HInv, TreeFits
        <3>2. \A n \in 1 .. Len(nodes) : nodes[n] \in Node
            BY <3>1
        <3>3. \A n \in 1 .. Len(nodes) : nodes[n] \in T
            BY <3>1, <3>2 DEF Node
        <3> HIDE DEF T
        <3>4. Len(nodes) \in Nat /\ nodes = [n \in 1 .. Len(nodes) |-> nodes[n]]
            <4> HIDE DEF Node
            <4> QED BY <3>1
        <3>5. nodes \in Seq(T)
            BY <3>3, <3>4
        <3> QED BY <3>5 DEF T
    <2>2. lineage \in 1 .. MaxNodes
        <3>1. Len(nodes) \in Nat
            BY NodesAreATree DEF IsTree, HInv
        <3> QED BY <3>1, BoundsAssumption DEF HInv, TreeFits
    <2> QED BY <1>6, <2>1, <2>2 DEF HTypeOK, HInv, TypesFit
<1>8. LineHasOneBase
    <2> SUFFICES ASSUME lives = 1
                 PROVE  \A i \in 1 .. Len(PathTo(tip)) : nodes[PathTo(tip)[i]].base = draft.base
        BY DEF LineHasOneBase
    <2> QED BY DEF HInv, NoHead, DraftFits, OneBase
<1> QED
    BY <1>3, <1>5, <1>7, <1>8 DEF HistoryInv

\* Every write's sender saw the state it acts on.
LEMMA WriteSaw ==
    ASSUME HInv, NEW r \in Request, Writes(r)
    PROVE  /\ request[r].life # lives \/ request[r].seen = version
           /\ \A q \in Request \ {r} : effects'[q] = effects[q]
<1>1. request[r].op # "none" /\ request[r].gen = gen /\ Wrote(r)
    <2>1. CASE Save(r)
        BY <2>1 DEF Save, SaveOver, SaveFirst
    <2>2. CASE Edit(r)
        BY <2>2 DEF Edit, SaveOver, SaveFirst
    <2>3. CASE Undo(r) \/ Redo(r)
        BY <2>3 DEF Undo, Redo, MoveTo
    <2>4. CASE PublishAndContinue(r) \/ Branch(r) \/ Accept(r) \/ PublishDraft(r) \/ Discard(r)
        BY <2>4 DEF PublishAndContinue, Branch, Accept, PublishDraft, Discard
    <2> QED BY <2>1, <2>2, <2>3, <2>4 DEF Writes
<1>2. effects' = [effects EXCEPT ![r] = @ + 1] /\ effects \in [Request -> Nat]
    BY <1>1 DEF Wrote, HInv, TypesFit
<1>3. request[r].life = lives => request[r].seen = version
    BY <1>1 DEF HInv, RequestsFit
<1> QED
    BY <1>2, <1>3

ActsOnWhatWasSeenStep ==
    \A r \in Request : effects'[r] # effects[r] =>
        request[r].life # lives \/ request[r].seen = version

LEMMA HNextActs == HInv /\ [HNext]_hvars => [ActsOnWhatWasSeenStep]_hvars
<1> SUFFICES ASSUME HInv, HNext PROVE ActsOnWhatWasSeenStep
    BY DEF ActsOnWhatWasSeenStep
<1>1. CASE \/ \E r \in Request, op \in Ops, c \in Content, rev \in 0 .. Len(revisions) :
                 (op \in NeedsRevision <=> rev # 0) /\ Send(r, op, c, rev)
           \/ \E r \in Request : ReadDraft(r) \/ EditReused(r)
    <2>1. effects' = effects
        BY <1>1 DEF Send, ReadDraft, EditReused
    <2> QED BY <2>1 DEF ActsOnWhatWasSeenStep
<1>2. CASE \E r \in Request : Writes(r)
    BY <1>2, WriteSaw DEF ActsOnWhatWasSeenStep
<1> QED
    BY <1>1, <1>2, HNextCases

LEMMA HInvAlways == HSpec => []HInv
BY HInitInv, HNextInv, PTL DEF HSpec

\* Draft row, head and nodes fit together in every reachable state, for any
\* number of requests, contents, nodes and revisions and any undo limit: every
\* history command the editor offers is possible.
THEOREM HistoryIsSound == HSpec => []HistoryInv
BY HInvAlways, HInvImplies, PTL

\* Undo and redo never leave the revision that the first draft continues.
THEOREM UndoStaysOnItsRevision == HSpec => []LineHasOneBase
BY HInvAlways, HInvImplies, PTL

\* No request, however late or often it is delivered, overwrites a draft its
\* sender has not seen, as long as the draft lives.
THEOREM NoLostUpdate == HSpec => ActsOnWhatWasSeen
<1>1. HInv /\ [HNext]_hvars => [ActsOnWhatWasSeenStep]_hvars
    BY HNextActs
<1> QED
    BY <1>1, HInvAlways, PTL DEF HSpec, ActsOnWhatWasSeen, ActsOnWhatWasSeenStep

\* The history tables implement the undo line: whatever the requests, what the
\* user sees is a line of states with an undo window of UndoLimit commands.
THEOREM HistoryImplementsUndoLine == HSpec => ImplementsUndoLine
BY HInvAlways, HInitInv, HNextInv, PTL DEF HSpec, ImplementsUndoLine, Line!Spec

(***************************************************************************)
(*                            The job table                                *)
(***************************************************************************)

\* A head row names an existing job of its own key, at its own generation.
HeadRows ==
    \A k \in Key :
        head[k] # NoJob => /\ Exists(head[k])
                           /\ key[head[k]] = k
                           /\ generation[head[k]] = headGen[k]

\* A row that was never inserted is still blank.
BlankRows ==
    \A j \in Job : ~Exists(j) => key[j] = NoKey /\ progress[j] = 0 /\ rows[j] = {}

IInv ==
    /\ TypeOK
    /\ HeadRows
    /\ BlankRows
    /\ ActiveIsCurrent
    /\ HeadIsNewest
    /\ RowsOnlyIfSucceeded
    /\ ProgressMatchesState

-----------------------------------------------------------------------------
\* What the transition table allows: nothing leaves a terminal state, nothing
\* returns to queued, and only a queued job starts.
LEMMA TransitionTable ==
    ASSUME NEW s \in JobStates, NEW target \in AllowedTransitions[s]
    PROVE  /\ s \in ActiveStates
           /\ target \in JobStates \ {"queued"}
           /\ target = "running" => s = "queued"
BY DEF JobStates, AllowedTransitions, ActiveStates, TerminalStates

LEMMA InitInv == JobInit => IInv
<1> SUFFICES ASSUME JobInit PROVE IInv
    OBVIOUS
<1>1. TypeOK
    BY TypeAssumption, MaxProgressAssumption
       DEF JobInit, TypeOK, JobStates, FailureCodes
<1>2. HeadRows /\ BlankRows
    BY DEF JobInit, HeadRows, BlankRows, Exists
<1>3. ActiveIsCurrent /\ HeadIsNewest
    BY DEF JobInit, ActiveIsCurrent, HeadIsNewest, Active, Exists, IsCurrent, ActiveStates
<1>4. RowsOnlyIfSucceeded /\ ProgressMatchesState
    BY MaxProgressAssumption DEF JobInit, RowsOnlyIfSucceeded, ProgressMatchesState
<1> QED
    BY <1>1, <1>2, <1>3, <1>4 DEF IInv

\* An enqueue supersedes the only job of its key that could still be active,
\* because that job is the head.
LEMMA EnqueueKeyedInv ==
    ASSUME IInv, NEW j \in Job, NEW k \in Key, NEW t \in Type, EnqueueKeyed(j, k, t)
    PROVE  IInv'
<1> USE NoKeyAssumption, NoJobAssumption, MaxProgressAssumption
<1>1. TypeOK'
    BY DEF IInv, TypeOK, EnqueueKeyed, JobStates, ActiveStates, TerminalStates
<1>2. HeadRows'
    BY DEF IInv, TypeOK, HeadRows, EnqueueKeyed, Exists
<1>3. BlankRows'
    BY DEF IInv, TypeOK, BlankRows, EnqueueKeyed, Exists
<1>4. ActiveIsCurrent'
    BY DEF IInv, TypeOK, HeadRows, BlankRows, ActiveIsCurrent, EnqueueKeyed,
           SupersededBy, Exists, Active, IsCurrent, ActiveStates
<1>5. HeadIsNewest'
    BY DEF IInv, TypeOK, HeadRows, BlankRows, HeadIsNewest, EnqueueKeyed,
           SupersededBy, Exists
<1>6. RowsOnlyIfSucceeded'
    BY DEF IInv, TypeOK, BlankRows, RowsOnlyIfSucceeded, EnqueueKeyed,
           SupersededBy, Exists, Active, ActiveStates
<1>7. ProgressMatchesState'
    BY DEF IInv, TypeOK, BlankRows, ProgressMatchesState, EnqueueKeyed,
           SupersededBy, Exists, Active, ActiveStates
<1> QED
    BY <1>1, <1>2, <1>3, <1>4, <1>5, <1>6, <1>7 DEF IInv

LEMMA EnqueueUnkeyedInv ==
    ASSUME IInv, NEW j \in Job, NEW t \in Type, EnqueueUnkeyed(j, t)
    PROVE  IInv'
<1> USE NoKeyAssumption, NoJobAssumption, MaxProgressAssumption
<1>1. TypeOK'
    BY DEF IInv, TypeOK, EnqueueUnkeyed, JobStates, ActiveStates
<1>2. HeadRows' /\ BlankRows'
    BY DEF IInv, TypeOK, HeadRows, BlankRows, EnqueueUnkeyed, Exists
<1>3. ActiveIsCurrent' /\ HeadIsNewest'
    BY DEF IInv, TypeOK, BlankRows, ActiveIsCurrent, HeadIsNewest, EnqueueUnkeyed,
           Exists, Active, IsCurrent
<1>4. RowsOnlyIfSucceeded' /\ ProgressMatchesState'
    BY DEF IInv, TypeOK, BlankRows, RowsOnlyIfSucceeded, ProgressMatchesState,
           EnqueueUnkeyed, Exists
<1> QED
    BY <1>1, <1>2, <1>3, <1>4 DEF IInv

\* start, succeed, fail, cancel and supersede all go through _transition.
LEMMA TransitionInv ==
    ASSUME IInv, NEW j \in Job, NEW target, NEW code \in FailureCodes,
           (code # "none") <=> (target = "failed"), Transition(j, target, code)
    PROVE  IInv'
<1> USE MaxProgressAssumption
<1>1. /\ state[j] \in ActiveStates
      /\ target \in JobStates
    BY TransitionTable DEF IInv, TypeOK, Transition, Exists
<1>2. TypeOK'
    BY <1>1 DEF IInv, TypeOK, Transition
<1>3. HeadRows' /\ BlankRows'
    BY <1>1 DEF IInv, TypeOK, HeadRows, BlankRows, Transition, Exists, JobStates,
                ActiveStates, TerminalStates
<1>4. ActiveIsCurrent' /\ HeadIsNewest'
    BY <1>1 DEF IInv, TypeOK, ActiveIsCurrent, HeadIsNewest, Transition, Exists,
                Active, IsCurrent, JobStates, ActiveStates, TerminalStates
<1>5. RowsOnlyIfSucceeded' /\ ProgressMatchesState'
    BY <1>1 DEF IInv, TypeOK, RowsOnlyIfSucceeded, ProgressMatchesState, Transition,
                ActiveStates
<1> QED
    BY <1>2, <1>3, <1>4, <1>5 DEF IInv

LEMMA ReportInv ==
    ASSUME IInv, NEW j \in Job, NEW p \in 0 .. MaxProgress, ReportProgress(j, p)
    PROVE  IInv'
<1> USE MaxProgressAssumption
<1>1. TypeOK'
    BY DEF IInv, TypeOK, ReportProgress
<1>2. HeadRows' /\ BlankRows' /\ ActiveIsCurrent' /\ HeadIsNewest'
    BY DEF IInv, TypeOK, HeadRows, BlankRows, ActiveIsCurrent, HeadIsNewest,
           ReportProgress, Exists, Active, IsCurrent
<1>3. RowsOnlyIfSucceeded' /\ ProgressMatchesState'
    BY DEF IInv, TypeOK, RowsOnlyIfSucceeded, ProgressMatchesState, ReportProgress
<1> QED
    BY <1>1, <1>2, <1>3 DEF IInv

LEMMA PublishJobInv ==
    ASSUME IInv, NEW j \in Job, NEW artifacts \in SUBSET Artifact, Publish(j, artifacts)
    PROVE  IInv'
<1> USE MaxProgressAssumption
<1>1. TypeOK'
    BY DEF IInv, TypeOK, Publish, JobStates, TerminalStates, FailureCodes
<1>2. HeadRows' /\ BlankRows'
    BY DEF IInv, TypeOK, HeadRows, BlankRows, Publish, Exists
<1>3. ActiveIsCurrent' /\ HeadIsNewest'
    BY DEF IInv, TypeOK, ActiveIsCurrent, HeadIsNewest, Publish, Exists, Active,
           IsCurrent, ActiveStates
<1>4. RowsOnlyIfSucceeded' /\ ProgressMatchesState'
    BY DEF IInv, TypeOK, RowsOnlyIfSucceeded, ProgressMatchesState, Publish
<1> QED
    BY <1>1, <1>2, <1>3, <1>4 DEF IInv

LEMMA DeleteRowInv ==
    ASSUME IInv, NEW j \in Job, NEW a \in Artifact, DeleteRow(j, a)
    PROVE  IInv'
<1>1. TypeOK'
    BY DEF IInv, TypeOK, DeleteRow
<1>2. HeadRows' /\ BlankRows' /\ ActiveIsCurrent' /\ HeadIsNewest'
    BY DEF IInv, TypeOK, HeadRows, BlankRows, ActiveIsCurrent, HeadIsNewest,
           DeleteRow, Exists, Active, IsCurrent
<1>3. RowsOnlyIfSucceeded' /\ ProgressMatchesState'
    BY DEF IInv, TypeOK, RowsOnlyIfSucceeded, ProgressMatchesState, DeleteRow
<1> QED
    BY <1>1, <1>2, <1>3 DEF IInv

LEMMA RecoverInv ==
    ASSUME IInv, RecoverInterrupted
    PROVE  IInv'
<1> USE MaxProgressAssumption
<1>1. TypeOK'
    BY DEF IInv, TypeOK, RecoverInterrupted, JobStates, TerminalStates, FailureCodes
<1>2. HeadRows' /\ BlankRows'
    BY NoJobAssumption DEF IInv, TypeOK, HeadRows, BlankRows, RecoverInterrupted, Exists,
                           Active, ActiveStates
<1>3. ActiveIsCurrent' /\ HeadIsNewest'
    BY DEF IInv, TypeOK, ActiveIsCurrent, HeadIsNewest, RecoverInterrupted, Exists,
           Active, IsCurrent, ActiveStates
<1>4. RowsOnlyIfSucceeded' /\ ProgressMatchesState'
    BY DEF IInv, TypeOK, RowsOnlyIfSucceeded, ProgressMatchesState, RecoverInterrupted,
           Active, ActiveStates
<1> QED
    BY <1>1, <1>2, <1>3, <1>4 DEF IInv

LEMMA NextInv == IInv /\ [JobNext]_jobVars => IInv'
<1> SUFFICES ASSUME IInv, [JobNext]_jobVars PROVE IInv'
    OBVIOUS
<1>1. ASSUME NEW j \in Job, NEW k \in Key \cup {NoKey}, NEW t \in Type, Enqueue(j, k, t)
      PROVE  IInv'
    BY <1>1, EnqueueKeyedInv, EnqueueUnkeyedInv DEF Enqueue
<1>2. ASSUME NEW j \in Job, Start(j) \/ Succeed(j) \/ Cancel(j) \/ Supersede(j)
      PROVE  IInv'
    BY <1>2, TransitionInv DEF Start, Succeed, Cancel, Supersede, FailureCodes
<1>3. ASSUME NEW j \in Job, NEW c \in FailureCodes \ {"none"}, Fail(j, c)
      PROVE  IInv'
    BY <1>3, TransitionInv DEF Fail
<1>4. CASE UNCHANGED jobVars
    BY <1>4 DEF jobVars, IInv, TypeOK, HeadRows, BlankRows, ActiveIsCurrent, HeadIsNewest,
                RowsOnlyIfSucceeded, ProgressMatchesState, Exists, Active, IsCurrent
<1> QED
    BY <1>1, <1>2, <1>3, <1>4, ReportInv, PublishJobInv, DeleteRowInv, RecoverInv DEF JobNext

\* The inductive invariant holds in every reachable state of the job table.
THEOREM JobStoreInvariant == JobSpec => []IInv
BY InitInv, NextInv, PTL DEF JobSpec

\* In every reachable state the rows have their types, a live keyed job owns its
\* key's head, so that the head test of _publish_current_result never strands a
\* running job, a key has at most one live job, the head is its newest
\* generation, artifacts belong to succeeded jobs, and progress and failure
\* evidence agree with the state.
THEOREM JobTableInvariant == JobSpec => []TableInv
<1>1. IInv => OneActivePerKey
    BY DEF IInv, TypeOK, ActiveIsCurrent, OneActivePerKey, IsCurrent
<1>2. IInv => TableInv
    BY <1>1 DEF IInv, TableInv
<1> QED
    BY <1>2, JobStoreInvariant, PTL

-----------------------------------------------------------------------------
(* Action properties *)

\* One step never changes a terminal row.
LEMMA StepKeepsTerminal ==
    ASSUME IInv, [JobNext]_jobVars, NEW j \in Job, state[j] \in TerminalStates
    PROVE  /\ state'[j] = state[j]
           /\ progress'[j] = progress[j]
           /\ failure'[j] = failure[j]
<1> DEFINE Same == state'[j] = state[j] /\ progress'[j] = progress[j] /\ failure'[j] = failure[j]
<1>0. state[j] \in JobStates /\ Exists(j) /\ ~Active(j)
    BY DEF TerminalStates, JobStates, ActiveStates, Exists, Active
<1>1. ASSUME NEW i \in Job, NEW k \in Key \cup {NoKey}, NEW t \in Type, Enqueue(i, k, t)
      PROVE  Same
    BY <1>0, <1>1 DEF IInv, TypeOK, Enqueue, EnqueueKeyed, EnqueueUnkeyed, SupersededBy, Exists
<1>2. ASSUME NEW i \in Job, NEW target, NEW code, Transition(i, target, code)
      PROVE  Same
    <2>1. state[i] \in ActiveStates
        BY <1>2, TransitionTable DEF IInv, TypeOK, Transition, Exists
    <2>2. i # j
        BY <2>1, <1>0 DEF Active
    <2> QED
        BY <1>2, <2>2 DEF IInv, TypeOK, Transition
<1>3. ASSUME NEW i \in Job, NEW p \in 0 .. MaxProgress, ReportProgress(i, p)
      PROVE  Same
    BY <1>3, <1>0 DEF IInv, TypeOK, ReportProgress, Active, ActiveStates
<1>4. ASSUME NEW i \in Job, NEW artifacts \in SUBSET Artifact, Publish(i, artifacts)
      PROVE  Same
    BY <1>4, <1>0 DEF IInv, TypeOK, Publish, Active, ActiveStates
<1>5. CASE \E i \in Job, a \in Artifact : DeleteRow(i, a)
    BY <1>5 DEF DeleteRow
<1>6. CASE RecoverInterrupted
    BY <1>6, <1>0 DEF IInv, TypeOK, RecoverInterrupted
<1>7. CASE UNCHANGED jobVars
    BY <1>7 DEF jobVars
<1> QED
    BY <1>1, <1>2, <1>3, <1>4, <1>5, <1>6, <1>7
       DEF JobNext, Start, Succeed, Fail, Cancel, Supersede

\* No operation of any caller changes the outcome of a finished job.
THEOREM OutcomesAreFinal == JobSpec => TerminalIsFinal
<1>1. IInv /\ [JobNext]_jobVars =>
          [\A j \in Job : state[j] \in TerminalStates =>
              /\ state'[j] = state[j]
              /\ progress'[j] = progress[j]
              /\ failure'[j] = failure[j]]_jobVars
    BY StepKeepsTerminal
<1> QED
    BY <1>1, JobStoreInvariant, PTL DEF JobSpec, TerminalIsFinal

\* A step that makes a job succeed finds it running or, by succeed(), active.
LEMMA StepSucceeds ==
    ASSUME IInv, [JobNext]_jobVars, NEW j \in Job,
           state[j] # "succeeded", state'[j] = "succeeded"
    PROVE  state[j] = "running"
<1>1. ASSUME NEW i \in Job, NEW k \in Key \cup {NoKey}, NEW t \in Type, Enqueue(i, k, t)
      PROVE  state[j] = "running"
    BY <1>1 DEF IInv, TypeOK, Enqueue, EnqueueKeyed, EnqueueUnkeyed
<1>2. ASSUME NEW i \in Job, NEW target, NEW code, Transition(i, target, code)
      PROVE  state[j] = "running"
    BY <1>2 DEF IInv, TypeOK, Transition, Exists, AllowedTransitions, JobStates
<1>3. CASE \E i \in Job, p \in 0 .. MaxProgress : ReportProgress(i, p)
    BY <1>3 DEF ReportProgress
<1>4. ASSUME NEW i \in Job, NEW artifacts \in SUBSET Artifact, Publish(i, artifacts)
      PROVE  state[j] = "running"
    BY <1>4 DEF IInv, TypeOK, Publish
<1>5. CASE \E i \in Job, a \in Artifact : DeleteRow(i, a)
    BY <1>5 DEF DeleteRow
<1>6. CASE RecoverInterrupted
    BY <1>6 DEF IInv, TypeOK, RecoverInterrupted
<1>7. CASE UNCHANGED jobVars
    BY <1>7 DEF jobVars
<1> QED
    BY <1>1, <1>2, <1>3, <1>4, <1>5, <1>6, <1>7
       DEF JobNext, Start, Succeed, Fail, Cancel, Supersede

\* A keyed job succeeds only as the newest generation of its key.
THEOREM OnlyNewestPublishes == JobSpec => NewestPublishes
<1>1. ASSUME IInv, [JobNext]_jobVars, NEW j \in Job,
             state[j] # "succeeded", state'[j] = "succeeded", key[j] # NoKey,
             NEW i \in Job, Exists(i), key[i] = key[j]
      PROVE  generation[i] <= generation[j]
    <2>1. headGen[key[j]] = generation[j]
        BY <1>1, StepSucceeds DEF IInv, ActiveIsCurrent, Active, ActiveStates, IsCurrent
    <2> QED
        BY <1>1, <2>1 DEF IInv, TypeOK, HeadIsNewest
<1>2. IInv /\ [JobNext]_jobVars =>
          [\A j \in Job :
              (state[j] # "succeeded" /\ state'[j] = "succeeded" /\ key[j] # NoKey) =>
                  \A i \in Job :
                      Exists(i) /\ key[i] = key[j] => generation[i] <= generation[j]]_jobVars
    BY <1>1
<1> QED
    BY <1>2, JobStoreInvariant, PTL DEF JobSpec, NewestPublishes

-----------------------------------------------------------------------------
(* The job table implements the latest-request-wins board. *)

LEMMA BoardInit == JobInit => Abstract!Init
BY DEF JobInit, Abstract!Init, phase, Active, ActiveStates

\* An enqueue is a request: the only active job of its key is the head.
LEMMA EnqueueIsRequest ==
    ASSUME IInv, NEW j \in Job, NEW k \in Key \cup {NoKey}, NEW t \in Type, Enqueue(j, k, t)
    PROVE  Abstract!Submit(j, k)
<1> USE NoKeyAssumption
<1>1. phase[j] = "new"
    BY DEF IInv, TypeOK, Enqueue, EnqueueKeyed, EnqueueUnkeyed, phase, Active, Exists
<1>2. key' = [key EXCEPT ![j] = k] /\ head' = [q \in Key |-> IF q = k THEN j ELSE head[q]]
    BY DEF IInv, TypeOK, BlankRows, Enqueue, EnqueueKeyed, EnqueueUnkeyed
<1>3. ASSUME NEW i \in Job
      PROVE  phase'[i] = IF i = j THEN "active"
                         ELSE IF k # NoKey /\ key[i] = k /\ phase[i] = "active"
                              THEN "closed"
                         ELSE phase[i]
    <2>1. CASE k = NoKey
        BY <2>1 DEF IInv, TypeOK, Enqueue, EnqueueUnkeyed, phase, Active, ActiveStates
    <2>2. CASE k # NoKey
        <3>1. i \in SupersededBy(k) <=> key[i] = k /\ Active(i)
            BY <2>2, NoJobAssumption DEF IInv, TypeOK, HeadRows, ActiveIsCurrent, IsCurrent, SupersededBy,
                        Exists, Active, ActiveStates
        <3>2. EnqueueKeyed(j, k, t)
            BY <2>2 DEF Enqueue
        <3> QED
            BY <2>2, <3>1, <3>2 DEF IInv, TypeOK, EnqueueKeyed, phase, Active, ActiveStates, Exists
    <2> QED
        BY <2>1, <2>2
<1>4. phase' = [i \in Job |-> IF i = j THEN "active"
                              ELSE IF k # NoKey /\ key[i] = k /\ phase[i] = "active"
                                   THEN "closed"
                              ELSE phase[i]]
    BY <1>3 DEF phase
<1> QED
    BY <1>1, <1>2, <1>4 DEF Abstract!Submit

\* A transition of an active row either stays active, publishes, or closes it.
LEMMA TransitionOnBoard ==
    ASSUME IInv, NEW j \in Job, NEW target, NEW code, Transition(j, target, code)
    PROVE  Abstract!Publish(j) \/ Abstract!Close({j}) \/ UNCHANGED <<phase, key, head>>
<1>1. /\ state[j] \in ActiveStates
      /\ target \in JobStates \ {"queued"}
    BY TransitionTable DEF IInv, TypeOK, Transition, Exists
<1>2. UNCHANGED <<key, head>> /\ state' = [state EXCEPT ![j] = target]
    BY DEF Transition
<1>3. CASE target = "running"
    BY <1>1, <1>2, <1>3 DEF IInv, TypeOK, phase, Active, ActiveStates
<1>4. CASE target = "succeeded"
    <2>1. phase[j] = "active" /\ (key[j] # NoKey => head[key[j]] = j)
        BY <1>1 DEF IInv, TypeOK, ActiveIsCurrent, IsCurrent, Active, phase, Active, ActiveStates
    <2>2. phase' = [phase EXCEPT ![j] = "published"]
        BY <1>1, <1>2, <1>4 DEF IInv, TypeOK, phase, Active, ActiveStates
    <2> QED
        BY <2>1, <2>2, <1>2 DEF Abstract!Publish
<1>5. CASE target \in {"failed", "canceled", "superseded"}
    <2>1. phase' = [i \in Job |-> IF i \in {j} /\ phase[i] = "active" THEN "closed" ELSE phase[i]]
        BY <1>1, <1>2, <1>5 DEF IInv, TypeOK, phase, Active, ActiveStates
    <2> QED
        BY <2>1, <1>2 DEF Abstract!Close
<1> QED
    BY <1>1, <1>3, <1>4, <1>5 DEF JobStates, ActiveStates, TerminalStates

LEMMA BoardStep ==
    IInv /\ [JobNext]_jobVars => [Abstract!Next]_(Abstract!board)
<1> SUFFICES ASSUME IInv, [JobNext]_jobVars
             PROVE  Abstract!Next \/ UNCHANGED <<phase, key, head>>
    BY DEF Abstract!board
<1>1. ASSUME NEW j \in Job, NEW k \in Key \cup {NoKey}, NEW t \in Type, Enqueue(j, k, t)
      PROVE  Abstract!Next
    BY <1>1, EnqueueIsRequest DEF Abstract!Next
<1>2. ASSUME NEW j \in Job, NEW target, NEW code, Transition(j, target, code)
      PROVE  Abstract!Next \/ UNCHANGED <<phase, key, head>>
    BY <1>2, TransitionOnBoard DEF Abstract!Next
<1>3. ASSUME NEW j \in Job, NEW artifacts \in SUBSET Artifact, Publish(j, artifacts)
      PROVE  Abstract!Next
    <2>1. phase[j] = "active" /\ (key[j] # NoKey => head[key[j]] = j)
        BY <1>3 DEF IInv, TypeOK, Publish, IsCurrent, phase, Active, ActiveStates
    <2>2. phase' = [phase EXCEPT ![j] = "published"] /\ UNCHANGED <<key, head>>
        BY <1>3 DEF IInv, TypeOK, Publish, phase, Active, ActiveStates
    <2>3. Abstract!Publish(j)
        BY <2>1, <2>2 DEF Abstract!Publish
    <2> QED
        BY <2>3 DEF Abstract!Next
<1>4. ASSUME RecoverInterrupted
      PROVE  Abstract!Next
    <2>1. phase' = [i \in Job |-> IF i \in Job /\ phase[i] = "active" THEN "closed" ELSE phase[i]]
        BY <1>4 DEF IInv, TypeOK, RecoverInterrupted, phase, Active, ActiveStates
    <2>2. Abstract!Close(Job)
        BY <2>1, <1>4 DEF Abstract!Close, RecoverInterrupted
    <2> QED
        BY <2>2 DEF Abstract!Next
<1>5. ASSUME UNCHANGED <<state, key, head>>
      PROVE  UNCHANGED <<phase, key, head>>
    BY <1>5 DEF phase, Active
<1>6. \/ \E j \in Job, p \in 0 .. MaxProgress : ReportProgress(j, p)
      \/ \E j \in Job, a \in Artifact : DeleteRow(j, a)
      \/ UNCHANGED jobVars
      => UNCHANGED <<state, key, head>>
    BY DEF ReportProgress, DeleteRow, jobVars
<1> QED
    BY <1>1, <1>2, <1>3, <1>4, <1>5, <1>6
       DEF JobNext, Start, Succeed, Fail, Cancel, Supersede

\* Every behaviour of the job table is a behaviour of the board: requests
\* replace each other per key and only the current one publishes.
THEOREM JobStoreImplementsBoard == JobSpec => ImplementsLatestWins
BY BoardInit, BoardStep, JobStoreInvariant, PTL
   DEF JobSpec, ImplementsLatestWins, Abstract!Spec

(***************************************************************************)
(*                          The worker manager                             *)
(***************************************************************************)

\* What the position of a job's thread says of the job's row.
PcFits ==
    \A j \in Job :
        /\ Exists(j) <=> pc[j] \notin {"none", "admitted"}
        /\ pc[j] \in {"enqueued", "pending", "starting"} => state[j] # "running"
        /\ pc[j] \in InBody => state[j] # "queued"
        /\ proc = "down" => pc[j] \in {"none", "gone"}

\* The executor's queue holds every pending job once, and nothing else.
QueueFits ==
    /\ \A j \in Job : pc[j] = "pending" <=> \E n \in 1 .. Len(queue) : queue[n] = j
    /\ \A m, n \in 1 .. Len(queue) : queue[m] = queue[n] => m = n

\* What a submit() replaced is finished business.
ReplacedEnded ==
    \A i \in Job : replaced[i] # NoJob => state[replaced[i]] \in TerminalStates

\* A closing manager has signaled every token.
ClosingSignaled == proc = "closing" => \A j \in registered : canceled[j]

WInv ==
    /\ IInv
    /\ WTypeOK
    /\ PcFits
    /\ QueueFits
    /\ ReplacedEnded
    /\ ClosingSignaled
    /\ TokensMatchPool
    /\ ReplacedIsSignaled
    /\ NoStrandedJob

-----------------------------------------------------------------------------
(* Every step of the manager is a step of the job table. *)

LEMMA TableStep == [WNext]_wvars => [JobNext]_jobVars
<1> SUFFICES ASSUME [WNext]_wvars PROVE [JobNext]_jobVars
    OBVIOUS
<1>1. ASSUME NEW j \in Job, Admit(j)
      PROVE  UNCHANGED jobVars
    BY <1>1 DEF Admit
<1>2. ASSUME NEW j \in Job, NEW k \in Key \cup {NoKey}, NEW t \in Type, SubmitEnqueue(j, k, t)
      PROVE  JobNext
    BY <1>2 DEF SubmitEnqueue, JobNext
<1>3. ASSUME NEW j \in Job, Advance(j)
      PROVE  [JobNext]_jobVars
    <2>1. CASE Register(j) \/ Take(j) \/ StartRefused(j) \/ CheckCanceled(j) \/ WorkEnds(j)
               \/ PublishRaises(j) \/ Forget(j)
        BY <2>1 DEF Register, Take, StartRefused, CheckCanceled, WorkEnds, PublishRaises, Forget
    <2>2. CASE RegisterClosed(j) \/ CancelIfActive(j)
        BY <2>2 DEF RegisterClosed, CancelIfActive, JobNext
    <2>3. CASE StartAccepted(j)
        BY <2>3 DEF StartAccepted, JobNext
    <2>4. CASE \E artifacts \in SUBSET Artifact : PublishResult(j, artifacts)
        BY <2>4 DEF PublishResult, JobNext
    <2>5. CASE \E code \in {"job_error", "worker_crash"} : FailIfActive(j, code)
        BY <2>5 DEF FailIfActive, JobNext, FailureCodes
    <2> QED
        BY <1>3, <2>1, <2>2, <2>3, <2>4, <2>5 DEF Advance
<1>4. ASSUME NEW j \in Job, NEW p \in 0 .. MaxProgress, Report(j, p) \/ ReportRefused(j, p)
      PROVE  [JobNext]_jobVars
    BY <1>4 DEF Report, ReportRefused, JobNext
<1>5. ASSUME NEW j \in Job, CancelSignal(j) \/ CancelPersist(j)
      PROVE  [JobNext]_jobVars
    BY <1>5 DEF CancelSignal, CancelPersist, JobNext
<1>6. CASE ShutdownBegin \/ ShutdownDrain \/ ProcessExits \/ ProcessLost
    BY <1>6 DEF ShutdownBegin, ShutdownDrain, ProcessExits, ProcessLost, LoseMemory
<1>7. CASE Startup \/ ReconcileNow
    BY <1>7 DEF Startup, ReconcileNow, Reconcile, JobNext
<1>8. CASE UNCHANGED wvars
    BY <1>8 DEF wvars
<1> QED
    BY <1>1, <1>2, <1>3, <1>4, <1>5, <1>6, <1>7, <1>8 DEF WNext

\* The manager implements the job table.
THEOREM WorkersImplementJobStore == WSpec => ImplementsJobStore
<1>1. WInit => JobInit
    BY DEF WInit
<1> QED
    BY <1>1, TableStep, PTL DEF WSpec, JobSpec, ImplementsJobStore

-----------------------------------------------------------------------------
(* The inductive invariant. *)

LEMMA WInitInv == WInit => WInv
<1> SUFFICES ASSUME WInit PROVE WInv
    OBVIOUS
<1>1. IInv
    BY InitInv DEF WInit
<1>2. WTypeOK
    BY <1>1, MaxLossesAssumption DEF WInit, WTypeOK, IInv, Positions
<1>3. PcFits /\ NoStrandedJob
    BY DEF WInit, JobInit, PcFits, NoStrandedJob, Exists, Active, ActiveStates, InBody
<1>4. QueueFits /\ ReplacedEnded /\ ClosingSignaled
    BY DEF WInit, QueueFits, ReplacedEnded, ClosingSignaled
<1>5. TokensMatchPool /\ ReplacedIsSignaled
    BY DEF WInit, TokensMatchPool, ReplacedIsSignaled, Executing
<1> QED
    BY <1>1, <1>2, <1>3, <1>4, <1>5 DEF WInv

\* A row that exists is never taken out of the table.
LEMMA StepKeepsRow ==
    ASSUME IInv, [JobNext]_jobVars, NEW j \in Job, Exists(j)
    PROVE  Exists(j)'
<1>1. ASSUME NEW i \in Job, NEW k \in Key \cup {NoKey}, NEW t \in Type, Enqueue(i, k, t)
      PROVE  Exists(j)'
    BY <1>1 DEF IInv, TypeOK, Enqueue, EnqueueKeyed, EnqueueUnkeyed, Exists
<1>2. ASSUME NEW i \in Job, NEW target, NEW code, Transition(i, target, code)
      PROVE  Exists(j)'
    BY <1>2, TransitionTable DEF IInv, TypeOK, Transition, Exists, JobStates, ActiveStates, TerminalStates
<1>3. ASSUME NEW i \in Job, NEW artifacts \in SUBSET Artifact, Publish(i, artifacts)
      PROVE  Exists(j)'
    BY <1>3 DEF IInv, TypeOK, Publish, Exists
<1>4. CASE RecoverInterrupted
    BY <1>4 DEF IInv, TypeOK, RecoverInterrupted, Exists
<1>5. CASE \/ \E i \in Job, p \in 0 .. MaxProgress : ReportProgress(i, p)
           \/ \E i \in Job, a \in Artifact : DeleteRow(i, a)
           \/ UNCHANGED jobVars
    BY <1>5 DEF ReportProgress, DeleteRow, jobVars, Exists
<1> QED
    BY <1>1, <1>2, <1>3, <1>4, <1>5 DEF JobNext, Start, Succeed, Fail, Cancel, Supersede

\* What a pool thread's step at one job has to keep: the thread goes on or
\* finishes, no other row changes, tokens are only ever signaled.
LEMMA ThreadStep ==
    ASSUME WInv, IInv', NEW j \in Job, NEW to \in Executing \ {"starting"},
           [JobNext]_jobVars,
           pc[j] \in Executing, pc' = [pc EXCEPT ![j] = to],
           \A i \in Job : i # j => state'[i] = state[i],
           to \in InBody => state'[j] # "queued",
           to \in InBody => pc[j] \in InBody \/ state[j] \notin TerminalStates,
           to = "finished" => ~Active(j)',
           canceled' \in [Job -> BOOLEAN], \A i \in Job : canceled[i] => canceled'[i],
           UNCHANGED <<proc, registered, queue, replaced, cancelCalls, losses>>
    PROVE  WInv'
<1>1. WTypeOK'
    BY DEF WInv, WTypeOK, IInv, Positions
<1>2. Exists(j) /\ Exists(j)'
    BY StepKeepsRow DEF WInv, PcFits, Executing
<1>3. PcFits'
    <2> SUFFICES ASSUME NEW i \in Job
                 PROVE  /\ Exists(i)' <=> pc'[i] \notin {"none", "admitted"}
                        /\ pc'[i] \in {"enqueued", "pending", "starting"} => state'[i] # "running"
                        /\ pc'[i] \in InBody => state'[i] # "queued"
                        /\ proc' = "down" => pc'[i] \in {"none", "gone"}
        BY DEF PcFits
    <2>1. CASE i = j
        BY <1>2, <2>1 DEF WInv, WTypeOK, PcFits, Executing, InBody
    <2>2. CASE i # j
        BY <2>2 DEF WInv, WTypeOK, PcFits, Exists
    <2> QED
        BY <2>1, <2>2
<1>4. QueueFits'
    BY DEF WInv, WTypeOK, QueueFits, Executing
<1>5. ReplacedEnded'
    BY StepKeepsTerminal DEF WInv, WTypeOK, ReplacedEnded
<1>6. ClosingSignaled'
    BY DEF WInv, WTypeOK, ClosingSignaled
<1>7. TokensMatchPool'
    BY DEF WInv, WTypeOK, TokensMatchPool, Executing
<1>8. ReplacedIsSignaled'
    <2> SUFFICES ASSUME NEW a \in Job, NEW b \in Job,
                        pc'[a] \notin {"none", "admitted", "enqueued"},
                        replaced[a] = b, pc'[b] \in InBody
                 PROVE  canceled'[b]
        BY DEF ReplacedIsSignaled
    <2>1. pc[a] \notin {"none", "admitted", "enqueued"}
        BY DEF WInv, WTypeOK, Executing
    <2>2. state[b] \in TerminalStates
        BY NoJobAssumption DEF WInv, ReplacedEnded
    <2>3. pc[b] \in InBody
        BY <2>2 DEF WInv, WTypeOK
    <2> QED
        BY <2>1, <2>3 DEF WInv, ReplacedIsSignaled
<1>9. NoStrandedJob'
    BY DEF WInv, WTypeOK, NoStrandedJob, Executing, Active
<1> QED
    BY <1>1, <1>3, <1>4, <1>5, <1>6, <1>7, <1>8, <1>9 DEF WInv

\* The steps of _execute between the taking of a job and its forgetting.
LEMMA ExecuteInv ==
    ASSUME WInv, IInv', NEW j \in Job, [JobNext]_jobVars,
           \/ StartAccepted(j) \/ StartRefused(j) \/ CheckCanceled(j) \/ WorkEnds(j)
           \/ PublishRaises(j) \/ CancelIfActive(j)
           \/ \E artifacts \in SUBSET Artifact : PublishResult(j, artifacts)
           \/ \E code \in {"job_error", "worker_crash"} : FailIfActive(j, code)
    PROVE  WInv'
<1> USE DEF Executing, InBody
<1>0. TypeOK /\ state[j] \in JobStates \cup {"absent"} /\ pc \in [Job -> Positions]
      /\ canceled \in [Job -> BOOLEAN] /\ registered \subseteq Job
    BY DEF WInv, WTypeOK, IInv, TypeOK
<1>1. CASE StartAccepted(j)
    <2>1. state[j] \notin TerminalStates /\ state'[j] = "running"
          /\ \A i \in Job : i # j => state'[i] = state[i]
        BY <1>0, <1>1, TransitionTable
           DEF StartAccepted, Start, Transition, TypeOK, Exists, ActiveStates, TerminalStates
    <2> QED
        BY <1>0, <1>1, <2>1, ThreadStep DEF StartAccepted, Goto
<1>2. CASE StartRefused(j)
    <2>1. ~Active(j)
        BY <1>0, <1>2 DEF StartRefused, WInv, PcFits, Active, ActiveStates, AllowedTransitions,
                          JobStates
    <2> QED
        BY <1>0, <1>2, <2>1, ThreadStep
           DEF StartRefused, Goto, Signal, jobVars, Active
<1>3. CASE CheckCanceled(j)
    <2>1. state[j] # "queued"
        BY <1>3 DEF CheckCanceled, WInv, PcFits
    <2>2. ASSUME NEW to \in {"canceling", "working", "publishing"}, Goto(j, to)
          PROVE  WInv'
        BY <1>0, <1>3, <2>1, <2>2, ThreadStep DEF CheckCanceled, Goto, jobVars
    <2> QED
        BY <1>3, <2>2 DEF CheckCanceled
<1>4. CASE WorkEnds(j) \/ PublishRaises(j)
    <2>1. state[j] # "queued"
        BY <1>4 DEF WorkEnds, PublishRaises, WInv, PcFits
    <2>2. ASSUME NEW to \in {"canceling", "failing", "returned"}, Goto(j, to),
                 pc[j] \in {"working", "publishing"}, to = "returned" => pc[j] = "working",
                 UNCHANGED <<jobVars, proc, canceled, registered, queue, replaced, cancelCalls,
                             losses>>
          PROVE  WInv'
        BY <1>0, <2>1, <2>2, ThreadStep DEF Goto, jobVars
    <2> QED
        BY <1>4, <2>2 DEF WorkEnds, PublishRaises
<1>5. CASE CancelIfActive(j)
    <2>1. ~Active(j)' /\ \A i \in Job : i # j => state'[i] = state[i]
        BY <1>0, <1>5 DEF CancelIfActive, Cancel, Transition, TypeOK, Active, ActiveStates, jobVars
    <2> QED
        BY <1>0, <1>5, <2>1, ThreadStep DEF CancelIfActive, Goto
<1>6. ASSUME NEW artifacts \in SUBSET Artifact, PublishResult(j, artifacts)
      PROVE  WInv'
    <2>1. state[j] # "queued"
        BY <1>6 DEF PublishResult, WInv, PcFits
    <2>2. ~Active(j)' /\ \A i \in Job : i # j => state'[i] = state[i]
        BY <1>0, <1>6, <2>1 DEF PublishResult, Publish, TypeOK, Active, ActiveStates, jobVars,
                                WInv, IInv, ActiveIsCurrent
    <2> QED
        BY <1>0, <1>6, <2>2, ThreadStep DEF PublishResult, Goto
<1>7. ASSUME NEW code \in {"job_error", "worker_crash"}, FailIfActive(j, code)
      PROVE  WInv'
    <2>1. ~Active(j)' /\ \A i \in Job : i # j => state'[i] = state[i]
        BY <1>0, <1>7 DEF FailIfActive, Fail, Transition, TypeOK, Active, ActiveStates, jobVars
    <2> QED
        BY <1>0, <1>7, <2>1, ThreadStep DEF FailIfActive, Goto
<1> QED
    BY <1>1, <1>2, <1>3, <1>4, <1>5, <1>6, <1>7

LEMMA ReportWInv ==
    ASSUME WInv, IInv', NEW j \in Job, NEW p \in 0 .. MaxProgress, [JobNext]_jobVars,
           Report(j, p) \/ ReportRefused(j, p)
    PROVE  WInv'
<1> USE DEF Executing, InBody
<1>1. CASE Report(j, p)
    <2>1. UNCHANGED <<state, manager>>
        BY <1>1 DEF Report, ReportProgress
    <2>2. UNCHANGED <<state, proc, pc, queue, registered, canceled, replaced, cancelCalls, losses>>
        BY <2>1 DEF manager
    <2>3. WTypeOK'
        BY <2>2 DEF WInv, WTypeOK, IInv
    <2>4. PcFits' /\ QueueFits'
        BY <2>2 DEF WInv, PcFits, QueueFits, Exists
    <2>5. ReplacedEnded' /\ ClosingSignaled' /\ TokensMatchPool'
        BY <2>2 DEF WInv, ReplacedEnded, ClosingSignaled, TokensMatchPool
    <2>6. ReplacedIsSignaled' /\ NoStrandedJob'
        BY <2>2 DEF WInv, ReplacedIsSignaled, NoStrandedJob, Active
    <2> QED
        BY <1>1, <2>3, <2>4, <2>5, <2>6 DEF WInv
<1>2. CASE ReportRefused(j, p)
    BY <1>2, ThreadStep DEF ReportRefused, Goto, Signal, jobVars, WInv, WTypeOK
<1> QED
    BY <1>1, <1>2

\* A thread is admitted: no row, queue or token changes.
LEMMA AdmitInv ==
    ASSUME WInv, IInv', NEW j \in Job, Admit(j)
    PROVE  WInv'
<1> USE DEF Admit, Goto, WInv, WTypeOK
<1>1. WTypeOK'
    BY DEF IInv, Positions
<1>2. PcFits' /\ NoStrandedJob'
    BY DEF PcFits, NoStrandedJob, Exists, Active, ActiveStates, jobVars, InBody
<1>3. QueueFits' /\ ReplacedEnded' /\ ClosingSignaled'
    BY DEF QueueFits, ReplacedEnded, ClosingSignaled, jobVars
<1>4. TokensMatchPool' /\ ReplacedIsSignaled'
    BY DEF TokensMatchPool, ReplacedIsSignaled, Executing, InBody
<1> QED
    BY <1>1, <1>2, <1>3, <1>4

\* The job that an enqueue replaces is terminal from then on.
LEMMA SubmitEnqueueInv ==
    ASSUME WInv, IInv', NEW j \in Job, NEW k \in Key \cup {NoKey}, NEW t \in Type,
           [JobNext]_jobVars, SubmitEnqueue(j, k, t)
    PROVE  WInv'
<1>0. /\ TypeOK /\ TypeOK' /\ pc \in [Job -> Positions] /\ pc[j] = "admitted"
      /\ pc' = [pc EXCEPT ![j] = "enqueued"] /\ ~Exists(j) /\ Enqueue(j, k, t)
      /\ replaced \in [Job -> Job \cup {NoJob}]
    BY DEF WInv, WTypeOK, IInv, PcFits, SubmitEnqueue, Goto
<1>1. WTypeOK'
    BY <1>0 DEF WInv, WTypeOK, SubmitEnqueue, Positions, TypeOK
<1>2. ASSUME NEW i \in Job, i # j
      PROVE  state'[i] = state[i] \/ (state'[i] = "superseded" /\ Active(i))
    BY <1>0, <1>2 DEF TypeOK, Enqueue, EnqueueKeyed, EnqueueUnkeyed, SupersededBy
<1>3. state'[j] = "queued"
    BY <1>0 DEF TypeOK, Enqueue, EnqueueKeyed, EnqueueUnkeyed
<1>4. PcFits' /\ NoStrandedJob'
    BY <1>0, <1>2, <1>3
       DEF WInv, PcFits, NoStrandedJob, SubmitEnqueue, Exists, Active, ActiveStates, InBody
<1>5. QueueFits' /\ ClosingSignaled' /\ TokensMatchPool'
    BY <1>0 DEF WInv, QueueFits, ClosingSignaled, TokensMatchPool, SubmitEnqueue, Executing
<1>6. ReplacedEnded'
    <2> SUFFICES ASSUME NEW i \in Job, replaced'[i] # NoJob
                 PROVE  state'[replaced'[i]] \in TerminalStates
        BY DEF ReplacedEnded
    <2>1. CASE i = j
        <3>1. k # NoKey /\ SupersededBy(k) # {} /\ replaced'[j] = head[k]
            BY <1>0, <2>1 DEF SubmitEnqueue
        <3>2. head[k] \in Job /\ Active(head[k])
            BY <3>1 DEF SupersededBy
        <3>3. state'[head[k]] = "superseded"
            BY <1>0, <3>1, <3>2 DEF TypeOK, Enqueue, EnqueueKeyed, SupersededBy, Exists, Active,
                                    ActiveStates
        <3> QED
            BY <2>1, <3>1, <3>3 DEF TerminalStates
    <2>2. CASE i # j
        BY <1>0, <2>2, StepKeepsTerminal DEF WInv, ReplacedEnded, SubmitEnqueue
    <2> QED
        BY <2>1, <2>2
<1>7. ReplacedIsSignaled'
    BY <1>0 DEF WInv, ReplacedIsSignaled, SubmitEnqueue, InBody
<1> QED
    BY <1>1, <1>4, <1>5, <1>6, <1>7 DEF WInv

LEMMA RegisterInv ==
    ASSUME WInv, IInv', NEW j \in Job, Register(j)
    PROVE  WInv'
<1>0. /\ pc \in [Job -> Positions] /\ canceled \in [Job -> BOOLEAN] /\ queue \in Seq(Job)
      /\ registered \subseteq Job /\ pc[j] = "enqueued"
      /\ pc' = [pc EXCEPT ![j] = "pending"] /\ queue' = Append(queue, j)
    BY DEF WInv, WTypeOK, Register, Goto
<1>1. WTypeOK'
    BY <1>0 DEF WInv, WTypeOK, Register, Signal, Positions, IInv
<1>2. PcFits' /\ NoStrandedJob'
    BY <1>0 DEF WInv, PcFits, NoStrandedJob, Register, Exists, Active, ActiveStates, jobVars, InBody
<1>3. QueueFits'
    <2>1. \A n \in 1 .. Len(queue) : queue[n] # j
        BY <1>0 DEF WInv, QueueFits
    <2>2. Len(queue') = Len(queue) + 1 /\ queue'[Len(queue) + 1] = j
          /\ \A n \in 1 .. Len(queue) : queue'[n] = queue[n]
        BY <1>0
    <2>3. \A m, n \in 1 .. Len(queue') : queue'[m] = queue'[n] => m = n
        BY <1>0, <2>1, <2>2 DEF WInv, QueueFits
    <2>4. ASSUME NEW i \in Job
          PROVE  pc'[i] = "pending" <=> \E n \in 1 .. Len(queue') : queue'[n] = i
        BY <1>0, <2>2 DEF WInv, QueueFits
    <2> QED
        BY <2>3, <2>4 DEF QueueFits
<1>4. ReplacedEnded' /\ ClosingSignaled' /\ TokensMatchPool'
    BY <1>0 DEF WInv, ReplacedEnded, ClosingSignaled, TokensMatchPool, Register, jobVars, Executing
<1>5. ReplacedIsSignaled'
    <2> SUFFICES ASSUME NEW a \in Job, NEW b \in Job,
                        pc'[a] \notin {"none", "admitted", "enqueued"},
                        replaced[a] = b, pc'[b] \in InBody
                 PROVE  canceled'[b]
        BY DEF ReplacedIsSignaled, Register
    <2>1. pc[b] \in InBody /\ b \in registered
        BY <1>0 DEF WInv, TokensMatchPool, InBody, Executing
    <2>2. CASE a = j
        BY <1>0, <2>1, <2>2 DEF Register, Signal
    <2>3. CASE a # j
        BY <1>0, <2>1, <2>3 DEF WInv, ReplacedIsSignaled, Register, Signal
    <2> QED
        BY <2>2, <2>3
<1> QED
    BY <1>1, <1>2, <1>3, <1>4, <1>5 DEF WInv

\* A job refused by a closing manager: its replaced job was signaled when the
\* manager closed.
LEMMA RegisterClosedInv ==
    ASSUME WInv, IInv', NEW j \in Job, [JobNext]_jobVars, RegisterClosed(j)
    PROVE  WInv'
<1>0. /\ TypeOK /\ pc \in [Job -> Positions] /\ canceled \in [Job -> BOOLEAN]
      /\ pc[j] = "enqueued" /\ pc' = [pc EXCEPT ![j] = "gone"] /\ proc = "closing"
    BY DEF WInv, WTypeOK, RegisterClosed, Goto
<1>1. WTypeOK'
    BY <1>0 DEF WInv, WTypeOK, RegisterClosed, Signal, Positions, IInv
<1>2. ~Active(j)' /\ Exists(j)' /\ \A i \in Job : i # j => state'[i] = state[i]
    BY <1>0, StepKeepsRow
       DEF WInv, PcFits, RegisterClosed, Cancel, Transition, TypeOK, Active, ActiveStates, jobVars
<1>3. PcFits' /\ NoStrandedJob'
    BY <1>0, <1>2 DEF WInv, PcFits, NoStrandedJob, RegisterClosed, Exists, InBody
<1>4. QueueFits' /\ TokensMatchPool'
    BY <1>0 DEF WInv, QueueFits, TokensMatchPool, RegisterClosed, Executing
<1>5. ClosingSignaled'
    BY <1>0 DEF WInv, WTypeOK, ClosingSignaled, RegisterClosed, Signal
<1>6. ReplacedEnded'
    BY StepKeepsTerminal DEF WInv, WTypeOK, ReplacedEnded, RegisterClosed
<1>7. ReplacedIsSignaled'
    BY <1>0 DEF WInv, ReplacedIsSignaled, ClosingSignaled, TokensMatchPool, RegisterClosed, Signal,
                InBody, Executing
<1> QED
    BY <1>1, <1>3, <1>4, <1>5, <1>6, <1>7 DEF WInv

LEMMA TakeInv ==
    ASSUME WInv, IInv', NEW j \in Job, Take(j)
    PROVE  WInv'
<1>0. /\ pc \in [Job -> Positions] /\ queue \in Seq(Job) /\ queue # <<>> /\ j = Head(queue)
      /\ pc' = [pc EXCEPT ![j] = "starting"] /\ queue' = Tail(queue)
      /\ registered \subseteq Job
    BY DEF WInv, WTypeOK, Take, Goto
<1>1. /\ Len(queue) \in Nat /\ Len(queue) > 0 /\ queue[1] = j
      /\ Len(queue') = Len(queue) - 1
      /\ \A n \in 1 .. Len(queue') : queue'[n] = queue[n + 1]
    BY <1>0
<1>2. pc[j] = "pending"
    BY <1>1 DEF WInv, QueueFits
<1>3. WTypeOK'
    BY <1>0 DEF WInv, WTypeOK, Take, Positions, Executing, IInv
<1>4. PcFits' /\ NoStrandedJob'
    BY <1>0, <1>2 DEF WInv, PcFits, NoStrandedJob, Take, Exists, Active, jobVars, InBody
<1>5. QueueFits'
    <2>1. ASSUME NEW n \in 1 .. Len(queue), n # 1
          PROVE  n - 1 \in 1 .. Len(queue') /\ queue'[n - 1] = queue[n]
        BY <1>1, <2>1
    <2>2. \A n \in 1 .. Len(queue') : n + 1 \in 1 .. Len(queue)
        BY <1>1
    <2>3. \A m, n \in 1 .. Len(queue') : queue'[m] = queue'[n] => m = n
        BY <1>1, <2>2 DEF WInv, QueueFits
    <2>4. ASSUME NEW n \in 1 .. Len(queue')
          PROVE  queue'[n] # j
        BY <1>1, <2>2, <2>4 DEF WInv, QueueFits
    <2>5. ASSUME NEW i \in Job
          PROVE  pc'[i] = "pending" <=> \E n \in 1 .. Len(queue') : queue'[n] = i
        <3>1. CASE i = j
            BY <1>0, <2>4, <3>1
        <3>2. CASE i # j /\ pc[i] = "pending"
            <4>1. PICK n \in 1 .. Len(queue) : queue[n] = i
                BY <3>2 DEF WInv, QueueFits
            <4> QED
                BY <1>0, <1>1, <2>1, <3>2, <4>1
        <3>3. CASE i # j /\ pc[i] # "pending"
            BY <1>0, <1>1, <2>2, <3>3 DEF WInv, QueueFits
        <3> QED
            BY <3>1, <3>2, <3>3
    <2> QED
        BY <2>3, <2>5 DEF QueueFits
<1>6. ReplacedEnded' /\ ClosingSignaled' /\ TokensMatchPool' /\ ReplacedIsSignaled'
    BY <1>0, <1>2 DEF WInv, ReplacedEnded, ClosingSignaled, TokensMatchPool, ReplacedIsSignaled,
                      Take, jobVars, Executing, InBody
<1> QED
    BY <1>3, <1>4, <1>5, <1>6 DEF WInv

LEMMA ForgetInv ==
    ASSUME WInv, IInv', NEW j \in Job, Forget(j)
    PROVE  WInv'
<1>0. /\ pc \in [Job -> Positions] /\ pc[j] = "finished" /\ pc' = [pc EXCEPT ![j] = "gone"]
      /\ registered \subseteq Job /\ registered' = registered \ {j} /\ UNCHANGED jobVars
    BY DEF WInv, WTypeOK, Forget, Goto
<1>1. WTypeOK'
    BY <1>0 DEF WInv, WTypeOK, Forget, Positions, IInv
<1>2. PcFits' /\ NoStrandedJob'
    BY <1>0 DEF WInv, PcFits, NoStrandedJob, Forget, Exists, Active, jobVars, InBody
<1>3. QueueFits' /\ ReplacedEnded' /\ ClosingSignaled'
    BY <1>0 DEF WInv, QueueFits, ReplacedEnded, ClosingSignaled, Forget, jobVars
<1>4. TokensMatchPool' /\ ReplacedIsSignaled'
    BY <1>0 DEF WInv, TokensMatchPool, ReplacedIsSignaled, Forget, Executing, InBody
<1> QED
    BY <1>1, <1>2, <1>3, <1>4 DEF WInv

\* Both sections of cancel().
LEMMA CancelInv ==
    ASSUME WInv, IInv', NEW j \in Job, [JobNext]_jobVars, CancelSignal(j) \/ CancelPersist(j)
    PROVE  WInv'
<1>1. CASE CancelSignal(j)
    BY <1>1 DEF CancelSignal, Signal, WInv, WTypeOK, IInv, PcFits, QueueFits, ReplacedEnded,
                ClosingSignaled, TokensMatchPool, ReplacedIsSignaled, NoStrandedJob, jobVars,
                Exists, Active
<1>2. CASE CancelPersist(j)
    <2>1. TypeOK /\ \A i \in Job : \/ state'[i] = state[i]
                                   \/ state'[i] = "canceled" /\ Active(i)
        BY <1>2 DEF CancelPersist, Cancel, Transition, TypeOK, jobVars, WInv, IInv
    <2>2. WTypeOK' /\ QueueFits' /\ ClosingSignaled' /\ TokensMatchPool' /\ ReplacedIsSignaled'
        BY <1>2 DEF CancelPersist, WInv, WTypeOK, IInv, QueueFits, ClosingSignaled,
                    TokensMatchPool, ReplacedIsSignaled
    <2>3. PcFits' /\ NoStrandedJob'
        BY <1>2, <2>1 DEF CancelPersist, WInv, PcFits, NoStrandedJob, Exists, Active, ActiveStates
    <2>4. ReplacedEnded'
        BY <1>2, StepKeepsTerminal DEF CancelPersist, WInv, WTypeOK, ReplacedEnded
    <2> QED
        BY <2>2, <2>3, <2>4 DEF WInv
<1> QED
    BY <1>1, <1>2

LEMMA ShutdownInv ==
    ASSUME WInv, IInv', ShutdownBegin \/ ShutdownDrain
    PROVE  WInv'
<1>1. CASE ShutdownBegin
    BY <1>1 DEF ShutdownBegin, Signal, WInv, WTypeOK, IInv, PcFits, QueueFits, ReplacedEnded,
                ClosingSignaled, TokensMatchPool, ReplacedIsSignaled, NoStrandedJob, jobVars,
                Exists, Active
<1>2. CASE ShutdownDrain
    <2>0. /\ pc \in [Job -> Positions] /\ registered \subseteq Job /\ proc = "closing"
          /\ pc' = [j \in Job |-> IF pc[j] = "pending" THEN "gone" ELSE pc[j]]
          /\ UNCHANGED jobVars
        BY <1>2 DEF ShutdownDrain, WInv, WTypeOK
    <2>1. WTypeOK'
        BY <1>2, <2>0 DEF ShutdownDrain, WInv, WTypeOK, Positions, IInv
    <2>2. PcFits' /\ NoStrandedJob'
        BY <1>2, <2>0 DEF ShutdownDrain, WInv, PcFits, NoStrandedJob, Exists, jobVars, InBody
    <2>3. QueueFits'
        BY <1>2, <2>0 DEF ShutdownDrain, QueueFits
    <2>4. ReplacedEnded' /\ ClosingSignaled' /\ TokensMatchPool'
        BY <1>2, <2>0 DEF ShutdownDrain, WInv, ReplacedEnded, ClosingSignaled, TokensMatchPool,
                          Executing, jobVars
    <2>5. ReplacedIsSignaled'
        BY <1>2, <2>0 DEF ShutdownDrain, WInv, ReplacedIsSignaled, InBody
    <2> QED
        BY <2>1, <2>2, <2>3, <2>4, <2>5 DEF WInv
<1> QED
    BY <1>1, <1>2

\* A process that ends or is lost takes threads, queue and tokens with it.
LEMMA LoseMemoryInv ==
    ASSUME WInv, IInv', ProcessExits \/ ProcessLost
    PROVE  WInv'
<1>0. LoseMemory /\ losses' \in 0 .. MaxLosses
    BY MaxLossesAssumption DEF ProcessExits, ProcessLost, WInv, WTypeOK
<1>1. WTypeOK'
    BY <1>0 DEF LoseMemory, WInv, WTypeOK, Positions, Executing, IInv
<1>2. PcFits' /\ NoStrandedJob'
    BY <1>0 DEF LoseMemory, PcFits, NoStrandedJob, Exists, jobVars, InBody
<1>3. QueueFits' /\ ReplacedEnded' /\ ClosingSignaled'
    BY <1>0 DEF LoseMemory, QueueFits, ReplacedEnded, ClosingSignaled
<1>4. TokensMatchPool' /\ ReplacedIsSignaled'
    BY <1>0 DEF LoseMemory, TokensMatchPool, ReplacedIsSignaled, Executing, InBody
<1> QED
    BY <1>1, <1>2, <1>3, <1>4 DEF WInv

\* A reconciliation leaves no row that could be stranded.
LEMMA RecoveryInv ==
    ASSUME WInv, IInv', [JobNext]_jobVars, Startup \/ ReconcileNow
    PROVE  WInv'
<1>1. \A j \in Job : ~Active(j)' /\ (Exists(j)' <=> Exists(j))
    BY DEF Startup, ReconcileNow, Reconcile, RecoverInterrupted, WInv, IInv, TypeOK, Active,
           ActiveStates, Exists
<1>2. UNCHANGED <<pc, canceled, registered, queue, replaced, cancelCalls, losses>>
      /\ proc' = "up"
    BY DEF Startup, ReconcileNow, manager
<1>3. WTypeOK' /\ QueueFits' /\ ClosingSignaled' /\ TokensMatchPool' /\ ReplacedIsSignaled'
    BY <1>2 DEF WInv, WTypeOK, IInv, QueueFits, ClosingSignaled, TokensMatchPool,
                ReplacedIsSignaled
<1>4. PcFits' /\ NoStrandedJob'
    BY <1>1, <1>2 DEF WInv, PcFits, NoStrandedJob, Active, ActiveStates
<1>5. ReplacedEnded'
    BY <1>2, StepKeepsTerminal DEF WInv, WTypeOK, ReplacedEnded
<1> QED
    BY <1>3, <1>4, <1>5 DEF WInv

LEMMA WNextInv == WInv /\ [WNext]_wvars => WInv'
<1> SUFFICES ASSUME WInv, [WNext]_wvars PROVE WInv'
    OBVIOUS
<1>0. [JobNext]_jobVars /\ IInv'
    BY TableStep, NextInv DEF WInv
<1>1. ASSUME NEW j \in Job, Advance(j)
      PROVE  WInv'
    BY <1>0, <1>1, ExecuteInv, RegisterInv, RegisterClosedInv, TakeInv, ForgetInv DEF Advance
<1>2. CASE UNCHANGED wvars
    BY <1>0, <1>2 DEF wvars, manager, jobVars, WInv, WTypeOK, IInv, PcFits, QueueFits,
                      ReplacedEnded, ClosingSignaled, TokensMatchPool, ReplacedIsSignaled,
                      NoStrandedJob, Exists, Active
<1> QED
    BY <1>0, <1>1, <1>2, AdmitInv, SubmitEnqueueInv, ReportWInv, CancelInv, ShutdownInv,
       LoseMemoryInv, RecoveryInv DEF WNext

\* The inductive invariant holds in every reachable state of the manager.
THEOREM WorkersInvariant == WSpec => []WInv
BY WInitInv, WNextInv, PTL DEF WSpec

\* The manager's memory has its shape, _tokens holds exactly the jobs of the
\* pool, and a replaced job's token is signaled once submit() has returned.
THEOREM ManagerInvariant == WSpec => []ManagerInv
<1>1. WInv => ManagerInv
    BY DEF WInv, ManagerInv
<1> QED
    BY <1>1, WorkersInvariant, PTL

\* While the process is up, a live row is in the hands of one of its threads,
\* for any number of jobs and threads.
THEOREM NoJobIsStranded == WSpec => []NoStrandedJob
<1>1. WInv => NoStrandedJob
    BY DEF WInv
<1> QED
    BY <1>1, WorkersInvariant, PTL

\* What the job table promises holds for the manager's threads: a superseded
\* generation never publishes.
THEOREM WorkersPublishNewest == WSpec => NewestPublishes
BY WorkersImplementJobStore, OnlyNewestPublishes, PTL DEF ImplementsJobStore

=============================================================================
