-------------------------- MODULE CalibrationProofs -------------------------
(***************************************************************************)
(* Calibration for any number of drafts, requests, runs, kinds and sizes.  *)
(* Requests read a draft, its members and the evidence in separate steps;  *)
(* the inductive invariant says what each of them still knows while the    *)
(* draft's generation is the one it read.  Runs never change, so whatever  *)
(* a catalog was derived from stays what it was.                           *)
(***************************************************************************)
EXTENDS Calibration, FiniteSetTheorems, TLAPS

Photos == SUBSET (0 .. MaxOrdinal)
Evidence == [catalog : versions, content : Contents \cup {None}, photos : Photos]
Row == [catalog : versions, content : Contents \cup {None}, photos : Photos,
        generation : 1 .. MaxGeneration + 1, attested : Evidence \cup {None},
        run : RunId \cup {None}]

Saving == [pc : {"save"}, draft : Draft, generation : 1 .. MaxGeneration, new : Row]
Reading == [pc : {"members"}, op : {"attest", "finalize"}, draft : Draft, row : Row]
Corrupted == [pc : {"corrupt"}, draft : Draft]
Judging == [pc : {"attest", "evidence"}, draft : Draft, row : Row, candidate : Evidence]
Sealing == [pc : {"seal"}, draft : Draft, row : Row, candidate : Evidence, evidence : Evidence]
Accepting == [pc : {"accept"}, proposal : DOMAIN proposals]
InProgress == {Idle} \cup Saving \cup Reading \cup Corrupted \cup Judging \cup Sealing \cup Accepting

(* Catalogs *)
Separates(v, k) ==
    \A i \in v.value[k].evidence :
        /\ i \in DOMAIN runs
        /\ \A s \in Sizes : runs[i].content.outcome[k][s] =
              IF k = Hole THEN IF s <= v.value[k].size THEN "fail" ELSE "pass"
                          ELSE IF s < v.value[k].size THEN "fail" ELSE "pass"

OneProcess(v) ==
    \A k, l \in Kind : \A i \in v.value[k].evidence, j \in v.value[l].evidence :
        runs[i].content.process = runs[j].content.process

CatalogsFit ==
    /\ head \in versions /\ edges \subseteq versions \X versions
    /\ versions = {Bundled} \cup {p \in DOMAIN proposals : proposals[p] = "accepted"}
    /\ proposals \in [DOMAIN proposals -> {"pending", "accepted", "rejected"}]
    /\ \A p \in DOMAIN proposals : /\ p.runs # {} /\ p.runs \subseteq DOMAIN runs
                                   /\ \A k \in Kind : Separates(p, k)
    /\ \A v \in versions : OneProcess(v)
    /\ PromotionsFormALine

(* Sealed runs *)
Numbered(photos) == \A p \in photos : \A n \in 0 .. p : n \in photos

RunsFit ==
    /\ runs \in [DOMAIN runs -> Evidence]
    /\ \A i \in DOMAIN runs : /\ i \in RunId /\ runs[i].content \in Contents
                              /\ runs[i].content.run = i /\ Numbered(runs[i].photos)

(* Drafts *)
AttestedFits(d) == drafts[d].attested \in {None, Candidate(drafts[d], drafts[d].photos)}

SealedFits(d) ==
    drafts[d].run # None =>
        /\ drafts[d].run \in DOMAIN runs
        /\ runs[drafts[d].run] = drafts[d].attested
        /\ runs[drafts[d].run] = Candidate(drafts[d], drafts[d].photos)

DraftsFit ==
    /\ drafts \in [Draft -> Row \cup {NoDraft}]
    /\ \A d \in Draft : Exists(d) => AttestedFits(d) /\ SealedFits(d)

(* Requests: what a request knows while the draft is of the generation that it read. *)
SaveFits(q) ==
    request[q].pc = "save" =>
        /\ request[q].new.generation = request[q].generation
        /\ request[q].new.run = None

Unmoved(q) == drafts[request[q].draft].generation = request[q].row.generation

RowFits(q) ==
    request[q].pc \in {"members", "attest", "evidence", "seal"} =>
        /\ request[q].row.run = None /\ request[q].row.generation <= MaxGeneration
        /\ request[q].row.generation <= drafts[request[q].draft].generation
        /\ Unmoved(q) => drafts[request[q].draft] = request[q].row

CandidateFits(q) ==
    request[q].pc \in {"attest", "evidence", "seal"} /\ Unmoved(q) =>
        request[q].candidate = Candidate(request[q].row, request[q].row.photos)

SealFits(q) ==
    request[q].pc = "seal" =>
        /\ Complete(request[q].evidence)
        /\ Unmoved(q) => request[q].evidence = request[q].candidate

AcceptFits(q) ==
    request[q].pc = "accept" =>
        \E p \in DOMAIN proposals : p = request[q].proposal /\ Revalidate(p)

RequestFits(q) ==
    SaveFits(q) /\ RowFits(q) /\ CandidateFits(q) /\ SealFits(q) /\ AcceptFits(q)

RequestsFit ==
    /\ request \in [Request -> InProgress]
    /\ \A q \in Request : RequestFits(q)

CInv == CatalogsFit /\ RunsFit /\ DraftsFit /\ RequestsFit

-----------------------------------------------------------------------------
(* Operators *)

\* Runs are kept when more are sealed.
RunsGrow == DOMAIN runs \subseteq DOMAIN runs' /\ \A i \in DOMAIN runs : runs'[i] = runs[i]

LEMMA OneOf ==
    ASSUME NEW S, IsFiniteSet(S), Cardinality(S) = 1, NEW x \in S, NEW y \in S
    PROVE  x = y
BY FS_Singleton

LEMMA CompleteNumbers ==
    ASSUME NEW e, e.photos \in Photos, Complete(e)
    PROVE  e.content # None /\ Numbered(e.photos)
<1>1. IsFiniteSet(0 .. MaxOrdinal)
    BY BoundAssumption, FS_Interval
<1>2. IsFiniteSet(e.photos)
    BY <1>1, FS_Subset DEF Photos
<1>3. Cardinality(e.photos) \in Nat
    BY <1>2, FS_CardinalityType
<1> QED
    BY <1>3 DEF Complete, Numbered

\* An outcome that all runs agree on is that of each of them.
LEMMA AgreedOutcome ==
    ASSUME RunsFit, NEW S \in SUBSET DOMAIN runs, NEW k \in Kind, NEW s \in Sizes, NEW i \in S,
           Cardinality(Outcomes(S, k, s)) = 1, "uncertain" \notin Outcomes(S, k, s)
    PROVE  /\ Outcomes(S, k, s) = {runs[i].content.outcome[k][s]}
           /\ runs[i].content.outcome[k][s] \in {"pass", "fail"}
<1>1. \A j \in S : runs[j].content.outcome[k][s] \in {"pass", "fail", "uncertain"}
    BY ContentAssumption DEF RunsFit
<1>2. IsFiniteSet({"pass", "fail", "uncertain"})
    <2>1. IsFiniteSet({"pass"})
        BY FS_Singleton
    <2>2. IsFiniteSet({"pass"} \cup {"fail"})
        BY <2>1, FS_AddElement
    <2>3. IsFiniteSet(({"pass"} \cup {"fail"}) \cup {"uncertain"})
        BY <2>2, FS_AddElement
    <2>4. ({"pass"} \cup {"fail"}) \cup {"uncertain"} = {"pass", "fail", "uncertain"}
        OBVIOUS
    <2> QED
        BY <2>3, <2>4
<1>3. Outcomes(S, k, s) \subseteq {"pass", "fail", "uncertain"}
    BY <1>1 DEF Outcomes
<1>4. IsFiniteSet(Outcomes(S, k, s))
    BY <1>2, <1>3, FS_Subset, SMTT(40)
<1>5. runs[i].content.outcome[k][s] \in Outcomes(S, k, s)
    BY DEF Outcomes
<1>6. \A x \in Outcomes(S, k, s) : x = runs[i].content.outcome[k][s]
    BY <1>4, <1>5, OneOf
<1> QED
    BY <1>1, <1>5, <1>6

LEMMA Extrema ==
    ASSUME NEW N \in SUBSET Sizes, N # {}
    PROVE  /\ Least(N) \in N /\ \A m \in N : Least(N) <= m
           /\ Greatest(N) \in N /\ \A m \in N : Greatest(N) >= m
<1>1. \E n \in N : \A m \in N : n <= m
    BY SizeAssumption
<1>2. \E n \in N : \A m \in N : n >= m
    BY SizeAssumption
<1> QED
    BY <1>1, <1>2 DEF Least, Greatest

\* The size that an analysis finds separates what failed from what printed in
\* every run that was analysed.
LEMMA TransitionSeparates ==
    ASSUME RunsFit, NEW S \in SUBSET DOMAIN runs, NEW k \in Kind, Transition(S, k) # None,
           NEW i \in S, NEW s \in Sizes
    PROVE  runs[i].content.outcome[k][s] =
              IF k = Hole THEN IF s <= Transition(S, k) THEN "fail" ELSE "pass"
                          ELSE IF s < Transition(S, k) THEN "fail" ELSE "pass"
<1> DEFINE F == Failed(S, k)
           P == Passed(S, k)
<1>1. /\ Cardinality(Outcomes(S, k, s)) = 1 /\ "uncertain" \notin Outcomes(S, k, s)
      /\ F # {} /\ P # {} /\ Greatest(F) < Least(P)
      /\ Transition(S, k) = IF k = Hole THEN Greatest(F) ELSE Least(P)
    BY DEF Transition
<1>2. F \in SUBSET Sizes /\ P \in SUBSET Sizes
    BY DEF Failed, Passed
<1>3. runs[i].content.outcome[k][s] \in {"pass", "fail"}
      /\ Outcomes(S, k, s) = {runs[i].content.outcome[k][s]}
    BY <1>1, AgreedOutcome
<1>4. runs[i].content.outcome[k][s] = "fail" => s \in F
    BY <1>3 DEF Failed
<1>5. runs[i].content.outcome[k][s] = "pass" => s \in P
    BY <1>3 DEF Passed
<1> HIDE DEF F, P
<1>6. /\ Greatest(F) \in F /\ (s \in F => s <= Greatest(F))
      /\ Least(P) \in P /\ (s \in P => Least(P) <= s)
    BY <1>1, <1>2, Extrema, SizeAssumption
<1>7. s \in Nat /\ Greatest(F) \in Nat /\ Least(P) \in Nat
    BY <1>2, <1>6, SizeAssumption
<1> QED
    BY <1>1, <1>3, <1>4, <1>5, <1>6, <1>7

LEMMA ScopeHasOneProcess ==
    ASSUME RunsFit, NEW S \in SUBSET DOMAIN runs, NEW base, InScope(S, base),
           NEW i \in S, NEW j \in S
    PROVE  runs[i].content.process = runs[j].content.process
<1> DEFINE T == {runs[n].content.process : n \in S}
<1>1. T \subseteq Process
    BY ContentAssumption DEF RunsFit
<1>2. IsFiniteSet(T)
    BY <1>1, ProcessAssumption, FS_Subset
<1>3. Cardinality(T) = 1
    BY DEF InScope
<1>4. runs[i].content.process \in T /\ runs[j].content.process \in T
    OBVIOUS
<1> HIDE DEF T
<1> QED
    BY <1>2, <1>3, <1>4, OneOf

\* A pc says which record a request is.
LEMMA RequestIs ==
    ASSUME RequestsFit, NEW q \in Request
    PROVE  /\ request[q].pc = "save" => request[q] \in Saving
           /\ request[q].pc = "members" => request[q] \in Reading
           /\ request[q].pc \in {"attest", "evidence"} => request[q] \in Judging
           /\ request[q].pc = "seal" => request[q] \in Sealing
<1>1. request[q] \in InProgress
    BY DEF RequestsFit
<1> QED
    BY <1>1 DEF InProgress, Idle, Saving, Reading, Corrupted, Judging, Sealing, Accepting

-----------------------------------------------------------------------------
(* What is kept when other parts of the state grow *)

LEMMA RevalidatedStays ==
    ASSUME CatalogsFit, RunsGrow, NEW p \in DOMAIN proposals, Revalidate(p)
    PROVE  Revalidate(p)'
<1>1. \A i \in p.runs : i \in DOMAIN runs /\ runs'[i] = runs[i]
    BY DEF CatalogsFit, RunsGrow
<1>2. \A k \in Kind : \A i \in p.value[k].evidence : i \in DOMAIN runs /\ runs'[i] = runs[i]
    BY DEF CatalogsFit, RunsGrow, Separates
<1>3. {runs'[i].content.process : i \in p.runs} = {runs[i].content.process : i \in p.runs}
    BY <1>1
<1>4. InScope(p.runs, p.base)'
    BY <1>1, <1>3 DEF Revalidate, InScope
<1> QED
    BY <1>2, <1>3, <1>4 DEF Revalidate

LEMMA CatalogsKept ==
    ASSUME CatalogsFit, RunsGrow, UNCHANGED <<versions, head, edges, proposals>>
    PROVE  CatalogsFit'
<1>1. ASSUME NEW v, NEW k \in Kind, Separates(v, k)
      PROVE  Separates(v, k)'
    BY <1>1 DEF Separates, RunsGrow
<1>2. ASSUME NEW v \in versions
      PROVE  OneProcess(v)'
    <2>1. \A k \in Kind : v.value[k].evidence \subseteq DOMAIN runs
        BY DEF CatalogsFit, Separates, Bundled
    <2> QED
        BY <2>1 DEF CatalogsFit, OneProcess, RunsGrow
<1>3. PromotionsFormALine'
    BY DEF CatalogsFit, PromotionsFormALine
<1> QED
    BY <1>1, <1>2, <1>3 DEF CatalogsFit, RunsGrow

LEMMA RunsKept ==
    ASSUME RunsFit, versions \subseteq versions', UNCHANGED runs
    PROVE  RunsFit'
BY DEF RunsFit, Evidence

LEMMA DraftsKept ==
    ASSUME DraftsFit, versions \subseteq versions', RunsGrow, UNCHANGED drafts
    PROVE  DraftsFit'
<1>1. Evidence \subseteq Evidence'
    BY DEF Evidence
<1>2. Row \subseteq Row'
    BY <1>1 DEF Row
<1>3. drafts' \in [Draft -> Row' \cup {NoDraft}]
    BY <1>2 DEF DraftsFit
<1> QED
    BY <1>3 DEF DraftsFit, RunsGrow, Exists, AttestedFits, SealedFits

\* Drafts change by a new generation only.
DraftsMove ==
    \A d \in Draft : \/ drafts'[d] = drafts[d]
                     \/ drafts[d] = NoDraft
                     \/ drafts'[d].generation = drafts[d].generation + 1

\* A request that does nothing keeps what it knows, whatever others do.
LEMMA OtherRequest ==
    ASSUME CInv, NEW q \in Request, request'[q] = request[q],
           DraftsMove, RunsGrow, DOMAIN proposals \subseteq DOMAIN proposals'
    PROVE  RequestFits(q)'
<1> USE DEF CInv, RequestsFit
<1>1. SaveFits(q)'
    BY DEF RequestFits, SaveFits
<1>2. ASSUME request[q].pc \in {"members", "attest", "evidence", "seal"}
      PROVE  RowFits(q)' /\ (Unmoved(q)' => Unmoved(q))
    <2>1. request[q].draft \in Draft /\ request[q].row \in Row
        BY <1>2, RequestIs DEF Reading, Judging, Sealing
    <2>2. request[q].row.generation \in Nat \ {0}
        BY <2>1, BoundAssumption DEF Row
    <2>3. PICK d \in Draft : d = request[q].draft
        BY <2>1
    <2>4. request[q].row.generation <= drafts[d].generation
        BY <1>2, <2>3 DEF RequestFits, RowFits
    <2>5. drafts[d] \in Row
        BY <2>2, <2>4 DEF DraftsFit, NoDraft
    <2>6. drafts[d] # NoDraft /\ drafts[d].generation \in Nat
        BY <2>5, BoundAssumption DEF Row, NoDraft
    <2>7. CASE drafts'[d] = drafts[d]
        BY <1>2, <2>3, <2>7 DEF RequestFits, RowFits, Unmoved
    <2>8. CASE drafts'[d].generation = drafts[d].generation + 1
        BY <1>2, <2>2, <2>3, <2>4, <2>6, <2>8 DEF RequestFits, RowFits, Unmoved
    <2> QED
        BY <2>6, <2>7, <2>8 DEF DraftsMove
<1>3. RowFits(q)'
    BY <1>2 DEF RowFits
<1>4. CandidateFits(q)' /\ SealFits(q)'
    BY <1>2 DEF RequestFits, CandidateFits, SealFits, Complete
<1>5. AcceptFits(q)'
    BY RevalidatedStays DEF RequestFits, AcceptFits
<1> QED
    BY <1>1, <1>3, <1>4, <1>5 DEF RequestFits

\* The requests after a step of one of them, or of none.
LEMMA RequestsKept ==
    ASSUME CInv, DraftsMove, RunsGrow, versions \subseteq versions',
           DOMAIN proposals \subseteq DOMAIN proposals', UNCHANGED request
    PROVE  RequestsFit'
<1> USE DEF CInv
<1>1. Evidence \subseteq Evidence'
    BY DEF Evidence
<1>2. Row \subseteq Row'
    BY <1>1 DEF Row
<1>3. InProgress \subseteq InProgress'
    BY <1>1, <1>2 DEF InProgress, Saving, Reading, Corrupted, Judging, Sealing, Accepting
<1>4. request' \in [Request -> InProgress']
    BY <1>3 DEF RequestsFit
<1>5. \A q \in Request : RequestFits(q)'
    BY OtherRequest
<1> QED
    BY <1>4, <1>5 DEF RequestsFit

LEMMA RequestsStep ==
    ASSUME CInv, DraftsMove, RunsGrow, versions \subseteq versions',
           DOMAIN proposals \subseteq DOMAIN proposals',
           NEW q \in Request, NEW r \in InProgress', request' = [request EXCEPT ![q] = r],
           RequestFits(q)'
    PROVE  RequestsFit'
<1> USE DEF CInv
<1>1. Evidence \subseteq Evidence'
    BY DEF Evidence
<1>2. Row \subseteq Row'
    BY <1>1 DEF Row
<1>3. InProgress \subseteq InProgress'
    BY <1>1, <1>2 DEF InProgress, Saving, Reading, Corrupted, Judging, Sealing, Accepting
<1>4. request' \in [Request -> InProgress']
    BY <1>3 DEF RequestsFit
<1>5. \A o \in Request \ {q} : request'[o] = request[o]
    BY DEF RequestsFit
<1>6. \A o \in Request \ {q} : RequestFits(o)'
    BY <1>5, OtherRequest
<1> QED
    BY <1>4, <1>6 DEF RequestsFit

\* The end of a request.
LEMMA RequestsEnd ==
    ASSUME CInv, DraftsMove, RunsGrow, versions \subseteq versions',
           DOMAIN proposals \subseteq DOMAIN proposals', NEW q \in Request, End(q)
    PROVE  RequestsFit'
<1>1. request' = [request EXCEPT ![q] = Idle] /\ request'[q].pc = "idle"
    BY DEF End, CInv, RequestsFit, Idle
<1>2. Idle \in InProgress'
    BY DEF InProgress, Idle
<1>3. RequestFits(q)'
    BY <1>1 DEF RequestFits, SaveFits, RowFits, CandidateFits, SealFits, AcceptFits
<1> QED
    BY <1>1, <1>2, <1>3, RequestsStep

\* What a request that read a row knows of its draft.
LEMMA RowRead ==
    ASSUME CInv, NEW q \in Request, request[q].pc \in {"members", "attest", "evidence", "seal"}
    PROVE  /\ request[q].draft \in Draft /\ request[q].row \in Row
           /\ request[q].row.run = None /\ request[q].row.generation \in 1 .. MaxGeneration
           /\ drafts[request[q].draft] \in Row /\ Exists(request[q].draft)
           /\ drafts[request[q].draft].generation \in Nat
<1> USE DEF CInv, RequestsFit
<1>1. request[q].draft \in Draft /\ request[q].row \in Row
    BY RequestIs DEF Reading, Judging, Sealing
<1>2. request[q].row.run = None /\ request[q].row.generation \in 1 .. MaxGeneration
    BY <1>1, BoundAssumption DEF RequestFits, RowFits, Row
<1>3. PICK d \in Draft : d = request[q].draft
    BY <1>1
<1>4. request[q].row.generation <= drafts[d].generation
    BY <1>3 DEF RequestFits, RowFits
<1>5. drafts[d] \in Row
    BY <1>2, <1>4, BoundAssumption DEF DraftsFit, NoDraft
<1>6. drafts[d] # NoDraft /\ drafts[d].generation \in Nat
    BY <1>5, BoundAssumption DEF Row, NoDraft
<1> QED
    BY <1>1, <1>2, <1>3, <1>5, <1>6 DEF Exists

\* One draft is written.
LEMMA DraftWritten ==
    ASSUME DraftsFit, versions \subseteq versions', RunsGrow,
           NEW d \in Draft, NEW new \in Row', drafts' = [drafts EXCEPT ![d] = new],
           AttestedFits(d)', SealedFits(d)'
    PROVE  DraftsFit'
<1>1. Evidence \subseteq Evidence'
    BY DEF Evidence
<1>2. Row \subseteq Row'
    BY <1>1 DEF Row
<1>3. drafts' \in [Draft -> Row' \cup {NoDraft}]
    BY <1>2 DEF DraftsFit
<1>4. \A o \in Draft \ {d} : drafts'[o] = drafts[o]
    BY DEF DraftsFit
<1>5. \A o \in Draft \ {d} : Exists(o)' => AttestedFits(o)' /\ SealedFits(o)'
    BY <1>4 DEF DraftsFit, RunsGrow, Exists, AttestedFits, SealedFits
<1> QED
    BY <1>3, <1>5 DEF DraftsFit

\* A run is sealed.
LEMMA RunSealed ==
    ASSUME RunsFit, NEW e \in Evidence, e.content \in Contents, Numbered(e.photos),
           Sealable(e), Seal(e), UNCHANGED versions
    PROVE  /\ RunsFit' /\ RunsGrow
           /\ e.content.run \in DOMAIN runs' /\ runs'[e.content.run] = e
<1>1. e.content.run \in RunId
    BY ContentAssumption
<1>2. /\ DOMAIN runs' = DOMAIN runs \cup {e.content.run}
      /\ \A i \in DOMAIN runs' : runs'[i] = IF i = e.content.run THEN e ELSE runs[i]
    BY DEF Seal, Added
<1>3. RunsGrow
    BY <1>2 DEF RunsGrow, Sealable
<1>4. Evidence' = Evidence
    BY DEF Evidence
<1>5. runs' \in [DOMAIN runs' -> Evidence']
    <2>1. runs' = [i \in DOMAIN runs' |-> runs'[i]]
        BY DEF Seal, Added
    <2>2. \A i \in DOMAIN runs' : runs'[i] \in Evidence'
        BY <1>2, <1>4 DEF RunsFit
    <2> QED
        BY <2>1, <2>2
<1>6. ASSUME NEW i \in DOMAIN runs'
      PROVE  /\ i \in RunId /\ runs'[i].content \in Contents
             /\ runs'[i].content.run = i /\ Numbered(runs'[i].photos)
    BY <1>1, <1>2 DEF RunsFit
<1> QED
    BY <1>2, <1>3, <1>5, <1>6 DEF RunsFit

-----------------------------------------------------------------------------
(* Every step keeps the invariant *)

LEMMA CInitInv == Init => CInv
<1> SUFFICES ASSUME Init PROVE CInv
    OBVIOUS
<1> USE DEF Init
<1>1. DOMAIN proposals = {} /\ DOMAIN runs = {}
    OBVIOUS
<1>2. PromotionsFormALine
    BY <1>1 DEF PromotionsFormALine
<1>3. \A v \in versions : OneProcess(v)
    BY DEF OneProcess, Bundled
<1>4. CatalogsFit
    BY <1>1, <1>2, <1>3 DEF CatalogsFit
<1>5. RunsFit
    BY <1>1 DEF RunsFit
<1>6. DraftsFit
    BY DEF DraftsFit, Exists
<1>7. RequestsFit
    BY DEF RequestsFit, InProgress, Idle, RequestFits, SaveFits, RowFits, CandidateFits,
           SealFits, AcceptFits
<1> QED
    BY <1>4, <1>5, <1>6, <1>7 DEF CInv

LEMMA CreateInv ==
    ASSUME CInv, NEW d \in Draft, Create(d)
    PROVE  CInv'
<1> DEFINE new == [catalog |-> head, content |-> None, photos |-> {},
                   generation |-> 1, attested |-> None, run |-> None]
<1> USE DEF CInv
<1>1. /\ drafts[d] = NoDraft /\ drafts' = [drafts EXCEPT ![d] = new] /\ drafts'[d] = new
      /\ UNCHANGED <<versions, head, edges, proposals, runs, request>>
    BY DEF Create, Exists, DraftsFit
<1>2. RunsGrow
    BY <1>1 DEF RunsGrow
<1>3. DraftsMove
    BY <1>1 DEF DraftsMove, DraftsFit
<1>4. new \in Row'
    <2>1. 1 \in 1 .. MaxGeneration + 1 /\ {} \in Photos
        BY BoundAssumption DEF Photos
    <2> QED
        BY <1>1, <2>1 DEF Row, CatalogsFit
<1>5. AttestedFits(d)' /\ SealedFits(d)'
    BY <1>1 DEF AttestedFits, SealedFits
<1> HIDE DEF new
<1>6. DraftsFit'
    BY <1>1, <1>2, <1>4, <1>5, DraftWritten
<1> QED
    BY <1>1, <1>2, <1>3, <1>6, CatalogsKept, RunsKept, RequestsKept

\* A step that only moves a request keeps the rest.
LEMMA OnlyARequest ==
    ASSUME CInv, RequestsFit', UNCHANGED <<versions, head, edges, proposals, runs, drafts>>
    PROVE  CInv'
BY CatalogsKept, RunsKept, DraftsKept DEF CInv, RunsGrow

LEMMA RequestMoves ==
    ASSUME CInv, UNCHANGED <<versions, head, edges, proposals, runs, drafts>>,
           NEW q \in Request, NEW r \in InProgress, request' = [request EXCEPT ![q] = r],
           RequestFits(q)'
    PROVE  CInv'
<1>1. RunsGrow /\ DraftsMove
    BY DEF RunsGrow, DraftsMove
<1>2. InProgress' = InProgress
    BY DEF InProgress, Saving, Reading, Corrupted, Judging, Sealing, Accepting, Row, Evidence
<1>3. RequestsFit'
    BY <1>1, <1>2, RequestsStep
<1> QED
    BY <1>3, OnlyARequest

LEMMA RequestStops ==
    ASSUME CInv, UNCHANGED <<versions, head, edges, proposals, runs, drafts>>,
           NEW q \in Request, End(q)
    PROVE  CInv'
<1>1. RunsGrow /\ DraftsMove
    BY DEF RunsGrow, DraftsMove
<1> QED
    BY <1>1, RequestsEnd, OnlyARequest

LEMMA EditInv ==
    ASSUME CInv, NEW q \in Request, NEW d \in Draft, Edit(q, d)
    PROVE  CInv'
<1> USE DEF CInv
<1>1. drafts[d] \in Row /\ drafts[d].run = None /\ drafts[d].generation \in 1 .. MaxGeneration
    BY BoundAssumption DEF Edit, Exists, DraftsFit, Row
<1>2. PICK new \in {[drafts[d] EXCEPT !.content = c] : c \in Contents}
                  \cup {[drafts[d] EXCEPT !.photos = @ \cup {n}] : n \in 0 .. MaxOrdinal}
                  \cup {[drafts[d] EXCEPT !.photos = Remove(@, n)] : n \in drafts[d].photos} :
          Begin(q, [pc |-> "save", draft |-> d, generation |-> drafts[d].generation, new |-> new])
    BY DEF Edit
<1>3. new \in Row /\ new.generation = drafts[d].generation /\ new.run = None
    <2>1. ASSUME NEW n \in drafts[d].photos
          PROVE  Remove(drafts[d].photos, n) \in Photos
        BY <1>1, BoundAssumption DEF Remove, Photos, Row
    <2>2. \A n \in 0 .. MaxOrdinal : drafts[d].photos \cup {n} \in Photos
        BY <1>1 DEF Row, Photos
    <2>3. CASE new \in {[drafts[d] EXCEPT !.content = c] : c \in Contents}
        BY <1>1, <2>3 DEF Row
    <2>4. CASE new \in {[drafts[d] EXCEPT !.photos = @ \cup {n}] : n \in 0 .. MaxOrdinal}
        BY <1>1, <2>2, <2>4 DEF Row
    <2>5. CASE new \in {[drafts[d] EXCEPT !.photos = Remove(@, n)] : n \in drafts[d].photos}
        BY <1>1, <2>1, <2>5 DEF Row
    <2> QED
        BY <1>2, <2>3, <2>4, <2>5
<1> DEFINE r == [pc |-> "save", draft |-> d, generation |-> drafts[d].generation, new |-> new]
<1>4. r \in InProgress
    BY <1>1, <1>3 DEF InProgress, Saving
<1>5. request' = [request EXCEPT ![q] = r] /\ request'[q] = r
    BY <1>2 DEF Begin, RequestsFit
<1>6. RequestFits(q)'
    BY <1>3, <1>5 DEF RequestFits, SaveFits, RowFits, CandidateFits, SealFits, AcceptFits
<1> HIDE DEF r
<1> QED
    BY <1>4, <1>5, <1>6, RequestMoves DEF Edit

LEMMA SavedRow ==
    ASSUME NEW d, NEW row \in Row, row.generation \in 1 .. MaxGeneration
    PROVE  /\ Cleared(row) \in Row /\ Cleared(row).generation = row.generation
           /\ Cleared(row).attested = None /\ Cleared(row).run = row.run
           /\ Advance(d, row) \in Row /\ Advance(d, row).generation = row.generation + 1
           /\ Advance(d, row).attested = row.attested /\ Advance(d, row).run = row.run
           /\ Candidate(Advance(d, row), Advance(d, row).photos) = Candidate(row, row.photos)
<1>1. row.generation + 1 \in 1 .. MaxGeneration + 1
    BY BoundAssumption
<1>2. None \in Evidence \cup {None}
    OBVIOUS
<1> QED
    BY <1>1, <1>2 DEF Row, Cleared, Advance, Candidate

LEMMA SaveInv ==
    ASSUME CInv, NEW q \in Request, Save(q)
    PROVE  CInv'
<1> USE DEF CInv
<1>1. request[q] \in Saving /\ request[q].pc = "save"
    BY RequestIs DEF Save
<1>2. PICK d \in Draft, g \in 1 .. MaxGeneration, row \in Row :
          /\ d = request[q].draft /\ g = request[q].generation /\ row = request[q].new
          /\ row.run = None /\ row.generation = g
    BY <1>1 DEF Saving, RequestsFit, RequestFits, SaveFits
<1>3. RunsGrow
    BY DEF Save, RunsGrow
<1> DEFINE new == Advance(d, Cleared(row))
<1>4. CASE ~Mutable(d, g)
    BY <1>2, <1>4, RequestStops DEF Save
<1>5. CASE Mutable(d, g)
    <2>1. drafts' = [drafts EXCEPT ![d] = new] /\ drafts'[d] = new
        BY <1>2, <1>5 DEF Save, DraftsFit
    <2>2. new \in Row /\ new.attested = None /\ new.run = None /\ new.generation = g + 1
        BY <1>2, SavedRow
    <2> HIDE DEF new
    <2>3. new \in Row'
        BY <2>2 DEF Save, Row, Evidence
    <2>4. drafts'[d].generation = drafts[d].generation + 1
        BY <1>5, <2>1, <2>2 DEF Mutable
    <2>5. AttestedFits(d)' /\ SealedFits(d)'
        BY <2>1, <2>2 DEF AttestedFits, SealedFits
    <2>6. DraftsMove
        BY <2>1, <2>4 DEF DraftsMove, DraftsFit
    <2>7. DraftsFit'
        BY <1>3, <2>1, <2>3, <2>5, DraftWritten DEF Save
    <2> QED
        BY <1>3, <2>6, <2>7, CatalogsKept, RunsKept, RequestsEnd DEF Save
<1> QED
    BY <1>4, <1>5

LEMMA ReadRowInv ==
    ASSUME CInv, NEW q \in Request, NEW d \in Draft, ReadRow(q, d)
    PROVE  CInv'
<1> USE DEF CInv
<1>1. drafts[d] \in Row /\ drafts[d].run = None /\ drafts[d].generation \in 1 .. MaxGeneration
    BY BoundAssumption DEF ReadRow, Exists, DraftsFit, Row
<1>2. PICK op \in {"attest", "finalize"} :
          Begin(q, [pc |-> "members", op |-> op, draft |-> d, row |-> drafts[d]])
    BY DEF ReadRow
<1> DEFINE r == [pc |-> "members", op |-> op, draft |-> d, row |-> drafts[d]]
<1>3. r \in InProgress
    BY <1>1 DEF InProgress, Reading
<1>4. request' = [request EXCEPT ![q] = r] /\ request'[q] = r
    BY <1>2 DEF Begin, RequestsFit
<1>5. UNCHANGED <<versions, head, edges, proposals, runs, drafts>>
    BY DEF ReadRow
<1>6. RequestFits(q)'
    BY <1>1, <1>4, <1>5, BoundAssumption
       DEF RequestFits, SaveFits, RowFits, CandidateFits, SealFits, AcceptFits
<1> HIDE DEF r
<1> QED
    BY <1>3, <1>4, <1>5, <1>6, RequestMoves

LEMMA ReadMembersInv ==
    ASSUME CInv, NEW q \in Request, ReadMembers(q)
    PROVE  CInv'
<1> DEFINE row == request[q].row
           photos == drafts[request[q].draft].photos
           c == Candidate(row, photos)
<1> USE DEF CInv
<1>1. request[q] \in Reading /\ request[q].pc = "members"
    BY RequestIs DEF ReadMembers
<1>2. PICK d \in Draft : d = request[q].draft
    BY <1>1 DEF Reading
<1>3. /\ row \in Row /\ row.run = None /\ row.generation \in 1 .. MaxGeneration
      /\ drafts[d] \in Row /\ drafts[d].generation \in Nat
      /\ row.generation <= drafts[d].generation
      /\ Unmoved(q) => drafts[d] = row
    BY <1>1, <1>2, RowRead DEF RequestsFit, RequestFits, RowFits
<1>4. UNCHANGED <<versions, head, edges, proposals, runs, drafts>>
    BY DEF ReadMembers
<1>5. CASE End(q)
    BY <1>4, <1>5, RequestStops
<1>6. CASE Continue(q, [pc |-> "corrupt", draft |-> d])
    <2> DEFINE r == [pc |-> "corrupt", draft |-> d]
    <2>1. request' = [request EXCEPT ![q] = r] /\ request'[q].pc = "corrupt"
        BY <1>6 DEF Continue, RequestsFit
    <2>2. RequestFits(q)'
        BY <2>1 DEF RequestFits, SaveFits, RowFits, CandidateFits, SealFits, AcceptFits
    <2>3. r \in InProgress
        BY DEF InProgress, Corrupted
    <2> HIDE DEF r
    <2> QED
        BY <1>4, <2>1, <2>2, <2>3, RequestMoves
<1>7. ASSUME NEW pc \in {"attest", "evidence"},
             Continue(q, [pc |-> pc, draft |-> d, row |-> row, candidate |-> c])
      PROVE  CInv'
    <2> DEFINE r == [pc |-> pc, draft |-> d, row |-> row, candidate |-> c]
    <2>1. c \in Evidence
        BY <1>2, <1>3 DEF Candidate, Row, Evidence
    <2>2. r \in InProgress
        BY <1>3, <2>1 DEF InProgress, Judging
    <2>3. /\ request' = [request EXCEPT ![q] = r] /\ request'[q].pc = pc /\ request'[q].draft = d
          /\ request'[q].row = row /\ request'[q].candidate = c
        BY <1>7 DEF Continue, RequestsFit
    <2>4. drafts[d].generation = row.generation => c = Candidate(row, row.photos)
        BY <1>2, <1>3 DEF Unmoved
    <2>5. RequestFits(q)'
        <3>1. RowFits(q)'
            BY <1>2, <1>3, <1>4, <2>3, BoundAssumption DEF RowFits, Unmoved
        <3>2. CandidateFits(q)'
            BY <1>4, <2>3, <2>4 DEF CandidateFits, Unmoved
        <3> QED
            BY <2>3, <3>1, <3>2 DEF RequestFits, SaveFits, SealFits, AcceptFits
    <2> HIDE DEF r
    <2> QED
        BY <1>4, <2>2, <2>3, <2>5, RequestMoves
<1> QED
    BY <1>2, <1>5, <1>6, <1>7 DEF ReadMembers

LEMMA AttestInv ==
    ASSUME CInv, NEW q \in Request, Attest(q)
    PROVE  CInv'
<1> USE DEF CInv
<1>1. request[q] \in Judging /\ request[q].pc = "attest"
    BY RequestIs DEF Attest
<1>2. PICK d \in Draft, row \in Row, c \in Evidence :
          d = request[q].draft /\ row = request[q].row /\ c = request[q].candidate
    BY <1>1 DEF Judging
<1>3. /\ row.run = None /\ row.generation \in 1 .. MaxGeneration
      /\ drafts[d].generation = row.generation =>
            drafts[d] = row /\ c = Candidate(row, row.photos)
    BY <1>1, <1>2, RowRead DEF RequestsFit, RequestFits, RowFits, CandidateFits, Unmoved
<1>4. RunsGrow
    BY DEF Attest, RunsGrow
<1> DEFINE mid == [row EXCEPT !.attested = c]
           new == Advance(d, mid)
<1>5. CASE ~Mutable(d, row.generation)
    BY <1>2, <1>5, RequestStops DEF Attest
<1>6. CASE Mutable(d, row.generation)
    <2>1. drafts[d] = row /\ c = Candidate(row, row.photos)
        BY <1>3, <1>6 DEF Mutable
    <2>2. drafts' = [drafts EXCEPT ![d] = new] /\ drafts'[d] = new
        <3>1. drafts' = [drafts EXCEPT ![d].attested = c, ![d].generation = @ + 1]
            BY <1>2, <1>6 DEF Attest
        <3> QED
            BY <2>1, <3>1 DEF Advance, DraftsFit, Row
    <2>3. mid \in Row
        BY DEF Row
    <2>4. /\ mid.attested = c /\ mid.run = None /\ mid.generation = row.generation
          /\ Candidate(mid, mid.photos) = Candidate(row, row.photos)
        BY <1>3 DEF Row, Candidate
    <2> HIDE DEF mid
    <2>5. /\ new \in Row /\ new.attested = c /\ new.run = None
          /\ new.generation = row.generation + 1 /\ Candidate(new, new.photos) = c
        BY <1>3, <2>1, <2>3, <2>4, SavedRow
    <2> HIDE DEF new
    <2>6. new \in Row'
        BY <2>5 DEF Attest, Row, Evidence
    <2>7. AttestedFits(d)' /\ SealedFits(d)'
        BY <2>2, <2>5 DEF AttestedFits, SealedFits, Candidate
    <2>8. DraftsMove
        BY <2>1, <2>2, <2>5 DEF DraftsMove, DraftsFit
    <2>9. DraftsFit'
        BY <1>4, <2>2, <2>6, <2>7, DraftWritten DEF Attest
    <2> QED
        BY <1>4, <2>8, <2>9, CatalogsKept, RunsKept, RequestsEnd DEF Attest
<1> QED
    BY <1>5, <1>6

LEMMA ReadEvidenceInv ==
    ASSUME CInv, NEW q \in Request, ReadEvidence(q)
    PROVE  CInv'
<1> USE DEF CInv
<1>1. request[q] \in Judging /\ request[q].pc = "evidence"
    BY RequestIs DEF ReadEvidence
<1>2. PICK d \in Draft, row \in Row, c \in Evidence :
          d = request[q].draft /\ row = request[q].row /\ c = request[q].candidate
    BY <1>1 DEF Judging
<1>3. /\ row.run = None /\ row.generation \in 1 .. MaxGeneration
      /\ drafts[d] \in Row /\ drafts[d].generation \in Nat
      /\ row.generation <= drafts[d].generation
      /\ drafts[d].generation = row.generation =>
            drafts[d] = row /\ c = Candidate(row, row.photos)
    BY <1>1, <1>2, RowRead DEF RequestsFit, RequestFits, RowFits, CandidateFits, Unmoved
<1>4. UNCHANGED <<versions, head, edges, proposals, runs, drafts>>
    BY DEF ReadEvidence
<1> DEFINE e == [c EXCEPT !.photos = drafts[d].photos]
           r == [pc |-> "seal", draft |-> d, row |-> row, candidate |-> c, evidence |-> e]
<1>5. CASE End(q)
    BY <1>4, <1>5, RequestStops
<1>6. CASE Complete(e) /\ Continue(q, r)
    <2>1. e \in Evidence
        BY <1>3 DEF Row, Evidence
    <2>2. r \in InProgress
        BY <2>1 DEF InProgress, Sealing
    <2>3. drafts[d].generation = row.generation => e = c
        BY <1>3 DEF Candidate, Row
    <2> HIDE DEF e
    <2>4. /\ request' = [request EXCEPT ![q] = r] /\ request'[q].pc = "seal"
          /\ request'[q].draft = d /\ request'[q].row = row
          /\ request'[q].candidate = c /\ request'[q].evidence = e
        BY <1>6 DEF Continue, RequestsFit
    <2>5. RowFits(q)'
        BY <1>3, <1>4, <2>4, BoundAssumption DEF RowFits, Unmoved
    <2>6. CandidateFits(q)'
        BY <1>3, <1>4, <2>4 DEF CandidateFits, Unmoved
    <2>7. SealFits(q)'
        BY <1>4, <1>6, <2>3, <2>4 DEF SealFits, Unmoved, Complete
    <2>8. RequestFits(q)'
        BY <2>4, <2>5, <2>6, <2>7 DEF RequestFits, SaveFits, AcceptFits
    <2> HIDE DEF r
    <2> QED
        BY <1>4, <2>2, <2>4, <2>8, RequestMoves
<1> QED
    BY <1>2, <1>5, <1>6 DEF ReadEvidence

LEMMA ImportRunInv ==
    ASSUME CInv, NEW c \in Contents, ImportRun(c)
    PROVE  CInv'
<1> USE DEF CInv
<1>1. PICK v \in versions :
          LET e == [catalog |-> v, content |-> c, photos |-> {0}] IN Sealable(e) /\ Seal(e)
    BY DEF ImportRun
<1> DEFINE e == [catalog |-> v, content |-> c, photos |-> {0}]
<1>2. e \in Evidence /\ e.content \in Contents /\ Numbered(e.photos)
    BY BoundAssumption DEF Evidence, Photos, Numbered
<1>3. UNCHANGED <<versions, head, edges, proposals, drafts, request>>
    BY DEF ImportRun
<1> HIDE DEF e
<1>4. RunsFit' /\ RunsGrow
    BY <1>1, <1>2, <1>3, RunSealed DEF e
<1>5. DraftsMove
    BY <1>3 DEF DraftsMove
<1> QED
    BY <1>3, <1>4, <1>5, CatalogsKept, DraftsKept, RequestsKept

LEMMA FinalizeInv ==
    ASSUME CInv, NEW q \in Request, Finalize(q)
    PROVE  CInv'
<1> USE DEF CInv
<1>1. request[q] \in Sealing /\ request[q].pc = "seal"
    BY RequestIs DEF Finalize
<1>2. PICK d \in Draft, row \in Row, c \in Evidence, e \in Evidence :
          /\ d = request[q].draft /\ row = request[q].row
          /\ c = request[q].candidate /\ e = request[q].evidence
    BY <1>1 DEF Sealing
<1>3. /\ row.run = None /\ row.generation \in 1 .. MaxGeneration /\ Complete(e)
      /\ drafts[d].generation = row.generation =>
            drafts[d] = row /\ c = Candidate(row, row.photos) /\ e = c
    BY <1>1, <1>2, RowRead
       DEF RequestsFit, RequestFits, RowFits, CandidateFits, SealFits, Unmoved, Complete
<1> DEFINE id == e.content.run
           mid == [row EXCEPT !.run = id]
           new == Advance(d, mid)
<1>4. CASE UNCHANGED <<runs, drafts>>
    BY <1>4, RequestStops DEF Finalize
<1>5. CASE /\ Mutable(d, row.generation) /\ drafts[d].attested = c /\ Sealable(e) /\ Seal(e)
           /\ drafts' = [drafts EXCEPT ![d].run = id, ![d].generation = @ + 1]
    <2>1. drafts[d] = row /\ c = Candidate(row, row.photos) /\ e = c /\ row.attested = c
        BY <1>3, <1>5 DEF Mutable
    <2>2. e.content \in Contents /\ Numbered(e.photos) /\ id \in RunId
        BY <1>3, CompleteNumbers, ContentAssumption DEF Evidence
    <2>3. RunsFit' /\ RunsGrow /\ id \in DOMAIN runs' /\ runs'[id] = e
        BY <1>5, <2>2, RunSealed DEF Finalize
    <2>4. mid \in Row
        BY <2>2 DEF Row
    <2>5. /\ mid.attested = row.attested /\ mid.run = id /\ mid.generation = row.generation
           /\ Candidate(mid, mid.photos) = Candidate(row, row.photos)
        BY DEF Row, Candidate
    <2>6. drafts' = [drafts EXCEPT ![d] = new] /\ drafts'[d] = new
        BY <1>5, <2>1 DEF Advance, DraftsFit, Row
    <2> HIDE DEF mid, id
    <2>7. /\ new \in Row /\ new.attested = row.attested /\ new.run = id
          /\ new.generation = row.generation + 1 /\ Candidate(new, new.photos) = c
        BY <1>3, <2>1, <2>4, <2>5, SavedRow
    <2> HIDE DEF new
    <2>8. new \in Row'
        BY <2>7 DEF Finalize, Row, Evidence
    <2>9. AttestedFits(d)' /\ SealedFits(d)'
        BY <2>1, <2>3, <2>6, <2>7 DEF AttestedFits, SealedFits, Candidate
    <2>10. DraftsMove
        BY <2>1, <2>6, <2>7 DEF DraftsMove, DraftsFit
    <2>11. DraftsFit'
        BY <2>3, <2>6, <2>8, <2>9, DraftWritten DEF Finalize
    <2> QED
        BY <2>3, <2>10, <2>11, CatalogsKept, RequestsEnd DEF Finalize
<1> QED
    BY <1>2, <1>4, <1>5 DEF Finalize

LEMMA DeriveInv ==
    ASSUME CInv, NEW S \in SUBSET DOMAIN runs, Derive(S)
    PROVE  CInv'
<1> DEFINE p == Proposed(S, head)
<1> USE DEF CInv
<1>1. /\ S # {} /\ p \notin DOMAIN proposals /\ proposals' = Added(proposals, p, "pending")
      /\ UNCHANGED <<versions, head, edges, runs, drafts, request>>
    BY DEF Derive
<1>2. /\ p.runs = S
      /\ \A k \in Kind : p.value[k] = IF Transition(S, k) = None THEN head.value[k]
                                      ELSE [size |-> Transition(S, k), evidence |-> S]
    BY DEF Proposed
<1>3. \A k \in Kind : Separates(head, k)
    BY DEF CatalogsFit, Separates, Bundled
<1> HIDE DEF p
<1>4. ASSUME NEW k \in Kind
      PROVE  Separates(p, k)
    <2>1. CASE Transition(S, k) = None
        BY <1>2, <1>3, <2>1 DEF Separates
    <2>2. CASE Transition(S, k) # None
        <3>1. p.value[k] = [size |-> Transition(S, k), evidence |-> S]
            BY <1>2, <2>2
        <3>2. p.value[k].size = Transition(S, k) /\ p.value[k].evidence = S
            BY <3>1
        <3> QED
            BY <2>2, <3>2, TransitionSeparates DEF Separates
    <2> QED
        BY <2>1, <2>2
<1>5. /\ DOMAIN proposals' = DOMAIN proposals \cup {p}
      /\ \A o \in DOMAIN proposals' : proposals'[o] = IF o = p THEN "pending" ELSE proposals[o]
      /\ proposals' = [o \in DOMAIN proposals' |-> proposals'[o]]
    BY <1>1 DEF Added
<1>6. {o \in DOMAIN proposals' : proposals'[o] = "accepted"}
      = {o \in DOMAIN proposals : proposals[o] = "accepted"}
    BY <1>1, <1>5
<1>7. PromotionsFormALine'
    BY <1>1, <1>6 DEF PromotionsFormALine, CatalogsFit
<1>8. proposals' \in [DOMAIN proposals' -> {"pending", "accepted", "rejected"}]
    BY <1>5 DEF CatalogsFit
<1>9. \A o \in DOMAIN proposals' : /\ o.runs # {} /\ o.runs \subseteq DOMAIN runs
                                   /\ \A k \in Kind : Separates(o, k)
    BY <1>1, <1>2, <1>4, <1>5 DEF CatalogsFit
<1>10. CatalogsFit'
    BY <1>1, <1>6, <1>7, <1>8, <1>9 DEF CatalogsFit, Separates, OneProcess
<1>11. RunsGrow /\ DraftsMove /\ DOMAIN proposals \subseteq DOMAIN proposals'
    BY <1>1, <1>5 DEF RunsGrow, DraftsMove
<1> QED
    BY <1>1, <1>10, <1>11, RunsKept, DraftsKept, RequestsKept

LEMMA BeginAcceptInv ==
    ASSUME CInv, NEW q \in Request, NEW p \in DOMAIN proposals, BeginAccept(q, p)
    PROVE  CInv'
<1> DEFINE r == [pc |-> "accept", proposal |-> p]
<1>1. request' = [request EXCEPT ![q] = r] /\ request'[q] = r
    BY DEF BeginAccept, Begin, CInv, RequestsFit
<1>2. r \in InProgress
    BY DEF InProgress, Accepting
<1>3. UNCHANGED <<versions, head, edges, proposals, runs, drafts>> /\ Revalidate(p)
    BY DEF BeginAccept
<1>4. Revalidate(p)'
    BY <1>3 DEF Revalidate, InScope
<1>5. RequestFits(q)'
    BY <1>1, <1>3, <1>4 DEF RequestFits, SaveFits, RowFits, CandidateFits, SealFits, AcceptFits
<1> HIDE DEF r
<1> QED
    BY <1>1, <1>2, <1>3, <1>5, RequestMoves

\* A review changes the state of one pending proposal.
LEMMA Reviewed ==
    ASSUME CatalogsFit, NEW p \in DOMAIN proposals, NEW s \in {"accepted", "rejected"},
           proposals' = [proposals EXCEPT ![p] = s]
    PROVE  /\ DOMAIN proposals' = DOMAIN proposals
           /\ proposals' \in [DOMAIN proposals' -> {"pending", "accepted", "rejected"}]
           /\ proposals'[p] = s /\ \A o \in DOMAIN proposals \ {p} : proposals'[o] = proposals[o]
BY DEF CatalogsFit

LEMMA RejectInv ==
    ASSUME CInv, NEW p \in DOMAIN proposals, Reject(p)
    PROVE  CInv'
<1> USE DEF CInv
<1>1. /\ proposals[p] = "pending" /\ proposals' = [proposals EXCEPT ![p] = "rejected"]
      /\ UNCHANGED <<versions, head, edges, runs, drafts, request>>
    BY DEF Reject
<1>2. /\ DOMAIN proposals' = DOMAIN proposals
      /\ proposals' \in [DOMAIN proposals' -> {"pending", "accepted", "rejected"}]
      /\ proposals'[p] = "rejected"
      /\ \A o \in DOMAIN proposals \ {p} : proposals'[o] = proposals[o]
    BY <1>1, Reviewed
<1>3. {o \in DOMAIN proposals' : proposals'[o] = "accepted"}
      = {o \in DOMAIN proposals : proposals[o] = "accepted"}
    BY <1>1, <1>2
<1>4. PromotionsFormALine'
    BY <1>1, <1>3 DEF PromotionsFormALine, CatalogsFit
<1>5. CatalogsFit'
    BY <1>1, <1>2, <1>3, <1>4 DEF CatalogsFit, Separates, OneProcess
<1>6. RunsGrow /\ DraftsMove
    BY <1>1 DEF RunsGrow, DraftsMove
<1> QED
    BY <1>1, <1>2, <1>5, <1>6, RunsKept, DraftsKept, RequestsKept

\* The active catalog is the end of the line, so an accepted proposal extends it.
LEMMA AcceptInv ==
    ASSUME CInv, NEW q \in Request, Accept(q)
    PROVE  CInv'
<1> USE DEF CInv
<1>1. PICK p \in DOMAIN proposals : p = request[q].proposal /\ Revalidate(p)
    BY DEF Accept, RequestsFit, RequestFits, AcceptFits
<1>2. RunsGrow /\ DraftsMove /\ UNCHANGED <<runs, drafts>> /\ End(q)
    BY DEF Accept, RunsGrow, DraftsMove
<1>3. CASE UNCHANGED <<versions, head, edges, proposals>>
    BY <1>2, <1>3, RequestStops
<1>4. CASE /\ head = p.base /\ proposals[p] = "pending"
           /\ versions' = versions \cup {p} /\ head' = p
           /\ proposals' = [proposals EXCEPT ![p] = "accepted"]
           /\ edges' = edges \cup {<<p.base, p>>}
    <2>1. /\ DOMAIN proposals' = DOMAIN proposals
          /\ proposals' \in [DOMAIN proposals' -> {"pending", "accepted", "rejected"}]
          /\ proposals'[p] = "accepted"
          /\ \A o \in DOMAIN proposals \ {p} : proposals'[o] = proposals[o]
        BY <1>4, Reviewed
    <2>2. {o \in DOMAIN proposals' : proposals'[o] = "accepted"}
          = {o \in DOMAIN proposals : proposals[o] = "accepted"} \cup {p}
        BY <2>1
    <2>3. p \notin versions
        <3>1. p # Bundled
            BY DEF CatalogsFit, Bundled
        <3> QED
            BY <1>4, <3>1 DEF CatalogsFit
    <2>4. OneProcess(p)
        <3>1. ASSUME NEW k \in Kind, NEW i \in p.value[k].evidence
              PROVE  \E j \in p.runs : runs[i].content.process = runs[j].content.process
            BY <1>1 DEF Revalidate
        <3>2. ASSUME NEW i \in p.runs, NEW j \in p.runs
              PROVE  runs[i].content.process = runs[j].content.process
            BY <1>1, ScopeHasOneProcess DEF CatalogsFit, Revalidate
        <3> QED
            BY <3>1, <3>2 DEF OneProcess
    <2>5. PromotionsFormALine'
        <3>1. \A e \in edges : e[1] \in versions /\ e[2] \in versions /\ e[1] # head
            BY DEF CatalogsFit, PromotionsFormALine
        <3> DEFINE n == <<p.base, p>>
        <3>2. edges' = edges \cup {n} /\ n[1] = head /\ n[2] = p /\ head \in versions
            BY <1>4 DEF CatalogsFit
        <3> HIDE DEF n
        <3>3. \A e, f \in edges' : e # f => e[1] # f[1] /\ e[2] # f[2]
            BY <2>3, <3>1, <3>2 DEF CatalogsFit, PromotionsFormALine
        <3>4. {e[2] : e \in edges'} = {e[2] : e \in edges} \cup {p}
            BY <3>2
        <3>5. \A v \in versions' : v # head' <=> \E e \in edges' : e[1] = v
            BY <1>4, <2>3, <3>1, <3>2 DEF CatalogsFit, PromotionsFormALine
        <3> QED
            BY <2>2, <3>3, <3>4, <3>5 DEF CatalogsFit, PromotionsFormALine
    <2>6. edges' \subseteq versions' \X versions'
        BY <1>4 DEF CatalogsFit
    <2>7. CatalogsFit'
        BY <1>2, <1>4, <2>1, <2>2, <2>4, <2>5, <2>6 DEF CatalogsFit, Separates, OneProcess
    <2>8. versions \subseteq versions'
        BY <1>4
    <2> QED
        BY <1>2, <2>1, <2>7, <2>8, RunsKept, DraftsKept, RequestsEnd
<1> QED
    BY <1>1, <1>3, <1>4 DEF Accept

LEMMA CNextInv == CInv /\ [Next]_vars => CInv'
<1> SUFFICES ASSUME CInv, [Next]_vars
             PROVE  CInv'
    OBVIOUS
<1>1. CASE UNCHANGED vars
    <2>1. RunsGrow /\ DraftsMove /\ UNCHANGED <<versions, head, edges, proposals, runs, drafts, request>>
        BY <1>1 DEF vars, RunsGrow, DraftsMove
    <2> QED
        BY <2>1, RequestsKept, OnlyARequest
<1>2. CASE Next
    BY <1>2, CreateInv, EditInv, ReadRowInv, SaveInv, ReadMembersInv, RequestStops, AttestInv,
       ReadEvidenceInv, FinalizeInv, AcceptInv, ImportRunInv, DeriveInv, RejectInv,
       BeginAcceptInv DEF Next, ReportCorrupt
<1> QED
    BY <1>1, <1>2

-----------------------------------------------------------------------------
(* What follows *)

\* What the invariant says of every proposal holds of the active catalog.
LEMMA HeadIsBacked ==
    ASSUME CInv
    PROVE  ValuesSeparate /\ OneProcessBehindCatalog
<1> USE DEF CInv, CatalogsFit
<1>1. \A k \in Kind : Separates(head, k)
    BY DEF Separates, Bundled
<1>2. ValuesSeparate
    BY <1>1 DEF ValuesSeparate, Separates
<1> DEFINE E == UNION {head.value[k].evidence : k \in Kind}
           T == {runs[i].content.process : i \in E}
<1>3. \A i \in E : i \in DOMAIN runs
    BY <1>1 DEF Separates
<1>4. T \subseteq Process
    BY <1>3, ContentAssumption DEF RunsFit
<1>5. \A x, y \in T : x = y
    BY DEF OneProcess
<1>6. Cardinality(T) <= 1
    <2> HIDE DEF T
    <2>1. CASE T = {}
        BY <2>1, FS_EmptySet
    <2>2. CASE T # {}
        <3>1. PICK x \in T : TRUE
            BY <2>2
        <3>2. T = {x}
            BY <1>5
        <3>3. Cardinality({x}) = 1
            BY FS_Singleton
        <3> QED
            BY <3>2, <3>3
    <2> QED
        BY <2>1, <2>2
<1> QED
    BY <1>2, <1>6 DEF OneProcessBehindCatalog

LEMMA CInvImplies == CInv => CalibrationInv
<1> SUFFICES ASSUME CInv PROVE CalibrationInv
    OBVIOUS
<1> USE DEF CInv
<1>1. TypeOK
    <2>1. \A d \in Draft : Exists(d) => drafts[d].generation \in 1 .. MaxGeneration + 1
        BY DEF DraftsFit, Exists, Row
    <2> QED
        BY <2>1 DEF TypeOK, CatalogsFit, RunsFit, Evidence
<1>2. AttestedIsCandidate /\ SealedIsAttested
    BY DEF DraftsFit, AttestedFits, SealedFits, AttestedIsCandidate, SealedIsAttested
<1>3. SealedPhotosAreNumbered
    BY DEF RunsFit, Numbered, SealedPhotosAreNumbered
<1>4. PromotionsFormALine
    BY DEF CatalogsFit
<1> QED
    BY <1>1, <1>2, <1>3, <1>4, HeadIsBacked DEF CalibrationInv

(* Whatever requests interleave, an attestation is of what its draft       *)
(* holds, a sealed run is what its operator attested with its photos       *)
(* numbered from zero, promotions form one line that ends in the active    *)
(* catalog, and every value of the active catalog separates the sizes that *)
(* failed from those that printed in all runs that back it, printed with   *)
(* one process.                                                            *)
THEOREM CalibrationInvariant == Spec => []CalibrationInv
<1>1. Spec => []CInv
    BY CInitInv, CNextInv, PTL DEF Spec
<1> QED
    BY <1>1, CInvImplies, PTL

\* What a step may not do to what was sealed and reviewed.
LEMMA RecordsStay ==
    ASSUME CInv, [Next]_vars
    PROVE  /\ \A i \in DOMAIN runs : i \in DOMAIN runs' /\ runs'[i] = runs[i]
           /\ \A p \in DOMAIN proposals : proposals[p] # "pending" => proposals'[p] = proposals[p]
<1> USE DEF CInv
<1>1. CASE UNCHANGED <<runs, proposals>>
    BY <1>1
<1>2. ASSUME NEW e, Sealable(e), Seal(e), UNCHANGED proposals
      PROVE  /\ \A i \in DOMAIN runs : i \in DOMAIN runs' /\ runs'[i] = runs[i]
             /\ UNCHANGED proposals
    BY <1>2 DEF Sealable, Seal, Added
<1>3. ASSUME NEW S, Derive(S)
      PROVE  /\ UNCHANGED runs
             /\ \A p \in DOMAIN proposals : proposals'[p] = proposals[p]
    BY <1>3 DEF Derive, Added
<1>4. ASSUME NEW p \in DOMAIN proposals, proposals[p] = "pending", UNCHANGED runs,
             NEW s, proposals' = [proposals EXCEPT ![p] = s]
      PROVE  /\ UNCHANGED runs
             /\ \A o \in DOMAIN proposals : proposals[o] # "pending" => proposals'[o] = proposals[o]
    BY <1>4
<1>5. ASSUME NEW q \in Request, Accept(q)
      PROVE  \/ UNCHANGED <<runs, proposals>>
             \/ \E p \in DOMAIN proposals : /\ proposals[p] = "pending" /\ UNCHANGED runs
                                            /\ proposals' = [proposals EXCEPT ![p] = "accepted"]
    BY <1>5 DEF Accept, RequestsFit, RequestFits, AcceptFits
<1>6. ASSUME NEW q \in Request, Finalize(q)
      PROVE  \/ UNCHANGED <<runs, proposals>>
             \/ \E e : Sealable(e) /\ Seal(e) /\ UNCHANGED proposals
    BY <1>6 DEF Finalize
<1>7. ASSUME NEW c \in Contents, ImportRun(c)
      PROVE  \E e : Sealable(e) /\ Seal(e) /\ UNCHANGED proposals
    BY <1>7 DEF ImportRun
<1>8. ASSUME NEW p \in DOMAIN proposals, Reject(p)
      PROVE  /\ proposals[p] = "pending" /\ UNCHANGED runs
             /\ proposals' = [proposals EXCEPT ![p] = "rejected"]
    BY <1>8 DEF Reject
<1> QED
    BY <1>1, <1>2, <1>3, <1>4, <1>5, <1>6, <1>7, <1>8
       DEF Next, vars, Create, Edit, Save, ReadRow, ReadMembers, ReportCorrupt, Attest,
           ReadEvidence, BeginAccept

(* A sealed run never changes, and neither does the state of a reviewed    *)
(* proposal, whoever seals the run id or reviews the proposal again.       *)
THEOREM RecordsStayFinal == Spec => RecordsAreFinal
<1>1. Spec => []CInv
    BY CInitInv, CNextInv, PTL DEF Spec
<1>2. CInv /\ [Next]_vars => [\A i \in DOMAIN runs : i \in DOMAIN runs' /\ runs'[i] = runs[i]]_vars
    BY RecordsStay
<1>3. CInv /\ [Next]_vars => [\A p \in DOMAIN proposals :
                                  proposals[p] # "pending" => proposals'[p] = proposals[p]]_vars
    BY RecordsStay
<1> QED
    BY <1>1, <1>2, <1>3, PTL DEF Spec, RecordsAreFinal, RunsAreImmutable, ReviewsAreFinal

=============================================================================
