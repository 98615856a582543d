----------------------------- MODULE Calibration -----------------------------
(***************************************************************************)
(* Physical calibration: drafts of test prints are edited, attested by the *)
(* operator and sealed as immutable runs (calibration/drafts.py,           *)
(* registry.py); sealed runs are analysed for the size at which features   *)
(* begin to print, and a reviewed proposal promotes a new catalog of       *)
(* recommendations (promotion.py, catalogs.py).  One profile.              *)
(***************************************************************************)
EXTENDS Naturals, FiniteSets

CONSTANTS
    Draft, Request, RunId,
    Process,        \* slicer, machine and filament setups
    Kind, Hole,     \* kinds of features; the one of which the small ones matter
    Sizes,          \* rasterized dimensions of the coupon
    Contents,       \* complete records: [run, process, outcome]
    None,           \* no content, no attestation, no run, no evidence
    MaxOrdinal,     \* bound: ordinals of photos
    MaxGeneration,  \* bound: changes of a draft
    MaxPromotions   \* bound: catalogs after the bundled one

ASSUME KindAssumption == Hole \in Kind
ASSUME SizeAssumption ==
    /\ Sizes \subseteq Nat
    /\ \A N \in SUBSET Sizes \ {{}} :  \* Sizes is finite
          (\E n \in N : \A m \in N : n <= m) /\ (\E n \in N : \A m \in N : n >= m)
ASSUME ContentAssumption == Contents \subseteq [run : RunId, process : Process,
           outcome : [Kind -> [Sizes -> {"pass", "fail", "uncertain"}]]]
ASSUME ProcessAssumption == IsFiniteSet(Process)
ASSUME NoneAssumption == None \notin RunId /\ None \notin Contents
ASSUME BoundAssumption == {MaxOrdinal, MaxGeneration, MaxPromotions} \subseteq Nat

VARIABLES
    versions, head,  \* catalogs retained, and the active one
    edges,           \* promotions: <<previous, activated>>
    proposals,       \* state of every proposal derived
    runs,            \* sealed runs, by run id
    drafts,
    request          \* requests in progress

vars == <<versions, head, edges, proposals, runs, drafts, request>>

Idle == [pc |-> "idle"]
NoDraft == [generation |-> 0]

(* A catalog is named by its content, as by its fingerprint; its version   *)
(* names the base and the runs it was derived from.                        *)
Bundled == [base |-> None, runs |-> {},
            value |-> [k \in Kind |-> [size |-> 0, evidence |-> {}]]]

Init ==
    /\ versions = {Bundled} /\ head = Bundled
    /\ edges = {} /\ proposals = <<>> /\ runs = <<>>
    /\ drafts = [d \in Draft |-> NoDraft]
    /\ request = [q \in Request |-> Idle]

-----------------------------------------------------------------------------
(* Drafts. *)
Begin(q, r) == request[q] = Idle /\ request' = [request EXCEPT ![q] = r]
Continue(q, r) == request' = [request EXCEPT ![q] = r]
End(q) == request' = [request EXCEPT ![q] = Idle]
Exists(d) == drafts[d] # NoDraft
Mutable(d, g) == drafts[d].generation = g /\ drafts[d].run = None

Create(d) ==
    /\ ~Exists(d)
    /\ drafts' = [drafts EXCEPT ![d] = [catalog |-> head, content |-> None, photos |-> {},
                      generation |-> 1, attested |-> None, run |-> None]]
    /\ UNCHANGED <<versions, head, edges, proposals, runs, request>>

(* What a request saves, if the draft is still of the generation it expects. *)
Advance(d, new) == [new EXCEPT !.generation = @ + 1]

Cleared(new) == [new EXCEPT !.attested = None]

Remove(photos, n) == {p \in photos : p < n} \cup {p - 1 : p \in {p \in photos : p > n}}

(* update, upload and remove check the generation when they begin, and     *)
(* again in the transaction that saves.                                    *)
Edit(q, d) ==
    /\ Exists(d) /\ drafts[d].run = None /\ drafts[d].generation < MaxGeneration
    /\ \E new \in {[drafts[d] EXCEPT !.content = c] : c \in Contents}
                  \cup {[drafts[d] EXCEPT !.photos = @ \cup {n}] : n \in 0 .. MaxOrdinal}
                  \cup {[drafts[d] EXCEPT !.photos = Remove(@, n)] : n \in drafts[d].photos} :
          Begin(q, [pc |-> "save", draft |-> d, generation |-> drafts[d].generation,
                    new |-> new])
    /\ UNCHANGED <<versions, head, edges, proposals, runs, drafts>>

Save(q) ==
    LET r == request[q] IN
    /\ r.pc = "save" /\ End(q)
    /\ drafts' = IF Mutable(r.draft, r.generation)
                 THEN [drafts EXCEPT ![r.draft] = Advance(r.draft, Cleared(r.new))] ELSE drafts
    /\ UNCHANGED <<versions, head, edges, proposals, runs>>

-----------------------------------------------------------------------------
(* Attest and finalize read the row, then the members: _resource. *)
Candidate(row, photos) == [catalog |-> row.catalog, content |-> row.content, photos |-> photos]

Complete(c) == c.content # None /\ c.photos # {} /\ c.photos = 0 .. (Cardinality(c.photos) - 1)

ReadRow(q, d) ==
    /\ Exists(d) /\ drafts[d].run = None /\ drafts[d].generation < MaxGeneration
    /\ \E op \in {"attest", "finalize"} :
          Begin(q, [pc |-> "members", op |-> op, draft |-> d, row |-> drafts[d]])
    /\ UNCHANGED <<versions, head, edges, proposals, runs, drafts>>

Corrupt(row, photos) == row.attested # None /\ row.attested # Candidate(row, photos)

ReadMembers(q) ==
    LET r == request[q] photos == drafts[r.draft].photos c == Candidate(r.row, photos) IN
    /\ r.pc = "members"
    /\ IF Corrupt(r.row, photos)
       THEN Continue(q, [pc |-> "corrupt", draft |-> r.draft])
       ELSE IF Complete(c) /\ (r.op = "finalize" => r.row.attested # None)
       THEN Continue(q, [pc |-> IF r.op = "attest" THEN "attest" ELSE "evidence",
                         draft |-> r.draft, row |-> r.row, candidate |-> c])
       ELSE End(q)
    /\ UNCHANGED <<versions, head, edges, proposals, runs, drafts>>

ReportCorrupt(q) ==
    /\ request[q].pc = "corrupt" /\ End(q)
    /\ UNCHANGED <<versions, head, edges, proposals, runs, drafts>>

Attest(q) ==
    LET r == request[q] IN
    /\ r.pc = "attest" /\ End(q)
    /\ drafts' = IF Mutable(r.draft, r.row.generation)
                 THEN [drafts EXCEPT ![r.draft].attested = r.candidate,
                                     ![r.draft].generation = @ + 1]
                 ELSE drafts
    /\ UNCHANGED <<versions, head, edges, proposals, runs>>

(* The evidence reads the members, and their files, once more. *)
ReadEvidence(q) ==
    LET r == request[q] IN
    /\ r.pc = "evidence"
    /\ LET e == [r.candidate EXCEPT !.photos = drafts[r.draft].photos] IN
       IF Complete(e)
       THEN Continue(q, [pc |-> "seal", draft |-> r.draft, row |-> r.row,
                         candidate |-> r.candidate, evidence |-> e])
       ELSE End(q)
    /\ UNCHANGED <<versions, head, edges, proposals, runs, drafts>>

(* import_bundle: a run id is sealed once; the same evidence is a duplicate. *)
\* Mutant: a run id may be sealed again
SealableAgain(e) == e.catalog \in versions

Sealable(e) ==
    /\ e.catalog \in versions
    /\ e.content.run \in DOMAIN runs => runs[e.content.run] = e

Added(f, x, v) == [y \in DOMAIN f \cup {x} |-> IF y = x THEN v ELSE f[y]]
Seal(e) == runs' = Added(runs, e.content.run, e)

ImportRun(c) ==
    /\ \E v \in versions : LET e == [catalog |-> v, content |-> c, photos |-> {0}] IN
          c.run \notin DOMAIN runs /\ Sealable(e) /\ Seal(e)
    /\ UNCHANGED <<versions, head, edges, proposals, drafts, request>>

(* The transaction of finalize; a run belongs to one draft (UNIQUE). *)
\* Mutant: the draft is not looked at again
FinalizeUnlocked(q) ==
    LET r == request[q] id == r.evidence.content.run IN
    /\ r.pc = "seal" /\ End(q)
    /\ IF Sealable(r.evidence) /\ drafts[r.draft].run = None /\ ~\E d \in Draft : Exists(d) /\ drafts[d].run = id
       THEN /\ Seal(r.evidence)
            /\ drafts' = [drafts EXCEPT ![r.draft].run = id, ![r.draft].generation = @ + 1]
       ELSE UNCHANGED <<runs, drafts>>
    /\ UNCHANGED <<versions, head, edges, proposals>>

Finalize(q) ==
    LET r == request[q] id == r.evidence.content.run IN
    /\ r.pc = "seal" /\ End(q)
    /\ IF /\ Mutable(r.draft, r.row.generation)
          /\ drafts[r.draft].attested = r.candidate
          /\ Sealable(r.evidence)
          /\ ~\E d \in Draft : Exists(d) /\ drafts[d].run = id
       THEN /\ Seal(r.evidence)
            /\ drafts' = [drafts EXCEPT ![r.draft].run = id, ![r.draft].generation = @ + 1]
       ELSE UNCHANGED <<runs, drafts>>
    /\ UNCHANGED <<versions, head, edges, proposals>>

-----------------------------------------------------------------------------
(* Proposals and promotion. *)
Outcomes(S, k, s) == {runs[i].content.outcome[k][s] : i \in S}
Failed(S, k) == {s \in Sizes : Outcomes(S, k, s) = {"fail"}}
Passed(S, k) == {s \in Sizes : Outcomes(S, k, s) = {"pass"}}
Least(N) == CHOOSE n \in N : \A m \in N : n <= m
Greatest(N) == CHOOSE n \in N : \A m \in N : n >= m

(* _transition_analysis: the size from which features print, or None. *)
Transition(S, k) ==
    IF /\ \A s \in Sizes : Cardinality(Outcomes(S, k, s)) = 1 /\ "uncertain" \notin Outcomes(S, k, s)
       /\ Failed(S, k) # {} /\ Passed(S, k) # {}
       /\ Greatest(Failed(S, k)) < Least(Passed(S, k))
    THEN IF k = Hole THEN Greatest(Failed(S, k)) ELSE Least(Passed(S, k))
    ELSE None

(* Runs of a proposal were printed with one process for the base catalog. *)
InScope(S, base) ==
    /\ Cardinality({runs[i].content.process : i \in S}) = 1
    /\ \A i \in S : runs[i].catalog = base

(* _proposed_profile: the kinds analysed are replaced, the others kept. *)
Proposed(S, base) ==
    [base |-> base, runs |-> S,
     value |-> [k \in Kind |-> IF Transition(S, k) = None THEN base.value[k]
                               ELSE [size |-> Transition(S, k), evidence |-> S]]]

Derive(S) ==
    /\ S # {} /\ Cardinality(edges) < MaxPromotions
    /\ InScope(S, head) /\ \E k \in Kind : Transition(S, k) # None
    /\ LET p == Proposed(S, head) IN
       p \notin DOMAIN proposals /\ proposals' = Added(proposals, p, "pending")
    /\ UNCHANGED <<versions, head, edges, runs, drafts, request>>

(* _revalidate_printed_evidence: one process stands behind every value. *)
Revalidate(p) ==
    /\ InScope(p.runs, p.base)
    /\ \A k \in Kind : \A i \in p.value[k].evidence :
          runs[i].content.process \in {runs[j].content.process : j \in p.runs}

BeginAccept(q, p) ==
    /\ proposals[p] = "pending" /\ Revalidate(p)
    /\ Begin(q, [pc |-> "accept", proposal |-> p])
    /\ UNCHANGED <<versions, head, edges, proposals, runs, drafts>>

Accept(q) ==
    LET p == request[q].proposal IN
    /\ request[q].pc = "accept" /\ End(q)
    /\ IF head = p.base /\ proposals[p] = "pending"
       THEN /\ versions' = versions \cup {p} /\ head' = p
            /\ proposals' = [proposals EXCEPT ![p] = "accepted"]
            /\ edges' = edges \cup {<<p.base, p>>}
       ELSE UNCHANGED <<versions, head, edges, proposals>>
    /\ UNCHANGED <<runs, drafts>>

Reject(p) ==
    /\ proposals[p] = "pending" /\ proposals' = [proposals EXCEPT ![p] = "rejected"]
    /\ UNCHANGED <<versions, head, edges, runs, drafts, request>>

Next ==
    \/ \E d \in Draft : Create(d)
    \/ \E q \in Request, d \in Draft : Edit(q, d) \/ ReadRow(q, d)
    \/ \E q \in Request : \/ Save(q) \/ ReadMembers(q) \/ ReportCorrupt(q) \/ Attest(q)
                          \/ ReadEvidence(q) \/ Finalize(q) \/ Accept(q)
    \/ \E c \in Contents : ImportRun(c)
    \/ \E S \in SUBSET DOMAIN runs : Derive(S)
    \/ \E p \in DOMAIN proposals : Reject(p) \/ \E q \in Request : BeginAccept(q, p)

Spec == Init /\ [][Next]_vars

-----------------------------------------------------------------------------
TypeOK ==
    /\ head \in versions /\ edges \subseteq versions \X versions
    /\ \A p \in DOMAIN proposals : p.runs \subseteq DOMAIN runs
    /\ \A i \in DOMAIN runs : runs[i].catalog \in versions /\ runs[i].content.run = i
    /\ \A d \in Draft : Exists(d) => drafts[d].generation \in 1 .. MaxGeneration + 1

(* An attestation is of what the draft holds, whatever was edited,         *)
(* uploaded, removed or attested at the same time.                         *)
AttestedIsCandidate == \A d \in Draft : Exists(d) =>
    drafts[d].attested \in {None, Candidate(drafts[d], drafts[d].photos)}

(* The run of a finalized draft holds exactly what its operator attested,  *)
(* which is what the draft still holds.                                    *)
SealedIsAttested == \A d \in Draft : Exists(d) /\ drafts[d].run # None =>
    /\ runs[drafts[d].run] = drafts[d].attested
    /\ runs[drafts[d].run] = Candidate(drafts[d], drafts[d].photos)

(* Whatever the ordinals in which photos were uploaded and removed, a      *)
(* sealed run numbers its photos from zero.                                *)
SealedPhotosAreNumbered == \A i \in DOMAIN runs :
    \A p \in runs[i].photos : \A n \in 0 .. p : n \in runs[i].photos

(* A sealed run never changes, whoever seals the same run id. *)
RunsAreImmutable == [][\A i \in DOMAIN runs : i \in DOMAIN runs' /\ runs'[i] = runs[i]]_vars

(* Promotions form one line from the bundled catalog to the active one,    *)
(* and are the accepted proposals.                                         *)
PromotionsFormALine ==
    /\ \A e, f \in edges : e # f => e[1] # f[1] /\ e[2] # f[2]
    /\ {e[2] : e \in edges} = {p \in DOMAIN proposals : proposals[p] = "accepted"}
    /\ \A v \in versions : v # head <=> \E e \in edges : e[1] = v

(* A review is final. *)
ReviewsAreFinal == [][\A p \in DOMAIN proposals :
    proposals[p] # "pending" => proposals'[p] = proposals[p]]_vars

(* Every printed value of the active catalog separates the sizes that      *)
(* failed from those that printed, in all the runs that back it, and all   *)
(* these runs were printed with one process.                               *)
ValuesSeparate == \A k \in Kind : LET v == head.value[k] IN
    \A i \in v.evidence : \A s \in Sizes : runs[i].content.outcome[k][s] =
        IF k = Hole THEN IF s <= v.size THEN "fail" ELSE "pass"
                    ELSE IF s < v.size THEN "fail" ELSE "pass"

OneProcessBehindCatalog ==
    Cardinality({runs[i].content.process : i \in UNION {head.value[k].evidence : k \in Kind}}) <= 1

(* Attestations, runs and catalogs rest on each other as the records say.  *)
CalibrationInv ==
    /\ TypeOK
    /\ AttestedIsCandidate
    /\ SealedIsAttested
    /\ SealedPhotosAreNumbered
    /\ PromotionsFormALine
    /\ ValuesSeparate
    /\ OneProcessBehindCatalog

(* What was sealed and what was reviewed stays.                            *)
RecordsAreFinal == RunsAreImmutable /\ ReviewsAreFinal

(* A draft is reported corrupt only if it is (it is not: nothing damages   *)
(* rows in this model).                                                    *)
NoFalseCorruption == \A q \in Request : request[q].pc # "corrupt"

(* What could be derived from the active catalog can be accepted.          *)
DerivedIsAcceptable == \A p \in DOMAIN proposals :
    proposals[p] = "pending" /\ p.base = head => Revalidate(p)
=============================================================================
