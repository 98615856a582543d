---------------------------- MODULE ServiceProofs ---------------------------
(***************************************************************************)
(* Two services of the application, for every value of their constants.    *)
(*                                                                         *)
(* Prompted-edit sessions for every set of sessions, requests and          *)
(* alternatives, under every fault.  The inductive invariant says what the *)
(* position of a request says of its job, that a worker which returned has *)
(* written its session, and what the status of a session says of its rows. *)
(*                                                                         *)
(* Mural builds for every set of editors, configurations and layouts: one  *)
(* build at a time, each of the plan its author saw.  The inductive        *)
(* invariant is the type of every record that carries a source from a      *)
(* preview through the plan and the request to the package.                *)
(***************************************************************************)
EXTENDS PromptedEdits, MuralBuilds, FiniteSetTheorems, TLAPS

WorkerPlaces ==
    {"none", "pending", "started", "claimed", "calling", "waiting", "answered", "stored",
     "returned", "settling", "writing", "settled", "ended"}

\* Where a session is once its worker has written it.
Delivered == Reviewable \cup {"failed", "rejected", "accepted"}

\* The columns that TypeOK leaves open.
Shape ==
    /\ TypeOK
    /\ token \in [Exec -> BOOLEAN]
    /\ submitted \in Seq(Exec)
    /\ wpc \in [Exec -> WorkerPlaces]
    /\ victim \in [Session -> SUBSET Exec]

\* A request keeps the session it read, and has a job once it is over.
RequestFits ==
    \A e \in Exec :
        /\ epc[e] # "idle" => \E s \in Session : of[e] = {s}
        /\ epc[e] # "done" => job[e] = "none"
        /\ wpc[e] = "none" <=> job[e] = "none"

\* complete() comes before the return, and the return before the success.
OutcomeFits ==
    \A e \in Exec, s \in Session :
        of[e] = {s} /\ (wpc[e] = "returned" \/ job[e] = "succeeded") => status[s] \in Delivered

\* CandidatesMatchStatus without counting.
RowsFit ==
    \A s \in Session :
        /\ (\E a \in Alt : alts[s][a] = "review") <=> status[s] \in Reviewable
        /\ status[s] = "accepted" =>
              /\ children[s] = 1
              /\ \E a \in Alt : \A b \in Alt : alts[s][b] = "accepted" <=> b = a
        /\ status[s] # "accepted" =>
              children[s] = 0 /\ \A a \in Alt : alts[s][a] # "accepted"
        /\ status[s] \in {"none", "prepared", "failed", "canceled"} \cup ActiveSession =>
              \A a \in Alt : alts[s][a] = "none"

PInv == Shape /\ RequestFits /\ OutcomeFits /\ RowsFit

LEMMA SessionOfIs ==
    ASSUME NEW e \in Exec, NEW s \in Session, of[e] = {s}
    PROVE  SessionOf(e) = s
BY Zenon DEF SessionOf

LEMMA PInitInv == Init => PInv
<1> SUFFICES ASSUME Init PROVE PInv
    OBVIOUS
<1> USE DEF Init
<1>1. TypeOK
    BY DEF TypeOK, Statuses, ActiveJob
<1>2. Shape
    BY <1>1 DEF Shape, WorkerPlaces
<1>3. RequestFits /\ OutcomeFits
    BY DEF RequestFits, OutcomeFits
<1>4. RowsFit
    BY DEF RowsFit, Reviewable
<1> QED
    BY <1>2, <1>3, <1>4 DEF PInv

-----------------------------------------------------------------------------
(* Requests on a session: only rows change. *)

LEMMA RequestInv ==
    ASSUME PInv, NEW s \in Session,
           \/ Prepare(s) \/ Reject(s)
           \/ \E prior \in Session : Retry(s, prior)
           \/ \E a \in Alt : Accept(s, a)
    PROVE  PInv'
<1> USE DEF PInv, Shape, TypeOK, execute, jobs, worker, cancel, process
<1>1. UNCHANGED <<execute, jobs, worker, cancel, process>>
    BY DEF Prepare, Reject, Retry, Accept
<1>2. CASE Prepare(s) \/ \E prior \in Session : Retry(s, prior)
    <2>1. /\ status[s] = "none" /\ status' = [status EXCEPT ![s] = "prepared"]
          /\ UNCHANGED <<alts, children>>
          /\ retryOf' \in [Session -> SUBSET Session]
        <3>1. CASE Prepare(s)
            BY <3>1 DEF Prepare
        <3>2. ASSUME NEW prior \in Session, Retry(s, prior)
              PROVE  retryOf' \in [Session -> SUBSET Session]
            BY <3>2 DEF Retry
        <3> QED
            BY <1>2, <3>1, <3>2 DEF Retry
    <2>2. TypeOK'
        BY <1>1, <2>1 DEF Statuses
    <2>3. Shape' /\ RequestFits'
        BY <1>1, <2>2 DEF RequestFits
    <2>4. OutcomeFits'
        BY <1>1, <2>1 DEF OutcomeFits, Delivered, Reviewable
    <2>5. RowsFit'
        BY <2>1 DEF RowsFit, Reviewable, ActiveSession
    <2> QED
        BY <2>3, <2>4, <2>5
<1>3. CASE Reject(s)
    <2> USE <1>3 DEF Reject
    <2>1. TypeOK'
        BY <1>1 DEF Statuses
    <2>2. Shape' /\ RequestFits'
        BY <1>1, <2>1 DEF RequestFits
    <2>3. OutcomeFits'
        BY <1>1 DEF OutcomeFits, Delivered
    <2>4. RowsFit'
        BY DEF RowsFit, Reviewable, ActiveSession
    <2> QED
        BY <2>2, <2>3, <2>4
<1>4. CASE \E a \in Alt : Accept(s, a)
    <2> PICK a \in Alt : Accept(s, a)
        BY <1>4
    <2> USE DEF Accept
    <2>1. TypeOK'
        BY <1>1 DEF Statuses
    <2>2. Shape' /\ RequestFits'
        BY <1>1, <2>1 DEF RequestFits
    <2>3. OutcomeFits'
        BY <1>1 DEF OutcomeFits, Delivered
    <2>4. RowsFit'
        BY DEF RowsFit, Reviewable, ActiveSession
    <2> QED
        BY <2>2, <2>3, <2>4
<1> QED
    BY <1>2, <1>3, <1>4

-----------------------------------------------------------------------------
(* A status that only moves along the trigger's edges. *)

\* A step that writes at most one status, along an allowed edge to a state
\* without candidates, and neither an outcome nor another row.
LEMMA MoveInv ==
    ASSUME PInv, NEW s \in Session, NEW to \in {"queued", "running", "failed", "canceled"},
           status' = status \/ (Legal(s, to) /\ status' = [status EXCEPT ![s] = to]),
           UNCHANGED <<alts, children, of>>,
           \A e \in Exec : /\ wpc'[e] = "returned" => wpc[e] = "returned"
                           /\ job'[e] = "succeeded" => job[e] = "succeeded"
    PROVE  RowsFit' /\ OutcomeFits' /\ status' \in [Session -> Statuses \cup {"none"}]
<1> USE DEF PInv, Shape, TypeOK, Legal, Allowed, Reviewable
<1>1. RowsFit'
    BY DEF RowsFit, ActiveSession
<1>2. OutcomeFits'
    BY DEF OutcomeFits, Delivered
<1>3. status' \in [Session -> Statuses \cup {"none"}]
    <2>1. to \in Statuses /\ status \in [Session -> Statuses \cup {"none"}]
        BY DEF Statuses
    <2> QED
        BY ONLY <2>1, status' = status \/ status' = [status EXCEPT ![s] = to]
<1> QED
    BY <1>1, <1>2, <1>3

LEMMA ReadsInv ==
    ASSUME PInv, NEW s \in Session, NEW e \in Exec, ExecuteReads(e, s)
    PROVE  PInv'
<1> USE DEF PInv, Shape, TypeOK, ExecuteReads, rows, jobs, worker, cancel, process
<1>1. Shape'
    OBVIOUS
<1>2. RequestFits'
    BY DEF RequestFits
<1>3. OutcomeFits'
    BY DEF OutcomeFits, RequestFits
<1>4. RowsFit'
    BY DEF RowsFit
<1> QED
    BY <1>1, <1>2, <1>3, <1>4

LEMMA HandlerInv ==
    ASSUME PInv, NEW e \in Exec, HandlerStep(e)
    PROVE  PInv'
<1> USE DEF PInv, rows, jobs, worker, cancel, process
<1>1. PICK s \in Session : of[e] = {s}
    BY DEF HandlerStep, ExecuteQueues, ExecuteSubmits, ExecuteRefused, ExecuteFails, RequestFits
<1>2. SessionOf(e) = s
    BY <1>1, SessionOfIs
<1>3. CASE ExecuteQueues(e) \/ ExecuteRefused(e) \/ ExecuteFails(e)
    <2>1. /\ UNCHANGED <<retryOf, alts, children, of, jobs, worker, cancel>>
          /\ epc' \in [Exec -> {"idle", "read", "queued", "failing", "done"}]
          /\ \A f \in Exec : /\ epc'[f] # "idle" <=> epc[f] # "idle"
                             /\ epc'[f] # "done" => epc[f] # "done"
        <3>1. PICK p \in {"queued", "failing", "done"} : epc' = [epc EXCEPT ![e] = p]
            BY <1>3 DEF ExecuteQueues, ExecuteRefused, ExecuteFails
        <3>2. epc \in [Exec -> {"idle", "read", "queued", "failing", "done"}]
            BY DEF Shape, TypeOK
        <3>3. epc[e] # "idle" /\ epc[e] # "done"
            BY <1>3 DEF ExecuteQueues, ExecuteRefused, ExecuteFails
        <3>4. UNCHANGED <<retryOf, alts, children, of, jobs, worker, cancel>>
            BY <1>3 DEF ExecuteQueues, ExecuteRefused, ExecuteFails
        <3>5. epc' \in [Exec -> {"idle", "read", "queued", "failing", "done"}]
            BY <3>1, <3>2
        <3>6. ASSUME NEW f \in Exec
              PROVE  /\ epc'[f] # "idle" <=> epc[f] # "idle"
                     /\ epc'[f] # "done" => epc[f] # "done"
            <4>1. CASE f = e
                BY <3>1, <3>2, <3>3, <4>1
            <4>2. CASE f # e
                BY <3>1, <3>2, <4>2
            <4> QED
                BY <4>1, <4>2
        <3> QED
            BY <3>4, <3>5, <3>6, Zenon
    <2>2. \E to \in {"queued", "running", "failed", "canceled"} :
             status' = status \/ (Legal(s, to) /\ status' = [status EXCEPT ![s] = to])
        BY <1>2, <1>3 DEF ExecuteQueues, ExecuteRefused, ExecuteFails
    <2>3. RowsFit' /\ OutcomeFits' /\ status' \in [Session -> Statuses \cup {"none"}]
        BY <2>1, <2>2, MoveInv
    <2>4. TypeOK'
        <3>1. /\ retryOf' = retryOf /\ alts' = alts /\ children' = children /\ of' = of
              /\ job' = job /\ submitted' = submitted /\ answer' = answer /\ verdict' = verdict
              /\ cpc' = cpc
            BY <2>1
        <3>2. epc' \in [Exec -> {"idle", "read", "queued", "failing", "done"}]
            BY <2>1
        <3>3. TypeOK
            BY DEF Shape
        <3>4. /\ retryOf' \in [Session -> SUBSET Session]
              /\ alts' \in [Session -> [Alt -> {"none", "review", "rejected", "accepted"}]]
              /\ children' \in [Session -> Nat]
              /\ of' \in [Exec -> SUBSET Session]
            BY ONLY <3>1, <3>3 DEF TypeOK
        <3>5. /\ job' \in [Exec -> {"none", "succeeded", "failed", "canceled"} \cup ActiveJob]
              /\ {submitted'[i] : i \in 1 .. Len(submitted')} = {f \in Exec : job'[f] # "none"}
            BY ONLY <3>1, <3>3 DEF TypeOK
        <3>6. /\ answer' \in [Exec -> SUBSET Alt]
              /\ verdict' \in [Exec -> {"canceled", "failed"}]
              /\ cpc' \in [Session -> {"idle", "found", "canceled", "writing"}]
            BY ONLY <3>1, <3>3 DEF TypeOK
        <3> QED
            BY ONLY <2>3, <3>2, <3>4, <3>5, <3>6 DEF TypeOK
    <2>5. Shape' /\ RequestFits'
        BY <2>1, <2>4 DEF Shape, RequestFits
    <2> QED
        BY <2>3, <2>5
<1>4. CASE ExecuteSubmits(e)
    <2> USE <1>4 DEF ExecuteSubmits, Shape, TypeOK
    <2>1. RowsFit' /\ OutcomeFits'
        BY DEF RowsFit, OutcomeFits
    <2>2. RequestFits'
        BY DEF RequestFits
    <2>3. /\ submitted' \in Seq(Exec)
          /\ {submitted'[i] : i \in 1 .. Len(submitted')}
                = {submitted[i] : i \in 1 .. Len(submitted)} \cup {e}
        OBVIOUS
    <2>4. TypeOK'
        BY <2>3 DEF ActiveJob
    <2> QED
        BY <2>1, <2>2, <2>3, <2>4 DEF WorkerPlaces
<1> QED
    BY <1>3, <1>4 DEF HandlerStep

-----------------------------------------------------------------------------
(* The worker *)

\* What every step of a worker leaves alone.
LEMMA WorkerFrame ==
    ASSUME PInv, NEW e \in Exec, WorkerStep(e)
    PROVE  /\ UNCHANGED <<retryOf, children, execute, token, submitted, cancel, process>>
           /\ wpc[e] \notin {"none", "ended"} /\ wpc'[e] # "none"
           /\ wpc' \in [Exec -> WorkerPlaces]
           /\ \A f \in Exec \ {e} : wpc'[f] = wpc[f] /\ job'[f] = job[f]
           /\ job' \in [Exec -> {"none", "succeeded", "failed", "canceled"} \cup ActiveJob]
           /\ job'[e] = "none" <=> job[e] = "none"
           /\ answer' \in [Exec -> SUBSET Alt]
           /\ verdict' \in [Exec -> {"canceled", "failed"}]
<1>0. /\ wpc \in [Exec -> WorkerPlaces]
      /\ job \in [Exec -> {"none", "succeeded", "failed", "canceled"} \cup ActiveJob]
      /\ answer \in [Exec -> SUBSET Alt]
      /\ verdict \in [Exec -> {"canceled", "failed"}]
    BY DEF PInv, Shape, TypeOK
<1> USE <1>0 DEF rows, jobs, worker, cancel, process, Goes, WorkerPlaces, ActiveJob
<1>1. CASE WorkerStarts(e) \/ WorkerCanceledEarly(e) \/ WorkerClaims(e) \/ WorkerLosesInput(e)
    BY <1>1 DEF WorkerStarts, WorkerCanceledEarly, WorkerClaims, WorkerLosesInput, EndJob
<1>2. CASE WorkerReports(e) \/ WorkerCalls(e) \/ ProviderCanceled(e) \/ ProviderFails(e)
    BY <1>2 DEF WorkerReports, WorkerCalls, ProviderCanceled, ProviderFails, Settles
<1>3. CASE \E got \in SUBSET Alt : ProviderAnswers(e, got)
    BY <1>3 DEF ProviderAnswers
<1>4. CASE WorkerStores(e) \/ WorkerCanceledLate(e)
    BY <1>4 DEF WorkerStores, WorkerCanceledLate, Settles
<1>5. CASE WorkerCompletes(e)
    BY <1>5 DEF WorkerCompletes, Settles
<1>6. CASE WorkerReturns(e) \/ WorkerEnds(e)
    BY <1>6 DEF WorkerReturns, WorkerEnds, EndJob
<1>7. CASE WorkerSettles(e) \/ WorkerWrites(e)
    BY <1>7 DEF WorkerSettles, WorkerWrites
<1> QED
    BY <1>1, <1>2, <1>3, <1>4, <1>5, <1>6, <1>7 DEF WorkerStep

\* A worker has a row for good, and its request is over.
LEMMA WorkerKeepsShape ==
    ASSUME PInv, NEW e \in Exec, WorkerStep(e),
           status' \in [Session -> Statuses \cup {"none"}],
           alts' \in [Session -> [Alt -> {"none", "review", "rejected", "accepted"}]]
    PROVE  Shape' /\ RequestFits'
<1> USE DEF PInv, execute, cancel, process
<1>1. /\ UNCHANGED <<retryOf, children, epc, of, token, submitted, cpc, victim>>
      /\ wpc[e] # "none" /\ wpc'[e] # "none"
      /\ wpc' \in [Exec -> WorkerPlaces]
      /\ \A f \in Exec \ {e} : wpc'[f] = wpc[f] /\ job'[f] = job[f]
      /\ job' \in [Exec -> {"none", "succeeded", "failed", "canceled"} \cup ActiveJob]
      /\ job'[e] = "none" <=> job[e] = "none"
      /\ answer' \in [Exec -> SUBSET Alt]
      /\ verdict' \in [Exec -> {"canceled", "failed"}]
    BY WorkerFrame
<1>2. {f \in Exec : job'[f] # "none"} = {f \in Exec : job[f] # "none"}
    BY <1>1
<1>3. TypeOK'
    BY <1>1, <1>2 DEF Shape, TypeOK
<1>4. Shape'
    BY <1>1, <1>3 DEF Shape
<1>5. RequestFits'
    BY <1>1 DEF RequestFits
<1> QED
    BY <1>4, <1>5

LEMMA WorkerInv ==
    ASSUME PInv, NEW e \in Exec, WorkerStep(e)
    PROVE  PInv'
<1> USE DEF PInv
<1>1. epc[e] = "done" /\ \E s \in Session : of[e] = {s}
    BY WorkerFrame DEF RequestFits
<1>2. PICK s \in Session : of[e] = {s}
    BY <1>1
<1>3. SessionOf(e) = s
    BY <1>2, SessionOfIs
<1>4. UNCHANGED <<of, children>>
    BY WorkerFrame DEF execute
<1>5. CASE WorkerCompletes(e) /\ status[s] = "running"
    <2>1. /\ \E new \in {"failed"} \cup Reviewable :
                /\ status' = [status EXCEPT ![s] = new]
                /\ answer[e] = {} => new = "failed"
                /\ answer[e] # {} => new \in Reviewable
          /\ alts' = [alts EXCEPT ![s] =
                         [a \in Alt |-> IF a \in answer[e] THEN "review" ELSE "none"]]
          /\ UNCHANGED job
          /\ \A f \in Exec : wpc'[f] = "returned" => wpc[f] = "returned" \/ f = e
          /\ answer[e] \subseteq Alt
        BY <1>3, <1>5 DEF WorkerCompletes, Goes, jobs, Shape, TypeOK
    <2> HIDE <1>3
    <2>2. RowsFit'
        BY <1>4, <1>5, <2>1 DEF RowsFit, Shape, TypeOK, Reviewable, ActiveSession
    <2>3. status'[s] \in Delivered /\ \A t \in Session \ {s} : status'[t] = status[t]
        BY <2>1 DEF Delivered, Shape, TypeOK
    <2>4. OutcomeFits'
        BY <1>2, <1>4, <2>1, <2>3 DEF OutcomeFits
    <2>5. status' \in [Session -> Statuses \cup {"none"}]
        BY <2>1 DEF Shape, TypeOK, Statuses, Reviewable
    <2>6. alts' \in [Session -> [Alt -> {"none", "review", "rejected", "accepted"}]]
        BY <2>1 DEF Shape, TypeOK
    <2> QED
        BY <2>2, <2>4, <2>5, <2>6, WorkerKeepsShape
<1>6. CASE WorkerReturns(e)
    <2>1. UNCHANGED <<status, alts>>
        BY <1>6 DEF WorkerReturns, rows
    <2>2. RowsFit'
        BY <1>4, <2>1 DEF RowsFit
    <2>3. status[s] \in Delivered
        BY <1>2, <1>6 DEF WorkerReturns, OutcomeFits
    <2>4. \A f \in Exec \ {e} : wpc'[f] = wpc[f] /\ job'[f] = job[f]
        BY <1>6 DEF WorkerReturns, EndJob, Goes, Shape, TypeOK
    <2>5. OutcomeFits'
        BY <1>2, <1>4, <2>1, <2>3, <2>4 DEF OutcomeFits
    <2> QED
        BY <2>1, <2>2, <2>5, WorkerKeepsShape DEF Shape, TypeOK
<1>7. CASE ~WorkerReturns(e) /\ ~(WorkerCompletes(e) /\ status[s] = "running")
    <2> USE DEF Shape, TypeOK, rows, jobs, worker, Goes, EndJob, Settles
    <2>1. /\ UNCHANGED alts
          /\ \E to \in {"queued", "running", "failed", "canceled"} :
                status' = status \/ (Legal(s, to) /\ status' = [status EXCEPT ![s] = to])
          /\ \A f \in Exec : /\ wpc'[f] = "returned" => wpc[f] = "returned"
                             /\ job'[f] = "succeeded" => job[f] = "succeeded"
        <3>1. CASE \/ WorkerStarts(e) \/ WorkerCanceledEarly(e) \/ WorkerLosesInput(e)
                   \/ WorkerReports(e) \/ WorkerCalls(e)
            BY <3>1 DEF WorkerStarts, WorkerCanceledEarly, WorkerLosesInput, WorkerReports,
                        WorkerCalls
        <3>2. CASE WorkerClaims(e)
            BY <3>2, <1>3 DEF WorkerClaims
        <3>3. CASE \/ ProviderCanceled(e) \/ ProviderFails(e)
                   \/ \E got \in SUBSET Alt : ProviderAnswers(e, got)
                   \/ WorkerStores(e) \/ WorkerCanceledLate(e)
            BY <3>3 DEF ProviderCanceled, ProviderFails, ProviderAnswers, WorkerStores,
                        WorkerCanceledLate
        <3>4. CASE WorkerCompletes(e) /\ status[s] # "running"
            BY <3>4, <1>3 DEF WorkerCompletes
        <3>5. CASE WorkerSettles(e)
            BY <3>5 DEF WorkerSettles
        <3>7. CASE WorkerEnds(e)
            <4>1. /\ UNCHANGED <<status, alts>> /\ wpc' = [wpc EXCEPT ![e] = "ended"]
                  /\ \/ job' = job \/ job' = [job EXCEPT ![e] = verdict[e]]
                BY <3>7 DEF WorkerEnds
            <4>2. verdict[e] # "succeeded"
                BY DEF Shape, TypeOK
            <4> QED BY <4>1, <4>2 DEF Shape, TypeOK
        <3>6. CASE WorkerWrites(e)
            BY <3>6, <1>3 DEF WorkerWrites
        <3> QED
            BY <1>7, <3>1, <3>2, <3>3, <3>4, <3>5, <3>6, <3>7 DEF WorkerStep
    <2>2. RowsFit' /\ OutcomeFits' /\ status' \in [Session -> Statuses \cup {"none"}]
        BY <1>4, <2>1, MoveInv
    <2> QED
        BY <2>1, <2>2, WorkerKeepsShape
<1> QED
    BY <1>5, <1>6, <1>7

-----------------------------------------------------------------------------
(* Cancellation and faults *)

LEMMA CancelInv ==
    ASSUME PInv, NEW s \in Session, CancelFinds(s) \/ CancelStep(s)
    PROVE  PInv'
<1> USE DEF PInv, rows, execute, jobs, worker, process
<1>1. /\ UNCHANGED <<retryOf, alts, children, execute, submitted, worker>>
      /\ token' \in [Exec -> BOOLEAN]
      /\ cpc' \in [Session -> {"idle", "found", "canceled", "writing"}]
      /\ victim' \in [Session -> SUBSET Exec]
      /\ job' \in [Exec -> {"none", "succeeded", "failed", "canceled"} \cup ActiveJob]
      /\ \A f \in Exec : /\ job'[f] = "none" <=> job[f] = "none"
                         /\ job'[f] = "succeeded" => job[f] = "succeeded"
    <2> USE DEF Shape, TypeOK
    <2>1. CASE CancelFinds(s)
        BY <2>1 DEF CancelFinds, JobsOf
    <2>2. CASE CancelsJob(s)
        BY <2>2 DEF CancelsJob, Signals, ActiveJob
    <2>3. CASE CancelReads(s) \/ CancelWrites(s)
        BY <2>3 DEF CancelReads, CancelWrites
    <2> QED
        BY <2>1, <2>2, <2>3 DEF CancelStep
<1>2. \E to \in {"queued", "running", "failed", "canceled"} :
         status' = status \/ (Legal(s, to) /\ status' = [status EXCEPT ![s] = to])
    BY DEF CancelFinds, CancelStep, CancelsJob, CancelReads, CancelWrites
<1>3. RowsFit' /\ OutcomeFits' /\ status' \in [Session -> Statuses \cup {"none"}]
    BY <1>1, <1>2, MoveInv
<1>4. TypeOK'
    BY <1>1, <1>3 DEF Shape, TypeOK
<1>5. Shape' /\ RequestFits'
    BY <1>1, <1>4 DEF Shape, RequestFits
<1> QED
    BY <1>3, <1>5

LEMMA FaultInv ==
    ASSUME PInv, (\E e \in Exec : JobCancel(e)) \/ Shutdown \/ Crash \/ Restart
    PROVE  PInv'
<1> USE DEF PInv, rows, execute, jobs, worker, cancel, process
<1>1. /\ UNCHANGED <<status, retryOf, alts, children, of, submitted, answer, verdict, victim>>
      /\ token' \in [Exec -> BOOLEAN]
      /\ cpc' \in [Session -> {"idle", "found", "canceled", "writing"}]
      /\ epc' \in [Exec -> {"idle", "read", "queued", "failing", "done"}]
      /\ wpc' \in [Exec -> WorkerPlaces]
      /\ job' \in [Exec -> {"none", "succeeded", "failed", "canceled"} \cup ActiveJob]
      /\ \A f \in Exec : /\ job'[f] = "none" <=> job[f] = "none"
                         /\ job'[f] = "succeeded" => job[f] = "succeeded"
                         /\ wpc'[f] = "none" <=> wpc[f] = "none"
                         /\ wpc'[f] = "returned" => wpc[f] = "returned"
                         /\ epc'[f] # "idle" <=> epc[f] # "idle"
                         /\ epc'[f] # "done" => epc[f] # "done"
    <2> USE DEF Shape, TypeOK
    <2>1. CASE \E e \in Exec : JobCancel(e)
        BY <2>1 DEF JobCancel, Signals, ActiveJob
    <2>2. CASE Shutdown
        BY <2>2 DEF Shutdown, WorkerPlaces
    <2>3. CASE Crash
        BY <2>3 DEF Crash, WorkerPlaces
    <2>4. CASE Restart
        BY <2>4 DEF Restart
    <2> QED
        BY <2>1, <2>2, <2>3, <2>4
<1>2. RowsFit' /\ OutcomeFits'
    BY <1>1 DEF RowsFit, OutcomeFits
<1>3. TypeOK'
    BY <1>1 DEF Shape, TypeOK
<1>4. Shape' /\ RequestFits'
    BY <1>1, <1>3 DEF Shape, RequestFits
<1> QED
    BY <1>2, <1>4

LEMMA PNextInv == PInv /\ [Next]_vars => PInv'
<1> SUFFICES ASSUME PInv, [Next]_vars PROVE PInv'
    OBVIOUS
<1>1. CASE UNCHANGED vars
    BY <1>1 DEF vars, rows, execute, jobs, worker, cancel, process, PInv, Shape, TypeOK,
                RequestFits, OutcomeFits, RowsFit
<1> QED
    BY <1>1, RequestInv, ReadsInv, HandlerInv, WorkerInv, CancelInv, FaultInv DEF Next

-----------------------------------------------------------------------------

\* The inductive invariant holds in every reachable state.
THEOREM PromptedEditsInvariant == Spec => []PInv
BY PInitInv, PNextInv, PTL DEF Spec

\* What the runs check follows from it.
LEMMA RowsFitMatch == PInv => CandidatesMatchStatus
<1> SUFFICES ASSUME PInv, NEW s \in Session
             PROVE  LET In(st) == {a \in Alt : alts[s][a] = st} IN
                    /\ In("review") # {} <=> status[s] \in Reviewable
                    /\ Cardinality(In("accepted")) = children[s]
                    /\ children[s] = IF status[s] = "accepted" THEN 1 ELSE 0
                    /\ status[s] \in {"none", "prepared", "failed", "canceled"} \cup ActiveSession
                          => In("none") = Alt
    BY DEF CandidatesMatchStatus
<1> USE DEF PInv, RowsFit
<1> DEFINE In(st) == {a \in Alt : alts[s][a] = st}
<1>1. CASE status[s] = "accepted"
    <2>1. PICK a \in Alt : In("accepted") = {a}
        BY <1>1
    <2>2. Cardinality(In("accepted")) = 1
        BY <2>1, FS_Singleton
    <2> QED
        BY <1>1, <2>2 DEF ActiveSession
<1>2. CASE status[s] # "accepted"
    <2>1. In("accepted") = {}
        BY <1>2
    <2>2. Cardinality(In("accepted")) = 0
        BY <2>1, FS_EmptySet
    <2> QED
        BY <1>2, <2>2
<1> QED
    BY <1>1, <1>2

\* Whatever requests, workers and faults race for a session: its row, its
\* alternatives and its revisions agree.
THEOREM SessionInvariant == Spec => []SessionInv
<1>1. PInv => SessionInv
    BY RowsFitMatch DEF PInv, Shape, SessionInv
<1> QED
    BY <1>1, PromptedEditsInvariant, PTL

\* A job that is recorded as succeeded has delivered its session's outcome:
\* the session is neither waiting nor canceled.
THEOREM SuccessDelivers == Spec => []SuccessIsDelivered
<1>1. PInv => SuccessIsDelivered
    <2> SUFFICES ASSUME PInv, NEW e \in Exec, job[e] = "succeeded"
                 PROVE  status[SessionOf(e)] \in Delivered
        BY DEF SuccessIsDelivered, Delivered
    <2>1. PICK s \in Session : of[e] = {s}
        BY DEF PInv, RequestFits
    <2>2. SessionOf(e) = s
        BY <2>1, SessionOfIs
    <2> QED
        BY <2>1, <2>2 DEF PInv, OutcomeFits
<1> QED
    BY <1>1, PromptedEditsInvariant, PTL

-----------------------------------------------------------------------------
(* Mural builds *)

Plan == [generation : Nat, source : Source, layout : Layout]
SaveRequest == [source : Source, layout : Layout, expected : Nat]
BuildRequest == [generation : Nat, source : Source, layout : Layout, geometry : Nat]
BuildStates == {"queued", "running", "succeeded", "failed", "canceled"}
Verdicts == {"not_run", "stored", "validated", "failed"}
Build == [request : BuildRequest, state : BuildStates, made : Package \cup {None},
          verdict : Verdicts]

DraftFits ==
    /\ draft \in [config : Config, generation : Nat]
    /\ edits \in 0 .. MaxEdits /\ draft.generation = edits + Len(revisions) + 1

PreviewRecord == [config : Config, state : {"running", "succeeded", "superseded"}]

PreviewsFit ==
    /\ previews \in Seq(PreviewRecord)
    /\ Len(previews) \in 1 .. MaxPreviews

RevisionRecord == [config : Config, preview : Preview]

RevisionsFit ==
    /\ revisions \in Seq(RevisionRecord)
    /\ Len(revisions) \in 0 .. MaxRevisions

PlansFit ==
    /\ plan \in Plan \cup {None}
    /\ seen \in [Editor -> Plan \cup {None}]
    /\ asked \in [Editor -> SaveRequest \cup {None}]

\* Work has its inputs from the time it is loaded, and they are a draft's: the
\* labels of a revision match no geometry.
BuildsFit ==
    /\ builds \in Seq(Build)
    /\ \A j \in DOMAIN builds :
          /\ builds[j].state = "succeeded" \/ builds[j].state = "running" => builds[j].made # None
          /\ builds[j].made # None => builds[j].made.source.revision = 0
    /\ DOMAIN file \subseteq Package

MInv == /\ DraftFits /\ PreviewsFit /\ RevisionsFit /\ PlansFit /\ BuildsFit
        /\ BuildsWhatWasAsked /\ OneBuildAtATime

LEMMA Element ==
    ASSUME NEW S, NEW s \in Seq(S), NEW i \in DOMAIN s
    PROVE  s[i] \in S /\ DOMAIN s = 1 .. Len(s) /\ Len(s) \in Nat
OBVIOUS

LEMMA MInvMeans == MInv => MuralInv
<1> SUFFICES ASSUME MInv PROVE MTypeOK
    BY DEF MInv, MuralInv
<1> USE DEF MInv
<1>1. draft.config \in Config /\ draft.generation \in 1 .. MaxEdits + MaxRevisions + 1
    BY BoundAssumption DEF DraftFits, RevisionsFit
<1>2. \A n \in DOMAIN previews : previews[n].state \in {"running", "succeeded", "superseded"}
    <2>1. \A n \in DOMAIN previews : previews[n] \in PreviewRecord
        BY Element DEF PreviewsFit
    <2> QED
        BY <2>1 DEF PreviewRecord
<1>3. plan # None => plan.source \in Source /\ plan.layout \in Layout
    BY DEF PlansFit, Plan
<1>4. \A j \in DOMAIN builds : builds[j] \in Build
    BY Element DEF BuildsFit
<1> QED
    BY <1>1, <1>2, <1>3, <1>4 DEF MTypeOK, BuildsFit, Build, BuildStates

LEMMA MInitInv == MInit => MInv
<1> SUFFICES ASSUME MInit PROVE MInv
    OBVIOUS
<1> USE ConfigAssumption, BoundAssumption DEF MInit
<1>1. (CHOOSE c \in Config : TRUE) \in Config
    OBVIOUS
<1>2. DraftFits /\ RevisionsFit
    BY <1>1 DEF DraftFits, RevisionsFit
<1>3. PreviewsFit
    <2>1. [config |-> draft.config, state |-> "succeeded"] \in PreviewRecord
        BY <1>2 DEF DraftFits, PreviewRecord
    <2>2. \A r \in PreviewRecord : <<r>> \in Seq(PreviewRecord) /\ Len(<<r>>) = 1
        OBVIOUS
    <2> QED
        BY <2>1, <2>2 DEF PreviewsFit
<1>4. PlansFit
    BY DEF PlansFit
<1>5. BuildsFit /\ BuildsWhatWasAsked /\ OneBuildAtATime
    BY DEF BuildsFit, BuildsWhatWasAsked, OneBuildAtATime
<1> QED
    BY <1>2, <1>3, <1>4, <1>5 DEF MInv

-----------------------------------------------------------------------------
(* The draft, its previews and the plan *)

\* A step that touches no build keeps what is said of them.
LEMMA BuildsKept ==
    ASSUME MInv, UNCHANGED <<builds, file>>
    PROVE  BuildsFit' /\ BuildsWhatWasAsked' /\ OneBuildAtATime'
BY DEF MInv, BuildsFit, BuildsWhatWasAsked, OneBuildAtATime, Active

LEMMA DraftInv ==
    ASSUME MInv,
           \/ \E c \in Config : EditDraft(c)
           \/ StartPreview \/ PublishRevision
           \/ \E n \in DOMAIN previews : FinishPreview(n)
    PROVE  MInv'
<1> USE BoundAssumption DEF MInv
<1>1. UNCHANGED <<plan, seen, asked, builds, file>>
    BY DEF EditDraft, StartPreview, PublishRevision, FinishPreview, work
<1>2. BuildsFit' /\ BuildsWhatWasAsked' /\ OneBuildAtATime'
    BY <1>1, BuildsKept
<1>3. PlansFit'
    BY <1>1 DEF PlansFit
<1>4. ASSUME NEW c \in Config, EditDraft(c)
      PROVE  DraftFits' /\ PreviewsFit' /\ RevisionsFit'
    BY <1>4 DEF EditDraft, DraftFits, PreviewsFit, RevisionsFit
<1>5. CASE StartPreview
    <2> DEFINE older == [n \in DOMAIN previews |->
                            IF previews[n].state = "running"
                            THEN [previews[n] EXCEPT !.state = "superseded"] ELSE previews[n]]
               new == [config |-> draft.config, state |-> "running"]
    <2>1. \A n \in DOMAIN previews : previews[n] \in PreviewRecord
        BY Element DEF PreviewsFit
    <2>2. \A n \in DOMAIN previews : older[n] \in PreviewRecord
        BY <2>1 DEF PreviewRecord
    <2>3. older \in Seq(PreviewRecord) /\ Len(older) = Len(previews)
        <3>1. older \in [1 .. Len(previews) -> PreviewRecord]
            BY <2>2 DEF PreviewsFit
        <3> QED
            BY <3>1 DEF PreviewsFit
    <2>4. new \in PreviewRecord
        BY DEF DraftFits, PreviewRecord
    <2>5. previews' = Append(older, new) /\ Len(previews) < MaxPreviews
          /\ UNCHANGED <<draft, edits, revisions>>
        BY <1>5 DEF StartPreview
    <2> HIDE DEF older, new
    <2>6. previews' \in Seq(PreviewRecord) /\ Len(previews') = Len(previews) + 1
        BY <2>3, <2>4, <2>5
    <2>7. PreviewsFit'
        BY <2>5, <2>6 DEF PreviewsFit
    <2> QED
        BY <1>2, <1>3, <2>5, <2>7 DEF DraftFits, RevisionsFit
<1>6. ASSUME NEW n \in DOMAIN previews, FinishPreview(n)
      PROVE  DraftFits' /\ PreviewsFit' /\ RevisionsFit'
    <2>1. previews[n] \in PreviewRecord /\ DOMAIN previews = 1 .. Len(previews)
        BY Element DEF PreviewsFit
    <2>2. [previews[n] EXCEPT !.state = "succeeded"] \in PreviewRecord
        BY <2>1 DEF PreviewRecord
    <2>3. previews' = [previews EXCEPT ![n] = [previews[n] EXCEPT !.state = "succeeded"]]
        BY <1>6 DEF FinishPreview
    <2>4. previews' \in Seq(PreviewRecord) /\ Len(previews') = Len(previews)
        BY <2>1, <2>2, <2>3 DEF PreviewsFit
    <2>5. PreviewsFit'
        BY <2>4 DEF PreviewsFit
    <2> QED
        BY <1>6, <2>5 DEF FinishPreview, DraftFits, RevisionsFit
<1>7. CASE PublishRevision
    <2> DEFINE new == [config |-> draft.config, preview |-> Len(previews)]
    <2>1. new \in RevisionRecord
        BY DEF DraftFits, PreviewsFit, RevisionRecord, Preview
    <2>2. /\ revisions' = Append(revisions, new) /\ Len(revisions) < MaxRevisions
          /\ draft' = [config |-> draft.config, generation |-> draft.generation + 1]
          /\ UNCHANGED <<previews, edits>>
        BY <1>7 DEF PublishRevision
    <2> HIDE DEF new
    <2>3. revisions' \in Seq(RevisionRecord) /\ Len(revisions') = Len(revisions) + 1
        BY <2>1, <2>2 DEF RevisionsFit
    <2>4. RevisionsFit'
        BY <2>2, <2>3 DEF RevisionsFit
    <2>5. PreviewsFit'
        BY <2>2 DEF PreviewsFit
    <2>6. DraftFits'
        <3>1. draft' \in [config : Config, generation : Nat]
              /\ draft'.generation = draft.generation + 1
            BY <2>2 DEF DraftFits
        <3>2. draft.generation = edits + Len(revisions) + 1 /\ edits \in 0 .. MaxEdits
              /\ Len(revisions) \in Nat
            BY DEF DraftFits, RevisionsFit
        <3>3. draft'.generation = edits' + Len(revisions') + 1
            BY <2>2, <2>3, <3>1, <3>2
        <3> QED
            BY <2>2, <3>1, <3>2, <3>3 DEF DraftFits
    <2> QED
        BY <1>2, <1>3, <2>4, <2>5, <2>6
<1> QED
    BY <1>2, <1>3, <1>4, <1>5, <1>6, <1>7

LEMMA PlanInv ==
    ASSUME MInv, NEW e \in Editor,
           \/ Look(e) \/ Save(e) \/ Delete(e)
           \/ \E s \in Sources, l \in Layout : Ask(e, s, l)
    PROVE  MInv'
<1> USE DEF MInv
<1>1. UNCHANGED <<draft, edits, previews, revisions, builds, file>>
    BY DEF Look, Save, Delete, Ask, work
<1>2. BuildsFit' /\ BuildsWhatWasAsked' /\ OneBuildAtATime'
    BY <1>1, BuildsKept
<1>3. DraftFits' /\ PreviewsFit' /\ RevisionsFit'
    BY <1>1 DEF DraftFits, PreviewsFit, RevisionsFit
<1>4. CASE Look(e) \/ Delete(e)
    BY <1>2, <1>3, <1>4 DEF Look, Delete, PlansFit
<1>5. CASE Save(e)
    <2>1. asked[e] \in SaveRequest /\ Generation \in Nat
        BY <1>5 DEF Save, PlansFit, Generation, Plan
    <2>2. [generation |-> Generation + 1, source |-> asked[e].source,
           layout |-> asked[e].layout] \in Plan
        BY <2>1 DEF Plan, SaveRequest
    <2>3. PlansFit'
        BY <1>5, <2>2 DEF Save, PlansFit
    <2> QED
        BY <1>2, <1>3, <2>3
<1>6. ASSUME NEW s \in Sources, NEW l \in Layout, Ask(e, s, l)
      PROVE  PlansFit'
    <2>1. s \in Source
        <3>1. ASSUME NEW n \in DOMAIN previews
              PROVE  DraftSource(n) \in Source
            BY <3>1, BoundAssumption DEF DraftSource, DraftFits, RevisionsFit, PreviewsFit, Source,
                                         Preview
        <3>2. ASSUME NEW k \in DOMAIN revisions
              PROVE  RevisionSource(k) \in Source
            <4>1. revisions[k] \in RevisionRecord /\ k \in Nat
                BY <3>2, Element DEF RevisionsFit
            <4> QED
                BY <4>1 DEF RevisionRecord, RevisionSource, Source
        <3> QED
            BY <3>1, <3>2 DEF Sources
    <2>2. (IF seen[e] = None THEN 0 ELSE seen[e].generation) \in Nat
        BY DEF PlansFit, Plan
    <2> QED
        BY <1>6, <2>1, <2>2 DEF Ask, PlansFit, SaveRequest
<1> QED
    BY <1>2, <1>3, <1>4, <1>5, <1>6

-----------------------------------------------------------------------------
(* Builds *)

\* A start cancels the build under way and appends its own.
LEMMA StartInv ==
    ASSUME MInv, NEW e \in Editor, NEW n \in DOMAIN previews, Start(e, n)
    PROVE  MInv'
<1> USE DEF MInv
<1>1. DraftFits' /\ PreviewsFit' /\ RevisionsFit' /\ PlansFit'
    BY DEF Start, DraftFits, PreviewsFit, RevisionsFit, PlansFit
<1> DEFINE r == Request(seen[e], n)
<1>2. r \in BuildRequest
    BY DEF Start, Request, PlansFit, PreviewsFit, Plan, BuildRequest
<1>3. CASE Reuse(r)
    BY <1>1, <1>3, BuildsKept DEF Reuse, Start
<1>4. CASE Submit(r)
    <2> DEFINE older == [j \in DOMAIN builds |->
                            IF Active(j) THEN [builds[j] EXCEPT !.state = "canceled"]
                                         ELSE builds[j]]
               new == [request |-> r, state |-> "queued", made |-> None, verdict |-> "not_run"]
    <2>1. builds' = Append(older, new) /\ file' = file
        BY <1>4 DEF Submit, Start
    <2>2. new \in Build
        BY <1>2 DEF Build, BuildStates, Verdicts
    <2>3. \A j \in DOMAIN builds :
             /\ older[j] \in Build
             /\ older[j].state \in {"succeeded", "failed", "canceled"}
             /\ older[j].state = "succeeded" => builds[j].state = "succeeded"
             /\ older[j].made = builds[j].made /\ older[j].request = builds[j].request
        <3>1. \A j \in DOMAIN builds : builds[j] \in Build
            BY Element DEF BuildsFit
        <3> QED
            BY <3>1 DEF Build, BuildStates, Active
    <2>4. older \in Seq(Build) /\ Len(older) = Len(builds) /\ DOMAIN builds = 1 .. Len(builds)
        <3>1. older \in [1 .. Len(builds) -> Build]
            BY <2>3 DEF BuildsFit
        <3> QED
            BY <3>1 DEF BuildsFit
    <2> HIDE DEF older
    <2>5. /\ builds' \in Seq(Build) /\ Len(builds') = Len(builds) + 1
          /\ DOMAIN builds' = 1 .. Len(builds) + 1
          /\ \A j \in DOMAIN builds : builds'[j] = older[j]
          /\ builds'[Len(builds) + 1] = new
        BY <2>1, <2>2, <2>4
    <2>6. \A j \in DOMAIN builds' : j \in DOMAIN builds \/ j = Len(builds) + 1
        BY <2>4, <2>5
    <2>7. BuildsFit'
        BY <2>1, <2>3, <2>5, <2>6 DEF BuildsFit
    <2>8. BuildsWhatWasAsked'
        BY <2>3, <2>5, <2>6 DEF BuildsWhatWasAsked, Made
    <2>9. OneBuildAtATime'
        BY <2>3, <2>5, <2>6 DEF OneBuildAtATime, Active
    <2> QED
        BY <1>1, <2>7, <2>8, <2>9
<1> QED
    BY <1>3, <1>4 DEF Start

\* A thread works on an active build, and loads what its request names.
LEMMA WorkInv ==
    ASSUME MInv, NEW j \in DOMAIN builds,
           Load(j) \/ Store(j) \/ Validate(j) \/ Publish(j)
    PROVE  MInv'
<1> USE DEF MInv
<1>1. DraftFits' /\ PreviewsFit' /\ RevisionsFit' /\ PlansFit'
    BY DEF Load, Store, Validate, Publish, Surroundings, DraftFits, PreviewsFit,
           RevisionsFit, PlansFit
<1>2. builds[j] \in Build /\ Active(j)
    BY DEF BuildsFit, Load, Store, Validate, Publish, Active
<1>3. PICK b \in Build :
         /\ builds' = [builds EXCEPT ![j] = b]
         /\ b.request = builds[j].request
         /\ b.made # None => b.made = Made(b.request)
         /\ b.state = "running" \/ b.state = "succeeded" => b.made # None
         /\ b.made # None => b.made.source.revision = 0
    <2>1. CASE Load(j)
        <3>1. CASE Loadable(builds[j].request)
            <4>1. /\ Made(plan) \in Package /\ Made(plan) = Made(builds[j].request)
                  /\ Made(plan).source.revision = 0
                BY <3>1 DEF Loadable, Matching, GeometryRevision, PlansFit, Plan, Made, Package
            <4>2. builds' = [builds EXCEPT ![j] = [builds[j] EXCEPT !.state = "running",
                                                                    !.made = Made(plan)]]
                BY <2>1, <3>1, <1>2 DEF Load, BuildsFit
            <4>3. [builds[j] EXCEPT !.state = "running", !.made = Made(plan)] \in Build
                BY <1>2, <4>1 DEF Build, BuildStates
            <4> QED
                BY <1>2, <4>1, <4>2, <4>3, NoneAssumption DEF Build
        <3>2. CASE ~Loadable(builds[j].request)
            <4>1. builds' = [builds EXCEPT ![j] = [builds[j] EXCEPT !.state = "failed"]]
                BY <2>1, <3>2, <1>2 DEF Load, Fate, BuildsFit
            <4>2. [builds[j] EXCEPT !.state = "failed"] \in Build
                BY <1>2 DEF Build, BuildStates
            <4> QED
                BY <1>2, <4>1, <4>2 DEF Build, BuildsFit, BuildsWhatWasAsked
        <3> QED
            BY <3>1, <3>2
    <2>2. CASE Store(j) \/ Validate(j) \/ Publish(j)
        <3>1. /\ builds[j].made # None /\ builds[j].made = Made(builds[j].request)
              /\ builds[j].made.source.revision = 0
            BY <2>2 DEF Store, Validate, Publish, BuildsFit, BuildsWhatWasAsked
        <3>2. builds[j].state \in BuildStates /\ builds[j].verdict \in Verdicts
            BY <1>2 DEF Build
        <3>3. PICK s \in BuildStates, v \in Verdicts :
                 builds' = [builds EXCEPT ![j] = [builds[j] EXCEPT !.state = s, !.verdict = v]]
            <4> DEFINE Becomes(s, v) ==
                   builds' = [builds EXCEPT ![j] = [builds[j] EXCEPT !.state = s, !.verdict = v]]
            <4>1. ASSUME NEW s \in {"failed", "succeeded"}, Fate(j, s)
                  PROVE  Becomes(s, builds[j].verdict)
                BY <1>2, <4>1 DEF Fate, Build
            <4>2. ASSUME NEW v \in {"stored", "validated", "failed"},
                         builds' = [builds EXCEPT ![j].verdict = v]
                  PROVE  Becomes(builds[j].state, v)
                BY <1>2, <4>2 DEF Build
            <4> HIDE DEF Becomes
            <4>3. CASE Store(j)
                <5>1. Becomes("failed", builds[j].verdict) \/ Becomes(builds[j].state, "stored")
                    BY <4>3, <4>1, <4>2 DEF Store
                <5> QED
                    BY <5>1, <3>2 DEF BuildStates, Verdicts, Becomes
            <4>4. CASE Validate(j)
                <5>1. \E v \in {"validated", "failed"} : Becomes(builds[j].state, v)
                    BY <4>4, <4>2 DEF Validate
                <5> QED
                    BY <5>1, <3>2 DEF Verdicts, Becomes
            <4>5. CASE Publish(j)
                <5>1. \E s \in {"failed", "succeeded"} : Becomes(s, builds[j].verdict)
                    BY <4>5, <4>1 DEF Publish
                <5> QED
                    BY <5>1, <3>2 DEF BuildStates, Becomes
            <4> QED
                BY <2>2, <4>3, <4>4, <4>5
        <3>4. [builds[j] EXCEPT !.state = s, !.verdict = v] \in Build
            BY <1>2 DEF Build
        <3> QED
            BY <1>2, <3>1, <3>3, <3>4 DEF Build
    <2> QED
        BY <2>1, <2>2
<1>4. DOMAIN file' \subseteq Package
    <2>1. CASE Store(j)
        <3>1. builds[j].made \in Package
            BY <2>1, <1>2 DEF Store, BuildsFit, Build
        <3> QED
            BY <2>1, <3>1 DEF Store, Written, BuildsFit
    <2>2. CASE ~Store(j)
        BY <2>2 DEF Load, Validate, Publish, BuildsFit
    <2> QED
        BY <2>1, <2>2
<1>5. /\ builds' \in Seq(Build) /\ DOMAIN builds' = DOMAIN builds
      /\ Len(builds') = Len(builds)
      /\ builds'[j] = b /\ \A i \in DOMAIN builds \ {j} : builds'[i] = builds[i]
    BY <1>3 DEF BuildsFit
<1>6. BuildsFit'
    BY <1>3, <1>4, <1>5 DEF BuildsFit
<1>7. BuildsWhatWasAsked'
    BY <1>3, <1>5 DEF BuildsWhatWasAsked, Made
<1>8. OneBuildAtATime'
    BY <1>2, <1>5 DEF OneBuildAtATime, Active
<1> QED
    BY <1>1, <1>6, <1>7, <1>8

LEMMA DamageInv == ASSUME MInv, Damage PROVE MInv'
<1> USE DEF MInv, Damage, Surroundings
<1>1. DraftFits' /\ PreviewsFit' /\ RevisionsFit' /\ PlansFit'
    BY DEF DraftFits, PreviewsFit, RevisionsFit, PlansFit
<1>2. BuildsFit'
    BY DEF BuildsFit, Written
<1>3. BuildsWhatWasAsked' /\ OneBuildAtATime'
    BY DEF BuildsWhatWasAsked, OneBuildAtATime, Active
<1> QED
    BY <1>1, <1>2, <1>3

LEMMA MNextInv == MInv /\ [MNext]_mvars => MInv'
<1> SUFFICES ASSUME MInv, [MNext]_mvars PROVE MInv'
    OBVIOUS
<1>1. CASE UNCHANGED mvars
    BY <1>1 DEF mvars, MInv, DraftFits, PreviewsFit, RevisionsFit, PlansFit, BuildsFit,
                BuildsWhatWasAsked, OneBuildAtATime, Active
<1> QED
    BY <1>1, DraftInv, PlanInv, StartInv, WorkInv, DamageInv DEF MNext

-----------------------------------------------------------------------------

\* However plan, draft and previews change between a request, the work and
\* another request: one build is under way at most, the newest, and whatever a
\* build packages is the plan its author saw.
THEOREM MuralInvariant == MSpec => []MuralInv
BY MInitInv, MNextInv, MInvMeans, PTL DEF MSpec

-----------------------------------------------------------------------------
(* What is offered and answered *)

\* A package that was stored is in the store, intact or damaged, and a build
\* that succeeded has been through the slicer.
OutputsFit ==
    /\ \A m \in DOMAIN file : file[m] \in {"ok", "bad"}
    /\ \A j \in DOMAIN builds :
          /\ builds[j].verdict # "not_run" => builds[j].made \in DOMAIN file
          /\ builds[j].state = "queued" => builds[j].verdict = "not_run"
          /\ builds[j].state = "succeeded" => builds[j].verdict \in {"validated", "failed"}

\* What a submission does to the builds there are.
LEMMA Submitted ==
    ASSUME MInv, NEW r, Submit(r)
    PROVE  /\ DOMAIN builds' = DOMAIN builds \cup {Len(builds) + 1}
           /\ Len(builds') = Len(builds) + 1
           /\ builds'[Len(builds) + 1].request = r
           /\ builds'[Len(builds) + 1].state = "queued"
           /\ builds'[Len(builds) + 1].verdict = "not_run"
           /\ \A j \in DOMAIN builds :
                 builds'[j] = IF Active(j) THEN [builds[j] EXCEPT !.state = "canceled"]
                                           ELSE builds[j]
<1> DEFINE older == [j \in DOMAIN builds |->
                        IF Active(j) THEN [builds[j] EXCEPT !.state = "canceled"] ELSE builds[j]]
           new == [request |-> r, state |-> "queued", made |-> None, verdict |-> "not_run"]
           S == {older[j] : j \in DOMAIN builds}
<1>1. builds' = Append(older, new)
    BY DEF Submit
<1>2. older \in Seq(S) /\ Len(older) = Len(builds) /\ DOMAIN builds = 1 .. Len(builds)
      /\ Len(builds) \in Nat
    <2>1. older \in [1 .. Len(builds) -> S]
        BY DEF MInv, BuildsFit
    <2> QED
        BY <2>1 DEF MInv, BuildsFit
<1> HIDE DEF S, new
<1>3. /\ DOMAIN builds' = 1 .. Len(builds) + 1 /\ Len(builds') = Len(builds) + 1
      /\ \A j \in DOMAIN builds : builds'[j] = older[j]
      /\ builds'[Len(builds) + 1] = new
    <2> HIDE DEF older
    <2> QED
        BY <1>1, <1>2
<1>4. new.request = r /\ new.state = "queued" /\ new.verdict = "not_run"
    BY DEF new
<1> QED
    BY <1>2, <1>3, <1>4

\* What a thread does to the builds there are.
LEMMA Worked ==
    ASSUME MInv, NEW j \in DOMAIN builds,
           Load(j) \/ Store(j) \/ Validate(j) \/ Publish(j)
    PROVE  /\ DOMAIN builds' = DOMAIN builds
           /\ \A i \in DOMAIN builds \ {j} : builds'[i] = builds[i]
           /\ Load(j) => /\ builds'[j].verdict = builds[j].verdict
                         /\ builds'[j].state \in {"running", "failed"}
           /\ ~Load(j) => builds'[j].made = builds[j].made
           /\ Store(j) => \/ /\ builds'[j].verdict = "stored" /\ builds'[j].state = "running"
                             /\ file' = Written(builds[j].made, "ok")
                          \/ /\ builds'[j].verdict = "not_run" /\ builds'[j].state = "failed"
                             /\ UNCHANGED file
           /\ Validate(j) => /\ builds'[j].verdict \in {"validated", "failed"}
                             /\ builds'[j].state = "running"
           /\ Publish(j) => /\ builds'[j].verdict = builds[j].verdict
                            /\ builds'[j].state \in {"succeeded", "failed"}
<1>1. builds \in Seq(Build) /\ builds[j] \in Build
    BY Element DEF MInv, BuildsFit
<1>2. CASE Load(j)
    BY <1>1, <1>2 DEF Load, Store, Validate, Publish, Fate, Build
<1>3. CASE Store(j)
    BY <1>1, <1>3 DEF Load, Store, Validate, Publish, Fate, Build
<1>4. CASE Validate(j)
    BY <1>1, <1>4 DEF Load, Store, Validate, Publish, Fate, Build
<1>5. CASE Publish(j)
    BY <1>1, <1>5 DEF Load, Store, Validate, Publish, Fate, Build
<1> QED
    BY <1>2, <1>3, <1>4, <1>5

LEMMA OutputsInv ==
    ASSUME MInv, OutputsFit, [MNext]_mvars
    PROVE  OutputsFit'
<1> USE DEF OutputsFit
<1>1. CASE UNCHANGED <<builds, file>>
    BY <1>1
<1>2. ASSUME NEW r, Submit(r), UNCHANGED file
      PROVE  OutputsFit'
    <2>1. \A j \in DOMAIN builds :
             /\ builds'[j].verdict = builds[j].verdict /\ builds'[j].made = builds[j].made
             /\ builds'[j].state = builds[j].state \/ builds'[j].state = "canceled"
        <3>1. \A j \in DOMAIN builds : builds[j] \in Build
            BY Element DEF MInv, BuildsFit
        <3> QED
            BY <1>2, <3>1, Submitted DEF Build
    <2>2. /\ DOMAIN builds' = DOMAIN builds \cup {Len(builds) + 1}
          /\ builds'[Len(builds) + 1].state = "queued"
          /\ builds'[Len(builds) + 1].verdict = "not_run"
        BY <1>2, Submitted
    <2> QED
        BY <1>2, <2>1, <2>2
<1>3. ASSUME NEW j \in DOMAIN builds, Load(j) \/ Store(j) \/ Validate(j) \/ Publish(j)
      PROVE  OutputsFit'
    <2>1. /\ DOMAIN builds' = DOMAIN builds
          /\ \A i \in DOMAIN builds \ {j} : builds'[i] = builds[i]
        BY <1>3, Worked
    <2>2. CASE Load(j)
        <3>1. /\ builds'[j].verdict = builds[j].verdict /\ builds'[j].state \in {"running", "failed"}
              /\ builds[j].state = "queued" /\ UNCHANGED file
            BY <2>2, Worked DEF Load
        <3> QED
            BY <2>1, <3>1
    <2>3. CASE ~Load(j)
        <3>1. builds'[j].made = builds[j].made
            BY <1>3, <2>3, Worked
        <3>2. CASE Store(j)
            <4>1. \/ /\ builds'[j].verdict = "stored" /\ builds'[j].state = "running"
                     /\ file' = Written(builds[j].made, "ok")
                  \/ /\ builds'[j].verdict = "not_run" /\ builds'[j].state = "failed"
                     /\ UNCHANGED file
                BY <3>2, Worked
            <4> QED
                BY <2>1, <3>1, <4>1 DEF Written
        <3>3. CASE Validate(j)
            <4>1. /\ builds[j].verdict = "stored" /\ UNCHANGED file /\ builds'[j].state = "running"
                  /\ builds'[j].verdict \in {"validated", "failed"}
                BY <3>3, Worked DEF Validate
            <4> QED
                BY <2>1, <3>1, <4>1
        <3>4. CASE Publish(j)
            <4>1. /\ builds[j].verdict \in {"validated", "failed"} /\ UNCHANGED file
                  /\ builds'[j].verdict = builds[j].verdict
                  /\ builds'[j].state \in {"succeeded", "failed"}
                BY <3>4, Worked DEF Publish
            <4> QED
                BY <2>1, <3>1, <4>1
        <3> QED
            BY <1>3, <2>3, <3>2, <3>3, <3>4
    <2> QED
        BY <2>2, <2>3
<1>4. CASE Damage
    BY <1>4 DEF Damage, Written, Surroundings
<1> QED
    BY <1>1, <1>2, <1>3, <1>4
       DEF MNext, mvars, work, EditDraft, StartPreview, PublishRevision, FinishPreview, Look, Ask,
           Save, Delete, Start, Reuse

LEMMA OutputsInit == MInit => OutputsFit
BY DEF MInit, OutputsFit

\* An answer is a job of exactly the request: one that was accepted if it comes
\* from the cache, and a new one only if no finished build will do.
LEMMA AnswerExact ==
    ASSUME MInv, OutputsFit, NEW r, Submit(r) \/ (Reuse(r) /\ UNCHANGED builds)
    PROVE  /\ builds'[response'.job].request = response'.request
           /\ response'.cached => builds[response'.job].verdict = "validated"
           /\ (Len(builds') > Len(builds)) =>
                 \A j \in DOMAIN builds : builds[j].request = response'.request =>
                     builds[j].state # "succeeded" \/ builds[j].verdict = "failed"
                     \/ FileOf(builds[j].made) = "bad"
<1>1. CASE Submit(r)
    <2>1. response' = [request |-> r, job |-> Len(builds) + 1, cached |-> FALSE]
        BY <1>1 DEF Submit
    <2>2. builds'[Len(builds) + 1].request = r
        BY <1>1, Submitted
    <2>3. ASSUME NEW j \in DOMAIN builds, builds[j].request = r, builds[j].state = "succeeded"
          PROVE  builds[j].verdict = "failed" \/ FileOf(builds[j].made) = "bad"
        <3>1. ~Reusable(j)
            BY <1>1, <2>3 DEF Submit, OfRequest
        <3> QED
            BY <2>3, <3>1 DEF Reusable, OutputsFit, FileOf
    <2> QED
        BY <2>1, <2>2, <2>3
<1>2. CASE Reuse(r) /\ UNCHANGED builds
    <2>1. PICK j \in OfRequest(r) :
             /\ Reusable(j) \/ Active(j)
             /\ response' = [request |-> r, job |-> j, cached |-> ~Active(j)]
        BY <1>2 DEF Reuse
    <2>2. response'.request = r /\ response'.job = j /\ (response'.cached => ~Active(j))
        BY <2>1, Zenon
    <2>3. builds[j].request = r /\ (~Active(j) => builds[j].verdict = "validated")
        BY <2>1 DEF OfRequest, Reusable
    <2>4. ~(Len(builds') > Len(builds))
        BY <1>2 DEF MInv, BuildsFit
    <2> QED
        BY <1>2, <2>2, <2>3, <2>4, Zenon
<1> QED
    BY <1>1, <1>2

LEMMA SaveExact ==
    ASSUME MInv, [MNext]_mvars, plan' # plan, plan' # None
    PROVE  LET s == plan'.source
           IN /\ previews[s.preview].config = s.config
              /\ \/ s.revision = 0 /\ s = DraftSource(Len(previews))
                 \/ s.revision \in DOMAIN revisions /\ s = RevisionSource(s.revision)
<1>1. PICK e \in Editor : Save(e)
    BY DEF MNext, mvars, EditDraft, StartPreview, PublishRevision, FinishPreview, Look, Ask, Delete,
           Start, Load, Store, Validate, Publish, Damage, Surroundings
<1> DEFINE s == asked[e].source
<1>2. Valid(s) /\ plan'.source = s /\ asked[e] # None
    BY <1>1 DEF Save
<1>3. s \in Source
    BY <1>2 DEF MInv, PlansFit, SaveRequest
<1> HIDE DEF s
<1>4. CASE s.revision = 0
    <2>1. /\ s.preview = Len(previews) /\ s.generation = draft.generation
          /\ s.config = draft.config
        BY <1>2, <1>4 DEF Valid, ValidDraft
    <2>2. s = DraftSource(Len(previews))
        BY <1>3, <1>4, <2>1 DEF DraftSource, Source
    <2> QED
        BY <1>2, <1>4, <2>2 DEF Valid
<1>5. CASE s.revision # 0
    BY <1>2, <1>5 DEF Valid, ValidRevision
<1> QED
    BY <1>4, <1>5

(* Whatever happened to the draft, its previews, its revisions and the plan *)
(* since a build was asked for, a package that is offered for download is   *)
(* of the saved plan and shows the draft as it is.  The plan of a revision  *)
(* is valid whatever the draft is: the invariant says that no build is made *)
(* of one.                                                                  *)
THEOREM OfferedIsCurrent == MSpec => []DownloadIsCurrent
<1>1. MInv => DownloadIsCurrent
    <2> SUFFICES ASSUME MInv, NEW j \in DOMAIN builds, DownloadReady(j)
                 PROVE  /\ builds[j].made = Made(plan)
                        /\ builds[j].verdict = "validated"
                        /\ builds[j].made.source.config = draft.config
                        /\ builds[j].made.source.preview = Len(previews)
        BY DEF DownloadIsCurrent
    <2>1. /\ builds[j].made = Made(plan) /\ Valid(plan.source)
          /\ builds[j].verdict = "validated" /\ builds[j].state = "succeeded"
        BY DEF DownloadReady, Stale
    <2>2. builds[j].made.source.revision = 0
        BY <2>1 DEF MInv, BuildsFit
    <2>3. builds[j].made.source = plan.source
        BY <2>1 DEF Made
    <2> QED
        BY <2>1, <2>2, <2>3 DEF Valid, ValidDraft
<1> QED
    BY <1>1, MInitInv, MNextInv, PTL DEF MSpec

(* The safety part of RequestsAreMet: an answer from the cache is a build  *)
(* of the very request that the slicer accepted, a second job is made only *)
(* of a request without one, and a plan is saved only while its source is  *)
(* the current preview of the current draft, or is a published revision.   *)
THEOREM AnswersAndSavesAreExact == MSpec => AnsweredExactly /\ SavedPlanShowsItsSource
<1>1. MSpec => [](MInv /\ OutputsFit)
    BY MInitInv, MNextInv, OutputsInit, OutputsInv, PTL DEF MSpec
<1>2. MInv /\ OutputsFit /\ [MNext]_mvars =>
          [response' # response =>
             /\ builds'[response'.job].request = response'.request
             /\ response'.cached => builds[response'.job].verdict = "validated"
             /\ (Len(builds') > Len(builds)) =>
                   \A j \in DOMAIN builds : builds[j].request = response'.request =>
                       builds[j].state # "succeeded" \/ builds[j].verdict = "failed"
                       \/ FileOf(builds[j].made) = "bad"]_mvars
    <2> SUFFICES ASSUME MInv, OutputsFit, MNext, response' # response
                 PROVE  \E e \in Editor, n \in DOMAIN previews :
                           \/ Submit(Request(seen[e], n))
                           \/ Reuse(Request(seen[e], n)) /\ UNCHANGED builds
        BY AnswerExact
    <2> QED
        BY DEF MNext, EditDraft, StartPreview, PublishRevision, FinishPreview, Look, Ask, Save, Delete,
               Start, work, Reuse, Load, Store, Validate, Publish, Damage, Surroundings
<1>3. MInv /\ [MNext]_mvars =>
          [(plan' # plan /\ plan' # None) =>
             LET s == plan'.source
             IN /\ previews[s.preview].config = s.config
                /\ \/ s.revision = 0 /\ s = DraftSource(Len(previews))
                   \/ s.revision \in DOMAIN revisions /\ s = RevisionSource(s.revision)]_mvars
    BY SaveExact
<1> QED
    BY <1>1, <1>2, <1>3, PTL DEF MSpec, AnsweredExactly, SavedPlanShowsItsSource

=============================================================================
