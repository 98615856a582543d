---------------------------- MODULE PromptedEdits ---------------------------
(***************************************************************************)
(* Prompted-edit sessions: PromptedEditLifecycle, PromptedEditService and  *)
(* PromptedEditRepository.  A session row and the job that works for it    *)
(* are written by different transactions of different threads: the request *)
(* handlers of execute and cancel, the job's worker, the generic job API,  *)
(* shutdown and loss of the process.  The job table and the pool are       *)
(* reduced to what the session sees of them; JobStore and Workers have     *)
(* them in full.  An Exec is one execute request and the job it submits.   *)
(***************************************************************************)
EXTENDS Naturals, Sequences, FiniteSets

CONSTANTS
    Session,   \* prompted_edit_sessions
    Exec,      \* execute requests
    Alt,       \* alternative positions
    Faults     \* what may happen besides the session's own requests

\* "job_cancel": POST /api/jobs/{id}/cancel; "request": the mask or an asset
\* cannot be read any more when the job starts.
AllFaults == {"job_cancel", "shutdown", "crash", "request"}

ASSUME FaultsAssumption == Faults \subseteq AllFaults
ASSUME AltAssumption == IsFiniteSet(Alt) /\ Alt # {}

VARIABLES
    status,     \* status of a session, "none" before it is prepared
    retryOf,    \* retry_of_session_id, {} or a singleton
    alts,       \* status of each alternative row, "none" if there is none
    children,   \* history: revisions published from a session
    calls,      \* history: provider calls made for a session
    epc, of,    \* where an execute request is, and its session ({} or one)
    job, token, \* its job's row and cancellation token
    submitted,  \* execute requests by the creation of their jobs
    wpc,        \* where the job's worker is
    answer,     \* the alternatives the provider returned to it
    verdict,    \* how it will settle the session and the job
    cpc, victim,\* where a session's cancel request is, and the job it found
    closed, up  \* shutdown has begun; the process runs

rows == <<status, retryOf, alts, children>>
execute == <<epc, of>>
jobs == <<job, token, submitted>>
worker == <<wpc, answer, verdict>>
cancel == <<cpc, victim>>
process == <<closed, up>>
vars == <<rows, calls, execute, jobs, worker, cancel, process>>

Statuses == {"prepared", "queued", "running", "complete", "partial", "failed",
             "canceled", "rejected", "accepted"}
Reviewable == {"complete", "partial"}
ActiveSession == {"queued", "running"}
ActiveJob == {"queued", "running"}

\* Trigger prompted_edit_session_transition.
Allowed ==
    {<<"prepared", "queued">>, <<"prepared", "canceled">>,
     <<"queued", "running">>, <<"queued", "failed">>, <<"queued", "canceled">>,
     <<"running", "failed">>, <<"running", "canceled">>}
    \cup ({"running"} \X Reviewable)
    \cup (Reviewable \X {"accepted", "rejected"})

\* The trigger lets an update through that leaves the status as it is.
Legal(s, new) == status[s] = new \/ <<status[s], new>> \in Allowed

Init ==
    /\ status = [s \in Session |-> "none"]
    /\ retryOf = [s \in Session |-> {}]
    /\ alts = [s \in Session |-> [a \in Alt |-> "none"]]
    /\ children = [s \in Session |-> 0]
    /\ calls = [s \in Session |-> 0]
    /\ epc = [e \in Exec |-> "idle"]
    /\ of = [e \in Exec |-> {}]
    /\ job = [e \in Exec |-> "none"]
    /\ token = [e \in Exec |-> FALSE]
    /\ submitted = <<>>
    /\ wpc = [e \in Exec |-> "none"]
    /\ answer = [e \in Exec |-> {}]
    /\ verdict = [e \in Exec |-> "failed"]
    /\ cpc = [s \in Session |-> "idle"]
    /\ victim = [s \in Session |-> {}]
    /\ closed = FALSE
    /\ up = TRUE

SessionOf(e) == CHOOSE s \in Session : of[e] = {s}

-----------------------------------------------------------------------------
(* Requests on a session *)

Prepare(s) ==
    /\ up
    /\ status[s] = "none"
    /\ status' = [status EXCEPT ![s] = "prepared"]
    /\ UNCHANGED <<retryOf, alts, children, calls, execute, jobs, worker, cancel, process>>

\* retry: a new session, one per prior session (the table's UNIQUE).
Retry(s, prior) ==
    /\ up
    /\ status[s] = "none"
    /\ status[prior] \in {"failed", "canceled", "rejected"} \cup Reviewable
    /\ \A t \in Session : retryOf[t] # {prior}
    /\ status' = [status EXCEPT ![s] = "prepared"]
    /\ retryOf' = [retryOf EXCEPT ![s] = {prior}]
    /\ UNCHANGED <<alts, children, calls, execute, jobs, worker, cancel, process>>

Reject(s) ==
    /\ up
    /\ status[s] \in Reviewable
    /\ status' = [status EXCEPT ![s] = "rejected"]
    /\ alts' = [alts EXCEPT ![s] = [a \in Alt |-> IF @[a] = "review" THEN "rejected" ELSE @[a]]]
    /\ UNCHANGED <<retryOf, children, calls, execute, jobs, worker, cancel, process>>

\* Mutant: the other candidates stay in review.
AcceptLeavesOthers(s, chosen) ==
    /\ up
    /\ status[s] \in Reviewable
    /\ alts[s][chosen] = "review"
    /\ status' = [status EXCEPT ![s] = "accepted"]
    /\ alts' = [alts EXCEPT ![s][chosen] = "accepted"]
    /\ children' = [children EXCEPT ![s] = @ + 1]
    /\ UNCHANGED <<retryOf, calls, execute, jobs, worker, cancel, process>>

\* accept_prompted_alternative, on the session's side.
Accept(s, chosen) ==
    /\ up
    /\ status[s] \in Reviewable
    /\ alts[s][chosen] = "review"
    /\ status' = [status EXCEPT ![s] = "accepted"]
    /\ alts' = [alts EXCEPT ![s] =
          [a \in Alt |-> IF a = chosen THEN "accepted"
                         ELSE IF @[a] = "review" THEN "rejected" ELSE @[a]]]
    /\ children' = [children EXCEPT ![s] = @ + 1]
    /\ UNCHANGED <<retryOf, calls, execute, jobs, worker, cancel, process>>

-----------------------------------------------------------------------------
(* execute: read, then transition, then submit *)

ExecuteReads(e, s) ==
    /\ up
    /\ epc[e] = "idle"
    /\ status[s] = "prepared"
    /\ epc' = [epc EXCEPT ![e] = "read"]
    /\ of' = [of EXCEPT ![e] = {s}]
    /\ UNCHANGED <<rows, calls, jobs, worker, cancel, process>>

\* transition(QUEUED) checks nothing but the trigger.
ExecuteQueues(e) ==
    /\ epc[e] = "read"
    /\ IF Legal(SessionOf(e), "queued")
       THEN /\ status' = [status EXCEPT ![SessionOf(e)] = "queued"]
            /\ epc' = [epc EXCEPT ![e] = "queued"]
       ELSE /\ epc' = [epc EXCEPT ![e] = "done"]
            /\ UNCHANGED status
    /\ UNCHANGED <<retryOf, alts, children, calls, of, jobs, worker, cancel, process>>

ExecuteSubmits(e) ==
    /\ epc[e] = "queued"
    /\ ~closed
    /\ epc' = [epc EXCEPT ![e] = "done"]
    /\ job' = [job EXCEPT ![e] = "queued"]
    /\ submitted' = Append(submitted, e)
    /\ wpc' = [wpc EXCEPT ![e] = "pending"]
    /\ UNCHANGED <<rows, calls, of, token, answer, verdict, cancel, process>>

\* submit raises: the manager is closed.
ExecuteRefused(e) ==
    /\ epc[e] = "queued"
    /\ closed
    /\ epc' = [epc EXCEPT ![e] = IF status[SessionOf(e)] \in ActiveSession
                                 THEN "failing" ELSE "done"]
    /\ UNCHANGED <<rows, calls, of, jobs, worker, cancel, process>>

ExecuteFails(e) ==
    /\ epc[e] = "failing"
    /\ epc' = [epc EXCEPT ![e] = "done"]
    /\ status' = IF Legal(SessionOf(e), "failed")
                 THEN [status EXCEPT ![SessionOf(e)] = "failed"] ELSE status
    /\ UNCHANGED <<retryOf, alts, children, calls, of, jobs, worker, cancel, process>>

-----------------------------------------------------------------------------
(* The job's worker: _execute around _work's run *)

Goes(e, there) == wpc' = [wpc EXCEPT ![e] = there]

\* The worker's last step: how _execute records the end of the job.
EndJob(e, outcome) ==
    /\ Goes(e, "ended")
    /\ job' = [job EXCEPT ![e] = IF @ \in ActiveJob THEN outcome ELSE @]

\* start refuses a job that is no longer queued.
WorkerStarts(e) ==
    /\ wpc[e] = "pending"
    /\ \/ job[e] = "queued" /\ job' = [job EXCEPT ![e] = "running"] /\ Goes(e, "started")
       \/ job[e] # "queued" /\ UNCHANGED job /\ Goes(e, "ended")
    /\ UNCHANGED <<rows, calls, execute, token, submitted, answer, verdict, cancel, process>>

\* check_canceled before the work: the work never runs.
WorkerCanceledEarly(e) ==
    /\ wpc[e] = "started"
    /\ token[e]
    /\ EndJob(e, "canceled")
    /\ UNCHANGED <<rows, calls, execute, token, submitted, answer, verdict, cancel, process>>

\* transition(RUNNING), outside the try.
WorkerClaims(e) ==
    /\ wpc[e] = "started"
    /\ IF Legal(SessionOf(e), "running")
       THEN /\ status' = [status EXCEPT ![SessionOf(e)] = "running"]
            /\ Goes(e, "claimed")
            /\ UNCHANGED job
       ELSE EndJob(e, "failed") /\ UNCHANGED status
    /\ UNCHANGED <<retryOf, alts, children, calls, execute, token, submitted, answer, verdict,
                   cancel, process>>

\* _request cannot read its inputs, outside the try too.
WorkerLosesInput(e) ==
    /\ "request" \in Faults
    /\ wpc[e] = "claimed"
    /\ EndJob(e, "failed")
    /\ UNCHANGED <<rows, calls, execute, token, submitted, answer, verdict, cancel, process>>

Settles(e, as) ==
    /\ Goes(e, "settling")
    /\ verdict' = [verdict EXCEPT ![e] = as]

\* context.report: a token or a row that is no longer running cancels the work.
WorkerReports(e) ==
    /\ wpc[e] = "claimed"
    /\ \/ ~token[e] /\ job[e] = "running" /\ Goes(e, "calling") /\ UNCHANGED verdict
       \/ (token[e] \/ job[e] # "running") /\ Settles(e, "canceled")
    /\ UNCHANGED <<rows, calls, execute, jobs, answer, cancel, process>>

\* The provider thread starts.
WorkerCalls(e) ==
    /\ wpc[e] = "calling"
    /\ Goes(e, "waiting")
    /\ calls' = [calls EXCEPT ![SessionOf(e)] = @ + 1]
    /\ UNCHANGED <<rows, execute, jobs, answer, verdict, cancel, process>>

\* The waiting loop sees the cancellation.
ProviderCanceled(e) ==
    /\ wpc[e] = "waiting"
    /\ token[e]
    /\ Settles(e, "canceled")
    /\ UNCHANGED <<rows, calls, execute, jobs, answer, cancel, process>>

\* Time-out, provider exception, or a response that breaks the contract.
ProviderFails(e) ==
    /\ wpc[e] = "waiting"
    /\ Settles(e, "failed")
    /\ UNCHANGED <<rows, calls, execute, jobs, answer, cancel, process>>

\* A valid response: some alternatives, none if all positions failed.
ProviderAnswers(e, got) ==
    /\ wpc[e] = "waiting"
    /\ Goes(e, "answered")
    /\ answer' = [answer EXCEPT ![e] = got]
    /\ UNCHANGED <<rows, calls, execute, jobs, verdict, cancel, process>>

\* check_canceled, then _store_alternatives, which may raise.
WorkerStores(e) ==
    /\ wpc[e] = "answered"
    /\ \/ token[e] /\ Settles(e, "canceled")
       \/ ~token[e] /\ Settles(e, "failed")
       \/ ~token[e] /\ Goes(e, "stored") /\ UNCHANGED verdict
    /\ UNCHANGED <<rows, calls, execute, jobs, answer, cancel, process>>

WorkerCanceledLate(e) ==
    /\ wpc[e] = "stored"
    /\ token[e]
    /\ Settles(e, "canceled")
    /\ UNCHANGED <<rows, calls, execute, jobs, answer, cancel, process>>

\* Mutant: a session that is no longer running is no conflict.
WorkerCompletesQuietly(e) ==
    /\ wpc[e] = "stored"
    /\ IF status[SessionOf(e)] = "running"
       THEN /\ status' = [status EXCEPT ![SessionOf(e)] =
                             IF answer[e] = {} THEN "failed" ELSE "complete"]
            /\ alts' = [alts EXCEPT ![SessionOf(e)] =
                           [a \in Alt |-> IF a \in answer[e] THEN "review" ELSE "none"]]
       ELSE UNCHANGED <<status, alts>>
    /\ Goes(e, "returned")
    /\ UNCHANGED <<retryOf, children, calls, execute, jobs, answer, verdict, cancel, process>>

\* complete: alternatives and status in one transaction, or a conflict.  A
\* response without failures is complete whatever its size.
WorkerCompletes(e) ==
    /\ wpc[e] = "stored"
    /\ IF status[SessionOf(e)] = "running"
       THEN /\ \E new \in IF answer[e] = {} THEN {"failed"} ELSE Reviewable :
                  status' = [status EXCEPT ![SessionOf(e)] = new]
            /\ alts' = [alts EXCEPT ![SessionOf(e)] =
                           [a \in Alt |-> IF a \in answer[e] THEN "review" ELSE "none"]]
            /\ Goes(e, "returned")
            /\ UNCHANGED verdict
       ELSE Settles(e, "failed") /\ UNCHANGED <<status, alts>>
    /\ UNCHANGED <<retryOf, children, calls, execute, jobs, answer, cancel, process>>

\* The manager publishes the result of a job that is still running.
WorkerReturns(e) ==
    /\ wpc[e] = "returned"
    /\ EndJob(e, IF token[e] THEN "canceled" ELSE "succeeded")
    /\ UNCHANGED <<rows, calls, execute, token, submitted, answer, verdict, cancel, process>>

\* Mutant: an active session is left to whoever canceled it.
WorkerSettlesWaits(e) ==
    /\ wpc[e] = "settling"
    /\ status[SessionOf(e)] \notin ActiveSession
    /\ Goes(e, "settled")
    /\ UNCHANGED <<rows, calls, execute, jobs, answer, verdict, cancel, process>>

\* _transition_if_active in the handlers of run: read ...
WorkerSettles(e) ==
    /\ wpc[e] = "settling"
    /\ Goes(e, IF status[SessionOf(e)] \in ActiveSession THEN "writing" ELSE "settled")
    /\ UNCHANGED <<rows, calls, execute, jobs, answer, verdict, cancel, process>>

\* ... and transition; a refused one raises in place of the original error.
WorkerWrites(e) ==
    /\ wpc[e] = "writing"
    /\ Goes(e, "settled")
    /\ \/ /\ Legal(SessionOf(e), verdict[e])
          /\ status' = [status EXCEPT ![SessionOf(e)] = verdict[e]]
          /\ UNCHANGED verdict
       \/ /\ ~Legal(SessionOf(e), verdict[e])
          /\ verdict' = [verdict EXCEPT ![e] = "failed"]
          /\ UNCHANGED status
    /\ UNCHANGED <<retryOf, alts, children, calls, execute, jobs, answer, cancel, process>>

WorkerEnds(e) ==
    /\ wpc[e] = "settled"
    /\ EndJob(e, verdict[e])
    /\ UNCHANGED <<rows, calls, execute, token, submitted, answer, verdict, cancel, process>>

-----------------------------------------------------------------------------
(* cancel: find the newest active job, cancel it, then the session *)

JobsOf(s) == {i \in 1 .. Len(submitted) :
                 of[submitted[i]] = {s} /\ job[submitted[i]] \in ActiveJob}

CancelFinds(s) ==
    /\ up
    /\ cpc[s] = "idle"
    /\ JobsOf(s) # {}
    /\ \E i \in JobsOf(s) :
          /\ \A k \in JobsOf(s) : k <= i
          /\ victim' = [victim EXCEPT ![s] = {submitted[i]}]
    /\ cpc' = [cpc EXCEPT ![s] = "found"]
    /\ UNCHANGED <<rows, calls, execute, jobs, worker, process>>

\* LocalWorkerManager.cancel: signal a live token, then the row; a job that has
\* ended otherwise refuses, and the session is left to the worker.
Signals(e) == token' = [token EXCEPT ![e] = @ \/ wpc[e] \notin {"none", "ended"}]

CancelsJob(s) ==
    /\ cpc[s] = "found"
    /\ \E e \in victim[s] :
          /\ Signals(e)
          /\ job' = [job EXCEPT ![e] = IF @ \in ActiveJob THEN "canceled" ELSE @]
          /\ cpc' = [cpc EXCEPT ![s] = IF job[e] \in ActiveJob \cup {"canceled"}
                                       THEN "canceled" ELSE "idle"]
    /\ UNCHANGED <<rows, calls, execute, submitted, worker, victim, process>>

CancelReads(s) ==
    /\ cpc[s] = "canceled"
    /\ cpc' = [cpc EXCEPT ![s] = IF status[s] \in ActiveSession THEN "writing" ELSE "idle"]
    /\ UNCHANGED <<rows, calls, execute, jobs, worker, victim, process>>

CancelWrites(s) ==
    /\ cpc[s] = "writing"
    /\ cpc' = [cpc EXCEPT ![s] = "idle"]
    /\ status' = IF Legal(s, "canceled") THEN [status EXCEPT ![s] = "canceled"] ELSE status
    /\ UNCHANGED <<retryOf, alts, children, calls, execute, jobs, worker, victim, process>>

-----------------------------------------------------------------------------
(* What else can happen to the jobs *)

\* POST /api/jobs/{id}/cancel knows nothing of sessions.
JobCancel(e) ==
    /\ "job_cancel" \in Faults
    /\ up
    /\ job[e] \in ActiveJob
    /\ job' = [job EXCEPT ![e] = "canceled"]
    /\ Signals(e)
    /\ UNCHANGED <<rows, calls, execute, submitted, worker, cancel, process>>

\* Running work is signaled; work that waits is dropped and its row stays.
Shutdown ==
    /\ "shutdown" \in Faults
    /\ up /\ ~closed
    /\ closed' = TRUE
    /\ token' = [e \in Exec |-> token[e] \/ wpc[e] \notin {"none", "ended"}]
    /\ wpc' = [e \in Exec |-> IF wpc[e] = "pending" THEN "ended" ELSE wpc[e]]
    /\ UNCHANGED <<rows, calls, execute, job, submitted, answer, verdict, cancel, up>>

Crash ==
    /\ "crash" \in Faults
    /\ up
    /\ up' = FALSE
    /\ epc' = [e \in Exec |-> IF epc[e] = "idle" THEN "idle" ELSE "done"]
    /\ wpc' = [e \in Exec |-> IF wpc[e] = "none" THEN "none" ELSE "ended"]
    /\ token' = [e \in Exec |-> FALSE]
    /\ cpc' = [s \in Session |-> "idle"]
    /\ UNCHANGED <<rows, calls, of, job, submitted, answer, verdict, victim, closed>>

\* reconcile raises on an interrupted prompted_edit job (recovery.py:190), so a
\* start succeeds only without one; no part of it looks at sessions.
Restart ==
    /\ ~up
    /\ \A e \in Exec : job[e] \notin ActiveJob
    /\ up' = TRUE
    /\ closed' = FALSE
    /\ UNCHANGED <<rows, calls, execute, jobs, worker, cancel>>

-----------------------------------------------------------------------------
HandlerStep(e) ==
    ExecuteQueues(e) \/ ExecuteSubmits(e) \/ ExecuteRefused(e) \/ ExecuteFails(e)

WorkerStep(e) ==
    \/ WorkerStarts(e) \/ WorkerCanceledEarly(e) \/ WorkerClaims(e) \/ WorkerLosesInput(e)
    \/ WorkerReports(e) \/ WorkerCalls(e)
    \/ ProviderCanceled(e) \/ ProviderFails(e) \/ \E got \in SUBSET Alt : ProviderAnswers(e, got)
    \/ WorkerStores(e) \/ WorkerCanceledLate(e) \/ WorkerCompletes(e) \/ WorkerReturns(e)
    \/ WorkerSettles(e) \/ WorkerWrites(e) \/ WorkerEnds(e)

CancelStep(s) == CancelsJob(s) \/ CancelReads(s) \/ CancelWrites(s)

Next ==
    \/ \E s \in Session :
          \/ Prepare(s) \/ Reject(s) \/ CancelFinds(s) \/ CancelStep(s)
          \/ \E prior \in Session : Retry(s, prior)
          \/ \E a \in Alt : Accept(s, a)
          \/ \E e \in Exec : ExecuteReads(e, s)
    \/ \E e \in Exec : HandlerStep(e) \/ WorkerStep(e) \/ JobCancel(e)
    \/ Shutdown \/ Crash \/ Restart

Spec == Init /\ [][Next]_vars

\* A handler that has begun and a thread of the pool run on; the provider's
\* answer is bounded by the 120 s deadline of _call_provider.
Fairness ==
    /\ \A e \in Exec : WF_vars(HandlerStep(e)) /\ WF_vars(WorkerStep(e))
    /\ \A s \in Session : WF_vars(CancelStep(s))

FairSpec == Spec /\ Fairness

-----------------------------------------------------------------------------
(* Correctness. *)

\* Every column and every program counter has a value of its domain, and an
\* execute request has a job row exactly when it has been submitted.
TypeOK ==
    /\ status \in [Session -> Statuses \cup {"none"}]
    /\ retryOf \in [Session -> SUBSET Session]
    /\ alts \in [Session -> [Alt -> {"none", "review", "rejected", "accepted"}]]
    /\ children \in [Session -> Nat]
    /\ epc \in [Exec -> {"idle", "read", "queued", "failing", "done"}]
    /\ of \in [Exec -> SUBSET Session]
    /\ job \in [Exec -> {"none", "succeeded", "failed", "canceled"} \cup ActiveJob]
    /\ {submitted[i] : i \in 1 .. Len(submitted)} = {e \in Exec : job[e] # "none"}
    /\ answer \in [Exec -> SUBSET Alt]
    /\ verdict \in [Exec -> {"canceled", "failed"}]
    /\ cpc \in [Session -> {"idle", "found", "canceled", "writing"}]

\* A session that is not up for review exposes no acceptable candidate, one
\* that is has some, and an accepted one names exactly one alternative and one
\* child revision, whatever requests and workers raced for it.
CandidatesMatchStatus ==
    \A s \in Session :
        LET In(st) == {a \in Alt : alts[s][a] = st} IN
        /\ In("review") # {} <=> status[s] \in Reviewable
        /\ Cardinality(In("accepted")) = children[s]
        /\ children[s] = IF status[s] = "accepted" THEN 1 ELSE 0
        /\ status[s] \in {"none", "prepared", "failed", "canceled"} \cup ActiveSession
              => In("none") = Alt

\* A session's row, its alternatives and its revisions agree.
SessionInv == TypeOK /\ CandidatesMatchStatus

\* A job is recorded as succeeded only if its session has the outcome: it is
\* never still waiting for one, and never canceled.
SuccessIsDelivered ==
    \A e \in Exec : job[e] = "succeeded" =>
        status[SessionOf(e)] \in Reviewable \cup {"failed", "rejected", "accepted"}

\* Somebody who will still write the session.
Attended(s) ==
    \/ cpc[s] # "idle"
    \/ \E e \in Exec : of[e] = {s} /\ (epc[e] \in {"queued", "failing"}
                                       \/ wpc[e] \notin {"none", "ended"})

\* A queued or running session is in somebody's hands: it has a live job that
\* cancel finds, or a handler that is about to move it on
\* (docs/prompted-alternative-lifecycle.md:33).
NoStrandedSession ==
    \A s \in Session : status[s] \in ActiveSession => Attended(s)

\* One consent, one egress: no session reaches its provider twice, because "only
\* a prepared prompted edit can execute" (lifecycle.py:236).
OneCallPerConsent == \A s \in Session : calls[s] <= 1

\* A session that was executed comes to an end.
SessionsEnd == \A s \in Session : status[s] \in ActiveSession ~> status[s] \notin ActiveSession

=============================================================================
