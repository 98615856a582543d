------------------------------- MODULE Workers -------------------------------
(***************************************************************************)
(* LocalWorkerManager (workers.py) over the job table: request threads     *)
(* that submit and cancel, the bounded pool of worker threads, the         *)
(* in-memory cancellation tokens, orderly shutdown, loss of the process at *)
(* any point and the reconciliation that the next start-up runs            *)
(* (recovery.py, the lifespan of api/app.py).                              *)
(*                                                                         *)
(* One step is one transaction, one section under the manager's lock or    *)
(* one check of a token, so every interleaving of those is explored.       *)
(* Calls into SQLite are taken to succeed (the five second busy timeout is *)
(* not modelled); a lost process loses everything but the tables.          *)
(***************************************************************************)
EXTENDS JobStore, Sequences, FiniteSets

CONSTANTS
    MaxWorkers,     \* ThreadPoolExecutor(max_workers=...)
    RetryableTypes, \* the keys of the table in recovery._retry_action
    MaxLosses       \* bound: how many times the process may be lost

ASSUME MaxWorkersAssumption == MaxWorkers \in Nat \ {0}
ASSUME MaxLossesAssumption == MaxLosses \in Nat

VARIABLES
    proc,        \* "down", "up", or "closing" once shutdown() set _closed
    pc,          \* where the thread that handles a job is
    canceled,    \* CancellationToken.canceled of the job's token
    registered,  \* the keys of _tokens
    queue,       \* futures the executor has not started, in FIFO order
    replaced,    \* EnqueuedJob.superseded_job_id of the job's submit()
    cancelCalls, \* cancel() calls between the token and the transaction
    losses       \* how often the process was lost

manager == <<proc, pc, canceled, registered, queue, replaced, cancelCalls, losses>>
wvars == <<jobVars, manager>>

Executing == {"starting", "started", "working", "returned", "publishing",
              "canceling", "failing", "finished"}
\* The part of _execute between the accepted start and the end of publication.
InBody == {"started", "working", "returned", "publishing"}
Positions == Executing \cup {"none", "admitted", "enqueued", "pending", "gone"}

Goto(j, label) == pc' = [pc EXCEPT ![j] = label]
Signal(J) == canceled' = [j \in Job |-> canceled[j] \/ j \in J]

-----------------------------------------------------------------------------
WInit ==
    /\ JobInit
    /\ proc = "up"
    /\ pc = [j \in Job |-> "none"]
    /\ canceled = [j \in Job |-> FALSE]
    /\ registered = {}
    /\ queue = <<>>
    /\ replaced = [j \in Job |-> NoJob]
    /\ cancelCalls = {}
    /\ losses = 0

-----------------------------------------------------------------------------
(* submit() *)

\* The first look at _closed.
Admit(j) ==
    /\ proc = "up"
    /\ pc[j] = "none"
    /\ Goto(j, "admitted")
    /\ UNCHANGED <<jobVars, proc, canceled, registered, queue, replaced, cancelCalls, losses>>

\* JobRepository.enqueue, outside the lock; the manager may close meanwhile.
SubmitEnqueue(j, k, t) ==
    /\ pc[j] = "admitted"
    /\ Enqueue(j, k, t)
    /\ replaced' = [replaced EXCEPT ![j] =
            IF k # NoKey /\ SupersededBy(k) # {} THEN head[k] ELSE NoJob]
    /\ Goto(j, "enqueued")
    /\ UNCHANGED <<proc, canceled, registered, queue, cancelCalls, losses>>

\* Mutant: the replaced job's token is not signaled.
RegisterUnsignaled(j) ==
    /\ proc = "up"
    /\ pc[j] = "enqueued"
    /\ registered' = registered \cup {j}
    /\ queue' = Append(queue, j)
    /\ Goto(j, "pending")
    /\ UNCHANGED <<jobVars, proc, canceled, replaced, cancelCalls, losses>>

\* The second section under the lock: signal the replaced job's token if it is
\* registered by now, register the new token and hand the job to the pool.
Register(j) ==
    /\ proc = "up"
    /\ pc[j] = "enqueued"
    /\ Signal({replaced[j]} \cap registered)
    /\ registered' = registered \cup {j}
    /\ queue' = Append(queue, j)
    /\ Goto(j, "pending")
    /\ UNCHANGED <<jobVars, proc, replaced, cancelCalls, losses>>

\* The same section when shutdown() got the lock first: _cancel_persisted.
RegisterClosed(j) ==
    /\ proc = "closing"
    /\ pc[j] = "enqueued"
    /\ Signal({j})
    /\ \/ Active(j) /\ Cancel(j)
       \/ ~Active(j) /\ UNCHANGED jobVars
    /\ Goto(j, "gone")
    /\ UNCHANGED <<proc, registered, queue, replaced, cancelCalls, losses>>

-----------------------------------------------------------------------------
(* cancel() *)

CancelSignal(j) ==
    /\ proc # "down"
    /\ Exists(j)
    /\ j \notin cancelCalls
    /\ cancelCalls' = cancelCalls \cup {j}
    /\ Signal({j} \cap registered)
    /\ UNCHANGED <<jobVars, proc, pc, registered, queue, replaced, losses>>

\* JobRepository.cancel; a job that is terminal by now is refused.
CancelPersist(j) ==
    /\ j \in cancelCalls
    /\ cancelCalls' = cancelCalls \ {j}
    /\ \/ Active(j) /\ Cancel(j)
       \/ ~Active(j) /\ UNCHANGED jobVars
    /\ UNCHANGED <<proc, pc, canceled, registered, queue, replaced, losses>>

-----------------------------------------------------------------------------
(* _execute() on a pool thread *)

Take(j) ==
    /\ proc # "down"
    /\ queue # <<>>
    /\ j = Head(queue)
    /\ Cardinality({i \in Job : pc[i] \in Executing}) < MaxWorkers
    /\ queue' = Tail(queue)
    /\ Goto(j, "starting")
    /\ UNCHANGED <<jobVars, proc, canceled, registered, replaced, cancelCalls, losses>>

StartAccepted(j) ==
    /\ pc[j] = "starting"
    /\ Start(j)
    /\ Goto(j, "started")
    /\ UNCHANGED <<proc, canceled, registered, queue, replaced, cancelCalls, losses>>

\* InvalidJobTransitionError: canceled, superseded or failed before it began.
StartRefused(j) ==
    /\ pc[j] = "starting"
    /\ "running" \notin AllowedTransitions[state[j]]
    /\ Signal({j})
    /\ Goto(j, "finished")
    /\ UNCHANGED <<jobVars, proc, registered, queue, replaced, cancelCalls, losses>>

\* context.check_canceled() before and after work().
CheckCanceled(j) ==
    /\ \/ pc[j] = "started" /\ Goto(j, IF canceled[j] THEN "canceling" ELSE "working")
       \/ pc[j] = "returned" /\ Goto(j, IF canceled[j] THEN "canceling" ELSE "publishing")
    /\ UNCHANGED <<jobVars, proc, canceled, registered, queue, replaced, cancelCalls, losses>>

\* JobContext.report with the row still willing.
Report(j, p) ==
    /\ pc[j] = "working"
    /\ ~canceled[j]
    /\ ReportProgress(j, p)
    /\ UNCHANGED manager

\* JobContext.report with InvalidJobTransitionError: the job is no longer
\* running, or its progress would move backwards.
ReportRefused(j, p) ==
    /\ pc[j] = "working"
    /\ ~canceled[j]
    /\ p \in 0 .. MaxProgress - 1
    /\ state[j] # "running" \/ p < progress[j]
    /\ Signal({j})
    /\ Goto(j, "canceling")
    /\ UNCHANGED <<jobVars, proc, registered, queue, replaced, cancelCalls, losses>>

\* The work callable: it sees the token, raises, or returns a result.
WorkEnds(j) ==
    /\ pc[j] = "working"
    /\ \/ canceled[j] /\ Goto(j, "canceling")
       \/ Goto(j, "failing")
       \/ Goto(j, "returned")
    /\ UNCHANGED <<jobVars, proc, canceled, registered, queue, replaced, cancelCalls, losses>>

\* Blob verification or an artifact insert raises: the transaction rolls back.
PublishRaises(j) ==
    /\ pc[j] = "publishing"
    /\ Goto(j, "failing")
    /\ UNCHANGED <<jobVars, proc, canceled, registered, queue, replaced, cancelCalls, losses>>

\* Mutant: the publication does not look at the row again.
PublishUnchecked(j, artifacts) ==
    /\ pc[j] = "publishing"
    /\ rows' = [rows EXCEPT ![j] = artifacts]
    /\ state' = [state EXCEPT ![j] = "succeeded"]
    /\ progress' = [progress EXCEPT ![j] = MaxProgress]
    /\ failure' = [failure EXCEPT ![j] = "none"]
    /\ UNCHANGED <<key, generation, type, head, headGen>>
    /\ Goto(j, "finished")
    /\ UNCHANGED <<proc, canceled, registered, queue, replaced, cancelCalls, losses>>

\* _publish_current_result: commit, or return False and leave the row alone.
PublishResult(j, artifacts) ==
    /\ pc[j] = "publishing"
    /\ \/ Publish(j, artifacts)
       \/ ~(state[j] = "running" /\ IsCurrent(j)) /\ UNCHANGED jobVars
    /\ Goto(j, "finished")
    /\ UNCHANGED <<proc, canceled, registered, queue, replaced, cancelCalls, losses>>

\* Mutant: a canceled body returns without persisting the cancellation.
CancelForgotten(j) ==
    /\ pc[j] = "canceling"
    /\ Goto(j, "finished")
    /\ UNCHANGED <<jobVars, proc, canceled, registered, queue, replaced, cancelCalls, losses>>

\* _cancel_if_active; the transaction re-reads the row, so the read before it
\* adds no outcome.
CancelIfActive(j) ==
    /\ pc[j] = "canceling"
    /\ \/ Active(j) /\ Cancel(j)
       \/ ~Active(j) /\ UNCHANGED jobVars
    /\ Goto(j, "finished")
    /\ UNCHANGED <<proc, canceled, registered, queue, replaced, cancelCalls, losses>>

\* Mutant: an exception is swallowed.
FailureSwallowed(j, code) ==
    /\ pc[j] = "failing"
    /\ Goto(j, "finished")
    /\ UNCHANGED <<jobVars, proc, canceled, registered, queue, replaced, cancelCalls, losses>>

\* _fail_if_active, likewise.
FailIfActive(j, code) ==
    /\ pc[j] = "failing"
    /\ \/ Active(j) /\ Fail(j, code)
       \/ ~Active(j) /\ UNCHANGED jobVars
    /\ Goto(j, "finished")
    /\ UNCHANGED <<proc, canceled, registered, queue, replaced, cancelCalls, losses>>

\* The done callback _forget.
Forget(j) ==
    /\ pc[j] = "finished"
    /\ Goto(j, "gone")
    /\ registered' = registered \ {j}
    /\ UNCHANGED <<jobVars, proc, canceled, queue, replaced, cancelCalls, losses>>

-----------------------------------------------------------------------------
(* The process *)

\* shutdown(): close, then signal every registered token.
ShutdownBegin ==
    /\ proc = "up"
    /\ proc' = "closing"
    /\ Signal(registered)
    /\ UNCHANGED <<jobVars, pc, registered, queue, replaced, cancelCalls, losses>>

\* executor.shutdown(cancel_futures=True): futures that never started are
\* canceled and forgotten; their rows stay queued.
ShutdownDrain ==
    /\ proc = "closing"
    /\ queue # <<>>
    /\ pc' = [j \in Job |-> IF pc[j] = "pending" THEN "gone" ELSE pc[j]]
    /\ registered' = {j \in registered : pc[j] # "pending"}
    /\ queue' = <<>>
    /\ UNCHANGED <<jobVars, proc, canceled, replaced, cancelCalls, losses>>

\* Everything but the tables is gone.
LoseMemory ==
    /\ proc' = "down"
    /\ pc' = [j \in Job |-> IF Exists(j) THEN "gone" ELSE "none"]
    /\ canceled' = [j \in Job |-> FALSE]
    /\ registered' = {}
    /\ queue' = <<>>
    /\ replaced' = [j \in Job |-> NoJob]
    /\ cancelCalls' = {}
    /\ UNCHANGED jobVars

\* shutdown(wait=True) returned: no pool thread is left.
ProcessExits ==
    /\ proc = "closing"
    /\ queue = <<>>
    /\ \A j \in Job : pc[j] \notin Executing
    /\ LoseMemory
    /\ UNCHANGED losses

ProcessLost ==
    /\ proc # "down"
    /\ losses < MaxLosses
    /\ losses' = losses + 1
    /\ LoseMemory

\* StartupRecoveryService.reconcile.  Building the evidence looks every
\* interrupted job's type up in _retry_action; a type without an entry is a
\* KeyError that rolls the whole transaction back.
Reconcile ==
    /\ \A j \in Job : Active(j) => type[j] \in RetryableTypes
    /\ RecoverInterrupted

\* The lifespan: a reconciliation that raises aborts start-up.
Startup ==
    /\ proc = "down"
    /\ Reconcile
    /\ proc' = "up"
    /\ UNCHANGED <<pc, canceled, registered, queue, replaced, cancelCalls, losses>>

\* POST /api/workspace/recovery/reconcile, with the workers alive.
ReconcileNow ==
    /\ proc = "up"
    /\ Reconcile
    /\ UNCHANGED manager

-----------------------------------------------------------------------------
\* What the thread of job j does without waiting for anybody's decision.
Advance(j) ==
    \/ Register(j) \/ RegisterClosed(j)
    \/ Take(j) \/ StartAccepted(j) \/ StartRefused(j)
    \/ CheckCanceled(j) \/ WorkEnds(j) \/ PublishRaises(j)
    \/ \E artifacts \in SUBSET Artifact : PublishResult(j, artifacts)
    \/ CancelIfActive(j)
    \/ \E code \in {"job_error", "worker_crash"} : FailIfActive(j, code)
    \/ Forget(j)

WNext ==
    \/ \E j \in Job : Admit(j)
    \/ \E j \in Job, k \in Key \cup {NoKey}, t \in Type : SubmitEnqueue(j, k, t)
    \/ \E j \in Job : Advance(j)
    \/ \E j \in Job, p \in 0 .. MaxProgress : Report(j, p) \/ ReportRefused(j, p)
    \/ \E j \in Job : CancelSignal(j) \/ CancelPersist(j)
    \/ ShutdownBegin \/ ShutdownDrain \/ ProcessExits \/ ProcessLost
    \/ Startup \/ ReconcileNow

\* Threads are scheduled and work returns or raises (external tools run under
\* a timeout), an orderly shutdown runs to its end, and a stopped application
\* is started again.
WFairness ==
    /\ \A j \in Job : WF_wvars(Advance(j)) /\ WF_wvars(CancelPersist(j))
    /\ WF_wvars(ShutdownDrain) /\ WF_wvars(ProcessExits) /\ WF_wvars(Startup)

WSpec == WInit /\ [][WNext]_wvars
FairWSpec == WSpec /\ WFairness

-----------------------------------------------------------------------------
(* Correctness. *)

\* The manager's own state has its shape; the tables' is JobStore!TypeOK.
WTypeOK ==
    /\ TypeOK
    /\ proc \in {"down", "up", "closing"}
    /\ pc \in [Job -> Positions]
    /\ canceled \in [Job -> BOOLEAN]
    /\ registered \subseteq Job
    /\ queue \in Seq(Job)
    /\ replaced \in [Job -> Job \cup {NoJob}]
    /\ cancelCalls \subseteq Job
    /\ losses \in 0 .. MaxLosses

\* A job is queued or running only while some thread of this process still
\* has it in hand: every way out of _execute and submit (success, refusal,
\* exception, cancellation, a publication that returns False) leaves a
\* terminal row.  Only a closing manager may leave rows for the next start.
NoStrandedJob ==
    proc = "up" => \A j \in Job : Active(j) => pc[j] \notin {"none", "finished", "gone"}

\* Once submit() of a superseding job has returned, a worker still inside the
\* replaced job's body has had its token signaled, although the two submits
\* may have enqueued and registered in different orders.
ReplacedIsSignaled ==
    \A i, j \in Job :
        /\ pc[i] \notin {"none", "admitted", "enqueued"}
        /\ replaced[i] = j
        /\ pc[j] \in InBody
        => canceled[j]

\* _tokens holds exactly the jobs the pool still owns, so the bounded in-memory
\* bookkeeping neither leaks nor drops a live token.
TokensMatchPool ==
    registered = {j \in Job : pc[j] \in Executing \cup {"pending"}}

\* The manager's memory agrees with its threads.
ManagerInv == WTypeOK /\ ReplacedIsSignaled /\ TokensMatchPool

\* Every step of the manager is a legal transaction of the job table, or
\* leaves it alone; with JobStore, the board's promises hold for real threads.
ImplementsJobStore == JobSpec

\* Whatever happens to the threads and the process, a submitted job comes to a
\* terminal state.
JobsTerminate == \A j \in Job : Active(j) ~> ~Active(j)

\* An orderly shutdown completes: no worker waits for something only another
\* thread of the closing manager could provide.
ShutdownCompletes == proc = "closing" ~> proc = "down"

\* Every job and every shutdown ends.
AllEnds == JobsTerminate /\ ShutdownCompletes

\* Start-up failure handling as docs/startup-recovery.md:11 words it: a job
\* left queued or running by a stopped process becomes failed.
InterruptedJobsFail ==
    \A j \in Job : (proc = "down" /\ Active(j)) ~> state[j] = "failed"

\* Only a job whose worker disappeared is failed as "worker_restarted"
\* (docs/startup-recovery.md:6).
OnlyAbandonedJobsFail ==
    [][\A j \in Job :
          failure'[j] = "worker_restarted" /\ failure[j] # "worker_restarted" =>
              pc[j] \in {"none", "gone"}]_wvars

=============================================================================
