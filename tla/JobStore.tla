------------------------------ MODULE JobStore ------------------------------
(***************************************************************************)
(* The durable job table and its supersession heads: the SQLite rows that  *)
(* JobRepository (storage/jobs.py) reads and writes and the transition     *)
(* contract of contracts/jobs.py.  Every operation below is one            *)
(* immediate_transaction of the code, so each is one atomic step, and any  *)
(* caller may issue it at any time: request threads, worker threads and    *)
(* start-up recovery share the database without further coordination.      *)
(***************************************************************************)
EXTENDS Naturals

CONSTANTS
    Job,          \* identifiers new_id("job") may hand out
    Key,          \* (project_id, supersession_key) pairs
    NoKey,        \* the key of a job submitted without a supersession key
    NoJob,        \* a head row that does not exist yet
    Type,         \* the JobType values that callers submit
    Artifact,     \* artifact payloads a job can publish
    MaxProgress   \* the model's 1.0: progress is 0 .. MaxProgress

ASSUME NoKeyAssumption == NoKey \notin Key
ASSUME NoJobAssumption == NoJob \notin Job
ASSUME TypeAssumption == Type # {}
ASSUME MaxProgressAssumption == MaxProgress \in Nat \ {0}

VARIABLES
    state,        \* jobs.state, or "absent" while no row has that id
    key,          \* jobs.(project_id, supersession_key)
    generation,   \* jobs.generation
    type,         \* jobs.job_type
    progress,     \* jobs.progress
    failure,      \* jobs.error_code
    head,         \* job_heads.job_id
    headGen,      \* job_heads.generation
    rows          \* artifact rows whose job_id is this job

jobVars == <<state, key, generation, type, progress, failure, head, headGen, rows>>

-----------------------------------------------------------------------------
(* contracts/jobs.py *)

TerminalStates == {"succeeded", "failed", "canceled", "superseded"}
ActiveStates == {"queued", "running"}
JobStates == ActiveStates \cup TerminalStates

\* Mutant: a failed job may be retried in place.
AllowedTransitionsRetry ==
    [s \in JobStates |->
        CASE s = "queued" -> {"running", "failed", "canceled", "superseded"}
          [] s = "running" -> TerminalStates
          [] s = "failed" -> {"running"}
          [] OTHER -> {}]

AllowedTransitions ==
    [s \in JobStates |->
        CASE s = "queued" -> {"running", "failed", "canceled", "superseded"}
          [] s = "running" -> TerminalStates
          [] OTHER -> {}]

FailureCodes == {"none", "job_error", "worker_crash", "worker_restarted"}

Exists(j) == state[j] # "absent"
Active(j) == state[j] \in ActiveStates

-----------------------------------------------------------------------------
JobInit ==
    /\ state = [j \in Job |-> "absent"]
    /\ key = [j \in Job |-> NoKey]
    /\ generation = [j \in Job |-> 0]
    /\ type = [j \in Job |-> CHOOSE t \in Type : TRUE]
    /\ progress = [j \in Job |-> 0]
    /\ failure = [j \in Job |-> "none"]
    /\ head = [k \in Key |-> NoJob]
    /\ headGen = [k \in Key |-> 0]
    /\ rows = [j \in Job |-> {}]

\* Mutant: enqueue leaves the head as it is.
SupersededByNone(k) == {}

\* The job the enqueue of key k terminalizes: the head, if it is still active.
SupersededBy(k) == {j \in Job : j = head[k] /\ Active(j)}

\* Mutant: the head row is bumped but keeps naming the old job.
EnqueueKeyedStaleHead(j, k, t) ==
    /\ ~Exists(j)
    /\ state' = [i \in Job |-> IF i = j THEN "queued"
                               ELSE IF i \in SupersededBy(k) THEN "superseded"
                               ELSE state[i]]
    /\ key' = [key EXCEPT ![j] = k]
    /\ generation' = [generation EXCEPT ![j] = headGen[k] + 1]
    /\ type' = [type EXCEPT ![j] = t]
    /\ headGen' = [headGen EXCEPT ![k] = headGen[k] + 1]
    /\ UNCHANGED <<progress, failure, head, rows>>

\* enqueue: next generation of the key, the active head superseded, the row
\* inserted as queued and the head moved, in one transaction.
EnqueueKeyed(j, k, t) ==
    /\ ~Exists(j)
    /\ state' = [i \in Job |-> IF i = j THEN "queued"
                               ELSE IF i \in SupersededBy(k) THEN "superseded"
                               ELSE state[i]]
    /\ key' = [key EXCEPT ![j] = k]
    /\ generation' = [generation EXCEPT ![j] = headGen[k] + 1]
    /\ type' = [type EXCEPT ![j] = t]
    /\ head' = [head EXCEPT ![k] = j]
    /\ headGen' = [headGen EXCEPT ![k] = headGen[k] + 1]
    /\ UNCHANGED <<progress, failure, rows>>

EnqueueUnkeyed(j, t) ==
    /\ ~Exists(j)
    /\ state' = [state EXCEPT ![j] = "queued"]
    /\ type' = [type EXCEPT ![j] = t]
    /\ UNCHANGED <<key, generation, progress, failure, head, headGen, rows>>

Enqueue(j, k, t) ==
    \/ k # NoKey /\ EnqueueKeyed(j, k, t)
    \/ k = NoKey /\ EnqueueUnkeyed(j, t)

\* _transition: refused (InvalidJobTransitionError, nothing written) unless the
\* contract allows it; a job that is in the target state already is returned
\* and not written; success forces progress to 1.
Transition(j, target, code) ==
    /\ Exists(j)
    /\ target \in AllowedTransitions[state[j]]
    /\ state' = [state EXCEPT ![j] = target]
    /\ progress' = [progress EXCEPT ![j] =
                        IF target = "succeeded" THEN MaxProgress ELSE @]
    /\ failure' = [failure EXCEPT ![j] = code]
    /\ UNCHANGED <<key, generation, type, head, headGen, rows>>

Start(j) == Transition(j, "running", "none")
Succeed(j) == Transition(j, "succeeded", "none")
Fail(j, code) == Transition(j, "failed", code)
Cancel(j) == Transition(j, "canceled", "none")
Supersede(j) == Transition(j, "superseded", "none")

\* report_progress: only while running, below 1, never backwards.
ReportProgress(j, p) ==
    /\ p \in 0 .. MaxProgress - 1
    /\ state[j] = "running"
    /\ p >= progress[j]
    /\ progress' = [progress EXCEPT ![j] = p]
    /\ UNCHANGED <<state, key, generation, type, failure, head, headGen, rows>>

\* is_current: the head row names this job and this generation.
IsCurrent(j) ==
    key[j] # NoKey => head[key[j]] = j /\ headGen[key[j]] = generation[j]

\* LocalWorkerManager._publish_current_result, its transaction: the only
\* writer of a job's artifact rows.
Publish(j, artifacts) ==
    /\ state[j] = "running"
    /\ IsCurrent(j)
    /\ rows' = [rows EXCEPT ![j] = artifacts]
    /\ state' = [state EXCEPT ![j] = "succeeded"]
    /\ progress' = [progress EXCEPT ![j] = MaxProgress]
    /\ failure' = [failure EXCEPT ![j] = "none"]
    /\ UNCHANGED <<key, generation, type, head, headGen>>

\* delete_regenerable_artifact, its transaction: a row of a job may go again.
DeleteRow(j, a) ==
    /\ a \in rows[j]
    /\ rows' = [rows EXCEPT ![j] = @ \ {a}]
    /\ UNCHANGED <<state, key, generation, type, progress, failure, head, headGen>>

\* recover_interrupted_in_current_transaction: every active row fails.
RecoverInterrupted ==
    /\ state' = [j \in Job |-> IF Active(j) THEN "failed" ELSE state[j]]
    /\ failure' = [j \in Job |-> IF Active(j) THEN "worker_restarted" ELSE failure[j]]
    /\ UNCHANGED <<key, generation, type, progress, head, headGen, rows>>

-----------------------------------------------------------------------------
JobNext ==
    \/ \E j \in Job, k \in Key \cup {NoKey}, t \in Type : Enqueue(j, k, t)
    \/ \E j \in Job : Start(j) \/ Succeed(j) \/ Cancel(j) \/ Supersede(j)
    \/ \E j \in Job, c \in FailureCodes \ {"none"} : Fail(j, c)
    \/ \E j \in Job, p \in 0 .. MaxProgress : ReportProgress(j, p)
    \/ \E j \in Job, artifacts \in SUBSET Artifact : Publish(j, artifacts)
    \/ \E j \in Job, a \in Artifact : DeleteRow(j, a)
    \/ RecoverInterrupted

JobSpec == JobInit /\ [][JobNext]_jobVars

-----------------------------------------------------------------------------
(* Correctness. *)

\* Every table column holds a value of its domain.
TypeOK ==
    /\ state \in [Job -> JobStates \cup {"absent"}]
    /\ key \in [Job -> Key \cup {NoKey}]
    /\ generation \in [Job -> Nat]
    /\ type \in [Job -> Type]
    /\ progress \in [Job -> 0 .. MaxProgress]
    /\ failure \in [Job -> FailureCodes]
    /\ head \in [Key -> Job \cup {NoJob}]
    /\ headGen \in [Key -> Nat]
    /\ rows \in [Job -> SUBSET Artifact]

\* A queued or running job that has a supersession key still owns its key's
\* head with its own generation: enqueue never leaves an older generation
\* runnable, so the head test of _publish_current_result (workers.py:292),
\* which returns without terminalizing the job, can never strand a live job.
ActiveIsCurrent == \A j \in Job : Active(j) => IsCurrent(j)

\* At most one job of a key is queued or running at any time (enqueue,
\* storage/jobs.py:82-103).
OneActivePerKey ==
    \A i, j \in Job :
        Active(i) /\ Active(j) /\ key[i] = key[j] /\ key[i] # NoKey => i = j

\* The head of a key is its newest job, and generations never repeat within a
\* key (job_heads and the UNIQUE(project, key, generation) index).
HeadIsNewest ==
    \A j \in Job :
        Exists(j) /\ key[j] # NoKey =>
            /\ generation[j] \in 1 .. headGen[key[j]]
            /\ generation[j] = headGen[key[j]] <=> head[key[j]] = j

\* Artifact rows are visible only under a job that succeeded: a job that was
\* canceled, failed, superseded or failed by recovery never shows partial
\* output, whatever raced its publication transaction.
RowsOnlyIfSucceeded == \A j \in Job : rows[j] # {} => state[j] = "succeeded"

\* Progress 1, success, and the absence of a failure code agree (the
\* jobs_contract triggers and JobResource reject rows where they do not).
ProgressMatchesState ==
    \A j \in Job :
        /\ progress[j] = MaxProgress <=> state[j] = "succeeded"
        /\ failure[j] # "none" <=> state[j] = "failed"

\* What every reader of the job table relies on, whichever transactions ran and
\* in whatever order.
TableInv ==
    /\ TypeOK
    /\ ActiveIsCurrent
    /\ OneActivePerKey
    /\ HeadIsNewest
    /\ RowsOnlyIfSucceeded
    /\ ProgressMatchesState

\* No operation, of any caller, changes the outcome of a job that reached a
\* terminal state (ALLOWED_TRANSITIONS; recovery leaves terminal jobs alone),
\* and its progress and failure evidence are frozen with it.
TerminalIsFinal ==
    [][\A j \in Job : state[j] \in TerminalStates =>
            /\ state'[j] = state[j]
            /\ progress'[j] = progress[j]
            /\ failure'[j] = failure[j]]_jobVars

\* Success of a keyed job happens only while it is the newest request of its
\* key: a slow older generation never publishes after a newer one exists.
NewestPublishes ==
    [][\A j \in Job :
          (state[j] # "succeeded" /\ state'[j] = "succeeded" /\ key[j] # NoKey) =>
              \A i \in Job :
                  Exists(i) /\ key[i] = key[j] => generation[i] <= generation[j]]_jobVars

-----------------------------------------------------------------------------
(* Refinement: what the job table promises its callers. *)

phase ==
    [j \in Job |-> IF state[j] = "absent" THEN "new"
                  ELSE IF Active(j) THEN "active"
                  ELSE IF state[j] = "succeeded" THEN "published"
                  ELSE "closed"]

Abstract == INSTANCE LatestWins WITH current <- head, owner <- key

\* The job table implements the latest-request-wins board.
ImplementsLatestWins == Abstract!Spec

=============================================================================
