---------------------------- MODULE EditorPanels ----------------------------
(***************************************************************************)
(* The three coordinators of the editor window that submit jobs and follow *)
(* them by polling: PreviewJobCoordinator.ts, OutputJobCoordinator.ts      *)
(* (geometry, then the export) and MuralBuildCoordinator.ts (geometry,     *)
(* then the mural build).  A behaviour is about one of them.  The browser  *)
(* runs one thing at a time: an event handler, or the continuation of a    *)
(* call whose answer arrived; the calls themselves, the jobs and other     *)
(* windows go on meanwhile.                                                *)
(***************************************************************************)
EXTENDS Naturals, Sequences, FiniteSets

CONSTANTS
    Panels,           \* which of "preview", "output" and "mural" are examined
    LateAnswers,      \* panels whose transport may answer after it was aborted
    Outside,          \* what other windows do to a panel's jobs: <<panel, state>>
    Project, NoProject,
    MaxCalls,         \* bound: requests, restorations and cancellations
    MaxTroubles       \* bound: changes of the draft or of what is open, lost calls and
                      \* acts of other windows, together

ASSUME PanelAssumption ==
    /\ Panels \subseteq {"preview", "output", "mural"} /\ LateAnswers \subseteq Panels
    /\ Outside \subseteq Panels \X {"canceled", "superseded"}
    /\ NoProject \notin Project
    /\ {MaxCalls, MaxTroubles} \subseteq Nat

VARIABLES
    panel,         \* the coordinator this behaviour is about
    ui,            \* what it publishes
    sequence,      \* its number of the latest request
    editRevision,  \* its count of changes
    active,        \* the call it waits for, 0: none
    disposed,
    calls,         \* every asynchronous invocation so far
    jobs,          \* the server's jobs
    quiet,         \* jobs with a cancellation on the wire whose answer nobody reads
    draft,         \* the version of the draft, or of the plan, on screen
    troubles,      \* how much of the bound is used up
    since,         \* history: the calls that the user's acts since have overtaken
    asked,         \* history: the version that the latest request or restoration is
                   \* about, and the version on screen when it was made
    dropped        \* history: jobs let go of because a call failed or a job was restored

coordinator == <<ui, sequence, editRevision, active, disposed>>
world == <<draft, troubles>>
vars == <<panel, coordinator, calls, jobs, quiet, world,
                   since, asked, dropped>>

Terminal == {"succeeded", "failed", "canceled", "superseded"}
JobState == {"active"} \cup Terminal
InFlight == [job |-> 0, state |-> "none"]
Lost == [job |-> 0, state |-> "lost"]
NoResult == [draft |-> 0, project |-> NoProject]

\* The published state of a coordinator that has done nothing for a project;
\* last is the version that the latest request was about.
initialState(p) ==
    [phase |-> "idle", project |-> p, step |-> "none", result |-> NoResult,
     fresh |-> "none", last |-> 0]

Init ==
    /\ panel \in Panels
    /\ \E p \in Project : ui = initialState(p)
    /\ sequence = 0 /\ editRevision = 0 /\ active = 0 /\ disposed = FALSE
    /\ calls = <<>>
    /\ jobs = <<>>
    /\ quiet = {}
    /\ draft = 1 /\ troubles = 0 /\ since = 0 /\ dropped = {}
    /\ asked = [draft |-> 1, screen |-> 1]

-----------------------------------------------------------------------------
(* What the coordinators share: publishing, giving up the request they      *)
(* follow, and the record of an invocation that awaits an answer.           *)
Patched(r, patch) == [f \in DOMAIN r |-> IF f \in DOMAIN patch THEN patch[f] ELSE r[f]]

Publish(patch) == ui' = IF disposed THEN ui ELSE Patched(ui, patch)

Request(version, s, kind) ==
    [pc |-> kind, seq |-> sequence + 1, edit |-> editRevision, draft |-> version,
     project |-> ui.project, step |-> s, job |-> 0, aborted |-> FALSE, answer |-> InFlight]

\* The signal of the active request is aborted.
Abort == IF active = 0 THEN calls ELSE [calls EXCEPT ![active].aborted = TRUE]

\* The job of the active request, when its identity is known.
KnownJob == IF active # 0 /\ calls[active].job # 0 THEN {calls[active].job} ELSE {}

\* Another invocation begins, after the active request was aborted.
Invoke(call) == Len(calls) < MaxCalls /\ calls' = Append(Abort, call)

\* Invocation t goes on waiting, for its next answer.
Await(t, patch) ==
    calls' = [calls EXCEPT ![t] = Patched([@ EXCEPT !.answer = InFlight], patch)]

\* Nothing of an invocation that ended matters but the job it knew.
Ended(call) ==
    [pc |-> "ended", seq |-> 0, edit |-> 0, draft |-> 0, project |-> NoProject,
     step |-> "none", job |-> call.job, aborted |-> FALSE, answer |-> InFlight]

Return(t) == calls' = [calls EXCEPT ![t] = Ended(@)]

Stale == IF ui.result # NoResult THEN "stale" ELSE "none"

IsCurrent(t) == ~disposed /\ calls[t].seq = sequence /\ calls[t].project = ui.project

\* Invocation t has an answer to go on with: its call was not aborted, or the
\* transport delivers answers regardless.  A poll or a result is read when it
\* arrives: it could only have been read earlier by a job that was still active,
\* and then the next poll tells.
Answered(t, kind) ==
    /\ t \in DOMAIN calls /\ calls[t].pc = kind
    /\ calls[t].answer # InFlight \/ kind \in {"poll", "result"}
    /\ ~calls[t].aborted \/ panel \in LateAnswers

\* An aborted call rejects with an AbortError, which every handler ignores.
\* The server may still carry out a request that is on its way to it.
AbortError(t) ==
    /\ t \in DOMAIN calls /\ calls[t].aborted
    /\ calls[t].pc \in {"start", "poll", "result"}
    /\ calls' = [calls EXCEPT ![t] = IF @.pc = "start" /\ @.answer = InFlight
                                     THEN [@ EXCEPT !.pc = "orphan"] ELSE Ended(@)]
    /\ UNCHANGED <<panel, coordinator, jobs, quiet, world,
                   since, asked, dropped>>

-----------------------------------------------------------------------------
(* The network, the server and other windows. *)
Carried == <<panel, coordinator, since, asked, dropped>>
Trouble == troubles < MaxTroubles /\ troubles' = troubles + 1

\* The jobs that already do what invocation t asks for; previews are never shared.
Equal(t) ==
    {j \in DOMAIN jobs :
        /\ panel # "preview"
        /\ jobs[j].step = calls[t].step /\ jobs[j].project = calls[t].project
        /\ jobs[j].draft = calls[t].draft /\ jobs[j].state \in {"active", "succeeded"}}

\* Job i when a new job replaces the project's active job of the same kind.
Replaced(i, t) ==
    IF /\ jobs[i].state = "active" /\ jobs[i].step = calls[t].step
       /\ jobs[i].project = calls[t].project
    THEN [jobs[i] EXCEPT !.state = "superseded"] ELSE jobs[i]

\* A request to start a job reaches the server, read by somebody or not.  The server
\* goes by the generation of the saved draft: a change on screen that was not saved
\* yet, or that waits for a longer pause, does not keep it from accepting an earlier
\* version.
ServeStart(t) ==
    /\ t \in DOMAIN calls /\ calls[t].pc \in {"start", "orphan"} /\ calls[t].answer = InFlight
    /\ \E j \in IF Equal(t) # {} THEN Equal(t) ELSE {Len(jobs) + 1} :
        /\ jobs' = IF j \in DOMAIN jobs THEN jobs
                   ELSE Append([i \in DOMAIN jobs |-> Replaced(i, t)],
                               [state |-> "active", step |-> calls[t].step,
                                draft |-> calls[t].draft, project |-> calls[t].project])
        /\ calls' = [calls EXCEPT ![t] =
                        IF @.pc = "orphan" THEN Ended(@)
                        ELSE [@ EXCEPT !.answer = [job |-> j, state |-> jobs'[j].state]]]
    /\ UNCHANGED <<Carried, quiet, world>>

\* A request is refused once the draft it is about was saved over.
RefuseStart(t) ==
    /\ t \in DOMAIN calls /\ calls[t].pc \in {"start", "orphan"} /\ calls[t].answer = InFlight
    /\ calls[t].draft # draft
    /\ calls' = [calls EXCEPT ![t] = IF @.pc = "orphan" THEN Ended(@)
                                     ELSE [@ EXCEPT !.answer = Lost]]
    /\ UNCHANGED <<Carried, jobs, quiet, world>>

Canceled(j) == [jobs EXCEPT ![j].state = IF @ = "active" THEN "canceled" ELSE @]

\* The server cancels a job and answers with what became of it.
ServeCancel(t) ==
    /\ t \in DOMAIN calls /\ calls[t].pc = "cancel" /\ calls[t].answer = InFlight
    /\ jobs' = Canceled(calls[t].job)
    /\ calls' = [calls EXCEPT ![t].answer = [job |-> calls[t].job,
                                             state |-> jobs'[calls[t].job].state]]
    /\ UNCHANGED <<Carried, quiet, world>>

\* A cancellation whose answer nobody reads arrives.
ServeQuiet(j) ==
    /\ j \in quiet
    /\ quiet' = quiet \ {j}
    /\ jobs' = Canceled(j)
    /\ UNCHANGED <<Carried, calls, world>>

\* A call, or the answer to one, is lost.
LoseCall(t) ==
    /\ Trouble
    /\ t \in DOMAIN calls /\ calls[t].pc \in {"start", "poll", "result", "cancel"}
    /\ calls[t].answer # Lost
    /\ calls' = [calls EXCEPT ![t].answer = Lost]
    /\ UNCHANGED <<Carried, jobs, quiet, draft>>

LoseQuiet(j) ==
    /\ Trouble
    /\ j \in quiet
    /\ quiet' = quiet \ {j}
    /\ dropped' = dropped \cup {j}
    /\ UNCHANGED <<panel, coordinator, since, asked, calls, jobs, draft>>

\* Somebody will hear of what becomes of job j.  A job that nobody watches may be
\* taken to go on: it still ends when it is asked for again.
Watched(j) ==
    /\ j \in DOMAIN jobs /\ jobs[j].state = "active"
    /\ \/ j \in quiet
       \/ \E t \in DOMAIN calls : calls[t].pc # "ended" /\ j \in {calls[t].job, calls[t].answer.job}

\* A job ends, or another window cancels or replaces it.
JobEnds(j) ==
    /\ Watched(j)
    /\ \E s \in {"succeeded", "failed"} : jobs' = [jobs EXCEPT ![j].state = s]
    /\ UNCHANGED <<Carried, calls, quiet, world>>

OtherWindow(j) ==
    /\ Watched(j) /\ Trouble
    /\ \E s \in {s \in Terminal : <<panel, s>> \in Outside} :
        jobs' = [jobs EXCEPT ![j].state = s]
    /\ UNCHANGED <<Carried, calls, quiet, draft>>

-----------------------------------------------------------------------------
(* PreviewJobCoordinator. *)
PreviewMarkStale ==
    /\ panel = "preview" /\ ~disposed
    /\ editRevision' = editRevision + 1
    /\ Publish([fresh |-> Stale])
    /\ UNCHANGED <<sequence, active, disposed, calls, quiet>>

PreviewStart(version) ==
    /\ panel = "preview" /\ ~disposed
    /\ Invoke(Request(version, "preview", "start"))
    /\ quiet' = quiet \cup KnownJob
    /\ sequence' = sequence + 1
    /\ active' = Len(calls) + 1
    /\ Publish([phase |-> "submitting", fresh |-> Stale, last |-> version])
    /\ UNCHANGED <<editRevision, disposed>>

\* A request, a poll or a result failed: the panel shows it and lets go.
PreviewFails(t) ==
    /\ active' = 0
    /\ Publish([phase |-> "failed", fresh |-> Stale])
    /\ Return(t)

\* One turn of follow, with the job in state s.
PreviewFollow(t, job, s) ==
    \/ /\ s = "succeeded"
       /\ Await(t, [pc |-> "result", job |-> job])
       /\ Publish([phase |-> "running"])
       /\ UNCHANGED active
    \/ s = "failed" /\ PreviewFails(t)
    \/ /\ s \in {"canceled", "superseded"}
       /\ active' = 0
       /\ Publish([phase |-> s, fresh |-> Stale])
       /\ Return(t)
    \/ /\ s = "active"
       /\ Await(t, [pc |-> "poll", job |-> job])
       /\ Publish([phase |-> "running"])
       /\ UNCHANGED active

\* What a result shows: the draft and the project it was made for.
ResultOf(job) == [draft |-> jobs[job].draft, project |-> jobs[job].project]

\* Mutant: a result that arrives is current.
FreshnessAssumed(t) == "current"

Freshness(t) == IF calls[t].edit = editRevision THEN "current" ELSE "stale"

\* The result of a followed job, or of one that finished before its cancellation.
PreviewResult(t) ==
    /\ panel = "preview" /\ Answered(t, "result")
    /\ IF ~IsCurrent(t) THEN Return(t) /\ UNCHANGED <<ui, active>>
       ELSE IF calls[t].answer = Lost THEN PreviewFails(t)
            ELSE /\ active' = 0
                 /\ Publish([phase |-> "succeeded", result |-> ResultOf(calls[t].job),
                             fresh |-> Freshness(t)])
                 /\ Return(t)
    /\ UNCHANGED <<panel, sequence, editRevision, disposed, jobs, quiet, world,
                   since, asked, dropped>>

\* The user cancels: the request is forgotten at once and its job, when it is
\* known, is canceled by a call that no later abort reaches.
PreviewCancel ==
    /\ panel = "preview" /\ ~disposed /\ active # 0
    /\ sequence' = sequence + 1
    /\ active' = 0
    /\ IF KnownJob = {}
       THEN calls' = Abort /\ Publish([phase |-> "canceled", fresh |-> Stale])
       ELSE /\ Invoke([calls[active] EXCEPT !.pc = "cancel", !.seq = sequence + 1,
                                            !.aborted = FALSE, !.answer = InFlight])
            /\ Publish([phase |-> "canceling", fresh |-> Stale])
    /\ UNCHANGED <<editRevision, disposed, quiet>>

PreviewCanceled(t) ==
    /\ panel = "preview" /\ Answered(t, "cancel")
    /\ LET s == calls[t].answer.state IN
       IF ~IsCurrent(t) THEN Return(t) /\ UNCHANGED ui
       ELSE IF s = "succeeded" THEN Await(t, [pc |-> "result"]) /\ UNCHANGED ui
       ELSE /\ Return(t)
            /\ Publish([phase |-> IF s \in {"canceled", "superseded"} THEN s ELSE "failed"])
    /\ dropped' = IF calls[t].answer = Lost THEN dropped \cup {calls[t].job} ELSE dropped
    /\ UNCHANGED <<panel, sequence, editRevision, active, disposed, jobs, quiet, world,
                   since, asked>>

\* A saved preview job is shown, or followed if it is still active; version is what
\* the draft was when it was opened.  Only the result of a job that ended is compared
\* with that draft.  The request it replaces is aborted, not canceled.
PreviewRestore(j, version) ==
    /\ panel = "preview" /\ ~disposed
    /\ sequence' = sequence + 1
    /\ dropped' = dropped \cup KnownJob
    /\ LET follow == [Request(jobs[j].draft, "preview", "poll") EXCEPT !.job = j] IN
       CASE jobs[j].state = "succeeded" ->
                /\ Invoke(Ended(follow))
                /\ active' = 0
                /\ Publish([phase |-> "succeeded", result |-> ResultOf(j), last |-> version,
                            fresh |-> IF jobs[j].draft = version THEN "current" ELSE "stale"])
         [] jobs[j].state = "active" ->
                /\ Invoke(follow)
                /\ active' = Len(calls) + 1
                /\ Publish([phase |-> "running", result |-> NoResult, fresh |-> "none",
                            last |-> version])
         [] OTHER ->
                /\ Invoke(Ended(follow))
                /\ active' = 0
                /\ Publish([phase |-> jobs[j].state, result |-> NoResult, fresh |-> "none",
                            last |-> version])
    /\ UNCHANGED <<editRevision, disposed, quiet>>

-----------------------------------------------------------------------------
(* OutputJobCoordinator: the geometry, then the export of it. *)
\* Another project is opened in the panel.
OutputReset(p) ==
    /\ panel = "output" /\ ~disposed /\ p # ui.project
    /\ sequence' = sequence + 1
    /\ calls' = Abort
    /\ quiet' = quiet \cup KnownJob
    /\ active' = 0 /\ editRevision' = 0
    /\ ui' = initialState(p)
    /\ UNCHANGED disposed

OutputMarkStale ==
    /\ panel = "output" /\ ~disposed
    /\ editRevision' = editRevision + 1
    /\ sequence' = IF active # 0 THEN sequence + 1 ELSE sequence
    /\ calls' = Abort
    /\ quiet' = quiet \cup KnownJob
    /\ active' = 0
    /\ Publish([phase |-> "stale", step |-> "none", fresh |-> Stale])
    /\ UNCHANGED disposed

OutputStart(version) ==
    /\ panel = "output" /\ ~disposed /\ ui.project # NoProject
    /\ Invoke(Request(version, "geometry", "start"))
    /\ quiet' = quiet \cup KnownJob
    /\ sequence' = sequence + 1
    /\ active' = Len(calls) + 1
    /\ Publish([phase |-> "submitting", step |-> "geometry", result |-> NoResult,
                fresh |-> "none", last |-> version])
    /\ UNCHANGED <<editRevision, disposed>>

OutputFails(t) ==
    /\ active' = 0
    /\ Publish([phase |-> "failed", step |-> calls[t].step])
    /\ Return(t)

\* Mutant: a superseded job ends the invocation without a word.
OutputFollowSilent(t, job, s) ==
    \/ /\ s = "succeeded"
       /\ Await(t, [pc |-> "result", job |-> job])
       /\ UNCHANGED <<ui, active>>
    \/ s = "failed" /\ OutputFails(t)
    \/ s = "superseded" /\ Return(t) /\ UNCHANGED <<ui, active>>
    \/ /\ s = "canceled"
       /\ active' = 0
       /\ Publish([phase |-> s, step |-> "none"])
       /\ Return(t)
    \/ /\ s = "active"
       /\ Await(t, [pc |-> "poll", job |-> job])
       /\ Publish([phase |-> "running", step |-> calls[t].step])
       /\ UNCHANGED active

OutputFollow(t, job, s) ==
    \/ /\ s = "succeeded"
       /\ Await(t, [pc |-> "result", job |-> job])
       /\ UNCHANGED <<ui, active>>
    \/ s = "failed" /\ OutputFails(t)
    \/ /\ s \in {"canceled", "superseded"}
       /\ active' = 0
       /\ Publish([phase |-> s, step |-> "none"])
       /\ Return(t)
    \/ /\ s = "active"
       /\ Await(t, [pc |-> "poll", job |-> job])
       /\ Publish([phase |-> "running", step |-> calls[t].step])
       /\ UNCHANGED active

\* The result of the geometry, which the export is asked for with, or of the
\* export; an unusable result fails like a lost one.
OutputResult(t) ==
    /\ panel = "output" /\ Answered(t, "result")
    /\ IF ~IsCurrent(t) THEN Return(t) /\ UNCHANGED <<ui, active>>
       ELSE \/ OutputFails(t)
            \/ /\ calls[t].answer # Lost /\ calls[t].step = "geometry"
               /\ Await(t, [pc |-> "start", step |-> "export", job |-> 0])
               /\ Publish([phase |-> "submitting", step |-> "export"])
               /\ UNCHANGED active
            \/ /\ calls[t].answer # Lost /\ calls[t].step = "export"
               /\ active' = 0
               /\ Publish([phase |-> "succeeded", step |-> "none", result |-> ResultOf(calls[t].job),
                           fresh |-> Freshness(t)])
               /\ Return(t)
    /\ UNCHANGED <<panel, sequence, editRevision, disposed, jobs, quiet, world,
                   since, asked, dropped>>

OutputCancel ==
    /\ panel = "output" /\ ~disposed /\ active # 0
    /\ sequence' = sequence + 1
    /\ active' = 0
    /\ IF KnownJob = {}
       THEN calls' = Abort /\ Publish([phase |-> "canceled", step |-> "none"])
       ELSE /\ Invoke([calls[active] EXCEPT !.pc = "cancel", !.seq = sequence + 1,
                                            !.aborted = FALSE, !.answer = InFlight])
            /\ Publish([phase |-> "canceling", step |-> calls[active].step])
    /\ UNCHANGED <<editRevision, disposed, quiet>>

\* Mutant: the answer is published whatever happened since.
OutputCanceledLate(t) ==
    /\ panel = "output" /\ Answered(t, "cancel")
    /\ Return(t)
    /\ Publish([phase |-> "canceled", step |-> "none"])
    /\ dropped' = IF calls[t].answer = Lost THEN dropped \cup {calls[t].job} ELSE dropped
    /\ UNCHANGED <<panel, sequence, editRevision, active, disposed, jobs, quiet, world,
                   since, asked>>

\* A job that succeeded meanwhile counts as canceled: its result is not shown.
OutputCanceled(t) ==
    /\ panel = "output" /\ Answered(t, "cancel")
    /\ Return(t)
    /\ LET s == calls[t].answer.state IN
       IF disposed \/ calls[t].seq # sequence THEN UNCHANGED ui
       ELSE IF s \in {"canceled", "superseded", "succeeded"}
            THEN Publish([phase |-> IF s = "superseded" THEN s ELSE "canceled", step |-> "none"])
            ELSE Publish([phase |-> "failed", step |-> calls[t].step])
    /\ dropped' = IF calls[t].answer = Lost THEN dropped \cup {calls[t].job} ELSE dropped
    /\ UNCHANGED <<panel, sequence, editRevision, active, disposed, jobs, quiet, world,
                   since, asked>>

-----------------------------------------------------------------------------
(* MuralBuildCoordinator: the geometry, then the mural build from it.  It     *)
(* keeps no count of changes; a change of the plan gives up the request.      *)
MuralReset(p) ==
    /\ panel = "mural" /\ ~disposed /\ p # ui.project
    /\ sequence' = sequence + 1
    /\ calls' = Abort
    /\ quiet' = quiet \cup KnownJob
    /\ active' = 0
    /\ ui' = initialState(p)
    /\ UNCHANGED <<editRevision, disposed>>

MuralMarkStale ==
    /\ panel = "mural" /\ ~disposed
    /\ sequence' = IF active # 0 THEN sequence + 1 ELSE sequence
    /\ calls' = Abort
    /\ quiet' = quiet \cup KnownJob
    /\ active' = 0
    /\ IF active = 0 /\ ui.result = NoResult /\ ui.phase = "idle" THEN UNCHANGED ui
       ELSE Publish([phase |-> "stale", step |-> "none", fresh |-> Stale])
    /\ UNCHANGED <<editRevision, disposed>>

MuralStart(version) ==
    /\ panel = "mural" /\ ~disposed /\ ui.project # NoProject
    /\ Invoke(Request(version, "geometry", "start"))
    /\ quiet' = quiet \cup KnownJob
    /\ sequence' = sequence + 1
    /\ active' = Len(calls) + 1
    /\ Publish([phase |-> "submitting", step |-> "geometry", result |-> NoResult,
                fresh |-> "none", last |-> version])
    /\ UNCHANGED <<editRevision, disposed>>

MuralFails(t) ==
    /\ active' = 0
    /\ Publish([phase |-> "failed"])
    /\ Return(t)

\* A superseded job ends the invocation and leaves the phase and the active
\* request as they are.
MuralFollow(t, job, s) ==
    \/ /\ s = "succeeded"
       /\ Await(t, [pc |-> "result", job |-> job])
       /\ Publish([step |-> calls[t].step])
       /\ UNCHANGED active
    \/ s = "failed" /\ MuralFails(t)
    \/ /\ s = "canceled"
       /\ active' = 0
       /\ Publish([phase |-> "canceled"])
       /\ Return(t)
    \/ /\ s = "superseded"
       /\ calls' = [calls EXCEPT ![t] = Ended([@ EXCEPT !.job = job])]
       /\ Publish([step |-> calls[t].step])
       /\ UNCHANGED active
    \/ /\ s = "active"
       /\ Await(t, [pc |-> "poll", job |-> job])
       /\ Publish([phase |-> "running", step |-> calls[t].step])
       /\ UNCHANGED active

\* The package is shown when it is verified for the plan that was asked for,
\* with or without the permission to download it.
MuralResult(t) ==
    /\ panel = "mural" /\ Answered(t, "result")
    /\ IF ~IsCurrent(t) THEN Return(t) /\ UNCHANGED <<ui, active>>
       ELSE \/ MuralFails(t)
            \/ /\ calls[t].answer # Lost /\ calls[t].step = "geometry"
               /\ Await(t, [pc |-> "start", step |-> "mural", job |-> 0])
               /\ Publish([phase |-> "submitting", step |-> "mural"])
               /\ UNCHANGED active
            \/ /\ calls[t].answer # Lost /\ calls[t].step = "mural"
               /\ active' = 0
               /\ \E blocked \in BOOLEAN :
                    Publish([phase |-> IF blocked THEN "validation-blocked" ELSE "succeeded",
                             step |-> "none", result |-> ResultOf(calls[t].job), fresh |-> "current"])
               /\ Return(t)
    /\ UNCHANGED <<panel, sequence, editRevision, disposed, jobs, quiet, world,
                   since, asked, dropped>>

\* The request stays the active one until the server confirms, also when nobody
\* follows its job any more.
MuralCancel ==
    /\ panel = "mural" /\ active # 0
    /\ IF KnownJob = {}
       THEN calls' = Abort /\ active' = 0 /\ Publish([phase |-> "canceled", step |-> "none"])
       ELSE /\ Invoke([calls[active] EXCEPT !.pc = "cancel", !.seq = sequence,
                           !.project = ui.project, !.aborted = FALSE, !.answer = InFlight])
            /\ Publish([phase |-> "canceling"])
            /\ UNCHANGED active
    /\ UNCHANGED <<sequence, editRevision, disposed, quiet>>

MuralCanceled(t) ==
    /\ panel = "mural" /\ Answered(t, "cancel")
    /\ Return(t)
    /\ LET s == calls[t].answer.state IN
       IF ~IsCurrent(t) THEN UNCHANGED <<ui, active>>
       ELSE /\ active' = 0
            /\ Publish([phase |-> CASE s = "lost" -> "failed"
                                    [] s = "canceled" -> "canceled"
                                    [] OTHER -> "superseded",
                        step |-> "none"])
    /\ dropped' = IF calls[t].answer = Lost THEN dropped \cup {calls[t].job} ELSE dropped
    /\ UNCHANGED <<panel, sequence, editRevision, disposed, jobs, quiet, world,
                   since, asked>>

-----------------------------------------------------------------------------
(* What an answer to a start request or to a poll does, in every panel. *)
Fails(t) ==
    \/ panel = "preview" /\ PreviewFails(t)
    \/ panel = "output" /\ OutputFails(t)
    \/ panel = "mural" /\ MuralFails(t)

Follow(t, job, s) ==
    \/ panel = "preview" /\ PreviewFollow(t, job, s)
    \/ panel = "output" /\ OutputFollow(t, job, s)
    \/ panel = "mural" /\ MuralFollow(t, job, s)

\* The job of a request that was given up is canceled as soon as it is known.
Started(t) ==
    /\ Answered(t, "start")
    /\ LET a == calls[t].answer IN
       IF ~IsCurrent(t)
       THEN /\ quiet' = IF a = Lost THEN quiet ELSE quiet \cup {a.job}
            /\ Return(t) /\ UNCHANGED <<ui, active>>
       ELSE /\ IF a = Lost THEN Fails(t) ELSE Follow(t, a.job, a.state)
            /\ UNCHANGED quiet
    /\ UNCHANGED <<panel, sequence, editRevision, disposed, jobs, world, since, asked, dropped>>

Polled(t) ==
    /\ Answered(t, "poll")
    /\ IF ~IsCurrent(t) THEN Return(t) /\ UNCHANGED <<ui, active, dropped>>
       ELSE IF calls[t].answer = Lost
            THEN Fails(t) /\ dropped' = dropped \cup {calls[t].job}
            ELSE Follow(t, calls[t].job, jobs[calls[t].job].state) /\ UNCHANGED dropped
    /\ UNCHANGED <<panel, sequence, editRevision, disposed, jobs, quiet, world,
                   since, asked>>

-----------------------------------------------------------------------------
(* The user, and the application around the panel. *)
UserActs == since' = Len(calls) /\ UNCHANGED <<panel, jobs>>

StartAt(version) ==
    /\ PreviewStart(version) \/ OutputStart(version) \/ MuralStart(version)
    /\ asked' = [draft |-> version, screen |-> draft]
    /\ UserActs /\ UNCHANGED <<world, dropped>>

\* A preview or an output is asked for with what was on screen before the window
\* waited for its saves; a mural build with what is on screen.
Start == \E version \in (IF panel = "mural" THEN {draft} ELSE 1 .. draft) : StartAt(version)

\* The failed request is made again, exactly.
Retry ==
    /\ ui.last # 0 /\ ui.phase \in {"failed", "validation-blocked"}
    /\ StartAt(ui.last)

\* The project is opened again.  The draft may change while the result of its
\* latest preview is read, so that the version it is compared with is an earlier one.
Restore(j) ==
    /\ j \in DOMAIN jobs
    /\ Trouble
    /\ \E version \in 1 .. draft :
        /\ PreviewRestore(j, version)
        /\ asked' = [draft |-> IF jobs[j].state = "active" THEN jobs[j].draft ELSE version,
                     screen |-> draft]
    /\ UserActs /\ UNCHANGED draft

\* The draft or the plan changes, and with it what a result must show.
Edit ==
    /\ Trouble /\ draft' = draft + 1
    /\ PreviewMarkStale \/ OutputMarkStale \/ MuralMarkStale
    /\ since' = IF active # 0 /\ panel # "preview" THEN Len(calls) ELSE since
    /\ UNCHANGED <<panel, jobs, asked, dropped>>

Cancel ==
    /\ PreviewCancel \/ OutputCancel \/ MuralCancel
    /\ since' = IF ui.phase = "canceling" THEN since ELSE Len(calls)
    /\ UNCHANGED <<panel, jobs, world, asked, dropped>>

Open(p) ==
    /\ Trouble
    /\ OutputReset(p) \/ MuralReset(p)
    /\ UserActs /\ UNCHANGED <<draft, asked, dropped>>

\* The component is unmounted.
Dispose ==
    /\ Trouble
    /\ ~disposed /\ disposed' = TRUE
    /\ sequence' = sequence + 1
    /\ calls' = Abort
    /\ quiet' = quiet \cup KnownJob
    /\ active' = 0
    /\ UserActs /\ UNCHANGED <<ui, editRevision, draft, asked, dropped>>

\* The continuation of invocation t.
Continue(t) ==
    \/ AbortError(t) \/ Started(t) \/ Polled(t)
    \/ PreviewResult(t) \/ PreviewCanceled(t)
    \/ OutputResult(t) \/ OutputCanceled(t)
    \/ MuralResult(t) \/ MuralCanceled(t)

Serve(t) == ServeStart(t) \/ RefuseStart(t) \/ ServeCancel(t)

Call == 1 .. MaxCalls
Jobs == 1 .. 2 * MaxCalls

Next ==
    \/ Start \/ Retry \/ Edit \/ Cancel \/ Dispose
    \/ \E p \in Project \cup {NoProject} : Open(p)
    \/ \E t \in Call : Continue(t) \/ Serve(t) \/ LoseCall(t)
    \/ \E j \in Jobs : Restore(j) \/ ServeQuiet(j) \/ LoseQuiet(j) \/ JobEnds(j) \/ OtherWindow(j)

Spec == Init /\ [][Next]_vars

\* The browser runs every continuation, the server answers every call, and
\* every job ends (JobsTerminate of Workers).
FairSpec ==
    /\ Spec
    /\ \A t \in Call : WF_vars(Continue(t)) /\ WF_vars(Serve(t))
    /\ \A j \in Jobs : WF_vars(JobEnds(j))

-----------------------------------------------------------------------------
Busy == {"submitting", "running", "canceling"}

\* Types: what the panel publishes, and every reference into the calls and jobs.
TypeOK ==
    /\ panel \in Panels
    /\ ui.phase \in {"idle", "stale", "validation-blocked"} \cup Busy \cup Terminal
    /\ ui.project \in Project \cup {NoProject} /\ ui.last \in 0 .. draft
    /\ ui.fresh \in {"none", "stale", "current"}
    /\ active \in 0 .. Len(calls) /\ since \in 0 .. Len(calls)
    /\ asked \in [draft : Nat, screen : Nat]
    /\ quiet \cup dropped \cup {calls[t].job : t \in DOMAIN calls} \subseteq 0 .. Len(jobs)
    /\ \A j \in DOMAIN jobs : j \in Jobs /\ jobs[j].state \in JobState

\* A result is called current only if it is of the project on screen and of the
\* version that the latest request, or restoration, is about, and if nothing was
\* changed since that was made: whatever answers are overtaken by a cancellation, an
\* edit, another project or a newer request, and whatever job a request was given.
CurrentIsAsked ==
    ui.fresh = "current" =>
        /\ ui.result = [draft |-> asked.draft, project |-> ui.project]
        /\ draft = asked.screen

\* A result called current is of the draft on screen.  It need not be: a request is
\* made with what was on screen before the saves, a failed one is repeated as it
\* was, and a restored job that is active is followed unseen.
CurrentIsOnScreen ==
    ui.fresh = "current" => ui.result = [draft |-> draft, project |-> ui.project]

\* Once the user has started, restored, canceled or opened something else, or
\* given up an output by an edit, the answers to earlier calls change nothing on
\* screen.
NoLateUpdates == [][\A t \in Call : Continue(t) /\ ui' # ui => t > since]_vars

\* A job the panel knows of is never left running unattended: the panel follows
\* it, or a cancellation of it is on its way, unless a call about it was lost or
\* a restored job replaced it.
KnownWorkIsOwned ==
    \A t \in DOMAIN calls :
        calls[t].job # 0 /\ jobs[calls[t].job].state = "active" =>
            \/ active # 0 /\ calls[active].job = calls[t].job
            \/ calls[t].job \in quiet \cup dropped
            \/ \E u \in DOMAIN calls :
                /\ calls[u].pc = "cancel" /\ calls[u].job = calls[t].job
                /\ calls[u].answer \in {InFlight, Lost}

\* The panel shows and follows what is its own.
PanelInv == TypeOK /\ CurrentIsAsked /\ KnownWorkIsOwned

\* A panel does not stay busy: whatever it waits for, it comes to show an end.
AlwaysSettles == ui.phase \in Busy ~> ui.phase \notin Busy \/ disposed

\* The same, but for the mural panel when one of its jobs was replaced: follow
\* returns on a superseded job without a word, and the panel shows it as running.
Settles ==
    ui.phase \in Busy ~>
        \/ ui.phase \notin Busy \/ disposed
        \/ panel = "mural" /\ \E j \in DOMAIN jobs : jobs[j].state = "superseded"

\* A panel that shows "canceled" has left no job behind on the server.
CanceledMeansStopped ==
    ui.phase = "canceled" =>
        \A j \in DOMAIN jobs : jobs[j].state = "active" => j \in quiet \cup dropped

=============================================================================
