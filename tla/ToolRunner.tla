----------------------------- MODULE ToolRunner -----------------------------
(***************************************************************************)
(* One call of ToolRunner.run (external/runner.py): a vectorizer or slicer *)
(* started in its own session, polled until it exits, is canceled or       *)
(* passes its deadline.  The tool is a leader and one child it may fork;   *)
(* either may ignore SIGTERM.                                              *)
(***************************************************************************)
EXTENDS Naturals, FiniteSets

VARIABLES
    runner,     \* where the calling thread is
    group,      \* live processes of the tool's session
    stubborn,   \* those that ignore SIGTERM
    exitCode,   \* the leader's: "none", "ok", "error" or "signal"
    wanted,     \* the cancellation token is set
    expired,    \* the deadline has passed
    stopped,    \* why the poll loop broke off: "no", "canceled", "timeout"
    result,     \* what run returned or raised: "none" while it runs
    scratch     \* the temporary workspace with the log files exists

toolVars == <<runner, group, stubborn, exitCode, wanted, expired, stopped, result, scratch>>

Tool == {"leader", "child"}
Running == {"poll", "check", "terminate", "grace", "kill", "reap", "finish"}

ToolInit ==
    /\ runner = "idle" /\ group = {} /\ exitCode = "none"
    /\ stubborn \in SUBSET Tool
    /\ wanted = FALSE /\ expired = FALSE
    /\ stopped = "no" /\ result = "none" /\ scratch = FALSE

NoToolInit ==
    /\ runner = "done" /\ group = {} /\ exitCode = "none" /\ stubborn = {}
    /\ wanted = FALSE /\ expired = FALSE
    /\ stopped = "no" /\ result = "none" /\ scratch = FALSE

(* The tool's own steps: fork, ignore the world, exit. *)
Fork ==
    /\ "leader" \in group
    /\ group' = Tool
    /\ UNCHANGED <<runner, stubborn, exitCode, wanted, expired, stopped, result, scratch>>

Die(gone, code) ==
    /\ group' = group \ gone
    /\ exitCode' = IF "leader" \in gone \cap group THEN code ELSE exitCode

Exit(t, code) ==
    /\ t \in group
    /\ t = "child" => code = "ok"       \* nobody reads a child's status
    /\ Die({t}, code)
    /\ UNCHANGED <<runner, stubborn, wanted, expired, stopped, result, scratch>>

(* The caller's token and the clock; once the loop is left neither is read. *)
CancelTool ==
    /\ runner \in {"idle", "poll", "check"} /\ ~wanted
    /\ wanted' = TRUE
    /\ UNCHANGED <<runner, group, stubborn, exitCode, expired, stopped, result, scratch>>

Expire ==
    /\ runner \in {"poll", "check"} /\ ~expired
    /\ expired' = TRUE
    /\ UNCHANGED <<runner, group, stubborn, exitCode, wanted, stopped, result, scratch>>

(* run: a token that is already set means no process is started at all. *)
Start ==
    /\ runner = "idle"
    /\ IF wanted
       THEN /\ runner' = "done" /\ result' = "canceled"
            /\ UNCHANGED <<group, scratch>>
       ELSE /\ runner' = "poll" /\ group' = {"leader"} /\ scratch' = TRUE
            /\ UNCHANGED result
    /\ UNCHANGED <<stubborn, exitCode, wanted, expired, stopped>>

Go(label) ==
    /\ runner' = label
    /\ UNCHANGED <<group, stubborn, exitCode, wanted, expired, stopped, result, scratch>>

(* while process.poll() is None *)
Poll ==
    /\ runner = "poll"
    /\ Go(IF "leader" \in group THEN "check" ELSE "reap")

(* The body: cancellation is looked at before the deadline. *)
\* Mutant: a break without _terminate_process
CheckNoSignal ==
    /\ runner = "check"
    /\ stopped' = IF wanted THEN "canceled" ELSE IF expired THEN "timeout" ELSE "no"
    /\ runner' = IF stopped' = "no" THEN "poll" ELSE "reap"
    /\ UNCHANGED <<group, stubborn, exitCode, wanted, expired, result, scratch>>

Check ==
    /\ runner = "check"
    /\ stopped' = IF wanted THEN "canceled" ELSE IF expired THEN "timeout" ELSE "no"
    /\ runner' = IF stopped' = "no" THEN "poll" ELSE "terminate"
    /\ UNCHANGED <<group, stubborn, exitCode, wanted, expired, result, scratch>>

(* _terminate_process: SIGTERM to the group unless the leader is gone, a   *)
(* second for the leader to go, then SIGKILL to the group.                 *)
Terminate ==
    /\ runner = "terminate"
    /\ IF "leader" \in group
       THEN Die(group \ stubborn, "signal") /\ runner' = "grace"
       ELSE runner' = "reap" /\ UNCHANGED <<group, exitCode>>
    /\ UNCHANGED <<stubborn, wanted, expired, stopped, result, scratch>>

Grace ==
    /\ runner = "grace"
    /\ IF "leader" \in group
       THEN runner' = "kill"            \* wait(timeout) expired
       ELSE runner' = "reap"
    /\ UNCHANGED <<group, stubborn, exitCode, wanted, expired, stopped, result, scratch>>

Kill ==
    /\ runner = "kill"
    /\ Die(group, "signal")
    /\ runner' = "reap"
    /\ UNCHANGED <<stubborn, wanted, expired, stopped, result, scratch>>

(* process.wait(), the logs are read; cancellation wins over the timeout   *)
(* and both over the exit status; the log files and the directory go.      *)
Outcome == IF stopped # "no" THEN stopped ELSE IF exitCode = "ok" THEN "ok" ELSE "error"

Reap ==
    /\ runner = "reap" /\ "leader" \notin group
    /\ runner' = "finish"
    /\ result' = Outcome
    /\ UNCHANGED <<group, stubborn, exitCode, wanted, expired, stopped, scratch>>

Finish ==
    /\ runner = "finish"
    /\ runner' = "done"
    /\ scratch' = FALSE
    /\ UNCHANGED <<group, stubborn, exitCode, wanted, expired, stopped, result>>

(* The server process dies under the call: nobody is left to clean up. *)
Abandon ==
    /\ runner' = IF runner \in Running THEN "dead" ELSE runner
    /\ UNCHANGED <<group, stubborn, exitCode, wanted, expired, stopped, result, scratch>>

Call == Start \/ Poll \/ Check \/ Terminate \/ Grace \/ Kill \/ Reap \/ Finish
ToolWorld == Fork \/ CancelTool \/ Expire \/ \E t \in Tool, c \in {"ok", "error"} : Exit(t, c)

(* The calling thread keeps running and the deadline passes; neither the   *)
(* tool's exit nor a cancellation is assumed.                              *)
ToolFairness == WF_toolVars(Call) /\ WF_toolVars(Expire)

-----------------------------------------------------------------------------
(* Once the call is over the tool's main process has been reaped and its   *)
(* directory removed, however the call ended.                              *)
NothingLeft == runner = "done" => "leader" \notin group /\ ~scratch

(* A main process that ignores SIGTERM takes its descendants with it: the  *)
(* SIGKILL goes to the group.                                              *)
KilledTreeIsGone == ("leader" \in stubborn /\ exitCode = "signal") => group = {}

(* A result is reported as good only if the tool exited well and was       *)
(* neither canceled nor stopped by the deadline: exporting publishes it.   *)
GoodOnlyIfFinished == result = "ok" => exitCode = "ok" /\ stopped = "no"

(* Every call ends, even of a tool that never exits and ignores SIGTERM.   *)
CallsEnd == (runner = "poll") ~> (runner \in {"done", "dead"})

(* external-tools.md: timeout and cancellation terminate descendants.      *)
(* Fails: _terminate_process returns as soon as the leader has gone, so a  *)
(* child that ignores SIGTERM outlives the call.                           *)
DescendantsTerminated == result \in {"canceled", "timeout"} => group = {}
=============================================================================
