---------------------------- MODULE PanelProofs ----------------------------
(***************************************************************************)
(* The coordinators of the editor window for any number of calls, of        *)
(* troubles and of projects.                                                *)
(***************************************************************************)
EXTENDS EditorPanels, FiniteSetTheorems, TLAPS

Steps == {"none", "preview", "geometry", "export", "mural"}
Pcs == {"start", "orphan", "poll", "result", "cancel", "ended"}
Named == Project \cup {NoProject}
Answer == [job : Nat, state : {"none", "lost"} \cup JobState]
Invocation == [pc : Pcs, seq : Nat, edit : Nat, draft : Nat, project : Named,
               step : Steps, job : Nat, aborted : BOOLEAN, answer : Answer]
JobRec == [state : JobState, step : Steps, draft : Nat, project : Named]
Phase == {"idle", "stale", "validation-blocked"} \cup Busy \cup Terminal
Shown == [phase : Phase, project : Named, step : Steps, result : [draft : Nat, project : Named],
          fresh : {"none", "stale", "current"}, last : Nat]

\* Types of all that the panel and the server keep.
PanelTypes ==
    /\ panel \in Panels /\ ui \in Shown
    /\ sequence \in Nat /\ editRevision \in Nat /\ active \in Nat /\ disposed \in BOOLEAN
    /\ calls \in Seq(Invocation) /\ jobs \in Seq(JobRec)
    /\ quiet \subseteq Nat /\ dropped \subseteq Nat
    /\ draft \in Nat \ {0} /\ troubles \in Nat /\ since \in Nat
    /\ asked \in [draft : Nat, screen : Nat] /\ (panel = "mural" => asked.draft # 0)

\* References are to what exists.
RefsFit ==
    /\ Len(calls) <= MaxCalls /\ active <= Len(calls) /\ since <= Len(calls)
    /\ quiet \subseteq DOMAIN jobs /\ dropped \subseteq DOMAIN jobs
    /\ \A t \in DOMAIN calls : calls[t].job \in 0 .. Len(jobs)
    /\ ui.last <= draft

\* A call knows its job once it polls for it; an answer names a job and its state,
\* and a state that was an end still is.
CallFits(c) ==
    /\ c.pc \in {"poll", "result", "cancel"} => c.job # 0
    /\ c.pc \in {"start", "orphan"} => c.job = 0
    /\ c.answer \in {InFlight, Lost} \/ (c.answer.job \in DOMAIN jobs /\ c.answer.state \in JobState)
    /\ c.answer.state \in Terminal => jobs[c.answer.job].state \in Terminal
    /\ c.pc = "result" => jobs[c.job].state \in Terminal
    /\ c.pc = "orphan" => c.answer = InFlight
    /\ c.pc = "cancel" => c.answer \in {InFlight, Lost}
                            \/ (c.answer.state \in Terminal /\ c.answer.job = c.job)

\* A job does what its call asked for.
JobFits(c) ==
    /\ c.pc \in {"poll", "result", "cancel"} =>
          \/ panel = "mural" /\ c.pc = "cancel"
          \/ jobs[c.job].draft = c.draft /\ jobs[c.job].project = c.project
    /\ c.pc = "start" /\ c.answer \notin {InFlight, Lost} =>
          jobs[c.answer.job].draft = c.draft /\ jobs[c.answer.job].project = c.project

CallsFit == \A t \in DOMAIN calls : CallFits(calls[t]) /\ JobFits(calls[t])

\* The preview panel stays with one project.
PreviewFits == panel = "preview" =>
    /\ \A j \in DOMAIN jobs : jobs[j].project = ui.project
    /\ \A t \in DOMAIN calls : calls[t].pc # "ended" => calls[t].project = ui.project

\* Numbers are given out once; what has the latest number is of the project on screen.
NumbersFit ==
    /\ calls # <<>> => sequence # 0
    /\ \A t \in DOMAIN calls : calls[t].seq <= sequence /\ (calls[t].pc = "ended" <=> calls[t].seq = 0)
    /\ \A t \in DOMAIN calls : calls[t].seq = sequence => calls[t].project = ui.project /\ ~disposed
    /\ active # 0 => /\ calls[active].seq \in {sequence, 0}
                     /\ ~disposed

\* Preview and output: only the newest call has the latest number, and it was made
\* after whatever the user did last.
NewestFits == panel # "mural" =>
    /\ \A t \in DOMAIN calls : calls[t].seq = sequence =>
          /\ t = Len(calls) /\ t > since /\ ~calls[t].aborted
          /\ calls[t].edit <= editRevision
          /\ calls[t].draft = asked.draft
          /\ calls[t].edit = editRevision => draft = asked.screen
          /\ calls[t].pc \in {"start", "poll"} \/ (panel = "output" /\ calls[t].pc = "result") =>
                t = active
    /\ active # 0 => /\ active = Len(calls) /\ calls[active].seq = sequence
                     /\ calls[active].pc \in {"start", "poll", "result"}

\* Mural: what has the latest number is the active request, aborted, or a
\* cancellation of it.
MuralFits == panel = "mural" =>
    /\ \A t \in DOMAIN calls : calls[t].seq = sequence =>
          /\ calls[t].pc \in {"start", "poll", "result"} /\ ~calls[t].aborted =>
                t = active /\ t > since /\ calls[t].draft = asked.draft /\ draft = asked.screen
          /\ calls[t].pc = "cancel" => t > since /\ ~calls[t].aborted
          /\ calls[t].pc = "cancel" /\ active # 0 =>
                ui.phase = "canceling" /\ calls[active].job = calls[t].job
    /\ active # 0 /\ ui.phase = "canceling" => calls[active].aborted \/ calls[active].pc = "ended"

\* CurrentIsAsked and KnownWorkIsOwned, with the jobs by name.
Owned(j) ==
    \/ active # 0 /\ calls[active].job = j
    \/ j \in quiet \cup dropped
    \/ \E u \in DOMAIN calls : /\ calls[u].pc = "cancel" /\ calls[u].job = j
                               /\ calls[u].answer \in {InFlight, Lost}

WorkFits == \A t \in DOMAIN calls :
    calls[t].job # 0 /\ jobs[calls[t].job].state = "active" => Owned(calls[t].job)

\* The steps at which a panel may start jobs, and when a call has done with one.
StepsOf(p) == CASE p = "preview" -> {"preview"} [] p = "output" -> {"geometry", "export"}
                [] p = "mural" -> {"geometry", "mural"}
HasAsked(c, s) ==
    \/ c.step = "none" \/ (s \in {"preview", "geometry"} /\ c.step # s)
    \/ c.step = s /\ (c.pc \notin {"start", "orphan"} \/ c.answer # InFlight)
Slots == {x \in (DOMAIN calls) \X StepsOf(panel) : HasAsked(calls[x[1]], x[2])}
JobsCounted == \E f \in [DOMAIN jobs -> Slots] : \A i, j \in DOMAIN jobs : f[i] = f[j] => i = j
StepsFit == \A t \in DOMAIN calls : calls[t].step \in StepsOf(panel) \cup {"none"}
               /\ (calls[t].step = "none" =>
                    calls[t].pc = "ended" \/ (panel = "mural" /\ calls[t].pc = "cancel"))
               /\ (calls[t].pc = "ended" => calls[t].step = "none")

PInv ==
    /\ PanelTypes /\ RefsFit /\ CallsFit /\ PreviewFits /\ NumbersFit /\ NewestFits /\ MuralFits
    /\ CurrentIsAsked /\ WorkFits /\ StepsFit /\ JobsCounted

\* What the transport owes the mural panel.
Contract == "mural" \notin LateAnswers

-----------------------------------------------------------------------------
(* Records and sequences. *)
LEMMA CallIs ==
    ASSUME PanelTypes, NEW t \in DOMAIN calls
    PROVE  /\ calls[t] \in Invocation /\ DOMAIN calls = 1 .. Len(calls) /\ Len(calls) \in Nat
           /\ t \in Nat \ {0} /\ t <= Len(calls)
BY DEF PanelTypes

LEMMA JobIs ==
    ASSUME PanelTypes, NEW j \in DOMAIN jobs
    PROVE  /\ jobs[j] \in JobRec /\ DOMAIN jobs = 1 .. Len(jobs) /\ Len(jobs) \in Nat
           /\ j \in Nat \ {0} /\ j <= Len(jobs)
BY DEF PanelTypes

LEMMA ConstantsAre ==
    /\ InFlight \in Answer /\ Lost \in Answer /\ InFlight # Lost
    /\ InFlight.job = 0 /\ InFlight.state = "none" /\ Lost.job = 0 /\ Lost.state = "lost"
BY DEF InFlight, Lost, Answer

LEMMA EndedIs ==
    ASSUME NEW r \in Invocation
    PROVE  LET c == Ended(r) IN
           /\ c \in Invocation
           /\ c.pc = "ended" /\ c.seq = 0 /\ c.edit = 0 /\ c.draft = 0
           /\ c.project = NoProject /\ c.step = "none" /\ c.job = r.job /\ c.aborted = FALSE
           /\ c.answer = InFlight
BY ConstantsAre DEF Ended, Invocation, Pcs, Named, Steps

\* An invocation goes on for its next answer: field by field.
LEMMA AwaitIs ==
    ASSUME NEW r \in Invocation, NEW patch, DOMAIN patch \subseteq {"pc", "step", "job"},
           "pc" \in DOMAIN patch => patch["pc"] \in Pcs,
           "step" \in DOMAIN patch => patch["step"] \in Steps,
           "job" \in DOMAIN patch => patch["job"] \in Nat
    PROVE  LET c == Patched([r EXCEPT !.answer = InFlight], patch) IN
           /\ c \in Invocation
           /\ c.pc = IF "pc" \in DOMAIN patch THEN patch["pc"] ELSE r.pc
           /\ c.step = IF "step" \in DOMAIN patch THEN patch["step"] ELSE r.step
           /\ c.job = IF "job" \in DOMAIN patch THEN patch["job"] ELSE r.job
           /\ c.answer = InFlight
           /\ c.seq = r.seq /\ c.edit = r.edit /\ c.draft = r.draft
           /\ c.project = r.project /\ c.aborted = r.aborted
<1> DEFINE q == [r EXCEPT !.answer = InFlight]
           c == Patched(q, patch)
<1>1. /\ q \in Invocation /\ q.answer = InFlight
      /\ q.pc = r.pc /\ q.step = r.step /\ q.job = r.job
      /\ q.seq = r.seq /\ q.edit = r.edit /\ q.draft = r.draft
      /\ q.project = r.project /\ q.aborted = r.aborted
    BY ConstantsAre DEF Invocation
<1> HIDE DEF q
<1>2. DOMAIN q = {"pc", "seq", "edit", "draft", "project", "step", "job", "aborted",
                  "answer"}
    BY <1>1 DEF Invocation
<1>3. c = [f \in {"pc", "seq", "edit", "draft", "project", "step", "job", "aborted",
                  "answer"} |-> IF f \in DOMAIN patch THEN patch[f] ELSE q[f]]
    BY <1>2 DEF Patched
<1> HIDE DEF c
<1>4. /\ c.pc = IF "pc" \in DOMAIN patch THEN patch["pc"] ELSE r.pc
      /\ c.step = IF "step" \in DOMAIN patch THEN patch["step"] ELSE r.step
      /\ c.job = IF "job" \in DOMAIN patch THEN patch["job"] ELSE r.job
    BY <1>1, <1>3
<1>5. /\ c.answer = InFlight
      /\ c.seq = r.seq /\ c.edit = r.edit /\ c.draft = r.draft
      /\ c.project = r.project /\ c.aborted = r.aborted
    BY <1>1, <1>3
<1>6. /\ c.pc \in Pcs /\ c.step \in Steps /\ c.job \in Nat
      /\ c.answer \in Answer /\ c.seq \in Nat /\ c.edit \in Nat /\ c.draft \in Nat
      /\ c.project \in Named /\ c.aborted \in BOOLEAN
    BY <1>4, <1>5, ConstantsAre DEF Invocation
<1>7. c \in Invocation
    BY <1>3, <1>6 DEF Invocation
<1> QED
    BY <1>4, <1>5, <1>7 DEF c, q

\* What is published, field by field.
LEMMA PublishIs ==
    ASSUME PanelTypes, ~disposed, NEW patch, Publish(patch)
    PROVE  /\ DOMAIN ui' = DOMAIN ui
           /\ ui' = [f \in {"phase", "project", "step", "result", "fresh", "last"} |-> ui'[f]]
           /\ ui'.phase = IF "phase" \in DOMAIN patch THEN patch.phase ELSE ui.phase
           /\ ui'.project = IF "project" \in DOMAIN patch THEN patch.project ELSE ui.project
           /\ ui'.step = IF "step" \in DOMAIN patch THEN patch.step ELSE ui.step
           /\ ui'.result = IF "result" \in DOMAIN patch THEN patch.result ELSE ui.result
           /\ ui'.fresh = IF "fresh" \in DOMAIN patch THEN patch.fresh ELSE ui.fresh
           /\ ui'.last = IF "last" \in DOMAIN patch THEN patch.last ELSE ui.last
BY DEF Publish, Patched, PanelTypes, Shown

LEMMA ShownIs ==
    ASSUME NEW u, u = [f \in {"phase", "project", "step", "result", "fresh", "last"} |-> u[f]],
           u.phase \in Phase, u.project \in Named, u.step \in Steps,
           u.result \in [draft : Nat, project : Named], u.fresh \in {"none", "stale", "current"},
           u.last \in Nat
    PROVE  u \in Shown
BY DEF Shown

-----------------------------------------------------------------------------
(* The jobs are as many as the requests for them. *)

LEMMA JobsStayCounted ==
    ASSUME JobsCounted, DOMAIN jobs' = DOMAIN jobs, Slots \subseteq Slots'
    PROVE  JobsCounted'
<1>1. PICK f \in [DOMAIN jobs -> Slots] : \A i, j \in DOMAIN jobs : f[i] = f[j] => i = j
    BY DEF JobsCounted
<1>2. f \in [DOMAIN jobs' -> Slots']
    OBVIOUS
<1> QED
    BY <1>1, <1>2 DEF JobsCounted

\* A job more, asked for at a step for which its call had started none.
LEMMA AnotherJob ==
    ASSUME JobsCounted, NEW k, k \notin DOMAIN jobs, DOMAIN jobs' = DOMAIN jobs \cup {k},
           Slots \subseteq Slots', NEW x \in Slots' \ Slots
    PROVE  JobsCounted'
<1>1. PICK f \in [DOMAIN jobs -> Slots] : \A i, j \in DOMAIN jobs : f[i] = f[j] => i = j
    BY DEF JobsCounted
<1> DEFINE g == [i \in DOMAIN jobs' |-> IF i = k THEN x ELSE f[i]]
<1>2. g \in [DOMAIN jobs' -> Slots']
    BY <1>1
<1>3. \A i, j \in DOMAIN jobs' : g[i] = g[j] => i = j
    BY <1>1
<1> QED
    BY <1>2, <1>3 DEF JobsCounted

LEMMA Pair ==
    ASSUME NEW a, NEW b, a # b
    PROVE  IsFiniteSet({a, b}) /\ Cardinality({a, b}) = 2
<1>1. IsFiniteSet({a}) /\ Cardinality({a}) = 1
    BY FS_Singleton
<1>2. IsFiniteSet({a} \cup {b}) /\ Cardinality({a} \cup {b}) = 1 + 1
    BY <1>1, FS_AddElement
<1>3. {a, b} = {a} \cup {b}
    OBVIOUS
<1> QED
    BY <1>2, <1>3

\* The bound on the job numbers that Next considers is enough.
LEMMA JobsAreBounded ==
    ASSUME PanelTypes, RefsFit, JobsCounted
    PROVE  DOMAIN jobs \subseteq Jobs
<1> DEFINE All == (1 .. MaxCalls) \X StepsOf(panel)
<1>1. /\ Len(jobs) \in Nat /\ DOMAIN jobs = 1 .. Len(jobs) /\ MaxCalls \in Nat
      /\ DOMAIN calls = 1 .. Len(calls) /\ Len(calls) \in Nat /\ Len(calls) <= MaxCalls
    BY PanelAssumption DEF PanelTypes, RefsFit
<1>2. PICK f \in [DOMAIN jobs -> Slots] : \A i, j \in DOMAIN jobs : f[i] = f[j] => i = j
    BY DEF JobsCounted
<1>3. Slots \subseteq All
    BY <1>1 DEF Slots
<1>4. IsFiniteSet(1 .. MaxCalls) /\ Cardinality(1 .. MaxCalls) = MaxCalls
    <2>1. 1 \in Int /\ MaxCalls \in Int
        BY <1>1
    <2>2. /\ IsFiniteSet(1 .. MaxCalls)
          /\ Cardinality(1 .. MaxCalls) = IF 1 > MaxCalls THEN 0 ELSE MaxCalls - 1 + 1
        BY <2>1, FS_Interval
    <2> QED
        BY <1>1, <2>2
<1>5. /\ IsFiniteSet({"preview"}) /\ Cardinality({"preview"}) = 1
      /\ IsFiniteSet({"geometry", "export"}) /\ Cardinality({"geometry", "export"}) = 2
      /\ IsFiniteSet({"geometry", "mural"}) /\ Cardinality({"geometry", "mural"}) = 2
    <2>1. IsFiniteSet({"preview"}) /\ Cardinality({"preview"}) = 1
        BY FS_Singleton
    <2> QED
        BY <2>1, Pair
<1>6. panel \in {"preview", "output", "mural"}
    BY PanelAssumption DEF PanelTypes
<1>7. /\ IsFiniteSet(StepsOf(panel)) /\ Cardinality(StepsOf(panel)) \in {1, 2}
    BY <1>5, <1>6 DEF StepsOf
<1>8. IsFiniteSet(All) /\ Cardinality(All) <= 2 * MaxCalls
    <2>1. IsFiniteSet(All) /\ Cardinality(All) = MaxCalls * Cardinality(StepsOf(panel))
        BY <1>4, <1>7, FS_Product
    <2> QED
        BY <2>1, <1>1, <1>7
<1>9. IsFiniteSet(Slots) /\ Cardinality(Slots) <= Cardinality(All) /\ Cardinality(Slots) \in Nat
    BY <1>3, <1>8, FS_Subset, FS_CardinalityType
<1>10. f \in Injection(DOMAIN jobs, Slots)
    BY <1>2 DEF Injection, IsInjective
<1>11. IsFiniteSet(DOMAIN jobs) /\ Cardinality(DOMAIN jobs) = Len(jobs)
    <2>1. 1 \in Int /\ Len(jobs) \in Int
        BY <1>1
    <2>2. /\ IsFiniteSet(1 .. Len(jobs))
          /\ Cardinality(1 .. Len(jobs)) = IF 1 > Len(jobs) THEN 0 ELSE Len(jobs) - 1 + 1
        BY <2>1, FS_Interval
    <2> QED
        BY <1>1, <2>2
<1>12. Len(jobs) <= Cardinality(Slots)
    BY <1>9, <1>10, <1>11, FS_Injection
<1>13. Cardinality(All) \in Nat
    BY <1>8, FS_CardinalityType
<1> QED
    <2> HIDE DEF All
    <2> QED
    BY <1>1, <1>8, <1>9, <1>12, <1>13 DEF Jobs
-----------------------------------------------------------------------------
(* A continuation moves its own invocation and, at most, what is published. *)

\* Invocation t may go on, or end, as c.
Moves(t, c) ==
    /\ c \in Invocation /\ CallFits(c) /\ JobFits(c) /\ c.job \in 0 .. Len(jobs)
    /\ c.step \in StepsOf(panel) \cup {"none"} /\ c.pc # "cancel"
    /\ c.step = "none" <=> c.pc = "ended"
    /\ c.seq = 0 <=> c.pc = "ended"
    /\ \A s \in Steps : HasAsked(calls[t], s) => HasAsked(c, s)
    /\ c.pc # "ended" =>
          /\ c.seq = calls[t].seq /\ c.edit = calls[t].edit /\ c.draft = calls[t].draft
          /\ c.project = calls[t].project
          /\ c.aborted = calls[t].aborted
    /\ calls[t].aborted => c.job = calls[t].job
    /\ panel = "mural" /\ c.pc \in {"start", "poll", "result"} =>
          calls[t].pc \in {"start", "poll", "result"}

\* The panel lets go of a request only to end an invocation with its number, and
\* what it shows is its own.
ShowsOn(t, c) ==
    /\ active' \in {active, 0}
    /\ active' # active =>
          calls[t].seq = sequence /\ ~calls[t].aborted /\ calls[t].pc # "orphan"
    /\ panel # "mural" /\ t = active' => c.pc \in {"start", "poll", "result"}
    /\ /\ panel # "mural" /\ c.seq = sequence
       /\ c.pc \in {"start", "poll"} \/ (panel = "output" /\ c.pc = "result")
       => t = active'
    /\ ui' \in Shown /\ ui'.project = ui.project /\ ui'.last <= draft
    /\ ui'.fresh = "current" => /\ ui'.result = [draft |-> asked.draft, project |-> ui.project]
                                /\ draft = asked.screen
    /\ panel = "mural" /\ c.pc # "ended" => active' = active
    /\ panel = "mural" =>
          \/ ui'.phase = ui.phase \/ active' = 0
          \/ t = active /\ ~calls[t].aborted /\ calls[t].pc # "ended" /\ ui'.phase # "canceling"

LEMMA ContinuationInv ==
    ASSUME PInv, Contract, NEW t \in DOMAIN calls, calls[t].pc # "ended",
           NEW c, Moves(t, c), ShowsOn(t, c), calls' = [calls EXCEPT ![t] = c],
           UNCHANGED <<panel, sequence, editRevision, disposed, jobs, draft, troubles, since, asked>>,
           quiet' \subseteq DOMAIN jobs, dropped' \subseteq DOMAIN jobs, WorkFits'
    PROVE  PInv'
<1> USE DEF PInv
<1>1. /\ calls' \in Seq(Invocation) /\ DOMAIN calls' = DOMAIN calls /\ Len(calls') = Len(calls)
      /\ calls'[t] = c /\ \A u \in DOMAIN calls : u # t => calls'[u] = calls[u]
    BY DEF PanelTypes, Moves
<1>2. /\ DOMAIN calls = 1 .. Len(calls) /\ Len(calls) \in Nat
      /\ DOMAIN jobs = 1 .. Len(jobs) /\ Len(jobs) \in Nat
      /\ \A u \in DOMAIN calls : calls[u] \in Invocation
      /\ active \in Nat /\ sequence \in Nat /\ t # 0
    BY DEF PanelTypes
<1>3. PanelTypes'
    BY <1>1, <1>2 DEF PanelTypes, ShowsOn
<1>4. RefsFit'
    BY <1>1, <1>2 DEF RefsFit, ShowsOn, Moves
<1>5. CallsFit'
    <2>1. \A u \in DOMAIN calls : (CallFits(calls[u]) /\ JobFits(calls[u]))'
        <3>1. CASE TRUE
            <4>1. \A r : CallFits(r) => CallFits(r)'
                BY DEF CallFits
            <4>2. \A r : JobFits(r) => JobFits(r)'
                BY DEF JobFits
            <4> QED
                BY <4>1, <4>2, <1>1 DEF CallsFit, Moves
        <3> QED
            BY <3>1
    <2> QED
        BY <2>1, <1>1 DEF CallsFit
<1>6. PreviewFits'
    BY <1>1 DEF PreviewFits, Moves, ShowsOn
<1>7. NumbersFit'
    <2>1. calls' # <<>> => sequence' # 0
        BY <1>1, <1>2 DEF NumbersFit
    <2>2. \A u \in DOMAIN calls' : calls'[u].seq <= sequence'
                                    /\ (calls'[u].pc = "ended" <=> calls'[u].seq = 0)
        BY <1>1, <1>2 DEF NumbersFit, Moves
    <2>3. \A u \in DOMAIN calls' :
              calls'[u].seq = sequence' => calls'[u].project = ui'.project /\ ~disposed'
        BY <1>1, <1>2, <2>1 DEF NumbersFit, Moves, ShowsOn
    <2>4. active' # 0 => calls'[active'].seq \in {sequence', 0} /\ ~disposed'
        BY <1>1, <1>2 DEF NumbersFit, Moves, ShowsOn, RefsFit
    <2> QED
        BY <2>1, <2>2, <2>3, <2>4 DEF NumbersFit
<1>8. NewestFits'
    BY <1>1, <1>2 DEF NewestFits, NumbersFit, Moves, ShowsOn, RefsFit
<1>9. MuralFits'
    <2> SUFFICES ASSUME panel = "mural" PROVE MuralFits'
        BY DEF MuralFits
    <2> USE DEF MuralFits, Moves, ShowsOn
    <2>1. ASSUME NEW u \in DOMAIN calls, calls'[u].seq = sequence,
                 calls'[u].pc \in {"start", "poll", "result"}, ~calls'[u].aborted
          PROVE  u = active' /\ u > since /\ calls'[u].draft = asked.draft /\ draft = asked.screen
        <3>1. CASE u = t
            BY <1>1, <1>2, <2>1, <3>1 DEF NumbersFit
        <3>2. CASE u # t
            <4>1. u = active /\ u > since /\ calls[u].draft = asked.draft /\ draft = asked.screen
                BY <1>1, <1>2, <2>1, <3>2
            <4>2. active' = active
                BY <1>1, <1>2, <2>1, <3>2, <4>1 DEF Invocation, Pcs
            <4> QED
                BY <4>1, <4>2, <1>1, <3>2
        <3> QED
            BY <3>1, <3>2
    <2>2. ASSUME NEW u \in DOMAIN calls, calls'[u].seq = sequence, calls'[u].pc = "cancel"
          PROVE  /\ u > since /\ ~calls'[u].aborted
                 /\ active' # 0 => ui'.phase = "canceling" /\ calls'[active'].job = calls'[u].job
        BY <1>1, <1>2, <2>2 DEF RefsFit, NumbersFit
    <2>3. active' # 0 /\ ui'.phase = "canceling" =>
              calls'[active'].aborted \/ calls'[active'].pc = "ended"
        BY <1>1, <1>2 DEF RefsFit
    <2> QED
        BY <1>1, <2>1, <2>2, <2>3
<1>10. CurrentIsAsked'
    BY DEF CurrentIsAsked, ShowsOn
<1>11. StepsFit'
    BY <1>1 DEF StepsFit, Moves
<1>12. JobsCounted'
    <2>1. Slots \subseteq Slots'
        <3>1. StepsOf(panel) \subseteq Steps
            BY PanelAssumption DEF StepsOf, PanelTypes, Steps
        <3>2. \A r, s : HasAsked(r, s)' = HasAsked(r, s)
            BY DEF HasAsked
        <3>3. StepsOf(panel)' = StepsOf(panel)
            OBVIOUS
        <3> QED
            BY <3>1, <3>3, <1>1 DEF Slots, Moves, HasAsked
    <2> QED
        BY <2>1, JobsStayCounted
<1> QED
    BY <1>3, <1>4, <1>5, <1>6, <1>7, <1>8, <1>9, <1>10, <1>11, <1>12

\* What a call has let go of is done, or is known to be dropped.
Settled(j) == j = 0 \/ jobs[j].state # "active" \/ j \in dropped'

LEMMA WorkStays ==
    ASSUME PInv, NEW t \in DOMAIN calls, NEW c, c \in Invocation, calls' = [calls EXCEPT ![t] = c],
           jobs' = jobs, quiet \subseteq quiet', dropped \subseteq dropped', active' \in {active, 0},
           active' # active => Settled(calls[active].job),
           t = active' => c.job = calls[t].job \/ Settled(calls[t].job),
           calls[t].pc = "cancel" => Settled(calls[t].job),
           c.job # calls[t].job => t = active' \/ Settled(c.job)
    PROVE  WorkFits'
<1> SUFFICES ASSUME NEW u \in DOMAIN calls', NEW j, j = calls'[u].job, j # 0,
                    jobs[j].state = "active"
             PROVE  Owned(j)'
    BY DEF WorkFits, Owned
<1>1. /\ DOMAIN calls' = DOMAIN calls /\ calls'[t] = c
      /\ t # 0 /\ \A v \in DOMAIN calls : v # t => calls'[v] = calls[v]
    BY DEF PInv, PanelTypes
<1>2. active # 0 => active \in DOMAIN calls
    BY DEF PInv, PanelTypes, RefsFit
<1>3. \A k : k # 0 /\ jobs[k].state = "active" /\ Owned(k) => Owned(k)'
    <2> SUFFICES ASSUME NEW k, k # 0, jobs[k].state = "active", Owned(k) PROVE Owned(k)'
        OBVIOUS
    <2>1. CASE k \in quiet \cup dropped
        BY <2>1 DEF Owned
    <2>2. CASE active # 0 /\ calls[active].job = k
        BY <2>2, <1>1, <1>2 DEF Owned, Settled
    <2>3. CASE \E v \in DOMAIN calls : /\ calls[v].pc = "cancel" /\ calls[v].job = k
                                       /\ calls[v].answer \in {InFlight, Lost}
        BY <2>3, <1>1 DEF Owned, Settled
    <2> QED
        BY <2>1, <2>2, <2>3 DEF Owned
<1>4. CASE u # t \/ c.job = calls[t].job
    BY <1>1, <1>3, <1>4 DEF PInv, WorkFits
<1>5. CASE u = t /\ c.job # calls[t].job
    BY <1>1, <1>5 DEF Owned, Settled
<1> QED
    BY <1>4, <1>5

\* What the panel shows is typed and its own.
ShowsOwn ==
    /\ ui' \in Shown /\ ui'.project = ui.project /\ ui'.last <= draft
    /\ ui'.fresh = "current" => /\ ui'.result = [draft |-> asked.draft, project |-> ui.project]
                                /\ draft = asked.screen

\* An invocation returns.
LEMMA EndInv ==
    ASSUME PInv, Contract, NEW t \in DOMAIN calls,
           calls[t].pc \in {"start", "poll", "result", "cancel"}, Return(t),
           UNCHANGED <<panel, sequence, editRevision, disposed, jobs, draft, troubles, since, asked>>,
           quiet \subseteq quiet', quiet' \subseteq DOMAIN jobs,
           dropped \subseteq dropped', dropped' \subseteq DOMAIN jobs,
           calls[t].pc = "cancel" => Settled(calls[t].job),
           ShowsOwn,
           \/ /\ active' = active /\ (panel = "mural" => ui'.phase = ui.phase)
              /\ panel = "mural" \/ t # active
           \/ /\ active' = 0 /\ calls[t].seq = sequence /\ ~calls[t].aborted
              /\ active # 0 => Settled(calls[active].job)
    PROVE  PInv'
<1> DEFINE c == Ended(calls[t])
<1>1. calls[t] \in Invocation /\ active \in Nat
    BY DEF PInv, PanelTypes
<1>2. /\ c \in Invocation
      /\ c.pc = "ended" /\ c.seq = 0 /\ c.edit = 0 /\ c.draft = 0
      /\ c.project = NoProject /\ c.step = "none" /\ c.job = calls[t].job /\ c.aborted = FALSE
      /\ c.answer = InFlight
    BY <1>1, EndedIs
<1>3. calls' = [calls EXCEPT ![t] = c]
    BY DEF Return
<1> HIDE DEF c
<1>4. CallFits(c) /\ JobFits(c)
    BY <1>2, ConstantsAre DEF CallFits, JobFits, PInv, PanelTypes, Terminal
<1>5. Moves(t, c)
    BY <1>2, <1>4 DEF Moves, HasAsked, PInv, RefsFit
<1>6. t # 0 /\ sequence # 0 /\ (t # active' \/ panel = "mural")
    BY DEF PInv, PanelTypes, NumbersFit
<1>7. ShowsOn(t, c)
    BY <1>1, <1>2, <1>6 DEF ShowsOn, ShowsOwn, PInv, PanelTypes, NumbersFit
<1>8. active' # active => Settled(calls[active].job)
    BY <1>1
<1>9. WorkFits'
    BY <1>2, <1>3, <1>8, WorkStays
<1> QED
    BY <1>3, <1>5, <1>7, <1>9, ContinuationInv

\* An invocation goes on for its next answer.
LEMMA GoOnInv ==
    ASSUME PInv, Contract, NEW t \in DOMAIN calls, NEW patch, Await(t, patch),
           calls[t].pc \in {"start", "poll", "result", "cancel"}, calls[t].seq = sequence,
           ~calls[t].aborted,
           DOMAIN patch \subseteq {"pc", "step", "job"}, "pc" \in DOMAIN patch,
           patch["pc"] \in {"start", "poll", "result"},
           "step" \in DOMAIN patch => patch["step"] \in StepsOf(panel) \cap {"export", "mural"}
               /\ calls[t].step = "geometry",
           NEW j \in 0 .. Len(jobs), j = IF "job" \in DOMAIN patch THEN patch["job"] ELSE calls[t].job,
           j = 0 <=> patch["pc"] = "start",
           j # 0 => jobs[j].draft = calls[t].draft /\ jobs[j].project = calls[t].project,
           patch["pc"] = "result" => jobs[j].state \in Terminal,
           t = active \/ (panel = "preview" /\ active = 0 /\ patch["pc"] = "result"),
           panel = "mural" => calls[t].pc # "cancel" /\ ui'.phase # "canceling",
           j # calls[t].job => Settled(calls[t].job),
           calls[t].pc = "cancel" => Settled(calls[t].job),
           UNCHANGED <<panel, active, sequence, editRevision, disposed, jobs, draft, troubles, since, asked,
                       quiet, dropped>>,
           calls[t].step # "none",
           patch["pc"] = "start" => "step" \in DOMAIN patch,
           ShowsOwn
    PROVE  PInv'
<1> DEFINE c == Patched([calls[t] EXCEPT !.answer = InFlight], patch)
<1>1. calls[t] \in Invocation /\ active \in Nat /\ Len(jobs) \in Nat
    BY DEF PInv, PanelTypes
<1>2. StepsOf(panel) \subseteq Steps /\ patch["pc"] \in Pcs
    BY PanelAssumption DEF StepsOf, Steps, Pcs, PInv, PanelTypes
<1>3. /\ c \in Invocation /\ c.pc = patch["pc"] /\ c.job = j
      /\ c.step = IF "step" \in DOMAIN patch THEN patch["step"] ELSE calls[t].step
      /\ c.answer = InFlight
      /\ c.seq = calls[t].seq /\ c.edit = calls[t].edit /\ c.draft = calls[t].draft
      /\ c.project = calls[t].project
      /\ c.aborted = calls[t].aborted
    BY <1>1, <1>2, AwaitIs
<1>4. calls' = [calls EXCEPT ![t] = c]
    BY DEF Await
<1> HIDE DEF c
<1>5. CallFits(c)
    BY <1>1, <1>3, ConstantsAre DEF CallFits, Terminal, PInv, CallsFit
<1>6. JobFits(c)
    BY <1>1, <1>3, ConstantsAre DEF JobFits
<1>7. calls[t].seq # 0
    BY DEF PInv, NumbersFit
<1>8. \A s \in Steps : HasAsked(calls[t], s) => HasAsked(c, s)
    BY <1>3 DEF HasAsked, PInv, StepsFit
<1>9. Moves(t, c)
    BY <1>1, <1>3, <1>5, <1>6, <1>7, <1>8 DEF Moves, PInv, StepsFit
<1>10. t # 0
    BY DEF PInv, PanelTypes
<1>11. ShowsOn(t, c)
    BY <1>1, <1>3, <1>10 DEF ShowsOn, ShowsOwn
<1>12. WorkFits'
    <2>1. j # calls[t].job => t = active' \/ Settled(j)
        BY DEF Settled, Terminal
    <2>2. jobs' = jobs /\ active' = active /\ quiet' = quiet /\ dropped' = dropped
        OBVIOUS
    <2> QED
        BY <1>3, <1>4, <2>1, <2>2, WorkStays
<1> QED
    BY <1>4, <1>9, <1>11, <1>12, ContinuationInv DEF PInv, RefsFit

-----------------------------------------------------------------------------
(* The continuations. *)

\* What is published stays typed, and current only if it shows what is asked.
LEMMA PublishesOwn ==
    ASSUME PInv, ~disposed, NEW patch, Publish(patch),
           DOMAIN patch \subseteq {"phase", "step", "result", "fresh", "last"},
           "phase" \in DOMAIN patch => patch["phase"] \in Phase,
           "step" \in DOMAIN patch => patch["step"] \in Steps,
           "result" \in DOMAIN patch => /\ patch["result"] \in [draft : Nat, project : Named]
                                        /\ "fresh" \in DOMAIN patch,
           "fresh" \in DOMAIN patch =>
               \/ patch["fresh"] \in {"none", "stale"}
               \/ /\ patch["fresh"] = "current" /\ "result" \in DOMAIN patch
                  /\ patch["result"] = [draft |-> asked.draft, project |-> ui.project]
                  /\ draft = asked.screen,
           "last" \in DOMAIN patch => patch["last"] \in 0 .. draft
    PROVE  /\ ShowsOwn
           /\ ui'.phase = IF "phase" \in DOMAIN patch THEN patch["phase"] ELSE ui.phase
<1>1. PanelTypes /\ ui \in Shown /\ draft \in Nat /\ ui.last <= draft
    BY DEF PInv, PanelTypes, RefsFit
<1>2. /\ ui' = [f \in {"phase", "project", "step", "result", "fresh", "last"} |-> ui'[f]]
      /\ ui'.phase = IF "phase" \in DOMAIN patch THEN patch["phase"] ELSE ui.phase
      /\ ui'.project = ui.project
      /\ ui'.step = IF "step" \in DOMAIN patch THEN patch["step"] ELSE ui.step
      /\ ui'.result = IF "result" \in DOMAIN patch THEN patch["result"] ELSE ui.result
      /\ ui'.fresh = IF "fresh" \in DOMAIN patch THEN patch["fresh"] ELSE ui.fresh
      /\ ui'.last = IF "last" \in DOMAIN patch THEN patch["last"] ELSE ui.last
    BY <1>1, PublishIs
<1>3. ui' \in Shown
    BY <1>1, <1>2, ShownIs DEF Shown
<1>4. ui'.fresh = "current" => /\ ui'.result = [draft |-> asked.draft, project |-> ui.project]
                               /\ draft = asked.screen
    BY <1>2 DEF PInv, CurrentIsAsked
<1> QED
    BY <1>1, <1>2, <1>3, <1>4 DEF ShowsOwn

LEMMA SameShown ==
    ASSUME PInv, ui' = ui
    PROVE  ShowsOwn
BY DEF PInv, PanelTypes, RefsFit, CurrentIsAsked, ShowsOwn

\* What is known of an invocation whose answer counts.
LEMMA CurrentCall ==
    ASSUME PInv, Contract, NEW t \in DOMAIN calls, NEW k \in {"start", "poll", "result", "cancel"},
           Answered(t, k), calls[t].seq = sequence
    PROVE  /\ ~disposed /\ calls[t].project = ui.project /\ ~calls[t].aborted /\ t > since
           /\ calls[t].pc = k /\ t # 0 /\ sequence # 0
           /\ k \in {"start", "poll"} => t = active
           /\ panel # "preview" /\ k = "result" => t = active
           /\ panel # "mural" => active \in {0, t}
           /\ panel # "mural" /\ k = "cancel" => active = 0
           /\ panel # "mural" \/ k # "cancel" => calls[t].draft = asked.draft
           /\ panel # "mural" /\ calls[t].edit = editRevision => draft = asked.screen
           /\ panel = "mural" /\ k # "cancel" => draft = asked.screen
           /\ panel = "mural" /\ k = "cancel" /\ active # 0 => calls[active].job = calls[t].job
           /\ panel = "mural" /\ k # "cancel" => ui.phase # "canceling"
<1>1. /\ panel \in {"preview", "output", "mural"} /\ calls[t].pc = k
      /\ active \in Nat /\ Len(calls) \in Nat
      /\ t \in Nat \ {0} /\ t <= Len(calls)
    <2>1. panel \in {"preview", "output", "mural"} /\ active \in Nat
        BY PanelAssumption DEF PInv, PanelTypes
    <2>2. t \in Nat \ {0} /\ t <= Len(calls) /\ Len(calls) \in Nat
        BY CallIs DEF PInv
    <2> QED
        BY <2>1, <2>2 DEF Answered
<1>2. ~disposed /\ calls[t].project = ui.project /\ sequence # 0
    BY <1>1 DEF PInv, NumbersFit
<1>3. CASE panel = "mural"
    <2>1. ~calls[t].aborted
        BY <1>1, <1>3 DEF Contract, Answered
    <2>2. k # "cancel" => t = active /\ t > since /\ calls[t].draft = asked.draft /\ draft = asked.screen
        BY <1>1, <1>3, <2>1 DEF PInv, MuralFits
    <2>3. k # "cancel" => ui.phase # "canceling"
        BY <1>1, <1>3, <2>1, <2>2 DEF PInv, MuralFits
    <2>4. k = "cancel" => t > since /\ (active # 0 => calls[active].job = calls[t].job)
        BY <1>1, <1>3 DEF PInv, MuralFits
    <2> QED
        BY <1>1, <1>2, <1>3, <2>1, <2>2, <2>3, <2>4
<1>4. CASE panel # "mural"
    <2>1. /\ t = Len(calls) /\ t > since /\ ~calls[t].aborted
          /\ calls[t].draft = asked.draft
          /\ calls[t].edit = editRevision => draft = asked.screen
          /\ k \in {"start", "poll"} \/ (panel = "output" /\ k = "result") => t = active
        BY <1>1, <1>4 DEF PInv, NewestFits
    <2>2. active # 0 => active = Len(calls) /\ calls[active].pc \in {"start", "poll", "result"}
        BY <1>4 DEF PInv, NewestFits
    <2> QED
        BY <1>1, <1>2, <1>4, <2>1, <2>2
<1> QED
    BY <1>3, <1>4

\* An answer that counts no more ends its invocation and changes nothing.
LEMMA LateInv ==
    ASSUME PInv, Contract, NEW t \in DOMAIN calls,
           calls[t].pc \in {"start", "poll", "result", "cancel"}, Return(t),
           calls[t].seq # sequence \/ (panel = "mural" /\ calls[t].aborted),
           UNCHANGED <<panel, ui, sequence, editRevision, active, disposed, jobs, draft, troubles, since, asked>>,
           quiet \subseteq quiet', quiet' \subseteq DOMAIN jobs,
           dropped \subseteq dropped', dropped' \subseteq DOMAIN jobs,
           calls[t].pc = "cancel" => Settled(calls[t].job)
    PROVE  PInv'
<1>1. panel = "mural" \/ t # active
    <2>1. CASE panel # "mural"
        <3>1. calls[t].seq # sequence /\ t # 0
            BY <2>1 DEF PInv, PanelTypes
        <3>2. active # 0 => calls[active].seq = sequence
            BY <2>1 DEF PInv, NewestFits
        <3> QED
            BY <3>1, <3>2
    <2> QED
        BY <2>1
<1>2. ShowsOwn
    BY SameShown
<1> QED
    BY <1>1, <1>2, EndInv

LEMMA AbortErrorInv ==
    ASSUME PInv, Contract, NEW t \in DOMAIN calls, AbortError(t)
    PROVE  PInv'
<1>1. /\ calls[t].aborted /\ calls[t].pc \in {"start", "poll", "result"}
      /\ UNCHANGED <<panel, ui, sequence, editRevision, active, disposed, jobs, draft, troubles,
                     since, asked, quiet, dropped>>
    BY DEF AbortError, coordinator, world
<1>2. calls[t] \in Invocation /\ t # 0 /\ quiet \subseteq DOMAIN jobs /\ dropped \subseteq DOMAIN jobs
    BY CallIs DEF PInv, RefsFit
<1>3. calls[t].seq # sequence \/ panel = "mural"
    BY <1>1 DEF PInv, NewestFits
<1>4. CASE calls[t].pc = "start" /\ calls[t].answer = InFlight
    <2> DEFINE c == [calls[t] EXCEPT !.pc = "orphan"]
    <2>1. calls' = [calls EXCEPT ![t] = c]
        BY <1>4 DEF AbortError
    <2>2. /\ c \in Invocation /\ c.pc = "orphan" /\ c.answer = InFlight
          /\ c.seq = calls[t].seq /\ c.edit = calls[t].edit /\ c.draft = calls[t].draft
          /\ c.project = calls[t].project
          /\ c.step = calls[t].step /\ c.job = calls[t].job /\ c.aborted = calls[t].aborted
        BY <1>2, <1>4 DEF Invocation, Pcs
    <2> HIDE DEF c
    <2>3. CallFits(c) /\ JobFits(c)
        BY <1>2, <1>4, <2>2, ConstantsAre DEF CallFits, JobFits, PInv, CallsFit, Terminal
    <2>4. \A s \in Steps : HasAsked(calls[t], s) => HasAsked(c, s)
        BY <1>4, <2>2 DEF HasAsked
    <2>5. Moves(t, c)
        BY <1>1, <1>4, <2>2, <2>3, <2>4 DEF Moves, PInv, StepsFit, NumbersFit, RefsFit
    <2>6. ShowsOwn
        BY <1>1, SameShown
    <2>7. panel # "mural" => t # active
        BY <1>2, <1>3 DEF PInv, NewestFits
    <2>8. ShowsOn(t, c)
        BY <1>1, <1>3, <2>2, <2>6, <2>7 DEF ShowsOn, ShowsOwn
    <2>9. WorkFits'
        BY <1>1, <1>4, <2>1, <2>2, WorkStays
    <2> QED
        BY <1>1, <1>2, <2>1, <2>5, <2>8, <2>9, ContinuationInv
<1>5. CASE ~(calls[t].pc = "start" /\ calls[t].answer = InFlight)
    <2>1. Return(t)
        BY <1>5 DEF AbortError, Return
    <2> QED
        BY <1>1, <1>2, <1>3, <2>1, LateInv
<1> QED
    BY <1>4, <1>5

LEMMA StaleIs == Stale \in {"none", "stale"}
BY DEF Stale

\* A call failed, or its job did: the panel shows it and lets go.
LEMMA FailsInv ==
    ASSUME PInv, Contract, NEW t \in DOMAIN calls, NEW k \in {"start", "poll", "result"},
           Answered(t, k), IsCurrent(t), Fails(t), Settled(calls[t].job),
           UNCHANGED <<panel, sequence, editRevision, disposed, jobs, draft, troubles, since, asked, quiet>>,
           dropped \subseteq dropped', dropped' \subseteq DOMAIN jobs
    PROVE  PInv'
<1>1. ~disposed /\ calls[t].seq = sequence
    BY DEF IsCurrent
<1>2. /\ ~calls[t].aborted /\ calls[t].pc = k /\ active \in {0, t}
    BY <1>1, CurrentCall DEF PInv, PanelTypes
<1>3. active' = 0 /\ Return(t) /\ ui'.phase = "failed" /\ ShowsOwn
    <2>1. calls[t].step \in Steps
        BY CallIs DEF PInv, Invocation
    <2>2. CASE PreviewFails(t)
        BY <1>1, <2>2, StaleIs, PublishesOwn DEF PreviewFails, Phase, Terminal
    <2>3. CASE OutputFails(t)
        BY <1>1, <2>1, <2>3, PublishesOwn DEF OutputFails, Phase, Terminal
    <2>4. CASE MuralFails(t)
        BY <1>1, <2>4, PublishesOwn DEF MuralFails, Phase, Terminal
    <2> QED
        BY <2>2, <2>3, <2>4 DEF Fails
<1>4. quiet \subseteq DOMAIN jobs
    BY DEF PInv, RefsFit
<1> QED
    BY <1>1, <1>2, <1>3, <1>4, EndInv

\* One turn of follow in each panel: on to the result or to the next poll, an end,
\* or, for a superseded mural build, the end of the invocation alone.
Follows(t, job, s) ==
    \/ /\ s \in {"succeeded", "active"}
       /\ Await(t, [pc |-> IF s = "active" THEN "poll" ELSE "result", job |-> job])
       /\ active' = active /\ ui'.phase \in {"running", ui.phase}
    \/ s \in Terminal /\ Return(t) /\ active' = 0
    \/ /\ panel = "mural" /\ s = "superseded"
       /\ calls' = [calls EXCEPT ![t] = Ended([@ EXCEPT !.job = job])]
       /\ active' = active /\ ui'.phase = ui.phase

LEMMA FollowShape ==
    ASSUME PInv, NEW t \in DOMAIN calls, NEW job, NEW s \in JobState, ~disposed, Follow(t, job, s)
    PROVE  Follows(t, job, s) /\ ShowsOwn
<1>1. calls[t].step \in Steps
    BY CallIs DEF PInv, Invocation
<1> USE DEF Phase, Terminal, Busy, JobState, Follows
<1>2. CASE panel = "preview"
    <2>1. PreviewFollow(t, job, s)
        BY <1>2 DEF Follow
    <2>2. CASE s = "succeeded"
        BY <2>1, <2>2, PublishesOwn DEF PreviewFollow
    <2>3. CASE s = "failed"
        BY <2>1, <2>3, StaleIs, PublishesOwn DEF PreviewFollow, PreviewFails
    <2>4. CASE s \in {"canceled", "superseded"}
        BY <2>1, <2>4, StaleIs, PublishesOwn DEF PreviewFollow
    <2>5. CASE s = "active"
        BY <2>1, <2>5, PublishesOwn DEF PreviewFollow
    <2> QED
        BY <2>2, <2>3, <2>4, <2>5
<1>3. CASE panel = "output"
    <2>1. OutputFollow(t, job, s)
        BY <1>3 DEF Follow
    <2>2. CASE s = "succeeded"
        BY <2>1, <2>2, SameShown DEF OutputFollow
    <2>3. CASE s = "failed"
        BY <2>1, <2>3, <1>1, PublishesOwn DEF OutputFollow, OutputFails
    <2>4. CASE s \in {"canceled", "superseded"}
        BY <2>1, <2>4, PublishesOwn DEF OutputFollow, Steps
    <2>5. CASE s = "active"
        BY <2>1, <2>5, <1>1, PublishesOwn DEF OutputFollow
    <2> QED
        BY <2>2, <2>3, <2>4, <2>5
<1>4. CASE panel = "mural"
    <2>1. MuralFollow(t, job, s)
        BY <1>4 DEF Follow
    <2>2. CASE s = "succeeded"
        BY <2>1, <2>2, <1>1, PublishesOwn DEF MuralFollow
    <2>3. CASE s = "failed"
        BY <2>1, <2>3, PublishesOwn DEF MuralFollow, MuralFails
    <2>4. CASE s = "canceled"
        BY <2>1, <2>4, PublishesOwn DEF MuralFollow
    <2>5. CASE s = "superseded"
        BY <2>1, <2>5, <1>1, <1>4, PublishesOwn DEF MuralFollow
    <2>6. CASE s = "active"
        BY <2>1, <2>6, <1>1, PublishesOwn DEF MuralFollow
    <2> QED
        BY <2>2, <2>3, <2>4, <2>5, <2>6
<1> QED
    BY <1>2, <1>3, <1>4 DEF Follow

LEMMA FollowInv ==
    ASSUME PInv, Contract, NEW t \in DOMAIN calls, NEW k \in {"start", "poll"},
           Answered(t, k), IsCurrent(t), NEW job \in DOMAIN jobs, NEW s \in JobState,
           s \in Terminal => jobs[job].state \in Terminal, calls[t].job \in {0, job},
           jobs[job].draft = calls[t].draft, jobs[job].project = calls[t].project,
           Follow(t, job, s),
           UNCHANGED <<panel, sequence, editRevision, disposed, jobs, draft, troubles, since, asked, quiet,
                       dropped>>
    PROVE  PInv'
<1>1. ~disposed /\ calls[t].seq = sequence
    BY DEF IsCurrent
<1>2. /\ ~calls[t].aborted /\ calls[t].pc = k /\ active = t /\ t # 0 /\ sequence # 0
      /\ panel = "mural" => ui.phase # "canceling"
    BY <1>1, CurrentCall
<1>3. Follows(t, job, s) /\ ShowsOwn
    BY <1>1, FollowShape
<1>4. quiet \subseteq DOMAIN jobs /\ dropped \subseteq DOMAIN jobs
    BY DEF PInv, RefsFit
<1>5. calls[t] \in Invocation /\ job \in 1 .. Len(jobs) /\ Len(jobs) \in Nat /\ job # 0
    BY CallIs, JobIs DEF PInv
<1>6. calls[t].step # "none"
    BY <1>2 DEF PInv, StepsFit
<1>7. CASE s \in {"succeeded", "active"} /\ Follows(t, job, s) /\ active' = active
           /\ Await(t, [pc |-> IF s = "active" THEN "poll" ELSE "result", job |-> job])
           /\ ui'.phase \in {"running", ui.phase}
    <2> DEFINE patch == [pc |-> IF s = "active" THEN "poll" ELSE "result", job |-> job]
    <2>1. /\ DOMAIN patch = {"pc", "job"} /\ patch["job"] = job
          /\ patch["pc"] \in {"poll", "result"} /\ (patch["pc"] = "result" => s = "succeeded")
        BY <1>7
    <2>2. Await(t, patch)
        BY <1>7
    <2> HIDE DEF patch
    <2>3. patch["pc"] = "result" => jobs[job].state \in Terminal
        BY <2>1 DEF Terminal
    <2>4. job # calls[t].job => Settled(calls[t].job)
        BY DEF Settled
    <2>5. panel = "mural" => calls[t].pc # "cancel" /\ ui'.phase # "canceling"
        BY <1>2, <1>7
    <2>6. /\ job \in 0 .. Len(jobs)
          /\ job = IF "job" \in DOMAIN patch THEN patch["job"] ELSE calls[t].job
        BY <1>5, <2>1
    <2>7. UNCHANGED <<panel, active, sequence, editRevision, disposed, jobs, draft, troubles, since, asked,
                      quiet, dropped>>
        BY <1>7
    <2> QED
        BY <1>1, <1>2, <1>3, <1>5, <1>6, <2>1, <2>2, <2>3, <2>4, <2>5, <2>6, <2>7, GoOnInv
<1>8. CASE s \in Terminal /\ Return(t) /\ active' = 0
    <2>1. Settled(calls[active].job)
        BY <1>2, <1>8 DEF Settled, Terminal
    <2> QED
        BY <1>1, <1>2, <1>3, <1>4, <1>8, <2>1, EndInv
<1>9. CASE /\ panel = "mural" /\ s = "superseded"
           /\ calls' = [calls EXCEPT ![t] = Ended([@ EXCEPT !.job = job])]
           /\ active' = active /\ ui'.phase = ui.phase
    <2> DEFINE q == [calls[t] EXCEPT !.job = job]
               c == Ended(q)
    <2>1. q \in Invocation /\ q.job = job
        BY <1>5 DEF Invocation
    <2> HIDE DEF q
    <2>2. /\ c \in Invocation
          /\ c.pc = "ended" /\ c.seq = 0 /\ c.edit = 0 /\ c.draft = 0
          /\ c.project = NoProject /\ c.step = "none" /\ c.job = job /\ c.aborted = FALSE
          /\ c.answer = InFlight
        BY <2>1, EndedIs
    <2>3. calls' = [calls EXCEPT ![t] = c]
        BY <1>9 DEF c, q
    <2> HIDE DEF c
    <2>4. CallFits(c) /\ JobFits(c)
        BY <2>2, ConstantsAre DEF CallFits, JobFits, PInv, PanelTypes, Terminal
    <2>5. Moves(t, c)
        BY <1>2, <1>5, <2>2, <2>4 DEF Moves, HasAsked
    <2>6. ShowsOn(t, c)
        BY <1>3, <1>9, <2>2 DEF ShowsOn, ShowsOwn
    <2>7. jobs[job].state # "active"
        BY <1>9 DEF Terminal
    <2>8. WorkFits'
        BY <1>2, <1>9, <2>2, <2>3, <2>7, WorkStays DEF Settled
    <2> QED
        BY <1>2, <1>4, <2>3, <2>5, <2>6, <2>8, ContinuationInv
<1> QED
    BY <1>3, <1>7, <1>8, <1>9 DEF Follows

LEMMA NotCurrent ==
    ASSUME PInv, NEW t \in DOMAIN calls, ~IsCurrent(t), calls[t].pc # "ended"
    PROVE  calls[t].seq # sequence
BY DEF PInv, NumbersFit, IsCurrent

LEMMA StartedInv ==
    ASSUME PInv, Contract, NEW t \in DOMAIN calls, Started(t)
    PROVE  PInv'
<1> DEFINE a == calls[t].answer
<1>1. /\ Answered(t, "start") /\ calls[t].pc = "start" /\ a # InFlight
      /\ UNCHANGED <<panel, sequence, editRevision, disposed, jobs, draft, troubles, since, asked, dropped>>
    BY DEF Started, Answered, world
<1>2. /\ quiet \subseteq DOMAIN jobs /\ dropped \subseteq DOMAIN jobs
      /\ calls[t] \in Invocation /\ a \in Answer /\ calls[t].job = 0
      /\ CallFits(calls[t]) /\ JobFits(calls[t])
    BY <1>1, CallIs DEF PInv, RefsFit, CallsFit, CallFits, Invocation
<1>3. CASE ~IsCurrent(t)
    <2>1. /\ quiet' = (IF a = Lost THEN quiet ELSE quiet \cup {a.job})
          /\ Return(t) /\ UNCHANGED <<ui, active>>
        BY <1>3 DEF Started
    <2>2. calls[t].seq # sequence
        BY <1>1, <1>3, NotCurrent
    <2>3. quiet \subseteq quiet' /\ quiet' \subseteq DOMAIN jobs
        BY <1>1, <1>2, <2>1 DEF CallFits
    <2> QED
        BY <1>1, <1>2, <2>1, <2>2, <2>3, LateInv
<1>4. CASE IsCurrent(t) /\ a = Lost
    <2>1. Fails(t) /\ UNCHANGED quiet
        BY <1>4 DEF Started
    <2> QED
        BY <1>1, <1>2, <1>4, <2>1, FailsInv DEF Settled
<1>5. CASE IsCurrent(t) /\ a # Lost
    <2>1. Follow(t, a.job, a.state) /\ UNCHANGED quiet
        BY <1>5 DEF Started
    <2>2. /\ a.job \in DOMAIN jobs /\ a.state \in JobState
          /\ a.state \in Terminal => jobs[a.job].state \in Terminal
        BY <1>1, <1>2, <1>5 DEF CallFits
    <2>3. /\ jobs[a.job].draft = calls[t].draft /\ jobs[a.job].project = calls[t].project
        BY <1>1, <1>2, <1>5 DEF JobFits
    <2> QED
        BY <1>1, <1>2, <1>5, <2>1, <2>2, <2>3, FollowInv
<1> QED
    BY <1>3, <1>4, <1>5

\* What an invocation that knows its job knows of it.
LEMMA KnowsItsJob ==
    ASSUME PInv, NEW t \in DOMAIN calls, calls[t].pc \in {"poll", "result", "cancel"}
    PROVE  /\ calls[t].job \in DOMAIN jobs /\ calls[t].job \in 1 .. Len(jobs)
           /\ jobs[calls[t].job] \in JobRec
           /\ panel # "mural" \/ calls[t].pc # "cancel" =>
                 /\ jobs[calls[t].job].draft = calls[t].draft
                 /\ jobs[calls[t].job].project = calls[t].project
           /\ calls[t].pc = "result" => jobs[calls[t].job].state \in Terminal
           /\ panel # "mural" \/ calls[t].pc # "cancel" => calls[t].step # "none"
<1>1. /\ CallFits(calls[t]) /\ JobFits(calls[t]) /\ calls[t].job \in 0 .. Len(jobs)
      /\ calls[t].step = "none" =>
            calls[t].pc = "ended" \/ (panel = "mural" /\ calls[t].pc = "cancel")
    BY DEF PInv, CallsFit, RefsFit, StepsFit
<1>2. jobs \in Seq(JobRec)
    BY DEF PInv, PanelTypes
<1>3. calls[t].job \in 1 .. Len(jobs)
    BY <1>1, <1>2 DEF CallFits
<1>4. calls[t].job \in DOMAIN jobs /\ jobs[calls[t].job] \in JobRec
    BY <1>2, <1>3
<1> QED
    BY <1>1, <1>3, <1>4 DEF CallFits, JobFits

LEMMA PolledInv ==
    ASSUME PInv, Contract, NEW t \in DOMAIN calls, Polled(t)
    PROVE  PInv'
<1> DEFINE j == calls[t].job
<1>1. /\ Answered(t, "poll") /\ calls[t].pc = "poll"
      /\ UNCHANGED <<panel, sequence, editRevision, disposed, jobs, draft, troubles, since, asked, quiet>>
    BY DEF Polled, Answered, world
<1>2. quiet \subseteq DOMAIN jobs /\ dropped \subseteq DOMAIN jobs
    BY DEF PInv, RefsFit
<1>3. /\ j \in DOMAIN jobs /\ jobs[j] \in JobRec
      /\ jobs[j].draft = calls[t].draft /\ jobs[j].project = calls[t].project
    BY <1>1, KnowsItsJob
<1>4. CASE ~IsCurrent(t)
    <2>1. Return(t) /\ UNCHANGED <<ui, active, dropped>>
        BY <1>4 DEF Polled
    <2>2. calls[t].seq # sequence
        BY <1>1, <1>4, NotCurrent
    <2> QED
        BY <1>1, <1>2, <2>1, <2>2, LateInv
<1>5. CASE IsCurrent(t) /\ calls[t].answer = Lost
    <2>1. Fails(t) /\ dropped' = dropped \cup {j}
        BY <1>5 DEF Polled
    <2> QED
        BY <1>1, <1>2, <1>3, <1>5, <2>1, FailsInv DEF Settled
<1>6. CASE IsCurrent(t) /\ calls[t].answer # Lost
    <2>1. Follow(t, j, jobs[j].state) /\ UNCHANGED dropped
        BY <1>6 DEF Polled
    <2>2. jobs[j].state \in JobState
        BY <1>3 DEF JobRec
    <2> QED
        BY <1>1, <1>3, <1>6, <2>1, <2>2, FollowInv
<1> QED
    BY <1>4, <1>5, <1>6

\* The result of a followed job is of the draft and the project of its request.
LEMMA ResultIs ==
    ASSUME PInv, NEW t \in DOMAIN calls, calls[t].pc = "result"
    PROVE  /\ ResultOf(calls[t].job) = [draft |-> calls[t].draft, project |-> calls[t].project]
           /\ ResultOf(calls[t].job) \in [draft : Nat, project : Named]
BY KnowsItsJob DEF ResultOf, JobRec

\* A result that is shown.
LEMMA ShownInv ==
    ASSUME PInv, Contract, NEW t \in DOMAIN calls, Answered(t, "result"), IsCurrent(t),
           NEW patch, Publish(patch),
           DOMAIN patch \subseteq {"phase", "step", "result", "fresh"},
           {"phase", "result", "fresh"} \subseteq DOMAIN patch,
           patch["phase"] \in {"succeeded", "validation-blocked"},
           "step" \in DOMAIN patch => patch["step"] = "none",
           patch["result"] = ResultOf(calls[t].job),
           patch["fresh"] \in {"current", "stale"},
           patch["fresh"] = "current" => panel = "mural" \/ calls[t].edit = editRevision,
           active' = 0, Return(t),
           UNCHANGED <<panel, sequence, editRevision, disposed, jobs, quiet, draft, troubles,
                       since, asked, dropped>>
    PROVE  PInv'
<1>1. ~disposed /\ calls[t].seq = sequence /\ calls[t].project = ui.project /\ calls[t].pc = "result"
    BY DEF IsCurrent, Answered
<1>2. /\ ~calls[t].aborted /\ active \in {0, t}
      /\ calls[t].draft = asked.draft
      /\ panel # "mural" /\ calls[t].edit = editRevision => draft = asked.screen
      /\ panel = "mural" => draft = asked.screen
    BY <1>1, CurrentCall, KnowsItsJob DEF PInv, PanelTypes
<1>3. patch["result"] \in [draft : Nat, project : Named]
      /\ patch["result"] = [draft |-> calls[t].draft, project |-> ui.project]
    BY <1>1, ResultIs
<1>4. ShowsOwn /\ ui'.phase = patch["phase"]
    BY <1>1, <1>2, <1>3, PublishesOwn DEF Phase, Terminal, Steps
<1>5. quiet \subseteq DOMAIN jobs /\ dropped \subseteq DOMAIN jobs /\ Settled(calls[t].job)
    BY <1>1, KnowsItsJob DEF PInv, RefsFit, Settled, Terminal
<1> QED
    BY <1>1, <1>2, <1>4, <1>5, EndInv

LEMMA PreviewResultInv ==
    ASSUME PInv, Contract, NEW t \in DOMAIN calls, PreviewResult(t)
    PROVE  PInv'
<1>1. /\ Answered(t, "result") /\ calls[t].pc = "result" /\ panel = "preview"
      /\ UNCHANGED <<panel, sequence, editRevision, disposed, jobs, draft, troubles, since, asked, quiet,
                     dropped>>
    BY DEF PreviewResult, Answered, world
<1>2. quiet \subseteq DOMAIN jobs /\ dropped \subseteq DOMAIN jobs /\ Settled(calls[t].job)
    BY <1>1, KnowsItsJob DEF PInv, RefsFit, Settled, Terminal
<1>3. CASE ~IsCurrent(t)
    <2>1. Return(t) /\ UNCHANGED <<ui, active>>
        BY <1>3 DEF PreviewResult
    <2>2. calls[t].seq # sequence
        BY <1>1, <1>3, NotCurrent
    <2> QED
        BY <1>1, <1>2, <2>1, <2>2, LateInv
<1>4. CASE IsCurrent(t) /\ calls[t].answer = Lost
    <2>1. Fails(t)
        BY <1>1, <1>4 DEF PreviewResult, Fails
    <2> QED
        BY <1>1, <1>2, <1>4, <2>1, FailsInv
<1>5. CASE IsCurrent(t) /\ calls[t].answer # Lost
    <2> DEFINE patch == [phase |-> "succeeded", result |-> ResultOf(calls[t].job),
                         fresh |-> Freshness(t)]
    <2>1. active' = 0 /\ Publish(patch) /\ Return(t)
        BY <1>5 DEF PreviewResult
    <2>2. /\ DOMAIN patch = {"phase", "result", "fresh"} /\ patch["phase"] = "succeeded"
          /\ patch["result"] = ResultOf(calls[t].job) /\ patch["fresh"] \in {"current", "stale"}
          /\ patch["fresh"] = "current" => calls[t].edit = editRevision
        BY DEF Freshness
    <2> HIDE DEF patch
    <2> QED
        BY <1>1, <1>5, <2>1, <2>2, ShownInv
<1> QED
    BY <1>3, <1>4, <1>5

\* With the geometry at hand, the export or the mural build is asked for.
LEMMA NextStepInv ==
    ASSUME PInv, Contract, NEW t \in DOMAIN calls, Answered(t, "result"), IsCurrent(t),
           NEW s, <<panel, s>> \in {<<"output", "export">>, <<"mural", "mural">>},
           calls[t].step = "geometry",
           Await(t, [pc |-> "start", step |-> s, job |-> 0]),
           Publish([phase |-> "submitting", step |-> s]),
           UNCHANGED <<panel, active, sequence, editRevision, disposed, jobs, quiet, draft, troubles,
                       since, asked, dropped>>
    PROVE  PInv'
<1> DEFINE patch == [pc |-> "start", step |-> s, job |-> 0]
<1>1. ~disposed /\ calls[t].seq = sequence /\ calls[t].pc = "result"
    BY DEF IsCurrent, Answered
<1>2. ~calls[t].aborted /\ t = active
    BY <1>1, CurrentCall, KnowsItsJob
<1>3. ShowsOwn /\ ui'.phase = "submitting"
    BY <1>1, PublishesOwn DEF Phase, Busy, Steps
<1>4. /\ DOMAIN patch = {"pc", "step", "job"} /\ patch["pc"] = "start" /\ patch["step"] = s
      /\ patch["job"] = 0 /\ Await(t, patch)
    OBVIOUS
<1> HIDE DEF patch
<1>5. s \in StepsOf(panel) \cap {"export", "mural"}
    BY DEF StepsOf
<1>6. Settled(calls[t].job)
    BY <1>1, KnowsItsJob DEF Settled, Terminal
<1>7. 0 \in 0 .. Len(jobs)
    BY DEF PInv, PanelTypes
<1> QED
    BY <1>1, <1>2, <1>3, <1>4, <1>5, <1>6, <1>7, GoOnInv

LEMMA OutputResultInv ==
    ASSUME PInv, Contract, NEW t \in DOMAIN calls, OutputResult(t)
    PROVE  PInv'
<1>1. /\ Answered(t, "result") /\ calls[t].pc = "result" /\ panel = "output"
      /\ UNCHANGED <<panel, sequence, editRevision, disposed, jobs, draft, troubles, since, asked, quiet,
                     dropped>>
    BY DEF OutputResult, Answered, world
<1>2. quiet \subseteq DOMAIN jobs /\ dropped \subseteq DOMAIN jobs /\ Settled(calls[t].job)
    BY <1>1, KnowsItsJob DEF PInv, RefsFit, Settled, Terminal
<1>3. CASE ~IsCurrent(t)
    <2>1. Return(t) /\ UNCHANGED <<ui, active>>
        BY <1>3 DEF OutputResult
    <2>2. calls[t].seq # sequence
        BY <1>1, <1>3, NotCurrent
    <2> QED
        BY <1>1, <1>2, <2>1, <2>2, LateInv
<1>4. CASE IsCurrent(t) /\ OutputFails(t)
    BY <1>1, <1>2, <1>4, FailsInv DEF Fails
<1>5. CASE /\ IsCurrent(t) /\ calls[t].step = "geometry"
           /\ Await(t, [pc |-> "start", step |-> "export", job |-> 0])
           /\ Publish([phase |-> "submitting", step |-> "export"])
           /\ UNCHANGED active
    BY <1>1, <1>5, NextStepInv
<1>6. CASE /\ IsCurrent(t) /\ active' = 0 /\ Return(t)
           /\ Publish([phase |-> "succeeded", step |-> "none", result |-> ResultOf(calls[t].job),
                       fresh |-> Freshness(t)])
    <2> DEFINE patch == [phase |-> "succeeded", step |-> "none", result |-> ResultOf(calls[t].job),
                         fresh |-> Freshness(t)]
    <2>1. /\ DOMAIN patch = {"phase", "step", "result", "fresh"} /\ patch["phase"] = "succeeded"
          /\ patch["step"] = "none" /\ patch["result"] = ResultOf(calls[t].job)
          /\ patch["fresh"] \in {"current", "stale"}
          /\ patch["fresh"] = "current" => calls[t].edit = editRevision
        BY DEF Freshness
    <2>2. Publish(patch)
        BY <1>6
    <2> HIDE DEF patch
    <2> QED
        BY <1>1, <1>6, <2>1, <2>2, ShownInv
<1> QED
    BY <1>3, <1>4, <1>5, <1>6 DEF OutputResult

LEMMA MuralResultInv ==
    ASSUME PInv, Contract, NEW t \in DOMAIN calls, MuralResult(t)
    PROVE  PInv'
<1>1. /\ Answered(t, "result") /\ calls[t].pc = "result" /\ panel = "mural"
      /\ UNCHANGED <<panel, sequence, editRevision, disposed, jobs, draft, troubles, since, asked, quiet,
                     dropped>>
    BY DEF MuralResult, Answered, world
<1>2. quiet \subseteq DOMAIN jobs /\ dropped \subseteq DOMAIN jobs /\ Settled(calls[t].job)
    BY <1>1, KnowsItsJob DEF PInv, RefsFit, Settled, Terminal
<1>3. CASE ~IsCurrent(t)
    <2>1. Return(t) /\ UNCHANGED <<ui, active>>
        BY <1>3 DEF MuralResult
    <2>2. calls[t].seq # sequence
        BY <1>1, <1>3, NotCurrent
    <2> QED
        BY <1>1, <1>2, <2>1, <2>2, LateInv
<1>4. CASE IsCurrent(t) /\ MuralFails(t)
    BY <1>1, <1>2, <1>4, FailsInv DEF Fails
<1>5. CASE /\ IsCurrent(t) /\ calls[t].step = "geometry"
           /\ Await(t, [pc |-> "start", step |-> "mural", job |-> 0])
           /\ Publish([phase |-> "submitting", step |-> "mural"])
           /\ UNCHANGED active
    BY <1>1, <1>5, NextStepInv
<1>6. ASSUME IsCurrent(t), active' = 0, Return(t), NEW blocked \in BOOLEAN,
             Publish([phase |-> IF blocked THEN "validation-blocked" ELSE "succeeded",
                      step |-> "none", result |-> ResultOf(calls[t].job), fresh |-> "current"])
      PROVE  PInv'
    <2> DEFINE patch == [phase |-> IF blocked THEN "validation-blocked" ELSE "succeeded",
                         step |-> "none", result |-> ResultOf(calls[t].job), fresh |-> "current"]
    <2>1. /\ DOMAIN patch = {"phase", "step", "result", "fresh"}
          /\ patch["phase"] \in {"succeeded", "validation-blocked"}
          /\ patch["step"] = "none" /\ patch["result"] = ResultOf(calls[t].job)
          /\ patch["fresh"] = "current"
        OBVIOUS
    <2>2. Publish(patch)
        BY <1>6
    <2> HIDE DEF patch
    <2> QED
        BY <1>1, <1>6, <2>1, <2>2, ShownInv
<1> QED
    BY <1>3, <1>4, <1>5, <1>6 DEF MuralResult

\* A cancellation is answered: its job is done, or the answer is lost.
LEMMA CanceledJob ==
    ASSUME PInv, NEW t \in DOMAIN calls, Answered(t, "cancel"),
           dropped' = (IF calls[t].answer = Lost THEN dropped \cup {calls[t].job} ELSE dropped)
    PROVE  /\ Settled(calls[t].job) /\ dropped \subseteq dropped' /\ dropped' \subseteq DOMAIN jobs
           /\ quiet \subseteq DOMAIN jobs
           /\ calls[t].answer.state \in Terminal \cup {"lost"}
           /\ calls[t].answer.state \in Terminal => jobs[calls[t].job].state \in Terminal
<1>1. /\ CallFits(calls[t]) /\ calls[t].pc = "cancel" /\ calls[t].answer # InFlight
      /\ calls[t].job \in DOMAIN jobs
    BY KnowsItsJob DEF PInv, CallsFit, Answered
<1>2. calls[t].answer = Lost \/ calls[t].answer.state \in Terminal
    BY <1>1 DEF CallFits
<1>3. calls[t].answer.state \in Terminal => calls[t].answer.job = calls[t].job
    BY <1>1, ConstantsAre DEF CallFits, Terminal
<1> QED
    BY <1>1, <1>2, <1>3, ConstantsAre DEF CallFits, Settled, Terminal, PInv, RefsFit

LEMMA PreviewCanceledInv ==
    ASSUME PInv, Contract, NEW t \in DOMAIN calls, PreviewCanceled(t)
    PROVE  PInv'
<1> DEFINE s == calls[t].answer.state
<1>1. /\ Answered(t, "cancel") /\ calls[t].pc = "cancel" /\ panel = "preview"
      /\ UNCHANGED <<panel, sequence, editRevision, active, disposed, jobs, draft, troubles, since, asked,
                     quiet>>
    BY DEF PreviewCanceled, Answered, world
<1>2. /\ Settled(calls[t].job) /\ dropped \subseteq dropped' /\ dropped' \subseteq DOMAIN jobs
      /\ quiet \subseteq DOMAIN jobs /\ s \in Terminal \cup {"lost"}
      /\ s \in Terminal => jobs[calls[t].job].state \in Terminal
    BY <1>1, CanceledJob DEF PreviewCanceled
<1>3. CASE ~IsCurrent(t)
    <2>1. Return(t) /\ UNCHANGED ui
        BY <1>3 DEF PreviewCanceled
    <2>2. calls[t].seq # sequence
        BY <1>1, <1>3, NotCurrent
    <2> QED
        BY <1>1, <1>2, <2>1, <2>2, LateInv
<1>4. CASE IsCurrent(t)
    <2>1. ~disposed /\ calls[t].seq = sequence
        BY <1>4 DEF IsCurrent
    <2>2. ~calls[t].aborted /\ active = 0 /\ t # 0
        BY <1>1, <2>1, CurrentCall
    <2>3. CASE s = "succeeded"
        <3> DEFINE patch == [pc |-> "result"]
        <3>1. Await(t, patch) /\ UNCHANGED ui
            BY <1>4, <2>3 DEF PreviewCanceled
        <3>2. DOMAIN patch = {"pc"} /\ patch["pc"] = "result"
            OBVIOUS
        <3> HIDE DEF patch
        <3>3. UNCHANGED dropped
            BY <2>3, ConstantsAre DEF PreviewCanceled
        <3>4. /\ calls[t].job \in 0 .. Len(jobs) /\ calls[t].job # 0
              /\ jobs[calls[t].job].draft = calls[t].draft
              /\ jobs[calls[t].job].project = calls[t].project
              /\ jobs[calls[t].job].state \in Terminal
            BY <1>1, <1>2, <2>3, KnowsItsJob DEF Terminal
        <3>5. calls[t].step # "none"
            BY <1>1 DEF PInv, StepsFit
        <3>6. ShowsOwn
            BY <3>1, SameShown
        <3> QED
            BY <1>1, <1>2, <2>1, <2>2, <3>1, <3>2, <3>3, <3>4, <3>5, <3>6, GoOnInv
    <2>4. CASE s # "succeeded"
        <3>1. /\ Return(t)
              /\ Publish([phase |-> IF s \in {"canceled", "superseded"} THEN s ELSE "failed"])
            BY <1>4, <2>4 DEF PreviewCanceled
        <3>2. ShowsOwn
            BY <2>1, <3>1, PublishesOwn DEF Phase, Terminal
        <3> QED
            BY <1>1, <1>2, <2>2, <3>1, <3>2, EndInv
    <2> QED
        BY <2>3, <2>4
<1> QED
    BY <1>3, <1>4

LEMMA OutputCanceledInv ==
    ASSUME PInv, Contract, NEW t \in DOMAIN calls, OutputCanceled(t)
    PROVE  PInv'
<1> DEFINE s == calls[t].answer.state
<1>1. /\ Answered(t, "cancel") /\ calls[t].pc = "cancel" /\ panel = "output" /\ Return(t)
      /\ UNCHANGED <<panel, sequence, editRevision, active, disposed, jobs, draft, troubles, since, asked,
                     quiet>>
    BY DEF OutputCanceled, Answered, world
<1>2. /\ Settled(calls[t].job) /\ dropped \subseteq dropped' /\ dropped' \subseteq DOMAIN jobs
      /\ quiet \subseteq DOMAIN jobs
    BY <1>1, CanceledJob DEF OutputCanceled
<1>3. CASE calls[t].seq # sequence
    <2>1. UNCHANGED ui
        BY <1>3 DEF OutputCanceled
    <2> QED
        BY <1>1, <1>2, <1>3, <2>1, LateInv
<1>4. CASE calls[t].seq = sequence
    <2>1. ~disposed /\ active = 0 /\ t # 0
        BY <1>1, <1>4, CurrentCall
    <2>2. CASE s \in {"canceled", "superseded", "succeeded"}
        <3>1. Publish([phase |-> IF s = "superseded" THEN s ELSE "canceled", step |-> "none"])
            BY <1>4, <2>1, <2>2 DEF OutputCanceled
        <3>2. ShowsOwn
            BY <2>1, <3>1, PublishesOwn DEF Phase, Terminal, Steps
        <3> QED
            BY <1>1, <1>2, <2>1, <3>2, EndInv
    <2>3. CASE s \notin {"canceled", "superseded", "succeeded"}
        <3>1. Publish([phase |-> "failed", step |-> calls[t].step])
            BY <1>4, <2>1, <2>3 DEF OutputCanceled
        <3>2. calls[t].step \in Steps
            BY CallIs DEF PInv, Invocation
        <3>3. ShowsOwn
            BY <2>1, <3>1, <3>2, PublishesOwn DEF Phase, Terminal
        <3> QED
            BY <1>1, <1>2, <2>1, <3>3, EndInv
    <2> QED
        BY <2>2, <2>3
<1> QED
    BY <1>3, <1>4

LEMMA MuralCanceledInv ==
    ASSUME PInv, Contract, NEW t \in DOMAIN calls, MuralCanceled(t)
    PROVE  PInv'
<1> DEFINE s == calls[t].answer.state
           shown == CASE s = "lost" -> "failed"
                      [] s = "canceled" -> "canceled"
                      [] OTHER -> "superseded"
<1>1. /\ Answered(t, "cancel") /\ calls[t].pc = "cancel" /\ panel = "mural" /\ Return(t)
      /\ UNCHANGED <<panel, sequence, editRevision, disposed, jobs, draft, troubles, since, asked, quiet>>
    BY DEF MuralCanceled, Answered, world
<1>2. /\ Settled(calls[t].job) /\ dropped \subseteq dropped' /\ dropped' \subseteq DOMAIN jobs
      /\ quiet \subseteq DOMAIN jobs
    BY <1>1, CanceledJob DEF MuralCanceled
<1>3. CASE ~IsCurrent(t)
    <2>1. UNCHANGED <<ui, active>>
        BY <1>3 DEF MuralCanceled
    <2>2. calls[t].seq # sequence
        BY <1>1, <1>3, NotCurrent
    <2> QED
        BY <1>1, <1>2, <2>1, <2>2, LateInv
<1>4. CASE IsCurrent(t)
    <2>1. ~disposed /\ calls[t].seq = sequence
        BY <1>4 DEF IsCurrent
    <2>2. /\ ~calls[t].aborted /\ t # 0
          /\ active # 0 => calls[active].job = calls[t].job
        BY <1>1, <2>1, CurrentCall
    <2>3. active' = 0 /\ Publish([phase |-> shown, step |-> "none"])
        BY <1>4 DEF MuralCanceled
    <2>4. shown \in {"failed", "canceled", "superseded"}
        OBVIOUS
    <2> HIDE DEF shown
    <2>5. ShowsOwn
        BY <2>1, <2>3, <2>4, PublishesOwn DEF Phase, Terminal, Steps
    <2> QED
        BY <1>1, <1>2, <2>1, <2>2, <2>3, <2>5, EndInv
<1> QED
    BY <1>3, <1>4

LEMMA ContinueInv ==
    ASSUME PInv, Contract, NEW t, Continue(t)
    PROVE  PInv'
<1>1. t \in DOMAIN calls
    BY DEF Continue, AbortError, Started, Polled, PreviewResult, PreviewCanceled, OutputResult,
           OutputCanceled, MuralResult, MuralCanceled, Answered
<1> QED
    BY <1>1, AbortErrorInv, StartedInv, PolledInv, PreviewResultInv, PreviewCanceledInv,
       OutputResultInv, OutputCanceledInv, MuralResultInv, MuralCanceledInv DEF Continue

\* An answer to a call that the user's acts have overtaken changes nothing on screen.
LEMMA LateChangesNothing ==
    ASSUME PInv, Contract, NEW t, Continue(t), ui' # ui
    PROVE  t > since
<1>1. t \in DOMAIN calls
    BY DEF Continue, AbortError, Started, Polled, PreviewResult, PreviewCanceled, OutputResult,
           OutputCanceled, MuralResult, MuralCanceled, Answered
<1>2. ~AbortError(t)
    BY DEF AbortError, coordinator
<1>3. \E k \in {"start", "poll", "result", "cancel"} : Answered(t, k)
    BY <1>2 DEF Continue, Started, Polled, PreviewResult, PreviewCanceled, OutputResult,
           OutputCanceled, MuralResult, MuralCanceled
<1>4. calls[t].seq = sequence
    BY <1>2 DEF Continue, Started, Polled, PreviewResult, PreviewCanceled, OutputResult,
           OutputCanceled, MuralResult, MuralCanceled, IsCurrent
<1> QED
    BY <1>1, <1>3, <1>4, CurrentCall

-----------------------------------------------------------------------------
(* The network, the server and other windows. *)

\* A call gets an answer, or nobody needs one any more.
Answers(c, d) ==
    /\ d \in Invocation /\ d.job = c.job
    /\ \/ /\ d.pc = c.pc /\ d.seq = c.seq /\ d.edit = c.edit /\ d.draft = c.draft
          /\ d.project = c.project /\ d.step = c.step
          /\ d.aborted = c.aborted
          /\ c.pc \in {"start", "orphan"} /\ d.answer = InFlight => c.answer = InFlight
       \/ /\ c.pc = "orphan"
          /\ d.pc = "ended" /\ d.seq = 0 /\ d.step = "none" /\ d.aborted = FALSE

\* Jobs go on, and go on doing what they were asked for.
JobsGoOn ==
    /\ jobs' \in Seq(JobRec) /\ DOMAIN jobs \subseteq DOMAIN jobs'
    /\ \A j \in DOMAIN jobs :
          /\ jobs'[j].draft = jobs[j].draft /\ jobs'[j].project = jobs[j].project
          /\ jobs'[j].state = "active" => jobs[j].state = "active"
    /\ \A j \in DOMAIN jobs' \ DOMAIN jobs : panel = "preview" => jobs'[j].project = ui.project

LEMMA AnswerIs ==
    ASSUME PInv, NEW t \in DOMAIN calls, NEW d, Answers(calls[t], d), calls' = [calls EXCEPT ![t] = d]
    PROVE  /\ calls' \in Seq(Invocation) /\ DOMAIN calls' = DOMAIN calls /\ Len(calls') = Len(calls)
           /\ calls'[t] = d /\ \A u \in DOMAIN calls : u # t => calls'[u] = calls[u]
           /\ panel' = panel => Slots \subseteq Slots'
<1>1. /\ calls' \in Seq(Invocation) /\ DOMAIN calls' = DOMAIN calls /\ Len(calls') = Len(calls)
      /\ calls'[t] = d /\ \A u \in DOMAIN calls : u # t => calls'[u] = calls[u]
    BY DEF PInv, PanelTypes, Answers
<1>2. \A s : HasAsked(calls[t], s) => HasAsked(d, s)
    BY DEF Answers, HasAsked
<1>3. ASSUME panel' = panel PROVE Slots \subseteq Slots'
    <2>1. StepsOf(panel)' = StepsOf(panel)
        BY <1>3
    <2>2. \A r, s : HasAsked(r, s)' = HasAsked(r, s)
        BY DEF HasAsked
    <2> QED
        <3> SUFFICES ASSUME NEW x \in Slots PROVE x \in Slots'
            OBVIOUS
        <3>1. x[1] \in DOMAIN calls /\ HasAsked(calls[x[1]], x[2])
            BY DEF Slots
        <3>2. HasAsked(calls'[x[1]], x[2])
            BY <1>1, <1>2, <3>1
        <3> QED
            BY <1>1, <2>1, <2>2, <3>1, <3>2 DEF Slots
<1> QED
    BY <1>1, <1>3

LEMMA ServerInv ==
    ASSUME PInv, NEW t, NEW d,
           \/ calls' = calls
           \/ /\ t \in DOMAIN calls /\ calls' = [calls EXCEPT ![t] = d] /\ Answers(calls[t], d)
              /\ CallFits(d)' /\ JobFits(d)',
           UNCHANGED <<panel, ui, sequence, editRevision, active, disposed, draft, since, asked>>,
           troubles' \in Nat, JobsGoOn, JobsCounted',
           quiet' \subseteq DOMAIN jobs', dropped' \subseteq DOMAIN jobs',
           \A j \in DOMAIN jobs : jobs'[j].state = "active" /\ Owned(j) => Owned(j)'
    PROVE  PInv'
<1> USE DEF PInv
<1>1. /\ calls' \in Seq(Invocation) /\ DOMAIN calls' = DOMAIN calls /\ Len(calls') = Len(calls)
      /\ \A u \in DOMAIN calls : calls'[u].job = calls[u].job
      /\ \A u \in DOMAIN calls : calls'[u] = calls[u] \/ Answers(calls[u], calls'[u])
    <2>1. CASE calls' = calls
        BY <2>1 DEF PanelTypes
    <2>2. CASE t \in DOMAIN calls /\ calls' = [calls EXCEPT ![t] = d] /\ Answers(calls[t], d)
        BY <2>2, AnswerIs DEF Answers
    <2> QED
        BY <2>1, <2>2
<1>2. /\ DOMAIN calls = 1 .. Len(calls) /\ Len(calls) \in Nat
      /\ DOMAIN jobs = 1 .. Len(jobs) /\ Len(jobs) \in Nat
      /\ DOMAIN jobs' = 1 .. Len(jobs') /\ Len(jobs') \in Nat /\ Len(jobs) <= Len(jobs')
      /\ \A u \in DOMAIN calls : calls[u] \in Invocation
      /\ active \in Nat /\ sequence \in Nat
    <2>1. /\ DOMAIN calls = 1 .. Len(calls) /\ Len(calls) \in Nat
          /\ \A u \in DOMAIN calls : calls[u] \in Invocation
          /\ active \in Nat /\ sequence \in Nat
          /\ DOMAIN jobs = 1 .. Len(jobs) /\ Len(jobs) \in Nat
          /\ DOMAIN jobs' = 1 .. Len(jobs') /\ Len(jobs') \in Nat
        BY DEF PanelTypes, JobsGoOn
    <2>2. Len(jobs) <= Len(jobs')
        BY <2>1 DEF JobsGoOn
    <2> QED
        BY <2>1, <2>2
<1>3. PanelTypes'
    BY <1>1, <1>2 DEF PanelTypes, JobsGoOn
<1>4. RefsFit'
    BY <1>1, <1>2 DEF RefsFit
<1>5. CallsFit'
    <2>1. \A j \in DOMAIN jobs : /\ jobs[j] \in JobRec /\ jobs'[j] \in JobRec
                                 /\ jobs[j].state \in Terminal => jobs'[j].state \in Terminal
        <3>1. \A j \in DOMAIN jobs : jobs[j] \in JobRec /\ jobs'[j] \in JobRec
            <4>1. jobs \in Seq(JobRec) /\ jobs' \in Seq(JobRec) /\ DOMAIN jobs \subseteq DOMAIN jobs'
                BY DEF PanelTypes, JobsGoOn
            <4> QED
                BY <4>1
        <3>2. \A r \in JobRec : r.state \in Terminal <=> r.state # "active"
            BY DEF JobRec, JobState, Terminal
        <3> QED
            BY <3>1, <3>2 DEF JobsGoOn
    <2>2. ASSUME NEW u \in DOMAIN calls PROVE CallFits(calls[u])' /\ JobFits(calls[u])'
        <3>1. CASE calls'[u] = calls[u]
            <4> DEFINE r == calls[u]
            <4>1. CallFits(r) /\ JobFits(r) /\ r.job \in 0 .. Len(jobs) /\ r \in Invocation
                BY <1>2 DEF CallsFit, RefsFit
            <4>2. CallFits(r)'
                BY <4>1, <3>1, <2>1, <1>2, ConstantsAre DEF CallFits, Invocation, Answer, Terminal
            <4>3. JobFits(r)'
                BY <4>1, <3>1, <1>2, ConstantsAre DEF JobFits, CallFits, JobsGoOn
            <4> QED
                BY <4>2, <4>3
        <3>2. CASE calls'[u] # calls[u]
            BY <3>2 DEF PanelTypes, CallFits, JobFits
        <3> QED
            BY <3>1, <3>2
    <2> QED
        BY <2>2, <1>1 DEF CallsFit
<1>6. PreviewFits'
    BY <1>1 DEF PreviewFits, JobsGoOn, Answers
<1>7. NumbersFit'
    <2>1. calls' # <<>> => sequence' # 0
        BY <1>1, <1>2 DEF NumbersFit
    <2>2. \A u \in DOMAIN calls' : calls'[u].seq <= sequence'
                                    /\ (calls'[u].pc = "ended" <=> calls'[u].seq = 0)
        BY <1>1, <1>2 DEF NumbersFit, Answers
    <2>3. \A u \in DOMAIN calls' :
              calls'[u].seq = sequence' => calls'[u].project = ui'.project /\ ~disposed'
        BY <1>1, <1>2, <2>1 DEF NumbersFit, Answers
    <2>4. active' # 0 => calls'[active'].seq \in {sequence', 0} /\ ~disposed'
        BY <1>1, <1>2 DEF NumbersFit, RefsFit, Answers
    <2> QED
        BY <2>1, <2>2, <2>3, <2>4 DEF NumbersFit
<1>8. NewestFits'
    <2> SUFFICES ASSUME panel # "mural" PROVE NewestFits'
        BY DEF NewestFits
    <2>1. ASSUME NEW u \in DOMAIN calls, calls'[u].seq = sequence
          PROVE  /\ calls[u].seq = sequence /\ calls'[u].pc = calls[u].pc
                 /\ calls'[u].edit = calls[u].edit /\ calls'[u].draft = calls[u].draft
                 /\ calls'[u].aborted = calls[u].aborted
        BY <1>1, <1>2, <2>1 DEF NumbersFit, Answers
    <2>2. active # 0 => /\ active = Len(calls) /\ calls[active].seq = sequence
                        /\ calls[active].pc \in {"start", "poll", "result"}
        BY DEF NewestFits
    <2>3. active # 0 => /\ calls'[active].seq = sequence
                        /\ calls'[active].pc \in {"start", "poll", "result"}
        BY <1>1, <1>2, <2>2 DEF Answers
    <2>4. ASSUME NEW u \in DOMAIN calls, calls'[u].seq = sequence
          PROVE  /\ u = Len(calls) /\ u > since /\ ~calls'[u].aborted
                 /\ calls'[u].edit <= editRevision
                 /\ calls'[u].draft = asked.draft
                 /\ calls'[u].edit = editRevision => draft = asked.screen
                 /\ calls'[u].pc \in {"start", "poll"}
                       \/ (panel = "output" /\ calls'[u].pc = "result") => u = active
        BY <2>1, <2>4 DEF NewestFits
    <2> QED
        BY <1>1, <2>2, <2>3, <2>4 DEF NewestFits
<1>9. MuralFits'
    <2> SUFFICES ASSUME panel = "mural" PROVE MuralFits'
        BY DEF MuralFits
    <2>1. ASSUME NEW u \in DOMAIN calls, calls'[u].seq = sequence
          PROVE  /\ calls[u].seq = sequence /\ calls'[u].pc = calls[u].pc
                 /\ calls'[u].draft = calls[u].draft /\ calls'[u].aborted = calls[u].aborted
                 /\ calls'[u].job = calls[u].job
        BY <1>1, <1>2, <2>1 DEF NumbersFit, Answers
    <2>2. active # 0 => /\ active \in DOMAIN calls
                        /\ calls'[active].job = calls[active].job
                        /\ calls[active].aborted \/ calls[active].pc = "ended" =>
                              calls'[active].aborted \/ calls'[active].pc = "ended"
        BY <1>1, <1>2 DEF RefsFit, Answers
    <2>3. ASSUME NEW u \in DOMAIN calls, calls'[u].seq = sequence
          PROVE  /\ calls'[u].pc \in {"start", "poll", "result"} /\ ~calls'[u].aborted =>
                       u = active /\ u > since /\ calls'[u].draft = asked.draft /\ draft = asked.screen
                 /\ calls'[u].pc = "cancel" => u > since /\ ~calls'[u].aborted
                 /\ calls'[u].pc = "cancel" /\ active # 0 =>
                       ui.phase = "canceling" /\ calls'[active].job = calls'[u].job
        BY <2>1, <2>2, <2>3 DEF MuralFits
    <2> QED
        BY <1>1, <2>2, <2>3 DEF MuralFits
<1>10. CurrentIsAsked'
    BY DEF CurrentIsAsked
<1>11. StepsFit'
    BY <1>1 DEF StepsFit, Answers
<1>12. WorkFits'
    <2> SUFFICES ASSUME NEW u \in DOMAIN calls', NEW j, j = calls'[u].job, j # 0,
                        jobs'[j].state = "active"
                 PROVE  Owned(j)'
        BY DEF WorkFits, Owned
    <2>1. j = calls[u].job /\ j \in DOMAIN jobs
        BY <1>1, <1>2 DEF RefsFit
    <2> QED
        BY <1>1, <2>1 DEF WorkFits, JobsGoOn
<1> QED
    BY <1>3, <1>4, <1>5, <1>6, <1>7, <1>8, <1>9, <1>10, <1>11, <1>12

\* The server's steps leave the panel alone.
LEMMA ServerUnchanged ==
    ASSUME UNCHANGED <<Carried>>
    PROVE  UNCHANGED <<panel, ui, sequence, editRevision, active, disposed, since, asked, dropped>>
BY DEF Carried, coordinator

\* No job was added, and every call kept its request for jobs.
LEMMA SameJobs ==
    ASSUME PInv, DOMAIN jobs' = DOMAIN jobs, calls' = calls, panel' = panel
    PROVE  JobsCounted'
<1>1. Slots' = Slots
    <2>1. StepsOf(panel)' = StepsOf(panel)
        OBVIOUS
    <2>2. \A r, s : HasAsked(r, s)' = HasAsked(r, s)
        BY DEF HasAsked
    <2> QED
        BY <2>1, <2>2 DEF Slots
<1> QED
    BY <1>1, JobsStayCounted DEF PInv

\* A step of the server or of the network that only answers call t.
LEMMA AnswerInv ==
    ASSUME PInv, NEW t \in DOMAIN calls, NEW d, Answers(calls[t], d),
           calls' = [calls EXCEPT ![t] = d], CallFits(d)', JobFits(d)',
           UNCHANGED <<panel, ui, sequence, editRevision, active, disposed, draft, since, asked, jobs, quiet,
                       dropped>>,
           troubles' \in Nat,
           calls[t].pc = "cancel" => d.answer = Lost
    PROVE  PInv'
<1>1. /\ DOMAIN calls' = DOMAIN calls /\ Slots \subseteq Slots' /\ calls'[t] = d
      /\ \A u \in DOMAIN calls : u # t => calls'[u] = calls[u]
    BY AnswerIs
<1>2. JobsCounted'
    BY <1>1, JobsStayCounted DEF PInv
<1>3. JobsGoOn
    BY DEF JobsGoOn, PInv, PanelTypes
<1>4. \A j : Owned(j) => Owned(j)'
    <2> SUFFICES ASSUME NEW j, Owned(j) PROVE Owned(j)'
        OBVIOUS
    <2>1. active # 0 => active \in DOMAIN calls
        BY DEF PInv, PanelTypes, RefsFit
    <2>2. CASE active # 0 /\ calls[active].job = j
        BY <1>1, <2>1, <2>2 DEF Owned, Answers
    <2>3. CASE j \in quiet \cup dropped
        BY <2>3 DEF Owned
    <2>4. ASSUME NEW u \in DOMAIN calls, calls[u].pc = "cancel", calls[u].job = j,
                 calls[u].answer \in {InFlight, Lost}
          PROVE  Owned(j)'
        BY <1>1, <2>4 DEF Owned, Answers
    <2> QED
        BY <2>2, <2>3, <2>4 DEF Owned
<1>5. quiet' \subseteq DOMAIN jobs' /\ dropped' \subseteq DOMAIN jobs'
    BY DEF PInv, RefsFit
<1> QED
    BY <1>2, <1>3, <1>4, <1>5, ServerInv

\* Jobs change their states, and cancellations arrive or are lost.
LEMMA JobsInv ==
    ASSUME PInv, calls' = calls,
           UNCHANGED <<panel, ui, sequence, editRevision, active, disposed, draft, since, asked>>,
           troubles' \in Nat, JobsGoOn, DOMAIN jobs' = DOMAIN jobs,
           quiet' \subseteq quiet, dropped' \subseteq DOMAIN jobs,
           \A j \in quiet \cup dropped : jobs'[j].state = "active" => j \in quiet' \cup dropped'
    PROVE  PInv'
<1>1. JobsCounted'
    BY SameJobs
<1>2. quiet' \subseteq DOMAIN jobs' /\ dropped' \subseteq DOMAIN jobs'
    BY DEF PInv, RefsFit
<1>3. \A j \in DOMAIN jobs : jobs'[j].state = "active" /\ Owned(j) => Owned(j)'
    BY DEF Owned
<1> QED
    BY <1>1, <1>2, <1>3, ServerInv

LEMMA CanceledIs ==
    ASSUME PInv, NEW j \in DOMAIN jobs, jobs' = Canceled(j),
           UNCHANGED <<panel, ui>>
    PROVE  /\ JobsGoOn /\ DOMAIN jobs' = DOMAIN jobs /\ jobs'[j].state \in Terminal
           /\ jobs'[j] \in JobRec
<1>1. jobs[j] \in JobRec /\ jobs \in Seq(JobRec)
    BY JobIs DEF PInv, PanelTypes
<1> DEFINE r == [jobs[j] EXCEPT !.state = IF @ = "active" THEN "canceled" ELSE @]
<1>2. /\ r \in JobRec /\ r.state \in Terminal /\ r.draft = jobs[j].draft
      /\ r.project = jobs[j].project
    BY <1>1 DEF JobRec, JobState, Terminal
<1>3. jobs' = [jobs EXCEPT ![j] = r]
    BY <1>1 DEF Canceled, JobRec
<1> HIDE DEF r
<1> QED
    BY <1>1, <1>2, <1>3 DEF JobsGoOn, Terminal

LEMMA ServeQuietInv ==
    ASSUME PInv, NEW j, ServeQuiet(j)
    PROVE  PInv'
<1>1. /\ UNCHANGED <<panel, ui, sequence, editRevision, active, disposed, since, asked, dropped, calls, draft,
                     troubles>>
      /\ j \in quiet /\ quiet' = quiet \ {j} /\ jobs' = Canceled(j)
    BY ServerUnchanged DEF ServeQuiet, world
<1>2. j \in DOMAIN jobs /\ dropped \subseteq DOMAIN jobs /\ troubles \in Nat
    BY <1>1 DEF PInv, RefsFit, PanelTypes
<1>3. JobsGoOn /\ DOMAIN jobs' = DOMAIN jobs /\ jobs'[j].state \in Terminal
    BY <1>1, <1>2, CanceledIs
<1>4. \A i \in quiet \cup dropped : jobs'[i].state = "active" => i \in quiet' \cup dropped'
    BY <1>1, <1>3 DEF Terminal
<1> QED
    BY <1>1, <1>2, <1>3, <1>4, JobsInv

LEMMA LoseQuietInv ==
    ASSUME PInv, NEW j, LoseQuiet(j)
    PROVE  PInv'
<1>1. /\ UNCHANGED <<panel, ui, sequence, editRevision, active, disposed, since, asked, calls, draft, jobs>>
      /\ troubles' = troubles + 1
      /\ j \in quiet /\ quiet' = quiet \ {j} /\ dropped' = dropped \cup {j}
    BY DEF LoseQuiet, coordinator, Trouble
<1>2. j \in DOMAIN jobs /\ dropped \subseteq DOMAIN jobs /\ troubles' \in Nat
    BY <1>1 DEF PInv, RefsFit, PanelTypes
<1>3. JobsGoOn
    BY <1>1 DEF JobsGoOn, PInv, PanelTypes
<1> QED
    BY <1>1, <1>2, <1>3, JobsInv

\* A job ends, by itself or by another window.
LEMMA JobEndsInv ==
    ASSUME PInv, NEW j, JobEnds(j) \/ OtherWindow(j)
    PROVE  PInv'
<1>1. PICK s \in Terminal : jobs' = [jobs EXCEPT ![j].state = s]
    BY DEF JobEnds, OtherWindow, Terminal
<1>2. UNCHANGED <<panel, ui, sequence, editRevision, active, disposed, since, asked, dropped, calls, draft,
                  quiet>>
    BY ServerUnchanged DEF JobEnds, OtherWindow, world
<1>3. j \in DOMAIN jobs /\ troubles' \in Nat
    BY DEF JobEnds, OtherWindow, Watched, world, Trouble, PInv, PanelTypes
<1>4. jobs[j] \in JobRec /\ jobs \in Seq(JobRec)
    BY <1>3, JobIs DEF PInv, PanelTypes
<1> DEFINE r == [jobs[j] EXCEPT !.state = s]
<1>5. r \in JobRec /\ r.state = s /\ r.draft = jobs[j].draft /\ r.project = jobs[j].project
    BY <1>4 DEF JobRec, JobState
<1>6. jobs' = [jobs EXCEPT ![j] = r]
    BY <1>1
<1> HIDE DEF r
<1>7. JobsGoOn /\ DOMAIN jobs' = DOMAIN jobs
    BY <1>2, <1>3, <1>4, <1>5, <1>6 DEF JobsGoOn, Terminal
<1>8. dropped' \subseteq DOMAIN jobs
    BY <1>2 DEF PInv, RefsFit
<1> QED
    BY <1>2, <1>3, <1>7, <1>8, JobsInv

\* An answer, and nothing else of a call.
LEMMA AnswerExcept ==
    ASSUME NEW c \in Invocation, NEW a \in Answer
    PROVE  LET d == [c EXCEPT !.answer = a] IN
           /\ d \in Invocation /\ d.answer = a
           /\ d.pc = c.pc /\ d.seq = c.seq /\ d.edit = c.edit /\ d.draft = c.draft
           /\ d.project = c.project /\ d.step = c.step
           /\ d.job = c.job /\ d.aborted = c.aborted
BY DEF Invocation

\* A call that is lost, refused, or ends unread.
LEMMA LostInv ==
    ASSUME PInv, NEW t \in DOMAIN calls,
           \/ /\ calls[t].pc \in {"start", "poll", "result", "cancel"}
              /\ calls' = [calls EXCEPT ![t].answer = Lost]
           \/ calls[t].pc = "orphan" /\ calls' = [calls EXCEPT ![t] = Ended(@)],
           UNCHANGED <<panel, ui, sequence, editRevision, active, disposed, draft, since, asked, jobs, quiet,
                       dropped>>,
           troubles' \in Nat
    PROVE  PInv'
<1>1. /\ calls[t] \in Invocation /\ CallFits(calls[t]) /\ JobFits(calls[t])
      /\ Len(jobs) \in Nat
    BY CallIs DEF PInv, CallsFit, PanelTypes
<1>2. CASE /\ calls[t].pc \in {"start", "poll", "result", "cancel"}
           /\ calls' = [calls EXCEPT ![t].answer = Lost]
    <2>0. PICK d : d = [calls[t] EXCEPT !.answer = Lost]
        OBVIOUS
    <2>1. calls' = [calls EXCEPT ![t] = d]
        BY <1>2, <2>0
    <2>2. /\ d \in Invocation /\ d.answer = Lost
          /\ d.pc = calls[t].pc /\ d.seq = calls[t].seq /\ d.edit = calls[t].edit
          /\ d.draft = calls[t].draft
          /\ d.project = calls[t].project /\ d.step = calls[t].step
          /\ d.job = calls[t].job /\ d.aborted = calls[t].aborted
        BY <1>1, <2>0, ConstantsAre, AnswerExcept
    <2>3. CallFits(d)' /\ JobFits(d)'
        BY <1>1, <1>2, <2>2, ConstantsAre DEF CallFits, JobFits, Terminal
    <2>4. Answers(calls[t], d)
        BY <2>2, ConstantsAre DEF Answers
    <2> QED
        BY <2>1, <2>2, <2>3, <2>4, AnswerInv
<1>3. CASE calls[t].pc = "orphan" /\ calls' = [calls EXCEPT ![t] = Ended(@)]
    <2>0. PICK d : d = Ended(calls[t])
        OBVIOUS
    <2>1. calls' = [calls EXCEPT ![t] = d]
        BY <1>3, <2>0
    <2>2. /\ d \in Invocation
          /\ d.pc = "ended" /\ d.seq = 0 /\ d.edit = 0 /\ d.draft = 0
          /\ d.project = NoProject /\ d.step = "none" /\ d.job = calls[t].job /\ d.aborted = FALSE
          /\ d.answer = InFlight
        BY <1>1, <2>0, EndedIs
    <2>3. CallFits(d)' /\ JobFits(d)'
        BY <1>1, <1>3, <2>2, ConstantsAre DEF CallFits, JobFits, Terminal, PInv, PanelTypes
    <2>4. Answers(calls[t], d)
        BY <1>3, <2>2 DEF Answers
    <2> QED
        BY <1>3, <2>1, <2>3, <2>4, AnswerInv
<1> QED
    BY <1>2, <1>3

LEMMA LoseCallInv ==
    ASSUME PInv, NEW t, LoseCall(t)
    PROVE  PInv'
<1>1. /\ t \in DOMAIN calls /\ calls[t].pc \in {"start", "poll", "result", "cancel"}
      /\ calls' = [calls EXCEPT ![t].answer = Lost]
      /\ UNCHANGED <<panel, ui, sequence, editRevision, active, disposed, since, asked, dropped, draft, jobs,
                     quiet>>
      /\ troubles' = troubles + 1
    BY ServerUnchanged DEF LoseCall, Trouble
<1>2. troubles' \in Nat
    BY <1>1 DEF PInv, PanelTypes
<1> QED
    BY <1>1, <1>2, LostInv

LEMMA RefuseStartInv ==
    ASSUME PInv, NEW t, RefuseStart(t)
    PROVE  PInv'
<1>1. /\ t \in DOMAIN calls /\ calls[t].pc \in {"start", "orphan"}
      /\ calls' = [calls EXCEPT ![t] = IF @.pc = "orphan" THEN Ended(@) ELSE [@ EXCEPT !.answer = Lost]]
      /\ UNCHANGED <<panel, ui, sequence, editRevision, active, disposed, since, asked, dropped, draft,
                     troubles, jobs, quiet>>
    BY ServerUnchanged DEF RefuseStart, world
<1>2. troubles' \in Nat
    BY <1>1 DEF PInv, PanelTypes
<1>3. CASE calls[t].pc = "orphan"
    BY <1>1, <1>2, <1>3, LostInv
<1>4. CASE calls[t].pc = "start"
    BY <1>1, <1>2, <1>4, LostInv
<1> QED
    BY <1>1, <1>3, <1>4

LEMMA ServeCancelInv ==
    ASSUME PInv, NEW t, ServeCancel(t)
    PROVE  PInv'
<1> DEFINE j == calls[t].job
           a == [job |-> j, state |-> jobs'[j].state]
<1>0. PICK d : d = [calls[t] EXCEPT !.answer = a]
    OBVIOUS
<1>1. /\ t \in DOMAIN calls /\ calls[t].pc = "cancel" /\ jobs' = Canceled(j)
      /\ calls' = [calls EXCEPT ![t] = d]
      /\ UNCHANGED <<panel, ui, sequence, editRevision, active, disposed, since, asked, dropped, draft,
                     troubles, quiet>>
    BY <1>0, ServerUnchanged DEF ServeCancel, world
<1>2. calls[t] \in Invocation /\ CallFits(calls[t]) /\ JobFits(calls[t]) /\ troubles \in Nat
    BY <1>1, CallIs DEF PInv, CallsFit, PanelTypes
<1>3. j \in DOMAIN jobs /\ j \in 1 .. Len(jobs) /\ jobs \in Seq(JobRec)
    BY <1>1, KnowsItsJob DEF PInv, PanelTypes
<1>4. /\ JobsGoOn /\ DOMAIN jobs' = DOMAIN jobs /\ jobs'[j].state \in Terminal
    BY <1>1, <1>3, CanceledIs
<1>5. a \in Answer /\ a.job = j /\ a.state = jobs'[j].state /\ a # InFlight /\ a # Lost
    BY <1>3, <1>4, ConstantsAre DEF Answer, JobState
<1>6. /\ d \in Invocation /\ d.answer = a
      /\ d.pc = calls[t].pc /\ d.seq = calls[t].seq /\ d.edit = calls[t].edit
      /\ d.draft = calls[t].draft
      /\ d.project = calls[t].project /\ d.step = calls[t].step
      /\ d.job = calls[t].job /\ d.aborted = calls[t].aborted
    <2> HIDE DEF a
    <2> QED
        BY <1>0, <1>2, <1>5, AnswerExcept
<1>7. CallFits(d)'
    BY <1>1, <1>2, <1>3, <1>4, <1>5, <1>6 DEF CallFits, JobState
<1>8. JobFits(d)'
    BY <1>1, <1>2, <1>3, <1>4, <1>6 DEF JobFits, JobsGoOn
<1>9. Answers(calls[t], d)
    BY <1>1, <1>6 DEF Answers
<1>10. /\ DOMAIN calls' = DOMAIN calls /\ Slots \subseteq Slots' /\ calls'[t] = d
       /\ \A u \in DOMAIN calls : u # t => calls'[u] = calls[u]
    BY <1>1, <1>9, AnswerIs
<1>11. JobsCounted'
    BY <1>4, <1>10, JobsStayCounted DEF PInv
<1>12. \A i \in DOMAIN jobs : jobs'[i].state = "active" /\ Owned(i) => Owned(i)'
    <2> SUFFICES ASSUME NEW i \in DOMAIN jobs, jobs'[i].state = "active", Owned(i) PROVE Owned(i)'
        OBVIOUS
    <2>1. active # 0 => active \in DOMAIN calls
        BY DEF PInv, PanelTypes, RefsFit
    <2>2. i # j
        BY <1>4 DEF Terminal
    <2>3. CASE active # 0 /\ calls[active].job = i
        BY <1>1, <1>6, <1>10, <2>1, <2>3 DEF Owned
    <2>4. CASE i \in quiet \cup dropped
        BY <1>1, <2>4 DEF Owned
    <2>5. ASSUME NEW u \in DOMAIN calls, calls[u].pc = "cancel", calls[u].job = i,
                 calls[u].answer \in {InFlight, Lost}
          PROVE  Owned(i)'
        BY <1>10, <2>2, <2>5 DEF Owned
    <2> QED
        BY <2>3, <2>4, <2>5 DEF Owned
<1>13. quiet' \subseteq DOMAIN jobs' /\ dropped' \subseteq DOMAIN jobs'
    BY <1>1, <1>4 DEF PInv, RefsFit
<1> QED
    BY <1>1, <1>2, <1>4, <1>7, <1>8, <1>9, <1>11, <1>12, <1>13, ServerInv

\* A request to start a job is served: with an equal job, or with a new one that
\* replaces the active job of its kind.
LEMMA ServeStartInv ==
    ASSUME PInv, NEW t, ServeStart(t)
    PROVE  PInv'
<1> DEFINE n == Len(jobs) + 1
           new == [state |-> "active", step |-> calls[t].step, draft |-> calls[t].draft,
                   project |-> calls[t].project]
           others == [i \in DOMAIN jobs |-> Replaced(i, t)]
<1>1. /\ t \in DOMAIN calls /\ calls[t].pc \in {"start", "orphan"} /\ calls[t].answer = InFlight
      /\ UNCHANGED <<panel, ui, sequence, editRevision, active, disposed, since, asked, dropped, draft,
                     troubles, quiet>>
    BY ServerUnchanged DEF ServeStart, world
<1>2. PICK j \in IF Equal(t) # {} THEN Equal(t) ELSE {n} :
        /\ jobs' = IF j \in DOMAIN jobs THEN jobs ELSE Append(others, new)
        /\ calls' = [calls EXCEPT ![t] =
                        IF @.pc = "orphan" THEN Ended(@)
                        ELSE [@ EXCEPT !.answer = [job |-> j, state |-> jobs'[j].state]]]
    BY DEF ServeStart
<1>3. /\ calls[t] \in Invocation /\ CallFits(calls[t]) /\ JobFits(calls[t]) /\ calls[t].job = 0
      /\ calls[t].step \in StepsOf(panel) /\ calls[t].step # "none"
      /\ troubles \in Nat /\ jobs \in Seq(JobRec) /\ DOMAIN jobs = 1 .. Len(jobs) /\ Len(jobs) \in Nat
    <2>1. /\ calls[t] \in Invocation /\ CallFits(calls[t]) /\ JobFits(calls[t])
          /\ troubles \in Nat /\ jobs \in Seq(JobRec)
        BY <1>1, CallIs DEF PInv, CallsFit, PanelTypes
    <2>2. calls[t].step \in StepsOf(panel) /\ calls[t].step # "none"
        BY <1>1 DEF PInv, StepsFit, StepsOf
    <2> QED
        BY <1>1, <2>1, <2>2 DEF CallFits
<1>4. new \in JobRec
    BY <1>3 DEF JobRec, JobState, Invocation
<1>5. /\ others \in Seq(JobRec) /\ Len(others) = Len(jobs) /\ DOMAIN others = DOMAIN jobs
      /\ \A i \in DOMAIN jobs : /\ others[i].draft = jobs[i].draft
                                /\ others[i].project = jobs[i].project
                                /\ others[i].state = "active" => jobs[i].state = "active"
    <2>1. \A i \in DOMAIN jobs :
              /\ Replaced(i, t) \in JobRec /\ Replaced(i, t).draft = jobs[i].draft
              /\ Replaced(i, t).project = jobs[i].project
              /\ Replaced(i, t).state = "active" => jobs[i].state = "active"
        <3> SUFFICES ASSUME NEW i \in DOMAIN jobs
                     PROVE  /\ Replaced(i, t) \in JobRec /\ Replaced(i, t).draft = jobs[i].draft
                            /\ Replaced(i, t).project = jobs[i].project
                            /\ Replaced(i, t).state = "active" => jobs[i].state = "active"
            OBVIOUS
        <3>1. jobs[i] \in JobRec
            BY <1>3
        <3> QED
            BY <3>1 DEF Replaced, JobRec, JobState, Terminal
    <2>2. others \in [1 .. Len(jobs) -> JobRec]
        BY <1>3, <2>1
    <2>3. others \in Seq(JobRec) /\ Len(others) = Len(jobs)
        BY <1>3, <2>2
    <2> QED
        BY <2>1, <2>3
<1> HIDE DEF others, new
<1>6. /\ JobsGoOn /\ j \in DOMAIN jobs' /\ jobs'[j] \in JobRec
      /\ jobs'[j].draft = calls[t].draft /\ jobs'[j].project = calls[t].project
      /\ j \in DOMAIN jobs \/ (j = n /\ DOMAIN jobs' = DOMAIN jobs \cup {n})
    <2>1. CASE j \in DOMAIN jobs
        <3>1. jobs' = jobs /\ j \in Equal(t)
            BY <1>2, <1>3, <2>1
        <3>2. jobs[j].draft = calls[t].draft /\ jobs[j].project = calls[t].project
            BY <3>1 DEF Equal
        <3> QED
            BY <1>1, <1>3, <2>1, <3>1, <3>2 DEF JobsGoOn
    <2>2. CASE j \notin DOMAIN jobs
        <3>1. j = n /\ jobs' = Append(others, new)
            BY <1>2, <2>2 DEF Equal
        <3>2. /\ jobs' \in Seq(JobRec) /\ DOMAIN jobs' = DOMAIN jobs \cup {n} /\ jobs'[n] = new
              /\ \A i \in DOMAIN jobs : jobs'[i] = others[i]
            BY <1>3, <1>4, <1>5, <3>1
        <3>3. new.draft = calls[t].draft /\ new.project = calls[t].project
            BY DEF new
        <3>4. panel = "preview" => new.project = ui.project
            BY <1>1, <3>3 DEF PInv, PreviewFits
        <3>5. JobsGoOn
            BY <1>1, <1>5, <3>2, <3>4 DEF JobsGoOn
        <3> QED
            BY <1>4, <3>1, <3>2, <3>3, <3>5
    <2> QED
        BY <2>1, <2>2
<1>7. PICK d : d = IF calls[t].pc = "orphan" THEN Ended(calls[t])
                   ELSE [calls[t] EXCEPT !.answer = [job |-> j, state |-> jobs'[j].state]]
    OBVIOUS
<1>8. calls' = [calls EXCEPT ![t] = d]
    BY <1>1, <1>2, <1>7
<1>9. /\ Answers(calls[t], d) /\ CallFits(d)' /\ JobFits(d)'
      /\ HasAsked(d, calls[t].step) /\ d.pc # "cancel"
    <2>1. CASE calls[t].pc = "orphan"
        <3>1. /\ d \in Invocation
              /\ d.pc = "ended" /\ d.seq = 0 /\ d.edit = 0 /\ d.draft = 0
              /\ d.project = NoProject /\ d.step = "none" /\ d.job = calls[t].job /\ d.aborted = FALSE
              /\ d.answer = InFlight
            BY <1>3, <1>7, <2>1, EndedIs
        <3>2. CallFits(d)' /\ JobFits(d)'
            BY <1>1, <1>3, <3>1, ConstantsAre DEF CallFits, JobFits, Terminal, PInv, PanelTypes
        <3> QED
            BY <2>1, <3>1, <3>2 DEF Answers, HasAsked
    <2>2. CASE calls[t].pc = "start"
        <3> DEFINE a == [job |-> j, state |-> jobs'[j].state]
        <3>1. a \in Answer /\ a.job = j /\ a.state = jobs'[j].state /\ a # InFlight /\ a # Lost
              /\ a.state \in JobState /\ a.job \in DOMAIN jobs'
            <4>1. j \in Nat \ {0} /\ jobs'[j].state \in JobState
                BY <1>6 DEF JobRec, JobsGoOn
            <4> QED
                BY <1>6, <4>1, ConstantsAre DEF Answer
        <3> HIDE DEF a
        <3>2. /\ d \in Invocation /\ d.answer = a
              /\ d.pc = calls[t].pc /\ d.seq = calls[t].seq /\ d.edit = calls[t].edit
              /\ d.draft = calls[t].draft
              /\ d.project = calls[t].project /\ d.step = calls[t].step
              /\ d.job = calls[t].job /\ d.aborted = calls[t].aborted
            BY <1>3, <1>7, <2>2, <3>1, AnswerExcept DEF a
        <3>3. CallFits(d)' /\ JobFits(d)'
            BY <1>1, <1>3, <1>6, <2>2, <3>1, <3>2 DEF CallFits, JobFits
        <3> QED
            BY <1>1, <2>2, <3>1, <3>2, <3>3 DEF Answers, HasAsked
    <2> QED
        BY <1>1, <2>1, <2>2
<1>10. /\ DOMAIN calls' = DOMAIN calls /\ Slots \subseteq Slots' /\ calls'[t] = d
       /\ \A u \in DOMAIN calls : u # t => calls'[u] = calls[u]
    BY <1>1, <1>8, <1>9, AnswerIs
<1>11. JobsCounted'
    <2>1. CASE j \in DOMAIN jobs
        <3>1. DOMAIN jobs' = DOMAIN jobs
            BY <1>2, <2>1
        <3> QED
            BY <1>10, <3>1, JobsStayCounted DEF PInv
    <2>2. CASE j \notin DOMAIN jobs
        <3> DEFINE x == <<t, calls[t].step>>
        <3>1. x \notin Slots
            BY <1>1, <1>3 DEF Slots, HasAsked
        <3>2. x \in Slots'
            BY <1>1, <1>3, <1>9, <1>10 DEF Slots, HasAsked
        <3>3. n \notin DOMAIN jobs /\ DOMAIN jobs' = DOMAIN jobs \cup {n}
            BY <1>3, <1>6, <2>2
        <3> HIDE DEF x
        <3>4. \E y : y \in Slots' \ Slots
            BY <3>1, <3>2
        <3> QED
            BY <1>10, <3>3, <3>4, AnotherJob DEF PInv
    <2> QED
        BY <2>1, <2>2
<1>12. \A i \in DOMAIN jobs : jobs'[i].state = "active" /\ Owned(i) => Owned(i)'
    <2> SUFFICES ASSUME NEW i \in DOMAIN jobs, Owned(i) PROVE Owned(i)'
        OBVIOUS
    <2>1. active # 0 => active \in DOMAIN calls
        BY DEF PInv, PanelTypes, RefsFit
    <2>2. CASE active # 0 /\ calls[active].job = i
        BY <1>1, <1>9, <1>10, <2>1, <2>2 DEF Owned, Answers
    <2>3. CASE i \in quiet \cup dropped
        BY <1>1, <2>3 DEF Owned
    <2>4. ASSUME NEW u \in DOMAIN calls, calls[u].pc = "cancel", calls[u].job = i,
                 calls[u].answer \in {InFlight, Lost}
          PROVE  Owned(i)'
        BY <1>1, <1>10, <2>4 DEF Owned
    <2> QED
        BY <2>2, <2>3, <2>4 DEF Owned
<1>13. quiet' \subseteq DOMAIN jobs' /\ dropped' \subseteq DOMAIN jobs'
    BY <1>1, <1>6 DEF PInv, RefsFit, JobsGoOn
<1> QED
    BY <1>1, <1>3, <1>6, <1>8, <1>9, <1>11, <1>12, <1>13, ServerInv

-----------------------------------------------------------------------------
(* The user, and the application around the panel. *)

LEMMA AbortIs ==
    ASSUME PInv
    PROVE  /\ Abort \in Seq(Invocation) /\ Len(Abort) = Len(calls) /\ DOMAIN Abort = DOMAIN calls
           /\ \A u \in DOMAIN calls :
                 /\ Abort[u].pc = calls[u].pc /\ Abort[u].seq = calls[u].seq
                 /\ Abort[u].edit = calls[u].edit /\ Abort[u].draft = calls[u].draft
                 /\ Abort[u].project = calls[u].project
                 /\ Abort[u].step = calls[u].step /\ Abort[u].job = calls[u].job
                 /\ Abort[u].answer = calls[u].answer
                 /\ u # active => Abort[u] = calls[u]
                 /\ u = active => Abort[u].aborted
<1>1. calls \in Seq(Invocation) /\ active \in Nat /\ active <= Len(calls)
    BY DEF PInv, PanelTypes, RefsFit
<1>2. CASE active = 0
    BY <1>1, <1>2 DEF Abort
<1>3. CASE active # 0
    <2> DEFINE r == [calls[active] EXCEPT !.aborted = TRUE]
    <2>1. active \in DOMAIN calls /\ calls[active] \in Invocation
        BY <1>1, <1>3
    <2>2. /\ r \in Invocation /\ r.aborted = TRUE
          /\ r.pc = calls[active].pc /\ r.seq = calls[active].seq
          /\ r.edit = calls[active].edit /\ r.draft = calls[active].draft
          /\ r.project = calls[active].project
          /\ r.step = calls[active].step /\ r.job = calls[active].job
          /\ r.answer = calls[active].answer
        BY <2>1 DEF Invocation
    <2>3. Abort = [calls EXCEPT ![active] = r]
        BY <1>3 DEF Abort
    <2> HIDE DEF r
    <2> QED
        BY <1>1, <2>1, <2>2, <2>3
<1> QED
    BY <1>2, <1>3

LEMMA Appended ==
    ASSUME NEW S, NEW s \in Seq(S), NEW c \in S
    PROVE  /\ Append(s, c) \in Seq(S)
           /\ Len(Append(s, c)) = Len(s) + 1
           /\ DOMAIN Append(s, c) = (DOMAIN s) \cup {Len(s) + 1}
           /\ Append(s, c)[Len(s) + 1] = c
           /\ \A u \in DOMAIN s : Append(s, c)[u] = s[u]
<1>1. DOMAIN s = 1 .. Len(s) /\ Len(s) \in Nat
    OBVIOUS
<1>2. Append(s, c) \in Seq(S) /\ Len(Append(s, c)) = Len(s) + 1
    OBVIOUS
<1>3. DOMAIN Append(s, c) = 1 .. (Len(s) + 1)
    BY <1>2
<1>4. 1 .. (Len(s) + 1) = (DOMAIN s) \cup {Len(s) + 1}
    BY <1>1
<1>5. \A u \in DOMAIN s : Append(s, c)[u] = s[u]
    BY <1>1
<1>6. Append(s, c)[Len(s) + 1] = c
    BY <1>1
<1> QED
    BY <1>2, <1>3, <1>4, <1>5, <1>6

LEMMA OneMore ==
    ASSUME NEW k \in Nat, NEW m, m = k + 1
    PROVE  m \in Nat /\ m # 0 /\ m # k /\ m \notin 1 .. k /\ 1 .. m = (1 .. k) \cup {m}
OBVIOUS

LEMMA SeqAt == ASSUME NEW S, NEW s \in Seq(S), NEW u \in DOMAIN s PROVE s[u] \in S
OBVIOUS

\* The next invocation.
NextCall == Len(calls) + 1

\* The calls after a step of the user: the active request aborted, and perhaps c.
LEMMA NewCalls ==
    ASSUME PInv, NEW c, NEW n, n = NextCall,
           calls' = Abort \/ (c \in Invocation /\ calls' = Append(Abort, c))
    PROVE  /\ n \in Nat /\ n # 0 /\ n = Len(calls) + 1 /\ n \notin DOMAIN calls
           /\ calls' \in Seq(Invocation)
           /\ \/ calls' = Abort /\ DOMAIN calls' = DOMAIN calls /\ Len(calls') = Len(calls)
              \/ /\ calls' = Append(Abort, c) /\ DOMAIN calls' = DOMAIN calls \cup {n}
                 /\ Len(calls') = n /\ calls'[n] = c /\ calls' # Abort
           /\ c \in Invocation /\ calls' = Append(Abort, c) => calls' # Abort
           /\ \A u \in DOMAIN calls :
                 /\ calls'[u].pc = calls[u].pc /\ calls'[u].seq = calls[u].seq
                 /\ calls'[u].edit = calls[u].edit /\ calls'[u].draft = calls[u].draft
                 /\ calls'[u].project = calls[u].project
                 /\ calls'[u].step = calls[u].step /\ calls'[u].job = calls[u].job
                 /\ calls'[u].answer = calls[u].answer
                 /\ u # active => calls'[u] = calls[u]
                 /\ u = active => calls'[u].aborted
<1>1. Len(calls) \in Nat /\ DOMAIN calls = 1 .. Len(calls) /\ n = Len(calls) + 1
    BY DEF PInv, PanelTypes, NextCall
<1>2. PICK s : /\ s = Abort /\ s \in Seq(Invocation) /\ Len(s) = Len(calls)
               /\ DOMAIN s = DOMAIN calls
    BY AbortIs
<1>3. n \in Nat /\ n # 0 /\ n \notin DOMAIN calls
    BY <1>1, OneMore
<1>4. /\ calls' \in Seq(Invocation)
      /\ \/ calls' = Abort /\ DOMAIN calls' = DOMAIN calls /\ Len(calls') = Len(calls)
         \/ /\ calls' = Append(Abort, c) /\ DOMAIN calls' = DOMAIN calls \cup {n}
            /\ Len(calls') = n /\ calls'[n] = c /\ calls' # Abort
      /\ c \in Invocation /\ calls' = Append(Abort, c) => calls' # Abort
      /\ \A u \in DOMAIN calls : calls'[u] = Abort[u]
    <2>1. CASE calls' = Abort
        <3>1. calls' = s
            BY <1>2, <2>1
        <3>2. c \in Invocation => n \in DOMAIN Append(s, c)
            BY <1>1, <1>2, Appended
        <3>3. c \in Invocation => calls' # Append(Abort, c)
            BY <1>2, <1>3, <3>1, <3>2
        <3> QED
            BY <1>2, <2>1, <3>1, <3>3
    <2>2. CASE c \in Invocation /\ calls' = Append(Abort, c)
        <3>1. calls' = Append(s, c)
            BY <1>2, <2>2
        <3>2. /\ calls' \in Seq(Invocation) /\ DOMAIN calls' = DOMAIN calls \cup {n}
              /\ Len(calls') = n /\ calls'[n] = c /\ \A u \in DOMAIN s : calls'[u] = s[u]
            <4>1. /\ Append(s, c) \in Seq(Invocation) /\ Len(Append(s, c)) = Len(s) + 1
                  /\ DOMAIN Append(s, c) = (DOMAIN s) \cup {Len(s) + 1}
                  /\ Append(s, c)[Len(s) + 1] = c
                  /\ \A u \in DOMAIN s : Append(s, c)[u] = s[u]
                <5>1. c \in Invocation /\ s \in Seq(Invocation)
                    BY <1>2, <2>2
                <5> QED
                    BY <5>1, Appended
            <4>2. n = Len(s) + 1 /\ DOMAIN s = DOMAIN calls
                BY <1>1, <1>2
            <4> QED
                BY <3>1, <4>1, <4>2
        <3>3. calls' # s
            BY <1>2, <1>3, <3>2
        <3> QED
            BY <1>2, <2>2, <3>2, <3>3
    <2> QED
        BY <2>1, <2>2
<1>5. ASSUME NEW u \in DOMAIN calls
      PROVE  /\ calls'[u].pc = calls[u].pc /\ calls'[u].seq = calls[u].seq
             /\ calls'[u].edit = calls[u].edit /\ calls'[u].draft = calls[u].draft
             /\ calls'[u].project = calls[u].project
             /\ calls'[u].step = calls[u].step /\ calls'[u].job = calls[u].job
             /\ calls'[u].answer = calls[u].answer
             /\ u # active => calls'[u] = calls[u]
             /\ u = active => calls'[u].aborted
    BY <1>4, AbortIs
<1> QED
    BY <1>1, <1>3, <1>4, <1>5

\* What a step of the user leaves behind.
Overtakes ==
    /\ UNCHANGED <<panel, jobs>>
    /\ quiet' \subseteq DOMAIN jobs /\ dropped' \subseteq DOMAIN jobs
    /\ quiet \cup dropped \subseteq quiet' \cup dropped'
    /\ draft' \in {draft, draft + 1} /\ since' \in 0 .. Len(calls) /\ troubles' \in Nat
    /\ editRevision' \in Nat /\ disposed' \in BOOLEAN
    /\ asked' \in [draft : Nat, screen : Nat] /\ (panel = "mural" => asked'.draft # 0)
    /\ ui' \in Shown /\ ui'.last <= draft' /\ CurrentIsAsked'

LEMMA CallsStillFit ==
    ASSUME PInv, Overtakes, NEW r \in Invocation, CallFits(r), JobFits(r)
    PROVE  CallFits(r)' /\ JobFits(r)'
BY DEF CallFits, JobFits, Overtakes

LEMMA AskedIs ==
    ASSUME PInv
    PROVE  asked \in [draft : Nat, screen : Nat] /\ (panel = "mural" => asked.draft # 0)
BY DEF PInv, PanelTypes

\* A call that may join the others, whatever number it has.
Joins(c) ==
    /\ c \in Invocation /\ c.job \in 0 .. Len(jobs)
    /\ c.step \in StepsOf(panel) \cup {"none"}
    /\ c.step = "none" => c.pc = "ended" \/ (panel = "mural" /\ c.pc = "cancel")
    /\ c.pc = "ended" => c.step = "none"
    /\ c.pc # "ended" => c.project = ui'.project
    /\ c.job # 0 /\ jobs[c.job].state = "active" =>
          (c.pc = "poll" /\ active' = NextCall) \/ (c.pc = "cancel" /\ c.answer = InFlight)

LEMMA CallsGrow ==
    ASSUME PInv, Overtakes, NEW c,
           \/ calls' = Abort
           \/ /\ Len(calls) < MaxCalls /\ calls' = Append(Abort, c) /\ Joins(c)
              /\ CallFits(c)' /\ JobFits(c)',
           sequence' \in {sequence, sequence + 1}, active' \in Nat, active' <= Len(calls'),
           \/ KnownJob \subseteq quiet' \cup dropped'
           \/ active' = active
           \/ /\ calls' # Abort /\ c.pc = "cancel" /\ KnownJob = {c.job}
              /\ c.answer = InFlight,
           panel = "preview" => ui'.project = ui.project
    PROVE  /\ PanelTypes' /\ RefsFit' /\ CallsFit' /\ PreviewFits' /\ WorkFits' /\ StepsFit'
           /\ JobsCounted'
<1> USE DEF PInv
<1>1. PICK n : n = NextCall
    OBVIOUS
<1> DEFINE More == calls' # Abort
<1>2. /\ calls \in Seq(Invocation) /\ DOMAIN calls = 1 .. Len(calls) /\ Len(calls) \in Nat
      /\ Len(jobs) \in Nat /\ active \in Nat /\ active <= Len(calls) /\ sequence \in Nat
      /\ draft \in Nat \ {0} /\ MaxCalls \in Nat
    BY PanelAssumption DEF PanelTypes, RefsFit
<1>3. /\ n \in Nat /\ n # 0 /\ n = Len(calls) + 1 /\ n \notin DOMAIN calls
      /\ calls' \in Seq(Invocation) /\ DOMAIN calls \subseteq DOMAIN calls'
      /\ ~More => DOMAIN calls' = DOMAIN calls /\ Len(calls') = Len(calls)
      /\ More => DOMAIN calls' = DOMAIN calls \cup {n} /\ Len(calls') = n /\ calls'[n] = c
    BY <1>1, NewCalls DEF Joins
<1>4. More => /\ Joins(c) /\ CallFits(c)' /\ JobFits(c)' /\ Len(calls) < MaxCalls
    OBVIOUS
<1>5. \A u \in DOMAIN calls :
          /\ calls'[u].pc = calls[u].pc /\ calls'[u].seq = calls[u].seq
          /\ calls'[u].edit = calls[u].edit /\ calls'[u].draft = calls[u].draft
          /\ calls'[u].project = calls[u].project
          /\ calls'[u].step = calls[u].step /\ calls'[u].job = calls[u].job
          /\ calls'[u].answer = calls[u].answer
    BY <1>1, NewCalls DEF Joins
<1>6. \A u \in DOMAIN calls' : calls'[u] \in Invocation
    BY <1>3, SeqAt
<1>7. \A u \in DOMAIN calls' : u \in DOMAIN calls \/ (u = n /\ More)
    BY <1>3
<1> HIDE DEF More
<1>8. PanelTypes'
    <2>1. sequence' \in Nat
        BY <1>2
    <2>2. /\ quiet' \subseteq Nat /\ dropped' \subseteq Nat /\ since' \in Nat
          /\ draft' \in Nat \ {0}
        BY <1>2 DEF Overtakes, PanelTypes
    <2> QED
        BY <1>3, <2>1, <2>2 DEF PanelTypes, Overtakes
<1>9. RefsFit'
    <2>1. Len(calls') <= MaxCalls /\ since' <= Len(calls')
        <3>1. Len(calls) <= MaxCalls /\ since' \in 0 .. Len(calls)
            BY DEF RefsFit, Overtakes
        <3> QED
            BY <1>2, <1>3, <1>4, <3>1
    <2>2. \A u \in DOMAIN calls' : calls'[u].job \in 0 .. Len(jobs)
        <3>1. \A u \in DOMAIN calls : calls'[u].job \in 0 .. Len(jobs)
            BY <1>5 DEF RefsFit
        <3> QED
            BY <1>3, <1>4, <1>7, <3>1 DEF Joins
    <2> QED
        BY <2>1, <2>2 DEF RefsFit, Overtakes
<1>10. CallsFit'
    <2>1. ASSUME NEW u \in DOMAIN calls PROVE CallFits(calls[u])' /\ JobFits(calls[u])'
        <3>1. PICK r : r = calls'[u]
            OBVIOUS
        <3>2. CallFits(r) /\ JobFits(r) /\ r \in Invocation
            BY <1>3, <1>5, <1>6, <3>1 DEF CallsFit, CallFits, JobFits
        <3>3. CallFits(r)' /\ JobFits(r)'
            BY <3>2, CallsStillFit
        <3> QED
            BY <3>1, <3>3 DEF CallFits, JobFits
    <2>2. More => CallFits(calls[n])' /\ JobFits(calls[n])'
        BY <1>3, <1>4 DEF CallFits, JobFits
    <2> QED
        BY <1>7, <2>1, <2>2 DEF CallsFit
<1>11. PreviewFits'
    <2> SUFFICES ASSUME panel = "preview" PROVE PreviewFits'
        BY DEF PreviewFits, Overtakes
    <2>1. \A u \in DOMAIN calls : calls'[u].pc # "ended" => calls'[u].project = ui'.project
        BY <1>5 DEF PreviewFits
    <2>2. \A u \in DOMAIN calls' : calls'[u].pc # "ended" => calls'[u].project = ui'.project
        BY <1>3, <1>4, <1>7, <2>1 DEF Joins
    <2> QED
        BY <2>2 DEF PreviewFits, Overtakes
<1>12. StepsFit'
    <2>1. \A u \in DOMAIN calls : /\ calls'[u].step \in StepsOf(panel) \cup {"none"}
                                  /\ calls'[u].step = "none" => calls'[u].pc = "ended" \/
                                        (panel = "mural" /\ calls'[u].pc = "cancel")
                                  /\ calls'[u].pc = "ended" => calls'[u].step = "none"
        BY <1>5 DEF StepsFit
    <2>2. \A u \in DOMAIN calls' : /\ calls'[u].step \in StepsOf(panel) \cup {"none"}
                                   /\ calls'[u].step = "none" => calls'[u].pc = "ended" \/
                                         (panel = "mural" /\ calls'[u].pc = "cancel")
                                   /\ calls'[u].pc = "ended" => calls'[u].step = "none"
        BY <1>3, <1>4, <1>7, <2>1 DEF Joins
    <2>3. StepsOf(panel)' = StepsOf(panel)
        BY DEF Overtakes
    <2> QED
        BY <2>2, <2>3 DEF StepsFit, Overtakes
<1>13. WorkFits'
    <2> SUFFICES ASSUME NEW u \in DOMAIN calls', NEW j, j = calls'[u].job, j # 0,
                        jobs[j].state = "active"
                 PROVE  Owned(j)'
        BY DEF WorkFits, Owned, Overtakes
    <2>1. CASE u \in DOMAIN calls
        <3>1. Owned(j)
            BY <1>5, <2>1 DEF WorkFits
        <3>2. CASE active # 0 /\ calls[active].job = j
            <4>1. KnownJob = {j}
                BY <3>2 DEF KnownJob
            <4>2. CASE KnownJob \subseteq quiet' \cup dropped'
                BY <4>1, <4>2 DEF Owned
            <4>3. CASE More /\ c.pc = "cancel" /\ KnownJob = {c.job} /\ c.answer = InFlight
                BY <1>3, <4>1, <4>3 DEF Owned
            <4>4. CASE active' = active
                <5>1. active \in DOMAIN calls
                    BY <1>2, <3>2
                <5> QED
                    BY <1>5, <3>2, <4>4, <5>1 DEF Owned
            <4> QED
                BY <4>2, <4>3, <4>4 DEF More
        <3>3. CASE j \in quiet \cup dropped
            BY <3>3 DEF Owned, Overtakes
        <3>4. ASSUME NEW v \in DOMAIN calls, calls[v].pc = "cancel", calls[v].job = j,
                     calls[v].answer \in {InFlight, Lost}
              PROVE  Owned(j)'
            BY <1>3, <1>5, <3>4 DEF Owned
        <3> QED
            BY <3>1, <3>2, <3>3, <3>4 DEF Owned
    <2>2. CASE u \notin DOMAIN calls
        <3>1. u = n /\ calls'[n] = c /\ Joins(c) /\ n \in DOMAIN calls'
            BY <1>3, <1>4, <1>7, <2>2
        <3> QED
            BY <1>1, <1>3, <3>1 DEF Joins, Owned
    <2> QED
        BY <2>1, <2>2
<1>14. JobsCounted'
    <2>1. Slots \subseteq Slots'
        <3>1. StepsOf(panel)' = StepsOf(panel)
            BY DEF Overtakes
        <3>2. \A r, s : HasAsked(r, s)' = HasAsked(r, s)
            BY DEF HasAsked
        <3>3. \A u \in DOMAIN calls : \A s : HasAsked(calls[u], s) => HasAsked(calls'[u], s)
            BY <1>5 DEF HasAsked
        <3> SUFFICES ASSUME NEW x \in Slots PROVE x \in Slots'
            OBVIOUS
        <3>4. x[1] \in DOMAIN calls /\ HasAsked(calls[x[1]], x[2])
            BY DEF Slots
        <3>5. HasAsked(calls'[x[1]], x[2])
            BY <3>3, <3>4
        <3> QED
            BY <1>3, <3>1, <3>2, <3>4, <3>5 DEF Slots
    <2> QED
        BY <2>1, JobsStayCounted DEF Overtakes
<1> QED
    BY <1>8, <1>9, <1>10, <1>11, <1>12, <1>13, <1>14

\* A call that begins as c, with the next number, while the job of the active
\* request is canceled, dropped, or what c is about.
Begins(c) ==
    /\ c \in Invocation /\ c.job \in 0 .. Len(jobs) /\ c.aborted = FALSE
    /\ c.step \in StepsOf(panel) \cup {"none"} /\ (c.step = "none" <=> c.pc = "ended")
    /\ c.pc \in {"start", "poll", "cancel", "ended"}
    /\ c.pc = "ended" => c.seq = 0
    /\ c.pc # "ended" =>
          /\ c.seq = sequence + 1 /\ c.project = ui'.project /\ ~disposed'
          /\ c.edit <= editRevision'
          /\ c.draft = asked'.draft
          /\ c.edit = editRevision' \/ panel = "mural" => draft' = asked'.screen
    /\ active' = IF c.pc \in {"start", "poll"} THEN NextCall ELSE 0
    /\ panel = "mural" => c.pc = "start"
    /\ c.job # 0 /\ jobs[c.job].state = "active" => c.pc \in {"poll", "cancel"}
    /\ c.pc = "cancel" => c.answer = InFlight

LEMMA NewNumberInv ==
    ASSUME PInv, Overtakes, sequence' = sequence + 1, KnownJob \subseteq quiet' \cup dropped'
               \/ \E c \in Invocation :
                         /\ calls' = Append(Abort, c) /\ c.pc = "cancel" /\ KnownJob = {c.job}
                         /\ c.answer = InFlight,
           panel = "preview" => ui'.project = ui.project,
           panel = "mural" /\ active' # 0 => ui'.phase # "canceling",
           \/ calls' = Abort /\ active' = 0
           \/ \E c : /\ Len(calls) < MaxCalls /\ calls' = Append(Abort, c) /\ Begins(c)
                     /\ CallFits(c)' /\ JobFits(c)'
    PROVE  PInv'
<1>1. PICK c : \/ calls' = Abort /\ active' = 0
               \/ /\ Len(calls) < MaxCalls /\ calls' = Append(Abort, c) /\ Begins(c)
                  /\ CallFits(c)' /\ JobFits(c)'
    OBVIOUS
<1>2. PICK n : n = NextCall
    OBVIOUS
<1> DEFINE More == calls' # Abort
<1>3. /\ Len(calls) \in Nat /\ Len(jobs) \in Nat /\ active \in Nat /\ active <= Len(calls)
      /\ sequence \in Nat /\ \A u \in DOMAIN calls : calls[u].seq \in Nat
    <2>1. \A u \in DOMAIN calls : calls[u] \in Invocation
        BY SeqAt DEF PInv, PanelTypes
    <2> QED
        BY <2>1 DEF PInv, PanelTypes, RefsFit, Invocation
<1>4. /\ n \in Nat /\ n # 0 /\ n = Len(calls) + 1 /\ n \notin DOMAIN calls
      /\ ~More => DOMAIN calls' = DOMAIN calls /\ calls' = Abort /\ Len(calls') = Len(calls)
      /\ More => DOMAIN calls' = DOMAIN calls \cup {n} /\ Len(calls') = n /\ calls'[n] = c
    <2>1. calls' = Abort \/ (c \in Invocation /\ calls' = Append(Abort, c))
        BY <1>1 DEF Begins
    <2>2. n \in Nat /\ n # 0 /\ n = Len(calls) + 1 /\ n \notin DOMAIN calls
        <3>1. NextCall = Len(calls) + 1 /\ DOMAIN calls = 1 .. Len(calls)
            BY DEF PInv, NextCall, PanelTypes
        <3> QED
            BY <1>2, <1>3, <3>1, OneMore
    <2>3. \/ calls' = Abort /\ DOMAIN calls' = DOMAIN calls /\ Len(calls') = Len(calls)
          \/ /\ calls' = Append(Abort, c) /\ DOMAIN calls' = DOMAIN calls \cup {n}
             /\ Len(calls') = n /\ calls'[n] = c /\ calls' # Abort
        BY <1>2, <2>1, NewCalls
    <2>4. /\ More => DOMAIN calls' = DOMAIN calls \cup {n} /\ Len(calls') = n /\ calls'[n] = c
          /\ ~More => DOMAIN calls' = DOMAIN calls /\ Len(calls') = Len(calls)
        BY <2>3
    <2> QED
        BY <2>2, <2>4
<1>5. /\ More => Begins(c) /\ CallFits(c)' /\ JobFits(c)' /\ Len(calls) < MaxCalls
      /\ ~More => active' = 0
    <2>1. Begins(c) /\ calls' = Append(Abort, c) => More
        BY <1>2, NewCalls DEF Begins
    <2> QED
        BY <1>1, <2>1
<1>6. \A u \in DOMAIN calls : calls'[u].pc = calls[u].pc /\ calls'[u].seq = calls[u].seq
    BY <1>1, <1>2, NewCalls DEF Begins
<1> USE DEF PInv
<1>7. \A u \in DOMAIN calls' : u \in DOMAIN calls \/ (u = n /\ More)
    BY <1>4
<1>8. active' \in {0, n} /\ (active' = n => More /\ c.pc \in {"start", "poll"})
    BY <1>2, <1>4, <1>5 DEF Begins
<1> HIDE DEF More
<1>9. /\ PanelTypes' /\ RefsFit' /\ CallsFit' /\ PreviewFits' /\ WorkFits' /\ StepsFit'
      /\ JobsCounted'
    <2>1. More => Joins(c)
        BY <1>5 DEF Begins, Joins
    <2>2. active' \in Nat /\ active' <= Len(calls')
        BY <1>3, <1>4, <1>8
    <2>3. CASE KnownJob \subseteq quiet' \cup dropped'
        BY <1>1, <1>5, <2>1, <2>2, <2>3, CallsGrow DEF More
    <2>4. ASSUME NEW e \in Invocation, calls' = Append(Abort, e), e.pc = "cancel",
                 KnownJob = {e.job}, e.answer = InFlight
          PROVE  More /\ c = e
        <3>1. calls' # Abort /\ calls'[n] = e
            BY <1>2, <2>4, NewCalls
        <3> QED
            BY <1>4, <3>1
    <2>5. CASE \E e \in Invocation :
                  /\ calls' = Append(Abort, e) /\ e.pc = "cancel" /\ KnownJob = {e.job}
                  /\ e.answer = InFlight
        BY <1>1, <1>5, <2>1, <2>2, <2>4, <2>5, CallsGrow DEF More
    <2> QED
        BY <2>3, <2>5
<1>10. \A u \in DOMAIN calls : calls'[u].seq <= sequence /\ calls'[u].seq # sequence'
    <2> SUFFICES ASSUME NEW u \in DOMAIN calls
                 PROVE  calls'[u].seq <= sequence /\ calls'[u].seq # sequence'
        OBVIOUS
    <2>1. calls[u].seq \in Nat /\ calls[u].seq <= sequence
        BY <1>3 DEF NumbersFit
    <2> QED
        BY <1>3, <1>6, <2>1
<1>11. \A u \in DOMAIN calls' :
           calls'[u].seq = sequence' => u = n /\ More /\ calls'[u] = c /\ Begins(c) /\ c.pc # "ended"
    <2> SUFFICES ASSUME NEW u \in DOMAIN calls', calls'[u].seq = sequence'
                 PROVE  u = n /\ More /\ calls'[u] = c /\ Begins(c) /\ c.pc # "ended"
        OBVIOUS
    <2>1. u = n /\ More
        BY <1>7, <1>10
    <2>2. calls'[n] = c /\ Begins(c)
        BY <1>4, <1>5, <2>1
    <2> QED
        BY <1>3, <2>1, <2>2 DEF Begins
<1>12. NumbersFit'
    <2>1. \A u \in DOMAIN calls : calls'[u].seq <= sequence'
                                   /\ (calls'[u].pc = "ended" <=> calls'[u].seq = 0)
        BY <1>3, <1>6 DEF NumbersFit
    <2>2. More => c.seq <= sequence' /\ (c.pc = "ended" <=> c.seq = 0)
        BY <1>3, <1>5 DEF Begins
    <2>3. \A u \in DOMAIN calls' : calls'[u].seq <= sequence'
                                    /\ (calls'[u].pc = "ended" <=> calls'[u].seq = 0)
        BY <1>4, <1>7, <2>1, <2>2
    <2>4. \A u \in DOMAIN calls' :
              calls'[u].seq = sequence' => calls'[u].project = ui'.project /\ ~disposed'
        BY <1>11 DEF Begins
    <2>5. active' # 0 => calls'[active'].seq \in {sequence', 0} /\ ~disposed'
        BY <1>4, <1>5, <1>8 DEF Begins
    <2>6. sequence' # 0
        BY <1>3
    <2> QED
        BY <2>3, <2>4, <2>5, <2>6 DEF NumbersFit
<1>13. NewestFits'
    <2> SUFFICES ASSUME panel # "mural" PROVE NewestFits'
        BY DEF NewestFits, Overtakes
    <2>1. ASSUME NEW u \in DOMAIN calls', calls'[u].seq = sequence'
          PROVE  /\ u = Len(calls') /\ u > since' /\ ~calls'[u].aborted
                 /\ calls'[u].edit <= editRevision'
                 /\ calls'[u].draft = asked'.draft
                 /\ calls'[u].edit = editRevision' => draft' = asked'.screen
                 /\ calls'[u].pc \in {"start", "poll"}
                       \/ (panel = "output" /\ calls'[u].pc = "result") => u = active'
        <3>1. u = n /\ More /\ calls'[u] = c /\ Begins(c) /\ c.pc # "ended"
            BY <1>11, <2>1
        <3>2. u > since' /\ u = Len(calls')
            BY <1>3, <1>4, <3>1 DEF Overtakes
        <3> QED
            BY <1>2, <3>1, <3>2 DEF Begins
    <2>2. active' # 0 => /\ active' = Len(calls') /\ calls'[active'].seq = sequence'
                         /\ calls'[active'].pc \in {"start", "poll", "result"}
        BY <1>4, <1>5, <1>8 DEF Begins
    <2> QED
        BY <2>1, <2>2 DEF NewestFits, Overtakes
<1>14. MuralFits'
    <2> SUFFICES ASSUME panel = "mural" PROVE MuralFits'
        BY DEF MuralFits, Overtakes
    <2>1. ASSUME NEW u \in DOMAIN calls', calls'[u].seq = sequence'
          PROVE  /\ u = active' /\ u > since' /\ calls'[u].draft = asked'.draft /\ draft' = asked'.screen
                 /\ calls'[u].pc = "start"
        <3>1. u = n /\ More /\ calls'[u] = c /\ Begins(c) /\ c.pc # "ended"
            BY <1>11, <2>1
        <3>2. u > since'
            BY <1>3, <1>4, <3>1 DEF Overtakes
        <3> QED
            BY <1>2, <3>1, <3>2 DEF Begins
    <2>2. ~(active' # 0 /\ ui'.phase = "canceling")
        OBVIOUS
    <2> QED
        BY <2>1, <2>2 DEF MuralFits, Overtakes
<1> QED
    BY <1>9, <1>12, <1>13, <1>14 DEF Overtakes

\* What a request for a job is.
LEMMA RequestIs ==
    ASSUME PInv, NEW version \in Nat, NEW s \in Steps
    PROVE  LET c == Request(version, s, "start") IN
           /\ c \in Invocation /\ c.pc = "start" /\ c.seq = sequence + 1 /\ c.edit = editRevision
           /\ c.draft = version /\ c.project = ui.project
           /\ c.step = s /\ c.job = 0 /\ c.aborted = FALSE /\ c.answer = InFlight
<1>1. /\ sequence \in Nat /\ editRevision \in Nat /\ ui.project \in Named
      /\ InFlight \in Answer
    BY ConstantsAre DEF PInv, PanelTypes, Shown
<1> QED
    BY <1>1 DEF Request, Invocation, Pcs

LEMMA KnownJobIs ==
    ASSUME PInv
    PROVE  /\ KnownJob \subseteq DOMAIN jobs
           /\ active = 0 \/ KnownJob = {} \/ (calls[active].job # 0 /\ KnownJob = {calls[active].job})
<1>1. active # 0 => active \in DOMAIN calls /\ calls[active].job \in 0 .. Len(jobs)
    BY DEF PInv, PanelTypes, RefsFit
<1>2. DOMAIN jobs = 1 .. Len(jobs) /\ Len(jobs) \in Nat
    BY DEF PInv, PanelTypes
<1> QED
    BY <1>1, <1>2 DEF KnownJob

LEMMA StartAtInv ==
    ASSUME PInv, NEW version \in 1 .. draft, StartAt(version)
    PROVE  PInv'
<1> DEFINE s == IF panel = "preview" THEN "preview" ELSE "geometry"
           c == Request(version, s, "start")
<1>1. /\ panel \in {"preview", "output", "mural"} /\ ~disposed /\ disposed' = disposed
      /\ Len(calls) < MaxCalls /\ calls' = Append(Abort, c)
      /\ quiet' = quiet \cup KnownJob /\ sequence' = sequence + 1 /\ active' = NextCall
      /\ UNCHANGED <<panel, jobs, editRevision, draft, troubles, dropped>> /\ since' = Len(calls)
      /\ asked' = [draft |-> version, screen |-> draft]
    BY PanelAssumption DEF PInv, PanelTypes, StartAt, PreviewStart, OutputStart, MuralStart, Invoke,
       UserActs, world, NextCall
<1>2. s \in Steps /\ s \in StepsOf(panel) /\ s # "none"
    BY <1>1 DEF Steps, StepsOf
<1>3. ShowsOwn /\ ui'.phase = "submitting" /\ ui'.fresh # "current"
    <2> DEFINE p == IF panel = "preview"
                    THEN [phase |-> "submitting", fresh |-> Stale, last |-> version]
                    ELSE [phase |-> "submitting", step |-> "geometry", result |-> NoResult,
                          fresh |-> "none", last |-> version]
    <2>1. Publish(p)
        BY <1>1 DEF StartAt, PreviewStart, OutputStart, MuralStart
    <2>2. NoResult \in [draft : Nat, project : Named] /\ "submitting" \in Phase
        BY DEF NoResult, Named, Phase, Busy
    <2>3. CASE panel = "preview"
        BY <1>1, <2>1, <2>2, <2>3, StaleIs, PublishesOwn, PublishIs DEF PInv
    <2>4. CASE panel # "preview"
        BY <1>1, <2>1, <2>2, <2>4, PublishesOwn, PublishIs DEF PInv, Steps
    <2> QED
        BY <2>3, <2>4
<1> HIDE DEF s
<1>4. PICK d : d = c
    OBVIOUS
<1>5. /\ d \in Invocation /\ d.pc = "start" /\ d.seq = sequence + 1 /\ d.edit = editRevision
      /\ d.draft = version /\ d.project = ui.project
      /\ d.step = s /\ d.job = 0 /\ d.aborted = FALSE /\ d.answer = InFlight
    <2>1. version \in Nat
        BY DEF PInv, PanelTypes
    <2> QED
        BY <1>2, <1>4, <2>1, RequestIs
<1>6. draft \in Nat /\ editRevision \in Nat /\ Len(jobs) \in Nat /\ Len(calls) \in Nat
      /\ version \in Nat \ {0} /\ version \in 0 .. draft /\ troubles \in Nat
      /\ disposed \in BOOLEAN /\ quiet \cup dropped \subseteq DOMAIN jobs
    <2>1. /\ draft \in Nat /\ editRevision \in Nat /\ Len(jobs) \in Nat /\ Len(calls) \in Nat
          /\ troubles \in Nat /\ disposed \in BOOLEAN /\ quiet \cup dropped \subseteq DOMAIN jobs
        BY DEF PInv, PanelTypes, RefsFit
    <2>2. version \in Nat \ {0} /\ version \in 0 .. draft
        BY <2>1
    <2> QED
        BY <2>1, <2>2
<1>7. CallFits(d)' /\ JobFits(d)'
    BY <1>1, <1>5, <1>6, ConstantsAre DEF CallFits, JobFits, Terminal
<1>8. Begins(d)
    <2>1. d.draft = asked'.draft /\ draft' = asked'.screen
        BY <1>1, <1>5
    <2>2. d.edit <= editRevision' /\ d.job \in 0 .. Len(jobs) /\ d.project = ui'.project
        BY <1>1, <1>3, <1>5, <1>6 DEF ShowsOwn
    <2>3. d.pc # "ended" /\ d.pc # "cancel" /\ d.pc \in {"start", "poll"} /\ ~disposed'
        BY <1>1, <1>5
    <2> QED
        BY <1>1, <1>2, <1>5, <2>1, <2>2, <2>3 DEF Begins
<1>9. Overtakes
    <2>1. quiet' \subseteq DOMAIN jobs /\ quiet \cup dropped \subseteq quiet' \cup dropped'
        BY <1>1, <1>6, KnownJobIs
    <2>2. since' \in 0 .. Len(calls)
        BY <1>1, <1>6
    <2>3. ui' \in Shown /\ ui'.last <= draft' /\ CurrentIsAsked'
        BY <1>1, <1>3 DEF ShowsOwn, CurrentIsAsked
    <2>4. asked' \in [draft : Nat, screen : Nat] /\ asked'.draft # 0
        BY <1>1, <1>6
    <2> QED
        BY <1>1, <1>6, <2>1, <2>2, <2>3, <2>4 DEF Overtakes
<1> QED
    BY <1>1, <1>3, <1>4, <1>7, <1>8, <1>9, NewNumberInv DEF ShowsOwn

LEMMA StartsInv ==
    ASSUME PInv, Start \/ Retry
    PROVE  PInv'
<1>1. draft \in 1 .. draft /\ (ui.last # 0 => ui.last \in 1 .. draft)
    BY DEF PInv, PanelTypes, RefsFit, Shown
<1>2. CASE Start
    <2>1. PICK version \in (IF panel = "mural" THEN {draft} ELSE 1 .. draft) : StartAt(version)
        BY <1>2 DEF Start
    <2> QED
        BY <1>1, <2>1, StartAtInv
<1>3. CASE Retry
    BY <1>1, <1>3, StartAtInv DEF Retry
<1> QED
    BY <1>2, <1>3

\* Giving up the active request without another call.
LEMMA GiveUpInv ==
    ASSUME PInv, sequence' = sequence + 1, calls' = Abort, active' = 0, Overtakes,
           KnownJob \subseteq quiet' \cup dropped',
           panel = "preview" => ui'.project = ui.project
    PROVE  PInv'
BY NewNumberInv

LEMMA OpenInv ==
    ASSUME PInv, NEW p \in Named, Open(p)
    PROVE  PInv'
<1>1. /\ sequence' = sequence + 1 /\ calls' = Abort /\ active' = 0 /\ panel # "preview"
      /\ quiet' = quiet \cup KnownJob /\ ui' = initialState(p) /\ editRevision' \in {0, editRevision}
      /\ UNCHANGED <<panel, jobs, draft, disposed, asked, dropped>> /\ since' = Len(calls)
      /\ troubles' = troubles + 1
    BY DEF Open, OutputReset, MuralReset, UserActs, Trouble
<1>2. NoResult \in [draft : Nat, project : Named] /\ "idle" \in Phase
    BY DEF NoResult, Named, Phase
<1>3. ui' \in Shown /\ ui'.last = 0 /\ ui'.fresh = "none"
    BY <1>1, <1>2 DEF initialState, Shown, Steps
<1>4. draft \in Nat /\ editRevision \in Nat /\ Len(calls) \in Nat /\ disposed \in BOOLEAN
      /\ troubles \in Nat /\ quiet \cup dropped \subseteq DOMAIN jobs
    BY DEF PInv, PanelTypes, RefsFit
<1>5. Overtakes
    BY <1>1, <1>3, <1>4, KnownJobIs, AskedIs DEF Overtakes, CurrentIsAsked
<1> QED
    BY <1>1, <1>5, GiveUpInv

LEMMA DisposeInv ==
    ASSUME PInv, Dispose
    PROVE  PInv'
<1>1. /\ sequence' = sequence + 1 /\ calls' = Abort /\ active' = 0 /\ disposed' = TRUE
      /\ quiet' = quiet \cup KnownJob
      /\ UNCHANGED <<panel, ui, editRevision, jobs, draft, asked, dropped>> /\ since' = Len(calls)
      /\ troubles' = troubles + 1
    BY DEF Dispose, UserActs, Trouble
<1>2. draft \in Nat /\ editRevision \in Nat /\ Len(calls) \in Nat /\ ui \in Shown
      /\ troubles \in Nat /\ quiet \cup dropped \subseteq DOMAIN jobs /\ ui.last <= draft
      /\ CurrentIsAsked
    BY DEF PInv, PanelTypes, RefsFit
<1>3. Overtakes
    BY <1>1, <1>2, KnownJobIs, AskedIs DEF Overtakes, CurrentIsAsked
<1> QED
    BY <1>1, <1>3, GiveUpInv

\* What marking the output or the build as stale shows.
LEMMA StaleShown ==
    ASSUME PInv, ~disposed, NEW patch, Publish(patch),
           patch \in {[fresh |-> Stale], [phase |-> "stale", step |-> "none", fresh |-> Stale]}
    PROVE  ShowsOwn /\ ui'.fresh # "current"
<1>1. patch.fresh = Stale /\ "fresh" \in DOMAIN patch
      /\ DOMAIN patch \subseteq {"phase", "step", "fresh"}
      /\ ("phase" \in DOMAIN patch => patch["phase"] = "stale")
      /\ ("step" \in DOMAIN patch => patch["step"] = "none")
    OBVIOUS
<1>2. "stale" \in Phase /\ "none" \in Steps
    BY DEF Phase, Steps
<1>3. ShowsOwn
    BY <1>1, <1>2, StaleIs, PublishesOwn
<1>4. ui'.fresh # "current"
    BY <1>1, StaleIs, PublishIs DEF PInv
<1> QED
    BY <1>3, <1>4

\* A change gives up the output, or the build, that is being made.
LEMMA EditGivesUpInv ==
    ASSUME PInv, Edit, active # 0, panel # "preview"
    PROVE  PInv'
<1>1. /\ sequence' = sequence + 1 /\ calls' = Abort /\ active' = 0 /\ ~disposed
      /\ quiet' = quiet \cup KnownJob /\ editRevision' \in {editRevision + 1, editRevision}
      /\ UNCHANGED <<panel, jobs, disposed, asked, dropped>> /\ since' = Len(calls)
      /\ draft' = draft + 1 /\ troubles' = troubles + 1
      /\ Publish([phase |-> "stale", step |-> "none", fresh |-> Stale])
    BY DEF Edit, PreviewMarkStale, OutputMarkStale, MuralMarkStale, Trouble
<1>2. ShowsOwn /\ ui'.fresh # "current"
    BY <1>1, StaleShown
<1>3. draft \in Nat /\ editRevision \in Nat /\ Len(calls) \in Nat /\ disposed \in BOOLEAN
      /\ troubles \in Nat /\ quiet \cup dropped \subseteq DOMAIN jobs
    BY DEF PInv, PanelTypes, RefsFit
<1>4. Overtakes
    <2>1. ui' \in Shown /\ ui'.last \in Nat /\ ui'.last <= draft'
        BY <1>1, <1>2, <1>3 DEF ShowsOwn, Shown
    <2> QED
        BY <1>1, <1>2, <1>3, <2>1, KnownJobIs, AskedIs DEF Overtakes, CurrentIsAsked
<1> QED
    BY <1>1, <1>4, GiveUpInv

\* A change while nothing is made, or while a preview is: only freshness is lost.
LEMMA EditQuietlyInv ==
    ASSUME PInv, Edit, active = 0 \/ panel = "preview"
    PROVE  PInv'
<1> USE DEF PInv
<1>1. /\ sequence' = sequence /\ calls' = calls /\ active' = active /\ ~disposed
      /\ quiet' = quiet /\ UNCHANGED <<panel, jobs, disposed, dropped, since, asked>>
      /\ draft' = draft + 1 /\ troubles' = troubles + 1
      /\ editRevision' = (IF panel = "mural" THEN editRevision ELSE editRevision + 1)
    BY DEF Edit, PreviewMarkStale, OutputMarkStale, MuralMarkStale, Trouble, Abort, KnownJob
<1>2. /\ sequence \in Nat /\ editRevision \in Nat /\ draft \in Nat \ {0} /\ troubles \in Nat
      /\ \A u \in DOMAIN calls : calls[u] \in Invocation
      /\ \A u \in DOMAIN calls : calls[u].draft \in Nat /\ calls[u].edit \in Nat
    <2>1. \A u \in DOMAIN calls : calls[u] \in Invocation
        BY SeqAt DEF PanelTypes
    <2> QED
        BY <2>1 DEF PanelTypes, Invocation
<1>3. ShowsOwn /\ ui'.fresh # "current"
    <2>1. CASE \E patch \in {[fresh |-> Stale], [phase |-> "stale", step |-> "none", fresh |-> Stale]} :
                   Publish(patch)
        BY <1>1, <2>1, StaleShown
    <2>2. CASE panel = "mural" /\ ui' = ui /\ ui.result = NoResult
        <3>1. ui.fresh = "current" => asked.draft = 0
            BY <2>2 DEF CurrentIsAsked, NoResult
        <3> QED
            BY <2>2, <3>1, SameShown, AskedIs
    <2> QED
        BY <2>1, <2>2 DEF Edit, PreviewMarkStale, OutputMarkStale, MuralMarkStale
<1>4. ui' \in Shown /\ ui'.project = ui.project /\ ui'.last <= draft'
    BY <1>1, <1>2, <1>3 DEF ShowsOwn, Shown
<1>5. PanelTypes'
    BY <1>1, <1>2, <1>4 DEF PanelTypes
<1>6. RefsFit'
    BY <1>1, <1>4 DEF RefsFit
<1>7. CallsFit'
    BY <1>1, <1>2 DEF CallsFit, CallFits, JobFits
<1>8. PreviewFits' /\ StepsFit'
    BY <1>1, <1>4 DEF PreviewFits, StepsFit, StepsOf
<1>9. NumbersFit'
    BY <1>1, <1>4 DEF NumbersFit
<1>10. NewestFits'
    BY <1>1, <1>2 DEF NewestFits
<1>11. MuralFits'
    <2>1. panel = "mural" => active = 0
        OBVIOUS
    <2>2. \A u \in DOMAIN calls : u # 0
        BY DEF PanelTypes
    <2> QED
        BY <1>1, <2>1, <2>2 DEF MuralFits
<1>12. CurrentIsAsked'
    BY <1>3 DEF CurrentIsAsked
<1>13. WorkFits'
    <2>1. \A j : Owned(j) => Owned(j)'
        BY <1>1 DEF Owned
    <2>2. \A u \in DOMAIN calls : calls'[u].job = calls[u].job
        BY <1>1
    <2> QED
        BY <1>1, <2>1, <2>2 DEF WorkFits
<1>14. JobsCounted'
    <2>1. \A r, s : HasAsked(r, s)' = HasAsked(r, s)
        BY DEF HasAsked
    <2>2. StepsOf(panel)' = StepsOf(panel)
        BY <1>1
    <2>3. Slots \subseteq Slots'
        <3> SUFFICES ASSUME NEW x \in Slots PROVE x \in Slots'
            OBVIOUS
        <3>1. HasAsked(calls'[x[1]], x[2])
            BY <1>1 DEF Slots
        <3> QED
            BY <1>1, <2>1, <2>2, <3>1 DEF Slots
    <2> QED
        BY <1>1, <2>3, JobsStayCounted
<1> QED
    BY <1>5, <1>6, <1>7, <1>8, <1>9, <1>10, <1>11, <1>12, <1>13, <1>14

\* The cancellation of request r, with number s in project p.
Cancellation(r, s, p) ==
    [r EXCEPT !.pc = "cancel", !.seq = s, !.project = p, !.aborted = FALSE, !.answer = InFlight]

LEMMA CancellationIs ==
    ASSUME NEW r \in Invocation, NEW s \in Nat, NEW p \in Named
    PROVE  LET c == Cancellation(r, s, p) IN
           /\ c \in Invocation /\ c.pc = "cancel" /\ c.seq = s /\ c.project = p
           /\ c.aborted = FALSE /\ c.answer = InFlight /\ c.job = r.job /\ c.edit = r.edit
           /\ c.draft = r.draft /\ c.step = r.step
BY ConstantsAre DEF Cancellation, Invocation, Pcs

LEMMA SameProject ==
    ASSUME NEW r \in Invocation, NEW s
    PROVE  [r EXCEPT !.pc = "cancel", !.seq = s, !.aborted = FALSE, !.answer = InFlight]
              = Cancellation(r, s, r.project)
BY DEF Cancellation, Invocation

\* The active request whose job is known.
LEMMA KnownCall ==
    ASSUME PInv, active # 0, KnownJob # {}
    PROVE  /\ active \in DOMAIN calls /\ calls[active] \in Invocation
           /\ calls[active].job # 0 /\ KnownJob = {calls[active].job}
           /\ calls[active].pc \notin {"start", "orphan"}
<1>1. active \in DOMAIN calls /\ calls[active] \in Invocation
    BY CallIs DEF PInv, PanelTypes, RefsFit
<1>2. calls[active].job # 0 /\ KnownJob = {calls[active].job}
    BY DEF KnownJob
<1>3. CallFits(calls[active]) /\ JobFits(calls[active])
    BY <1>1 DEF PInv, CallsFit
<1> QED
    BY <1>1, <1>2, <1>3 DEF CallFits, JobFits

\* What a request that is canceled in the preview or the output panel leaves.
LEMMA CancelInv ==
    ASSUME PInv, Cancel, panel # "mural"
    PROVE  PInv'
<1>1. /\ sequence' = sequence + 1 /\ active' = 0 /\ ~disposed /\ active # 0
      /\ UNCHANGED <<panel, jobs, editRevision, disposed, quiet, draft, troubles, asked, dropped>>
      /\ since' \in {since, Len(calls)} /\ panel \in {"preview", "output"}
    BY PanelAssumption DEF Cancel, PreviewCancel, OutputCancel, MuralCancel, world, PInv, PanelTypes
<1>2. /\ draft \in Nat /\ editRevision \in Nat /\ Len(calls) \in Nat /\ disposed \in BOOLEAN
      /\ troubles \in Nat /\ quiet \cup dropped \subseteq DOMAIN jobs /\ sequence \in Nat
      /\ since \in Nat /\ since <= Len(calls) /\ Len(jobs) \in Nat
    BY DEF PInv, PanelTypes, RefsFit
<1>3. /\ active \in DOMAIN calls /\ calls[active] \in Invocation
      /\ calls[active].seq = sequence /\ calls[active].project = ui.project
      /\ calls[active].pc \in {"start", "poll", "result"} /\ calls[active].edit <= editRevision
      /\ calls[active].draft = asked.draft
      /\ calls[active].edit = editRevision => draft = asked.screen
      /\ calls[active].step \in StepsOf(panel) /\ calls[active].job \in 0 .. Len(jobs)
    <2>1. active \in DOMAIN calls
        BY <1>1 DEF PInv, PanelTypes, RefsFit
    <2>2. calls[active].seq = sequence /\ calls[active].pc \in {"start", "poll", "result"}
        BY <1>1 DEF PInv, NewestFits
    <2> QED
        BY <1>1, <2>1, <2>2, CallIs DEF PInv, NewestFits, NumbersFit, StepsFit, RefsFit
<1>4. ShowsOwn
    <2> DEFINE s == IF KnownJob = {} THEN "none" ELSE calls[active].step
               f == IF KnownJob = {} THEN "canceled" ELSE "canceling"
    <2>1. s \in Steps /\ f \in Phase
        BY <1>3 DEF Invocation, Steps, Phase, Busy, Terminal
    <2>2. panel = "preview" => Publish([phase |-> f, fresh |-> Stale])
        BY DEF Cancel, PreviewCancel, OutputCancel, MuralCancel
    <2>3. panel = "output" => Publish([phase |-> f, step |-> s])
        BY DEF Cancel, PreviewCancel, OutputCancel, MuralCancel
    <2> HIDE DEF s, f
    <2>4. CASE panel = "preview"
        BY <1>1, <2>1, <2>2, <2>4, StaleIs, PublishesOwn
    <2>5. CASE panel = "output"
        BY <1>1, <2>1, <2>3, <2>5, PublishesOwn
    <2> QED
        BY <1>1, <2>4, <2>5
<1>5. Overtakes
    <2>1. since' \in 0 .. Len(calls)
        BY <1>1, <1>2
    <2>2. ui' \in Shown /\ ui'.last <= draft' /\ CurrentIsAsked'
        BY <1>1, <1>4 DEF ShowsOwn, CurrentIsAsked
    <2> QED
        BY <1>1, <1>2, <2>1, <2>2, AskedIs DEF Overtakes
<1>6. CASE KnownJob = {}
    <2>1. calls' = Abort
        BY <1>1, <1>6 DEF Cancel, PreviewCancel, OutputCancel, MuralCancel
    <2> QED
        BY <1>1, <1>4, <1>5, <1>6, <2>1, GiveUpInv DEF ShowsOwn
<1>7. CASE KnownJob # {}
    <2> DEFINE d == [calls[active] EXCEPT !.pc = "cancel", !.seq = sequence + 1,
                                          !.aborted = FALSE, !.answer = InFlight]
    <2>1. Len(calls) < MaxCalls /\ calls' = Append(Abort, d)
        BY <1>1, <1>7 DEF Cancel, PreviewCancel, OutputCancel, MuralCancel, Invoke
    <2>2. PICK c : c = d
        OBVIOUS
    <2>3. PICK q : q = sequence + 1
        OBVIOUS
    <2>4. q \in Nat /\ calls[active].project \in Named
        BY <1>2, <1>3, <2>3 DEF Invocation
    <2>5. /\ c \in Invocation /\ c.pc = "cancel" /\ c.seq = q /\ c.project = calls[active].project
          /\ c.answer = InFlight /\ c.job = calls[active].job /\ c.edit = calls[active].edit
          /\ c.draft = calls[active].draft
          /\ c.step = calls[active].step /\ c.aborted = FALSE
          /\ c.job # 0 /\ KnownJob = {c.job}
        <3>1. PICK r : r = calls[active]
            OBVIOUS
        <3>2. r \in Invocation /\ r.project \in Named
            BY <1>3, <2>4, <3>1
        <3>3. c = [r EXCEPT !.pc = "cancel", !.seq = q, !.aborted = FALSE, !.answer = InFlight]
            BY <2>2, <2>3, <3>1
        <3>4. c = Cancellation(r, q, r.project)
            BY <3>2, <3>3, SameProject
        <3> HIDE DEF d
        <3> QED
            <4>1. /\ c \in Invocation /\ c.pc = "cancel" /\ c.seq = q /\ c.project = r.project
                BY <2>4, <3>2, <3>4, CancellationIs, Zenon
            <4>2. /\ c.answer = InFlight /\ c.job = r.job /\ c.edit = r.edit
                  /\ c.draft = r.draft /\ c.step = r.step
                BY <2>4, <3>2, <3>4, CancellationIs, Zenon
            <4>3. c.aborted = FALSE
                BY <2>4, <3>2, <3>4, CancellationIs, Zenon
            <4>4. r.job # 0 /\ KnownJob = {r.job}
                BY <1>1, <1>7, <3>1, KnownCall
            <4> QED
                BY <3>1, <4>1, <4>2, <4>3, <4>4
    <2> HIDE DEF d
    <2>6. Begins(c)
        <3>1. c.draft = asked'.draft /\ (c.edit = editRevision' => draft' = asked'.screen)
            BY <1>1, <1>3, <2>5
        <3>2. c.step # "none"
            BY <1>1, <1>3, <2>5 DEF StepsOf
        <3>3. c.seq = sequence + 1 /\ c.project = ui'.project /\ ~disposed' /\ c.edit <= editRevision'
            BY <1>1, <1>3, <1>4, <2>3, <2>5 DEF ShowsOwn
        <3> QED
            BY <1>1, <1>3, <2>5, <3>1, <3>2, <3>3 DEF Begins
    <2>7. jobs[c.job].draft = c.draft /\ jobs[c.job].project = c.project
        <3>1. JobFits(calls[active]) /\ CallFits(calls[active])
            BY <1>3 DEF PInv, CallsFit
        <3>2. calls[active].pc \in {"poll", "result"}
            BY <1>3, <2>5, <3>1 DEF CallFits
        <3> QED
            BY <2>5, <3>1, <3>2 DEF JobFits
    <2>8. CallFits(c)' /\ JobFits(c)'
        BY <1>1, <2>5, <2>7, ConstantsAre DEF CallFits, JobFits, Terminal
    <2> QED
        BY <1>1, <1>4, <1>5, <2>1, <2>2, <2>5, <2>6, <2>8, NewNumberInv DEF ShowsOwn
<1> QED
    BY <1>6, <1>7

\* What the user's step does beside what the panel does with the restored job.
Restored(j, v) ==
    /\ j \in DOMAIN jobs /\ since' = Len(calls) /\ troubles' = troubles + 1
    /\ UNCHANGED <<panel, jobs, draft>>
    /\ asked' = [draft |-> IF jobs[j].state = "active" THEN jobs[j].draft ELSE v, screen |-> draft]

\* What is restored is of the preview panel's project, and is what is asked for.
LEMMA RestoreAtInv ==
    ASSUME PInv, NEW j, NEW v \in 1 .. draft, PreviewRestore(j, v), Restored(j, v)
    PROVE  PInv'
<1>1. /\ j \in DOMAIN jobs /\ panel = "preview" /\ ~disposed
      /\ sequence' = sequence + 1 /\ dropped' = dropped \cup KnownJob
      /\ UNCHANGED <<panel, jobs, editRevision, disposed, quiet, draft>>
      /\ since' = Len(calls) /\ troubles' = troubles + 1
      /\ asked' = [draft |-> IF jobs[j].state = "active" THEN jobs[j].draft ELSE v, screen |-> draft]
    BY DEF PreviewRestore, Restored
<1>2. /\ jobs[j] \in JobRec /\ jobs[j].project = ui.project /\ j \in 0 .. Len(jobs) /\ j # 0
      /\ j \in Nat /\ jobs[j].state \in JobState /\ jobs[j].draft \in Nat
    BY <1>1, JobIs DEF PInv, PreviewFits, JobRec
<1>3. /\ draft \in Nat /\ editRevision \in Nat /\ Len(calls) \in Nat /\ disposed \in BOOLEAN
      /\ troubles \in Nat /\ quiet \cup dropped \subseteq DOMAIN jobs /\ sequence \in Nat
      /\ ui.project \in Named /\ ui \in Shown /\ v \in Nat /\ v <= draft
    BY DEF PInv, PanelTypes, RefsFit, Shown
<1> DEFINE b == Request(jobs[j].draft, "preview", "poll")
           f == [Request(jobs[j].draft, "preview", "poll") EXCEPT !.job = j]
<1>4. PICK d : d = f
    OBVIOUS
<1>5. PICK q : q = sequence + 1
    OBVIOUS
<1>6. /\ d \in Invocation /\ d.pc = "poll" /\ d.seq = q /\ d.edit = editRevision
      /\ d.draft = jobs[j].draft /\ d.project = ui.project /\ d.step = "preview" /\ d.job = j
      /\ d.answer = InFlight
    <2>1. d = [pc |-> "poll", seq |-> sequence + 1, edit |-> editRevision, draft |-> jobs[j].draft,
               project |-> ui.project, step |-> "preview", job |-> j,
               aborted |-> FALSE, answer |-> InFlight]
        BY <1>4 DEF Request
    <2> QED
        BY <1>2, <1>3, <1>5, <2>1, ConstantsAre DEF Invocation, Pcs, Steps
<1>7. d.aborted = FALSE
    BY <1>4 DEF Request
<1> HIDE DEF b, f
<1>8. PICK e : e = Ended(d)
    OBVIOUS
<1>9. /\ e \in Invocation /\ e.pc = "ended" /\ e.seq = 0 /\ e.draft = 0 /\ e.step = "none"
      /\ e.job = j /\ e.answer = InFlight
    BY <1>6, <1>8, EndedIs
<1>10. e.aborted = FALSE
    BY <1>8 DEF Ended
<1>11. /\ Len(calls) < MaxCalls
       /\ \/ /\ jobs[j].state = "active" /\ calls' = Append(Abort, d) /\ active' = NextCall
          \/ /\ jobs[j].state # "active" /\ calls' = Append(Abort, e) /\ active' = 0
    BY <1>4, <1>8 DEF PreviewRestore, Invoke, f, NextCall
<1>12. /\ ui' \in Shown /\ ui'.project = ui.project /\ ui'.last <= draft
       /\ ui'.fresh = "current" => ui'.result = [draft |-> asked'.draft, project |-> ui.project]
    <2>1. /\ jobs[j].state # "active" => jobs[j].state \in Phase
          /\ "succeeded" \in Phase /\ "running" \in Phase
        BY <1>2 DEF Phase, JobState, Terminal, Busy
    <2>2. /\ NoResult \in [draft : Nat, project : Named] /\ ResultOf(j) \in [draft : Nat, project : Named]
          /\ ResultOf(j) = [draft |-> jobs[j].draft, project |-> ui.project]
        BY <1>2, <1>3 DEF NoResult, ResultOf, Named
    <2>3. PICK p : /\ Publish(p)
                   /\ \/ /\ jobs[j].state = "succeeded"
                         /\ p = [phase |-> "succeeded", result |-> ResultOf(j), last |-> v,
                                 fresh |-> IF jobs[j].draft = v THEN "current" ELSE "stale"]
                      \/ p = [phase |-> "running", result |-> NoResult, fresh |-> "none",
                              last |-> v]
                      \/ /\ jobs[j].state # "active"
                         /\ p = [phase |-> jobs[j].state, result |-> NoResult, fresh |-> "none",
                                 last |-> v]
        BY <1>1, <1>2 DEF PreviewRestore
    <2>4. /\ DOMAIN p = {"phase", "result", "last", "fresh"} /\ p.phase \in Phase
          /\ p.last = v /\ p.result \in [draft : Nat, project : Named]
          /\ p.fresh \in {"none", "stale", "current"}
          /\ p.fresh = "current" => /\ p.result = [draft |-> v, project |-> ui.project]
                                    /\ jobs[j].state = "succeeded"
        BY <2>1, <2>2, <2>3
    <2>5. /\ ui' = [x \in {"phase", "project", "step", "result", "fresh", "last"} |-> ui'[x]]
          /\ ui'.phase = p.phase /\ ui'.project = ui.project /\ ui'.step = ui.step
          /\ ui'.result = p.result /\ ui'.fresh = p.fresh /\ ui'.last = p.last
        BY <1>1, <2>3, <2>4, PublishIs DEF PInv
    <2>6. ui' \in Shown
        BY <1>3, <2>4, <2>5, ShownIs DEF Shown
    <2> QED
        BY <1>1, <1>3, <2>4, <2>5, <2>6
<1>13. Overtakes
    <2>1. since' \in 0 .. Len(calls) /\ troubles' \in Nat /\ dropped' \subseteq DOMAIN jobs
        BY <1>1, <1>3, KnownJobIs
    <2>2. ui' \in Shown /\ ui'.last <= draft' /\ CurrentIsAsked'
        BY <1>1, <1>12 DEF CurrentIsAsked
    <2>3. quiet \cup dropped \subseteq quiet' \cup dropped'
        BY <1>1
    <2>4. asked' \in [draft : Nat, screen : Nat]
        BY <1>1, <1>2, <1>3
    <2> QED
        BY <1>1, <1>3, <2>1, <2>2, <2>3, <2>4 DEF Overtakes
<1>14. CASE jobs[j].state = "active"
    <2>1. CallFits(d)' /\ JobFits(d)'
        BY <1>1, <1>2, <1>3, <1>6, <1>7, ConstantsAre DEF CallFits, JobFits, Terminal
    <2>2. Begins(d)
        <3>1. d.seq = sequence + 1 /\ d.edit <= editRevision' /\ d.project = ui'.project
            BY <1>1, <1>3, <1>5, <1>6, <1>12
        <3>2. d.step \in StepsOf(panel) /\ d.step # "none"
            BY <1>1, <1>6 DEF StepsOf
        <3> QED
            BY <1>1, <1>2, <1>6, <1>7, <1>11, <1>14, <3>1, <3>2 DEF Begins
    <2> QED
        BY <1>1, <1>11, <1>12, <1>13, <1>14, <2>1, <2>2, NewNumberInv
<1>15. CASE jobs[j].state # "active"
    <2>1. CallFits(e)' /\ JobFits(e)'
        BY <1>1, <1>3, <1>9, <1>10, ConstantsAre DEF CallFits, JobFits, Terminal
    <2>2. Begins(e)
        BY <1>2, <1>9, <1>10, <1>11, <1>15, <1>1 DEF Begins
    <2> QED
        BY <1>1, <1>11, <1>12, <1>13, <1>15, <2>1, <2>2, NewNumberInv
<1> QED
    BY <1>14, <1>15

LEMMA RestoreInv ==
    ASSUME PInv, NEW j, Restore(j)
    PROVE  PInv'
BY RestoreAtInv DEF Restore, Restored, UserActs, Trouble

\* The mural panel cancels under the number of the request, which stays active
\* until the server confirms.
LEMMA MuralCancelInv ==
    ASSUME PInv, Cancel, panel = "mural"
    PROVE  PInv'
<1>1. /\ active # 0 /\ UNCHANGED <<panel, jobs, sequence, editRevision, disposed, quiet, draft,
                                   troubles, asked, dropped>>
      /\ since' = (IF ui.phase = "canceling" THEN since ELSE Len(calls))
      /\ MuralCancel
    BY DEF Cancel, PreviewCancel, OutputCancel, MuralCancel, world
<1>2. /\ draft \in Nat /\ editRevision \in Nat /\ Len(calls) \in Nat /\ disposed \in BOOLEAN
      /\ troubles \in Nat /\ quiet \cup dropped \subseteq DOMAIN jobs /\ sequence \in Nat
      /\ since \in Nat /\ since <= Len(calls) /\ Len(jobs) \in Nat /\ ui.project \in Named
      /\ active \in DOMAIN calls /\ active \in Nat /\ active <= Len(calls)
      /\ \A u \in DOMAIN calls : u \in Nat /\ u <= Len(calls)
    BY <1>1, CallIs DEF PInv, PanelTypes, RefsFit, Shown
<1>3. ~disposed /\ sequence # 0
    <2>1. calls # <<>>
        BY <1>2
    <2> QED
        BY <1>1, <2>1 DEF PInv, NumbersFit
<1>4. PICK n : n = NextCall
    OBVIOUS
<1>5. PICK c : \/ /\ KnownJob = {} /\ calls' = Abort /\ active' = 0 /\ c = calls[active]
                  /\ Publish([phase |-> "canceled", step |-> "none"])
               \/ /\ KnownJob # {} /\ calls' = Append(Abort, c) /\ active' = active
                  /\ Len(calls) < MaxCalls /\ Publish([phase |-> "canceling"])
                  /\ c = Cancellation(calls[active], sequence, ui.project)
    <2>1. CASE KnownJob = {}
        BY <1>1, <2>1 DEF MuralCancel
    <2>2. CASE KnownJob # {}
        BY <1>1, <2>2 DEF MuralCancel, Invoke, Cancellation
    <2> QED
        BY <2>1, <2>2
<1>6. calls[active] \in Invocation /\ calls[active].step \in StepsOf(panel) \cup {"none"}
    BY <1>2, CallIs DEF PInv, StepsFit
<1>7. KnownJob # {} =>
          /\ c \in Invocation /\ c.pc = "cancel" /\ c.seq = sequence /\ c.project = ui.project
          /\ c.answer = InFlight /\ c.job = calls[active].job /\ c.draft = calls[active].draft
          /\ c.step = calls[active].step
    <2> SUFFICES ASSUME KnownJob # {}
                 PROVE  /\ c \in Invocation /\ c.pc = "cancel" /\ c.seq = sequence
                        /\ c.project = ui.project /\ c.answer = InFlight
                        /\ c.job = calls[active].job /\ c.draft = calls[active].draft
                        /\ c.step = calls[active].step
        OBVIOUS
    <2>1. PICK r, q, p : r = calls[active] /\ q = sequence /\ p = ui.project
        OBVIOUS
    <2>2. r \in Invocation /\ q \in Nat /\ p \in Named /\ c = Cancellation(r, q, p)
        BY <1>2, <1>5, <1>6, <2>1
    <2>3. /\ c \in Invocation /\ c.pc = "cancel" /\ c.seq = q /\ c.project = p
          /\ c.answer = InFlight /\ c.job = r.job /\ c.draft = r.draft /\ c.step = r.step
        BY <2>2, CancellationIs
    <2> QED
        BY <2>1, <2>3
<1>8. KnownJob # {} => c.aborted = FALSE
    <2> SUFFICES ASSUME KnownJob # {}
                 PROVE  c.aborted = FALSE
        OBVIOUS
    <2>1. PICK r, q, p : r = calls[active] /\ q = sequence /\ p = ui.project
        OBVIOUS
    <2>2. r \in Invocation /\ q \in Nat /\ p \in Named /\ c = Cancellation(r, q, p)
        BY <1>2, <1>5, <1>6, <2>1
    <2>3. c.aborted = FALSE
        BY <2>2, CancellationIs, Zenon
    <2> QED
        BY <2>1, <2>3
<1>9. KnownJob # {} => c.job # 0 /\ KnownJob = {c.job}
    BY <1>1, <1>7, KnownCall
<1>10. ShowsOwn /\ (active' # 0 => ui'.phase = "canceling")
    <2>1. {"canceled", "canceling"} \subseteq Phase /\ "none" \in Steps
        BY DEF Phase, Busy, Terminal, Steps
    <2>2. CASE Publish([phase |-> "canceled", step |-> "none"]) /\ active' = 0
        BY <1>3, <2>1, <2>2, PublishesOwn
    <2>3. CASE Publish([phase |-> "canceling"])
        BY <1>3, <2>1, <2>3, PublishesOwn
    <2> QED
        BY <1>5, <2>2, <2>3
<1>11. Overtakes
    <2>1. since' \in 0 .. Len(calls)
        BY <1>1, <1>2
    <2>2. ui' \in Shown /\ ui'.last <= draft' /\ CurrentIsAsked'
        BY <1>1, <1>10 DEF ShowsOwn, CurrentIsAsked
    <2> QED
        BY <1>1, <1>2, <2>1, <2>2, AskedIs DEF Overtakes
<1>12. KnownJob # {} => Joins(c) /\ CallFits(c)' /\ JobFits(c)'
    <2> SUFFICES ASSUME KnownJob # {} PROVE Joins(c) /\ CallFits(c)' /\ JobFits(c)'
        OBVIOUS
    <2>1. c.job \in 0 .. Len(jobs) /\ c.step \in StepsOf(panel) \cup {"none"} /\ c.project = ui'.project
        BY <1>2, <1>6, <1>7, <1>10 DEF PInv, RefsFit, ShowsOwn
    <2>2. Joins(c)
        BY <1>7, <2>1 DEF Joins
    <2>3. CallFits(c)' /\ JobFits(c)'
        BY <1>1, <1>7, <1>9, ConstantsAre DEF CallFits, JobFits, Terminal
    <2> QED
        BY <2>2, <2>3
<1>13. calls' = Abort \/ (c \in Invocation /\ calls' = Append(Abort, c))
    BY <1>5, <1>7
<1>14. /\ n \in Nat /\ n # 0 /\ n = Len(calls) + 1 /\ n \notin DOMAIN calls
       /\ \/ calls' = Abort /\ DOMAIN calls' = DOMAIN calls /\ Len(calls') = Len(calls)
          \/ /\ calls' = Append(Abort, c) /\ DOMAIN calls' = DOMAIN calls \cup {n}
             /\ Len(calls') = n /\ calls'[n] = c /\ calls' # Abort
    <2>1. \/ calls' = Abort /\ DOMAIN calls' = DOMAIN calls /\ Len(calls') = Len(calls)
          \/ /\ calls' = Append(Abort, c) /\ DOMAIN calls' = DOMAIN calls \cup {n}
             /\ Len(calls') = n /\ calls'[n] = c /\ calls' # Abort
        BY <1>4, <1>13, NewCalls
    <2>2. NextCall = Len(calls) + 1 /\ DOMAIN calls = 1 .. Len(calls)
        BY DEF NextCall, PInv, PanelTypes
    <2>3. n \in Nat /\ n # 0 /\ n = Len(calls) + 1 /\ n \notin DOMAIN calls
        BY <1>2, <1>4, <2>2, OneMore
    <2> QED
        BY <2>1, <2>3
<1>15. c \in Invocation /\ calls' = Append(Abort, c) => calls' # Abort
    BY <1>4, <1>13, NewCalls
<1>16. /\ KnownJob = {} => active' = 0 /\ DOMAIN calls' = DOMAIN calls
       /\ KnownJob # {} => /\ active' = active /\ DOMAIN calls' = DOMAIN calls \cup {n}
                           /\ calls'[n] = c /\ Len(calls') = n
    BY <1>5, <1>7, <1>14, <1>15
<1>17. \A u \in DOMAIN calls :
           /\ calls'[u].pc = calls[u].pc /\ calls'[u].seq = calls[u].seq
           /\ calls'[u].project = calls[u].project /\ calls'[u].job = calls[u].job
           /\ calls'[u].draft = calls[u].draft
           /\ u # active => calls'[u] = calls[u]
           /\ u = active => calls'[u].aborted
    BY <1>4, <1>13, NewCalls
<1>18. /\ PanelTypes' /\ RefsFit' /\ CallsFit' /\ PreviewFits' /\ WorkFits' /\ StepsFit'
       /\ JobsCounted'
    <2>1. active' \in Nat /\ active' <= Len(calls')
        BY <1>2, <1>14, <1>16
    <2>2. \/ KnownJob \subseteq quiet' \cup dropped'
          \/ active' = active
        BY <1>16
    <2>3. \/ calls' = Abort
          \/ /\ Len(calls) < MaxCalls /\ calls' = Append(Abort, c) /\ Joins(c)
             /\ CallFits(c)' /\ JobFits(c)'
        BY <1>5, <1>12
    <2> QED
        BY <1>1, <1>11, <2>1, <2>2, <2>3, CallsGrow
<1>19. NumbersFit'
    <2>1. \A u \in DOMAIN calls :
              /\ calls'[u].seq <= sequence /\ (calls'[u].pc = "ended" <=> calls'[u].seq = 0)
              /\ calls'[u].seq = sequence => calls'[u].project = ui'.project
        BY <1>10, <1>17 DEF PInv, NumbersFit, ShowsOwn
    <2>2. KnownJob # {} => /\ c.seq <= sequence /\ (c.pc = "ended" <=> c.seq = 0)
                           /\ c.project = ui'.project
        BY <1>2, <1>3, <1>7, <1>10 DEF ShowsOwn
    <2>3. \A u \in DOMAIN calls' :
              /\ calls'[u].seq <= sequence /\ (calls'[u].pc = "ended" <=> calls'[u].seq = 0)
              /\ calls'[u].seq = sequence => calls'[u].project = ui'.project
        BY <1>16, <2>1, <2>2
    <2>4. active' # 0 => calls'[active'].seq \in {sequence, 0}
        BY <1>1, <1>2, <1>16, <1>17 DEF PInv, NumbersFit
    <2> QED
        BY <1>1, <1>3, <2>3, <2>4 DEF NumbersFit
<1>20. NewestFits'
    BY <1>1 DEF NewestFits
<1>21. MuralFits'
    <2>1. ASSUME NEW u \in DOMAIN calls, calls[u].seq = sequence
          PROVE  /\ ~(calls'[u].pc \in {"start", "poll", "result"} /\ ~calls'[u].aborted)
                 /\ calls'[u].pc = "cancel" => u > since' /\ ~calls'[u].aborted
                 /\ calls'[u].pc = "cancel" =>
                       ui.phase = "canceling" /\ calls[active].job = calls'[u].job
        <3>1. /\ calls[u].pc \in {"start", "poll", "result"} /\ ~calls[u].aborted => u = active
              /\ calls[u].pc = "cancel" => u > since /\ ~calls[u].aborted
              /\ calls[u].pc = "cancel" =>
                    ui.phase = "canceling" /\ calls[active].job = calls[u].job
              /\ ui.phase = "canceling" => calls[active].aborted \/ calls[active].pc = "ended"
            BY <1>1, <2>1 DEF PInv, MuralFits
        <3>2. calls[u].pc = "cancel" => u # active
            BY <3>1
        <3> QED
            BY <1>1, <1>17, <3>1, <3>2
    <2>2. KnownJob # {} => c.pc = "cancel" /\ n > since' /\ ~c.aborted /\ calls[active].job = c.job
        BY <1>1, <1>2, <1>7, <1>8, <1>14
    <2>3. ASSUME NEW u \in DOMAIN calls', calls'[u].seq = sequence
          PROVE  /\ ~(calls'[u].pc \in {"start", "poll", "result"} /\ ~calls'[u].aborted)
                 /\ calls'[u].pc = "cancel" => u > since' /\ ~calls'[u].aborted
                 /\ calls'[u].pc = "cancel" => calls[active].job = calls'[u].job
        <3>1. CASE u \in DOMAIN calls
            BY <1>17, <2>1, <2>3, <3>1
        <3>2. CASE u \notin DOMAIN calls
            BY <1>16, <2>2, <3>2
        <3> QED
            BY <3>1, <3>2
    <2>4. active' # 0 => /\ ui'.phase = "canceling" /\ calls'[active'].job = calls[active].job
                         /\ calls'[active'].aborted
        BY <1>2, <1>10, <1>16, <1>17
    <2> QED
        BY <1>1, <2>3, <2>4 DEF MuralFits
<1> QED
    BY <1>11, <1>18, <1>19, <1>20, <1>21 DEF PInv, Overtakes

-----------------------------------------------------------------------------
(* The invariant, and what it is for. *)

LEMMA InitInv == Init => PInv
<1> SUFFICES ASSUME Init PROVE PInv
    OBVIOUS
<1>1. PICK p \in Project : ui = initialState(p)
    BY DEF Init
<1>2. /\ panel \in Panels /\ sequence = 0 /\ editRevision = 0 /\ active = 0 /\ disposed = FALSE
      /\ calls = <<>> /\ jobs = <<>> /\ quiet = {} /\ draft = 1 /\ troubles = 0 /\ since = 0
      /\ dropped = {} /\ asked = [draft |-> 1, screen |-> 1]
    BY DEF Init
<1>3. /\ NoResult \in [draft : Nat, project : Named] /\ "idle" \in Phase /\ "none" \in Steps
      /\ p \in Named
    BY DEF NoResult, Named, Phase, Steps
<1>4. ui \in Shown /\ ui.last = 0 /\ ui.fresh = "none"
    BY <1>1, <1>3 DEF initialState, Shown
<1>5. /\ DOMAIN calls = {} /\ DOMAIN jobs = {} /\ Len(calls) = 0 /\ Len(jobs) = 0
      /\ calls \in Seq(Invocation) /\ jobs \in Seq(JobRec)
    BY <1>2
<1>6. MaxCalls \in Nat
    BY PanelAssumption
<1>7. PanelTypes /\ RefsFit
    <2>1. PanelTypes
        <3>1. disposed \in BOOLEAN /\ quiet \subseteq Nat /\ dropped \subseteq Nat /\ panel \in Panels
            BY <1>2
        <3>2. /\ sequence \in Nat /\ editRevision \in Nat /\ active \in Nat
              /\ draft \in Nat \ {0} /\ troubles \in Nat /\ since \in Nat
              /\ asked \in [draft : Nat, screen : Nat] /\ asked.draft # 0
            BY <1>2
        <3> QED
            BY <1>4, <1>5, <3>1, <3>2 DEF PanelTypes
    <2>2. Len(calls) <= MaxCalls /\ active <= Len(calls) /\ since <= Len(calls)
        BY <1>2, <1>5, <1>6
    <2>3. ui.last <= draft
        BY <1>2, <1>4
    <2> QED
        BY <1>2, <1>5, <2>1, <2>2, <2>3 DEF RefsFit
<1>8. CallsFit /\ PreviewFits /\ NumbersFit /\ NewestFits /\ MuralFits /\ StepsFit /\ WorkFits
    BY <1>2, <1>5 DEF CallsFit, PreviewFits, NumbersFit, NewestFits, MuralFits, StepsFit, WorkFits
<1>9. CurrentIsAsked
    BY <1>4 DEF CurrentIsAsked
<1>10. JobsCounted
    <2> DEFINE f == [j \in DOMAIN jobs |-> CHOOSE x : x \in Slots]
    <2>1. f \in [DOMAIN jobs -> Slots] /\ \A i, j \in DOMAIN jobs : f[i] = f[j] => i = j
        BY <1>5
    <2> QED
        BY <2>1 DEF JobsCounted
<1> QED
    BY <1>7, <1>8, <1>9, <1>10 DEF PInv

LEMMA StutterInv ==
    ASSUME PInv, UNCHANGED vars
    PROVE  PInv'
<1>1. UNCHANGED <<panel, ui, sequence, editRevision, active, disposed, calls, jobs, quiet, draft,
                  troubles, since, asked, dropped>>
    BY DEF vars, coordinator, world
<1>2. \A r, s : HasAsked(r, s)' = HasAsked(r, s)
    BY DEF HasAsked
<1>3. StepsOf(panel)' = StepsOf(panel)
    BY <1>1
<1>4. Slots \subseteq Slots'
    <2> SUFFICES ASSUME NEW x \in Slots PROVE x \in Slots'
        OBVIOUS
    <2>1. HasAsked(calls'[x[1]], x[2])
        BY <1>1 DEF Slots
    <2> QED
        BY <1>1, <1>2, <1>3, <2>1 DEF Slots
<1>5. JobsCounted'
    BY <1>1, <1>4, JobsStayCounted DEF PInv
<1>6. PanelTypes' /\ RefsFit' /\ NumbersFit' /\ NewestFits' /\ MuralFits' /\ PreviewFits'
    BY <1>1 DEF PInv, PanelTypes, RefsFit, NumbersFit, NewestFits, MuralFits, PreviewFits
<1>7. CallsFit' /\ CurrentIsAsked'
    BY <1>1 DEF PInv, CallsFit, CallFits, JobFits, CurrentIsAsked
<1>8. StepsFit'
    BY <1>1, <1>3 DEF PInv, StepsFit
<1>9. WorkFits'
    <2>1. \A j : Owned(j) => Owned(j)'
        BY <1>1 DEF Owned
    <2> QED
        BY <1>1, <2>1 DEF PInv, WorkFits
<1> QED
    BY <1>5, <1>6, <1>7, <1>8, <1>9 DEF PInv

LEMMA NextInv ==
    ASSUME PInv, Contract, [Next]_vars
    PROVE  PInv'
<1>1. CASE Start \/ Retry
    BY <1>1, StartsInv
<1>2. CASE Edit
    BY <1>2, EditGivesUpInv, EditQuietlyInv
<1>3. CASE Cancel
    BY <1>3, CancelInv, MuralCancelInv
<1>4. CASE Dispose
    BY <1>4, DisposeInv
<1>5. ASSUME NEW p \in Project \cup {NoProject}, Open(p) PROVE PInv'
    BY <1>5, OpenInv DEF Named
<1>6. ASSUME NEW t \in Call, Continue(t) \/ Serve(t) \/ LoseCall(t) PROVE PInv'
    BY <1>6, ContinueInv, ServeStartInv, RefuseStartInv, ServeCancelInv, LoseCallInv DEF Serve
<1>7. ASSUME NEW j \in Jobs, \/ Restore(j) \/ ServeQuiet(j) \/ LoseQuiet(j)
                             \/ JobEnds(j) \/ OtherWindow(j)
      PROVE  PInv'
    BY <1>7, RestoreInv, ServeQuietInv, LoseQuietInv, JobEndsInv
<1>8. CASE UNCHANGED vars
    BY <1>8, StutterInv
<1> QED
    BY <1>1, <1>2, <1>3, <1>4, <1>5, <1>6, <1>7, <1>8 DEF Next

LEMMA InvIsPanelInv ==
    ASSUME PInv
    PROVE  PanelInv
<1> USE DEF PInv
<1>1. TypeOK
    <2>1. ui.phase \in Phase /\ ui.project \in Named /\ ui.fresh \in {"none", "stale", "current"}
          /\ ui.last \in Nat
        BY DEF PanelTypes, Shown
    <2>2. draft \in Nat /\ ui.last \in 0 .. draft
        BY <2>1 DEF PanelTypes, RefsFit
    <2>3. active \in 0 .. Len(calls) /\ since \in 0 .. Len(calls)
        BY DEF PanelTypes, RefsFit
    <2>4. DOMAIN jobs = 1 .. Len(jobs) /\ Len(jobs) \in Nat
        BY DEF PanelTypes
    <2>5. quiet \cup dropped \cup {calls[t].job : t \in DOMAIN calls} \subseteq 0 .. Len(jobs)
        BY <2>4 DEF RefsFit
    <2>6. \A j \in DOMAIN jobs : j \in Jobs /\ jobs[j].state \in JobState
        BY JobIs, JobsAreBounded DEF JobRec
    <2> QED
        BY <2>1, <2>2, <2>3, <2>5, <2>6 DEF TypeOK, PanelTypes, Phase, Named
<1>2. KnownWorkIsOwned
    BY DEF WorkFits, Owned, KnownWorkIsOwned
<1> QED
    BY <1>1, <1>2 DEF PanelInv

\* Whatever version a request or a restored job is of, if only the mural's transport
\* honours an abort, what a panel calls current is what was asked for last, with
\* nothing changed since, and every job it knows of is followed, being canceled, or
\* was let go of on a failed call.
THEOREM PanelsShowTheirOwn ==
    ASSUME Contract
    PROVE  Spec => []PanelInv
<1>1. Init => PInv
    BY InitInv
<1>2. PInv /\ [Next]_vars => PInv'
    BY NextInv
<1>3. PInv => PanelInv
    BY InvIsPanelInv
<1> QED
    BY <1>1, <1>2, <1>3, PTL DEF Spec

\* Under the same contract no answer to a call that the user's acts have overtaken
\* changes what is on screen.
THEOREM LateAnswersChangeNothing ==
    ASSUME Contract
    PROVE  Spec => NoLateUpdates
<1>1. Init => PInv
    BY InitInv
<1>2. PInv /\ [Next]_vars => PInv'
    BY NextInv
<1>3. PInv => [\A t \in Call : Continue(t) /\ ui' # ui => t > since]_vars
    BY LateChangesNothing
<1> QED
    BY <1>1, <1>2, <1>3, PTL DEF Spec, NoLateUpdates

=============================================================================
