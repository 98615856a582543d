--------------------------- MODULE PreviewsProofs ---------------------------
(***************************************************************************)
(* Reuse and evidence for any number of previews, requests, restarts and   *)
(* releases.  A succeeded preview never changes, so the baseline a job was *)
(* given is still what it was when its planes are read; an active job is   *)
(* of the release that runs, because a restart ends the others; and a      *)
(* job's key is that of what it renders.                                   *)
(***************************************************************************)
EXTENDS Previews, TLAPS

Engine == 1 .. MaxEngine
Keys == [engine : Engine, config : Config, ops : Ops]
Rendered == {Full(k.engine, k.config, k.ops) : k \in Keys}
States == {"queued", "loading", "rendering", "succeeded", "failed", "canceled"}
ActiveStates == {"queued", "loading", "rendering"}
JobRecord == [config : Config, ops : Ops, baseline : Nat, key : Keys, state : States,
              reused : Rendered \cup {NoPlanes}, planes : Rendered \cup {NoPlanes},
              cacheFault : BOOLEAN, created : Nat]

DraftFits ==
    /\ engine \in Engine
    /\ draft \in [config : Config, ops : Ops, gen : 1 .. MaxSaves]

Baselines == {0} \cup {b \in Jobs : job[b].state = "succeeded"}

Reading == [pc : {"read", "saved", "done"}, config : Config, ops : Ops, gen : 1 .. MaxSaves,
            baseline : Nat]

\* A request renders a draft there was, from a preview that had succeeded.
RequestFits(r) == req[r].pc \in {"read", "saved"} => req[r] \in Reading /\ req[r].baseline \in Baselines

RequestsFit ==
    /\ req \in [Request -> Reading \cup {[pc |-> "idle"], [pc |-> "done"]}]
    /\ \A r \in Request : RequestFits(r)

\* What a job was given.
Given(j) ==
    /\ job[j].key.config = job[j].config /\ job[j].key.ops = job[j].ops
    /\ job[j].baseline \in Baselines /\ job[j].baseline < j
    /\ job[j].state = "loading" => job[j].baseline # 0
    /\ job[j].reused # NoPlanes => job[j].baseline # 0 /\ job[j].reused = Baseline(j).planes

\* What it came to.
Result(j) ==
    /\ job[j].state \in ActiveStates => head = j /\ job[j].key.engine = engine
    /\ job[j].state = "succeeded" =>
          job[j].planes = Full(job[j].key.engine, job[j].config, job[j].ops)
    /\ job[j].state # "succeeded" => job[j].planes = NoPlanes

JobsFit ==
    /\ job \in Seq(JobRecord) /\ head \in 0 .. Len(job)
    /\ \A j \in Jobs : Given(j) /\ Result(j)

GeometryFits ==
    geometry.job # 0 => /\ geometry.job \in Jobs
                        /\ GeometryOfThisConfig

VInv == DraftFits /\ RequestsFit /\ JobsFit /\ GeometryFits /\ FreshEvidenceIsExact

-----------------------------------------------------------------------------
LEMMA RenderedIsSome ==
    ASSUME NEW e, NEW c, NEW ops
    PROVE  Full(e, c, ops) # NoPlanes
<1>1. "quantized" \in DOMAIN Full(e, c, ops)
    BY DEF Full, Replayed
<1>2. "quantized" \notin DOMAIN NoPlanes
    BY DEF NoPlanes
<1> QED
    BY <1>1, <1>2

LEMMA JobIs ==
    ASSUME JobsFit, NEW j \in Jobs
    PROVE  job[j] \in JobRecord /\ j \in Nat /\ Len(job) \in Nat
BY DEF JobsFit, Jobs

\* Jobs keep what they were given and, once they have succeeded, their planes.
JobsStay ==
    /\ Jobs \subseteq Jobs'
    /\ \A j \in Jobs : /\ job'[j].config = job[j].config /\ job'[j].ops = job[j].ops
                       /\ job'[j].key = job[j].key
                       /\ job[j].state = "succeeded" => job'[j] = job[j]

LEMMA RequestsKept ==
    ASSUME RequestsFit, JobsStay, UNCHANGED req
    PROVE  RequestsFit'
BY DEF RequestsFit, RequestFits, Baselines, JobsStay

LEMMA GeometryKept ==
    ASSUME GeometryFits, JobsStay, UNCHANGED geometry
    PROVE  GeometryFits'
BY DEF GeometryFits, GeometryOfThisConfig, JobsStay

LEMMA VInvMeans == VInv => EvidenceInv /\ ScopedIsFull /\ FreshEvidenceIsExact
<1> SUFFICES ASSUME VInv PROVE EvidenceInv /\ ScopedIsFull
    BY DEF VInv
<1> USE DEF VInv
<1>1. ASSUME NEW j \in Jobs
      PROVE  /\ job[j].state \in States /\ job[j].baseline \in 0 .. j - 1
             /\ job[j].state = "succeeded" <=> job[j].planes # NoPlanes
             /\ job[j].state \in ActiveStates => head = j
    <2>1. job[j].state \in States /\ job[j].baseline \in Nat /\ j \in Nat
        BY JobIs DEF JobRecord
    <2> QED
        BY <2>1, RenderedIsSome DEF JobsFit, Given, Result
<1>2. TypeOK
    BY <1>1 DEF TypeOK, DraftFits, JobsFit, RequestsFit, Reading, States, ActiveStates, Engine
<1>3. GeometryOfThisConfig
    BY DEF GeometryFits, GeometryOfThisConfig
<1>4. ScopedIsFull
    BY DEF ScopedIsFull, JobsFit, Result
<1> QED
    BY <1>2, <1>3, <1>4 DEF EvidenceInv

LEMMA VInitInv == Init => VInv
<1> SUFFICES ASSUME Init PROVE VInv
    OBVIOUS
<1> USE BoundAssumption DEF Init
<1>1. <<>> \in Ops
    <2>1. <<>> \in [1 .. 0 -> Command] /\ 0 \in 0 .. MaxOps
        OBVIOUS
    <2> QED
        BY <2>1 DEF Ops
<1>2. DraftFits
    BY <1>1 DEF DraftFits, Engine
<1>3. RequestsFit
    BY DEF RequestsFit, RequestFits
<1>4. JobsFit
    BY DEF JobsFit, Jobs
<1>5. GeometryFits /\ FreshEvidenceIsExact
    BY DEF GeometryFits, FreshEvidenceIsExact, NoGeometry, NoRevision
<1> QED
    BY <1>2, <1>3, <1>4, <1>5 DEF VInv

-----------------------------------------------------------------------------
(* Steps that start no job and move none *)

LEMMA SameJobs ==
    ASSUME VInv, UNCHANGED <<engine, job, head>>
    PROVE  JobsStay /\ JobsFit'
BY DEF VInv, JobsStay, JobsFit, Given, Result, Baseline, Baselines, Jobs

LEMMA RequestMoves ==
    ASSUME RequestsFit, UNCHANGED job, NEW r \in Request, NEW new \in Reading,
           new.baseline \in Baselines, req' = [req EXCEPT ![r] = new]
    PROVE  RequestsFit' /\ (UNCHANGED <<engine, draft>> /\ DraftFits => DraftFits')
BY DEF RequestsFit, RequestFits, Baselines, Jobs, DraftFits

LEMMA DraftInv ==
    ASSUME VInv,
           \/ \E c \in Config, ops \in Ops : SaveDraft(c, ops)
           \/ \E r \in Request : (\E c \in Config : ReadState(r, c)) \/ SaveRequested(r)
           \/ \E j \in Jobs : Lose(j)
    PROVE  VInv'
<1> USE BoundAssumption DEF VInv
<1>1. UNCHANGED <<engine, job, head, geometry, published>>
    BY DEF SaveDraft, ReadState, SaveRequested, Lose
<1>2. JobsStay /\ JobsFit' /\ GeometryFits' /\ FreshEvidenceIsExact'
    BY <1>1, SameJobs, GeometryKept DEF FreshEvidenceIsExact
<1>3. ASSUME NEW c \in Config, NEW ops \in Ops, SaveDraft(c, ops)
      PROVE  DraftFits' /\ RequestsFit'
    BY <1>2, <1>3, RequestsKept DEF SaveDraft, DraftFits
<1>4. ASSUME NEW r \in Request, NEW c \in Config, ReadState(r, c)
      PROVE  DraftFits' /\ RequestsFit'
    <2> DEFINE b == IF head # 0 /\ job[head].state = "succeeded" THEN head ELSE 0
               new == [pc |-> "read", config |-> c, ops |-> draft.ops, gen |-> draft.gen,
                       baseline |-> b]
    <2>1. b \in Baselines /\ b \in Nat
        BY DEF JobsFit, Baselines, Jobs
    <2> HIDE DEF b
    <2>2. new \in Reading /\ new.baseline = b
        BY <2>1 DEF DraftFits, Reading
    <2>3. req' = [req EXCEPT ![r] = new]
        BY <1>4 DEF ReadState, b
    <2> HIDE DEF new
    <2> QED
        BY <1>4, <2>1, <2>2, <2>3, RequestMoves DEF ReadState
<1>5. ASSUME NEW r \in Request, SaveRequested(r)
      PROVE  DraftFits' /\ RequestsFit'
    <2>1. req[r] \in Reading /\ req[r].baseline \in Baselines
        BY <1>5 DEF SaveRequested, RequestsFit, RequestFits
    <2>2. DraftFits'
        BY <1>5, <2>1 DEF SaveRequested, DraftFits, Reading
    <2>3. PICK pc \in {"saved", "done"} : req' = [req EXCEPT ![r] = [req[r] EXCEPT !.pc = pc]]
        BY <1>5 DEF SaveRequested
    <2> DEFINE new == [req[r] EXCEPT !.pc = pc]
    <2>4. new \in Reading /\ new.baseline \in Baselines
        BY <2>1 DEF Reading
    <2> HIDE DEF new
    <2>5. req' = [req EXCEPT ![r] = new]
        BY <2>3 DEF new
    <2> QED
        BY <1>5, <2>2, <2>4, <2>5, RequestMoves DEF SaveRequested
<1>6. ASSUME NEW j \in Jobs, Lose(j)
      PROVE  DraftFits' /\ RequestsFit'
    BY <1>2, <1>6, RequestsKept DEF Lose, DraftFits
<1> QED
    BY <1>2, <1>3, <1>4, <1>5, <1>6

\* Fresh evidence is keyed by the release, configuration and commands that are
\* published with it.
LEMMA ConsumeInv ==
    ASSUME VInv, Publish \/ StartGeometry
    PROVE  VInv'
<1> USE DEF VInv
<1>1. UNCHANGED <<engine, req, job, head>>
    BY DEF Publish, StartGeometry
<1>2. JobsStay /\ JobsFit' /\ RequestsFit'
    BY <1>1, SameJobs, RequestsKept
<1>3. head # 0 => head \in Jobs /\ Result(head) /\ Given(head)
    BY DEF JobsFit, Jobs
<1>4. CASE Publish
    <2>1. DraftFits' /\ GeometryFits'
        BY <1>2, <1>4, BoundAssumption, GeometryKept DEF Publish, DraftFits
    <2>2. Fresh => job[head].planes = Full(engine, draft.config, draft.ops)
        BY <1>3 DEF Fresh, Key, Result, Given
    <2>3. FreshEvidenceIsExact'
        BY <1>4, <2>2 DEF Publish, FreshEvidenceIsExact
    <2> QED
        BY <1>2, <2>1, <2>3
<1>5. CASE StartGeometry
    <2>1. job[head].planes = Full(job[head].key.engine, draft.config, job[head].ops)
        BY <1>3, <1>5 DEF StartGeometry, Result
    <2>2. GeometryFits'
        BY <1>1, <1>3, <1>5, <2>1 DEF StartGeometry, GeometryFits, GeometryOfThisConfig, Jobs
    <2>3. DraftFits' /\ FreshEvidenceIsExact'
        BY <1>5 DEF StartGeometry, DraftFits, FreshEvidenceIsExact
    <2> QED
        BY <1>2, <2>2, <2>3
<1> QED
    BY <1>4, <1>5

-----------------------------------------------------------------------------
(* The worker *)

\* A thread changes an active job, which keeps what it was given.
LEMMA WorkerStep ==
    ASSUME VInv, NEW j \in Jobs, job[j].state \in ActiveStates, NEW new \in JobRecord,
           job' = [job EXCEPT ![j] = new], UNCHANGED <<engine, draft, req, head, published, geometry>>,
           new.config = job[j].config, new.ops = job[j].ops, new.key = job[j].key,
           new.baseline = job[j].baseline,
           new.state = "loading" => new.baseline # 0,
           new.reused # NoPlanes => new.baseline # 0 /\ new.reused = Baseline(j).planes,
           new.state = "succeeded" => new.planes = Full(new.key.engine, new.config, new.ops),
           new.state # "succeeded" => new.planes = NoPlanes
    PROVE  VInv'
<1> USE DEF VInv
<1>1. job' \in Seq(JobRecord) /\ Len(job') = Len(job) /\ Jobs' = Jobs
    BY DEF JobsFit, Jobs
<1>2. job'[j] = new /\ \A i \in Jobs \ {j} : job'[i] = job[i]
    BY DEF JobsFit, Jobs
<1>3. JobsStay
    BY <1>1, <1>2 DEF JobsStay, ActiveStates
<1>4. Baselines \subseteq Baselines'
    BY <1>1, <1>3 DEF Baselines, JobsStay
<1>5. ASSUME NEW i \in Jobs
      PROVE  Given(i)' /\ Result(i)'
    <2>1. job[i].baseline # 0 => Baseline(i)' = Baseline(i) /\ job[i].baseline # j
        <3>1. job[i].baseline # 0 =>
                 job[i].baseline \in Jobs /\ job[job[i].baseline].state = "succeeded"
            BY DEF JobsFit, Given, Baselines
        <3>2. job'[i].baseline = job[i].baseline
            BY <1>2
        <3> QED
            BY <1>3, <3>1, <3>2 DEF Baseline, JobsStay, ActiveStates
    <2>2. Given(i) /\ Result(i)
        BY DEF JobsFit
    <2>3. CASE i = j
        BY <1>2, <1>4, <2>1, <2>2, <2>3 DEF Given, Result, Baseline
    <2>4. CASE i # j
        BY <1>2, <1>4, <2>1, <2>2, <2>4 DEF Given, Result, Baseline
    <2> QED
        BY <2>3, <2>4
<1>6. JobsFit'
    BY <1>1, <1>5 DEF JobsFit
<1> QED
    BY <1>3, <1>6, RequestsKept, GeometryKept DEF DraftFits, FreshEvidenceIsExact

\* A job with a cache fault has failed; it is the only way that reading fails.
LEMMA LoadInv ==
    ASSUME VInv, NEW j \in Jobs, LoadBaseline(j) \/ ReadBaseline(j)
    PROVE  VInv'
<1> USE DEF VInv
<1>1. /\ job[j] \in JobRecord /\ job[j].state \in {"queued", "loading"}
      /\ UNCHANGED <<engine, draft, req, head, published, geometry>>
    BY JobIs DEF LoadBaseline, ReadBaseline
<1>2. Given(j) /\ Result(j)
    BY DEF JobsFit
<1> DEFINE lost == [job[j] EXCEPT !.state = "failed", !.cacheFault = TRUE]
           ready == [job[j] EXCEPT !.state = "rendering"]
           found == [job[j] EXCEPT !.state = "loading"]
           read == [job[j] EXCEPT !.state = "rendering", !.reused = Baseline(j).planes]
<1>3. CASE job' = [job EXCEPT ![j] = lost]
    <2>1. lost \in JobRecord
        BY <1>1 DEF JobRecord, States
    <2>2. /\ lost.config = job[j].config /\ lost.ops = job[j].ops /\ lost.key = job[j].key
          /\ lost.baseline = job[j].baseline /\ lost.state = "failed"
          /\ lost.reused = job[j].reused /\ lost.planes = job[j].planes
        BY <1>1 DEF JobRecord
    <2> HIDE DEF lost
    <2> QED
        BY <1>1, <1>2, <1>3, <2>1, <2>2, WorkerStep DEF Given, Result, ActiveStates
<1>4. CASE job' = [job EXCEPT ![j] = ready]
    <2>1. ready \in JobRecord
        BY <1>1 DEF JobRecord, States
    <2>2. /\ ready.config = job[j].config /\ ready.ops = job[j].ops /\ ready.key = job[j].key
          /\ ready.baseline = job[j].baseline /\ ready.state = "rendering"
          /\ ready.reused = job[j].reused /\ ready.planes = job[j].planes
        BY <1>1 DEF JobRecord
    <2> HIDE DEF ready
    <2> QED
        BY <1>1, <1>2, <1>4, <2>1, <2>2, WorkerStep DEF Given, Result, ActiveStates
<1>5. CASE job[j].baseline # 0 /\ job' = [job EXCEPT ![j] = found]
    <2>1. found \in JobRecord
        BY <1>1 DEF JobRecord, States
    <2>2. /\ found.config = job[j].config /\ found.ops = job[j].ops /\ found.key = job[j].key
          /\ found.baseline = job[j].baseline /\ found.state = "loading"
          /\ found.reused = job[j].reused /\ found.planes = job[j].planes
        BY <1>1 DEF JobRecord
    <2> HIDE DEF found
    <2> QED
        BY <1>1, <1>2, <1>5, <2>1, <2>2, WorkerStep DEF Given, Result, ActiveStates
<1>6. CASE job[j].baseline # 0 /\ job' = [job EXCEPT ![j] = read]
    <2>1. Baseline(j).planes \in Rendered \cup {NoPlanes}
        <3>1. Baseline(j) \in JobRecord
            BY <1>2, <1>6, JobIs DEF Given, Baselines, Baseline
        <3> QED
            BY <3>1 DEF JobRecord
    <2>2. read \in JobRecord
        BY <1>1, <2>1 DEF JobRecord, States
    <2>3. /\ read.config = job[j].config /\ read.ops = job[j].ops /\ read.key = job[j].key
          /\ read.baseline = job[j].baseline /\ read.state = "rendering"
          /\ read.reused = Baseline(j).planes /\ read.planes = job[j].planes
        BY <1>1 DEF JobRecord
    <2> HIDE DEF read
    <2> QED
        BY <1>1, <1>2, <1>6, <2>2, <2>3, WorkerStep DEF Given, Result, ActiveStates
<1> HIDE DEF lost, ready, found, read
<1>7. CASE LoadBaseline(j)
    <2>1. \/ job' = [job EXCEPT ![j] = ready]
          \/ job' = [job EXCEPT ![j] = lost]
          \/ job[j].baseline # 0 /\ job' = [job EXCEPT ![j] = found]
        BY <1>7 DEF LoadBaseline, ready, lost, found
    <2> QED
        BY <1>3, <1>4, <1>5, <2>1
<1>8. CASE ReadBaseline(j)
    <2>1. job[j].baseline # 0
        BY <1>2, <1>8 DEF ReadBaseline, Given
    <2>2. \/ job' = [job EXCEPT ![j] = lost]
          \/ job' = [job EXCEPT ![j] = read]
        BY <1>8 DEF ReadBaseline, lost, read
    <2> QED
        BY <1>3, <1>6, <2>1, <2>2
<1> QED
    BY <1>7, <1>8

\* Planes taken from the baseline are those the job would compute itself.
LEMMA ReuseIsInvisible ==
    ASSUME VInv, NEW j \in Jobs, Scoped(j)
    PROVE  /\ job[j].reused.quantized = Quantized(engine, job[j].config)
           /\ job[j].reused.cleaned =
                 Cleaned(engine, Quantized(engine, job[j].config), job[j].config)
<1> USE DEF VInv
<1>1. PICK b \in Jobs : /\ b = job[j].baseline /\ job[b].state = "succeeded"
                        /\ job[j].reused = job[b].planes
    BY DEF Scoped, JobsFit, Given, Baselines, Baseline
<1>2. job[b].planes = Full(engine, job[b].config, job[b].ops)
    BY <1>1 DEF JobsFit, Result, Scoped, Baseline
<1>3. /\ job[b].config.picture = job[j].config.picture
      /\ job[b].config.palette = job[j].config.palette
      /\ job[b].config.cleanup = job[j].config.cleanup
    BY <1>1 DEF Scoped, Baseline
<1>4. Quantized(engine, job[b].config) = Quantized(engine, job[j].config)
    BY <1>3 DEF Quantized
<1>5. \A q : Cleaned(engine, q, job[b].config) = Cleaned(engine, q, job[j].config)
    BY <1>3 DEF Cleaned
<1>6. /\ job[b].planes.quantized = Quantized(engine, job[b].config)
      /\ job[b].planes.cleaned =
            Cleaned(engine, Quantized(engine, job[b].config), job[b].config)
    BY <1>2 DEF Full, Replayed
<1> QED
    BY <1>1, <1>4, <1>5, <1>6

LEMMA RenderInv ==
    ASSUME VInv, NEW j \in Jobs, Render(j)
    PROVE  VInv'
<1> USE DEF VInv
<1> DEFINE c == job[j].config
           planes == Full(engine, c, job[j].ops)
           new == [job[j] EXCEPT !.state = "succeeded", !.planes = planes]
<1>1. job[j] \in JobRecord /\ job[j].state = "rendering" /\ Given(j) /\ Result(j)
    BY JobIs DEF Render, JobsFit
<1>2. job' = [job EXCEPT ![j].state = "succeeded", ![j].planes = planes]
    <2>1. PICK scoped \in {FALSE} \cup (IF Scoped(j) THEN {TRUE} ELSE {}) :
             LET q == IF scoped THEN job[j].reused.quantized ELSE Quantized(engine, c)
                 p == IF scoped THEN job[j].reused.cleaned ELSE Cleaned(engine, q, c)
             IN  job' = [job EXCEPT ![j].state = "succeeded",
                                    ![j].planes = Replayed(engine, q, p, c, job[j].ops)]
        BY DEF Render
    <2>2. CASE scoped = TRUE
        <3>1. Scoped(j)
            BY <2>2
        <3> QED
            BY <2>1, <2>2, <3>1, ReuseIsInvisible DEF Full
    <2>3. CASE scoped = FALSE
        BY <2>1, <2>3 DEF Full
    <2> QED
        BY <2>2, <2>3
<1>3. job' = [job EXCEPT ![j] = new]
    BY <1>1, <1>2 DEF JobsFit, JobRecord
<1>4. engine = job[j].key.engine /\ planes \in Rendered
    <2>1. job[j].key.engine = engine
        BY <1>1 DEF Result, ActiveStates
    <2>2. job[j].key \in Keys /\ job[j].key.config = c /\ job[j].key.ops = job[j].ops
        BY <1>1 DEF Given, JobRecord
    <2>3. Full(job[j].key.engine, job[j].key.config, job[j].key.ops) \in Rendered
        BY <2>2 DEF Rendered
    <2> QED
        BY <2>1, <2>2, <2>3
<1> HIDE DEF planes
<1>5. new \in JobRecord
    BY <1>1, <1>4 DEF JobRecord, States
<1>6. /\ new.config = c /\ new.ops = job[j].ops /\ new.key = job[j].key
      /\ new.baseline = job[j].baseline /\ new.state = "succeeded"
      /\ new.reused = job[j].reused /\ new.planes = planes
    BY <1>1 DEF JobRecord
<1>7. UNCHANGED <<engine, draft, req, head, published, geometry>>
    BY DEF Render
<1> HIDE DEF new
<1> QED
    BY <1>1, <1>3, <1>4, <1>5, <1>6, <1>7, WorkerStep DEF Given, Result, ActiveStates, planes

-----------------------------------------------------------------------------
(* New jobs and restarts *)

LEMMA SubmitInv ==
    ASSUME VInv, NEW r \in Request, Submit(r)
    PROVE  VInv'
<1> USE DEF VInv
<1> DEFINE new == [config |-> req[r].config, ops |-> req[r].ops, baseline |-> req[r].baseline,
                   key |-> Key(engine, req[r].config, req[r].ops), state |-> "queued",
                   reused |-> NoPlanes, planes |-> NoPlanes, cacheFault |-> FALSE,
                   created |-> draft.gen]
           active == head # 0 /\ job[head].state \in {"queued", "loading", "rendering"}
           stopped == [job[head] EXCEPT !.state = "canceled"]
           old == IF active THEN [job EXCEPT ![head] = stopped] ELSE job
<1>1. PICK n \in Nat \ {0} : n = Len(job) + 1
    BY DEF JobsFit
<1>2. req[r] \in Reading /\ req[r].baseline \in Baselines
    BY DEF Submit, RequestsFit, RequestFits
<1>3. /\ new \in JobRecord /\ new.key.config = new.config /\ new.key.ops = new.ops
      /\ new.key.engine = engine /\ new.state = "queued" /\ new.reused = NoPlanes
      /\ new.planes = NoPlanes /\ new.baseline = req[r].baseline
    <2>1. Key(engine, req[r].config, req[r].ops) \in Keys
        BY <1>2 DEF Key, Keys, Reading, DraftFits
    <2>2. req[r].baseline \in Nat /\ draft.gen \in Nat
        BY <1>2, BoundAssumption DEF Reading, DraftFits
    <2> QED
        BY <1>2, <2>1, <2>2 DEF JobRecord, Reading, States, Key
<1>4. job' = Append(old, new) /\ head' = n /\ UNCHANGED <<engine, draft, published, geometry>>
    BY <1>1 DEF Submit
<1>5. active => /\ head \in Jobs /\ stopped \in JobRecord /\ stopped.state = "canceled"
                /\ stopped.config = job[head].config /\ stopped.ops = job[head].ops
                /\ stopped.key = job[head].key /\ stopped.baseline = job[head].baseline
                /\ stopped.reused = job[head].reused /\ stopped.planes = job[head].planes
    <2>1. active => head \in Jobs /\ job[head] \in JobRecord
        BY JobIs DEF JobsFit, Jobs
    <2> QED
        BY <2>1 DEF JobRecord, States
<1> HIDE DEF new, stopped
<1>6. /\ old \in Seq(JobRecord) /\ Len(old) = Len(job)
      /\ \A j \in Jobs : old[j] = IF active /\ j = head THEN stopped ELSE job[j]
    BY <1>5 DEF JobsFit, Jobs
<1> HIDE DEF old
<1>7. /\ job' \in Seq(JobRecord) /\ Len(job') = n /\ job'[n] = new
      /\ \A j \in Jobs : job'[j] = old[j]
    BY <1>3, <1>4, <1>6, <1>1 DEF Jobs
<1>8. Jobs' = Jobs \cup {n} /\ n \notin Jobs /\ n \in Nat /\ \A j \in Jobs : j < n
    BY <1>7, <1>1 DEF Jobs, JobsFit
<1>9. \A j \in Jobs : /\ job'[j].config = job[j].config /\ job'[j].ops = job[j].ops
                      /\ job'[j].key = job[j].key /\ job'[j].baseline = job[j].baseline
                      /\ job'[j].reused = job[j].reused /\ job'[j].planes = job[j].planes
                      /\ \/ job'[j].state = job[j].state
                         \/ job'[j].state = "canceled" /\ job[j].state \in ActiveStates
                      /\ job'[j].state \notin ActiveStates
                      /\ job[j].state = "succeeded" => job'[j] = job[j]
    <2>1. ASSUME NEW j \in Jobs, active, j = head
          PROVE  job'[j] = stopped
        BY <1>6, <1>7, <2>1
    <2>2. ASSUME NEW j \in Jobs, ~(active /\ j = head)
          PROVE  job'[j] = job[j] /\ job[j].state \notin ActiveStates
        <3>1. job'[j] = job[j]
            BY <1>6, <1>7, <2>2
        <3>2. job[j].state \in ActiveStates => head = j /\ j # 0
            BY DEF JobsFit, Result, Jobs
        <3> QED
            BY <2>2, <3>1, <3>2 DEF ActiveStates
    <2> QED
        BY <1>5, <2>1, <2>2 DEF ActiveStates
<1>10. JobsStay
    BY <1>8, <1>9 DEF JobsStay
<1>11. Baselines \subseteq Baselines'
    BY <1>10 DEF Baselines, JobsStay
<1>12. ASSUME NEW j \in Jobs
       PROVE  Given(j)' /\ Result(j)'
    <2>1. Given(j) /\ Result(j)
        BY DEF JobsFit
    <2>2. job[j].baseline # 0 => job'[job'[j].baseline] = job[job[j].baseline]
        BY <1>9, <2>1 DEF Given, Baselines
    <2>3. Given(j)'
        BY <1>9, <1>11, <2>1, <2>2 DEF Given, Baseline
    <2>4. Result(j)'
        BY <1>9, <2>1 DEF Result, ActiveStates
    <2> QED
        BY <2>3, <2>4
<1>13. Given(n)'
    <2>1. req[r].baseline \in Baselines' /\ req[r].baseline < n
        BY <1>2, <1>8, <1>11 DEF Baselines
    <2> QED
        BY <1>3, <1>7, <2>1 DEF Given
<1>14. Result(n)'
    BY <1>3, <1>4, <1>7 DEF Result
<1>15. JobsFit'
    BY <1>4, <1>7, <1>8, <1>12, <1>13, <1>14 DEF JobsFit
<1>16. RequestsFit'
    <2>1. req' = [req EXCEPT ![r] = [req[r] EXCEPT !.pc = "done"]]
        BY DEF Submit
    <2>2. [req[r] EXCEPT !.pc = "done"] \in Reading
        BY <1>2 DEF Reading
    <2>3. [req[r] EXCEPT !.pc = "done"].pc = "done"
        BY <1>2 DEF Reading
    <2> QED
        BY <1>11, <2>1, <2>2, <2>3 DEF RequestsFit, RequestFits
<1> QED
    BY <1>4, <1>10, <1>15, <1>16, GeometryKept DEF DraftFits, FreshEvidenceIsExact

\* A restart ends what was active, so every job that renders is of this release.
LEMMA RestartInv ==
    ASSUME VInv, Restart
    PROVE  VInv'
<1> USE DEF VInv
<1>1. /\ \A j \in Jobs : job'[j] = IF job[j].state \in {"queued", "loading", "rendering"}
                                   THEN [job[j] EXCEPT !.state = "failed"] ELSE job[j]
      /\ DOMAIN job' = Jobs /\ UNCHANGED <<draft, head, published, geometry>>
      /\ job' = [j \in Jobs |-> job'[j]]
    BY DEF Restart
<1>2. \A j \in Jobs : /\ job'[j] \in JobRecord /\ job'[j].config = job[j].config
                      /\ job'[j].ops = job[j].ops /\ job'[j].key = job[j].key
                      /\ job'[j].baseline = job[j].baseline
                      /\ job'[j].reused = job[j].reused /\ job'[j].planes = job[j].planes
                      /\ \/ job'[j].state = job[j].state
                         \/ job'[j].state = "failed" /\ job[j].state \in ActiveStates
                      /\ job'[j].state \notin ActiveStates
                      /\ job[j].state = "succeeded" => job'[j] = job[j]
    <2>1. \A j \in Jobs : job[j] \in JobRecord
        BY JobIs
    <2> QED
        BY <1>1, <2>1 DEF JobRecord, States, ActiveStates
<1>3. job' \in Seq(JobRecord) /\ Len(job') = Len(job) /\ Jobs' = Jobs
    <2>1. Len(job) \in Nat
        BY DEF JobsFit
    <2>2. job' \in [1 .. Len(job) -> JobRecord]
        BY <1>1, <1>2 DEF Jobs
    <2> QED
        BY <2>1, <2>2 DEF Jobs
<1>4. JobsStay
    BY <1>2, <1>3 DEF JobsStay
<1>5. Baselines \subseteq Baselines'
    BY <1>4 DEF Baselines, JobsStay
<1>6. ASSUME NEW j \in Jobs
      PROVE  Given(j)' /\ Result(j)'
    <2>1. Given(j) /\ Result(j)
        BY DEF JobsFit
    <2>2. job[j].baseline # 0 => job'[job'[j].baseline] = job[job[j].baseline]
        BY <1>2, <2>1 DEF Given, Baselines
    <2>3. Given(j)'
        BY <1>2, <1>5, <2>1, <2>2 DEF Given, Baseline
    <2>4. Result(j)'
        BY <1>2, <2>1 DEF Result, ActiveStates
    <2> QED
        BY <2>3, <2>4
<1>7. JobsFit'
    BY <1>1, <1>3, <1>6 DEF JobsFit
<1>8. RequestsFit'
    BY DEF Restart, RequestsFit, RequestFits
<1>9. DraftFits'
    BY <1>1, BoundAssumption DEF Restart, DraftFits, Engine
<1> QED
    BY <1>1, <1>4, <1>7, <1>8, <1>9, GeometryKept DEF FreshEvidenceIsExact

LEMMA VNextInv == VInv /\ [Next]_vars => VInv'
<1> SUFFICES ASSUME VInv, [Next]_vars PROVE VInv'
    OBVIOUS
<1>1. CASE UNCHANGED vars
    <2>1. UNCHANGED <<engine, draft, req, job, head, geometry, published>>
        BY <1>1 DEF vars
    <2> QED
        BY <2>1, SameJobs, RequestsKept, GeometryKept DEF VInv, DraftFits, FreshEvidenceIsExact
<1>2. CASE Next
    BY <1>2, DraftInv, ConsumeInv, LoadInv, RenderInv, SubmitInv, RestartInv DEF Next
<1> QED
    BY <1>1, <1>2

-----------------------------------------------------------------------------

LEMMA PreviewsInvariant == Spec => []VInv
BY VInitInv, VNextInv, PTL DEF Spec

(* Whatever baseline a job was given, of whatever release, the planes of a *)
(* succeeded preview are those of an unconditional run of its own          *)
(* configuration and commands.                                             *)
THEOREM ReuseNeverShows == Spec => []ScopedIsFull
BY PreviewsInvariant, VInvMeans, PTL

(* A revision that is published as fresh carries the render of what it     *)
(* froze, by the release that published it, however requests, saves and    *)
(* restarts interleave.                                                    *)
THEOREM FreshRevisionsAreExact == Spec => []FreshEvidenceIsExact
BY PreviewsInvariant, VInvMeans, PTL

(* Only the head can be active, and geometry gets labels of the            *)
(* configuration it was asked for.                                         *)
THEOREM EvidenceInvariant == Spec => []EvidenceInv
BY PreviewsInvariant, VInvMeans, PTL

=============================================================================
