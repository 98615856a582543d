------------------------------ MODULE Outputs -------------------------------
(***************************************************************************)
(* The two stages that turn a preview into a file to print: geometry jobs  *)
(* with their verified cache and per-key single flight (geometry/jobs.py), *)
(* and export requests with the guard that lets identical requests share   *)
(* one job (exporting.py).  Threads interleave between any two operations  *)
(* on a lock, the database or the store.  The files of one derivation are  *)
(* modelled as one file, and an export's key is the geometry it packages.  *)
(***************************************************************************)
EXTENDS Integers, Sequences, FiniteSets, SequencesExt

CONSTANTS
    Key,        \* geometry derivation keys
    Job,        \* geometry jobs, of any project
    Request,    \* calls of start_export for one project
    Nobody,     \* no job and no request
    CacheSize,  \* memory_cache_entries
    MaxActors,  \* bound: jobs and requests that may take part
    MaxFaults   \* bound: cancellations, files lost or damaged, restarts

ASSUME SizeAssumption == CacheSize \in Nat /\ MaxActors \in Nat /\ MaxFaults \in Nat
ASSUME JobAssumption == IsFiniteSet(Job)
ASSUME ApartAssumption == Job \cap Request = {} /\ Nobody \notin Job \cup Request

VARIABLES
    key,        \* the derivation of each job and request
    pc,         \* where the thread of a job or request is
    canceled,   \* jobs whose token is set
    entry,      \* _key_locks: the entry of a key, 0 if there is none
    mine,       \* the entry a job has registered with, 0 if none
    users,      \* _KeyLock.users by entry
    owner,      \* who holds the entry's lock
    memory,     \* _memory_cache, least recently used first
    rows,       \* succeeded geometry jobs
    file,       \* geometry files by key: "none", "ok" or "bad"
    guard,      \* who holds _request_guard
    export,     \* the project's export jobs, by submission
    ofile,      \* export files by key
    faults,
    computes,   \* history: how often a key was computed
    disturbed,  \* history: keys whose computation failed or whose result was lost
                \* or evicted
    collided    \* history: keys whose geometry, computed again, met a damaged file

flight == <<entry, mine, users, owner>>
exports == <<guard, export, ofile>>
vars == <<key, pc, canceled, flight, memory, rows, file, exports, faults, computes, disturbed,
          collided>>

Actor == Job \cup Request
Entry == 1 .. Cardinality(Job)
Ended == {"done", "absent"}

Computing(j) == pc[j] \in {"computing", "storing", "stored"}

Goto(a, label) == pc' = [pc EXCEPT ![a] = label]

Init ==
    /\ key \in [Actor -> Key]
    /\ \E A \in SUBSET Actor : /\ Cardinality(A) = MaxActors
                               /\ pc = [a \in Actor |-> IF a \in A THEN "idle" ELSE "absent"]
    /\ canceled = {}
    /\ entry = [k \in Key |-> 0]
    /\ mine = [j \in Job |-> 0]
    /\ users = [e \in Entry |-> 0]
    /\ owner = [e \in Entry |-> Nobody]
    /\ memory = <<>>
    /\ rows = {}
    /\ file = [k \in Key |-> "none"]
    /\ guard = Nobody
    /\ export = <<>>
    /\ ofile = [k \in Key |-> "none"]
    /\ faults = 0
    /\ computes = [k \in Key |-> 0]
    /\ disturbed = {}
    /\ collided = {}

-----------------------------------------------------------------------------
(* The cache *)

Without(k) ==
    IF k \in ToSet(memory)
    THEN LET n == CHOOSE n \in DOMAIN memory : memory[n] = k
         IN  [i \in 1 .. Len(memory) - 1 |-> IF i < n THEN memory[i] ELSE memory[i + 1]]
    ELSE memory

\* _remember and move_to_end: the newest entries survive.
Remembered(k) ==
    LET all == Append(Without(k), k)
    IN  SubSeq(all, IF Len(all) > CacheSize THEN Len(all) - CacheSize + 1 ELSE 1, Len(all))

Evicted(new) == ToSet(memory) \ ToSet(new)

\* _cached_artifacts: memory first, then the rows of succeeded jobs, whose files
\* must verify.
Hit(k) == file[k] = "ok" /\ (k \in ToSet(memory) \/ \E j \in rows : key[j] = k)
LookUpMemory(k) == IF Hit(k) THEN Remembered(k) ELSE Without(k)

-----------------------------------------------------------------------------
(* GeometryJobPipeline.work *)

\* The first look at the cache, before any lock.
Begin(j) ==
    /\ pc[j] = "idle"
    /\ IF j \in canceled
       THEN Goto(j, "done") /\ UNCHANGED <<memory, disturbed>>
       ELSE /\ Goto(j, IF Hit(key[j]) THEN "returned" ELSE "missed")
            /\ memory' = LookUpMemory(key[j])
            /\ disturbed' = disturbed \cup Evicted(memory')
    /\ UNCHANGED <<key, canceled, flight, rows, file, exports, faults, computes, collided>>

\* _register_key_lock; the entry's number is one nobody uses.
Register(j) ==
    /\ pc[j] = "missed"
    /\ LET k == key[j]
           e == IF entry[k] # 0 THEN entry[k]
                ELSE CHOOSE n \in Entry : \A i \in Job : mine[i] # n
       IN  /\ entry' = [entry EXCEPT ![k] = e]
           /\ mine' = [mine EXCEPT ![j] = e]
           /\ users' = [users EXCEPT ![e] = @ + 1]
    /\ Goto(j, "waiting")
    /\ UNCHANGED <<key, canceled, owner, memory, rows, file, exports, faults, computes,
                   disturbed, collided>>

\* The acquire loop with its 0.05 s timeout, which looks at the token.
Acquire(j) ==
    /\ pc[j] = "waiting"
    /\ j \notin canceled
    /\ owner[mine[j]] = Nobody
    /\ owner' = [owner EXCEPT ![mine[j]] = j]
    /\ Goto(j, "holding")
    /\ UNCHANGED <<key, canceled, entry, mine, users, memory, rows, file, exports, faults,
                   computes, disturbed, collided>>

GiveUp(j) ==
    /\ pc[j] = "waiting"
    /\ j \in canceled
    /\ Goto(j, "failed")
    /\ UNCHANGED <<key, canceled, flight, memory, rows, file, exports, faults, computes,
                   disturbed, collided>>

\* Mutant: the cache is not looked at again.
RecheckNothing(j) ==
    /\ pc[j] = "holding"
    /\ Goto(j, IF j \in canceled THEN "failing" ELSE "computing")
    /\ computes' = [computes EXCEPT ![key[j]] = IF j \in canceled THEN @ ELSE @ + 1]
    /\ UNCHANGED <<key, canceled, flight, memory, rows, file, exports, faults, disturbed,
                   collided>>

\* The second look at the cache, under the lock.
Recheck(j) ==
    /\ pc[j] = "holding"
    /\ IF j \in canceled
       THEN Goto(j, "failing") /\ UNCHANGED <<memory, computes, disturbed>>
       ELSE /\ Goto(j, IF Hit(key[j]) THEN "leaving" ELSE "computing")
            /\ memory' = LookUpMemory(key[j])
            /\ disturbed' = disturbed \cup Evicted(memory')
            /\ computes' = [computes EXCEPT ![key[j]] = IF Hit(key[j]) THEN @ ELSE @ + 1]
    /\ UNCHANGED <<key, canceled, flight, rows, file, exports, faults, collided>>

\* _compute up to the last stage: an adapter raises, the validation rejects the
\* mesh, the token is set, or the payloads are ready.
Compute(j) ==
    /\ pc[j] = "computing"
    /\ \/ Goto(j, "failing") /\ disturbed' = disturbed \cup {key[j]}
       \/ j \notin canceled /\ Goto(j, "storing") /\ UNCHANGED disturbed
    /\ UNCHANGED <<key, canceled, flight, memory, rows, file, exports, faults, computes,
                   collided>>

\* _store_artifact: put_bytes raises BlobCollisionError over a damaged file.
Store(j) ==
    /\ pc[j] = "storing"
    /\ IF file[key[j]] = "bad" \/ j \in canceled
       THEN Goto(j, "failing") /\ disturbed' = disturbed \cup {key[j]}
       ELSE Goto(j, "stored") /\ UNCHANGED disturbed
    /\ file' = [file EXCEPT ![key[j]] = IF @ = "bad" THEN "bad" ELSE "ok"]
    /\ collided' = collided \cup (IF file[key[j]] = "bad" THEN {key[j]} ELSE {})
    /\ UNCHANGED <<key, canceled, flight, memory, rows, exports, faults, computes>>

Remember(j) ==
    /\ pc[j] = "stored"
    /\ memory' = IF CacheSize = 0 THEN memory ELSE Remembered(key[j])
    /\ disturbed' = disturbed \cup Evicted(memory')
                    \cup (IF CacheSize = 0 THEN {key[j]} ELSE {})
    /\ Goto(j, "leaving")
    /\ UNCHANGED <<key, canceled, flight, rows, file, exports, faults, computes, collided>>

\* Mutant: a failure leaves the lock held.
ReleaseOnSuccess(j) ==
    /\ pc[j] \in {"leaving", "failing"}
    /\ owner' = IF pc[j] = "leaving" THEN [owner EXCEPT ![mine[j]] = Nobody] ELSE owner
    /\ Goto(j, IF pc[j] = "leaving" THEN "released" ELSE "failed")
    /\ UNCHANGED <<key, canceled, entry, mine, users, memory, rows, file, exports, faults,
                   computes, disturbed, collided>>

\* The finally block: release, then _unregister_key_lock.
Release(j) ==
    /\ pc[j] \in {"leaving", "failing"}
    /\ owner' = [owner EXCEPT ![mine[j]] = Nobody]
    /\ Goto(j, IF pc[j] = "leaving" THEN "released" ELSE "failed")
    /\ UNCHANGED <<key, canceled, entry, mine, users, memory, rows, file, exports, faults,
                   computes, disturbed, collided>>

\* Mutant: the entry goes with its first user.
UnregisterFirst(j) ==
    /\ pc[j] \in {"released", "failed"}
    /\ users' = [users EXCEPT ![mine[j]] = @ - 1]
    /\ entry' = [entry EXCEPT ![key[j]] = IF @ = mine[j] THEN 0 ELSE @]
    /\ mine' = [mine EXCEPT ![j] = 0]
    /\ Goto(j, IF pc[j] = "released" THEN "returned" ELSE "done")
    /\ UNCHANGED <<key, canceled, owner, memory, rows, file, exports, faults, computes,
                   disturbed, collided>>

Unregister(j) ==
    /\ pc[j] \in {"released", "failed"}
    /\ users' = [users EXCEPT ![mine[j]] = @ - 1]
    /\ entry' = [entry EXCEPT ![key[j]] = IF users'[mine[j]] = 0 /\ @ = mine[j] THEN 0 ELSE @]
    /\ mine' = [mine EXCEPT ![j] = 0]
    /\ Goto(j, IF pc[j] = "released" THEN "returned" ELSE "done")
    /\ UNCHANGED <<key, canceled, owner, memory, rows, file, exports, faults, computes,
                   disturbed, collided>>

\* The worker verifies the files and commits (Workers.tla has its details).
Commit(j) ==
    /\ pc[j] = "returned"
    /\ rows' = IF j \in canceled \/ file[key[j]] # "ok" THEN rows ELSE rows \cup {j}
    /\ Goto(j, "done")
    /\ UNCHANGED <<key, canceled, flight, memory, file, exports, faults, computes, disturbed,
                   collided>>

Cancel(j) ==
    /\ pc[j] \notin Ended
    /\ j \notin canceled
    /\ faults < MaxFaults
    /\ faults' = faults + 1
    /\ canceled' = canceled \cup {j}
    /\ UNCHANGED <<key, pc, flight, memory, rows, file, exports, computes, disturbed, collided>>

-----------------------------------------------------------------------------
(* ExportService *)

ActiveExport(x) == export[x].state \in {"queued", "slicing", "stored"}
OfKey(k) == {x \in 1 .. Len(export) : export[x].key = k}

\* _load_source: a geometry artifact of the project whose file verifies.
SourceReady(k) == file[k] = "ok" /\ \E j \in rows : key[j] = k

Ask(r) ==
    /\ pc[r] = "idle"
    /\ SourceReady(key[r])
    /\ Goto(r, "asking")
    /\ UNCHANGED <<key, canceled, flight, memory, rows, file, exports, faults, computes,
                   disturbed, collided>>

\* Mutant: there is no guard.
EnterAnyTime(r) ==
    /\ pc[r] = "asking"
    /\ Goto(r, "checking")
    /\ UNCHANGED <<key, canceled, flight, memory, rows, file, exports, faults, computes,
                   disturbed, collided>>

\* with self._request_guard
Enter(r) ==
    /\ pc[r] = "asking"
    /\ guard = Nobody
    /\ guard' = r
    /\ Goto(r, "checking")
    /\ UNCHANGED <<key, canceled, flight, memory, rows, file, export, ofile, faults, computes,
                   disturbed, collided>>

\* _cached_or_active: answer with a succeeded job whose files verify or with the
\* active one; unlink the damaged files of a succeeded job on the way.
Check(r) ==
    /\ pc[r] = "checking"
    /\ LET k == key[r]
           succeeded == {x \in OfKey(k) : export[x].state = "succeeded"}
       IN  /\ IF (succeeded # {} /\ ofile[k] = "ok") \/ \E x \in OfKey(k) : ActiveExport(x)
              THEN guard' = Nobody /\ Goto(r, "done")
              ELSE Goto(r, "submitting") /\ UNCHANGED guard
           /\ ofile' = [ofile EXCEPT ![k] = IF succeeded # {} /\ @ = "bad" THEN "none" ELSE @]
    /\ UNCHANGED <<key, canceled, flight, memory, rows, file, export, faults, computes,
                   disturbed, collided>>

\* manager.submit with supersession export:<project>, then the guard is left.
Submit(r) ==
    /\ pc[r] = "submitting"
    /\ export' = Append([x \in 1 .. Len(export) |->
                            IF ActiveExport(x) THEN [export[x] EXCEPT !.state = "canceled"]
                            ELSE export[x]],
                        [key |-> key[r], state |-> "queued", late |-> FALSE])
    /\ guard' = Nobody
    /\ Goto(r, "done")
    /\ UNCHANGED <<key, canceled, flight, memory, rows, file, ofile, faults, computes,
                   disturbed, collided>>

SetState(x, s) == export' = [export EXCEPT ![x].state = s]

\* make_work: the source is verified again; the quality gate, the packaging or
\* the slicer may fail; put_bytes fails over a damaged file.
Slice(x) ==
    /\ export[x].state = "queued"
    /\ SetState(x, IF SourceReady(export[x].key) THEN "slicing" ELSE "failed")
    /\ UNCHANGED <<key, pc, canceled, flight, memory, rows, file, guard, ofile, faults,
                   computes, disturbed, collided>>

StoreExport(x) ==
    /\ export[x].state = "slicing"
    /\ \/ SetState(x, "failed") /\ UNCHANGED <<ofile, collided>>
       \/ /\ ofile[export[x].key] # "bad"
          /\ ofile' = [ofile EXCEPT ![export[x].key] = "ok"]
          /\ SetState(x, "stored")
          /\ UNCHANGED collided
       \/ /\ ofile[export[x].key] = "bad"
          /\ SetState(x, "collided")
          /\ UNCHANGED <<ofile, collided>>
    /\ UNCHANGED <<key, pc, canceled, flight, memory, rows, file, guard, faults, computes,
                   disturbed>>

FinishExport(x) ==
    /\ export[x].state = "stored"
    /\ SetState(x, IF ofile[export[x].key] = "ok" THEN "succeeded" ELSE "failed")
    /\ UNCHANGED <<key, pc, canceled, flight, memory, rows, file, guard, ofile, faults,
                   computes, disturbed, collided>>

-----------------------------------------------------------------------------
(* The environment *)

\* A geometry file disappears or is damaged.
Damage(k, how) ==
    /\ faults < MaxFaults
    /\ file[k] = "ok"
    /\ file' = [file EXCEPT ![k] = how]
    /\ faults' = faults + 1
    /\ disturbed' = disturbed \cup {k}
    /\ UNCHANGED <<key, pc, canceled, flight, memory, rows, exports, computes, collided>>

\* So does an export file; jobs whose request has looked already are marked, and
\* so are all if no succeeded job names the file.
DamageExport(k, how) ==
    /\ faults < MaxFaults
    /\ ofile[k] = "ok"
    /\ ofile' = [ofile EXCEPT ![k] = how]
    /\ faults' = faults + 1
    /\ export' = [x \in 1 .. Len(export) |->
                    IF export[x].key = k /\ ActiveExport(x) THEN [export[x] EXCEPT !.late = TRUE]
                    ELSE export[x]]
    /\ UNCHANGED <<key, pc, canceled, flight, memory, rows, file, guard, computes, disturbed,
                   collided>>

\* The process goes down: threads, locks and the memory cache are gone, and
\* reconciliation fails what was active.
Restart ==
    /\ faults < MaxFaults
    /\ faults' = faults + 1
    /\ disturbed' = disturbed \cup {key[j] : j \in {i \in Job : Computing(i)}}
                    \cup {k \in ToSet(memory) : \A j \in rows : key[j] # k}
    /\ pc' = [a \in Actor |-> IF pc[a] \in {"idle", "absent"} THEN pc[a] ELSE "done"]
    /\ entry' = [k \in Key |-> 0]
    /\ mine' = [j \in Job |-> 0]
    /\ users' = [e \in Entry |-> 0]
    /\ owner' = [e \in Entry |-> Nobody]
    /\ memory' = <<>>
    /\ guard' = Nobody
    /\ export' = [x \in 1 .. Len(export) |->
                    IF ActiveExport(x) THEN [export[x] EXCEPT !.state = "failed"] ELSE export[x]]
    /\ UNCHANGED <<key, canceled, rows, file, ofile, computes, collided>>

-----------------------------------------------------------------------------
GeometryStep(j) ==
    \/ Begin(j) \/ Register(j) \/ Acquire(j) \/ GiveUp(j) \/ Recheck(j) \/ Compute(j)
    \/ Store(j) \/ Remember(j) \/ Release(j) \/ Unregister(j) \/ Commit(j)

ExportStep(r) == Ask(r) \/ Enter(r) \/ Check(r) \/ Submit(r)
ExportWork(x) == Slice(x) \/ StoreExport(x) \/ FinishExport(x)

Next ==
    \/ \E j \in Job : GeometryStep(j) \/ Cancel(j)
    \/ \E r \in Request : ExportStep(r)
    \/ \E x \in 1 .. Len(export) : ExportWork(x)
    \/ \E k \in Key, how \in {"none", "bad"} : Damage(k, how) \/ DamageExport(k, how)
    \/ Restart

\* Every thread that can run is run; the lock need not be fair.
Fairness == /\ \A j \in Job : WF_vars(GeometryStep(j))
            /\ \A r \in Request : WF_vars(ExportStep(r))

Spec == Init /\ [][Next]_vars /\ Fairness

-----------------------------------------------------------------------------
(* Properties *)

TypeOK ==
    /\ \A k \in Key : entry[k] # 0 => users[entry[k]] = Cardinality({j \in Job : mine[j] = entry[k]})
    /\ \A j \in Job : mine[j] # 0 => entry[key[j]] = mine[j]
    /\ \A e \in Entry : owner[e] # Nobody => mine[owner[e]] = e
    /\ Len(memory) <= CacheSize
    /\ rows \subseteq Job
    /\ guard # Nobody => pc[guard] \in {"checking", "submitting"}

\* "A per-derivation single-flight lock means simultaneous jobs compute once"
\* (docs/geometry-jobs.md): no two threads compute one key together, although
\* the lock's entry is created and dropped as jobs come and go ...
SingleFlight ==
    \A i, j \in Job : Computing(i) /\ Computing(j) /\ i # j => key[i] # key[j]

\* ... and a key is computed a second time only if the first computation failed
\* or its result was lost, damaged or evicted since.
ComputeOnce == \A k \in Key : computes[k] > 1 => k \in disturbed

\* When no job is under way, no lock is held and no entry is left in the table.
NoLeakedLock ==
    (\A j \in Job : pc[j] \in Ended \cup {"idle"}) =>
        /\ \A k \in Key : entry[k] = 0
        /\ \A e \in Entry : owner[e] = Nobody /\ users[e] = 0

\* A job that has begun ends, also one that waits for a leader that fails or is
\* canceled: the acquire loop is left when the lock is free or the token set.
JobsEnd == \A j \in Job : pc[j] \notin {"idle", "absent"} ~> pc[j] = "done"

\* Identical simultaneous requests share one export job (_request_guard): an
\* active job is superseded only by an export of something else.
IdenticalShare ==
    [][\A x \in 1 .. Len(export) :
         ActiveExport(x) /\ export'[x].state = "canceled" =>
            export'[Len(export')].key # export[x].key]_vars

\* "A corrupt generated cache blob is removed only after failed content
\* verification so deterministic regeneration can restore it"
\* (docs/export-orchestration.md): an export fails over a damaged file only if
\* the damage came after its request had looked, or no succeeded job names the
\* file.
RetryRestores ==
    \A x \in 1 .. Len(export) : export[x].state = "collided" =>
        export[x].late \/ \A y \in OfKey(export[x].key) : export[y].state # "succeeded"

\* The lock table and the two caches do what threads and requests rely on.
OutputInv == TypeOK /\ SingleFlight /\ NoLeakedLock /\ RetryRestores

\* Where an export finds its geometry damaged, the failure tells the user to
\* "Regenerate and select the verified geometry artifact" (exporting.py); the
\* pipeline recomputes it, and put_bytes refuses to store it over the damaged
\* file.
RegenerationRepairs == collided = {}

=============================================================================
