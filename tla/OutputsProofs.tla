---------------------------- MODULE OutputsProofs ---------------------------
(***************************************************************************)
(* Geometry and export jobs for every number of threads, keys, cache sizes *)
(* and faults.  The inductive invariant has a part for each of the three   *)
(* things that threads share: the table of per-key locks, the caches with  *)
(* the history of what was computed, and the export jobs under the guard.  *)
(***************************************************************************)
EXTENDS Outputs, FiniteSetTheorems, SequenceTheorems, TLAPS

Held == {"holding", "computing", "storing", "stored", "leaving", "failing"}
Registered == Held \cup {"waiting", "released", "failed"}
Label == Registered \cup {"idle", "absent", "missed", "returned", "done",
                          "asking", "checking", "submitting"}
Health == {"none", "ok", "bad"}

PcFits == key \in [Actor -> Key] /\ pc \in [Actor -> Label]

(* The table of locks *)

UsersOf(e) == {j \in Job : mine[j] = e}

TableFits ==
    /\ entry \in [Key -> {0} \cup Entry] /\ mine \in [Job -> {0} \cup Entry]
    /\ users \in [Entry -> Nat] /\ owner \in [Entry -> Job \cup {Nobody}]
    /\ \A j \in Job : mine[j] # 0 <=> pc[j] \in Registered
    /\ \A j \in Job : mine[j] # 0 => entry[key[j]] = mine[j]
    /\ \A k, l \in Key : entry[k] # 0 /\ entry[k] = entry[l] => k = l
    /\ \A k \in Key : entry[k] # 0 => \E j \in Job : mine[j] = entry[k]
    /\ \A e \in Entry : users[e] = Cardinality(UsersOf(e))

OwnersFit ==
    /\ \A e \in Entry : owner[e] # Nobody => mine[owner[e]] = e /\ pc[owner[e]] \in Held
    /\ \A j \in Job : pc[j] \in Held => owner[mine[j]] = j

LockInv == TableFits /\ OwnersFit

(* The caches: what was computed and not disturbed is found, or its        *)
(* computation is under way.                                               *)

InFlight(k) == \E j \in Job : key[j] = k /\ Computing(j)

CacheInv ==
    /\ memory \in Seq(Key) /\ Len(memory) <= CacheSize
    /\ computes \in [Key -> Nat] /\ file \in [Key -> Health] /\ rows \subseteq Job
    /\ \A k \in Key : computes[k] >= 1 /\ k \notin disturbed => Hit(k) \/ InFlight(k)
    /\ \A j \in Job : pc[j] = "stored" /\ key[j] \notin disturbed => file[key[j]] = "ok"
    /\ ComputeOnce

(* Export jobs *)

State == {"queued", "slicing", "stored", "canceled", "failed", "succeeded", "collided"}
ExportRecord == [key : Key, late : BOOLEAN,
                 state : State]

NoSuccess(k) == \A x \in OfKey(k) : export[x].state # "succeeded"

GuardFits ==
    /\ guard \in Request \cup {Nobody}
    /\ \A r \in Request : pc[r] \in {"checking", "submitting"} <=> guard = r

ExportsFit ==
    /\ export \in Seq(ExportRecord) /\ ofile \in [Key -> Health]
    /\ \A x \in 1 .. Len(export) :
          /\ ActiveExport(x) => x = Len(export)
          /\ ActiveExport(x) /\ ~export[x].late =>
                NoSuccess(export[x].key) \/ ofile[export[x].key] # "bad"
          /\ export[x].state = "collided" /\ ~export[x].late =>
                NoSuccess(export[x].key) /\ ofile[export[x].key] = "bad"

\* What a request has checked stays so while it has the guard.
CheckedFits ==
    \A r \in Request : pc[r] = "submitting" =>
        /\ \A x \in OfKey(key[r]) : ~ActiveExport(x)
        /\ NoSuccess(key[r]) \/ ofile[key[r]] = "none"

ExportInv == GuardFits /\ ExportsFit /\ CheckedFits

OInv == PcFits /\ LockInv /\ CacheInv /\ ExportInv

-----------------------------------------------------------------------------
(* The memory cache *)

LEMMA WithoutFits ==
    ASSUME memory \in Seq(Key), NEW k
    PROVE  Without(k) \in Seq(Key) /\ Len(Without(k)) <= Len(memory)
<1>1. CASE k \in ToSet(memory)
    <2> DEFINE n == CHOOSE n \in DOMAIN memory : memory[n] = k
               L == Len(memory)
    <2>1. n \in 1 .. L /\ L \in Nat
        BY <1>1 DEF ToSet
    <2> HIDE DEF n
    <2>2. [i \in 1 .. L - 1 |-> IF i < n THEN memory[i] ELSE memory[i + 1]] \in [1 .. L - 1 -> Key]
        BY <2>1
    <2>3. L - 1 \in Nat
        BY <2>1
    <2>4. Without(k) = [i \in 1 .. L - 1 |-> IF i < n THEN memory[i] ELSE memory[i + 1]]
        BY <1>1 DEF Without, n
    <2> QED
        BY <2>2, <2>3, <2>4
<1>2. CASE k \notin ToSet(memory)
    BY <1>2 DEF Without
<1> QED
    BY <1>1, <1>2

LEMMA RememberedFits ==
    ASSUME memory \in Seq(Key), NEW k \in Key
    PROVE  /\ Remembered(k) \in Seq(Key) /\ Len(Remembered(k)) <= CacheSize
           /\ CacheSize # 0 => k \in ToSet(Remembered(k))
<1> DEFINE all == Append(Without(k), k)
           L == Len(all)
           first == IF L > CacheSize THEN L - CacheSize + 1 ELSE 1
<1>1. all \in Seq(Key) /\ L \in Nat \ {0} /\ all[L] = k /\ CacheSize \in Nat
    BY WithoutFits, SizeAssumption
<1> HIDE DEF all
<1>2. Remembered(k) = SubSeq(all, first, L) /\ first \in 1 .. L + 1
    BY <1>1 DEF Remembered, all
<1>3. first \in Int /\ L \in Int /\ first <= L + 1 /\ \A i \in first .. L : all[i] \in Key
    BY <1>1
<1> HIDE DEF first
<1>4. SubSeq(all, first, L) \in Seq(Key) /\ Len(SubSeq(all, first, L)) = L - first + 1
      /\ \A i \in 1 .. L - first + 1 : SubSeq(all, first, L)[i] = all[first + i - 1]
    BY <1>3, SubSeqProperties
<1>5. L - first + 1 <= CacheSize
    BY <1>1 DEF first
<1>6. CASE CacheSize # 0
    <2>1. PICK n \in 1 .. L - first + 1 : first + n - 1 = L
        <3>1. L - first + 1 \in 1 .. L - first + 1 /\ first + (L - first + 1) - 1 = L
            BY <1>1, <1>3, <1>6 DEF first
        <3> QED
            BY <3>1
    <2>2. SubSeq(all, first, L)[n] = k
        BY <1>1, <1>4, <2>1
    <2>3. n \in DOMAIN SubSeq(all, first, L)
        BY <1>4, <2>1
    <2>4. k \in ToSet(SubSeq(all, first, L))
        BY <2>2, <2>3 DEF ToSet
    <2> QED
        BY <1>2, <1>4, <1>5, <2>4
<1> QED
    BY <1>2, <1>4, <1>5, <1>6

LEMMA LookUpFits ==
    ASSUME memory \in Seq(Key), Len(memory) <= CacheSize, NEW k \in Key
    PROVE  LookUpMemory(k) \in Seq(Key) /\ Len(LookUpMemory(k)) <= CacheSize
<1>1. Len(memory) \in Nat /\ Len(Without(k)) \in Nat /\ CacheSize \in Nat
    BY WithoutFits, SizeAssumption
<1> QED
    BY <1>1, WithoutFits, RememberedFits DEF LookUpMemory

-----------------------------------------------------------------------------
(* What a step does to the threads *)

LEMMA EntryFits == /\ Cardinality(Job) \in Nat /\ Entry = 1 .. Cardinality(Job) /\ 0 \notin Entry
                   /\ \A e \in Entry : e \in Nat
BY JobAssumption, FS_CardinalityType DEF Entry

LEMMA GotoFits ==
    ASSUME PcFits, NEW a \in Actor, NEW label \in Label, Goto(a, label), key' = key
    PROVE  PcFits' /\ pc'[a] = label /\ \A b \in Actor : b # a => pc'[b] = pc[b]
BY DEF PcFits, Goto

LEMMA JobsAct ==
    /\ \A j \in Job : j \in Actor /\ j \notin Request
    /\ \A r \in Request : r \in Actor /\ r \notin Job
    /\ Nobody \notin Job /\ Nobody \notin Request
BY ApartAssumption DEF Actor

\* The labels are told apart, and each lies in the sets the invariant names.
LEMMA PcStep ==
    ASSUME PcFits, Next
    PROVE  PcFits'
<1>1. ASSUME NEW j \in Job, GeometryStep(j) \/ Cancel(j)
      PROVE  PcFits'
    <2>1. CASE Begin(j)
        BY <2>1, JobsAct, GotoFits DEF Begin, Label
    <2>2. CASE Register(j)
        BY <2>2, JobsAct, GotoFits DEF Register, Label, Registered
    <2>3. CASE Acquire(j)
        BY <2>3, JobsAct, GotoFits DEF Acquire, Label, Registered, Held
    <2>4. CASE GiveUp(j)
        BY <2>4, JobsAct, GotoFits DEF GiveUp, Label, Registered
    <2>5. CASE Recheck(j)
        BY <2>5, JobsAct, GotoFits DEF Recheck, Label, Registered, Held
    <2>6. CASE Compute(j)
        BY <2>6, JobsAct, GotoFits DEF Compute, Label, Registered, Held
    <2>7. CASE Store(j)
        BY <2>7, JobsAct, GotoFits DEF Store, Label, Registered, Held
    <2>8. CASE Remember(j)
        BY <2>8, JobsAct, GotoFits DEF Remember, Label, Registered, Held
    <2>9. CASE Release(j)
        BY <2>9, JobsAct, GotoFits DEF Release, Label, Registered
    <2>10. CASE Unregister(j)
        BY <2>10, JobsAct, GotoFits DEF Unregister, Label
    <2>11. CASE Commit(j)
        BY <2>11, JobsAct, GotoFits DEF Commit, Label
    <2>12. CASE Cancel(j)
        BY <2>12 DEF Cancel, PcFits
    <2> QED
        BY <1>1, <2>1, <2>2, <2>3, <2>4, <2>5, <2>6, <2>7, <2>8, <2>9, <2>10, <2>11, <2>12
           DEF GeometryStep
<1>2. ASSUME NEW r \in Request, ExportStep(r)
      PROVE  PcFits'
    <2>1. CASE Ask(r)
        BY <2>1, JobsAct, GotoFits DEF Ask, Label
    <2>2. CASE Enter(r)
        BY <2>2, JobsAct, GotoFits DEF Enter, Label
    <2>3. CASE Check(r)
        BY <2>3, JobsAct, GotoFits DEF Check, Label
    <2>4. CASE Submit(r)
        BY <2>4, JobsAct, GotoFits DEF Submit, Label
    <2> QED
        BY <1>2, <2>1, <2>2, <2>3, <2>4 DEF ExportStep
<1>3. ASSUME NEW x \in 1 .. Len(export), ExportWork(x)
      PROVE  PcFits'
    BY <1>3 DEF ExportWork, Slice, StoreExport, FinishExport, PcFits
<1>4. ASSUME NEW k \in Key, NEW how \in {"none", "bad"}, Damage(k, how) \/ DamageExport(k, how)
      PROVE  PcFits'
    BY <1>4 DEF Damage, DamageExport, PcFits
<1>5. CASE Restart
    BY <1>5 DEF Restart, PcFits, Label
<1> QED
    BY <1>1, <1>2, <1>3, <1>4, <1>5 DEF Next

-----------------------------------------------------------------------------
(* The table of locks *)

\* A step that neither takes nor leaves a lock keeps the table.
LEMMA LockFrame ==
    ASSUME LockInv, UNCHANGED <<key, flight>>,
           \A j \in Job : /\ pc'[j] \in Registered <=> pc[j] \in Registered
                          /\ pc'[j] \in Held <=> pc[j] \in Held
    PROVE  LockInv'
<1>1. UNCHANGED <<key, entry, mine, users, owner>>
    BY DEF flight
<1>2. \A e : UsersOf(e)' = UsersOf(e)
    BY <1>1 DEF UsersOf
<1>3. TableFits'
    BY <1>1, <1>2 DEF LockInv, TableFits
<1>4. OwnersFit'
    <2>1. \A e \in Entry : owner[e] \in Job \cup {Nobody}
        BY DEF LockInv, TableFits
    <2> QED
        BY <1>1, <2>1 DEF LockInv, OwnersFit
<1> QED
    BY <1>3, <1>4 DEF LockInv

\* At most as many numbers are in use as there are other jobs.
LEMMA FreeEntry ==
    ASSUME LockInv, NEW j \in Job, mine[j] = 0
    PROVE  \E n \in Entry : \A i \in Job : mine[i] # n
<1> SUFFICES ASSUME \A n \in Entry : \E i \in Job : mine[i] = n
             PROVE  FALSE
    OBVIOUS
<1> DEFINE f == [n \in Entry |-> CHOOSE i \in Job : mine[i] = n]
<1>1. \A n \in Entry : f[n] \in Job /\ mine[f[n]] = n
    OBVIOUS
<1>2. f \in [Entry -> Job \ {j}]
    BY <1>1, EntryFits
<1> HIDE DEF f
<1>3. IsFiniteSet(Job \ {j}) /\ Cardinality(Job \ {j}) = Cardinality(Job) - 1
    BY JobAssumption, FS_RemoveElement
<1>4. IsFiniteSet(Entry) /\ Cardinality(Entry) = Cardinality(Job)
    <2>1. Cardinality(Job) \in Nat /\ 1 \in Int /\ Cardinality(Job) \in Int
        BY EntryFits
    <2> QED
        BY <2>1, FS_Interval DEF Entry
<1>5. Cardinality(Job \ {j}) < Cardinality(Entry)
    BY <1>3, <1>4, EntryFits
<1>6. \E m, n \in Entry : m # n /\ f[m] = f[n]
    BY <1>2, <1>3, <1>4, <1>5, FS_PigeonHole
<1> QED
    BY <1>1, <1>6

LEMMA UsersFinite ==
    ASSUME NEW e
    PROVE  IsFiniteSet(UsersOf(e)) /\ Cardinality(UsersOf(e)) \in Nat
BY JobAssumption, FS_Subset, FS_CardinalityType DEF UsersOf

LEMMA RegisterLock ==
    ASSUME PcFits, LockInv, NEW j \in Job, Register(j)
    PROVE  LockInv'
<1> DEFINE e == IF entry[key[j]] # 0 THEN entry[key[j]]
                ELSE CHOOSE n \in Entry : \A i \in Job : mine[i] # n
<1>1. PICK d \in Entry : d = e
    <2>1. mine[j] = 0 /\ key[j] \in Key
        BY JobsAct DEF PcFits, LockInv, TableFits, Register, Registered, Held
    <2>2. \E n \in Entry : \A i \in Job : mine[i] # n
        BY <2>1, FreeEntry
    <2>3. entry[key[j]] \in {0} \cup Entry
        BY <2>1 DEF LockInv, TableFits
    <2> QED
        BY <2>2, <2>3
<1>2. PICK k \in Key : k = key[j]
    BY JobsAct DEF PcFits
<1>3. /\ entry' = [entry EXCEPT ![k] = d] /\ mine' = [mine EXCEPT ![j] = d]
      /\ users' = [users EXCEPT ![d] = @ + 1] /\ owner' = owner /\ key' = key
      /\ pc[j] = "missed" /\ Goto(j, "waiting")
    BY <1>1, <1>2 DEF Register
<1>4. mine[j] = 0
    BY <1>3 DEF LockInv, TableFits, Registered, Held
<1>5. \/ entry[k] = d
      \/ entry[k] = 0 /\ \A i \in Job : mine[i] # d
    <2>1. CASE entry[k] = 0
        <3>1. \E n \in Entry : \A i \in Job : mine[i] # n
            BY <1>4, FreeEntry
        <3>2. d = CHOOSE n \in Entry : \A i \in Job : mine[i] # n
            BY <1>1, <1>2, <2>1
        <3> QED
            BY <2>1, <3>1, <3>2
    <2>2. CASE entry[k] # 0
        BY <1>1, <1>2, <2>2
    <2> QED
        BY <2>1, <2>2
<1> HIDE DEF e
<1>6. pc'[j] = "waiting" /\ \A i \in Job : i # j => pc'[i] = pc[i]
    BY <1>3, JobsAct, GotoFits DEF Label, Registered
<1>7. entry' \in [Key -> {0} \cup Entry] /\ mine' \in [Job -> {0} \cup Entry]
      /\ users' \in [Entry -> Nat] /\ owner' \in [Entry -> Job \cup {Nobody}]
    BY <1>1, <1>3 DEF LockInv, TableFits
<1>8. /\ entry'[k] = d /\ mine'[j] = d
      /\ \A l \in Key : l # k => entry'[l] = entry[l]
      /\ \A i \in Job : i # j => mine'[i] = mine[i]
    BY <1>3 DEF LockInv, TableFits
<1>9. d # 0
    BY EntryFits
<1>10. \A i \in Job : mine'[i] # 0 <=> pc'[i] \in Registered
    BY <1>6, <1>8, <1>9 DEF LockInv, TableFits, Registered
<1>11. \A i \in Job : mine'[i] # 0 => entry'[key'[i]] = mine'[i]
    <2>1. \A i \in Job : key[i] \in Key
        BY JobsAct DEF PcFits
    <2>2. \A i \in Job : mine[i] # 0 => entry[key[i]] = mine[i]
        BY DEF LockInv, TableFits
    <2> QED
        BY <1>2, <1>3, <1>5, <1>8, <2>1, <2>2
<1>12. \A l, m \in Key : entry'[l] # 0 /\ entry'[l] = entry'[m] => l = m
    <2>1. \A l \in Key : l # k => entry[l] # d
        BY <1>5, <1>9 DEF LockInv, TableFits
    <2> QED
        BY <1>8, <2>1 DEF LockInv, TableFits
<1>13. \A l \in Key : entry'[l] # 0 => \E i \in Job : mine'[i] = entry'[l]
    <2>1. \A l \in Key : entry[l] # 0 => \E i \in Job : i # j /\ mine[i] = entry[l]
        BY <1>4 DEF LockInv, TableFits
    <2> QED
        BY <1>8, <2>1
<1>14. ASSUME NEW n \in Entry
       PROVE  users'[n] = Cardinality(UsersOf(n)')
    <2>1. users[n] = Cardinality(UsersOf(n)) /\ j \notin UsersOf(n)
        BY <1>4, EntryFits DEF LockInv, TableFits, UsersOf
    <2>2. CASE n = d
        <3>1. UsersOf(n)' = UsersOf(n) \cup {j}
            BY <1>8, <2>2 DEF UsersOf
        <3>2. users'[n] = users[n] + 1
            BY <1>3, <2>2 DEF LockInv, TableFits
        <3> QED
            BY <2>1, <3>1, <3>2, UsersFinite, FS_AddElement
    <2>3. CASE n # d
        <3>1. UsersOf(n)' = UsersOf(n)
            BY <1>4, <1>8, <2>3, EntryFits DEF UsersOf
        <3> QED
            BY <1>3, <2>1, <2>3, <3>1 DEF LockInv, TableFits
    <2> QED
        BY <2>2, <2>3
<1>15. TableFits'
    BY <1>7, <1>10, <1>11, <1>12, <1>13, <1>14 DEF TableFits
<1>16. OwnersFit'
    <2>1. \A n \in Entry : owner[n] \in Job \cup {Nobody}
        BY DEF LockInv, TableFits
    <2>2. \A n \in Entry : owner[n] # j
        BY <1>4, EntryFits, JobsAct DEF LockInv, OwnersFit
    <2> QED
        BY <1>3, <1>6, <1>8, <2>1, <2>2 DEF LockInv, OwnersFit, Held
<1> QED
    BY <1>15, <1>16 DEF LockInv

\* Acquire and Release only change one owner and its job's place.
LEMMA AcquireLock ==
    ASSUME PcFits, LockInv, NEW j \in Job, Acquire(j)
    PROVE  LockInv'
<1>1. /\ pc[j] = "waiting" /\ Goto(j, "holding") /\ UNCHANGED <<key, entry, mine, users>>
      /\ owner' = [owner EXCEPT ![mine[j]] = j] /\ owner[mine[j]] = Nobody
    BY DEF Acquire
<1>2. mine[j] \in Entry
    BY <1>1, EntryFits DEF LockInv, TableFits, Registered
<1>3. pc'[j] = "holding" /\ \A i \in Job : i # j => pc'[i] = pc[i]
    BY <1>1, JobsAct, GotoFits DEF Label, Registered, Held
<1>4. \A e : UsersOf(e)' = UsersOf(e)
    BY <1>1 DEF UsersOf
<1>5. owner' \in [Entry -> Job \cup {Nobody}]
    BY <1>1 DEF LockInv, TableFits
<1>6. TableFits'
    BY <1>1, <1>3, <1>4, <1>5 DEF LockInv, TableFits, Registered, Held
<1>7. OwnersFit'
    <2>1. \A i \in Job : pc[i] \in Held => mine[i] \in Entry /\ owner[mine[i]] = i
        BY EntryFits DEF LockInv, TableFits, OwnersFit, Registered
    <2>2. owner'[mine[j]] = j /\ \A e \in Entry : e # mine[j] => owner'[e] = owner[e]
        BY <1>1, <1>2 DEF LockInv, TableFits
    <2>3. \A i \in Job : pc[i] \in Held => mine[i] # mine[j]
        BY <1>1, <2>1, JobsAct
    <2>4. \A i \in Job : pc'[i] \in Held => owner'[mine'[i]] = i
        BY <1>1, <1>3, <2>1, <2>2, <2>3
    <2>5. \A e \in Entry : owner'[e] # Nobody => mine'[owner'[e]] = e /\ pc'[owner'[e]] \in Held
        <3>1. \A e \in Entry : owner[e] # Nobody =>
                  owner[e] \in Job /\ mine[owner[e]] = e /\ pc[owner[e]] \in Held
            BY DEF LockInv, TableFits, OwnersFit
        <3>2. "holding" \in Held /\ "waiting" \notin Held
            BY DEF Held
        <3> QED
            BY <1>1, <1>2, <1>3, <2>2, <3>1, <3>2
    <2> QED
        BY <2>4, <2>5 DEF OwnersFit
<1> QED
    BY <1>6, <1>7 DEF LockInv

LEMMA ReleaseLock ==
    ASSUME PcFits, LockInv, NEW j \in Job, Release(j)
    PROVE  LockInv'
<1>1. /\ pc[j] \in {"leaving", "failing"} /\ UNCHANGED <<key, entry, mine, users>>
      /\ owner' = [owner EXCEPT ![mine[j]] = Nobody]
    BY DEF Release
<1>2. pc[j] \in Held /\ pc[j] \in Registered
    BY <1>1 DEF Held, Registered
<1>3. pc'[j] \in Registered /\ pc'[j] \notin Held /\ \A i \in Job : i # j => pc'[i] = pc[i]
    BY JobsAct, GotoFits DEF Release, Label, Registered, Held
<1>4. mine[j] \in Entry /\ owner[mine[j]] = j
    BY <1>2 DEF LockInv, TableFits, OwnersFit
<1>5. \A e : UsersOf(e)' = UsersOf(e)
    BY <1>1 DEF UsersOf
<1>6. owner' \in [Entry -> Job \cup {Nobody}]
    BY <1>1 DEF LockInv, TableFits
<1>7. TableFits'
    BY <1>1, <1>2, <1>3, <1>5, <1>6 DEF LockInv, TableFits
<1>8. OwnersFit'
    <2>1. \A i \in Job : pc[i] \in Held => mine[i] \in Entry /\ owner[mine[i]] = i
        BY EntryFits DEF LockInv, TableFits, OwnersFit, Registered
    <2>2. owner'[mine[j]] = Nobody /\ \A e \in Entry : e # mine[j] => owner'[e] = owner[e]
        BY <1>1, <1>4 DEF LockInv, TableFits
    <2>3. \A i \in Job : pc'[i] \in Held => owner'[mine'[i]] = i
        BY <1>1, <1>3, <1>4, <2>1, <2>2
    <2>4. \A e \in Entry : owner[e] # Nobody =>
              owner[e] \in Job /\ mine[owner[e]] = e /\ pc[owner[e]] \in Held
        BY DEF LockInv, TableFits, OwnersFit
    <2>5. \A e \in Entry : owner'[e] # Nobody => mine'[owner'[e]] = e /\ pc'[owner'[e]] \in Held
        BY <1>1, <1>3, <1>4, <2>2, <2>4
    <2> QED
        BY <2>3, <2>5 DEF OwnersFit
<1> QED
    BY <1>7, <1>8 DEF LockInv

LEMMA UnregisterLock ==
    ASSUME PcFits, LockInv, NEW j \in Job, Unregister(j)
    PROVE  LockInv'
<1>1. PICK k \in Key : k = key[j]
    BY JobsAct DEF PcFits
<1>2. PICK d \in Entry : d = mine[j] /\ entry[k] = d
    BY <1>1 DEF LockInv, TableFits, Unregister, Registered
<1>3. /\ pc[j] \in {"released", "failed"} /\ UNCHANGED <<key, owner>>
      /\ users' = [users EXCEPT ![d] = @ - 1]
      /\ entry' = [entry EXCEPT ![k] = IF users'[d] = 0 THEN 0 ELSE @]
      /\ mine' = [mine EXCEPT ![j] = 0]
    BY <1>1, <1>2 DEF Unregister
<1>4. pc'[j] \notin Registered /\ \A i \in Job : i # j => pc'[i] = pc[i]
    BY JobsAct, GotoFits DEF Unregister, Label, Registered, Held
<1>5. mine'[j] = 0 /\ \A i \in Job : i # j => mine'[i] = mine[i]
    BY <1>3 DEF LockInv, TableFits
<1>6. /\ entry'[k] = (IF users'[d] = 0 THEN 0 ELSE d)
      /\ \A l \in Key : l # k => entry'[l] = entry[l]
    BY <1>2, <1>3 DEF LockInv, TableFits
<1>7. d # 0
    BY EntryFits
<1>8. \A n \in Entry : users'[n] \in Nat /\ users'[n] = Cardinality(UsersOf(n)')
    <2> SUFFICES ASSUME NEW n \in Entry
                 PROVE  users'[n] \in Nat /\ users'[n] = Cardinality(UsersOf(n)')
        OBVIOUS
    <2>1. users[n] = Cardinality(UsersOf(n))
        BY DEF LockInv, TableFits
    <2>2. CASE n = d
        <3>1. UsersOf(n)' = UsersOf(n) \ {j} /\ j \in UsersOf(n)
            BY <1>2, <1>5, <1>7, <2>2 DEF UsersOf
        <3>2. users'[n] = users[n] - 1
            BY <1>3, <2>2 DEF LockInv, TableFits
        <3>3. IsFiniteSet(UsersOf(n) \ {j}) /\ Cardinality(UsersOf(n) \ {j}) = users[n] - 1
            BY <2>1, <3>1, UsersFinite, FS_RemoveElement
        <3>4. Cardinality(UsersOf(n) \ {j}) \in Nat
            BY <3>3, FS_CardinalityType
        <3> QED
            BY <3>1, <3>2, <3>3, <3>4
    <2>3. CASE n # d
        <3>1. UsersOf(n)' = UsersOf(n)
            BY <1>2, <1>5, <2>3, EntryFits DEF UsersOf
        <3> QED
            BY <1>3, <2>1, <2>3, <3>1 DEF LockInv, TableFits
    <2> QED
        BY <2>2, <2>3
<1>9. \A i \in Job : i # j /\ mine[i] = d => users'[d] # 0
    <2>1. IsFiniteSet(UsersOf(d)')
        BY JobAssumption, FS_Subset DEF UsersOf
    <2>2. users'[d] = 0 => UsersOf(d)' = {}
        BY <1>8, <2>1, FS_EmptySet
    <2>3. \A i \in Job : i # j /\ mine[i] = d => i \in UsersOf(d)'
        BY <1>5 DEF UsersOf
    <2> QED
        BY <2>2, <2>3
<1>10. entry' \in [Key -> {0} \cup Entry] /\ mine' \in [Job -> {0} \cup Entry]
       /\ users' \in [Entry -> Nat] /\ owner' \in [Entry -> Job \cup {Nobody}]
    BY <1>2, <1>3, <1>8 DEF LockInv, TableFits
<1>11. \A i \in Job : mine'[i] # 0 <=> pc'[i] \in Registered
    BY <1>4, <1>5 DEF LockInv, TableFits
<1>12. \A i \in Job : mine'[i] # 0 => entry'[key'[i]] = mine'[i]
    <2>1. \A i \in Job : key[i] \in Key
        BY JobsAct DEF PcFits
    <2>2. \A i \in Job : mine[i] # 0 => entry[key[i]] = mine[i]
        BY DEF LockInv, TableFits
    <2> QED
        BY <1>2, <1>3, <1>5, <1>6, <1>9, <2>1, <2>2
<1>13. \A l, m \in Key : entry'[l] # 0 /\ entry'[l] = entry'[m] => l = m
    BY <1>2, <1>6 DEF LockInv, TableFits
<1>14. \A l \in Key : entry'[l] # 0 => \E i \in Job : mine'[i] = entry'[l]
    <2> SUFFICES ASSUME NEW l \in Key, entry'[l] # 0
                 PROVE  \E i \in Job : mine'[i] = entry'[l]
        OBVIOUS
    <2>1. CASE l = k
        <3>1. users'[d] # 0 /\ entry'[l] = d
            BY <1>6, <2>1
        <3>2. UsersOf(d)' # {}
            BY <1>8, <3>1, FS_EmptySet
        <3> QED
            BY <3>1, <3>2 DEF UsersOf
    <2>2. CASE l # k
        <3>1. entry'[l] = entry[l] /\ entry[l] # d
            BY <1>2, <1>6, <1>7, <2>2 DEF LockInv, TableFits
        <3>2. PICK i \in Job : mine[i] = entry[l]
            BY <3>1 DEF LockInv, TableFits
        <3> QED
            BY <1>2, <1>5, <3>1, <3>2
    <2> QED
        BY <2>1, <2>2
<1>15. TableFits'
    BY <1>8, <1>10, <1>11, <1>12, <1>13, <1>14 DEF TableFits
<1>16. OwnersFit'
    <2>1. pc[j] \notin Held
        BY <1>3 DEF Held
    <2>2. \A n \in Entry : owner[n] \in Job \cup {Nobody}
        BY DEF LockInv, TableFits
    <2>3. \A n \in Entry : owner[n] # Nobody => owner[n] # j
        BY <2>1 DEF LockInv, OwnersFit
    <2>4. pc'[j] \notin Held
        BY <1>4 DEF Registered
    <2> QED
        BY <1>3, <1>4, <1>5, <2>2, <2>3, <2>4 DEF LockInv, OwnersFit
<1> QED
    BY <1>15, <1>16 DEF LockInv

LEMMA RestartLock ==
    ASSUME PcFits, Restart
    PROVE  LockInv'
<1>1. /\ entry' = [k \in Key |-> 0] /\ mine' = [j \in Job |-> 0]
      /\ users' = [e \in Entry |-> 0] /\ owner' = [e \in Entry |-> Nobody]
    BY DEF Restart
<1>2. \A j \in Job : pc'[j] \notin Registered
    BY JobsAct DEF Restart, Registered, Held
<1>3. \A e \in Entry : UsersOf(e)' = {}
    BY <1>1, EntryFits DEF UsersOf
<1>4. Cardinality({}) = 0
    BY FS_EmptySet
<1>5. TableFits'
    BY <1>1, <1>2, <1>3, <1>4 DEF TableFits
<1>6. OwnersFit'
    BY <1>1, <1>2 DEF OwnersFit, Registered
<1> QED
    BY <1>5, <1>6 DEF LockInv

LEMMA LockStep ==
    ASSUME PcFits, LockInv, Next
    PROVE  LockInv'
<1>1. ASSUME NEW j \in Job, GeometryStep(j) \/ Cancel(j)
      PROVE  LockInv'
    <2> DEFINE Same == /\ UNCHANGED <<key, flight>>
                       /\ \A i \in Job : /\ pc'[i] \in Registered <=> pc[i] \in Registered
                                         /\ pc'[i] \in Held <=> pc[i] \in Held
    <2>1. CASE Begin(j)
        <3>1. Same
            BY <2>1, JobsAct, GotoFits DEF Begin, Label, Registered, Held
        <3> QED
            BY <3>1, LockFrame
    <2>2. CASE GiveUp(j)
        <3>1. Same
            BY <2>2, JobsAct, GotoFits DEF GiveUp, Label, Registered, Held
        <3> QED
            BY <3>1, LockFrame
    <2>3. CASE Recheck(j)
        <3>1. Same
            BY <2>3, JobsAct, GotoFits DEF Recheck, Label, Registered, Held
        <3> QED
            BY <3>1, LockFrame
    <2>4. CASE Compute(j)
        <3>1. Same
            BY <2>4, JobsAct, GotoFits DEF Compute, Label, Registered, Held
        <3> QED
            BY <3>1, LockFrame
    <2>5. CASE Store(j)
        <3>1. Same
            BY <2>5, JobsAct, GotoFits DEF Store, Label, Registered, Held
        <3> QED
            BY <3>1, LockFrame
    <2>6. CASE Remember(j)
        <3>1. Same
            BY <2>6, JobsAct, GotoFits DEF Remember, Label, Registered, Held
        <3> QED
            BY <3>1, LockFrame
    <2>7. CASE Commit(j)
        <3>1. Same
            BY <2>7, JobsAct, GotoFits DEF Commit, Label, Registered, Held
        <3> QED
            BY <3>1, LockFrame
    <2>8. CASE Cancel(j)
        BY <2>8, LockFrame DEF Cancel
    <2> QED
        BY <1>1, <2>1, <2>2, <2>3, <2>4, <2>5, <2>6, <2>7, <2>8,
           RegisterLock, AcquireLock, ReleaseLock, UnregisterLock DEF GeometryStep
<1>2. ASSUME NEW r \in Request, ExportStep(r)
      PROVE  LockInv'
    <2>1. UNCHANGED <<key, flight>>
        BY <1>2 DEF ExportStep, Ask, Enter, Check, Submit
    <2>2. \A j \in Job : pc'[j] = pc[j]
        BY <1>2, JobsAct DEF ExportStep, Ask, Enter, Check, Submit, Goto, PcFits
    <2> QED
        BY <2>1, <2>2, LockFrame
<1>3. ASSUME NEW x \in 1 .. Len(export), ExportWork(x)
      PROVE  LockInv'
    BY <1>3, LockFrame DEF ExportWork, Slice, StoreExport, FinishExport
<1>4. ASSUME NEW k \in Key, NEW how \in {"none", "bad"}, Damage(k, how) \/ DamageExport(k, how)
      PROVE  LockInv'
    BY <1>4, LockFrame DEF Damage, DamageExport
<1>5. CASE Restart
    BY <1>5, RestartLock
<1> QED
    BY <1>1, <1>2, <1>3, <1>4, <1>5 DEF Next

\* The lock makes computations of one key exclusive.
LEMMA HeldIsAlone ==
    ASSUME LockInv, NEW i \in Job, NEW j \in Job, key[i] = key[j],
           pc[i] \in Held, pc[j] \in Held
    PROVE  i = j
BY DEF LockInv, TableFits, OwnersFit, Registered

-----------------------------------------------------------------------------
(* The caches *)

\* What a step may do to them: what was computed is found after it, or its
\* computation goes on, or the key is marked; and a key is computed again only
\* if it is marked.
LEMMA CacheFrame ==
    ASSUME CacheInv, key' = key, disturbed \subseteq disturbed',
           memory' \in Seq(Key), Len(memory') <= CacheSize,
           file' \in [Key -> Health], rows' \subseteq Job, computes' \in [Key -> Nat],
           \A j \in Job : key[j] \in Key,
           \A k \in Key : Hit(k) => Hit(k)' \/ k \in disturbed',
           \A j \in Job : Computing(j) => \/ Computing(j)'
                                          \/ Hit(key[j])' \/ key[j] \in disturbed',
           \A j \in Job : pc'[j] = "stored" => file'[key[j]] = "ok" \/ key[j] \in disturbed',
           \A k \in Key : \/ computes'[k] = computes[k]
                          \/ InFlight(k)' /\ (computes'[k] > 1 => k \in disturbed')
    PROVE  CacheInv'
<1>1. \A k \in Key : computes'[k] >= 1 /\ k \notin disturbed' => Hit(k)' \/ InFlight(k)'
    <2> SUFFICES ASSUME NEW k \in Key, computes'[k] >= 1, k \notin disturbed', ~InFlight(k)'
                 PROVE  Hit(k)'
        OBVIOUS
    <2>1. computes[k] >= 1 /\ k \notin disturbed
        OBVIOUS
    <2>2. CASE Hit(k)
        BY <2>2
    <2>3. CASE InFlight(k)
        <3>1. PICK j \in Job : key[j] = k /\ Computing(j)
            BY <2>3 DEF InFlight
        <3>2. ~Computing(j)'
            BY <3>1 DEF InFlight
        <3>3. Hit(key[j])'
            BY <3>1, <3>2
        <3> QED
            BY <3>1, <3>3
    <2> QED
        BY <2>1, <2>2, <2>3 DEF CacheInv
<1>2. ComputeOnce'
    BY DEF CacheInv, ComputeOnce
<1>3. \A j \in Job : pc'[j] = "stored" /\ key'[j] \notin disturbed' => file'[key'[j]] = "ok"
    OBVIOUS
<1> QED
    BY <1>1, <1>2, <1>3 DEF CacheInv

\* A look at the cache keeps every key's files reachable, or marks the key.
LEMMA HitsStay ==
    ASSUME UNCHANGED <<key, file, rows>>, NEW k, Hit(k), Evicted(memory') \subseteq disturbed'
    PROVE  Hit(k)' \/ k \in disturbed'
BY DEF Hit, Evicted

LEMMA CacheStep ==
    ASSUME PcFits, LockInv, CacheInv, Next
    PROVE  CacheInv'
<1>1. \A j \in Job : key[j] \in Key
    BY JobsAct DEF PcFits
<1>2. memory \in Seq(Key) /\ Len(memory) <= CacheSize /\ file \in [Key -> Health]
      /\ rows \subseteq Job /\ computes \in [Key -> Nat]
    BY DEF CacheInv
<1>3. \A j \in Job : pc[j] = "stored" => file[key[j]] = "ok" \/ key[j] \in disturbed
    BY DEF CacheInv
\* The last four hypotheses of CacheFrame.
<1> DEFINE HitsKept == \A k \in Key : Hit(k) => Hit(k)' \/ k \in disturbed'
           WorkKept == \A j \in Job : Computing(j) => \/ Computing(j)'
                                                      \/ Hit(key[j])' \/ key[j] \in disturbed'
           StoredKept == \A j \in Job : pc'[j] = "stored" =>
                             file'[key[j]] = "ok" \/ key[j] \in disturbed'
           CountKept == \A k \in Key :
                            \/ computes'[k] = computes[k]
                            \/ InFlight(k)' /\ (computes'[k] > 1 => k \in disturbed')
\* A step that leaves the caches alone and moves no thread in or out of a computation.
<1>4. ASSUME UNCHANGED <<key, memory, rows, file, computes, disturbed>>,
             \A j \in Job : pc'[j] = pc[j] \/ (~Computing(j) /\ pc'[j] # "stored")
      PROVE  CacheInv'
    <2>1. HitsKept /\ CountKept
        BY <1>4 DEF Hit
    <2>2. WorkKept
        BY <1>4 DEF Computing
    <2>3. StoredKept
        BY <1>3, <1>4
    <2> QED
        BY <1>1, <1>2, <1>4, <2>1, <2>2, <2>3, CacheFrame
<1>5. ASSUME NEW j \in Job, GeometryStep(j) \/ Cancel(j)
      PROVE  CacheInv'
    <2>1. PICK k \in Key : k = key[j]
        BY <1>1
    <2>2. CASE Begin(j)
        <3>1. UNCHANGED <<key, rows, file, computes>> /\ disturbed' = disturbed \cup Evicted(memory')
              /\ memory' \in {memory, LookUpMemory(k)} /\ pc[j] = "idle"
            BY <2>1, <2>2 DEF Begin, Evicted
        <3>2. \A i \in Job : pc'[i] = pc[i] \/ (~Computing(i) /\ pc'[i] # "stored")
            BY <2>2, JobsAct, GotoFits DEF Begin, Label, Computing
        <3>3. memory' \in Seq(Key) /\ Len(memory') <= CacheSize
            BY <1>2, <3>1, LookUpFits
        <3>4. HitsKept
            BY <3>1, HitsStay
        <3>5. WorkKept /\ StoredKept /\ CountKept
            BY <1>3, <3>1, <3>2 DEF Computing
        <3> QED
            BY <1>1, <1>2, <3>1, <3>3, <3>4, <3>5, CacheFrame
    <2>3. CASE Register(j) \/ Acquire(j) \/ GiveUp(j) \/ Unregister(j) \/ Release(j)
        <3>1. UNCHANGED <<key, memory, rows, file, computes, disturbed>>
            BY <2>3 DEF Register, Acquire, GiveUp, Unregister, Release
        <3>2. \A i \in Job : pc'[i] = pc[i] \/ (~Computing(i) /\ pc'[i] # "stored")
            BY <2>3, JobsAct, GotoFits DEF Register, Acquire, GiveUp, Unregister, Release,
                                           Label, Registered, Held, Computing
        <3> QED
            BY <1>4, <3>1, <3>2
    <2>4. CASE Recheck(j)
        <3>1. UNCHANGED <<key, rows, file>> /\ disturbed' = disturbed \cup Evicted(memory')
              /\ memory' \in {memory, LookUpMemory(k)} /\ pc[j] = "holding"
            BY <2>1, <2>4 DEF Recheck, Evicted
        <3>2. pc'[j] \in {"failing", "leaving", "computing"}
              /\ \A i \in Job : i # j => pc'[i] = pc[i]
            BY <2>4, JobsAct, GotoFits DEF Recheck, Label, Registered, Held
        <3>3. memory' \in Seq(Key) /\ Len(memory') <= CacheSize
            BY <1>2, <3>1, LookUpFits
        <3>4. HitsKept
            BY <3>1, HitsStay
        <3>5. WorkKept /\ StoredKept
            BY <1>3, <3>1, <3>2 DEF Computing
        <3>6. CountKept /\ computes' \in [Key -> Nat]
            <4>1. CASE j \in canceled \/ Hit(k)
                <5>1. computes' = computes
                    BY <1>2, <2>1, <2>4, <4>1 DEF Recheck
                <5> QED
                    BY <1>2, <5>1
            <4>2. CASE j \notin canceled /\ ~Hit(k)
                <5>1. computes' = [computes EXCEPT ![k] = @ + 1] /\ Goto(j, "computing")
                    BY <2>1, <2>4, <4>2 DEF Recheck
                <5>2. pc'[j] = "computing"
                    BY <5>1, <3>1, JobsAct, GotoFits DEF Label, Registered, Held
                <5>3. InFlight(k)'
                    BY <2>1, <3>1, <5>2 DEF InFlight, Computing
                <5>4. ~InFlight(k)
                    <6>1. \A i \in Job : Computing(i) => pc[i] \in Held /\ i # j
                        BY <3>1 DEF Computing, Held
                    <6>2. pc[j] \in Held
                        BY <3>1 DEF Held
                    <6> QED
                        BY <2>1, <6>1, <6>2, HeldIsAlone DEF InFlight
                <5>5. computes[k] >= 1 => k \in disturbed'
                    BY <3>1, <4>2, <5>4 DEF CacheInv
                <5> QED
                    BY <1>2, <5>1, <5>3, <5>5
            <4> QED
                BY <4>1, <4>2
        <3> QED
            BY <1>1, <1>2, <3>1, <3>3, <3>4, <3>5, <3>6, CacheFrame
    <2>5. CASE Compute(j)
        <3>1. UNCHANGED <<key, memory, rows, file, computes>> /\ disturbed \subseteq disturbed'
            BY <2>5 DEF Compute
        <3>2. /\ \A i \in Job : i # j => pc'[i] = pc[i]
              /\ pc'[j] = "storing" \/ (pc'[j] = "failing" /\ k \in disturbed')
            BY <2>1, <2>5, JobsAct, GotoFits DEF Compute, Label, Registered, Held
        <3>3. HitsKept /\ CountKept
            BY <3>1 DEF Hit
        <3>4. WorkKept /\ StoredKept
            BY <1>3, <2>1, <3>1, <3>2 DEF Computing
        <3> QED
            BY <1>1, <1>2, <3>1, <3>3, <3>4, CacheFrame
    <2>6. CASE Store(j)
        <3>1. UNCHANGED <<key, memory, rows, computes>> /\ disturbed \subseteq disturbed'
              /\ file' = [file EXCEPT ![k] = IF @ = "bad" THEN "bad" ELSE "ok"]
            BY <2>1, <2>6 DEF Store
        <3>2. /\ \A i \in Job : i # j => pc'[i] = pc[i]
              /\ \/ pc'[j] = "stored" /\ file[k] # "bad"
                 \/ pc'[j] = "failing" /\ k \in disturbed'
            BY <2>1, <2>6, JobsAct, GotoFits DEF Store, Label, Registered, Held
        <3>3. file' \in [Key -> Health] /\ \A l \in Key : file[l] = "ok" => file'[l] = "ok"
            BY <1>2, <3>1 DEF Health
        <3>4. HitsKept /\ CountKept
            BY <3>1, <3>3 DEF Hit
        <3>5. WorkKept
            BY <2>1, <3>2 DEF Computing
        <3>6. StoredKept
            BY <1>1, <1>2, <1>3, <2>1, <3>1, <3>2, <3>3
        <3> QED
            BY <1>1, <1>2, <3>1, <3>3, <3>4, <3>5, <3>6, CacheFrame
    <2>7. CASE Remember(j)
        <3>1. UNCHANGED <<key, rows, file, computes>> /\ pc[j] = "stored"
              /\ memory' = (IF CacheSize = 0 THEN memory ELSE Remembered(k))
              /\ disturbed' = disturbed \cup Evicted(memory')
                              \cup (IF CacheSize = 0 THEN {k} ELSE {})
            BY <2>1, <2>7 DEF Remember
        <3>2. pc'[j] = "leaving" /\ \A i \in Job : i # j => pc'[i] = pc[i]
            BY <2>7, JobsAct, GotoFits DEF Remember, Label, Registered, Held
        <3>3. memory' \in Seq(Key) /\ Len(memory') <= CacheSize
            BY <1>2, <3>1, RememberedFits
        <3>4. HitsKept
            BY <3>1, HitsStay
        <3>5. Hit(k)' \/ k \in disturbed'
            <4>1. file[k] = "ok" \/ k \in disturbed
                BY <1>3, <2>1, <3>1
            <4>2. CacheSize # 0 => k \in ToSet(memory')
                BY <1>2, <3>1, RememberedFits
            <4> QED
                BY <3>1, <4>1, <4>2 DEF Hit
        <3>6. WorkKept /\ StoredKept /\ CountKept
            BY <1>3, <2>1, <3>1, <3>2, <3>5 DEF Computing
        <3> QED
            BY <1>1, <1>2, <3>1, <3>3, <3>4, <3>6, CacheFrame
    <2>8. CASE Commit(j)
        <3>1. UNCHANGED <<key, memory, file, computes, disturbed>>
              /\ rows \subseteq rows' /\ rows' \subseteq Job /\ pc[j] = "returned"
            BY <1>2, <2>8 DEF Commit
        <3>2. \A i \in Job : pc'[i] = pc[i] \/ (~Computing(i) /\ pc'[i] # "stored")
            BY <2>8, JobsAct, GotoFits DEF Commit, Label, Computing
        <3>3. HitsKept /\ CountKept
            BY <3>1 DEF Hit
        <3>4. WorkKept /\ StoredKept
            BY <1>3, <3>1, <3>2 DEF Computing
        <3> QED
            BY <1>1, <1>2, <3>1, <3>3, <3>4, CacheFrame
    <2>9. CASE Cancel(j)
        BY <1>4, <2>9 DEF Cancel
    <2> QED
        BY <1>5, <2>2, <2>3, <2>4, <2>5, <2>6, <2>7, <2>8, <2>9 DEF GeometryStep
<1>6. ASSUME NEW r \in Request, ExportStep(r)
      PROVE  CacheInv'
    <2>1. UNCHANGED <<key, memory, rows, file, computes, disturbed>>
        BY <1>6 DEF ExportStep, Ask, Enter, Check, Submit
    <2>2. \A j \in Job : pc'[j] = pc[j]
        BY <1>6, JobsAct DEF ExportStep, Ask, Enter, Check, Submit, Goto, PcFits
    <2> QED
        BY <1>4, <2>1, <2>2
<1>7. ASSUME NEW x \in 1 .. Len(export), ExportWork(x)
      PROVE  CacheInv'
    BY <1>4, <1>7 DEF ExportWork, Slice, StoreExport, FinishExport
<1>8. ASSUME NEW k \in Key, NEW how \in {"none", "bad"}, Damage(k, how)
      PROVE  CacheInv'
    <2>1. UNCHANGED <<key, pc, memory, rows, computes>> /\ disturbed' = disturbed \cup {k}
          /\ file' = [file EXCEPT ![k] = how]
        BY <1>8 DEF Damage
    <2>2. file' \in [Key -> Health] /\ \A l \in Key : l # k => file'[l] = file[l]
        BY <1>2, <2>1 DEF Health
    <2>3. HitsKept /\ CountKept /\ StoredKept
        BY <1>1, <1>3, <2>1, <2>2 DEF Hit
    <2>4. WorkKept
        BY <2>1 DEF Computing
    <2> QED
        BY <1>1, <1>2, <2>1, <2>2, <2>3, <2>4, CacheFrame
<1>9. ASSUME NEW k \in Key, NEW how \in {"none", "bad"}, DamageExport(k, how)
      PROVE  CacheInv'
    BY <1>4, <1>9 DEF DamageExport
<1>10. CASE Restart
    <2>1. UNCHANGED <<key, rows, file, computes>> /\ memory' = <<>>
          /\ disturbed' = disturbed \cup {key[j] : j \in {i \in Job : Computing(i)}}
                          \cup {k \in ToSet(memory) : \A j \in rows : key[j] # k}
        BY <1>10 DEF Restart
    <2>2. \A j \in Job : pc'[j] # "stored"
        BY <1>10, JobsAct DEF Restart
    <2>3. memory' \in Seq(Key) /\ Len(memory') <= CacheSize
        BY <2>1, SizeAssumption
    <2>4. HitsKept
        BY <2>1 DEF Hit
    <2>5. WorkKept /\ StoredKept /\ CountKept
        BY <2>1, <2>2
    <2> QED
        BY <1>1, <1>2, <2>1, <2>3, <2>4, <2>5, CacheFrame
<1> QED
    BY <1>5, <1>6, <1>7, <1>8, <1>9, <1>10 DEF Next

-----------------------------------------------------------------------------
(* Export jobs *)

\* A step outside the export service keeps what requests and exports rely on.
LEMMA ExportFrame ==
    ASSUME ExportInv, UNCHANGED <<key, guard, export, ofile>>,
           \A r \in Request : pc'[r] \in {"checking", "submitting"} \/ pc[r] \in {"checking", "submitting"}
                                  => pc'[r] = pc[r]
    PROVE  ExportInv'
<1>1. \A k : OfKey(k)' = OfKey(k) /\ NoSuccess(k)' = NoSuccess(k)
    BY DEF OfKey, NoSuccess
<1>2. \A x : ActiveExport(x)' = ActiveExport(x)
    BY DEF ActiveExport
<1>3. GuardFits'
    BY DEF ExportInv, GuardFits
<1>4. ExportsFit'
    BY <1>1, <1>2 DEF ExportInv, ExportsFit
<1>5. CheckedFits'
    BY <1>1, <1>2 DEF ExportInv, CheckedFits
<1> QED
    BY <1>3, <1>4, <1>5 DEF ExportInv

LEMMA StateSet ==
    ASSUME export \in Seq(ExportRecord), NEW x \in 1 .. Len(export), NEW s \in State, SetState(x, s)
    PROVE  /\ export' \in Seq(ExportRecord) /\ Len(export') = Len(export)
           /\ export'[x].state = s /\ export'[x].key = export[x].key /\ export'[x].late = export[x].late
           /\ \A y \in 1 .. Len(export) : y # x => export'[y] = export[y]
<1>1. export[x] \in ExportRecord
    OBVIOUS
<1> DEFINE new == [export[x] EXCEPT !.state = s]
<1>2. new \in ExportRecord /\ new.state = s /\ new.key = export[x].key /\ new.late = export[x].late
    BY <1>1 DEF ExportRecord, State
<1>3. export' = [export EXCEPT ![x] = new]
    BY DEF SetState
<1> HIDE DEF new
<1>4. export' \in Seq(ExportRecord) /\ Len(export') = Len(export) /\ export'[x] = new
      /\ \A y \in 1 .. Len(export) : y # x => export'[y] = export[y]
    BY <1>2, <1>3
<1> QED
    BY <1>2, <1>4

LEMMA KeysOfExports ==
    ASSUME export \in Seq(ExportRecord), NEW x \in 1 .. Len(export)
    PROVE  export[x].key \in Key
<1>1. export[x] \in ExportRecord
    OBVIOUS
<1> QED
    BY <1>1 DEF ExportRecord

\* The work of the active export job.
LEMMA ExportWorkStep ==
    ASSUME PcFits, ExportInv, NEW x \in 1 .. Len(export), ExportWork(x)
    PROVE  ExportInv'
<1>1. export \in Seq(ExportRecord) /\ ofile \in [Key -> Health]
    BY DEF ExportInv, ExportsFit
<1>2. \A y \in 1 .. Len(export) : export[y].key \in Key
    BY <1>1, KeysOfExports
<1>3. PICK k \in Key : k = export[x].key
    BY <1>2
<1>4. UNCHANGED <<key, pc, guard>> /\ ActiveExport(x)
    BY DEF ExportWork, Slice, StoreExport, FinishExport, ActiveExport
<1>5. x = Len(export)
    BY <1>4 DEF ExportInv, ExportsFit
\* One of five outcomes: the job goes on, fails, stores its file, meets a damaged one, succeeds.
<1>6. PICK s \in State :
          /\ SetState(x, s)
          /\ \/ s \in {"slicing", "failed"} /\ ofile' = ofile
             \/ s = "stored" /\ ofile[k] # "bad" /\ ofile' = [ofile EXCEPT ![k] = "ok"]
             \/ s = "collided" /\ ofile[k] = "bad" /\ ofile' = ofile
             \/ s = "succeeded" /\ ofile[k] = "ok" /\ ofile' = ofile
    <2> "slicing" \in State /\ "failed" \in State /\ "stored" \in State /\ "collided" \in State
        /\ "succeeded" \in State
        BY DEF State
    <2>1. CASE Slice(x)
        BY <2>1 DEF Slice
    <2>2. CASE StoreExport(x)
        BY <1>3, <2>2 DEF StoreExport
    <2>3. CASE FinishExport(x)
        BY <1>3, <2>3 DEF FinishExport
    <2> QED
        BY <2>1, <2>2, <2>3 DEF ExportWork
<1>7. /\ export' \in Seq(ExportRecord) /\ Len(export') = Len(export)
      /\ export'[x].state = s /\ export'[x].key = k /\ export'[x].late = export[x].late
      /\ \A y \in 1 .. Len(export) : y # x => export'[y] = export[y]
    BY <1>3, <1>1, <1>6, StateSet
<1>8. ofile' \in [Key -> Health] /\ \A l \in Key : l # k => ofile'[l] = ofile[l]
    BY <1>1, <1>6 DEF Health
<1>9. \A l : OfKey(l)' = OfKey(l)
    BY <1>3, <1>7 DEF OfKey
<1>10. \A l \in Key : NoSuccess(l) /\ (l # k \/ s # "succeeded") => NoSuccess(l)'
    BY <1>3, <1>7, <1>9 DEF NoSuccess, OfKey
<1>11. \A y \in 1 .. Len(export) : ActiveExport(y)' => y = x /\ s \in {"slicing", "stored"}
    <2>1. \A y \in 1 .. Len(export) : ActiveExport(y) => y = x
        BY <1>5 DEF ExportInv, ExportsFit
    <2> QED
        BY <1>6, <1>7, <2>1 DEF ActiveExport
<1>12. GuardFits'
    BY <1>4 DEF ExportInv, GuardFits
<1>13. ASSUME NEW y \in 1 .. Len(export'), NEW l \in Key, l = export'[y].key
       PROVE  /\ ActiveExport(y)' /\ ~export'[y].late => NoSuccess(l)' \/ ofile'[l] # "bad"
              /\ export'[y].state = "collided" /\ ~export'[y].late =>
                    NoSuccess(l)' /\ ofile'[l] = "bad"
    <2>1. y \in 1 .. Len(export)
        BY <1>7
    <2>2. ~export[x].late => NoSuccess(k) \/ ofile[k] # "bad"
        BY <1>3, <1>4 DEF ExportInv, ExportsFit
    <2>3. ASSUME ActiveExport(y)', ~export'[y].late
          PROVE  NoSuccess(l)' \/ ofile'[l] # "bad"
        <3>1. y = x /\ l = k /\ s \in {"slicing", "stored"}
            BY <1>7, <1>11, <1>13, <2>1, <2>3
        <3>2. NoSuccess(k) => NoSuccess(k)'
            BY <1>10, <3>1
        <3>3. NoSuccess(k) \/ ofile[k] # "bad"
            BY <1>7, <2>2, <2>3, <3>1
        <3>4. s = "stored" => ofile'[k] = "ok"
            BY <1>1, <1>6
        <3>5. s = "slicing" => ofile'[k] = ofile[k]
            BY <1>6
        <3> QED
            BY <3>1, <3>2, <3>3, <3>4, <3>5
    <2>4. ASSUME export'[y].state = "collided", ~export'[y].late
          PROVE  NoSuccess(l)' /\ ofile'[l] = "bad"
        <3>1. CASE y = x
            <4>1. s = "collided" /\ ofile[k] = "bad" /\ ofile' = ofile /\ l = k
                BY <1>6, <1>7, <1>13, <2>4, <3>1
            <4>2. NoSuccess(k)
                BY <1>7, <2>2, <2>4, <3>1, <4>1
            <4> QED
                BY <1>10, <4>1, <4>2
        <3>2. CASE y # x
            <4>1. export'[y] = export[y] /\ l = export[y].key
                BY <1>7, <1>13, <2>1, <3>2
            <4>2. NoSuccess(l) /\ ofile[l] = "bad"
                BY <2>1, <2>4, <4>1 DEF ExportInv, ExportsFit
            <4>3. s = "succeeded" \/ s = "stored" => l # k
                BY <1>6, <4>2
            <4>4. NoSuccess(l)'
                BY <1>10, <4>2, <4>3
            <4>5. ofile'[l] = ofile[l]
                BY <1>6, <1>8, <4>3
            <4> QED
                BY <4>2, <4>4, <4>5
        <3> QED
            BY <3>1, <3>2
    <2> QED
        BY <2>3, <2>4
<1>14. ExportsFit'
    <2>1. \A y \in 1 .. Len(export') : ActiveExport(y)' => y = Len(export')
        BY <1>5, <1>7, <1>11
    <2>2. \A y \in 1 .. Len(export') : export'[y].key \in Key
        BY <1>3, <1>2, <1>7
    <2> QED
        BY <1>7, <1>8, <1>13, <2>1, <2>2 DEF ExportsFit, NoSuccess, OfKey
<1>15. ASSUME NEW r \in Request, pc[r] = "submitting", NEW l \in Key, l = key[r]
       PROVE  /\ \A y \in OfKey(l) : ~ActiveExport(y)'
              /\ NoSuccess(l)' \/ ofile'[l] = "none"
    <2>1. /\ \A y \in OfKey(l) : ~ActiveExport(y)
          /\ NoSuccess(l) \/ ofile[l] = "none"
        BY <1>15 DEF ExportInv, CheckedFits
    <2>2. l # k
        BY <1>3, <1>4, <2>1 DEF OfKey
    <2>3. x \notin OfKey(l)
        BY <1>3, <2>2 DEF OfKey
    <2>4. \A y \in OfKey(l) : ~ActiveExport(y)'
        BY <1>11, <2>3 DEF OfKey
    <2> QED
        BY <1>8, <1>10, <2>1, <2>2, <2>4
<1>16. CheckedFits'
    <2>1. \A r \in Request : key[r] \in Key
        BY JobsAct DEF PcFits
    <2> QED
        BY <1>4, <1>9, <1>15, <2>1, ZenonT(60) DEF CheckedFits, NoSuccess, OfKey
<1> QED
    BY <1>12, <1>14, <1>16 DEF ExportInv

LEMMA CheckStep ==
    ASSUME PcFits, ExportInv, NEW r \in Request, Check(r)
    PROVE  ExportInv'
<1>1. PICK k \in Key : k = key[r]
    BY JobsAct DEF PcFits
<1> DEFINE succeeded == \E x \in OfKey(k) : export[x].state = "succeeded"
           active == \E x \in OfKey(k) : ActiveExport(x)
<1>2. /\ pc[r] = "checking" /\ UNCHANGED <<key, export>>
      /\ \/ ((succeeded /\ ofile[k] = "ok") \/ active) /\ guard' = Nobody /\ Goto(r, "done")
         \/ ~((succeeded /\ ofile[k] = "ok") \/ active) /\ guard' = guard /\ Goto(r, "submitting")
      /\ ofile' = [ofile EXCEPT ![k] = IF succeeded /\ @ = "bad" THEN "none" ELSE @]
    BY <1>1 DEF Check
<1>3. ofile \in [Key -> Health] /\ export \in Seq(ExportRecord)
    BY DEF ExportInv, ExportsFit
<1>4. /\ ofile' \in [Key -> Health]
      /\ ofile'[k] = (IF succeeded /\ ofile[k] = "bad" THEN "none" ELSE ofile[k])
      /\ \A l \in Key : l # k => ofile'[l] = ofile[l]
    BY <1>2, <1>3 DEF Health
<1>5. \A l \in Key : NoSuccess(l)' = NoSuccess(l) /\ OfKey(l)' = OfKey(l)
    BY <1>2 DEF NoSuccess, OfKey
<1>6. NoSuccess(k) = ~succeeded
    BY DEF NoSuccess
<1>7. guard = r
    BY <1>2 DEF ExportInv, GuardFits
<1>8. pc'[r] \in {"done", "submitting"} /\ \A q \in Request : q # r => pc'[q] = pc[q]
    BY <1>2, JobsAct, GotoFits DEF Label
<1>9. pc'[r] = "submitting" => ~active /\ ~(succeeded /\ ofile[k] = "ok") /\ guard' = guard
    BY <1>2, JobsAct, GotoFits DEF Label
<1>10. pc'[r] = "done" => guard' = Nobody
    BY <1>2, JobsAct, GotoFits DEF Label
<1> HIDE DEF succeeded, active
<1>11. GuardFits'
    BY <1>7, <1>8, <1>9, <1>10, JobsAct DEF ExportInv, GuardFits
<1>12. ExportsFit'
    <2>1. \A x \in 1 .. Len(export) : ActiveExport(x)' = ActiveExport(x) /\ export[x].key \in Key
        BY <1>2, <1>3, KeysOfExports DEF ActiveExport
    <2>2. ASSUME NEW x \in 1 .. Len(export), NEW l \in Key, l = export[x].key
          PROVE  /\ ActiveExport(x) /\ ~export[x].late => NoSuccess(l)' \/ ofile'[l] # "bad"
                 /\ export[x].state = "collided" /\ ~export[x].late =>
                       NoSuccess(l)' /\ ofile'[l] = "bad"
        <3>1. /\ ActiveExport(x) /\ ~export[x].late => NoSuccess(l) \/ ofile[l] # "bad"
              /\ export[x].state = "collided" /\ ~export[x].late => NoSuccess(l) /\ ofile[l] = "bad"
            BY <2>2 DEF ExportInv, ExportsFit
        <3> QED
            BY <1>4, <1>5, <1>6, <3>1
    <2>3. \A x \in 1 .. Len(export) : ActiveExport(x) => x = Len(export)
        BY DEF ExportInv, ExportsFit
    <2> QED
        BY <1>2, <1>3, <1>4, <2>1, <2>2, <2>3 DEF ExportsFit, NoSuccess, OfKey
<1>13. CheckedFits'
    <2>1. \A q \in Request : pc'[q] = "submitting" => q = r
        BY <1>7, <1>8 DEF ExportInv, GuardFits
    <2>2. ASSUME pc'[r] = "submitting"
          PROVE  /\ \A x \in OfKey(k) : ~ActiveExport(x)
                 /\ NoSuccess(k) \/ ofile'[k] = "none"
        <3>1. \A x \in OfKey(k) : ~ActiveExport(x)
            BY <1>9, <2>2 DEF active
        <3>2. ofile[k] \in Health
            BY <1>3
        <3> QED
            BY <1>4, <1>6, <1>9, <2>2, <3>1, <3>2 DEF Health
    <2>3. ASSUME pc'[r] = "submitting"
          PROVE  /\ \A x \in OfKey(key[r]) : ~ActiveExport(x)
                 /\ NoSuccess(key[r]) \/ ofile'[key[r]] = "none"
        BY <1>1, <2>2, <2>3
    <2> QED
        BY <1>2, <2>1, <2>3 DEF CheckedFits, NoSuccess, OfKey, ActiveExport
<1> QED
    BY <1>11, <1>12, <1>13 DEF ExportInv

\* The new job is queued and every active one canceled.
LEMMA SubmitRows ==
    ASSUME PcFits, ExportInv, NEW r \in Request, Submit(r)
    PROVE  /\ export' \in Seq(ExportRecord) /\ Len(export') = Len(export) + 1
           /\ export'[Len(export) + 1].key = key[r] /\ export'[Len(export) + 1].state = "queued"
           /\ \A x \in 1 .. Len(export) :
                 /\ export'[x].key = export[x].key /\ export'[x].late = export[x].late
                 /\ export'[x].state = (IF ActiveExport(x) THEN "canceled" ELSE export[x].state)
<1> DEFINE row(x) == IF ActiveExport(x) THEN [export[x] EXCEPT !.state = "canceled"] ELSE export[x]
           rest == [x \in 1 .. Len(export) |-> row(x)]
           new == [key |-> key[r], state |-> "queued", late |-> FALSE]
<1>1. export' = Append(rest, new)
    BY DEF Submit
<1>2. export \in Seq(ExportRecord) /\ Len(export) \in Nat
    BY DEF ExportInv, ExportsFit
<1>3. ASSUME NEW x \in 1 .. Len(export)
      PROVE  /\ row(x) \in ExportRecord
             /\ row(x).key = export[x].key /\ row(x).late = export[x].late
             /\ row(x).state = (IF ActiveExport(x) THEN "canceled" ELSE export[x].state)
    <2>1. export[x] \in ExportRecord
        BY <1>2
    <2>2. CASE ActiveExport(x)
        <3>1. [export[x] EXCEPT !.state = "canceled"] \in ExportRecord
              /\ [export[x] EXCEPT !.state = "canceled"].key = export[x].key
              /\ [export[x] EXCEPT !.state = "canceled"].late = export[x].late
              /\ [export[x] EXCEPT !.state = "canceled"].state = "canceled"
            BY <2>1 DEF ExportRecord, State
        <3> QED
            BY <2>2, <3>1
    <2>3. CASE ~ActiveExport(x)
        BY <2>1, <2>3
    <2> QED
        BY <2>2, <2>3
<1>4. new \in ExportRecord
    BY JobsAct DEF PcFits, ExportRecord, State
<1>5. new.key = key[r] /\ new.state = "queued"
    BY Zenon
<1> HIDE DEF row, new
<1>6. rest \in Seq(ExportRecord) /\ Len(rest) = Len(export)
    BY <1>2, <1>3
<1>7. \A x \in 1 .. Len(export) : rest[x] = row(x)
    OBVIOUS
<1> HIDE DEF rest
<1>8. export' \in Seq(ExportRecord) /\ Len(export') = Len(export) + 1
      /\ export'[Len(export) + 1] = new
      /\ \A x \in 1 .. Len(export) : export'[x] = row(x)
    BY <1>1, <1>2, <1>4, <1>6, <1>7
<1> QED
    BY <1>3, <1>5, <1>8

LEMMA SubmitStep ==
    ASSUME PcFits, ExportInv, NEW r \in Request, Submit(r)
    PROVE  ExportInv'
<1>1. PICK k \in Key : k = key[r]
    BY JobsAct DEF PcFits
<1>2. PICK n \in Nat : n = Len(export)
    BY DEF ExportInv, ExportsFit
<1>3. /\ export' \in Seq(ExportRecord) /\ Len(export') = n + 1
      /\ export'[n + 1].key = k /\ export'[n + 1].state = "queued"
      /\ \A x \in 1 .. n :
            /\ export'[x].key = export[x].key /\ export'[x].late = export[x].late
            /\ export'[x].state = (IF ActiveExport(x) THEN "canceled" ELSE export[x].state)
    BY <1>1, <1>2, SubmitRows
<1>4. UNCHANGED <<key, ofile>> /\ guard' = Nobody /\ pc[r] = "submitting"
    BY DEF Submit
<1>5. pc'[r] = "done" /\ \A q \in Request : q # r => pc'[q] = pc[q]
    BY JobsAct, GotoFits DEF Submit, Label
<1>6. guard = r
    BY <1>4 DEF ExportInv, GuardFits
<1>7. GuardFits'
    BY <1>4, <1>5, <1>6, JobsAct DEF ExportInv, GuardFits
<1>8. \A x \in 1 .. n : ~ActiveExport(x)'
    BY <1>3 DEF ActiveExport
<1>9. NoSuccess(k) \/ ofile[k] = "none"
    BY <1>1, <1>4 DEF ExportInv, CheckedFits
<1>10. \A l \in Key : NoSuccess(l) => NoSuccess(l)'
    <2> SUFFICES ASSUME NEW l \in Key, NoSuccess(l), NEW x \in OfKey(l)'
                 PROVE  export'[x].state # "succeeded"
        BY DEF NoSuccess
    <2>1. CASE x = n + 1
        BY <1>3, <2>1
    <2>2. CASE x # n + 1
        <3>1. x \in 1 .. n /\ x \in OfKey(l)
            BY <1>2, <1>3, <2>2 DEF OfKey
        <3> QED
            BY <1>2, <1>3, <3>1 DEF NoSuccess
    <2> QED
        BY <2>1, <2>2
<1>11. ASSUME NEW x \in 1 .. n + 1, NEW l \in Key, l = export'[x].key
       PROVE  /\ ActiveExport(x)' => x = n + 1
              /\ ActiveExport(x)' /\ ~export'[x].late => NoSuccess(l)' \/ ofile'[l] # "bad"
              /\ export'[x].state = "collided" /\ ~export'[x].late =>
                    NoSuccess(l)' /\ ofile'[l] = "bad"
    <2>1. CASE x = n + 1
        <3>1. l = k /\ export'[x].state = "queued"
            BY <1>3, <1>11, <2>1
        <3> QED
            BY <1>4, <1>9, <1>10, <2>1, <3>1
    <2>2. CASE x # n + 1
        <3>1. x \in 1 .. n /\ l = export[x].key
            BY <1>3, <1>11, <2>2
        <3>2. ~ActiveExport(x)'
            BY <1>8, <3>1
        <3>3. export'[x].state = "collided" => export[x].state = "collided"
            BY <1>3, <3>1
        <3>4. export[x].state = "collided" /\ ~export[x].late => NoSuccess(l) /\ ofile[l] = "bad"
            BY <1>2, <3>1 DEF ExportInv, ExportsFit
        <3>5. export'[x].late = export[x].late
            BY <1>3, <3>1
        <3> QED
            BY <1>4, <1>10, <3>2, <3>3, <3>4, <3>5
    <2> QED
        BY <2>1, <2>2
<1>12. ExportsFit'
    <2>1. \A x \in 1 .. n + 1 : export'[x].key \in Key
        <3>1. \A x \in 1 .. n : export[x].key \in Key
            BY <1>2, KeysOfExports DEF ExportInv, ExportsFit
        <3> QED
            BY <1>3, <3>1
    <2>2. ofile' \in [Key -> Health]
        BY <1>4 DEF ExportInv, ExportsFit
    <2> QED
        BY <1>3, <1>11, <2>1, <2>2 DEF ExportsFit, NoSuccess, OfKey
<1>13. CheckedFits'
    <2>1. \A q \in Request : pc'[q] # "submitting"
        BY <1>5, <1>6 DEF ExportInv, GuardFits
    <2> QED
        BY <2>1 DEF CheckedFits
<1> QED
    BY <1>7, <1>12, <1>13 DEF ExportInv

\* An export file is lost or damaged: the active jobs of its key are marked.
LEMMA DamageExportStep ==
    ASSUME PcFits, ExportInv, NEW k \in Key, NEW how \in {"none", "bad"}, DamageExport(k, how)
    PROVE  ExportInv'
<1>1. export \in Seq(ExportRecord) /\ ofile \in [Key -> Health]
    BY DEF ExportInv, ExportsFit
<1>2. PICK n \in Nat : n = Len(export)
    BY <1>1
<1> DEFINE row(x) == IF export[x].key = k /\ ActiveExport(x) THEN [export[x] EXCEPT !.late = TRUE]
                     ELSE export[x]
<1>3. /\ export' = [x \in 1 .. n |-> row(x)] /\ UNCHANGED <<key, pc, guard>>
      /\ ofile' = [ofile EXCEPT ![k] = how] /\ ofile[k] = "ok"
    BY <1>2 DEF DamageExport
<1>4. ASSUME NEW x \in 1 .. n
      PROVE  /\ row(x) \in ExportRecord /\ export[x].key \in Key
             /\ row(x).key = export[x].key /\ row(x).state = export[x].state
             /\ export[x].key # k \/ ~ActiveExport(x) => row(x) = export[x]
             /\ export[x].key = k /\ ActiveExport(x) => row(x).late
    <2>1. export[x] \in ExportRecord
        BY <1>1, <1>2
    <2>2. [export[x] EXCEPT !.late = TRUE] \in ExportRecord
          /\ [export[x] EXCEPT !.late = TRUE].key = export[x].key
          /\ [export[x] EXCEPT !.late = TRUE].state = export[x].state
          /\ export[x].key \in Key
        BY <2>1 DEF ExportRecord
    <2>3. [export[x] EXCEPT !.late = TRUE].late
        BY <2>1, Zenon DEF ExportRecord
    <2>4. CASE export[x].key = k /\ ActiveExport(x)
        <3>1. row(x) = [export[x] EXCEPT !.late = TRUE]
            BY <2>4
        <3> HIDE DEF row
        <3> QED
            BY <2>2, <2>3, <2>4, <3>1
    <2>5. CASE ~(export[x].key = k /\ ActiveExport(x))
        <3>1. row(x) = export[x]
            BY <2>5
        <3> HIDE DEF row
        <3> QED
            BY <2>1, <2>2, <2>5, <3>1
    <2> QED
        BY <2>4, <2>5
<1> HIDE DEF row
<1>5. export' \in Seq(ExportRecord) /\ Len(export') = n /\ \A x \in 1 .. n : export'[x] = row(x)
    BY <1>3, <1>4
<1>6. ofile' \in [Key -> Health] /\ \A l \in Key : l # k => ofile'[l] = ofile[l]
    BY <1>1, <1>3 DEF Health
<1>7. \A x \in 1 .. n : ActiveExport(x)' = ActiveExport(x)
    BY <1>4, <1>5 DEF ActiveExport
<1>8. \A l \in Key : OfKey(l)' = OfKey(l) /\ NoSuccess(l)' = NoSuccess(l)
    <2>1. \A l \in Key : OfKey(l)' = OfKey(l)
        BY <1>2, <1>4, <1>5 DEF OfKey
    <2> QED
        BY <1>2, <1>4, <1>5, <2>1 DEF NoSuccess, OfKey
<1>9. GuardFits'
    BY <1>3 DEF ExportInv, GuardFits
<1>10. ASSUME NEW x \in 1 .. n, NEW l \in Key, l = export[x].key
       PROVE  /\ ActiveExport(x) => x = n
              /\ ActiveExport(x) /\ ~export'[x].late => NoSuccess(l) \/ ofile'[l] # "bad"
              /\ export[x].state = "collided" /\ ~export'[x].late => NoSuccess(l) /\ ofile'[l] = "bad"
    <2>1. /\ ActiveExport(x) => x = n
          /\ ActiveExport(x) /\ ~export[x].late => NoSuccess(l) \/ ofile[l] # "bad"
          /\ export[x].state = "collided" /\ ~export[x].late => NoSuccess(l) /\ ofile[l] = "bad"
        BY <1>2, <1>10 DEF ExportInv, ExportsFit
    <2>2. CASE ActiveExport(x)
        <3>1. export[x].state # "collided"
            BY <2>2 DEF ActiveExport
        <3>2. l = k => export'[x].late
            BY <1>4, <1>5, <1>10, <2>2
        <3>3. l # k => export'[x] = export[x]
            BY <1>4, <1>5, <1>10
        <3> QED
            BY <1>6, <2>1, <2>2, <3>1, <3>2, <3>3
    <2>3. CASE ~ActiveExport(x)
        <3>1. export'[x] = export[x]
            BY <1>4, <1>5, <2>3
        <3>2. export[x].state = "collided" /\ ~export[x].late => l # k
            BY <1>3, <2>1
        <3> QED
            BY <1>6, <2>1, <2>3, <3>1, <3>2
    <2> QED
        BY <2>2, <2>3
<1>11. ExportsFit'
    <2>1. ASSUME NEW x \in 1 .. n, NEW l \in Key, l = export[x].key
          PROVE  /\ ActiveExport(x)' => x = n
                 /\ ActiveExport(x)' /\ ~export'[x].late => NoSuccess(l)' \/ ofile'[l] # "bad"
                 /\ export'[x].state = "collided" /\ ~export'[x].late =>
                       NoSuccess(l)' /\ ofile'[l] = "bad"
        BY <1>4, <1>5, <1>7, <1>8, <1>10, <2>1
    <2>2. \A x \in 1 .. n : export[x].key \in Key /\ export'[x].key = export[x].key
        BY <1>4, <1>5
    <2> QED
        BY <1>5, <1>6, <2>1, <2>2 DEF ExportsFit, NoSuccess, OfKey
<1>12. CheckedFits'
    <2> SUFFICES ASSUME NEW r \in Request, pc[r] = "submitting", NEW l \in Key, l = key[r]
                 PROVE  /\ \A x \in OfKey(l)' : ~ActiveExport(x)'
                        /\ NoSuccess(l)' \/ ofile'[l] = "none"
        BY <1>3, JobsAct DEF CheckedFits, PcFits, NoSuccess, OfKey
    <2>1. /\ \A x \in OfKey(l) : ~ActiveExport(x)
          /\ NoSuccess(l) \/ ofile[l] = "none"
        BY DEF ExportInv, CheckedFits
    <2>2. \A x \in OfKey(l) : x \in 1 .. n
        BY <1>2 DEF OfKey
    <2>3. ofile[l] = "none" => ofile'[l] = "none"
        BY <1>3, <1>6
    <2> QED
        BY <1>7, <1>8, <2>1, <2>2, <2>3
<1> QED
    BY <1>9, <1>11, <1>12 DEF ExportInv

\* Reconciliation fails what was active.
LEMMA RestartExports ==
    ASSUME PcFits, ExportInv, Restart
    PROVE  ExportInv'
<1>1. export \in Seq(ExportRecord) /\ ofile \in [Key -> Health]
    BY DEF ExportInv, ExportsFit
<1>2. PICK n \in Nat : n = Len(export)
    BY <1>1
<1> DEFINE row(x) == IF ActiveExport(x) THEN [export[x] EXCEPT !.state = "failed"] ELSE export[x]
<1>3. export' = [x \in 1 .. n |-> row(x)] /\ UNCHANGED <<key, ofile>> /\ guard' = Nobody
    BY <1>2 DEF Restart
<1>4. ASSUME NEW x \in 1 .. n
      PROVE  /\ row(x) \in ExportRecord /\ export[x].key \in Key
             /\ row(x).key = export[x].key /\ row(x).late = export[x].late
             /\ row(x).state = (IF ActiveExport(x) THEN "failed" ELSE export[x].state)
    <2>1. export[x] \in ExportRecord
        BY <1>1, <1>2
    <2>2. [export[x] EXCEPT !.state = "failed"] \in ExportRecord
          /\ [export[x] EXCEPT !.state = "failed"].key = export[x].key
          /\ [export[x] EXCEPT !.state = "failed"].late = export[x].late
          /\ [export[x] EXCEPT !.state = "failed"].state = "failed"
          /\ export[x].key \in Key
        BY <2>1 DEF ExportRecord, State
    <2> QED
        BY <2>1, <2>2
<1> HIDE DEF row
<1>5. export' \in Seq(ExportRecord) /\ Len(export') = n /\ \A x \in 1 .. n : export'[x] = row(x)
    BY <1>3, <1>4
<1>6. \A x \in 1 .. n : ~ActiveExport(x)'
    BY <1>4, <1>5 DEF ActiveExport
<1>7. \A r \in Request : pc'[r] \notin {"checking", "submitting"}
    BY JobsAct DEF Restart
<1>8. GuardFits' /\ CheckedFits'
    BY <1>3, <1>7, JobsAct DEF GuardFits, CheckedFits
<1>9. \A l \in Key : NoSuccess(l) => NoSuccess(l)'
    BY <1>2, <1>4, <1>5 DEF NoSuccess, OfKey
<1>10. ASSUME NEW x \in 1 .. n, NEW l \in Key, l = export[x].key,
              export'[x].state = "collided", ~export'[x].late
       PROVE  NoSuccess(l)' /\ ofile'[l] = "bad"
    <2>1. export[x].state = "collided" /\ ~export[x].late
        BY <1>4, <1>5, <1>10
    <2>2. NoSuccess(l) /\ ofile[l] = "bad"
        BY <1>2, <1>10, <2>1 DEF ExportInv, ExportsFit
    <2> QED
        BY <1>3, <1>9, <2>2
<1>11. ExportsFit'
    <2>1. \A x \in 1 .. n : export[x].key \in Key /\ export'[x].key = export[x].key
        BY <1>4, <1>5
    <2> QED
        BY <1>1, <1>3, <1>5, <1>6, <1>10, <2>1 DEF ExportsFit, NoSuccess, OfKey
<1> QED
    BY <1>8, <1>11 DEF ExportInv

LEMMA ExportInvStep ==
    ASSUME PcFits, ExportInv, Next
    PROVE  ExportInv'
<1> DEFINE Same == /\ UNCHANGED <<key, guard, export, ofile>>
                   /\ \A r \in Request : pc'[r] \in {"checking", "submitting"}
                                         \/ pc[r] \in {"checking", "submitting"} => pc'[r] = pc[r]
<1>1. ASSUME NEW j \in Job, GeometryStep(j) \/ Cancel(j)
      PROVE  ExportInv'
    <2>1. UNCHANGED <<key, guard, export, ofile>>
        BY <1>1 DEF GeometryStep, Begin, Register, Acquire, GiveUp, Recheck, Compute, Store,
                    Remember, Release, Unregister, Commit, Cancel, exports
    <2>2. pc' = pc \/ \E label : Goto(j, label)
        BY <1>1 DEF GeometryStep, Begin, Register, Acquire, GiveUp, Recheck, Compute, Store,
                    Remember, Release, Unregister, Commit, Cancel
    <2>3. \A r \in Request : pc'[r] = pc[r]
        BY <2>2, JobsAct DEF Goto, PcFits
    <2> QED
        BY <2>1, <2>3, ExportFrame
<1>2. ASSUME NEW r \in Request, Ask(r)
      PROVE  ExportInv'
    <2>1. Same
        BY <1>2, JobsAct, GotoFits DEF Ask, Label, exports
    <2> QED
        BY <2>1, ExportFrame
<1>3. ASSUME NEW r \in Request, Enter(r)
      PROVE  ExportInv'
    <2>1. UNCHANGED <<key, export, ofile>> /\ guard = Nobody /\ guard' = r /\ pc[r] = "asking"
        BY <1>3 DEF Enter
    <2>2. pc'[r] = "checking" /\ \A q \in Request : q # r => pc'[q] = pc[q]
        BY <1>3, JobsAct, GotoFits DEF Enter, Label
    <2>3. GuardFits'
        BY <2>1, <2>2, JobsAct DEF ExportInv, GuardFits
    <2>4. ExportsFit'
        BY <2>1 DEF ExportInv, ExportsFit, ActiveExport, NoSuccess, OfKey
    <2>5. CheckedFits'
        BY <2>1, <2>2 DEF ExportInv, CheckedFits, ActiveExport, NoSuccess, OfKey
    <2> QED
        BY <2>3, <2>4, <2>5 DEF ExportInv
<1>4. ASSUME NEW r \in Request, Check(r) \/ Submit(r)
      PROVE  ExportInv'
    BY <1>4, CheckStep, SubmitStep
<1>5. ASSUME NEW x \in 1 .. Len(export), ExportWork(x)
      PROVE  ExportInv'
    BY <1>5, ExportWorkStep
<1>6. ASSUME NEW k \in Key, NEW how \in {"none", "bad"}, Damage(k, how) \/ DamageExport(k, how)
      PROVE  ExportInv'
    <2>1. Damage(k, how) => UNCHANGED <<key, pc, guard, export, ofile>>
        BY DEF Damage, exports
    <2> QED
        BY <1>6, <2>1, ExportFrame, DamageExportStep
<1>7. CASE Restart
    BY <1>7, RestartExports
<1> QED
    BY <1>1, <1>2, <1>3, <1>4, <1>5, <1>6, <1>7 DEF Next, ExportStep

-----------------------------------------------------------------------------
(* The theorems *)

LEMMA OInit == Init => OInv
<1> SUFFICES ASSUME Init
             PROVE  OInv
    OBVIOUS
<1>1. \A a \in Actor : pc[a] \in {"idle", "absent"}
    BY DEF Init
<1>2. PcFits
    <2>1. key \in [Actor -> Key]
        BY DEF Init
    <2>2. pc \in [Actor -> Label]
        BY DEF Init, Label
    <2> QED
        BY <2>1, <2>2 DEF PcFits
<1>3. LockInv
    <2>1. /\ entry = [k \in Key |-> 0] /\ mine = [j \in Job |-> 0]
          /\ users = [e \in Entry |-> 0] /\ owner = [e \in Entry |-> Nobody]
        BY DEF Init
    <2>2. \A j \in Job : pc[j] \notin Registered
        BY <1>1, JobsAct DEF Registered, Held
    <2>3. \A e \in Entry : UsersOf(e) = {}
        BY <2>1, EntryFits DEF UsersOf
    <2>4. Cardinality({}) = 0
        BY FS_EmptySet
    <2>5. TableFits
        BY <2>1, <2>2, <2>3, <2>4 DEF TableFits
    <2>6. OwnersFit
        BY <2>1, <2>2 DEF OwnersFit, Registered
    <2> QED
        BY <2>5, <2>6 DEF LockInv
<1>4. CacheInv
    BY <1>1, SizeAssumption, JobsAct DEF Init, CacheInv, ComputeOnce, Health
<1>5. ExportInv
    BY <1>1, JobsAct DEF Init, ExportInv, GuardFits, ExportsFit, CheckedFits, Health, OfKey
<1> QED
    BY <1>2, <1>3, <1>4, <1>5 DEF OInv

LEMMA OStep == OInv /\ [Next]_vars => OInv'
<1>1. ASSUME OInv, Next
      PROVE  OInv'
    BY <1>1, PcStep, LockStep, CacheStep, ExportInvStep DEF OInv
<1>2. ASSUME OInv, UNCHANGED vars
      PROVE  OInv'
    <2>1. UNCHANGED <<key, pc, flight, memory, rows, file, exports, computes, disturbed>>
        BY <1>2 DEF vars
    <2>2. UNCHANGED <<entry, mine, users, owner, guard, export, ofile>>
        BY <2>1 DEF flight, exports
    <2>3. PcFits'
        BY <1>2, <2>1 DEF OInv, PcFits
    <2>4. LockInv'
        BY <1>2, <2>1, LockFrame DEF OInv
    <2>5. CacheInv'
        BY <1>2, <2>1 DEF OInv, CacheInv, Hit, InFlight, Computing, ComputeOnce
    <2>6. ExportInv'
        BY <1>2, <2>1, <2>2, ExportFrame DEF OInv
    <2> QED
        BY <2>3, <2>4, <2>5, <2>6 DEF OInv
<1> QED
    BY <1>1, <1>2

LEMMA OInvHolds == Spec => []OInv
BY OInit, OStep, PTL DEF Spec

\* OutputInv holds for every number of jobs, requests, keys, cache entries and
\* faults: no two threads compute one key together, a lock table without jobs
\* is empty, and an export of a checked key never fails over a damaged file.
THEOREM OutputsInvariant == Spec => []OutputInv
<1>1. OInv => OutputInv
    <2> SUFFICES ASSUME OInv
                 PROVE  OutputInv
        OBVIOUS
    <2>1. LockInv /\ CacheInv /\ ExportInv /\ PcFits
        BY DEF OInv
    <2>2. TypeOK
        <3>1. \A e : UsersOf(e) = {j \in Job : mine[j] = e}
            BY DEF UsersOf
        <3>2. \A k \in Key : entry[k] # 0 =>
                  users[entry[k]] = Cardinality({j \in Job : mine[j] = entry[k]})
            BY <2>1, <3>1 DEF LockInv, TableFits
        <3>3. guard # Nobody => pc[guard] \in {"checking", "submitting"}
            BY <2>1 DEF ExportInv, GuardFits
        <3> QED
            BY <2>1, <3>2, <3>3 DEF TypeOK, LockInv, TableFits, OwnersFit, CacheInv
    <2>3. SingleFlight
        BY <2>1, HeldIsAlone DEF SingleFlight, Computing, Held
    <2>4. NoLeakedLock
        <3> SUFFICES ASSUME \A j \in Job : pc[j] \in Ended \cup {"idle"}
                     PROVE  /\ \A k \in Key : entry[k] = 0
                            /\ \A e \in Entry : owner[e] = Nobody /\ users[e] = 0
            BY DEF NoLeakedLock
        <3>1. \A j \in Job : mine[j] = 0 /\ pc[j] \notin Held
            BY <2>1 DEF LockInv, TableFits, Registered, Held, Ended
        <3>2. \A e \in Entry : UsersOf(e) = {}
            BY <3>1, EntryFits DEF UsersOf
        <3>3. \A e \in Entry : users[e] = 0
            BY <2>1, <3>2, FS_EmptySet DEF LockInv, TableFits
        <3> QED
            BY <2>1, <3>1, <3>3 DEF LockInv, TableFits, OwnersFit
    <2>5. RetryRestores
        BY <2>1 DEF ExportInv, ExportsFit, RetryRestores, NoSuccess
    <2> QED
        BY <2>2, <2>3, <2>4, <2>5 DEF OutputInv
<1> QED
    BY <1>1, OInvHolds, PTL

\* A key is computed again only after its computation failed or its result was
\* lost, damaged or evicted.
THEOREM WorkIsNotRepeated == Spec => []ComputeOnce
<1>1. OInv => ComputeOnce
    BY DEF OInv, CacheInv
<1> QED
    BY <1>1, OInvHolds, PTL

\* Requests for one key share one export: an active job gives way only to an
\* export of another key.
THEOREM IdenticalRequestsShare == Spec => IdenticalShare
<1> DEFINE Shared == \A x \in 1 .. Len(export) :
                        ActiveExport(x) /\ export'[x].state = "canceled" =>
                            export'[Len(export')].key # export[x].key
<1>1. ASSUME OInv, Next
      PROVE  Shared
    <2> SUFFICES ASSUME NEW x \in 1 .. Len(export), ActiveExport(x), export'[x].state = "canceled"
                 PROVE  export'[Len(export')].key # export[x].key
        OBVIOUS
    <2>1. PcFits /\ ExportInv /\ export \in Seq(ExportRecord)
        BY <1>1 DEF OInv, ExportInv, ExportsFit
    <2>2. export[x].state # "canceled" /\ export' # export
        BY DEF ActiveExport
    <2>3. PICK r \in Request : Submit(r)
        <3>1. ASSUME NEW j \in Job, GeometryStep(j) \/ Cancel(j)
              PROVE  FALSE
            BY <2>2, <3>1 DEF GeometryStep, Begin, Register, Acquire, GiveUp, Recheck, Compute,
                              Store, Remember, Release, Unregister, Commit, Cancel, exports
        <3>2. ASSUME NEW r \in Request, ExportStep(r)
              PROVE  Submit(r)
            BY <2>2, <3>2 DEF ExportStep, Ask, Enter, Check, exports
        <3>3. ASSUME NEW y \in 1 .. Len(export), ExportWork(y)
              PROVE  FALSE
            <4>1. PICK s \in {"slicing", "failed", "stored", "collided", "succeeded"} : SetState(y, s)
                BY <3>3 DEF ExportWork, Slice, StoreExport, FinishExport
            <4>2. s \in State /\ s # "canceled"
                BY <4>1 DEF State
            <4>3. export'[x].state = s \/ export'[x] = export[x]
                BY <2>1, <4>1, <4>2, StateSet
            <4> QED
                BY <2>2, <4>2, <4>3
        <3>4. ASSUME NEW k \in Key, NEW how \in {"none", "bad"}, Damage(k, how) \/ DamageExport(k, how)
              PROVE  FALSE
            <4>1. ~Damage(k, how)
                BY <2>2 DEF Damage, exports
            <4>2. export'[x] \in {export[x], [export[x] EXCEPT !.late = TRUE]}
                BY <3>4, <4>1 DEF DamageExport
            <4>3. export[x] \in ExportRecord
                BY <2>1
            <4>4. [export[x] EXCEPT !.late = TRUE].state = export[x].state
                BY <4>3 DEF ExportRecord
            <4> QED
                BY <2>2, <4>2, <4>4
        <3>5. ~Restart
            <4>1. SUFFICES ASSUME Restart PROVE FALSE
                OBVIOUS
            <4>2. export'[x] = [export[x] EXCEPT !.state = "failed"]
                BY <4>1 DEF Restart
            <4>3. export[x] \in ExportRecord
                BY <2>1
            <4> QED
                BY <4>2, <4>3 DEF ExportRecord
        <3> QED
            BY <1>1, <3>1, <3>2, <3>3, <3>4, <3>5 DEF Next
    <2>4. Len(export') = Len(export) + 1 /\ export'[Len(export) + 1].key = key[r]
        BY <2>1, <2>3, SubmitRows
    <2>5. x \notin OfKey(key[r])
        BY <2>1, <2>3 DEF ExportInv, CheckedFits, Submit
    <2> QED
        BY <2>4, <2>5 DEF OfKey
<1>2. ASSUME UNCHANGED vars
      PROVE  Shared
    BY <1>2 DEF vars, exports, ActiveExport
<1>3. OInv /\ [Next]_vars => Shared
    BY <1>1, <1>2
<1> QED
    BY <1>3, OInvHolds, PTL DEF Spec, IdenticalShare

=============================================================================
