----------------------------- MODULE LatestWins -----------------------------
(***************************************************************************)
(* What the job system promises: requests are filed under a key, the       *)
(* newest request of a key replaces the one before it, only the current    *)
(* request may publish, and a request that was published or closed stays   *)
(* so.  A request without a key competes with nobody.                      *)
(***************************************************************************)
CONSTANTS Job, Key, NoKey, NoJob

VARIABLES
    phase,     \* "new", "active", "published" or "closed"
    owner,     \* the key a request was filed under
    current    \* the request a key currently stands for

board == <<phase, owner, current>>

Init ==
    /\ phase = [j \in Job |-> "new"]
    /\ owner = [j \in Job |-> NoKey]
    /\ current = [k \in Key |-> NoJob]

\* A new request becomes current; the request it replaces is closed unless it
\* had already been published or closed.
Submit(j, k) ==
    /\ phase[j] = "new"
    /\ phase' = [i \in Job |-> IF i = j THEN "active"
                               ELSE IF k # NoKey /\ owner[i] = k /\ phase[i] = "active"
                                    THEN "closed"
                               ELSE phase[i]]
    /\ owner' = [owner EXCEPT ![j] = k]
    /\ current' = [q \in Key |-> IF q = k THEN j ELSE current[q]]

Publish(j) ==
    /\ phase[j] = "active"
    /\ owner[j] # NoKey => current[owner[j]] = j
    /\ phase' = [phase EXCEPT ![j] = "published"]
    /\ UNCHANGED <<owner, current>>

\* Failure, cancellation, or the loss of the process that ran the requests.
Close(J) ==
    /\ phase' = [j \in Job |-> IF j \in J /\ phase[j] = "active" THEN "closed" ELSE phase[j]]
    /\ UNCHANGED <<owner, current>>

Next ==
    \/ \E j \in Job, k \in Key \cup {NoKey} : Submit(j, k)
    \/ \E j \in Job : Publish(j)
    \/ \E J \in SUBSET Job : Close(J)

Spec == Init /\ [][Next]_board

=============================================================================
