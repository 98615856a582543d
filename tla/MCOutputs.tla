------------------------------ MODULE MCOutputs -----------------------------
(* Geometry jobs 1..3 and export requests 4..6 for TLC.  Jobs are alike, and  *)
(* so are requests and keys: the first ones take part, with keys in order.    *)
EXTENDS Outputs, TLC

Ordered(S) == \A a, b \in S : a <= b /\ pc[b] # "absent" => pc[a] # "absent" /\ key[a] <= key[b]

MCInit == /\ Init
          /\ Ordered(Job) /\ Ordered(Request)
          /\ \A a \in Actor : pc[a] = "absent" => key[a] = 1
          /\ \A r \in Request : \E j \in Job : pc[j] = "idle" /\ key[j] = key[r]
          /\ pc[1] = "idle" /\ key[1] = 1

MCSpec == MCInit /\ [][Next]_vars /\ Fairness

=============================================================================
