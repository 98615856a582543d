--------------------------- MODULE MCCalibration ---------------------------
(* Instances of Calibration; see the .cfg files.  Two sizes of dots and    *)
(* holes; records that agree, contradict each other, are not monotonic, or *)
(* are of another process, two of them with the same run id.               *)
EXTENDS Calibration, Sequences, TLC
CONSTANTS r1, r2, r3, p1, p2, dot, hole

Record(run, process, d, h) ==
    [run |-> run, process |-> process, outcome |-> (dot :> d) @@ (hole :> h)]

MCContents == {
    Record(r1, p1, <<"fail", "pass">>, <<"fail", "pass">>),
    Record(r1, p2, <<"fail", "pass">>, <<"pass", "pass">>),
    Record(r2, p1, <<"pass", "fail">>, <<"fail", "pass">>),
    Record(r3, p2, <<"fail", "pass">>, <<"fail", "uncertain">>)}

(* While a draft is worked on, at most one run exists and no proposal. *)
Focus == \A d \in Draft : Exists(d) /\ drafts[d].run = None =>
             proposals = <<>> /\ Cardinality(DOMAIN runs) <= 1

Requests == Permutations(Request)

MCKind == {dot, hole}
MCRunId == {r1, r2, r3}
MCProcess == {p1, p2}
=============================================================================
