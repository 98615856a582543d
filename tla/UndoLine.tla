------------------------------ MODULE UndoLine ------------------------------
(***************************************************************************)
(* What undo and redo promise a user: a line of document states, one of    *)
(* them current.  An edit replaces everything after the current state, undo *)
(* and redo walk the line, undo never walks further than Limit commands    *)
(* behind the newest one, and a publication, branch or new document starts *)
(* a line of one state that undo cannot leave.                             *)
(***************************************************************************)
EXTENDS Naturals, Sequences

CONSTANTS State, Limit

VARIABLES
    line,   \* the states from the anchor to the newest; empty: no document
    pos     \* the index of the current state, 0 if there is no document

board == <<line, pos>>

Current == line[pos]

Init == \E s \in State : line = <<s>> /\ pos = 1

Edit(s) ==
    /\ pos > 0
    /\ line' = Append(SubSeq(line, 1, pos), s)
    /\ pos' = pos + 1

Undo ==
    /\ pos > 1
    /\ pos + Limit > Len(line)
    /\ pos' = pos - 1
    /\ UNCHANGED line

Redo ==
    /\ pos < Len(line)
    /\ pos' = pos + 1
    /\ UNCHANGED line

Restart(s) == line' = <<s>> /\ pos' = 1

Close == line' = <<>> /\ pos' = 0

Next ==
    \/ \E s \in State : Edit(s) \/ Restart(s)
    \/ Undo \/ Redo \/ Close

Spec == Init /\ [][Next]_board

=============================================================================
