------------------------------ MODULE CursorStream ------------------------------
(***************************************************************************)
(* What the scanners under scanner/ want of the cursor in scan_progress:   *)
(* it moves only over items that have been dealt with before, and once it  *)
(* has passed a place, nothing appears, moves or disappears there.  So a   *)
(* process that starts from the cursor need not look behind it.  No nodes, *)
(* windows, pages, channel or crashes: EvmScanner and TronScanner keep the *)
(* promise in spite of them.                                               *)
(***************************************************************************)
EXTENDS Naturals

CONSTANT Items

VARIABLES place,  \* of each item in the stream, 0 while it is not there
          next,   \* the first place that the cursor has not passed
          done    \* items that have been dealt with

vars == <<place, next, done>>

Init == /\ place = [i \in Items |-> 0]
        /\ next \in {0, 1}
        /\ done = {}

Passed(p, n) == 0 < p /\ p < n

Stream == /\ \A i \in Items : Passed(place[i], next) \/ Passed(place'[i], next)
                                => place'[i] = place[i]
          /\ done \subseteq done'
          /\ UNCHANGED next

Move == /\ \A i \in Items : Passed(place[i], next') => i \in done
        /\ UNCHANGED <<place, done>>

Next == Stream \/ Move

Spec == Init /\ [][Next]_vars
================================================================================
