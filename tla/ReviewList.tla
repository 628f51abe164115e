----------------------------- MODULE ReviewList -----------------------------
(***************************************************************************)
(* What browsing a review promises: the owner walks along an ordered set   *)
(* of places, one place at a time and back the same way, from the first    *)
(* place on.  Nothing is skipped, repeated or invented.                    *)
(***************************************************************************)
CONSTANTS
    Before(_, _),   \* the order of the places
    Closed          \* no review is open

VARIABLES
    places,         \* the places of the open review
    at,             \* the place the owner looks at
    seen            \* the places looked at since the review was opened

vars == << places, at, seen >>

Init ==
    /\ places = {}
    /\ at = Closed
    /\ seen = {}

Open ==
    /\ at = Closed
    /\ at' \in places'
    /\ \A p \in places' \ {at'} : Before(at', p)
    /\ seen' = {at'}

Neighbours(p, q) ==
    /\ Before(p, q)
    /\ \A r \in places : ~(Before(p, r) /\ Before(r, q))

Forward ==
    /\ at \in places /\ at' \in places
    /\ Neighbours(at, at')
    /\ seen' = seen \cup {at'}
    /\ UNCHANGED places

Backward ==
    /\ at \in places /\ at' \in places
    /\ Neighbours(at', at)
    /\ seen' = seen \cup {at'}
    /\ UNCHANGED places

Close ==
    /\ at' = Closed
    /\ places' = {}
    /\ seen' = {}

Next == Open \/ Forward \/ Backward \/ Close

Spec == Init /\ [][Next]_vars
=============================================================================
