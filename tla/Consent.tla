------------------------------ MODULE Consent ------------------------------
(***************************************************************************)
(* What a signing device promises its owner: something is signed only when *)
(* it is what the owner has just been asked about, and every question is   *)
(* used at most once.                                                      *)
(*                                                                         *)
(* `asked` is the question on the screen, `granted` what the signature the *)
(* device last handed out covers; both are Nothing most of the time.       *)
(***************************************************************************)
CONSTANT
    Nothing        \* no question, or no signature

VARIABLES
    asked,
    granted

vars == << asked, granted >>

Init ==
    /\ asked = Nothing
    /\ granted = Nothing

\* A new question withdraws the signature handed out before it.
Ask ==
    /\ asked = Nothing
    /\ asked' # Nothing
    /\ granted' = Nothing

Grant ==
    /\ asked # Nothing
    /\ granted' = asked
    /\ asked' = Nothing

\* The owner refuses, the signing fails, or the device answers something else.
Withdraw ==
    /\ asked' = Nothing
    /\ granted' = Nothing

Next == Ask \/ Grant \/ Withdraw

Spec == Init /\ [][Next]_vars
=============================================================================
