------------------------------ MODULE Approval ------------------------------
(***************************************************************************)
(* What the pending-request feature promises a student and a university:   *)
(* a student asks, the university approves, and one approval settles all   *)
(* the student has asked of it (pendingrequest.go:191).                    *)
(***************************************************************************)
CONSTANTS Student, University

VARIABLES
  asked,   \* the pairs with a request that awaits approval
  granted  \* the pairs with a request that was approved

vars == <<asked, granted>>

Pair == Student \X University

Init == asked = {} /\ granted = {}

Ask(p) ==
  /\ asked' = asked \cup {p}
  /\ UNCHANGED granted

Approve(p) ==
  /\ p \in asked
  /\ asked' = asked \ {p}
  /\ granted' = granted \cup {p}

Next == \E p \in Pair : Ask(p) \/ Approve(p)

Spec == Init /\ [][Next]_vars
=============================================================================
