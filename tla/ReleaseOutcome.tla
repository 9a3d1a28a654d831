--------------------------- MODULE ReleaseOutcome ---------------------------
(* What a receipt path promises of a release: one attempt ever changes the *)
(* services on its behalf, it does so before an outcome is recorded, and   *)
(* the recorded outcome is final.                                          *)
CONSTANT Attempt

VARIABLES changers, outcome

Init == changers = {} /\ outcome = "open"

\* The attempt makes its first change.
Claim(p) ==
    /\ changers = {} /\ outcome = "open"
    /\ changers' = {p}
    /\ UNCHANGED outcome

Settle ==
    /\ changers # {} /\ outcome = "open"
    /\ outcome' \in {"succeeded", "failed"}
    /\ UNCHANGED changers

Next == (\E p \in Attempt : Claim(p)) \/ Settle

Spec == Init /\ [][Next]_<<changers, outcome>>
=============================================================================
