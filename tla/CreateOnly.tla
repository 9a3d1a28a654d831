----------------------------- MODULE CreateOnly -----------------------------
(* What a create-only publication promises, whatever fails and however     *)
(* often it is run again: it asks for each item once, at most one is made, *)
(* what it calls its own is that one for good, and all that rests on the   *)
(* base is asked for only when the base is owned and the tables committed. *)
CONSTANTS Kind,     \* the kinds of items, one of each
          Base,     \* the kind the others rest on
          Table,    \* the tables written into it
          None      \* no item

VARIABLES asked,        \* the kinds that were asked for
          made,         \* the items of each kind that were made for it
          owned,        \* the item of each kind it calls its own, or None
          committed     \* the tables whose first commit is its own

vars == <<asked, made, owned, committed>>

Init ==
    /\ asked = {}
    /\ made = [k \in Kind |-> {}]
    /\ owned = [k \in Kind |-> None]
    /\ committed = {}

Ask(k) ==
    /\ k \notin asked
    /\ k # Base => owned[Base] # None /\ committed = Table
    /\ asked' = asked \cup {k}
    /\ UNCHANGED <<made, owned, committed>>

\* An item no kind had before.
Make(k) ==
    /\ k \in asked /\ made[k] = {}
    /\ \E i \in made'[k] : /\ \A j \in Kind : i \notin made[j]
                           /\ made' = [made EXCEPT ![k] = {i}]
    /\ UNCHANGED <<asked, owned, committed>>

Own(k) ==
    /\ owned[k] = None
    /\ \E i \in made[k] : owned' = [owned EXCEPT ![k] = i]
    /\ UNCHANGED <<asked, made, committed>>

Commit(t) ==
    /\ owned[Base] # None /\ t \notin committed
    /\ committed' = committed \cup {t}
    /\ UNCHANGED <<asked, made, owned>>

Next == \/ \E k \in Kind : Ask(k) \/ Make(k) \/ Own(k)
        \/ \E t \in Table : Commit(t)

Spec == Init /\ [][Next]_vars
=============================================================================
