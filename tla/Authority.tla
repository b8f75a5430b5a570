------------------------------- MODULE Authority -------------------------------
(***************************************************************************)
(* What the germline control plane promises of authority, without          *)
(* evidence, cycles or storage: one holder at a time, who either is new to *)
(* authority or has held it and not failed, and a failure is final.        *)
(***************************************************************************)
CONSTANTS Ids, None

VARIABLES
    holder,  \* the generation in authority, None before the first grant
    held,    \* every generation that has ever been in authority
    fallen   \* the generations demoted after a failure

vars == <<holder, held, fallen>>

Init == holder = None /\ held = {} /\ fallen = {}

Grant(g) ==
    /\ g \notin held
    /\ holder' = g
    /\ held' = held \cup {g}
    /\ UNCHANGED fallen

Return(g) ==
    /\ g \in held \ fallen
    /\ holder' = g
    /\ UNCHANGED <<held, fallen>>

Demote(g) ==
    /\ holder # None
    /\ g \in held \ (fallen \cup {holder})
    /\ holder' = g
    /\ fallen' = fallen \cup {holder}
    /\ UNCHANGED held

Next == \E g \in Ids : Grant(g) \/ Return(g) \/ Demote(g)

Spec == Init /\ [][Next]_vars
=============================================================================
