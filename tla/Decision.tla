------------------------------ MODULE Decision ------------------------------
(***************************************************************************)
(* What the staff console promises about a request that somebody must      *)
(* decide (a balance adjustment, a tier upgrade): it is decided at most    *)
(* once, and it has its effect when, and only when, it is accepted.        *)
(***************************************************************************)
EXTENDS Integers

CONSTANT Item

VARIABLES state, effect

Init ==
    /\ state = [i \in Item |-> "absent"]
    /\ effect = [i \in Item |-> 0]

Ask(i) ==
    /\ state[i] = "absent"
    /\ state' = [state EXCEPT ![i] = "pending"]
    /\ UNCHANGED effect

Accept(i) ==
    /\ state[i] = "pending"
    /\ state' = [state EXCEPT ![i] = "accepted"]
    /\ effect' = [effect EXCEPT ![i] = @ + 1]

Refuse(i) ==
    /\ state[i] = "pending"
    /\ state' = [state EXCEPT ![i] = "refused"]
    /\ UNCHANGED effect

Next == \E i \in Item : Ask(i) \/ Accept(i) \/ Refuse(i)

Spec == Init /\ [][Next]_<<state, effect>>
=============================================================================
