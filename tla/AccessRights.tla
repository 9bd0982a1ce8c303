---------------------------- MODULE AccessRights ----------------------------
(***************************************************************************)
(* What the access rows promise: a user has one right or none in a quarry. *)
(* A right is given to a user who has none there, and taken; it never      *)
(* turns into another one.                                                 *)
(***************************************************************************)
CONSTANTS Users, Quarries, Roles

VARIABLE right   \* right[u][q]: a role, or "none"

Init == right = [u \in Users |-> [q \in Quarries |-> "none"]]

Give(u, q, role) ==
    /\ right[u][q] = "none"
    /\ right' = [right EXCEPT ![u][q] = role]

Take(u, q) == right' = [right EXCEPT ![u][q] = "none"]

Next ==
    \E u \in Users, q \in Quarries :
        Take(u, q) \/ \E role \in Roles : Give(u, q, role)

Spec == Init /\ [][Next]_right
=============================================================================
