------------------------- MODULE MCValveReplacement -------------------------
(* ValveReplacement with a bootstrapped room and a room without a valve: before *)
(* the first replacement, and after it.                                         *)
EXTENDS ValveReplacement, TLC

CONSTANTS r1, r2, v1, v2, v3

Unbound == [binding |-> None, previous |-> None, bootstrap |-> None, revision |-> 0]

Bootstrapped ==
    r1 :> [binding |-> v1, previous |-> None, bootstrap |-> v1, revision |-> 0] @@ r2 :> Unbound

Replaced ==
    r1 :> [binding |-> v2, previous |-> v1, bootstrap |-> v1, revision |-> 1] @@ r2 :> Unbound

MCRooms == {Bootstrapped, Replaced}
MCBootstrapped == {Bootstrapped}
MCOneRoom == {r1 :> [binding |-> v1, previous |-> None, bootstrap |-> v1, revision |-> 0]}

\* Liveness, for behaviours of the two events a pairing takes and one input more.  No
\* fairness asks for an input, so the bound takes nothing from it.
Inputs == count.events + count.callbacks + count.calls + count.restarts
MCFairSpec == Init /\ [][Next /\ (Inputs <= 3)']_vars /\ Fairness
=============================================================================
