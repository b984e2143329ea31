----------------------------- MODULE MCMembership -----------------------------
(* Membership on small instances. *)
EXTENDS Membership, TLC

CONSTANTS u1, u2, u3, r1, r2, r3

TwoUsers == {u1, u2}
ThreeUsers == {u1, u2, u3}
TwoRequests == {r1, r2}
ThreeRequests == {r1, r2, r3}

Symmetry == Permutations({u1, u2, u3}) \union Permutations({r1, r2, r3})

TwoOfEach == Permutations({u1, u2}) \union Permutations({r1, r2})

(* Staff change a role only while no call is in flight. *)
CalmPromotions ==
    Init /\ [][Next /\ (Promote => pc = [r \in Requests |-> "idle"])]_vars
===============================================================================
