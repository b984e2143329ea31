----------------------------- MODULE MCMessaging -----------------------------
(* Messaging on small instances. *)
EXTENDS Messaging, TLC

CONSTANTS u1, u2, r1, r2

TwoUsers == {u1, u2}
TwoRequests == {r1, r2}

Symmetry == Permutations({u1, u2}) \union Permutations({r1, r2})

(* Users are alike, so that the first request may be of the first one; the *)
(* conversation is empty, or has a message behind its newest.              *)
InitFirstOfFirst == Init /\ user[r1] = u1 /\ clock # 1
==============================================================================
