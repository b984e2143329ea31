------------------------------ MODULE MCLiveChat ------------------------------
(* LiveChat on small instances. *)
EXTENDS LiveChat, TLC

CONSTANTS u1, u2, p1, p2

TwoUsers == {u1, u2}
OnePage == {p1}
TwoPages == {p1, p2}
PageOfEach == [p \in Pages |-> IF p = p1 THEN u1 ELSE u2]

(* The viewer of p1 sends the first message, the other user answers. *)
InitOneMessageEach == Init /\ author[1] = u1 /\ author[2] = u2

OneMessageEach == InitOneMessageEach /\ [][Next]_vars /\ Fairness

AllCallers == Messages \union Users \union Pages
===============================================================================
