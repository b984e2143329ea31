------------------------------ MODULE MCPresence ------------------------------
(* Presence on small instances. *)
EXTENDS Presence, TLC

CONSTANTS u1, u2, c1, c2, c3

TwoUsers == {u1, u2}
OneUser == {u1}
TwoChannels == {c1, c2}
ThreeChannels == {c1, c2, c3}

(* u1 has two tabs, u2 one *)
TwoAndOne == (c1 :> u1) @@ (c2 :> u1) @@ (c3 :> u2)
TwoOfOne == (c1 :> u1) @@ (c2 :> u1)

(* only the tabs of one user are interchangeable *)
SymmetricTabs == Permutations({c1, c2})
===============================================================================
