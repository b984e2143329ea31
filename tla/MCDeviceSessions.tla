---------------------------- MODULE MCDeviceSessions ----------------------------
(* DeviceSessions on small instances. *)
EXTENDS DeviceSessions, TLC

CONSTANTS s1, s2, r1, r2, k1

OneSession == {s1}
TwoSessions == {s1, s2}
TwoRequests == {r1, r2}
OneSocket == {k1}

(* The socket belongs to s1, which is logged in, with a token or a cookie. *)
(* s2 is of the API and may be logged in, or log in on the way.            *)
InitSocketOfOne ==
    /\ Init
    /\ status[s1] = "active"
    /\ link = [k \in Sockets |-> s1]
    /\ auth[s2] = "API"

SocketOfOne == InitSocketOfOne /\ [][Next]_vars /\ Fairness
=================================================================================
