-------------------------------- MODULE MCTyping --------------------------------
(* Typing on small instances: the reader, who may have a page that types   *)
(* too, and the other party.                                               *)
EXTENDS Typing

CONSTANTS p1, p2, me, other

TwoPages == {p1, p2}
TwoUsers == {me, other}
=================================================================================
