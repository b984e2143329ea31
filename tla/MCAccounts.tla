------------------------------ MODULE MCAccounts ------------------------------
(* The two parts of the accounts application that live in Redis, side by   *)
(* side: Presence and Otp share no key, so that a behaviour need only take *)
(* the steps of one of them.                                               *)
EXTENDS MCPresence, Otp

CONSTANTS r1, r2, r3, r4

InTurn == <<r1, r2, r3, r4>>
FourRequests == {InTurn[i] : i \in 1 .. 4}

(* Requests are alike, so that they may start in this order. *)
StartInTurn ==
    \A i \in 1 .. 3 : at'[InTurn[i + 1]] # "idle" => at'[InTurn[i]] # "idle"

AccountsInit == Init /\ OtpInit

AccountsNext == \/ OtpInit /\ Next /\ UNCHANGED otpVars
                \/ Init /\ OtpNext /\ StartInTurn /\ UNCHANGED vars

(* Otp has no fairness. *)
Accounts == /\ AccountsInit /\ [][AccountsNext]_<<vars, otpVars>>
            /\ Fairness
===============================================================================
