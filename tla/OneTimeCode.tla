------------------------------ MODULE OneTimeCode ------------------------------
(***************************************************************************)
(* What a password reset by code promises, as long as verifications do not *)
(* get in each other's way: a code is looked at, counted and burnt in one  *)
(* step.  Once they have (torn), nothing is promised any more.             *)
(***************************************************************************)
EXTENDS Integers

CONSTANT MAX_ATTEMPTS

VARIABLES
    entry,      \* the code that can be used and its failed attempts, or NoEntry
    issued,     \* codes issued so far; a code is named by its number
    accepted,   \* the codes that have been accepted
    resets,     \* the codes with which a password was set
    password,   \* the version of the password
    torn        \* has a verification overlapped a change of the entry?

vars == <<entry, issued, accepted, resets, password, torn>>

NoEntry == [code |-> 0, attempts |-> 0]
IsOpen == entry # NoEntry

Init ==
    /\ entry = NoEntry
    /\ issued = 0
    /\ accepted = {} /\ resets = {}
    /\ password = 0
    /\ torn = FALSE

Issue ==
    /\ issued' = issued + 1
    /\ entry' = [code |-> issued', attempts |-> 0]
    /\ UNCHANGED <<accepted, resets, password, torn>>

(* It expires, is given up after too many failures, or replaced. *)
Withdraw ==
    /\ entry' = NoEntry
    /\ UNCHANGED <<issued, accepted, resets, password, torn>>

Reject ==
    /\ IsOpen /\ entry.attempts < MAX_ATTEMPTS
    /\ entry' = [entry EXCEPT !.attempts = @ + 1]
    /\ UNCHANGED <<issued, accepted, resets, password, torn>>

Accept ==
    /\ IsOpen /\ entry.attempts < MAX_ATTEMPTS
    /\ entry.code = issued /\ issued \notin accepted
    /\ accepted' = accepted \union {issued}
    /\ entry' = NoEntry
    /\ UNCHANGED <<issued, resets, password, torn>>

SetPassword ==
    /\ \E c \in accepted \ resets : resets' = resets \union {c}
    /\ password' = password + 1
    /\ UNCHANGED <<entry, issued, accepted, torn>>

Next ==
    \/ Issue \/ Withdraw \/ Reject \/ Accept \/ SetPassword
    \/ torn'

Spec == Init /\ [][Next]_vars
==============================================================================
