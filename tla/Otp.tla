---------------------------------- MODULE Otp ----------------------------------
(***************************************************************************)
(* Password reset codes: the entry OTPService keeps in the shared cache    *)
(* for one account, as the two views of the password reset use it.         *)
(*                                                                         *)
(* create_otp and verify_otp are sequences of cache commands that no lock  *)
(* and no transaction holds together, so requests interleave between any   *)
(* two of them.  Fail is an exception or a dead process.                   *)
(*                                                                         *)
(* A code is named by the order in which the codes were stored; two equal  *)
(* codes among the 900000 are left out.  0 stands for a code that was      *)
(* never issued.                                                           *)
(***************************************************************************)
EXTENDS Integers

CONSTANTS
    Requests,     \* the calls in flight, each of which runs once
    MAX_ATTEMPTS,
    MaxCodes      \* bound: codes ever issued

ASSUME AttemptsAssumption == MAX_ATTEMPTS \in Nat \ {0}
ASSUME MaxCodesAssumption == MaxCodes \in Nat

VARIABLES
    entry,      \* the cache entry, or NoEntry
    issued,     \* codes stored so far
    at,         \* at[r]: the step request r takes next
    data,       \* data[r]: the entry verify_otp has read
    given,      \* given[r]: the code presented
    accepted,   \* the codes verify_otp has returned True for
    resets,     \* the codes with which a password was set
    password,   \* the version of the password
    raced       \* has a verification written over an entry that is not the
                \* one it read?  auxiliary

cache == <<entry, issued>>
outcome == <<accepted, resets, password, raced>>
otpVars == <<cache, at, data, given, outcome>>

NoEntry == [code |-> 0, attempts |-> 0]

OtpInit ==
    /\ entry = NoEntry
    /\ issued = 0
    /\ at = [r \in Requests |-> "idle"]
    /\ data = [r \in Requests |-> NoEntry]
    /\ given = [r \in Requests |-> 0]
    /\ accepted = {} /\ resets = {}
    /\ password = 0
    /\ raced = FALSE

OtpGoto(r, step) == at' = [at EXCEPT ![r] = step]
------------------------------------------------------------------------------
(* PasswordResetRequestOTPView.post.  For an unknown account user is None  *)
(* and user.id raises.                                                     *)
Request(r) ==
    /\ at[r] = "idle"
    /\ \E known \in BOOLEAN : OtpGoto(r, IF known THEN "delete" ELSE "raised")
    /\ UNCHANGED <<cache, data, given, outcome>>

(* create_otp *)
DeleteOld(r) ==
    /\ at[r] = "delete"
    /\ entry' = NoEntry
    /\ OtpGoto(r, "store")
    /\ UNCHANGED <<issued, data, given, outcome>>

StoreCode(r) ==
    /\ at[r] = "store"
    /\ issued < MaxCodes
    /\ issued' = issued + 1
    /\ entry' = [code |-> issued', attempts |-> 0]
    /\ OtpGoto(r, "mail")
    /\ UNCHANGED <<data, given, outcome>>

(* send_otp_email takes the account and is given its address: the access   *)
(* to user.email raises, in the try and once more in its except.           *)
Mail(r) ==
    /\ at[r] = "mail"
    /\ OtpGoto(r, "raised")
    /\ UNCHANGED <<cache, data, given, outcome>>
------------------------------------------------------------------------------
(* PasswordResetOTPSerializer.validate: verify_otp, *)

(* mutant: attempts are counted and never looked at *)
Verdict_Unlimited(d, code) ==
    CASE d = NoEntry -> "rejected"
      [] d # NoEntry /\ d.code = code -> "accept"
      [] OTHER -> "record"

(* what verify_otp makes of the entry it has read *)
Verdict(d, code) ==
    CASE d = NoEntry -> "rejected"
      [] d.attempts >= MAX_ATTEMPTS -> "giveUp"
      [] d # NoEntry /\ d.attempts < MAX_ATTEMPTS /\ d.code = code -> "accept"
      [] OTHER -> "record"

ReadEntry(r) ==
    /\ at[r] = "idle"
    /\ data' = [data EXCEPT ![r] = entry]
    /\ \E code \in 0 .. issued :
         /\ given' = [given EXCEPT ![r] = code]
         /\ OtpGoto(r, Verdict(entry, code))
    /\ UNCHANGED <<cache, outcome>>

GiveUp(r) ==
    /\ at[r] = "giveUp"
    /\ entry' = NoEntry
    /\ OtpGoto(r, "rejected")
    /\ UNCHANGED <<issued, data, given, outcome>>

(* mutant: the count that was read is written back *)
RecordFailure_Uncounted(r) ==
    /\ at[r] = "record"
    /\ entry' = data[r]
    /\ raced' = (raced \/ entry # data[r])
    /\ OtpGoto(r, "rejected")
    /\ UNCHANGED <<issued, data, given, accepted, resets, password>>

(* the whole entry is written back, with a new time to live *)
RecordFailure(r) ==
    /\ at[r] = "record"
    /\ entry' = [data[r] EXCEPT !.attempts = @ + 1]
    /\ raced' = (raced \/ entry # data[r])
    /\ OtpGoto(r, "rejected")
    /\ UNCHANGED <<issued, data, given, accepted, resets, password>>

(* mutant: an accepted code is not deleted *)
Accept_Kept(r) ==
    /\ at[r] = "accept"
    /\ accepted' = accepted \union {given[r]}
    /\ raced' = (raced \/ entry # data[r])
    /\ OtpGoto(r, "confirm")
    /\ UNCHANGED <<cache, data, given, resets, password>>

Accept(r) ==
    /\ at[r] = "accept"
    /\ entry' = NoEntry
    /\ accepted' = accepted \union {given[r]}
    /\ raced' = (raced \/ entry # data[r])
    /\ OtpGoto(r, "confirm")
    /\ UNCHANGED <<issued, data, given, resets, password>>

(* then the comparison of the two passwords: the code is gone by now *)
ComparePasswords(r) ==
    /\ at[r] = "confirm"
    /\ \E match \in BOOLEAN : OtpGoto(r, IF match THEN "save" ELSE "rejected")
    /\ UNCHANGED <<cache, data, given, outcome>>

(* save, one transaction; DeviceSessions has the revocation that is in it *)
SavePassword(r) ==
    /\ at[r] = "save"
    /\ password' = password + 1
    /\ resets' = resets \union {given[r]}
    /\ OtpGoto(r, "done")
    /\ UNCHANGED <<cache, data, given, accepted, raced>>
------------------------------------------------------------------------------
(* the time to live runs out *)
ExpireCode ==
    /\ entry # NoEntry
    /\ entry' = NoEntry
    /\ UNCHANGED <<issued, at, data, given, outcome>>

Final == {"raised", "rejected", "done", "failed"}

Fail(r) ==
    /\ at[r] \notin Final \union {"idle"}
    /\ OtpGoto(r, "failed")
    /\ UNCHANGED <<cache, data, given, outcome>>

Create(r) == Request(r) \/ DeleteOld(r) \/ StoreCode(r) \/ Mail(r)
Verify(r) == ReadEntry(r) \/ GiveUp(r) \/ RecordFailure(r) \/ Accept(r)
Confirm(r) == ComparePasswords(r) \/ SavePassword(r)

OtpNext == \/ \E r \in Requests : Create(r) \/ Verify(r) \/ Confirm(r) \/ Fail(r)
        \/ ExpireCode

OtpSpec == OtpInit /\ [][OtpNext]_otpVars
------------------------------------------------------------------------------
OtpSteps == {"idle", "delete", "store", "mail", "giveUp", "record", "accept",
          "confirm", "save"} \union Final
Entries == [code : 0 .. MaxCodes, attempts : 0 .. MAX_ATTEMPTS]

OtpTypeOK ==
    /\ entry \in Entries
    /\ issued \in 0 .. MaxCodes
    /\ at \in [Requests -> OtpSteps]
    /\ data \in [Requests -> Entries]
    /\ given \in [Requests -> 0 .. MaxCodes]
    /\ accepted \in SUBSET (1 .. issued)
    /\ resets \in SUBSET (1 .. issued)
    /\ password \in Nat
    /\ raced \in BOOLEAN

(* An entry without a failed attempt holds the code issued last, and that  *)
(* code was never accepted.  Whatever overlaps, an old or a used code only *)
(* comes back by the late write of a failed verification, which leaves its *)
(* count behind (create_otp, verify_otp).                                  *)
FreshIsNewest ==
    entry # NoEntry /\ entry.attempts = 0 =>
        entry.code = issued /\ issued \notin accepted

Code == INSTANCE OneTimeCode WITH torn <- raced

(* As long as no verification has written over an entry that had changed   *)
(* since it was read, verify_otp is one step: a code is accepted at most   *)
(* once, only if it is the last one and before MAX_ATTEMPTS failures, and  *)
(* sets at most one password (verify_otp, PasswordResetOTPSerializer).     *)
ImplementsCode == Code!Spec
==============================================================================
