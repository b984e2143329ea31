------------------------------- MODULE OtpProofs -------------------------------
(***************************************************************************)
(* Otp for any number of requests, attempts and codes: types, what a fresh *)
(* entry holds, and that Otp implements OneTimeCode.                       *)
(***************************************************************************)
EXTENDS Otp, FiniteSets, FiniteSetTheorems, TLAPS

LEMMA NoEntryType == NoEntry \in Entries
  BY AttemptsAssumption, MaxCodesAssumption DEF NoEntry, Entries

(* What a request between two of its steps knows of the entry it has read. *)
HasRead ==
    \A r \in Requests :
        /\ at[r] \in {"record", "accept"} => data[r].attempts < MAX_ATTEMPTS
        /\ at[r] = "accept" => data[r] # NoEntry /\ given[r] = data[r].code
        /\ at[r] = "record" => data[r] # NoEntry

(* Entries carry codes that were issued. *)
CodesAreIssued ==
    /\ entry # NoEntry => entry.code \in 1 .. issued
    /\ \A r \in Requests : data[r] # NoEntry => data[r].code \in 1 .. issued
    /\ \A r \in Requests : at[r] \in {"confirm", "save"} => given[r] \in 1 .. issued

Base == OtpTypeOK /\ HasRead /\ CodesAreIssued

LEMMA InitBase == OtpInit => Base
  <1> SUFFICES ASSUME OtpInit PROVE Base
    OBVIOUS
  <1>1. OtpTypeOK
    <2>1. entry \in Entries /\ data \in [Requests -> Entries]
      BY NoEntryType DEF OtpInit
    <2>2. issued \in 0 .. MaxCodes /\ given \in [Requests -> 0 .. MaxCodes]
      BY MaxCodesAssumption DEF OtpInit
    <2>3. at \in [Requests -> OtpSteps]
      BY DEF OtpInit, OtpSteps
    <2>4. accepted \in SUBSET (1 .. issued) /\ resets \in SUBSET (1 .. issued)
      BY DEF OtpInit
    <2> QED
      BY <2>1, <2>2, <2>3, <2>4 DEF OtpInit, OtpTypeOK
  <1>2. HasRead /\ CodesAreIssued
    BY DEF OtpInit, HasRead, CodesAreIssued
  <1> QED
    BY <1>1, <1>2 DEF Base

LEMMA VerdictSound ==
  ASSUME NEW d \in Entries, NEW code \in Nat
  PROVE  /\ Verdict(d, code) \in {"rejected", "giveUp", "accept", "record"}
         /\ Verdict(d, code) \in {"accept", "record"} =>
              d # NoEntry /\ d.attempts < MAX_ATTEMPTS
         /\ Verdict(d, code) = "accept" => d.code = code
  BY AttemptsAssumption, MaxCodesAssumption DEF Verdict, Entries

(* OtpSteps that leave the entry and what came of it alone. *)
Quiet(r) == Request(r) \/ Mail(r) \/ ComparePasswords(r) \/ Fail(r)
Deletes(r) == DeleteOld(r) \/ GiveUp(r)

LEMMA QuietKeeps ==
  ASSUME OtpTypeOK, NEW r \in Requests, Quiet(r)
  PROVE  /\ UNCHANGED <<cache, data, given, outcome>>
         /\ at' \in [Requests -> OtpSteps]
         /\ \A q \in Requests \ {r} : at'[q] = at[q]
         /\ at'[r] \notin {"record", "accept", "confirm"}
         /\ at'[r] = "save" => at[r] = "confirm"
  BY DEF Quiet, Request, Mail, ComparePasswords, Fail, OtpGoto, OtpTypeOK, OtpSteps, Final

LEMMA NextCases ==
  ASSUME [OtpNext]_otpVars
  PROVE  \/ \E r \in Requests : Quiet(r) \/ Deletes(r) \/ StoreCode(r) \/ ReadEntry(r)
                                \/ RecordFailure(r) \/ Accept(r) \/ SavePassword(r)
         \/ ExpireCode
         \/ UNCHANGED otpVars
  BY DEF OtpNext, Create, Verify, Confirm, Quiet, Deletes

LEMMA NextBase == Base /\ [OtpNext]_otpVars => Base'
  <1> SUFFICES ASSUME Base, [OtpNext]_otpVars PROVE Base'
    OBVIOUS
  <1> USE NoEntryType, MaxCodesAssumption DEF Base, OtpGoto, cache, outcome
  <1>p. NoEntry.attempts = 0 /\ NoEntry.code = 0
    BY DEF NoEntry
  <1>1. ASSUME NEW r \in Requests, Quiet(r) PROVE Base'
    <2>1. /\ UNCHANGED <<cache, data, given, outcome>>
          /\ at' \in [Requests -> OtpSteps]
          /\ \A q \in Requests \ {r} : at'[q] = at[q]
          /\ at'[r] \notin {"record", "accept", "confirm"}
          /\ at'[r] = "save" => at[r] = "confirm"
      BY <1>1, QuietKeeps
    <2> QED
      BY <2>1 DEF OtpTypeOK, HasRead, CodesAreIssued
  <1>2. ASSUME NEW r \in Requests, Deletes(r) PROVE Base'
    BY <1>2 DEF Deletes, DeleteOld, GiveUp, OtpTypeOK, OtpSteps, Final, HasRead, CodesAreIssued
  <1>3. ASSUME NEW r \in Requests, StoreCode(r) PROVE Base'
    <2>1. issued' = issued + 1 /\ issued' \in 0 .. MaxCodes /\ 0 \in 0 .. MAX_ATTEMPTS
      BY <1>3, AttemptsAssumption DEF StoreCode, OtpTypeOK
    <2>2. entry' = [code |-> issued', attempts |-> 0] /\ entry' \in Entries
      BY <1>3, <2>1 DEF StoreCode, Entries
    <2>3. OtpTypeOK'
      BY <1>3, <2>1, <2>2 DEF StoreCode, OtpTypeOK, OtpSteps
    <2>4. HasRead'
      BY <1>3 DEF StoreCode, OtpTypeOK, HasRead
    <2>5. CodesAreIssued'
      BY <1>3, <2>1, <2>2 DEF StoreCode, OtpTypeOK, CodesAreIssued
    <2> QED
      BY <2>3, <2>4, <2>5
  <1>4. ASSUME NEW r \in Requests, ReadEntry(r) PROVE Base'
    <2>1. PICK code \in 0 .. issued :
             /\ given' = [given EXCEPT ![r] = code]
             /\ at' = [at EXCEPT ![r] = Verdict(entry, code)]
      BY <1>4 DEF ReadEntry
    <2>2. code \in Nat /\ code \in 0 .. MaxCodes
      BY DEF OtpTypeOK
    <2>3. entry \in Entries
      BY DEF OtpTypeOK
    <2>4. /\ Verdict(entry, code) \in {"rejected", "giveUp", "accept", "record"}
          /\ Verdict(entry, code) \in {"accept", "record"} =>
               entry # NoEntry /\ entry.attempts < MAX_ATTEMPTS
          /\ Verdict(entry, code) = "accept" => entry.code = code
      BY <2>2, <2>3, VerdictSound
    <2>5. /\ data' = [data EXCEPT ![r] = entry] /\ UNCHANGED <<cache, outcome>>
      BY <1>4 DEF ReadEntry
    <2>6. OtpTypeOK'
      BY <2>1, <2>2, <2>3, <2>4, <2>5 DEF OtpTypeOK, OtpSteps, Final
    <2>7. HasRead'
      BY <2>1, <2>4, <2>5 DEF OtpTypeOK, HasRead
    <2>8. CodesAreIssued'
      BY <2>1, <2>4, <2>5 DEF OtpTypeOK, CodesAreIssued
    <2> QED
      BY <2>6, <2>7, <2>8
  <1>5. ASSUME NEW r \in Requests, RecordFailure(r) PROVE Base'
    <2>1. data[r] \in Entries /\ data[r] # NoEntry /\ data[r].attempts < MAX_ATTEMPTS
          /\ data[r].code \in 1 .. issued
      BY <1>5 DEF RecordFailure, OtpTypeOK, HasRead, CodesAreIssued
    <2>2. entry' \in Entries /\ entry'.code = data[r].code
      BY <1>5, <2>1, AttemptsAssumption DEF RecordFailure, Entries
    <2>3. OtpTypeOK'
      BY <1>5, <2>2 DEF RecordFailure, OtpTypeOK, OtpSteps, Final
    <2> QED
      BY <1>5, <2>1, <2>2, <2>3 DEF RecordFailure, OtpTypeOK, HasRead, CodesAreIssued
  <1>6. ASSUME NEW r \in Requests, Accept(r) PROVE Base'
    <2>1. given[r] \in 1 .. issued
      BY <1>6 DEF Accept, HasRead, CodesAreIssued
    <2>2. OtpTypeOK'
      BY <1>6, <2>1 DEF Accept, OtpTypeOK, OtpSteps
    <2> QED
      BY <1>6, <2>1, <2>2 DEF Accept, OtpTypeOK, HasRead, CodesAreIssued
  <1>7. ASSUME NEW r \in Requests, SavePassword(r) PROVE Base'
    <2>1. given[r] \in 1 .. issued
      BY <1>7 DEF SavePassword, CodesAreIssued
    <2>2. OtpTypeOK'
      <3>1. /\ at' \in [Requests -> OtpSteps] /\ password' \in Nat
            /\ UNCHANGED <<cache, data, given, accepted, raced>>
        BY <1>7 DEF SavePassword, OtpTypeOK, OtpSteps, Final
      <3>2. resets' \in SUBSET (1 .. issued')
        BY <1>7, <2>1, <3>1 DEF SavePassword, OtpTypeOK
      <3> QED
        BY <3>1, <3>2 DEF OtpTypeOK
    <2> QED
      BY <1>7, <2>1, <2>2 DEF SavePassword, OtpTypeOK, HasRead, CodesAreIssued
  <1>8. CASE ExpireCode
    BY <1>8 DEF ExpireCode, OtpTypeOK, HasRead, CodesAreIssued
  <1>9. CASE UNCHANGED otpVars
    BY <1>9 DEF otpVars, OtpTypeOK, HasRead, CodesAreIssued
  <1> QED
    BY <1>1, <1>2, <1>3, <1>4, <1>5, <1>6, <1>7, <1>8, <1>9, NextCases

LEMMA BaseHolds == OtpSpec => []Base
  BY InitBase, NextBase, PTL DEF OtpSpec

(* Every variable keeps its type: attempts never pass the limit. *)
THEOREM TypeCorrect == OtpSpec => []OtpTypeOK
  BY BaseHolds, PTL DEF Base

LEMMA NextFresh == Base /\ FreshIsNewest /\ [OtpNext]_otpVars => FreshIsNewest'
  <1> SUFFICES ASSUME Base, FreshIsNewest, [OtpNext]_otpVars PROVE FreshIsNewest'
    OBVIOUS
  <1> USE DEF Base, OtpGoto, cache, outcome
  <1>1. ASSUME NEW r \in Requests, Quiet(r) \/ ReadEntry(r) \/ SavePassword(r)
        PROVE  FreshIsNewest'
    BY <1>1, QuietKeeps DEF ReadEntry, SavePassword, FreshIsNewest
  <1>2. ASSUME NEW r \in Requests, Deletes(r) PROVE FreshIsNewest'
    BY <1>2 DEF Deletes, DeleteOld, GiveUp, FreshIsNewest
  <1>3. ASSUME NEW r \in Requests, StoreCode(r) PROVE FreshIsNewest'
    BY <1>3 DEF StoreCode, OtpTypeOK, FreshIsNewest
  <1>4. ASSUME NEW r \in Requests, RecordFailure(r) PROVE FreshIsNewest'
    <2>1. entry'.attempts # 0
      BY <1>4 DEF RecordFailure, OtpTypeOK, Entries
    <2> QED
      BY <2>1 DEF FreshIsNewest
  <1>5. ASSUME NEW r \in Requests, Accept(r) PROVE FreshIsNewest'
    BY <1>5 DEF Accept, FreshIsNewest
  <1>6. CASE ExpireCode \/ UNCHANGED otpVars
    BY <1>6 DEF ExpireCode, otpVars, FreshIsNewest
  <1> QED
    BY <1>1, <1>2, <1>3, <1>4, <1>5, <1>6, NextCases

(* However requests overlap, an entry without a failure is the last code,  *)
(* unused.                                                                 *)
THEOREM FreshCodes == OtpSpec => []FreshIsNewest
  <1>1. OtpInit => FreshIsNewest
    BY DEF OtpInit, FreshIsNewest
  <1>2. Base /\ FreshIsNewest /\ [OtpNext]_otpVars => FreshIsNewest'
    BY NextFresh
  <1> QED
    BY <1>1, <1>2, BaseHolds, PTL DEF OtpSpec
------------------------------------------------------------------------------
(* Refinement *)

(* Until a verification has raced: the entry is of the last code, which is *)
(* unused, and each request that may set a password has a code of its own. *)
Pending == {r \in Requests : at[r] \in {"confirm", "save"}}

Orderly ==
    ~raced =>
        /\ entry # NoEntry => entry.code = issued /\ issued \notin accepted
        /\ resets \subseteq accepted
        /\ \A r \in Pending : given[r] \in accepted \ resets
        /\ \A r, q \in Pending : given[r] = given[q] => r = q

IInv == Base /\ Orderly

LEMMA NextOrderly == IInv /\ [OtpNext]_otpVars => Orderly'
  <1> SUFFICES ASSUME IInv, [OtpNext]_otpVars, ~raced' PROVE Orderly'
    BY DEF Orderly
  <1> USE DEF IInv, Base, OtpGoto, cache, outcome
  <1>1. ASSUME NEW r \in Requests, Quiet(r) PROVE Orderly'
    <2>1. /\ UNCHANGED <<cache, data, given, outcome>>
          /\ Pending' \subseteq Pending
      BY <1>1, QuietKeeps DEF Pending
    <2> QED
      BY <2>1 DEF Orderly
  <1>2. ASSUME NEW r \in Requests, Deletes(r) PROVE Orderly'
    <2>1. Pending' \subseteq Pending /\ entry' = NoEntry
          /\ UNCHANGED <<issued, given, outcome>>
      BY <1>2 DEF Deletes, DeleteOld, GiveUp, OtpTypeOK, Pending
    <2> QED
      BY <2>1 DEF Orderly
  <1>3. ASSUME NEW r \in Requests, StoreCode(r) PROVE Orderly'
    <2>1. Pending' \subseteq Pending /\ UNCHANGED <<given, outcome>>
          /\ entry'.code = issued' /\ issued' \notin accepted
      BY <1>3 DEF StoreCode, OtpTypeOK, Pending
    <2> QED
      BY <2>1 DEF Orderly
  <1>4. ASSUME NEW r \in Requests, ReadEntry(r) PROVE Orderly'
    <2>1. PICK code \in 0 .. issued :
             /\ given' = [given EXCEPT ![r] = code]
             /\ at' = [at EXCEPT ![r] = Verdict(entry, code)]
      BY <1>4 DEF ReadEntry
    <2>2. Verdict(entry, code) \in {"rejected", "giveUp", "accept", "record"}
      BY VerdictSound DEF OtpTypeOK
    <2>3. Pending' \subseteq Pending /\ r \notin Pending
      BY <1>4, <2>1, <2>2 DEF ReadEntry, OtpTypeOK, Pending
    <2>4. UNCHANGED <<cache, outcome>> /\ \A q \in Requests \ {r} : given'[q] = given[q]
      BY <1>4, <2>1 DEF ReadEntry, OtpTypeOK
    <2> QED
      BY <2>3, <2>4 DEF Orderly, Pending
  <1>5. ASSUME NEW r \in Requests, RecordFailure(r) PROVE Orderly'
    <2>1. ~raced /\ entry = data[r] /\ data[r] # NoEntry
      BY <1>5 DEF RecordFailure, HasRead
    <2>2. entry'.code = entry.code
      BY <1>5, <2>1 DEF RecordFailure, OtpTypeOK, Entries
    <2>3. Pending' \subseteq Pending /\ UNCHANGED <<issued, given, accepted, resets>>
      BY <1>5 DEF RecordFailure, OtpTypeOK, Pending
    <2> QED
      BY <2>1, <2>2, <2>3 DEF Orderly
  <1>6. ASSUME NEW r \in Requests, Accept(r) PROVE Orderly'
    <2>1. ~raced /\ entry = data[r] /\ data[r] # NoEntry /\ given[r] = issued
          /\ issued \notin accepted
      BY <1>6 DEF Accept, HasRead, Orderly
    <2>2. Pending' = Pending \union {r} /\ r \notin Pending
      BY <1>6 DEF Accept, OtpTypeOK, Pending
    <2>3. /\ entry' = NoEntry /\ accepted' = accepted \union {issued}
          /\ UNCHANGED <<issued, given, resets>>
      BY <1>6, <2>1 DEF Accept
    <2>4. \A q \in Pending : given[q] \in accepted \ resets /\ given[q] # given[r]
      BY <2>1 DEF Orderly
    <2>5. given[r] \notin resets
      BY <2>1 DEF Orderly
    <2> QED
      BY <2>1, <2>2, <2>3, <2>4, <2>5 DEF Orderly
  <1>7. ASSUME NEW r \in Requests, SavePassword(r) PROVE Orderly'
    <2>1. ~raced /\ r \in Pending
      BY <1>7 DEF SavePassword, Pending
    <2>2. Pending' = Pending \ {r}
      BY <1>7 DEF SavePassword, OtpTypeOK, Pending
    <2> QED
      BY <1>7, <2>1, <2>2 DEF SavePassword, Orderly
  <1>8. CASE ExpireCode \/ UNCHANGED otpVars
    BY <1>8 DEF ExpireCode, otpVars, Orderly, Pending
  <1> QED
    BY <1>1, <1>2, <1>3, <1>4, <1>5, <1>6, <1>7, <1>8, NextCases
(* The atomic code of OneTimeCode: its entry is the cache's, torn is raced. *)

LEMMA InitRefines == OtpInit => Code!Init
  BY DEF OtpInit, Code!Init, NoEntry, Code!NoEntry

LEMMA StepRefines == IInv /\ [OtpNext]_otpVars => [Code!Next]_Code!vars
  <1> SUFFICES ASSUME IInv, [OtpNext]_otpVars, ~raced' PROVE [Code!Next]_Code!vars
    BY DEF Code!Next
  <1> USE DEF IInv, Base, cache, outcome, Code!vars, NoEntry, Code!NoEntry
  <1>1. ASSUME NEW r \in Requests, Quiet(r) PROVE UNCHANGED Code!vars
    BY <1>1, QuietKeeps
  <1>2. ASSUME NEW r \in Requests, ReadEntry(r) PROVE UNCHANGED Code!vars
    BY <1>2 DEF ReadEntry
  <1>3. ASSUME NEW r \in Requests, Deletes(r) PROVE Code!Withdraw
    BY <1>3 DEF Deletes, DeleteOld, GiveUp, Code!Withdraw
  <1>4. ASSUME NEW r \in Requests, StoreCode(r) PROVE Code!Issue
    BY <1>4 DEF StoreCode, Code!Issue
  <1>5. ASSUME NEW r \in Requests, RecordFailure(r) PROVE Code!Reject
    <2>1. ~raced /\ entry = data[r] /\ entry # NoEntry /\ entry.attempts < MAX_ATTEMPTS
      BY <1>5 DEF RecordFailure, HasRead
    <2>2. UNCHANGED raced
      BY <1>5, <2>1 DEF RecordFailure, OtpTypeOK
    <2>3. entry' = [entry EXCEPT !.attempts = @ + 1]
      BY <1>5, <2>1 DEF RecordFailure
    <2> QED
      BY <1>5, <2>1, <2>2, <2>3 DEF RecordFailure, Code!Reject, Code!IsOpen
  <1>6. ASSUME NEW r \in Requests, Accept(r) PROVE Code!Accept
    <2>1. ~raced /\ entry = data[r] /\ entry # NoEntry /\ entry.attempts < MAX_ATTEMPTS
          /\ given[r] = entry.code
      BY <1>6 DEF Accept, HasRead
    <2>2. entry.code = issued /\ issued \notin accepted
      BY <2>1 DEF Orderly
    <2>3. UNCHANGED raced
      BY <1>6, <2>1 DEF Accept, OtpTypeOK
    <2> QED
      BY <1>6, <2>1, <2>2, <2>3 DEF Accept, Code!Accept, Code!IsOpen
  <1>7. ASSUME NEW r \in Requests, SavePassword(r) PROVE Code!SetPassword
    <2>1. given[r] \in accepted \ resets
      BY <1>7 DEF SavePassword, Orderly, Pending
    <2> QED
      BY <1>7, <2>1 DEF SavePassword, Code!SetPassword
  <1>8. CASE ExpireCode
    <2>1. Code!Withdraw
      BY <1>8 DEF ExpireCode, Code!Withdraw
    <2> QED
      BY <2>1 DEF Code!Next
  <1>9. CASE UNCHANGED otpVars
    BY <1>9 DEF otpVars
  <1> QED
    BY <1>1, <1>2, <1>3, <1>4, <1>5, <1>6, <1>7, <1>8, <1>9, NextCases DEF Code!Next

(* As long as nothing has raced, the cache commands of verify_otp are one  *)
(* step of an atomic one-time code, or no step of it.                      *)
THEOREM CodeImplemented == OtpSpec => ImplementsCode
  <1>1. OtpInit => IInv
    BY InitBase DEF OtpInit, IInv, Orderly, Pending
  <1>2. IInv /\ [OtpNext]_otpVars => IInv'
    BY NextBase, NextOrderly DEF IInv
  <1> QED
    BY <1>1, <1>2, InitRefines, StepRefines, PTL DEF OtpSpec, ImplementsCode, Code!Spec
------------------------------------------------------------------------------
(* What a reset takes.  Overlapping verifications may accept one code more *)
(* than once, and each may then set a password: the second line is what    *)
(* they break. *)
ResetsTakeACode ==
    /\ resets \subseteq accepted
    /\ ~raced => password = Cardinality(resets)

(* Whoever may set a password has had its code accepted. *)
PendingIsAccepted == \A r \in Pending : given[r] \in accepted

ResetInv == IInv /\ PendingIsAccepted /\ IsFiniteSet(resets) /\ ResetsTakeACode

LEMMA NextResets ==
  ASSUME ResetInv, [OtpNext]_otpVars
  PROVE  (PendingIsAccepted /\ IsFiniteSet(resets) /\ ResetsTakeACode)'
  <1> USE DEF ResetInv, IInv, Base, OtpGoto, cache, outcome, ResetsTakeACode
  <1> DEFINE Good == PendingIsAccepted /\ IsFiniteSet(resets) /\ ResetsTakeACode
  (* a step that sets no password and has nobody set one soon *)
  <1>s. ASSUME UNCHANGED <<accepted, resets, password>>, raced => raced', Pending' \subseteq Pending,
               \A r \in Pending' : given'[r] = given[r]
        PROVE  Good'
    BY <1>s DEF PendingIsAccepted
  <1>1. ASSUME NEW r \in Requests,
               Quiet(r) \/ Deletes(r) \/ StoreCode(r) \/ ReadEntry(r) \/ RecordFailure(r)
        PROVE  Good'
    <2>1. CASE Quiet(r)
      BY <2>1, <1>s, QuietKeeps DEF Pending
    <2>2. CASE Deletes(r) \/ StoreCode(r) \/ RecordFailure(r)
      <3>1. /\ UNCHANGED <<accepted, resets, password, given>>
            /\ raced => raced'
            /\ Pending' \subseteq Pending
        BY <2>2 DEF Deletes, DeleteOld, GiveUp, StoreCode, RecordFailure, OtpTypeOK, Pending
      <3> QED
        BY <3>1, <1>s
    <2>3. CASE ReadEntry(r)
      <3>1. PICK code \in 0 .. issued :
               /\ given' = [given EXCEPT ![r] = code]
               /\ at' = [at EXCEPT ![r] = Verdict(entry, code)]
        BY <2>3 DEF ReadEntry
      <3>2. Verdict(entry, code) \in {"rejected", "giveUp", "accept", "record"}
        BY VerdictSound DEF OtpTypeOK
      <3>3. Pending' \subseteq Pending \ {r}
        BY <2>3, <3>1, <3>2 DEF ReadEntry, OtpTypeOK, Pending
      <3>4. UNCHANGED outcome /\ \A q \in Requests \ {r} : given'[q] = given[q]
        BY <2>3, <3>1 DEF ReadEntry, OtpTypeOK
      <3> QED
        BY <3>3, <3>4, <1>s DEF Pending
    <2> QED
      BY <1>1, <2>1, <2>2, <2>3
  <1>2. ASSUME NEW r \in Requests, Accept(r) PROVE Good'
    <2>1. /\ accepted' = accepted \union {given[r]} /\ UNCHANGED <<resets, password, given>>
          /\ raced => raced'
      BY <1>2 DEF Accept
    <2>2. Pending' = Pending \union {r}
      BY <1>2 DEF Accept, OtpTypeOK, Pending
    <2> QED
      BY <2>1, <2>2 DEF PendingIsAccepted
  <1>3. ASSUME NEW r \in Requests, SavePassword(r) PROVE Good'
    <2>1. r \in Pending /\ Pending' \subseteq Pending
      BY <1>3 DEF SavePassword, OtpTypeOK, Pending
    <2>2. /\ resets' = resets \union {given[r]} /\ password' = password + 1
          /\ UNCHANGED <<given, accepted, raced>>
      BY <1>3 DEF SavePassword
    <2>3. given[r] \in accepted /\ (~raced => given[r] \notin resets)
      BY <2>1 DEF PendingIsAccepted, Orderly
    <2>4. IsFiniteSet(resets') /\ (~raced => Cardinality(resets') = Cardinality(resets) + 1)
      BY <2>2, <2>3, FS_AddElement
    <2> QED
      BY <2>1, <2>2, <2>3, <2>4 DEF PendingIsAccepted
  <1>4. CASE ExpireCode \/ UNCHANGED otpVars
    BY <1>4, <1>s DEF ExpireCode, otpVars, Pending
  <1> QED
    BY <1>1, <1>2, <1>3, <1>4, NextCases

(* No password is set without a code that verify_otp has accepted, and     *)
(* until a verification has raced each such code sets one password.        *)
THEOREM OneResetPerCode == OtpSpec => []ResetsTakeACode
  <1>1. OtpInit => ResetInv
    BY InitBase, FS_EmptySet
       DEF OtpInit, ResetInv, IInv, Orderly, Pending, PendingIsAccepted, ResetsTakeACode
  <1>2. ResetInv /\ [OtpNext]_otpVars => ResetInv'
    BY NextBase, NextOrderly, NextResets DEF ResetInv, IInv
  <1>3. ResetInv => ResetsTakeACode
    BY DEF ResetInv
  <1> QED
    BY <1>1, <1>2, <1>3, PTL DEF OtpSpec

==============================================================================
