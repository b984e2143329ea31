----------------------------- MODULE PresenceProofs -----------------------------
(***************************************************************************)
(* The safety properties of Presence for any number of users and sockets,  *)
(* with crashes, dying heartbeats and a failing reaper.                    *)
(***************************************************************************)
EXTENDS Presence, TLAPS

(* An entry belongs to a consumer that has not run its SREM, or was ended. *)
EntriesAreExplained ==
    \A c \in conns : pc[c] \in Registering \union {"open", "rem", "raised", "dead"}

(* A heartbeat belongs to a consumer between its SET and its DEL. *)
BeatsAreExplained ==
    \A c \in beats : pc[c] \in {"count", "markOn", "pushOn", "open", "raised", "dead"}

(* The reaper removes entries of the user it is visiting only. *)
ReaperVisits ==
    /\ reaper.user = NoUser <=> reaper.step \in {"sleep", "scan"}
    /\ reaper.user # NoUser => \A c \in members : Owner[c] = reaper.user
    /\ reaper.step # "remove" => stale = {}

Inv == /\ TypeOK
       /\ EntriesAreExplained
       /\ BeatsAreExplained
       /\ ReaperVisits
       /\ NoGhostOnline

LEMMA InitInv == Init => Inv
  BY OwnerAssumption, NoUserAssumption, MaxReaperFailuresAssumption
     DEF Init, Inv, TypeOK, EntriesAreExplained, BeatsAreExplained, ReaperVisits,
         NoGhostOnline, Steps, ReaperSteps

LEMMA NextInv == Inv /\ [Next]_vars => Inv'
  <1> SUFFICES ASSUME Inv, [Next]_vars PROVE Inv'
    OBVIOUS
  <1> USE OwnerAssumption, NoUserAssumption, MaxReaperFailuresAssumption
      DEF Inv, redis, status, sweep, consumers, Goto, ReaperGoto
  <1>1. ASSUME NEW c \in Channels, Connect(c) PROVE Inv'
    <2> USE <1>1 DEF Connect
    <2>1. TypeOK'
      BY DEF TypeOK, Steps, ReaperSteps, Alive, Registering, Unregistering
    <2>2. EntriesAreExplained'
      BY DEF TypeOK, EntriesAreExplained, Alive, Registering, Unregistering
    <2>3. BeatsAreExplained'
      BY DEF TypeOK, BeatsAreExplained, Alive, Registering, Unregistering
    <2>4. ReaperVisits'
      BY DEF TypeOK, ReaperVisits
    <2>5. NoGhostOnline'
      BY DEF TypeOK, EntriesAreExplained, ReaperVisits, NoGhostOnline, Attended,
             Alive, Registering, Unregistering
    <2> QED
      BY <2>1, <2>2, <2>3, <2>4, <2>5
  <1>2. ASSUME NEW c \in Channels, SetHeartbeat(c) PROVE Inv'
    <2> USE <1>2 DEF SetHeartbeat
    <2>1. TypeOK'
      BY DEF TypeOK, Steps, ReaperSteps, Alive, Registering, Unregistering
    <2>2. EntriesAreExplained'
      BY DEF TypeOK, EntriesAreExplained, Alive, Registering, Unregistering
    <2>3. BeatsAreExplained'
      BY DEF TypeOK, BeatsAreExplained, Alive, Registering, Unregistering
    <2>4. ReaperVisits'
      BY DEF TypeOK, ReaperVisits
    <2>5. NoGhostOnline'
      BY DEF TypeOK, EntriesAreExplained, ReaperVisits, NoGhostOnline, Attended,
             Alive, Registering, Unregistering
    <2> QED
      BY <2>1, <2>2, <2>3, <2>4, <2>5
  <1>3. ASSUME NEW c \in Channels, CountFirst(c) PROVE Inv'
    <2> USE <1>3 DEF CountFirst
    <2>1. TypeOK'
      BY DEF TypeOK, Steps, ReaperSteps, Alive, Registering, Unregistering
    <2>2. EntriesAreExplained'
      BY DEF TypeOK, EntriesAreExplained, Alive, Registering, Unregistering
    <2>3. BeatsAreExplained'
      BY DEF TypeOK, BeatsAreExplained, Alive, Registering, Unregistering
    <2>4. ReaperVisits'
      BY DEF TypeOK, ReaperVisits
    <2>5. NoGhostOnline'
      BY DEF TypeOK, EntriesAreExplained, ReaperVisits, NoGhostOnline, Attended,
             Alive, Registering, Unregistering
    <2> QED
      BY <2>1, <2>2, <2>3, <2>4, <2>5
  <1>4. ASSUME NEW c \in Channels, MarkOnline(c) PROVE Inv'
    <2> USE <1>4 DEF MarkOnline
    <2>1. TypeOK'
      BY DEF TypeOK, Steps, ReaperSteps, Alive, Registering, Unregistering
    <2>2. EntriesAreExplained'
      BY DEF TypeOK, EntriesAreExplained, Alive, Registering, Unregistering
    <2>3. BeatsAreExplained'
      BY DEF TypeOK, BeatsAreExplained, Alive, Registering, Unregistering
    <2>4. ReaperVisits'
      BY DEF TypeOK, ReaperVisits
    <2>5. NoGhostOnline'
      BY DEF TypeOK, EntriesAreExplained, ReaperVisits, NoGhostOnline, Attended,
             Alive, Registering, Unregistering
    <2> QED
      BY <2>1, <2>2, <2>3, <2>4, <2>5
  <1>5. ASSUME NEW c \in Channels, AnnounceOnline(c) PROVE Inv'
    <2> USE <1>5 DEF AnnounceOnline
    <2>1. TypeOK'
      BY DEF TypeOK, Steps, ReaperSteps, Alive, Registering, Unregistering
    <2>2. EntriesAreExplained'
      BY DEF TypeOK, EntriesAreExplained, Alive, Registering, Unregistering
    <2>3. BeatsAreExplained'
      BY DEF TypeOK, BeatsAreExplained, Alive, Registering, Unregistering
    <2>4. ReaperVisits'
      BY DEF TypeOK, ReaperVisits
    <2>5. NoGhostOnline'
      BY DEF TypeOK, EntriesAreExplained, ReaperVisits, NoGhostOnline, Attended,
             Alive, Registering, Unregistering
    <2> QED
      BY <2>1, <2>2, <2>3, <2>4, <2>5
  <1>6. ASSUME NEW c \in Channels, RefreshHeartbeat(c) PROVE Inv'
    <2> USE <1>6 DEF RefreshHeartbeat, HasHeartbeatTask
    <2>1. TypeOK'
      BY DEF TypeOK, Steps, ReaperSteps, Alive, Registering, Unregistering
    <2>2. EntriesAreExplained'
      BY DEF TypeOK, EntriesAreExplained, Alive, Registering, Unregistering
    <2>3. BeatsAreExplained'
      BY DEF TypeOK, BeatsAreExplained, Alive, Registering, Unregistering
    <2>4. ReaperVisits'
      BY DEF TypeOK, ReaperVisits
    <2>5. NoGhostOnline'
      BY DEF TypeOK, EntriesAreExplained, ReaperVisits, NoGhostOnline, Attended,
             Alive, Registering, Unregistering
    <2> QED
      BY <2>1, <2>2, <2>3, <2>4, <2>5
  <1>7. ASSUME NEW c \in Channels, HeartbeatLoopDies(c) PROVE Inv'
    <2> USE <1>7 DEF HeartbeatLoopDies, HasHeartbeatTask
    <2>1. TypeOK'
      BY DEF TypeOK, Steps, ReaperSteps, Alive, Registering, Unregistering
    <2>2. EntriesAreExplained'
      BY DEF TypeOK, EntriesAreExplained, Alive, Registering, Unregistering
    <2>3. BeatsAreExplained'
      BY DEF TypeOK, BeatsAreExplained, Alive, Registering, Unregistering
    <2>4. ReaperVisits'
      BY DEF TypeOK, ReaperVisits
    <2>5. NoGhostOnline'
      BY DEF TypeOK, EntriesAreExplained, ReaperVisits, NoGhostOnline, Attended,
             Alive, Registering, Unregistering
    <2> QED
      BY <2>1, <2>2, <2>3, <2>4, <2>5
  <1>8. ASSUME NEW c \in Channels, Disconnect(c) PROVE Inv'
    <2> USE <1>8 DEF Disconnect
    <2>1. TypeOK'
      BY DEF TypeOK, Steps, ReaperSteps, Alive, Registering, Unregistering
    <2>2. EntriesAreExplained'
      BY DEF TypeOK, EntriesAreExplained, Alive, Registering, Unregistering
    <2>3. BeatsAreExplained'
      BY DEF TypeOK, BeatsAreExplained, Alive, Registering, Unregistering
    <2>4. ReaperVisits'
      BY DEF TypeOK, ReaperVisits
    <2>5. NoGhostOnline'
      BY DEF TypeOK, EntriesAreExplained, ReaperVisits, NoGhostOnline, Attended,
             Alive, Registering, Unregistering
    <2> QED
      BY <2>1, <2>2, <2>3, <2>4, <2>5
  <1>9. ASSUME NEW c \in Channels, RemoveConnection(c) PROVE Inv'
    <2> USE <1>9 DEF RemoveConnection
    <2>1. TypeOK'
      BY DEF TypeOK, Steps, ReaperSteps, Alive, Registering, Unregistering
    <2>2. EntriesAreExplained'
      BY DEF TypeOK, EntriesAreExplained, Alive, Registering, Unregistering
    <2>3. BeatsAreExplained'
      BY DEF TypeOK, BeatsAreExplained, Alive, Registering, Unregistering
    <2>4. ReaperVisits'
      BY DEF TypeOK, ReaperVisits
    <2>5. NoGhostOnline'
      BY DEF TypeOK, EntriesAreExplained, ReaperVisits, NoGhostOnline, Attended,
             Alive, Registering, Unregistering
    <2> QED
      BY <2>1, <2>2, <2>3, <2>4, <2>5
  <1>10. ASSUME NEW c \in Channels, CountLast(c) PROVE Inv'
    <2> USE <1>10 DEF CountLast, IsEmpty, ConnectionsOf
    <2>1. TypeOK'
      BY DEF TypeOK, Steps, ReaperSteps, Alive, Registering, Unregistering
    <2>2. EntriesAreExplained'
      BY DEF TypeOK, EntriesAreExplained, Alive, Registering, Unregistering
    <2>3. BeatsAreExplained'
      BY DEF TypeOK, BeatsAreExplained, Alive, Registering, Unregistering
    <2>4. ReaperVisits'
      BY DEF TypeOK, ReaperVisits
    <2>5. NoGhostOnline'
      BY DEF TypeOK, EntriesAreExplained, ReaperVisits, NoGhostOnline, Attended,
             Alive, Registering, Unregistering
    <2> QED
      BY <2>1, <2>2, <2>3, <2>4, <2>5
  <1>11. ASSUME NEW c \in Channels, MarkOffline(c) PROVE Inv'
    <2> USE <1>11 DEF MarkOffline
    <2>1. TypeOK'
      BY DEF TypeOK, Steps, ReaperSteps, Alive, Registering, Unregistering
    <2>2. EntriesAreExplained'
      BY DEF TypeOK, EntriesAreExplained, Alive, Registering, Unregistering
    <2>3. BeatsAreExplained'
      BY DEF TypeOK, BeatsAreExplained, Alive, Registering, Unregistering
    <2>4. ReaperVisits'
      BY DEF TypeOK, ReaperVisits
    <2>5. NoGhostOnline'
      BY DEF TypeOK, EntriesAreExplained, ReaperVisits, NoGhostOnline, Attended,
             Alive, Registering, Unregistering
    <2> QED
      BY <2>1, <2>2, <2>3, <2>4, <2>5
  <1>12. ASSUME NEW c \in Channels, AnnounceOffline(c) PROVE Inv'
    <2> USE <1>12 DEF AnnounceOffline
    <2>1. TypeOK'
      BY DEF TypeOK, Steps, ReaperSteps, Alive, Registering, Unregistering
    <2>2. EntriesAreExplained'
      BY DEF TypeOK, EntriesAreExplained, Alive, Registering, Unregistering
    <2>3. BeatsAreExplained'
      BY DEF TypeOK, BeatsAreExplained, Alive, Registering, Unregistering
    <2>4. ReaperVisits'
      BY DEF TypeOK, ReaperVisits
    <2>5. NoGhostOnline'
      BY DEF TypeOK, EntriesAreExplained, ReaperVisits, NoGhostOnline, Attended,
             Alive, Registering, Unregistering
    <2> QED
      BY <2>1, <2>2, <2>3, <2>4, <2>5
  <1>13. ASSUME NEW c \in Channels, Crash(c) PROVE Inv'
    <2> USE <1>13 DEF Crash, OrphansIfOneDiesFor, IsEmpty, ConnectionsOf
    <2>1. TypeOK'
      BY DEF TypeOK, Steps, ReaperSteps, Alive, Registering, Unregistering
    <2>2. EntriesAreExplained'
      BY DEF TypeOK, EntriesAreExplained, Alive, Registering, Unregistering
    <2>3. BeatsAreExplained'
      BY DEF TypeOK, BeatsAreExplained, Alive, Registering, Unregistering
    <2>4. ReaperVisits'
      BY DEF TypeOK, ReaperVisits
    <2>5. NoGhostOnline'
      BY DEF TypeOK, EntriesAreExplained, ReaperVisits, NoGhostOnline, Attended,
             Alive, Registering, Unregistering
    <2> QED
      BY <2>1, <2>2, <2>3, <2>4, <2>5
  <1>14. ASSUME NEW c \in Channels, Expire(c) PROVE Inv'
    <2> USE <1>14 DEF Expire
    <2>1. TypeOK'
      BY DEF TypeOK, Steps, ReaperSteps, Alive, Registering, Unregistering
    <2>2. EntriesAreExplained'
      BY DEF TypeOK, EntriesAreExplained, Alive, Registering, Unregistering
    <2>3. BeatsAreExplained'
      BY DEF TypeOK, BeatsAreExplained, Alive, Registering, Unregistering
    <2>4. ReaperVisits'
      BY DEF TypeOK, ReaperVisits
    <2>5. NoGhostOnline'
      BY DEF TypeOK, EntriesAreExplained, ReaperVisits, NoGhostOnline, Attended,
             Alive, Registering, Unregistering
    <2> QED
      BY <2>1, <2>2, <2>3, <2>4, <2>5
  <1>15. CASE StartSweep
    <2> USE <1>15 DEF StartSweep
    <2>1. TypeOK'
      BY DEF TypeOK, Steps, ReaperSteps, Alive, Registering, Unregistering
    <2>2. EntriesAreExplained'
      BY DEF TypeOK, EntriesAreExplained, Alive, Registering, Unregistering
    <2>3. BeatsAreExplained'
      BY DEF TypeOK, BeatsAreExplained, Alive, Registering, Unregistering
    <2>4. ReaperVisits'
      BY DEF TypeOK, ReaperVisits
    <2>5. NoGhostOnline'
      BY DEF TypeOK, EntriesAreExplained, ReaperVisits, NoGhostOnline, Attended,
             Alive, Registering, Unregistering
    <2> QED
      BY <2>1, <2>2, <2>3, <2>4, <2>5
  <1>16. CASE VisitKey
    <2> USE <1>16 DEF VisitKey, ConnectionsOf
    <2>1. TypeOK'
      <3>1. PICK u \in keys : /\ keys' = keys \ {u}
                              /\ members' = {c \in conns : Owner[c] = u}
                              /\ reaper' = [step |-> "check", user |-> u]
        OBVIOUS
      <3>2. keys' \in SUBSET Users /\ members' \in SUBSET Channels
        BY <3>1 DEF TypeOK
      <3>3. reaper' \in [step : ReaperSteps, user : Users \union {NoUser}]
        BY <3>1 DEF TypeOK, ReaperSteps
      <3>4. stale = {}
        BY DEF ReaperVisits
      <3> QED
        BY <3>2, <3>3, <3>4 DEF TypeOK
    <2>2. EntriesAreExplained'
      BY DEF TypeOK, EntriesAreExplained, Alive, Registering, Unregistering
    <2>3. BeatsAreExplained'
      BY DEF TypeOK, BeatsAreExplained, Alive, Registering, Unregistering
    <2>4. ReaperVisits'
      BY DEF TypeOK, ReaperVisits
    <2>5. NoGhostOnline'
      BY DEF TypeOK, EntriesAreExplained, ReaperVisits, NoGhostOnline, Attended,
             Alive, Registering, Unregistering
    <2> QED
      BY <2>1, <2>2, <2>3, <2>4, <2>5
  <1>17. CASE EndSweep
    <2> USE <1>17 DEF EndSweep
    <2>1. TypeOK'
      BY DEF TypeOK, Steps, ReaperSteps, Alive, Registering, Unregistering
    <2>2. EntriesAreExplained'
      BY DEF TypeOK, EntriesAreExplained, Alive, Registering, Unregistering
    <2>3. BeatsAreExplained'
      BY DEF TypeOK, BeatsAreExplained, Alive, Registering, Unregistering
    <2>4. ReaperVisits'
      BY DEF TypeOK, ReaperVisits
    <2>5. NoGhostOnline'
      BY DEF TypeOK, EntriesAreExplained, ReaperVisits, NoGhostOnline, Attended,
             Alive, Registering, Unregistering
    <2> QED
      BY <2>1, <2>2, <2>3, <2>4, <2>5
  <1>18. CASE KeepMember
    <2> USE <1>18 DEF KeepMember
    <2>1. TypeOK'
      <3>1. members' \in SUBSET members /\ stale = {}
        BY DEF ReaperVisits
      <3> QED
        BY <3>1 DEF TypeOK
    <2>2. EntriesAreExplained'
      BY DEF TypeOK, EntriesAreExplained, Alive, Registering, Unregistering
    <2>3. BeatsAreExplained'
      BY DEF TypeOK, BeatsAreExplained, Alive, Registering, Unregistering
    <2>4. ReaperVisits'
      BY DEF TypeOK, ReaperVisits
    <2>5. NoGhostOnline'
      BY DEF TypeOK, EntriesAreExplained, ReaperVisits, NoGhostOnline, Attended,
             Alive, Registering, Unregistering
    <2> QED
      BY <2>1, <2>2, <2>3, <2>4, <2>5
  <1>19. CASE FindStale
    <2> USE <1>19 DEF FindStale
    <2>1. TypeOK'
      BY DEF TypeOK, Steps, ReaperSteps, Alive, Registering, Unregistering
    <2>2. EntriesAreExplained'
      BY DEF TypeOK, EntriesAreExplained, Alive, Registering, Unregistering
    <2>3. BeatsAreExplained'
      BY DEF TypeOK, BeatsAreExplained, Alive, Registering, Unregistering
    <2>4. ReaperVisits'
      BY DEF TypeOK, ReaperVisits
    <2>5. NoGhostOnline'
      BY DEF TypeOK, EntriesAreExplained, ReaperVisits, NoGhostOnline, Attended,
             Alive, Registering, Unregistering
    <2> QED
      BY <2>1, <2>2, <2>3, <2>4, <2>5
  <1>20. CASE ReapStale
    <2> USE <1>20 DEF ReapStale
    <2>1. TypeOK'
      BY DEF TypeOK, Steps, ReaperSteps, Alive, Registering, Unregistering
    <2>2. EntriesAreExplained'
      BY DEF TypeOK, EntriesAreExplained, Alive, Registering, Unregistering
    <2>3. BeatsAreExplained'
      BY DEF TypeOK, BeatsAreExplained, Alive, Registering, Unregistering
    <2>4. ReaperVisits'
      BY DEF TypeOK, ReaperVisits
    <2>5. NoGhostOnline'
      BY DEF TypeOK, EntriesAreExplained, ReaperVisits, NoGhostOnline, Attended,
             Alive, Registering, Unregistering
    <2> QED
      BY <2>1, <2>2, <2>3, <2>4, <2>5
  <1>21. CASE ReaperCount
    <2> USE <1>21 DEF ReaperCount, IsEmpty, ConnectionsOf
    <2>1. TypeOK'
      BY DEF TypeOK, Steps, ReaperSteps, Alive, Registering, Unregistering
    <2>2. EntriesAreExplained'
      BY DEF TypeOK, EntriesAreExplained, Alive, Registering, Unregistering
    <2>3. BeatsAreExplained'
      BY DEF TypeOK, BeatsAreExplained, Alive, Registering, Unregistering
    <2>4. ReaperVisits'
      BY DEF TypeOK, ReaperVisits
    <2>5. NoGhostOnline'
      BY DEF TypeOK, EntriesAreExplained, ReaperVisits, NoGhostOnline, Attended,
             Alive, Registering, Unregistering
    <2> QED
      BY <2>1, <2>2, <2>3, <2>4, <2>5
  <1>22. CASE ReaperMarkOffline
    <2> USE <1>22 DEF ReaperMarkOffline
    <2>1. TypeOK'
      BY DEF TypeOK, Steps, ReaperSteps, Alive, Registering, Unregistering
    <2>2. EntriesAreExplained'
      BY DEF TypeOK, EntriesAreExplained, Alive, Registering, Unregistering
    <2>3. BeatsAreExplained'
      BY DEF TypeOK, BeatsAreExplained, Alive, Registering, Unregistering
    <2>4. ReaperVisits'
      BY DEF TypeOK, ReaperVisits
    <2>5. NoGhostOnline'
      BY DEF TypeOK, EntriesAreExplained, ReaperVisits, NoGhostOnline, Attended,
             Alive, Registering, Unregistering
    <2> QED
      BY <2>1, <2>2, <2>3, <2>4, <2>5
  <1>23. CASE ReaperAnnounceOffline
    <2> USE <1>23 DEF ReaperAnnounceOffline
    <2>1. TypeOK'
      BY DEF TypeOK, Steps, ReaperSteps, Alive, Registering, Unregistering
    <2>2. EntriesAreExplained'
      BY DEF TypeOK, EntriesAreExplained, Alive, Registering, Unregistering
    <2>3. BeatsAreExplained'
      BY DEF TypeOK, BeatsAreExplained, Alive, Registering, Unregistering
    <2>4. ReaperVisits'
      BY DEF TypeOK, ReaperVisits
    <2>5. NoGhostOnline'
      BY DEF TypeOK, EntriesAreExplained, ReaperVisits, NoGhostOnline, Attended,
             Alive, Registering, Unregistering
    <2> QED
      BY <2>1, <2>2, <2>3, <2>4, <2>5
  <1>24. CASE ReaperFails
    <2> USE <1>24 DEF ReaperFails, OrphansIfOneDiesFor, IsEmpty, ConnectionsOf
    <2>1. TypeOK'
      BY DEF TypeOK, Steps, ReaperSteps, Alive, Registering, Unregistering
    <2>2. EntriesAreExplained'
      BY DEF TypeOK, EntriesAreExplained, Alive, Registering, Unregistering
    <2>3. BeatsAreExplained'
      BY DEF TypeOK, BeatsAreExplained, Alive, Registering, Unregistering
    <2>4. ReaperVisits'
      BY DEF TypeOK, ReaperVisits
    <2>5. NoGhostOnline'
      BY DEF TypeOK, EntriesAreExplained, ReaperVisits, NoGhostOnline, Attended,
             Alive, Registering, Unregistering
    <2> QED
      BY <2>1, <2>2, <2>3, <2>4, <2>5
  <1>26. ASSUME NEW c \in Channels, HandlerRaises(c) PROVE Inv'
    <2> USE <1>26 DEF HandlerRaises, OrphansIfOneDiesFor, IsEmpty, ConnectionsOf
    <2>1. TypeOK'
      BY DEF TypeOK, Steps, ReaperSteps, Alive, Registering, Unregistering
    <2>2. EntriesAreExplained'
      BY DEF TypeOK, EntriesAreExplained, Alive, Registering, Unregistering
    <2>3. BeatsAreExplained'
      BY DEF TypeOK, BeatsAreExplained, Alive, Registering, Unregistering
    <2>4. ReaperVisits'
      BY DEF TypeOK, ReaperVisits
    <2>5. NoGhostOnline'
      BY DEF TypeOK, EntriesAreExplained, ReaperVisits, NoGhostOnline, Attended,
             Alive, Registering, Unregistering
    <2> QED
      BY <2>1, <2>2, <2>3, <2>4, <2>5
  <1>25. CASE UNCHANGED vars
    BY <1>25 DEF vars, TypeOK, EntriesAreExplained, BeatsAreExplained,
                 ReaperVisits, NoGhostOnline, Attended
  <1> QED
    BY <1>1, <1>2, <1>3, <1>4, <1>5, <1>6, <1>7, <1>8, <1>9, <1>10, <1>11, <1>12, <1>13, <1>14, <1>15, <1>16, <1>17, <1>18, <1>19, <1>20, <1>21, <1>22, <1>23, <1>24, <1>25, <1>26
       DEF Next, Register, Unregister, Reaper

-----------------------------------------------------------------------------
(* Every reachable state is well typed. *)
THEOREM TypeCorrect == Spec => []TypeOK
  <1>1. Inv => TypeOK
    BY DEF Inv
  <1> QED
    BY <1>1, InitInv, NextInv, PTL DEF Spec

(* No user is left online, or announced online, once all their sockets are *)
(* gone, unless a process died while the set of connections was empty.     *)
THEOREM NoGhosts == Spec => []NoGhostOnline
  <1>1. Inv => NoGhostOnline
    BY DEF Inv
  <1> QED
    BY <1>1, InitInv, NextInv, PTL DEF Spec

(* A socket that closed cleanly has no entry and no heartbeat in Redis. *)
THEOREM CleanClose == Spec => []NoTraceAfterClose
  <1>1. Inv => NoTraceAfterClose
    BY DEF Inv, NoTraceAfterClose, EntriesAreExplained, BeatsAreExplained,
           Registering
  <1> QED
    BY <1>1, InitInv, NextInv, PTL DEF Spec

-----------------------------------------------------------------------------
(* A registered connection whose heartbeat task runs has its key, *)
HealthyBeat ==
    \A c \in Channels :
        pc[c] \in {"count", "markOn", "pushOn", "open", "raised"} => c \in beats \union silent

(* and what the reaper looks at has been connected once. *)
MembersConnected == \A c \in members : pc[c] # "new"

Health == HealthyBeat /\ MembersConnected

LEMMA InitHealth == Init => Health
  BY DEF Init, Health, HealthyBeat, MembersConnected

LEMMA NextHealth == Inv /\ Health /\ [Next]_vars => Health'
  <1> SUFFICES ASSUME Inv, Health, [Next]_vars PROVE Health'
    OBVIOUS
  <1>t. /\ pc \in [Channels -> Steps] /\ members \in SUBSET Channels
        /\ beats \in SUBSET Channels /\ silent \in SUBSET Channels
    BY DEF Inv, TypeOK
  <1> USE DEF Health, HealthyBeat, MembersConnected, redis, status, sweep, Goto, ReaperGoto
  <1>1. ASSUME NEW c \in Channels, Connect(c) \/ Register(c)
        PROVE  Health'
    BY <1>1, <1>t DEF Connect, Register, SetHeartbeat, CountFirst, MarkOnline, AnnounceOnline
  <1>2. ASSUME NEW c \in Channels, RefreshHeartbeat(c) \/ HeartbeatLoopDies(c)
        PROVE  Health'
    BY <1>2, <1>t DEF RefreshHeartbeat, HeartbeatLoopDies, HasHeartbeatTask
  <1>3. ASSUME NEW c \in Channels, Disconnect(c) \/ Unregister(c)
        PROVE  Health'
    BY <1>3, <1>t DEF Disconnect, Unregister, RemoveConnection, CountLast, MarkOffline,
                      AnnounceOffline
  <1>4. ASSUME NEW c \in Channels, HandlerRaises(c) \/ Crash(c) \/ Expire(c)
        PROVE  Health'
    BY <1>4, <1>t DEF HandlerRaises, Crash, Expire, Alive, Registering, Unregistering
  <1>5. CASE VisitKey
    <2>1. members' \subseteq conns
      BY <1>5 DEF VisitKey, ConnectionsOf
    <2>2. \A c \in conns : pc[c] # "new"
      BY DEF Inv, EntriesAreExplained, Registering
    <2> QED
      BY <2>1, <2>2, <1>5 DEF VisitKey, consumers
  <1>6. CASE Reaper /\ ~VisitKey
    <2>1. members' \subseteq members /\ UNCHANGED consumers
      BY <1>6 DEF Reaper, StartSweep, EndSweep, KeepMember, FindStale, ReapStale,
                  ReaperCount, ReaperMarkOffline, ReaperAnnounceOffline
    <2> QED
      BY <2>1 DEF consumers
  <1>7. CASE ReaperFails
    BY <1>7 DEF ReaperFails, consumers
  <1>8. CASE UNCHANGED vars
    BY <1>8 DEF vars
  <1> QED
    BY <1>1, <1>2, <1>3, <1>4, <1>5, <1>6, <1>7, <1>8 DEF Next

LEMMA StaleHasReason ==
  ASSUME Inv, Health, [Next]_vars
  PROVE  \A c \in stale' \ stale : MayLackHeartbeat(c)
  <1>1. ASSUME NEW c \in stale' \ stale PROVE c \in members /\ c \notin beats
    BY <1>1 DEF Next, vars, Connect, Register, SetHeartbeat, CountFirst, MarkOnline,
         AnnounceOnline, Disconnect, Unregister, RemoveConnection, CountLast, MarkOffline,
         AnnounceOffline, RefreshHeartbeat, HeartbeatLoopDies, HandlerRaises, Crash, Expire, sweep,
         Reaper, StartSweep, VisitKey, EndSweep, KeepMember, FindStale, HeartbeatMissing,
         ReapStale, ReaperCount, ReaperMarkOffline, ReaperAnnounceOffline, ReaperFails
  <1>2. ASSUME NEW c \in members, c \notin beats PROVE MayLackHeartbeat(c)
    <2>1. c \in Channels /\ pc[c] \in Steps \ {"new"}
      BY DEF Inv, TypeOK, Health, MembersConnected
    <2>2. pc[c] \in {"count", "markOn", "pushOn", "open", "raised"} => c \in silent
      BY <1>2, <2>1 DEF Health, HealthyBeat
    <2> QED
      BY <2>1, <2>2 DEF MayLackHeartbeat, Steps, Alive, Registering, Unregistering
  <1> QED
    BY <1>1, <1>2

(* The reaper takes no healthy open connection for a stale one: what it    *)
(* finds without a heartbeat key is opening, closing or gone, or has lost  *)
(* its heartbeat task.                                                     *)
THEOREM StaleForAReason == Spec => StaleOnlyWithReason
  <1>1. Inv /\ Health /\ [Next]_vars => [\A c \in stale' \ stale : MayLackHeartbeat(c)]_vars
    BY StaleHasReason
  <1> QED
    BY <1>1, InitInv, NextInv, InitHealth, NextHealth, PTL DEF Spec, StaleOnlyWithReason
=================================================================================
