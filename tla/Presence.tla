------------------------------ MODULE Presence ------------------------------
(***************************************************************************)
(* Who is online: register_connection, unregister_connection and the       *)
(* presence reaper over one Redis instance and the is_online column.       *)
(*                                                                         *)
(* Every Redis command, every UPDATE and every broadcast is a step: the    *)
(* code awaits each of them, so the consumers of all server processes and  *)
(* the reaper's process interleave there.  A consumer handles its connect  *)
(* and its disconnect one after the other.  Crash is the death of the      *)
(* process behind a socket, or an exception in connect or disconnect.  An  *)
(* exception in any other handler ends the consumer too, but not its       *)
(* heartbeat task: nothing but disconnect cancels that (HandlerRaises).    *)
(*                                                                         *)
(* Time is abstracted to one assumption: the heartbeat key of a connection *)
(* whose heartbeat task runs does not expire (it is refreshed every 20     *)
(* seconds and lives for 45).                                              *)
(***************************************************************************)
EXTENDS Integers, FiniteSets

CONSTANTS
    Users,              \* accounts
    Channels,           \* channel names, one per presence socket ever opened
    Owner,              \* Owner[c]: the user whose socket c is
    NoUser,             \* not an account
    MaxReaperFailures   \* bound: restarts of the reaper

ASSUME OwnerAssumption == Owner \in [Channels -> Users]
ASSUME NoUserAssumption == NoUser \notin Users
ASSUME MaxReaperFailuresAssumption == MaxReaperFailures \in Nat

VARIABLES
    conns,      \* the members of the presence:connections:<user> sets
    beats,      \* channels with a presence:heartbeat:<channel> key
    silent,     \* connections whose heartbeat task has died
    online,     \* online[u]: User.is_online
    announced,  \* announced[u]: what was last broadcast about u
    pc,         \* pc[c]: the step the consumer of c takes next
    reaper,     \* the reaper: its step, and the user it is visiting
    keys,       \* users whose key the current sweep has yet to visit
    members,    \* channels of the visited user still to be looked at
    stale,      \* the one of them found without a heartbeat, in a set
    failures,   \* reaper failures so far
    orphans     \* users for whom a process died while they had no entry in
                \* conns; auxiliary, no step reads it

vars == <<conns, beats, silent, online, announced, pc, reaper, keys, members,
          stale, failures, orphans>>

redis == <<conns, beats>>
status == <<online, announced>>
sweep == <<reaper, keys, members, stale, failures>>

Registering == {"beat", "count", "markOn", "pushOn"}
Unregistering == {"rem", "card", "markOff", "pushOff"}
Alive == Registering \union {"open"} \union Unregistering

ConnectionsOf(u) == {c \in conns : Owner[c] = u}

Init ==
    /\ conns = {}
    /\ beats = {}
    /\ silent = {}
    /\ online = [u \in Users |-> FALSE]
    /\ announced = [u \in Users |-> FALSE]
    /\ pc = [c \in Channels |-> "new"]
    /\ reaper = [step |-> "sleep", user |-> NoUser]
    /\ keys = {}
    /\ members = {}
    /\ stale = {}
    /\ failures = 0
    /\ orphans = {}

Goto(c, step) == pc' = [pc EXCEPT ![c] = step]

(* SCARD = 0 *)
IsEmpty(u) == ConnectionsOf(u) = {}

OrphansIfOneDiesFor(u) == IF IsEmpty(u) THEN orphans \union {u} ELSE orphans
------------------------------------------------------------------------------
(* PresenceConsumer.connect: register_connection.  SADD of a fresh channel *)
(* name always adds, so the guard on its result holds.                     *)
Connect(c) ==
    /\ pc[c] = "new"
    /\ conns' = conns \union {c}
    /\ Goto(c, "beat")
    /\ UNCHANGED <<beats, silent, status, sweep, orphans>>

SetHeartbeat(c) ==
    /\ pc[c] = "beat"
    /\ beats' = beats \union {c}
    /\ Goto(c, "count")
    /\ UNCHANGED <<conns, silent, status, sweep, orphans>>

CountFirst(c) ==
    /\ pc[c] = "count"
    /\ Goto(c, IF Cardinality(ConnectionsOf(Owner[c])) = 1 THEN "markOn" ELSE "open")
    /\ UNCHANGED <<redis, silent, status, sweep, orphans>>

MarkOnline(c) ==
    /\ pc[c] = "markOn"
    /\ online' = [online EXCEPT ![Owner[c]] = TRUE]
    /\ Goto(c, "pushOn")
    /\ UNCHANGED <<redis, silent, announced, sweep, orphans>>

AnnounceOnline(c) ==
    /\ pc[c] = "pushOn"
    /\ announced' = [announced EXCEPT ![Owner[c]] = TRUE]
    /\ Goto(c, "open")
    /\ UNCHANGED <<redis, silent, online, sweep, orphans>>

(* the heartbeat task is a task of its own: it outlives a consumer that    *)
(* raised                                                                  *)
HasHeartbeatTask(c) == pc[c] \in {"open", "raised"} /\ c \notin silent

(* the heartbeat loop; an exception ends the loop and nothing else *)
RefreshHeartbeat(c) ==
    /\ HasHeartbeatTask(c)
    /\ beats' = beats \union {c}
    /\ UNCHANGED <<conns, silent, status, pc, sweep, orphans>>

HeartbeatLoopDies(c) ==
    /\ HasHeartbeatTask(c)
    /\ silent' = silent \union {c}
    /\ UNCHANGED <<redis, status, pc, sweep, orphans>>

(* mutant: the heartbeat key is left to expire *)
Disconnect_KeepsHeartbeat(c) ==
    /\ pc[c] = "open"
    /\ silent' = silent \ {c}
    /\ Goto(c, "rem")
    /\ UNCHANGED <<conns, beats, status, sweep, orphans>>

(* PresenceConsumer.disconnect: unregister_connection *)
Disconnect(c) ==
    /\ pc[c] = "open"
    /\ beats' = beats \ {c}
    /\ silent' = silent \ {c}
    /\ Goto(c, "rem")
    /\ UNCHANGED <<conns, status, sweep, orphans>>

RemoveConnection(c) ==
    /\ pc[c] = "rem"
    /\ conns' = conns \ {c}
    /\ Goto(c, "card")
    /\ UNCHANGED <<beats, silent, status, sweep, orphans>>

(* mutant: the count is taken as if it still included this connection *)
CountLast_ExpectsOne(c) ==
    /\ pc[c] = "card"
    /\ Goto(c, IF Cardinality(ConnectionsOf(Owner[c])) = 1 THEN "markOff" ELSE "closed")
    /\ UNCHANGED <<redis, silent, status, sweep, orphans>>

CountLast(c) ==
    /\ pc[c] = "card"
    /\ Goto(c, IF IsEmpty(Owner[c]) THEN "markOff" ELSE "closed")
    /\ UNCHANGED <<redis, silent, status, sweep, orphans>>

MarkOffline(c) ==
    /\ pc[c] = "markOff"
    /\ online' = [online EXCEPT ![Owner[c]] = FALSE]
    /\ Goto(c, "pushOff")
    /\ UNCHANGED <<redis, silent, announced, sweep, orphans>>

AnnounceOffline(c) ==
    /\ pc[c] = "pushOff"
    /\ announced' = [announced EXCEPT ![Owner[c]] = FALSE]
    /\ Goto(c, "closed")
    /\ UNCHANGED <<redis, silent, online, sweep, orphans>>

(* an exception in a handler of an open socket: neither disconnect nor     *)
(* unregister_connection runs, the heartbeat task goes on                  *)
HandlerRaises(c) ==
    /\ pc[c] = "open"
    /\ Goto(c, "raised")
    /\ orphans' = OrphansIfOneDiesFor(Owner[c])
    /\ UNCHANGED <<redis, silent, status, sweep>>

(* the process dies, or connect or disconnect raises: no heartbeat task is *)
(* left                                                                    *)
Crash(c) ==
    /\ pc[c] \in Alive \union {"raised"}
    /\ Goto(c, "dead")
    /\ orphans' = IF pc[c] = "raised" THEN orphans
                   ELSE OrphansIfOneDiesFor(Owner[c])
    /\ UNCHANGED <<redis, silent, status, sweep>>

(* Redis drops a key nobody refreshes any more. *)
Expire(c) ==
    /\ c \in beats
    /\ pc[c] = "dead" \/ c \in silent
    /\ beats' = beats \ {c}
    /\ UNCHANGED <<conns, silent, status, pc, sweep, orphans>>
------------------------------------------------------------------------------
(* reap_stale_connections, one sweep after the other *)
consumers == <<silent, pc, beats>>

ReaperGoto(step) == reaper' = [reaper EXCEPT !.step = step]

(* Redis has a key for every non-empty set *)
StartSweep ==
    /\ reaper.step = "sleep"
    /\ keys' = {u \in Users : ~IsEmpty(u)}
    /\ ReaperGoto("scan")
    /\ UNCHANGED <<conns, consumers, status, members, stale, failures, orphans>>

VisitKey ==
    /\ reaper.step = "scan"
    /\ \E u \in keys :
         /\ keys' = keys \ {u}
         /\ members' = ConnectionsOf(u)
         /\ reaper' = [step |-> "check", user |-> u]
    /\ UNCHANGED <<conns, consumers, status, stale, failures, orphans>>

EndSweep ==
    /\ reaper.step = "scan"
    /\ keys = {}
    /\ ReaperGoto("sleep")
    /\ UNCHANGED <<conns, consumers, status, keys, members, stale, failures, orphans>>

(* mutant: the result of EXISTS is misread *)
HeartbeatMissing_Inverted(c) == c \in beats

(* EXISTS of the heartbeat key *)
HeartbeatMissing(c) == c \notin beats

KeepMember ==
    /\ reaper.step = "check"
    /\ \E c \in members :
         /\ ~HeartbeatMissing(c)
         /\ members' = members \ {c}
    /\ UNCHANGED <<conns, consumers, status, reaper, keys, stale, failures, orphans>>

(* EXISTS and SREM are two commands. *)
FindStale ==
    /\ reaper.step = "check"
    /\ \E c \in members : HeartbeatMissing(c) /\ stale' = {c}
    /\ ReaperGoto("remove")
    /\ UNCHANGED <<conns, consumers, status, keys, members, failures, orphans>>

(* mutant: the list of members shrinks, the note of the stale one stays *)
ReapStale_StaleNote ==
    /\ reaper.step = "remove"
    /\ conns' = conns \ stale
    /\ members' = members \ stale
    /\ ReaperGoto("check")
    /\ UNCHANGED <<consumers, status, keys, stale, failures, orphans>>

ReapStale ==
    /\ reaper.step = "remove"
    /\ conns' = conns \ stale
    /\ members' = members \ stale
    /\ stale' = {}
    /\ ReaperGoto("check")
    /\ UNCHANGED <<consumers, status, keys, failures, orphans>>

(* mutant: the reaper removes entries and never looks whether any is left *)
ReaperCount_Omitted ==
    /\ reaper.step = "check"
    /\ members = {}
    /\ reaper' = [step |-> "scan", user |-> NoUser]
    /\ UNCHANGED <<conns, consumers, status, keys, members, stale, failures, orphans>>

ReaperCount ==
    /\ reaper.step = "check"
    /\ members = {}
    /\ reaper' = IF IsEmpty(reaper.user)
                   THEN [reaper EXCEPT !.step = "markOff"]
                   ELSE [step |-> "scan", user |-> NoUser]
    /\ UNCHANGED <<conns, consumers, status, keys, members, stale, failures, orphans>>

ReaperMarkOffline ==
    /\ reaper.step = "markOff"
    /\ online' = [online EXCEPT ![reaper.user] = FALSE]
    /\ ReaperGoto("pushOff")
    /\ UNCHANGED <<conns, consumers, announced, keys, members, stale, failures, orphans>>

ReaperAnnounceOffline ==
    /\ reaper.step = "pushOff"
    /\ announced' = [announced EXCEPT ![reaper.user] = FALSE]
    /\ reaper' = [step |-> "scan", user |-> NoUser]
    /\ UNCHANGED <<conns, consumers, online, keys, members, stale, failures, orphans>>

(* An exception ends the command; it is started again. *)
ReaperFails ==
    /\ reaper.step # "sleep"
    /\ failures < MaxReaperFailures
    /\ failures' = failures + 1
    /\ orphans' = IF reaper.user = NoUser THEN orphans
                   ELSE OrphansIfOneDiesFor(reaper.user)
    /\ reaper' = [step |-> "sleep", user |-> NoUser]
    /\ keys' = {}
    /\ members' = {}
    /\ stale' = {}
    /\ UNCHANGED <<conns, consumers, status>>
------------------------------------------------------------------------------
Register(c) == \/ SetHeartbeat(c) \/ CountFirst(c) \/ MarkOnline(c)
               \/ AnnounceOnline(c)

Unregister(c) == \/ RemoveConnection(c) \/ CountLast(c) \/ MarkOffline(c)
                 \/ AnnounceOffline(c)

Reaper == \/ StartSweep \/ VisitKey \/ EndSweep \/ KeepMember \/ FindStale
          \/ ReapStale \/ ReaperCount \/ ReaperMarkOffline
          \/ ReaperAnnounceOffline

Next == \/ \E c \in Channels :
             \/ Connect(c) \/ Register(c) \/ Disconnect(c) \/ Unregister(c)
             \/ RefreshHeartbeat(c) \/ HeartbeatLoopDies(c)
             \/ HandlerRaises(c) \/ Crash(c) \/ Expire(c)
        \/ Reaper
        \/ ReaperFails

Spec == Init /\ [][Next]_vars

(* Handlers that have started run on, keys nobody refreshes expire, and    *)
(* the reaper's loop keeps going.  Nobody has to connect or disconnect.    *)
Fairness == /\ \A c \in Channels : WF_vars(Register(c)) /\ WF_vars(Unregister(c))
            /\ \A c \in Channels : WF_vars(Expire(c))
            /\ WF_vars(Reaper)

FairSpec == Spec /\ Fairness
------------------------------------------------------------------------------
Steps == {"new", "closed", "raised", "dead"} \union Alive
ReaperSteps == {"sleep", "scan", "check", "remove", "markOff", "pushOff"}

TypeOK ==
    /\ conns \in SUBSET Channels
    /\ beats \in SUBSET Channels
    /\ silent \in SUBSET Channels
    /\ online \in [Users -> BOOLEAN]
    /\ announced \in [Users -> BOOLEAN]
    /\ pc \in [Channels -> Steps]
    /\ reaper \in [step : ReaperSteps, user : Users \union {NoUser}]
    /\ keys \in SUBSET Users
    /\ members \in SUBSET Channels
    /\ stale \in SUBSET members
    /\ failures \in 0 .. MaxReaperFailures
    /\ orphans \in SUBSET Users

(* Somebody is left who will see to it that u is shown offline: an entry   *)
(* for the reaper to find, a consumer, or the reaper itself, unless they   *)
(* are `done` with it.                                                     *)
Attended(u, done) ==
    \/ \E c \in Channels : Owner[c] = u /\ (c \in conns \/ pc[c] \in Alive \ done)
    \/ reaper.user = u /\ reaper.step \notin done
    \/ u \in orphans

(* Nobody stays online, or is last announced as online, after the last of  *)
(* their sockets is gone, however registers, unregisters and sweeps        *)
(* interleave; the only exception is a user for whom a process died after  *)
(* the set of connections had become empty and before is_online was        *)
(* written (register_connection, unregister_connection, _mark_offline).    *)
NoGhostOnline ==
    \A u \in Users :
        /\ online[u] => Attended(u, {"pushOff"})
        /\ announced[u] => Attended(u, {})

(* A socket that closed cleanly leaves nothing in Redis: no entry a later  *)
(* SCARD would count and no heartbeat, whatever the reaper did meanwhile   *)
(* (unregister_connection).                                                *)
NoTraceAfterClose ==
    \A c \in Channels : pc[c] = "closed" => c \notin conns /\ c \notin beats

(* The consumer of c is gone, and so is its heartbeat task.  A consumer    *)
(* that raised in a process that lives on is not gone in this sense: its   *)
(* key is refreshed for as long as the process lives.                      *)
Gone(c) == pc[c] = "dead" \/ (pc[c] = "raised" /\ c \in silent)

(* The set of connections does not drift: the entry of a consumer that is  *)
(* gone with its heartbeat task, by its process's death or one after the   *)
(* other, is removed in the end, also when the reaper itself fails now and *)
(* then (docstring of reap_stale_connections).                             *)
DeadAreReaped ==
    \A c \in Channels : (Gone(c) /\ c \in conns) ~> c \notin conns

AllGone(u) ==
    \A c \in Channels : Owner[c] = u => pc[c] \in {"new", "closed"} \/ Gone(c)

(* A user whose last sockets are gone, or closed, is shown offline in the  *)
(* end, unless somebody died with the set already empty or a new socket    *)
(* opens.                                                                  *)
CrashedGoOffline ==
    \A u \in Users :
        AllGone(u) ~> (~online[u] \/ u \in orphans \/ ~AllGone(u))

AtRest(u) == /\ \A c \in Channels : Owner[c] = u => pc[c] \in {"new", "open", "closed"}
             /\ reaper.user # u

(* The set of connections is the "source of truth for 'is this user online *)
(* right now'" (_connections_key): when nothing is in progress for a user  *)
(* and nobody died, is_online says whether the set has an entry.           *)
OnlineIffConnected ==
    \A u \in Users : AtRest(u) => (online[u] <=> ~IsEmpty(u))

(* Opening, closing, gone, or without its heartbeat task: the states of a  *)
(* connection that may lack a heartbeat key.                               *)
MayLackHeartbeat(c) ==
    pc[c] \in {"beat", "closed", "dead"} \union Unregistering \/ c \in silent

(* The reaper never takes a healthy open connection for a stale one: the   *)
(* one it found without a heartbeat key was between the SADD and the SET   *)
(* of register_connection, closing or gone, or had lost its heartbeat task *)
(* (reap_stale_connections, "the process behind it died").                 *)
StaleOnlyWithReason ==
    [][\A c \in stale' \ stale : MayLackHeartbeat(c)]_vars
==============================================================================
