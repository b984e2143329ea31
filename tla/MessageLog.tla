------------------------------ MODULE MessageLog ------------------------------
(***************************************************************************)
(* What send_message and mark_conversation_as_read promise to whoever      *)
(* listens to a conversation: messages become readable in the order of     *)
(* their created_at, a read pointer is only ever put on a message that can *)
(* be read, and each commit and each save puts one event on an outbox that *)
(* is held in memory.  An event of the outbox is broadcast once, at any    *)
(* time and in any order, or is lost.                                      *)
(*                                                                         *)
(* Module Messaging implements this specification; module LiveChat builds  *)
(* the pages on it.                                                        *)
(***************************************************************************)
EXTENDS Integers, Sequences

CONSTANTS
    Users,      \* accounts
    Callers     \* whoever runs one of the services

VARIABLES
    committed,  \* the messages that can be read, named by created_at
    pointer,    \* pointer[u]: u's last_read_message, 0 for NULL
    outbox,     \* events still to be broadcast, with their caller
    wire        \* what was sent to the conversation's channel group, in order

logVars == <<committed, pointer, outbox, wire>>

Event(type, m, u) == [event |-> type, msg |-> m, user |-> u]
Owed(by, e) == [by |-> by, event |-> e.event, msg |-> e.msg, user |-> e.user]
Sent(o) == Event(o.event, o.msg, o.user)

LogInit ==
    /\ \A m \in committed : m \in Nat \ {0}
    /\ pointer \in [Users -> committed \union {0}]
    /\ outbox = {}
    /\ wire = <<>>

CommitMessage(by, m, u) ==
    /\ \A k \in committed : k < m
    /\ committed' = committed \union {m}
    /\ outbox' = outbox \union {Owed(by, Event("new", m, u))}
    /\ UNCHANGED <<pointer, wire>>

MarkRead(by, m, u) ==
    /\ m \in committed
    /\ pointer' = [pointer EXCEPT ![u] = m]
    /\ outbox' = outbox \union {Owed(by, Event("receipt", m, u))}
    /\ UNCHANGED <<committed, wire>>

Broadcast(o) ==
    /\ o \in outbox
    /\ wire' = Append(wire, Sent(o))
    /\ outbox' = outbox \ {o}
    /\ UNCHANGED <<committed, pointer>>

(* the process dies first, or the broadcast raises *)
Lose(o) ==
    /\ o \in outbox
    /\ outbox' = outbox \ {o}
    /\ UNCHANGED <<committed, pointer, wire>>

(* u's participant row is deleted, or made anew *)
Forget(u) ==
    /\ pointer' = [pointer EXCEPT ![u] = 0]
    /\ UNCHANGED <<committed, outbox, wire>>

LogNext ==
    \/ \E by \in Callers, u \in Users :
         \/ \E m \in committed' \ committed : CommitMessage(by, m, u)
         \/ \E m \in committed : MarkRead(by, m, u)
    \/ \E o \in outbox : Broadcast(o) \/ Lose(o)
    \/ \E u \in Users : Forget(u)

LogSpec == LogInit /\ [][LogNext]_logVars
===============================================================================
