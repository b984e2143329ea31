-------------------------------- MODULE Typing --------------------------------
(***************************************************************************)
(* The status line of a conversation's page: who is typing, or whether the *)
(* other party is online.  Pages send typing.start and typing.stop through *)
(* their sockets, consumers relay them to the group, and the reader's page *)
(* writes what arrives over what the presence socket has written.          *)
(*                                                                         *)
(* Nothing is stored and nothing repeated: a frame that meets a closed     *)
(* socket is dropped.  The frames of one connection and the events of one  *)
(* channel keep their order, but not the frames of two connections: those  *)
(* that the server has received before a connection broke are queued ahead *)
(* of its websocket.disconnect, and the old consumer relays them while the *)
(* page has reconnected through a new one.  The timer that ends typing is  *)
(* armed exactly while isTyping holds, so that it may fire whenever        *)
(* isTyping does.                                                          *)
(***************************************************************************)
EXTENDS Integers, Sequences

CONSTANTS
    Pages,      \* the pages that type into the conversation
    Users,
    Me,         \* the user whose page is read
    MaxStarts,  \* bound: times that a page starts to type
    MaxDrops    \* bound: connections that break

ASSUME UsersAssumption == Me \in Users /\ "online" \notin Users /\ "offline" \notin Users
ASSUME BoundsAssumption == MaxStarts \in Nat /\ MaxDrops \in Nat

VARIABLES
    owner,      \* owner[p]: whose page p is
    isTyping,   \* isTyping[p] of its typing controller
    socket,     \* socket[p]: "open", "down" until it reconnects, or "gone"
    conn,       \* conn[p]: the number of its connection, or of the next one
    frames,     \* frames[p][n]: typing frames the consumer of connection n
                \* has not handled, TRUE for typing.start
    joined,     \* is the reader's consumer in the group of the conversation?
    inbox,      \* typing events in its channel: [page, start]
    text,       \* the status line: a user who types, "online" or "offline"
    lost,       \* pages whose last typing.stop did not arrive; auxiliary
    late,       \* pages whose last typing.stop was overtaken by a
                \* typing.start of an earlier connection; auxiliary
    starts,     \* times that a page has started to type
    drops       \* connections broken so far

pages == <<owner, isTyping, socket, conn, frames, starts>>
reader == <<joined, inbox, text>>
vars == <<pages, reader, lost, late, drops>>

Connections == 0 .. MaxDrops

Init ==
    /\ owner \in [Pages -> Users]
    /\ isTyping = [p \in Pages |-> FALSE]
    /\ socket = [p \in Pages |-> "open"]
    /\ conn = [p \in Pages |-> 0]
    /\ frames = [p \in Pages |-> [n \in Connections |-> <<>>]]
    /\ joined = TRUE
    /\ inbox = <<>>
    /\ text \in {"online", "offline"}
    /\ lost = {}
    /\ late = {}
    /\ starts = 0
    /\ drops = 0

StopIn(f) == \E i \in DOMAIN f : ~f[i]

(* connections of p on which a typing.stop is under way *)
Stops(p) == {n \in Connections : StopIn(frames[p][n])}
InInbox(p) == {i \in DOMAIN inbox : inbox[i].page = p /\ ~inbox[i].start}
------------------------------------------------------------------------------
(* A page that types *)

(* ChatSocket.emit *)
Emit(p, start) ==
    IF socket[p] = "open"
      THEN frames' = [frames EXCEPT ![p][conn[p]] = Append(@, start)]
      ELSE UNCHANGED frames

(* startTyping; an input while isTyping holds only sets the timer anew *)
StartTyping(p) ==
    /\ socket[p] # "gone" /\ starts < MaxStarts
    /\ ~isTyping[p]
    /\ isTyping' = [isTyping EXCEPT ![p] = TRUE]
    /\ starts' = starts + 1
    /\ Emit(p, TRUE)
    /\ lost' = lost \ {p}
    /\ late' = late \ {p}
    /\ UNCHANGED <<owner, socket, conn, reader, drops>>

(* stopTyping: by its timer, an emptied input, blur or a message sent *)
StopTyping(p) ==
    /\ socket[p] # "gone"
    /\ isTyping[p]
    /\ isTyping' = [isTyping EXCEPT ![p] = FALSE]
    /\ Emit(p, FALSE)
    /\ lost' = IF socket[p] = "open" THEN lost ELSE lost \union {p}
    /\ UNCHANGED <<owner, socket, conn, starts, reader, late, drops>>

(* The server has received the first k frames of the connection, which its *)
(* consumer handles still; the others are gone with it.                    *)
Received(p, k) == SubSeq(frames[p][conn[p]], 1, k)
Missed(p, k) == SubSeq(frames[p][conn[p]], k + 1, Len(frames[p][conn[p]]))

Drop(p) ==
    /\ socket[p] = "open" /\ drops < MaxDrops
    /\ socket' = [socket EXCEPT ![p] = "down"]
    /\ conn' = [conn EXCEPT ![p] = @ + 1]
    /\ drops' = drops + 1
    /\ \E k \in 0 .. Len(frames[p][conn[p]]) :
         /\ frames' = [frames EXCEPT ![p][conn[p]] = Received(p, k)]
         /\ lost' = IF StopIn(Missed(p, k)) THEN lost \union {p} ELSE lost
    /\ UNCHANGED <<owner, isTyping, starts, reader, late>>

(* _scheduleReconnect, connect *)
Reconnect(p) ==
    /\ socket[p] = "down"
    /\ socket' = [socket EXCEPT ![p] = "open"]
    /\ UNCHANGED <<owner, isTyping, conn, frames, starts, reader, lost, late, drops>>

(* The page is left; ChatConsumer.disconnect tells nobody of its typing. *)
Leave(p) ==
    /\ socket[p] # "gone"
    /\ socket' = [socket EXCEPT ![p] = "gone"]
    /\ isTyping' = [isTyping EXCEPT ![p] = FALSE]
    /\ \E k \in 0 .. Len(frames[p][conn[p]]) :
         /\ frames' = [frames EXCEPT ![p][conn[p]] = Received(p, k)]
         /\ lost' = IF isTyping[p] \/ StopIn(Missed(p, k)) THEN lost \union {p} ELSE lost
    /\ UNCHANGED <<owner, conn, starts, reader, late, drops>>
------------------------------------------------------------------------------
(* The consumers *)

(* With this frame of an earlier connection, p's last stop is overtaken. *)
Overtakes(p, n) ==
    /\ joined /\ Head(frames[p][n])
    /\ n # conn[p] /\ ~isTyping[p] /\ Stops(p) = {}

(* mutant: what is relayed last arrives first *)
Relay_Reordered(p, n) ==
    /\ frames[p][n] # <<>>
    /\ frames' = [frames EXCEPT ![p][n] = Tail(@)]
    /\ IF joined
         THEN /\ inbox' = <<[page |-> p, start |-> Head(frames[p][n])]>> \o inbox
              /\ UNCHANGED lost
         ELSE /\ lost' = IF Head(frames[p][n]) THEN lost ELSE lost \union {p}
              /\ UNCHANGED inbox
    /\ late' = IF Overtakes(p, n) THEN late \union {p} ELSE late
    /\ UNCHANGED <<owner, isTyping, socket, conn, starts, joined, text, drops>>

(* receive: _handle_typing_start or _handle_typing_stop, to the group *)
Relay(p, n) ==
    /\ frames[p][n] # <<>>
    /\ frames' = [frames EXCEPT ![p][n] = Tail(@)]
    /\ IF joined
         THEN /\ inbox' = Append(inbox, [page |-> p, start |-> Head(frames[p][n])])
              /\ UNCHANGED lost
         ELSE /\ lost' = IF Head(frames[p][n]) THEN lost ELSE lost \union {p}
              /\ UNCHANGED inbox
    /\ late' = IF Overtakes(p, n) THEN late \union {p} ELSE late
    /\ UNCHANGED <<owner, isTyping, socket, conn, starts, joined, text, drops>>

(* The reader's own connection breaks, and comes back. *)
DropReader ==
    /\ joined /\ drops < MaxDrops
    /\ joined' = FALSE
    /\ drops' = drops + 1
    /\ inbox' = <<>>
    /\ lost' = lost \union {p \in Pages : InInbox(p) # {}}
    /\ UNCHANGED <<pages, text, late>>

JoinReader ==
    /\ ~joined
    /\ joined' = TRUE
    /\ UNCHANGED <<pages, inbox, text, lost, late, drops>>
------------------------------------------------------------------------------
(* The reader's page *)

(* socket.on('typing'): one's own events are ignored, and a stop writes    *)
(* "online" whatever the presence of the other is.                         *)
Shown(e) ==
    CASE owner[e.page] = Me -> text
      [] owner[e.page] # Me /\ e.start -> owner[e.page]
      [] owner[e.page] # Me /\ ~e.start -> "online"

(* mutant: the handler looks at starts only *)
ShowTyping_StartsOnly ==
    /\ inbox # <<>>
    /\ inbox' = Tail(inbox)
    /\ text' = IF Head(inbox).start THEN Shown(Head(inbox)) ELSE text
    /\ UNCHANGED <<pages, joined, lost, late, drops>>

ShowTyping ==
    /\ inbox # <<>>
    /\ inbox' = Tail(inbox)
    /\ text' = Shown(Head(inbox))
    /\ UNCHANGED <<pages, joined, lost, late, drops>>

(* presence.update of the other party, from the presence socket.  It asks  *)
(* for dataset.typing, which nothing sets, and writes over typing too.     *)
ShowPresence ==
    /\ text' \in {"online", "offline"}
    /\ UNCHANGED <<pages, joined, inbox, lost, late, drops>>

Next == \/ \E p \in Pages : \/ StartTyping(p) \/ StopTyping(p)
                            \/ Drop(p) \/ Reconnect(p) \/ Leave(p)
                            \/ \E n \in Connections : Relay(p, n)
        \/ DropReader \/ JoinReader \/ ShowTyping \/ ShowPresence

(* Consumers handle their frames and events, the page its events.  Nobody  *)
(* has to type, to stop or to reconnect.                                   *)
Spec == /\ Init /\ [][Next]_vars
        /\ \A p \in Pages, n \in Connections : WF_vars(Relay(p, n))
        /\ WF_vars(ShowTyping)
------------------------------------------------------------------------------
TypeOK ==
    /\ owner \in [Pages -> Users]
    /\ isTyping \in [Pages -> BOOLEAN]
    /\ socket \in [Pages -> {"open", "down", "gone"}]
    /\ conn \in [Pages -> Connections]
    /\ \A p \in Pages : conn[p] <= drops
    /\ frames \in [Pages -> [Connections -> Seq(BOOLEAN)]]
    /\ joined \in BOOLEAN
    /\ inbox \in Seq([page : Pages, start : BOOLEAN])
    /\ text \in Users \union {"online", "offline"}
    /\ lost \in SUBSET Pages /\ late \in SUBSET Pages
    /\ starts \in 0 .. MaxStarts
    /\ drops \in 0 .. MaxDrops

PagesOf(u) == {p \in Pages : owner[p] = u}

(* "u is typing" stands on the page only while a page of u's is typing, or *)
(* its typing.stop is on the way, or has been lost to a connection, or was *)
(* overtaken by a start that the consumer of an earlier connection relayed *)
(* after it: the controllers, which keep isTyping across reconnections,    *)
(* and the order of frames and events leave it there in no other way       *)
(* (chat.js, ChatConsumer.receive).                                        *)
TypingIsTrue ==
    text \in Users =>
        /\ text # Me
        /\ \E p \in PagesOf(text) :
             isTyping[p] \/ Stops(p) # {} \/ InInbox(p) # {} \/ p \in lost \union late

(* When u has stopped on every page, and no typing.stop is lost or         *)
(* overtaken, the line goes back to a presence in the end.                 *)
TypingEnds ==
    \A u \in Users :
        (text = u /\ \A p \in PagesOf(u) : ~isTyping[p])
            ~> \/ text # u
               \/ \E p \in PagesOf(u) : isTyping[p] \/ p \in lost \union late
==============================================================================
