------------------------------- MODULE LiveChat -------------------------------
(***************************************************************************)
(* The pages of one conversation: conversation_detail_view renders the     *)
(* messages, chat.js opens a socket, ChatConsumer joins the conversation's *)
(* channel group and relays what is sent to it, and the page appends rows, *)
(* answers with 'seen' and ticks the rows others have read.                *)
(*                                                                         *)
(* Below are the services as MessageLog promises them: read pointers can   *)
(* move back, and are forgotten with the participant's row.  The services  *)
(* that a page's consumer runs itself are here with their queries.         *)
(*                                                                         *)
(* A consumer runs one handler at a time, connect included: what arrives   *)
(* meanwhile waits in its channel (events of the group) or on the socket   *)
(* (events of the page).  Relaying an event and handling it on the page is *)
(* one step; a socket that drops loses whatever was not relayed by then.   *)
(***************************************************************************)
EXTENDS MessageLog, FiniteSets, FiniteSetsExt

CONSTANTS
    Pages,       \* tabs that show the conversation, each rendered once
    Viewer,      \* Viewer[p]: the user of page p
    MaxMessages, \* bound: messages ever sent
    MaxDrops,    \* bound: connections that ever drop
    MaxVisits,   \* bound: markings that other connections and tabs save
    MaxRemovals, \* bound: participant rows that are deleted
    MaxMishaps,  \* bound: drops, markings elsewhere, removals and hidings together
    MaxHides     \* bound: times that a page is hidden

Messages == 1 .. MaxMessages
LATEST == 0      \* a 'seen' without message_id

ASSUME ViewerAssumption == Viewer \in [Pages -> Users]
ASSUME CallersAssumption == Callers = Messages \union Users \union Pages
ASSUME PagesAssumption == Pages \intersect (Messages \union Users) = {}
ASSUME BoundsAssumption == {MaxMessages, MaxDrops, MaxVisits, MaxRemovals, MaxMishaps, MaxHides} \subseteq Nat

VARIABLES
    author,     \* author[m]: who sends message m
    row,        \* row[u]: pk of u's participant row, 0 if there is none
    removals,   \* rows deleted so far
    reached,    \* reached[u]: the furthest that pointer[u] has been; auxiliary
    mark,       \* mark[p]: other_last_read_message while p is rendered, or -1
    rows,       \* rows[p]: the rows of the message list, top down
    listed,     \* listed[p]: how many of them were rendered; auxiliary
    visible,    \* pages whose document is visible
    socket,     \* socket[p]: the socket of the page
    cursor,     \* cursor[p]: events of wire that are no longer p's to relay
    inbox,      \* inbox[p]: 'seen' events the consumer has not read yet
    task,       \* task[p]: mark_conversation_as_read as the consumer runs it
    drops,      \* connections dropped so far
    visits,     \* markings saved elsewhere so far
    hides       \* hidings so far

members == <<row, removals>>
bounds == <<drops, visits, hides>>
page == <<mark, rows, listed>>
connection == <<socket, cursor, inbox, task>>
vars == <<logVars, author, members, reached, page, visible, connection, bounds>>

Idle == [step |-> "none", msg |-> LATEST, pk |-> 0]
MayMishap == drops + visits + removals + hides < MaxMishaps
Others(u) == Users \ {u}
Newest == Max(committed \union {0})

Init ==
    /\ committed = {}
    /\ pointer = [u \in Users |-> 0]
    /\ outbox = {}
    /\ wire = <<>>
    /\ author \in [Messages -> Users]
    /\ row = [u \in Users |-> 1]
    /\ removals = 0
    /\ reached = [u \in Users |-> 0]
    /\ mark = [p \in Pages |-> -1]
    /\ rows = [p \in Pages |-> <<>>]
    /\ listed = [p \in Pages |-> 0]
    /\ visible = Pages
    /\ socket = [p \in Pages |-> "none"]
    /\ cursor = [p \in Pages |-> 0]
    /\ inbox = [p \in Pages |-> <<>>]
    /\ task = [p \in Pages |-> Idle]
    /\ drops = 0
    /\ visits = 0
    /\ hides = 0

Own(p, m) == author[m] = Viewer[p]
------------------------------------------------------------------------------
(* The services, called through HTTP or by sockets of other clients.       *)

Send ==
    LET m == Newest + 1 IN
    /\ m \in Messages
    /\ CommitMessage(m, m, author[m])
    /\ UNCHANGED <<author, members, reached, page, visible, connection, bounds>>

(* the receipt that p's consumer is about to broadcast *)
Owes(p, o) ==
    task[p].step = "receipt" /\ o = Owed(p, Event("receipt", task[p].msg, Viewer[p]))

(* mutant: the callback may run again after it has sent the event *)
BroadcastMessage_Again ==
    /\ \E o \in outbox : /\ o.by \notin Pages
                         /\ Len(wire) < 2 * MaxMessages
                         /\ wire' = Append(wire, Sent(o))
    /\ UNCHANGED <<committed, pointer, outbox>>
    /\ UNCHANGED <<author, members, reached, page, visible, connection, bounds>>

(* What others owe, and what consumers still owe whose connection is gone; *)
(* an event that is never broadcast is one that was lost.                  *)
BroadcastMessage ==
    /\ \E o \in outbox : (\A p \in Pages : ~Owes(p, o)) /\ Broadcast(o)
    /\ UNCHANGED <<author, members, reached, page, visible, connection, bounds>>

Reads(by, m, u) ==
    /\ MarkRead(by, m, u)
    /\ reached' = [reached EXCEPT ![u] = IF m > @ THEN m ELSE @]

(* mark_conversation_as_read saves in another tab or client of u's, or in  *)
(* the consumer of a connection that has dropped.  What it compared may be *)
(* stale by now, so that the pointer may move back (Messaging).            *)
ReadElsewhere(u) ==
    /\ visits < MaxVisits /\ MayMishap
    /\ visits' = visits + 1
    /\ row[u] # 0
    /\ \E m \in committed : Reads(u, m, u)
    /\ UNCHANGED <<author, members, page, visible, connection, drops, hides>>

(* remove_participant, leave_conversation *)
RemoveRow(u) ==
    /\ removals < MaxRemovals /\ MayMishap
    /\ row[u] # 0
    /\ row' = [row EXCEPT ![u] = 0]
    /\ removals' = removals + 1
    /\ Forget(u)
    /\ UNCHANGED <<author, reached, page, visible, connection, bounds>>

(* add_participant: the new row's pk was never u's before *)
AddRow(u) ==
    /\ row[u] = 0
    /\ row' = [row EXCEPT ![u] = removals + 1]
    /\ Forget(u)
    /\ UNCHANGED <<author, removals, reached, page, visible, connection, bounds>>
------------------------------------------------------------------------------
(* conversation_detail_view *)

(* get_latest_other_participant_read_message *)
FurthestRead(u) == Max({pointer[v] : v \in Others(u)} \union {0})

(* The view asks is_user_participant and reads the watermark, *)
ReadWatermark(p) ==
    /\ socket[p] = "none"
    /\ row[Viewer[p]] # 0
    /\ mark[p] = -1
    /\ mark' = [mark EXCEPT ![p] = FurthestRead(Viewer[p])]
    /\ UNCHANGED <<logVars, author, members, reached, rows, listed, visible, connection, bounds>>

(* and the template the messages, when it iterates over the queryset; it   *)
(* ticks one's own up to the watermark.  The page then calls connect().    *)
RenderList(p) ==
    /\ mark[p] # -1
    /\ mark' = [mark EXCEPT ![p] = -1]
    /\ rows' = [rows EXCEPT ![p] = [m \in 1 .. Newest |->
                  [msg |-> m, seen |-> Own(p, m) /\ m <= mark[p]]]]
    /\ listed' = [listed EXCEPT ![p] = Newest]
    /\ socket' = [socket EXCEPT ![p] = "connecting"]
    /\ UNCHANGED <<logVars, author, members, reached, visible, cursor, inbox, task, bounds>>
------------------------------------------------------------------------------
(* ChatConsumer.connect: is_user_participant, *)
CheckMember(p) ==
    /\ socket[p] = "connecting"
    /\ socket' = [socket EXCEPT ![p] = IF row[Viewer[p]] # 0 THEN "allowed" ELSE "closed"]
    /\ UNCHANGED <<logVars, author, members, reached, page, visible, cursor, inbox, task,
                   bounds>>

(* group_add, *)
JoinGroup(p) ==
    /\ socket[p] = "allowed"
    /\ socket' = [socket EXCEPT ![p] = "joined"]
    /\ cursor' = [cursor EXCEPT ![p] = Len(wire)]
    /\ UNCHANGED <<logVars, author, members, reached, page, visible, inbox, task, bounds>>

(* mark_conversation_as_read has got its message: the one it is given, or  *)
(* the latest, order_by('-created_at').first(), where None ends it.        *)
Marks(m) ==
    IF m = LATEST /\ committed = {}
      THEN Idle
      ELSE [step |-> "load", msg |-> IF m = LATEST THEN Newest ELSE m, pk |-> 0]

(* accept, and the latest message is marked as read. *)
Accept(p) ==
    /\ socket[p] = "joined"
    /\ socket' = [socket EXCEPT ![p] = "open"]
    /\ task' = [task EXCEPT ![p] = Marks(LATEST)]
    /\ UNCHANGED <<logVars, author, members, reached, page, visible, cursor, inbox, bounds>>

AtStep(p, step) ==
    /\ task[p].step = step
    /\ UNCHANGED <<author, members, page, visible, bounds>>

(* mutant: the comparison is the wrong way round *)
MovesForward_Inverted(m, current) == m < current

MovesForward(m, current) == m > current

(* the participant with the message it has read: no row, or no move        *)
(* forward, ends it *)
LoadRow(p) ==
    LET u == Viewer[p] IN
    /\ AtStep(p, "load")
    /\ task' = [task EXCEPT ![p] =
                  IF row[u] # 0 /\ MovesForward(task[p].msg, pointer[u])
                    THEN [@ EXCEPT !.step = "save", !.pk = row[u]] ELSE Idle]
    /\ UNCHANGED <<logVars, reached, socket, cursor, inbox>>

(* save updates the row that was loaded, *)
SaveRow(p) ==
    LET u == Viewer[p] IN
    /\ AtStep(p, "save")
    /\ row[u] = task[p].pk
    /\ Reads(p, task[p].msg, u)
    /\ task' = [task EXCEPT ![p].step = "receipt"]
    /\ UNCHANGED <<socket, cursor, inbox>>

(* what is left of a connection when it ends *)
Closes(p) ==
    /\ socket' = [socket EXCEPT ![p] = "closed"]
    /\ inbox' = [inbox EXCEPT ![p] = <<>>]
    /\ task' = [task EXCEPT ![p] = Idle]
    /\ cursor' = [cursor EXCEPT ![p] = 0]

(* or raises because that row is gone, which ends the consumer, *)
SaveRaises(p) ==
    /\ AtStep(p, "save")
    /\ row[Viewer[p]] # task[p].pk
    /\ Closes(p)
    /\ UNCHANGED <<logVars, reached>>

(* and the receipt is broadcast. *)
Receipt(p) ==
    /\ AtStep(p, "receipt")
    /\ \E o \in outbox : Owes(p, o) /\ Broadcast(o)
    /\ task' = [task EXCEPT ![p] = Idle]
    /\ UNCHANGED <<reached, socket, cursor, inbox>>

Ready(p) == socket[p] = "open" /\ task[p] = Idle

(* _handle_seen *)
HandleSeen(p) ==
    /\ Ready(p)
    /\ inbox[p] # <<>>
    /\ task' = [task EXCEPT ![p] = Marks(Head(inbox[p]))]
    /\ inbox' = [inbox EXCEPT ![p] = Tail(@)]
    /\ UNCHANGED <<logVars, author, members, reached, page, visible, socket, cursor, bounds>>
------------------------------------------------------------------------------
(* What the consumer relays and chat.js does with it.                      *)

(* socket.emit: lost unless the socket is open *)
Emit(p, m) ==
    inbox' = IF socket[p] = "open" THEN [inbox EXCEPT ![p] = Append(@, m)] ELSE inbox

Next1(p) == wire[cursor[p] + 1]

(* mutant: an event that waits behind another is skipped *)
Relays_SkipsOne(p, event) ==
    /\ Ready(p)
    /\ cursor[p] < Len(wire)
    /\ Next1(p).event = event
    /\ cursor' = [cursor EXCEPT ![p] = @ + 2]
    /\ UNCHANGED <<logVars, author, members, reached, mark, listed, visible, socket, task, bounds>>

Relays(p, event) ==
    /\ Ready(p)
    /\ cursor[p] < Len(wire)
    /\ Next1(p).event = event
    /\ cursor' = [cursor EXCEPT ![p] = @ + 1]
    /\ UNCHANGED <<logVars, author, members, reached, mark, listed, visible, socket, task, bounds>>

(* mutant: a hidden page does not append the row *)
NewMessage_IfVisible(p) ==
    LET m == Next1(p).msg IN
    /\ Relays(p, "new")
    /\ rows' = IF p \in visible
                 THEN [rows EXCEPT ![p] = Append(@, [msg |-> m, seen |-> FALSE])]
                 ELSE rows
    /\ IF p \in visible /\ ~Own(p, m) THEN Emit(p, m) ELSE UNCHANGED inbox

(* 'message.new': the row is appended whatever the list holds; a visible   *)
(* page answers with 'seen' unless the message is its user's.              *)
NewMessage(p) ==
    LET m == Next1(p).msg IN
    /\ Relays(p, "new")
    /\ rows' = [rows EXCEPT ![p] = Append(@, [msg |-> m, seen |-> FALSE])]
    /\ IF p \in visible /\ ~Own(p, m) THEN Emit(p, m) ELSE UNCHANGED inbox

(* markMessagesAsSeen: one's own rows down to the first one of message m,  *)
(* none if m is not among them                                             *)
MarkMessagesAsSeen(p, m) ==
    LET own == {i \in DOMAIN rows[p] : Own(p, rows[p][i].msg)}
        target == {i \in own : rows[p][i].msg = m}
    IN  [i \in DOMAIN rows[p] |->
           [rows[p][i] EXCEPT !.seen = @ \/ (i \in own /\ target # {} /\ i <= Min(target))]]

(* mutant: a page also takes the receipts of its own user *)
Concerns_Everybody(p, e) == TRUE

(* 'read_receipt' *)
Concerns(p, e) == e.user # Viewer[p]

ReadReceipt(p) ==
    /\ Relays(p, "receipt")
    /\ rows' = IF Concerns(p, Next1(p))
                 THEN [rows EXCEPT ![p] = MarkMessagesAsSeen(p, Next1(p).msg)]
                 ELSE rows
    /\ UNCHANGED inbox

(* 'visibilitychange' *)
Hide(p) ==
    /\ socket[p] # "none"
    /\ hides < MaxHides /\ MayMishap
    /\ hides' = hides + 1
    /\ p \in visible
    /\ visible' = visible \ {p}
    /\ UNCHANGED <<logVars, author, members, reached, page, connection, drops, visits>>

Show(p) ==
    /\ p \notin visible
    /\ visible' = visible \union {p}
    /\ Emit(p, LATEST)
    /\ UNCHANGED <<logVars, author, members, reached, page, socket, cursor, task, bounds>>
------------------------------------------------------------------------------
(* The connection drops and disconnect leaves the group, or a handler      *)
(* raises and nobody reads the channel any more.  What the consumer had    *)
(* still to mark or to broadcast, if it does go on, is for ReadElsewhere   *)
(* and BroadcastMessage.                                                   *)
Drop(p) ==
    /\ socket[p] \in {"connecting", "allowed", "joined", "open"}
    /\ drops < MaxDrops /\ MayMishap
    /\ drops' = drops + 1
    /\ Closes(p)
    /\ UNCHANGED <<logVars, author, members, reached, page, visible, visits, hides>>

(* ChatSocket's timer: connect() again.  The page is not rendered again.   *)
Reconnect(p) ==
    /\ socket[p] = "closed"
    /\ socket' = [socket EXCEPT ![p] = "connecting"]
    /\ UNCHANGED <<logVars, author, members, reached, page, visible, cursor, inbox, task, bounds>>

Connecting(p) == CheckMember(p) \/ JoinGroup(p) \/ Accept(p) \/ Reconnect(p)
Marking(p) == LoadRow(p) \/ SaveRow(p) \/ SaveRaises(p) \/ Receipt(p)
Relay(p) == NewMessage(p) \/ ReadReceipt(p)

Next == \/ Send \/ BroadcastMessage
        \/ \E u \in Users : ReadElsewhere(u) \/ RemoveRow(u) \/ AddRow(u)
        \/ \E p \in Pages : \/ ReadWatermark(p) \/ RenderList(p) \/ Connecting(p)
                            \/ Marking(p) \/ HandleSeen(p) \/ Relay(p)
                            \/ Hide(p) \/ Show(p) \/ Drop(p)

Spec == Init /\ [][Next]_vars

(* A consumer gets to run its handlers and does not starve the events of   *)
(* the group for those of the page; the timer of a closed socket fires.    *)
(* Nobody has to send, to read or to open anything.                        *)
Consumer(p) == Connecting(p) \/ Marking(p) \/ HandleSeen(p) \/ Relay(p)

Fairness == \A p \in Pages : WF_vars(Consumer(p)) /\ SF_vars(Relay(p))

FairSpec == Spec /\ Fairness
------------------------------------------------------------------------------
Rows == Seq([msg : Messages, seen : BOOLEAN])

TypeOK ==
    /\ committed \in SUBSET Messages
    /\ pointer \in [Users -> Messages \union {0}]
    /\ \A o \in outbox : o \in [by : Callers, event : {"new", "receipt"},
                                msg : committed, user : Users]
    /\ wire \in Seq([event : {"new", "receipt"}, msg : committed, user : Users])
    /\ author \in [Messages -> Users]
    /\ row \in [Users -> Nat]
    /\ removals \in 0 .. MaxRemovals
    /\ reached \in [Users -> Messages \union {0}]
    /\ \A u \in Users : pointer[u] <= reached[u]
    /\ mark \in [Pages -> Messages \union {-1, 0}]
    /\ rows \in [Pages -> Rows]
    /\ listed \in [Pages -> Nat]
    /\ \A p \in Pages : listed[p] <= Len(rows[p])
    /\ visible \in SUBSET Pages
    /\ socket \in [Pages -> {"none", "connecting", "allowed", "joined", "open", "closed"}]
    /\ cursor \in [Pages -> Nat]
    /\ \A p \in Pages : cursor[p] <= Len(wire)
    /\ inbox \in [Pages -> Seq(Messages \union {LATEST})]
    /\ task \in [Pages -> [step : {"none", "load", "save", "receipt"},
                           msg : Messages \union {LATEST}, pk : Nat]]
    /\ drops \in 0 .. MaxDrops
    /\ visits \in 0 .. MaxVisits
    /\ hides \in 0 .. MaxHides

Shown(p, m) == \E i \in DOMAIN rows[p] : rows[p][i].msg = m

(* A page shows a message twice only if its list already had it and the    *)
(* broadcast came after the socket had joined the group: reconnecting      *)
(* never repeats a row (chat.js appends without looking).                  *)
TwiceOnlyIfListed ==
    \A p \in Pages : \A i, j \in DOMAIN rows[p] :
        (i < j /\ rows[p][i].msg = rows[p][j].msg) => i <= listed[p] /\ listed[p] < j

(* rows of p that came in an order other than that of created_at *)
OutOfOrder(p) ==
    \E i, j \in DOMAIN rows[p] :
        i < j /\ rows[p][i].msg > rows[p][j].msg

(* A tick is earned: somebody else's pointer is or has been that far, even *)
(* if a stale save has moved it back since or its row has been deleted,    *)
(* unless rows of the page are out of order (the watermark of              *)
(* message_item.html, chat.js' 'read_receipt' and markMessagesAsSeen).     *)
SeenIsEarned ==
    \A p \in Pages : \A i \in DOMAIN rows[p] :
        rows[p][i].seen =>
            \/ \E v \in Others(Viewer[p]) : reached[v] >= rows[p][i].msg
            \/ OutOfOrder(p)

(* What is broadcast while a page's consumer is in the group shows up on   *)
(* the page, hidden or not, unless the connection drops.                   *)
Waiting(p, m) == \E i \in cursor[p] + 1 .. Len(wire) :
                    wire[i].event = "new" /\ wire[i].msg = m

DeliveredWhileJoined ==
    \A p \in Pages, m \in Messages :
        (socket[p] \in {"joined", "open"} /\ Waiting(p, m))
            ~> (socket[p] = "closed" \/ Shown(p, m))

(* A 'seen' that reaches the consumer moves the user's pointer that far,   *)
(* whatever the connects and 'seen's of other tabs save meanwhile, unless  *)
(* the user is removed: a removed user's socket stays open, and what it    *)
(* marks is dropped in silence or ends the consumer.                       *)
SeenIsRecorded ==
    \A p \in Pages, m \in Messages :
        (\E i \in DOMAIN inbox[p] : inbox[p][i] = m)
            ~> \/ socket[p] = "closed"
               \/ pointer[Viewer[p]] >= m
               \/ row[Viewer[p]] = 0

(* "a message counts as seen as soon as AT LEAST ONE other participant has *)
(* read it", "everywhere else (see chat.js's markMessagesAsSeen)"          *)
(* (get_latest_other_participant_read_message): a page that hears that     *)
(* somebody has read up to a message ticks its user's messages up to it.   *)
HearsReceipt(p) ==
    /\ socket[p] = "open"
    /\ cursor'[p] = cursor[p] + 1
    /\ Next1(p).event = "receipt"
    /\ Next1(p).user # Viewer[p]

SeenIsComplete ==
    [][\A p \in Pages :
         HearsReceipt(p) =>
            \A i \in DOMAIN rows[p] :
                (Own(p, rows[p][i].msg) /\ rows[p][i].msg <= Next1(p).msg)
                    => rows'[p][i].seen]_vars
===============================================================================
