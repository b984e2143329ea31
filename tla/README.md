# A verification of chatplatform

TLA+ models of the chat platform (Django, Channels, Redis, PostgreSQL, and the
page's JavaScript), TLC configurations that check them on small instances, and
TLAPS proofs of what matters most for every instance. Paths below are relative
to the root of the repository.

- [The system](#the-system): its parts, their state, how they interact
- [What is hard](#what-is-hard)
- [The modules](#the-modules): what models what
- [The runs](#the-runs): what is checked, on which bounds
- [Fairness](#fairness)
- [The proofs](#the-proofs)
- [What the checks found](#what-the-checks-found)
- [What is not modelled](#what-is-not-modelled)
- [Plan](#plan)

## The system

A user logs in from a mobile client (REST, JWT) or a browser (Django session).
Each login makes a *device session*. A conversation is `direct` (two users) or
`group` (up to `MAX_GROUP_PARTICIPANTS`, with admins). Messages are sent through
HTTP and announced over WebSockets; each participant has a read pointer.

| Part | Code | State | Operations |
|---|---|---|---|
| Messages and read pointers | `apps/chat/services/message.py`, `apps/chat/services/participant.py` (`mark_conversation_as_read`) | `Message` rows, `Conversation.last_message`, `Participant.last_read_message` | `send_message`, `mark_conversation_as_read` |
| Conversations and membership | `apps/chat/services/conversation.py`, `apps/chat/services/participant.py` | `Conversation`, `Participant` (role) | create direct, create group, add, remove, leave |
| Chat socket | `apps/chat/consumers.py`, `apps/chat/middleware.py` | the socket, its channel groups | connect, disconnect, `seen`, typing, relays of the group's events |
| Chat page | `static/chat/js/chat.js`, `static/chat/js/socket.js`, `apps/chat/views/message.py`, `apps/chat/selectors/participant.py`, templates | the rows of the list and their ticks, the socket's timers | render, append, tick, emit `seen`, reconnect |
| Presence | `apps/accounts/services/presence.py`, `apps/accounts/consumers.py`, `apps/accounts/management/commands/presence_reaper.py` | a Redis set of connections per user, a heartbeat key per connection, `User.is_online` | register, refresh, unregister, reap |
| Device sessions | `apps/accounts/services/authentication.py`, `apps/accounts/api/v1/serializers/authentication.py`, the views over them | `DeviceSession`, refresh tokens, their blacklist, Django sessions | login, refresh, revoke one, revoke all, change and reset the password |
| Message validation | `apps/chat/services/message.py` (`validate_*`), `apps/chat/api/v1/serializers/message.py` | none | validate a payload |
| Password reset codes | `apps/accounts/services/otp.py`, its serializers and views | one cache entry per user | request, verify, set the password |
| Typing indicators | `static/chat/js/chat.js`, `static/chat/js/socket.js`, `static/chat/js/presence.js`, `apps/chat/consumers.py` | `isTyping` and its timer on the page that types, the status line on the page that reads; nothing on the server | start, stop, relay, show |
| Profiles, registration, listing | `apps/accounts/services/profile.py`, serializers, views, selectors | `User` rows | create, update, list |

How they interact: services run in worker threads inside PostgreSQL
transactions at READ COMMITTED. What they tell others goes out through
`transaction.on_commit` as `group_send`s to a channel group: one group per
conversation (messages, receipts), per user (conversation updates, presence)
and per device session (revocation). Consumers are coroutines; each handles one
frame or event at a time, and `connect` before anything else. Redis commands
and database calls are awaited one by one, so everything below interleaves.

What makes each part correct:

- *Messages*: `last_message` is the newest one; nothing is announced that was
  not committed, and what was committed is; a message never becomes visible
  behind a read pointer; pointers move forward.
- *Membership*: a group keeps an admin; the cap holds; one direct conversation
  per pair; updates are sent for what was committed.
- *Presence*: whoever has no connection is shown offline in the end; whoever
  has one is shown online; nothing is left in Redis.
- *Device sessions*: one live refresh token per session, none after a revoke;
  a revoke-all covers what was there; a revoked session's sockets are closed.
- *Page*: rows are not lost, not repeated, and a tick means somebody read it.
- *Reset codes*: only the last code works, at most once, for a few attempts, and
  sets at most one password.
- *Typing*: whoever is shown as typing is, and the line goes back when they stop.

## What is hard

The hazards are listed with their lines in `PROJECT.json`. The groups:

- **Check, then act, without a lock.** `mark_conversation_as_read` compares with
  a copy of the row; `add_participant` counts and inserts; removals count the
  other admins and delete; `create_direct_conversation` looks and creates;
  `register_connection` adds and counts; `verify_otp` reads a cache
  entry and writes it back; the middleware resolves a session that
  `connect` joins the group of later. In each the question is what exactly a
  race can do, and what it cannot.
- **Locks.** `send_message`, a refresh and the revokes take row locks. Is
  what they protect protected, and is a lock ever kept by somebody who failed
  or by two who wait for each other?
- **Crashes between two steps.** Work left to `on_commit` is lost; presence
  keys stay behind until the reaper finds them.
- **Lost frames.** A `typing.stop` that meets a closed socket is never repeated;
  what is broadcast to a page that is away is gone.
- **Order.** `created_at` is taken before the commit; broadcasts go out after
  the locks are free, in any order; a page renders, then joins; the consumer of
  a broken connection still relays what it has received while the page has
  reconnected through another one.
- **Half an end.** A handler that raises ends its consumer without `disconnect`:
  the heartbeat task of a presence socket goes on, and a removed user's chat
  socket ends only when a save finds no row.
- **Liveness.** Commits are announced, locks granted, dead connections reaped,
  sockets closed, `seen`s recorded.

## The modules

Every module names the service or handler a definition stands for; the lines
are in `PROJECT.json` under `map`. One action is one statement of the code
that reads or writes shared state (a query, a Redis command, a `group_send`),
guarded by the conditions and early returns that lead to it.

| Module | Models | State and its counterpart |
|---|---|---|
| `Messaging` | `send_message` and `mark_conversation_as_read` in one conversation | `row`, `pointer`: `Participant`; `committed`, `clock`, `last`: messages by `created_at`, `Conversation.last_message`; `lock`: the row lock; `pc`, `user`, `msg`, `loaded`, `todo`: local variables of a call; `wire`: the conversation's channel group |
| `MessageLog` | what those two services promise: an abstract log with an outbox | `committed`, `pointer`, `outbox` (announcements owed), `wire` |
| `Membership` | the five membership services over several conversations | `created`, `kind`, `row`, `admins`: tables; `pk`, `loadedRole`, `rivals`: what a removal loaded and counted; `todo`, `told`: conversation updates |
| `Presence` | `register_connection`, `refresh_connection`, `unregister_connection`, `reap_stale_connections`, the consumer around them | `conns`, `beats`: Redis; `online`: `is_online`; `announced`: the last broadcast; `silent`: sockets whose heartbeat task died; `pc`: where a consumer is, `raised` when an exception has ended it and its heartbeat task lives; `reaper`, `keys`, `members`, `stale`: a sweep |
| `DeviceSessions` | logins, refresh, revoke, revoke-all, password change and reset, sockets of a session | `status`, `auth`, `jti`: `DeviceSession`; `issued`, `outstanding`, `blacklisted`: simplejwt's tables; `cookies`: `django_session`; `lock`; `socket`, `group`, `mail`: the channel layer |
| `LiveChat` | pages of one conversation with their consumers, over `MessageLog` | `rows`, `listed`, `visible`: the DOM; `socket`, `cursor`, `inbox`: a connection; `task`: its consumer's `mark_conversation_as_read`, at the load, the save or the receipt; `mark`: the watermark the view read; `row`, `removals`: `Participant` |
| `MessagePayload` | `validate_message_payload` and `SendMessageSerializer` | `payload` as posted, its text and the whitespace around it; `message` as stored |
| `Otp` | `create_otp` and `verify_otp`, one cache command per action, from the two views of the reset by code | `entry`: the cache entry; `issued`: codes stored, which name them; `data`, `given`: local variables of `verify_otp` |
| `OneTimeCode` | what a reset by code promises while verifications do not overlap | `entry`, `accepted`, `resets`, `password` |
| `Typing` | the typing controller of each page, the frames, the consumers' relay, the reader's status line | `isTyping`; `socket`; `conn`: the number of a page's connection; `frames`: per connection, sent and not yet handled; `joined`, `inbox`: the reader's consumer and the events in its channel; `text`: `#chat-status-text` |
| `MessagingProofs`, `PresenceProofs`, `MembershipProofs`, `DeviceSessionsProofs`, `LiveChatProofs`, `MessagePayloadProofs`, `OtpProofs`, `TypingProofs` | theorems about the module in the name | |

Composition: `Messaging` implements `MessageLog` (property `ImplementsLog`, with
the outbox defined from the steps the requests are at), and `LiveChat` EXTENDS
`MessageLog`, so the pages are checked against what the services are shown to
promise and not against a better copy of them: in `LiveChat`, too, a stale save
moves a pointer back and a removal forgets it, and `PagesFollowLog` says that
all it does to the log is a behaviour of `MessageLog`. `Otp` implements
`OneTimeCode` (property `ImplementsCode`); what a reset then does to the sessions
is in `DeviceSessions`. `MCSending` puts `Messaging` and `MessagePayload` side by
side, and `MCAccounts` `Presence` and `Otp`: the two share no state, and a behaviour
takes the steps of one of them.

Choices that are not obvious from the code:

- A message is named by its `created_at`, a tick of a clock; two messages never
  share one because it is taken under the conversation's row lock.
- A participant who leaves and comes back gets a new primary key (`born`), so
  that an UPDATE or DELETE by a stale key misses the new row, as it does in the
  code.
- A request runs once and its arguments are chosen as it starts. A rejected
  call changes nothing and is a request that stops.
- `Fail` is both an exception and the death of the process: a rollback, locks
  freed, `on_commit` work lost.
- `Membership.Promote` is staff changing a role on the admin site; no service
  does.
- `DeviceSessions.Rotate` lets the new refresh token be recorded as outstanding
  or not, because that depends on the version of the library.
- In `LiveChat` the consumer of a page loads, saves and sends the receipt in
  separate steps, of which each may find the row changed or gone: no row at the
  load ends the call in silence, no row at the save raises and ends the consumer
  (`LoadRow`, `SaveRow`, `SaveRaises`). `ReadElsewhere` is the save of any other
  call for that user, another tab's or of a consumer whose connection has gone,
  whose copy may be stale: it sets the pointer to any committed message. An
  event of the outbox that is never broadcast stands for one that was lost.
- `Presence` has one assumption on time: a heartbeat that is refreshed every 20
  seconds does not expire within 45.
- An exception in `connect` or `disconnect` of `PresenceConsumer` is a `Crash`: the
  first comes before there is a heartbeat task, the second after it has been
  cancelled. An exception in any other handler is `HandlerRaises`: `disconnect`
  is not called, and the task keeps the entry until the process dies too.
- In `Otp` a code is named by the order of its `cache.set`; 0 is a wrong guess.
  Two codes that happen to be equal are left out, and so is the fallback for
  entries without a hash, which `create_otp` never stores.
- `Typing` has no clock: the timer that ends typing is armed exactly while
  `isTyping` holds, and may fire at any time then. When a connection breaks, the
  server has received any first part of its frames, which its consumer relays
  in its own time, before or after what the page sends on the next connection;
  the rest is lost. What the reader's consumer has not sent is lost with it.

Auxiliary variables, which no step reads: `orphans` (`Presence`), `covered`
(`DeviceSessions`), `listed` and `reached` (`LiveChat`: how far a pointer has ever
been), `accepted`, `resets` and `raced` (`Otp`), `lost` and `late` (`Typing`:
pages whose last stop did not arrive, or was overtaken by a start of an earlier
connection).

## The runs

`MC<Module>.tla` holds the constants, `MC<Module>_<run>.cfg` the rest.

| Run | Instance | Shows |
|---|---|---|
| `sending_main` | 2 users, 2 requests, no message or 2 at the start, 2 rows per user, fair; beside it every extension with every MIME type of the tables, and texts (with whitespace around them) and files at their limits, by both transports | `last_message` is the newest; nothing uncommitted leaks; no message behind a pointer; a pointer goes back only by a stale save, and changes only by a request that loaded that very row; `MessageLog` is implemented; commits are announced to the group and each recipient; the lock is granted also after failures. The API rejects nothing the service would store; a message is a text or a file within the limits, and a file fits no other kind than its own or the general one |
| `messaging_pointer` | 2 requests | **violated**: the pointer moves backward |
| `membership_safety` | 3 users, 3 requests, cap 2, 2 conversations, 1 promotion | overshoot of the cap is bounded; a group keeps its admin while no role changes; duplicates of a direct conversation take a race; only committed memberships are announced; a late removal spares a new row |
| `membership_cap` | 3 users, 2 requests, cap 2, 1 conversation | **violated**: two adds count before either inserts |
| `membership_admin` | 2 users, 2 requests, 1 conversation, 1 role change, while no call is in flight | **violated**: two admins go at once, and the last one goes too |
| `accounts_main` | 1 user with 2 tabs, 1 restart of the reaper, fair; beside it 4 requests, 2 codes, 2 attempts | no ghost online, no trace after a clean close, the reaper takes only what may be stale, entries nobody refreshes go away, users without any go offline. No code is counted past the limit; an entry without failures is the newest code and unused; `OneTimeCode` is implemented until verifications overlap |
| `presence_online` | 2 tabs, no restart | **violated**: both tabs connected, user offline |
| `sessions_main` | 2 sessions, 2 requests, 3 tokens per session, 1 socket, fair | one live token, no credential on a revoked session, no token issued after a revoke, revoke-all covers what it selected; locks are granted (revoke-alls that wait for each other included), a socket in its group is closed |
| `sessions_sockets` | 1 session, 2 requests, 1 socket, fair | **violated**: a socket accepted after the broadcast stays open |
| `livechat_main` | 2 users, 1 page, 2 messages (one each), at most 2 mishaps: 1 drop, 1 marking elsewhere, 1 removed row, 1 hidden page; fair | a row repeats only across the first join, ticks are earned, what is broadcast to a member of the group is shown, `seen`s are recorded unless the user is removed |
| `livechat_seen` | the same without a drop | **violated**: a receipt for a message that is not one's own ticks nothing |
| `typing_main` | 2 pages of 2 users (whose pages they are is open), 2 starts, 2 connections that break, fair | nobody is shown as typing without a reason; it ends unless a stop was lost or overtaken |

Why the bounds are enough to be interesting: each race of this code is one of
two calls around a third thing (a commit, a row that changes, a failure).
`membership_safety` has a third request as a bystander; `sending_main` and
`sessions_main` have two, so that safety and liveness fit one run: what more of
them could do to the safety properties is settled by the proofs, which hold for
any number. That matters most for `NoMessageBehindPointer`, whose full case, two
overlapping sends and a read between their commits, takes three requests: the run
shows it for a read that runs beside one send, the theorem `NewMessagesAreUnread`
for the rest. Two rows per user allow the remove-and-return that stale keys
need; two messages at the start give a pointer two places to go back to. A cap
of 2 with three users is reached and exceeded. Two sessions are what two
revoke-alls need to lock each other out, and three tokens allow two rotations.

In `livechat_main` any two of the mishaps meet: a drop and a reconnection, a stale
save of another tab under a consumer that has loaded, a removal between that
load and the save, a page hidden over any of them. Each is one because
reconnections, removals and returns do not depend on each other. In the codes'
part of `accounts_main` two attempts are one failure before the last; four
requests are a code, another, and two verifications around them, or a code and
three verifications of it. In `typing_main` two pages can be both of the same
user, or one of them the reader's own; the second start meets what the first has
left, also on a connection that has gone, and the second broken connection can be
the reader's. The caps on counters are the constants named `Max...`, described
where they are declared.

`MCMessaging!FirstOfFirst`, `MCDeviceSessions!SocketOfOne` and
`MCLiveChat!OneMessageEach` restrict the initial states only
(`InitFirstOfFirst`, `InitSocketOfOne`, `InitOneMessageEach`): the first request
is of the first user, which loses nothing because users are alike, and there is no
message or two; the first session is logged in, by token or cookie, and owns the
socket, while the second is of the API and may be logged in; the page's user
writes the first message and the other answers. `MCSending!Sending` starts from
`InitFirstOfFirst`, too, and posts payloads in one of its states only, because
they read nothing of the conversation; `MCAccounts!Accounts` numbers the requests
of `Otp` in the order in which they start. `MCMembership!CalmPromotions` restricts
the one action that is not a service's: roles change while no call is in flight,
so that what `membership_admin` finds is a race of the services alone.

Requests run once, pages and sockets may stay closed for good, and so a state
without successors is a legitimate end: deadlock checking is off, and what must
not get stuck is stated as a liveness property instead. Runs with symmetry
check safety only.

## Fairness

- `Messaging`, `DeviceSessions`: weak fairness of a request *that has started*:
  its thread is scheduled, and the database grants a row lock in the order of
  the queue. Whether a request is made is left open, and `Fail` is never fair:
  it can happen anywhere and need not.
- `Presence`: handlers that have started run on, Redis drops a key nobody
  refreshes, and the reaper's loop keeps going (it is a command under a
  supervisor: a bounded number of failures restarts it). Nobody has to connect,
  disconnect or refresh.
- `LiveChat`: a consumer runs its handlers and the timer of a closed socket
  fires; and `Relay` is strongly fair, because the dispatcher awaits the channel
  layer and the socket at the same time and a steady stream of `seen` frames
  does not starve the group's events. Nobody has to send or to open anything.
- `Typing`: a consumer handles its frames, those of a connection that has gone
  included, and the reader's page its events, both weakly fair. Nobody has to
  type, to stop or to reconnect, and presence updates need not come. `Otp` has
  no liveness property: a code may go unused.

## The proofs

The theorems hold for any users, requests, channels and bounds, under the named
assumptions of the modules: a free lock is not a request; the bounds, the limits
and the sizes of attachments are natural numbers; each channel and each page has
an owner; a page is neither a message nor a user, as names of callers go; somebody
is the reader of `Typing`, and a user is not called like a status; for
`Membership` also that users and requests are finite and the cap is positive.
Nothing else is assumed.

**Messaging.** `TypeCorrect`, `LastMessageCorrect`, `VisibilityCorrect`,
`NewMessagesAreUnread`, `MonotonicUpToRaces`, `NewRowsKeepTheirPointer`. None of
the first four safety properties is inductive: that the message about to commit
is newer than all others rests on who holds the lock. The invariant says:
exactly the requests between `create` and `commit` hold the lock, so at most one
is there; a message made under it is the youngest of all, equal to the clock,
and not committed; every other number a request carries, a pointer or an event
is a committed message. From it `Commit` makes the newest message, pointers and
events stay within `committed`, and whatever commits exceeds every pointer.
`MonotonicUpToRaces` needs besides that a request about to save has a message
beyond the pointer it loaded; `NewRowsKeepTheirPointer` (`SaveSparesNewRow`)
follows step by step from the keys of the rows. `MessagesAreAnnouncedOnce`: no
interleaving and no failure broadcasts a message to the group twice. A message a
request still owes is its own, and is not on the wire; the one about to commit
is newer than all that could be there.

**Messaging implements MessageLog.** `LogImplemented`. The outbox of the log is
not a variable of the code: it is the announcements a request still owes, each
under the name of that request, read off the step it is at and its local
variables. A step up to the commit changes no part of the log and is a stutter;
`Commit` and `Save` are the log's own steps and fill the outbox; a `group_send`
moves one entry to the wire, and a failure drops what is left. That `Commit`
is a step of the log, which only takes a message newer than all it has, is the
invariant above.

**Presence.** `TypeCorrect`, `NoGhosts`, `CleanClose`. `NoGhostOnline` is
strengthened by what each step knows: a consumer between `markOn` and `pushOn`
counts as attending its user; a consumer or reaper that has written `is_online =
FALSE` and not yet broadcast attends the announcement only; whoever finds the
set empty and dies makes the user an orphan. `CleanClose` rests on the entries
of `beats`: only a socket that is registering or whose heartbeat task lives
writes its key, and its name is never used again. `StaleForAReason`
(`StaleOnlyWithReason`), an action property of the sweep, rests on the converse
(`HealthyBeat`): a socket that is open, ended by an exception, or registering
and past its `SET`, has its key or has lost its heartbeat task; and on every
member the sweep has read having connected once (`MembersConnected`).

**Membership.** `TypeCorrect`, each of the safety properties `membership_safety`
checks, and how far the two refuted claims fail. Steps fall into kinds
(`StepKinds`): reads, the commit of a new conversation, an added row, a
deletion, a promotion; lemmas say what each kind does to the rows. The layer all
proofs share, `Shape`, is that nothing is in a conversation before it is
created, that primary keys are given out in order, that an add works on a group
and a removal on a row that was there. On top of it:

- `CapOvershootIsBounded` (`OvershootBounded`) is inductive by counting: an add
  that passes the check finds a free seat, so the overshoot is at most the calls
  that passed with it; its commit turns a pending add into a member.
- `GroupsKeepAnAdmin` (`GroupKeepsAdmin`) needs that, without promotions, a
  group has exactly one admin, that a removal which counts admins is about this
  one, and finds no other, and that a removal which deletes is not.
- `LastAdminNeedsARace` (`LastAdminLostOnlyByRace`), what is left of the claim
  `membership_admin` refutes: a request about to delete has counted a rival or
  loaded a member's row. It is a theorem only.
- `OnlyCommitsAreTold` (`ToldOfCommitted`) needs the same of what is still to be
  sent, and that no row is unmade.
- `DuplicatesNeedARace` and `NewRowsAreSpared` need nothing besides `Shape`.

**DeviceSessions.** `TypeCorrect`, `OneTokenLives`, `NoneAfterRevoke`,
`RevokeTakesCredentials`, `RevokeAllIsComplete`: all the safety properties of the
run; `HoldersAreRunning` and `RevocationsReachSockets`: what its liveness
properties rest on. The layer below (`Base`): a request between its
`select_for_update` and its commit holds the rows it works on, and they are
active (`RowLocks`); one that has not come to a revoke holds none; what a
request has looked up was there; and a row knows the token issued last for it
(`RowKnowsToken`). So a row that exists changes under its lock only. The
steps that change no row fall into kinds (`Moves`, `Locks`, `Ends`), and only
`CreateSession`, `Rotate` and `CommitRevoke` are left to look at. On top of it:

- `OneTokenLives` needs that a request about to rotate holds a token that is
  still live (`RotatesLive`), which is what `Reverify` asks under the lock.
- `NoneAfterRevoke` and `RevokeTakesCredentials`: the row of a revoked session
  never changes again (`RevokedRowIsFinal`), and the commit of a revoke blacklists
  the token the row has at that time.
- `RevokeAllIsComplete`: what a revoke-all has selected is still to be locked,
  held by it, or revoked (`Covering`).
- `HoldersAreRunning` (`HoldersRun`): who holds a row is a revoke-all, or a request
  that has got its only row and waits for nothing. No request that ended keeps a
  lock, and only revoke-alls can wait in a circle (`InCircle`, which the
  database breaks): the safety half of `LocksAreGranted`.
- `RevocationsReachSockets` (`RevocationIsKept`): a socket in the group of a session
  whose revocation is about to be broadcast is told, and keeps the message until it
  closes, accepted or not, unless the broadcasting process dies: the safety half
  of `MembersAreClosed`.

**Otp.** `TypeCorrect`, `FreshCodes`, `CodeImplemented`. `OtpTypeOK` says that no
entry is counted past `MAX_ATTEMPTS`, which rests on what a request has read
(`HasRead`): whoever writes a count back has seen one below the limit. A write
after a failure has a count of at least 1, so that only `create_otp` makes an
entry without one (`FreshIsNewest`). The refinement needs what holds while no
verification has overlapped a change (`Orderly`): the entry is the newest code
and unused, and each code accepted and not yet used for a password belongs to
one request; each cache command is then a step of `OneTimeCode`, and the others
stutter. `OneResetPerCode` counts: no password is set without an accepted code,
and while `Orderly` holds as many are set as codes were used.

**LiveChat.** `TypeCorrect`; `RowsAreRepeatedOnce` (`TwiceOnlyIfListed`) and
`TicksAreEarned` (`SeenIsEarned`), the safety properties of the run; and what is
safe in its liveness properties. The invariant goes from the log to the page. Of
the log: messages are committed as 1, 2, ..., (`Counted`), each is announced once
by the outbox and the wire together (`AnnouncedOnce`), and whoever a receipt is
about has been that far at some time (`ReceiptsAreTrue`), which makes the view's
watermark true as well (`WatermarkIsTrue`). Both are about `reached`, the furthest a
pointer has ever been: the pointer itself may be behind it by a stale save or
forgotten with its row. Of a page: its rendered rows are 1, 2, ...
(`RenderedFirst`), and each other row is of an event the page has passed, each of
its own (`AppendedOnce`); so a message shown twice was rendered and relayed. Of a
consumer: it marks messages as read while the socket is open only
(`WorksWhileOpen`).

- `PagesFollowLog`: what pages, consumers, other clients and removals do to the
  messages and the pointers is, step by step, a behaviour of `MessageLog`:
  pointers that go back by a stale save and those that are forgotten included.
- `GroupMissesNothing` (`NothingIsSkipped`): a message broadcast while a page is in
  the group waits for it until it is on the page or the socket closes, and no row
  is taken away: the safety half of `DeliveredWhileJoined`.
- `SeenIsNotForgotten` (`SeenIsKept`): a `seen` the server has received stays
  queued, or with the consumer until its save, until the user's pointer is that
  far, the socket closes or the user has no row: the safety half of
  `SeenIsRecorded`.
- `OwnReceiptsTickAll` (`TicksReachDown`): the part of the claim `livechat_seen`
  refutes that does hold. A receipt for a message of the page's own user which is
  on the page, with the rows in order, ticks the first row of that message and all
  the older ones of that user.
- `TicksAreKept` (`TicksStay`): no page takes a tick back.

**MessagePayload.** `TransportsShareRules` (`TransportsAgree`) and `StoredKinds`
(`MessageIsOneKind`), for any limits, texts and files, where the run has those at
the limits. The tables of the media name different extensions (`TablesAreDisjoint`),
so a file that is valid as one medium is valid as no other, and what is stored has
passed the rules of its type. The serializer's own conditions follow from those
of the service, kind by kind.

**Typing.** `TypeCorrect` and `NoFalseTyping`. The line may be put on by any start
that is under way, so the invariant (`StartsEnd`) says of them all what the property
says of the line. Behind each start on a page's present connection there is a
stop, or the page still types, or a stop was lost (`FramesEnd`): frames of one
connection keep their order. Behind each start in the reader's channel there is
one too, or a stop is still under way on any connection, or the start came late
(`InboxEnds`): a start of an earlier connection may be relayed after the stop of
the present one, and `late` is set by exactly that step. Nothing has been sent on
connections to come (`Ahead`). Every action is checked against its own page only
(`PageSteps`).

Left to TLC: liveness and everything that needs ENABLED, which the prover does
not do (`CommittedIsBroadcast`, `RequestsTerminate`, `DeadAreReaped`,
`CrashedGoOffline`, `LocksAreGranted`, `MembersAreClosed`, `DeliveredWhileJoined`,
`SeenIsRecorded`, `TypingEnds`), and the six runs that refute something. Every
invariant, action property and refinement of a passing run is a theorem.
Facts by induction over data are out of the prover's reach and not needed:
nothing here is recursive.

## What the checks found

Each is a run that is expected to fail, with the sentence of the repository it
contradicts in `PROJECT.json` under `findings`.

1. `messaging_pointer`. Two overlapping calls of `mark_conversation_as_read` for
   one user (two tabs, or `connect` and a `seen`): the one that loaded first
   saves last, over a newer pointer. `BackwardOnlyWhenStale` shows that this is
   the only way.
2. `membership_cap`. "Enforced in create_group_conversation and add_participant",
   says the comment at the constant. Two overlapping `add_participant` calls
   count before either inserts. `OvershootBounded` shows how far it goes: by less
   than the number of calls in flight.
3. `membership_admin`. The docstrings of `remove_participant` and
   `leave_conversation` refuse an admin who is the only one remaining. After staff
   have made a second admin, both can go at once, each having counted the other. A
   role that changes between the load and the deletion does the same.
   `LastAdminNeedsARace` shows that nothing else does, and `GroupKeepsAdmin` that
   it takes a change of roles.
4. `presence_online`. Two tabs connect together: both `SADD`s come before both
   `SCARD`s, both see 2, nobody sets `is_online`.
5. `sessions_sockets`. A session is revoked after the middleware has resolved it
   and before `connect` has joined its group: nothing closes the socket.
   `MembersAreClosed` shows that joining is enough, accepted or not.
6. `livechat_seen`. `markMessagesAsSeen` looks for the receipt's message among
   the page's own rows. When it is the reader's own answer, no tick changes,
   although everything above it was read; the server's watermark would tick it.
   `OwnReceiptsTickAll` says what does work.

The models also pin down races that the code has and nothing in the repository
denies; they are allowed by the properties, which say how far they go:

- two people can start a direct conversation with each other at once and get
  two (`DuplicateDirectOnlyByRace`; the docstring says so);
- `leave_conversation` and `remove_participant` work on direct conversations
  too, as far as their roles allow;
- a sweep between `SADD` and `SET` of a connecting socket, or after its
  heartbeat task has died, removes a live connection (`StaleOnlyWithReason`);
- a presence consumer that an exception has ended leaves its heartbeat task
  running: the entry is never stale and the user stays online while the process
  lives (`raised`, `DeadAreReaped`);
- a process that dies after the set has become empty leaves the user online
  for good (`orphans` in `NoGhostOnline`);
- a login that has checked the old password survives a password change made
  meanwhile (`RevokeAllCovers` covers what was selected);
- a removed participant's socket stays open: what it marks as read is dropped
  in silence, or, if the removal comes between the load and the save, ends the
  consumer (`SeenIsRecorded`);
- a tick stays on the page when the pointer that earned it moves back or goes
  with its row, and is not there after the page is rendered again (`reached` in
  `SeenIsEarned`);
- messages that are broadcast between rendering and joining, or while a socket
  is down, never appear on the page, although `connect` marks them as read;
- rows are appended in the order of the broadcasts, so a tick can reach a row
  that is above an older one (`OutOfOrder` in `SeenIsEarned`);
- every request for a reset code ends in an exception: the view hands
  `send_otp_email` the address instead of the account, whose `.email` it reads, in
  the `try` and in its `except` (`Mail`); the code has been stored by then. An
  unknown account raises earlier, on `user.id`, although the serializer has
  "Always return success, even if user doesn't exist (security)." (`Request`);
- overlapping verifications of one code may all be accepted, lose each other's
  counts, or bring an old, a used or an expired code back, with its failures
  counted (`raced` in `ImplementsCode`, `FreshIsNewest`); each failure arms the ten
  minutes again;
- a code is burnt before the two passwords are compared, so a mismatch, or a
  failure of the save, takes a new code (`ComparePasswords`);
- `presence.js` says "Do NOT overwrite typing text.", but asks for
  `dataset.typing`, which nothing sets: it does (`ShowPresence`). A `typing.stop`
  writes "online" whatever the presence is (`Shown`), and a page that is closed
  while it types leaves "is typing" behind until something is written over it
  (`lost` in `TypingIsTrue`);
- a `typing.start` the consumer of a broken connection relays after the
  `typing.stop` of the next one leaves "is typing" behind in the same way, with
  nothing lost (`late`).

## What is not modelled

- The throttling of reset codes; `send_otp_sms`, which does nothing.
- Presence page and conversation list: they redraw from events whose emission
  is modelled.
- Expiry of access tokens and refresh tokens by time; the delays of reconnection.
- Profiles, registration, listing, pagination, error formats, forms, styles,
  settings, migrations: no concurrent state of their own.
- Framework internals (Django's ORM, Channels, simplejwt, libmagic, Pillow,
  Redis, PostgreSQL): modelled as the code uses them.

## Plan

In the order of their weight; 1 to 9 are done, with their runs.

1. `Messaging` and `Presence`, with their proofs.
2. `Membership`, with its proofs: races of unlocked checks.
3. `DeviceSessions`, with its proofs: rotation, revocation, locks, sockets.
4. `MessageLog` as the abstract specification of `Messaging`, with the proof of
   the refinement; `LiveChat` on top of it; `MessagePayload`.
5. `Otp` against `OneTimeCode`, with its proofs.
6. `Typing`, with its proofs.
7. Fewer, wider runs: safety and liveness of a module in one.
8. Proofs about `LiveChat` and `MessagePayload`, the sweep of `Presence`, and the
   safety halves of liveness properties in `DeviceSessions` and `LiveChat`.
9. Ends without a `disconnect` (`Presence`), stale saves and removals under the
   pages (`LiveChat`), two connections of one page at once (`Typing`), with their proofs
   again; runs that refute the claims about the cap and the last admin.
10. Still to do: the safety halves of `CommittedIsBroadcast` (what a commit owes
   stays owed until it is sent or the process dies), `DeadAreReaped` and
   `TypingEnds`.
