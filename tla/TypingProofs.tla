------------------------------ MODULE TypingProofs ------------------------------
(***************************************************************************)
(* Typing for any pages and users and any number of starts and drops: no   *)
(* "is typing" is left on the page but by a typing.stop that was lost, or  *)
(* overtaken by a start of an earlier connection.                          *)
(***************************************************************************)
EXTENDS Typing, SequenceTheorems, TLAPS

Events == [page : Pages, start : BOOLEAN]

(* the frames of p's connection *)
Current(p) == frames[p][conn[p]]

LEMMA InitTypes == Init => TypeOK
  BY BoundsAssumption DEF Init, TypeOK, Connections

LEMMA CurrentTypes ==
  ASSUME TypeOK, NEW p \in Pages
  PROVE  conn[p] \in Connections /\ Current(p) \in Seq(BOOLEAN)
  BY DEF TypeOK, Current

LEMMA EmitTypes ==
  ASSUME TypeOK, NEW p \in Pages, NEW b \in BOOLEAN, Emit(p, b)
  PROVE  frames' \in [Pages -> [Connections -> Seq(BOOLEAN)]]
  <1>1. Append(Current(p), b) \in Seq(BOOLEAN)
    BY CurrentTypes
  <1>2. frames' = [frames EXCEPT ![p][conn[p]] = Append(Current(p), b)] \/ frames' = frames
    BY DEF Emit, Current
  <1>3. frames \in [Pages -> [Connections -> Seq(BOOLEAN)]]
    BY DEF TypeOK
  <1>4. frames[p] \in [Connections -> Seq(BOOLEAN)]
    BY <1>3
  <1>5. [frames[p] EXCEPT ![conn[p]] = Append(Current(p), b)] \in [Connections -> Seq(BOOLEAN)]
    BY <1>1, <1>4
  <1> QED
    BY <1>2, <1>3, <1>5

(* What the server has received, and what it has not, are frames. *)
LEMMA ReceivedTypes ==
  ASSUME TypeOK, NEW p \in Pages, NEW k \in 0 .. Len(Current(p))
  PROVE  /\ Received(p, k) \in Seq(BOOLEAN) /\ Len(Received(p, k)) = k
         /\ \A i \in 1 .. k : Received(p, k)[i] = Current(p)[i]
         /\ \A i \in DOMAIN Current(p) :
              k < i => /\ i - k \in DOMAIN Missed(p, k)
                       /\ Missed(p, k)[i - k] = Current(p)[i]
  <1>1. Current(p) \in Seq(BOOLEAN)
    BY CurrentTypes
  <1>2. /\ Received(p, k) \in Seq(BOOLEAN) /\ Len(Received(p, k)) = k
        /\ \A i \in 1 .. k : Received(p, k)[i] = Current(p)[i]
    <2>1. Received(p, k) = SubSeq(Current(p), 1, k)
      BY DEF Received, Current
    <2> QED
      BY <1>1, <2>1
  <1>3. ASSUME NEW i \in DOMAIN Current(p), k < i
        PROVE  /\ i - k \in DOMAIN Missed(p, k)
               /\ Missed(p, k)[i - k] = Current(p)[i]
    <2>1. Missed(p, k) = SubSeq(Current(p), k + 1, Len(Current(p)))
      BY DEF Missed, Current
    <2>2. i \in 1 .. Len(Current(p)) /\ k \in Nat /\ Len(Current(p)) \in Nat
      BY <1>1
    <2>3. Len(Missed(p, k)) = Len(Current(p)) - k
      BY <1>1, <2>1, <2>2
    <2>4. i - k \in 1 .. Len(Current(p)) - k
      BY <1>3, <2>2
    <2>5. Missed(p, k)[i - k] = Current(p)[k + 1 + (i - k) - 1]
      BY <1>1, <2>1, <2>2, <2>3, <2>4
    <2> QED
      BY <1>1, <2>1, <2>2, <2>3, <2>4, <2>5
  <1> QED
    BY <1>2, <1>3

(* What a connection that breaks, or whose page is left, changes *)
Breaks(p, k) ==
    /\ k \in 0 .. Len(Current(p))
    /\ frames' = [frames EXCEPT ![p][conn[p]] = Received(p, k)]
    /\ lost \subseteq lost' /\ lost' \subseteq lost \union {p}
    /\ StopIn(Missed(p, k)) => p \in lost'
    /\ isTyping[p] /\ ~isTyping'[p] => p \in lost'

LEMMA BreaksTypes ==
  ASSUME TypeOK, NEW p \in Pages, NEW k, Breaks(p, k)
  PROVE  frames' \in [Pages -> [Connections -> Seq(BOOLEAN)]] /\ lost' \in SUBSET Pages
  <1>1. Received(p, k) \in Seq(BOOLEAN)
    BY ReceivedTypes DEF Breaks
  <1> QED
    BY <1>1 DEF Breaks, TypeOK

LEMMA DropBreaks ==
  ASSUME TypeOK, NEW p \in Pages, Drop(p) \/ Leave(p)
  PROVE  \E k \in Nat : Breaks(p, k)
  <1>1. Current(p) \in Seq(BOOLEAN)
    BY CurrentTypes
  <1>2. CASE Drop(p)
    <2>1. PICK k \in 0 .. Len(Current(p)) :
            /\ frames' = [frames EXCEPT ![p][conn[p]] = Received(p, k)]
            /\ lost' = IF StopIn(Missed(p, k)) THEN lost \union {p} ELSE lost
      BY <1>2 DEF Drop, Current
    <2>2. isTyping' = isTyping
      BY <1>2 DEF Drop
    <2>3. k \in Nat
      BY <1>1
    <2> QED
      BY <2>1, <2>2, <2>3 DEF Breaks
  <1>3. CASE Leave(p)
    <2>1. PICK k \in 0 .. Len(Current(p)) :
            /\ frames' = [frames EXCEPT ![p][conn[p]] = Received(p, k)]
            /\ lost' = IF isTyping[p] \/ StopIn(Missed(p, k)) THEN lost \union {p} ELSE lost
      BY <1>3 DEF Leave, Current
    <2>3. k \in Nat
      BY <1>1
    <2> QED
      BY <2>1, <2>3 DEF Breaks
  <1> QED
    BY <1>2, <1>3

LEMMA RelayTypes ==
  ASSUME TypeOK, NEW p \in Pages, NEW n \in Connections, Relay(p, n)
  PROVE  TypeOK'
  <1> DEFINE f == frames[p][n]
             e == [page |-> p, start |-> Head(f)]
  <1>1. f \in Seq(BOOLEAN) /\ f # <<>>
    BY DEF Relay, TypeOK
  <1>2. Tail(f) \in Seq(BOOLEAN) /\ Head(f) \in BOOLEAN
    BY <1>1, HeadTailProperties
  <1>3. frames' \in [Pages -> [Connections -> Seq(BOOLEAN)]]
    <2>1. frames' = [frames EXCEPT ![p][n] = Tail(f)]
      BY DEF Relay
    <2> QED
      BY <1>2, <2>1 DEF TypeOK
  <1>4. inbox' \in Seq(Events) /\ lost' \in SUBSET Pages /\ late' \in SUBSET Pages
    <2>1. inbox \in Seq(Events) /\ lost \in SUBSET Pages /\ late \in SUBSET Pages
      BY DEF TypeOK, Events
    <2>2. Append(inbox, e) \in Seq(Events)
      BY <1>2, <2>1 DEF Events
    <2>3. lost' \in SUBSET Pages /\ late' \in SUBSET Pages
      BY <2>1 DEF Relay
    <2>4. inbox' = inbox \/ inbox' = Append(inbox, e)
      BY DEF Relay
    <2> QED
      BY <2>1, <2>2, <2>3, <2>4
  <1> QED
    BY <1>3, <1>4 DEF Relay, TypeOK, Events

LEMMA NextTypes == TypeOK /\ [Next]_vars => TypeOK'
  <1> SUFFICES ASSUME TypeOK, [Next]_vars PROVE TypeOK'
    OBVIOUS
  <1> USE BoundsAssumption DEF pages, reader
  <1>1. ASSUME NEW p \in Pages, StartTyping(p) PROVE TypeOK'
    <2>1. frames' \in [Pages -> [Connections -> Seq(BOOLEAN)]]
      BY <1>1, EmitTypes DEF StartTyping
    <2>2. starts' \in 0 .. MaxStarts /\ isTyping' \in [Pages -> BOOLEAN]
      BY <1>1 DEF StartTyping, TypeOK
    <2>3. lost' \in SUBSET Pages /\ late' \in SUBSET Pages
      BY <1>1 DEF StartTyping, TypeOK
    <2> QED
      BY <1>1, <2>1, <2>2, <2>3 DEF StartTyping, TypeOK
  <1>2. ASSUME NEW p \in Pages, StopTyping(p) PROVE TypeOK'
    <2>1. frames' \in [Pages -> [Connections -> Seq(BOOLEAN)]]
      BY <1>2, EmitTypes DEF StopTyping
    <2>2. lost' \in SUBSET Pages /\ isTyping' \in [Pages -> BOOLEAN]
      BY <1>2 DEF StopTyping, TypeOK
    <2> QED
      BY <1>2, <2>1, <2>2 DEF StopTyping, TypeOK
  <1>3. ASSUME NEW p \in Pages, Drop(p) PROVE TypeOK'
    <2>1. frames' \in [Pages -> [Connections -> Seq(BOOLEAN)]] /\ lost' \in SUBSET Pages
      BY <1>3, DropBreaks, BreaksTypes
    <2>2. conn' = [conn EXCEPT ![p] = @ + 1] /\ drops' = drops + 1 /\ drops < MaxDrops
      BY <1>3 DEF Drop
    <2>3. drops' \in 0 .. MaxDrops
      BY <2>2 DEF TypeOK
    <2>4. ASSUME NEW q \in Pages PROVE conn'[q] \in Connections /\ conn'[q] <= drops'
      <3>1. conn[q] \in 0 .. MaxDrops /\ conn[q] <= drops /\ drops \in 0 .. MaxDrops
        BY DEF TypeOK, Connections
      <3>2. conn'[q] = conn[q] \/ conn'[q] = conn[q] + 1
        BY <2>2 DEF TypeOK
      <3> QED
        BY <2>2, <3>1, <3>2 DEF Connections
    <2>5. conn' \in [Pages -> Connections]
      BY <2>2, <2>4 DEF TypeOK
    <2> QED
      BY <1>3, <2>1, <2>3, <2>4, <2>5 DEF Drop, TypeOK
  <1>4. ASSUME NEW p \in Pages, Reconnect(p) \/ Leave(p) PROVE TypeOK'
    <2>1. CASE Reconnect(p)
      BY <2>1 DEF Reconnect, TypeOK
    <2>2. CASE Leave(p)
      <3>1. frames' \in [Pages -> [Connections -> Seq(BOOLEAN)]] /\ lost' \in SUBSET Pages
        BY <2>2, DropBreaks, BreaksTypes
      <3>2. /\ socket' \in [Pages -> {"open", "down", "gone"}]
            /\ isTyping' \in [Pages -> BOOLEAN]
        BY <2>2 DEF Leave, TypeOK
      <3> QED
        BY <2>2, <3>1, <3>2 DEF Leave, TypeOK
    <2> QED
      BY <1>4, <2>1, <2>2
  <1>5. ASSUME NEW p \in Pages, NEW n \in Connections, Relay(p, n) PROVE TypeOK'
    BY <1>5, RelayTypes
  <1>6. CASE DropReader \/ JoinReader
    <2>1. CASE DropReader
      <3>1. inbox' \in Seq(Events) /\ lost' \in SUBSET Pages
        BY <2>1 DEF DropReader, TypeOK
      <3>2. drops' \in 0 .. MaxDrops /\ \A p \in Pages : conn[p] <= drops'
        BY <2>1 DEF DropReader, TypeOK, Connections
      <3> QED
        BY <2>1, <3>1, <3>2 DEF DropReader, TypeOK, Events
    <2>2. CASE JoinReader
      BY <2>2 DEF JoinReader, TypeOK
    <2> QED
      BY <1>6, <2>1, <2>2
  <1>7. CASE ShowTyping
    <2>1. Tail(inbox) \in Seq(Events) /\ Head(inbox) \in Events
      <3>1. inbox \in Seq(Events) /\ inbox # <<>>
        BY <1>7 DEF ShowTyping, TypeOK, Events
      <3> QED
        BY <3>1, HeadTailProperties
    <2>2. text' \in Users \union {"online", "offline"}
      BY <1>7, <2>1 DEF ShowTyping, Shown, TypeOK, Events
    <2> QED
      BY <1>7, <2>1, <2>2 DEF ShowTyping, TypeOK, Events
  <1>8. CASE ShowPresence
    BY <1>8 DEF ShowPresence, TypeOK
  <1>9. CASE UNCHANGED vars
    BY <1>9 DEF vars, TypeOK
  <1> QED
    BY <1>1, <1>2, <1>3, <1>4, <1>5, <1>6, <1>7, <1>8, <1>9 DEF Next

(* Every variable keeps its type. *)
THEOREM TypeCorrect == Spec => []TypeOK
  BY InitTypes, NextTypes, PTL DEF Spec
------------------------------------------------------------------------------
(* The end of what p is typing is to come, or has been lost. *)
Ending(p) == isTyping[p] \/ p \in lost

(* Behind each start of p's connection there is a stop, or one is to come; *)
(* nothing is said of the starts of its earlier connections.               *)
FramesEnd(p) ==
    \A i \in DOMAIN Current(p) : Current(p)[i] =>
        Ending(p) \/ \E j \in DOMAIN Current(p) : i < j /\ ~Current(p)[j]

(* A start in the channel has a stop behind it, or to come, or is late. *)
InboxEnds(p) ==
    \A i \in DOMAIN inbox : inbox[i].page = p /\ inbox[i].start =>
        \/ Ending(p) \/ p \in late \/ Stops(p) # {}
        \/ \E j \in InInbox(p) : i < j

(* Nothing has been sent on the connections to come. *)
Ahead(p) == \A n \in Connections : conn[p] < n => frames[p][n] = <<>>

StartsEnd == \A p \in Pages : FramesEnd(p) /\ InboxEnds(p) /\ Ahead(p)

(* TypingIsTrue, in those words *)
Explained(p) == Ending(p) \/ p \in late \/ Stops(p) # {} \/ InInbox(p) # {}

LineIsTrue ==
    text \in Users => text # Me /\ \E p \in PagesOf(text) : Explained(p)

IInv == TypeOK /\ StartsEnd /\ LineIsTrue

(* A step of one page leaves the others' events alone. *)
LEMMA OthersKeep ==
  ASSUME TypeOK, NEW p \in Pages,
         StartTyping(p) \/ StopTyping(p) \/ Drop(p) \/ Reconnect(p) \/ Leave(p)
  PROVE  /\ UNCHANGED <<owner, inbox, text>>
         /\ \A q \in Pages : InInbox(q)' = InInbox(q)
         /\ \A q \in Pages \ {p} : /\ Current(q)' = Current(q) /\ Stops(q)' = Stops(q)
                                   /\ Ahead(q) => Ahead(q)'
                                   /\ Ending(q) <=> Ending(q)'
                                   /\ q \in late <=> q \in late'
  <1>1. UNCHANGED <<owner, inbox, text>>
    BY DEF StartTyping, StopTyping, Drop, Reconnect, Leave, reader
  <1>2. \A q \in Pages \ {p} : /\ frames'[q] = frames[q] /\ conn'[q] = conn[q]
                               /\ isTyping'[q] = isTyping[q]
                               /\ q \in lost <=> q \in lost'
                               /\ q \in late <=> q \in late'
    <2>1. CASE StartTyping(p) \/ StopTyping(p)
      BY <2>1 DEF StartTyping, StopTyping, Emit, TypeOK
    <2>2. CASE Drop(p) \/ Leave(p)
      <3>1. PICK k \in Nat : Breaks(p, k)
        BY <2>2, DropBreaks
      <3>2. \A q \in Pages \ {p} : frames'[q] = frames[q] /\ (q \in lost <=> q \in lost')
        BY <3>1 DEF Breaks, TypeOK
      <3>3. CASE Drop(p)
        BY <3>2, <3>3 DEF Drop, TypeOK
      <3>4. CASE Leave(p)
        BY <3>2, <3>4 DEF Leave, TypeOK
      <3> QED
        BY <2>2, <3>3, <3>4
    <2>3. CASE Reconnect(p)
      BY <2>3 DEF Reconnect
    <2> QED
      BY <2>1, <2>2, <2>3
  <1> QED
    BY <1>1, <1>2 DEF InInbox, Stops, Current, Ending, Ahead

(* So only what is explained by p itself has to be looked at. *)
LEMMA PageSteps ==
  ASSUME IInv, NEW p \in Pages,
         StartTyping(p) \/ StopTyping(p) \/ Drop(p) \/ Reconnect(p) \/ Leave(p),
         FramesEnd(p)', Ahead(p)',
         Ending(p) \/ p \in late \/ Stops(p) # {}
           => Ending(p)' \/ p \in late' \/ Stops(p)' # {}
  PROVE  StartsEnd' /\ LineIsTrue'
  <1>1. /\ UNCHANGED <<owner, inbox, text>>
        /\ \A q \in Pages : InInbox(q)' = InInbox(q)
        /\ \A q \in Pages \ {p} : /\ Current(q)' = Current(q) /\ Stops(q)' = Stops(q)
                                  /\ Ahead(q) => Ahead(q)'
                                  /\ Ending(q) <=> Ending(q)'
                                  /\ q \in late <=> q \in late'
    BY OthersKeep DEF IInv
  <1>2. \A q \in Pages \ {p} : FramesEnd(q)' /\ Ahead(q)'
    BY <1>1 DEF IInv, StartsEnd, FramesEnd
  <1>3. \A q \in Pages : InboxEnds(q)'
    BY <1>1 DEF IInv, StartsEnd, InboxEnds
  <1>4. \A q \in Pages : Explained(q) => Explained(q)'
    BY <1>1 DEF Explained
  <1>5. LineIsTrue'
    BY <1>1, <1>4 DEF IInv, LineIsTrue, PagesOf
  <1> QED
    BY <1>2, <1>3, <1>5 DEF StartsEnd

LEMMA TypingSteps ==
  ASSUME IInv, NEW p \in Pages, StartTyping(p) \/ StopTyping(p)
  PROVE  StartsEnd' /\ LineIsTrue'
  <1>f. Current(p) \in Seq(BOOLEAN) /\ conn[p] \in Connections
    BY CurrentTypes DEF IInv
  <1>a. Ahead(p)'
    <2>1. conn' = conn /\ \A n \in Connections \ {conn[p]} : frames'[p][n] = frames[p][n]
      <3>1. PICK b \in BOOLEAN : Emit(p, b) /\ conn' = conn
        BY DEF StartTyping, StopTyping
      <3> QED
        BY <1>f, <3>1 DEF Emit, IInv, TypeOK
    <2>2. \A n \in Connections : conn[p] < n => n # conn[p]
      BY <1>f DEF Connections
    <2> QED
      BY <2>1, <2>2 DEF IInv, StartsEnd, Ahead
  <1>1. CASE StartTyping(p)
    <2>1. Ending(p)'
      BY <1>1 DEF StartTyping, Ending, IInv, TypeOK
    <2> QED
      BY <1>1, <1>a, <2>1, PageSteps DEF FramesEnd
  <1>2. CASE StopTyping(p) /\ socket[p] = "open"
    <2>1. Current(p)' = Append(Current(p), FALSE)
      <3>1. /\ frames' = [frames EXCEPT ![p][conn[p]] = Append(Current(p), FALSE)]
            /\ conn' = conn
        BY <1>2 DEF StopTyping, Emit, Current
      <3> QED
        BY <1>f, <3>1 DEF Current, IInv, TypeOK
    <2>2. /\ Len(Current(p)) + 1 \in DOMAIN Current(p)' /\ ~Current(p)'[Len(Current(p)) + 1]
          /\ \A i \in DOMAIN Current(p)' : Current(p)'[i] => i < Len(Current(p)) + 1
      BY <1>f, <2>1
    <2>3. FramesEnd(p)'
      BY <2>2 DEF FramesEnd
    <2>4. Stops(p)' # {}
      <3>1. conn'[p] = conn[p]
        BY <1>2 DEF StopTyping
      <3> QED
        BY <1>f, <2>2, <3>1 DEF Stops, StopIn, Current
    <2> QED
      BY <1>2, <1>a, <2>3, <2>4, PageSteps
  <1>3. CASE StopTyping(p) /\ socket[p] # "open"
    <2>1. Ending(p)'
      BY <1>3 DEF StopTyping, Ending
    <2> QED
      BY <1>3, <1>a, <2>1, PageSteps DEF FramesEnd
  <1> QED
    BY <1>1, <1>2, <1>3

(* Cut off after its first frames, a connection keeps a stop behind each   *)
(* of their starts, or has lost one.                                       *)
LEMMA ReceivedEnd ==
  ASSUME IInv, NEW p \in Pages, NEW k \in Nat, Breaks(p, k), ~(p \in lost'),
         NEW i \in DOMAIN Received(p, k), Received(p, k)[i]
  PROVE  \/ isTyping[p]
         \/ \E j \in DOMAIN Received(p, k) : i < j /\ ~Received(p, k)[j]
  <1>1. /\ Received(p, k) \in Seq(BOOLEAN) /\ Len(Received(p, k)) = k
        /\ \A j \in 1 .. k : Received(p, k)[j] = Current(p)[j]
        /\ \A j \in DOMAIN Current(p) :
             k < j => /\ j - k \in DOMAIN Missed(p, k)
                      /\ Missed(p, k)[j - k] = Current(p)[j]
        /\ Current(p) \in Seq(BOOLEAN) /\ k <= Len(Current(p))
    BY ReceivedTypes, CurrentTypes DEF IInv, Breaks
  <1>2. i \in DOMAIN Current(p) /\ Current(p)[i] /\ i \in 1 .. k
    BY <1>1
  <1>3. isTyping[p] \/ \E j \in DOMAIN Current(p) : i < j /\ ~Current(p)[j]
    BY <1>2 DEF IInv, StartsEnd, FramesEnd, Ending, Breaks
  <1>4. ASSUME NEW j \in DOMAIN Current(p), i < j, ~Current(p)[j]
        PROVE  j \in DOMAIN Received(p, k) /\ ~Received(p, k)[j]
    <2>1. CASE k < j
      <3>1. j - k \in DOMAIN Missed(p, k) /\ Missed(p, k)[j - k] = Current(p)[j]
        BY <1>1, <2>1
      <3>2. StopIn(Missed(p, k))
        BY <1>4, <3>1 DEF StopIn
      <3> QED
        BY <3>2 DEF Breaks
    <2>2. CASE ~(k < j)
      BY <1>1, <1>4, <2>2
    <2> QED
      BY <2>1, <2>2
  <1> QED
    BY <1>3, <1>4

LEMMA StopsKept ==
  ASSUME IInv, NEW p \in Pages, NEW k \in Nat, Breaks(p, k)
  PROVE  Stops(p) # {} => p \in lost' \/ Stops(p)' # {}
  <1> SUFFICES ASSUME NEW n \in Stops(p), ~(p \in lost') PROVE n \in Stops(p)'
    OBVIOUS
  <1>1. n \in Connections /\ StopIn(frames[p][n]) /\ conn[p] \in Connections
    BY CurrentTypes DEF Stops, IInv
  <1>2. CASE n # conn[p]
    <2>1. frames'[p][n] = frames[p][n]
      BY <1>1, <1>2 DEF Breaks, IInv, TypeOK
    <2> QED
      BY <1>1, <2>1 DEF Stops
  <1>3. CASE n = conn[p]
    <2>1. frames'[p][n] = Received(p, k)
      BY <1>1, <1>3 DEF Breaks, IInv, TypeOK
    <2>2. PICK j \in DOMAIN Current(p) : ~Current(p)[j]
      BY <1>1, <1>3 DEF StopIn, Current
    <2>3. /\ Received(p, k) \in Seq(BOOLEAN) /\ Len(Received(p, k)) = k
          /\ \A i \in 1 .. k : Received(p, k)[i] = Current(p)[i]
          /\ Current(p) \in Seq(BOOLEAN) /\ k <= Len(Current(p))
      BY ReceivedTypes, CurrentTypes DEF IInv, Breaks
    <2>4. ~(k < j)
      <3>1. k < j => j - k \in DOMAIN Missed(p, k) /\ ~Missed(p, k)[j - k]
        <4>1. k < j => j - k \in DOMAIN Missed(p, k) /\ Missed(p, k)[j - k] = Current(p)[j]
          BY ReceivedTypes DEF IInv, Breaks
        <4> QED
          BY <2>2, <4>1
      <3>2. ~StopIn(Missed(p, k))
        BY DEF Breaks
      <3> QED
        BY <3>1, <3>2 DEF StopIn
    <2>5. j \in DOMAIN Received(p, k) /\ ~Received(p, k)[j]
      BY <2>2, <2>3, <2>4
    <2> QED
      BY <1>1, <2>1, <2>5 DEF Stops, StopIn
  <1> QED
    BY <1>2, <1>3

(* Nothing is sent on the connections to come when one breaks. *)
LEMMA AheadKept ==
  ASSUME IInv, NEW p \in Pages, NEW k \in Nat, Breaks(p, k),
         NEW n \in Connections, conn[p] < n
  PROVE  frames'[p][n] = <<>>
  <1>1. conn[p] \in Connections /\ n # conn[p]
    BY CurrentTypes DEF IInv, Connections
  <1>2. frames'[p][n] = frames[p][n]
    BY <1>1 DEF Breaks, IInv, TypeOK
  <1> QED
    BY <1>2 DEF IInv, StartsEnd, Ahead

LEMMA ConnectionSteps ==
  ASSUME IInv, NEW p \in Pages, Drop(p) \/ Reconnect(p) \/ Leave(p)
  PROVE  StartsEnd' /\ LineIsTrue'
  <1>1. CASE Drop(p)
    <2>1. PICK k \in Nat : Breaks(p, k)
      BY <1>1, DropBreaks DEF IInv
    <2>2. /\ isTyping' = isTyping /\ late' = late /\ conn' = [conn EXCEPT ![p] = @ + 1]
      BY <1>1 DEF Drop
    <2>a. conn'[p] = conn[p] + 1 /\ conn[p] \in Nat /\ conn[p] + 1 \in Connections
      BY <1>1, <2>2, BoundsAssumption DEF Drop, IInv, TypeOK, Connections
    <2>h. Ahead(p)'
      <3>1. \A n \in Connections : conn[p] + 1 < n => conn[p] < n
        BY <2>a DEF Connections
      <3> QED
        BY <2>1, <2>a, <3>1, AheadKept DEF Ahead
    <2>3. FramesEnd(p)'
      <3>1. Current(p)' = <<>>
        <4>1. conn[p] < conn[p] + 1
          BY <2>a
        <4> QED
          BY <2>1, <2>a, <4>1, AheadKept DEF Current
      <3> QED
        BY <3>1 DEF FramesEnd
    <2>4. Ending(p) \/ p \in late \/ Stops(p) # {} => Ending(p)' \/ p \in late' \/ Stops(p)' # {}
      BY <2>1, <2>2, StopsKept DEF Breaks, Ending
    <2> QED
      BY <1>1, <2>h, <2>3, <2>4, PageSteps
  <1>2. CASE Leave(p)
    <2>1. PICK k \in Nat : Breaks(p, k)
      BY <1>2, DropBreaks DEF IInv
    <2>2. /\ ~isTyping'[p] /\ late' = late /\ conn' = conn
      BY <1>2 DEF Leave, IInv, TypeOK
    <2>3. Current(p)' = Received(p, k)
      BY <2>1, <2>2, CurrentTypes DEF Breaks, Current, IInv, TypeOK
    <2>4. FramesEnd(p)'
      <3> SUFFICES ASSUME ~(p \in lost'), NEW i \in DOMAIN Received(p, k), Received(p, k)[i]
                   PROVE  \E j \in DOMAIN Received(p, k) : i < j /\ ~Received(p, k)[j]
        BY <2>3 DEF FramesEnd, Ending
      <3>1. ~isTyping[p]
        BY <2>1, <2>2 DEF Breaks
      <3> QED
        BY <2>1, <3>1, ReceivedEnd
    <2>5. Ending(p) \/ p \in late \/ Stops(p) # {} => Ending(p)' \/ p \in late' \/ Stops(p)' # {}
      BY <2>1, <2>2, StopsKept DEF Breaks, Ending
    <2>6. Ahead(p)'
      BY <2>1, <2>2, AheadKept DEF Ahead
    <2> QED
      BY <1>2, <2>4, <2>5, <2>6, PageSteps
  <1>3. CASE Reconnect(p)
    <2>1. /\ Current(p)' = Current(p) /\ Stops(p)' = Stops(p) /\ late' = late
          /\ (Ending(p) <=> Ending(p)')
      BY <1>3 DEF Reconnect, Stops, Ending, Current
    <2>2. FramesEnd(p)' /\ Ahead(p)'
      BY <1>3, <2>1 DEF Reconnect, IInv, StartsEnd, FramesEnd, Ahead
    <2> QED
      BY <1>3, <2>1, <2>2, PageSteps
  <1> QED
    BY <1>1, <1>2, <1>3

LEMMA RelaySteps ==
  ASSUME IInv, NEW p \in Pages, NEW n \in Connections, Relay(p, n)
  PROVE  StartsEnd' /\ LineIsTrue'
  <1> DEFINE f == frames[p][n]
  <1>f. /\ f \in Seq(BOOLEAN) /\ f # <<>> /\ inbox \in Seq(Events)
        /\ conn[p] \in Connections
    BY DEF IInv, TypeOK, Relay, Events
  <1>h. 1 \in DOMAIN f /\ f[1] = Head(f)
    BY <1>f
  <1>1. /\ frames' = [frames EXCEPT ![p][n] = Tail(f)]
        /\ UNCHANGED <<owner, isTyping, conn, text>>
        /\ lost \subseteq lost' /\ late \subseteq late'
    BY DEF IInv, TypeOK, Relay
  <1>2. /\ frames'[p][n] = Tail(f)
        /\ \A m \in Connections \ {n} : frames'[p][m] = frames[p][m]
        /\ \A q \in Pages \ {p} : frames'[q] = frames[q]
    BY <1>1 DEF IInv, TypeOK
  <1>3. \A q \in Pages \ {p} : Stops(q)' = Stops(q)
    BY <1>2 DEF Stops
  <1>4. ASSUME NEW m \in Stops(p)
        PROVE  m \in Stops(p)' \/ (m = n /\ ~Head(f))
    <2>1. CASE m # n
      BY <1>2, <2>1 DEF Stops
    <2>2. CASE m = n /\ Head(f)
      <3>1. PICK j \in DOMAIN f : ~f[j]
        BY <2>2 DEF Stops, StopIn
      <3>a. f[1] = Head(f) /\ j \in Nat
        BY <1>f
      <3>b. j # 1
        BY <2>2, <3>1, <3>a
      <3>2. j - 1 \in DOMAIN Tail(f) /\ Tail(f)[j - 1] = f[j]
        BY <1>f, <3>a, <3>b
      <3> QED
        BY <1>2, <2>2, <3>1, <3>2 DEF Stops, StopIn
    <2> QED
      BY <2>1, <2>2
  <1>5. \A q \in Pages : (Ending(q) => Ending(q)') /\ (q \in late => q \in late')
    BY <1>1 DEF Ending
  <1>6. \A q \in Pages : FramesEnd(q)'
    <2>1. \A q \in Pages \ {p} : FramesEnd(q)'
      BY <1>1, <1>2, <1>5 DEF IInv, StartsEnd, FramesEnd, Current
    <2>2. CASE conn[p] # n
      <3>1. Current(p)' = Current(p)
        BY <1>f, <1>1, <1>2, <2>2 DEF Current
      <3> QED
        BY <1>5, <2>1, <3>1 DEF IInv, StartsEnd, FramesEnd
    <2>3. CASE conn[p] = n
      <3>1. Current(p) = f /\ Current(p)' = Tail(f)
        BY <1>1, <1>2, <2>3 DEF Current
      <3>2. ASSUME NEW i \in DOMAIN Tail(f), Tail(f)[i]
            PROVE  Ending(p)' \/ \E j \in DOMAIN Tail(f) : i < j /\ ~Tail(f)[j]
        <4>1. i \in Nat /\ i + 1 \in DOMAIN f /\ f[i + 1]
          BY <1>f, <3>2
        <4>2. Ending(p) \/ \E j \in DOMAIN f : i + 1 < j /\ ~f[j]
          BY <3>1, <4>1 DEF IInv, StartsEnd, FramesEnd
        <4>3. ASSUME NEW j \in DOMAIN f, i + 1 < j, ~f[j]
              PROVE  j - 1 \in DOMAIN Tail(f) /\ i < j - 1 /\ ~Tail(f)[j - 1]
          BY <1>f, <4>1, <4>3
        <4> QED
          BY <1>5, <4>2, <4>3
      <3> QED
        BY <2>1, <3>1, <3>2 DEF FramesEnd
    <2> QED
      BY <2>2, <2>3
  <1>7. \A q \in Pages : Ahead(q)'
    <2>1. ~(conn[p] < n)
      BY <1>f DEF IInv, StartsEnd, Ahead
    <2>2. \A m \in Connections : conn[p] < m => m # n
      BY <2>1
    <2> QED
      BY <1>1, <1>2, <2>2 DEF IInv, StartsEnd, Ahead
  <1>8. CASE joined
    <2> DEFINE e == [page |-> p, start |-> Head(f)]
               last == Len(inbox) + 1
    <2>1. inbox' = Append(inbox, e)
      BY <1>8 DEF Relay
    <2>2. e \in Events
      <3>1. Head(f) \in BOOLEAN
        BY <1>f, HeadTailProperties
      <3> QED
        BY <3>1 DEF Events
    <2>3. /\ DOMAIN inbox' = DOMAIN inbox \union {last}
          /\ inbox'[last] = e
          /\ \A i \in DOMAIN inbox : inbox'[i] = inbox[i] /\ i < last
      BY <1>f, <2>1, <2>2
    <2>4. \A q \in Pages : InInbox(q) \subseteq InInbox(q)'
      BY <2>3 DEF InInbox
    <2>5. ~Head(f) => last \in InInbox(p)'
      <3>1. inbox'[last].page = p /\ inbox'[last].start = Head(f) /\ last \in DOMAIN inbox'
        BY <2>3
      <3> QED
        BY <3>1 DEF InInbox
    <2>6. Head(f) => Ending(p)' \/ p \in late' \/ Stops(p)' # {}
      <3> SUFFICES ASSUME Head(f), ~Ending(p)', ~(p \in late') PROVE Stops(p)' # {}
        OBVIOUS
      <3>1. ~isTyping[p] /\ p \notin lost
        BY <1>1 DEF Ending
      <3>2. CASE n = conn[p]
        <4>1. 1 \in DOMAIN f /\ f[1]
          BY <1>h
        <4>2. \E j \in DOMAIN f : ~f[j]
          BY <3>1, <3>2, <4>1 DEF IInv, StartsEnd, FramesEnd, Current, Ending
        <4>3. n \in Stops(p)
          BY <4>2 DEF Stops, StopIn
        <4> QED
          BY <1>4, <4>3
      <3>3. CASE n # conn[p]
        <4>1. Stops(p) # {}
          BY <1>8, <3>1, <3>3 DEF Relay, Overtakes
        <4> QED
          BY <1>4, <4>1
      <3> QED
        BY <3>2, <3>3
    <2>7. \A q \in Pages : Stops(q) # {} =>
            Stops(q)' # {} \/ last \in InInbox(q)'
      BY <1>3, <1>4, <2>5
    <2>8. ASSUME NEW q \in Pages PROVE InboxEnds(q)'
      <3> SUFFICES ASSUME NEW i \in DOMAIN inbox', inbox'[i].page = q, inbox'[i].start
                   PROVE  \/ Ending(q)' \/ q \in late' \/ Stops(q)' # {}
                          \/ \E j \in InInbox(q)' : i < j
        BY DEF InboxEnds
      <3>1. CASE i \in DOMAIN inbox
        <4>1. \/ Ending(q) \/ q \in late \/ Stops(q) # {}
              \/ \E j \in InInbox(q) : i < j
          BY <2>3, <3>1 DEF IInv, StartsEnd, InboxEnds
        <4> QED
          BY <1>5, <2>3, <2>4, <2>7, <3>1, <4>1
      <3>2. CASE i = last
        <4>1. q = p /\ Head(f)
          <5>1. inbox'[last].page = p /\ inbox'[last].start = Head(f)
            BY <2>3
          <5>2. inbox'[last].page = q /\ inbox'[last].start
            BY <3>2
          <5> QED
            BY <5>1, <5>2
        <4> QED
          BY <2>6, <4>1
      <3> QED
        BY <2>3, <3>1, <3>2
    <2>9. \A q \in Pages : Explained(q) => Explained(q)'
      BY <1>5, <2>4, <2>7 DEF Explained
    <2>10. LineIsTrue'
      BY <1>1, <2>9 DEF IInv, LineIsTrue, PagesOf
    <2> QED
      BY <1>6, <1>7, <2>8, <2>10 DEF StartsEnd
  <1>9. CASE ~joined
    <2>1. inbox' = inbox /\ \A q \in Pages : InInbox(q)' = InInbox(q)
      BY <1>9 DEF Relay, InInbox
    <2>2. ~Head(f) => p \in lost'
      BY <1>9 DEF Relay
    <2>3. \A q \in Pages : Stops(q) # {} => Ending(q)' \/ Stops(q)' # {}
      BY <1>3, <1>4, <2>2 DEF Ending
    <2>4. \A q \in Pages : InboxEnds(q)'
      BY <1>5, <2>1, <2>3 DEF IInv, StartsEnd, InboxEnds
    <2>5. \A q \in Pages : Explained(q) => Explained(q)'
      BY <1>5, <2>1, <2>3 DEF Explained
    <2>6. LineIsTrue'
      BY <1>1, <2>5 DEF IInv, LineIsTrue, PagesOf
    <2> QED
      BY <1>6, <1>7, <2>4, <2>6 DEF StartsEnd
  <1> QED
    BY <1>8, <1>9

LEMMA ShowSteps ==
  ASSUME IInv, ShowTyping
  PROVE  StartsEnd' /\ LineIsTrue'
  <1> DEFINE e == Head(inbox)
  <1>f. inbox \in Seq(Events) /\ inbox # <<>> /\ e \in Events
    <2>1. inbox \in Seq(Events) /\ inbox # <<>>
      BY DEF IInv, TypeOK, ShowTyping, Events
    <2> QED
      BY <2>1, HeadTailProperties
  <1>1. inbox' = Tail(inbox) /\ text' = Shown(e) /\ UNCHANGED <<pages, lost, late>>
    BY DEF ShowTyping
  <1>2. \A q \in Pages : /\ Stops(q)' = Stops(q) /\ (Ending(q) <=> Ending(q)')
                        /\ FramesEnd(q)' /\ Ahead(q)'
    BY <1>1 DEF pages, Stops, Ending, FramesEnd, Ahead, Current, IInv, StartsEnd
  <1>3. \A q \in Pages : \A j \in InInbox(q) : j = 1 \/ (j - 1 \in InInbox(q)' /\ j \in Nat)
    BY <1>f, <1>1 DEF InInbox, Events
  <1>4. ASSUME NEW q \in Pages PROVE InboxEnds(q)'
    <2> SUFFICES ASSUME NEW i \in DOMAIN Tail(inbox),
                        Tail(inbox)[i].page = q, Tail(inbox)[i].start
                 PROVE  \/ Ending(q)' \/ q \in late' \/ Stops(q)' # {}
                        \/ \E j \in InInbox(q)' : i < j
      BY <1>1 DEF InboxEnds
    <2>1. i \in Nat /\ i # 0 /\ i + 1 \in DOMAIN inbox /\ inbox[i + 1] = Tail(inbox)[i]
      BY <1>f
    <2>2. Ending(q) \/ q \in late \/ Stops(q) # {} \/ \E j \in InInbox(q) : i + 1 < j
      BY <2>1 DEF IInv, StartsEnd, InboxEnds
    <2>3. ASSUME NEW j \in InInbox(q), i + 1 < j
          PROVE  j - 1 \in InInbox(q)' /\ i < j - 1
      BY <1>3, <2>1, <2>3
    <2> QED
      BY <1>1, <1>2, <2>2, <2>3
  <1>5. LineIsTrue'
    <2> SUFFICES ASSUME text' \in Users
                 PROVE  text' # Me /\ \E p \in PagesOf(text') : Explained(p)'
      BY <1>1 DEF LineIsTrue, PagesOf, pages
    <2>1. CASE owner[e.page] = Me
      <3>1. text' = text
        BY <1>1, <2>1 DEF Shown
      <3>2. \A q \in Pages : owner[q] # Me => 1 \notin InInbox(q)
        BY <1>f, <2>1 DEF InInbox
      <3>3. \A q \in Pages : owner[q] # Me /\ Explained(q) => Explained(q)'
        BY <1>1, <1>2, <1>3, <3>2 DEF Explained
      <3> QED
        BY <3>1, <3>3 DEF IInv, LineIsTrue, PagesOf
    <2>2. CASE owner[e.page] # Me /\ e.start
      <3>1. text' = owner[e.page]
        BY <1>1, <2>2 DEF Shown
      <3>2. 1 \in DOMAIN inbox /\ inbox[1] = e
        BY <1>f, HeadTailProperties
      <3>p. PICK r \in Pages : r = e.page
        BY <1>f DEF Events
      <3>3. Ending(r) \/ r \in late \/ Stops(r) # {} \/ \E j \in InInbox(r) : 1 < j
        BY <2>2, <3>2, <3>p DEF IInv, StartsEnd, InboxEnds
      <3>4. Explained(r)'
        <4>1. ASSUME NEW j \in InInbox(r), 1 < j PROVE j - 1 \in InInbox(r)'
          BY <1>3, <4>1
        <4> QED
          BY <1>1, <1>2, <3>3, <4>1 DEF Explained
      <3>5. r \in PagesOf(text') /\ text' # Me
        BY <2>2, <3>1, <3>p DEF PagesOf
      <3> QED
        BY <3>4, <3>5
    <2>3. CASE owner[e.page] # Me /\ ~e.start
      <3>1. text' = "online"
        BY <1>1, <2>3 DEF Shown
      <3> QED
        BY <3>1, UsersAssumption
    <2> QED
      BY <1>f, <2>1, <2>2, <2>3 DEF Events
  <1> QED
    BY <1>2, <1>4, <1>5 DEF StartsEnd

LEMMA ReaderSteps ==
  ASSUME IInv, DropReader \/ JoinReader \/ ShowPresence \/ UNCHANGED vars
  PROVE  StartsEnd' /\ LineIsTrue'
  <1>1. UNCHANGED <<pages, late>> /\ lost \subseteq lost'
    BY DEF DropReader, JoinReader, ShowPresence, vars
  <1>2. \A q \in Pages : /\ Stops(q)' = Stops(q) /\ (Ending(q) => Ending(q)')
                         /\ FramesEnd(q)' /\ Ahead(q)'
    BY <1>1 DEF pages, Stops, Ending, FramesEnd, Ahead, Current, IInv, StartsEnd
  <1>3. CASE DropReader
    <2>1. text' = text /\ inbox' = <<>> /\ \A q \in Pages : InInbox(q) # {} => q \in lost'
      BY <1>3 DEF DropReader
    <2>2. \A q \in Pages : InboxEnds(q)'
      BY <2>1 DEF InboxEnds
    <2>3. \A q \in Pages : Explained(q) => Explained(q)'
      BY <1>1, <1>2, <2>1 DEF Explained, Ending
    <2> QED
      BY <1>1, <1>2, <2>1, <2>2, <2>3 DEF StartsEnd, IInv, LineIsTrue, PagesOf, pages
  <1>4. CASE JoinReader \/ ShowPresence \/ UNCHANGED vars
    <2>1. inbox' = inbox /\ (text' = text \/ text' \notin Users)
      BY <1>4, UsersAssumption DEF JoinReader, ShowPresence, vars, reader
    <2>2. \A q \in Pages : InInbox(q)' = InInbox(q)
      BY <2>1 DEF InInbox
    <2>3. \A q \in Pages : InboxEnds(q)'
      BY <1>1, <1>2, <2>1, <2>2 DEF IInv, StartsEnd, InboxEnds
    <2>4. \A q \in Pages : Explained(q) => Explained(q)'
      BY <1>1, <1>2, <2>2 DEF Explained
    <2> QED
      BY <1>1, <1>2, <2>1, <2>3, <2>4 DEF StartsEnd, IInv, LineIsTrue, PagesOf, pages
  <1> QED
    BY <1>3, <1>4

(* However pages start, stop, break, reconnect and leave, and whatever old *)
(* consumers relay behind their back, "is typing" needs somebody who types,*)
(* a stop under way, or a stop that was lost or overtaken.                 *)
THEOREM NoFalseTyping == Spec => []TypingIsTrue
  <1>1. Init => IInv
    <2>1. Init => StartsEnd
      <3>1. Init => /\ inbox = <<>> /\ \A p \in Pages : Current(p) = <<>>
                    /\ \A p \in Pages, n \in Connections : frames[p][n] = <<>>
        BY BoundsAssumption DEF Init, Current, Connections
      <3>2. DOMAIN <<>> = {}
        OBVIOUS
      <3> QED
        BY <3>1, <3>2 DEF StartsEnd, FramesEnd, InboxEnds, Ahead
    <2>2. Init => LineIsTrue
      BY UsersAssumption DEF Init, LineIsTrue
    <2> QED
      BY <2>1, <2>2, InitTypes DEF IInv
  <1>2. IInv /\ [Next]_vars => IInv'
    BY NextTypes, TypingSteps, ConnectionSteps, RelaySteps, ShowSteps, ReaderSteps
       DEF IInv, Next
  <1>3. IInv => TypingIsTrue
    BY DEF IInv, LineIsTrue, Explained, Ending, TypingIsTrue
  <1> QED
    BY <1>1, <1>2, <1>3, PTL DEF Spec
=================================================================================
